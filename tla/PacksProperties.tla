-------------------------- MODULE PacksProperties ---------------------------
(***************************************************************************)
(* What must hold between the packs on disk, what nanny.toml declares and  *)
(* the rules an agent runs with.                                           *)
(***************************************************************************)
EXTENDS RulePacks

PacksTypeOK ==
  /\ disk \in [Folders -> [Parts -> Contents]]
  /\ config \in Texts
  /\ identity \in Ids \cup {Absent, Empty}
  /\ job \in [Terminals -> Jobs]
  /\ commands \in 0 .. MaxCommands /\ deaths \in 0 .. MaxDeaths /\ overlap \in BOOLEAN
  /\ dirty \in SUBSET Folders
  /\ asked \in SUBSET Pins
  /\ minted \in SUBSET Ids /\ raced \in BOOLEAN
  /\ run \in AppRuns

-----------------------------------------------------------------------------
(* The disk *)

\* The copy of source s, whole and nothing else, is in directory f.
Copied(s, f) ==
  \A p \in Parts : disk[f][p] = IF p \in Held[s] \cup {Manifest} THEN s ELSE Absent

\* A directory no command has left half done holds nothing, or the whole of
\* one source, with all that its signature covers: an install over an older one
\* leaves no module of it behind, and none is mixed.
InstalledIsIntact ==
  \A f \in Folders \ dirty :
    \/ \A p \in Parts : disk[f][p] = Absent
    \/ \E s \in Sources :
         /\ FolderOf[PinOf[s]] = f /\ Copied(s, f)
         /\ s \in Signed => Held[s] = Promised[s]

\* As long as no two commands overlap, a nanny.toml that still allows a tool
\* declares the packs it was asked to declare and no others, whatever was
\* interrupted: a write that stops half way leaves a file that allows nothing.
DeclarationsSurvive == (~overlap /\ config.rest) => config.pins = asked

-----------------------------------------------------------------------------
(* The agent *)

\* Every rule of the pack in directory f is registered.
Enforced(f) ==
  \A x \in Modules : disk[f][x] \in Sources => run.rules[x] # Unregistered

\* The agent has loaded its rules, and f did not change under it.
Loaded(f) == run.place = "ends" /\ ~run.failed /\ f \notin run.moved

\* Under a governor of its own an agent has the rules of every pack declared
\* in the nanny.toml it was started with, if nothing touched the pack since or
\* was interrupted in it before: concurrent commands may have lost a
\* declaration or a directory, and two names may share a directory.
DeclaredIsEnforced ==
  \A p \in run.pins :
    (~run.joined /\ Loaded(FolderOf[p])) =>
      /\ \E s \in Sources : PinOf[s] = p /\ disk[FolderOf[p]][Manifest] = s
      /\ Enforced(FolderOf[p])

\* When several packs register a rule of one name, the one last in the order
\* of the directories is in force: for two versions of a pack, the later name.
LastInOrderWins ==
  \A i \in DOMAIN Sorted, x \in Modules :
    /\ \A j \in i .. Len(Sorted) : Loaded(Sorted[j])
    /\ Whole(Sorted[i], x)
    /\ \A j \in (i + 1) .. Len(Sorted) : disk[Sorted[j]][x] = Absent
    => run.rules[x] = disk[Sorted[i]][x]

\* The rules in force are those of the last pack, in states that are well typed.
PacksInvariant == PacksTypeOK /\ LastInOrderWins

-----------------------------------------------------------------------------
(* The identity *)

\* identity.rs: "an app's identity is set once and never regenerated".  Once one
\* is written it stays, whoever is still being asked for a name and whatever is
\* interrupted, and a run is known by no other; unless two inits have both found
\* none before either created it.
IdentityIsPermanent ==
  ~raced => minted \cup ({run.app} \ {Ephemeral}) \subseteq {identity}
=============================================================================
