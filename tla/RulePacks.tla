------------------------------ MODULE RulePacks ------------------------------
(***************************************************************************)
(* The files of a project: nanny init, which writes nanny.toml and the     *)
(* app's identity (main.rs, identity.rs), the commands that install and    *)
(* remove rule packs (nanny rules, commands/rules.rs), what nanny run      *)
(* reads of all that (config/src/pack.rs) and the agent that loads the     *)
(* rules it finds (packs.py).                                              *)
(*                                                                         *)
(* A pack is a directory below .nanny/rules with a manifest and modules of *)
(* rules; nanny.toml says which packs govern.  The commands work on both   *)
(* file by file, from several terminals, and may be interrupted anywhere;  *)
(* a run reads them meanwhile.  A file holds nothing, or what it was       *)
(* copied from: the content of a pack is the name of its source.  One      *)
(* module registers one rule, of the module's name.                        *)
(***************************************************************************)
EXTENDS Naturals, FiniteSets, Sequences

CONSTANTS
  Terminals,   \* where commands are given
  Sources,     \* the directories a pack can be installed from
  Pins,        \* the packs, each a name and a version
  PinOf,       \* PinOf[s]: the pack the manifest of source s says it is
  Held,        \* Held[s]: the modules in source s
  Promised,    \* Promised[s]: the modules its signature was made over
  Signed,      \* the sources with a signature
  FolderOf,    \* FolderOf[p]: pack_dir_name of the name and version of p
  Checkouts,   \* what a fresh checkout may declare, and what it has on disk
  Sorted,      \* the directories of .nanny/rules in the order of their names
  Ids,         \* what generate_id may return
  MaxCommands, \* bound: how many commands are given
  MaxDeaths,   \* bound: how many are interrupted
  MaxRuns      \* bound: how often the app is run

Modules == UNION {Held[s] \cup Promised[s] : s \in Sources}

Folders == {Sorted[i] : i \in DOMAIN Sorted}

ASSUME PacksAssumption ==
  /\ Sources # {}
  /\ PinOf \in [Sources -> Pins]
  /\ DOMAIN Held = Sources /\ DOMAIN Promised = Sources
  /\ Signed \subseteq Sources
  /\ Sorted \in Seq(Folders)
  /\ FolderOf \in [Pins -> Folders]
  /\ Checkouts \subseteq [pins : SUBSET Pins, vendored : SUBSET Sources, there : BOOLEAN]
  /\ {MaxCommands, MaxDeaths, MaxRuns} \subseteq Nat
  /\ IsFiniteSet(Ids) /\ Cardinality(Ids) >= MaxCommands

\* What a checkout has on disk was put there by nanny rules add: one pack to a
\* directory, and what was signed.
ASSUME CheckoutAssumption ==
  \A c \in Checkouts : \A s \in c.vendored :
    /\ s \in Signed => Held[s] = Promised[s]
    /\ \A r \in c.vendored : FolderOf[PinOf[r]] = FolderOf[PinOf[s]] => r = s

VARIABLES
  disk,      \* disk[f][p]: the file p of the pack in directory f
  config,    \* nanny.toml
  identity,  \* .nanny/app.json: an app id, or Absent, or Empty
  job,       \* job[t]: the command given in terminal t
  commands,  \* how many have been given
  deaths,    \* how many were interrupted
  overlap,   \* history variable: two commands have run at once
  dirty,     \* history variable: directories a command has left half done
  asked,     \* history variable: the packs the finished commands declared
  minted,    \* history variable: the ids that were written
  raced,     \* history variable: two inits have found no identity at once
  run        \* the app

given  == <<commands, deaths, overlap>>
naming == <<identity, minted, raced>>
vars   == <<disk, config, job, given, naming, dirty, asked, run>>

Manifest == "pack.toml"
Absent   == "absent"
Empty    == "empty"

Parts    == Modules \cup {Manifest}
Contents == Sources \cup {Absent, Empty}

Whole(f, p) == disk[f][p] \in Sources

\* A configuration: whether there is one, the packs it declares, and whether
\* the rest of it is there.  Without the rest no tool is allowed.
Texts == [there : BOOLEAN, pins : SUBSET Pins, rest : BOOLEAN]

NoConfig == [there |-> FALSE, pins |-> {}, rest |-> FALSE]

Blank == [NoConfig EXCEPT !.there = TRUE]

\* default_toml: one tool, no packs.
Default == [Blank EXCEPT !.rest = TRUE]

Jobs ==
  [place : {"idle", "clear", "copy", "fill", "edit", "write",
            "ask", "load", "name", "create", "sign"},
   op : {"add", "remove", "init"}, pin : Pins, source : Sources, left : SUBSET Parts,
   text : Texts]

Rest == CHOOSE j \in Jobs : j.place = "idle"

Folder(t) == FolderOf[job[t].pin]

Working(t) == job[t].place \in {"clear", "copy", "fill"}

Unregistered == "none"

\* What an app is known by that has no identity.
Ephemeral == "ephemeral"

\* No source, id or module goes by a name that means there is none.
ASSUME NamesAssumption ==
  /\ Sources \cap {Absent, Empty, Unregistered} = {}
  /\ Ids \cap {Absent, Empty, Ephemeral} = {}
  /\ Manifest \notin Modules

AppRuns ==
  [place : {"idle", "identify", "check", "load", "import", "ends"}, joined : BOOLEAN,
   app : Ids \cup {Ephemeral}, tools : BOOLEAN, pins : SUBSET Pins, left : SUBSET Pins,
   at : 1 .. Len(Sorted) + 1, todo : SUBSET Modules,
   rules : [Modules -> Sources \cup {Unregistered}], failed : BOOLEAN,
   moved : SUBSET Folders, nth : 0 .. MaxRuns]

NotRun(n) ==
  [place |-> "idle", joined |-> FALSE, app |-> Ephemeral, tools |-> FALSE, pins |-> {},
   left |-> {}, at |-> 1, todo |-> {}, rules |-> [x \in Modules |-> Unregistered],
   failed |-> FALSE, moved |-> {}, nth |-> n]

\* Directory f with a copy of the source of those that belongs there, if any.
Vendored(sources, f) ==
  [p \in Parts |->
     IF \E s \in sources : FolderOf[PinOf[s]] = f /\ p \in Held[s] \cup {Manifest}
     THEN CHOOSE s \in sources : FolderOf[PinOf[s]] = f
     ELSE Absent]

\* A project as it is checked out: what is declared need not be there.
PacksInit ==
  /\ \E c \in Checkouts :
       /\ disk = [f \in Folders |-> Vendored(c.vendored, f)]
       /\ config = [there |-> c.there, pins |-> c.pins, rest |-> c.there]
  /\ identity = Absent /\ minted = {} /\ raced = FALSE
  /\ job = [t \in Terminals |-> Rest]
  /\ commands = 0 /\ deaths = 0 /\ overlap = FALSE
  /\ dirty = {}
  /\ asked = config.pins
  /\ run = NotRun(0)

-----------------------------------------------------------------------------
(* The commands *)

\* The fault of a digest that is read and not compared.
Verified_Never(s) == TRUE

\* verify: a source with a signature holds what was signed.
Verified(s) == s \in Signed => Held[s] = Promised[s]

Give(t, j) ==
  /\ job[t].place = "idle"
  /\ commands < MaxCommands /\ commands' = commands + 1
  /\ job' = [job EXCEPT ![t] = j]
  /\ overlap' = (overlap \/ \E u \in Terminals : job[u].place # "idle")
  /\ UNCHANGED <<disk, config, naming, deaths, asked>>

\* Nobody works on one pack from two terminals at once.
GivePack(t, j) ==
  /\ \A u \in Terminals : Working(u) => Folder(u) # FolderOf[j.pin]
  /\ Give(t, j)
  /\ dirty' = dirty \cup {FolderOf[j.pin]}
  /\ run' = IF run.place = "idle" THEN run ELSE [run EXCEPT !.moved = @ \cup {FolderOf[j.pin]}]

\* nanny rules add: refused before anything is touched when the manifest is
\* not that of the pack that was asked for, or the digest is wrong.
Add(t) ==
  \E s \in Sources :
    /\ Verified(s)
    /\ GivePack(t, [place |-> "clear", op |-> "add", pin |-> PinOf[s], source |-> s,
                    left |-> Held[s] \cup {Manifest}, text |-> Blank])

\* nanny rules remove.
Remove(t) ==
  \E p \in Pins :
    GivePack(t, [Rest EXCEPT !.place = "clear", !.op = "remove", !.pin = p, !.left = {},
                             !.text = Blank])

\* nanny init: a nanny.toml that is there is replaced only when asked to.
Init(t) ==
  /\ Give(t, [Rest EXCEPT !.place = IF config.there THEN "ask" ELSE "edit",
                          !.op = "init", !.text = Default])
  /\ UNCHANGED <<dirty, run>>

Put(t, p, content) == disk' = [disk EXCEPT ![Folder(t)][p] = content]

Goes(t, place) == job' = [job EXCEPT ![t].place = place]

\* remove_dir_all, in whatever order.
Unlink(t) ==
  /\ job[t].place = "clear"
  /\ \E p \in Parts : disk[Folder(t)][p] # Absent /\ Put(t, p, Absent)
  /\ UNCHANGED <<config, job, given, naming, dirty, asked, run>>

Cleared(t) == \A p \in Parts : disk[Folder(t)][p] = Absent

\* copy_dir: file after file, in whatever order; each is there before it has
\* its content.
CreateFile(t) ==
  /\ \/ job[t].place = "clear" /\ job[t].op = "add" /\ Cleared(t)
     \/ job[t].place = "copy"
  /\ \E p \in job[t].left :
       /\ Put(t, p, Empty)
       /\ job' = [job EXCEPT ![t].place = "fill", ![t].left = @ \ {p}]
  /\ UNCHANGED <<config, given, naming, dirty, asked, run>>

FillFile(t) ==
  /\ job[t].place = "fill"
  /\ \E p \in Parts : disk[Folder(t)][p] = Empty /\ Put(t, p, job[t].source)
  /\ Goes(t, "copy")
  /\ UNCHANGED <<config, given, naming, dirty, asked, run>>

\* The fault of a document made anew from what the command knows.
Edited_Anew(j) ==
  [config EXCEPT !.pins = IF j.op = "add" THEN {j.pin} ELSE @ \ {j.pin}]

\* What nanny.toml is to say: an empty file is a valid one to edit.
Edited(j) ==
  [config EXCEPT !.pins = IF j.op = "add" THEN @ \cup {j.pin} ELSE @ \ {j.pin}]

Finish(t) ==
  /\ job' = [job EXCEPT ![t] = Rest]
  /\ asked' = IF job[t].op = "add" THEN asked \cup {job[t].pin} ELSE asked \ {job[t].pin}

\* The directory is done and nanny.toml read: without one, what was to be
\* declared is an error, and what was to be taken out is not; a pack that is
\* declared already is not declared again.
ReadConfig(t) ==
  /\ \/ job[t].place = "clear" /\ job[t].op = "remove" /\ Cleared(t)
     \/ job[t].place = "copy" /\ job[t].left = {}
  /\ dirty' = dirty \ {Folder(t)}
  /\ IF ~config.there
     THEN job' = [job EXCEPT ![t] = Rest] /\ UNCHANGED asked
     ELSE IF job[t].op = "add" /\ job[t].pin \in config.pins
     THEN Finish(t)
     ELSE /\ job' = [job EXCEPT ![t].place = "edit", ![t].text = Edited(job[t])]
          /\ UNCHANGED asked
  /\ UNCHANGED <<disk, config, given, naming, run>>

\* nanny.toml is cut to nothing and then filled.
CutConfig(t) ==
  /\ job[t].place = "edit"
  /\ config' = Blank
  /\ Goes(t, "write")
  /\ UNCHANGED <<disk, given, naming, dirty, asked, run>>

WriteConfig(t) ==
  /\ job[t].place = "write"
  /\ config' = job[t].text
  /\ IF job[t].op = "init"
     THEN Goes(t, "load") /\ asked' = {}
     ELSE Finish(t)
  /\ UNCHANGED <<disk, given, naming, dirty, run>>

\* The answer to whether nanny.toml is to be replaced.
Answer(t) ==
  /\ job[t].place = "ask"
  /\ \E place \in {"edit", "load"} : Goes(t, place)
  /\ UNCHANGED <<disk, config, given, naming, dirty, asked, run>>

\* Whatever became of nanny.toml, an app without an identity is asked its name;
\* an app.json that cannot be read is an error.
LoadIdentity(t) ==
  /\ job[t].place = "load"
  /\ IF identity = Absent THEN Goes(t, "name") ELSE job' = [job EXCEPT ![t] = Rest]
  /\ UNCHANGED <<disk, config, given, naming, dirty, asked, run>>

\* The fault of not looking again once the name is typed.
Unclaimed_Anyway == TRUE

\* AppIdentity::create looks whether there is an app.json by now.
Unclaimed == identity = Absent

Name(t) ==
  /\ job[t].place = "name"
  /\ IF Unclaimed THEN Goes(t, "create") ELSE job' = [job EXCEPT ![t] = Rest]
  /\ raced' = (raced \/ (Unclaimed /\ \E u \in Terminals : job[u].place = "create"))
  /\ UNCHANGED <<disk, config, given, identity, minted, dirty, asked, run>>

CreateIdentity(t) ==
  /\ job[t].place = "create"
  /\ identity' = Empty
  /\ Goes(t, "sign")
  /\ UNCHANGED <<disk, config, given, minted, raced, dirty, asked, run>>

SignIdentity(t) ==
  /\ job[t].place = "sign"
  /\ identity' = CHOOSE id \in Ids : id \notin minted
  /\ minted' = minted \cup {identity'}
  /\ job' = [job EXCEPT ![t] = Rest]
  /\ UNCHANGED <<disk, config, given, raced, dirty, asked, run>>

Die(t) ==
  /\ job[t].place # "idle"
  /\ deaths < MaxDeaths /\ deaths' = deaths + 1
  /\ job' = [job EXCEPT ![t] = Rest]
  /\ UNCHANGED <<disk, config, commands, overlap, naming, dirty, asked, run>>

-----------------------------------------------------------------------------
(* The app *)

\* nanny run: under a governor of its own the packs that nanny.toml declares
\* are looked up; joined to another's, the file is read for the command only.
\* What the tools are then allowed is up to the governor, which has read its own.
StartRun ==
  /\ run.place = "idle" /\ run.nth < MaxRuns
  /\ config.there
  /\ \E joined \in BOOLEAN :
       run' = [NotRun(run.nth + 1) EXCEPT
                 !.place = "identify",
                 !.joined = joined, !.tools = joined \/ config.rest,
                 !.pins = config.pins, !.left = config.pins, !.moved = dirty]
  /\ UNCHANGED <<disk, config, job, given, naming, dirty, asked>>

\* AppIdentity::load: a governor does not start on an app.json it cannot read;
\* a joined app goes undeclared.
Identify ==
  /\ run.place = "identify"
  /\ run' = IF identity = Empty /\ ~run.joined
            THEN NotRun(run.nth)
            ELSE [run EXCEPT !.place = IF run.joined THEN "load" ELSE "check",
                             !.app = IF identity \in Ids THEN identity ELSE @]
  /\ UNCHANGED <<disk, config, job, given, naming, dirty, asked>>

\* The fault of a lookup that passes over what is not there.
Resolves_Missing(p) ==
  Whole(FolderOf[p], Manifest) => PinOf[disk[FolderOf[p]][Manifest]] = p

\* load_pack: the manifest is there and is that of the pack.
Resolves(p) ==
  /\ Whole(FolderOf[p], Manifest)
  /\ PinOf[disk[FolderOf[p]][Manifest]] = p

CheckPack ==
  /\ run.place = "check"
  /\ \E p \in run.left :
       run' = IF Resolves(p) THEN [run EXCEPT !.left = @ \ {p}] ELSE NotRun(run.nth)
  /\ UNCHANGED <<disk, config, job, given, naming, dirty, asked>>

Launch ==
  /\ run.place = "check" /\ run.left = {}
  /\ run' = [run EXCEPT !.place = "load"]
  /\ UNCHANGED <<disk, config, job, given, naming, dirty, asked>>

Here == Sorted[run.at]

\* load_installed_packs, in the first governed call: each directory in turn,
\* declared or not; one without a manifest is passed over.
LoadPack ==
  /\ run.place = "load"
  /\ run' = IF run.at > Len(Sorted)
            THEN [run EXCEPT !.place = "ends"]
            ELSE IF Whole(Here, Manifest)
            THEN [run EXCEPT !.place = "import",
                             !.todo = {x \in Modules : disk[Here][x] # Absent}]
            ELSE [run EXCEPT !.at = @ + 1]
  /\ UNCHANGED <<disk, config, job, given, naming, dirty, asked>>

\* The fault of a registry in which the first of a name stays.
Registered_First(rules, x, s) ==
  IF rules[x] = Unregistered THEN [rules EXCEPT ![x] = s] ELSE rules

\* A rule of the same name is replaced.
Registered(rules, x, s) == [rules EXCEPT ![x] = s]

\* The modules of a pack are imported one by one.  One without content
\* registers nothing; one that is gone raises, and nothing more is loaded.
ImportModule ==
  /\ run.place = "import"
  /\ \E x \in run.todo :
       run' = IF Whole(Here, x)
              THEN [run EXCEPT !.todo = @ \ {x}, !.rules = Registered(@, x, disk[Here][x])]
              ELSE IF disk[Here][x] = Empty
              THEN [run EXCEPT !.todo = @ \ {x}]
              ELSE [run EXCEPT !.place = "ends", !.todo = {}, !.failed = TRUE]
  /\ UNCHANGED <<disk, config, job, given, naming, dirty, asked>>

NextPack ==
  /\ run.place = "import" /\ run.todo = {}
  /\ run' = [run EXCEPT !.place = "load", !.at = @ + 1]
  /\ UNCHANGED <<disk, config, job, given, naming, dirty, asked>>

EndRun ==
  /\ run.place = "ends"
  /\ run' = NotRun(run.nth)
  /\ UNCHANGED <<disk, config, job, given, naming, dirty, asked>>

-----------------------------------------------------------------------------
Command(t) ==
  \/ Add(t) \/ Remove(t) \/ Init(t)
  \/ Unlink(t) \/ CreateFile(t) \/ FillFile(t)
  \/ ReadConfig(t) \/ CutConfig(t) \/ WriteConfig(t)
  \/ Answer(t) \/ LoadIdentity(t) \/ Name(t) \/ CreateIdentity(t) \/ SignIdentity(t)
  \/ Die(t)

AppStep == StartRun \/ Identify \/ CheckPack \/ Launch \/ LoadPack \/ ImportModule \/ NextPack \/ EndRun

PacksNext == AppStep \/ \E t \in Terminals : Command(t)

PacksSpec == PacksInit /\ [][PacksNext]_vars
=============================================================================
