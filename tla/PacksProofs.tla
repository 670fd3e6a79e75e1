---------------------------- MODULE PacksProofs ----------------------------
(***************************************************************************)
(* What is kept of a project's files, for any number of terminals, packs,  *)
(* modules and commands, however they interleave and wherever they are     *)
(* interrupted.                                                            *)
(*                                                                         *)
(* The packs: whoever works in a directory works there alone and has it    *)
(* listed as half done, so that one that is not listed is whole.  The      *)
(* declarations: a lone command has read what it writes.  The identity:    *)
(* one command at most creates it.  The agent: of a directory nobody has   *)
(* touched since it began, it has loaded what is there now.                *)
(***************************************************************************)
EXTENDS PacksProperties, FiniteSetTheorems, TLAPS

-----------------------------------------------------------------------------
(* Types *)

Busy == {t \in Terminals : job[t].place # "idle"}

\* A command that is under way has minted no id yet, so that one is left for it.
Counted ==
  /\ IsFiniteSet(Busy) /\ IsFiniteSet(minted)
  /\ Cardinality(minted) + Cardinality(Busy) <= commands

\* A directory is looked into when there is one.
Looking == run.place = "import" => run.at <= Len(Sorted)

LEMMA RestType == Rest \in Jobs /\ Rest.place = "idle"
<1>1. PICK s \in Sources : TRUE
  BY PacksAssumption
<1>2. PinOf[s] \in Pins
  BY PacksAssumption
<1>3. NoConfig \in Texts
  BY DEF NoConfig, Texts
<1>4. [place |-> "idle", op |-> "add", pin |-> PinOf[s], source |-> s, left |-> {},
       text |-> NoConfig] \in Jobs
  BY <1>2, <1>3 DEF Jobs
<1> QED
  BY <1>4 DEF Rest

LEMMA TextTypes ==
  /\ NoConfig \in Texts /\ Blank \in Texts /\ Default \in Texts
  /\ ~NoConfig.there /\ ~Blank.rest /\ Default.rest /\ Default.pins = {}
  BY DEF NoConfig, Blank, Default, Texts

LEMMA NotRunType ==
  ASSUME NEW n \in 0 .. MaxRuns
  PROVE  /\ NotRun(n) \in AppRuns
         /\ NotRun(n).place = "idle" /\ NotRun(n).app = Ephemeral /\ NotRun(n).pins = {}
<1>1. Len(Sorted) \in Nat /\ 1 \in 1 .. Len(Sorted) + 1
  BY PacksAssumption
<1>2. [x \in Modules |-> Unregistered] \in [Modules -> Sources \cup {Unregistered}]
  OBVIOUS
<1> QED
  BY <1>1, <1>2 DEF NotRun, AppRuns

LEMMA VendoredType ==
  ASSUME NEW c \in Checkouts, NEW f \in Folders
  PROVE  Vendored(c.vendored, f) \in [Parts -> Contents]
<1>1. c.vendored \in SUBSET Sources
  BY PacksAssumption
<1> SUFFICES ASSUME NEW p \in Parts
             PROVE  (IF \E s \in c.vendored : FolderOf[PinOf[s]] = f /\ p \in Held[s] \cup {Manifest}
                     THEN CHOOSE s \in c.vendored : FolderOf[PinOf[s]] = f
                     ELSE Absent) \in Contents
  BY DEF Vendored
<1>2. CASE \E s \in c.vendored : FolderOf[PinOf[s]] = f /\ p \in Held[s] \cup {Manifest}
  <2>1. (CHOOSE s \in c.vendored : FolderOf[PinOf[s]] = f) \in c.vendored
    BY <1>2
  <2> QED
    BY <1>1, <1>2, <2>1 DEF Contents
<1> QED
  BY <1>2 DEF Contents

LEMMA TypeInit == PacksInit => PacksTypeOK /\ Counted /\ Looking
<1> SUFFICES ASSUME PacksInit
             PROVE  PacksTypeOK /\ Counted /\ Looking
  OBVIOUS
<1>1. PICK c \in Checkouts :
        /\ disk = [f \in Folders |-> Vendored(c.vendored, f)]
        /\ config = [there |-> c.there, pins |-> c.pins, rest |-> c.there]
  BY DEF PacksInit
<1>2. c \in [pins : SUBSET Pins, vendored : SUBSET Sources, there : BOOLEAN]
  BY PacksAssumption
<1>3. disk \in [Folders -> [Parts -> Contents]]
  BY <1>1, VendoredType
<1>4. config \in Texts /\ config.pins \in SUBSET Pins
  BY <1>1, <1>2 DEF Texts
<1>5. job \in [Terminals -> Jobs] /\ Busy = {}
  BY RestType DEF PacksInit, Busy
<1>6. 0 \in 0 .. MaxCommands /\ 0 \in 0 .. MaxDeaths /\ 0 \in 0 .. MaxRuns
  BY PacksAssumption
<1>7. run \in AppRuns /\ run.place = "idle"
  BY <1>6, NotRunType DEF PacksInit
<1>8. Counted
  <2>1. IsFiniteSet({}) /\ Cardinality({}) = 0
    BY FS_EmptySet
  <2> QED
    BY <1>5, <2>1 DEF PacksInit, Counted
<1> QED
  BY <1>3, <1>4, <1>5, <1>6, <1>7, <1>8 DEF PacksInit, PacksTypeOK, Looking

Places == {"idle", "clear", "copy", "fill", "edit", "write", "ask", "load", "name", "create", "sign"}

LEMMA JobTypes ==
  ASSUME NEW j \in Jobs
  PROVE  /\ j.place \in Places /\ j.op \in {"add", "remove", "init"} /\ j.pin \in Pins
         /\ j.source \in Sources /\ j.left \in SUBSET Parts /\ j.text \in Texts
         /\ \A place \in Places : [j EXCEPT !.place = place] \in Jobs
         /\ \A place \in Places, text \in Texts : [j EXCEPT !.place = place, !.text = text] \in Jobs
         /\ \A place \in Places, left \in SUBSET Parts : [j EXCEPT !.place = place, !.left = left] \in Jobs
  BY DEF Jobs, Places

\* The jobs that commands begin with.
LEMMA GivenTypes ==
  /\ \A s \in Sources : [place |-> "clear", op |-> "add", pin |-> PinOf[s], source |-> s,
                         left |-> Held[s] \cup {Manifest}, text |-> Blank] \in Jobs
  /\ \A p \in Pins : [Rest EXCEPT !.place = "clear", !.op = "remove", !.pin = p, !.left = {},
                                  !.text = Blank] \in Jobs
  /\ \A place \in {"ask", "edit"} : [Rest EXCEPT !.place = place, !.op = "init", !.text = Default] \in Jobs
<1>1. ASSUME NEW s \in Sources
      PROVE  [place |-> "clear", op |-> "add", pin |-> PinOf[s], source |-> s,
              left |-> Held[s] \cup {Manifest}, text |-> Blank] \in Jobs
  <2>1. PinOf[s] \in Pins /\ Held[s] \cup {Manifest} \in SUBSET Parts
    BY PacksAssumption DEF Parts, Modules
  <2> QED
    BY <2>1, TextTypes DEF Jobs
<1>2. ASSUME NEW p \in Pins
      PROVE  [Rest EXCEPT !.place = "clear", !.op = "remove", !.pin = p, !.left = {},
                          !.text = Blank] \in Jobs
  BY RestType, TextTypes DEF Jobs
<1>3. ASSUME NEW place \in {"ask", "edit"}
      PROVE  [Rest EXCEPT !.place = place, !.op = "init", !.text = Default] \in Jobs
  BY RestType, TextTypes DEF Jobs
<1> QED
  BY <1>1, <1>2, <1>3

LEMMA DiskTypes ==
  ASSUME PacksTypeOK, NEW t \in Terminals, NEW p \in Parts, NEW content \in Contents,
         Put(t, p, content)
  PROVE  /\ disk' \in [Folders -> [Parts -> Contents]]
         /\ Folder(t) \in Folders
         /\ \A f \in Folders, q \in Parts :
              disk'[f][q] = IF f = Folder(t) /\ q = p THEN content ELSE disk[f][q]
<1>1. disk \in [Folders -> [Parts -> Contents]] /\ job[t] \in Jobs
  BY DEF PacksTypeOK
<1>2. Folder(t) \in Folders
  BY <1>1, JobTypes, PacksAssumption DEF Folder
<1>3. PICK f \in Folders : f = Folder(t)
  BY <1>2
<1>4. disk' = [disk EXCEPT ![f][p] = content]
  BY <1>3 DEF Put
<1>5. disk[f] \in [Parts -> Contents]
  BY <1>1
<1>6. [disk[f] EXCEPT ![p] = content] \in [Parts -> Contents]
  BY <1>5
<1>7. disk' \in [Folders -> [Parts -> Contents]]
  BY <1>1, <1>4, <1>6
<1>8. \A g \in Folders, q \in Parts :
        disk'[g][q] = IF g = f /\ q = p THEN content ELSE disk[g][q]
  BY <1>1, <1>4, <1>5
<1> QED
  BY <1>2, <1>3, <1>7, <1>8

\* A command is given, goes on, or ends.
LEMMA BusyGiven ==
  ASSUME PacksTypeOK, Counted, NEW t \in Terminals, NEW j \in Jobs, Give(t, j), j.place # "idle"
  PROVE  Counted'
<1>1. /\ job \in [Terminals -> Jobs] /\ job[t].place = "idle" /\ commands \in Nat
      /\ job' = [job EXCEPT ![t] = j] /\ commands' = commands + 1 /\ minted' = minted
  BY DEF Give, naming, PacksTypeOK
<1>2. Busy' = Busy \cup {t} /\ t \notin Busy
  BY <1>1 DEF Busy
<1>3. IsFiniteSet(Busy') /\ Cardinality(Busy') = Cardinality(Busy) + 1
  BY <1>2, FS_AddElement DEF Counted
<1>4. Cardinality(Busy) \in Nat /\ Cardinality(minted) \in Nat
  BY FS_CardinalityType DEF Counted
<1> QED
  BY <1>1, <1>3, <1>4 DEF Counted

LEMMA BusyGoes ==
  ASSUME PacksTypeOK, Counted, NEW t \in Terminals, NEW j \in Jobs, job[t].place # "idle",
         job' = [job EXCEPT ![t] = j], minted' = minted, commands' = commands
  PROVE  Counted'
<1>1. job \in [Terminals -> Jobs] /\ commands \in Nat
  BY DEF PacksTypeOK
<1>2. Busy' \in SUBSET Busy
  BY <1>1 DEF Busy
<1>3. IsFiniteSet(Busy') /\ Cardinality(Busy') <= Cardinality(Busy)
  BY <1>2, FS_Subset DEF Counted
<1>4. Cardinality(Busy) \in Nat /\ Cardinality(Busy') \in Nat /\ Cardinality(minted) \in Nat
  BY <1>3, FS_CardinalityType DEF Counted
<1> QED
  BY <1>1, <1>3, <1>4 DEF Counted

\* There is an id for the command that mints one.
LEMMA FreshId ==
  ASSUME PacksTypeOK, Counted, NEW t \in Terminals, job[t].place = "sign"
  PROVE  /\ \E id \in Ids : id \notin minted
         /\ Cardinality(minted) < commands
<1>1. t \in Busy
  BY DEF Busy
<1>2. Cardinality(Busy) \in Nat /\ Cardinality(minted) \in Nat /\ Cardinality(Busy) # 0
  BY <1>1, FS_CardinalityType, FS_EmptySet DEF Counted
<1>3. Cardinality(minted) < commands
  BY <1>2 DEF Counted, PacksTypeOK
<1>4. MaxCommands \in Nat /\ commands \in 0 .. MaxCommands /\ minted \in SUBSET Ids
  BY PacksAssumption DEF PacksTypeOK
<1>5. IsFiniteSet(Ids) /\ Cardinality(Ids) >= MaxCommands /\ Cardinality(Ids) \in Nat
  BY PacksAssumption, FS_CardinalityType
<1>6. minted # Ids
  BY <1>2, <1>3, <1>4, <1>5
<1> QED
  BY <1>3, <1>4, <1>6

LEMMA BusySigned ==
  ASSUME PacksTypeOK, Counted, NEW t \in Terminals, SignIdentity(t)
  PROVE  Counted' /\ identity' \in Ids \ minted
<1>1. /\ job \in [Terminals -> Jobs] /\ commands \in Nat
      /\ job[t].place = "sign" /\ job' = [job EXCEPT ![t] = Rest] /\ commands' = commands
      /\ identity' = CHOOSE id \in Ids : id \notin minted
      /\ minted' = minted \cup {identity'}
  BY DEF SignIdentity, given, PacksTypeOK
<1>2. identity' \in Ids \ minted
  BY <1>1, FreshId
<1>3. Busy' = Busy \ {t} /\ t \in Busy
  BY <1>1, RestType DEF Busy
<1>4. IsFiniteSet(Busy') /\ Cardinality(Busy') = Cardinality(Busy) - 1
  BY <1>3, FS_RemoveElement DEF Counted
<1>5. IsFiniteSet(minted') /\ Cardinality(minted') = Cardinality(minted) + 1
  BY <1>1, <1>2, FS_AddElement DEF Counted
<1>6. Cardinality(Busy) \in Nat /\ Cardinality(minted) \in Nat
  BY FS_CardinalityType DEF Counted
<1> QED
  BY <1>1, <1>2, <1>4, <1>5, <1>6 DEF Counted

\* What becomes of nanny.toml when a pack is declared or taken out.
LEMMA EditedText ==
  ASSUME config \in Texts, NEW j \in Jobs
  PROVE  /\ Edited(j) \in Texts
         /\ Edited(j).rest = config.rest
         /\ Edited(j).pins = IF j.op = "add" THEN config.pins \cup {j.pin} ELSE config.pins \ {j.pin}
<1>1. PICK pins \in SUBSET Pins :
        pins = IF j.op = "add" THEN config.pins \cup {j.pin} ELSE config.pins \ {j.pin}
  BY JobTypes DEF Texts
<1>2. Edited(j) = [config EXCEPT !.pins = pins]
  BY <1>1 DEF Edited
<1> QED
  BY <1>1, <1>2 DEF Texts

Types == PacksTypeOK /\ Counted /\ Looking

\* A command's step that touches neither the app nor the identity.
LEMMA TypeGoes ==
  ASSUME Types, NEW t \in Terminals, NEW j \in Jobs, job[t].place # "idle",
         job' = [job EXCEPT ![t] = j], UNCHANGED <<given, naming, run>>,
         disk' \in [Folders -> [Parts -> Contents]], config' \in Texts,
         dirty' \in SUBSET Folders, asked' \in SUBSET Pins
  PROVE  Types'
<1>1. PacksTypeOK /\ Counted /\ Looking
  BY DEF Types
<1>2. job' \in [Terminals -> Jobs]
  BY <1>1 DEF PacksTypeOK
<1>3. Counted'
  BY <1>1, BusyGoes DEF given, naming
<1> QED
  BY <1>1, <1>2, <1>3 DEF Types, PacksTypeOK, Looking, given, naming

LEMMA TypeGive ==
  ASSUME Types, NEW t \in Terminals, NEW j \in Jobs, j.place # "idle", Give(t, j),
         dirty' \in SUBSET Folders, run' \in AppRuns, Looking'
  PROVE  Types'
<1>1. PacksTypeOK /\ Counted /\ Looking
  BY DEF Types
<1>2. job' \in [Terminals -> Jobs]
  BY <1>1 DEF Give, PacksTypeOK
<1>3. Counted'
  BY <1>1, BusyGiven
<1>4. commands' \in 0 .. MaxCommands
  <2>1. MaxCommands \in Nat /\ commands \in 0 .. MaxCommands
    BY <1>1, PacksAssumption DEF PacksTypeOK
  <2> QED
    BY <2>1 DEF Give
<1>5. overlap' \in BOOLEAN
  BY <1>1 DEF Give, PacksTypeOK
<1> QED
  BY <1>1, <1>2, <1>3, <1>4, <1>5 DEF Types, PacksTypeOK, Give, naming

LEMMA RunMoved ==
  ASSUME NEW r \in AppRuns, NEW f \in Folders
  PROVE  /\ [r EXCEPT !.moved = @ \cup {f}] \in AppRuns
         /\ [r EXCEPT !.moved = @ \cup {f}].place = r.place
         /\ [r EXCEPT !.moved = @ \cup {f}].at = r.at
  BY DEF AppRuns

LEMMA TypePack ==
  ASSUME Types, NEW t \in Terminals, NEW j \in Jobs, j.place # "idle", GivePack(t, j)
  PROVE  Types'
<1>1. PacksTypeOK /\ Looking
  BY DEF Types
<1>2. PICK f \in Folders : f = FolderOf[j.pin]
  BY JobTypes, PacksAssumption
<1>3. /\ Give(t, j) /\ dirty' = dirty \cup {f}
      /\ run' = IF run.place = "idle" THEN run ELSE [run EXCEPT !.moved = @ \cup {f}]
  BY <1>2 DEF GivePack
<1>4. run \in AppRuns /\ dirty \in SUBSET Folders
  BY <1>1 DEF PacksTypeOK
<1>5. run' \in AppRuns /\ run'.place = run.place /\ run'.at = run.at
  BY <1>3, <1>4, RunMoved
<1> QED
  BY <1>1, <1>3, <1>4, <1>5, TypeGive DEF Looking

LEMMA TypeCommand ==
  ASSUME Types, NEW t \in Terminals, Command(t)
  PROVE  Types'
<1>1. PacksTypeOK /\ Counted /\ Looking
  BY DEF Types
<1>2. /\ disk \in [Folders -> [Parts -> Contents]] /\ config \in Texts
      /\ job \in [Terminals -> Jobs] /\ job[t] \in Jobs
      /\ dirty \in SUBSET Folders /\ asked \in SUBSET Pins
      /\ Empty \in Contents /\ Absent \in Contents /\ Sources \in SUBSET Contents
  BY <1>1 DEF PacksTypeOK, Contents
<1>3. \A place \in Places : [job[t] EXCEPT !.place = place] \in Jobs
  BY <1>2, JobTypes
<1>4. Rest \in Jobs /\ Rest.place = "idle"
  BY RestType
<1>5. ASSUME Add(t) PROVE Types'
  <2>1. PICK s \in Sources :
          GivePack(t, [place |-> "clear", op |-> "add", pin |-> PinOf[s], source |-> s,
                       left |-> Held[s] \cup {Manifest}, text |-> Blank])
    BY <1>5 DEF Add
  <2> QED
    BY <2>1, GivenTypes, TypePack
<1>6. ASSUME Remove(t) PROVE Types'
  <2>1. PICK p \in Pins :
          GivePack(t, [Rest EXCEPT !.place = "clear", !.op = "remove", !.pin = p, !.left = {},
                                   !.text = Blank])
    BY <1>6 DEF Remove
  <2>2. PICK j \in Jobs : j = [Rest EXCEPT !.place = "clear", !.op = "remove", !.pin = p, !.left = {},
                                   !.text = Blank]
    BY GivenTypes
  <2>3. j.place = "clear"
    BY <2>2, RestType DEF Jobs
  <2> QED
    BY <2>1, <2>2, <2>3, TypePack
<1>7. ASSUME Init(t) PROVE Types'
  <2>1. PICK place \in {"ask", "edit"} :
          Give(t, [Rest EXCEPT !.place = place, !.op = "init", !.text = Default])
    BY <1>7 DEF Init
  <2>2. PICK j \in Jobs : j = [Rest EXCEPT !.place = place, !.op = "init", !.text = Default]
    BY GivenTypes
  <2>3. j.place = place
    BY <2>2, RestType DEF Jobs
  <2>4. UNCHANGED <<dirty, run>>
    BY <1>7 DEF Init
  <2> QED
    BY <1>1, <2>1, <2>2, <2>3, <2>4, TypeGive DEF PacksTypeOK, Looking
<1>8. ASSUME Unlink(t) PROVE Types'
  <2>1. PICK p \in Parts : Put(t, p, Absent)
    BY <1>8 DEF Unlink
  <2>2. disk' \in [Folders -> [Parts -> Contents]]
    BY <1>1, <1>2, <2>1, DiskTypes
  <2> QED
    BY <1>1, <2>2, <1>8 DEF Unlink, Types, PacksTypeOK, Counted, Busy, Looking, given, naming
<1>9. ASSUME CreateFile(t) PROVE Types'
  <2>1. PICK p \in job[t].left :
          /\ Put(t, p, Empty)
          /\ job' = [job EXCEPT ![t].place = "fill", ![t].left = @ \ {p}]
    BY <1>9 DEF CreateFile
  <2>2. p \in Parts
    BY <1>2, JobTypes
  <2>3. disk' \in [Folders -> [Parts -> Contents]]
    BY <1>1, <1>2, <2>1, <2>2, DiskTypes
  <2>4. PICK j \in Jobs : j = [job[t] EXCEPT !.place = "fill", !.left = @ \ {p}]
    <3>1. "fill" \in Places /\ job[t].left \ {p} \in SUBSET Parts
      BY <1>2, JobTypes DEF Places
    <3> QED
      BY <1>2, <3>1, JobTypes
  <2>5. job' = [job EXCEPT ![t] = j]
    BY <1>2, <2>1, <2>4
  <2> QED
    BY <1>2, <1>9, <2>3, <2>5, TypeGoes DEF CreateFile
<1>10. ASSUME FillFile(t) PROVE Types'
  <2>1. PICK p \in Parts : Put(t, p, job[t].source)
    BY <1>10 DEF FillFile
  <2>2. job[t].source \in Contents
    BY <1>2, JobTypes
  <2>3. disk' \in [Folders -> [Parts -> Contents]]
    BY <1>1, <1>2, <2>1, <2>2, DiskTypes
  <2>4. PICK j \in Jobs : j = [job[t] EXCEPT !.place = "copy"]
    BY <1>3 DEF Places
  <2>5. job' = [job EXCEPT ![t] = j]
    BY <1>2, <1>10, <2>4 DEF FillFile, Goes
  <2> QED
    BY <1>2, <1>10, <2>3, <2>5, TypeGoes DEF FillFile
<1>11. ASSUME ReadConfig(t) PROVE Types'
  <2>1. Edited(job[t]) \in Texts
    BY <1>2, JobTypes, EditedText
  <2>2. PICK text \in Texts : text = Edited(job[t])
    BY <2>1
  <2>3. [job[t] EXCEPT !.place = "edit", !.text = text] \in Jobs
    BY <1>2, JobTypes DEF Places
  <2>4. \E j \in Jobs : job' = [job EXCEPT ![t] = j]
    <3>1. \/ job' = [job EXCEPT ![t] = Rest]
          \/ job' = [job EXCEPT ![t].place = "edit", ![t].text = text]
      BY <1>11, <2>2 DEF ReadConfig, Finish
    <3>2. PICK j \in Jobs : j = [job[t] EXCEPT !.place = "edit", !.text = text]
      BY <2>3
    <3>3. [job EXCEPT ![t].place = "edit", ![t].text = text] = [job EXCEPT ![t] = j]
      BY <1>2, <3>2
    <3> QED
      BY <1>4, <3>1, <3>3
  <2>5. asked' \in SUBSET Pins
    BY <1>2, <1>11, JobTypes DEF ReadConfig, Finish
  <2>6. dirty' \in SUBSET Folders /\ job[t].place # "idle"
    BY <1>2, <1>11 DEF ReadConfig
  <2> QED
    BY <1>2, <1>11, <2>4, <2>5, <2>6, TypeGoes DEF ReadConfig
<1>12. ASSUME CutConfig(t) PROVE Types'
  <2>1. PICK j \in Jobs : j = [job[t] EXCEPT !.place = "write"]
    BY <1>3 DEF Places
  <2>2. job' = [job EXCEPT ![t] = j]
    BY <1>2, <1>12, <2>1 DEF CutConfig, Goes
  <2> QED
    BY <1>2, <1>12, <2>2, TextTypes, TypeGoes DEF CutConfig
<1>13. ASSUME WriteConfig(t) PROVE Types'
  <2>1. [job[t] EXCEPT !.place = "load"] \in Jobs
    BY <1>3 DEF Places
  <2>2. \E j \in Jobs : job' = [job EXCEPT ![t] = j]
    BY <1>2, <1>4, <1>13, <2>1 DEF WriteConfig, Finish, Goes
  <2>3. asked' \in SUBSET Pins /\ config' \in Texts
    BY <1>2, <1>13, JobTypes DEF WriteConfig, Finish
  <2> QED
    BY <1>2, <1>13, <2>2, <2>3, TypeGoes DEF WriteConfig
<1>14. ASSUME Answer(t) PROVE Types'
  <2>1. PICK place \in {"edit", "load"} : Goes(t, place)
    BY <1>14 DEF Answer
  <2>2. PICK j \in Jobs : j = [job[t] EXCEPT !.place = place]
    BY <1>3 DEF Places
  <2>3. job' = [job EXCEPT ![t] = j]
    BY <1>2, <2>1, <2>2 DEF Goes
  <2> QED
    BY <1>2, <1>14, <2>3, TypeGoes DEF Answer
<1>15. ASSUME LoadIdentity(t) PROVE Types'
  <2>1. [job[t] EXCEPT !.place = "name"] \in Jobs
    BY <1>3 DEF Places
  <2>2. \E j \in Jobs : job' = [job EXCEPT ![t] = j]
    BY <1>2, <1>4, <1>15, <2>1 DEF LoadIdentity, Goes
  <2> QED
    BY <1>2, <1>15, <2>2, TypeGoes DEF LoadIdentity
<1>16. ASSUME Name(t) PROVE Types'
  <2>1. [job[t] EXCEPT !.place = "create"] \in Jobs
    BY <1>3 DEF Places
  <2>2. PICK j \in Jobs : job' = [job EXCEPT ![t] = j]
    BY <1>2, <1>4, <1>16, <2>1 DEF Name, Goes
  <2>3. job' \in [Terminals -> Jobs] /\ Counted'
    BY <1>1, <1>2, <1>16, <2>2, BusyGoes DEF Name, given
  <2>4. raced' \in BOOLEAN
    BY <1>1, <1>16 DEF Name, PacksTypeOK
  <2> QED
    BY <1>1, <1>16, <2>3, <2>4 DEF Name, Types, PacksTypeOK, Looking, given
<1>17. ASSUME CreateIdentity(t) PROVE Types'
  <2>1. PICK j \in Jobs : j = [job[t] EXCEPT !.place = "sign"]
    BY <1>3 DEF Places
  <2>2. job' = [job EXCEPT ![t] = j]
    BY <1>2, <1>17, <2>1 DEF CreateIdentity, Goes
  <2>3. job' \in [Terminals -> Jobs] /\ Counted'
    BY <1>1, <1>2, <1>17, <2>2, BusyGoes DEF CreateIdentity, given
  <2> QED
    BY <1>1, <1>17, <2>3 DEF CreateIdentity, Types, PacksTypeOK, Looking, given
<1>18. ASSUME SignIdentity(t) PROVE Types'
  <2>1. Counted' /\ identity' \in Ids
    BY <1>1, <1>18, BusySigned
  <2>2. job' \in [Terminals -> Jobs]
    BY <1>2, <1>4, <1>18 DEF SignIdentity
  <2>3. minted' \in SUBSET Ids
    BY <1>1, <1>18, <2>1 DEF SignIdentity, PacksTypeOK
  <2> QED
    BY <1>1, <1>18, <2>1, <2>2, <2>3 DEF SignIdentity, Types, PacksTypeOK, Looking, given
<1>19. ASSUME Die(t) PROVE Types'
  <2>1. job' \in [Terminals -> Jobs] /\ Counted'
    BY <1>1, <1>2, <1>4, <1>19, BusyGoes DEF Die, naming
  <2>2. deaths' \in 0 .. MaxDeaths
    <3>1. MaxDeaths \in Nat /\ deaths \in 0 .. MaxDeaths
      BY <1>1, PacksAssumption DEF PacksTypeOK
    <3> QED
      BY <1>19, <3>1 DEF Die
  <2> QED
    BY <1>1, <1>19, <2>1, <2>2 DEF Die, Types, PacksTypeOK, Looking, naming
<1> QED
  BY <1>5, <1>6, <1>7, <1>8, <1>9, <1>10, <1>11, <1>12, <1>13, <1>14, <1>15, <1>16, <1>17,
     <1>18, <1>19 DEF Command

\* The fields of the app.
LEMMA RunTypes ==
  ASSUME NEW r \in AppRuns
  PROVE  /\ r.place \in {"idle", "identify", "check", "load", "import", "ends"}
         /\ r.joined \in BOOLEAN /\ r.app \in Ids \cup {Ephemeral}
         /\ r.pins \in SUBSET Pins /\ r.left \in SUBSET Pins
         /\ r.at \in 1 .. Len(Sorted) + 1 /\ r.todo \in SUBSET Modules
         /\ r.rules \in [Modules -> Sources \cup {Unregistered}]
         /\ r.failed \in BOOLEAN /\ r.moved \in SUBSET Folders /\ r.nth \in 0 .. MaxRuns
  BY DEF AppRuns

LEMMA TypeApp ==
  ASSUME Types, AppStep
  PROVE  Types'
<1>1. PacksTypeOK /\ Counted /\ Looking
  BY DEF Types
<1>2. ASSUME run' \in AppRuns, Looking', UNCHANGED <<disk, config, job, given, naming, dirty, asked>>
      PROVE  Types'
  BY <1>1, <1>2 DEF Types, PacksTypeOK, Counted, Busy, given, naming
<1>3. run \in AppRuns /\ config \in Texts /\ dirty \in SUBSET Folders /\ identity \in Ids \cup {Absent, Empty}
  BY <1>1 DEF PacksTypeOK
<1>4. run.nth \in 0 .. MaxRuns /\ NotRun(run.nth) \in AppRuns /\ NotRun(run.nth).place = "idle"
  BY <1>3, RunTypes, NotRunType
<1>5. Len(Sorted) \in Nat /\ run.at \in 1 .. Len(Sorted) + 1
  BY <1>3, RunTypes, PacksAssumption
<1>6. CASE StartRun
  <2>1. PICK joined \in BOOLEAN :
          run' = [NotRun(run.nth + 1) EXCEPT
                    !.place = "identify",
                    !.joined = joined, !.tools = joined \/ config.rest,
                    !.pins = config.pins, !.left = config.pins, !.moved = dirty]
    BY <1>6 DEF StartRun
  <2>2. PICK n \in 0 .. MaxRuns : n = run.nth + 1
    <3>1. MaxRuns \in Nat /\ run.nth < MaxRuns
      BY <1>6, PacksAssumption DEF StartRun
    <3> QED
      BY <1>4, <3>1
  <2>3. PICK r \in AppRuns : r = NotRun(n)
    BY NotRunType
  <2>4. PICK tools \in BOOLEAN, pins \in SUBSET Pins : pins = config.pins /\ tools = (joined \/ config.rest)
    BY <1>3 DEF Texts
  <2>5. run' = [r EXCEPT !.place = "identify", !.joined = joined, !.tools = tools,
                         !.pins = pins, !.left = pins, !.moved = dirty]
    BY <2>1, <2>2, <2>3, <2>4
  <2>6. run' \in AppRuns /\ run'.place = "identify"
    BY <1>3, <2>5 DEF AppRuns
  <2> QED
    BY <1>2, <1>6, <2>6 DEF StartRun, Looking
<1>7. CASE Identify
  <2>1. PICK place \in {"load", "check"}, app \in Ids \cup {Ephemeral} :
          run' \in {NotRun(run.nth), [run EXCEPT !.place = place, !.app = app]}
    <3>1. run.app \in Ids \cup {Ephemeral}
      BY <1>3, RunTypes
    <3>2. PICK app \in Ids \cup {Ephemeral} : app = IF identity \in Ids THEN identity ELSE run.app
      BY <3>1
    <3>3. PICK place \in {"load", "check"} : place = IF run.joined THEN "load" ELSE "check"
      OBVIOUS
    <3> QED
      BY <1>7, <3>2, <3>3 DEF Identify
  <2>2. [run EXCEPT !.place = place, !.app = app] \in AppRuns
    BY <1>3 DEF AppRuns
  <2>3. [run EXCEPT !.place = place, !.app = app].place = place
    BY <1>3 DEF AppRuns
  <2>4. run' \in AppRuns /\ run'.place # "import"
    BY <1>4, <2>1, <2>2, <2>3
  <2> QED
    BY <1>2, <1>7, <2>4 DEF Identify, Looking
<1>8. CASE CheckPack
  <2>1. PICK p \in run.left : run' \in {NotRun(run.nth), [run EXCEPT !.left = @ \ {p}]}
    BY <1>8 DEF CheckPack
  <2>2. /\ [run EXCEPT !.left = @ \ {p}] \in AppRuns
        /\ [run EXCEPT !.left = @ \ {p}].place = run.place
    BY <1>3 DEF AppRuns
  <2>3. run' \in AppRuns /\ run'.place # "import"
    BY <1>4, <1>8, <2>1, <2>2 DEF CheckPack
  <2> QED
    BY <1>2, <1>8, <2>3 DEF CheckPack, Looking
<1>9. CASE Launch
  <2>1. run' \in AppRuns /\ run'.place = "load"
    BY <1>3, <1>9 DEF Launch, AppRuns
  <2> QED
    BY <1>2, <1>9, <2>1 DEF Launch, Looking
<1>10. CASE LoadPack
  <2>1. CASE run.at > Len(Sorted)
    <3>1. run' \in AppRuns /\ run'.place = "ends"
      BY <1>3, <1>10, <2>1 DEF LoadPack, AppRuns
    <3> QED
      BY <1>2, <1>10, <3>1 DEF LoadPack, Looking
  <2>2. CASE run.at <= Len(Sorted) /\ Whole(Here, Manifest)
    <3>1. PICK todo \in SUBSET Modules : run' = [run EXCEPT !.place = "import", !.todo = todo]
      <4>1. PICK todo \in SUBSET Modules : todo = {x \in Modules : disk[Here][x] # Absent}
        OBVIOUS
      <4>2. ~(run.at > Len(Sorted))
        BY <1>5, <2>2
      <4> QED
        BY <1>10, <2>2, <4>1, <4>2 DEF LoadPack
    <3>2. run' \in AppRuns /\ run'.at = run.at
      BY <1>3, <3>1 DEF AppRuns
    <3> QED
      BY <1>2, <1>10, <2>2, <3>2 DEF LoadPack, Looking
  <2>3. CASE run.at <= Len(Sorted) /\ ~Whole(Here, Manifest)
    <3>1. run' = [run EXCEPT !.at = @ + 1] /\ run.place = "load"
      BY <1>5, <1>10, <2>3 DEF LoadPack
    <3>2. run.at + 1 \in 1 .. Len(Sorted) + 1
      BY <1>5, <2>3
    <3>3. run' \in AppRuns /\ run'.place = run.place
      BY <1>3, <3>1, <3>2 DEF AppRuns
    <3> QED
      BY <1>2, <1>10, <3>1, <3>3 DEF LoadPack, Looking
  <2> QED
    BY <1>5, <2>1, <2>2, <2>3
<1>11. CASE ImportModule
  <2>1. PICK x \in run.todo :
          run' = IF Whole(Here, x)
                 THEN [run EXCEPT !.todo = @ \ {x}, !.rules = Registered(@, x, disk[Here][x])]
                 ELSE IF disk[Here][x] = Empty
                 THEN [run EXCEPT !.todo = @ \ {x}]
                 ELSE [run EXCEPT !.place = "ends", !.todo = {}, !.failed = TRUE]
    BY <1>11 DEF ImportModule
  <2>2. x \in Modules /\ run.rules \in [Modules -> Sources \cup {Unregistered}]
    BY <1>3, RunTypes
  <2>3. CASE Whole(Here, x)
    <3>1. PICK s \in Sources : s = disk[Here][x]
      BY <2>3 DEF Whole
    <3>2. PICK rules \in [Modules -> Sources \cup {Unregistered}] : rules = [run.rules EXCEPT ![x] = s]
      BY <2>2
    <3>3. run' = [run EXCEPT !.todo = @ \ {x}, !.rules = rules]
      BY <2>1, <2>3, <3>1, <3>2 DEF Registered
    <3>4. run' \in AppRuns /\ run'.at = run.at
      BY <1>3, <3>3 DEF AppRuns
    <3> QED
      BY <1>1, <1>2, <1>11, <3>4 DEF ImportModule, Looking
  <2>4. CASE ~Whole(Here, x)
    <3>1. run' \in {[run EXCEPT !.todo = @ \ {x}],
                    [run EXCEPT !.place = "ends", !.todo = {}, !.failed = TRUE]}
      BY <2>1, <2>4
    <3>2. CASE run' = [run EXCEPT !.todo = @ \ {x}]
      <4>1. run' \in AppRuns /\ run'.at = run.at
        BY <1>3, <3>2 DEF AppRuns
      <4> QED
        BY <1>1, <1>2, <1>11, <4>1 DEF ImportModule, Looking
    <3>3. CASE run' = [run EXCEPT !.place = "ends", !.todo = {}, !.failed = TRUE]
      <4>1. run' \in AppRuns /\ run'.place = "ends"
        BY <1>3, <3>3 DEF AppRuns
      <4> QED
        BY <1>2, <1>11, <4>1 DEF ImportModule, Looking
    <3> QED
      BY <3>1, <3>2, <3>3
  <2> QED
    BY <2>3, <2>4
<1>12. CASE NextPack
  <2>1. run.at + 1 \in 1 .. Len(Sorted) + 1
    BY <1>1, <1>5, <1>12 DEF NextPack, Looking
  <2>2. run' \in AppRuns /\ run'.place = "load"
    BY <1>3, <1>12, <2>1 DEF NextPack, AppRuns
  <2> QED
    BY <1>2, <1>12, <2>2 DEF NextPack, Looking
<1>13. CASE EndRun
  BY <1>2, <1>4, <1>13 DEF EndRun, Looking
<1> QED
  BY <1>6, <1>7, <1>8, <1>9, <1>10, <1>11, <1>12, <1>13 DEF AppStep

LEMMA TypeStep ==
  ASSUME Types, [PacksNext]_vars
  PROVE  Types'
<1>1. CASE UNCHANGED vars
  BY <1>1 DEF vars, given, naming, Types, PacksTypeOK, Counted, Busy, Looking
<1> QED
  BY <1>1, TypeApp, TypeCommand DEF PacksNext

-----------------------------------------------------------------------------
(* Commands *)

\* A command's step is a step of the terminal it was given in.
LEMMA OthersWait ==
  ASSUME Types, NEW t \in Terminals, Command(t), NEW u \in Terminals \ {t}
  PROVE  job'[u] = job[u]
<1>1. job \in [Terminals -> Jobs]
  BY DEF Types, PacksTypeOK
<1> QED
  BY <1>1
  DEF Command, Add, Remove, Init, GivePack, Give, Unlink, CreateFile, FillFile, ReadConfig,
      CutConfig, WriteConfig, Answer, LoadIdentity, Name, CreateIdentity, SignIdentity, Die,
      Goes, Finish

\* Where a command is after its step.
LEMMA GoesTo ==
  ASSUME Types, NEW t \in Terminals
  PROVE  /\ Add(t) => /\ job[t].place = "idle"
                      /\ \E s \in Sources :
                           /\ Verified(s)
                           /\ job'[t] = [place |-> "clear", op |-> "add", pin |-> PinOf[s], source |-> s,
                                         left |-> Held[s] \cup {Manifest}, text |-> Blank]
         /\ Remove(t) => job[t].place = "idle" /\ job'[t].place = "clear" /\ job'[t].op = "remove"
         /\ Init(t) => /\ job[t].place = "idle" /\ job'[t].place \in {"ask", "edit"}
                       /\ job'[t].op = "init" /\ job'[t].text = Default
         /\ Unlink(t) => job'[t] = job[t]
         /\ CreateFile(t) => job'[t].place = "fill" /\ job[t].place \in {"clear", "copy"}
         /\ FillFile(t) => job[t].place = "fill" /\ job'[t] = [job[t] EXCEPT !.place = "copy"]
         /\ CutConfig(t) => job[t].place = "edit" /\ job'[t] = [job[t] EXCEPT !.place = "write"]
         /\ WriteConfig(t) => \/ job[t].op = "init" /\ job'[t] = [job[t] EXCEPT !.place = "load"]
                              \/ job[t].op # "init" /\ job'[t] = Rest
         /\ Answer(t) => \E place \in {"edit", "load"} : job'[t] = [job[t] EXCEPT !.place = place]
         /\ LoadIdentity(t) => job'[t] \in {[job[t] EXCEPT !.place = "name"], Rest}
         /\ Name(t) => \/ Unclaimed /\ job'[t] = [job[t] EXCEPT !.place = "create"]
                       \/ ~Unclaimed /\ job'[t] = Rest
         /\ CreateIdentity(t) => job'[t] = [job[t] EXCEPT !.place = "sign"]
         /\ SignIdentity(t) \/ Die(t) => job'[t] = Rest
<1>1. job \in [Terminals -> Jobs] /\ job[t] \in Jobs
  BY DEF Types, PacksTypeOK
<1>2. Add(t) => /\ job[t].place = "idle"
                /\ \E s \in Sources :
                     /\ Verified(s)
                     /\ job'[t] = [place |-> "clear", op |-> "add", pin |-> PinOf[s], source |-> s,
                                   left |-> Held[s] \cup {Manifest}, text |-> Blank]
  BY <1>1 DEF Add, GivePack, Give
<1>3. Remove(t) => job[t].place = "idle" /\ job'[t].place = "clear" /\ job'[t].op = "remove"
  <2> SUFFICES ASSUME Remove(t)
               PROVE  job[t].place = "idle" /\ job'[t].place = "clear" /\ job'[t].op = "remove"
    OBVIOUS
  <2>1. PICK p \in Pins :
          Give(t, [Rest EXCEPT !.place = "clear", !.op = "remove", !.pin = p, !.left = {},
                               !.text = Blank])
    BY DEF Remove, GivePack
  <2>2. PICK j \in Jobs : j = [Rest EXCEPT !.place = "clear", !.op = "remove", !.pin = p, !.left = {},
                                   !.text = Blank]
    BY GivenTypes
  <2>3. j.place = "clear" /\ j.op = "remove"
    BY <2>2, RestType DEF Jobs
  <2> QED
    BY <1>1, <2>1, <2>2, <2>3 DEF Give
<1>4. Init(t) => /\ job[t].place = "idle" /\ job'[t].place \in {"ask", "edit"}
                 /\ job'[t].op = "init" /\ job'[t].text = Default
  <2> SUFFICES ASSUME Init(t)
               PROVE  /\ job[t].place = "idle" /\ job'[t].place \in {"ask", "edit"}
                      /\ job'[t].op = "init" /\ job'[t].text = Default
    OBVIOUS
  <2>1. PICK place \in {"ask", "edit"} :
          Give(t, [Rest EXCEPT !.place = place, !.op = "init", !.text = Default])
    BY DEF Init
  <2>2. PICK j \in Jobs : j = [Rest EXCEPT !.place = place, !.op = "init", !.text = Default]
    BY GivenTypes
  <2>3. j.place = place /\ j.op = "init" /\ j.text = Default
    BY <2>2, RestType DEF Jobs
  <2> QED
    BY <1>1, <2>1, <2>2, <2>3 DEF Give
<1>5. CreateFile(t) => job'[t].place = "fill" /\ job[t].place \in {"clear", "copy"}
  BY <1>1 DEF CreateFile, Jobs
<1>6. /\ Unlink(t) => job'[t] = job[t]
      /\ FillFile(t) => job[t].place = "fill" /\ job'[t] = [job[t] EXCEPT !.place = "copy"]
      /\ CutConfig(t) => job[t].place = "edit" /\ job'[t] = [job[t] EXCEPT !.place = "write"]
  BY <1>1 DEF Unlink, FillFile, CutConfig, Goes
<1>7. WriteConfig(t) => \/ job[t].op = "init" /\ job'[t] = [job[t] EXCEPT !.place = "load"]
                        \/ job[t].op # "init" /\ job'[t] = Rest
  BY <1>1 DEF WriteConfig, Finish, Goes
<1>8. Answer(t) => \E place \in {"edit", "load"} : job'[t] = [job[t] EXCEPT !.place = place]
  BY <1>1 DEF Answer, Goes
<1>9. LoadIdentity(t) => job'[t] \in {[job[t] EXCEPT !.place = "name"], Rest}
  BY <1>1 DEF LoadIdentity, Goes
<1>10. /\ Name(t) => \/ Unclaimed /\ job'[t] = [job[t] EXCEPT !.place = "create"]
                     \/ ~Unclaimed /\ job'[t] = Rest
       /\ CreateIdentity(t) => job'[t] = [job[t] EXCEPT !.place = "sign"]
       /\ SignIdentity(t) \/ Die(t) => job'[t] = Rest
  BY <1>1 DEF Name, CreateIdentity, SignIdentity, Die, Goes
<1> QED
  BY <1>2, <1>3, <1>4, <1>5, <1>6, <1>7, <1>8, <1>9, <1>10

\* The same of a command that is done with its directory.
LEMMA ReadGoesTo ==
  ASSUME Types, NEW t \in Terminals, ReadConfig(t)
  PROVE  \/ /\ job'[t] = Rest /\ asked' = asked
         \/ /\ job'[t] = Rest
            /\ job[t].op = "add" /\ job[t].pin \in config.pins
            /\ asked' = asked \cup {job[t].pin}
         \/ /\ job'[t].place = "edit" /\ job'[t].op = job[t].op /\ job'[t].pin = job[t].pin
            /\ job'[t].text = Edited(job[t]) /\ asked' = asked
<1>1. job \in [Terminals -> Jobs] /\ job[t] \in Jobs /\ config \in Texts
  BY DEF Types, PacksTypeOK
<1>2. CASE ~config.there
  BY <1>1, <1>2 DEF ReadConfig
<1>3. CASE config.there /\ job[t].op = "add" /\ job[t].pin \in config.pins
  BY <1>1, <1>3 DEF ReadConfig, Finish
<1>4. CASE config.there /\ ~(job[t].op = "add" /\ job[t].pin \in config.pins)
  <2>1. job' = [job EXCEPT ![t].place = "edit", ![t].text = Edited(job[t])] /\ asked' = asked
    BY <1>4 DEF ReadConfig
  <2>2. PICK text \in Texts : text = Edited(job[t])
    BY <1>1, EditedText
  <2>3. job'[t] = [job[t] EXCEPT !.place = "edit", !.text = text]
    BY <1>1, <2>1, <2>2
  <2>4. job'[t].place = "edit" /\ job'[t].op = job[t].op /\ job'[t].pin = job[t].pin /\ job'[t].text = text
    BY <1>1, <2>3 DEF Jobs
  <2> QED
    BY <2>1, <2>2, <2>4
<1> QED
  BY <1>1, <1>2, <1>3, <1>4 DEF Texts

\* What a command's step may do to a job's place.
LEMMA Moved ==
  ASSUME NEW j \in Jobs, NEW place \in Places
  PROVE  /\ [j EXCEPT !.place = place].place = place
         /\ [j EXCEPT !.place = place].op = j.op
         /\ [j EXCEPT !.place = place].pin = j.pin
         /\ [j EXCEPT !.place = place].source = j.source
         /\ [j EXCEPT !.place = place].left = j.left
         /\ [j EXCEPT !.place = place].text = j.text
  BY DEF Jobs

-----------------------------------------------------------------------------
(* The identity *)

Creating(t) == job[t].place \in {"create", "sign"}

\* Unless two inits raced, one at most creates the identity: it has found none,
\* and nothing is minted before it is done; what is minted is the identity, and
\* what a run is known by.
Claims ==
  /\ identity = Absent => minted = {}
  /\ ~raced =>
       /\ \A t, u \in Terminals : Creating(t) /\ Creating(u) => t = u
       /\ \A t \in Terminals :
            /\ job[t].place = "create" => identity = Absent
            /\ job[t].place = "sign" => identity = Empty /\ minted = {}
       /\ minted \subseteq {identity}
       /\ run.app \in {Ephemeral, identity}

LEMMA ClaimsInit == PacksInit => Claims
<1>1. 0 \in 0 .. MaxRuns
  BY PacksAssumption
<1> QED
  BY <1>1, RestType, NotRunType DEF PacksInit, Claims, Creating

\* The commands that have nothing to do with the identity.
LEMMA ClaimsOthers ==
  ASSUME Types, NEW t \in Terminals, Command(t),
         ~Name(t), ~CreateIdentity(t), ~SignIdentity(t)
  PROVE  /\ UNCHANGED naming /\ run'.app = run.app
         /\ job'[t].place \notin {"create", "sign"} \/ job'[t] = job[t]
<1>1. job[t] \in Jobs /\ run \in AppRuns
  BY DEF Types, PacksTypeOK
<1>2. UNCHANGED naming
  BY DEF Command, Add, Remove, Init, GivePack, Give, Unlink, CreateFile, FillFile, ReadConfig,
         CutConfig, WriteConfig, Answer, LoadIdentity, Die
<1>3. run'.app = run.app
  <2>1. CASE run' = run
    BY <2>1
  <2>2. CASE \E f \in Folders : run' = [run EXCEPT !.moved = @ \cup {f}]
    BY <1>1, <2>2 DEF AppRuns
  <2>3. \A s \in Sources : FolderOf[PinOf[s]] \in Folders
    BY PacksAssumption
  <2>4. \A p \in Pins : FolderOf[[Rest EXCEPT !.place = "clear", !.op = "remove", !.pin = p, !.left = {},
                                              !.text = Blank].pin] \in Folders
    BY GivenTypes, JobTypes, PacksAssumption
  <2> QED
    BY <2>1, <2>2, <2>3, <2>4
    DEF Command, Add, Remove, Init, GivePack, Unlink, CreateFile, FillFile, ReadConfig,
        CutConfig, WriteConfig, Answer, LoadIdentity, Die
<1>4. job'[t].place \notin {"create", "sign"} \/ job'[t] = job[t]
  <2>1. \A place \in Places : [job[t] EXCEPT !.place = place].place = place
    BY <1>1, Moved
  <2>2. ASSUME NEW place \in {"copy", "write", "load", "edit", "name"},
               job'[t] = [job[t] EXCEPT !.place = place]
        PROVE  job'[t].place \notin {"create", "sign"}
    <3>1. place \in Places
      BY DEF Places
    <3>2. job'[t].place = place
      BY <2>1, <2>2, <3>1
    <3> QED
      BY <3>2
  <2>3. job'[t] = Rest => job'[t].place \notin {"create", "sign"}
    BY RestType
  <2>4. CASE Add(t) \/ Remove(t) \/ Init(t) \/ Unlink(t) \/ CreateFile(t)
    <3>1. ASSUME Add(t) PROVE job'[t].place = "clear"
      <4>1. PICK s \in Sources :
              job'[t] = [place |-> "clear", op |-> "add", pin |-> PinOf[s], source |-> s,
                         left |-> Held[s] \cup {Manifest}, text |-> Blank]
        BY <3>1, GoesTo
      <4> QED
        BY <4>1
    <3>2. Remove(t) => job'[t].place = "clear"
      BY GoesTo
    <3>3. Init(t) => job'[t].place \in {"ask", "edit"}
      BY GoesTo
    <3>4. Unlink(t) => job'[t] = job[t]
      BY GoesTo
    <3>5. CreateFile(t) => job'[t].place = "fill"
      BY GoesTo
    <3> QED
      BY <2>4, <3>1, <3>2, <3>3, <3>4, <3>5
  <2>5. CASE FillFile(t) \/ CutConfig(t) \/ WriteConfig(t)
    BY <2>5, <2>2, <2>3, GoesTo
  <2>6. CASE Answer(t) \/ LoadIdentity(t) \/ Die(t)
    BY <2>6, <2>2, <2>3, GoesTo
  <2>7. CASE ReadConfig(t)
    BY <2>3, <2>7, ReadGoesTo
  <2> QED
    BY <2>4, <2>5, <2>6, <2>7 DEF Command
<1> QED
  BY <1>2, <1>3, <1>4

\* What a run is known by, and which directories have changed under it.
LEMMA AppKeeps ==
  ASSUME Types, AppStep
  PROVE  /\ run'.app \in {run.app, Ephemeral, identity}
         /\ run'.place = "idle" \/ StartRun \/ run'.moved = run.moved
<1>1. run \in AppRuns /\ run.nth \in 0 .. MaxRuns
  BY RunTypes DEF Types, PacksTypeOK
<1>2. NotRun(run.nth).place = "idle" /\ NotRun(run.nth).app = Ephemeral
  BY <1>1, NotRunType
<1>3. CASE StartRun
  <2>1. PICK joined \in BOOLEAN :
          run' = [NotRun(run.nth + 1) EXCEPT
                    !.place = "identify",
                    !.joined = joined, !.tools = joined \/ config.rest,
                    !.pins = config.pins, !.left = config.pins, !.moved = dirty]
    BY <1>3 DEF StartRun
  <2>2. run'.app = NotRun(run.nth + 1).app
    BY <2>1 DEF NotRun
  <2>3. NotRun(run.nth + 1).app = Ephemeral
    BY DEF NotRun
  <2> QED
    BY <1>3, <2>2, <2>3
<1>4. CASE Identify
  <2>1. \/ run' = NotRun(run.nth)
        \/ \E place, app : /\ app \in {run.app, identity}
                          /\ run' = [run EXCEPT !.place = place, !.app = app]
    BY <1>4 DEF Identify
  <2> QED
    BY <1>1, <1>2, <2>1 DEF AppRuns
<1>5. CASE CheckPack
  BY <1>1, <1>2, <1>5 DEF CheckPack, AppRuns
<1>6. CASE Launch \/ NextPack
  BY <1>1, <1>6 DEF Launch, NextPack, AppRuns
<1>7. CASE LoadPack
  BY <1>1, <1>7 DEF LoadPack, AppRuns
<1>8. CASE ImportModule
  BY <1>1, <1>8 DEF ImportModule, AppRuns
<1>9. CASE EndRun
  BY <1>2, <1>9 DEF EndRun
<1> QED
  BY <1>3, <1>4, <1>5, <1>6, <1>7, <1>8, <1>9 DEF AppStep

LEMMA ClaimsStep ==
  ASSUME Types, Types', Claims, [PacksNext]_vars
  PROVE  Claims'
<1>1. /\ run \in AppRuns /\ identity \in Ids \cup {Absent, Empty} /\ minted \in SUBSET Ids
      /\ job \in [Terminals -> Jobs]
      /\ run.app \in Ids \cup {Ephemeral}
      /\ Absent \notin Ids /\ Empty \notin Ids /\ Absent # Empty
  BY RunTypes, NamesAssumption DEF Types, PacksTypeOK, Absent, Empty
<1>2. CASE UNCHANGED <<job, naming>> /\ run'.app \in {run.app, Ephemeral, identity}
  BY <1>2 DEF Claims, Creating, naming
<1>3. CASE AppStep
  <2>1. UNCHANGED <<job, naming>>
    BY <1>3 DEF AppStep, StartRun, Identify, CheckPack, Launch, LoadPack, ImportModule, NextPack, EndRun
  <2>2. run'.app \in {run.app, Ephemeral, identity}
    BY <1>3, AppKeeps
  <2> QED
    BY <1>2, <2>1, <2>2
<1>4. ASSUME NEW t \in Terminals, Command(t), ~Name(t), ~CreateIdentity(t), ~SignIdentity(t)
      PROVE  Claims'
  <2>1. \A u \in Terminals : job'[u] = job[u] \/ job'[u].place \notin {"create", "sign"}
    BY <1>4, OthersWait, ClaimsOthers
  <2> QED
    BY <1>4, <2>1, ClaimsOthers DEF Claims, Creating, naming
<1>5. ASSUME NEW t \in Terminals, Name(t)
      PROVE  Claims'
  <2>1. UNCHANGED <<identity, minted, run>> /\ \A u \in Terminals \ {t} : job'[u] = job[u]
    BY <1>5, OthersWait DEF Name, Command
  <2>2. CASE ~Unclaimed
    <3>1. job'[t].place = "idle" /\ (~raced' => ~raced)
      BY <1>5, <2>2, GoesTo, RestType DEF Name
    <3> QED
      BY <2>1, <3>1 DEF Claims, Creating
  <2>3. CASE Unclaimed
    <3>1. job'[t].place = "create" /\ identity = Absent
      <4>1. job[t] \in Jobs /\ "create" \in Places
        BY <1>1 DEF Places
      <4>2. job'[t] = [job[t] EXCEPT !.place = "create"]
        BY <1>5, <2>3, GoesTo
      <4> QED
        BY <2>3, <4>1, <4>2, Moved DEF Unclaimed
    <3>2. ~raced' => ~raced /\ \A u \in Terminals : job[u].place # "create"
      BY <1>5, <2>3 DEF Name
    <3>3. ~raced' => \A u \in Terminals : ~Creating(u)
      BY <1>1, <3>1, <3>2 DEF Claims, Creating
    <3> QED
      BY <2>1, <3>1, <3>2, <3>3 DEF Claims, Creating
  <2> QED
    BY <2>2, <2>3
<1>6. ASSUME NEW t \in Terminals, CreateIdentity(t)
      PROVE  Claims'
  <2>1. /\ UNCHANGED <<raced, minted, run>> /\ \A u \in Terminals \ {t} : job'[u] = job[u]
        /\ identity' = Empty /\ job[t].place = "create"
    BY <1>6, OthersWait DEF CreateIdentity, Command
  <2>2. job'[t].place = "sign"
    <3>1. job[t] \in Jobs /\ "sign" \in Places
      BY <1>1 DEF Places
    <3>2. job'[t] = [job[t] EXCEPT !.place = "sign"]
      BY <1>6, GoesTo
    <3> QED
      BY <3>1, <3>2, Moved
  <2>3. ~raced => identity = Absent /\ minted = {} /\ run.app = Ephemeral
    BY <1>1, <2>1 DEF Claims
  <2>4. ~raced => \A u \in Terminals \ {t} : ~Creating(u)
    BY <2>1 DEF Claims, Creating
  <2> QED
    BY <1>1, <2>1, <2>2, <2>3, <2>4 DEF Claims, Creating
<1>7. ASSUME NEW t \in Terminals, SignIdentity(t)
      PROVE  Claims'
  <2>1. /\ UNCHANGED <<raced, run>> /\ \A u \in Terminals \ {t} : job'[u] = job[u]
        /\ minted' = minted \cup {identity'} /\ job[t].place = "sign"
    BY <1>7, OthersWait DEF SignIdentity, Command
  <2>2. job'[t].place = "idle"
    BY <1>7, GoesTo, RestType
  <2>3. identity' \in Ids
    BY <1>7, BusySigned DEF Types
  <2>4. ~raced => minted = {} /\ run.app = Ephemeral
    BY <1>1, <2>1 DEF Claims
  <2>5. ~raced => \A u \in Terminals \ {t} : ~Creating(u)
    BY <2>1 DEF Claims, Creating
  <2> QED
    BY <1>1, <2>1, <2>2, <2>3, <2>4, <2>5 DEF Claims, Creating
<1>8. CASE UNCHANGED vars
  BY <1>2, <1>8 DEF vars
<1> QED
  BY <1>3, <1>4, <1>5, <1>6, <1>7, <1>8 DEF PacksNext

\* An app's identity is set once: what was minted is what app.json says, and a
\* run is known by nothing else, for any number of terminals, ids, deaths and
\* runs, unless two inits raced (identity.rs, AppIdentity::create and load).
THEOREM IdentityStays == PacksSpec => []IdentityIsPermanent
<1>1. PacksInit => Types /\ Claims
  BY TypeInit, ClaimsInit DEF Types
<1>2. Types /\ Claims /\ [PacksNext]_vars => (Types /\ Claims)'
  BY TypeStep, ClaimsStep
<1>3. Claims => IdentityIsPermanent
  BY DEF Claims, IdentityIsPermanent
<1> QED
  BY <1>1, <1>2, <1>3, PTL DEF PacksSpec

-----------------------------------------------------------------------------
(* The packs on disk *)

\* What is installed of a source.
Goods(s) == Held[s] \cup {Manifest}

\* What job j has made of its directory, in which there is d.
Filled(j, d) ==
  /\ j.op \in {"add", "remove"}
  /\ j.place \in {"copy", "fill"} => j.op = "add" /\ j.left \subseteq Goods(j.source)
  /\ j.op = "add" => /\ PinOf[j.source] = j.pin /\ Verified(j.source)
                     /\ j.place = "clear" => j.left = Goods(j.source)
  /\ j.place = "copy" =>
       \A q \in Parts : d[q] = IF q \in Goods(j.source) \ j.left THEN j.source ELSE Absent
  /\ j.place = "fill" =>
       \E p \in Goods(j.source) \ j.left :
         /\ d[p] = Empty
         /\ \A q \in Parts \ {p} :
              d[q] = IF q \in Goods(j.source) \ j.left THEN j.source ELSE Absent

\* Whoever works in a directory has it listed, and to itself.
Works ==
  /\ \A t \in Terminals : Working(t) => Folder(t) \in dirty /\ Filled(job[t], disk[Folder(t)])
  /\ \A t, u \in Terminals : Working(t) /\ Working(u) /\ Folder(t) = Folder(u) => t = u

\* A directory that is whole, with d in it.
Intact(f, d) ==
  \/ \A p \in Parts : d[p] = Absent
  \/ \E s \in Sources :
       /\ FolderOf[PinOf[s]] = f
       /\ \A p \in Parts : d[p] = IF p \in Goods(s) THEN s ELSE Absent
       /\ s \in Signed => Held[s] = Promised[s]

LEMMA IntactIsInstalled ==
  InstalledIsIntact <=> \A f \in Folders \ dirty : Intact(f, disk[f])
  BY DEF InstalledIsIntact, Copied, Intact, Goods

LEMMA IntactInit == PacksInit => Works /\ InstalledIsIntact
<1> SUFFICES ASSUME PacksInit
             PROVE  Works /\ InstalledIsIntact
  OBVIOUS
<1>1. Works
  BY RestType DEF PacksInit, Works, Working
<1>2. PICK c \in Checkouts : disk = [f \in Folders |-> Vendored(c.vendored, f)]
  BY DEF PacksInit
<1>3. c.vendored \in SUBSET Sources
  BY PacksAssumption
<1>4. ASSUME NEW f \in Folders
      PROVE  Intact(f, disk[f])
  <2>1. disk[f] = Vendored(c.vendored, f)
    BY <1>2
  <2>2. CASE \E s \in c.vendored : FolderOf[PinOf[s]] = f
    <3>1. PICK s \in c.vendored : s = CHOOSE r \in c.vendored : FolderOf[PinOf[r]] = f
      BY <2>2
    <3>2. FolderOf[PinOf[s]] = f
      BY <2>2, <3>1
    <3>3. \A r \in c.vendored : FolderOf[PinOf[r]] = f => r = s
      BY <3>2, CheckoutAssumption
    <3>4. \A p \in Parts : disk[f][p] = IF p \in Goods(s) THEN s ELSE Absent
      BY <2>1, <3>1, <3>2, <3>3 DEF Vendored, Goods
    <3>5. s \in Signed => Held[s] = Promised[s]
      BY CheckoutAssumption
    <3> QED
      BY <1>3, <3>2, <3>4, <3>5 DEF Intact
  <2>3. CASE ~\E s \in c.vendored : FolderOf[PinOf[s]] = f
    BY <2>1, <2>3 DEF Intact, Vendored
  <2> QED
    BY <2>2, <2>3
<1> QED
  BY <1>1, <1>4, IntactIsInstalled

\* The directories change under the commands that work in them.
LEMMA DiskFrame ==
  ASSUME Types, [PacksNext]_vars, NEW f \in Folders
  PROVE  \/ disk'[f] = disk[f]
         \/ \E t \in Terminals : /\ Working(t) /\ f = Folder(t)
                                 /\ Unlink(t) \/ CreateFile(t) \/ FillFile(t)
<1>1. PacksTypeOK /\ disk \in [Folders -> [Parts -> Contents]] /\ job \in [Terminals -> Jobs]
  BY DEF Types, PacksTypeOK
<1>2. ASSUME NEW t \in Terminals, Unlink(t) \/ CreateFile(t) \/ FillFile(t)
      PROVE  Working(t) /\ (disk'[f] = disk[f] \/ f = Folder(t))
  <2>1. Working(t)
    BY <1>2 DEF Working, Unlink, CreateFile, FillFile
  <2>2. \E p \in Parts : \E content \in Contents : disk' = [disk EXCEPT ![Folder(t)][p] = content]
    <3>1. job[t].left \in SUBSET Parts /\ {Absent, Empty, job[t].source} \subseteq Contents
      BY <1>1, JobTypes DEF Contents
    <3> QED
      BY <1>2, <3>1 DEF Unlink, CreateFile, FillFile, Put
  <2> QED
    BY <1>1, <2>1, <2>2
<1>3. CASE UNCHANGED disk
  BY <1>3
<1> QED
  BY <1>2, <1>3
  DEF PacksNext, Command, AppStep, StartRun, Identify, CheckPack, Launch, LoadPack, ImportModule,
      NextPack, EndRun, Add, Remove, Init, GivePack, Give, ReadConfig, CutConfig, WriteConfig,
      Answer, LoadIdentity, Name, CreateIdentity, SignIdentity, Die, vars

\* A directory is no longer listed when the command that works in it is done.
LEMMA DirtyFrame ==
  ASSUME [PacksNext]_vars
  PROVE  \/ dirty \subseteq dirty'
         \/ \E t \in Terminals : ReadConfig(t) /\ dirty' = dirty \ {Folder(t)}
  BY DEF PacksNext, Command, AppStep, StartRun, Identify, CheckPack, Launch, LoadPack, ImportModule,
         NextPack, EndRun, Add, Remove, Init, GivePack, Give, Unlink, CreateFile, FillFile, ReadConfig,
         CutConfig, WriteConfig, Answer, LoadIdentity, Name, CreateIdentity, SignIdentity, Die, vars

\* A command that is done with its directory leaves it whole.
LEMMA ReadConfigIntact ==
  ASSUME Types, Works, NEW t \in Terminals, ReadConfig(t)
  PROVE  Folder(t) \in Folders /\ Intact(Folder(t), disk[Folder(t)])
<1>1. job[t] \in Jobs
  BY DEF Types, PacksTypeOK
<1>2. job[t].pin \in Pins /\ job[t].source \in Sources /\ Folder(t) \in Folders
  BY <1>1, JobTypes, PacksAssumption DEF Folder
<1>3. CASE job[t].place = "clear"
  BY <1>2, <1>3 DEF ReadConfig, Cleared, Intact
<1>4. CASE job[t].place = "copy" /\ job[t].left = {}
  <2>1. Filled(job[t], disk[Folder(t)])
    BY <1>4 DEF Works, Working
  <2> QED
    BY <1>2, <1>4, <2>1 DEF Filled, Intact, Folder, Verified
<1> QED
  BY <1>2, <1>3, <1>4 DEF ReadConfig

LEMMA IntactStep ==
  ASSUME Types, Works, InstalledIsIntact, [PacksNext]_vars
  PROVE  InstalledIsIntact'
<1> SUFFICES ASSUME NEW f \in Folders, f \notin dirty'
             PROVE  Intact(f, disk'[f])
  BY IntactIsInstalled DEF InstalledIsIntact, Copied, Intact, Goods
<1>1. CASE f \notin dirty
  <2>1. disk'[f] = disk[f]
    BY <1>1, DiskFrame DEF Works
  <2> QED
    BY <1>1, <2>1, IntactIsInstalled
<1>2. CASE f \in dirty
  <2>1. PICK t \in Terminals : ReadConfig(t) /\ f = Folder(t)
    BY <1>2, DirtyFrame
  <2>2. disk' = disk
    BY <2>1 DEF ReadConfig
  <2> QED
    BY <2>1, <2>2, ReadConfigIntact
<1> QED
  BY <1>1, <1>2

\* What a command does to its own directory.
LEMMA FilledCreate ==
  ASSUME NEW j \in Jobs, NEW d \in [Parts -> Contents], NEW e \in [Parts -> Contents], NEW p \in j.left,
         Filled(j, d), j.place \in {"clear", "copy"}, j.op = "add",
         j.place = "clear" => \A q \in Parts : d[q] = Absent,
         \A q \in Parts : e[q] = IF q = p THEN Empty ELSE d[q]
  PROVE  Filled([j EXCEPT !.place = "fill", !.left = @ \ {p}], e)
<1>1. PICK left \in SUBSET Parts : left = j.left \ {p}
  BY JobTypes
<1>2. PICK i \in Jobs : i = [j EXCEPT !.place = "fill", !.left = left]
  BY JobTypes DEF Places
<1>3. /\ i.place = "fill" /\ i.left = left /\ i.op = j.op /\ i.pin = j.pin /\ i.source = j.source
  BY <1>2 DEF Jobs
<1>4. j.left \subseteq Goods(j.source) /\ p \in Parts /\ p \in Goods(j.source) \ left
  BY <1>1, JobTypes DEF Filled
<1>5. \A q \in Parts : d[q] = IF q \in Goods(j.source) \ j.left THEN j.source ELSE Absent
  BY DEF Filled
<1>6. \A q \in Parts \ {p} : e[q] = IF q \in Goods(j.source) \ left THEN j.source ELSE Absent
  BY <1>1, <1>5
<1>7. left \subseteq Goods(j.source)
  BY <1>1, <1>4
<1>8. e[p] = Empty
  BY <1>4
<1>9. Filled(i, e)
  BY <1>3, <1>4, <1>6, <1>7, <1>8 DEF Filled
<1> QED
  BY <1>1, <1>2, <1>9

LEMMA FilledFill ==
  ASSUME NEW j \in Jobs, NEW d \in [Parts -> Contents], NEW e \in [Parts -> Contents], NEW p \in Parts,
         Filled(j, d), j.place = "fill", d[p] = Empty,
         \A q \in Parts : e[q] = IF q = p THEN j.source ELSE d[q]
  PROVE  Filled([j EXCEPT !.place = "copy"], e)
<1>1. PICK i \in Jobs : i = [j EXCEPT !.place = "copy"]
  BY JobTypes DEF Places
<1>2. i.place = "copy" /\ i.left = j.left /\ i.op = j.op /\ i.pin = j.pin /\ i.source = j.source
  BY <1>1 DEF Jobs
<1>3. j.source \in Sources /\ Empty \notin Sources /\ Empty # Absent
  BY JobTypes, NamesAssumption DEF Empty, Absent
<1>4. p \in Goods(j.source) \ j.left
      /\ \A q \in Parts \ {p} : d[q] = IF q \in Goods(j.source) \ j.left THEN j.source ELSE Absent
  BY <1>3 DEF Filled
<1>5. \A q \in Parts : e[q] = IF q \in Goods(j.source) \ j.left THEN j.source ELSE Absent
  BY <1>4
<1>6. Filled(i, e)
  BY <1>2, <1>5 DEF Filled
<1> QED
  BY <1>1, <1>6

\* Most commands' steps are not in a directory.
LEMMA WorksElsewhere ==
  ASSUME Types, NEW t \in Terminals, Command(t),
         ~Add(t), ~Remove(t), ~Unlink(t), ~CreateFile(t), ~FillFile(t)
  PROVE  ~(job'[t].place \in {"clear", "copy", "fill"})
<1>1. job[t] \in Jobs
  BY DEF Types, PacksTypeOK
<1>2. \A place \in Places : [job[t] EXCEPT !.place = place].place = place
  BY <1>1, Moved
<1>3. ASSUME NEW place \in {"write", "load", "edit", "name", "create", "sign"},
             job'[t] = [job[t] EXCEPT !.place = place]
      PROVE  job'[t].place \notin {"clear", "copy", "fill"}
  <2>1. place \in Places
    BY DEF Places
  <2>2. job'[t].place = place
    BY <1>2, <1>3, <2>1
  <2> QED
    BY <2>2
<1>4. job'[t] = Rest => job'[t].place \notin {"clear", "copy", "fill"}
  BY RestType
<1>5. Init(t) => job'[t].place \in {"ask", "edit"}
  BY GoesTo
<1>6. CASE CutConfig(t) \/ WriteConfig(t)
  BY <1>3, <1>4, <1>6, GoesTo
<1>7. CASE Answer(t) \/ LoadIdentity(t) \/ Die(t)
  BY <1>3, <1>4, <1>7, GoesTo
<1>8. CASE Name(t) \/ CreateIdentity(t) \/ SignIdentity(t)
  BY <1>3, <1>4, <1>8, GoesTo
<1>9. CASE ReadConfig(t)
  BY <1>4, <1>9, ReadGoesTo
<1> QED
  BY <1>5, <1>6, <1>7, <1>8, <1>9 DEF Command

\* A command that begins has its directory to itself.
LEMMA WorksGiven ==
  ASSUME Types, Works, NEW t \in Terminals, NEW j \in Jobs, GivePack(t, j), j.place = "clear",
         \A d : Filled(j, d)
  PROVE  /\ Working(t)' => Folder(t)' \in dirty' /\ Filled(job[t], disk[Folder(t)])'
         /\ \A u \in Terminals \ {t} : Working(u) => Folder(u) # Folder(t)'
<1>1. job \in [Terminals -> Jobs]
  BY DEF Types, PacksTypeOK
<1>2. job'[t] = j /\ dirty' = dirty \cup {FolderOf[j.pin]}
  BY <1>1 DEF GivePack, Give
<1>3. Folder(t)' = FolderOf[j.pin]
  BY <1>2 DEF Folder
<1>4. Filled(job[t], disk[Folder(t)])'
  BY <1>2, <1>3 DEF Filled
<1> QED
  BY <1>2, <1>3, <1>4 DEF GivePack

\* And keeps it.
LEMMA WorksOwn ==
  ASSUME Types, Types', Works, NEW t \in Terminals, Command(t), Working(t)'
  PROVE  /\ Folder(t)' \in dirty' /\ Filled(job[t], disk[Folder(t)])'
         /\ \A u \in Terminals \ {t} : Working(u) => Folder(u) # Folder(t)'
<1>1. /\ job \in [Terminals -> Jobs] /\ job[t] \in Jobs /\ PacksTypeOK
      /\ disk \in [Folders -> [Parts -> Contents]]
      /\ disk' \in [Folders -> [Parts -> Contents]]
  BY DEF Types, PacksTypeOK
<1>2. CASE Add(t)
  <2>1. PICK s \in Sources :
          /\ Verified(s)
          /\ GivePack(t, [place |-> "clear", op |-> "add", pin |-> PinOf[s], source |-> s,
                          left |-> Held[s] \cup {Manifest}, text |-> Blank])
    BY <1>2 DEF Add
  <2>2. PICK j \in Jobs : j = [place |-> "clear", op |-> "add", pin |-> PinOf[s], source |-> s,
                               left |-> Held[s] \cup {Manifest}, text |-> Blank]
    BY GivenTypes
  <2>3. j.place = "clear" /\ \A d : Filled(j, d)
    BY <2>1, <2>2 DEF Filled, Goods
  <2> QED
    BY <2>1, <2>2, <2>3, WorksGiven
<1>3. CASE Remove(t)
  <2>1. PICK p \in Pins :
          GivePack(t, [Rest EXCEPT !.place = "clear", !.op = "remove", !.pin = p, !.left = {},
                                   !.text = Blank])
    BY <1>3 DEF Remove
  <2>2. PICK j \in Jobs : j = [Rest EXCEPT !.place = "clear", !.op = "remove", !.pin = p, !.left = {},
                                   !.text = Blank]
    BY GivenTypes
  <2>3. j.place = "clear" /\ j.op = "remove"
    BY <2>2, RestType DEF Jobs
  <2>4. \A d : Filled(j, d)
    BY <2>3 DEF Filled
  <2> QED
    BY <2>1, <2>2, <2>3, <2>4, WorksGiven
<1>4. ASSUME Working(t), dirty' = dirty, Filled(job'[t], disk'[Folder(t)]), Folder(t)' = Folder(t)
      PROVE  /\ Folder(t)' \in dirty' /\ Filled(job[t], disk[Folder(t)])'
             /\ \A u \in Terminals \ {t} : Working(u) => Folder(u) # Folder(t)'
  <2>1. Filled(job[t], disk[Folder(t)])'
    BY <1>4
  <2> QED
    BY <1>4, <2>1 DEF Works
<1>5. CASE Unlink(t)
  <2>1. job[t].place = "clear" /\ job' = job /\ dirty' = dirty
    BY <1>5 DEF Unlink
  <2>2. Working(t) /\ Filled(job[t], disk[Folder(t)])
    BY <2>1 DEF Working, Works
  <2>3. Filled(job'[t], disk'[Folder(t)])
    BY <2>1, <2>2 DEF Filled
  <2>4. Folder(t)' = Folder(t)
    BY <2>1 DEF Folder
  <2> QED
    BY <1>4, <2>1, <2>2, <2>3, <2>4
<1>6. CASE CreateFile(t)
  <2>1. PICK p \in job[t].left :
          /\ Put(t, p, Empty)
          /\ job' = [job EXCEPT ![t].place = "fill", ![t].left = @ \ {p}]
    BY <1>6 DEF CreateFile
  <2>2. p \in Parts /\ Empty \in Contents
    BY <1>1, JobTypes DEF Contents
  <2>3. /\ Folder(t) \in Folders
        /\ \A q \in Parts : disk'[Folder(t)][q] = IF q = p THEN Empty ELSE disk[Folder(t)][q]
    BY <1>1, <2>1, <2>2, DiskTypes
  <2>4. Working(t) /\ Filled(job[t], disk[Folder(t)]) /\ dirty' = dirty
    BY <1>6 DEF CreateFile, Working, Works
  <2>5. /\ job[t].place \in {"clear", "copy"} /\ job[t].op = "add"
        /\ job[t].place = "clear" => \A q \in Parts : disk[Folder(t)][q] = Absent
    BY <1>6, <2>4 DEF CreateFile, Cleared, Filled
  <2>6. job'[t] = [job[t] EXCEPT !.place = "fill", !.left = @ \ {p}]
    BY <1>1, <2>1
  <2>7. job'[t].pin = job[t].pin
    BY <1>1, <2>6 DEF Jobs
  <2>8. Filled(job'[t], disk'[Folder(t)])
    <3>1. disk[Folder(t)] \in [Parts -> Contents] /\ disk'[Folder(t)] \in [Parts -> Contents]
      BY <1>1, <2>3
    <3>2. PICK d \in [Parts -> Contents], e \in [Parts -> Contents], j \in Jobs :
            d = disk[Folder(t)] /\ e = disk'[Folder(t)] /\ j = job[t]
      BY <1>1, <3>1
    <3>3. Filled([j EXCEPT !.place = "fill", !.left = @ \ {p}], e)
      <4>1. p \in j.left /\ Filled(j, d) /\ j.place \in {"clear", "copy"} /\ j.op = "add"
        BY <2>1, <2>4, <2>5, <3>2
      <4>2. /\ j.place = "clear" => \A q \in Parts : d[q] = Absent
            /\ \A q \in Parts : e[q] = IF q = p THEN Empty ELSE d[q]
        BY <2>3, <2>5, <3>2
      <4> QED
        BY <4>1, <4>2, FilledCreate
    <3> QED
      BY <2>6, <3>2, <3>3
  <2>9. Folder(t)' = Folder(t)
    BY <2>7 DEF Folder
  <2> QED
    BY <1>4, <2>4, <2>8, <2>9
<1>7. CASE FillFile(t)
  <2>1. PICK p \in Parts : disk[Folder(t)][p] = Empty /\ Put(t, p, job[t].source)
    BY <1>7 DEF FillFile
  <2>2. job[t].source \in Contents /\ "copy" \in Places
    BY <1>1, JobTypes DEF Contents, Places
  <2>3. /\ Folder(t) \in Folders
        /\ \A q \in Parts : disk'[Folder(t)][q] = IF q = p THEN job[t].source ELSE disk[Folder(t)][q]
    BY <1>1, <2>1, <2>2, DiskTypes
  <2>4. Working(t) /\ Filled(job[t], disk[Folder(t)]) /\ dirty' = dirty /\ job[t].place = "fill"
    BY <1>7 DEF FillFile, Working, Works
  <2>5. job'[t] = [job[t] EXCEPT !.place = "copy"]
    BY <1>7, GoesTo
  <2>6. job'[t].pin = job[t].pin
    BY <1>1, <2>2, <2>5, Moved
  <2>7. Filled(job'[t], disk'[Folder(t)])
    <3>1. disk[Folder(t)] \in [Parts -> Contents] /\ disk'[Folder(t)] \in [Parts -> Contents]
      BY <1>1, <2>3
    <3>2. PICK d \in [Parts -> Contents], e \in [Parts -> Contents], j \in Jobs :
            d = disk[Folder(t)] /\ e = disk'[Folder(t)] /\ j = job[t]
      BY <1>1, <3>1
    <3>3. Filled([j EXCEPT !.place = "copy"], e)
      <4>1. Filled(j, d) /\ j.place = "fill" /\ d[p] = Empty
        BY <2>1, <2>4, <3>2
      <4>2. \A q \in Parts : e[q] = IF q = p THEN j.source ELSE d[q]
        BY <2>3, <3>2
      <4> QED
        BY <4>1, <4>2, FilledFill
    <3> QED
      BY <2>5, <3>2, <3>3
  <2>8. Folder(t)' = Folder(t)
    BY <2>6 DEF Folder
  <2> QED
    BY <1>4, <2>4, <2>7, <2>8
<1>8. CASE ~(Add(t) \/ Remove(t) \/ Unlink(t) \/ CreateFile(t) \/ FillFile(t))
  BY <1>8, WorksElsewhere DEF Working
<1> QED
  BY <1>2, <1>3, <1>5, <1>6, <1>7, <1>8

LEMMA WorksStep ==
  ASSUME Types, Types', Works, [PacksNext]_vars
  PROVE  Works'
<1>1. job \in [Terminals -> Jobs] /\ disk \in [Folders -> [Parts -> Contents]]
  BY DEF Types, PacksTypeOK
<1>2. ASSUME NEW t \in Terminals, NEW u \in Terminals \ {t}, Command(t), Working(u)'
      PROVE  /\ Working(u) /\ Folder(u)' = Folder(u)
             /\ Folder(u)' \in dirty' /\ Filled(job[u], disk[Folder(u)])'
  <2>1. job'[u] = job[u] /\ Working(u) /\ Folder(u)' = Folder(u)
    BY <1>2, OthersWait DEF Working, Folder
  <2>2. Folder(u) \in dirty /\ Filled(job[u], disk[Folder(u)])
    BY <2>1 DEF Works
  <2>3. Folder(u) \in Folders
    BY <1>1, JobTypes, PacksAssumption DEF Folder
  <2>4. ReadConfig(t) => Working(t)
    BY DEF ReadConfig, Working
  <2>5. Folder(u) \in dirty'
    <3>1. \/ dirty \subseteq dirty'
          \/ ReadConfig(t) /\ dirty' = dirty \ {Folder(t)}
      BY <1>2 DEF Command, Add, Remove, Init, GivePack, Give, Unlink, CreateFile, FillFile,
                  ReadConfig, CutConfig, WriteConfig, Answer, LoadIdentity, Name, CreateIdentity,
                  SignIdentity, Die
    <3> QED
      BY <2>1, <2>2, <2>4, <3>1 DEF Works
  <2>6. disk'[Folder(u)] = disk[Folder(u)]
    <3>1. CASE Unlink(t) \/ CreateFile(t) \/ FillFile(t)
      <4>1. Working(t) /\ Folder(t) # Folder(u)
        BY <2>1, <3>1 DEF Works, Working, Unlink, CreateFile, FillFile
      <4>2. \E p : \E content : disk' = [disk EXCEPT ![Folder(t)][p] = content]
        BY <3>1 DEF Unlink, CreateFile, FillFile, Put
      <4> QED
        BY <1>1, <2>3, <4>1, <4>2
    <3>2. CASE ~(Unlink(t) \/ CreateFile(t) \/ FillFile(t))
      BY <1>2, <3>2 DEF Command, Add, Remove, Init, GivePack, Give, ReadConfig, CutConfig,
                        WriteConfig, Answer, LoadIdentity, Name, CreateIdentity, SignIdentity, Die
    <3> QED
      BY <3>1, <3>2
  <2>7. Filled(job'[u], disk'[Folder(u)])
    BY <2>1, <2>2, <2>6
  <2> QED
    BY <2>1, <2>5, <2>7
<1>3. ASSUME NEW t \in Terminals, Command(t)
      PROVE  Works'
  <2>1. \A u \in Terminals : Working(u)' => Folder(u)' \in dirty' /\ Filled(job[u], disk[Folder(u)])'
    BY <1>2, <1>3, WorksOwn
  <2>2. \A u, v \in Terminals : Working(u)' /\ Working(v)' /\ Folder(u)' = Folder(v)' => u = v
    <3> SUFFICES ASSUME NEW u \in Terminals, NEW v \in Terminals,
                        Working(u)', Working(v)', Folder(u)' = Folder(v)', u # v
                 PROVE  FALSE
      OBVIOUS
    <3>1. CASE u = t
      BY <1>2, <1>3, <3>1, WorksOwn
    <3>2. CASE v = t
      BY <1>2, <1>3, <3>2, WorksOwn
    <3>3. CASE u # t /\ v # t
      BY <1>2, <1>3, <3>3 DEF Works
    <3> QED
      BY <3>1, <3>2, <3>3
  <2> QED
    BY <2>1, <2>2 DEF Works
<1>4. CASE UNCHANGED <<job, disk, dirty>>
  <2>1. \A t \in Terminals : /\ Working(t)' <=> Working(t)
                             /\ Folder(t)' = Folder(t) /\ job'[t] = job[t]
                             /\ disk'[Folder(t)] = disk[Folder(t)]
    BY <1>4 DEF Working, Folder
  <2>2. \A t \in Terminals : Working(t)' =>
          Folder(t)' \in dirty' /\ Filled(job'[t], disk'[Folder(t)])
    BY <1>4, <2>1 DEF Works
  <2>3. \A t \in Terminals : Working(t)' =>
          Folder(t)' \in dirty' /\ Filled(job[t], disk[Folder(t)])'
    BY <2>1, <2>2
  <2>4. \A t, u \in Terminals : Working(t)' /\ Working(u)' /\ Folder(t)' = Folder(u)' => t = u
    BY <2>1 DEF Works
  <2> QED
    BY <2>3, <2>4 DEF Works
<1> QED
  BY <1>3, <1>4
  DEF PacksNext, AppStep, StartRun, Identify, CheckPack, Launch, LoadPack, ImportModule,
      NextPack, EndRun, vars

\* A directory that no command has left half done holds nothing or the whole of
\* one source, verified, however the commands of any number of terminals
\* interleave and wherever they are interrupted (rules add, remove).
THEOREM PacksStayIntact == PacksSpec => []InstalledIsIntact
<1>1. PacksInit => Types /\ Works /\ InstalledIsIntact
  BY TypeInit, IntactInit DEF Types
<1>2. Types /\ Works /\ InstalledIsIntact /\ [PacksNext]_vars
        => (Types /\ Works /\ InstalledIsIntact)'
  <2> SUFFICES ASSUME Types, Works, InstalledIsIntact, [PacksNext]_vars
               PROVE  Types' /\ Works' /\ InstalledIsIntact'
    OBVIOUS
  <2>1. Types'
    BY TypeStep
  <2> QED
    BY <2>1, WorksStep, IntactStep
<1> QED
  BY <1>1, <1>2, PTL DEF PacksSpec

-----------------------------------------------------------------------------
(* What is declared *)

\* Until two commands overlap there is one at a time.
Alone ==
  ~overlap => \A t, u \in Terminals : job[t].place # "idle" /\ job[u].place # "idle" => t = u

\* The packs that were asked for once job j has finished.
Wanted(j) == IF j.op = "add" THEN asked \cup {j.pin} ELSE asked \ {j.pin}

\* What job j is about to write: the default, or what was asked for.
Drafted(j) ==
  /\ j.place = "ask" => j.op = "init"
  /\ j.op = "init" /\ j.place \in {"ask", "edit", "write"} => j.text = Default
  /\ j.op # "init" /\ j.place \in {"edit", "write"} /\ j.text.rest => j.text.pins = Wanted(j)

Drafts == ~overlap => \A t \in Terminals : Drafted(job[t])

Declarations == Alone /\ Drafts /\ DeclarationsSurvive

LEMMA DeclarationsInit == PacksInit => Declarations
<1> SUFFICES ASSUME PacksInit
             PROVE  Declarations
  OBVIOUS
<1>1. \A t \in Terminals : job[t] = Rest
  BY DEF PacksInit
<1>2. Alone /\ Drafts
  BY <1>1, RestType DEF Alone, Drafts, Drafted
<1> QED
  BY <1>2 DEF PacksInit, Declarations, DeclarationsSurvive

\* Once commands have overlapped they have for good.
LEMMA OverlapStays ==
  ASSUME [PacksNext]_vars, ~overlap'
  PROVE  /\ ~overlap
         /\ \A t \in Terminals : Add(t) \/ Remove(t) \/ Init(t) =>
              \A u \in Terminals : job[u].place = "idle"
<1>1. ASSUME NEW t \in Terminals, NEW j, Give(t, j)
      PROVE  ~overlap /\ \A u \in Terminals : job[u].place = "idle"
  BY <1>1 DEF Give
<1>2. ASSUME NEW t \in Terminals, Add(t) \/ Remove(t) \/ Init(t)
      PROVE  \E j : Give(t, j)
  BY <1>2 DEF Add, Remove, Init, GivePack
<1>3. overlap' = overlap \/ \E t \in Terminals : Add(t) \/ Remove(t) \/ Init(t)
  BY DEF PacksNext, Command, AppStep, StartRun, Identify, CheckPack, Launch, LoadPack, ImportModule,
         NextPack, EndRun, Unlink, CreateFile, FillFile, ReadConfig, CutConfig, WriteConfig, Answer,
         LoadIdentity, Name, CreateIdentity, SignIdentity, Die, vars, given
<1> QED
  BY <1>1, <1>2, <1>3

\* A command goes on only where one is under way.
LEMMA BusyBefore ==
  ASSUME NEW t \in Terminals, Command(t), ~Add(t), ~Remove(t), ~Init(t)
  PROVE  job[t].place # "idle"
  BY DEF Command, Unlink, CreateFile, FillFile, ReadConfig, CutConfig, WriteConfig, Answer,
         LoadIdentity, Name, CreateIdentity, SignIdentity, Die

LEMMA AloneStep ==
  ASSUME Types, Alone, [PacksNext]_vars
  PROVE  Alone'
<1> SUFFICES ASSUME ~overlap', NEW t \in Terminals, NEW u \in Terminals,
                    job'[t].place # "idle", job'[u].place # "idle", t # u
             PROVE  FALSE
  BY DEF Alone
<1>1. ~overlap
  BY OverlapStays
<1>2. CASE UNCHANGED job
  BY <1>1, <1>2 DEF Alone
<1>3. ASSUME NEW v \in Terminals, Command(v)
      PROVE  FALSE
  <2>1. PICK w \in {t, u} : w # v
    OBVIOUS
  <2>2. job[w].place # "idle"
    BY <1>3, <2>1, OthersWait
  <2>3. ~(Add(v) \/ Remove(v) \/ Init(v))
    BY <2>2, OverlapStays
  <2>4. job[v].place # "idle"
    BY <1>3, <2>3, BusyBefore
  <2> QED
    BY <1>1, <2>1, <2>2, <2>4 DEF Alone
<1> QED
  BY <1>2, <1>3
  DEF PacksNext, AppStep, StartRun, Identify, CheckPack, Launch, LoadPack, ImportModule,
      NextPack, EndRun, vars

\* What becomes of the text, and of what was asked for, in the step of a command.
LEMMA DraftStep ==
  ASSUME Types, Works, NEW t \in Terminals, Command(t), Drafted(job[t]),
         config.rest => config.pins = asked
  PROVE  Drafted(job[t])'
<1>1. job[t] \in Jobs /\ config \in Texts /\ \A place \in Places : [job[t] EXCEPT !.place = place] \in Jobs
  BY JobTypes DEF Types, PacksTypeOK
<1>2. job'[t] = Rest => Drafted(job[t])'
  BY RestType DEF Drafted
<1>3. job'[t].place \in {"clear", "copy", "fill", "load", "name", "create", "sign"} => Drafted(job[t])'
  BY DEF Drafted
<1>4. ASSUME NEW place \in Places, job'[t] = [job[t] EXCEPT !.place = place],
             place # "ask", place \in {"edit", "write"} => job[t].place \in {"ask", "edit"},
             asked' = asked
      PROVE  Drafted(job[t])'
  <2>1. PICK j \in Jobs, i \in Jobs : j = job[t] /\ i = job'[t]
    BY <1>1, <1>4
  <2>2. i.place = place /\ i.op = j.op /\ i.pin = j.pin /\ i.text = j.text
    BY <1>1, <1>4, <2>1, Moved
  <2>3. Wanted(i)' = Wanted(j)
    BY <1>4, <2>2 DEF Wanted
  <2>4. Drafted(j)
    BY <2>1
  <2>5. /\ i.op = "init" /\ i.place \in {"ask", "edit", "write"} => i.text = Default
        /\ i.op # "init" /\ i.place \in {"edit", "write"} /\ i.text.rest => i.text.pins = Wanted(j)
    BY <1>4, <2>1, <2>2, <2>4 DEF Drafted
  <2>6. Drafted(i)'
    BY <1>4, <2>2, <2>3, <2>5 DEF Drafted
  <2> QED
    BY <2>1, <2>6
<1>5. \A place \in Places : [job[t] EXCEPT !.place = place].place = place
  BY <1>1, Moved
<1>6. CASE Add(t) \/ Remove(t) \/ CreateFile(t)
  <2>1. job'[t].place \in {"clear", "fill"}
    <3>1. Add(t) => job'[t].place = "clear"
      <4> SUFFICES ASSUME Add(t)
                   PROVE  job'[t].place = "clear"
        OBVIOUS
      <4>1. PICK s \in Sources :
              job'[t] = [place |-> "clear", op |-> "add", pin |-> PinOf[s], source |-> s,
                         left |-> Held[s] \cup {Manifest}, text |-> Blank]
        BY GoesTo
      <4> QED
        BY <4>1
    <3> QED
      BY <1>6, <3>1, GoesTo
  <2> QED
    BY <1>3, <2>1
<1>7. CASE Init(t)
  <2>1. job'[t].place \in {"ask", "edit"} /\ job'[t].op = "init" /\ job'[t].text = Default
    BY <1>7, GoesTo
  <2> QED
    BY <2>1 DEF Drafted
<1>8. CASE Unlink(t) \/ FillFile(t)
  <2>1. Unlink(t) => job'[t].place = "clear"
    BY DEF Unlink
  <2>2. FillFile(t) => job'[t].place = "copy"
    <3>1. FillFile(t) => job'[t] = [job[t] EXCEPT !.place = "copy"]
      BY GoesTo
    <3> QED
      BY <1>5, <3>1 DEF Places
  <2> QED
    BY <1>3, <1>8, <2>1, <2>2
<1>9. CASE ReadConfig(t)
  <2>1. job[t].op # "init"
    <3>1. Working(t)
      BY <1>9 DEF ReadConfig, Working
    <3> QED
      BY <3>1 DEF Works, Filled
  <2>2. CASE /\ job'[t].place = "edit" /\ job'[t].op = job[t].op /\ job'[t].pin = job[t].pin
             /\ job'[t].text = Edited(job[t]) /\ asked' = asked
    <3>1. PICK j \in Jobs : j = job[t]
      BY <1>1
    <3>2. /\ Edited(j).rest = config.rest
          /\ Edited(j).pins = IF j.op = "add" THEN config.pins \cup {j.pin} ELSE config.pins \ {j.pin}
      BY <1>1, EditedText
    <3>3. config.rest => Edited(j).pins = Wanted(j)
      BY <3>2 DEF Wanted
    <3>4. Wanted(job[t])' = Wanted(j)
      BY <2>2, <3>1 DEF Wanted
    <3> QED
      BY <2>1, <2>2, <3>1, <3>2, <3>3, <3>4 DEF Drafted
  <2> QED
    BY <1>2, <1>9, <2>2, ReadGoesTo
<1>10. CASE CutConfig(t)
  <2>1. job[t].place = "edit" /\ job'[t] = [job[t] EXCEPT !.place = "write"] /\ asked' = asked
    BY <1>10, GoesTo DEF CutConfig
  <2> QED
    BY <1>4, <2>1 DEF Places
<1>11. CASE WriteConfig(t)
  <2>1. job'[t] \in {Rest, [job[t] EXCEPT !.place = "load"]}
    BY <1>11, GoesTo
  <2> QED
    BY <1>2, <1>3, <1>5, <2>1 DEF Places
<1>12. CASE Answer(t)
  <2>1. PICK place \in {"edit", "load"} : job'[t] = [job[t] EXCEPT !.place = place]
    BY <1>12, GoesTo
  <2>2. job[t].place = "ask" /\ asked' = asked
    BY <1>12 DEF Answer
  <2>3. place \in Places
    BY DEF Places
  <2> QED
    BY <1>4, <2>1, <2>2, <2>3
<1>13. CASE LoadIdentity(t) \/ Name(t) \/ CreateIdentity(t) \/ SignIdentity(t) \/ Die(t)
  <2>1. job'[t] = Rest \/ \E place \in {"name", "create", "sign"} : job'[t] = [job[t] EXCEPT !.place = place]
    <3>1. LoadIdentity(t) => job'[t] \in {[job[t] EXCEPT !.place = "name"], Rest}
      BY GoesTo
    <3>2. Name(t) => job'[t] \in {[job[t] EXCEPT !.place = "create"], Rest}
      BY GoesTo
    <3>3. CreateIdentity(t) => job'[t] = [job[t] EXCEPT !.place = "sign"]
      BY GoesTo
    <3>4. SignIdentity(t) \/ Die(t) => job'[t] = Rest
      BY GoesTo
    <3> QED
      BY <1>13, <3>1, <3>2, <3>3, <3>4
  <2> QED
    BY <1>2, <1>3, <1>5, <2>1 DEF Places
<1> QED
  BY <1>6, <1>7, <1>8, <1>9, <1>10, <1>11, <1>12, <1>13 DEF Command

\* What nanny.toml declares after the step of a command.
LEMMA TextStep ==
  ASSUME Types, NEW t \in Terminals, Command(t), Drafted(job[t]),
         config.rest => config.pins = asked
  PROVE  config'.rest => config'.pins = asked'
<1>1. job[t] \in Jobs /\ config \in Texts /\ asked \in SUBSET Pins
  BY DEF Types, PacksTypeOK
<1>2. CASE WriteConfig(t)
  <2>1. /\ job[t].place = "write" /\ config' = job[t].text
        /\ asked' = IF job[t].op = "init" THEN {} ELSE Wanted(job[t])
    BY <1>2 DEF WriteConfig, Finish, Wanted
  <2> QED
    BY <2>1, TextTypes DEF Drafted
<1>3. CASE CutConfig(t)
  BY <1>3, TextTypes DEF CutConfig
<1>4. CASE ReadConfig(t)
  <2>1. config' = config
    BY <1>4 DEF ReadConfig
  <2> QED
    BY <1>1, <1>4, <2>1, ReadGoesTo
<1>5. CASE ~WriteConfig(t) /\ ~CutConfig(t) /\ ~ReadConfig(t)
  <2>1. UNCHANGED <<config, asked>>
    BY <1>5 DEF Command, Add, Remove, Init, GivePack, Give, Unlink, CreateFile, FillFile, Answer,
                LoadIdentity, Name, CreateIdentity, SignIdentity, Die
  <2> QED
    BY <2>1
<1> QED
  BY <1>2, <1>3, <1>4, <1>5

LEMMA DeclarationsStep ==
  ASSUME Types, Works, Declarations, [PacksNext]_vars
  PROVE  Declarations'
<1>1. Alone'
  BY AloneStep DEF Declarations
<1> SUFFICES ASSUME ~overlap'
             PROVE  /\ \A t \in Terminals : Drafted(job[t])'
                    /\ config'.rest => config'.pins = asked'
  BY <1>1 DEF Declarations, Drafts, DeclarationsSurvive
<1>2. /\ ~overlap /\ \A t \in Terminals : Drafted(job[t])
      /\ config.rest => config.pins = asked
  BY OverlapStays DEF Declarations, Drafts, DeclarationsSurvive
<1>3. CASE UNCHANGED <<job, config, asked>>
  BY <1>2, <1>3 DEF Drafted, Wanted
<1>4. ASSUME NEW t \in Terminals, Command(t)
      PROVE  /\ \A u \in Terminals : Drafted(job[u])'
             /\ config'.rest => config'.pins = asked'
  <2>1. Drafted(job[t])' /\ (config'.rest => config'.pins = asked')
    BY <1>2, <1>4, DraftStep, TextStep
  <2>2. ASSUME NEW u \in Terminals \ {t}
        PROVE  Drafted(job[u])'
    <3>1. job[u].place = "idle"
      <4>1. CASE Add(t) \/ Remove(t) \/ Init(t)
        BY <4>1, OverlapStays
      <4>2. CASE ~(Add(t) \/ Remove(t) \/ Init(t))
        BY <1>2, <1>4, <4>2, BusyBefore DEF Declarations, Alone
      <4> QED
        BY <4>1, <4>2
    <3>2. job'[u] = job[u]
      BY <1>4, OthersWait
    <3> QED
      BY <3>1, <3>2 DEF Drafted
  <2> QED
    BY <2>1, <2>2
<1> QED
  BY <1>3, <1>4
  DEF PacksNext, AppStep, StartRun, Identify, CheckPack, Launch, LoadPack, ImportModule,
      NextPack, EndRun, vars

\* While no two commands overlap, a nanny.toml that still allows a tool declares
\* what it was asked to declare, for any number of commands, packs and deaths: a
\* command writes what it has read and edited (rules.rs, init.rs).
THEOREM DeclarationsKept == PacksSpec => []DeclarationsSurvive
<1>1. PacksInit => Types /\ Works /\ Declarations
  BY TypeInit, IntactInit, DeclarationsInit DEF Types
<1>2. Types /\ Works /\ Declarations /\ [PacksNext]_vars => (Types /\ Works /\ Declarations)'
  <2> SUFFICES ASSUME Types, Works, Declarations, [PacksNext]_vars
               PROVE  Types' /\ Works' /\ Declarations'
    OBVIOUS
  <2>1. Types'
    BY TypeStep
  <2> QED
    BY <2>1, WorksStep, DeclarationsStep
<1>3. Declarations => DeclarationsSurvive
  BY DEF Declarations
<1> QED
  BY <1>1, <1>2, <1>3, PTL DEF PacksSpec

-----------------------------------------------------------------------------
(* What the agent has loaded *)

\* What is half done has moved under a run.
Steady == run.place # "idle" => dirty \subseteq run.moved

\* The packs that were looked up are there.
Checked ==
  run.place # "idle" /\ ~run.joined =>
    /\ \A p \in run.pins \ run.left : FolderOf[p] \notin run.moved => Resolves(p)
    /\ run.place \in {"load", "import", "ends"} => run.left = {}

\* The agent is past module x of the i-th directory.
Passed(i, x) == i < run.at \/ (i = run.at /\ run.place = "import" /\ x \notin run.todo)

\* The i-th directory has a module x, which the agent is past.
Known(i, x) == Passed(i, x) /\ Sorted[i] \notin run.moved /\ Whole(Sorted[i], x)

\* Of the directories that have one, the i-th is the last the agent has met.
Newest(i, x) ==
  \A j \in DOMAIN Sorted :
    Passed(j, x) /\ j > i => Sorted[j] \notin run.moved /\ disk[Sorted[j]][x] = Absent

\* Of the directories that did not move, the agent has what it is past.
Progress ==
  run.place # "idle" /\ ~run.failed =>
    /\ \A i \in DOMAIN Sorted, x \in Modules : Known(i, x) =>
         /\ run.rules[x] # Unregistered
         /\ Newest(i, x) => run.rules[x] = disk[Sorted[i]][x]
    /\ run.place = "ends" => run.at = Len(Sorted) + 1

LEMMA AgentInit == PacksInit => Steady /\ Checked /\ Progress
<1>1. 0 \in 0 .. MaxRuns
  BY PacksAssumption
<1> QED
  BY <1>1, NotRunType DEF PacksInit, Steady, Checked, Progress

\* All a command does to the app is to move a directory.
LEMMA CommandMoves ==
  ASSUME Types, NEW t \in Terminals, Command(t)
  PROVE  /\ run'.place = run.place /\ run'.joined = run.joined /\ run'.pins = run.pins
         /\ run'.left = run.left /\ run'.at = run.at /\ run'.todo = run.todo
         /\ run'.rules = run.rules /\ run'.failed = run.failed
         /\ run.moved \subseteq run'.moved
         /\ run.place # "idle" /\ dirty \subseteq run.moved => dirty' \subseteq run'.moved
<1>1. run \in AppRuns
  BY DEF Types, PacksTypeOK
<1>2. CASE run' = run /\ dirty' \subseteq dirty
  BY <1>2
<1>3. ASSUME NEW j \in Jobs, GivePack(t, j)
      PROVE  \E f \in Folders : /\ dirty' = dirty \cup {f}
                                /\ run' = IF run.place = "idle" THEN run ELSE [run EXCEPT !.moved = @ \cup {f}]
  BY <1>3, JobTypes, PacksAssumption DEF GivePack
<1>4. CASE Add(t) \/ Remove(t)
  <2>1. PICK j \in Jobs : GivePack(t, j)
    BY <1>4, GivenTypes DEF Add, Remove
  <2>2. PICK f \in Folders : /\ dirty' = dirty \cup {f}
                             /\ run' = IF run.place = "idle" THEN run ELSE [run EXCEPT !.moved = @ \cup {f}]
    BY <1>3, <2>1
  <2>3. CASE run.place = "idle"
    BY <2>2, <2>3
  <2>4. CASE run.place # "idle"
    <3>1. PICK moved \in SUBSET Folders : moved = run.moved \cup {f}
      BY <1>1, RunTypes
    <3>2. run' = [run EXCEPT !.moved = moved]
      BY <2>2, <2>4, <3>1
    <3>3. run'.moved = moved
      BY <1>1, <3>2 DEF AppRuns
    <3> QED
      BY <1>1, <2>2, <3>1, <3>2, <3>3 DEF AppRuns
  <2> QED
    BY <2>3, <2>4
<1>5. CASE ~(Add(t) \/ Remove(t))
  <2>1. run' = run /\ dirty' \subseteq dirty
    BY <1>5 DEF Command, Init, Unlink, CreateFile, FillFile, ReadConfig, CutConfig, WriteConfig,
                Answer, LoadIdentity, Name, CreateIdentity, SignIdentity, Die
  <2> QED
    BY <1>2, <2>1
<1> QED
  BY <1>4, <1>5

\* A run's step goes from place to place, and may leave what it has loaded alone.
AppMoves(place, next) ==
  /\ run.place = place /\ run'.place = next
  /\ run'.joined = run.joined /\ run'.pins = run.pins /\ run'.moved = run.moved

LoadsNothing == run'.rules = run.rules /\ run'.failed = run.failed

\* What the app does, when it does not stop.
LEMMA AppGoes ==
  ASSUME Types, AppStep, run'.place # "idle"
  PROVE  \/ /\ run'.place = "identify" /\ run'.left = run'.pins
            /\ run'.at = 1 /\ run'.moved = dirty
         \/ /\ AppMoves("identify", IF run.joined THEN "load" ELSE "check")
            /\ run'.left = run.left /\ run'.at = run.at /\ LoadsNothing
         \/ /\ AppMoves("check", "check") /\ run'.at = run.at /\ LoadsNothing
            /\ \E p \in run.left : Resolves(p) /\ run'.left = run.left \ {p}
         \/ /\ AppMoves("check", "load") /\ run.left = {}
            /\ run'.left = run.left /\ run'.at = run.at /\ LoadsNothing
         \/ /\ AppMoves("load", "ends") /\ run.at > Len(Sorted)
            /\ run'.left = run.left /\ run'.at = run.at /\ LoadsNothing
         \/ /\ AppMoves("load", "import") /\ run.at <= Len(Sorted)
            /\ run'.todo = {x \in Modules : disk[Here][x] # Absent}
            /\ run'.left = run.left /\ run'.at = run.at /\ LoadsNothing
         \/ /\ AppMoves("load", "load") /\ run.at <= Len(Sorted) /\ ~Whole(Here, Manifest)
            /\ run'.left = run.left /\ run'.at = run.at + 1 /\ LoadsNothing
         \/ /\ AppMoves("import", "import") /\ run'.left = run.left /\ run'.at = run.at
            /\ \E x \in run.todo :
                 /\ run'.todo = run.todo \ {x}
                 /\ \/ /\ Whole(Here, x) /\ run'.failed = run.failed
                       /\ run'.rules = [run.rules EXCEPT ![x] = disk[Here][x]]
                    \/ disk[Here][x] = Empty /\ LoadsNothing
         \/ AppMoves("import", "ends") /\ run'.left = run.left /\ run'.failed
         \/ /\ AppMoves("import", "load") /\ run.todo = {}
            /\ run'.left = run.left /\ run'.at = run.at + 1 /\ LoadsNothing
<1>1. run \in AppRuns /\ config \in Texts /\ dirty \in SUBSET Folders /\ identity \in Ids \cup {Absent, Empty}
  BY DEF Types, PacksTypeOK
<1>2. run.nth \in 0 .. MaxRuns /\ NotRun(run.nth).place = "idle"
  BY <1>1, RunTypes, NotRunType
<1>3. Len(Sorted) \in Nat /\ run.at \in 1 .. Len(Sorted) + 1
  BY <1>1, RunTypes, PacksAssumption
<1>4. CASE StartRun
  <2>1. PICK joined \in BOOLEAN :
          run' = [NotRun(run.nth + 1) EXCEPT
                    !.place = "identify",
                    !.joined = joined, !.tools = joined \/ config.rest,
                    !.pins = config.pins, !.left = config.pins, !.moved = dirty]
    BY <1>4 DEF StartRun
  <2>2. run'.place = "identify" /\ run'.left = run'.pins /\ run'.moved = dirty
    BY <2>1 DEF NotRun
  <2>3. run'.at = NotRun(run.nth + 1).at /\ NotRun(run.nth + 1).at = 1
    BY <2>1 DEF NotRun
  <2> QED
    BY <2>2, <2>3
<1>5. CASE Identify
  <2>1. PICK place \in {"load", "check"}, app \in Ids \cup {Ephemeral} :
          /\ place = IF run.joined THEN "load" ELSE "check"
          /\ app = IF identity \in Ids THEN identity ELSE run.app
    BY <1>1, RunTypes
  <2>2. run.place = "identify" /\ run' = [run EXCEPT !.place = place, !.app = app]
    BY <1>2, <1>5, <2>1 DEF Identify
  <2>3. /\ AppMoves("identify", place)
        /\ run'.left = run.left /\ run'.at = run.at /\ LoadsNothing
    BY <1>1, <2>2 DEF AppRuns, AppMoves, LoadsNothing
  <2> QED
    BY <2>1, <2>3
<1>6. CASE CheckPack
  <2>1. PICK p \in run.left : Resolves(p) /\ run' = [run EXCEPT !.left = @ \ {p}]
    BY <1>2, <1>6 DEF CheckPack
  <2>2. run.place = "check"
    BY <1>6 DEF CheckPack
  <2>3. /\ AppMoves("check", "check") /\ run'.at = run.at /\ LoadsNothing
        /\ run'.left = run.left \ {p}
    BY <1>1, <2>1, <2>2 DEF AppRuns, AppMoves, LoadsNothing
  <2> QED
    BY <2>1, <2>3
<1>7. CASE Launch
  BY <1>1, <1>7 DEF Launch, AppRuns, AppMoves, LoadsNothing
<1>8. CASE LoadPack
  <2>1. run.place = "load"
    BY <1>8 DEF LoadPack
  <2>2. CASE run.at > Len(Sorted)
    <3>1. run' = [run EXCEPT !.place = "ends"]
      BY <1>8, <2>2 DEF LoadPack
    <3> QED
      BY <1>1, <2>1, <2>2, <3>1 DEF AppRuns, AppMoves, LoadsNothing
  <2>3. CASE run.at <= Len(Sorted) /\ Whole(Here, Manifest)
    <3>1. PICK todo \in SUBSET Modules : todo = {x \in Modules : disk[Here][x] # Absent}
      OBVIOUS
    <3>2. run' = [run EXCEPT !.place = "import", !.todo = todo]
      BY <1>3, <1>8, <2>3, <3>1 DEF LoadPack
    <3>3. /\ AppMoves("load", "import") /\ run'.todo = todo
          /\ run'.left = run.left /\ run'.at = run.at /\ LoadsNothing
      BY <1>1, <2>1, <3>2 DEF AppRuns, AppMoves, LoadsNothing
    <3> QED
      BY <2>3, <3>1, <3>3
  <2>4. CASE run.at <= Len(Sorted) /\ ~Whole(Here, Manifest)
    <3>1. run' = [run EXCEPT !.at = @ + 1]
      BY <1>3, <1>8, <2>4 DEF LoadPack
    <3>2. /\ AppMoves("load", "load")
          /\ run'.left = run.left /\ run'.at = run.at + 1 /\ LoadsNothing
      BY <1>1, <2>1, <3>1 DEF AppRuns, AppMoves, LoadsNothing
    <3> QED
      BY <2>4, <3>2
  <2> QED
    BY <1>3, <2>2, <2>3, <2>4
<1>9. CASE ImportModule
  <2>1. PICK x \in run.todo :
          run' = IF Whole(Here, x)
                 THEN [run EXCEPT !.todo = @ \ {x}, !.rules = Registered(@, x, disk[Here][x])]
                 ELSE IF disk[Here][x] = Empty
                 THEN [run EXCEPT !.todo = @ \ {x}]
                 ELSE [run EXCEPT !.place = "ends", !.todo = {}, !.failed = TRUE]
    BY <1>9 DEF ImportModule
  <2>2. run.place = "import"
    BY <1>9 DEF ImportModule
  <2>3. CASE Whole(Here, x)
    <3>1. run' = [run EXCEPT !.todo = @ \ {x}, !.rules = [@ EXCEPT ![x] = disk[Here][x]]]
      BY <2>1, <2>3 DEF Registered
    <3>2. PICK rules : rules = [run.rules EXCEPT ![x] = disk[Here][x]]
      OBVIOUS
    <3>3. run' = [run EXCEPT !.todo = @ \ {x}, !.rules = rules]
      BY <3>1, <3>2
    <3>4. /\ AppMoves("import", "import") /\ run'.left = run.left /\ run'.at = run.at
          /\ run'.todo = run.todo \ {x} /\ run'.rules = rules /\ run'.failed = run.failed
      BY <1>1, <2>2, <3>3 DEF AppRuns, AppMoves
    <3> QED
      BY <2>3, <3>2, <3>4
  <2>4. CASE ~Whole(Here, x) /\ disk[Here][x] = Empty
    <3>1. run' = [run EXCEPT !.todo = @ \ {x}]
      BY <2>1, <2>4
    <3>2. /\ AppMoves("import", "import") /\ run'.left = run.left /\ run'.at = run.at
          /\ run'.todo = run.todo \ {x} /\ LoadsNothing
      BY <1>1, <2>2, <3>1 DEF AppRuns, AppMoves, LoadsNothing
    <3> QED
      BY <2>4, <3>2
  <2>5. CASE ~Whole(Here, x) /\ disk[Here][x] # Empty
    <3>1. run' = [run EXCEPT !.place = "ends", !.todo = {}, !.failed = TRUE]
      BY <2>1, <2>5
    <3>2. AppMoves("import", "ends") /\ run'.left = run.left /\ run'.failed
      BY <1>1, <2>2, <3>1 DEF AppRuns, AppMoves
    <3> QED
      BY <3>2
  <2> QED
    BY <2>3, <2>4, <2>5
<1>10. CASE NextPack
  BY <1>1, <1>10 DEF NextPack, AppRuns, AppMoves, LoadsNothing
<1>11. CASE EndRun
  BY <1>2, <1>11 DEF EndRun
<1> QED
  BY <1>4, <1>5, <1>6, <1>7, <1>8, <1>9, <1>10, <1>11 DEF AppStep

LEMMA AppFrame ==
  ASSUME AppStep
  PROVE  UNCHANGED <<disk, config, job, given, naming, dirty, asked>>
  BY DEF AppStep, StartRun, Identify, CheckPack, Launch, LoadPack, ImportModule, NextPack, EndRun

LEMMA SteadyStep ==
  ASSUME Types, Steady, [PacksNext]_vars
  PROVE  Steady'
<1>1. CASE UNCHANGED <<dirty, run>>
  BY <1>1 DEF Steady
<1>2. ASSUME NEW t \in Terminals, Command(t)
      PROVE  Steady'
  BY <1>2, CommandMoves DEF Steady
<1>3. CASE AppStep
  <2> SUFFICES ASSUME run'.place # "idle"
               PROVE  dirty' \subseteq run'.moved
    BY DEF Steady
  <2>1. dirty' = dirty
    BY <1>3, AppFrame
  <2>2. run'.moved = dirty \/ (run.place # "idle" /\ run'.moved = run.moved)
    BY <1>3, AppGoes DEF AppMoves
  <2> QED
    BY <2>1, <2>2 DEF Steady
<1> QED
  BY <1>1, <1>2, <1>3 DEF PacksNext, vars

\* A directory that has not moved under a run does not change either.
LEMMA StillThere ==
  ASSUME Types, Works, Steady, [PacksNext]_vars, run.place # "idle",
         NEW f \in Folders, f \notin run.moved
  PROVE  disk'[f] = disk[f]
  BY DiskFrame DEF Works, Steady

\* Nor is it half done.
LEMMA WholeOrNone ==
  ASSUME InstalledIsIntact, Steady, run.place # "idle",
         NEW f \in Folders, f \notin run.moved, ~Whole(f, Manifest), NEW x \in Modules
  PROVE  ~Whole(f, x)
<1>1. Intact(f, disk[f])
  BY IntactIsInstalled DEF Steady
<1>2. x \in Parts /\ Manifest \in Parts /\ Absent \notin Sources
  BY NamesAssumption DEF Parts
<1>3. CASE \A p \in Parts : disk[f][p] = Absent
  BY <1>2, <1>3 DEF Whole
<1>4. CASE \E s \in Sources : disk[f][Manifest] = s
  BY <1>4 DEF Whole
<1> QED
  BY <1>1, <1>2, <1>3, <1>4 DEF Intact, Goods

LEMMA CheckedStep ==
  ASSUME Types, Works, Steady, Checked, [PacksNext]_vars
  PROVE  Checked'
<1> SUFFICES ASSUME run'.place # "idle", ~run'.joined
             PROVE  /\ \A p \in run'.pins \ run'.left : FolderOf[p] \notin run'.moved => Resolves(p)'
                    /\ run'.place \in {"load", "import", "ends"} => run'.left = {}
  BY DEF Checked
<1>1. ASSUME NEW p \in Pins, Resolves(p), FolderOf[p] \notin run.moved, run.place # "idle"
      PROVE  Resolves(p)'
  <2>1. FolderOf[p] \in Folders
    BY PacksAssumption
  <2>2. disk'[FolderOf[p]] = disk[FolderOf[p]]
    BY <1>1, <2>1, StillThere
  <2> QED
    BY <1>1, <2>2 DEF Resolves, Whole
<1>2. run.pins \in SUBSET Pins
  BY RunTypes DEF Types, PacksTypeOK
<1>3. ASSUME run.place # "idle", run'.joined = run.joined, run'.pins = run.pins,
             run.moved \subseteq run'.moved,
             \A p \in run.left \ run'.left : Resolves(p),
             run'.place \in {"load", "import", "ends"} => run'.left = {}
      PROVE  /\ \A p \in run'.pins \ run'.left : FolderOf[p] \notin run'.moved => Resolves(p)'
             /\ run'.place \in {"load", "import", "ends"} => run'.left = {}
  <2> SUFFICES ASSUME NEW p \in run'.pins \ run'.left, FolderOf[p] \notin run'.moved
               PROVE  Resolves(p)'
    BY <1>3
  <2>1. p \in Pins /\ FolderOf[p] \notin run.moved
    BY <1>2, <1>3
  <2>2. Resolves(p)
    BY <1>3, <2>1 DEF Checked
  <2> QED
    BY <1>1, <1>3, <2>1, <2>2
<1>4. CASE UNCHANGED <<disk, run>>
  BY <1>4 DEF Checked, Resolves, Whole
<1>5. ASSUME NEW t \in Terminals, Command(t)
      PROVE  /\ \A p \in run'.pins \ run'.left : FolderOf[p] \notin run'.moved => Resolves(p)'
             /\ run'.place \in {"load", "import", "ends"} => run'.left = {}
  <2>1. /\ run.place # "idle" /\ ~run.joined /\ run.moved \subseteq run'.moved
        /\ run'.place = run.place /\ run'.joined = run.joined
        /\ run'.pins = run.pins /\ run'.left = run.left
    BY <1>5, CommandMoves
  <2>2. run'.place \in {"load", "import", "ends"} => run'.left = {}
    BY <2>1 DEF Checked
  <2> QED
    BY <1>3, <2>1, <2>2
<1>6. CASE AppStep
  <2>1. CASE run'.place = "identify" /\ run'.left = run'.pins
    BY <2>1
  <2>2. CASE AppMoves("identify", IF run.joined THEN "load" ELSE "check") /\ run'.left = run.left
    BY <1>3, <2>2 DEF AppMoves
  <2>3. CASE /\ AppMoves("check", "check")
             /\ \E p \in run.left : Resolves(p) /\ run'.left = run.left \ {p}
    BY <1>3, <2>3 DEF AppMoves
  <2>4. CASE AppMoves("check", "load") /\ run.left = {} /\ run'.left = run.left
    BY <1>3, <2>4 DEF AppMoves
  <2>5. CASE /\ run'.left = run.left
             /\ \/ AppMoves("load", "ends") \/ AppMoves("load", "import") \/ AppMoves("load", "load")
                \/ AppMoves("import", "import") \/ AppMoves("import", "ends") \/ AppMoves("import", "load")
    <3>1. /\ run.place \in {"load", "import"}
          /\ run'.joined = run.joined /\ run'.pins = run.pins /\ run'.moved = run.moved
      BY <2>5 DEF AppMoves
    <3>2. run'.left = {}
      BY <2>5, <3>1 DEF Checked
    <3> QED
      BY <1>3, <2>5, <3>1, <3>2
  <2> QED
    BY <1>6, <2>1, <2>2, <2>3, <2>4, <2>5, AppGoes
<1> QED
  BY <1>4, <1>5, <1>6 DEF PacksNext, vars

\* A step that loads nothing, of the agent or of a command: it is past no module
\* that is there and was not.
LEMMA ProgressFrame ==
  ASSUME Progress, run.place # "idle", LoadsNothing,
         \A f \in Folders : f \notin run'.moved => f \notin run.moved /\ disk'[f] = disk[f],
         \A i \in DOMAIN Sorted, x \in Modules : Passed(i, x) => Passed(i, x)',
         \A i \in DOMAIN Sorted, x \in Modules : Known(i, x)' => Passed(i, x),
         run'.place = "ends" => run'.at = Len(Sorted) + 1
  PROVE  Progress'
<1> SUFFICES ASSUME ~run'.failed, NEW i \in DOMAIN Sorted, NEW x \in Modules, Known(i, x)'
             PROVE  run'.rules[x] # Unregistered /\ (Newest(i, x)' => run'.rules[x] = disk'[Sorted[i]][x])
  BY DEF Progress
<1>1. \A j \in DOMAIN Sorted : Sorted[j] \in Folders
  BY DEF Folders
<1>2. disk'[Sorted[i]] = disk[Sorted[i]] /\ Known(i, x)
  BY <1>1 DEF Known, Whole
<1>3. Newest(i, x)' => Newest(i, x)
  BY <1>1 DEF Newest
<1> QED
  BY <1>2, <1>3 DEF Progress, LoadsNothing

\* A module that is there is registered, in the place of one of its name.
LEMMA ProgressImport ==
  ASSUME Types, Types', Progress, run.place = "import", run'.place = "import", disk' = disk, run'.moved = run.moved,
         run'.at = run.at, run'.failed = run.failed, NEW x \in run.todo, run'.todo = run.todo \ {x},
         Whole(Here, x), run'.rules = [run.rules EXCEPT ![x] = disk[Here][x]]
  PROVE  Progress'
<1> SUFFICES ASSUME ~run'.failed, NEW i \in DOMAIN Sorted, NEW y \in Modules, Known(i, y)'
             PROVE  run'.rules[y] # Unregistered /\ (Newest(i, y)' => run'.rules[y] = disk'[Sorted[i]][y])
  BY DEF Progress
<1>1. /\ run.rules \in [Modules -> Sources \cup {Unregistered}] /\ run.todo \in SUBSET Modules
      /\ run.at \in DOMAIN Sorted /\ DOMAIN Sorted \subseteq Nat
  <2>1. run \in AppRuns /\ run.at <= Len(Sorted)
    BY DEF Types, PacksTypeOK, Looking
  <2>2. Len(Sorted) \in Nat /\ DOMAIN Sorted = 1 .. Len(Sorted)
    BY PacksAssumption
  <2> QED
    BY <2>1, <2>2, RunTypes
<1>2. CASE y # x
  <2>1. \A j \in DOMAIN Sorted : Passed(j, y)' <=> Passed(j, y)
    BY <1>2 DEF Passed
  <2>2. Known(i, y) /\ (Newest(i, y)' => Newest(i, y))
    BY <2>1 DEF Known, Newest, Whole
  <2>3. run'.rules[y] = run.rules[y]
    BY <1>1, <1>2
  <2> QED
    BY <2>2, <2>3 DEF Progress
<1>3. CASE y = x
  <2>1. run'.rules[x] = disk[Here][x] /\ disk[Here][x] \in Sources
    BY <1>1 DEF Whole
  <2>2. run'.rules[x] # Unregistered
    BY <2>1, NamesAssumption
  <2>3. i = run.at \/ i < run.at
    BY <1>1 DEF Known, Passed
  <2>4. ASSUME i < run.at
        PROVE  ~Newest(i, x)'
    <3>1. Passed(run.at, x)'
      BY DEF Passed
    <3>2. disk[Here][x] # Absent
      BY <2>1, NamesAssumption
    <3> QED
      BY <1>1, <2>4, <3>1, <3>2 DEF Newest, Here
  <2> QED
    BY <1>3, <2>1, <2>2, <2>3, <2>4 DEF Here
<1> QED
  BY <1>2, <1>3

LEMMA ProgressStep ==
  ASSUME Types, Types', Works, InstalledIsIntact, Steady, Progress, [PacksNext]_vars
  PROVE  Progress'
<1>1. /\ run.at \in Nat /\ Len(Sorted) \in Nat /\ run.at <= Len(Sorted) + 1
      /\ DOMAIN Sorted = 1 .. Len(Sorted)
  <2>1. run \in AppRuns
    BY DEF Types, PacksTypeOK
  <2>2. Len(Sorted) \in Nat /\ DOMAIN Sorted = 1 .. Len(Sorted)
    BY PacksAssumption
  <2> QED
    BY <2>1, <2>2, RunTypes
<1> SUFFICES ASSUME run'.place # "idle", ~run'.failed
             PROVE  Progress'
  BY DEF Progress
<1>2. CASE UNCHANGED <<disk, run>>
  BY <1>2 DEF Progress, Known, Newest, Passed, Whole
<1>3. ASSUME NEW t \in Terminals, Command(t)
      PROVE  Progress'
  <2>1. /\ run.place # "idle" /\ run'.place = run.place /\ run'.at = run.at /\ run'.todo = run.todo
        /\ run'.rules = run.rules /\ run'.failed = run.failed /\ run.moved \subseteq run'.moved
    BY <1>3, CommandMoves
  <2>2. \A f \in Folders : f \notin run'.moved => f \notin run.moved /\ disk'[f] = disk[f]
    BY <2>1, StillThere
  <2>3. \A i \in DOMAIN Sorted, x \in Modules : (Passed(i, x) => Passed(i, x)') /\ (Known(i, x)' => Passed(i, x))
    BY <2>1 DEF Passed, Known
  <2>4. run'.place = "ends" => run'.at = Len(Sorted) + 1
    BY <2>1 DEF Progress
  <2> QED
    BY <2>1, <2>2, <2>3, <2>4, ProgressFrame DEF LoadsNothing
<1>4. CASE AppStep
  <2>1. disk' = disk
    BY <1>4, AppFrame
  <2>2. CASE run'.place = "identify" /\ run'.at = 1
    <3>1. \A i \in DOMAIN Sorted, x \in Modules : ~Passed(i, x)'
      BY <1>1, <2>2 DEF Passed
    <3> QED
      BY <2>2, <3>1 DEF Progress, Known
  <2>3. ASSUME run.place \notin {"idle", "import"}, run'.place # "import", run'.place # "ends",
               run'.moved = run.moved, run'.at = run.at, LoadsNothing
        PROVE  Progress'
    <3>1. \A i \in DOMAIN Sorted, x \in Modules : (Passed(i, x) => Passed(i, x)') /\ (Known(i, x)' => Passed(i, x))
      BY <2>3 DEF Passed, Known
    <3> QED
      BY <2>1, <2>3, <3>1, ProgressFrame
  <2>4. CASE /\ AppMoves("identify", IF run.joined THEN "load" ELSE "check")
             /\ run'.at = run.at /\ LoadsNothing
    BY <2>3, <2>4 DEF AppMoves
  <2>5. CASE AppMoves("check", "check") /\ run'.at = run.at /\ LoadsNothing
    BY <2>3, <2>5 DEF AppMoves
  <2>6. CASE AppMoves("check", "load") /\ run'.at = run.at /\ LoadsNothing
    BY <2>3, <2>6 DEF AppMoves
  <2>7. CASE AppMoves("load", "ends") /\ run.at > Len(Sorted) /\ run'.at = run.at /\ LoadsNothing
    <3>1. /\ run.place = "load" /\ run'.place = "ends" /\ run'.moved = run.moved
          /\ run'.at = Len(Sorted) + 1
      BY <1>1, <2>7 DEF AppMoves
    <3>2. \A i \in DOMAIN Sorted, x \in Modules : (Passed(i, x) => Passed(i, x)') /\ (Known(i, x)' => Passed(i, x))
      BY <2>7, <3>1 DEF Passed, Known
    <3> QED
      BY <2>1, <2>7, <3>1, <3>2, ProgressFrame
  <2>8. CASE /\ AppMoves("load", "import")
             /\ run'.todo = {x \in Modules : disk[Here][x] # Absent}
             /\ run'.at = run.at /\ LoadsNothing
    <3>1. run.place = "load" /\ run'.place = "import" /\ run'.moved = run.moved
      BY <2>8 DEF AppMoves
    <3>2. \A i \in DOMAIN Sorted, x \in Modules : Passed(i, x) => Passed(i, x)'
      BY <2>8, <3>1 DEF Passed
    <3>3. ASSUME NEW i \in DOMAIN Sorted, NEW x \in Modules, Known(i, x)'
          PROVE  Passed(i, x)
      <4>1. CASE i < run.at
        BY <4>1 DEF Passed
      <4>2. CASE i = run.at
        <5>1. x \notin run'.todo
          BY <1>1, <2>8, <3>3, <4>2 DEF Known, Passed
        <5>2. disk[Here][x] = Absent
          BY <2>8, <5>1
        <5>3. disk[Here][x] \in Sources
          BY <2>1, <3>3, <4>2 DEF Known, Whole, Here
        <5> QED
          BY <5>2, <5>3, NamesAssumption
      <4> QED
        BY <2>8, <3>3, <4>1, <4>2 DEF Known, Passed
    <3> QED
      BY <2>1, <2>8, <3>1, <3>2, <3>3, ProgressFrame
  <2>9. CASE /\ AppMoves("load", "load") /\ run.at <= Len(Sorted) /\ ~Whole(Here, Manifest)
             /\ run'.at = run.at + 1 /\ LoadsNothing
    <3>1. run.place = "load" /\ run'.place = "load" /\ run'.moved = run.moved
      BY <2>9 DEF AppMoves
    <3>2. \A i \in DOMAIN Sorted, x \in Modules : Passed(i, x) => Passed(i, x)'
      BY <1>1, <2>9, <3>1 DEF Passed
    <3>3. ASSUME NEW i \in DOMAIN Sorted, NEW x \in Modules, Known(i, x)'
          PROVE  Passed(i, x)
      <4>1. i < run.at \/ i = run.at
        BY <1>1, <2>9, <3>1, <3>3 DEF Known, Passed
      <4>2. i # run.at
        <5> SUFFICES ASSUME i = run.at
                     PROVE  FALSE
          OBVIOUS
        <5>1. /\ Sorted[i] \in Folders /\ Sorted[i] \notin run.moved
              /\ Whole(Sorted[i], x) /\ ~Whole(Sorted[i], Manifest)
          BY <2>1, <2>9, <3>1, <3>3 DEF Known, Whole, Here, Folders
        <5> QED
          BY <3>1, <5>1, WholeOrNone
      <4> QED
        BY <4>1, <4>2 DEF Passed
    <3> QED
      BY <2>1, <2>9, <3>1, <3>2, <3>3, ProgressFrame
  <2>10. CASE /\ AppMoves("import", "import") /\ run'.at = run.at
              /\ \E x \in run.todo :
                   /\ run'.todo = run.todo \ {x}
                   /\ \/ /\ Whole(Here, x) /\ run'.failed = run.failed
                         /\ run'.rules = [run.rules EXCEPT ![x] = disk[Here][x]]
                      \/ disk[Here][x] = Empty /\ LoadsNothing
    <3>1. run.place = "import" /\ run'.place = "import" /\ run'.moved = run.moved
      BY <2>10 DEF AppMoves
    <3>2. PICK x \in run.todo :
            /\ run'.todo = run.todo \ {x}
            /\ \/ /\ Whole(Here, x) /\ run'.failed = run.failed
                  /\ run'.rules = [run.rules EXCEPT ![x] = disk[Here][x]]
               \/ disk[Here][x] = Empty /\ LoadsNothing
      BY <2>10
    <3>3. CASE /\ Whole(Here, x) /\ run'.failed = run.failed
               /\ run'.rules = [run.rules EXCEPT ![x] = disk[Here][x]]
      BY <2>1, <2>10, <3>1, <3>2, <3>3, ProgressImport
    <3>4. CASE disk[Here][x] = Empty /\ LoadsNothing
      <4>1. \A i \in DOMAIN Sorted, y \in Modules : Passed(i, y) => Passed(i, y)'
        BY <2>10, <3>1, <3>2 DEF Passed
      <4>2. ASSUME NEW i \in DOMAIN Sorted, NEW y \in Modules, Known(i, y)', ~Passed(i, y)
            PROVE  FALSE
        <5>1. i = run.at /\ y = x
          BY <2>10, <3>1, <3>2, <4>2 DEF Known, Passed
        <5>2. disk[Here][x] \in Sources
          BY <2>1, <4>2, <5>1 DEF Known, Whole, Here
        <5> QED
          BY <3>4, <5>2, NamesAssumption
      <4> QED
        BY <2>1, <3>1, <3>4, <4>1, <4>2, ProgressFrame
    <3> QED
      BY <3>2, <3>3, <3>4
  <2>11. CASE /\ AppMoves("import", "load") /\ run.todo = {}
              /\ run'.at = run.at + 1 /\ LoadsNothing
    <3>1. run.place = "import" /\ run'.place = "load" /\ run'.moved = run.moved
      BY <2>11 DEF AppMoves
    <3>2. \A i \in DOMAIN Sorted, x \in Modules : Passed(i, x) <=> Passed(i, x)'
      BY <1>1, <2>11, <3>1 DEF Passed
    <3> QED
      BY <2>1, <2>11, <3>1, <3>2, ProgressFrame DEF Known
  <2> QED
    BY <1>4, <2>2, <2>4, <2>5, <2>6, <2>7, <2>8, <2>9, <2>10, <2>11, AppGoes
<1> QED
  BY <1>2, <1>3, <1>4 DEF PacksNext, vars

\* What is loaded is what is there, of the directories nobody works in.
Agent == Types /\ Works /\ InstalledIsIntact /\ Steady /\ Checked /\ Progress

LEMMA AgentStep == Agent /\ [PacksNext]_vars => Agent'
<1> SUFFICES ASSUME Agent, [PacksNext]_vars
             PROVE  Agent'
  OBVIOUS
<1>1. Types'
  BY TypeStep DEF Agent
<1> QED
  BY <1>1, WorksStep, IntactStep, SteadyStep, CheckedStep, ProgressStep DEF Agent

\* An agent that has loaded its rules is past every module of every directory.
LEMMA PastAll ==
  ASSUME Agent, run.place = "ends", ~run.failed, NEW i \in DOMAIN Sorted, NEW x \in Modules
  PROVE  Passed(i, x)
<1>1. Len(Sorted) \in Nat /\ DOMAIN Sorted = 1 .. Len(Sorted)
  BY PacksAssumption
<1> QED
  BY <1>1 DEF Agent, Progress, Passed

LEMMA AgentEnforces == Agent => DeclaredIsEnforced
<1> SUFFICES ASSUME Agent, NEW p \in run.pins, ~run.joined, Loaded(FolderOf[p])
             PROVE  /\ \E s \in Sources : PinOf[s] = p /\ disk[FolderOf[p]][Manifest] = s
                    /\ Enforced(FolderOf[p])
  BY DEF DeclaredIsEnforced
<1>1. p \in Pins /\ run.place = "ends" /\ ~run.failed /\ FolderOf[p] \notin run.moved
  BY RunTypes DEF Agent, Types, PacksTypeOK, Loaded
<1>2. Resolves(p)
  BY <1>1 DEF Agent, Checked
<1>3. PICK i \in DOMAIN Sorted : FolderOf[p] = Sorted[i]
  BY <1>1, PacksAssumption DEF Folders
<1>4. ASSUME NEW x \in Modules, disk[FolderOf[p]][x] \in Sources
      PROVE  run.rules[x] # Unregistered
  <2>1. Known(i, x)
    BY <1>1, <1>3, <1>4, PastAll DEF Known, Whole
  <2> QED
    BY <1>1, <2>1 DEF Agent, Progress
<1> QED
  BY <1>2, <1>4 DEF Resolves, Whole, Enforced

LEMMA AgentLastWins == Agent => PacksInvariant
<1> SUFFICES ASSUME Agent, NEW i \in DOMAIN Sorted, NEW x \in Modules,
                    \A j \in i .. Len(Sorted) : Loaded(Sorted[j]),
                    Whole(Sorted[i], x),
                    \A j \in (i + 1) .. Len(Sorted) : disk[Sorted[j]][x] = Absent
             PROVE  run.rules[x] = disk[Sorted[i]][x]
  BY DEF PacksInvariant, LastInOrderWins, Agent, Types
<1>1. Len(Sorted) \in Nat /\ DOMAIN Sorted = 1 .. Len(Sorted)
  BY PacksAssumption
<1>2. i \in i .. Len(Sorted) /\ \A j \in DOMAIN Sorted : j > i => j \in i .. Len(Sorted) /\ j \in (i + 1) .. Len(Sorted)
  BY <1>1
<1>3. run.place = "ends" /\ ~run.failed /\ Sorted[i] \notin run.moved
  BY <1>2 DEF Loaded
<1>4. Known(i, x) /\ Newest(i, x)
  BY <1>2, <1>3, PastAll DEF Known, Newest, Loaded
<1> QED
  BY <1>3, <1>4 DEF Agent, Progress

LEMMA AgentKept == PacksSpec => []Agent
<1>1. PacksInit => Agent
  BY TypeInit, IntactInit, AgentInit DEF Agent, Types
<1> QED
  BY <1>1, AgentStep, PTL DEF PacksSpec

\* Under a governor of its own an agent has the rules of every pack that was
\* declared when it started, if nobody touched the pack since, for any number of
\* packs, modules and terminals (config/src/pack.rs, packs.py).
THEOREM DeclaredPacksGovern == PacksSpec => []DeclaredIsEnforced
  BY AgentKept, AgentEnforces, PTL

\* Of several rules of one name the one of the last directory is in force, in
\* states that are well typed, for any directories in any order (packs.py).
THEOREM LastPackWins == PacksSpec => []PacksInvariant
  BY AgentKept, AgentLastWins, PTL

=============================================================================
