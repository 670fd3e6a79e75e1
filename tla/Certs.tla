-------------------------------- MODULE Certs --------------------------------
(***************************************************************************)
(* The certificate bundle of one app and one environment, the commands     *)
(* that write it (nanny certs, commands/certs.rs) and the governor that    *)
(* serves it (build_tls_config and the reload thread, network.rs).         *)
(*                                                                         *)
(* A bundle is seven files in one directory.  A command writes them one    *)
(* after the other and may die between any two of them; the governor reads *)
(* three of them one after the other, when it starts and whenever it is    *)
(* told of a change, with the commands running.                            *)
(*                                                                         *)
(* Key material is a number: the CA that nanny certs generate made in its  *)
(* n-th issue is n, the operator's own PKI is 0, and a certificate and its *)
(* key carry the issue they come from.  Dates, serials and the permission  *)
(* bits are left out.                                                      *)
(***************************************************************************)
EXTENDS Naturals, Sequences

CONSTANTS
  Hosts,      \* the names agents dial other than the local ones
  Local,      \* ALWAYS_SANS
  Imported,   \* the word that import records instead of the names
  Given,      \* the sets of files an import is given
  MaxIssues,  \* bound: how many commands issue or import key material
  MaxRemoves, \* bound: how often the bundle is removed
  MaxDeaths   \* bound: how often a command is interrupted

ASSUME CertsAssumption ==
  /\ Local \notin Hosts /\ Imported \notin Hosts /\ Imported # Local
  /\ Given \subseteq SUBSET {"ca.crt", "server.crt", "server.key"}
  /\ MaxIssues \in Nat \ {0} /\ {MaxRemoves, MaxDeaths} \subseteq Nat

VARIABLES
  disk,      \* disk[f]: the file f of the bundle
  doing,     \* which command is running
  steps,     \* what it has still to do to the files
  issues,    \* how many have issued or imported
  removes,   \* how many have removed
  deaths,    \* how many have been interrupted
  gov,       \* the governor of the app
  served,    \* the TLS configuration new connections meet
  reading,   \* how far the thread that reads the bundle has got
  buffer,    \* what it has read
  watching,  \* whether the watcher reports changes of the directory
  told,      \* whether a report waits in the channel
  unseen,    \* history variable: a change went unreported since the last read
  fleet      \* history variable: what the agents in the field depend on

command  == <<doing, steps, issues, removes, deaths>>
governor == <<gov, served, reading, buffer, watching, told>>
vars     == <<disk, command, governor, unseen, fleet>>

External == 0
NoIssue  == 0
Issues   == 0 .. MaxIssues
Names    == Hosts \cup {Local, Imported}

Files == {"ca.crt", "ca.key", "server.crt", "server.key", "client.crt",
          "client.key", "meta.json"}

\* One content for all files; a field that a file has not is blank.
Contents ==
  [is : {"absent", "torn", "whole"}, ca : Issues, pair : Issues, names : SUBSET Names]

Absent == [is |-> "absent", ca |-> NoIssue, pair |-> NoIssue, names |-> {}]
Torn   == [Absent EXCEPT !.is = "torn"]

CertOf(ca, pair, names) == [is |-> "whole", ca |-> ca, pair |-> pair, names |-> names]
CaOf(ca)                == CertOf(ca, NoIssue, {})
KeyOf(pair)             == CertOf(NoIssue, pair, {})
MetaOf(names)           == CertOf(NoIssue, NoIssue, names)

Whole(f) == disk[f].is = "whole"

Exists(f) == disk[f].is # "absent"

Bundle == [ca : Contents, cert : Contents, key : Contents]

Empty == [ca |-> Absent, cert |-> Absent, key |-> Absent]

OnDisk == [ca |-> disk["ca.crt"], cert |-> disk["server.crt"], key |-> disk["server.key"]]

\* What the agents hold: the CA they trust and were issued under, and the
\* names they dial.  Nobody holds anything before the first has joined.
Fleets == [joined : BOOLEAN, ca : Issues, dial : SUBSET Names]

Nobody == [joined |-> FALSE, ca |-> NoIssue, dial |-> {}]

-----------------------------------------------------------------------------
(* The commands: what each will do to the files, in order *)

Step(how, file, to) == [how |-> how, file |-> file, to |-> to]

\* A temporary file written and renamed over the old one.
Renamed(file, to) == Step("rename", file, to)

\* A plain write: the file is cut to nothing and then filled.
Written(file, to) == Step("write", file, to)

\* server_sans: the names every certificate has and the ones asked for.
ServerSans(extra) == extra \cup {Local}

\* What generate leaves behind in its n-th issue.
Generated(n, names) ==
  [f \in Files |->
     CASE f \in {"ca.crt", "ca.key"} -> CaOf(n)
       [] f = "server.crt"           -> CertOf(n, n, names)
       [] f = "client.crt"           -> CertOf(n, n, {})
       [] f = "meta.json"            -> MetaOf(names)
       [] OTHER                      -> KeyOf(n)]

\* The app is new, or has the bundle of an earlier generate.
CertsInit ==
  /\ \/ disk = [f \in Files |-> Absent] /\ issues = 0
     \/ disk = Generated(1, ServerSans({})) /\ issues = 1
  /\ doing = "none" /\ steps = <<>>
  /\ removes = 0 /\ deaths = 0
  /\ gov = "down" /\ served = Empty /\ reading = "idle" /\ buffer = Empty
  /\ watching = FALSE /\ told = FALSE /\ unseen = FALSE
  /\ fleet = Nobody

\* The fault of a leaf whose new key stays in memory.
Leaves_NoKey(ca, pair, names) ==
  <<Renamed("server.crt", CertOf(ca, pair, names)),
    Renamed("client.crt", CertOf(ca, pair, {})), Renamed("client.key", KeyOf(pair))>>

\* A server and a client certificate with their keys, signed by ca.
Leaves(ca, pair, names) ==
  <<Renamed("server.crt", CertOf(ca, pair, names)), Renamed("server.key", KeyOf(pair)),
    Renamed("client.crt", CertOf(ca, pair, {})), Renamed("client.key", KeyOf(pair))>>

\* cmd_certs_generate: refused over an existing file unless forced.
Generate ==
  /\ doing = "none" /\ issues < MaxIssues
  /\ \E force \in BOOLEAN, extra \in SUBSET Hosts :
       LET new == issues + 1
           san == ServerSans(extra)
       IN  /\ force \/ \A f \in Files \ {"meta.json"} : ~Exists(f)
           /\ steps' = <<Renamed("ca.crt", CaOf(new)), Renamed("ca.key", CaOf(new))>>
                         \o Leaves(new, new, san) \o <<Written("meta.json", MetaOf(san))>>
  /\ doing' = "generate"
  /\ issues' = issues + 1
  /\ fleet' = Nobody
  /\ UNCHANGED <<disk, removes, deaths, governor, unseen>>

\* The fault of a rotation that takes the names from nowhere.
Carried_Nothing == {}

\* The names of the previous certificate, as meta.json has them; none if it
\* cannot be read.
Carried == IF Whole("meta.json") THEN disk["meta.json"].names ELSE {}

\* The CA whose private key is at hand.
Issuer == disk["ca.key"].ca

\* cmd_certs_rotate: new leaves under the CA key there is.  Whether ca.crt is
\* the certificate of that key is not asked; when it is not, no agent that
\* trusts ca.crt can be promised anything.
Rotate ==
  /\ doing = "none" /\ issues < MaxIssues
  /\ Exists("ca.crt") /\ Whole("ca.key")
  /\ \E extra \in SUBSET Hosts :
       LET san == ServerSans(IF extra = {} THEN Carried ELSE extra)
       IN  /\ steps' = Leaves(Issuer, issues + 1, san) \o <<Written("meta.json", MetaOf(san))>>
           /\ doing' = IF extra = {} THEN "rotate" ELSE "rename"
           /\ fleet' = IF Issuer # disk["ca.crt"].ca THEN Nobody
                       ELSE IF extra # {} THEN [fleet EXCEPT !.dial = {}] ELSE fleet
  /\ issues' = issues + 1
  /\ UNCHANGED <<disk, removes, deaths, governor, unseen>>

\* A partial import leaves the other files intact.
IfGiven(given, file, to) == IF file \in given THEN <<Written(file, to)>> ELSE <<>>

\* cmd_certs_import: the files that are given, each written in place, then the
\* check, then meta.json.  The certificate is one the operator's PKI issued for
\* all the names.
Import ==
  /\ doing = "none" /\ issues < MaxIssues
  /\ \E given \in Given \ {{}} :
       LET new == issues + 1
       IN  steps' = IfGiven(given, "ca.crt", CaOf(External))
                    \o IfGiven(given, "server.crt", CertOf(External, new, ServerSans(Hosts)))
                    \o IfGiven(given, "server.key", KeyOf(new))
                    \o <<Step("check", "server.crt", Absent),
                         Written("meta.json", MetaOf({Imported}))>>
  /\ doing' = "import"
  /\ issues' = issues + 1
  /\ fleet' = Nobody
  /\ UNCHANGED <<disk, removes, deaths, governor, unseen>>

\* cmd_certs_remove: the files and, when that leaves it empty, the directory.
Remove ==
  /\ doing = "none" /\ removes < MaxRemoves
  /\ \E f \in Files : Exists(f)
  /\ steps' = [i \in 1 .. 7 |->
                 Step("unlink", <<"ca.crt", "ca.key", "server.crt", "server.key", "client.crt",
                                  "client.key", "meta.json">>[i], Absent)]
              \o <<Step("rmdir", "meta.json", Absent)>>
  /\ doing' = "remove"
  /\ removes' = removes + 1
  /\ fleet' = Nobody
  /\ UNCHANGED <<disk, issues, deaths, governor, unseen>>

-----------------------------------------------------------------------------
(* The commands: their steps *)

\* The fault of a reload thread that hears nothing while it reads.
Put_WhileIdle(f, c) ==
  /\ disk' = [disk EXCEPT ![f] = c]
  /\ told' = (told \/ (watching /\ reading = "idle"))
  /\ unseen' = (unseen \/ (gov # "down" /\ ~watching))

\* File f is about to have content c; the watcher reports it if it watches.
Put(f, c) ==
  /\ disk' = [disk EXCEPT ![f] = c]
  /\ told' = (told \/ watching)
  /\ unseen' = (unseen \/ (gov # "down" /\ ~watching))

Advance ==
  /\ steps' = Tail(steps)
  /\ doing' = IF Len(steps) = 1 THEN "none" ELSE doing

Quit ==
  /\ steps' = <<>>
  /\ doing' = "none"

Now(how) == steps # <<>> /\ Head(steps).how = how

Cut ==
  /\ Now("write")
  /\ disk[Head(steps).file] # Torn
  /\ Put(Head(steps).file, Torn)
  /\ UNCHANGED <<command, gov, served, reading, buffer, watching, fleet>>

Fill ==
  /\ Now("write")
  /\ disk[Head(steps).file] = Torn
  /\ Put(Head(steps).file, Head(steps).to)
  /\ Advance
  /\ UNCHANGED <<issues, removes, deaths, gov, served, reading, buffer, watching, fleet>>

Rename ==
  /\ Now("rename")
  /\ Put(Head(steps).file, Head(steps).to)
  /\ Advance
  /\ UNCHANGED <<issues, removes, deaths, gov, served, reading, buffer, watching, fleet>>

Unlink ==
  /\ Now("unlink")
  /\ Put(Head(steps).file, Absent)
  /\ Advance
  /\ UNCHANGED <<issues, removes, deaths, gov, served, reading, buffer, watching, fleet>>

\* The directory goes, and with it what the watcher holds on to; a temporary
\* file left behind keeps it.
RemoveDir ==
  /\ Now("rmdir")
  /\ watching' \in {watching, FALSE}
  /\ Advance
  /\ UNCHANGED <<disk, issues, removes, deaths, gov, served, reading, buffer, told, unseen,
                 fleet>>

\* What import looks at when its files are written: that all three are there
\* and that the certificate is signed by the CA.
Chained ==
  /\ \A f \in {"ca.crt", "server.crt", "server.key"} : Exists(f)
  /\ disk["ca.crt"].ca = disk["server.crt"].ca

Check ==
  /\ Now("check")
  /\ IF Chained THEN Advance ELSE Quit
  /\ UNCHANGED <<disk, issues, removes, deaths, governor, unseen, fleet>>

\* The command is interrupted.
Die ==
  /\ doing # "none" /\ deaths < MaxDeaths
  /\ deaths' = deaths + 1
  /\ Quit
  /\ fleet' = [fleet EXCEPT !.dial = {}]
  /\ UNCHANGED <<disk, issues, removes, governor, unseen>>

-----------------------------------------------------------------------------
(* The governor *)

\* build_tls_config: the three parse, and the key is that of the certificate.
Loads(b) ==
  /\ \A part \in {b.ca, b.cert, b.key} : part.is = "whole"
  /\ b.cert.pair = b.key.pair

\* cmd_server_start: off loopback the three must be there.
Start ==
  /\ gov = "down"
  /\ \A f \in {"ca.crt", "server.crt", "server.key"} : Exists(f)
  /\ gov' = "starting" /\ reading' = "ca"
  /\ unseen' = FALSE
  /\ UNCHANGED <<disk, command, served, buffer, watching, told, fleet>>

\* Whether the watcher reports that the thread itself opens a file is up to
\* the library.
Noticed == told' \in {told, told \/ watching}

ReadCa ==
  /\ reading = "ca"
  /\ Noticed
  /\ buffer' = [buffer EXCEPT !.ca = disk["ca.crt"]]
  /\ reading' = "cert"
  /\ UNCHANGED <<disk, command, gov, served, watching, unseen, fleet>>

ReadCert ==
  /\ reading = "cert"
  /\ Noticed
  /\ buffer' = [buffer EXCEPT !.cert = disk["server.crt"]]
  /\ reading' = "key"
  /\ UNCHANGED <<disk, command, gov, served, watching, unseen, fleet>>

\* The last of the three is read and the configuration built.  When it cannot
\* be, a governor that starts gives up and one that runs keeps what it has.
ReadKey ==
  /\ reading = "key"
  /\ Noticed
  /\ LET b == [buffer EXCEPT !.key = disk["server.key"]]
     IN  /\ served' = IF Loads(b) THEN b ELSE served
         /\ gov' = IF gov # "starting" THEN gov ELSE IF Loads(b) THEN "loaded" ELSE "down"
  /\ buffer' = Empty
  /\ reading' = "idle"
  /\ UNCHANGED <<disk, command, watching, unseen, fleet>>

\* The directory is watched from here on, and connections accepted.  One that
\* is gone by now is not watched.
Watch ==
  /\ gov = "loaded"
  /\ gov' = "up"
  /\ watching' \in IF \E f \in Files : Exists(f) THEN {TRUE} ELSE BOOLEAN
  /\ UNCHANGED <<disk, command, served, reading, buffer, told, unseen, fleet>>

\* The reload thread receives a report, drains the ones behind it, sleeps.
Wake ==
  /\ gov = "up" /\ reading = "idle"
  /\ told
  /\ reading' = "ca" /\ told' = FALSE
  /\ unseen' = FALSE
  /\ UNCHANGED <<disk, command, gov, served, buffer, watching, fleet>>

\* The governor is stopped or killed.
Stop ==
  /\ gov # "down"
  /\ gov' = "down" /\ served' = Empty /\ reading' = "idle" /\ buffer' = Empty
  /\ watching' = FALSE /\ told' = FALSE /\ unseen' = FALSE
  /\ UNCHANGED <<disk, command, fleet>>

-----------------------------------------------------------------------------
(* The agents *)

\* Both ends of the handshake: the governor knows the agents' CA, the agents
\* know the governor's and find the names they dial.
Connects(a) ==
  /\ served.ca.ca = a.ca
  /\ served.cert.ca = a.ca
  /\ a.dial \subseteq served.cert.names

\* Agents are given the CA, a client pair and the names to dial, and get
\* through to a governor that has nothing left to reload.  A name is promised
\* only where meta.json says what the certificate says.
Join ==
  /\ gov = "up" /\ reading = "idle" /\ ~told
  /\ doing = "none" /\ ~fleet.joined
  /\ Whole("ca.crt")
  /\ LET names == IF Whole("meta.json") /\ disk["meta.json"].names = disk["server.crt"].names
                  THEN disk["server.crt"].names
                  ELSE {}
         held  == [joined |-> TRUE, ca |-> disk["ca.crt"].ca, dial |-> names]
     IN  /\ OnDisk = served
         /\ Connects(held)
         /\ fleet' = held
  /\ UNCHANGED <<disk, command, governor, unseen>>

-----------------------------------------------------------------------------
Command == Cut \/ Fill \/ Rename \/ Unlink \/ RemoveDir \/ Check

Reload == ReadCa \/ ReadCert \/ ReadKey \/ Watch \/ Wake

CertsNext ==
  \/ Generate \/ Rotate \/ Import \/ Remove
  \/ Command \/ Die
  \/ Start \/ Reload \/ Stop
  \/ Join

\* A governor that runs reads what it is told of; a command that is running
\* goes on unless it is interrupted.  Nobody has to give one.
CertsFairness == WF_vars(Reload) /\ WF_vars(Command)

CertsSpec == CertsInit /\ [][CertsNext]_vars /\ CertsFairness
=============================================================================
