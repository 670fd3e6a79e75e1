------------------------- MODULE DiscoveryProperties -------------------------
(* What the discovery files promise those who read them. *)
EXTENDS Discovery

Contents == Ports \cup Governors \cup {Absent, Torn}

Lookups == [at : {"none", "addr", "token", "connect", "found", "lost"},
            app : Apps \cup {Absent}, addr : Ports \cup {Absent, Torn},
            token : Governors \cup {Absent}]

\* A port belongs to one governor, a governor publishes only after it has
\* bound, and a directory never names a governor of another app.
DiscoveryTypeOK ==
  /\ file \in [Apps -> [addr : Ports \cup {Absent, Torn},
                        token : Governors \cup {Absent, Torn},
                        pid : Governors \cup {Absent}]]
  /\ main \in [Governors -> {"off", "wait", "detect", "spawned", "poll", "pid", "addr",
                             "token", "flush", "serve", "gone"}]
  /\ thread \in [Governors -> {"off", "bind", "openAddr", "writeAddr", "openToken",
                               "writeToken", "writePid", "load", "serve", "drain",
                               "dropPid", "dropToken", "end", "gone"}]
  /\ handler \in [Governors -> {"idle", "kill", "pid", "addr", "token", "exit"}]
  /\ failed \subseteq Governors
  /\ bound \in [Governors -> Ports \cup {Absent}]
  /\ child \in [Governors -> {"none", "running", "ended"}]
  /\ look \in [Clients -> Lookups]
  /\ signals \in 0 .. MaxSignals
  /\ {alone, fresh} \subseteq [Governors -> BOOLEAN]
  /\ \A g, h \in Governors : bound[g] = bound[h] /\ bound[g] # Absent => g = h
  /\ \A a \in Apps : /\ file[a].token \in Governors => AppOf[file[a].token] = a
                     /\ file[a].pid \in Governors => AppOf[file[a].pid] = a

\* Whoever looks for a governor that serves, that no other governor of the
\* app has crossed and that is not being ended finds it, whatever an earlier
\* one left behind: the port it really has, its own token, its own process.
ServingIsDiscoverable ==
  \A g \in Governors :
    thread[g] = "serve" /\ alone[g] /\ handler[g] = "idle" /\ main[g] \in {"serve", "poll"} =>
      file[Directory(g)] = [addr |-> bound[g], token |-> g, pid |-> g]

\* An app started by a governor that found its directory empty, and that no
\* other governor of the app has crossed, talks to that governor with that
\* governor's token: its main thread cannot read half of what it publishes.
FreshStartReachesItself ==
  \A g \in Governors :
    main[g] \in {"spawned", "poll"} /\ fresh[g] /\ alone[g] =>
      look[g].addr \in Ports /\ look[g].token = g /\ bound[g] \in {look[g].addr, Absent}

\* After a run of that kind whose app has ended, the directory sends nobody
\* anywhere: the address and the token are gone, and do not come back.
FinishedRunIsForgotten ==
  \A g \in Governors :
    main[g] = "flush" /\ fresh[g] /\ alone[g] =>
      file[Directory(g)].addr = Absent /\ file[Directory(g)].token = Absent

\* The directory is well formed, and clean after a run.
DiscoveryInvariant == DiscoveryTypeOK /\ FinishedRunIsForgotten

\* run_governor_with_app: "if either side dies the other is torn down instead
\* of left running half-governed".  Once the governor thread has ended, the
\* app ends, unless the whole process did.
HalfGovernedEnds ==
  \A g \in Governors \ Headless :
    thread[g] = "end" ~> child[g] # "running" \/ main[g] = "gone"
=============================================================================
