-------------------------------- MODULE MCSdk --------------------------------
(***************************************************************************)
(* A process of two threads in one run, or in two: a tool that reads what  *)
(* is not trusted, capped at one call, and a tool that sends mail.  The    *)
(* application's rule denies mail after a read, a pack's rule a second     *)
(* mail.  Where every answer is waited for to its end, mail is the one     *)
(* tool, capped as well.                                                   *)
(***************************************************************************)
EXTENDS SdkProperties, TLC

CONSTANTS read, mail, a, r1, r2, t1, t2, c1, c2, c3

MCTools     == {read, mail}
MCMaxCalls  == [x \in {read} |-> 1]
MCMaxMail   == [x \in {mail} |-> 1]
MCRuns      == {r1, r2}
MCThreads   == {t1, t2}
MCClients   == {c1, c2, c3}
Together    == {[t \in MCThreads |-> r1]}
Apart       == {[t \in MCThreads |-> IF t = u THEN r1 ELSE r2] : u \in MCThreads}
MCShared    == [l \in Sdks |-> Together]
MCScopes    == [l \in Sdks |-> IF l = "rust" THEN Together \cup Apart ELSE Together]
MCLabelled  == [x \in Tools |-> IF x = mail THEN {"external_effect"} ELSE {"reads_untrusted"}]
MCOwnRules  == {[before |-> "reads_untrusted", after |-> "external_effect"]}
MCPackRules == {[before |-> "external_effect", after |-> "external_effect"]}

MCBegun     == [l \in Sdks |-> IF l = "python" THEN 3 ELSE 2]
MCBegunFew  == [l \in Sdks |-> 2]

Ask(op, which, on) == [op |-> op, which |-> which, on |-> on, tokens |-> 0]

MCRequests ==
  {Ask("tool", "app", x) : x \in Tools} \cup {Ask("stopRule", "app", x) : x \in Tools}
  \cup {Ask("enter", "app", a), Ask("exit", "app", NoName),
        Ask("identify", "rules", a), Ask("stop", "app", "BridgeUnavailable"),
        Ask("stop", "app", "RuleDenied"), [Ask("usage", "app", NoName) EXCEPT !.tokens = 1]}

Symmetric == Permutations(MCThreads)
=============================================================================
