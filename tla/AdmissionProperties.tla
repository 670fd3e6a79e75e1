------------------------ MODULE AdmissionProperties ------------------------
(***************************************************************************)
(* What the checkpoint of a fleet of governors must keep.                  *)
(***************************************************************************)
EXTENDS Admission, FiniteSets

AdmissionTypeOK ==
  /\ variable \in Seq(Tokens) /\ Len(variable) \in {1, 2}
  /\ used \in SUBSET Tokens
  /\ goal \in used
  /\ accepts \in [Governors -> Seq(Tokens)]
  /\ holds \in [Joiners -> Tokens \cup {None}]
  /\ clock \in 0 .. MaxClock
  /\ window \in [Governors -> [Addresses -> [count : 0 .. Rate, start : 0 .. MaxClock]]]
  /\ arrived \in [Governors -> [Addresses -> Seq(Arrivals)]]
  /\ turned \in SUBSET Joiners
  /\ listed \in SUBSET {"old first", "new first"}
  /\ requests \in 0 .. MaxRequests
  /\ crashes \in 0 .. MaxCrashes

\* docs/v0.7/guides/governance-server.mdx, "Rotating the token": no joiner is
\* refused for its token while the operator goes through the three steps,
\* whichever governors are down or not yet restarted at each of them.  A joiner
\* that takes its token from disk is covered when the new token is listed first:
\* a governor publishes the first line, and one started with the old line first
\* hands the old token out until it is restarted without it.
RotationAdmitsFleet == turned \subseteq (IF "old first" \in listed THEN Locals ELSE {})

\* Within any second an address is served at most twice the rate, less one, for
\* a window ends where the next begins; and it is refused only for more requests
\* than the rate in the second that ends with the refusal, whoever at that
\* address sent them.
LimiterWithinRate ==
  \A g \in Governors, a \in Addresses :
    LET q == arrived[g][a]
        within(i, k) == i <= k /\ q[k].at - q[i].at < Second
    IN  \A i \in DOMAIN q :
          /\ Cardinality({k \in DOMAIN q : within(i, k) /\ q[k].served}) < 2 * Rate
          /\ ~q[i].served => Cardinality({k \in DOMAIN q : within(k, i)}) > Rate

\* The checkpoint keeps to its rate, in a state that is well typed.
LimiterInvariant == AdmissionTypeOK /\ LimiterWithinRate

\* A rotation that lists the new token first ends: the joiners on disk come by
\* the new token as they are launched again, so that the old one is left by all
\* and its line is dropped.
RotationCompletes == Rotating /\ listed = {"new first"} ~> ~Rotating
=============================================================================
