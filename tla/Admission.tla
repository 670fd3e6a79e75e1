------------------------------ MODULE Admission ------------------------------
(***************************************************************************)
(* What stands before the router of every governor of a fleet: the rate    *)
(* limit of the caller's address and the session token (GovernorService,   *)
(* network.rs), through the rotation of the token that the governance      *)
(* server guide describes.                                                 *)
(*                                                                         *)
(* The governors are replicas of one deployment and read the same          *)
(* variable when they start.  A remote joiner is given its token by the    *)
(* operator; a local one is launched by nanny run --join and finds it in   *)
(* the server.token of the governor on its machine.  What a request does   *)
(* once it is through is module Governor, and what an agent does that is   *)
(* turned away is module SdkClient; a governor that is given no token and  *)
(* makes one up is module Discovery.                                       *)
(***************************************************************************)
EXTENDS Naturals, Sequences, SequencesExt

CONSTANTS
  Governors,    \* the replicas
  Remotes,      \* joiners the operator gives a token
  Locals,       \* joiners that find one on disk
  Home,         \* Home[j]: the governor on the machine of local joiner j
  From,         \* From[j]: the address a joiner's requests come from
  Probe,        \* the address an orchestrator probes /health from
  Tokens,       \* the tokens there are
  Weak,         \* those shorter than MIN_SESSION_TOKEN_LEN
  First,        \* the token everybody begins with
  None,         \* what a joiner that does not run presents
  Rate,         \* RATE_LIMIT_RPS
  Second,       \* the ticks of the clock in a second
  MaxClock,     \* bound: the ticks of a behaviour
  MaxRequests,  \* bound: how many requests arrive
  MaxCrashes    \* bound: how often a governor ends without being asked to

Joiners == Remotes \cup Locals

Addresses == {From[j] : j \in Joiners} \cup {Probe}

ASSUME AdmissionAssumption ==
  /\ Home \in [Locals -> Governors]
  /\ DOMAIN From = Joiners
  /\ Weak \subseteq Tokens
  /\ First \in Tokens \ Weak
  /\ None \notin Tokens
  /\ Rate \in Nat \ {0} /\ Second \in Nat \ {0}
  /\ {MaxClock, MaxRequests, MaxCrashes} \subseteq Nat

VARIABLES
  variable,  \* NANNY_SESSION_TOKEN as the governors are deployed with it
  used,      \* the tokens that were ever in it
  goal,      \* the token the operator wants everybody on
  accepts,   \* accepts[g]: session_tokens of governor g, empty while it is down
  holds,     \* holds[j]: the token joiner j presents
  clock,     \* Instant::now(), the same for all
  window,    \* window[g][a]: the limiter's entry for an address
  arrived,   \* arrived[g][a]: history variable, the requests of a to this run of g
  turned,    \* history variable: the joiners that were refused for their token
  listed,    \* history variable: how rotations have ordered the two tokens
  requests,
  crashes

operator == <<variable, used, goal, listed>>
limiter  == <<window, arrived, requests>>
vars     == <<operator, accepts, holds, clock, limiter, turned, crashes>>

NoEntry == [a \in Addresses |-> [count |-> 0, start |-> 0]]

Nobody == [a \in Addresses |-> <<>>]

Arrivals == [at : 0 .. MaxClock, served : BOOLEAN]

Up(g) == accepts[g] # <<>>

AdmissionInit ==
  /\ variable = <<First>> /\ used = {First} /\ goal = First /\ listed = {}
  /\ accepts = [g \in Governors |-> <<First>>]
  /\ holds = [j \in Joiners |-> IF j \in Remotes THEN First ELSE None]
  /\ clock = 0
  /\ window = [g \in Governors |-> NoEntry]
  /\ arrived = [g \in Governors |-> Nobody]
  /\ turned = {} /\ requests = 0 /\ crashes = 0

-----------------------------------------------------------------------------
(* The checkpoint *)

\* The fault of a window that begins again with every request.
Within_Refreshed(entry) ==
  IF clock - entry.start >= Second
  THEN [count |-> 1, start |-> clock]
  ELSE IF entry.count < Rate THEN [count |-> entry.count + 1, start |-> clock] ELSE entry

\* RateLimiter::check.  The entry after a request is counted, which is the one
\* before if the request is refused.  A new window begins with the first
\* request a second or more after the last one began.
Within(entry) ==
  IF clock - entry.start >= Second
  THEN [count |-> 1, start |-> clock]
  ELSE IF entry.count < Rate THEN [entry EXCEPT !.count = @ + 1] ELSE entry

\* An address is entered, with nothing counted, by its first request.
EntryOf(g, a) ==
  IF arrived[g][a] = <<>> THEN [count |-> 0, start |-> clock] ELSE window[g][a]

\* The fault of a governor that looks at one of its tokens.
SessionTokenOk_First(g, token) == Head(accepts[g]) = token

\* session_token_ok: whether any of the tokens is the one presented.
SessionTokenOk(g, token) == \E i \in DOMAIN accepts[g] : accepts[g][i] = token

\* GovernorService::call, up to the router.  Every request counts against the
\* address it comes from, whatever becomes of it.
Counted(g, a) ==
  /\ Up(g)
  /\ requests < MaxRequests
  /\ requests' = requests + 1
  /\ LET before == EntryOf(g, a)
         after  == Within(before)
     IN  /\ window' = [window EXCEPT ![g][a] = after]
         /\ arrived' = [arrived EXCEPT ![g][a] =
              Append(@, [at |-> clock, served |-> after # before])]
  /\ UNCHANGED <<operator, accepts, holds, clock, crashes>>

Served(g, a) == arrived'[g][a][Len(arrived'[g][a])].served

\* A request that must present a token.
Knock(j, g) ==
  /\ holds[j] # None
  /\ j \in Locals => g = Home[j]
  /\ Counted(g, From[j])
  /\ turned' = IF Served(g, From[j]) /\ ~SessionTokenOk(g, holds[j])
               THEN turned \cup {j}
               ELSE turned

\* GET /health, which needs none.
Health(g) ==
  /\ Counted(g, Probe)
  /\ UNCHANGED turned

Tick ==
  /\ clock < MaxClock
  /\ clock' = clock + 1
  /\ UNCHANGED <<operator, accepts, holds, limiter, turned, crashes>>

-----------------------------------------------------------------------------
(* The governors *)

\* resolve_session_token: every line of the variable, or none if one is weak.
Resolved == IF ToSet(variable) \cap Weak = {} THEN variable ELSE <<>>

\* A governor starts, or refuses to.
Start(g) ==
  /\ ~Up(g)
  /\ Resolved # <<>>
  /\ accepts' = [accepts EXCEPT ![g] = Resolved]
  /\ UNCHANGED <<operator, holds, clock, limiter, turned, crashes>>

\* One ends, and its limiter with it.
End(g) ==
  /\ Up(g)
  /\ accepts' = [accepts EXCEPT ![g] = <<>>]
  /\ window' = [window EXCEPT ![g] = NoEntry]
  /\ arrived' = [arrived EXCEPT ![g] = Nobody]
  /\ UNCHANGED <<operator, holds, clock, requests, turned>>

Crash(g) ==
  /\ crashes < MaxCrashes
  /\ crashes' = crashes + 1
  /\ End(g)

\* The fault of publishing the last token of the set.
Published_Last(g) == accepts[g][Len(accepts[g])]

\* server.token: the first token of the set.
Published(g) == Head(accepts[g])

\* nanny run --join on the machine of governor g, and its end.
Launch(j) ==
  /\ holds[j] = None
  /\ Up(Home[j])
  /\ holds' = [holds EXCEPT ![j] = Published(Home[j])]
  /\ UNCHANGED <<operator, accepts, clock, limiter, turned, crashes>>

Leave(j) ==
  /\ holds[j] # None
  /\ holds' = [holds EXCEPT ![j] = None]
  /\ UNCHANGED <<operator, accepts, clock, limiter, turned, crashes>>

-----------------------------------------------------------------------------
(* The operator, who follows the guide *)

Rotating == Len(variable) = 2

Rolled == \A g \in Governors : accepts[g] = variable

\* 1. The variable is set to both tokens, in one order or the other.
Widen ==
  /\ ~Rotating
  /\ \E new \in Tokens \ used :
       /\ goal' = new
       /\ used' = used \cup {new}
       /\ \/ variable' = <<goal, new>> /\ listed' = listed \cup {"old first"}
          \/ variable' = <<new, goal>> /\ listed' = listed \cup {"new first"}
  /\ UNCHANGED <<accepts, holds, clock, limiter, turned, crashes>>

\* Whenever a governor does not run with what is in the variable, it is restarted.
Restart(g) ==
  /\ accepts[g] # variable
  /\ End(g)
  /\ UNCHANGED crashes

\* The governors refuse to start, and the operator takes the new token back.
Retract ==
  /\ Rotating
  /\ Resolved = <<>>
  /\ LET old == CHOOSE t \in ToSet(variable) : t # goal
     IN  variable' = <<old>> /\ goal' = old
  /\ UNCHANGED <<used, listed, accepts, holds, clock, limiter, turned, crashes>>

\* 2. Both are accepted, and a joiner is moved onto the new one.
Move(j) ==
  /\ Rotating /\ Rolled
  /\ holds[j] # goal
  /\ holds' = [holds EXCEPT ![j] = goal]
  /\ UNCHANGED <<operator, accepts, clock, limiter, turned, crashes>>

\* 3. Nobody is left on the old one, and its line is dropped.
Narrow ==
  /\ Rotating /\ Rolled
  /\ \A j \in Joiners : holds[j] \in {goal, None}
  /\ variable' = <<goal>>
  /\ UNCHANGED <<used, goal, listed, accepts, holds, clock, limiter, turned, crashes>>

Rotate ==
  \/ Widen
  \/ \E g \in Governors : Restart(g)
  \/ Retract
  \/ \E j \in Remotes : Move(j)
  \/ Narrow

AdmissionNext ==
  \/ \E j \in Joiners, g \in Governors : Knock(j, g)
  \/ \E g \in Governors : Health(g)
  \/ Tick
  \/ \E g \in Governors : Start(g) \/ Crash(g)
  \/ \E j \in Locals : Launch(j) \/ Leave(j)
  \/ Rotate

\* An operator who has begun a rotation carries it out, the platform starts a
\* governor that is down, and a joiner does not run for ever.
AdmissionFairness ==
  /\ \A g \in Governors : WF_vars(Start(g)) /\ WF_vars(Restart(g))
  /\ \A j \in Remotes : WF_vars(Move(j))
  /\ \A j \in Locals : WF_vars(Leave(j))
  /\ WF_vars(Retract) /\ WF_vars(Narrow)

AdmissionSpec == AdmissionInit /\ [][AdmissionNext]_vars /\ AdmissionFairness
=============================================================================
