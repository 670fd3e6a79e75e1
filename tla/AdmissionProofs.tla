--------------------------- MODULE AdmissionProofs ---------------------------
(***************************************************************************)
(* What the checkpoint of a fleet keeps, for any number of governors,      *)
(* joiners, tokens and rotations: nobody is refused for its token in a     *)
(* rotation that follows the guide, and the limiter keeps to its rate.     *)
(*                                                                         *)
(* The first rests on one token, the settled one, that every running       *)
(* governor accepts and the variable always has: a joiner presents it, or  *)
(* the new one once the governors it can reach accept both.  The second    *)
(* rests on where the windows of an address began.                         *)
(***************************************************************************)
EXTENDS AdmissionProperties, SequenceTheorems, FiniteSetTheorems, TLAPS

(* The operator's variable *)

\* The variable holds tokens that were used before, the one everybody is to be
\* on among them: alone, or beside another while a rotation is under way, which
\* precedes it only where a rotation has listed the old token first.
Named ==
  /\ \A i \in DOMAIN variable : variable[i] \in used
  /\ Rotating => variable[1] # variable[2] /\ goal \in {variable[1], variable[2]}
  /\ ~Rotating => variable[1] = goal
  /\ Rotating /\ "old first" \notin listed => variable[1] = goal

\* The two lines of the variable.
LEMMA TwoLines ==
  ASSUME NEW a, NEW b
  PROVE  /\ Len(<<a, b>>) = 2 /\ DOMAIN <<a, b>> = {1, 2}
         /\ <<a, b>>[1] = a /\ <<a, b>>[2] = b
<1>1. 1 .. 2 = {1, 2}
  OBVIOUS
<1>2. DOMAIN <<a, b>> = 1 .. 2 /\ Len(<<a, b>>) = 2
  OBVIOUS
<1> QED
  BY <1>1, <1>2

\* The token to which the operator goes back, if it must.
LEMMA RetractNames ==
  ASSUME AdmissionTypeOK, Named, Retract
  PROVE  \E old \in used \ {goal} :
           /\ variable' = <<old>> /\ goal' = old
           /\ old \in {variable[1], variable[2]}
<1>1. variable \in Seq(Tokens) /\ Len(variable) = 2
  BY DEF AdmissionTypeOK, Retract, Rotating
<1>2. ToSet(variable) = {variable[1], variable[2]}
  BY <1>1 DEF ToSet
<1> DOMAIN variable = {1, 2}
  BY <1>1
<1>3. /\ variable[1] # variable[2] /\ goal \in {variable[1], variable[2]}
      /\ variable[1] \in used /\ variable[2] \in used
  BY <1>1 DEF Named, Rotating
<1>4. PICK old \in ToSet(variable) \ {goal} : old = CHOOSE t \in ToSet(variable) : t # goal
  BY <1>2, <1>3
<1> QED
  BY <1>2, <1>3, <1>4 DEF Retract

LEMMA NamedInit == AdmissionInit => Named
  BY DEF AdmissionInit, Named, Rotating

LEMMA NamedStep ==
  ASSUME AdmissionTypeOK, Named, [AdmissionNext]_vars
  PROVE  Named'
<1>1. variable \in Seq(Tokens) /\ Len(variable) \in {1, 2} /\ goal \in used
  BY DEF AdmissionTypeOK
<1>2. CASE UNCHANGED operator
  BY <1>2 DEF operator, Named, Rotating
<1>3. CASE Widen
  <2>1. PICK new \in Tokens \ used :
          /\ goal' = new /\ used' = used \cup {new}
          /\ \/ variable' = <<goal, new>> /\ listed' = listed \cup {"old first"}
             \/ variable' = <<new, goal>> /\ listed' = listed \cup {"new first"}
    BY <1>3 DEF Widen
  <2>2. CASE variable' = <<goal, new>> /\ listed' = listed \cup {"old first"}
    <3>1. Len(variable') = 2 /\ DOMAIN variable' = {1, 2} /\ variable'[1] = goal /\ variable'[2] = new
      BY <2>2, TwoLines
    <3> QED
      BY <1>1, <2>1, <2>2, <3>1 DEF Named, Rotating
  <2>3. CASE variable' = <<new, goal>> /\ listed' = listed \cup {"new first"}
    <3>1. Len(variable') = 2 /\ DOMAIN variable' = {1, 2} /\ variable'[1] = new /\ variable'[2] = goal
      BY <2>3, TwoLines
    <3> QED
      BY <1>1, <2>1, <2>3, <3>1 DEF Named, Rotating
  <2> QED
    BY <2>1, <2>2, <2>3
<1>4. CASE Retract
  <2>1. PICK old \in used : variable' = <<old>> /\ goal' = old
    BY <1>4, RetractNames
  <2>2. Len(variable') = 1 /\ DOMAIN variable' = {1} /\ variable'[1] = old
    BY <2>1
  <2> QED
    BY <1>4, <2>1, <2>2 DEF Retract, Named, Rotating
<1>5. CASE Narrow
  <2>1. Len(variable') = 1 /\ DOMAIN variable' = {1} /\ variable'[1] = goal
    BY <1>5 DEF Narrow
  <2> QED
    BY <1>1, <1>5, <2>1 DEF Narrow, Named, Rotating
<1> QED
  BY <1>2, <1>3, <1>4, <1>5
  DEF AdmissionNext, Rotate, Knock, Health, Counted, Tick, Start, Crash, End, Launch,
      Leave, Restart, Move, vars

-----------------------------------------------------------------------------
(* Types *)

LEMMA TypeInit == AdmissionInit => AdmissionTypeOK
<1> SUFFICES ASSUME AdmissionInit
             PROVE  AdmissionTypeOK
  OBVIOUS
<1>1. First \in Tokens /\ <<First>> \in Seq(Tokens) /\ Len(<<First>>) = 1
  BY AdmissionAssumption
<1>2. 0 \in 0 .. Rate /\ 0 \in 0 .. MaxClock /\ 0 \in 0 .. MaxRequests /\ 0 \in 0 .. MaxCrashes
  BY AdmissionAssumption
<1>3. <<>> \in Seq(Arrivals)
  OBVIOUS
<1>4. window \in [Governors -> [Addresses -> [count : 0 .. Rate, start : 0 .. MaxClock]]]
  BY <1>2 DEF AdmissionInit, NoEntry
<1>5. arrived \in [Governors -> [Addresses -> Seq(Arrivals)]]
  BY <1>3 DEF AdmissionInit, Nobody
<1> QED
  BY <1>1, <1>2, <1>4, <1>5 DEF AdmissionInit, AdmissionTypeOK

\* The limiter's entry for an address.
Entries == [count : 0 .. Rate, start : 0 .. MaxClock]

\* What a request that is counted leaves behind: an entry and one arrival more
\* for its address, and nothing else of the limiter is touched.
LEMMA CountedLeaves ==
  ASSUME AdmissionTypeOK, NEW g \in Governors, NEW a \in Addresses, Counted(g, a)
  PROVE  \E before \in Entries, after \in Entries, x \in Arrivals :
           /\ before = EntryOf(g, a)
           /\ after = Within(before)
           /\ x.at = clock
           /\ x.served <=> after # before
           /\ window' = [window EXCEPT ![g][a] = after]
           /\ arrived' = [arrived EXCEPT ![g][a] = Append(arrived[g][a], x)]
<1>1. clock \in 0 .. MaxClock /\ Rate \in Nat \ {0} /\ MaxClock \in Nat
  BY AdmissionAssumption DEF AdmissionTypeOK
<1>2. PICK before \in Entries : before = EntryOf(g, a)
  <2>1. window[g] \in [Addresses -> Entries]
    BY DEF AdmissionTypeOK, Entries
  <2>2. window[g][a] \in Entries /\ [count |-> 0, start |-> clock] \in Entries
    BY <2>1, <1>1 DEF Entries
  <2> QED
    BY <2>2 DEF EntryOf
<1>3. PICK after \in Entries : after = Within(before)
  <2>1. /\ [count |-> 1, start |-> clock] \in Entries
        /\ before.count < Rate => [before EXCEPT !.count = @ + 1] \in Entries
    BY <1>1 DEF Entries
  <2> QED
    BY <2>1 DEF Within
<1>4. PICK x \in Arrivals : x = [at |-> clock, served |-> after # before]
  <2>1. (after # before) \in BOOLEAN
    OBVIOUS
  <2>2. [at |-> clock, served |-> after # before] \in Arrivals
    BY <1>1, <2>1 DEF Arrivals
  <2> QED
    BY <2>2
<1>5. /\ window' = [window EXCEPT ![g][a] = after]
      /\ arrived' = [arrived EXCEPT ![g][a] = Append(arrived[g][a], x)]
  <2>1. LET b == EntryOf(g, a)
            e == Within(b)
        IN  /\ window' = [window EXCEPT ![g][a] = e]
            /\ arrived' = [arrived EXCEPT ![g][a] = Append(@, [at |-> clock, served |-> e # b])]
    BY DEF Counted
  <2> QED
    BY <2>1, <1>2, <1>3, <1>4
<1> QED
  BY <1>2, <1>3, <1>4, <1>5

\* The limiter and its history keep their types through a request.
LEMMA CountedTypes ==
  ASSUME AdmissionTypeOK, NEW g \in Governors, NEW a \in Addresses,
         NEW after \in Entries, NEW x \in Arrivals,
         window' = [window EXCEPT ![g][a] = after],
         arrived' = [arrived EXCEPT ![g][a] = Append(arrived[g][a], x)]
  PROVE  /\ window' \in [Governors -> [Addresses -> Entries]]
         /\ arrived' \in [Governors -> [Addresses -> Seq(Arrivals)]]
<1>1. /\ window \in [Governors -> [Addresses -> Entries]]
      /\ arrived \in [Governors -> [Addresses -> Seq(Arrivals)]]
  BY DEF AdmissionTypeOK, Entries
<1>2. window[g] \in [Addresses -> Entries] /\ arrived[g] \in [Addresses -> Seq(Arrivals)]
  BY <1>1
<1>3. [window[g] EXCEPT ![a] = after] \in [Addresses -> Entries]
  BY <1>2
<1>4. Append(arrived[g][a], x) \in Seq(Arrivals)
  BY <1>2
<1>5. [arrived[g] EXCEPT ![a] = Append(arrived[g][a], x)] \in [Addresses -> Seq(Arrivals)]
  BY <1>2, <1>4
<1>6. window' \in [Governors -> [Addresses -> Entries]]
  BY <1>1, <1>3
<1>7. arrived' \in [Governors -> [Addresses -> Seq(Arrivals)]]
  BY <1>1, <1>5
<1> QED
  BY <1>6, <1>7

LEMMA TypeStep ==
  ASSUME AdmissionTypeOK, Named, [AdmissionNext]_vars
  PROVE  AdmissionTypeOK'
<1>a. /\ MaxClock \in Nat /\ MaxRequests \in Nat /\ MaxCrashes \in Nat
      /\ goal \in Tokens /\ variable \in Seq(Tokens)
      /\ \A j \in Joiners : From[j] \in Addresses
      /\ Probe \in Addresses
  BY AdmissionAssumption DEF AdmissionTypeOK, Addresses
<1>b. clock \in 0 .. MaxClock /\ requests \in 0 .. MaxRequests /\ crashes \in 0 .. MaxCrashes
  BY DEF AdmissionTypeOK
<1>1. ASSUME NEW g \in Governors, NEW a \in Addresses, Counted(g, a), turned' \in SUBSET Joiners
      PROVE  AdmissionTypeOK'
  <2>1. PICK after \in Entries, x \in Arrivals :
          /\ window' = [window EXCEPT ![g][a] = after]
          /\ arrived' = [arrived EXCEPT ![g][a] = Append(arrived[g][a], x)]
    BY <1>1, CountedLeaves
  <2>2. /\ window' \in [Governors -> [Addresses -> [count : 0 .. Rate, start : 0 .. MaxClock]]]
        /\ arrived' \in [Governors -> [Addresses -> Seq(Arrivals)]]
    BY <2>1, CountedTypes DEF Entries
  <2>3. requests' \in 0 .. MaxRequests
    BY <1>1, <1>a, <1>b DEF Counted
  <2>4. UNCHANGED <<operator, accepts, holds, clock, crashes>>
    BY <1>1 DEF Counted
  <2> QED
    BY <1>1, <2>2, <2>3, <2>4 DEF operator, AdmissionTypeOK
<1>2. ASSUME NEW j \in Joiners, NEW g \in Governors, Knock(j, g)
      PROVE  AdmissionTypeOK'
  <2>1. Counted(g, From[j]) /\ From[j] \in Addresses
    BY <1>2, <1>a DEF Knock
  <2>2. turned' \in SUBSET Joiners
    BY <1>2 DEF Knock, AdmissionTypeOK
  <2> QED
    BY <1>1, <2>1, <2>2
<1>3. ASSUME NEW g \in Governors, Health(g)
      PROVE  AdmissionTypeOK'
  <2>1. Counted(g, Probe) /\ turned' \in SUBSET Joiners
    BY <1>3 DEF Health, AdmissionTypeOK
  <2> QED
    BY <1>1, <1>a, <2>1
<1>4. CASE Tick
  <2>1. clock' \in 0 .. MaxClock
    BY <1>4, <1>a, <1>b DEF Tick
  <2> QED
    BY <1>4, <2>1 DEF Tick, operator, limiter, AdmissionTypeOK
<1>5. ASSUME NEW g \in Governors, Start(g)
      PROVE  AdmissionTypeOK'
  <2>1. Resolved \in Seq(Tokens)
    <3>1. <<>> \in Seq(Tokens)
      OBVIOUS
    <3> QED
      BY <1>a, <3>1 DEF Resolved
  <2> QED
    BY <1>5, <2>1 DEF Start, operator, limiter, AdmissionTypeOK
<1>6. ASSUME NEW g \in Governors, End(g), crashes' \in 0 .. MaxCrashes
      PROVE  AdmissionTypeOK'
  <2>0. <<>> \in Seq(Tokens) /\ <<>> \in Seq(Arrivals)
    OBVIOUS
  <2>1. 0 \in 0 .. Rate /\ 0 \in 0 .. MaxClock
    BY AdmissionAssumption
  <2>2. /\ NoEntry \in [Addresses -> [count : 0 .. Rate, start : 0 .. MaxClock]]
        /\ Nobody \in [Addresses -> Seq(Arrivals)]
    BY <2>0, <2>1 DEF NoEntry, Nobody
  <2>3. /\ window' \in [Governors -> [Addresses -> [count : 0 .. Rate, start : 0 .. MaxClock]]]
        /\ arrived' \in [Governors -> [Addresses -> Seq(Arrivals)]]
        /\ accepts' \in [Governors -> Seq(Tokens)]
    BY <1>6, <2>0, <2>2 DEF End, AdmissionTypeOK
  <2> QED
    BY <1>6, <2>3 DEF End, operator, AdmissionTypeOK
<1>7. ASSUME NEW g \in Governors, Crash(g) \/ Restart(g)
      PROVE  AdmissionTypeOK'
  <2>1. crashes' \in 0 .. MaxCrashes
    BY <1>7, <1>a, <1>b DEF Crash, Restart
  <2> QED
    BY <1>6, <1>7, <2>1 DEF Crash, Restart
<1>8. ASSUME NEW j \in Locals, Launch(j) \/ Leave(j)
      PROVE  AdmissionTypeOK'
  <2>1. holds' \in [Joiners -> Tokens \cup {None}]
    <3>1. CASE Launch(j)
      <4>1. accepts[Home[j]] \in Seq(Tokens) /\ accepts[Home[j]] # <<>>
        BY <3>1, AdmissionAssumption DEF Launch, Up, AdmissionTypeOK
      <4>2. Published(Home[j]) \in Tokens
        BY <4>1 DEF Published
      <4> QED
        BY <3>1, <4>2 DEF Launch, AdmissionTypeOK
    <3>2. CASE Leave(j)
      BY <3>2 DEF Leave, AdmissionTypeOK
    <3> QED
      BY <1>8, <3>1, <3>2
  <2> QED
    BY <1>8, <2>1 DEF Launch, Leave, operator, limiter, AdmissionTypeOK
<1>9. CASE Widen
  <2>1. PICK new \in Tokens \ used :
          /\ goal' = new /\ used' = used \cup {new}
          /\ (variable' = <<goal, new>> \/ variable' = <<new, goal>>)
          /\ listed' \in SUBSET {"old first", "new first"}
    BY <1>9 DEF Widen, AdmissionTypeOK
  <2>2. variable' \in Seq(Tokens) /\ Len(variable') \in {1, 2}
    <3>1. /\ <<goal, new>> \in Seq(Tokens) /\ Len(<<goal, new>>) = 2
          /\ <<new, goal>> \in Seq(Tokens) /\ Len(<<new, goal>>) = 2
      BY <1>a
    <3> QED
      BY <2>1, <3>1
  <2> QED
    BY <1>9, <2>1, <2>2 DEF Widen, limiter, AdmissionTypeOK
<1>10. CASE Narrow
  <2>1. <<goal>> \in Seq(Tokens) /\ Len(<<goal>>) = 1
    BY <1>a
  <2> QED
    BY <1>10, <2>1 DEF Narrow, limiter, AdmissionTypeOK
<1>11. ASSUME NEW j \in Remotes, Move(j)
       PROVE  AdmissionTypeOK'
  BY <1>11, <1>a DEF Move, operator, limiter, AdmissionTypeOK
<1>12. CASE Retract
  <2>1. PICK old \in Tokens : variable' = <<old>> /\ goal' = old /\ old \in used
    BY <1>12, RetractNames DEF AdmissionTypeOK
  <2>2. <<old>> \in Seq(Tokens) /\ Len(<<old>>) = 1
    OBVIOUS
  <2> QED
    BY <1>12, <2>1, <2>2 DEF Retract, limiter, AdmissionTypeOK
<1>13. CASE UNCHANGED vars
  BY <1>13 DEF vars, operator, limiter, AdmissionTypeOK
<1> QED
  BY <1>2, <1>3, <1>4, <1>5, <1>7, <1>8, <1>9, <1>10, <1>11, <1>12, <1>13
  DEF AdmissionNext, Rotate

-----------------------------------------------------------------------------
(* The settled token *)

\* The token that the operator can go back to: the one that is being left while
\* a rotation is under way, and the only one otherwise.
Settled == IF Rotating /\ variable[1] = goal THEN variable[2] ELSE variable[1]

Clean(tokens) == \A i \in DOMAIN tokens : tokens[i] \notin Weak

\* A governor that runs has what is in the variable now, or was started before
\* the last change of it and has the settled token; first, if no rotation has
\* listed the old token first.
Accepting(g) ==
  Up(g) =>
    /\ Clean(accepts[g])
    /\ \/ accepts[g] = variable
       \/ /\ \E i \in DOMAIN accepts[g] : accepts[g][i] = Settled
          /\ "old first" \notin listed => accepts[g][1] = Settled

\* The joiners and governors of which the guide promises something.
Promised(j, g) == j \in Locals => g = Home[j] /\ "old first" \notin listed

\* A joiner that runs presents the settled token, or was given the new one when
\* the governor had both.
Presenting(j, g) ==
  holds[j] # None =>
    \/ holds[j] = Settled
    \/ /\ Rotating /\ Clean(variable)
       /\ holds[j] = goal
       /\ Up(g) => accepts[g] = variable

Fleet ==
  /\ Named
  /\ \A g \in Governors : Accepting(g)
  /\ \A j \in Joiners, g \in Governors : Promised(j, g) => Presenting(j, g)

\* What the lines of the variable are.
LEMMA Lines ==
  ASSUME AdmissionTypeOK, Named
  PROVE  /\ ~Rotating => /\ variable = <<goal>> /\ Settled = goal
                         /\ DOMAIN variable = {1} /\ variable[1] = goal
         /\ Rotating => /\ DOMAIN variable = {1, 2}
                        /\ \/ variable[1] = Settled /\ variable[2] = goal
                           \/ variable[1] = goal /\ variable[2] = Settled
                        /\ Settled # goal
                        /\ "old first" \notin listed => variable[1] = goal
         /\ variable # <<>>
         /\ \E i \in DOMAIN variable : variable[i] = Settled
         /\ \E i \in DOMAIN variable : variable[i] = goal
         /\ Resolved # <<>> => Resolved = variable /\ Clean(variable)
         /\ Resolved = <<>> => ~Clean(variable)
<1>1. variable \in Seq(Tokens) /\ Len(variable) \in {1, 2}
  BY DEF AdmissionTypeOK
<1>2. CASE ~Rotating
  <2>0. 1 .. 1 = {1}
    OBVIOUS
  <2>3. Len(variable) = 1 /\ variable[1] = goal
    BY <1>1, <1>2 DEF Rotating, Named
  <2>1. Len(variable) = 1 /\ variable[1] = goal /\ DOMAIN variable = {1}
    BY <1>1, <2>0, <2>3
  <2>2. variable = <<goal>>
    BY <1>1, <2>1
  <2> QED
    BY <1>1, <1>2, <2>1, <2>2 DEF Settled, Resolved, Clean, ToSet
<1>3. CASE Rotating
  <2>1. Len(variable) = 2 /\ DOMAIN variable = {1, 2} /\ variable # <<>>
    BY <1>1, <1>3 DEF Rotating
  <2>2. /\ variable[1] # variable[2] /\ goal \in {variable[1], variable[2]}
        /\ "old first" \notin listed => variable[1] = goal
    BY <1>3 DEF Named
  <2>3. /\ \/ variable[1] = Settled /\ variable[2] = goal
           \/ variable[1] = goal /\ variable[2] = Settled
        /\ Settled # goal
    <3>1. CASE variable[1] = goal
      BY <1>3, <2>2, <3>1 DEF Settled
    <3>2. CASE variable[2] = goal
      BY <1>3, <2>2, <3>2 DEF Settled
    <3> QED
      BY <2>2, <3>1, <3>2
  <2>6. 1 \in DOMAIN variable /\ 2 \in DOMAIN variable
    BY <2>1
  <2>5. /\ Resolved # <<>> => Resolved = variable /\ Clean(variable)
        /\ Resolved = <<>> => ~Clean(variable)
    BY <2>1 DEF Resolved, Clean, ToSet
  <2> QED
    BY <1>3, <2>1, <2>2, <2>3, <2>5, <2>6
<1> QED
  BY <1>2, <1>3

\* What a step of the operator does to the settled token.
LEMMA Settles ==
  ASSUME AdmissionTypeOK, AdmissionTypeOK', Named, Named'
  PROVE  /\ UNCHANGED operator => Settled' = Settled /\ Rotating' = Rotating
         /\ Widen => /\ ~Rotating /\ Settled' = Settled /\ Settled = goal
                     /\ variable = <<goal>> /\ listed \subseteq listed'
         /\ Retract => ~Rotating' /\ Settled' = Settled /\ ~Clean(variable)
         /\ Narrow => ~Rotating' /\ Settled' = goal
<1>1. UNCHANGED operator => Settled' = Settled /\ Rotating' = Rotating
  BY DEF operator, Settled, Rotating
<1>2. Widen => /\ ~Rotating /\ Settled' = Settled /\ Settled = goal
               /\ variable = <<goal>> /\ listed \subseteq listed'
  <2> SUFFICES ASSUME Widen
               PROVE  Settled' = goal /\ listed \subseteq listed'
    BY Lines DEF Widen
  <2>1. PICK new \in Tokens \ used :
          /\ goal' = new
          /\ \/ variable' = <<goal, new>> /\ listed' = listed \cup {"old first"}
             \/ variable' = <<new, goal>> /\ listed' = listed \cup {"new first"}
    BY DEF Widen
  <2>2. goal # new
    BY DEF AdmissionTypeOK
  <2>3. CASE variable' = <<goal, new>> /\ listed' = listed \cup {"old first"}
    BY <2>1, <2>2, <2>3, TwoLines DEF Settled, Rotating
  <2>4. CASE variable' = <<new, goal>> /\ listed' = listed \cup {"new first"}
    BY <2>1, <2>2, <2>4, TwoLines DEF Settled, Rotating
  <2> QED
    BY <2>1, <2>3, <2>4
<1>3. Retract => ~Rotating' /\ Settled' = Settled /\ ~Clean(variable)
  <2> SUFFICES ASSUME Retract
               PROVE  ~Rotating' /\ Settled' = Settled /\ ~Clean(variable)
    OBVIOUS
  <2>1. PICK old \in used \ {goal} : /\ variable' = <<old>> /\ goal' = old
                                     /\ old \in {variable[1], variable[2]}
    BY RetractNames
  <2>2. Rotating /\ Resolved = <<>>
    BY DEF Retract
  <2>3. old = Settled /\ ~Clean(variable)
    BY <2>1, <2>2, Lines
  <2>4. Len(variable') = 1 /\ variable'[1] = old
    BY <2>1
  <2> QED
    BY <2>3, <2>4 DEF Settled, Rotating
<1>4. Narrow => ~Rotating' /\ Settled' = goal
  <2> SUFFICES ASSUME Narrow
               PROVE  ~Rotating' /\ Settled' = goal
    OBVIOUS
  <2>1. Len(variable') = 1 /\ variable'[1] = goal
    BY DEF Narrow
  <2> QED
    BY <2>1 DEF Settled, Rotating
<1> QED
  BY <1>1, <1>2, <1>3, <1>4

LEMMA FleetInit == AdmissionInit => Fleet
<1> SUFFICES ASSUME AdmissionInit
             PROVE  Fleet
  OBVIOUS
<1>1. variable = <<First>> /\ Len(variable) = 1 /\ DOMAIN variable = {1} /\ variable[1] = First
  BY DEF AdmissionInit
<1>2. Settled = First /\ Clean(variable)
  BY <1>1, AdmissionAssumption DEF Settled, Rotating, Clean
<1>3. \A g \in Governors : Accepting(g)
  BY <1>1, <1>2 DEF AdmissionInit, Accepting
<1>4. \A j \in Joiners, g \in Governors : Presenting(j, g)
  BY <1>2 DEF AdmissionInit, Presenting
<1> QED
  BY <1>3, <1>4, NamedInit DEF Fleet

\* The steps that are not the operator's leave the variable alone.
LEMMA OthersLeaveVariable ==
  ASSUME [AdmissionNext]_vars
  PROVE  UNCHANGED operator \/ Widen \/ Retract \/ Narrow
  BY DEF AdmissionNext, Rotate, Knock, Health, Counted, Tick, Start, Crash, End, Launch,
         Leave, Restart, Move, vars

LEMMA AcceptingStep ==
  ASSUME AdmissionTypeOK, AdmissionTypeOK', Fleet, Named', [AdmissionNext]_vars,
         NEW g \in Governors
  PROVE  Accepting(g)'
<1>1. Named /\ Accepting(g)
  BY DEF Fleet
<1>2. CASE UNCHANGED <<operator, accepts>>
  BY <1>1, <1>2, Settles DEF operator, Accepting, Up, Clean
<1>3. ASSUME NEW h \in Governors, Start(h)
      PROVE  Accepting(g)'
  <2>1. CASE h = g
    <3>1. accepts'[g] = variable' /\ Clean(variable')
      BY <1>1, <1>3, <2>1, Lines DEF Start, operator, AdmissionTypeOK
    <3> QED
      BY <3>1 DEF Accepting, Clean
  <2>2. CASE h # g
    <3>1. accepts'[g] = accepts[g] /\ UNCHANGED operator
      BY <1>3, <2>2 DEF Start, AdmissionTypeOK
    <3> QED
      BY <1>1, <3>1, Settles DEF operator, Accepting, Up, Clean
  <2> QED
    BY <2>1, <2>2
<1>4. ASSUME NEW h \in Governors, End(h)
      PROVE  Accepting(g)'
  <2>1. CASE h = g
    BY <1>4, <2>1 DEF End, Accepting, Up, AdmissionTypeOK
  <2>2. CASE h # g
    <3>1. accepts'[g] = accepts[g] /\ UNCHANGED operator
      BY <1>4, <2>2 DEF End, AdmissionTypeOK
    <3> QED
      BY <1>1, <3>1, Settles DEF operator, Accepting, Up, Clean
  <2> QED
    BY <2>1, <2>2
<1>5. CASE Widen
  <2>1. /\ accepts' = accepts /\ Settled' = goal /\ Settled = goal
        /\ variable = <<goal>> /\ listed \subseteq listed'
    BY <1>1, <1>5, Settles DEF Widen
  <2>2. CASE accepts[g] = variable
    <3>1. DOMAIN accepts[g] = {1} /\ accepts[g][1] = goal
      BY <1>1, <1>5, <2>2, Lines DEF Widen
    <3> QED
      BY <1>1, <2>1, <3>1 DEF Accepting, Up, Clean
  <2>3. CASE accepts[g] # variable
    BY <1>1, <2>1, <2>3 DEF Accepting, Up, Clean
  <2> QED
    BY <2>2, <2>3
<1>6. CASE Retract
  <2>1. accepts' = accepts /\ listed' = listed /\ Settled' = Settled /\ ~Clean(variable)
    BY <1>1, <1>6, Settles DEF Retract
  <2> QED
    BY <1>1, <2>1 DEF Accepting, Up, Clean
<1>7. CASE Narrow
  <2>1. accepts' = accepts /\ listed' = listed /\ Settled' = goal /\ accepts[g] = variable
    BY <1>1, <1>7, Settles DEF Narrow, Rolled
  <2>2. /\ \E i \in DOMAIN accepts[g] : accepts[g][i] = goal
        /\ "old first" \notin listed => accepts[g][1] = goal
    BY <1>1, <1>7, <2>1, Lines DEF Narrow
  <2> QED
    BY <1>1, <2>1, <2>2 DEF Accepting, Up, Clean
<1> QED
  BY <1>2, <1>3, <1>4, <1>5, <1>6, <1>7
  DEF AdmissionNext, Rotate, Knock, Health, Counted, Tick, Crash, Launch, Leave, Restart,
      Move, vars

LEMMA PresentingStep ==
  ASSUME AdmissionTypeOK, AdmissionTypeOK', Fleet, Named', [AdmissionNext]_vars,
         NEW j \in Joiners, NEW g \in Governors, Promised(j, g)'
  PROVE  Presenting(j, g)'
<1>0. listed \subseteq listed'
  BY OthersLeaveVariable DEF operator, Widen, Retract, Narrow
<1>1. Named /\ Accepting(g) /\ Promised(j, g) /\ Presenting(j, g)
  BY <1>0 DEF Fleet, Promised
<1>2. CASE UNCHANGED <<operator, accepts, holds>>
  BY <1>1, <1>2, Settles DEF operator, Presenting, Up, Clean
<1>3. ASSUME NEW h \in Governors, Start(h)
      PROVE  Presenting(j, g)'
  <2>1. UNCHANGED operator /\ holds' = holds /\ ~Up(h) /\ accepts' = [accepts EXCEPT ![h] = variable]
    BY <1>1, <1>3, Lines DEF Start
  <2>2. accepts'[g] = IF g = h THEN variable ELSE accepts[g]
    BY <2>1 DEF AdmissionTypeOK
  <2>3. CASE g = h
    BY <1>1, <2>1, <2>2, <2>3, Settles DEF operator, Presenting, Clean
  <2>4. CASE g # h
    BY <1>1, <2>1, <2>2, <2>4, Settles DEF operator, Presenting, Clean, Up
  <2> QED
    BY <2>3, <2>4
<1>4. ASSUME NEW h \in Governors, End(h)
      PROVE  Presenting(j, g)'
  <2>1. UNCHANGED operator /\ holds' = holds /\ accepts' = [accepts EXCEPT ![h] = <<>>]
    BY <1>4 DEF End
  <2>2. Up(g)' => Up(g) /\ accepts'[g] = accepts[g]
    BY <2>1 DEF Up, AdmissionTypeOK
  <2> QED
    BY <1>1, <2>1, <2>2, Settles DEF operator, Presenting, Clean
<1>5. ASSUME NEW k \in Locals, Launch(k)
      PROVE  Presenting(j, g)'
  <2>1. UNCHANGED <<operator, accepts>> /\ Settled' = Settled /\ Rotating' = Rotating
    BY <1>1, <1>5, Settles DEF Launch
  <2>2. CASE k # j
    <3>1. holds'[j] = holds[j]
      BY <1>5, <2>2 DEF Launch, AdmissionTypeOK
    <3> QED
      BY <1>1, <2>1, <3>1 DEF operator, Presenting, Up, Clean
  <2>3. CASE k = j
    <3>1. g = Home[j] /\ "old first" \notin listed
      BY <1>1, <2>3 DEF Promised
    <3>2. Up(g) /\ holds'[j] = accepts[g][1]
      <4>1. Up(g) /\ holds'[j] = Head(accepts[g])
        BY <1>5, <2>3, <3>1 DEF Launch, Published, AdmissionTypeOK
      <4>2. accepts[g] \in Seq(Tokens)
        BY DEF AdmissionTypeOK
      <4> QED
        BY <4>1, <4>2
    <3>3. CASE accepts[g] = variable
      <4>1. Clean(variable) /\ variable[1] = goal /\ (~Rotating => Settled = goal)
        BY <1>1, <3>1, <3>2, <3>3, Lines DEF Accepting
      <4> QED
        BY <2>1, <3>2, <3>3, <4>1 DEF operator, Presenting, Up, Clean
    <3>4. CASE accepts[g] # variable
      BY <1>1, <2>1, <3>1, <3>2, <3>4 DEF Accepting, Presenting
    <3> QED
      BY <3>3, <3>4
  <2> QED
    BY <2>2, <2>3
<1>6. ASSUME NEW k \in Locals, Leave(k)
      PROVE  Presenting(j, g)'
  <2>1. UNCHANGED <<operator, accepts>> /\ Settled' = Settled /\ Rotating' = Rotating
    BY <1>1, <1>6, Settles DEF Leave
  <2>2. holds'[j] = holds[j] \/ holds'[j] = None
    BY <1>6 DEF Leave, AdmissionTypeOK
  <2> QED
    BY <1>1, <2>1, <2>2 DEF operator, Presenting, Up, Clean
<1>7. ASSUME NEW k \in Remotes, Move(k)
      PROVE  Presenting(j, g)'
  <2>1. /\ UNCHANGED <<operator, accepts>> /\ Settled' = Settled /\ Rotating' = Rotating
        /\ Rotating /\ accepts[g] = variable
    BY <1>1, <1>7, Settles DEF Move, Rolled
  <2>2. Clean(variable)
    BY <1>1, <2>1, Lines DEF Accepting, Up
  <2>3. holds'[j] = holds[j] \/ holds'[j] = goal
    BY <1>7 DEF Move, AdmissionTypeOK
  <2> QED
    BY <1>1, <2>1, <2>2, <2>3 DEF operator, Presenting, Up, Clean
<1>8. CASE Widen
  BY <1>1, <1>8, Settles DEF Widen, Presenting
<1>9. CASE Retract
  BY <1>1, <1>9, Settles DEF Retract, Presenting
<1>10. CASE Narrow
  BY <1>1, <1>10, Settles DEF Narrow, Presenting
<1> QED
  BY <1>2, <1>3, <1>4, <1>5, <1>6, <1>7, <1>8, <1>9, <1>10
  DEF AdmissionNext, Rotate, Knock, Health, Counted, Tick, Crash, Restart, vars

\* A joiner that is promised something presents what the governor accepts.
LEMMA PromiseKept ==
  ASSUME AdmissionTypeOK, Fleet, NEW j \in Joiners, NEW g \in Governors,
         Promised(j, g), Up(g), holds[j] # None
  PROVE  SessionTokenOk(g, holds[j])
<1>1. Named /\ Accepting(g) /\ Presenting(j, g)
  BY DEF Fleet
<1>2. CASE holds[j] = Settled
  BY <1>1, <1>2, Lines DEF Accepting, SessionTokenOk
<1>3. CASE holds[j] # Settled
  BY <1>1, <1>3, Lines DEF Presenting, SessionTokenOk
<1> QED
  BY <1>2, <1>3

\* The invariant of the proof: the types, the tokens of the fleet, and nobody
\* turned away whom the guide promises to admit.
FleetInductive == AdmissionTypeOK /\ Fleet /\ RotationAdmitsFleet

LEMMA AdmitsStep ==
  ASSUME AdmissionTypeOK, Fleet, RotationAdmitsFleet, [AdmissionNext]_vars
  PROVE  RotationAdmitsFleet'
<1>1. listed \subseteq listed'
  BY OthersLeaveVariable DEF operator, Widen, Retract, Narrow
<1>2. CASE UNCHANGED turned
  BY <1>1, <1>2 DEF RotationAdmitsFleet
<1>3. ASSUME NEW j \in Joiners, NEW g \in Governors, Knock(j, g)
      PROVE  RotationAdmitsFleet'
  <2>1. CASE UNCHANGED turned
    BY <1>1, <2>1 DEF RotationAdmitsFleet
  <2>2. CASE turned' = turned \cup {j} /\ ~SessionTokenOk(g, holds[j])
    <3>1. ~Promised(j, g)
      BY <1>3, <2>2, PromiseKept DEF Knock, Counted
    <3>2. j \in Locals /\ "old first" \in listed
      BY <1>3, <3>1 DEF Knock, Promised
    <3> QED
      BY <1>1, <2>2, <3>2 DEF RotationAdmitsFleet
  <2> QED
    BY <1>3, <2>1, <2>2 DEF Knock
<1> QED
  BY <1>2, <1>3
  DEF AdmissionNext, Rotate, Health, Tick, Start, Crash, End, Launch, Leave, Widen, Restart,
      Retract, Move, Narrow, vars

\* While the operator follows the guide, no joiner is refused for its token by a
\* governor that runs, whatever crashes and restarts come between: none at all
\* if every rotation lists the new token first, and no remote one in any case
\* (docs/v0.7/guides/governance-server.mdx, "Rotating the token").
THEOREM FleetAdmitted == AdmissionSpec => []RotationAdmitsFleet
<1>1. AdmissionInit => FleetInductive
  BY TypeInit, FleetInit DEF FleetInductive, AdmissionInit, RotationAdmitsFleet
<1>2. FleetInductive /\ [AdmissionNext]_vars => FleetInductive'
  <2> SUFFICES ASSUME FleetInductive, [AdmissionNext]_vars
               PROVE  FleetInductive'
    OBVIOUS
  <2>1. AdmissionTypeOK /\ Fleet /\ RotationAdmitsFleet /\ Named
    BY DEF FleetInductive, Fleet
  <2>2. AdmissionTypeOK' /\ Named'
    BY <2>1, TypeStep, NamedStep
  <2>3. Fleet'
    BY <2>1, <2>2, AcceptingStep, PresentingStep DEF Fleet
  <2> QED
    BY <2>1, <2>2, <2>3, AdmitsStep DEF FleetInductive
<1>3. FleetInductive => RotationAdmitsFleet
  BY DEF FleetInductive
<1> QED
  BY <1>1, <1>2, <1>3, PTL DEF AdmissionSpec

-----------------------------------------------------------------------------
(* The limiter *)

\* The requests from one to another that were served.
ServedIn(q, i, k) == {m \in i .. k : q[m].served}

\* What LimiterWithinRate says of one address.
RateKept(q) ==
  \A i \in DOMAIN q :
    /\ Cardinality({k \in DOMAIN q : i <= k /\ q[k].at - q[i].at < Second /\ q[k].served}) < 2 * Rate
    /\ ~q[i].served =>
         Cardinality({k \in DOMAIN q : k <= i /\ q[i].at - q[k].at < Second}) > Rate

\* The requests of an address are in the order of the clock.
InOrder(q) ==
  \A i \in DOMAIN q :
    /\ q[i].at <= clock
    /\ \A k \in DOMAIN q : i <= k => q[i].at <= q[k].at

\* Request s began the window that is counted now, and p the one before it, of
\* which there is none if s is the first of all.
Began(q, entry, s, p) ==
  /\ q[s].served /\ q[s].at = entry.start
  /\ Cardinality(ServedIn(q, s, Len(q))) = entry.count
  /\ s # 1 => /\ p < s /\ q[p].served
              /\ q[s].at - q[p].at >= Second
              /\ Cardinality(ServedIn(q, p, s - 1)) <= Rate

\* What the limiter has of one address.
Limited(q, entry) ==
  /\ InOrder(q)
  /\ RateKept(q)
  /\ q # <<>> => \E s \in DOMAIN q, p \in DOMAIN q : Began(q, entry, s, p)

Limiters == \A g \in Governors, a \in Addresses : Limited(arrived[g][a], window[g][a])

LEMMA LimitersKeepRate == Limiters => LimiterWithinRate
  BY DEF Limiters, Limited, RateKept, LimiterWithinRate

LEMMA ServedFinite ==
  ASSUME NEW q, NEW i \in Nat, NEW k \in Nat
  PROVE  /\ IsFiniteSet(ServedIn(q, i, k))
         /\ Cardinality(ServedIn(q, i, k)) \in Nat
<1>1. ServedIn(q, i, k) \in SUBSET (i .. k)
  BY DEF ServedIn
<1>2. IsFiniteSet(i .. k)
  BY FS_Interval
<1>3. IsFiniteSet(ServedIn(q, i, k))
  BY <1>1, <1>2, FS_Subset
<1> QED
  BY <1>3, FS_CardinalityType

LEMMA Disjoint ==
  ASSUME NEW S, NEW T, IsFiniteSet(S), IsFiniteSet(T), S \cap T = {}
  PROVE  Cardinality(S \cup T) = Cardinality(S) + Cardinality(T)
<1>1. Cardinality(S) \in Nat /\ Cardinality(T) \in Nat
  BY FS_CardinalityType
<1>2. Cardinality(S \cap T) = 0
  BY FS_EmptySet
<1>3. Cardinality(S \cup T) = Cardinality(S) + Cardinality(T) - Cardinality(S \cap T)
  BY FS_Union
<1> QED
  BY <1>1, <1>2, <1>3

\* One request more.
LEMMA ServedAppend ==
  ASSUME NEW q \in Seq(Arrivals), NEW x \in Arrivals, NEW i \in 1 .. Len(q) + 1
  PROVE  Cardinality(ServedIn(Append(q, x), i, Len(q) + 1))
           = Cardinality(ServedIn(q, i, Len(q))) + (IF x.served THEN 1 ELSE 0)
<1> DEFINE n == Len(q) + 1
<1> DEFINE before == ServedIn(q, i, Len(q))
<1> DEFINE after == ServedIn(Append(q, x), i, n)
<1>1. IsFiniteSet(before) /\ Cardinality(before) \in Nat
  BY ServedFinite
<1>2. /\ Append(q, x)[n] = x
      /\ \A m \in 1 .. Len(q) : Append(q, x)[m] = q[m]
  OBVIOUS
<1>3. i .. n = (i .. Len(q)) \cup {n} /\ n \notin i .. Len(q)
  OBVIOUS
<1>4. \A m \in i .. Len(q) : m \in 1 .. Len(q)
  OBVIOUS
<1>5. n \notin before
  BY <1>3 DEF ServedIn
<1>6. CASE x.served
  <2>1. after = before \cup {n}
    BY <1>2, <1>3, <1>4, <1>6 DEF ServedIn
  <2> QED
    BY <1>1, <1>5, <1>6, <2>1, FS_AddElement
<1>7. CASE ~x.served
  <2>1. after = before
    BY <1>2, <1>3, <1>4, <1>7 DEF ServedIn
  <2> QED
    BY <1>1, <1>7, <2>1
<1> QED
  BY <1>6, <1>7

\* Requests that were served before a window began, and what it has served.
LEMMA ServedBefore ==
  ASSUME NEW q \in Seq(Arrivals), NEW s \in DOMAIN q, NEW p \in DOMAIN q, p < s, q[p].served,
         NEW n \in Nat, s <= n
  PROVE  Cardinality(ServedIn(q, p + 1, n))
           < Cardinality(ServedIn(q, p, s - 1)) + Cardinality(ServedIn(q, s, n))
<1>1. s \in Nat /\ p \in Nat /\ s - 1 \in Nat /\ p + 1 \in Nat
  OBVIOUS
<1> DEFINE old == ServedIn(q, p + 1, s - 1)
<1> DEFINE now == ServedIn(q, s, n)
<1>2. IsFiniteSet(old) /\ IsFiniteSet(now) /\ Cardinality(old) \in Nat /\ Cardinality(now) \in Nat
  BY <1>1, ServedFinite
<1>3. ServedIn(q, p + 1, n) = old \cup now /\ old \cap now = {}
  BY <1>1 DEF ServedIn
<1>4. ServedIn(q, p, s - 1) = old \cup {p} /\ p \notin old
  BY <1>1 DEF ServedIn
<1>5. Cardinality(ServedIn(q, p + 1, n)) = Cardinality(old) + Cardinality(now)
  BY <1>2, <1>3, Disjoint
<1>6. Cardinality(ServedIn(q, p, s - 1)) = Cardinality(old) + 1
  BY <1>2, <1>4, FS_AddElement
<1> QED
  BY <1>2, <1>5, <1>6

LEMMA ArrivalAt ==
  ASSUME NEW q \in Seq(Arrivals), NEW i \in DOMAIN q
  PROVE  q[i].at \in Nat /\ q[i].served \in BOOLEAN
<1>1. q[i] \in Arrivals
  OBVIOUS
<1> QED
  BY <1>1, AdmissionAssumption DEF Arrivals

\* While the window lasts no request lies more than two windows back, and the
\* one that began the older of the two is itself out of reach.
LEMMA RecentServed ==
  ASSUME AdmissionTypeOK, NEW r \in Seq(Arrivals), NEW entry \in Entries, InOrder(r),
         NEW s \in DOMAIN r, NEW p \in DOMAIN r, Began(r, entry, s, p),
         NEW i \in DOMAIN r, clock - r[i].at < Second
  PROVE  Cardinality(ServedIn(r, i, Len(r))) < 2 * Rate
<1>1. /\ clock \in Nat /\ Rate \in Nat /\ Rate > 0 /\ Second \in Nat
      /\ entry.count \in Nat /\ entry.count <= Rate
  <2>1. Rate \in Nat \ {0} /\ Second \in Nat \ {0} /\ MaxClock \in Nat
    BY AdmissionAssumption
  <2>2. clock \in 0 .. MaxClock
    BY DEF AdmissionTypeOK
  <2>3. entry.count \in 0 .. Rate
    BY DEF Entries
  <2> QED
    BY <2>1, <2>2, <2>3
<1>2. /\ DOMAIN r = 1 .. Len(r) /\ Len(r) \in Nat
      /\ s \in Nat /\ p \in Nat /\ i \in Nat /\ 1 <= i /\ s <= Len(r)
  OBVIOUS
<1>3. \A k \in DOMAIN r : r[k].at \in Nat
  BY ArrivalAt
<1>4. CASE s = 1
  <2>1. ServedIn(r, i, Len(r)) \in SUBSET ServedIn(r, 1, Len(r))
    BY <1>2 DEF ServedIn
  <2>2. Cardinality(ServedIn(r, i, Len(r))) <= Cardinality(ServedIn(r, 1, Len(r)))
    BY <1>2, <2>1, ServedFinite, FS_Subset
  <2>3. Cardinality(ServedIn(r, 1, Len(r))) = entry.count
    BY <1>4 DEF Began
  <2>4. Cardinality(ServedIn(r, i, Len(r))) \in Nat
    BY <1>2, ServedFinite
  <2> QED
    BY <1>1, <2>2, <2>3, <2>4
<1>5. CASE s # 1
  <2>1. /\ p < s /\ r[p].served /\ r[s].at - r[p].at >= Second
        /\ Cardinality(ServedIn(r, p, s - 1)) <= Rate
        /\ Cardinality(ServedIn(r, s, Len(r))) = entry.count
    BY <1>5 DEF Began
  <2>2. r[s].at <= clock /\ (i <= p => r[i].at <= r[p].at)
    BY DEF InOrder
  <2>3. p + 1 <= i
    <3> SUFFICES ASSUME i <= p
                 PROVE  FALSE
      BY <1>2
    <3>1. r[i].at \in Nat /\ r[p].at \in Nat /\ r[s].at \in Nat
      BY <1>3
    <3> QED
      BY <1>1, <2>1, <2>2, <3>1
  <2>4. ServedIn(r, i, Len(r)) \in SUBSET ServedIn(r, p + 1, Len(r))
    BY <1>2, <2>3 DEF ServedIn
  <2>5. Cardinality(ServedIn(r, i, Len(r))) <= Cardinality(ServedIn(r, p + 1, Len(r)))
    BY <1>2, <2>4, ServedFinite, FS_Subset
  <2>6. Cardinality(ServedIn(r, p + 1, Len(r)))
          < Cardinality(ServedIn(r, p, s - 1)) + Cardinality(ServedIn(r, s, Len(r)))
    BY <1>2, <2>1, ServedBefore
  <2>7. /\ Cardinality(ServedIn(r, i, Len(r))) \in Nat
        /\ Cardinality(ServedIn(r, p + 1, Len(r))) \in Nat
        /\ Cardinality(ServedIn(r, p, s - 1)) \in Nat
    <3>1. s - 1 \in Nat /\ p + 1 \in Nat
      BY <1>2
    <3> QED
      BY <1>2, <3>1, ServedFinite
  <2> QED
    BY <1>1, <2>1, <2>5, <2>6, <2>7
<1> QED
  BY <1>4, <1>5

\* The rate is kept by one request more, which is served in a window that has
\* room for it, or refused when the window has served the rate.
LEMMA RateAppend ==
  ASSUME AdmissionTypeOK, NEW q \in Seq(Arrivals), NEW x \in Arrivals,
         RateKept(q), x.at = clock,
         x.served => \A i \in DOMAIN Append(q, x) :
                       clock - Append(q, x)[i].at < Second =>
                         Cardinality(ServedIn(Append(q, x), i, Len(q) + 1)) < 2 * Rate,
         ~x.served => \E s \in DOMAIN q : /\ InOrder(q) /\ clock - q[s].at < Second
                                          /\ Cardinality(ServedIn(q, s, Len(q))) >= Rate
  PROVE  RateKept(Append(q, x))
<1> DEFINE n == Len(q) + 1
<1> DEFINE r == Append(q, x)
<1>1. /\ r \in Seq(Arrivals) /\ Len(r) = n /\ DOMAIN r = 1 .. n /\ n \in Nat
      /\ DOMAIN q = 1 .. Len(q) /\ Len(q) \in Nat
      /\ r[n] = x /\ \A k \in 1 .. Len(q) : r[k] = q[k]
  BY AppendProperties
<1>2. Rate \in Nat /\ Rate > 0 /\ Second \in Nat /\ Second > 0 /\ clock \in Nat
  <2>1. Rate \in Nat \ {0} /\ Second \in Nat \ {0} /\ MaxClock \in Nat
    BY AdmissionAssumption
  <2>2. clock \in 0 .. MaxClock
    BY DEF AdmissionTypeOK
  <2> QED
    BY <2>1, <2>2
<1> SUFFICES ASSUME NEW i \in DOMAIN r
             PROVE  /\ Cardinality({k \in DOMAIN r : i <= k /\ r[k].at - r[i].at < Second /\ r[k].served}) < 2 * Rate
                    /\ ~r[i].served =>
                         Cardinality({k \in DOMAIN r : k <= i /\ r[i].at - r[k].at < Second}) > Rate
  BY DEF RateKept
<1> DEFINE W == {k \in DOMAIN r : i <= k /\ r[k].at - r[i].at < Second /\ r[k].served}
<1> DEFINE V == {k \in DOMAIN r : k <= i /\ r[i].at - r[k].at < Second}
<1> HIDE DEF r, n
<1>3. Cardinality(W) < 2 * Rate
  <2>1. CASE n \in W
    <3>1. x.served /\ clock - r[i].at < Second
      BY <1>1, <2>1
    <3>2. Cardinality(ServedIn(r, i, n)) < 2 * Rate
      BY <3>1 DEF r, n
    <3>3. W \in SUBSET ServedIn(r, i, n)
      BY <1>1 DEF ServedIn
    <3>4. i \in Nat /\ n \in Nat
      BY <1>1
    <3>5. /\ IsFiniteSet(ServedIn(r, i, n)) /\ Cardinality(ServedIn(r, i, n)) \in Nat
      BY <3>4, ServedFinite
    <3>6. IsFiniteSet(W) /\ Cardinality(W) <= Cardinality(ServedIn(r, i, n))
      BY <3>3, <3>5, FS_Subset
    <3>7. Cardinality(W) \in Nat
      BY <3>6, FS_CardinalityType
    <3> HIDE DEF W
    <3> QED
      BY <1>2, <3>2, <3>5, <3>6, <3>7
  <2>2. CASE n \notin W /\ i # n
    <3>1. i \in DOMAIN q
      BY <1>1, <2>2 DEF n
    <3>2. W = {k \in DOMAIN q : i <= k /\ q[k].at - q[i].at < Second /\ q[k].served}
      <4>1. \A k : k \in DOMAIN r <=> k \in DOMAIN q \/ k = n
        BY <1>1 DEF n
      <4> QED
        BY <1>1, <2>2, <3>1, <4>1
    <3> QED
      BY <3>1, <3>2 DEF RateKept
  <2>3. CASE n \notin W /\ i = n
    <3>1. W = {}
      BY <1>1, <2>3
    <3>2. Cardinality(W) = 0
      BY <3>1, FS_EmptySet
    <3> QED
      BY <1>2, <3>2
  <2> QED
    BY <2>1, <2>2, <2>3
<1>4. ASSUME ~r[i].served
      PROVE  Cardinality(V) > Rate
  <2>1. CASE i # n
    <3>1. i \in DOMAIN q
      BY <1>1, <2>1 DEF n
    <3>2. V = {k \in DOMAIN q : k <= i /\ q[i].at - q[k].at < Second}
      BY <1>1, <3>1 DEF n
    <3> QED
      BY <1>1, <1>4, <3>1, <3>2 DEF RateKept
  <2>2. CASE i = n
    <3>1. PICK s \in DOMAIN q : /\ InOrder(q) /\ clock - q[s].at < Second
                                /\ Cardinality(ServedIn(q, s, Len(q))) >= Rate
      BY <1>1, <1>4, <2>2
    <3> DEFINE S == ServedIn(q, s, Len(q))
    <3>2. s \in Nat /\ Len(q) \in Nat
      BY <1>1
    <3>3. IsFiniteSet(S) /\ Cardinality(S) \in Nat
      BY <3>2, ServedFinite
    <3>4. n \notin S
      BY <1>1 DEF ServedIn, n
    <3>5. S \cup {n} \in SUBSET V
      <4>1. n \in V
        BY <1>1, <1>2, <2>2
      <4>2. ASSUME NEW k \in S
            PROVE  k \in V
        <5>1. k \in DOMAIN q /\ s <= k
          BY <1>1, <3>2 DEF ServedIn
        <5>2. q[s].at <= q[k].at /\ q[s].at \in Nat /\ q[k].at \in Nat
          BY <3>1, <3>2, <5>1, ArrivalAt DEF InOrder
        <5>3. clock - q[k].at < Second
          BY <1>2, <3>1, <5>2
        <5> QED
          BY <1>1, <2>2, <5>1, <5>3 DEF n
      <4> QED
        BY <4>1, <4>2
    <3>6. IsFiniteSet(V)
      <4>1. V \in SUBSET (1 .. n) /\ IsFiniteSet(1 .. n)
        BY <1>1, FS_Interval
      <4> QED
        BY <4>1, FS_Subset
    <3>7. Cardinality(S \cup {n}) = Cardinality(S) + 1
      BY <3>3, <3>4, FS_AddElement
    <3>8. Cardinality(S \cup {n}) <= Cardinality(V) /\ Cardinality(V) \in Nat
      BY <3>5, <3>6, FS_Subset, FS_CardinalityType
    <3> HIDE DEF S, V
    <3> QED
      BY <1>2, <3>1, <3>3, <3>7, <3>8 DEF S
  <2> QED
    BY <2>1, <2>2
<1> QED
  BY <1>3, <1>4

\* What RateLimiter::check does to the limiter of one address.
LEMMA LimitedAppend ==
  ASSUME AdmissionTypeOK, NEW q \in Seq(Arrivals), NEW entry \in Entries, Limited(q, entry),
         NEW before \in Entries,
         before = IF q = <<>> THEN [count |-> 0, start |-> clock] ELSE entry,
         NEW after \in Entries, after = Within(before),
         NEW x \in Arrivals, x.at = clock, x.served <=> after # before
  PROVE  Limited(Append(q, x), after)
<1> DEFINE n == Len(q) + 1
<1> DEFINE r == Append(q, x)
<1>1. /\ r \in Seq(Arrivals) /\ r # <<>> /\ Len(r) = n /\ DOMAIN r = 1 .. n /\ n \in Nat
      /\ DOMAIN q = 1 .. Len(q) /\ Len(q) \in Nat
      /\ r[n] = x /\ \A k \in 1 .. Len(q) : r[k] = q[k]
  BY AppendProperties
<1>2. /\ Rate \in Nat /\ Rate > 0 /\ Second \in Nat /\ Second > 0 /\ clock \in Nat
      /\ before.count \in Nat /\ before.start \in Nat /\ before.count <= Rate
  <2>1. Rate \in Nat \ {0} /\ Second \in Nat \ {0} /\ MaxClock \in Nat
    BY AdmissionAssumption
  <2>2. clock \in 0 .. MaxClock
    BY DEF AdmissionTypeOK
  <2>3. before.count \in 0 .. Rate /\ before.start \in 0 .. MaxClock
    BY DEF Entries
  <2> QED
    BY <2>1, <2>2, <2>3
<1>3. InOrder(q) /\ RateKept(q)
  BY DEF Limited
<1>4. InOrder(r)
  <2> SUFFICES ASSUME NEW i \in 1 .. n, NEW k \in 1 .. n
               PROVE  r[i].at <= clock /\ (i <= k => r[i].at <= r[k].at)
    BY <1>1 DEF InOrder
  <2>1. r[n].at <= clock
    BY <1>1, <1>2
  <2>2. CASE i = n
    BY <1>1, <2>1, <2>2
  <2>3. CASE i # n
    <3>1. i \in DOMAIN q /\ r[i] = q[i] /\ r[i].at <= clock
      BY <1>1, <1>3, <2>3 DEF InOrder
    <3>2. CASE k = n
      BY <1>1, <3>1, <3>2
    <3>3. CASE k # n
      BY <1>1, <1>3, <3>1, <3>3 DEF InOrder
    <3> QED
      BY <3>1, <3>2, <3>3
  <2> QED
    BY <2>2, <2>3
<1>5. \A i \in 1 .. n : Cardinality(ServedIn(r, i, n))
                          = Cardinality(ServedIn(q, i, Len(q))) + (IF x.served THEN 1 ELSE 0)
  BY ServedAppend
<1>6. Cardinality(ServedIn(q, n, Len(q))) = 0
  <2>1. ServedIn(q, n, Len(q)) = {}
    BY <1>1 DEF ServedIn
  <2> QED
    BY <2>1, FS_EmptySet
<1> HIDE DEF r, n
<1>7. \A s \in DOMAIN q, p \in DOMAIN q :
        s # 1 /\ p < s => ServedIn(r, p, s - 1) = ServedIn(q, p, s - 1)
  <2> SUFFICES ASSUME NEW s \in DOMAIN q, NEW p \in DOMAIN q
               PROVE  ServedIn(r, p, s - 1) = ServedIn(q, p, s - 1)
    OBVIOUS
  <2>1. \A m \in p .. s - 1 : m \in 1 .. Len(q)
    BY <1>1
  <2> QED
    BY <1>1, <2>1 DEF ServedIn
<1> DEFINE Full == \E s \in DOMAIN q : /\ clock - q[s].at < Second
                                       /\ Cardinality(ServedIn(q, s, Len(q))) >= Rate
<1> DEFINE Known == \E s \in DOMAIN r, p \in DOMAIN r : Began(r, after, s, p)
<1>8. ASSUME q = <<>>
      PROVE  Known /\ (x.served \/ Full)
  <2>1. n = 1
    BY <1>8 DEF n
  <2>2. ~(clock - before.start >= Second) /\ before.count = 0
    BY <1>2, <1>8
  <2>3. after = [before EXCEPT !.count = @ + 1]
    BY <1>2, <2>2 DEF Within
  <2>4. after.count = 1 /\ after.start = clock
    BY <1>8, <2>3
  <2>5. x.served
    BY <2>2, <2>4
  <2>6. Cardinality(ServedIn(r, 1, 1)) = 1
    BY <1>5, <1>6, <2>1, <2>5
  <2>7. 1 \in DOMAIN r /\ Began(r, after, 1, 1)
    BY <1>1, <2>1, <2>4, <2>5, <2>6 DEF Began
  <2> QED
    BY <2>5, <2>7
<1>9. ASSUME q # <<>>
      PROVE  Known /\ (x.served \/ Full)
  <2>1. before = entry
    BY <1>9
  <2>2. PICK s \in DOMAIN q, p \in DOMAIN q : Began(q, entry, s, p)
    BY <1>9 DEF Limited
  <2>3. /\ s \in Nat /\ s < n /\ s \in DOMAIN r /\ p \in DOMAIN r /\ n \in DOMAIN r /\ n # 1
        /\ r[s] = q[s] /\ r[p] = q[p] /\ r[n] = x
    BY <1>1 DEF n
  <2>4. /\ q[s].served /\ q[s].at = before.start
        /\ Cardinality(ServedIn(q, s, Len(q))) = before.count
        /\ q[s].at <= clock
    BY <1>3, <2>1, <2>2 DEF Began, InOrder
  <2>5. CASE clock - before.start >= Second
    <3>1. after = [count |-> 1, start |-> clock]
      BY <2>5 DEF Within
    <3>2. x.served
      BY <1>2, <2>5, <3>1
    <3>3. Cardinality(ServedIn(r, n, n)) = 1
      BY <1>1, <1>5, <1>6, <3>2
    <3>4. ServedIn(r, s, n - 1) = ServedIn(q, s, Len(q))
      <4>1. n - 1 = Len(q) /\ \A m \in s .. n - 1 : m \in 1 .. Len(q)
        BY <1>1, <2>3 DEF n
      <4> QED
        BY <1>1, <4>1 DEF ServedIn
    <3>5. Began(r, after, n, s)
      BY <1>1, <1>2, <2>3, <2>4, <2>5, <3>1, <3>2, <3>3, <3>4 DEF Began
    <3> QED
      BY <2>3, <3>2, <3>5
  <2>6. CASE clock - before.start < Second /\ before.count < Rate
    <3>1. after = [before EXCEPT !.count = @ + 1]
      BY <1>2, <2>6 DEF Within
    <3>2. after.count = before.count + 1 /\ after.start = before.start
      BY <3>1 DEF Entries
    <3>3. x.served
      BY <1>2, <3>2
    <3>4. Cardinality(ServedIn(r, s, n)) = after.count
      BY <1>1, <1>2, <1>5, <2>3, <2>4, <3>2, <3>3
    <3>5. Began(r, after, s, p)
      BY <1>1, <1>7, <2>1, <2>2, <2>3, <2>4, <3>2, <3>4 DEF Began
    <3> QED
      BY <2>3, <3>3, <3>5
  <2>7. CASE clock - before.start < Second /\ before.count >= Rate
    <3>1. after = before
      BY <1>2, <2>7 DEF Within
    <3>2. ~x.served
      BY <3>1
    <3>3. Cardinality(ServedIn(r, s, n)) = after.count
      BY <1>1, <1>2, <1>5, <2>3, <2>4, <3>1, <3>2
    <3>4. Began(r, after, s, p)
      BY <1>1, <1>7, <2>1, <2>2, <2>3, <2>4, <3>1, <3>3 DEF Began
    <3>5. Full
      BY <2>4, <2>7
    <3> QED
      BY <2>3, <3>4, <3>5
  <2> QED
    BY <1>2, <2>5, <2>6, <2>7
<1>10. Known /\ (x.served \/ Full)
  BY <1>8, <1>9
<1>11. RateKept(r)
  <2>1. ASSUME NEW i \in DOMAIN r, clock - r[i].at < Second
        PROVE  Cardinality(ServedIn(r, i, n)) < 2 * Rate
    BY <1>1, <1>4, <1>10, <2>1, RecentServed
  <2> QED
    BY <1>3, <1>10, <2>1, RateAppend DEF r, n
<1> QED
  BY <1>4, <1>10, <1>11 DEF Limited, r

\* It stays so as the clock goes on.
LEMMA LimitedLater ==
  ASSUME NEW q \in Seq(Arrivals), NEW entry, Limited(q, entry),
         clock \in Nat, clock' \in Nat, clock' >= clock
  PROVE  Limited(q, entry)'
<1>1. InOrder(q)'
  BY ArrivalAt DEF Limited, InOrder
<1> QED
  BY <1>1 DEF Limited, RateKept, Began

LEMMA LimitersStep ==
  ASSUME AdmissionTypeOK, AdmissionTypeOK', Limiters, [AdmissionNext]_vars
  PROVE  Limiters'
<1> SUFFICES ASSUME NEW h \in Governors, NEW b \in Addresses
             PROVE  Limited(arrived[h][b], window[h][b])'
  BY DEF Limiters
<1> DEFINE q == arrived[h][b]
<1> DEFINE entry == window[h][b]
<1>1. /\ arrived \in [Governors -> [Addresses -> Seq(Arrivals)]]
      /\ window \in [Governors -> [Addresses -> Entries]]
      /\ clock \in Nat /\ clock' \in Nat
  <2>1. MaxClock \in Nat
    BY AdmissionAssumption
  <2>2. clock \in 0 .. MaxClock /\ clock' \in 0 .. MaxClock
    BY DEF AdmissionTypeOK
  <2>3. /\ arrived \in [Governors -> [Addresses -> Seq(Arrivals)]]
        /\ window \in [Governors -> [Addresses -> Entries]]
    BY DEF AdmissionTypeOK, Entries
  <2> QED
    BY <2>1, <2>2, <2>3
<1>2. q \in Seq(Arrivals) /\ entry \in Entries /\ Limited(q, entry)
  BY <1>1 DEF Limiters
<1>3. PICK r \in Seq(Arrivals), e \in Entries : r = q /\ e = entry
  BY <1>2
<1>4. ASSUME arrived'[h][b] = r, window'[h][b] = e, clock' >= clock
      PROVE  Limited(arrived[h][b], window[h][b])'
  <2>1. Limited(r, e)'
    BY <1>1, <1>2, <1>3, <1>4, LimitedLater
  <2> QED
    BY <1>4, <2>1
<1>5. ASSUME NEW g \in Governors, NEW a \in Addresses, Counted(g, a)
      PROVE  Limited(arrived[h][b], window[h][b])'
  <2>1. PICK before \in Entries, after \in Entries, x \in Arrivals :
          /\ before = EntryOf(g, a)
          /\ after = Within(before)
          /\ x.at = clock
          /\ x.served <=> after # before
          /\ window' = [window EXCEPT ![g][a] = after]
          /\ arrived' = [arrived EXCEPT ![g][a] = Append(arrived[g][a], x)]
    BY <1>5, CountedLeaves
  <2>2. clock' = clock
    BY <1>5 DEF Counted
  <2>3. CASE h = g /\ b = a
    <3>1. arrived'[h][b] = Append(r, x) /\ window'[h][b] = after
      BY <1>1, <1>3, <2>1, <2>3
    <3>2. before = IF r = <<>> THEN [count |-> 0, start |-> clock] ELSE e
      BY <1>3, <2>1, <2>3 DEF EntryOf
    <3>3. Limited(r, e)
      BY <1>2, <1>3
    <3>4. Limited(Append(r, x), after)
      BY <2>1, <3>2, <3>3, LimitedAppend
    <3>5. PICK rx \in Seq(Arrivals) : rx = Append(r, x)
      BY AppendProperties
    <3>6. Limited(rx, after)
      BY <3>4, <3>5
    <3>7. clock' >= clock
      BY <1>1, <2>2
    <3>8. Limited(rx, after)'
      BY <1>1, <3>6, <3>7, LimitedLater
    <3> QED
      BY <3>1, <3>5, <3>8
  <2>4. CASE ~(h = g /\ b = a)
    <3>1. arrived'[h][b] = arrived[h][b] /\ window'[h][b] = window[h][b]
      BY <1>1, <2>1, <2>4
    <3> QED
      BY <1>1, <1>3, <1>4, <2>2, <3>1
  <2> QED
    BY <2>3, <2>4
<1>6. ASSUME NEW g \in Governors, End(g)
      PROVE  Limited(arrived[h][b], window[h][b])'
  <2>1. CASE h = g
    <3>1. arrived'[h][b] = <<>>
      BY <1>1, <1>6, <2>1 DEF End, Nobody
    <3> QED
      BY <3>1 DEF Limited, InOrder, RateKept
  <2>2. CASE h # g
    <3>1. arrived'[h][b] = arrived[h][b] /\ window'[h][b] = window[h][b] /\ clock' = clock
      BY <1>1, <1>6, <2>2 DEF End
    <3> QED
      BY <1>1, <1>3, <1>4, <3>1
  <2> QED
    BY <2>1, <2>2
<1>7. CASE UNCHANGED <<window, arrived>> /\ clock' \in {clock, clock + 1}
  BY <1>1, <1>3, <1>4, <1>7
<1> QED
  BY <1>5, <1>6, <1>7, AdmissionAssumption
  DEF AdmissionNext, Rotate, Knock, Health, Tick, Start, Crash, Launch, Leave, Widen,
      Restart, Retract, Move, Narrow, limiter, vars, Addresses

\* What the limiter's part of the proof carries: types, which rest on what the
\* variable holds, and where the windows of every address began.
LimiterInductive == AdmissionTypeOK /\ Named /\ Limiters

\* The checkpoint serves an address less than twice its rate within any second,
\* and turns one down only for more requests than the rate in the second that
\* ends with the refusal, for every rate, however requests, ticks and restarts
\* interleave (RateLimiter::check).
THEOREM RateIsKept == AdmissionSpec => []LimiterInvariant
<1>1. AdmissionInit => LimiterInductive
  <2>1. AdmissionInit => Limiters
    <3> SUFFICES ASSUME AdmissionInit, NEW g \in Governors, NEW a \in Addresses
                 PROVE  Limited(arrived[g][a], window[g][a])
      BY DEF Limiters
    <3>1. arrived[g][a] = <<>>
      BY DEF AdmissionInit, Nobody
    <3> QED
      BY <3>1 DEF Limited, InOrder, RateKept
  <2> QED
    BY <2>1, TypeInit, NamedInit DEF LimiterInductive
<1>2. LimiterInductive /\ [AdmissionNext]_vars => LimiterInductive'
  <2> SUFFICES ASSUME LimiterInductive, [AdmissionNext]_vars
               PROVE  LimiterInductive'
    OBVIOUS
  <2>1. AdmissionTypeOK /\ Named /\ Limiters
    BY DEF LimiterInductive
  <2>2. AdmissionTypeOK' /\ Named'
    BY <2>1, TypeStep, NamedStep
  <2> QED
    BY <2>1, <2>2, LimitersStep DEF LimiterInductive
<1>3. LimiterInductive => LimiterInvariant
  BY LimitersKeepRate DEF LimiterInductive, LimiterInvariant
<1> QED
  BY <1>1, <1>2, <1>3, PTL DEF AdmissionSpec
=============================================================================
