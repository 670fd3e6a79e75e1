----------------------------- MODULE CertsProofs -----------------------------
(***************************************************************************)
(* Proofs about the certificate bundle, for any set of names and any       *)
(* number of issues, removals and interruptions: that agents stay          *)
(* connected through rotations and reloads, and that a settled bundle can  *)
(* be served.                                                              *)
(***************************************************************************)
EXTENDS CertsProperties, TLAPS

-----------------------------------------------------------------------------
(* What a command has still to do *)

Kinds   == {"rename", "write", "unlink", "rmdir", "check"}
Writing == {"rename", "write", "unlink"}

ToDo ==
  {s \in [how : Kinds, file : Files, to : Contents] : s.how = "unlink" => s.to = Absent}

\* s will give file f a new content.
Pends(s, f) == \E i \in DOMAIN s : s[i].how \in Writing /\ s[i].file = f

\* The contents s gives are those of d.
Agrees(s, d) == \A i \in DOMAIN s : s[i].how \in Writing => d[s[i].file] = s[i].to

\* s does not check what it has written.
NoCheck(s) == \A i \in DOMAIN s : s[i].how # "check"

\* After a check there is only the note of what was imported.
ChecksLast(s) ==
  \A i, j \in DOMAIN s : s[i].how = "check" /\ i < j => s[j].file = "meta.json"

LEMMA TailOf ==
  ASSUME NEW S, NEW s \in Seq(S), s # <<>>
  PROVE  /\ Tail(s) \in Seq(S) /\ Len(s) \in Nat \ {0} /\ Len(Tail(s)) = Len(s) - 1
         /\ DOMAIN s = 1 .. Len(s) /\ DOMAIN Tail(s) = 1 .. Len(s) - 1
         /\ Head(s) = s[1] /\ s[1] \in S
         /\ \A i \in DOMAIN Tail(s) : i + 1 \in DOMAIN s /\ Tail(s)[i] = s[i + 1]
         /\ \A i \in DOMAIN s : i # 1 => i - 1 \in DOMAIN Tail(s) /\ Tail(s)[i - 1] = s[i]
         /\ Tail(s) = <<>> <=> Len(s) = 1
<1>1. Len(s) \in Nat \ {0} /\ DOMAIN s = 1 .. Len(s)
  OBVIOUS
<1>2. /\ Tail(s) \in Seq(S) /\ Len(Tail(s)) = Len(s) - 1
      /\ Head(s) = s[1] /\ s[1] \in S
      /\ \A i \in 1 .. Len(s) - 1 : Tail(s)[i] = s[i + 1]
  OBVIOUS
<1>3. DOMAIN Tail(s) = 1 .. Len(s) - 1
  BY <1>2
<1>4. Tail(s) = <<>> <=> Len(s) = 1
  BY <1>1, <1>2
<1>5. \A i \in DOMAIN Tail(s) : i + 1 \in DOMAIN s /\ Tail(s)[i] = s[i + 1]
  BY <1>1, <1>2, <1>3
<1>6. ASSUME NEW i \in DOMAIN s, i # 1
      PROVE  i - 1 \in DOMAIN Tail(s) /\ Tail(s)[i - 1] = s[i]
  <2>1. i \in Nat /\ i - 1 \in 1 .. Len(s) - 1 /\ (i - 1) + 1 = i
    BY <1>1, <1>6
  <2> QED
    BY <1>2, <1>3, <2>1
<1> QED
  BY <1>1, <1>2, <1>3, <1>4, <1>5, <1>6

LEMMA BothParts ==
  ASSUME NEW s \in Seq(ToDo), NEW t \in Seq(ToDo), NEW d, NEW f, NEW u, u = s \o t
  PROVE  /\ u \in Seq(ToDo)
         /\ Pends(u, f) <=> Pends(s, f) \/ Pends(t, f)
         /\ Agrees(u, d) <=> Agrees(s, d) /\ Agrees(t, d)
         /\ NoCheck(u) <=> NoCheck(s) /\ NoCheck(t)
<1>1. /\ u \in Seq(ToDo) /\ Len(s) \in Nat /\ Len(t) \in Nat
      /\ DOMAIN s = 1 .. Len(s) /\ DOMAIN t = 1 .. Len(t) /\ DOMAIN u = 1 .. Len(s) + Len(t)
      /\ \A i \in 1 .. Len(s) + Len(t) : u[i] = IF i <= Len(s) THEN s[i] ELSE t[i - Len(s)]
  OBVIOUS
<1>2. \A i \in DOMAIN s : i \in DOMAIN u /\ u[i] = s[i]
  BY <1>1
<1>3. \A i \in DOMAIN t : i + Len(s) \in DOMAIN u /\ u[i + Len(s)] = t[i]
  <2> SUFFICES ASSUME NEW i \in DOMAIN t
               PROVE  i + Len(s) \in DOMAIN u /\ u[i + Len(s)] = t[i]
    OBVIOUS
  <2>1. /\ i \in Nat /\ i + Len(s) \in 1 .. Len(s) + Len(t) /\ ~(i + Len(s) <= Len(s))
        /\ (i + Len(s)) - Len(s) = i
    BY <1>1
  <2> QED
    BY <1>1, <2>1
<1>4. \A i \in DOMAIN u : \/ i \in DOMAIN s /\ u[i] = s[i]
                          \/ \E j \in DOMAIN t : u[i] = t[j]
  <2> SUFFICES ASSUME NEW i \in DOMAIN u
               PROVE  \/ i \in DOMAIN s /\ u[i] = s[i]
                      \/ \E j \in DOMAIN t : u[i] = t[j]
    OBVIOUS
  <2>1. i \in Nat
    BY <1>1
  <2>2. CASE i <= Len(s)
    BY <1>1, <2>1, <2>2
  <2>3. CASE ~(i <= Len(s))
    <3>1. i - Len(s) \in DOMAIN t /\ u[i] = t[i - Len(s)]
      BY <1>1, <2>1, <2>3
    <3> QED
      BY <3>1
  <2> QED
    BY <2>2, <2>3
<1>5. Pends(u, f) <=> Pends(s, f) \/ Pends(t, f)
  BY <1>2, <1>3, <1>4 DEF Pends
<1>6. Agrees(u, d) <=> Agrees(s, d) /\ Agrees(t, d)
  <2>1. Agrees(u, d) => Agrees(s, d)
    BY <1>2 DEF Agrees
  <2>2. Agrees(u, d) => Agrees(t, d)
    <3> SUFFICES ASSUME Agrees(u, d), NEW i \in DOMAIN t, t[i].how \in Writing
                 PROVE  d[t[i].file] = t[i].to
      BY DEF Agrees
    <3>1. PICK j \in DOMAIN u : u[j] = t[i]
      BY <1>3
    <3> QED
      BY <3>1 DEF Agrees
  <2>3. ASSUME Agrees(s, d), Agrees(t, d)
        PROVE  Agrees(u, d)
    <3> SUFFICES ASSUME NEW i \in DOMAIN u, u[i].how \in Writing
                 PROVE  d[u[i].file] = u[i].to
      BY DEF Agrees
    <3>1. CASE i \in DOMAIN s /\ u[i] = s[i]
      BY <2>3, <3>1 DEF Agrees
    <3>2. CASE \E j \in DOMAIN t : u[i] = t[j]
      BY <2>3, <3>2 DEF Agrees
    <3> QED
      BY <1>4, <3>1, <3>2
  <2> QED
    BY <2>1, <2>2, <2>3
<1>7. NoCheck(u) <=> NoCheck(s) /\ NoCheck(t)
  BY <1>2, <1>3, <1>4 DEF NoCheck
<1> QED
  BY <1>1, <1>5, <1>6, <1>7

LEMMA NothingPends ==
  \A f, d : ~Pends(<<>>, f) /\ Agrees(<<>>, d) /\ NoCheck(<<>>) /\ <<>> \in Seq(ToDo)
<1>1. DOMAIN <<>> = {} /\ <<>> \in Seq(ToDo)
  OBVIOUS
<1> QED
  BY <1>1 DEF Pends, Agrees, NoCheck

\* One step alone.
LEMMA OneStep ==
  ASSUME NEW x \in ToDo, NEW f, NEW d
  PROVE  /\ <<x>> \in Seq(ToDo)
         /\ Pends(<<x>>, f) <=> x.how \in Writing /\ x.file = f
         /\ Agrees(<<x>>, d) <=> (x.how \in Writing => d[x.file] = x.to)
         /\ NoCheck(<<x>>) <=> x.how # "check"
<1>1. <<x>> \in Seq(ToDo) /\ DOMAIN <<x>> = {1} /\ <<x>>[1] = x
  OBVIOUS
<1>2. Pends(<<x>>, f) <=> x.how \in Writing /\ x.file = f
  BY <1>1 DEF Pends
<1>3. Agrees(<<x>>, d) <=> (x.how \in Writing => d[x.file] = x.to)
  BY <1>1 DEF Agrees
<1>4. NoCheck(<<x>>) <=> x.how # "check"
  BY <1>1 DEF NoCheck
<1> QED
  BY <1>1, <1>2, <1>3, <1>4

LEMMA TailPends ==
  ASSUME NEW s \in Seq(ToDo), s # <<>>, NEW f, NEW d
  PROVE  /\ Pends(s, f) <=> (Head(s).how \in Writing /\ Head(s).file = f) \/ Pends(Tail(s), f)
         /\ Agrees(s, d) => Agrees(Tail(s), d)
         /\ Agrees(s, d) /\ Head(s).how \in Writing => d[Head(s).file] = Head(s).to
         /\ ChecksLast(s) => ChecksLast(Tail(s))
         /\ ChecksLast(s) /\ Head(s).how = "check" /\ f # "meta.json" => ~Pends(s, f)
<1>1. /\ DOMAIN s = 1 .. Len(s) /\ Head(s) = s[1] /\ 1 \in DOMAIN s /\ Len(s) \in Nat
      /\ \A i \in DOMAIN Tail(s) : i + 1 \in DOMAIN s /\ Tail(s)[i] = s[i + 1]
      /\ \A i \in DOMAIN s : i # 1 => i - 1 \in DOMAIN Tail(s) /\ Tail(s)[i - 1] = s[i]
      /\ DOMAIN Tail(s) = 1 .. Len(s) - 1
  BY TailOf
<1>2. Pends(s, f) <=> (Head(s).how \in Writing /\ Head(s).file = f) \/ Pends(Tail(s), f)
  <2>1. ASSUME Pends(s, f)
        PROVE  (Head(s).how \in Writing /\ Head(s).file = f) \/ Pends(Tail(s), f)
    <3>1. PICK i \in DOMAIN s : s[i].how \in Writing /\ s[i].file = f
      BY <2>1 DEF Pends
    <3>2. CASE i = 1
      BY <1>1, <3>1, <3>2
    <3>3. CASE i # 1
      <4>1. i - 1 \in DOMAIN Tail(s) /\ Tail(s)[i - 1] = s[i]
        BY <1>1, <3>1, <3>3
      <4> QED
        BY <3>1, <4>1 DEF Pends
    <3> QED
      BY <3>2, <3>3
  <2>2. Head(s).how \in Writing /\ Head(s).file = f => Pends(s, f)
    BY <1>1 DEF Pends
  <2>3. ASSUME Pends(Tail(s), f)
        PROVE  Pends(s, f)
    <3>1. PICK i \in DOMAIN Tail(s) : Tail(s)[i].how \in Writing /\ Tail(s)[i].file = f
      BY <2>3 DEF Pends
    <3>2. i + 1 \in DOMAIN s /\ Tail(s)[i] = s[i + 1]
      BY <1>1, <3>1
    <3> QED
      BY <3>1, <3>2 DEF Pends
  <2> QED
    BY <2>1, <2>2, <2>3
<1>3. Agrees(s, d) => Agrees(Tail(s), d)
  BY <1>1 DEF Agrees
<1>4. Agrees(s, d) /\ Head(s).how \in Writing => d[Head(s).file] = Head(s).to
  BY <1>1 DEF Agrees
<1>5. ASSUME ChecksLast(s)
      PROVE  ChecksLast(Tail(s))
  <2> SUFFICES ASSUME NEW i \in DOMAIN Tail(s), NEW j \in DOMAIN Tail(s),
                      Tail(s)[i].how = "check", i < j
               PROVE  Tail(s)[j].file = "meta.json"
    BY DEF ChecksLast
  <2>1. i \in Nat /\ j \in Nat /\ i + 1 < j + 1
    BY <1>1
  <2> QED
    BY <1>1, <1>5, <2>1 DEF ChecksLast
<1>6. ASSUME ChecksLast(s), Head(s).how = "check", f # "meta.json", Pends(s, f)
      PROVE  FALSE
  <2>1. PICK i \in DOMAIN s : s[i].how \in Writing /\ s[i].file = f
    BY <1>6 DEF Pends
  <2>2. i # 1
    <3>1. s[1].how = "check" /\ "check" \notin Writing
      BY <1>1, <1>6 DEF Writing
    <3> QED
      BY <2>1, <3>1
  <2>3. i \in 1 .. Len(s)
    BY <1>1
  <2>4. 1 < i
    BY <1>1, <2>2, <2>3
  <2> QED
    BY <1>1, <1>6, <2>1, <2>4 DEF ChecksLast
<1> QED
  BY <1>2, <1>3, <1>4, <1>5, <1>6

-----------------------------------------------------------------------------
(* What the commands write *)

LEMMA WhatIsWritten ==
  ASSUME NEW ca \in Issues, NEW pair \in Issues, NEW names \in SUBSET Names
  PROVE  /\ CaOf(ca) = [is |-> "whole", ca |-> ca, pair |-> NoIssue, names |-> {}]
         /\ CertOf(ca, pair, names) = [is |-> "whole", ca |-> ca, pair |-> pair, names |-> names]
         /\ KeyOf(pair) = [is |-> "whole", ca |-> NoIssue, pair |-> pair, names |-> {}]
         /\ MetaOf(names) = [is |-> "whole", ca |-> NoIssue, pair |-> NoIssue, names |-> names]
         /\ {CaOf(ca), CertOf(ca, pair, names), KeyOf(pair), MetaOf(names)} \subseteq Contents
<1>1. 0 \in Issues
  BY CertsAssumption DEF Issues
<1>2. /\ CaOf(ca) = [is |-> "whole", ca |-> ca, pair |-> NoIssue, names |-> {}]
      /\ KeyOf(pair) = [is |-> "whole", ca |-> NoIssue, pair |-> pair, names |-> {}]
      /\ MetaOf(names) = [is |-> "whole", ca |-> NoIssue, pair |-> NoIssue, names |-> names]
  BY DEF CaOf, KeyOf, MetaOf, CertOf
<1>3. CertOf(ca, pair, names) = [is |-> "whole", ca |-> ca, pair |-> pair, names |-> names]
  BY DEF CertOf
<1>4. CaOf(ca) \in Contents /\ KeyOf(pair) \in Contents
  BY <1>1, <1>2 DEF Contents, NoIssue
<1>5. MetaOf(names) \in Contents
  BY <1>1, <1>2 DEF Contents, NoIssue
<1>6. CertOf(ca, pair, names) \in Contents
  BY <1>3 DEF Contents
<1> QED
  BY <1>2, <1>3, <1>4, <1>5, <1>6

LEMMA NotWritten ==
  /\ Absent = [is |-> "absent", ca |-> NoIssue, pair |-> NoIssue, names |-> {}]
  /\ Torn = [is |-> "torn", ca |-> NoIssue, pair |-> NoIssue, names |-> {}]
  /\ Absent \in Contents /\ Torn \in Contents
<1>1. 0 \in Issues
  BY CertsAssumption DEF Issues
<1>2. Torn = [is |-> "torn", ca |-> NoIssue, pair |-> NoIssue, names |-> {}]
  BY DEF Torn, Absent
<1> QED
  BY <1>1, <1>2 DEF Absent, Contents, NoIssue

\* One step of a command.
LEMMA StepIs ==
  ASSUME NEW file \in Files, NEW to \in Contents
  PROVE  /\ Renamed(file, to) = [how |-> "rename", file |-> file, to |-> to]
         /\ Written(file, to) = [how |-> "write", file |-> file, to |-> to]
         /\ {Renamed(file, to), Written(file, to)} \subseteq ToDo
         /\ \A how \in Kinds :
              /\ Step(how, file, to) = [how |-> how, file |-> file, to |-> to]
              /\ (how = "unlink" => to = Absent) => Step(how, file, to) \in ToDo
BY DEF Renamed, Written, Step, ToDo, Kinds

LEMMA LeavesAre ==
  ASSUME NEW ca \in Issues, NEW pair \in Issues, NEW names \in SUBSET Names, NEW f, NEW d
  PROVE  /\ Leaves(ca, pair, names) \in Seq(ToDo) /\ Len(Leaves(ca, pair, names)) = 4
         /\ \A i \in 1 .. 4 :
              LET s == Leaves(ca, pair, names)[i]
              IN  /\ s.how = "rename"
                  /\ s.file \in {"server.crt", "server.key", "client.crt", "client.key"}
                  /\ s.file = "server.crt" => s.to = CertOf(ca, pair, names)
         /\ NoCheck(Leaves(ca, pair, names))
         /\ Pends(Leaves(ca, pair, names), f)
              <=> f \in {"server.crt", "server.key", "client.crt", "client.key"}
         /\ Agrees(Leaves(ca, pair, names), d)
              <=> /\ d["server.crt"] = CertOf(ca, pair, names)
                  /\ d["server.key"] = KeyOf(pair)
                  /\ d["client.crt"] = CertOf(ca, pair, {})
                  /\ d["client.key"] = KeyOf(pair)
<1>1. /\ CertOf(ca, pair, names) \in Contents /\ KeyOf(pair) \in Contents
      /\ CertOf(ca, pair, {}) \in Contents
  BY WhatIsWritten
<1>2. PICK s1, s2, s3, s4 \in ToDo :
        /\ s1 = [how |-> "rename", file |-> "server.crt", to |-> CertOf(ca, pair, names)]
        /\ s2 = [how |-> "rename", file |-> "server.key", to |-> KeyOf(pair)]
        /\ s3 = [how |-> "rename", file |-> "client.crt", to |-> CertOf(ca, pair, {})]
        /\ s4 = [how |-> "rename", file |-> "client.key", to |-> KeyOf(pair)]
        /\ Leaves(ca, pair, names) = <<s1, s2, s3, s4>>
  BY <1>1, StepIs DEF Leaves, Files
<1> DEFINE L == <<s1, s2, s3, s4>>
<1>3. /\ L \in Seq(ToDo) /\ Len(L) = 4 /\ DOMAIN L = 1 .. 4
      /\ L[1] = s1 /\ L[2] = s2 /\ L[3] = s3 /\ L[4] = s4
  OBVIOUS
<1>4. \A i : i \in 1 .. 4 <=> i \in {1, 2, 3, 4}
  OBVIOUS
<1> HIDE DEF L
<1>5. \A i \in 1 .. 4 : /\ L[i].how = "rename"
                        /\ L[i].file \in {"server.crt", "server.key", "client.crt", "client.key"}
                        /\ L[i].file = "server.crt" => L[i].to = CertOf(ca, pair, names)
  BY <1>2, <1>3, <1>4
<1>6. Pends(L, f) <=> f \in {"server.crt", "server.key", "client.crt", "client.key"}
  <2>1. ASSUME Pends(L, f)
        PROVE  f \in {"server.crt", "server.key", "client.crt", "client.key"}
    BY <1>3, <1>5, <2>1 DEF Pends
  <2>2. /\ 1 \in DOMAIN L /\ 2 \in DOMAIN L /\ 3 \in DOMAIN L /\ 4 \in DOMAIN L
        /\ "rename" \in Writing
    BY <1>3 DEF Writing
  <2>3. Pends(L, "server.crt") /\ Pends(L, "server.key")
    BY <1>2, <1>3, <2>2 DEF Pends
  <2>4. Pends(L, "client.crt") /\ Pends(L, "client.key")
    BY <1>2, <1>3, <2>2 DEF Pends
  <2> QED
    BY <2>1, <2>3, <2>4
<1>7. Agrees(L, d) <=> /\ d["server.crt"] = CertOf(ca, pair, names)
                       /\ d["server.key"] = KeyOf(pair)
                       /\ d["client.crt"] = CertOf(ca, pair, {})
                       /\ d["client.key"] = KeyOf(pair)
  BY <1>2, <1>3, <1>4 DEF Agrees, Writing
<1>8. NoCheck(L)
  BY <1>3, <1>5 DEF NoCheck
<1> QED
  BY <1>2, <1>3, <1>5, <1>6, <1>7, <1>8 DEF L

\* What each command is about to do, and the bundle it leads to.
LEMMA GenerateDoes ==
  ASSUME NEW n \in Issues, NEW names \in SUBSET Names, NEW f \in Files,
         NEW s, s = <<Renamed("ca.crt", CaOf(n)), Renamed("ca.key", CaOf(n))>>
                      \o Leaves(n, n, names) \o <<Written("meta.json", MetaOf(names))>>
  PROVE  s \in Seq(ToDo) /\ NoCheck(s) /\ Pends(s, f) /\ Agrees(s, Generated(n, names))
<1> DEFINE d == Generated(n, names)
           x == Renamed("ca.crt", CaOf(n))
           y == Renamed("ca.key", CaOf(n))
           z == Written("meta.json", MetaOf(names))
           L == Leaves(n, n, names)
<1>1. /\ x = [how |-> "rename", file |-> "ca.crt", to |-> CaOf(n)] /\ x \in ToDo
      /\ y = [how |-> "rename", file |-> "ca.key", to |-> CaOf(n)] /\ y \in ToDo
      /\ z = [how |-> "write", file |-> "meta.json", to |-> MetaOf(names)] /\ z \in ToDo
  BY WhatIsWritten, StepIs DEF Files
<1>2. <<x, y>> = <<x>> \o <<y>>
  BY <1>1
<1>3. /\ d["ca.crt"] = CaOf(n) /\ d["ca.key"] = CaOf(n) /\ d["meta.json"] = MetaOf(names)
      /\ d["server.crt"] = CertOf(n, n, names) /\ d["client.crt"] = CertOf(n, n, {})
      /\ d["server.key"] = KeyOf(n) /\ d["client.key"] = KeyOf(n)
  BY DEF Generated, Files
<1> HIDE DEF d, x, y, z
<1>4. PICK l \in Seq(ToDo) :
        /\ l = L /\ NoCheck(l) /\ Agrees(l, d)
        /\ Pends(l, f) <=> f \in {"server.crt", "server.key", "client.crt", "client.key"}
  BY <1>3, LeavesAre
<1> HIDE DEF L
<1>5. PICK a \in Seq(ToDo) : /\ a = <<x>> /\ NoCheck(a) /\ Agrees(a, d)
                             /\ Pends(a, f) <=> f = "ca.crt"
  BY <1>1, <1>3, OneStep DEF Writing
<1>6. PICK b \in Seq(ToDo) : /\ b = <<y>> /\ NoCheck(b) /\ Agrees(b, d)
                             /\ Pends(b, f) <=> f = "ca.key"
  BY <1>1, <1>3, OneStep DEF Writing
<1>7. PICK c \in Seq(ToDo) : /\ c = <<z>> /\ NoCheck(c) /\ Agrees(c, d)
                             /\ Pends(c, f) <=> f = "meta.json"
  BY <1>1, <1>3, OneStep DEF Writing
<1>8. PICK ab : ab = a \o b
  OBVIOUS
<1>9. /\ ab \in Seq(ToDo) /\ NoCheck(ab) /\ Agrees(ab, d)
      /\ Pends(ab, f) <=> Pends(a, f) \/ Pends(b, f)
  BY <1>5, <1>6, <1>8, BothParts
<1>10. PICK t : t = ab \o l
  OBVIOUS
<1>11. /\ t \in Seq(ToDo) /\ NoCheck(t) /\ Agrees(t, d)
       /\ Pends(t, f) <=> Pends(ab, f) \/ Pends(l, f)
  BY <1>4, <1>9, <1>10, BothParts
<1>12. s = t \o c
  BY <1>2, <1>4, <1>5, <1>6, <1>7, <1>8, <1>10 DEF x, y, z, L
<1>13. /\ s \in Seq(ToDo) /\ NoCheck(s) /\ Agrees(s, d)
       /\ Pends(s, f) <=> Pends(t, f) \/ Pends(c, f)
  BY <1>7, <1>11, <1>12, BothParts
<1>14. f \in {"ca.crt", "ca.key", "server.crt", "server.key", "client.crt", "client.key",
             "meta.json"}
  BY DEF Files
<1> QED
  BY <1>4, <1>5, <1>6, <1>7, <1>9, <1>11, <1>13, <1>14 DEF d

RotateLeads(d, ca, n, names) ==
  /\ d["server.crt"] = CertOf(ca, n, names) /\ d["server.key"] = KeyOf(n)
  /\ d["client.crt"] = CertOf(ca, n, {}) /\ d["client.key"] = KeyOf(n)
  /\ d["meta.json"] = MetaOf(names)

LEMMA RotateDoes ==
  ASSUME NEW ca \in Issues, NEW n \in Issues, NEW names \in SUBSET Names, NEW f \in Files,
         NEW s, s = Leaves(ca, n, names) \o <<Written("meta.json", MetaOf(names))>>
  PROVE  /\ s \in Seq(ToDo) /\ NoCheck(s)
         /\ Pends(s, f) <=> f \notin {"ca.crt", "ca.key"}
         /\ \A d : Agrees(s, d) <=> RotateLeads(d, ca, n, names)
<1> SUFFICES ASSUME NEW d
             PROVE  /\ s \in Seq(ToDo) /\ NoCheck(s)
                    /\ Pends(s, f) <=> f \notin {"ca.crt", "ca.key"}
                    /\ Agrees(s, d) <=> RotateLeads(d, ca, n, names)
  OBVIOUS
<1> DEFINE z == Written("meta.json", MetaOf(names))
           L == Leaves(ca, n, names)
<1>1. z = [how |-> "write", file |-> "meta.json", to |-> MetaOf(names)] /\ z \in ToDo
  BY WhatIsWritten, StepIs DEF Files
<1>2. PICK l \in Seq(ToDo) :
        /\ l = L /\ NoCheck(l)
        /\ Pends(l, f) <=> f \in {"server.crt", "server.key", "client.crt", "client.key"}
        /\ Agrees(l, d) <=> /\ d["server.crt"] = CertOf(ca, n, names)
                            /\ d["server.key"] = KeyOf(n)
                            /\ d["client.crt"] = CertOf(ca, n, {})
                            /\ d["client.key"] = KeyOf(n)
  BY LeavesAre
<1> HIDE DEF L, z
<1>3. PICK c \in Seq(ToDo) : /\ c = <<z>> /\ NoCheck(c)
                             /\ Agrees(c, d) <=> d["meta.json"] = MetaOf(names)
                             /\ Pends(c, f) <=> f = "meta.json"
  <2>1. /\ z.how = "write" /\ z.file = "meta.json" /\ z.to = MetaOf(names)
        /\ "write" \in Writing
    BY <1>1 DEF Writing
  <2> QED
    BY <1>1, <2>1, OneStep
<1>4. s = l \o c
  BY <1>2, <1>3 DEF L, z
<1>5. /\ s \in Seq(ToDo) /\ NoCheck(s)
      /\ Pends(s, f) <=> Pends(l, f) \/ Pends(c, f)
      /\ Agrees(s, d) <=> Agrees(l, d) /\ Agrees(c, d)
  BY <1>2, <1>3, <1>4, BothParts
<1>6. f \in {"ca.crt", "ca.key", "server.crt", "server.key", "client.crt", "client.key",
            "meta.json"}
  BY DEF Files
<1> QED
  BY <1>2, <1>3, <1>5, <1>6 DEF RotateLeads

LEMMA IfGivenDoes ==
  ASSUME NEW given, NEW file \in Files, NEW to \in Contents, NEW f, NEW d
  PROVE  /\ IfGiven(given, file, to) \in Seq(ToDo) /\ NoCheck(IfGiven(given, file, to))
         /\ Pends(IfGiven(given, file, to), f) <=> file \in given /\ f = file
         /\ Agrees(IfGiven(given, file, to), d) <=> (file \in given => d[file] = to)
<1> DEFINE s == IfGiven(given, file, to)
<1>1. CASE file \notin given
  <2>1. s = <<>>
    BY <1>1 DEF IfGiven
  <2> QED
    BY <1>1, <2>1, NothingPends
<1>2. CASE file \in given
  <2>1. PICK x \in ToDo : /\ x = Written(file, to)
                          /\ x.how = "write" /\ x.file = file /\ x.to = to
    BY StepIs
  <2>2. s = <<x>>
    BY <1>2, <2>1 DEF IfGiven
  <2>3. "write" \in Writing /\ "write" # "check"
    BY DEF Writing
  <2> QED
    BY <1>2, <2>1, <2>2, <2>3, OneStep
<1> QED
  BY <1>1, <1>2

Importing(given, n) ==
  IfGiven(given, "ca.crt", CaOf(External))
    \o IfGiven(given, "server.crt", CertOf(External, n, ServerSans(Hosts)))
    \o IfGiven(given, "server.key", KeyOf(n))
    \o <<Step("check", "server.crt", Absent), Written("meta.json", MetaOf({Imported}))>>

ImportLeads(d, given, n) ==
  /\ "ca.crt" \in given => d["ca.crt"] = CaOf(External)
  /\ "server.crt" \in given => d["server.crt"] = CertOf(External, n, ServerSans(Hosts))
  /\ "server.key" \in given => d["server.key"] = KeyOf(n)
  /\ d["meta.json"] = MetaOf({Imported})

LEMMA ImportDoes ==
  ASSUME NEW given \in Given, NEW n \in Issues, NEW f \in Files, NEW d,
         NEW s, s = Importing(given, n)
  PROVE  /\ s \in Seq(ToDo) /\ ChecksLast(s) /\ s # <<>>
         /\ Pends(s, f) <=> f \in given \cup {"meta.json"}
         /\ Agrees(s, d) <=> ImportLeads(d, given, n)
<1>1. /\ ServerSans(Hosts) \in SUBSET Names /\ {Imported} \in SUBSET Names
      /\ External \in Issues
      /\ "ca.crt" \in Files /\ "server.crt" \in Files /\ "server.key" \in Files
      /\ "meta.json" \in Files
  BY CertsAssumption DEF ServerSans, Names, External, Issues, Files
<1>2. /\ CaOf(External) \in Contents /\ CertOf(External, n, ServerSans(Hosts)) \in Contents
      /\ KeyOf(n) \in Contents /\ MetaOf({Imported}) \in Contents /\ Absent \in Contents
  BY <1>1, WhatIsWritten, NotWritten
<1>3. PICK a : a = IfGiven(given, "ca.crt", CaOf(External))
  OBVIOUS
<1>3a. /\ a \in Seq(ToDo) /\ NoCheck(a)
       /\ Pends(a, f) <=> "ca.crt" \in given /\ f = "ca.crt"
       /\ Agrees(a, d) <=> ("ca.crt" \in given => d["ca.crt"] = CaOf(External))
  <2>1. PICK file \in Files : file = "ca.crt"
    BY <1>1
  <2>2. PICK to \in Contents : to = CaOf(External)
    BY <1>2
  <2>3. /\ IfGiven(given, file, to) \in Seq(ToDo) /\ NoCheck(IfGiven(given, file, to))
        /\ Pends(IfGiven(given, file, to), f) <=> file \in given /\ f = file
    BY IfGivenDoes
  <2>4. Agrees(IfGiven(given, file, to), d) <=> (file \in given => d[file] = to)
    BY IfGivenDoes
  <2>5. a = IfGiven(given, file, to)
    BY <1>3, <2>1, <2>2
  <2> QED
    BY <2>1, <2>2, <2>3, <2>4, <2>5
<1>4. PICK b : b = IfGiven(given, "server.crt", CertOf(External, n, ServerSans(Hosts)))
  OBVIOUS
<1>4a. /\ b \in Seq(ToDo) /\ NoCheck(b)
       /\ Pends(b, f) <=> "server.crt" \in given /\ f = "server.crt"
       /\ Agrees(b, d) <=> ("server.crt" \in given =>
                               d["server.crt"] = CertOf(External, n, ServerSans(Hosts)))
  <2>1. PICK file \in Files : file = "server.crt"
    BY <1>1
  <2>2. PICK to \in Contents : to = CertOf(External, n, ServerSans(Hosts))
    BY <1>2
  <2>3. /\ IfGiven(given, file, to) \in Seq(ToDo) /\ NoCheck(IfGiven(given, file, to))
        /\ Pends(IfGiven(given, file, to), f) <=> file \in given /\ f = file
    BY IfGivenDoes
  <2>4. Agrees(IfGiven(given, file, to), d) <=> (file \in given => d[file] = to)
    BY IfGivenDoes
  <2>5. b = IfGiven(given, file, to)
    BY <1>4, <2>1, <2>2
  <2> QED
    BY <2>1, <2>2, <2>3, <2>4, <2>5
<1>5. PICK c : c = IfGiven(given, "server.key", KeyOf(n))
  OBVIOUS
<1>5a. /\ c \in Seq(ToDo) /\ NoCheck(c)
       /\ Pends(c, f) <=> "server.key" \in given /\ f = "server.key"
       /\ Agrees(c, d) <=> ("server.key" \in given => d["server.key"] = KeyOf(n))
  <2>1. PICK file \in Files : file = "server.key"
    BY <1>1
  <2>2. PICK to \in Contents : to = KeyOf(n)
    BY <1>2
  <2>3. /\ IfGiven(given, file, to) \in Seq(ToDo) /\ NoCheck(IfGiven(given, file, to))
        /\ Pends(IfGiven(given, file, to), f) <=> file \in given /\ f = file
    BY IfGivenDoes
  <2>4. Agrees(IfGiven(given, file, to), d) <=> (file \in given => d[file] = to)
    BY IfGivenDoes
  <2>5. c = IfGiven(given, file, to)
    BY <1>5, <2>1, <2>2
  <2> QED
    BY <2>1, <2>2, <2>3, <2>4, <2>5
<1>6. PICK x \in ToDo : /\ x = Step("check", "server.crt", Absent)
                        /\ x.how = "check" /\ x.how \notin Writing
  BY <1>1, <1>2, StepIs DEF Kinds, Writing
<1>7. PICK y \in ToDo : /\ y = Written("meta.json", MetaOf({Imported}))
                        /\ y.how = "write" /\ y.how \in Writing
                        /\ y.file = "meta.json" /\ y.to = MetaOf({Imported})
  BY <1>1, <1>2, StepIs DEF Kinds, Writing
<1>8. PICK e : e = <<x, y>>
  OBVIOUS
<1>9. e \in Seq(ToDo) /\ e = <<x>> \o <<y>> /\ Len(e) = 2 /\ e[1] = x /\ e[2] = y
  BY <1>8
<1>10. /\ Pends(e, f) <=> f = "meta.json"
       /\ Agrees(e, d) <=> d["meta.json"] = MetaOf({Imported})
  <2>1. /\ <<x>> \in Seq(ToDo) /\ ~Pends(<<x>>, f) /\ Agrees(<<x>>, d)
    BY <1>6, OneStep
  <2>2. /\ <<y>> \in Seq(ToDo)
        /\ Pends(<<y>>, f) <=> f = "meta.json"
        /\ Agrees(<<y>>, d) <=> d["meta.json"] = MetaOf({Imported})
    BY <1>7, OneStep
  <2>3. PICK v : v = <<x>>
    OBVIOUS
  <2>4. PICK w : w = <<y>>
    OBVIOUS
  <2>5. e = v \o w
    BY <1>9, <2>3, <2>4
  <2>6. /\ v \in Seq(ToDo) /\ ~Pends(v, f) /\ Agrees(v, d) /\ w \in Seq(ToDo)
        /\ Pends(w, f) <=> f = "meta.json"
        /\ Agrees(w, d) <=> d["meta.json"] = MetaOf({Imported})
    BY <2>1, <2>2, <2>3, <2>4
  <2> QED
    BY <2>5, <2>6, BothParts
<1>11. PICK ab : ab = a \o b
  OBVIOUS
<1>12. /\ ab \in Seq(ToDo) /\ NoCheck(ab)
       /\ Pends(ab, f) <=> Pends(a, f) \/ Pends(b, f)
       /\ Agrees(ab, d) <=> Agrees(a, d) /\ Agrees(b, d)
  BY <1>3a, <1>4a, <1>11, BothParts
<1>13. PICK t : t = ab \o c
  OBVIOUS
<1>14. /\ t \in Seq(ToDo) /\ NoCheck(t)
       /\ Pends(t, f) <=> Pends(ab, f) \/ Pends(c, f)
       /\ Agrees(t, d) <=> Agrees(ab, d) /\ Agrees(c, d)
  BY <1>5a, <1>12, <1>13, BothParts
<1>15. s = t \o e
  BY <1>3, <1>4, <1>5, <1>6, <1>7, <1>8, <1>11, <1>13 DEF Importing
<1>16. /\ s \in Seq(ToDo)
       /\ Pends(s, f) <=> Pends(t, f) \/ Pends(e, f)
       /\ Agrees(s, d) <=> Agrees(t, d) /\ Agrees(e, d)
  BY <1>9, <1>14, <1>15, BothParts
<1>17. ChecksLast(s) /\ s # <<>>
  <2>1. /\ Len(t) \in Nat /\ DOMAIN t = 1 .. Len(t) /\ DOMAIN s = 1 .. Len(t) + 2
        /\ \A i \in 1 .. Len(t) + 2 : s[i] = IF i <= Len(t) THEN t[i] ELSE e[i - Len(t)]
    BY <1>9, <1>14, <1>15
  <2>2. s # <<>>
    BY <1>16, <2>1
  <2> SUFFICES ASSUME NEW i \in DOMAIN s, NEW j \in DOMAIN s, s[i].how = "check", i < j
               PROVE  s[j].file = "meta.json"
    BY <2>2 DEF ChecksLast
  <2>3. i \in Nat /\ j \in Nat /\ i \in 1 .. Len(t) + 2 /\ j \in 1 .. Len(t) + 2
    BY <2>1
  <2>4. ~(i <= Len(t))
    BY <1>14, <2>1, <2>3 DEF NoCheck
  <2>5. j = Len(t) + 2 /\ ~(j <= Len(t)) /\ j - Len(t) = 2
    BY <2>1, <2>3, <2>4
  <2> QED
    BY <1>7, <1>9, <2>1, <2>3, <2>5
<1>18. f \in given \cup {"meta.json"} <=>
         \/ "ca.crt" \in given /\ f = "ca.crt"
         \/ "server.crt" \in given /\ f = "server.crt"
         \/ "server.key" \in given /\ f = "server.key"
         \/ f = "meta.json"
  <2>1. given \subseteq {"ca.crt", "server.crt", "server.key"}
    BY CertsAssumption
  <2> QED
    BY <2>1
<1>19. Pends(s, f) <=> f \in given \cup {"meta.json"}
  BY <1>3a, <1>4a, <1>5a, <1>10, <1>12, <1>14, <1>16, <1>18
<1>20. Agrees(s, d) <=>
              /\ "ca.crt" \in given => d["ca.crt"] = CaOf(External)
              /\ "server.crt" \in given =>
                   d["server.crt"] = CertOf(External, n, ServerSans(Hosts))
              /\ "server.key" \in given => d["server.key"] = KeyOf(n)
              /\ d["meta.json"] = MetaOf({Imported})
  BY <1>3a, <1>4a, <1>5a, <1>10, <1>12, <1>14, <1>16
<1> QED
  BY <1>16, <1>17, <1>19, <1>20 DEF ImportLeads

Removing ==
  [i \in 1 .. 7 |->
     Step("unlink", <<"ca.crt", "ca.key", "server.crt", "server.key", "client.crt",
                      "client.key", "meta.json">>[i], Absent)]
    \o <<Step("rmdir", "meta.json", Absent)>>

LEMMA RemoveDoes ==
  ASSUME NEW f \in Files, NEW s, s = Removing
  PROVE  s \in Seq(ToDo) /\ s # <<>> /\ NoCheck(s) /\ Pends(s, f) /\ Agrees(s, [g \in Files |-> Absent])
<1> DEFINE names == <<"ca.crt", "ca.key", "server.crt", "server.key", "client.crt",
                      "client.key", "meta.json">>
           u     == [i \in 1 .. 7 |-> Step("unlink", names[i], Absent)]
           x     == Step("rmdir", "meta.json", Absent)
           d     == [g \in Files |-> Absent]
<1>1. /\ \A i \in 1 .. 7 : names[i] \in Files
      /\ \E i \in 1 .. 7 : names[i] = f
  <2>1. /\ names[1] = "ca.crt" /\ names[2] = "ca.key" /\ names[3] = "server.crt"
        /\ names[4] = "server.key" /\ names[5] = "client.crt" /\ names[6] = "client.key"
        /\ names[7] = "meta.json"
    OBVIOUS
  <2>2. \A i : i \in 1 .. 7 <=> i \in {1, 2, 3, 4, 5, 6, 7}
    OBVIOUS
  <2> HIDE DEF names
  <2> QED
    BY <2>1, <2>2 DEF Files
<1> HIDE DEF names
<1>2. Absent \in Contents /\ "meta.json" \in Files /\ {"unlink", "rmdir"} \subseteq Kinds
  BY NotWritten DEF Files, Kinds
<1>3. \A i \in 1 .. 7 : /\ u[i] \in ToDo /\ u[i].how = "unlink" /\ u[i].to = Absent
                        /\ u[i].file = names[i]
  BY <1>1, <1>2, StepIs
<1>4. /\ u \in Seq(ToDo) /\ Len(u) = 7 /\ DOMAIN u = 1 .. 7
  BY <1>3
<1>5. PICK y \in ToDo : y = x /\ y.how = "rmdir" /\ y.file = "meta.json"
  BY <1>2, StepIs
<1> HIDE DEF u, x
<1>6. PICK v : v = <<y>>
  OBVIOUS
<1>7. "unlink" \in Writing /\ "rmdir" \notin Writing
  BY DEF Writing
<1>8. v \in Seq(ToDo) /\ NoCheck(v) /\ Agrees(v, d)
  BY <1>5, <1>6, <1>7, OneStep
<1>9. NoCheck(u)
  BY <1>3, <1>4 DEF NoCheck
<1>10. Pends(u, f)
  BY <1>1, <1>3, <1>4, <1>7 DEF Pends
<1>11. Agrees(u, d)
  BY <1>1, <1>3, <1>4 DEF Agrees
<1>12. s = u \o v
  BY <1>5, <1>6 DEF u, x, names, Removing
<1>13. s \in Seq(ToDo) /\ NoCheck(s) /\ Pends(s, f) /\ Agrees(s, d)
  BY <1>4, <1>8, <1>9, <1>10, <1>11, <1>12, BothParts
<1>14. s # <<>>
  BY <1>4, <1>8, <1>12
<1> QED
  BY <1>13, <1>14

-----------------------------------------------------------------------------
(* Types *)

Typed == CertsTypeOK /\ steps \in Seq(ToDo)

\* The bounded counters stay in range.
LEMMA Bounds ==
  /\ Issues = 0 .. MaxIssues /\ 0 \in Issues /\ 1 \in Issues /\ MaxIssues \in Nat
  /\ MaxRemoves \in Nat /\ MaxDeaths \in Nat
  /\ \A i \in Issues : i < MaxIssues => i + 1 \in Issues /\ i + 1 # 0
BY CertsAssumption DEF Issues

LEMMA NamesAre ==
  ASSUME NEW extra \in SUBSET Names
  PROVE  /\ ServerSans(extra) \in SUBSET Names /\ extra \subseteq ServerSans(extra)
         /\ SUBSET Hosts \subseteq SUBSET Names /\ {} \in SUBSET Names
         /\ {Imported} \in SUBSET Names
BY DEF ServerSans, Names

LEMMA EmptyIs ==
  /\ Empty \in Bundle /\ Nobody \in Fleets /\ ~Nobody.joined
  /\ Empty.ca = Absent /\ Empty.cert = Absent /\ Empty.key = Absent
BY NotWritten, Bounds DEF Empty, Bundle, Nobody, Fleets, NoIssue

LEMMA GeneratedIs ==
  ASSUME NEW n \in Issues, NEW names \in SUBSET Names
  PROVE  Generated(n, names) \in [Files -> Contents]
<1>1. /\ CaOf(n) \in Contents /\ KeyOf(n) \in Contents /\ MetaOf(names) \in Contents
      /\ CertOf(n, n, names) \in Contents
  BY WhatIsWritten
<1>2. CertOf(n, n, {}) \in Contents
  BY WhatIsWritten
<1> QED
  BY <1>1, <1>2 DEF Generated

\* A file is put: the three variables it touches.
LEMMA PutDoes ==
  ASSUME CertsTypeOK, NEW f \in Files, NEW c \in Contents, Put(f, c)
  PROVE  /\ disk' \in [Files -> Contents] /\ disk'[f] = c
         /\ \A g \in Files : g # f => disk'[g] = disk[g]
         /\ told' \in BOOLEAN /\ unseen' \in BOOLEAN
<1>1. disk \in [Files -> Contents]
  BY DEF CertsTypeOK
<1>2. disk' = [disk EXCEPT ![f] = c]
  BY DEF Put
<1>3. told' \in BOOLEAN
  BY DEF Put, CertsTypeOK
<1>4. unseen' \in BOOLEAN
  BY DEF Put, CertsTypeOK
<1> QED
  BY <1>1, <1>2, <1>3, <1>4

\* The next step of a command.
LEMMA HeadIs ==
  ASSUME Typed, NEW how, Now(how)
  PROVE  /\ steps # <<>> /\ doing # "none" /\ Head(steps).how = how /\ Head(steps) \in ToDo
         /\ Head(steps).file \in Files /\ Head(steps).to \in Contents
         /\ how = "unlink" => Head(steps).to = Absent
BY TailOf DEF Typed, CertsTypeOK, Now, ToDo

Doings == {"none", "generate", "rotate", "rename", "import", "remove"}

LEMMA AdvanceDoes ==
  ASSUME Typed, steps # <<>>, Advance
  PROVE  /\ steps' = Tail(steps) /\ steps' \in Seq(ToDo) /\ doing' \in Doings
         /\ doing' = "none" <=> steps' = <<>>
<1>1. /\ Tail(steps) \in Seq(ToDo) /\ Len(steps) \in Nat
      /\ Tail(steps) = <<>> <=> Len(steps) = 1
  BY TailOf DEF Typed
<1>2. doing \in Doings /\ doing # "none"
  BY DEF Typed, CertsTypeOK, Doings
<1> QED
  BY <1>1, <1>2 DEF Advance, Doings

LEMMA TypedInit == CertsInit => Typed
<1> SUFFICES ASSUME CertsInit
             PROVE  Typed
  OBVIOUS
<1>1. disk \in [Files -> Contents] /\ issues \in Issues
  <2>1. CASE disk = [f \in Files |-> Absent] /\ issues = 0
    BY <2>1, NotWritten, Bounds
  <2>2. CASE disk = Generated(1, ServerSans({})) /\ issues = 1
    <3>1. ServerSans({}) \in SUBSET Names
      BY NamesAre
    <3> QED
      BY <2>2, <3>1, GeneratedIs, Bounds
  <2> QED
    BY <2>1, <2>2 DEF CertsInit
<1>2. /\ removes \in 0 .. MaxRemoves /\ deaths \in 0 .. MaxDeaths /\ served \in Bundle
      /\ buffer \in Bundle /\ fleet \in Fleets
  BY Bounds, EmptyIs DEF CertsInit
<1>3. steps = <<>> /\ doing = "none" /\ <<>> \in Seq(ToDo)
  BY NothingPends DEF CertsInit
<1> QED
  BY <1>1, <1>2, <1>3 DEF CertsInit, Typed, CertsTypeOK

LEMMA TypedGenerate == Typed /\ Generate => Typed'
<1> SUFFICES ASSUME Typed, Generate
             PROVE  Typed'
  OBVIOUS
<1>1. PICK extra \in SUBSET Hosts :
        steps' = <<Renamed("ca.crt", CaOf(issues + 1)), Renamed("ca.key", CaOf(issues + 1))>>
                   \o Leaves(issues + 1, issues + 1, ServerSans(extra))
                   \o <<Written("meta.json", MetaOf(ServerSans(extra)))>>
  BY DEF Generate
<1>2. issues + 1 \in Issues /\ ServerSans(extra) \in SUBSET Names
  BY Bounds, NamesAre DEF Generate, Typed, CertsTypeOK
<1>3. "ca.crt" \in Files
  BY DEF Files
<1>4. steps' \in Seq(ToDo) /\ Pends(steps', "ca.crt")
  BY <1>1, <1>2, <1>3, GenerateDoes
<1>5. steps' # <<>>
  BY <1>4, NothingPends
<1>6. doing' = "generate" /\ issues' \in Issues /\ fleet' \in Fleets
  BY <1>2, EmptyIs DEF Generate
<1> QED
  BY <1>4, <1>5, <1>6 DEF Typed, CertsTypeOK, Generate, governor

\* What a rotation sets out to do.
LEMMA RotateIs ==
  ASSUME Typed, Rotate
  PROVE  \E extra \in SUBSET Hosts, san \in SUBSET Names :
           /\ issues + 1 \in Issues /\ Issuer \in Issues
           /\ san = ServerSans(IF extra = {} THEN Carried ELSE extra)
           /\ steps' = Leaves(Issuer, issues + 1, san) \o <<Written("meta.json", MetaOf(san))>>
           /\ doing' = IF extra = {} THEN "rotate" ELSE "rename"
           /\ fleet' = IF Issuer # disk["ca.crt"].ca THEN Nobody
                       ELSE IF extra # {} THEN [fleet EXCEPT !.dial = {}] ELSE fleet
<1>1. PICK extra \in SUBSET Hosts :
        LET san == ServerSans(IF extra = {} THEN Carried ELSE extra)
        IN  /\ steps' = Leaves(Issuer, issues + 1, san) \o <<Written("meta.json", MetaOf(san))>>
            /\ doing' = IF extra = {} THEN "rotate" ELSE "rename"
            /\ fleet' = IF Issuer # disk["ca.crt"].ca THEN Nobody
                        ELSE IF extra # {} THEN [fleet EXCEPT !.dial = {}] ELSE fleet
  BY DEF Rotate
<1>2. \A f \in Files : disk[f] \in Contents
  BY DEF Typed, CertsTypeOK
<1>3. "ca.key" \in Files /\ "meta.json" \in Files
  BY DEF Files
<1>4. Issuer \in Issues /\ disk["meta.json"].names \in SUBSET Names
  BY <1>2, <1>3 DEF Issuer, Contents
<1>5. Carried \in SUBSET Names
  BY <1>4 DEF Carried
<1>6. (IF extra = {} THEN Carried ELSE extra) \in SUBSET Names
  BY <1>5, NamesAre
<1>7. ServerSans(IF extra = {} THEN Carried ELSE extra) \in SUBSET Names
  BY <1>6, NamesAre
<1>8. issues + 1 \in Issues
  BY Bounds DEF Rotate, Typed, CertsTypeOK
<1> QED
  BY <1>1, <1>4, <1>7, <1>8

LEMMA TypedRotate == Typed /\ Rotate => Typed'
<1> SUFFICES ASSUME Typed, Rotate
             PROVE  Typed'
  OBVIOUS
<1>1. PICK extra \in SUBSET Hosts, san \in SUBSET Names :
           /\ issues + 1 \in Issues /\ Issuer \in Issues
           /\ steps' = Leaves(Issuer, issues + 1, san) \o <<Written("meta.json", MetaOf(san))>>
           /\ doing' = IF extra = {} THEN "rotate" ELSE "rename"
           /\ fleet' = IF Issuer # disk["ca.crt"].ca THEN Nobody
                       ELSE IF extra # {} THEN [fleet EXCEPT !.dial = {}] ELSE fleet
  BY RotateIs
<1>2. PICK f \in Files : f \notin {"ca.crt", "ca.key"}
  BY DEF Files
<1>3. steps' \in Seq(ToDo) /\ Pends(steps', f)
  <2>1. PICK s : s = Leaves(Issuer, issues + 1, san) \o <<Written("meta.json", MetaOf(san))>>
    OBVIOUS
  <2>2. PICK ca, n \in Issues : ca = Issuer /\ n = issues + 1
    BY <1>1
  <2>3. s = Leaves(ca, n, san) \o <<Written("meta.json", MetaOf(san))>>
    BY <2>1, <2>2
  <2>4. s \in Seq(ToDo) /\ (Pends(s, f) <=> f \notin {"ca.crt", "ca.key"})
    BY <2>3, RotateDoes
  <2> QED
    BY <1>1, <1>2, <2>1, <2>4
<1>4. steps' # <<>>
  BY <1>3, NothingPends
<1>5. doing' \in {"rotate", "rename"} /\ issues' \in Issues
  BY <1>1 DEF Rotate
<1>6. fleet' \in Fleets
  <2>1. fleet \in Fleets /\ [fleet EXCEPT !.dial = {}] \in Fleets
    BY DEF Typed, CertsTypeOK, Fleets
  <2> QED
    BY <1>1, <2>1, EmptyIs
<1> QED
  BY <1>3, <1>4, <1>5, <1>6 DEF Typed, CertsTypeOK, Rotate, governor

LEMMA TypedImport == Typed /\ Import => Typed'
<1> SUFFICES ASSUME Typed, Import
             PROVE  Typed'
  OBVIOUS
<1>1. PICK given \in Given : steps' = Importing(given, issues + 1)
  BY DEF Import, Importing
<1>2. issues + 1 \in Issues
  BY Bounds DEF Import, Typed, CertsTypeOK
<1>3. "meta.json" \in Files
  BY DEF Files
<1>4. steps' \in Seq(ToDo) /\ steps' # <<>>
  BY <1>1, <1>2, <1>3, ImportDoes
<1>5. doing' = "import" /\ issues' \in Issues /\ fleet' \in Fleets
  BY <1>2, EmptyIs DEF Import
<1> QED
  BY <1>4, <1>5 DEF Typed, CertsTypeOK, Import, governor

LEMMA TypedRemove == Typed /\ Remove => Typed'
<1> SUFFICES ASSUME Typed, Remove
             PROVE  Typed'
  OBVIOUS
<1>1. steps' = Removing
  BY DEF Remove, Removing
<1>2. "meta.json" \in Files
  BY DEF Files
<1>3. steps' \in Seq(ToDo) /\ steps' # <<>>
  BY <1>1, <1>2, RemoveDoes
<1>4. doing' = "remove" /\ fleet' \in Fleets
  BY EmptyIs DEF Remove
<1>5. removes' \in 0 .. MaxRemoves
  <2>1. removes \in 0 .. MaxRemoves /\ removes < MaxRemoves /\ removes' = removes + 1
    BY DEF Remove, Typed, CertsTypeOK
  <2> QED
    BY <2>1, Bounds
<1> QED
  BY <1>3, <1>4, <1>5 DEF Typed, CertsTypeOK, Remove, governor

LEMMA TypedCut == Typed /\ Cut => Typed'
<1> SUFFICES ASSUME Typed, Cut
             PROVE  Typed'
  OBVIOUS
<1>1. Head(steps).file \in Files /\ Torn \in Contents
  BY HeadIs, NotWritten DEF Cut
<1>2. disk' \in [Files -> Contents] /\ told' \in BOOLEAN /\ unseen' \in BOOLEAN
  BY <1>1, PutDoes DEF Cut, Typed
<1> QED
  BY <1>2 DEF Cut, Typed, CertsTypeOK, command

\* A step that gives a file its content, and the command goes on.
LEMMA TypedPut ==
  ASSUME Typed, Fill \/ Rename \/ Unlink
  PROVE  /\ Typed'
         /\ Advance /\ steps # <<>> /\ Head(steps).file \in Files
         /\ disk'[Head(steps).file] = Head(steps).to
         /\ \A g \in Files : g # Head(steps).file => disk'[g] = disk[g]
         /\ Head(steps).how \in Writing
         /\ UNCHANGED <<issues, removes, deaths, gov, served, reading, buffer, watching, fleet>>
<1>1. /\ steps # <<>> /\ Head(steps).file \in Files /\ Head(steps).to \in Contents
      /\ Head(steps).how = "unlink" => Head(steps).to = Absent
  BY HeadIs DEF Fill, Rename, Unlink
<1>2. /\ Put(Head(steps).file, Head(steps).to) /\ Advance /\ Head(steps).how \in Writing
      /\ UNCHANGED <<issues, removes, deaths, gov, served, reading, buffer, watching, fleet>>
  <2>1. CASE Fill
    BY <2>1 DEF Fill, Now, Writing
  <2>2. CASE Rename
    BY <2>2 DEF Rename, Now, Writing
  <2>3. CASE Unlink
    BY <1>1, <2>3 DEF Unlink, Now, Writing
  <2> QED
    BY <2>1, <2>2, <2>3
<1>3. CertsTypeOK
  BY DEF Typed
<1>4. /\ disk' \in [Files -> Contents] /\ told' \in BOOLEAN /\ unseen' \in BOOLEAN
      /\ disk'[Head(steps).file] = Head(steps).to
      /\ \A g \in Files : g # Head(steps).file => disk'[g] = disk[g]
  BY <1>1, <1>2, <1>3, PutDoes
<1>5. /\ steps' \in Seq(ToDo) /\ doing' \in Doings
      /\ doing' = "none" <=> steps' = <<>>
  BY <1>1, <1>2, AdvanceDoes
<1>6. Typed'
  BY <1>2, <1>3, <1>4, <1>5 DEF Typed, CertsTypeOK, Doings
<1> QED
  BY <1>1, <1>2, <1>4, <1>6

LEMMA TypedRemoveDir == Typed /\ RemoveDir => Typed'
<1> SUFFICES ASSUME Typed, RemoveDir
             PROVE  Typed'
  OBVIOUS
<1>1. /\ steps' \in Seq(ToDo) /\ doing' \in Doings
      /\ doing' = "none" <=> steps' = <<>>
  BY AdvanceDoes DEF RemoveDir, Now
<1>2. watching' \in BOOLEAN
  BY DEF RemoveDir, Typed, CertsTypeOK
<1> QED
  BY <1>1, <1>2 DEF RemoveDir, Typed, CertsTypeOK, Doings

LEMMA TypedQuit ==
  ASSUME Quit
  PROVE  steps' \in Seq(ToDo) /\ doing' \in Doings /\ (doing' = "none" <=> steps' = <<>>)
BY NothingPends DEF Quit, Doings

LEMMA TypedCheck == Typed /\ Check => Typed'
<1> SUFFICES ASSUME Typed, Check
             PROVE  Typed'
  OBVIOUS
<1>1. /\ steps' \in Seq(ToDo) /\ doing' \in Doings
      /\ doing' = "none" <=> steps' = <<>>
  BY AdvanceDoes, TypedQuit DEF Check, Now
<1> QED
  BY <1>1 DEF Check, Typed, CertsTypeOK, Doings, governor

LEMMA TypedDie == Typed /\ Die => Typed'
<1> SUFFICES ASSUME Typed, Die
             PROVE  Typed'
  OBVIOUS
<1>1. /\ steps' \in Seq(ToDo) /\ doing' \in Doings
      /\ doing' = "none" <=> steps' = <<>>
  BY TypedQuit DEF Die
<1>2. deaths' \in 0 .. MaxDeaths
  <2>1. deaths \in 0 .. MaxDeaths /\ deaths < MaxDeaths /\ deaths' = deaths + 1
    BY DEF Die, Typed, CertsTypeOK
  <2> QED
    BY <2>1, Bounds
<1>3. fleet' \in Fleets
  BY DEF Die, Typed, CertsTypeOK, Fleets
<1> QED
  BY <1>1, <1>2, <1>3 DEF Die, Typed, CertsTypeOK, Doings, governor

\* A file of the bundle that is read.
LEMMA ReadIs ==
  ASSUME CertsTypeOK, NEW f \in Files
  PROVE  disk[f] \in Contents
BY DEF CertsTypeOK

LEMMA NoticedIs == ASSUME CertsTypeOK, Noticed PROVE told' \in BOOLEAN
<1>1. told \in BOOLEAN /\ (told \/ watching) \in BOOLEAN
  BY DEF CertsTypeOK
<1> QED
  BY <1>1 DEF Noticed

\* The thread that reads the three files.
LEMMA TypedRead == Typed /\ (ReadCa \/ ReadCert \/ ReadKey) => Typed'
<1> SUFFICES ASSUME Typed, ReadCa \/ ReadCert \/ ReadKey
             PROVE  Typed'
  OBVIOUS
<1>1. CertsTypeOK /\ {"ca.crt", "server.crt", "server.key"} \subseteq Files
  BY DEF Typed, Files
<1>2. /\ disk["ca.crt"] \in Contents /\ disk["server.crt"] \in Contents
      /\ disk["server.key"] \in Contents /\ buffer \in Bundle /\ served \in Bundle
  BY <1>1, ReadIs DEF CertsTypeOK
<1>3. told' \in BOOLEAN
  BY <1>1, NoticedIs DEF ReadCa, ReadCert, ReadKey
<1>4. /\ [buffer EXCEPT !.ca = disk["ca.crt"]] \in Bundle
      /\ [buffer EXCEPT !.cert = disk["server.crt"]] \in Bundle
      /\ [buffer EXCEPT !.key = disk["server.key"]] \in Bundle
  BY <1>2 DEF Bundle
<1>5. CASE ReadCa
  BY <1>3, <1>4, <1>5 DEF ReadCa, Typed, CertsTypeOK, command
<1>6. CASE ReadCert
  BY <1>3, <1>4, <1>6 DEF ReadCert, Typed, CertsTypeOK, command
<1>7. CASE ReadKey
  <2>1. served' \in Bundle /\ buffer' \in Bundle
    BY <1>2, <1>4, <1>7, EmptyIs DEF ReadKey
  <2>2. gov' \in {"down", "starting", "loaded", "up"}
    BY <1>1, <1>7 DEF ReadKey, CertsTypeOK
  <2> QED
    BY <1>3, <1>7, <2>1, <2>2 DEF ReadKey, Typed, CertsTypeOK, command
<1> QED
  BY <1>5, <1>6, <1>7

LEMMA TypedGovernor == Typed /\ (Start \/ Watch \/ Wake \/ Stop) => Typed'
<1> SUFFICES ASSUME Typed, Start \/ Watch \/ Wake \/ Stop
             PROVE  Typed'
  OBVIOUS
<1>1. CASE Start
  BY <1>1 DEF Start, Typed, CertsTypeOK, command
<1>2. CASE Watch
  <2>1. watching' \in BOOLEAN
    BY <1>2 DEF Watch
  <2> QED
    BY <1>2, <2>1 DEF Watch, Typed, CertsTypeOK, command
<1>3. CASE Wake
  BY <1>3 DEF Wake, Typed, CertsTypeOK, command
<1>4. CASE Stop
  BY <1>4, EmptyIs DEF Stop, Typed, CertsTypeOK, command
<1> QED
  BY <1>1, <1>2, <1>3, <1>4

\* The agents that join.
LEMMA JoinIs ==
  ASSUME Typed, Join
  PROVE  \E names \in SUBSET Names, held \in Fleets :
           /\ held = [joined |-> TRUE, ca |-> disk["ca.crt"].ca, dial |-> names]
           /\ names = {} \/ (Whole("meta.json") /\ disk["meta.json"].names = names)
           /\ OnDisk = served /\ Connects(held) /\ fleet' = held
<1>1. CertsTypeOK /\ {"ca.crt", "server.crt"} \subseteq Files
  BY DEF Typed, Files
<1>2. disk["ca.crt"] \in Contents /\ disk["server.crt"] \in Contents
  BY <1>1, ReadIs
<1>3. PICK names : /\ names = IF /\ Whole("meta.json")
                                 /\ disk["meta.json"].names = disk["server.crt"].names
                              THEN disk["server.crt"].names
                              ELSE {}
  OBVIOUS
<1>4. names \in SUBSET Names
  BY <1>2, <1>3 DEF Contents
<1>5. names = {} \/ (Whole("meta.json") /\ disk["meta.json"].names = names)
  BY <1>3
<1>6. [joined |-> TRUE, ca |-> disk["ca.crt"].ca, dial |-> names] \in Fleets
  BY <1>2, <1>4 DEF Contents, Fleets
<1>7. LET held == [joined |-> TRUE, ca |-> disk["ca.crt"].ca, dial |-> names]
      IN  OnDisk = served /\ Connects(held) /\ fleet' = held
  BY <1>3 DEF Join
<1> QED
  BY <1>4, <1>5, <1>6, <1>7

LEMMA TypedJoin == Typed /\ Join => Typed'
<1> SUFFICES ASSUME Typed, Join
             PROVE  Typed'
  OBVIOUS
<1>1. fleet' \in Fleets
  BY JoinIs
<1> QED
  BY <1>1 DEF Join, Typed, CertsTypeOK, command, governor

LEMMA TypedStep == Typed /\ [CertsNext]_vars => Typed'
<1> SUFFICES ASSUME Typed, [CertsNext]_vars
             PROVE  Typed'
  OBVIOUS
<1>1. CASE Command
  BY <1>1, TypedCut, TypedPut, TypedRemoveDir, TypedCheck DEF Command
<1>2. CASE Reload
  BY <1>2, TypedRead, TypedGovernor DEF Reload
<1>3. CASE UNCHANGED vars
  BY <1>3 DEF vars, command, governor, Typed, CertsTypeOK
<1> QED
  BY <1>1, <1>2, <1>3, TypedGenerate, TypedRotate, TypedImport, TypedRemove, TypedDie,
     TypedGovernor, TypedJoin DEF CertsNext

-----------------------------------------------------------------------------
(* The agents stay connected *)

\* Agents a accept certificate c.
Fits(a, c) == c.ca = a.ca /\ a.dial \subseteq c.names

\* meta.json, as m has it, lists the names a dial: the next rotation carries
\* them on.
Lists(a, m) == a.dial = {} \/ (m.is = "whole" /\ a.dial \subseteq m.names)

\* What is still to be done leaves agents a their CA and their names.
Keeps(s, a) ==
  /\ \A i \in DOMAIN s :
       /\ s[i].how \in {"rename", "write"} /\ s[i].file # "ca.crt"
       /\ s[i].file = "server.crt" => s[i].how = "rename" /\ Fits(a, s[i].to)
  /\ s # <<>> => s[Len(s)].file = "meta.json" /\ Lists(a, s[Len(s)].to)

\* The bundle and the command that works on it suit agents a.
BundleSuits(a) ==
  /\ disk["ca.crt"].ca = a.ca /\ Fits(a, disk["server.crt"])
  /\ steps = <<>> => Lists(a, disk["meta.json"])
  /\ Keeps(steps, a)

\* What the governor serves, and what it has read so far, suits agents a.
GovernorSuits(a) ==
  /\ reading \in {"cert", "key"} => buffer.ca.ca = a.ca
  /\ reading = "key" => Fits(a, buffer.cert)
  /\ gov \in {"loaded", "up"} => Connects(a)

FleetHeld == fleet.joined => BundleSuits(fleet) /\ GovernorSuits(fleet)

\* Agents that dial nothing ask for less.
LEMMA Weaker ==
  ASSUME NEW a, NEW b, b.ca = a.ca, b.dial = {}
  PROVE  /\ \A c : Fits(a, c) => Fits(b, c)
         /\ \A m : Lists(b, m)
         /\ \A s : Keeps(s, a) => Keeps(s, b)
         /\ BundleSuits(a) => BundleSuits(b)
         /\ GovernorSuits(a) => GovernorSuits(b)
<1>1. \A c : Fits(a, c) => Fits(b, c)
  BY DEF Fits
<1>2. \A m : Lists(b, m)
  BY DEF Lists
<1>3. \A s : Keeps(s, a) => Keeps(s, b)
  BY <1>1, <1>2 DEF Keeps
<1>4. BundleSuits(a) => BundleSuits(b)
  BY <1>1, <1>2, <1>3 DEF BundleSuits
<1>5. Connects(a) => Connects(b)
  BY DEF Connects
<1>6. GovernorSuits(a) => GovernorSuits(b)
  BY <1>1, <1>5 DEF GovernorSuits
<1> QED
  BY <1>1, <1>2, <1>3, <1>4, <1>6

LEMMA KeepsNothing == \A a : Keeps(<<>>, a)
<1>1. DOMAIN <<>> = {}
  OBVIOUS
<1> QED
  BY <1>1 DEF Keeps

\* The next step and the ones behind it.
LEMMA KeepsTail ==
  ASSUME NEW s \in Seq(ToDo), s # <<>>, NEW a, Keeps(s, a)
  PROVE  /\ Keeps(Tail(s), a)
         /\ Head(s).how \in {"rename", "write"} /\ Head(s).file # "ca.crt"
         /\ Head(s).file = "server.crt" => Head(s).how = "rename" /\ Fits(a, Head(s).to)
         /\ Tail(s) = <<>> => Head(s).file = "meta.json" /\ Lists(a, Head(s).to)
<1>1. /\ DOMAIN s = 1 .. Len(s) /\ Len(s) \in Nat \ {0} /\ Head(s) = s[1]
      /\ Len(Tail(s)) = Len(s) - 1 /\ DOMAIN Tail(s) = 1 .. Len(s) - 1
      /\ \A i \in DOMAIN Tail(s) : i + 1 \in DOMAIN s /\ Tail(s)[i] = s[i + 1]
      /\ Tail(s) = <<>> <=> Len(s) = 1
  BY TailOf
<1>2. 1 \in DOMAIN s
  BY <1>1
<1>3. /\ Head(s).how \in {"rename", "write"} /\ Head(s).file # "ca.crt"
      /\ Head(s).file = "server.crt" => Head(s).how = "rename" /\ Fits(a, Head(s).to)
      /\ Tail(s) = <<>> => Head(s).file = "meta.json" /\ Lists(a, Head(s).to)
  BY <1>1, <1>2 DEF Keeps
<1>4. ASSUME NEW i \in DOMAIN Tail(s)
      PROVE  /\ Tail(s)[i].how \in {"rename", "write"} /\ Tail(s)[i].file # "ca.crt"
             /\ Tail(s)[i].file = "server.crt" => /\ Tail(s)[i].how = "rename"
                                                  /\ Fits(a, Tail(s)[i].to)
  BY <1>1 DEF Keeps
<1>5. ASSUME Tail(s) # <<>>
      PROVE  LET t == Tail(s) IN t[Len(t)].file = "meta.json" /\ Lists(a, t[Len(t)].to)
  <2>1. Len(s) - 1 \in DOMAIN Tail(s) /\ (Len(s) - 1) + 1 = Len(s)
    BY <1>1, <1>5
  <2>2. Tail(s)[Len(Tail(s))] = s[Len(s)]
    BY <1>1, <2>1
  <2> QED
    BY <2>2 DEF Keeps
<1>6. Keeps(Tail(s), a)
  BY <1>4, <1>5 DEF Keeps
<1> QED
  BY <1>3, <1>6

LEMMA Joined ==
  ASSUME NEW p \in Seq(ToDo), NEW q \in Seq(ToDo), NEW u, u = p \o q
  PROVE  /\ Len(u) = Len(p) + Len(q) /\ DOMAIN u = 1 .. Len(p) + Len(q)
         /\ \A i \in 1 .. Len(p) + Len(q) : u[i] = IF i <= Len(p) THEN p[i] ELSE q[i - Len(p)]
OBVIOUS

\* A rotation under the CA of agents a, with their names.
LEMMA RotateKeeps ==
  ASSUME NEW ca \in Issues, NEW n \in Issues, NEW names \in SUBSET Names,
         NEW a, a.ca = ca, a.dial \subseteq names,
         NEW s, s = Leaves(ca, n, names) \o <<Written("meta.json", MetaOf(names))>>
  PROVE  Keeps(s, a)
<1>1. /\ MetaOf(names) = [is |-> "whole", ca |-> NoIssue, pair |-> NoIssue, names |-> names]
      /\ CertOf(ca, n, names) = [is |-> "whole", ca |-> ca, pair |-> n, names |-> names]
      /\ MetaOf(names) \in Contents
  BY WhatIsWritten
<1>2. PICK l : l = Leaves(ca, n, names)
  OBVIOUS
<1>3. /\ l \in Seq(ToDo) /\ Len(l) = 4 /\ DOMAIN l = 1 .. 4
      /\ \A i \in 1 .. 4 : /\ l[i].how = "rename"
                           /\ l[i].file \in {"server.crt", "server.key", "client.crt", "client.key"}
                           /\ l[i].file = "server.crt" => l[i].to = CertOf(ca, n, names)
  BY <1>2, LeavesAre
<1>4. PICK y \in ToDo : /\ y = Written("meta.json", MetaOf(names))
                        /\ y.how = "write" /\ y.file = "meta.json" /\ y.to = MetaOf(names)
  BY <1>1, StepIs DEF Files
<1>5. PICK e : e = <<y>>
  OBVIOUS
<1>6. e \in Seq(ToDo) /\ Len(e) = 1 /\ e[1] = y /\ s = l \o e
  BY <1>2, <1>4, <1>5
<1>7. /\ Len(s) = 5 /\ DOMAIN s = 1 .. 5 /\ s[5] = y
      /\ \A i \in 1 .. 4 : s[i] = l[i]
  <2>1. l \in Seq(ToDo) /\ e \in Seq(ToDo) /\ s = l \o e
    BY <1>3, <1>6
  <2>2. /\ Len(s) = Len(l) + Len(e) /\ DOMAIN s = 1 .. Len(l) + Len(e)
        /\ \A i \in 1 .. Len(l) + Len(e) : s[i] = IF i <= Len(l) THEN l[i] ELSE e[i - Len(l)]
    BY <2>1, Joined
  <2>3. Len(s) = 5 /\ DOMAIN s = 1 .. 5
    BY <1>3, <1>6, <2>2
  <2>4. \A i \in 1 .. 5 : s[i] = IF i <= 4 THEN l[i] ELSE e[i - 4]
    BY <1>3, <1>6, <2>2
  <2> QED
    BY <1>6, <2>3, <2>4
<1>8. Fits(a, CertOf(ca, n, names)) /\ Lists(a, MetaOf(names))
  BY <1>1 DEF Fits, Lists
<1>9. \A i \in 1 .. 5 : i = 5 \/ i \in 1 .. 4
  OBVIOUS
<1>10. ASSUME NEW i \in 1 .. 5
       PROVE  /\ s[i].how \in {"rename", "write"} /\ s[i].file # "ca.crt"
              /\ s[i].file = "server.crt" => s[i].how = "rename" /\ Fits(a, s[i].to)
  <2>1. CASE i = 5
    BY <1>4, <1>7, <2>1
  <2>2. CASE i \in 1 .. 4
    BY <1>3, <1>7, <1>8, <2>2
  <2> QED
    BY <1>9, <2>1, <2>2
<1> QED
  BY <1>4, <1>7, <1>8, <1>10 DEF Keeps

LEMMA HeldInit == CertsInit => FleetHeld
BY EmptyIs DEF CertsInit, FleetHeld

\* Nothing that the agents depend on moves.
LEMMA HeldStays ==
  ASSUME FleetHeld, UNCHANGED <<disk, steps, gov, served, reading, buffer, fleet>>
  PROVE  FleetHeld'
BY DEF FleetHeld, BundleSuits, GovernorSuits, Connects

LEMMA HeldRotate == Typed /\ FleetHeld /\ Rotate => FleetHeld'
<1> SUFFICES ASSUME Typed, FleetHeld, Rotate, fleet'.joined
             PROVE  (BundleSuits(fleet) /\ GovernorSuits(fleet))'
  BY DEF FleetHeld
<1>1. PICK extra \in SUBSET Hosts, san \in SUBSET Names :
           /\ issues + 1 \in Issues /\ Issuer \in Issues
           /\ san = ServerSans(IF extra = {} THEN Carried ELSE extra)
           /\ steps' = Leaves(Issuer, issues + 1, san) \o <<Written("meta.json", MetaOf(san))>>
           /\ fleet' = IF Issuer # disk["ca.crt"].ca THEN Nobody
                       ELSE IF extra # {} THEN [fleet EXCEPT !.dial = {}] ELSE fleet
  BY RotateIs
<1>2. Issuer = disk["ca.crt"].ca
  <2>1. Issuer # disk["ca.crt"].ca => fleet' = Nobody
    BY <1>1
  <2> QED
    BY <2>1, EmptyIs
<1>3. fleet \in Fleets /\ steps = <<>>
  BY DEF Typed, CertsTypeOK, Rotate
<1>4. /\ fleet' = IF extra # {} THEN [fleet EXCEPT !.dial = {}] ELSE fleet
      /\ fleet.joined /\ fleet'.ca = fleet.ca
      /\ extra # {} => fleet'.dial = {}
  BY <1>1, <1>2, <1>3 DEF Fleets
<1>5. BundleSuits(fleet) /\ GovernorSuits(fleet)
  BY <1>4 DEF FleetHeld
<1>6. BundleSuits(fleet') /\ GovernorSuits(fleet')
  <2>1. CASE extra = {}
    BY <1>4, <1>5, <2>1
  <2>2. CASE extra # {}
    BY <1>4, <1>5, <2>2, Weaker
  <2> QED
    BY <2>1, <2>2
<1>7. fleet'.dial \subseteq san
  <2>1. CASE extra # {}
    BY <1>4, <2>1
  <2>2. CASE extra = {}
    <3>1. fleet'.dial = fleet.dial /\ Lists(fleet, disk["meta.json"])
      BY <1>3, <1>4, <1>5, <2>2 DEF BundleSuits
    <3>2. fleet.dial \subseteq Carried
      BY <3>1 DEF Lists, Carried, Whole
    <3> QED
      BY <1>1, <2>2, <3>1, <3>2 DEF ServerSans
  <2> QED
    BY <2>1, <2>2
<1>8. Issuer = fleet'.ca
  BY <1>2, <1>4, <1>5 DEF BundleSuits
<1>9. Keeps(steps', fleet')
  <2>1. PICK a, s : a = fleet' /\ s = steps'
    OBVIOUS
  <2>2. PICK ca \in Issues, n \in Issues : ca = Issuer /\ n = issues + 1
    BY <1>1
  <2>3. /\ a.ca = ca /\ a.dial \subseteq san
        /\ s = Leaves(ca, n, san) \o <<Written("meta.json", MetaOf(san))>>
    BY <1>1, <1>7, <1>8, <2>1, <2>2
  <2>4. Keeps(s, a)
    BY <2>3, RotateKeeps
  <2> QED
    BY <2>1, <2>4
<1>10. /\ disk' = disk /\ UNCHANGED <<gov, served, reading, buffer>>
  BY DEF Rotate, governor
<1>11. steps' # <<>>
  BY TypedRotate DEF Rotate, Typed, CertsTypeOK
<1>12. BundleSuits(fleet)'
  BY <1>6, <1>9, <1>10, <1>11 DEF BundleSuits
<1>13. GovernorSuits(fleet)'
  BY <1>6, <1>10 DEF GovernorSuits, Connects
<1> QED
  BY <1>12, <1>13

\* The command goes on; its next step is a rotation's.
LEMMA HeldCommand == Typed /\ FleetHeld /\ Command => FleetHeld'
<1> SUFFICES ASSUME Typed, FleetHeld, Command, fleet'.joined
             PROVE  (BundleSuits(fleet) /\ GovernorSuits(fleet))'
  BY DEF FleetHeld
<1>1. UNCHANGED <<gov, served, reading, buffer, fleet>> /\ steps # <<>>
  BY DEF Command, Cut, Fill, Rename, Unlink, RemoveDir, Check, governor, command, Now
<1>2. /\ BundleSuits(fleet) /\ GovernorSuits(fleet) /\ steps \in Seq(ToDo)
      /\ Keeps(steps, fleet)
  BY <1>1 DEF FleetHeld, BundleSuits, Typed
<1>3. GovernorSuits(fleet)'
  BY <1>1, <1>2 DEF GovernorSuits, Connects
<1> DEFINE h == Head(steps)
<1>4. /\ Keeps(Tail(steps), fleet) /\ h.how \in {"rename", "write"} /\ h.file # "ca.crt"
      /\ h.file = "server.crt" => h.how = "rename" /\ Fits(fleet, h.to)
      /\ Tail(steps) = <<>> => h.file = "meta.json" /\ Lists(fleet, h.to)
  BY <1>1, <1>2, KeepsTail
<1>5. {"ca.crt", "server.crt", "meta.json"} \subseteq Files
  BY DEF Files
<1>6. CASE Cut
  <2>1. h.file \in Files /\ h.how = "write" /\ Torn \in Contents
    BY <1>6, HeadIs, NotWritten DEF Cut
  <2>2. \A g \in Files : g # h.file => disk'[g] = disk[g]
    BY <1>6, <2>1, PutDoes DEF Cut, Typed
  <2>3. h.file # "server.crt"
    BY <1>4, <2>1
  <2>4. disk'["ca.crt"] = disk["ca.crt"] /\ disk'["server.crt"] = disk["server.crt"]
    BY <1>4, <1>5, <2>2, <2>3
  <2>5. steps' = steps
    BY <1>6 DEF Cut, command
  <2> QED
    BY <1>1, <1>2, <1>3, <2>4, <2>5 DEF BundleSuits
<1>7. CASE Fill \/ Rename \/ Unlink
  <2>1. /\ disk'[h.file] = h.to /\ steps' = Tail(steps)
        /\ \A g \in Files : g # h.file => disk'[g] = disk[g]
    BY <1>7, TypedPut DEF Advance
  <2>2. disk'["ca.crt"] = disk["ca.crt"]
    BY <1>4, <1>5, <2>1
  <2>3. Fits(fleet, disk'["server.crt"])
    BY <1>2, <1>4, <1>5, <2>1 DEF BundleSuits
  <2>4. steps' = <<>> => Lists(fleet, disk'["meta.json"])
    BY <1>4, <2>1
  <2> QED
    BY <1>1, <1>2, <1>3, <1>4, <2>1, <2>2, <2>3, <2>4 DEF BundleSuits
<1>8. CASE RemoveDir \/ Check
  BY <1>4, <1>8 DEF RemoveDir, Check, Now
<1> QED
  BY <1>6, <1>7, <1>8 DEF Command

LEMMA HeldDie == Typed /\ FleetHeld /\ Die => FleetHeld'
<1> SUFFICES ASSUME Typed, FleetHeld, Die, fleet'.joined
             PROVE  (BundleSuits(fleet) /\ GovernorSuits(fleet))'
  BY DEF FleetHeld
<1>1. fleet.joined /\ fleet'.ca = fleet.ca /\ fleet'.dial = {}
  BY DEF Typed, CertsTypeOK, Fleets, Die
<1>2. BundleSuits(fleet) /\ GovernorSuits(fleet)
  BY <1>1 DEF FleetHeld
<1>3. BundleSuits(fleet') /\ GovernorSuits(fleet')
  BY <1>1, <1>2, Weaker
<1>4. Lists(fleet', disk["meta.json"]) /\ Keeps(<<>>, fleet')
  BY <1>1, KeepsNothing DEF Lists
<1>5. /\ steps' = <<>> /\ disk' = disk /\ UNCHANGED <<gov, served, reading, buffer>>
  BY DEF Die, Quit, governor
<1>6. BundleSuits(fleet)'
  BY <1>3, <1>4, <1>5 DEF BundleSuits
<1>7. GovernorSuits(fleet)'
  BY <1>3, <1>5 DEF GovernorSuits, Connects
<1> QED
  BY <1>6, <1>7

\* The thread that reads, and the configuration it builds.
LEMMA HeldRead == Typed /\ FleetHeld /\ (ReadCa \/ ReadCert \/ ReadKey) => FleetHeld'
<1> SUFFICES ASSUME Typed, FleetHeld, ReadCa \/ ReadCert \/ ReadKey, fleet'.joined
             PROVE  (BundleSuits(fleet) /\ GovernorSuits(fleet))'
  BY DEF FleetHeld
<1>1. UNCHANGED <<disk, steps, fleet>>
  BY DEF ReadCa, ReadCert, ReadKey, command
<1>2. BundleSuits(fleet) /\ GovernorSuits(fleet)
  BY <1>1 DEF FleetHeld
<1>3. BundleSuits(fleet)'
  BY <1>1, <1>2 DEF BundleSuits
<1>4. buffer \in Bundle /\ served \in Bundle
  BY DEF Typed, CertsTypeOK
<1>5. CASE ReadCa
  <2>1. /\ buffer'.ca = disk["ca.crt"] /\ reading' = "cert"
        /\ UNCHANGED <<gov, served>>
    BY <1>4, <1>5 DEF ReadCa, Bundle
  <2>2. buffer'.ca.ca = fleet.ca
    BY <1>2, <2>1 DEF BundleSuits
  <2> QED
    BY <1>1, <1>2, <1>3, <2>1, <2>2 DEF GovernorSuits, Connects
<1>6. CASE ReadCert
  <2>1. /\ buffer'.ca = buffer.ca /\ buffer'.cert = disk["server.crt"] /\ reading' = "key"
        /\ UNCHANGED <<gov, served>> /\ reading = "cert"
    BY <1>4, <1>6 DEF ReadCert, Bundle
  <2>2. buffer'.ca.ca = fleet.ca /\ Fits(fleet, buffer'.cert)
    BY <1>2, <2>1 DEF BundleSuits, GovernorSuits
  <2> QED
    BY <1>1, <1>2, <1>3, <2>1, <2>2 DEF GovernorSuits, Connects
<1>7. CASE ReadKey
  <2>1. PICK b : b = [buffer EXCEPT !.key = disk["server.key"]]
    OBVIOUS
  <2>2. /\ b.ca = buffer.ca /\ b.cert = buffer.cert
        /\ served' = IF Loads(b) THEN b ELSE served
        /\ gov' = IF gov # "starting" THEN gov ELSE IF Loads(b) THEN "loaded" ELSE "down"
        /\ reading' = "idle" /\ reading = "key"
    BY <1>4, <1>7, <2>1 DEF ReadKey, Bundle
  <2>3. b.ca.ca = fleet.ca /\ Fits(fleet, b.cert)
    BY <1>2, <2>2 DEF GovernorSuits
  <2>4. ASSUME gov' \in {"loaded", "up"}
        PROVE  Connects(fleet)'
    <3>1. CASE Loads(b)
      BY <1>1, <2>2, <2>3, <3>1 DEF Connects, Fits
    <3>2. CASE ~Loads(b)
      <4>1. gov \in {"loaded", "up"} /\ served' = served
        BY <2>2, <2>4, <3>2
      <4> QED
        BY <1>1, <1>2, <4>1 DEF GovernorSuits, Connects
    <3> QED
      BY <3>1, <3>2
  <2> QED
    BY <1>3, <2>2, <2>4 DEF GovernorSuits
<1> QED
  BY <1>5, <1>6, <1>7

LEMMA HeldGovernor == FleetHeld /\ (Start \/ Watch \/ Wake \/ Stop) => FleetHeld'
<1> SUFFICES ASSUME FleetHeld, Start \/ Watch \/ Wake \/ Stop, fleet'.joined
             PROVE  (BundleSuits(fleet) /\ GovernorSuits(fleet))'
  BY DEF FleetHeld
<1>1. UNCHANGED <<disk, steps, fleet>>
  BY DEF Start, Watch, Wake, Stop, command
<1>2. BundleSuits(fleet) /\ GovernorSuits(fleet)
  BY <1>1 DEF FleetHeld
<1>3. BundleSuits(fleet)'
  BY <1>1, <1>2 DEF BundleSuits
<1>4. CASE Start
  BY <1>1, <1>2, <1>3, <1>4 DEF Start, GovernorSuits, Connects
<1>5. CASE Watch
  BY <1>1, <1>2, <1>3, <1>5 DEF Watch, GovernorSuits, Connects
<1>6. CASE Wake
  BY <1>1, <1>2, <1>3, <1>6 DEF Wake, GovernorSuits, Connects
<1>7. CASE Stop
  BY <1>3, <1>7 DEF Stop, GovernorSuits
<1> QED
  BY <1>4, <1>5, <1>6, <1>7

\* Agents that join find the bundle that is served.
LEMMA HeldJoin == Typed /\ Join => FleetHeld'
<1> SUFFICES ASSUME Typed, Join
             PROVE  (BundleSuits(fleet) /\ GovernorSuits(fleet))'
  BY DEF FleetHeld
<1>1. PICK names \in SUBSET Names, held \in Fleets :
           /\ held = [joined |-> TRUE, ca |-> disk["ca.crt"].ca, dial |-> names]
           /\ names = {} \/ (Whole("meta.json") /\ disk["meta.json"].names = names)
           /\ OnDisk = served /\ Connects(held) /\ fleet' = held
  BY JoinIs
<1>2. /\ held.ca = disk["ca.crt"].ca /\ held.dial = names
      /\ served.ca = disk["ca.crt"] /\ served.cert = disk["server.crt"]
  BY <1>1 DEF OnDisk
<1>3. Fits(held, disk["server.crt"]) /\ Lists(held, disk["meta.json"])
  BY <1>1, <1>2 DEF Fits, Lists, Connects, Whole
<1>4. /\ steps = <<>> /\ UNCHANGED <<disk, steps, gov, served, reading, buffer>>
      /\ reading = "idle"
  BY DEF Join, Typed, CertsTypeOK, command, governor
<1>5. BundleSuits(fleet)'
  BY <1>1, <1>2, <1>3, <1>4, KeepsNothing DEF BundleSuits
<1>6. GovernorSuits(fleet)'
  BY <1>1, <1>4 DEF GovernorSuits, Connects
<1> QED
  BY <1>5, <1>6

LEMMA HeldStep == Typed /\ FleetHeld /\ [CertsNext]_vars => FleetHeld'
<1> SUFFICES ASSUME Typed, FleetHeld, [CertsNext]_vars
             PROVE  FleetHeld'
  OBVIOUS
<1>1. CASE Generate \/ Import \/ Remove
  <2>1. fleet' = Nobody
    BY <1>1 DEF Generate, Import, Remove
  <2> QED
    BY <2>1, EmptyIs DEF FleetHeld
<1>2. CASE Reload
  BY <1>2, HeldRead, HeldGovernor DEF Reload
<1>3. CASE UNCHANGED vars
  BY <1>3, HeldStays DEF vars, command, governor
<1> QED
  BY <1>1, <1>2, <1>3, HeldRotate, HeldCommand, HeldDie, HeldGovernor, HeldJoin DEF CertsNext

\* Agents that got through once get through whenever the governor is up, until
\* an operator generates, imports or removes: whatever rotation is run or
\* interrupted at whatever step, whatever the reload reads between two renames,
\* whenever the governor restarts.
THEOREM AgentsKeepTheirTrust == CertsSpec => []FleetStaysConnected
<1>1. Typed /\ FleetHeld => FleetStaysConnected
  BY DEF FleetHeld, GovernorSuits, FleetStaysConnected
<1>2. CertsInit => Typed /\ FleetHeld
  BY TypedInit, HeldInit
<1>3. Typed /\ FleetHeld /\ [CertsNext]_vars => (Typed /\ FleetHeld)'
  BY TypedStep, HeldStep
<1> QED
  BY <1>1, <1>2, <1>3, PTL DEF CertsSpec

-----------------------------------------------------------------------------
(* A settled bundle loads *)

\* Where a bundle d has its CA key and no foreign certificate, its parts
\* belong together.
Coherent(d) ==
  (d["ca.key"].is = "whole" /\ d["ca.key"].ca = d["ca.crt"].ca /\ d["server.crt"].ca # External)
    => /\ d["ca.crt"].is = "whole" /\ d["server.crt"].is = "whole" /\ d["server.key"].is = "whole"
       /\ d["server.crt"].pair = d["server.key"].pair
       /\ d["ca.crt"].ca = d["server.crt"].ca
       /\ d["client.crt"].pair = d["client.key"].pair

\* Nothing but the note is half written, and a CA key is one of our own.
Good(d) ==
  /\ \A f \in Files : f # "meta.json" => d[f].is # "torn"
  /\ d["ca.key"].is = "whole" => d["ca.key"].ca # External
  /\ Coherent(d)

\* The command that is running turns the bundle into d.
LeadsTo(d) ==
  /\ Agrees(steps, d) /\ ChecksLast(steps)
  /\ \A f \in Files : ~Pends(steps, f) => d[f] = disk[f]

Settling == deaths = 0 => \E d \in [Files -> Contents] : LeadsTo(d) /\ Good(d)

\* The code compares no imported key with the certificate it is to go with.
KeysComeWithCertificates == \A given \in Given : "server.key" \in given => "server.crt" \in given

LEMMA ChecksNothing == ASSUME NEW s, NoCheck(s) PROVE ChecksLast(s)
BY DEF NoCheck, ChecksLast

\* While no command runs there is only the disk.
LEMMA AtRest ==
  ASSUME Typed, Settling, deaths = 0, steps = <<>>
  PROVE  Good(disk)
<1>1. PICK d \in [Files -> Contents] : LeadsTo(d) /\ Good(d)
  BY DEF Settling
<1>2. \A f \in Files : d[f] = disk[f]
  BY <1>1, NothingPends DEF LeadsTo
<1>3. d = disk
  BY <1>2 DEF Typed, CertsTypeOK
<1> QED
  BY <1>1, <1>3

\* What is on disk is good when no command runs.
LEMMA DiskLeads ==
  ASSUME Typed, Good(disk), steps = <<>>
  PROVE  Settling
<1>1. Agrees(<<>>, disk) /\ NoCheck(<<>>)
  BY NothingPends
<1>2. LeadsTo(disk) /\ disk \in [Files -> Contents]
  BY <1>1, ChecksNothing DEF LeadsTo, Typed, CertsTypeOK
<1> QED
  BY <1>2 DEF Settling

\* The five kinds of files by name.
LEMMA FilesAre ==
  /\ {"ca.crt", "ca.key", "server.crt", "server.key", "client.crt", "client.key", "meta.json"}
       = Files
  /\ "ca.crt" \in Files /\ "ca.key" \in Files /\ "server.crt" \in Files /\ "server.key" \in Files
  /\ "client.crt" \in Files /\ "client.key" \in Files /\ "meta.json" \in Files
BY DEF Files

LEMMA AbsentIsGood ==
  ASSUME NEW d, \A f \in Files : d[f] = Absent
  PROVE  Good(d)
BY FilesAre, NotWritten DEF Good, Coherent

\* Certificates and keys of one making.
LEMMA MadeIsGood ==
  ASSUME NEW d, NEW ca \in Issues, NEW n \in Issues, NEW names \in SUBSET Names,
         d["server.crt"] = CertOf(ca, n, names), d["server.key"] = KeyOf(n),
         d["client.crt"] = CertOf(ca, n, {}), d["client.key"] = KeyOf(n),
         d["ca.crt"] \in Contents, d["ca.key"] \in Contents,
         d["ca.crt"].is = "whole", d["ca.key"].is = "whole", d["ca.key"].ca = ca, ca # External
  PROVE  Good(d)
<1>1. /\ d["server.crt"].is = "whole" /\ d["server.crt"].ca = ca /\ d["server.crt"].pair = n
      /\ d["server.key"].is = "whole" /\ d["server.key"].pair = n
      /\ d["client.crt"].is = "whole" /\ d["client.crt"].pair = n
      /\ d["client.key"].is = "whole" /\ d["client.key"].pair = n
  BY DEF CertOf, KeyOf
<1>2. \A f \in Files : f # "meta.json" => d[f].is # "torn"
  BY <1>1, FilesAre
<1>3. Coherent(d)
  BY <1>1 DEF Coherent
<1> QED
  BY <1>2, <1>3 DEF Good

LEMMA GeneratedIsGood ==
  ASSUME NEW n \in Issues, n # External, NEW names \in SUBSET Names
  PROVE  Good(Generated(n, names))
<1>1. PICK d : d = Generated(n, names)
  OBVIOUS
<1>2. /\ d["ca.crt"] = CaOf(n) /\ d["ca.key"] = CaOf(n)
      /\ d["server.crt"] = CertOf(n, n, names) /\ d["client.crt"] = CertOf(n, n, {})
      /\ d["server.key"] = KeyOf(n) /\ d["client.key"] = KeyOf(n)
  BY <1>1 DEF Generated, Files
<1>3. CaOf(n) \in Contents /\ CaOf(n).is = "whole" /\ CaOf(n).ca = n
  BY WhatIsWritten
<1>4. /\ d["ca.crt"] \in Contents /\ d["ca.key"] \in Contents
      /\ d["ca.crt"].is = "whole" /\ d["ca.key"].is = "whole" /\ d["ca.key"].ca = n
  BY <1>2, <1>3
<1> QED
  BY <1>1, <1>2, <1>4, MadeIsGood

LEMMA SettlingInit == CertsInit => Settling
<1> SUFFICES ASSUME CertsInit
             PROVE  Settling
  OBVIOUS
<1>1. Good(disk)
  <2>1. CASE disk = [f \in Files |-> Absent]
    BY <2>1, AbsentIsGood
  <2>2. CASE disk = Generated(1, ServerSans({}))
    <3>1. ServerSans({}) \in SUBSET Names /\ 1 \in Issues /\ 1 # External
      BY NamesAre, Bounds DEF External
    <3> QED
      BY <2>2, <3>1, GeneratedIsGood
  <2> QED
    BY <2>1, <2>2 DEF CertsInit
<1>2. Typed /\ steps = <<>>
  BY TypedInit DEF CertsInit
<1> QED
  BY <1>1, <1>2, DiskLeads

\* A command that gives every file its content leads to what it gives.
LEMMA SetsOut ==
  ASSUME NEW d \in [Files -> Contents], Good(d), Agrees(steps', d), ChecksLast(steps'),
         \A f \in Files : Pends(steps', f) \/ d[f] = disk'[f]
  PROVE  Settling'
BY DEF Settling, LeadsTo

LEMMA SettlingGenerate == Typed /\ Generate => Settling'
<1> SUFFICES ASSUME Typed, Generate
             PROVE  Settling'
  OBVIOUS
<1>1. PICK extra \in SUBSET Hosts :
        steps' = <<Renamed("ca.crt", CaOf(issues + 1)), Renamed("ca.key", CaOf(issues + 1))>>
                   \o Leaves(issues + 1, issues + 1, ServerSans(extra))
                   \o <<Written("meta.json", MetaOf(ServerSans(extra)))>>
  BY DEF Generate
<1>2. issues + 1 \in Issues /\ ServerSans(extra) \in SUBSET Names /\ issues + 1 # External
  BY Bounds, NamesAre DEF Generate, Typed, CertsTypeOK, External
<1>3. PICK d \in [Files -> Contents] : d = Generated(issues + 1, ServerSans(extra)) /\ Good(d)
  BY <1>2, GeneratedIs, GeneratedIsGood
<1>4. \A f \in Files : NoCheck(steps') /\ Pends(steps', f) /\ Agrees(steps', d)
  BY <1>1, <1>2, <1>3, GenerateDoes
<1>5. NoCheck(steps') /\ Agrees(steps', d)
  BY <1>4, FilesAre
<1> QED
  BY <1>3, <1>4, <1>5, ChecksNothing, SetsOut

LEMMA SettlingRotate == Typed /\ Settling /\ Rotate => Settling'
<1> SUFFICES ASSUME Typed, Settling, Rotate, deaths = 0
             PROVE  Settling'
  BY DEF Settling, Rotate
<1>1. PICK extra \in SUBSET Hosts, san \in SUBSET Names :
        /\ issues + 1 \in Issues /\ Issuer \in Issues
        /\ steps' = Leaves(Issuer, issues + 1, san) \o <<Written("meta.json", MetaOf(san))>>
  BY RotateIs
<1>2. Good(disk) /\ disk \in [Files -> Contents]
  BY AtRest DEF Rotate, Typed, CertsTypeOK
<1>3. PICK ca \in Issues, n \in Issues : ca = Issuer /\ n = issues + 1
  BY <1>1
<1>4. PICK s : s = steps'
  OBVIOUS
<1>5. s = Leaves(ca, n, san) \o <<Written("meta.json", MetaOf(san))>>
  BY <1>1, <1>3, <1>4
<1>6. /\ NoCheck(s) /\ \A d : Agrees(s, d) <=> RotateLeads(d, ca, n, san)
      /\ \A f \in Files : f \notin {"ca.crt", "ca.key"} => Pends(s, f)
  BY <1>5, RotateDoes, FilesAre
<1>7. /\ CertOf(ca, n, san) \in Contents /\ CertOf(ca, n, {}) \in Contents
      /\ KeyOf(n) \in Contents /\ MetaOf(san) \in Contents
  BY WhatIsWritten
<1>8. PICK e \in [Files -> Contents] :
        e = [f \in Files |-> IF f \in {"ca.crt", "ca.key"} THEN disk[f]
                             ELSE IF f = "server.crt" THEN CertOf(ca, n, san)
                             ELSE IF f = "client.crt" THEN CertOf(ca, n, {})
                             ELSE IF f = "meta.json" THEN MetaOf(san) ELSE KeyOf(n)]
  BY <1>2, <1>7
<1>9. /\ e["server.crt"] = CertOf(ca, n, san) /\ e["server.key"] = KeyOf(n)
      /\ e["client.crt"] = CertOf(ca, n, {}) /\ e["client.key"] = KeyOf(n)
      /\ e["meta.json"] = MetaOf(san)
      /\ e["ca.crt"] = disk["ca.crt"] /\ e["ca.key"] = disk["ca.key"]
  BY <1>8, FilesAre
<1>10. /\ disk["ca.crt"].is = "whole" /\ disk["ca.key"].is = "whole"
       /\ disk["ca.crt"] \in Contents /\ disk["ca.key"] \in Contents
       /\ disk["ca.key"].ca = ca /\ ca # External
  <2>1. disk["ca.crt"] \in Contents /\ disk["ca.key"] \in Contents
    BY <1>2, FilesAre
  <2>2. disk["ca.crt"].is # "absent" /\ disk["ca.key"].is = "whole"
    BY DEF Rotate, Exists, Whole
  <2>3. disk["ca.crt"].is # "torn" /\ disk["ca.key"].ca # External
    BY <1>2, <2>2, FilesAre DEF Good
  <2> QED
    BY <1>3, <2>1, <2>2, <2>3 DEF Contents, Issuer
<1>11. Good(e)
  BY <1>9, <1>10, MadeIsGood
<1>12. Agrees(s, e) /\ ChecksLast(s)
  BY <1>6, <1>9, ChecksNothing DEF RotateLeads
<1>13. \A f \in Files : Pends(s, f) \/ e[f] = disk'[f]
  BY <1>6, <1>8 DEF Rotate
<1> QED
  BY <1>4, <1>11, <1>12, <1>13, SetsOut

LEMMA SettlingRemove == Typed /\ Remove => Settling'
<1> SUFFICES ASSUME Typed, Remove
             PROVE  Settling'
  OBVIOUS
<1>1. PICK s : s = steps' /\ s = Removing
  BY DEF Remove, Removing
<1>2. PICK d \in [Files -> Contents] : d = [f \in Files |-> Absent]
  BY NotWritten
<1>3. Good(d)
  BY <1>2, AbsentIsGood
<1>4. \A f \in Files : NoCheck(s) /\ Pends(s, f) /\ Agrees(s, d)
  BY <1>1, <1>2, RemoveDoes
<1>5. NoCheck(s) /\ Agrees(s, d)
  BY <1>4, FilesAre
<1> QED
  BY <1>1, <1>3, <1>4, <1>5, ChecksNothing, SetsOut

\* Bundle d with the files given replaced by the operator's.
Replaced(d, given, n) ==
  [f \in Files |-> IF f = "meta.json" THEN MetaOf({Imported})
                   ELSE IF f \notin given THEN d[f]
                   ELSE IF f = "ca.crt" THEN CaOf(External)
                   ELSE IF f = "server.crt" THEN CertOf(External, n, ServerSans(Hosts))
                   ELSE KeyOf(n)]

\* An import that leaves the operator's own certificate, or changes nothing
\* that has to fit together.
LEMMA ImportedIsGood ==
  ASSUME NEW d \in [Files -> Contents], Good(d), NEW given \in Given,
         "server.key" \in given => "server.crt" \in given, NEW n \in Issues,
         NEW e, e = Replaced(d, given, n)
  PROVE  e \in [Files -> Contents] /\ Good(e) /\ ImportLeads(e, given, n)
<1>1. ServerSans(Hosts) \in SUBSET Names /\ {Imported} \in SUBSET Names /\ External \in Issues
  BY NamesAre, Bounds DEF Names, External
<1>2. /\ CaOf(External) \in Contents /\ CertOf(External, n, ServerSans(Hosts)) \in Contents
      /\ KeyOf(n) \in Contents /\ MetaOf({Imported}) \in Contents
  BY <1>1, WhatIsWritten
<1>3. e \in [Files -> Contents]
  BY <1>2 DEF Replaced
<1>4. /\ CaOf(External).is = "whole" /\ CaOf(External).ca = External
      /\ CertOf(External, n, ServerSans(Hosts)).is = "whole"
      /\ CertOf(External, n, ServerSans(Hosts)).ca = External
      /\ KeyOf(n).is = "whole"
  BY <1>1, WhatIsWritten
<1>5. given \subseteq {"ca.crt", "server.crt", "server.key"}
  BY CertsAssumption
<1>6. /\ e["ca.key"] = d["ca.key"] /\ e["client.crt"] = d["client.crt"]
      /\ e["client.key"] = d["client.key"]
      /\ e["ca.crt"] = IF "ca.crt" \in given THEN CaOf(External) ELSE d["ca.crt"]
      /\ e["server.crt"] = IF "server.crt" \in given
                           THEN CertOf(External, n, ServerSans(Hosts)) ELSE d["server.crt"]
      /\ e["server.key"] = IF "server.key" \in given THEN KeyOf(n) ELSE d["server.key"]
      /\ e["meta.json"] = MetaOf({Imported})
  BY <1>5, FilesAre DEF Replaced
<1>7. \A f \in Files : f # "meta.json" => e[f].is # "torn"
  <2>1. \A f \in Files : f # "meta.json" => d[f].is # "torn"
    BY DEF Good
  <2>2. /\ e["ca.key"].is # "torn" /\ e["client.crt"].is # "torn" /\ e["client.key"].is # "torn"
    BY <1>6, <2>1, FilesAre
  <2>3. /\ e["ca.crt"].is # "torn" /\ e["server.crt"].is # "torn" /\ e["server.key"].is # "torn"
    BY <1>4, <1>6, <2>1, FilesAre
  <2> QED
    BY <2>2, <2>3, FilesAre
<1>8. e["ca.key"].is = "whole" => e["ca.key"].ca # External
  BY <1>6 DEF Good
<1>9. Coherent(e)
  <2>1. CASE "ca.crt" \in given
    BY <1>4, <1>6, <1>8, <2>1 DEF Coherent
  <2>2. CASE "server.crt" \in given
    BY <1>4, <1>6, <2>2 DEF Coherent
  <2>3. CASE "ca.crt" \notin given /\ "server.crt" \notin given
    <3>1. /\ e["ca.crt"] = d["ca.crt"] /\ e["server.crt"] = d["server.crt"]
          /\ e["server.key"] = d["server.key"]
      BY <1>6, <2>3
    <3> QED
      BY <1>6, <3>1 DEF Coherent, Good
  <2> QED
    BY <2>1, <2>2, <2>3
<1>10. ImportLeads(e, given, n)
  BY <1>6 DEF ImportLeads
<1> QED
  BY <1>3, <1>7, <1>8, <1>9, <1>10 DEF Good

LEMMA SettlingImport ==
  ASSUME KeysComeWithCertificates, Typed, Settling, Import
  PROVE  Settling'
<1> SUFFICES ASSUME deaths = 0
             PROVE  Settling'
  BY DEF Settling, Import
<1>1. PICK given \in Given : steps' = Importing(given, issues + 1)
  BY DEF Import, Importing
<1>2. PICK n \in Issues : n = issues + 1
  BY Bounds DEF Import, Typed, CertsTypeOK
<1>3. PICK s : s = steps' /\ s = Importing(given, n)
  BY <1>1, <1>2
<1>4. Good(disk) /\ disk \in [Files -> Contents]
  BY AtRest DEF Import, Typed, CertsTypeOK
<1>5. PICK e : e = Replaced(disk, given, n)
  OBVIOUS
<1>6. e \in [Files -> Contents] /\ Good(e) /\ ImportLeads(e, given, n)
  BY <1>4, <1>5, ImportedIsGood DEF KeysComeWithCertificates
<1>7. \A f \in Files : /\ ChecksLast(s) /\ (Agrees(s, e) <=> ImportLeads(e, given, n))
                       /\ Pends(s, f) <=> f \in given \cup {"meta.json"}
  BY <1>3, ImportDoes
<1>8. ChecksLast(s) /\ Agrees(s, e)
  BY <1>6, <1>7, FilesAre
<1>9. \A f \in Files : Pends(s, f) \/ e[f] = disk'[f]
  BY <1>5, <1>7 DEF Import, Replaced
<1> QED
  BY <1>3, <1>6, <1>8, <1>9, SetsOut

\* The steps of a command.
LEMMA SettlingCommand == Typed /\ Settling /\ Command => Settling'
<1> SUFFICES ASSUME Typed, Settling, Command, deaths = 0
             PROVE  Settling'
  BY DEF Settling, Command, Cut, Fill, Rename, Unlink, RemoveDir, Check, command
<1>1. PICK d \in [Files -> Contents] : LeadsTo(d) /\ Good(d)
  BY DEF Settling
<1>2. steps # <<>> /\ steps \in Seq(ToDo)
  BY DEF Command, Cut, Fill, Rename, Unlink, RemoveDir, Check, Now, Typed
<1>3. /\ \A f \in Files : /\ Pends(steps, f) <=> \/ Head(steps).how \in Writing /\ Head(steps).file = f
                                                 \/ Pends(Tail(steps), f)
                          /\ ChecksLast(steps) /\ Head(steps).how = "check" /\ f # "meta.json"
                               => ~Pends(steps, f)
  BY <1>2, TailPends
<1>4. /\ Agrees(Tail(steps), d) /\ ChecksLast(Tail(steps))
      /\ Head(steps).how \in Writing => d[Head(steps).file] = Head(steps).to
  BY <1>1, <1>2, TailPends DEF LeadsTo
<1>5. CASE Cut
  <2>1. Head(steps).file \in Files /\ Head(steps).how = "write" /\ Torn \in Contents
    BY <1>5, HeadIs, NotWritten DEF Cut
  <2>2. \A g \in Files : g # Head(steps).file => disk'[g] = disk[g]
    BY <1>5, <2>1, PutDoes DEF Cut, Typed
  <2>3. \A f \in Files : ~Pends(steps, f) => d[f] = disk'[f]
    BY <1>1, <1>3, <2>1, <2>2 DEF LeadsTo, Writing
  <2>4. steps' = steps /\ deaths' = deaths
    BY <1>5 DEF Cut, command
  <2> QED
    BY <1>1, <2>3, <2>4, SetsOut DEF LeadsTo
<1>6. CASE Fill \/ Rename \/ Unlink
  <2>1. /\ disk'[Head(steps).file] = Head(steps).to /\ steps' = Tail(steps)
        /\ \A g \in Files : g # Head(steps).file => disk'[g] = disk[g]
        /\ Head(steps).how \in Writing
    BY <1>6, TypedPut DEF Advance
  <2>2. \A f \in Files : ~Pends(Tail(steps), f) => d[f] = disk'[f]
    BY <1>1, <1>3, <1>4, <2>1 DEF LeadsTo
  <2> QED
    BY <1>1, <1>4, <2>1, <2>2, SetsOut
<1>7. ASSUME Head(steps).how \notin Writing, steps' = Tail(steps), disk' = disk
      PROVE  Settling'
  <2>1. \A f \in Files : ~Pends(Tail(steps), f) => d[f] = disk[f]
    BY <1>1, <1>3, <1>7 DEF LeadsTo
  <2> QED
    BY <1>1, <1>4, <1>7, <2>1, SetsOut
<1>8. CASE RemoveDir
  BY <1>7, <1>8 DEF RemoveDir, Now, Writing, Advance
<1>9. CASE Check
  <2>1. Head(steps).how = "check" /\ disk' = disk /\ (Advance \/ Quit)
    BY <1>9 DEF Check, Now
  <2>2. CASE Advance
    BY <1>7, <2>1, <2>2 DEF Writing, Advance
  <2>3. CASE Quit
    <3>1. \A f \in Files : f # "meta.json" => d[f] = disk[f]
      BY <1>1, <1>3, <2>1 DEF LeadsTo
    <3>2. Good(disk)
      BY <1>1, <3>1, FilesAre DEF Good, Coherent
    <3>3. steps' = <<>> /\ Typed'
      BY <1>9, <2>3, TypedCheck DEF Quit
    <3>4. Good(disk)'
      BY <2>1, <3>2
    <3>5. Agrees(steps', disk) /\ ChecksLast(steps')
      BY <3>3, NothingPends, ChecksNothing
    <3> QED
      BY <2>1, <3>2, <3>5, SetsOut DEF Typed, CertsTypeOK
  <2> QED
    BY <2>1, <2>2, <2>3
<1> QED
  BY <1>5, <1>6, <1>8, <1>9 DEF Command

LEMMA SettlingStep ==
  ASSUME KeysComeWithCertificates, Typed, Settling, [CertsNext]_vars
  PROVE  Settling'
<1>1. CASE Die
  <2>1. deaths' # 0
    BY <1>1 DEF Die, Typed, CertsTypeOK
  <2> QED
    BY <2>1 DEF Settling
<1>2. CASE UNCHANGED <<disk, steps, deaths>>
  BY <1>2 DEF Settling, LeadsTo
<1>3. CASE Start \/ Reload \/ Stop \/ Join \/ UNCHANGED vars
  BY <1>2, <1>3 DEF Start, Reload, ReadCa, ReadCert, ReadKey, Watch, Wake, Stop, Join, vars, command
<1> QED
  BY <1>1, <1>3, SettlingGenerate, SettlingRotate, SettlingImport, SettlingRemove,
     SettlingCommand DEF CertsNext

\* As long as no command was interrupted, a bundle that has its CA key and no
\* foreign certificate can be served once no command runs, and its parts belong
\* together: whatever was generated, rotated, imported and removed before, in
\* whatever order.  Imports give a certificate with every key.
THEOREM SettledBundlesLoad == KeysComeWithCertificates => (CertsSpec => []CertsInvariant)
<1> SUFFICES ASSUME KeysComeWithCertificates
             PROVE  CertsSpec => []CertsInvariant
  OBVIOUS
<1>1. Typed /\ Settling => CertsInvariant
  <2> SUFFICES ASSUME Typed, Settling, doing = "none", deaths = 0
               PROVE  Coherent(disk)
    BY DEF CertsInvariant, Typed, SettledBundleLoads, Coherent, Whole, Loads, OnDisk
  <2>1. steps = <<>>
    BY DEF Typed, CertsTypeOK
  <2> QED
    BY <2>1, AtRest DEF Good
<1>2. CertsInit => Typed /\ Settling
  BY TypedInit, SettlingInit
<1>3. Typed /\ Settling /\ [CertsNext]_vars => (Typed /\ Settling)'
  BY TypedStep, SettlingStep
<1> QED
  BY <1>1, <1>2, <1>3, PTL DEF CertsSpec
=============================================================================
