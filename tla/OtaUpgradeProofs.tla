-------------------------- MODULE OtaUpgradeProofs --------------------------
(***************************************************************************)
(* The boot loader copies only whole images: proofs about OtaUpgrade, for  *)
(* any number of pages, segments, packet sizes, log lengths and images.    *)
(***************************************************************************)
EXTENDS OtaUpgrade, SequenceTheorems, FiniteSetTheorems, WellFoundedInduction, TLAPS

(***************************************************************************)
(* Sequences, whatever is in them.                                         *)
(***************************************************************************)
IsSeq(q) == q \in Seq({q[i] : i \in DOMAIN q})

\* Any sequence is one.
LEMMA SeqIs ==
  ASSUME NEW S, NEW q \in Seq(S)
  PROVE  IsSeq(q)
<1>1. Len(q) \in Nat /\ q \in [1..Len(q) -> S]
  OBVIOUS
<1>2. q \in [1..Len(q) -> {q[i] : i \in DOMAIN q}]
  BY <1>1
<1> QED
  BY <1>1, <1>2 DEF IsSeq

\* Its positions and its head.
LEMMA SeqFacts ==
  ASSUME NEW q, IsSeq(q)
  PROVE  /\ Len(q) \in Nat /\ DOMAIN q = 1..Len(q)
         /\ q = <<>> <=> Len(q) = 0
         /\ q # <<>> => Head(q) = q[1] /\ 1 \in DOMAIN q /\ Len(q) >= 1
<1> DEFINE S == {q[i] : i \in DOMAIN q}
<1>1. q \in Seq(S)
  BY DEF IsSeq
<1> HIDE DEF S
<1> QED
  BY <1>1

\* An element appended.
LEMMA Appended ==
  ASSUME NEW q, NEW e, IsSeq(q)
  PROVE  /\ IsSeq(Append(q, e)) /\ Append(q, e) # <<>>
         /\ Len(Append(q, e)) = Len(q) + 1
         /\ \A i \in DOMAIN q : Append(q, e)[i] = q[i]
         /\ Append(q, e)[Len(q) + 1] = e
         /\ DOMAIN Append(q, e) = 1..(Len(q) + 1)
         /\ DOMAIN Append(q, e) = DOMAIN q \cup {Len(q) + 1}
<1> DEFINE S == {q[i] : i \in DOMAIN q} \cup {e}
<1>1. q \in Seq(S) /\ e \in S
  <2>1. q \in Seq({q[i] : i \in DOMAIN q})
    BY DEF IsSeq
  <2> QED
    BY <2>1
<1> HIDE DEF S
<1>2. Append(q, e) \in Seq(S)
  BY <1>1
<1>3. IsSeq(Append(q, e))
  BY <1>2, SeqIs
<1>4. /\ Len(q) \in Nat /\ DOMAIN q = 1..Len(q)
      /\ Len(Append(q, e)) = Len(q) + 1 /\ DOMAIN Append(q, e) = 1..(Len(q) + 1)
      /\ \A i \in 1..Len(q) : Append(q, e)[i] = q[i]
      /\ Append(q, e)[Len(q) + 1] = e
  BY <1>1
<1>5. Append(q, e) # <<>>
  BY <1>4
<1> QED
  BY <1>3, <1>4, <1>5

\* The head taken.
LEMMA Tailed ==
  ASSUME NEW q, IsSeq(q), q # <<>>
  PROVE  /\ IsSeq(Tail(q)) /\ Len(Tail(q)) = Len(q) - 1
         /\ Len(q) \in Nat \ {0}
         /\ DOMAIN Tail(q) = 1..(Len(q) - 1)
         /\ \A i \in DOMAIN Tail(q) : Tail(q)[i] = q[i + 1] /\ i + 1 \in DOMAIN q
<1> DEFINE S == {q[i] : i \in DOMAIN q}
<1>1. q \in Seq(S)
  BY DEF IsSeq
<1> HIDE DEF S
<1>2. Tail(q) \in Seq(S)
  BY <1>1
<1>3. IsSeq(Tail(q))
  BY <1>2, SeqIs
<1>4. /\ Len(q) \in Nat \ {0} /\ DOMAIN q = 1..Len(q)
      /\ Len(Tail(q)) = Len(q) - 1 /\ DOMAIN Tail(q) = 1..(Len(q) - 1)
      /\ \A i \in 1..(Len(q) - 1) : Tail(q)[i] = q[i + 1]
  BY <1>1
<1> QED
  BY <1>3, <1>4

\* One after the other.
LEMMA Joined ==
  ASSUME NEW q, NEW r, IsSeq(q), IsSeq(r)
  PROVE  /\ IsSeq(q \o r) /\ Len(q \o r) = Len(q) + Len(r)
         /\ DOMAIN (q \o r) = 1..(Len(q) + Len(r))
         /\ Len(q) \in Nat /\ Len(r) \in Nat
         /\ \A i \in DOMAIN q : (q \o r)[i] = q[i]
         /\ \A i \in DOMAIN r : (q \o r)[Len(q) + i] = r[i]
         /\ \A i \in DOMAIN (q \o r) :
              \/ i \in DOMAIN q /\ (q \o r)[i] = q[i]
              \/ i - Len(q) \in DOMAIN r /\ (q \o r)[i] = r[i - Len(q)]
<1> DEFINE S == {q[i] : i \in DOMAIN q} \cup {r[i] : i \in DOMAIN r}
<1>1. q \in Seq(S) /\ r \in Seq(S)
  <2>1. q \in Seq({q[i] : i \in DOMAIN q}) /\ r \in Seq({r[i] : i \in DOMAIN r})
    BY DEF IsSeq
  <2> QED
    BY <2>1
<1> HIDE DEF S
<1>2. q \o r \in Seq(S)
  BY <1>1
<1>3. IsSeq(q \o r)
  BY <1>2, SeqIs
<1>4. /\ Len(q \o r) = Len(q) + Len(r) /\ Len(q) \in Nat /\ Len(r) \in Nat
      /\ DOMAIN q = 1..Len(q) /\ DOMAIN r = 1..Len(r)
      /\ DOMAIN (q \o r) = 1..(Len(q) + Len(r))
      /\ \A i \in 1..(Len(q) + Len(r)) :
           (q \o r)[i] = IF i <= Len(q) THEN q[i] ELSE r[i - Len(q)]
  BY <1>1, <1>2
<1> QED
  BY <1>3, <1>4

\* A sequence of one element.
LEMMA Single ==
  ASSUME NEW e
  PROVE  /\ IsSeq(<<e>>) /\ Len(<<e>>) = 1 /\ DOMAIN <<e>> = {1} /\ <<e>>[1] = e
         /\ IsSeq(<<>>) /\ DOMAIN <<>> = {}
<1>1. <<e>> \in Seq({e}) /\ <<>> \in Seq({e})
  OBVIOUS
<1>2. IsSeq(<<e>>) /\ IsSeq(<<>>)
  BY <1>1, SeqIs
<1> QED
  BY <1>2

-----------------------------------------------------------------------------
(***************************************************************************)
(* The operations a handler queues.                                        *)
(***************************************************************************)
LogOp == {"eraseLog", "code", "hdr", "entry"}
AreaOp == {"erase", "program", "mark"}

IsOp(o, T) == o.op \in T /\ (o.op = "entry" => o.size \in Int)

OpsIn(q, T) == IsSeq(q) /\ \A i \in DOMAIN q : IsOp(q[i], T)

\* Two sequences of them make one.
LEMMA OpsJoined ==
  ASSUME NEW q, NEW r, NEW T, OpsIn(q, T), OpsIn(r, T)
  PROVE  OpsIn(q \o r, T)
<1>1. IsSeq(q \o r)
  BY Joined DEF OpsIn
<1>2. \A i \in DOMAIN (q \o r) : \/ i \in DOMAIN q /\ (q \o r)[i] = q[i]
                                 \/ i - Len(q) \in DOMAIN r /\ (q \o r)[i] = r[i - Len(q)]
  BY Joined DEF OpsIn
<1> QED
  BY <1>1, <1>2 DEF OpsIn

\* One operation, or none.
LEMMA OpsOne ==
  ASSUME NEW e, NEW T, IsOp(e, T)
  PROVE  OpsIn(<<e>>, T) /\ OpsIn(<<>>, T)
BY Single DEF OpsIn

\* What is queued for the log.
LEMMA LogOps ==
  ASSUME NEW f
  PROVE  /\ OpsIn(EraseLogOps(f), LogOp)
         /\ \A c : OpsIn(<<LogCode(c)>>, LogOp) /\ OpsIn(EraseLogOps(f) \o <<LogCode(c)>>, LogOp)
         /\ \A i : OpsIn(<<LogHdr(i)>>, LogOp)
         /\ \A n : \A size \in Int : OpsIn(LogEntryOps(n, size, f), LogOp)
<1>1. OpsIn(EraseLogOps(f), LogOp)
  <2>1. OpsIn(<<EraseLog>>, LogOp) /\ OpsIn(<<>>, LogOp)
    BY OpsOne DEF EraseLog, LogOp, IsOp
  <2> QED
    BY <2>1 DEF EraseLogOps
<1>2. ASSUME NEW c PROVE OpsIn(<<LogCode(c)>>, LogOp)
  BY OpsOne DEF LogCode, LogOp, IsOp
<1>3. ASSUME NEW i PROVE OpsIn(<<LogHdr(i)>>, LogOp)
  BY OpsOne DEF LogHdr, LogOp, IsOp
<1>4. ASSUME NEW n, NEW size \in Int PROVE OpsIn(LogEntryOps(n, size, f), LogOp)
  <2>1. OpsIn(<<LogEntry(n, size)>>, LogOp) /\ OpsIn(<<LogEntry(1, size)>>, LogOp)
    BY OpsOne DEF LogEntry, LogOp, IsOp
  <2> DEFINE tail == <<LogCode(f.code), LogHdr(f.hdr), LogEntry(1, size)>>
  <2>2. OpsIn(tail, LogOp)
    <3>1. tail = <<LogCode(f.code)>> \o (<<LogHdr(f.hdr)>> \o <<LogEntry(1, size)>>)
      OBVIOUS
    <3>2. OpsIn(<<LogHdr(f.hdr)>> \o <<LogEntry(1, size)>>, LogOp)
      BY <1>3, <2>1, OpsJoined
    <3>3. OpsIn(<<LogCode(f.code)>>, LogOp)
      BY <1>2
    <3> QED
      BY <3>1, <3>2, <3>3, OpsJoined
  <2> HIDE DEF tail
  <2>3. OpsIn(EraseLogOps(f) \o tail, LogOp)
    BY <1>1, <2>2, OpsJoined
  <2> QED
    BY <2>1, <2>3 DEF LogEntryOps, tail
<1> QED
  BY <1>1, <1>2, <1>3, <1>4, OpsJoined

\* What is queued for a sector, for a buffer of data, and with the magic number.
LEMMA AreaOps ==
  ASSUME NEW f
  PROVE  /\ \A k : OpsIn(EraseOps(k, f), AreaOp)
         /\ \A k, d : OpsIn(Append(EraseOps(k, f), Mark(d)), AreaOp)
         /\ \A at, data : OpsIn(FlushOps(at, data, f), AreaOp)
<1>0. \A q, e : OpsIn(q, AreaOp) /\ IsOp(e, AreaOp) => OpsIn(Append(q, e), AreaOp)
  <2> TAKE q, e
  <2> HAVE OpsIn(q, AreaOp) /\ IsOp(e, AreaOp)
  <2> QED
    BY Appended DEF OpsIn
<1>1. ASSUME NEW k PROVE OpsIn(EraseOps(k, f), AreaOp)
  <2>1. OpsIn(<<EraseSector(k)>>, AreaOp) /\ OpsIn(<<>>, AreaOp)
    BY OpsOne DEF EraseSector, AreaOp, IsOp
  <2> QED
    BY <2>1 DEF EraseOps
<1>2. ASSUME NEW k, NEW d PROVE OpsIn(Append(EraseOps(k, f), Mark(d)), AreaOp)
  BY <1>0, <1>1 DEF Mark, AreaOp, IsOp
<1>3. ASSUME NEW at, NEW data PROVE OpsIn(FlushOps(at, data, f), AreaOp)
  <2> DEFINE pre == Min({(SectorLen - (at % SectorLen)) % SectorLen, Len(data)})
             one == IF pre > 0 THEN <<Program(at, SubSeq(data, 1, pre))>> ELSE <<>>
             two == IF pre < Len(data)
                    THEN Append(EraseOps((at + pre) \div SectorLen, f),
                                Program(at + pre, SubSeq(data, pre + 1, Len(data))))
                    ELSE <<>>
  <2>0. \A a, d : IsOp(Program(a, d), AreaOp)
    BY DEF Program, AreaOp, IsOp
  <2> HIDE DEF pre
  <2>1. OpsIn(one, AreaOp)
    BY <2>0, OpsOne
  <2>2. OpsIn(two, AreaOp)
    BY <2>0, <1>0, <1>1, OpsOne
  <2> HIDE DEF one, two
  <2>3. OpsIn(one \o two, AreaOp)
    BY <2>1, <2>2, OpsJoined
  <2> QED
    BY <2>3 DEF FlushOps, one, two, pre
<1> QED
  BY <1>1, <1>2, <1>3

\* Induction along the positions of a sequence.
LEMMA Upward ==
  ASSUME NEW n \in Nat, NEW G, 0 \in G, \A k \in 1..n : k - 1 \in G => k \in G
  PROVE  \A k \in 0..n : k \in G
<1> DEFINE T == {k \in 0..n : k \notin G}
           R == OpToRel(<, Nat)
<1> SUFFICES ASSUME T # {} PROVE FALSE
  OBVIOUS
<1>1. \E k \in T : \A j \in T : <<j, k>> \notin R
  <2>1. T \subseteq Nat /\ T # {}
    OBVIOUS
  <2> HIDE DEF T
  <2> QED
    BY <2>1, NatLessThanWellFounded, WFMin
<1>2. PICK k \in T : \A j \in T : <<j, k>> \notin R
  BY <1>1
<1>3. \A j \in T : j \in Nat /\ k \in Nat /\ ~(j < k)
  <2>1. k \in Nat /\ T \subseteq Nat
    OBVIOUS
  <2> HIDE DEF T
  <2>2. SUFFICES ASSUME NEW j \in T, j < k PROVE FALSE
    BY <2>1
  <2>3. <<j, k>> \in R
    BY <2>1, <2>2 DEF OpToRel
  <2> QED
    BY <1>2, <2>3
<1> HIDE DEF R
<1>4. k \in 0..n /\ k \notin G /\ k # 0
  BY <1>2
<1>5. k \in 1..n /\ k - 1 \in 0..n /\ k - 1 < k
  BY <1>4
<1>6. k - 1 \notin T
  BY <1>3, <1>5
<1> QED
  BY <1>4, <1>5, <1>6

\* Sequences of operations one after the other.
LEMMA OpsFlattened ==
  ASSUME NEW n \in Nat, NEW s, IsSeq(s), Len(s) = n, NEW T,
         \A i \in 1..n : OpsIn(s[i], T)
  PROVE  OpsIn(FlattenSeq(s), T)
<1>1. CASE n = 0
  <2>1. FlattenSeq(s) = <<>> /\ s = <<>>
    BY <1>1, SeqFacts DEF FlattenSeq
  <2> QED
    BY <2>1, Single DEF OpsIn
<1>2. CASE n # 0
  <2> DEFINE F(h) == [i \in 1..n |-> IF i = 1 THEN s[i] ELSE h[i - 1] \o s[i]]
             flatten == CHOOSE h : h = F(h)
             R(h, m) == h = [i \in 1..m |-> IF i = 1 THEN s[i] ELSE h[i - 1] \o s[i]]
             G == {m \in 0..n : \E h : R(h, m)}
  <2>1. FlattenSeq(s) = flatten[n]
    BY <1>2 DEF FlattenSeq
  <2>2. 0 \in G
    <3> DEFINE h == [i \in 1..0 |-> s[i]]
    <3>1. h = [i \in 1..0 |-> IF i = 1 THEN s[i] ELSE h[i - 1] \o s[i]]
      OBVIOUS
    <3> HIDE DEF h
    <3>2. R(h, 0)
      BY <3>1
    <3> HIDE DEF R
    <3> QED
      BY <3>2
  <2>3. ASSUME NEW m \in 1..n, m - 1 \in G PROVE m \in G
    <3>1. PICK h : R(h, m - 1)
      BY <2>3
    <3> DEFINE v == IF m = 1 THEN s[m] ELSE h[m - 1] \o s[m]
               g == [i \in 1..m |-> IF i = m THEN v ELSE h[i]]
    <3>2. ASSUME NEW i \in 1..m PROVE g[i] = IF i = 1 THEN s[i] ELSE g[i - 1] \o s[i]
      <4>1. CASE i = m
        <5>1. m # 1 => m - 1 \in 1..m /\ m - 1 # m
          OBVIOUS
        <5> QED
          BY <4>1, <5>1
      <4>2. CASE i # m
        <5>1. i \in 1..(m - 1) /\ (i # 1 => i - 1 \in 1..m /\ i - 1 # m)
          BY <4>2
        <5>2. h[i] = IF i = 1 THEN s[i] ELSE h[i - 1] \o s[i]
          BY <3>1, <5>1
        <5> QED
          BY <4>2, <5>1, <5>2
      <4> QED
        BY <4>1, <4>2
    <3>3. g = [i \in 1..m |-> IF i = 1 THEN s[i] ELSE g[i - 1] \o s[i]]
      <4>1. DOMAIN g = 1..m /\ g = [i \in 1..m |-> g[i]]
        OBVIOUS
      <4> HIDE DEF g
      <4> QED
        BY <3>2, <4>1
    <3> HIDE DEF g
    <3>4. R(g, m)
      BY <3>3
    <3> HIDE DEF R
    <3> QED
      BY <3>4
  <2> HIDE DEF G
  <2>4. n \in G
    <3>1. \A k \in 1..n : k - 1 \in G => k \in G
      BY <2>3
    <3>2. \A k \in 0..n : k \in G
      BY <2>2, <3>1, Upward
    <3> QED
      BY <3>2
  <2>5. \E h : h = F(h)
    BY <2>4 DEF G
  <2>6. flatten = F(flatten)
    BY <2>5
  <2> HIDE DEF flatten
  <2> DEFINE P == {m \in 0..n : m = 0 \/ OpsIn(flatten[m], T)}
  <2>7. 0 \in P
    OBVIOUS
  <2> HIDE DEF P
  <2>8. ASSUME NEW m \in 1..n, m - 1 \in P PROVE m \in P
    <3>1. flatten[m] = IF m = 1 THEN s[m] ELSE flatten[m - 1] \o s[m]
      BY <2>6
    <3>2. OpsIn(s[m], T)
      OBVIOUS
    <3>3. CASE m = 1
      BY <3>1, <3>2, <3>3 DEF P
    <3>4. CASE m # 1
      <4>1. OpsIn(flatten[m - 1], T)
        <5>1. m - 1 # 0
          BY <3>4
        <5> QED
          BY <2>8, <5>1 DEF P
      <4>2. OpsIn(flatten[m - 1] \o s[m], T)
        BY <4>1, <3>2, OpsJoined
      <4>3. flatten[m] = flatten[m - 1] \o s[m]
        BY <3>1, <3>4
      <4>4. OpsIn(flatten[m], T)
        BY <4>2, <4>3
      <4> QED
        BY <4>4 DEF P
    <3> QED
      BY <3>3, <3>4
  <2>9. n \in P
    <3>1. \A k \in 1..n : k - 1 \in P => k \in P
      BY <2>8
    <3>2. \A k \in 0..n : k \in P
      BY <2>7, <3>1, Upward
    <3> QED
      BY <3>2
  <2> QED
    BY <1>2, <2>1, <2>9 DEF P
<1> QED
  BY <1>1, <1>2

\* What is queued to erase a segment.
LEMMA SegmentOps ==
  ASSUME NEW at \in Int, NEW len \in Int, NEW f
  PROVE  OpsIn(EraseSegmentOps(at, len, f), AreaOp)
<1> DEFINE first == at \div SectorLen
           count == ((at % SectorLen) + len) \div SectorLen + 1
           s == [i \in 1..count |-> EraseOps(first + i - 1, f)]
           n == IF count > 0 THEN count ELSE 0
<1>1. count \in Int /\ n \in Nat
  BY OtaFlashAssumption
<1> HIDE DEF first, count
<1>2. 1..count = 1..n
  BY <1>1
<1>3. s \in Seq({s[i] : i \in DOMAIN s}) /\ Len(s) = n
  <2>1. s = [i \in 1..n |-> EraseOps(first + i - 1, f)]
    BY <1>2
  <2>2. DOMAIN s = 1..n /\ s = [i \in 1..n |-> s[i]]
    BY <2>1
  <2> HIDE DEF s
  <2>3. s \in [1..n -> {s[i] : i \in DOMAIN s}]
    BY <2>2
  <2>4. s \in Seq({s[i] : i \in DOMAIN s})
    <3> DEFINE S == {s[i] : i \in DOMAIN s}
    <3> HIDE DEF S
    <3>1. s \in [1..n -> S] => s \in Seq(S)
      BY <1>1
    <3> QED
      BY <2>3, <3>1 DEF S
  <2>5. Len(s) = n
    BY <1>1, <2>2
  <2> QED
    BY <2>4, <2>5
<1>4. \A i \in 1..n : OpsIn(s[i], AreaOp)
  BY <1>2, AreaOps
<1>5. IsSeq(s)
  BY <1>3, SeqIs
<1> HIDE DEF s, n
<1>6. OpsIn(FlattenSeq(s), AreaOp)
  BY <1>1, <1>3, <1>4, <1>5, OpsFlattened
<1> QED
  BY <1>6 DEF EraseSegmentOps, s, count, first

\* What is queued for the boot information.
LEMMA BootOpsAre ==
  ASSUME NEW v, NEW f
  PROVE  /\ IsSeq(BootOps(v, f))
         /\ \A i \in DOMAIN BootOps(v, f) :
              BootOps(v, f)[i] \in {EraseBoot, SetBoot(v)}
         /\ \E i \in DOMAIN BootOps(v, f) : BootOps(v, f)[i] = SetBoot(v)
<1> DEFINE p == IF f.boot = "none" THEN <<>> ELSE <<EraseBoot>>
           y == SetBoot(v)
<1>1. BootOps(v, f) = p \o <<y>>
  BY DEF BootOps
<1>2. IsSeq(p) /\ \A i \in DOMAIN p : p[i] = EraseBoot
  BY Single
<1>3. IsSeq(<<y>>) /\ DOMAIN <<y>> = {1} /\ <<y>>[1] = y /\ Len(<<y>>) = 1
  BY Single
<1> DEFINE r == <<y>>
<1> HIDE DEF p, y, r
<1>4. IsSeq(p) /\ IsSeq(r) /\ Len(r) = 1 /\ DOMAIN r = {1} /\ r[1] = y
  BY <1>2, <1>3 DEF r
<1>5. /\ IsSeq(p \o r) /\ Len(p) \in Nat /\ DOMAIN (p \o r) = 1..(Len(p) + Len(r))
      /\ \A i \in DOMAIN r : (p \o r)[Len(p) + i] = r[i]
      /\ \A i \in DOMAIN (p \o r) : \/ i \in DOMAIN p /\ (p \o r)[i] = p[i]
                                    \/ i - Len(p) \in DOMAIN r /\ (p \o r)[i] = r[i - Len(p)]
  BY <1>4, Joined
<1>6. \A i \in DOMAIN (p \o r) : (p \o r)[i] \in {EraseBoot, y}
  BY <1>2, <1>4, <1>5
<1>7. Len(p) + 1 \in DOMAIN (p \o r) /\ (p \o r)[Len(p) + 1] = y
  BY <1>4, <1>5
<1>8. \E i \in DOMAIN (p \o r) : (p \o r)[i] = y
  BY <1>7
<1> QED
  BY <1>1, <1>5, <1>6, <1>8 DEF y, r

\* The last entry of a log is a position of it, or none.
LEMMA LastEntryIs ==
  ASSUME NEW f
  PROVE  LastEntry(f) \in 0..LogLen
<1> DEFINE S == {0} \cup {i \in 1..LogLen : f.log[i] # NoNumber}
           T == {k \in 0..LogLen : LogLen - k \in S}
           R == OpToRel(<, Nat)
<1>0. LogLen \in Nat
  BY OtaFlashAssumption
<1>1. S \subseteq 0..LogLen /\ 0 \in S
  BY <1>0
<1> HIDE DEF S
<1>2. T \subseteq Nat /\ LogLen \in T
  BY <1>0, <1>1
<1>3. PICK k \in T : \A j \in T : <<j, k>> \notin R
  <2> HIDE DEF T
  <2> QED
    BY <1>2, NatLessThanWellFounded, WFMin
<1>4. \A j \in T : ~(j < k)
  <2> SUFFICES ASSUME NEW j \in T, j < k PROVE FALSE
    OBVIOUS
  <2>1. <<j, k>> \in R
    BY <1>2 DEF OpToRel
  <2> QED
    BY <1>3, <2>1
<1>5. \A y \in S : LogLen - k >= y
  <2> TAKE y \in S
  <2>1. y \in 0..LogLen /\ LogLen - y \in 0..LogLen /\ LogLen - (LogLen - y) = y
    BY <1>0, <1>1
  <2>2. LogLen - y \in T
    BY <2>1
  <2> HIDE DEF T
  <2> QED
    BY <1>0, <1>2, <1>4, <2>1, <2>2
<1>6. LogLen - k \in S
  OBVIOUS
<1>7. Max(S) \in S
  BY <1>5, <1>6 DEF Max
<1> QED
  BY <1>1, <1>7 DEF LastEntry, S

-----------------------------------------------------------------------------
(***************************************************************************)
(* The invariant.  First the shape of the state: records have their        *)
(* fields, queues are sequences, and what is counted is a number.          *)
(***************************************************************************)
IsRam(r) ==
  r = [x \in {"stage", "on", "img", "buf", "received", "seg", "bp", "resume", "entry",
              "pending", "permission", "retry", "reset"} |-> r[x]]

IsFlash(f) == f = [x \in {"area", "magic", "code", "hdr", "log", "boot"} |-> f[x]]

IsTws(t) == t = [x \in {"type", "err", "bp", "acked", "inOta"} |-> t[x]]

IsPhone(p) == p = [x \in {"at", "done", "pos", "code"} |-> p[x]]

PacketType == {"resume", "start", "config", "data", "verify", "result", "apply"}

RamFits(r) == IsRam(r) /\ r.received \in Int /\ r.seg \in Int /\ r.bp \in Int

FlashFits(f) == IsFlash(f) /\ f.log \in [1..LogLen -> Int]

OpKind == LogOp \cup AreaOp \cup {"eraseBoot", "boot"}

PacketsFit(q) == \A i \in DOMAIN q : q[i].type \in PacketType

ShapedBud(b) ==
  /\ RamFits(ram[b]) /\ FlashFits(flash[b])
  /\ OpsIn(pend[b], OpKind)
  /\ IsSeq(inbox[b]) /\ PacketsFit(inbox[b])

Shaped ==
  /\ ram = [b \in Bud |-> ram[b]] /\ flash = [b \in Bud |-> flash[b]]
  /\ pend = [b \in Bud |-> pend[b]] /\ inbox = [b \in Bud |-> inbox[b]]
  /\ twsStep = [b \in Bud |-> twsStep[b]]
  /\ IsTws(tws) /\ IsPhone(phone)
  /\ IsSeq(toMaster) /\ IsSeq(toSlave)
  /\ \A b \in Bud : ShapedBud(b)

(***************************************************************************)
(* A handler that waits has its packet at the head of the inbox.  The      *)
(* packets are in the order of the phone's, of which only those of the     *)
(* pages come more than once, and none is ahead of the phone.              *)
(***************************************************************************)
Staged(b) ==
  LET s == ram[b].stage
  IN  s # "idle" =>
        /\ inbox[b] # <<>>
        /\ \/ s = "config" /\ Head(inbox[b]).type = "config"
           \/ s = "data" /\ Head(inbox[b]).type = "data"
           \/ s \in {"verify", "refuse"} /\ Head(inbox[b]).type = "verify"
           \/ s \in {"sanity", "magic", "destroy"} /\ Head(inbox[b]).type = "result"

Rank(type) ==
  CASE type = "resume" -> 0 [] type = "start" -> 1 [] type = "config" -> 2
    [] type = "result" -> 4 [] type = "apply" -> 5 [] OTHER -> 3

Before(x, y) == Rank(x.type) < Rank(y.type) \/ (Rank(x.type) = 3 /\ Rank(y.type) = 3)

OrderedIn(q) == \A i, j \in DOMAIN q : i < j => Before(q[i], q[j])

Ordered(b) == OrderedIn(inbox[b])

Session == phone.at \notin {"idle", "done"}

RanksTo(q, n) == \A i \in DOMAIN q : Rank(q[i].type) <= n

AtMost(b) == Session => RanksTo(inbox[b], Rank(phone.at))

\* A command or response whose handler waits is the first of its queue.
HandlesInOrder ==
  /\ twsStep["master"] # "none" =>
       toMaster # <<>> /\ Head(toMaster).type = twsStep["master"]
  /\ twsStep["slave"] # "none" =>
       toSlave # <<>> /\ Head(toSlave).type = twsStep["slave"]

(***************************************************************************)
(* A bud whose image is verified, or named in its boot information, has    *)
(* all of it, and nothing is queued that would change it.  The boot        *)
(* information names an image only when it is being applied.               *)
(***************************************************************************)
LeavesArea(q) == \A i \in DOMAIN q : q[i].op \notin AreaOp

IntactIn(f, img, q) == f.magic /\ Whole(f, img) /\ LeavesArea(q)

Intact(b) == IntactIn(flash[b], ram[b].img, pend[b])

Names(o) == o.op = "boot" /\ o.boot \in Image

VerifiedIsWhole(b) == ram[b].pending => Intact(b)

BootIsWhole(b) == flash[b].boot \in Image => IntactIn(flash[b], flash[b].boot, pend[b])

NamesTheVerified(b) ==
  \A i \in DOMAIN pend[b] :
    Names(pend[b][i]) => twsStep[b] = "apply" /\ pend[b][i].boot = ram[b].img

(***************************************************************************)
(* Before a packet that writes to the area comes one that gives up the     *)
(* verified image, and one that gives up the named one.                    *)
(***************************************************************************)
Writers == {"data", "verify", "result"}

HasIn(q, type) == \E i \in DOMAIN q : q[i].type = type
Has(b, type) == HasIn(inbox[b], type)

\* A packet that writes, other than the first when it has been seen to.
ToDoIn(q, seen) == \E i \in DOMAIN q : q[i].type \in Writers /\ ~(i = 1 /\ seen)
Seen(b) == ram[b].stage = "destroy"
ToDo(b) == ToDoIn(inbox[b], Seen(b))

StartsFirst(b) == ram[b].pending /\ ToDo(b) => Has(b, "start")

ConfigFirst(b) == flash[b].boot \in Image /\ ToDo(b) => Has(b, "config")

ConfigResets(b) ==
  ram[b].stage = "config" /\ flash[b].boot \in Image =>
    \E i \in DOMAIN pend[b] : pend[b][i] = SetBoot("normal")

\* The bud will hear the next packet of the phone.
WillHear(b) == b = "slave" => link /\ (phone.at = "next" \/ ~AtRest)

Started(b) ==
  Session /\ WillHear(b) /\ Rank(phone.at) \in 1..3 /\ ram[b].pending => Has(b, "start")

Configured(b) ==
  Session /\ WillHear(b) /\ Rank(phone.at) \in 2..3 /\ flash[b].boot \in Image
    => Has(b, "config")

(***************************************************************************)
(* The phone goes on at a break point only when neither bud counts its     *)
(* image as verified.                                                      *)
(***************************************************************************)
Resumed ==
  /\ tws.type = "resume" /\ tws.bp # 0 => ~ram["master"].pending
  /\ phone.at = "resume" =>
       /\ (\E i \in DOMAIN toMaster : toMaster[i].type = "resume" /\ toMaster[i].val # 0) =>
            ~ram["slave"].pending
       /\ answer.kind = "resume" /\ answer.val # 0 =>
            ~ram["master"].pending /\ ~ram["slave"].pending

(***************************************************************************)
(* The master is in step with the phone: it is ready for the answer to the *)
(* packet the phone waits for, or has still to handle it.                  *)
(***************************************************************************)
Quiet == inbox["master"] = <<>> /\ tws.type = "none" /\ tws.err = 0

Only(type) == Len(inbox["master"]) = 1 /\ Head(inbox["master"]).type = type

ReadyFor(type) == tws.type \in {"none", type}

StepResume == answer.kind = "resume" => tws.type \in {"none", "resume"}

StepStart == tws.type \in {"none", "resume", "start"}

StepConfig ==
  /\ tws.type \in {"none", "resume", "start", "config"}
  /\ tws.type = "config" => inbox["master"] = <<>>
  /\ answer.kind = "config" => Quiet

StepAck ==
  /\ tws.err = 0
  /\ \/ Only("data") /\ tws.type = "none" /\ answer.kind # "ack"
     \/ inbox["master"] = <<>> /\ ReadyFor("ack")
  /\ answer.kind = "ack" => tws.type = "none"

StepSegment ==
  /\ \/ Only("verify") /\ tws.type = "none" /\ answer.kind # "segment"
     \/ inbox["master"] = <<>> /\ ReadyFor("segment")
  /\ answer.kind = "segment" => Quiet

Passed == answer.kind = "result" /\ answer.val = 1

StepResult ==
  \/ /\ Only("result") /\ ~Seen("master") /\ tws.type = "none" /\ tws.err = 0
     /\ ~Passed
  \/ /\ inbox["master"] = <<>> \/ (Only("result") /\ Seen("master"))
     /\ ReadyFor("result")
     /\ tws.type = "result" /\ tws.err = 1 => Intact("master")
     /\ Passed => Intact("master")

InStep ==
  /\ phone.at = "resume" => StepResume
  /\ phone.at = "start" => StepStart
  /\ phone.at = "config" => StepConfig
  /\ phone.at = "next" => Quiet
  /\ phone.at = "ack" => StepAck
  /\ phone.at = "segment" => StepSegment
  /\ phone.at = "result" => StepResult

(***************************************************************************)
(* From the phone's apply on, until the last of it has been handled, the   *)
(* image of the master is intact; and from the slave's word that it has    *)
(* verified its own, that of the slave.                                    *)
(***************************************************************************)
\* A command the master has not begun to handle; the slave has verified its image.
ToldIn(q, begun, passed) ==
  \E i \in DOMAIN q : q[i].type = "apply" /\ (passed => q[i].val = 1) /\ ~(i = 1 /\ begun)

Begun == twsStep["master"] = "apply"

ApplyTold == ToldIn(toMaster, Begun, FALSE)

AppliedTold == ToldIn(toMaster, Begun, TRUE)

NotBack == phone.at \in {"apply", "idle", "done"}

MasterIsTold ==
  phone.at = "apply" \/ (link /\ Has("slave", "apply")) \/ ApplyTold \/ Begun

MasterApplies ==
  MasterIsTold =>
    /\ Intact("master") /\ NotBack
    /\ \A i \in DOMAIN inbox["master"] :
         inbox["master"][i].type = "apply" \/ (i = 1 /\ Seen("master"))

SlaveIsTold ==
  AppliedTold \/ HasIn(toSlave, "apply") \/ twsStep["slave"] = "apply"

SlaveApplies == SlaveIsTold => Intact("slave") /\ NotBack /\ inbox["slave"] = <<>>

BudInv(b) ==
  /\ Staged(b) /\ Ordered(b) /\ AtMost(b)
  /\ VerifiedIsWhole(b) /\ BootIsWhole(b) /\ NamesTheVerified(b)
  /\ StartsFirst(b) /\ ConfigFirst(b) /\ ConfigResets(b) /\ Started(b) /\ Configured(b)

OtaInv ==
  /\ Shaped /\ HandlesInOrder
  /\ \A b \in Bud : BudInv(b)
  /\ Resumed /\ InStep /\ MasterApplies /\ SlaveApplies

-----------------------------------------------------------------------------
-----------------------------------------------------------------------------
(***************************************************************************)
(* What the steps of a bud come to.  A handler ends the handling of the    *)
(* packet at the head or goes on to another stage; it queues operations;   *)
(* the image is the same as long as it counts as verified; the master is   *)
(* ready for an answer, or the slave tells it.                             *)
(***************************************************************************)
Ends(b, type) ==
  /\ inbox[b] # <<>> /\ Head(inbox[b]).type = type
  /\ inbox' = [inbox EXCEPT ![b] = Tail(@)]
  /\ ram'[b].stage = "idle"

Goes(b, type, stage) ==
  /\ inbox[b] # <<>> /\ Head(inbox[b]).type = type
  /\ inbox' = inbox
  /\ ram'[b].stage = stage

SameImage(b) == ram'[b].pending => ram[b].pending /\ ram'[b].img = ram[b].img

SameRam(b) == ram'[b].pending = ram[b].pending /\ ram'[b].img = ram[b].img

Queues(b, T) ==
  \E ops : pend' = [pend EXCEPT ![b] = @ \o ops] /\ OpsIn(ops, T)

SaysNothing == UNCHANGED <<tws, toMaster, answer>>

Says(b, type, val, err) ==
  /\ answer' = answer
  /\ b = "master" =>
       /\ toMaster' = toMaster
       /\ tws'.type = type /\ tws'.err = err
       /\ tws'.bp = IF type = "resume" THEN val ELSE tws.bp
  /\ b = "slave" =>
       /\ tws' = tws
       /\ \/ toMaster' = toMaster
          \/ link /\ \E cmd : cmd.type = type /\ cmd.val = val
                              /\ toMaster' = Append(toMaster, cmd)

\* After a page: the answer at once, or ready to give it; or a refusal.
Acks(b) ==
  \/ Says(b, "ack", 0, tws.err)
  \/ /\ b = "master" /\ toMaster' = toMaster
     /\ tws'.type = tws.type /\ tws'.err = tws.err /\ tws'.bp = tws.bp
     /\ answer'.kind = "ack"
  \/ /\ UNCHANGED <<tws, toMaster>>
     /\ IF b = "master" THEN answer'.kind = "result" /\ answer'.val # 1
        ELSE answer' = answer

ResumeDone(b) ==
  /\ ram[b].stage = "idle" /\ Ends(b, "resume") /\ Queues(b, LogOp) /\ SameImage(b)
  /\ \E val : Says(b, "resume", val, tws.err) /\ (val # 0 => ~ram'[b].pending)

StartDone(b) ==
  /\ ram[b].stage = "idle" /\ Ends(b, "start") /\ Queues(b, LogOp)
  /\ ~ram'[b].pending /\ Says(b, "start", 0, tws.err)

ConfigBegun(b) ==
  /\ ram[b].stage = "idle" /\ Goes(b, "config", "config") /\ SameRam(b)
  /\ \E f : pend' = [pend EXCEPT ![b] = @ \o BootOps("normal", f)]
  /\ UNCHANGED <<toMaster, answer>>
  /\ tws'.type = tws.type /\ tws'.err = tws.err /\ tws'.bp = tws.bp
  /\ b = "slave" => tws' = tws

ConfigDone(b) ==
  /\ ram[b].stage = "config" /\ pend[b] = <<>> /\ pend' = pend
  /\ Ends(b, "config") /\ SameRam(b) /\ Says(b, "config", 1, 1)

DataBegun(b) ==
  /\ ram[b].stage = "idle" /\ Goes(b, "data", "data") /\ SameRam(b)
  /\ Queues(b, AreaOp) /\ SaysNothing

DataDone(b) ==
  /\ Ends(b, "data") /\ SameRam(b) /\ pend' = pend /\ Acks(b)

VerifyBegun(b) ==
  /\ ram[b].stage = "idle" /\ Goes(b, "verify", "verify") /\ SameRam(b)
  /\ Queues(b, AreaOp) /\ SaysNothing

VerifyRefused(b) ==
  /\ ram[b].stage = "verify" /\ Goes(b, "verify", "refuse") /\ SameRam(b)
  /\ Queues(b, LogOp) /\ SaysNothing

VerifyDone(b) ==
  /\ ram[b].stage \in {"verify", "refuse"} /\ Ends(b, "verify") /\ SameRam(b)
  /\ Queues(b, LogOp) \/ Queues(b, AreaOp)
  /\ \E val, err : Says(b, "segment", val, err)

ResultBegun(b) ==
  /\ \/ ram[b].stage = "idle" /\ Goes(b, "result", "sanity")
     \/ ram[b].stage = "sanity" /\ Goes(b, "result", "magic")
  /\ SameRam(b) /\ Queues(b, AreaOp) /\ SaysNothing

ResultRefused(b) ==
  /\ ram[b].stage \in {"idle", "sanity"} /\ Ends(b, "result") /\ SameImage(b) /\ pend' = pend
  /\ \E err : err \in {0, tws.err} /\ Says(b, "result", 0, err)

ImageChecked(b) ==
  /\ ram[b].stage = "magic" /\ Goes(b, "result", "destroy") /\ Queues(b, LogOp)
  /\ pend[b] = <<>>
  /\ \/ /\ flash[b].magic /\ Whole(flash[b], ram'[b].img)
        /\ Says(b, "result", 1, 1)
     \/ ~ram'[b].pending /\ Says(b, "result", 0, 0)

ResultDone(b) ==
  /\ ram[b].stage = "destroy" /\ Ends(b, "result") /\ SameRam(b) /\ pend' = pend
  /\ SaysNothing

ApplyDone(b) ==
  /\ ram[b].stage = "idle" /\ Ends(b, "apply") /\ SameRam(b) /\ pend' = pend
  /\ \E err : Says(b, "apply", IF ram[b].pending THEN 1 ELSE 0, err)

BudFrame(b) ==
  /\ \E r : ram' = [ram EXCEPT ![b] = r] /\ RamFits(r)
  /\ UNCHANGED <<flash, link, toSlave, twsStep, phone>>
  /\ IsTws(tws')
  /\ \E o : pend' = [pend EXCEPT ![b] = o]

BudDoes(b) ==
  \/ ResumeDone(b) \/ StartDone(b) \/ ConfigBegun(b) \/ ConfigDone(b)
  \/ DataBegun(b) \/ DataDone(b) \/ VerifyBegun(b) \/ VerifyRefused(b) \/ VerifyDone(b)
  \/ ResultBegun(b) \/ ResultRefused(b) \/ ImageChecked(b) \/ ResultDone(b) \/ ApplyDone(b)

\* Resetting the environment.
LEMMA ResetEnvIs ==
  ASSUME NEW r, RamFits(r)
  PROVE  /\ RamFits(ResetEnv(r)) /\ ~ResetEnv(r).pending
         /\ ResetEnv(r).stage = r.stage /\ ResetEnv(r).img = r.img
<1> DEFINE bp == IF r.resume THEN r.bp ELSE 0
           entry == IF r.resume THEN r.entry ELSE 0
           s == [r EXCEPT !.buf = <<>>, !.received = 0, !.seg = 0, !.on = FALSE,
                          !.pending = FALSE, !.bp = bp, !.entry = entry]
<1>1. IsRam(r) /\ r.bp \in Int
  BY DEF RamFits
<1>2. ResetEnv(r) = s
  BY <1>1 DEF ResetEnv, IsRam
<1>3. bp \in Int
  BY <1>1
<1> HIDE DEF bp, entry
<1>4. /\ IsRam(s) /\ s.pending = FALSE /\ s.stage = r.stage /\ s.img = r.img
      /\ s.received = 0 /\ s.seg = 0 /\ s.bp = bp
  BY <1>1 DEF IsRam
<1> QED
  BY <1>2, <1>3, <1>4 DEF RamFits, s, bp, entry

\* A handler that returns.
LEMMA Returned ==
  ASSUME Shaped, NEW b \in Bud, NEW r, RamFits(r), Returns(b, r), NEW type,
         inbox[b] # <<>>, Head(inbox[b]).type = type
  PROVE  /\ Ends(b, type)
         /\ \E s : ram' = [ram EXCEPT ![b] = s] /\ RamFits(s)
         /\ ram'[b].pending = r.pending /\ ram'[b].img = r.img
<1> DEFINE s == [r EXCEPT !.stage = "idle"]
<1>1. RamFits(s) /\ s.stage = "idle" /\ s.pending = r.pending /\ s.img = r.img
  BY DEF RamFits, IsRam
<1>2. ram' = [ram EXCEPT ![b] = s] /\ inbox' = [inbox EXCEPT ![b] = Tail(@)]
  BY DEF Returns
<1> HIDE DEF s
<1>3. ram'[b] = s
  BY <1>2 DEF Shaped
<1> QED
  BY <1>1, <1>2, <1>3 DEF Ends

\* A handler that goes on.
LEMMA WentOn ==
  ASSUME Shaped, NEW b \in Bud, NEW r, RamFits(r), NEW stage, GoesOn(b, r, stage), NEW type,
         inbox[b] # <<>>, Head(inbox[b]).type = type
  PROVE  /\ Goes(b, type, stage)
         /\ \E s : ram' = [ram EXCEPT ![b] = s] /\ RamFits(s)
         /\ ram'[b].pending = r.pending /\ ram'[b].img = r.img
<1> DEFINE s == [r EXCEPT !.stage = stage]
<1>1. RamFits(s) /\ s.stage = stage /\ s.pending = r.pending /\ s.img = r.img
  BY DEF RamFits, IsRam
<1>2. ram' = [ram EXCEPT ![b] = s] /\ inbox' = inbox
  BY DEF GoesOn
<1> HIDE DEF s
<1>3. ram'[b] = s
  BY <1>2 DEF Shaped
<1> QED
  BY <1>1, <1>2, <1>3 DEF Goes

\* What a bud tells.
LEMMA TellsIs ==
  ASSUME NEW b \in Bud, NEW t, IsTws(t), t.bp = tws.bp, NEW cmd, NEW err,
         IsTws(tws), TellsFrom(b, t, cmd, err), answer' = answer
  PROVE  Says(b, cmd.type, cmd.val, err) /\ IsTws(tws')
<1>1. CASE b = "master"
  <2>1. /\ tws' = [t EXCEPT !.type = cmd.type, !.err = err,
                            !.bp = IF cmd.type = "resume" THEN cmd.val ELSE @]
        /\ toMaster' = toMaster
    BY <1>1 DEF TellsFrom
  <2>2. /\ IsTws(tws') /\ tws'.type = cmd.type /\ tws'.err = err
        /\ tws'.bp = IF cmd.type = "resume" THEN cmd.val ELSE t.bp
    BY <2>1 DEF IsTws
  <2> QED
    BY <1>1, <2>1, <2>2 DEF Says
<1>2. CASE b = "slave"
  <2>1. tws' = tws /\ toMaster' = IF link THEN Append(toMaster, cmd) ELSE toMaster
    BY <1>2 DEF TellsFrom
  <2> QED
    BY <1>2, <2>1 DEF Says
<1> QED
  BY <1>1, <1>2 DEF Bud

\* The commands.
LEMMA CmdIs ==
  ASSUME NEW type, NEW val
  PROVE  Cmd(type, val).type = type /\ Cmd(type, val).val = val
BY DEF Cmd

\* Operations queued.
LEMMA Queued ==
  ASSUME NEW b \in Bud, NEW ops, NEW T, Queue(b, ops), OpsIn(ops, T)
  PROVE  Queues(b, T)
BY DEF Queue, Queues

\* Entering and leaving the state of an update.
LEMMA EnteredExited ==
  ASSUME IsTws(tws)
  PROVE  /\ IsTws(Entered) /\ Entered.type = tws.type /\ Entered.err = tws.err
         /\ Entered.bp = tws.bp
         /\ IsTws(Exited) /\ Exited.bp = tws.bp
BY DEF IsTws, Entered, Exited

\* What the log says.
LEMMA LookedIs ==
  ASSUME Shaped, NEW b \in Bud
  PROVE  /\ RamFits(Looked(b)) /\ Looked(b).pending = ram[b].pending
         /\ Looked(b).img = ram[b].img
<1>1. RamFits(ram[b]) /\ FlashFits(flash[b])
  BY DEF Shaped, ShapedBud
<1>2. PICK e : e = LastEntry(flash[b]) /\ e \in 0..LogLen
  BY LastEntryIs
<1> DEFINE n == IF e = 0 THEN 0 ELSE flash[b].log[e]
<1>3. n \in Int
  <2>1. e # 0 => e \in 1..LogLen
    BY <1>2, OtaFlashAssumption
  <2>2. flash[b].log \in [1..LogLen -> Int]
    BY <1>1 DEF FlashFits
  <2>3. e # 0 => flash[b].log[e] \in Int
    BY <2>1, <2>2
  <2> QED
    BY <2>3
<1>4. Looked(b) = [ram[b] EXCEPT !.entry = e, !.bp = n, !.resume = n # 0]
  BY <1>2 DEF Looked
<1> HIDE DEF n
<1> QED
  BY <1>1, <1>3, <1>4 DEF RamFits, IsRam

\* What a step of bud b leaves alone.
BudRest(b) == UNCHANGED <<toSlave, twsStep, worldVars>>

\* What Shaped says of a bud.
LEMMA ShapedOf ==
  ASSUME Shaped, NEW b \in Bud
  PROVE  /\ RamFits(ram[b]) /\ FlashFits(flash[b]) /\ IsTws(tws) /\ IsPhone(phone)
         /\ IsSeq(pend[b]) /\ IsSeq(inbox[b])
BY DEF Shaped, ShapedBud, OpsIn

\* No operations queued.
LEMMA NothingQueued ==
  ASSUME Shaped, pend' = pend, NEW b \in Bud, NEW T
  PROVE  Queues(b, T) /\ \E o : pend' = [pend EXCEPT ![b] = o]
<1>1. IsSeq(pend[b])
  BY ShapedOf
<1>2. pend[b] \o <<>> = pend[b]
  BY <1>1, ConcatEmptySeq DEF IsSeq
<1>3. pend' = [pend EXCEPT ![b] = @ \o <<>>]
  BY <1>2 DEF Shaped
<1>4. OpsIn(<<>>, T)
  BY Single DEF OpsIn
<1> QED
  BY <1>3, <1>4 DEF Queues

\* The frame of a step of bud b.
LEMMA Framed ==
  ASSUME Shaped, NEW b \in Bud, BudRest(b), UNCHANGED <<flash, link>>, IsTws(tws'),
         \E s : ram' = [ram EXCEPT ![b] = s] /\ RamFits(s),
         pend' = pend \/ \E ops : Queue(b, ops)
  PROVE  BudFrame(b)
<1>1. \E o : pend' = [pend EXCEPT ![b] = o]
  <2>1. CASE pend' = pend
    BY <2>1, NothingQueued
  <2>2. CASE \E ops : Queue(b, ops)
    BY <2>2 DEF Queue
  <2> QED
    BY <2>1, <2>2
<1> QED
  BY <1>1 DEF BudFrame, BudRest, worldVars

\* OTA_COMMAND_RESUME_VERIFY, the code is the one of the log.
LEMMA ResumeMatchesDoes ==
  ASSUME Shaped, NEW b \in Bud, BudRest(b), ResumeMatches(b)
  PROVE  BudFrame(b) /\ ResumeDone(b)
<1> DEFINE r == [ResetEnv(Looked(b)) EXCEPT !.on = TRUE, !.img = flash[b].hdr]
           cmd == [type |-> "resume", val |-> Looked(b).bp, code |-> Head(inbox[b]).code]
<1>1. RamFits(r) /\ ~r.pending
  <2>1. RamFits(ResetEnv(Looked(b))) /\ ~ResetEnv(Looked(b)).pending
    BY LookedIs, ResetEnvIs
  <2> QED
    BY <2>1 DEF RamFits, IsRam
<1>2. /\ Returns(b, r) /\ Tells(b, cmd, tws.err) /\ UNCHANGED <<flash, pend, link, answer>>
      /\ inbox[b] # <<>> /\ Head(inbox[b]).type = "resume" /\ ram[b].stage = "idle"
  BY DEF ResumeMatches, Handles
<1> HIDE DEF r
<1>3. /\ Ends(b, "resume") /\ ~ram'[b].pending
      /\ \E s : ram' = [ram EXCEPT ![b] = s] /\ RamFits(s)
  BY <1>1, <1>2, Returned
<1>4. cmd.type = "resume"
  OBVIOUS
<1> HIDE DEF cmd
<1>5. Says(b, "resume", cmd.val, tws.err) /\ IsTws(tws')
  BY <1>2, <1>4, ShapedOf, TellsIs DEF Tells
<1>6. Queues(b, LogOp)
  BY <1>2, NothingQueued
<1>7. BudFrame(b)
  BY <1>2, <1>3, <1>5, Framed
<1> QED
  BY <1>2, <1>3, <1>5, <1>6, <1>7 DEF ResumeDone, SameImage

\* The log says nothing of use.
LEMMA NothingFound ==
  ASSUME NEW q, RamFits(q), NEW r, r = [q EXCEPT !.bp = 0, !.resume = FALSE]
  PROVE  RamFits(r) /\ r.pending = q.pending /\ r.img = q.img
<1>1. IsRam(q)
  BY DEF RamFits
<1>2. /\ IsRam(r) /\ r.bp = 0 /\ r.received = q.received /\ r.seg = q.seg
      /\ r.pending = q.pending /\ r.img = q.img
  BY <1>1 DEF IsRam
<1> QED
  BY <1>2 DEF RamFits

\* OTA_COMMAND_RESUME_VERIFY, there is nothing to go on with.
LEMMA ResumeNoneDoes ==
  ASSUME Shaped, NEW b \in Bud, NEW fresh, BudRest(b), ResumeNone(b, fresh)
  PROVE  BudFrame(b) /\ ResumeDone(b)
<1> DEFINE r == [Looked(b) EXCEPT !.bp = 0, !.resume = FALSE]
           cmd == [type |-> "resume", val |-> 0, code |-> fresh]
           ops == EraseLogOps(flash[b]) \o <<LogCode(fresh)>>
<1>1. RamFits(r) /\ r.pending = ram[b].pending /\ r.img = ram[b].img
  <2>1. PICK q : /\ q = Looked(b) /\ RamFits(q) /\ q.pending = ram[b].pending
                 /\ q.img = ram[b].img
    BY LookedIs
  <2>2. r = [q EXCEPT !.bp = 0, !.resume = FALSE]
    BY <2>1
  <2> HIDE DEF r
  <2>3. RamFits(r) /\ r.pending = q.pending /\ r.img = q.img
    BY <2>1, <2>2, NothingFound
  <2> QED
    BY <2>1, <2>3
<1>2. /\ Returns(b, r) /\ Tells(b, cmd, tws.err) /\ UNCHANGED <<flash, link, answer>>
      /\ inbox[b] # <<>> /\ Head(inbox[b]).type = "resume" /\ ram[b].stage = "idle"
      /\ Queue(b, ops) \/ pend' = pend
  BY DEF ResumeNone, Handles
<1> HIDE DEF r
<1>3. /\ Ends(b, "resume") /\ ram'[b].pending = r.pending /\ ram'[b].img = r.img
      /\ \E s : ram' = [ram EXCEPT ![b] = s] /\ RamFits(s)
  BY <1>1, <1>2, Returned
<1>4. cmd.type = "resume" /\ cmd.val = 0
  OBVIOUS
<1> HIDE DEF cmd
<1>5. Says(b, "resume", 0, tws.err) /\ IsTws(tws')
  BY <1>2, <1>4, ShapedOf, TellsIs DEF Tells
<1>6. OpsIn(ops, LogOp)
  BY LogOps
<1> HIDE DEF ops
<1>7. Queues(b, LogOp)
  BY <1>2, <1>6, Queued, NothingQueued
<1>8. BudFrame(b)
  BY <1>2, <1>3, <1>5, Framed
<1> QED
  BY <1>1, <1>2, <1>3, <1>5, <1>7, <1>8 DEF ResumeDone, SameImage

\* OTA_COMMAND_START.
LEMMA StartDoes ==
  ASSUME Shaped, NEW b \in Bud, BudRest(b), Start(b)
  PROVE  BudFrame(b) /\ StartDone(b)
<1> DEFINE r == [ResetEnv(ram[b]) EXCEPT !.img = New, !.on = TRUE]
           ops == <<LogHdr(New)>>
<1>1. RamFits(r) /\ ~r.pending
  <2>1. RamFits(ResetEnv(ram[b])) /\ ~ResetEnv(ram[b]).pending
    BY ShapedOf, ResetEnvIs
  <2> QED
    BY <2>1 DEF RamFits, IsRam
<1>2. /\ Returns(b, r) /\ Tells(b, Cmd("start", 0), tws.err) /\ UNCHANGED <<flash, link, answer>>
      /\ inbox[b] # <<>> /\ Head(inbox[b]).type = "start" /\ ram[b].stage = "idle"
      /\ Queue(b, ops)
  BY DEF Start, Handles
<1> HIDE DEF r
<1>3. /\ Ends(b, "start") /\ ~ram'[b].pending
      /\ \E s : ram' = [ram EXCEPT ![b] = s] /\ RamFits(s)
  BY <1>1, <1>2, Returned
<1>4. Says(b, "start", 0, tws.err) /\ IsTws(tws')
  BY <1>2, ShapedOf, TellsIs, CmdIs DEF Tells
<1>5. OpsIn(ops, LogOp)
  BY LogOps
<1> HIDE DEF ops
<1>6. Queues(b, LogOp)
  BY <1>2, <1>5, Queued
<1>7. BudFrame(b)
  BY <1>2, <1>3, <1>4, Framed
<1> QED
  BY <1>2, <1>3, <1>4, <1>6, <1>7 DEF StartDone

\* OTA_COMMAND_CONFIG_OTA.
LEMMA ConfigDoes ==
  ASSUME Shaped, NEW b \in Bud, BudRest(b), Config(b)
  PROVE  BudFrame(b) /\ ConfigBegun(b)
<1> DEFINE r == IF ram[b].resume THEN [ram[b] EXCEPT !.received = ram[b].bp, !.seg = ram[b].bp]
                ELSE ram[b]
           ops == BootOps("normal", flash[b])
<1>1. RamFits(r) /\ r.pending = ram[b].pending /\ r.img = ram[b].img
  <2>1. RamFits(ram[b])
    BY ShapedOf
  <2>2. CASE ram[b].resume
    BY <2>1, <2>2 DEF RamFits, IsRam
  <2>3. CASE ~ram[b].resume
    BY <2>1, <2>3
  <2> QED
    BY <2>2, <2>3
<1>2. /\ GoesOn(b, r, "config") /\ UNCHANGED <<flash, toMaster, link, answer>>
      /\ inbox[b] # <<>> /\ Head(inbox[b]).type = "config" /\ ram[b].stage = "idle"
      /\ Queue(b, ops) /\ (tws' = Entered \/ tws' = tws) /\ (b = "slave" => tws' = tws)
  BY DEF Config, Handles
<1> HIDE DEF r
<1>3. /\ Goes(b, "config", "config")
      /\ ram'[b].pending = r.pending /\ ram'[b].img = r.img
      /\ \E s : ram' = [ram EXCEPT ![b] = s] /\ RamFits(s)
  BY <1>1, <1>2, WentOn
<1>4. IsTws(tws') /\ tws'.type = tws.type /\ tws'.err = tws.err /\ tws'.bp = tws.bp
  BY <1>2, ShapedOf, EnteredExited
<1>5. BudFrame(b)
  BY <1>2, <1>3, <1>4, Framed
<1>6. \E f : pend' = [pend EXCEPT ![b] = @ \o BootOps("normal", f)]
  BY <1>2 DEF Queue
<1> QED
  BY <1>1, <1>2, <1>3, <1>4, <1>5, <1>6 DEF ConfigBegun, SameRam

\* The boot information is NORMAL_BOOT.
LEMMA FinishConfigDoes ==
  ASSUME Shaped, NEW b \in Bud, BudRest(b), FinishConfig(b), Staged(b)
  PROVE  BudFrame(b) /\ ConfigDone(b)
<1>1. /\ Returns(b, ram[b]) /\ Tells(b, Cmd("config", 1), 1)
      /\ UNCHANGED <<flash, pend, link, answer>>
      /\ ram[b].stage = "config" /\ pend[b] = <<>>
  BY DEF FinishConfig, Waits, Flushed
<1>2. inbox[b] # <<>> /\ Head(inbox[b]).type = "config"
  BY <1>1 DEF Staged
<1>3. /\ Ends(b, "config") /\ SameRam(b)
      /\ \E s : ram' = [ram EXCEPT ![b] = s] /\ RamFits(s)
  BY <1>1, <1>2, ShapedOf, Returned DEF SameRam
<1>4. Says(b, "config", 1, 1) /\ IsTws(tws')
  BY <1>1, ShapedOf, TellsIs, CmdIs DEF Tells
<1>5. BudFrame(b)
  BY <1>1, <1>3, <1>4, Framed
<1> QED
  BY <1>1, <1>3, <1>4, <1>5 DEF ConfigDone

\* The acknowledgement of a page, or its refusal.
LEMMA AcksIs ==
  ASSUME Shaped, NEW b \in Bud,
         \/ Ack(b)
         \/ /\ \E why : why # 1 /\ Refuse(b, why)
            /\ UNCHANGED <<tws, toMaster>>
  PROVE  Acks(b) /\ IsTws(tws')
<1>0. IsTws(tws)
  BY ShapedOf
<1>1. CASE Ack(b)
  <2>1. CASE b = "master" /\ tws.acked
    <3>1. /\ Answer("ack", 0) /\ tws' = [tws EXCEPT !.acked = FALSE] /\ toMaster' = toMaster
      BY <1>1, <2>1 DEF Ack
    <3>2. /\ IsTws(tws') /\ tws'.type = tws.type /\ tws'.err = tws.err /\ tws'.bp = tws.bp
          /\ answer'.kind = "ack"
      BY <1>0, <3>1 DEF IsTws, Answer
    <3> QED
      BY <2>1, <3>1, <3>2 DEF Acks
  <2>2. CASE ~(b = "master" /\ tws.acked)
    <3>1. Tells(b, Cmd("ack", 0), tws.err) /\ answer' = answer
      BY <1>1, <2>2 DEF Ack
    <3>2. Says(b, "ack", 0, tws.err) /\ IsTws(tws')
      BY <1>0, <3>1, TellsIs, CmdIs DEF Tells
    <3> QED
      BY <3>2 DEF Acks
  <2> QED
    BY <2>1, <2>2
<1>2. CASE /\ \E why : why # 1 /\ Refuse(b, why)
           /\ UNCHANGED <<tws, toMaster>>
  <2>1. PICK why : why # 1 /\ Refuse(b, why)
    BY <1>2
  <2>2. IF b = "master" THEN answer'.kind = "result" /\ answer'.val # 1
        ELSE answer' = answer
    BY <2>1 DEF Refuse, Answer
  <2> QED
    BY <1>0, <1>2, <2>2 DEF Acks
<1> QED
  BY <1>1, <1>2

\* A page received.
LEMMA ReceivedDoes ==
  ASSUME Shaped, NEW b \in Bud, BudRest(b), NEW r, Received(b, r), RamFits(r),
         r.pending = ram[b].pending, r.img = ram[b].img,
         inbox[b] # <<>>, Head(inbox[b]).type = "data", UNCHANGED <<flash, pend, link>>
  PROVE  BudFrame(b) /\ DataDone(b)
<1> DEFINE s == [r EXCEPT !.received = @ + 1]
<1>1. RamFits(s) /\ s.pending = r.pending /\ s.img = r.img
  BY DEF RamFits, IsRam
<1>2. Returns(b, s)
  BY DEF Received
<1>3. \/ Ack(b)
      \/ /\ \E why : why # 1 /\ Refuse(b, why)
         /\ UNCHANGED <<tws, toMaster>>
  <2>1. \/ Ack(b)
        \/ Refuse(b, OTA_RESULT_ERR_RECV_SIZE) /\ UNCHANGED <<tws, toMaster>>
    BY DEF Received
  <2>2. OTA_RESULT_ERR_RECV_SIZE # 1
    BY DEF OTA_RESULT_ERR_RECV_SIZE
  <2> QED
    BY <2>1, <2>2
<1> HIDE DEF s
<1>4. /\ Ends(b, "data") /\ SameRam(b)
      /\ \E t : ram' = [ram EXCEPT ![b] = t] /\ RamFits(t)
  BY <1>1, <1>2, Returned DEF SameRam
<1>5. Acks(b) /\ IsTws(tws')
  BY <1>3, AcksIs
<1>6. BudFrame(b)
  BY <1>4, <1>5, Framed
<1> QED
  BY <1>4, <1>5, <1>6 DEF DataDone

\* OTA_DATA_PACKET refused.
LEMMA RefuseDataDoes ==
  ASSUME Shaped, NEW b \in Bud, BudRest(b), RefuseData(b)
  PROVE  BudFrame(b) /\ DataDone(b)
<1>1. /\ Returns(b, ram[b]) /\ Refuse(b, 0) /\ UNCHANGED <<flash, pend, tws, toMaster, link>>
      /\ inbox[b] # <<>> /\ Head(inbox[b]).type = "data"
  BY DEF RefuseData, Handles
<1>2. /\ Ends(b, "data") /\ SameRam(b)
      /\ \E t : ram' = [ram EXCEPT ![b] = t] /\ RamFits(t)
  BY <1>1, ShapedOf, Returned DEF SameRam
<1>3. \E why : why # 1 /\ Refuse(b, why)
  BY <1>1
<1>4. Acks(b) /\ IsTws(tws')
  BY <1>1, <1>3, AcksIs
<1>5. BudFrame(b)
  BY <1>1, <1>2, <1>4, Framed
<1> QED
  BY <1>1, <1>2, <1>4, <1>5 DEF DataDone

\* OTA_DATA_PACKET.
LEMMA TakeDataDoes ==
  ASSUME Shaped, NEW b \in Bud, BudRest(b), TakeData(b)
  PROVE  BudFrame(b) /\ (DataBegun(b) \/ DataDone(b))
<1> DEFINE p == Head(inbox[b])
           buf == Append(ram[b].buf, IF p.at = ram[b].received THEN p.data[b] ELSE Garbled)
           r == [ram[b] EXCEPT !.buf = buf]
           s == [ram[b] EXCEPT !.buf = <<>>]
           ops == FlushOps(ram[b].received - Len(ram[b].buf), buf, flash[b])
<1>1. /\ \/ Received(b, r) /\ pend' = pend
         \/ GoesOn(b, s, "data") /\ Queue(b, ops) /\ UNCHANGED <<tws, toMaster, answer>>
      /\ UNCHANGED <<flash, link>>
      /\ inbox[b] # <<>> /\ Head(inbox[b]).type = "data" /\ ram[b].stage = "idle"
  BY DEF TakeData, Handles
<1> HIDE DEF buf
<1>2. /\ RamFits(r) /\ r.pending = ram[b].pending /\ r.img = ram[b].img
      /\ RamFits(s) /\ s.pending = ram[b].pending /\ s.img = ram[b].img
  <2>1. RamFits(ram[b])
    BY ShapedOf
  <2> QED
    BY <2>1 DEF RamFits, IsRam
<1> HIDE DEF r, s
<1>3. CASE Received(b, r) /\ pend' = pend
  BY <1>1, <1>2, <1>3, ReceivedDoes
<1>4. CASE GoesOn(b, s, "data") /\ Queue(b, ops) /\ UNCHANGED <<tws, toMaster, answer>>
  <2>1. /\ Goes(b, "data", "data") /\ SameRam(b)
        /\ \E t : ram' = [ram EXCEPT ![b] = t] /\ RamFits(t)
    BY <1>1, <1>2, <1>4, WentOn DEF SameRam
  <2>2. OpsIn(ops, AreaOp)
    BY AreaOps
  <2> HIDE DEF ops
  <2>3. Queues(b, AreaOp)
    BY <1>4, <2>2, Queued
  <2>4. IsTws(tws')
    BY <1>4, ShapedOf
  <2>5. BudFrame(b)
    BY <1>1, <1>4, <2>1, <2>4, Framed
  <2> QED
    BY <1>1, <1>4, <2>1, <2>3, <2>5 DEF DataBegun, SaysNothing
<1> QED
  BY <1>1, <1>3, <1>4

\* The pages are programmed.
LEMMA FinishDataDoes ==
  ASSUME Shaped, NEW b \in Bud, BudRest(b), FinishData(b), Staged(b)
  PROVE  BudFrame(b) /\ DataDone(b)
<1>1. /\ Received(b, ram[b]) /\ UNCHANGED <<flash, pend, link>> /\ ram[b].stage = "data"
  BY DEF FinishData, Waits
<1>2. inbox[b] # <<>> /\ Head(inbox[b]).type = "data"
  BY <1>1 DEF Staged
<1> QED
  BY <1>1, <1>2, ShapedOf, ReceivedDoes

\* A handler that goes on, queues something and says nothing.
LEMMA GoesQuietly ==
  ASSUME Shaped, NEW b \in Bud, BudRest(b), NEW r, RamFits(r), NEW stage, NEW type, NEW ops,
         NEW T, GoesOn(b, r, stage), inbox[b] # <<>>, Head(inbox[b]).type = type,
         r.pending = ram[b].pending, r.img = ram[b].img,
         Queue(b, ops), OpsIn(ops, T), UNCHANGED <<flash, tws, toMaster, link, answer>>
  PROVE  BudFrame(b) /\ Goes(b, type, stage) /\ SameRam(b) /\ Queues(b, T) /\ SaysNothing
<1>1. /\ Goes(b, type, stage) /\ SameRam(b)
      /\ \E t : ram' = [ram EXCEPT ![b] = t] /\ RamFits(t)
  BY WentOn DEF SameRam
<1>2. Queues(b, T)
  BY Queued
<1>3. IsTws(tws')
  BY ShapedOf
<1>4. BudFrame(b)
  BY <1>1, <1>3, Framed
<1> QED
  BY <1>1, <1>2, <1>4 DEF SaysNothing

\* A handler that returns and says something.
LEMMA EndsSaying ==
  ASSUME Shaped, NEW b \in Bud, BudRest(b), NEW r, RamFits(r), NEW type,
         Returns(b, r), inbox[b] # <<>>, Head(inbox[b]).type = type,
         NEW kind, NEW val, NEW err, NEW t, IsTws(t), t.bp = tws.bp,
         TellsFrom(b, t, Cmd(kind, val), err), UNCHANGED <<flash, link, answer>>,
         pend' = pend \/ \E ops : Queue(b, ops)
  PROVE  /\ BudFrame(b) /\ Ends(b, type) /\ Says(b, kind, val, err)
         /\ ram'[b].pending = r.pending /\ ram'[b].img = r.img
<1>1. /\ Ends(b, type) /\ ram'[b].pending = r.pending /\ ram'[b].img = r.img
      /\ \E s : ram' = [ram EXCEPT ![b] = s] /\ RamFits(s)
  BY Returned
<1>2. Says(b, kind, val, err) /\ IsTws(tws')
  BY ShapedOf, TellsIs, CmdIs
<1>3. BudFrame(b)
  BY <1>1, <1>2, Framed
<1> QED
  BY <1>1, <1>2, <1>3

\* OTA_COMMAND_SEGMENT_VERIFY.
LEMMA TakeVerifyDoes ==
  ASSUME Shaped, NEW b \in Bud, BudRest(b), TakeVerify(b)
  PROVE  BudFrame(b) /\ VerifyBegun(b)
<1> DEFINE r == [ram[b] EXCEPT !.buf = <<>>]
           ops == FlushOps(ram[b].received - Len(ram[b].buf), ram[b].buf, flash[b])
<1>1. /\ GoesOn(b, r, "verify") /\ Queue(b, ops)
      /\ UNCHANGED <<flash, tws, toMaster, link, answer>>
      /\ inbox[b] # <<>> /\ Head(inbox[b]).type = "verify" /\ ram[b].stage = "idle"
  BY DEF TakeVerify, Handles
<1>2. RamFits(r) /\ r.pending = ram[b].pending /\ r.img = ram[b].img
  <2>1. RamFits(ram[b])
    BY ShapedOf
  <2> QED
    BY <2>1 DEF RamFits, IsRam
<1>3. OpsIn(ops, AreaOp)
  BY AreaOps
<1> HIDE DEF r, ops
<1>4. BudFrame(b) /\ Goes(b, "verify", "verify") /\ SameRam(b) /\ Queues(b, AreaOp) /\ SaysNothing
  BY <1>1, <1>2, <1>3, GoesQuietly
<1> QED
  BY <1>1, <1>4 DEF VerifyBegun

\* The segment is intact.
LEMMA VerifyPassesDoes ==
  ASSUME Shaped, NEW b \in Bud, BudRest(b), VerifyPasses(b), Staged(b)
  PROVE  BudFrame(b) /\ VerifyDone(b)
<1> DEFINE n == ram[b].entry + 1
           r == [ram[b] EXCEPT !.on = TRUE, !.retry = MAX_SEG_VERIFY_RETEY,
                               !.seg = ram[b].received, !.entry = IF n <= LogLen THEN n ELSE 1]
           ops == LogEntryOps(n, ram[b].received, flash[b])
<1>1. /\ Returns(b, r) /\ Queue(b, ops) /\ TellsFrom(b, tws, Cmd("segment", 1), 1)
      /\ UNCHANGED <<flash, link, answer>> /\ ram[b].stage = "verify"
  BY DEF VerifyPasses, Waits, Tells
<1>2. inbox[b] # <<>> /\ Head(inbox[b]).type = "verify"
  BY <1>1 DEF Staged
<1>3. RamFits(ram[b]) /\ IsTws(tws)
  BY ShapedOf
<1> HIDE DEF n
<1>4. RamFits(r) /\ r.pending = ram[b].pending /\ r.img = ram[b].img
  BY <1>3 DEF RamFits, IsRam
<1>5. OpsIn(ops, LogOp)
  BY <1>3, LogOps DEF RamFits
<1> HIDE DEF r, ops
<1>6. /\ BudFrame(b) /\ Ends(b, "verify") /\ Says(b, "segment", 1, 1)
      /\ ram'[b].pending = r.pending /\ ram'[b].img = r.img
  BY <1>1, <1>2, <1>3, <1>4, EndsSaying
<1>7. Queues(b, LogOp)
  BY <1>1, <1>5, Queued
<1> QED
  BY <1>1, <1>4, <1>6, <1>7 DEF VerifyDone, SameRam

\* It is not, and is asked for again.
LEMMA VerifyFailsDoes ==
  ASSUME Shaped, NEW b \in Bud, BudRest(b), VerifyFails(b), Staged(b)
  PROVE  BudFrame(b) /\ VerifyDone(b)
<1> DEFINE r == [ram[b] EXCEPT !.retry = @ - 1, !.received = ram[b].seg]
           ops == EraseSegmentOps(ram[b].seg, ram[b].received - ram[b].seg, flash[b])
<1>1. /\ Returns(b, r) /\ Queue(b, ops) /\ TellsFrom(b, tws, Cmd("segment", 0), tws.err)
      /\ UNCHANGED <<flash, link, answer>> /\ ram[b].stage = "verify"
  BY DEF VerifyFails, Waits, Tells
<1>2. inbox[b] # <<>> /\ Head(inbox[b]).type = "verify"
  BY <1>1 DEF Staged
<1>3. RamFits(ram[b]) /\ IsTws(tws)
  BY ShapedOf
<1>4. RamFits(r) /\ r.pending = ram[b].pending /\ r.img = ram[b].img
  BY <1>3 DEF RamFits, IsRam
<1>5. OpsIn(ops, AreaOp)
  <2>1. ram[b].seg \in Int /\ ram[b].received - ram[b].seg \in Int
    BY <1>3 DEF RamFits
  <2> QED
    BY <2>1, SegmentOps
<1> HIDE DEF r, ops
<1>6. /\ BudFrame(b) /\ Ends(b, "verify") /\ Says(b, "segment", 0, tws.err)
      /\ ram'[b].pending = r.pending /\ ram'[b].img = r.img
  BY <1>1, <1>2, <1>3, <1>4, EndsSaying
<1>7. Queues(b, AreaOp)
  BY <1>1, <1>5, Queued
<1> QED
  BY <1>1, <1>4, <1>6, <1>7 DEF VerifyDone, SameRam

\* It has failed for the third time.
LEMMA VerifyGivesUpDoes ==
  ASSUME Shaped, NEW b \in Bud, BudRest(b), VerifyGivesUp(b), Staged(b)
  PROVE  BudFrame(b) /\ VerifyRefused(b)
<1> DEFINE r == [ram[b] EXCEPT !.retry = MAX_SEG_VERIFY_RETEY, !.resume = FALSE]
           ops == EraseLogOps(flash[b])
<1>1. /\ GoesOn(b, r, "refuse") /\ Queue(b, ops)
      /\ UNCHANGED <<flash, tws, toMaster, link, answer>> /\ ram[b].stage = "verify"
  BY DEF VerifyGivesUp, Waits
<1>2. inbox[b] # <<>> /\ Head(inbox[b]).type = "verify"
  BY <1>1 DEF Staged
<1>3. RamFits(r) /\ r.pending = ram[b].pending /\ r.img = ram[b].img
  <2>1. RamFits(ram[b])
    BY ShapedOf
  <2> QED
    BY <2>1 DEF RamFits, IsRam
<1>4. OpsIn(ops, LogOp)
  BY LogOps
<1> HIDE DEF r, ops
<1>5. BudFrame(b) /\ Goes(b, "verify", "refuse") /\ SameRam(b) /\ Queues(b, LogOp) /\ SaysNothing
  BY <1>1, <1>2, <1>3, <1>4, GoesQuietly
<1> QED
  BY <1>1, <1>5 DEF VerifyRefused

\* The log is destroyed.
LEMMA FinishGivingUpDoes ==
  ASSUME Shaped, NEW b \in Bud, BudRest(b), FinishGivingUp(b), Staged(b)
  PROVE  BudFrame(b) /\ VerifyDone(b)
<1> DEFINE err == OTA_RESULT_ERR_SEG_VERIFY
<1>1. /\ Returns(b, ram[b]) /\ TellsFrom(b, tws, Cmd("segment", err), err)
      /\ UNCHANGED <<flash, pend, link, answer>> /\ ram[b].stage = "refuse"
  BY DEF FinishGivingUp, Tells
<1>2. inbox[b] # <<>> /\ Head(inbox[b]).type = "verify"
  BY <1>1 DEF Staged
<1>3. RamFits(ram[b]) /\ IsTws(tws)
  BY ShapedOf
<1> HIDE DEF err
<1>4. /\ BudFrame(b) /\ Ends(b, "verify") /\ Says(b, "segment", err, err)
      /\ ram'[b].pending = ram[b].pending /\ ram'[b].img = ram[b].img
  BY <1>1, <1>2, <1>3, EndsSaying
<1>5. Queues(b, LogOp)
  BY <1>1, NothingQueued
<1> QED
  BY <1>1, <1>4, <1>5 DEF VerifyDone, SameRam

\* OTA_COMMAND_GET_OTA_RESULT.
LEMMA TakeResultDoes ==
  ASSUME Shaped, NEW b \in Bud, BudRest(b), TakeResult(b)
  PROVE  BudFrame(b) /\ (ResultBegun(b) \/ ResultRefused(b))
<1> DEFINE r == ram[b]
           ops == FlushOps(r.received - Len(r.buf), r.buf, flash[b])
<1>1. /\ \/ /\ GoesOn(b, r, "sanity") /\ Queue(b, ops)
            /\ UNCHANGED <<tws, toMaster>>
         \/ Returns(b, r) /\ TellsFrom(b, tws, Cmd("result", 0), tws.err) /\ pend' = pend
      /\ UNCHANGED <<flash, link, answer>>
      /\ inbox[b] # <<>> /\ Head(inbox[b]).type = "result" /\ ram[b].stage = "idle"
  BY DEF TakeResult, Handles, Tells
<1>2. RamFits(r) /\ IsTws(tws) /\ r.pending = ram[b].pending /\ r.img = ram[b].img
  BY ShapedOf
<1>3. OpsIn(ops, AreaOp)
  BY AreaOps
<1> HIDE DEF r, ops
<1>4. CASE GoesOn(b, r, "sanity") /\ Queue(b, ops) /\ UNCHANGED <<tws, toMaster>>
  <2>1. BudFrame(b) /\ Goes(b, "result", "sanity") /\ SameRam(b) /\ Queues(b, AreaOp)
        /\ SaysNothing
    BY <1>1, <1>2, <1>3, <1>4, GoesQuietly
  <2> QED
    BY <1>1, <2>1 DEF ResultBegun
<1>5. CASE Returns(b, r) /\ TellsFrom(b, tws, Cmd("result", 0), tws.err) /\ pend' = pend
  <2>1. /\ BudFrame(b) /\ Ends(b, "result") /\ Says(b, "result", 0, tws.err)
        /\ ram'[b].pending = r.pending /\ ram'[b].img = r.img
    BY <1>1, <1>2, <1>5, EndsSaying
  <2> QED
    BY <1>1, <1>2, <1>5, <2>1 DEF ResultRefused, SameImage
<1> QED
  BY <1>1, <1>4, <1>5

\* The image has the checksum it should have.
LEMMA SanityPassesDoes ==
  ASSUME Shaped, NEW b \in Bud, BudRest(b), SanityPasses(b), Staged(b)
  PROVE  BudFrame(b) /\ ResultBegun(b)
<1> DEFINE r == ram[b]
           f == flash[b]
           first == [i \in 1..Cardinality(SectorPages(0)) |-> f.area[i - 1]]
           ops == Append(EraseOps(0, f), Mark(first))
<1>1. /\ GoesOn(b, r, "magic") /\ Queue(b, ops)
      /\ UNCHANGED <<flash, tws, toMaster, link, answer>> /\ ram[b].stage = "sanity"
  BY DEF SanityPasses, Waits
<1>2. inbox[b] # <<>> /\ Head(inbox[b]).type = "result"
  BY <1>1 DEF Staged
<1>3. RamFits(r) /\ r.pending = ram[b].pending /\ r.img = ram[b].img
  BY ShapedOf
<1> HIDE DEF first
<1>4. OpsIn(ops, AreaOp)
  BY AreaOps
<1> HIDE DEF r, ops
<1>5. BudFrame(b) /\ Goes(b, "result", "magic") /\ SameRam(b) /\ Queues(b, AreaOp) /\ SaysNothing
  BY <1>1, <1>2, <1>3, <1>4, GoesQuietly
<1> QED
  BY <1>1, <1>5 DEF ResultBegun

\* It has not.
LEMMA SanityFailsDoes ==
  ASSUME Shaped, NEW b \in Bud, BudRest(b), SanityFails(b), Staged(b)
  PROVE  BudFrame(b) /\ ResultRefused(b)
<1> DEFINE r == ResetEnv(ram[b])
<1>1. /\ Returns(b, r) /\ TellsFrom(b, tws, Cmd("result", 0), 0)
      /\ UNCHANGED <<flash, pend, link, answer>> /\ ram[b].stage = "sanity"
  BY DEF SanityFails, Waits, Tells
<1>2. inbox[b] # <<>> /\ Head(inbox[b]).type = "result"
  BY <1>1 DEF Staged
<1>3. RamFits(r) /\ IsTws(tws) /\ ~r.pending
  BY ShapedOf, ResetEnvIs
<1> HIDE DEF r
<1>4. /\ BudFrame(b) /\ Ends(b, "result") /\ Says(b, "result", 0, 0)
      /\ ram'[b].pending = r.pending /\ ram'[b].img = r.img
  BY <1>1, <1>2, <1>3, EndsSaying
<1> QED
  BY <1>1, <1>3, <1>4 DEF ResultRefused, SameImage

\* ota_control_check_image_crc.
LEMMA CheckImageDoes ==
  ASSUME Shaped, NEW b \in Bud, BudRest(b), CheckImage(b), Staged(b)
  PROVE  BudFrame(b) /\ ImageChecked(b)
<1> DEFINE ok == ImageIntact(b)
           r == IF ok THEN [ram[b] EXCEPT !.pending = TRUE] ELSE ResetEnv(ram[b])
           s == [r EXCEPT !.resume = FALSE]
           t == IF ok THEN tws ELSE Exited
           val == IF ok THEN 1 ELSE 0
           ops == EraseLogOps(flash[b])
<1>1. /\ GoesOn(b, s, "destroy") /\ Queue(b, ops) /\ TellsFrom(b, t, Cmd("result", val), val)
      /\ UNCHANGED <<flash, link, answer>> /\ ram[b].stage = "magic" /\ pend[b] = <<>>
  BY DEF CheckImage, Waits, Flushed
<1>2. inbox[b] # <<>> /\ Head(inbox[b]).type = "result"
  BY <1>1 DEF Staged
<1>3. RamFits(ram[b]) /\ IsTws(tws) /\ IsTws(Exited) /\ Exited.bp = tws.bp
  BY ShapedOf, EnteredExited
<1>4. IsTws(t) /\ t.bp = tws.bp
  BY <1>3
<1>5. RamFits(r) /\ r.img = ram[b].img /\ (~ok => ~r.pending)
  <2>1. RamFits(ResetEnv(ram[b])) /\ ~ResetEnv(ram[b]).pending
        /\ ResetEnv(ram[b]).img = ram[b].img
    BY <1>3, ResetEnvIs
  <2> HIDE DEF ok
  <2>2. CASE ok
    BY <1>3, <2>2 DEF RamFits, IsRam
  <2>3. CASE ~ok
    BY <2>1, <2>3
  <2> QED
    BY <2>2, <2>3
<1> HIDE DEF r
<1>6. RamFits(s) /\ s.img = ram[b].img /\ (~ok => ~s.pending)
  BY <1>5 DEF RamFits, IsRam
<1>7. OpsIn(ops, LogOp)
  BY LogOps
<1> HIDE DEF s, t, ops
<1>8. /\ Goes(b, "result", "destroy") /\ ram'[b].pending = s.pending /\ ram'[b].img = s.img
      /\ \E u : ram' = [ram EXCEPT ![b] = u] /\ RamFits(u)
  BY <1>1, <1>2, <1>6, WentOn
<1>9. Says(b, "result", val, val) /\ IsTws(tws')
  BY <1>1, <1>3, <1>4, TellsIs, CmdIs
<1>10. Queues(b, LogOp)
  BY <1>1, <1>7, Queued
<1>11. BudFrame(b)
  BY <1>1, <1>8, <1>9, Framed
<1>12. CASE ok
  <2>1. flash[b].magic /\ Whole(flash[b], ram'[b].img)
    BY <1>6, <1>8, <1>12 DEF ImageIntact
  <2>2. Says(b, "result", 1, 1)
    BY <1>9, <1>12
  <2> QED
    BY <1>1, <1>8, <1>10, <1>11, <2>1, <2>2 DEF ImageChecked
<1>13. CASE ~ok
  <2>1. ~ram'[b].pending
    BY <1>6, <1>8, <1>13
  <2>2. Says(b, "result", 0, 0)
    BY <1>9, <1>13
  <2> QED
    BY <1>1, <1>8, <1>10, <1>11, <2>1, <2>2 DEF ImageChecked
<1> QED
  BY <1>12, <1>13

\* The log is destroyed.
LEMMA FinishResultDoes ==
  ASSUME Shaped, NEW b \in Bud, BudRest(b), FinishResult(b), Staged(b)
  PROVE  BudFrame(b) /\ ResultDone(b)
<1>1. /\ Returns(b, ram[b]) /\ UNCHANGED <<flash, pend, tws, toMaster, link, answer>>
      /\ ram[b].stage = "destroy"
  BY DEF FinishResult
<1>2. inbox[b] # <<>> /\ Head(inbox[b]).type = "result"
  BY <1>1 DEF Staged
<1>3. /\ Ends(b, "result") /\ SameRam(b)
      /\ \E s : ram' = [ram EXCEPT ![b] = s] /\ RamFits(s)
  BY <1>1, <1>2, ShapedOf, Returned DEF SameRam
<1>4. IsTws(tws')
  BY <1>1, ShapedOf
<1>5. BudFrame(b)
  BY <1>1, <1>3, <1>4, Framed
<1> QED
  BY <1>1, <1>3, <1>5 DEF ResultDone, SaysNothing

\* OTA_COMMAND_IMAGE_APPLY.
LEMMA ImageApplyDoes ==
  ASSUME Shaped, NEW b \in Bud, BudRest(b), ImageApply(b)
  PROVE  BudFrame(b) /\ ApplyDone(b)
<1> DEFINE ok == ram[b].pending
           r == [ram[b] EXCEPT !.permission = ok]
           val == IF ok THEN 1 ELSE 0
           err == IF ok THEN 1 ELSE tws.err
<1>1. /\ Returns(b, r) /\ TellsFrom(b, Exited, Cmd("apply", val), err)
      /\ UNCHANGED <<flash, pend, link, answer>>
      /\ inbox[b] # <<>> /\ Head(inbox[b]).type = "apply" /\ ram[b].stage = "idle"
  BY DEF ImageApply, Handles
<1>2. RamFits(ram[b]) /\ IsTws(Exited) /\ Exited.bp = tws.bp
  BY ShapedOf, EnteredExited
<1>3. RamFits(r) /\ r.pending = ram[b].pending /\ r.img = ram[b].img
  BY <1>2 DEF RamFits, IsRam
<1> HIDE DEF r, err
<1>4. /\ BudFrame(b) /\ Ends(b, "apply") /\ Says(b, "apply", val, err)
      /\ ram'[b].pending = r.pending /\ ram'[b].img = r.img
  BY <1>1, <1>2, <1>3, EndsSaying
<1> QED
  BY <1>1, <1>3, <1>4 DEF ApplyDone, SameRam

\* Every step of a bud is one of these.
LEMMA BudStepDoes ==
  ASSUME Shaped, NEW b \in Bud, BudStep(b), Staged(b)
  PROVE  BudFrame(b) /\ BudDoes(b)
<1>1. BudRest(b)
  BY DEF BudStep, BudRest
<1>2. CASE ResumeMatches(b)
  BY <1>1, <1>2, ResumeMatchesDoes DEF BudDoes
<1>3. CASE \E fresh : ResumeNone(b, fresh)
  BY <1>1, <1>3, ResumeNoneDoes DEF BudDoes
<1>4. CASE Start(b)
  BY <1>1, <1>4, StartDoes DEF BudDoes
<1>5. CASE Config(b) \/ FinishConfig(b)
  BY <1>1, <1>5, ConfigDoes, FinishConfigDoes DEF BudDoes
<1>6. CASE RefuseData(b) \/ TakeData(b) \/ FinishData(b)
  BY <1>1, <1>6, RefuseDataDoes, TakeDataDoes, FinishDataDoes DEF BudDoes
<1>7. CASE TakeVerify(b) \/ VerifyPasses(b) \/ VerifyFails(b)
  BY <1>1, <1>7, TakeVerifyDoes, VerifyPassesDoes, VerifyFailsDoes DEF BudDoes
<1>8. CASE VerifyGivesUp(b) \/ FinishGivingUp(b)
  BY <1>1, <1>8, VerifyGivesUpDoes, FinishGivingUpDoes DEF BudDoes
<1>9. CASE TakeResult(b) \/ SanityPasses(b) \/ SanityFails(b)
  BY <1>1, <1>9, TakeResultDoes, SanityPassesDoes, SanityFailsDoes DEF BudDoes
<1>10. CASE CheckImage(b) \/ FinishResult(b) \/ ImageApply(b)
  BY <1>1, <1>10, CheckImageDoes, FinishResultDoes, ImageApplyDoes DEF BudDoes
<1> QED
  BY <1>2, <1>3, <1>4, <1>5, <1>6, <1>7, <1>8, <1>9, <1>10 DEF BudStep

-----------------------------------------------------------------------------
(***************************************************************************)
(* What the parts of the invariant come to when a queue grows or shrinks.  *)
(***************************************************************************)
\* The ranks.
LEMMA Ranks ==
  /\ Rank("resume") = 0 /\ Rank("start") = 1 /\ Rank("config") = 2
  /\ Rank("data") = 3 /\ Rank("verify") = 3 /\ Rank("next") = 3
  /\ Rank("ack") = 3 /\ Rank("segment") = 3
  /\ Rank("result") = 4 /\ Rank("apply") = 5
  /\ \A type : Rank(type) \in 0..5
BY DEF Rank

\* Packets of a type in a queue.
LEMMA HasTail ==
  ASSUME NEW q, IsSeq(q), q # <<>>
  PROVE  /\ \A type : HasIn(Tail(q), type) => HasIn(q, type)
         /\ \A type : HasIn(q, type) /\ Head(q).type # type => HasIn(Tail(q), type)
<1>1. /\ DOMAIN Tail(q) = 1..(Len(q) - 1) /\ Len(q) \in Nat \ {0}
      /\ \A i \in DOMAIN Tail(q) : Tail(q)[i] = q[i + 1] /\ i + 1 \in DOMAIN q
  BY Tailed
<1>2. DOMAIN q = 1..Len(q) /\ Head(q) = q[1]
  BY SeqFacts
<1>3. ASSUME NEW type, HasIn(Tail(q), type) PROVE HasIn(q, type)
  BY <1>1, <1>3 DEF HasIn
<1>4. ASSUME NEW type, HasIn(q, type), Head(q).type # type PROVE HasIn(Tail(q), type)
  <2>1. PICK i \in DOMAIN q : q[i].type = type
    BY <1>4 DEF HasIn
  <2>2. i - 1 \in DOMAIN Tail(q) /\ (i - 1) + 1 = i
    BY <1>1, <1>2, <1>4, <2>1
  <2>3. Tail(q)[i - 1] = q[i]
    BY <1>1, <2>2
  <2> QED
    BY <2>1, <2>2, <2>3 DEF HasIn
<1> QED
  BY <1>3, <1>4

\* A longer queue has what it had and what was added.
LEMMA HasAppend ==
  ASSUME NEW q, NEW p, IsSeq(q)
  PROVE  \A type : HasIn(Append(q, p), type) <=> HasIn(q, type) \/ p.type = type
<1>1. /\ \A i \in DOMAIN q : Append(q, p)[i] = q[i]
      /\ Append(q, p)[Len(q) + 1] = p
      /\ DOMAIN Append(q, p) = DOMAIN q \cup {Len(q) + 1}
  BY Appended
<1> QED
  BY <1>1 DEF HasIn

\* None in an empty one.
LEMMA HasNone ==
  ~(\E type : HasIn(<<>>, type)) /\ \A seen : ~ToDoIn(<<>>, seen)
BY Single DEF HasIn, ToDoIn

\* Packets that write.
LEMMA ToDoTail ==
  ASSUME NEW q, IsSeq(q), q # <<>>, NEW s, NEW t, ToDoIn(Tail(q), s)
  PROVE  ToDoIn(q, t)
<1>1. /\ DOMAIN Tail(q) = 1..(Len(q) - 1) /\ Len(q) \in Nat \ {0}
      /\ \A i \in DOMAIN Tail(q) : Tail(q)[i] = q[i + 1] /\ i + 1 \in DOMAIN q
  BY Tailed
<1>2. PICK i \in DOMAIN Tail(q) : Tail(q)[i].type \in Writers
  BY DEF ToDoIn
<1>3. i + 1 \in DOMAIN q /\ q[i + 1].type \in Writers /\ i + 1 # 1
  BY <1>1, <1>2
<1> QED
  BY <1>3 DEF ToDoIn

\* One that writes is to do in the longer queue when it was, or is the new one.
LEMMA ToDoAppend ==
  ASSUME NEW q, IsSeq(q), NEW s, NEW p, ToDoIn(Append(q, p), s)
  PROVE  ToDoIn(q, s) \/ p.type \in Writers
<1>1. /\ \A i \in DOMAIN q : Append(q, p)[i] = q[i]
      /\ Append(q, p)[Len(q) + 1] = p
      /\ DOMAIN Append(q, p) = DOMAIN q \cup {Len(q) + 1}
  BY Appended
<1> QED
  BY <1>1 DEF ToDoIn

\* The order of the packets.
LEMMA OrderedTail ==
  ASSUME NEW q, IsSeq(q), q # <<>>, OrderedIn(q)
  PROVE  OrderedIn(Tail(q))
<1>1. /\ DOMAIN Tail(q) = 1..(Len(q) - 1) /\ Len(q) \in Nat \ {0}
      /\ \A i \in DOMAIN Tail(q) : Tail(q)[i] = q[i + 1] /\ i + 1 \in DOMAIN q
  BY Tailed
<1>2. ASSUME NEW i \in DOMAIN Tail(q), NEW j \in DOMAIN Tail(q), i < j
      PROVE  Before(Tail(q)[i], Tail(q)[j])
  <2>1. i + 1 \in DOMAIN q /\ j + 1 \in DOMAIN q /\ i + 1 < j + 1
    BY <1>1, <1>2
  <2>2. Before(q[i + 1], q[j + 1])
    BY <2>1 DEF OrderedIn
  <2> QED
    BY <1>1, <2>2
<1> QED
  BY <1>2 DEF OrderedIn

\* What comes after all the packets keeps their order.
LEMMA OrderedAppend ==
  ASSUME NEW q, NEW p, IsSeq(q), OrderedIn(q), \A i \in DOMAIN q : Before(q[i], p)
  PROVE  OrderedIn(Append(q, p))
<1>1. /\ \A i \in DOMAIN q : Append(q, p)[i] = q[i]
      /\ Append(q, p)[Len(q) + 1] = p
      /\ DOMAIN Append(q, p) = DOMAIN q \cup {Len(q) + 1}
  BY Appended
<1>2. DOMAIN q = 1..Len(q) /\ Len(q) \in Nat
  BY SeqFacts
<1>3. ASSUME NEW i \in DOMAIN Append(q, p), NEW j \in DOMAIN Append(q, p), i < j
      PROVE  Before(Append(q, p)[i], Append(q, p)[j])
  <2>1. i \in DOMAIN q
    BY <1>1, <1>2, <1>3
  <2>2. CASE j \in DOMAIN q
    BY <1>1, <1>3, <2>1, <2>2 DEF OrderedIn
  <2>3. CASE j = Len(q) + 1
    BY <1>1, <2>1, <2>3
  <2> QED
    BY <1>1, <2>2, <2>3
<1> QED
  BY <1>3 DEF OrderedIn

\* What follows the first packet.
LEMMA AfterFirst ==
  ASSUME NEW q, IsSeq(q), q # <<>>, OrderedIn(q)
  PROVE  \A i \in DOMAIN q : i = 1 \/ Before(Head(q), q[i])
<1>1. DOMAIN q = 1..Len(q) /\ Len(q) \in Nat /\ Head(q) = q[1] /\ 1 \in DOMAIN q
  BY SeqFacts
<1>2. ASSUME NEW i \in DOMAIN q, i # 1 PROVE Before(q[1], q[i])
  <2>1. 1 < i
    BY <1>1, <1>2
  <2> QED
    BY <1>1, <2>1 DEF OrderedIn
<1> QED
  BY <1>1, <1>2

\* Nothing follows the apply.
LEMMA ApplyIsLast ==
  ASSUME NEW q, IsSeq(q), q # <<>>, OrderedIn(q), Head(q).type = "apply"
  PROVE  Tail(q) = <<>>
<1>1. /\ DOMAIN Tail(q) = 1..(Len(q) - 1) /\ Len(q) \in Nat \ {0}
      /\ \A i \in DOMAIN Tail(q) : Tail(q)[i] = q[i + 1] /\ i + 1 \in DOMAIN q
      /\ IsSeq(Tail(q)) /\ Len(Tail(q)) = Len(q) - 1
  BY Tailed
<1>2. \A i \in DOMAIN q : i = 1
  <2> SUFFICES ASSUME NEW i \in DOMAIN q, i # 1 PROVE FALSE
    OBVIOUS
  <2>1. Before(Head(q), q[i])
    BY AfterFirst
  <2>2. Rank(Head(q).type) = 5 /\ Rank(q[i].type) \in 0..5
    BY Ranks
  <2> QED
    BY <2>1, <2>2 DEF Before
<1>3. Len(q) = 1
  <2>1. DOMAIN q = 1..Len(q)
    BY SeqFacts
  <2> QED
    BY <1>1, <1>2, <2>1
<1> QED
  BY <1>1, <1>3, SeqFacts

\* No packet is ahead.
LEMMA RanksTail ==
  ASSUME NEW q, IsSeq(q), q # <<>>, NEW n, RanksTo(q, n)
  PROVE  RanksTo(Tail(q), n) /\ Rank(Head(q).type) <= n
<1>1. \A i \in DOMAIN Tail(q) : Tail(q)[i] = q[i + 1] /\ i + 1 \in DOMAIN q
  BY Tailed
<1>2. Head(q) = q[1] /\ 1 \in DOMAIN q
  BY SeqFacts
<1> QED
  BY <1>1, <1>2 DEF RanksTo

\* A packet no further than the phone leaves none ahead of it.
LEMMA RanksAppend ==
  ASSUME NEW q, NEW p, IsSeq(q), NEW m \in Int, NEW n \in Int,
         RanksTo(q, m), m <= n, Rank(p.type) <= n
  PROVE  RanksTo(Append(q, p), n)
<1>1. /\ \A i \in DOMAIN q : Append(q, p)[i] = q[i]
      /\ Append(q, p)[Len(q) + 1] = p
      /\ DOMAIN Append(q, p) = DOMAIN q \cup {Len(q) + 1}
  BY Appended
<1>2. \A i \in DOMAIN q : Rank(q[i].type) \in Int /\ Rank(q[i].type) <= m
  BY Ranks DEF RanksTo
<1>3. Rank(p.type) \in Int
  BY Ranks
<1> QED
  BY <1>1, <1>2, <1>3 DEF RanksTo

\* Operations queued that leave the area, and the boot information, as they are.
LEMMA AreaLeft ==
  ASSUME NEW q, IsSeq(q), NEW ops, OpsIn(ops, LogOp) \/ \E v, f : ops = BootOps(v, f)
  PROVE  /\ LeavesArea(q) => LeavesArea(q \o ops)
<1>1. IsSeq(ops) /\ \A i \in DOMAIN ops : ops[i].op \notin AreaOp
  <2>1. CASE OpsIn(ops, LogOp)
    <3>1. \A i \in DOMAIN ops : ops[i].op \in LogOp
      BY <2>1 DEF OpsIn, IsOp
    <3> QED
      BY <2>1, <3>1 DEF OpsIn, LogOp, AreaOp
  <2>2. CASE \E v, f : ops = BootOps(v, f)
    <3>1. PICK v, f : ops = BootOps(v, f)
      BY <2>2
    <3>2. IsSeq(ops) /\ \A i \in DOMAIN ops : ops[i] \in {EraseBoot, SetBoot(v)}
      BY <3>1, BootOpsAre
    <3> QED
      BY <3>2 DEF EraseBoot, SetBoot, AreaOp
  <2> QED
    BY <2>1, <2>2
<1>2. \A i \in DOMAIN (q \o ops) : \/ i \in DOMAIN q /\ (q \o ops)[i] = q[i]
                                   \/ i - Len(q) \in DOMAIN ops /\ (q \o ops)[i] = ops[i - Len(q)]
  BY <1>1, Joined
<1> QED
  BY <1>1, <1>2 DEF LeavesArea

\* Operations queued that name no image.
LEMMA NamesLeft ==
  ASSUME NEW q, IsSeq(q), NEW ops, IsSeq(ops), \A i \in DOMAIN ops : ~Names(ops[i]),
         NEW i \in DOMAIN (q \o ops), Names((q \o ops)[i])
  PROVE  i \in DOMAIN q /\ (q \o ops)[i] = q[i]
<1>1. \/ i \in DOMAIN q /\ (q \o ops)[i] = q[i]
      \/ i - Len(q) \in DOMAIN ops /\ (q \o ops)[i] = ops[i - Len(q)]
  BY Joined
<1> QED
  BY <1>1

\* What a handler queues never names an image; only an apply does.
LEMMA NamesNone ==
  ASSUME NEW ops, OpsIn(ops, LogOp) \/ OpsIn(ops, AreaOp) \/ \E f : ops = BootOps("normal", f)
  PROVE  IsSeq(ops) /\ \A i \in DOMAIN ops : ~Names(ops[i])
<1>1. CASE OpsIn(ops, LogOp) \/ OpsIn(ops, AreaOp)
  <2>1. IsSeq(ops) /\ \A i \in DOMAIN ops : ops[i].op \in LogOp \cup AreaOp
    BY <1>1 DEF OpsIn, IsOp
  <2> QED
    BY <2>1 DEF LogOp, AreaOp, Names
<1>2. CASE \E f : ops = BootOps("normal", f)
  <2>1. PICK f : ops = BootOps("normal", f)
    BY <1>2
  <2>2. IsSeq(ops) /\ \A i \in DOMAIN ops : ops[i] \in {EraseBoot, SetBoot("normal")}
    BY <2>1, BootOpsAre
  <2>3. "normal" \notin Image
    BY OtaFlashAssumption
  <2> QED
    BY <2>2, <2>3 DEF EraseBoot, SetBoot, Names
<1> QED
  BY <1>1, <1>2

\* The kinds of what is queued.
LEMMA OpsAre ==
  ASSUME NEW ops, OpsIn(ops, LogOp) \/ OpsIn(ops, AreaOp) \/ \E v, f : ops = BootOps(v, f)
  PROVE  OpsIn(ops, OpKind)
<1>1. CASE OpsIn(ops, LogOp) \/ OpsIn(ops, AreaOp)
  BY <1>1 DEF OpsIn, IsOp, OpKind
<1>2. CASE \E v, f : ops = BootOps(v, f)
  <2>1. PICK v, f : ops = BootOps(v, f)
    BY <1>2
  <2>2. IsSeq(ops) /\ \A i \in DOMAIN ops : ops[i] \in {EraseBoot, SetBoot(v)}
    BY <2>1, BootOpsAre
  <2> QED
    BY <2>2 DEF EraseBoot, SetBoot, OpsIn, IsOp, OpKind
<1> QED
  BY <1>1, <1>2

\* The first operation taken.
LEMMA OpsTail ==
  ASSUME NEW q, NEW T, OpsIn(q, T), q # <<>>
  PROVE  /\ OpsIn(Tail(q), T) /\ IsOp(Head(q), T)
         /\ LeavesArea(q) => LeavesArea(Tail(q)) /\ Head(q).op \notin AreaOp
         /\ \A i \in DOMAIN Tail(q) : Tail(q)[i] = q[i + 1] /\ i + 1 \in DOMAIN q
         /\ Head(q) = q[1] /\ 1 \in DOMAIN q
<1>1. /\ IsSeq(Tail(q))
      /\ \A i \in DOMAIN Tail(q) : Tail(q)[i] = q[i + 1] /\ i + 1 \in DOMAIN q
  BY Tailed DEF OpsIn
<1>2. Head(q) = q[1] /\ 1 \in DOMAIN q
  BY SeqFacts DEF OpsIn
<1> QED
  BY <1>1, <1>2 DEF OpsIn, LeavesArea

-----------------------------------------------------------------------------
(***************************************************************************)
(* The steps at which a bud takes no packet.                               *)
(***************************************************************************)
LEMMA InvOf ==
  ASSUME OtaInv, NEW b \in Bud
  PROVE  /\ Shaped /\ BudInv(b)
         /\ IsSeq(inbox[b]) /\ PacketsFit(inbox[b])
         /\ IsSeq(pend[b]) /\ OpsIn(pend[b], OpKind)
         /\ IsSeq(toMaster) /\ IsSeq(toSlave)
         /\ RamFits(ram[b]) /\ FlashFits(flash[b])
BY DEF OtaInv, Shaped, ShapedBud, OpsIn

\* The parts of the invariant that are about one bud.
LEMMA BudInvOf ==
  ASSUME OtaInv, NEW b \in Bud
  PROVE  /\ Staged(b) /\ Ordered(b) /\ AtMost(b)
         /\ VerifiedIsWhole(b) /\ BootIsWhole(b) /\ NamesTheVerified(b)
         /\ StartsFirst(b) /\ ConfigFirst(b) /\ ConfigResets(b) /\ Started(b) /\ Configured(b)
BY DEF OtaInv, BudInv

\* Nothing is taken, and nothing is queued that writes to the area.
Keeps(b) ==
  /\ ram'[b].stage = ram[b].stage /\ ram'[b].img = ram[b].img
  /\ ram'[b].pending => ram[b].pending
  /\ inbox'[b] = inbox[b] /\ flash'[b] = flash[b]
  /\ \E ops :
       /\ pend'[b] = pend[b] \o ops
       /\ \/ OpsIn(ops, LogOp)
          \/ \E v, f : ops = BootOps(v, f) /\ (v \in Image => twsStep'[b] = "apply" /\ v = ram[b].img)
  /\ twsStep[b] = "apply" /\ pend[b] # <<>> => twsStep'[b] = "apply"
  /\ (phone' = phone /\ (WillHear(b)' => WillHear(b))) \/ phone'.at \in {"idle", "done"}

\* Nothing queued is something queued.
LEMMA KeepsNone ==
  ASSUME OtaInv, NEW b \in Bud, pend'[b] = pend[b]
  PROVE  \E ops :
           /\ pend'[b] = pend[b] \o ops
           /\ \/ OpsIn(ops, LogOp)
              \/ \E v, f : ops = BootOps(v, f) /\ (v \in Image => twsStep'[b] = "apply" /\ v = ram[b].img)
<1>1. IsSeq(pend[b])
  BY InvOf
<1>2. pend[b] \o <<>> = pend[b]
  BY <1>1, ConcatEmptySeq DEF IsSeq
<1>3. OpsIn(<<>>, LogOp)
  BY Single DEF OpsIn
<1> QED
  BY <1>2, <1>3

\* What of the operations matters.
LEMMA KeepsOps ==
  ASSUME OtaInv, NEW b \in Bud, Keeps(b)
  PROVE  /\ LeavesArea(pend[b]) => LeavesArea(pend'[b])
         /\ OpsIn(pend'[b], OpKind)
         /\ \A i \in DOMAIN pend[b] : i \in DOMAIN pend'[b] /\ pend'[b][i] = pend[b][i]
         /\ NamesTheVerified(b)'
<1>0. IsSeq(pend[b]) /\ OpsIn(pend[b], OpKind) /\ NamesTheVerified(b)
  BY InvOf, BudInvOf
<1>1. PICK ops :
        /\ pend'[b] = pend[b] \o ops
        /\ \/ OpsIn(ops, LogOp)
           \/ \E v, f : ops = BootOps(v, f) /\ (v \in Image => twsStep'[b] = "apply" /\ v = ram[b].img)
  BY DEF Keeps
<1>2. OpsIn(ops, LogOp) \/ \E v, f : ops = BootOps(v, f)
  BY <1>1
<1>3. LeavesArea(pend[b]) => LeavesArea(pend'[b])
  BY <1>0, <1>1, <1>2, AreaLeft
<1>4. OpsIn(ops, OpKind)
  BY <1>2, OpsAre
<1>5. OpsIn(pend'[b], OpKind)
  BY <1>0, <1>1, <1>4, OpsJoined
<1>6. IsSeq(ops)
  BY <1>4 DEF OpsIn
<1>7. /\ \A i \in DOMAIN pend[b] : (pend[b] \o ops)[i] = pend[b][i]
      /\ DOMAIN (pend[b] \o ops) = 1..(Len(pend[b]) + Len(ops))
      /\ Len(pend[b]) \in Nat /\ Len(ops) \in Nat
      /\ \A i \in DOMAIN (pend[b] \o ops) :
           \/ i \in DOMAIN pend[b] /\ (pend[b] \o ops)[i] = pend[b][i]
           \/ i - Len(pend[b]) \in DOMAIN ops /\ (pend[b] \o ops)[i] = ops[i - Len(pend[b])]
  <2>1. PICK q : q = pend[b]
    OBVIOUS
  <2>2. IsSeq(q)
    BY <1>0, <2>1
  <2>3. /\ \A i \in DOMAIN q : (q \o ops)[i] = q[i]
        /\ DOMAIN (q \o ops) = 1..(Len(q) + Len(ops))
        /\ Len(q) \in Nat /\ Len(ops) \in Nat
        /\ \A i \in DOMAIN (q \o ops) :
             \/ i \in DOMAIN q /\ (q \o ops)[i] = q[i]
             \/ i - Len(q) \in DOMAIN ops /\ (q \o ops)[i] = ops[i - Len(q)]
    BY <1>6, <2>2, Joined
  <2> QED
    BY <2>1, <2>3
<1>8. DOMAIN pend[b] = 1..Len(pend[b])
  BY <1>0, SeqFacts
<1>9. \A i \in DOMAIN pend[b] : i \in DOMAIN pend'[b] /\ pend'[b][i] = pend[b][i]
  BY <1>1, <1>7, <1>8
<1>10. ASSUME NEW i \in DOMAIN ops, Names(ops[i])
       PROVE  twsStep'[b] = "apply" /\ ops[i].boot = ram[b].img
  <2>1. CASE OpsIn(ops, LogOp)
    BY <1>10, <2>1 DEF OpsIn, IsOp, LogOp, Names
  <2>2. CASE \E v, f : ops = BootOps(v, f) /\ (v \in Image => twsStep'[b] = "apply" /\ v = ram[b].img)
    <3>1. PICK v, f : ops = BootOps(v, f) /\ (v \in Image => twsStep'[b] = "apply" /\ v = ram[b].img)
      BY <2>2
    <3>2. ops[i] \in {EraseBoot, SetBoot(v)}
      BY <3>1, BootOpsAre
    <3>3. ops[i].boot = v /\ v \in Image
      BY <1>10, <3>2 DEF Names, EraseBoot, SetBoot
    <3> QED
      BY <3>1, <3>3
  <2> QED
    BY <1>1, <2>1, <2>2
<1>11. NamesTheVerified(b)'
  <2> SUFFICES ASSUME NEW i \in DOMAIN pend'[b], Names(pend'[b][i])
               PROVE  twsStep'[b] = "apply" /\ pend'[b][i].boot = ram'[b].img
    BY DEF NamesTheVerified, Names
  <2>0. ram'[b].img = ram[b].img
    BY DEF Keeps
  <2>1. CASE i \in DOMAIN pend[b] /\ pend'[b][i] = pend[b][i]
    <3>1. twsStep[b] = "apply" /\ pend[b][i].boot = ram[b].img
      BY <1>0, <2>1 DEF NamesTheVerified
    <3>2. pend[b] # <<>>
      BY <2>1, Single
    <3>3. twsStep'[b] = "apply"
      BY <3>1, <3>2 DEF Keeps
    <3> QED
      BY <2>0, <2>1, <3>1, <3>3
  <2>2. CASE i - Len(pend[b]) \in DOMAIN ops /\ pend'[b][i] = ops[i - Len(pend[b])]
    BY <1>10, <2>0, <2>2
  <2> QED
    BY <1>1, <1>7, <2>1, <2>2
<1> QED
  BY <1>3, <1>5, <1>9, <1>11

\* A bud that another step leaves alone keeps an intact image.
LEMMA KeepsIntact ==
  ASSUME OtaInv, NEW b \in Bud, Keeps(b), Intact(b)
  PROVE  Intact(b)'
<1>1. flash'[b] = flash[b] /\ ram'[b].img = ram[b].img
  BY DEF Keeps
<1>2. LeavesArea(pend[b]) => LeavesArea(pend'[b])
  BY KeepsOps
<1> QED
  BY <1>1, <1>2 DEF Intact, IntactIn, LeavesArea, Whole

\* Then what is said of the bud stays true.
LEMMA KeepsInv ==
  ASSUME OtaInv, NEW b \in Bud, Keeps(b)
  PROVE  BudInv(b)'
<1>1. /\ ram'[b].stage = ram[b].stage /\ ram'[b].img = ram[b].img
      /\ ram'[b].pending => ram[b].pending
      /\ inbox'[b] = inbox[b] /\ flash'[b] = flash[b]
  BY DEF Keeps
<1>2. (phone' = phone /\ (WillHear(b)' => WillHear(b))) \/ ~Session'
  BY DEF Keeps, Session
<1>3. Staged(b)' /\ Ordered(b)'
  BY <1>1, BudInvOf DEF Staged, Ordered
<1>4. AtMost(b)'
  <2>1. AtMost(b)
    BY BudInvOf
  <2> QED
    BY <1>1, <1>2, <2>1 DEF AtMost, Session
<1>5. VerifiedIsWhole(b)'
  BY <1>1, KeepsIntact, BudInvOf DEF VerifiedIsWhole
<1>6. BootIsWhole(b)'
  <2>1. BootIsWhole(b) /\ (LeavesArea(pend[b]) => LeavesArea(pend'[b]))
    BY BudInvOf, KeepsOps
  <2> QED
    BY <1>1, <2>1 DEF BootIsWhole, IntactIn, LeavesArea, Whole
<1>7. NamesTheVerified(b)'
  BY KeepsOps
<1>8. StartsFirst(b)' /\ ConfigFirst(b)'
  <2>1. StartsFirst(b) /\ ConfigFirst(b)
    BY BudInvOf
  <2> QED
    BY <1>1, <2>1 DEF StartsFirst, ConfigFirst, ToDo, Seen, Has
<1>9. ConfigResets(b)'
  <2>1. /\ ConfigResets(b)
        /\ \A i \in DOMAIN pend[b] : i \in DOMAIN pend'[b] /\ pend'[b][i] = pend[b][i]
    BY BudInvOf, KeepsOps
  <2> QED
    BY <1>1, <2>1 DEF ConfigResets, SetBoot
<1>10. Started(b)' /\ Configured(b)'
  <2>1. Started(b) /\ Configured(b)
    BY BudInvOf
  <2> QED
    BY <1>1, <1>2, <2>1 DEF Started, Configured, Has, Session
<1> QED
  BY <1>3, <1>4, <1>5, <1>6, <1>7, <1>8, <1>9, <1>10 DEF BudInv

-----------------------------------------------------------------------------
(***************************************************************************)
(* The steps of a bud.                                                     *)
(***************************************************************************)
\* The first packet is one that writes: the bud counts no image as good.
LEMMA WritesFree ==
  ASSUME OtaInv, NEW b \in Bud, inbox[b] # <<>>, Head(inbox[b]).type \in Writers, ~Seen(b)
  PROVE  ~ram[b].pending /\ flash[b].boot \notin Image
<1>1. IsSeq(inbox[b]) /\ OrderedIn(inbox[b]) /\ StartsFirst(b) /\ ConfigFirst(b)
  BY InvOf, BudInvOf DEF Ordered
<1>2. Head(inbox[b]) = inbox[b][1] /\ 1 \in DOMAIN inbox[b]
  BY <1>1, SeqFacts
<1>3. ToDo(b)
  BY <1>2 DEF ToDo, ToDoIn
<1>4. ASSUME NEW type, type \in {"start", "config"} PROVE ~Has(b, type)
  <2> SUFFICES ASSUME NEW i \in DOMAIN inbox[b], inbox[b][i].type = type PROVE FALSE
    BY DEF Has, HasIn
  <2>1. i # 1
    BY <1>2, <1>4 DEF Writers
  <2>2. Before(Head(inbox[b]), inbox[b][i])
    BY <1>1, <2>1, AfterFirst
  <2>3. Rank(Head(inbox[b]).type) \in {3, 4} /\ Rank(type) \in {1, 2}
    BY <1>4, Ranks DEF Writers
  <2> QED
    BY <2>2, <2>3 DEF Before
<1> QED
  BY <1>1, <1>3, <1>4 DEF StartsFirst, ConfigFirst

\* What a step of bud c does to the buds.
LEMMA BudTouches ==
  ASSUME OtaInv, NEW c \in Bud, BudFrame(c), BudDoes(c)
  PROVE  /\ inbox[c] # <<>>
         /\ \/ inbox'[c] = inbox[c]
            \/ inbox'[c] = Tail(inbox[c]) /\ ram'[c].stage = "idle"
         /\ \A b \in Bud : b # c =>
              inbox'[b] = inbox[b] /\ ram'[b] = ram[b] /\ pend'[b] = pend[b]
         /\ \E q : inbox' = [inbox EXCEPT ![c] = q]
         /\ RamFits(ram'[c])
         /\ UNCHANGED <<flash, link, toSlave, twsStep, phone>>
         /\ ~AtRest /\ \A b \in Bud : WillHear(b)' => WillHear(b)
<1>0. inbox = [b \in Bud |-> inbox[b]] /\ ram = [b \in Bud |-> ram[b]] /\ pend = [b \in Bud |-> pend[b]]
  BY InvOf DEF Shaped
<1>1. /\ inbox[c] # <<>>
      /\ \/ inbox' = inbox
         \/ inbox' = [inbox EXCEPT ![c] = Tail(@)] /\ ram'[c].stage = "idle"
  BY DEF BudDoes, ResumeDone, StartDone, ConfigBegun, ConfigDone, DataBegun, DataDone,
         VerifyBegun, VerifyRefused, VerifyDone, ResultBegun, ResultRefused, ImageChecked,
         ResultDone, ApplyDone, Ends, Goes
<1>2. UNCHANGED <<flash, link, toSlave, twsStep, phone>>
  BY DEF BudFrame
<1>3. PICK r : ram' = [ram EXCEPT ![c] = r] /\ RamFits(r)
  BY DEF BudFrame
<1>4. PICK o : pend' = [pend EXCEPT ![c] = o]
  BY DEF BudFrame
<1>5. ~AtRest
  BY <1>1 DEF AtRest
<1>6. \A b \in Bud : WillHear(b)' => WillHear(b)
  BY <1>2, <1>5 DEF WillHear
<1>7. \E q : inbox' = [inbox EXCEPT ![c] = q]
  <2>1. inbox = [inbox EXCEPT ![c] = inbox[c]]
    BY <1>0
  <2> QED
    BY <1>1, <2>1
<1>8. /\ \/ inbox'[c] = inbox[c]
         \/ inbox'[c] = Tail(inbox[c]) /\ ram'[c].stage = "idle"
      /\ \A b \in Bud : b # c => inbox'[b] = inbox[b]
  BY <1>0, <1>1
<1>9. RamFits(ram'[c]) /\ \A b \in Bud : b # c => ram'[b] = ram[b]
  BY <1>0, <1>3
<1>10. \A b \in Bud : b # c => pend'[b] = pend[b]
  BY <1>0, <1>4
<1> QED
  BY <1>1, <1>2, <1>5, <1>6, <1>7, <1>8, <1>9, <1>10

\* A step for a packet that writes, and one for another.
Writing(c) ==
  /\ Head(inbox[c]).type \in Writers /\ ~Seen(c)
  /\ ram'[c].pending => ram[c].pending \/ ImageChecked(c)
  /\ ram'[c].stage # "config"
  /\ \E ops : pend'[c] = pend[c] \o ops /\ (OpsIn(ops, LogOp) \/ OpsIn(ops, AreaOp))

Sparing(c) ==
  /\ ram'[c].pending => ram[c].pending /\ ram'[c].img = ram[c].img
  /\ ram'[c].stage = "config" =>
       \E i \in DOMAIN pend'[c] : pend'[c][i] = SetBoot("normal")
  /\ \E ops : pend'[c] = pend[c] \o ops
              /\ (OpsIn(ops, LogOp) \/ \E f : ops = BootOps("normal", f))
  /\ ram'[c].pending /\ inbox'[c] # inbox[c] => Head(inbox[c]).type # "start"
  /\ inbox'[c] # inbox[c] /\ Head(inbox[c]).type = "config" =>
       ram[c].stage = "config" /\ pend[c] = <<>>

\* What is queued, as a sequence that is added.
LEMMA QueuesOf ==
  ASSUME OtaInv, NEW c \in Bud, NEW T, Queues(c, T)
  PROVE  \E ops : pend'[c] = pend[c] \o ops /\ OpsIn(ops, T)
<1>0. pend = [b \in Bud |-> pend[b]]
  BY InvOf DEF Shaped
<1>1. PICK ops : pend' = [pend EXCEPT ![c] = @ \o ops] /\ OpsIn(ops, T)
  BY DEF Queues
<1> QED
  BY <1>0, <1>1

\* Nothing may be queued.
LEMMA QueuesNone ==
  ASSUME OtaInv, NEW c \in Bud, pend' = pend, NEW T
  PROVE  Queues(c, T)
BY InvOf, NothingQueued

\* A handler of a bud either writes to the area or leaves it alone.
LEMMA BudSorts ==
  ASSUME OtaInv, NEW c \in Bud, BudFrame(c), BudDoes(c)
  PROVE  Writing(c) \/ Sparing(c)
<1>0. /\ pend = [b \in Bud |-> pend[b]] /\ inbox = [b \in Bud |-> inbox[b]]
      /\ IsSeq(pend[c]) /\ Staged(c)
  BY InvOf, BudInvOf DEF Shaped
<1>1. CASE ResumeDone(c)
  <2>1. \E ops : pend'[c] = pend[c] \o ops /\ OpsIn(ops, LogOp)
    BY <1>1, QueuesOf DEF ResumeDone
  <2>2. /\ ram'[c].pending => ram[c].pending /\ ram'[c].img = ram[c].img
        /\ ram'[c].stage = "idle" /\ Head(inbox[c]).type = "resume"
    BY <1>1 DEF ResumeDone, Ends, SameImage
  <2> QED
    BY <2>1, <2>2 DEF Sparing
<1>2. CASE StartDone(c)
  <2>1. \E ops : pend'[c] = pend[c] \o ops /\ OpsIn(ops, LogOp)
    BY <1>2, QueuesOf DEF StartDone
  <2>2. ~ram'[c].pending /\ ram'[c].stage = "idle" /\ Head(inbox[c]).type = "start"
    BY <1>2 DEF StartDone, Ends
  <2> QED
    BY <2>1, <2>2 DEF Sparing
<1>3. CASE ConfigBegun(c)
  <2>1. PICK f : pend' = [pend EXCEPT ![c] = @ \o BootOps("normal", f)]
    BY <1>3 DEF ConfigBegun
  <2>2. pend'[c] = pend[c] \o BootOps("normal", f)
    BY <1>0, <2>1
  <2>3. /\ ram'[c].pending => ram[c].pending /\ ram'[c].img = ram[c].img
        /\ ram'[c].stage = "config" /\ inbox'[c] = inbox[c]
    BY <1>3 DEF ConfigBegun, Goes, SameRam
  <2>4. \E i \in DOMAIN pend'[c] : pend'[c][i] = SetBoot("normal")
    <3>1. PICK o : o = BootOps("normal", f)
      OBVIOUS
    <3>2. IsSeq(o) /\ \E i \in DOMAIN o : o[i] = SetBoot("normal")
      BY <3>1, BootOpsAre
    <3>3. PICK q : q = pend[c] /\ IsSeq(q)
      BY <1>0
    <3>4. /\ \A i \in DOMAIN o : (q \o o)[Len(q) + i] = o[i]
          /\ DOMAIN (q \o o) = 1..(Len(q) + Len(o)) /\ Len(q) \in Nat /\ Len(o) \in Nat
      BY <3>2, <3>3, Joined
    <3>5. DOMAIN o = 1..Len(o)
      BY <3>2, SeqFacts
    <3>6. PICK i \in DOMAIN o : o[i] = SetBoot("normal")
      BY <3>2
    <3>7. Len(q) + i \in DOMAIN (q \o o)
      BY <3>4, <3>5
    <3> QED
      BY <2>2, <3>1, <3>3, <3>4, <3>6, <3>7
  <2> QED
    BY <2>2, <2>3, <2>4 DEF Sparing
<1>4. CASE ConfigDone(c)
  <2>1. \E ops : pend'[c] = pend[c] \o ops /\ OpsIn(ops, LogOp)
    BY <1>4, QueuesOf, QueuesNone DEF ConfigDone
  <2>2. /\ ram'[c].pending => ram[c].pending /\ ram'[c].img = ram[c].img
        /\ ram'[c].stage = "idle" /\ Head(inbox[c]).type = "config"
        /\ ram[c].stage = "config" /\ pend[c] = <<>>
    BY <1>4 DEF ConfigDone, Ends, SameRam
  <2> QED
    BY <2>1, <2>2 DEF Sparing
<1>5. CASE ResultDone(c) \/ ApplyDone(c)
  <2>1. \E ops : pend'[c] = pend[c] \o ops /\ OpsIn(ops, LogOp)
    BY <1>5, QueuesOf, QueuesNone DEF ResultDone, ApplyDone
  <2>2. /\ ram'[c].pending => ram[c].pending /\ ram'[c].img = ram[c].img
        /\ ram'[c].stage = "idle" /\ Head(inbox[c]).type \in {"result", "apply"}
    BY <1>5 DEF ResultDone, ApplyDone, Ends, SameRam
  <2> QED
    BY <2>1, <2>2 DEF Sparing
<1>6. CASE DataBegun(c) \/ VerifyBegun(c) \/ VerifyRefused(c) \/ ResultBegun(c)
  <2>1. \E ops : pend'[c] = pend[c] \o ops /\ (OpsIn(ops, LogOp) \/ OpsIn(ops, AreaOp))
    <3>1. Queues(c, LogOp) \/ Queues(c, AreaOp)
      BY <1>6 DEF DataBegun, VerifyBegun, VerifyRefused, ResultBegun
    <3> QED
      BY <3>1, QueuesOf
  <2>2. /\ Head(inbox[c]).type \in Writers /\ ~Seen(c) /\ ram'[c].stage # "config"
        /\ ram'[c].pending => ram[c].pending
    BY <1>6 DEF DataBegun, VerifyBegun, VerifyRefused, ResultBegun, Goes, SameRam, Seen, Writers
  <2> QED
    BY <2>1, <2>2 DEF Writing
<1>7. CASE DataDone(c) \/ VerifyDone(c) \/ ResultRefused(c)
  <2>1. \E ops : pend'[c] = pend[c] \o ops /\ (OpsIn(ops, LogOp) \/ OpsIn(ops, AreaOp))
    <3>1. Queues(c, LogOp) \/ Queues(c, AreaOp)
      BY <1>7, QueuesNone DEF DataDone, VerifyDone, ResultRefused
    <3> QED
      BY <3>1, QueuesOf
  <2>2. /\ Head(inbox[c]).type \in Writers /\ ram'[c].stage # "config"
        /\ ram'[c].pending => ram[c].pending
    BY <1>7 DEF DataDone, VerifyDone, ResultRefused, Ends, SameRam, SameImage, Writers
  <2>3. ~Seen(c)
    BY <1>0, <1>7 DEF DataDone, VerifyDone, ResultRefused, Ends, Seen, Staged
  <2> QED
    BY <2>1, <2>2, <2>3 DEF Writing
<1>8. CASE ImageChecked(c)
  <2>1. \E ops : pend'[c] = pend[c] \o ops /\ OpsIn(ops, LogOp)
    BY <1>8, QueuesOf DEF ImageChecked
  <2>2. Head(inbox[c]).type \in Writers /\ ram'[c].stage # "config" /\ ~Seen(c)
    BY <1>8 DEF ImageChecked, Goes, Writers, Seen
  <2> QED
    BY <1>8, <2>1, <2>2 DEF Writing
<1> QED
  BY <1>1, <1>2, <1>3, <1>4, <1>5, <1>6, <1>7, <1>8 DEF BudDoes

\* While a bud applies the image its name stays.
LEMMA ApplyingKeepsImage ==
  ASSUME OtaInv, NEW c \in Bud, BudFrame(c), BudDoes(c), twsStep[c] = "apply"
  PROVE  ram'[c].img = ram[c].img
<1>1. inbox[c] # <<>>
  BY BudTouches
<1>2. c = "master"
  <2>1. c = "slave" => inbox[c] = <<>>
    BY DEF OtaInv, SlaveApplies, SlaveIsTold
  <2> QED
    BY <1>1, <2>1 DEF Bud
<1>3. \A i \in DOMAIN inbox[c] : inbox[c][i].type = "apply" \/ (i = 1 /\ Seen(c))
  BY <1>2 DEF OtaInv, MasterApplies, MasterIsTold, Begun
<1>4. Head(inbox[c]) = inbox[c][1] /\ 1 \in DOMAIN inbox[c]
  BY <1>1, InvOf, SeqFacts
<1>5. Head(inbox[c]).type = "apply" \/ Seen(c)
  BY <1>3, <1>4
<1>6. Staged(c)
  BY BudInvOf
<1> QED
  BY <1>5, <1>6 DEF BudDoes, ResumeDone, StartDone, ConfigBegun, ConfigDone, DataBegun, DataDone,
         VerifyBegun, VerifyRefused, VerifyDone, ResultBegun, ResultRefused, ImageChecked,
         ResultDone, ApplyDone, Ends, Goes, SameRam, Seen, Staged

\* The operations queued by a step of bud c.
LEMMA BudQueues ==
  ASSUME OtaInv, NEW c \in Bud, BudFrame(c), BudDoes(c)
  PROVE  /\ OpsIn(pend'[c], OpKind)
         /\ NamesTheVerified(c)'
         /\ Sparing(c) /\ LeavesArea(pend[c]) => LeavesArea(pend'[c])
<1>0. IsSeq(pend[c]) /\ OpsIn(pend[c], OpKind) /\ NamesTheVerified(c)
  BY InvOf, BudInvOf
<1>1. PICK ops :
        /\ pend'[c] = pend[c] \o ops
        /\ OpsIn(ops, LogOp) \/ OpsIn(ops, AreaOp) \/ \E f : ops = BootOps("normal", f)
        /\ Sparing(c) => OpsIn(ops, LogOp) \/ \E f : ops = BootOps("normal", f)
  <2>1. CASE Sparing(c)
    BY <2>1 DEF Sparing
  <2>2. CASE ~Sparing(c)
    <3>1. Writing(c)
      BY <2>2, BudSorts
    <3> QED
      BY <2>2, <3>1 DEF Writing
  <2> QED
    BY <2>1, <2>2
<1>2. OpsIn(ops, OpKind)
  BY <1>1, OpsAre
<1>3. OpsIn(pend'[c], OpKind)
  BY <1>0, <1>1, <1>2, OpsJoined
<1>4. ASSUME Sparing(c), LeavesArea(pend[c]) PROVE LeavesArea(pend'[c])
  <2>1. OpsIn(ops, LogOp) \/ \E v, f : ops = BootOps(v, f)
    BY <1>1, <1>4
  <2> QED
    BY <1>0, <1>1, <1>4, <2>1, AreaLeft
<1>5. NamesTheVerified(c)'
  <2> SUFFICES ASSUME NEW i \in DOMAIN pend'[c], Names(pend'[c][i])
               PROVE  twsStep'[c] = "apply" /\ pend'[c][i].boot = ram'[c].img
    BY DEF NamesTheVerified, Names
  <2>1. IsSeq(ops) /\ \A j \in DOMAIN ops : ~Names(ops[j])
    BY <1>1, NamesNone
  <2>2. PICK q : q = pend[c] /\ IsSeq(q)
    BY <1>0
  <2>3. i \in DOMAIN (q \o ops) /\ Names((q \o ops)[i])
    BY <1>1, <2>2
  <2>4. i \in DOMAIN q /\ (q \o ops)[i] = q[i]
    BY <2>1, <2>2, <2>3, NamesLeft
  <2>5. i \in DOMAIN pend[c] /\ pend'[c][i] = pend[c][i]
    BY <1>1, <2>2, <2>4
  <2>6. twsStep[c] = "apply" /\ pend[c][i].boot = ram[c].img
    BY <1>0, <2>5 DEF NamesTheVerified
  <2>7. twsStep'[c] = "apply"
    BY <2>6, BudTouches
  <2> QED
    BY <2>5, <2>6, <2>7, ApplyingKeepsImage
<1> QED
  BY <1>3, <1>4, <1>5

\* What the image checked is.
LEMMA CheckedIs ==
  ASSUME OtaInv, NEW c \in Bud, BudFrame(c), BudDoes(c), ImageChecked(c), ram'[c].pending
  PROVE  Intact(c)'
<1>1. /\ pend[c] = <<>> /\ flash[c].magic /\ Whole(flash[c], ram'[c].img)
      /\ Queues(c, LogOp)
  BY DEF ImageChecked
<1>2. flash'[c] = flash[c]
  BY BudTouches
<1>3. PICK ops : pend'[c] = pend[c] \o ops /\ OpsIn(ops, LogOp)
  BY <1>1, QueuesOf
<1>4. LeavesArea(pend[c])
  BY <1>1 DEF LeavesArea
<1>5. LeavesArea(pend'[c])
  BY <1>3, <1>4, InvOf, AreaLeft
<1> QED
  BY <1>1, <1>2, <1>5 DEF Intact, IntactIn, Whole, LeavesArea

\* A packet of start or config is only taken where it has been seen to.
LEMMA BudHas ==
  ASSUME OtaInv, NEW c \in Bud, BudFrame(c), BudDoes(c), Sparing(c)
  PROVE  /\ ram'[c].pending /\ Has(c, "start") => Has(c, "start")'
         /\ flash[c].boot \in Image /\ Has(c, "config") => Has(c, "config")'
         /\ ToDo(c)' => ToDo(c) \/ inbox'[c] = inbox[c]
<1>0. IsSeq(inbox[c]) /\ inbox[c] # <<>> /\ ConfigResets(c)
  BY InvOf, BudInvOf, BudTouches
<1>1. CASE inbox'[c] = inbox[c]
  BY <1>1 DEF Has
<1>2. CASE inbox'[c] # inbox[c]
  <2>1. inbox'[c] = Tail(inbox[c])
    BY <1>2, BudTouches
  <2>2. \A type : HasIn(inbox[c], type) /\ Head(inbox[c]).type # type => HasIn(inbox'[c], type)
    BY <1>0, <2>1, HasTail
  <2>3. ram'[c].pending => Head(inbox[c]).type # "start"
    BY <1>2 DEF Sparing
  <2>4. flash[c].boot \in Image => Head(inbox[c]).type # "config"
    <3> SUFFICES ASSUME flash[c].boot \in Image, Head(inbox[c]).type = "config" PROVE FALSE
      OBVIOUS
    <3>1. ram[c].stage = "config" /\ pend[c] = <<>>
      BY <1>2 DEF Sparing
    <3> QED
      BY <1>0, <3>1, Single DEF ConfigResets
  <2>5. ASSUME ToDo(c)' PROVE ToDo(c)
    <3>1. ToDoIn(Tail(inbox[c]), Seen(c)')
      BY <2>1, <2>5 DEF ToDo
    <3>2. PICK s : s = Seen(c)'
      OBVIOUS
    <3>3. ToDoIn(Tail(inbox[c]), s)
      BY <3>1, <3>2
    <3>4. \A t : ToDoIn(inbox[c], t)
      BY <1>0, <3>3, ToDoTail
    <3> QED
      BY <3>4 DEF ToDo
  <2> QED
    BY <2>2, <2>3, <2>4, <2>5 DEF Has
<1> QED
  BY <1>1, <1>2

\* When the image has been checked nothing that writes is left.
LEMMA CheckedToDo ==
  ASSUME OtaInv, NEW c \in Bud, BudFrame(c), BudDoes(c), ImageChecked(c)
  PROVE  ~ToDo(c)'
<1>1. /\ inbox' = inbox /\ ram'[c].stage = "destroy" /\ inbox[c] # <<>>
      /\ Head(inbox[c]).type = "result"
  BY DEF ImageChecked, Goes
<1>2. IsSeq(inbox[c]) /\ OrderedIn(inbox[c])
  BY InvOf, BudInvOf DEF Ordered
<1>3. ASSUME NEW i \in DOMAIN inbox[c], i # 1 PROVE inbox[c][i].type \notin Writers
  <2>1. Before(Head(inbox[c]), inbox[c][i])
    BY <1>1, <1>2, <1>3, AfterFirst
  <2>2. Rank("result") = 4 /\ Rank("data") = 3 /\ Rank("verify") = 3
    BY Ranks
  <2>3. 4 < Rank(inbox[c][i].type)
    BY <1>1, <2>1, <2>2 DEF Before
  <2> QED
    BY <2>2, <2>3 DEF Writers
<1> QED
  BY <1>1, <1>3 DEF ToDo, ToDoIn, Seen

\* What is said of bud c stays true.
LEMMA BudOwnInv ==
  ASSUME OtaInv, NEW c \in Bud, BudFrame(c), BudDoes(c)
  PROVE  BudInv(c)'
<1>0. /\ IsSeq(inbox[c]) /\ inbox[c] # <<>>
      /\ flash' = flash /\ twsStep' = twsStep /\ phone' = phone
      /\ \/ inbox'[c] = inbox[c]
         \/ inbox'[c] = Tail(inbox[c]) /\ ram'[c].stage = "idle"
      /\ WillHear(c)' => WillHear(c)
  BY InvOf, BudTouches
<1>1. Staged(c)'
  BY <1>0 DEF BudDoes, ResumeDone, StartDone, ConfigBegun, ConfigDone, DataBegun, DataDone,
         VerifyBegun, VerifyRefused, VerifyDone, ResultBegun, ResultRefused, ImageChecked,
         ResultDone, ApplyDone, Ends, Goes, Staged
<1>2. Ordered(c)'
  <2>1. OrderedIn(inbox[c])
    BY BudInvOf DEF Ordered
  <2>2. OrderedIn(inbox'[c])
    BY <1>0, <2>1, OrderedTail
  <2> QED
    BY <2>2 DEF Ordered
<1>3. AtMost(c)'
  <2>1. AtMost(c)
    BY BudInvOf
  <2>2. ASSUME Session PROVE RanksTo(inbox'[c], Rank(phone.at))
    BY <1>0, <2>1, <2>2, RanksTail DEF AtMost
  <2> QED
    BY <1>0, <2>2 DEF AtMost, Session
<1>4. NamesTheVerified(c)'
  BY BudQueues
<1>5. CASE Writing(c)
  <2>1. ~ram[c].pending /\ flash[c].boot \notin Image
    BY <1>0, <1>5, WritesFree DEF Writing
  <2>2. ram'[c].pending => ImageChecked(c)
    BY <1>5, <2>1 DEF Writing
  <2>3. VerifiedIsWhole(c)'
    BY <2>2, CheckedIs DEF VerifiedIsWhole
  <2>4. BootIsWhole(c)' /\ ConfigFirst(c)' /\ ConfigResets(c)' /\ Configured(c)'
    BY <1>0, <2>1 DEF BootIsWhole, ConfigFirst, ConfigResets, Configured
  <2>5. StartsFirst(c)'
    BY <2>2, CheckedToDo DEF StartsFirst
  <2>6. Started(c)'
    <3> SUFFICES ASSUME ram'[c].pending, Session, Rank(phone.at) \in 1..3 PROVE FALSE
      BY <1>0 DEF Started, Session
    <3>1. Head(inbox[c]).type = "result"
      BY <2>2 DEF ImageChecked, Goes
    <3>2. AtMost(c)
      BY BudInvOf
    <3>3. Rank(Head(inbox[c]).type) <= Rank(phone.at)
      BY <1>0, <3>2, RanksTail DEF AtMost
    <3>4. Rank("result") = 4
      BY Ranks
    <3> QED
      BY <3>1, <3>3, <3>4
  <2> QED
    BY <1>1, <1>2, <1>3, <1>4, <2>3, <2>4, <2>5, <2>6 DEF BudInv
<1>6. CASE Sparing(c)
  <2>0. ram'[c].pending => ram[c].pending /\ ram'[c].img = ram[c].img
    BY <1>6 DEF Sparing
  <2>1. LeavesArea(pend[c]) => LeavesArea(pend'[c])
    BY <1>6, BudQueues
  <2>2. VerifiedIsWhole(c)'
    <3>1. VerifiedIsWhole(c)
      BY BudInvOf
    <3> QED
      BY <1>0, <2>0, <2>1, <3>1 DEF VerifiedIsWhole, Intact, IntactIn, Whole, LeavesArea
  <2>3. BootIsWhole(c)'
    <3>1. BootIsWhole(c)
      BY BudInvOf
    <3> QED
      BY <1>0, <2>1, <3>1 DEF BootIsWhole, IntactIn, Whole, LeavesArea
  <2>4. /\ ram'[c].pending /\ Has(c, "start") => Has(c, "start")'
        /\ flash[c].boot \in Image /\ Has(c, "config") => Has(c, "config")'
        /\ ToDo(c)' => ToDo(c) \/ inbox'[c] = inbox[c]
    BY <1>6, BudHas
  <2>5. ASSUME ram'[c].pending \/ flash[c].boot \in Image, ToDo(c)' PROVE ToDo(c)
    <3> SUFFICES ASSUME inbox'[c] = inbox[c], ~ToDo(c) PROVE FALSE
      BY <2>4, <2>5
    <3>1. PICK i \in DOMAIN inbox[c] : inbox[c][i].type \in Writers
      BY <2>5 DEF ToDo, ToDoIn
    <3>2. i = 1 /\ Seen(c)
      BY <3>1 DEF ToDo, ToDoIn
    <3>3. Head(inbox[c]) = inbox[c][1]
      BY <1>0, SeqFacts
    <3>4. Staged(c)
      BY BudInvOf
    <3>5. ResultDone(c)
      BY <3>2, <3>4 DEF BudDoes, ResumeDone, StartDone, ConfigBegun, ConfigDone, DataBegun, DataDone,
         VerifyBegun, VerifyRefused, VerifyDone, ResultBegun, ResultRefused, ImageChecked,
         ApplyDone, Ends, Goes, Seen, Staged
    <3>6. inbox'[c] = Tail(inbox[c])
      BY <3>5, InvOf DEF ResultDone, Ends, Shaped
    <3>7. Len(Tail(inbox[c])) = Len(inbox[c]) - 1 /\ Len(inbox[c]) \in Nat
      BY <1>0, Tailed
    <3>8. PICK q : q = inbox[c]
      OBVIOUS
    <3>9. Tail(q) = q /\ Len(Tail(q)) = Len(q) - 1 /\ Len(q) \in Nat
      BY <3>6, <3>7, <3>8
    <3>10. Len(q) = Len(q) - 1 /\ Len(q) \in Nat
      BY <3>9
    <3> QED
      BY <3>10
  <2>6. StartsFirst(c)' /\ ConfigFirst(c)'
    <3>1. StartsFirst(c) /\ ConfigFirst(c)
      BY BudInvOf
    <3> QED
      BY <1>0, <2>0, <2>4, <2>5, <3>1 DEF StartsFirst, ConfigFirst
  <2>7. ConfigResets(c)'
    BY <1>6 DEF Sparing, ConfigResets, SetBoot
  <2>8. Started(c)' /\ Configured(c)'
    <3>1. Started(c) /\ Configured(c)
      BY BudInvOf
    <3> QED
      BY <1>0, <2>0, <2>4, <3>1 DEF Started, Configured, Session
  <2> QED
    BY <1>1, <1>2, <1>3, <1>4, <2>2, <2>3, <2>6, <2>7, <2>8 DEF BudInv
<1> QED
  BY <1>5, <1>6, BudSorts

\* And what is said of the other.
LEMMA BudBothInv ==
  ASSUME OtaInv, NEW c \in Bud, BudFrame(c), BudDoes(c)
  PROVE  \A b \in Bud : BudInv(b)'
<1> TAKE b \in Bud
<1>1. CASE b = c
  BY <1>1, BudOwnInv
<1>2. CASE b # c
  <2>1. /\ inbox'[b] = inbox[b] /\ ram'[b] = ram[b] /\ pend'[b] = pend[b]
        /\ UNCHANGED <<flash, twsStep, phone>> /\ (WillHear(b)' => WillHear(b))
    BY <1>2, BudTouches
  <2>2. Keeps(b)
    BY <2>1, KeepsNone DEF Keeps
  <2> QED
    BY <2>2, KeepsInv
<1> QED
  BY <1>1, <1>2

\* What a bud tells: the slave the other bud, the master the phone.
LEMMA BudTells ==
  ASSUME OtaInv, NEW c \in Bud, BudFrame(c), BudDoes(c)
  PROVE  /\ c = "master" => toMaster' = toMaster
         /\ c = "slave" =>
              /\ tws' = tws /\ answer' = answer
              /\ \/ toMaster' = toMaster
                 \/ /\ link
                    /\ \E cmd : /\ toMaster' = Append(toMaster, cmd)
                                /\ cmd.type = "apply" =>
                                     ApplyDone(c) /\ (cmd.val = 1 => ram[c].pending)
                                /\ cmd.type = "resume" /\ cmd.val # 0 => ~ram'[c].pending
<1> DEFINE Tell(type, val) ==
             link /\ \E cmd : cmd.type = type /\ cmd.val = val /\ toMaster' = Append(toMaster, cmd)
<1>1. ASSUME NEW type, NEW val, NEW err, Says(c, type, val, err)
      PROVE  /\ c = "master" => toMaster' = toMaster
             /\ c = "slave" => /\ tws' = tws /\ answer' = answer
                               /\ toMaster' = toMaster \/ Tell(type, val)
  BY <1>1 DEF Says
<1>2. CASE ResumeDone(c)
  <2>1. PICK val : Says(c, "resume", val, tws.err) /\ (val # 0 => ~ram'[c].pending)
    BY <1>2 DEF ResumeDone
  <2>2. /\ c = "master" => toMaster' = toMaster
        /\ c = "slave" => /\ tws' = tws /\ answer' = answer
                          /\ toMaster' = toMaster \/ Tell("resume", val)
    BY <1>1, <2>1
  <2> QED
    BY <2>1, <2>2
<1>3. CASE ApplyDone(c)
  <2>1. PICK err : Says(c, "apply", IF ram[c].pending THEN 1 ELSE 0, err)
    BY <1>3 DEF ApplyDone
  <2> DEFINE val == IF ram[c].pending THEN 1 ELSE 0
  <2>2. /\ c = "master" => toMaster' = toMaster
        /\ c = "slave" => /\ tws' = tws /\ answer' = answer
                          /\ toMaster' = toMaster \/ Tell("apply", val)
    <3>1. Says(c, "apply", val, err)
      BY <2>1
    <3> HIDE DEF val
    <3> QED
      BY <1>1, <3>1
  <2>3. val = 1 => ram[c].pending
    OBVIOUS
  <2> HIDE DEF val
  <2> QED
    BY <1>3, <2>2, <2>3
<1>4. CASE \E type, val, err : Says(c, type, val, err) /\ type \notin {"resume", "apply"}
  <2>1. PICK type, val, err : Says(c, type, val, err) /\ type \notin {"resume", "apply"}
    BY <1>4
  <2>2. /\ c = "master" => toMaster' = toMaster
        /\ c = "slave" => /\ tws' = tws /\ answer' = answer
                          /\ toMaster' = toMaster \/ Tell(type, val)
    BY <1>1, <2>1
  <2> QED
    BY <2>1, <2>2
<1>5. CASE /\ toMaster' = toMaster
           /\ c = "slave" => tws' = tws /\ answer' = answer
  BY <1>5
<1>6. CASE ConfigBegun(c)
  BY <1>6, <1>5 DEF ConfigBegun
<1>7. CASE DataDone(c)
  <2>1. Acks(c)
    BY <1>7 DEF DataDone
  <2>2. Says(c, "ack", 0, tws.err) \/ (toMaster' = toMaster /\ (c = "slave" => tws' = tws /\ answer' = answer))
    BY <2>1 DEF Acks
  <2>3. "ack" \notin {"resume", "apply"}
    OBVIOUS
  <2> QED
    BY <2>2, <2>3, <1>4, <1>5
<1>8. CASE DataBegun(c) \/ VerifyBegun(c) \/ VerifyRefused(c) \/ ResultBegun(c) \/ ResultDone(c)
  BY <1>8, <1>5 DEF DataBegun, VerifyBegun, VerifyRefused, ResultBegun, ResultDone, SaysNothing
<1>9. CASE StartDone(c) \/ ConfigDone(c) \/ VerifyDone(c) \/ ResultRefused(c) \/ ImageChecked(c)
  <2>1. \E type, val, err : Says(c, type, val, err) /\ type \in {"start", "config", "segment", "result"}
    BY <1>9 DEF StartDone, ConfigDone, VerifyDone, ResultRefused, ImageChecked
  <2> QED
    BY <2>1, <1>4
<1> QED
  BY <1>2, <1>3, <1>6, <1>7, <1>8, <1>9 DEF BudDoes

\* The kind of a step of a bud follows from the packet.
LEMMA BudByType ==
  ASSUME NEW c \in Bud, BudDoes(c)
  PROVE  /\ Head(inbox[c]).type = "resume" => ResumeDone(c)
         /\ Head(inbox[c]).type = "start" => StartDone(c)
         /\ Head(inbox[c]).type = "config" => ConfigBegun(c) \/ ConfigDone(c)
         /\ Head(inbox[c]).type = "data" => DataBegun(c) \/ DataDone(c)
         /\ Head(inbox[c]).type = "verify" => VerifyBegun(c) \/ VerifyRefused(c) \/ VerifyDone(c)
         /\ Head(inbox[c]).type = "result" =>
              ResultBegun(c) \/ ResultRefused(c) \/ ImageChecked(c) \/ ResultDone(c)
         /\ Head(inbox[c]).type = "apply" => ApplyDone(c)
         /\ Head(inbox[c]).type \in PacketType
BY DEF BudDoes, ResumeDone, StartDone, ConfigBegun, ConfigDone, DataBegun, DataDone,
       VerifyBegun, VerifyRefused, VerifyDone, ResultBegun, ResultRefused, ImageChecked,
       ResultDone, ApplyDone, Ends, Goes, PacketType

\* The master stays in step where nothing it is about changes.
LEMMA InStepKept ==
  ASSUME OtaInv, phone' = phone \/ phone'.at \in {"idle", "done", "apply"},
         inbox'["master"] = inbox["master"],
         tws'.type = tws.type, tws'.err = tws.err, answer' = answer,
         ram'["master"].stage = ram["master"].stage,
         Intact("master") => Intact("master")'
  PROVE  InStep'
<1>1. InStep
  BY DEF OtaInv
<1>2. Quiet => Quiet'
  BY DEF Quiet
<1>3. StepResume => StepResume'
  BY DEF StepResume
<1>4. StepStart => StepStart'
  BY DEF StepStart
<1>5. StepConfig => StepConfig'
  BY <1>2 DEF StepConfig
<1>6. StepAck => StepAck'
  BY DEF StepAck, Only, ReadyFor
<1>7. StepSegment => StepSegment'
  BY <1>2 DEF StepSegment, Only, ReadyFor
<1>8. StepResult => StepResult'
  BY DEF StepResult, Only, ReadyFor, Passed, Seen
<1> QED
  BY <1>1, <1>2, <1>3, <1>4, <1>5, <1>6, <1>7, <1>8 DEF InStep

\* The last packet taken.
LEMMA OnlyTaken ==
  ASSUME OtaInv, NEW type, Only(type), inbox'["master"] = Tail(inbox["master"])
  PROVE  inbox'["master"] = <<>>
<1>1. PICK q : q = inbox["master"] /\ IsSeq(q)
  BY InvOf DEF Bud
<1>2. Len(q) = 1
  BY <1>1 DEF Only
<1>3. q # <<>>
  BY <1>1, <1>2, SeqFacts
<1>4. IsSeq(Tail(q)) /\ Len(Tail(q)) = 0
  BY <1>1, <1>2, <1>3, Tailed
<1>5. Tail(q) = <<>>
  BY <1>4, SeqFacts
<1> QED
  BY <1>1, <1>5

\* The phone waits for the configuration: it is the last packet.
LEMMA ConfigIsLast ==
  ASSUME OtaInv, phone.at = "config", inbox["master"] # <<>>,
         Head(inbox["master"]).type = "config"
  PROVE  Only("config")
<1>1. PICK q : q = inbox["master"] /\ IsSeq(q)
  BY InvOf DEF Bud
<1>2. OrderedIn(q) /\ RanksTo(q, Rank("config"))
  BY <1>1, BudInvOf DEF Bud, Ordered, AtMost, Session
<1>3. Rank("config") = 2 /\ \A type : Rank(type) \in 0..5
  BY Ranks
<1>4. DOMAIN q = 1..Len(q) /\ Len(q) \in Nat /\ Len(q) >= 1
  BY <1>1, SeqFacts
<1>5. ~(2 \in DOMAIN q)
  <2> SUFFICES ASSUME 2 \in DOMAIN q PROVE FALSE
    OBVIOUS
  <2>1. Before(Head(q), q[2])
    BY <1>1, <1>2, AfterFirst
  <2>2. Rank(q[2].type) <= 2
    BY <1>2, <1>3 DEF RanksTo
  <2>3. 2 < Rank(q[2].type)
    BY <1>1, <1>3, <2>1 DEF Before
  <2>4. Rank(q[2].type) \in 0..5
    BY <1>3
  <2> QED
    BY <2>2, <2>3, <2>4
<1>6. Len(q) = 1
  BY <1>4, <1>5
<1> QED
  BY <1>1, <1>6 DEF Only

\* The master's own step, by what the phone waits for.
LEMMA MasterStaysInStep ==
  ASSUME OtaInv, BudFrame("master"), BudDoes("master")
  PROVE  InStep'
<1> DEFINE m == "master"
           t == Head(inbox[m]).type
<1>0. /\ m \in Bud /\ inbox[m] # <<>> /\ phone' = phone /\ flash' = flash
      /\ IsSeq(inbox[m]) /\ inbox = [b \in Bud |-> inbox[b]]
      /\ InStep /\ t \in PacketType
  <2>1. m \in Bud
    BY DEF Bud
  <2> QED
    BY <2>1, BudTouches, BudByType, InvOf DEF OtaInv, Shaped
<1>1. Session => Rank(t) <= Rank(phone.at)
  <2>1. AtMost(m)
    BY <1>0, BudInvOf
  <2> QED
    BY <1>0, <2>1, RanksTail DEF AtMost
<1>2. CASE phone.at = "resume"
  <2>1. ResumeDone(m)
    <3>1. Rank(t) <= 0
      BY <1>1, <1>2, Ranks DEF Session
    <3>2. t = "resume"
      BY <1>0, <3>1, Ranks DEF PacketType
    <3> QED
      BY <1>0, <3>2, BudByType
  <2>2. tws'.type = "resume"
    BY <2>1 DEF ResumeDone, Says
  <2> QED
    BY <1>0, <1>2, <2>2 DEF InStep, StepResume
<1>3. CASE phone.at = "start"
  <2>1. ResumeDone(m) \/ StartDone(m)
    <3>1. Rank(t) <= 1
      BY <1>1, <1>3, Ranks DEF Session
    <3>2. t \in {"resume", "start"}
      BY <1>0, <3>1, Ranks DEF PacketType
    <3> QED
      BY <1>0, <3>2, BudByType
  <2>2. tws'.type \in {"resume", "start"}
    BY <2>1 DEF ResumeDone, StartDone, Says
  <2> QED
    BY <1>0, <1>3, <2>2 DEF InStep, StepStart
<1>4. CASE phone.at = "config"
  <2>1. StepConfig /\ ~Quiet
    BY <1>0, <1>4 DEF InStep, Quiet
  <2>2. ResumeDone(m) \/ StartDone(m) \/ ConfigBegun(m) \/ ConfigDone(m)
    <3>1. Rank(t) <= 2
      BY <1>1, <1>4, Ranks DEF Session
    <3>2. t \in {"resume", "start", "config"}
      BY <1>0, <3>1, Ranks DEF PacketType
    <3> QED
      BY <1>0, <3>2, BudByType
  <2>3. answer'.kind # "config"
    BY <2>1, <2>2 DEF StepConfig, ResumeDone, StartDone, ConfigBegun, ConfigDone, Says
  <2>4. CASE ResumeDone(m) \/ StartDone(m)
    <3>1. tws'.type \in {"resume", "start"}
      BY <2>4 DEF ResumeDone, StartDone, Says
    <3> QED
      BY <1>0, <1>4, <2>3, <3>1 DEF InStep, StepConfig
  <2>5. CASE ConfigBegun(m)
    <3>1. tws'.type = tws.type
      BY <2>5 DEF ConfigBegun
    <3>2. tws.type \in {"none", "resume", "start"}
      BY <1>0, <2>1 DEF StepConfig
    <3> QED
      BY <1>0, <1>4, <2>3, <3>1, <3>2 DEF InStep, StepConfig
  <2>6. CASE ConfigDone(m)
    <3>1. tws'.type = "config" /\ inbox' = [inbox EXCEPT ![m] = Tail(@)] /\ t = "config"
      BY <2>6 DEF ConfigDone, Ends, Says
    <3>2. Only("config")
      BY <1>0, <1>4, <3>1, ConfigIsLast
    <3>3. inbox'[m] = Tail(inbox[m])
      BY <1>0, <3>1
    <3>4. inbox'[m] = <<>>
      BY <3>2, <3>3, OnlyTaken
    <3> QED
      BY <1>0, <1>4, <2>3, <3>1, <3>4 DEF InStep, StepConfig
  <2> QED
    BY <2>2, <2>4, <2>5, <2>6
<1>5. CASE phone.at = "ack"
  <2>1. /\ tws.err = 0 /\ Only("data") /\ tws.type = "none" /\ answer.kind # "ack"
    BY <1>0, <1>5 DEF InStep, StepAck
  <2>2. DataBegun(m) \/ DataDone(m)
    BY <1>0, <2>1, BudByType DEF Only
  <2>3. CASE DataBegun(m)
    <3>1. UNCHANGED <<tws, answer, inbox>>
      BY <2>3 DEF DataBegun, SaysNothing, Goes
    <3> QED
      BY <1>0, <1>5, <2>1, <3>1 DEF InStep, StepAck, Only
  <2>4. CASE DataDone(m)
    <3>1. inbox'[m] = Tail(inbox[m])
      BY <1>0, <2>4 DEF DataDone, Ends
    <3>2. inbox'[m] = <<>>
      BY <2>1, <3>1, OnlyTaken
    <3>3. /\ tws'.err = 0 /\ tws'.type \in {"none", "ack"}
          /\ answer'.kind = "ack" => tws'.type = "none"
      BY <2>1, <2>4 DEF DataDone, Acks, Says
    <3> QED
      BY <1>0, <1>5, <3>2, <3>3 DEF InStep, StepAck, ReadyFor
  <2> QED
    BY <2>2, <2>3, <2>4
<1>6. CASE phone.at = "segment"
  <2>1. Only("verify") /\ tws.type = "none" /\ answer.kind # "segment"
    BY <1>0, <1>6 DEF InStep, StepSegment
  <2>2. VerifyBegun(m) \/ VerifyRefused(m) \/ VerifyDone(m)
    BY <1>0, <2>1, BudByType DEF Only
  <2>3. CASE VerifyBegun(m) \/ VerifyRefused(m)
    <3>1. UNCHANGED <<tws, answer, inbox>>
      BY <2>3 DEF VerifyBegun, VerifyRefused, SaysNothing, Goes
    <3> QED
      BY <1>0, <1>6, <2>1, <3>1 DEF InStep, StepSegment, Only
  <2>4. CASE VerifyDone(m)
    <3>1. inbox'[m] = Tail(inbox[m])
      BY <1>0, <2>4 DEF VerifyDone, Ends
    <3>2. inbox'[m] = <<>>
      BY <2>1, <3>1, OnlyTaken
    <3>3. tws'.type = "segment" /\ answer' = answer
      BY <2>4 DEF VerifyDone, Says
    <3> QED
      BY <1>0, <1>6, <2>1, <3>2, <3>3 DEF InStep, StepSegment, ReadyFor
  <2> QED
    BY <2>2, <2>3, <2>4
<1>7. CASE phone.at = "result"
  <2>1. StepResult /\ Only("result")
    BY <1>0, <1>7 DEF InStep, StepResult
  <2>2. ResultBegun(m) \/ ResultRefused(m) \/ ImageChecked(m) \/ ResultDone(m)
    BY <1>0, <2>1, BudByType DEF Only
  <2>3. ~Seen(m) => tws.type = "none" /\ tws.err = 0 /\ ~Passed
    BY <1>0, <2>1 DEF StepResult
  <2>4. SUFFICES StepResult'
    BY <1>0, <1>7 DEF InStep
  <2>5. CASE ResultBegun(m)
    <3>1. UNCHANGED <<tws, answer, inbox>> /\ ~Seen(m) /\ ~Seen(m)'
      BY <2>5 DEF ResultBegun, SaysNothing, Goes, Seen
    <3> QED
      BY <2>1, <2>3, <3>1 DEF StepResult, Only, Passed
  <2>6. CASE ResultRefused(m)
    <3>1. inbox'[m] = Tail(inbox[m]) /\ ~Seen(m)
      BY <1>0, <2>6 DEF ResultRefused, Ends, Seen
    <3>2. inbox'[m] = <<>>
      BY <2>1, <3>1, OnlyTaken
    <3>3. tws'.type = "result" /\ tws'.err = 0 /\ answer' = answer
      BY <2>3, <2>6, <3>1 DEF ResultRefused, Says
    <3>4. ~Passed' /\ ReadyFor("result")' /\ tws'.err # 1
      BY <2>3, <3>1, <3>3 DEF Passed, ReadyFor
    <3> QED
      BY <3>2, <3>4 DEF StepResult
  <2>7. CASE ImageChecked(m)
    <3>1. inbox' = inbox /\ ~Seen(m) /\ Seen(m)'
      BY <2>7 DEF ImageChecked, Goes, Seen
    <3>2. tws'.type = "result" /\ answer' = answer
      BY <2>7 DEF ImageChecked, Says
    <3>3. tws'.err = 1 => Intact(m)'
      <4> SUFFICES ASSUME tws'.err = 1 PROVE Intact(m)'
        OBVIOUS
      <4>1. /\ pend[m] = <<>> /\ flash[m].magic /\ Whole(flash[m], ram'[m].img)
            /\ Queues(m, LogOp)
        BY <2>7 DEF ImageChecked, Says
      <4>2. PICK ops : pend'[m] = pend[m] \o ops /\ OpsIn(ops, LogOp)
        BY <1>0, <4>1, QueuesOf
      <4>3. LeavesArea(pend[m]) /\ IsSeq(pend[m])
        BY <1>0, <4>1, InvOf DEF LeavesArea
      <4>4. LeavesArea(pend'[m])
        BY <4>2, <4>3, AreaLeft
      <4> QED
        BY <1>0, <4>1, <4>4 DEF Intact, IntactIn, Whole, LeavesArea
    <3>4. ~Passed'
      BY <2>3, <3>1, <3>2 DEF Passed
    <3>5. Only("result")'
      BY <2>1, <3>1 DEF Only
    <3> QED
      BY <3>1, <3>2, <3>3, <3>4, <3>5 DEF StepResult, ReadyFor
  <2>8. CASE ResultDone(m)
    <3>1. /\ inbox'[m] = Tail(inbox[m]) /\ Seen(m) /\ UNCHANGED <<tws, answer>>
          /\ ram'[m].img = ram[m].img /\ pend' = pend
      BY <1>0, <2>8 DEF ResultDone, Ends, Seen, SaysNothing, SameRam
    <3>2. inbox'[m] = <<>>
      BY <2>1, <3>1, OnlyTaken
    <3>3. Intact(m) => Intact(m)'
      BY <1>0, <3>1 DEF Intact, IntactIn, Whole, LeavesArea
    <3>4. /\ ReadyFor("result")
          /\ tws.type = "result" /\ tws.err = 1 => Intact(m)
          /\ Passed => Intact(m)
      BY <2>1, <3>1 DEF StepResult
    <3> QED
      BY <3>1, <3>2, <3>3, <3>4 DEF StepResult, ReadyFor, Passed
  <2> QED
    BY <2>2, <2>5, <2>6, <2>7, <2>8
<1>8. CASE phone.at \notin {"resume", "start", "config", "ack", "segment", "result"}
  BY <1>0, <1>8 DEF InStep, Quiet
<1> QED
  BY <1>2, <1>3, <1>4, <1>5, <1>6, <1>7, <1>8

\* The shape of the state after the step of a bud.
LEMMA BudShaped ==
  ASSUME OtaInv, NEW c \in Bud, BudFrame(c), BudDoes(c)
  PROVE  Shaped'
<1>0. Shaped /\ inbox[c] # <<>> /\ IsSeq(inbox[c]) /\ PacketsFit(inbox[c])
  BY InvOf, BudTouches
<1>1. /\ ram' = [b \in Bud |-> ram'[b]] /\ pend' = [b \in Bud |-> pend'[b]]
      /\ inbox' = [b \in Bud |-> inbox'[b]]
  <2>1. PICK r : ram' = [ram EXCEPT ![c] = r]
    BY DEF BudFrame
  <2>2. PICK o : pend' = [pend EXCEPT ![c] = o]
    BY DEF BudFrame
  <2>3. PICK q : inbox' = [inbox EXCEPT ![c] = q]
    BY BudTouches
  <2>4. /\ ram = [b \in Bud |-> ram[b]] /\ pend = [b \in Bud |-> pend[b]]
        /\ inbox = [b \in Bud |-> inbox[b]]
    BY <1>0 DEF Shaped
  <2> QED
    BY <2>1, <2>2, <2>3, <2>4
<1>2. UNCHANGED <<flash, link, toSlave, twsStep, phone>> /\ IsTws(tws')
  BY BudTouches DEF BudFrame
<1>3. IsSeq(toMaster')
  <2>1. \/ toMaster' = toMaster
        \/ \E cmd : toMaster' = Append(toMaster, cmd)
    BY BudTells DEF Bud
  <2>2. IsSeq(toMaster)
    BY InvOf
  <2> QED
    BY <2>1, <2>2, Appended
<1>4. ASSUME NEW b \in Bud PROVE ShapedBud(b)'
  <2>1. ShapedBud(b)
    BY <1>0 DEF Shaped
  <2>2. CASE b # c
    <3>1. inbox'[b] = inbox[b] /\ ram'[b] = ram[b] /\ pend'[b] = pend[b] /\ flash'[b] = flash[b]
      BY <2>2, BudTouches
    <3> QED
      BY <2>1, <3>1 DEF ShapedBud, RamFits, IsRam, FlashFits, IsFlash, OpsIn, IsOp, IsSeq, PacketsFit
  <2>3. CASE b = c
    <3>1. RamFits(ram'[c]) /\ OpsIn(pend'[c], OpKind) /\ flash'[c] = flash[c]
      BY BudTouches, BudQueues
    <3>2. IsSeq(inbox'[c]) /\ PacketsFit(inbox'[c])
      <4>1. CASE inbox'[c] = inbox[c]
        BY <1>0, <4>1
      <4>2. CASE inbox'[c] = Tail(inbox[c])
        <5>1. /\ IsSeq(Tail(inbox[c]))
              /\ \A i \in DOMAIN Tail(inbox[c]) :
                   Tail(inbox[c])[i] = inbox[c][i + 1] /\ i + 1 \in DOMAIN inbox[c]
          BY <1>0, Tailed
        <5> QED
          BY <1>0, <4>2, <5>1 DEF PacketsFit
      <4> QED
        BY <4>1, <4>2, BudTouches
    <3> QED
      BY <2>1, <2>3, <3>1, <3>2
         DEF ShapedBud, RamFits, IsRam, FlashFits, IsFlash, OpsIn, IsOp, IsSeq, PacketsFit
  <2> QED
    BY <2>2, <2>3
<1>5. IsPhone(phone') /\ IsSeq(toSlave')
  BY <1>0, <1>2 DEF Shaped
<1>6. flash' = [b \in Bud |-> flash'[b]] /\ twsStep' = [b \in Bud |-> twsStep'[b]]
  BY <1>0, <1>2 DEF Shaped
<1> QED
  BY <1>1, <1>2, <1>3, <1>4, <1>5, <1>6 DEF Shaped, IsPhone, IsTws, IsSeq

\* A command appended leaves the first one first.
LEMMA AppendKeepsHead ==
  ASSUME NEW q, NEW e, IsSeq(q), q # <<>>
  PROVE  Append(q, e) # <<>> /\ Head(Append(q, e)) = Head(q)
<1>1. IsSeq(Append(q, e)) /\ Append(q, e) # <<>> /\ \A i \in DOMAIN q : Append(q, e)[i] = q[i]
  BY Appended
<1>2. Head(Append(q, e)) = Append(q, e)[1] /\ Head(q) = q[1] /\ 1 \in DOMAIN q
  BY <1>1, SeqFacts
<1> QED
  BY <1>1, <1>2

\* The handlers of the packets leave those of the other earbud's messages in order.
LEMMA BudHandles ==
  ASSUME OtaInv, NEW c \in Bud, BudFrame(c), BudDoes(c)
  PROVE  HandlesInOrder'
<1>1. HandlesInOrder /\ IsSeq(toMaster)
  BY InvOf DEF OtaInv
<1>2. toSlave' = toSlave /\ twsStep' = twsStep
  BY BudTouches
<1>3. toMaster # <<>> => toMaster' # <<>> /\ Head(toMaster') = Head(toMaster)
  <2>1. \/ toMaster' = toMaster
        \/ \E cmd : toMaster' = Append(toMaster, cmd)
    BY BudTells DEF Bud
  <2> QED
    BY <1>1, <2>1, AppendKeepsHead
<1> QED
  BY <1>1, <1>2, <1>3 DEF HandlesInOrder

\* The break point of the master.
LEMMA BudResumed ==
  ASSUME OtaInv, NEW c \in Bud, BudFrame(c), BudDoes(c)
  PROVE  Resumed'
<1>0. /\ Resumed /\ phone' = phone /\ IsSeq(toMaster) /\ inbox[c] # <<>> /\ IsSeq(inbox[c])
      /\ \A b \in Bud : b # c => ram'[b] = ram[b]
  BY InvOf, BudTouches DEF OtaInv
<1>1. ASSUME ImageChecked(c) PROVE phone.at # "resume"
  <2> SUFFICES ASSUME phone.at = "resume" PROVE FALSE
    OBVIOUS
  <2>1. AtMost(c)
    BY BudInvOf
  <2>2. Rank(Head(inbox[c]).type) <= Rank("resume")
    BY <1>0, <2>1, RanksTail DEF AtMost, Session
  <2>3. Head(inbox[c]).type = "result"
    BY <1>1 DEF ImageChecked, Goes
  <2> QED
    BY <2>2, <2>3, Ranks
<1>2. ram'[c].pending => ram[c].pending \/ ImageChecked(c)
  BY BudSorts DEF Writing, Sparing
<1>3. CASE c = "master"
  <2>1. toMaster' = toMaster /\ ram'["slave"] = ram["slave"]
    BY <1>0, <1>3, BudTells DEF Bud
  <2>2. tws'.type = "resume" /\ tws'.bp # 0 => ~ram'["master"].pending
    <3>1. CASE ResumeDone(c)
      BY <1>3, <3>1 DEF ResumeDone, Says
    <3>2. CASE /\ tws'.type = tws.type /\ tws'.bp = tws.bp
               /\ ram'[c].pending => ram[c].pending
      BY <1>0, <1>3, <3>2 DEF Resumed
    <3>3. CASE tws'.type # "resume"
      BY <3>3
    <3>4. \/ ResumeDone(c) \/ tws'.type # "resume"
          \/ /\ tws'.type = tws.type /\ tws'.bp = tws.bp
             /\ ram'[c].pending => ram[c].pending
      <4>1. CASE StartDone(c) \/ ConfigDone(c) \/ VerifyDone(c) \/ ResultRefused(c)
                 \/ ImageChecked(c) \/ ApplyDone(c)
        BY <1>3, <4>1 DEF StartDone, ConfigDone, VerifyDone, ResultRefused, ImageChecked,
             ApplyDone, Says
      <4>2. CASE ConfigBegun(c) \/ DataBegun(c) \/ VerifyBegun(c) \/ VerifyRefused(c)
                 \/ ResultBegun(c) \/ ResultDone(c)
        BY <4>2 DEF ConfigBegun, DataBegun, VerifyBegun, VerifyRefused, ResultBegun, ResultDone,
             SaysNothing, SameRam
      <4>3. CASE DataDone(c)
        BY <1>3, <4>3 DEF DataDone, Acks, Says, SameRam
      <4> QED
        BY <4>1, <4>2, <4>3 DEF BudDoes
    <3> QED
      BY <3>1, <3>2, <3>3, <3>4
  <2>3. answer'.kind = "resume" => answer' = answer
    BY <1>3 DEF BudDoes, ResumeDone, StartDone, ConfigBegun, ConfigDone, DataBegun, DataDone,
       VerifyBegun, VerifyRefused, VerifyDone, ResultBegun, ResultRefused, ImageChecked,
       ResultDone, ApplyDone, Says, SaysNothing, Acks
  <2>4. phone.at = "resume" => (ram'["master"].pending => ram["master"].pending)
    BY <1>1, <1>2, <1>3
  <2> QED
    BY <1>0, <2>1, <2>2, <2>3, <2>4 DEF Resumed
<1>4. CASE c = "slave"
  <2>1. tws' = tws /\ answer' = answer /\ ram'["master"] = ram["master"]
    BY <1>0, <1>4, BudTells DEF Bud
  <2>2. phone.at = "resume" => (ram'["slave"].pending => ram["slave"].pending)
    BY <1>1, <1>2, <1>4
  <2>3. ASSUME phone.at = "resume", NEW i \in DOMAIN toMaster', toMaster'[i].type = "resume",
               toMaster'[i].val # 0
        PROVE  ~ram'["slave"].pending
    <3>1. CASE toMaster' = toMaster
      BY <1>0, <2>2, <2>3, <3>1 DEF Resumed
    <3>2. CASE toMaster' # toMaster
      <4>1. PICK cmd : /\ toMaster' = Append(toMaster, cmd)
                       /\ cmd.type = "resume" /\ cmd.val # 0 => ~ram'[c].pending
        BY <1>4, <3>2, BudTells
      <4>2. /\ \A j \in DOMAIN toMaster : Append(toMaster, cmd)[j] = toMaster[j]
            /\ Append(toMaster, cmd)[Len(toMaster) + 1] = cmd
            /\ DOMAIN Append(toMaster, cmd) = DOMAIN toMaster \cup {Len(toMaster) + 1}
        BY <1>0, Appended
      <4>3. \/ i \in DOMAIN toMaster /\ toMaster'[i] = toMaster[i]
            \/ toMaster'[i] = cmd
        BY <4>1, <4>2
      <4> QED
        BY <1>0, <1>4, <2>2, <2>3, <4>1, <4>3 DEF Resumed
    <3> QED
      BY <3>1, <3>2
  <2> QED
    BY <1>0, <2>1, <2>2, <2>3 DEF Resumed
<1> QED
  BY <1>3, <1>4 DEF Bud

\* Commands to apply, when a queue grows or shrinks.
LEMMA ToldAppend ==
  ASSUME NEW q, IsSeq(q), NEW e, NEW s, NEW p, ToldIn(Append(q, e), s, p)
  PROVE  ToldIn(q, s, p) \/ (e.type = "apply" /\ (p => e.val = 1))
<1>1. /\ \A i \in DOMAIN q : Append(q, e)[i] = q[i]
      /\ Append(q, e)[Len(q) + 1] = e
      /\ DOMAIN Append(q, e) = DOMAIN q \cup {Len(q) + 1}
  BY Appended
<1> QED
  BY <1>1 DEF ToldIn

\* Who is told by the rest of a queue was told by the whole.
LEMMA ToldTail ==
  ASSUME NEW q, IsSeq(q), q # <<>>, NEW s, NEW t, NEW p, ToldIn(Tail(q), s, p)
  PROVE  ToldIn(q, t, p)
<1>1. /\ DOMAIN Tail(q) = 1..(Len(q) - 1) /\ Len(q) \in Nat \ {0}
      /\ \A i \in DOMAIN Tail(q) : Tail(q)[i] = q[i + 1] /\ i + 1 \in DOMAIN q
  BY Tailed
<1>2. PICK i \in DOMAIN Tail(q) : Tail(q)[i].type = "apply" /\ (p => Tail(q)[i].val = 1)
  BY DEF ToldIn
<1>3. i + 1 \in DOMAIN q /\ q[i + 1] = Tail(q)[i] /\ i + 1 # 1
  BY <1>1, <1>2
<1> QED
  BY <1>2, <1>3 DEF ToldIn

\* Only the first may be begun.
LEMMA ToldLater ==
  ASSUME NEW q, IsSeq(q), q # <<>>, Head(q).type # "apply", NEW s, NEW t, NEW p, ToldIn(q, s, p)
  PROVE  ToldIn(q, t, p)
<1>1. Head(q) = q[1]
  BY SeqFacts
<1> QED
  BY <1>1 DEF ToldIn

\* An empty queue tells nobody.
LEMMA ToldNone ==
  \A s, p : ~ToldIn(<<>>, s, p)
BY Single DEF ToldIn

\* Passed by is told.
LEMMA ToldPassed ==
  AppliedTold => ApplyTold
BY DEF AppliedTold, ApplyTold, ToldIn

\* While the apply is under way the master takes nothing else.
LEMMA MasterIdle ==
  ASSUME OtaInv, MasterIsTold, BudFrame("master"), BudDoes("master")
  PROVE  /\ ResultDone("master") \/ ApplyDone("master")
         /\ inbox'["master"] = Tail(inbox["master"])
<1> DEFINE m == "master"
<1>1. m \in Bud
  BY DEF Bud
<1>2. inbox[m] # <<>> /\ IsSeq(inbox[m]) /\ Staged(m) /\ inbox = [b \in Bud |-> inbox[b]]
  BY <1>1, BudTouches, InvOf, BudInvOf DEF Shaped
<1>3. \A i \in DOMAIN inbox[m] : inbox[m][i].type = "apply" \/ (i = 1 /\ Seen(m))
  BY DEF OtaInv, MasterApplies
<1>4. Head(inbox[m]).type = "apply" \/ Seen(m)
  BY <1>2, <1>3, SeqFacts
<1>5. ResultDone(m) \/ ApplyDone(m)
  <2>1. CASE Head(inbox[m]).type = "apply"
    BY <1>1, <2>1, BudByType
  <2>2. CASE Seen(m)
    <3>1. Head(inbox[m]).type = "result"
      BY <1>2, <2>2 DEF Seen, Staged
    <3>2. ResultBegun(m) \/ ResultRefused(m) \/ ImageChecked(m) \/ ResultDone(m)
      BY <1>1, <3>1, BudByType
    <3> QED
      BY <2>2, <3>2 DEF Seen, ResultBegun, ResultRefused, ImageChecked
  <2> QED
    BY <1>4, <2>1, <2>2
<1>6. inbox'[m] = Tail(inbox[m])
  BY <1>1, <1>2, <1>5 DEF ResultDone, ApplyDone, Ends
<1> QED
  BY <1>5, <1>6

\* The handlers of the packets at the master keep what is told to apply intact.
LEMMA MasterStaysApplying ==
  ASSUME OtaInv, BudFrame("master"), BudDoes("master")
  PROVE  MasterApplies' /\ SlaveApplies'
<1> DEFINE m == "master"
<1>1. m \in Bud /\ "slave" \in Bud /\ "slave" # m
  BY DEF Bud
<1>2. /\ UNCHANGED <<flash, link, toSlave, twsStep, phone, toMaster>>
      /\ inbox'["slave"] = inbox["slave"] /\ ram'["slave"] = ram["slave"]
      /\ pend'["slave"] = pend["slave"] /\ IsSeq(inbox[m]) /\ inbox[m] # <<>>
  BY <1>1, BudTouches, BudTells, InvOf
<1>3. MasterIsTold' => MasterIsTold
  BY <1>2 DEF MasterIsTold, Has, ApplyTold, Begun
<1>4. ASSUME MasterIsTold
      PROVE  /\ Intact(m)' /\ NotBack'
             /\ \A i \in DOMAIN inbox'[m] : inbox'[m][i].type = "apply"
  <2>1. /\ ResultDone(m) \/ ApplyDone(m)
        /\ inbox'[m] = Tail(inbox[m])
    BY <1>4, MasterIdle
  <2>2. pend' = pend /\ ram'[m].img = ram[m].img
    BY <2>1 DEF ResultDone, ApplyDone, SameRam
  <2>3. /\ Intact(m) /\ NotBack
        /\ \A i \in DOMAIN inbox[m] : inbox[m][i].type = "apply" \/ (i = 1 /\ Seen(m))
    BY <1>4 DEF OtaInv, MasterApplies
  <2>4. Intact(m)' /\ NotBack'
    BY <1>2, <2>2, <2>3 DEF Intact, IntactIn, Whole, LeavesArea, NotBack
  <2>5. /\ \A i \in DOMAIN Tail(inbox[m]) :
             Tail(inbox[m])[i] = inbox[m][i + 1] /\ i + 1 \in DOMAIN inbox[m]
        /\ DOMAIN Tail(inbox[m]) = 1..(Len(inbox[m]) - 1) /\ Len(inbox[m]) \in Nat
    BY <1>2, Tailed
  <2>6. \A i \in DOMAIN Tail(inbox[m]) : i + 1 # 1
    BY <2>5
  <2> QED
    BY <2>1, <2>3, <2>4, <2>5, <2>6
<1>5. MasterApplies'
  BY <1>3, <1>4 DEF MasterApplies
<1>6. SlaveApplies'
  <2>1. SlaveApplies
    BY DEF OtaInv
  <2>2. SlaveIsTold' => SlaveIsTold
    BY <1>2 DEF SlaveIsTold, AppliedTold, Begun
  <2>3. Intact("slave") => Intact("slave")'
    BY <1>2 DEF Intact, IntactIn, Whole, LeavesArea
  <2> QED
    BY <1>2, <2>1, <2>2, <2>3 DEF SlaveApplies, NotBack
<1> QED
  BY <1>5, <1>6

\* And those at the slave.
LEMMA SlaveStaysApplying ==
  ASSUME OtaInv, BudFrame("slave"), BudDoes("slave")
  PROVE  MasterApplies' /\ SlaveApplies'
<1> DEFINE s == "slave"
           m == "master"
<1>1. s \in Bud /\ m \in Bud /\ m # s
  BY DEF Bud
<1>2. /\ UNCHANGED <<flash, link, toSlave, twsStep, phone>>
      /\ inbox'[m] = inbox[m] /\ ram'[m] = ram[m] /\ pend'[m] = pend[m]
      /\ IsSeq(inbox[s]) /\ inbox[s] # <<>> /\ OrderedIn(inbox[s]) /\ IsSeq(toMaster)
      /\ inbox'[s] = inbox[s] \/ inbox'[s] = Tail(inbox[s])
  BY <1>1, BudTouches, InvOf, BudInvOf DEF Ordered
<1>3. \/ toMaster' = toMaster
      \/ /\ link
         /\ \E cmd : /\ toMaster' = Append(toMaster, cmd)
                     /\ cmd.type = "apply" => ApplyDone(s) /\ (cmd.val = 1 => ram[s].pending)
  BY <1>1, BudTells
<1>4. Has(s, "apply")' => Has(s, "apply")
  <2>1. HasIn(Tail(inbox[s]), "apply") => HasIn(inbox[s], "apply")
    BY <1>2, HasTail
  <2> QED
    BY <1>2, <2>1 DEF Has
<1>5. ApplyDone(s) => Has(s, "apply")
  <2>1. Head(inbox[s]) = inbox[s][1] /\ 1 \in DOMAIN inbox[s]
    BY <1>2, SeqFacts
  <2> QED
    BY <2>1 DEF ApplyDone, Ends, Has, HasIn
<1>6. ASSUME NEW p, ToldIn(toMaster', Begun', p)
      PROVE  ToldIn(toMaster, Begun, p) \/ (link /\ ApplyDone(s) /\ (p => ram[s].pending))
  <2>0. Begun' = Begun
    BY <1>2 DEF Begun
  <2>1. CASE toMaster' = toMaster
    BY <1>6, <2>0, <2>1
  <2>2. CASE toMaster' # toMaster
    <3>1. PICK cmd : /\ toMaster' = Append(toMaster, cmd)
                     /\ cmd.type = "apply" => ApplyDone(s) /\ (cmd.val = 1 => ram[s].pending)
      BY <1>3, <2>2
    <3>2. PICK g : g = Begun
      OBVIOUS
    <3>3. ToldIn(Append(toMaster, cmd), g, p)
      BY <1>6, <2>0, <3>1, <3>2
    <3>4. ToldIn(toMaster, g, p) \/ (cmd.type = "apply" /\ (p => cmd.val = 1))
      BY <1>2, <3>3, ToldAppend
    <3> QED
      BY <1>3, <2>2, <3>1, <3>2, <3>4
  <2> QED
    BY <2>1, <2>2
<1>7. MasterIsTold' => MasterIsTold
  <2>1. ApplyTold' => ApplyTold \/ (link /\ Has(s, "apply"))
    BY <1>5, <1>6 DEF ApplyTold
  <2>2. Begun' = Begun
    BY <1>2 DEF Begun
  <2> QED
    BY <1>2, <1>4, <2>1, <2>2 DEF MasterIsTold
<1>8. MasterApplies'
  <2>1. MasterApplies
    BY DEF OtaInv
  <2>2. Intact(m) => Intact(m)'
    BY <1>2 DEF Intact, IntactIn, Whole, LeavesArea
  <2> QED
    BY <1>2, <1>7, <2>1, <2>2 DEF MasterApplies, NotBack, Seen
<1>9. SlaveApplies'
  <2>1. ~SlaveIsTold
    BY <1>2 DEF OtaInv, SlaveApplies
  <2>2. SUFFICES ASSUME SlaveIsTold'
                 PROVE  Intact(s)' /\ NotBack' /\ inbox'[s] = <<>>
    BY DEF SlaveApplies
  <2>3. link /\ ApplyDone(s) /\ ram[s].pending
    <3>1. AppliedTold'
      BY <1>2, <2>1, <2>2 DEF SlaveIsTold
    <3>2. ~AppliedTold
      BY <2>1 DEF SlaveIsTold
    <3> QED
      BY <1>6, <3>1, <3>2 DEF AppliedTold
  <2>4. /\ inbox'[s] = Tail(inbox[s]) /\ Head(inbox[s]).type = "apply"
        /\ pend' = pend /\ ram'[s].img = ram[s].img
    BY <1>1, <2>3, InvOf DEF ApplyDone, Ends, SameRam, Shaped
  <2>5. inbox'[s] = <<>>
    BY <1>2, <2>4, ApplyIsLast
  <2>6. Intact(s)
    BY <1>1, <2>3, BudInvOf DEF VerifiedIsWhole
  <2>7. NotBack
    BY <1>5, <2>3 DEF OtaInv, MasterApplies, MasterIsTold
  <2> QED
    BY <1>2, <2>4, <2>5, <2>6, <2>7 DEF Intact, IntactIn, Whole, LeavesArea, NotBack
<1> QED
  BY <1>8, <1>9

\* The invariant, after the step of a bud.
LEMMA BudKeepsInv ==
  ASSUME OtaInv, NEW c \in Bud, BudStep(c)
  PROVE  OtaInv'
<1>1. Shaped /\ Staged(c)
  BY InvOf, BudInvOf
<1>2. BudFrame(c) /\ BudDoes(c)
  BY <1>1, BudStepDoes
<1>3. Shaped' /\ HandlesInOrder' /\ Resumed' /\ \A b \in Bud : BudInv(b)'
  BY <1>2, BudShaped, BudHandles, BudResumed, BudBothInv
<1>4. CASE c = "master"
  BY <1>2, <1>3, <1>4, MasterStaysInStep, MasterStaysApplying DEF OtaInv
<1>5. CASE c = "slave"
  <2>1. MasterApplies' /\ SlaveApplies'
    BY <1>2, <1>5, SlaveStaysApplying
  <2>2. InStep'
    <3>1. /\ phone' = phone /\ inbox'["master"] = inbox["master"]
          /\ tws' = tws /\ answer' = answer /\ ram'["master"] = ram["master"]
          /\ pend'["master"] = pend["master"] /\ flash' = flash
      BY <1>2, <1>5, BudTouches, BudTells DEF Bud
    <3>2. Intact("master") => Intact("master")'
      BY <3>1 DEF Intact, IntactIn, Whole, LeavesArea
    <3> QED
      BY <3>1, <3>2, InStepKept
  <2> QED
    BY <1>3, <2>1, <2>2 DEF OtaInv
<1> QED
  BY <1>4, <1>5 DEF Bud

-----------------------------------------------------------------------------
(***************************************************************************)
(* The commands at the master and the responses at the slave.              *)
(***************************************************************************)
\* What they change in RAM.
RamKept(b) ==
  /\ \E r : ram' = [ram EXCEPT ![b] = r] /\ RamFits(r)
  /\ ram'[b].stage = ram[b].stage /\ ram'[b].img = ram[b].img
  /\ ram'[b].pending => ram[b].pending

\* What handling a message may do to the variables of a bud.
LEMMA RamKeptBy ==
  ASSUME OtaInv, NEW b \in Bud
  PROVE  /\ ram' = ram => RamKept(b)
         /\ Destroyed(b) => RamKept(b)
         /\ AsksForReset(b) => RamKept(b)
         /\ ram' = [ram EXCEPT ![b] = ResetEnv(@)] => RamKept(b) /\ ~ram'[b].pending
         /\ ram' = [ram EXCEPT ![b] = [ResetEnv(@) EXCEPT !.on = TRUE]] =>
              RamKept(b) /\ ~ram'[b].pending
<1>0. RamFits(ram[b]) /\ ram = [a \in Bud |-> ram[a]]
  BY InvOf DEF Shaped
<1>1. ASSUME NEW r, RamFits(r), ram' = [ram EXCEPT ![b] = r],
             r.stage = ram[b].stage, r.img = ram[b].img, r.pending => ram[b].pending
      PROVE  RamKept(b) /\ ram'[b] = r
  BY <1>0, <1>1 DEF RamKept
<1>2. ram' = ram => RamKept(b)
  <2>1. ram = [ram EXCEPT ![b] = ram[b]]
    BY <1>0
  <2> QED
    BY <1>0, <1>1, <2>1
<1>3. ASSUME Destroyed(b) PROVE RamKept(b)
  <2> DEFINE r == [ram[b] EXCEPT !.resume = FALSE]
  <2>1. ram' = [ram EXCEPT ![b] = r]
    BY <1>3 DEF Destroyed
  <2>2. RamFits(r) /\ r.stage = ram[b].stage /\ r.img = ram[b].img /\ r.pending = ram[b].pending
    BY <1>0 DEF RamFits, IsRam
  <2> HIDE DEF r
  <2> QED
    BY <1>1, <2>1, <2>2
<1>4. ASSUME AsksForReset(b) PROVE RamKept(b)
  <2> DEFINE x == ram[b].permission /\ ram[b].pending
             r == [ram[b] EXCEPT !.reset = x]
  <2>1. ram' = [ram EXCEPT ![b] = r]
    BY <1>4 DEF AsksForReset
  <2> HIDE DEF x
  <2>2. RamFits(r) /\ r.stage = ram[b].stage /\ r.img = ram[b].img /\ r.pending = ram[b].pending
    BY <1>0 DEF RamFits, IsRam
  <2> HIDE DEF r
  <2> QED
    BY <1>1, <2>1, <2>2
<1>5. PICK e : /\ e = ResetEnv(ram[b]) /\ RamFits(e) /\ ~e.pending
               /\ e.stage = ram[b].stage /\ e.img = ram[b].img
  BY <1>0, ResetEnvIs
<1>6. ram' = [ram EXCEPT ![b] = ResetEnv(@)] => RamKept(b) /\ ~ram'[b].pending
  BY <1>1, <1>5
<1>7. ASSUME ram' = [ram EXCEPT ![b] = [ResetEnv(@) EXCEPT !.on = TRUE]]
      PROVE  RamKept(b) /\ ~ram'[b].pending
  <2> DEFINE r == [e EXCEPT !.on = TRUE]
  <2>1. ram' = [ram EXCEPT ![b] = r]
    BY <1>5, <1>7
  <2>2. RamFits(r) /\ r.stage = e.stage /\ r.img = e.img /\ r.pending = e.pending
    BY <1>5 DEF RamFits, IsRam
  <2> HIDE DEF r
  <2> QED
    BY <1>1, <1>5, <2>1, <2>2
<1> QED
  BY <1>2, <1>3, <1>4, <1>6, <1>7

\* What they queue.
PendKept(b) ==
  \E ops :
    /\ pend' = [pend EXCEPT ![b] = @ \o ops]
    /\ \/ OpsIn(ops, LogOp)
       \/ \E f : ops = BootOps(ram[b].img, f) /\ twsStep'[b] = "apply"

\* And to what the bud has queued for the flash.
LEMMA PendKeptBy ==
  ASSUME OtaInv, NEW b \in Bud
  PROVE  /\ pend' = pend => PendKept(b)
         /\ Queue(b, EraseLogOps(flash[b])) => PendKept(b)
         /\ \A c : Queue(b, EraseLogOps(flash[b]) \o <<LogCode(c)>>) => PendKept(b)
         /\ UpdatesInfo(b) => PendKept(b)
<1>0. twsStep = [a \in Bud |-> twsStep[a]]
  BY InvOf DEF Shaped
<1>1. ASSUME pend' = pend PROVE PendKept(b)
  <2>1. Queues(b, LogOp)
    BY <1>1, QueuesNone
  <2> QED
    BY <2>1 DEF Queues, PendKept
<1>2. Queue(b, EraseLogOps(flash[b])) => PendKept(b)
  BY LogOps DEF Queue, PendKept
<1>3. \A c : Queue(b, EraseLogOps(flash[b]) \o <<LogCode(c)>>) => PendKept(b)
  BY LogOps DEF Queue, PendKept
<1>4. UpdatesInfo(b) => PendKept(b)
  BY <1>0 DEF UpdatesInfo, Queue, WaitsFor, PendKept
<1> QED
  BY <1>1, <1>2, <1>3, <1>4

\* Then nothing of a bud is disturbed.
LEMMA HandledKeeps ==
  ASSUME OtaInv, NEW b \in Bud, RamKept(b), PendKept(b), ~AtRest,
         UNCHANGED <<flash, inbox, link, phone>>,
         \A a \in Bud : a # b => twsStep'[a] = twsStep[a],
         twsStep[b] = "apply" => pend[b] = <<>>
  PROVE  \A a \in Bud : Keeps(a)
<1>0. /\ ram = [a \in Bud |-> ram[a]] /\ pend = [a \in Bud |-> pend[a]]
  BY InvOf DEF Shaped
<1>1. \A a \in Bud : WillHear(a)' => WillHear(a)
  BY DEF WillHear
<1>2. Keeps(b)
  <2>1. PICK ops : /\ pend' = [pend EXCEPT ![b] = @ \o ops]
                   /\ \/ OpsIn(ops, LogOp)
                      \/ \E f : ops = BootOps(ram[b].img, f) /\ twsStep'[b] = "apply"
    BY DEF PendKept
  <2>2. pend'[b] = pend[b] \o ops
    BY <1>0, <2>1
  <2>3. \E o : /\ pend'[b] = pend[b] \o o
               /\ \/ OpsIn(o, LogOp)
                  \/ \E v, f : o = BootOps(v, f) /\ (v \in Image => twsStep'[b] = "apply" /\ v = ram[b].img)
    BY <2>1, <2>2
  <2> QED
    BY <1>1, <2>3 DEF Keeps, RamKept
<1>3. ASSUME NEW a \in Bud, a # b PROVE Keeps(a)
  <2>1. ram'[a] = ram[a]
    BY <1>0, <1>3 DEF RamKept
  <2>2. pend'[a] = pend[a]
    BY <1>0, <1>3 DEF PendKept
  <2> QED
    BY <1>1, <1>3, <2>1, <2>2, KeepsNone DEF Keeps
<1> QED
  BY <1>2, <1>3

\* And the shape is kept.
LEMMA HandledShaped ==
  ASSUME OtaInv, NEW b \in Bud, RamKept(b), PendKept(b),
         UNCHANGED <<flash, inbox, phone>>, \A a \in Bud : Keeps(a),
         IsTws(tws'), IsSeq(toMaster'), IsSeq(toSlave'), twsStep' = [a \in Bud |-> twsStep'[a]]
  PROVE  Shaped'
<1>0. Shaped
  BY InvOf
<1>1. /\ ram = [a \in Bud |-> ram[a]] /\ pend = [a \in Bud |-> pend[a]]
      /\ inbox = [a \in Bud |-> inbox[a]] /\ flash = [a \in Bud |-> flash[a]] /\ IsPhone(phone)
  BY <1>0 DEF Shaped
<1>2. ram' = [a \in Bud |-> ram'[a]]
  BY <1>1 DEF RamKept
<1>3. pend' = [a \in Bud |-> pend'[a]]
  BY <1>1 DEF PendKept
<1>4. ASSUME NEW a \in Bud PROVE ShapedBud(a)'
  <2>1. ShapedBud(a)
    BY <1>0 DEF Shaped
  <2>2. OpsIn(pend'[a], OpKind)
    BY KeepsOps
  <2>3. RamFits(ram'[a])
    BY <1>1, <2>1 DEF RamKept, ShapedBud
  <2> QED
    BY <2>1, <2>2, <2>3
       DEF ShapedBud, RamFits, IsRam, FlashFits, IsFlash, OpsIn, IsOp, IsSeq, PacketsFit
<1> QED
  BY <1>1, <1>2, <1>3, <1>4 DEF Shaped, IsPhone, IsTws, IsSeq

\* What the master does with a command, by what comes of it.
SendsBack(type, vals) ==
  toSlave' = toSlave \/ \E v \in vals : toSlave' = Append(toSlave, Cmd(type, v))

SameBreak == tws'.err = tws.err /\ tws'.bp = tws.bp

MasterWaits ==
  /\ twsStep["master"] = "none" /\ toMaster # <<>>
  /\ twsStep' = [twsStep EXCEPT !["master"] = Told.type]
  /\ UNCHANGED <<tws, toMaster>>
  /\ answer' = answer \/ (answer'.kind = "result" /\ answer'.val = 0)
  /\ \/ Told.type \in {"resume", "segment", "result"} /\ toSlave' = toSlave
     \/ Told.type = "apply" /\ Told.val = 1 /\ SendsBack("apply", {1})

MasterResumes ==
  /\ twsStep["master"] = "none" /\ twsStep' = twsStep /\ Done /\ toSlave' = toSlave
  /\ tws.type = "resume" /\ tws'.type = "none" /\ SameBreak
  /\ Told.type = "resume" /\ Told.val = tws.bp
  /\ answer'.kind = "resume" /\ answer'.val = Told.val

MasterAgain ==
  /\ twsStep["master"] = "resume" /\ twsStep' = [twsStep EXCEPT !["master"] = "none"]
  /\ Done /\ tws'.type = tws.type /\ tws'.err = tws.err /\ tws'.bp = 0
  /\ answer' = answer /\ \E v : SendsBack("resume", {v})

MasterAnswers ==
  /\ twsStep["master"] = "none" /\ twsStep' = twsStep /\ Done /\ toSlave' = toSlave
  /\ tws.type \in {"start", "config", "segment", "result"}
  /\ tws'.type = "none" /\ tws'.bp = tws.bp /\ (tws.type = "start" \/ tws'.err = 0)
  /\ answer'.kind = tws.type
  /\ tws.type = "result" => tws.err = 1

MasterAnswersLate ==
  /\ twsStep["master"] \in {"segment", "apply"}
  /\ twsStep' = [twsStep EXCEPT !["master"] = "none"]
  /\ Done /\ tws'.type = "none" /\ tws'.err = 0 /\ tws'.bp = tws.bp
  /\ answer'.kind \in {"result", "apply"} /\ (answer'.kind = "result" => answer'.val # 1)
  /\ \E v : SendsBack("segment", {v})

MasterFailed ==
  /\ twsStep["master"] = "result" /\ twsStep' = [twsStep EXCEPT !["master"] = "none"]
  /\ Done /\ tws'.type = "none" /\ SameBreak /\ answer' = answer
  /\ SendsBack("result", {0})

MasterHears ==
  /\ twsStep["master"] = "none" /\ twsStep' = twsStep /\ Done /\ toSlave' = toSlave /\ SameBreak
  /\ \/ tws.type = "ack" /\ tws'.type = "none" /\ answer'.kind = "ack"
     \/ tws'.type = tws.type /\ answer' = answer

MasterDoes ==
  \/ MasterWaits \/ MasterResumes \/ MasterAgain \/ MasterAnswers \/ MasterAnswersLate
  \/ MasterFailed \/ MasterHears

MasterFrame ==
  /\ RamKept("master") /\ PendKept("master")
  /\ UNCHANGED <<flash, inbox, link, phone>>
  /\ IsTws(tws')
  /\ twsStep["master"] # "none" \/ toMaster # <<>>
  /\ twsStep["master"] = "apply" => pend["master"] = <<>>

\* What it forgets.
LEMMA ForgetsIs ==
  ASSUME OtaInv
  PROVE  /\ Forgets => IsTws(tws') /\ tws'.type = "none" /\ SameBreak
         /\ ForgetsBoth => IsTws(tws') /\ tws'.type = "none" /\ tws'.err = 0 /\ tws'.bp = tws.bp
         /\ tws' = [tws EXCEPT !.bp = 0] =>
              IsTws(tws') /\ tws'.type = tws.type /\ tws'.err = tws.err /\ tws'.bp = 0
         /\ tws' = [tws EXCEPT !.type = "none", !.acked = FALSE] =>
              IsTws(tws') /\ tws'.type = "none" /\ SameBreak
         /\ tws' = [tws EXCEPT !.acked = TRUE] => IsTws(tws') /\ tws'.type = tws.type /\ SameBreak
<1>1. IsTws(tws)
  BY DEF OtaInv, Shaped
<1> QED
  BY <1>1 DEF IsTws, Forgets, ForgetsBoth, SameBreak

\* A response is a message added to the queue, or lost with the link.
LEMMA RespondsIs ==
  ASSUME NEW type, NEW val, Responds(type, val)
  PROVE  SendsBack(type, {val})
BY DEF Responds, SendsBack

\* What the phone is answered.
LEMMA AnswerIs ==
  ASSUME NEW kind, NEW val, Answer(kind, val)
  PROVE  answer'.kind = kind /\ answer'.val = val
BY DEF Answer

\* The actions of the master, each one of the kinds above: the agreed break point,
LEMMA MasterResumesDoes ==
  ASSUME OtaInv, TakeResume
  PROVE  MasterFrame /\ MasterDoes
<1>1. /\ UNCHANGED <<flash, ram, inbox, link, toSlave, twsStep, phone>>
      /\ toMaster # <<>> /\ twsStep["master"] = "none" /\ Told.type = "resume"
      /\ tws.type = "resume" /\ Told.val = tws.bp /\ Forgets /\ Done
      /\ answer'.kind = "resume" /\ answer'.val = Told.val
  BY DEF TakeResume, Takes, worldVars
<1>2. \/ pend' = pend
      \/ \E c : Queue("master", EraseLogOps(flash["master"]) \o <<LogCode(c)>>)
  BY DEF TakeResume
<1>3. RamKept("master") /\ PendKept("master")
  BY <1>1, <1>2, RamKeptBy, PendKeptBy DEF Bud
<1>4. IsTws(tws') /\ tws'.type = "none" /\ SameBreak
  BY <1>1, ForgetsIs
<1>5. MasterFrame
  BY <1>1, <1>3, <1>4 DEF MasterFrame
<1> QED
  BY <1>1, <1>4, <1>5 DEF MasterDoes, MasterResumes

\* those that wait for the flash,
LEMMA MasterWaitsDoes ==
  ASSUME OtaInv, TakeOtherResume \/ TakeSegmentError \/ TakeResultFailed \/ TakeApply
  PROVE  MasterFrame /\ MasterDoes
<1>1. /\ UNCHANGED <<flash, inbox, link, phone, tws, toMaster>>
      /\ toMaster # <<>> /\ twsStep["master"] = "none"
  BY DEF TakeOtherResume, TakeSegmentError, TakeResultFailed, TakeApply, Takes, worldVars
<1>2. IsTws(tws)
  BY DEF OtaInv, Shaped
<1>3. CASE TakeOtherResume \/ TakeSegmentError \/ TakeResultFailed
  <2>1. /\ Destroyed("master") /\ Queue("master", EraseLogOps(flash["master"]))
        /\ toSlave' = toSlave
        /\ answer' = answer \/ Answer("result", 0)
        /\ \E type \in {"resume", "segment", "result"} :
             Told.type = type /\ WaitsFor("master", type)
    BY <1>3 DEF TakeOtherResume, TakeSegmentError, TakeResultFailed, Takes
  <2>2. RamKept("master") /\ PendKept("master")
    BY <2>1, RamKeptBy, PendKeptBy DEF Bud
  <2>3. MasterFrame
    BY <1>1, <1>2, <2>2 DEF MasterFrame, IsTws
  <2>4. MasterWaits
    BY <1>1, <2>1, AnswerIs DEF MasterWaits, WaitsFor
  <2> QED
    BY <2>3, <2>4 DEF MasterDoes
<1>4. CASE TakeApply
  <2>1. /\ ram' = ram /\ UpdatesInfo("master") /\ answer' = answer
        /\ Told.type = "apply" /\ Told.val = 1 /\ Responds("apply", 1)
        /\ WaitsFor("master", "apply")
    BY <1>4 DEF TakeApply, Takes, UpdatesInfo
  <2>2. RamKept("master") /\ PendKept("master")
    BY <2>1, RamKeptBy, PendKeptBy DEF Bud
  <2>3. MasterFrame
    BY <1>1, <1>2, <2>2 DEF MasterFrame, IsTws
  <2>4. SendsBack("apply", {1})
    BY <2>1, RespondsIs
  <2>5. MasterWaits
    BY <1>1, <2>1, <2>4 DEF MasterWaits, WaitsFor
  <2> QED
    BY <2>3, <2>5 DEF MasterDoes
<1> QED
  BY <1>3, <1>4

\* the break point that was not agreed,
LEMMA MasterAgainDoes ==
  ASSUME OtaInv, FinishOtherResume
  PROVE  MasterFrame /\ MasterDoes
<1>1. /\ UNCHANGED <<flash, inbox, link, phone, answer>> /\ Done
      /\ twsStep["master"] = "resume" /\ tws' = [tws EXCEPT !.bp = 0]
      /\ ram' = [ram EXCEPT !["master"] = [ResetEnv(@) EXCEPT !.on = TRUE]]
      /\ Queue("master", EraseLogOps(flash["master"]) \o <<LogCode(Told.code)>>)
      /\ WaitsFor("master", "none") /\ Responds("resume", Told.code)
  BY DEF FinishOtherResume, StartAgain, worldVars
<1>2. RamKept("master") /\ PendKept("master")
  BY <1>1, RamKeptBy, PendKeptBy DEF Bud
<1>3. IsTws(tws') /\ tws'.type = tws.type /\ tws'.err = tws.err /\ tws'.bp = 0
  BY <1>1, ForgetsIs
<1>4. MasterFrame
  BY <1>1, <1>2, <1>3 DEF MasterFrame
<1>5. \E v : SendsBack("resume", {v})
  BY <1>1, RespondsIs
<1> QED
  BY <1>1, <1>3, <1>4, <1>5 DEF MasterDoes, MasterAgain, WaitsFor

\* the answers sent at once,
LEMMA MasterAnswersDoes ==
  ASSUME OtaInv, TakeStart \/ TakeConfig \/ TakeSegment \/ TakeResultPassed
  PROVE  MasterFrame /\ MasterDoes
<1>1. /\ UNCHANGED <<flash, pend, ram, inbox, link, toSlave, twsStep, phone>>
      /\ toMaster # <<>> /\ twsStep["master"] = "none" /\ Done
  BY DEF TakeStart, TakeConfig, TakeSegment, TakeResultPassed, Takes, worldVars
<1>2. RamKept("master") /\ PendKept("master")
  BY <1>1, RamKeptBy, PendKeptBy DEF Bud
<1>3. /\ tws.type \in {"start", "config", "segment", "result"}
      /\ IF tws.type = "start" THEN Forgets ELSE ForgetsBoth
      /\ \E val : Answer(tws.type, val)
      /\ tws.type = "result" => tws.err = 1
  BY DEF TakeStart, TakeConfig, TakeSegment, TakeResultPassed, Takes
<1>4. /\ IsTws(tws') /\ tws'.type = "none" /\ tws'.bp = tws.bp
      /\ tws.type = "start" \/ tws'.err = 0
  BY <1>3, ForgetsIs DEF SameBreak
<1>5. answer'.kind = tws.type
  BY <1>3, AnswerIs
<1>6. MasterFrame
  BY <1>1, <1>2, <1>4 DEF MasterFrame
<1> QED
  BY <1>1, <1>3, <1>4, <1>5, <1>6 DEF MasterDoes, MasterAnswers

\* those sent after the flash,
LEMMA MasterAnswersLateDoes ==
  ASSUME OtaInv, FinishSegmentError \/ FinishApply
  PROVE  MasterFrame /\ MasterDoes
<1>1. /\ UNCHANGED <<flash, pend, inbox, link, phone>> /\ Done /\ ForgetsBoth
      /\ twsStep["master"] \in {"segment", "apply"} /\ WaitsFor("master", "none")
      /\ twsStep["master"] = "apply" => pend["master"] = <<>>
      /\ ram' = ram \/ AsksForReset("master")
      /\ \/ Answer("result", OTA_RESULT_ERR_SEG_VERIFY)
            /\ Responds("segment", OTA_RESULT_ERR_SEG_VERIFY)
         \/ Answer("apply", 1) /\ toSlave' = toSlave
  BY DEF FinishSegmentError, FinishApply, Flushed, worldVars
<1>2. RamKept("master") /\ PendKept("master")
  BY <1>1, RamKeptBy, PendKeptBy DEF Bud
<1>3. IsTws(tws') /\ tws'.type = "none" /\ tws'.err = 0 /\ tws'.bp = tws.bp
  BY <1>1, ForgetsIs
<1>4. MasterFrame
  BY <1>1, <1>2, <1>3 DEF MasterFrame
<1>5. \E v : SendsBack("segment", {v})
  <2>1. CASE toSlave' = toSlave
    BY <2>1 DEF SendsBack
  <2>2. CASE Responds("segment", OTA_RESULT_ERR_SEG_VERIFY)
    BY <2>2, RespondsIs
  <2> QED
    BY <1>1, <2>1, <2>2
<1>6. answer'.kind \in {"result", "apply"} /\ (answer'.kind = "result" => answer'.val # 1)
  <2>1. OTA_RESULT_ERR_SEG_VERIFY # 1
    BY DEF OTA_RESULT_ERR_SEG_VERIFY
  <2> QED
    BY <1>1, <2>1, AnswerIs
<1> QED
  BY <1>1, <1>3, <1>4, <1>5, <1>6 DEF MasterDoes, MasterAnswersLate, WaitsFor

\* the failed image,
LEMMA MasterFailedDoes ==
  ASSUME OtaInv, FinishResultFailed
  PROVE  MasterFrame /\ MasterDoes
<1>1. /\ UNCHANGED <<flash, pend, inbox, link, phone, answer>> /\ Done /\ Forgets
      /\ twsStep["master"] = "result" /\ WaitsFor("master", "none") /\ Responds("result", 0)
      /\ ram' = [ram EXCEPT !["master"] = ResetEnv(@)]
  BY DEF FinishResultFailed, worldVars
<1>2. RamKept("master") /\ PendKept("master")
  BY <1>1, RamKeptBy, PendKeptBy DEF Bud
<1>3. IsTws(tws') /\ tws'.type = "none" /\ SameBreak
  BY <1>1, ForgetsIs
<1>4. MasterFrame
  BY <1>1, <1>2, <1>3 DEF MasterFrame
<1>5. SendsBack("result", {0})
  BY <1>1, RespondsIs
<1> QED
  BY <1>1, <1>3, <1>4, <1>5 DEF MasterDoes, MasterFailed, WaitsFor

\* the acknowledgement,
LEMMA MasterHearsDoes ==
  ASSUME OtaInv, TakeAck
  PROVE  MasterFrame /\ MasterDoes
<1>1. /\ UNCHANGED <<flash, pend, ram, inbox, link, toSlave, twsStep, phone>> /\ Done
      /\ toMaster # <<>> /\ twsStep["master"] = "none"
      /\ \/ /\ tws.type = "ack" /\ Answer("ack", 0)
            /\ tws' = [tws EXCEPT !.type = "none", !.acked = FALSE]
         \/ tws' = [tws EXCEPT !.acked = TRUE] /\ answer' = answer
  BY DEF TakeAck, worldVars
<1>2. RamKept("master") /\ PendKept("master")
  BY <1>1, RamKeptBy, PendKeptBy DEF Bud
<1>3. /\ IsTws(tws') /\ SameBreak
      /\ \/ tws.type = "ack" /\ tws'.type = "none" /\ Answer("ack", 0)
         \/ tws'.type = tws.type /\ answer' = answer
  BY <1>1, ForgetsIs
<1>4. MasterFrame
  BY <1>1, <1>2, <1>3 DEF MasterFrame
<1> QED
  BY <1>1, <1>3, <1>4, AnswerIs DEF MasterDoes, MasterHears

\* and all of them.
LEMMA MasterStepDoes ==
  ASSUME OtaInv, MasterStep
  PROVE  MasterFrame /\ MasterDoes
BY MasterResumesDoes, MasterWaitsDoes, MasterAgainDoes, MasterAnswersDoes,
   MasterAnswersLateDoes, MasterFailedDoes, MasterHearsDoes DEF MasterStep

\* What the queues of commands and responses become.
LEMMA MasterQueues ==
  ASSUME OtaInv, MasterFrame, MasterDoes
  PROVE  /\ IsSeq(toMaster) /\ IsSeq(toSlave) /\ toMaster # <<>>
         /\ toMaster' = toMaster \/ toMaster' = Tail(toMaster)
         /\ \/ toSlave' = toSlave
            \/ \E cmd : /\ toSlave' = Append(toSlave, cmd)
                        /\ cmd.type = "apply" =>
                             /\ twsStep["master"] = "none" /\ toMaster' = toMaster
                             /\ Told.type = "apply" /\ Told.val = 1
         /\ twsStep' = twsStep \/ \E s : twsStep' = [twsStep EXCEPT !["master"] = s]
<1>1. /\ IsSeq(toMaster) /\ IsSeq(toSlave) /\ HandlesInOrder
  BY InvOf DEF OtaInv, Bud
<1>2. toMaster # <<>>
  BY <1>1 DEF MasterFrame, HandlesInOrder
<1>3. toMaster' = toMaster \/ toMaster' = Tail(toMaster)
  BY DEF MasterDoes, MasterWaits, MasterResumes, MasterAgain, MasterAnswers, MasterAnswersLate,
         MasterFailed, MasterHears, Done
<1>4. twsStep' = twsStep \/ \E s : twsStep' = [twsStep EXCEPT !["master"] = s]
  BY DEF MasterDoes, MasterWaits, MasterResumes, MasterAgain, MasterAnswers, MasterAnswersLate,
         MasterFailed, MasterHears
<1>5. \/ toSlave' = toSlave
      \/ \E cmd : /\ toSlave' = Append(toSlave, cmd)
                  /\ cmd.type = "apply" =>
                       /\ twsStep["master"] = "none" /\ toMaster' = toMaster
                       /\ Told.type = "apply" /\ Told.val = 1
  <2>1. CASE MasterWaits
    <3>1. \/ toSlave' = toSlave
          \/ /\ twsStep["master"] = "none" /\ toMaster' = toMaster
             /\ Told.type = "apply" /\ Told.val = 1 /\ SendsBack("apply", {1})
      BY <2>1 DEF MasterWaits
    <3> QED
      BY <3>1 DEF SendsBack
  <2>2. CASE MasterAgain \/ MasterAnswersLate \/ MasterFailed
    <3>0. PICK type, V : type # "apply" /\ SendsBack(type, V)
      BY <2>2 DEF MasterAgain, MasterAnswersLate, MasterFailed
    <3>1. toSlave' = toSlave \/ \E v : toSlave' = Append(toSlave, Cmd(type, v))
      BY <3>0 DEF SendsBack
    <3>2. \A v : Cmd(type, v).type # "apply"
      BY <3>0, CmdIs
    <3> QED
      BY <3>1, <3>2
  <2>3. CASE MasterResumes \/ MasterAnswers \/ MasterHears
    BY <2>3 DEF MasterResumes, MasterAnswers, MasterHears
  <2> QED
    BY <2>1, <2>2, <2>3 DEF MasterDoes
<1> QED
  BY <1>1, <1>2, <1>3, <1>4, <1>5

\* A step of the master leaves both buds as they were, as far as their invariant goes.
LEMMA MasterBuds ==
  ASSUME OtaInv, MasterFrame, MasterDoes
  PROVE  \A a \in Bud : Keeps(a)
<1>1. toMaster # <<>>
  BY MasterQueues
<1>2. ~AtRest
  BY <1>1 DEF AtRest
<1>3. \A a \in Bud : a # "master" => twsStep'[a] = twsStep[a]
  <2>1. twsStep = [a \in Bud |-> twsStep[a]]
    BY InvOf DEF Shaped, Bud
  <2> QED
    BY <2>1, MasterQueues
<1>4. "master" \in Bud
  BY DEF Bud
<1> QED
  BY <1>2, <1>3, <1>4, HandledKeeps DEF MasterFrame

\* It keeps the shape of the state,
LEMMA MasterShaped ==
  ASSUME OtaInv, MasterFrame, MasterDoes
  PROVE  Shaped'
<1>1. IsSeq(toMaster') /\ IsSeq(toSlave')
  <2>1. IsSeq(Tail(toMaster))
    BY MasterQueues, Tailed
  <2>2. \A cmd : IsSeq(Append(toSlave, cmd))
    BY MasterQueues, Appended
  <2>3. /\ IsSeq(toMaster) /\ IsSeq(toSlave)
        /\ toMaster' = toMaster \/ toMaster' = Tail(toMaster)
        /\ toSlave' = toSlave \/ \E cmd : toSlave' = Append(toSlave, cmd)
    BY MasterQueues
  <2> QED
    BY <2>1, <2>2, <2>3
<1>2. twsStep' = [a \in Bud |-> twsStep'[a]]
  <2>1. twsStep = [a \in Bud |-> twsStep[a]]
    BY InvOf DEF Shaped, Bud
  <2>2. CASE twsStep' = twsStep
    BY <2>1, <2>2
  <2>3. CASE twsStep' # twsStep
    <3>1. PICK s : twsStep' = [twsStep EXCEPT !["master"] = s]
      BY <2>3, MasterQueues
    <3> QED
      BY <2>1, <3>1
  <2> QED
    BY <2>2, <2>3
<1>3. "master" \in Bud
  BY DEF Bud
<1> QED
  BY <1>1, <1>2, <1>3, MasterBuds, HandledShaped DEF MasterFrame

\* the order of the handlers,
LEMMA MasterHandles ==
  ASSUME OtaInv, MasterFrame, MasterDoes
  PROVE  HandlesInOrder'
<1>0. HandlesInOrder /\ twsStep = [a \in Bud |-> twsStep[a]] /\ "master" \in Bud /\ "slave" \in Bud
  BY InvOf DEF OtaInv, Shaped, Bud
<1>1. twsStep'["slave"] = twsStep["slave"]
  BY <1>0, MasterQueues
<1>2. toSlave # <<>> => toSlave' # <<>> /\ Head(toSlave') = Head(toSlave)
  <2>1. \A cmd : toSlave # <<>> =>
          Append(toSlave, cmd) # <<>> /\ Head(Append(toSlave, cmd)) = Head(toSlave)
    BY MasterQueues, AppendKeepsHead
  <2> QED
    BY <2>1, MasterQueues
<1>3. twsStep'["master"] # "none" => toMaster' # <<>> /\ Head(toMaster').type = twsStep'["master"]
  <2>1. CASE MasterWaits
    BY <1>0, <2>1 DEF MasterWaits, Told
  <2>2. CASE MasterResumes \/ MasterAnswers \/ MasterHears
    <3>1. twsStep' = twsStep
      BY <2>2 DEF MasterResumes, MasterAnswers, MasterHears
    <3> QED
      BY <2>2, <3>1 DEF MasterResumes, MasterAnswers, MasterHears
  <2>3. CASE MasterAgain \/ MasterAnswersLate \/ MasterFailed
    <3>1. twsStep'["master"] = "none"
      BY <1>0, <2>3 DEF MasterAgain, MasterAnswersLate, MasterFailed
    <3> QED
      BY <3>1
  <2> QED
    BY <2>1, <2>2, <2>3 DEF MasterDoes
<1> QED
  BY <1>0, <1>1, <1>2, <1>3 DEF HandlesInOrder

\* and what the phone may hear of the break point.
LEMMA MasterResumed ==
  ASSUME OtaInv, MasterFrame, MasterDoes
  PROVE  Resumed'
<1>0. /\ Resumed /\ phone' = phone /\ IsSeq(toMaster) /\ toMaster # <<>>
      /\ ram'["master"].pending => ram["master"].pending
      /\ ram'["slave"].pending => ram["slave"].pending
  <2>1. "master" \in Bud /\ "slave" \in Bud
    BY DEF Bud
  <2> QED
    BY <2>1, MasterBuds, MasterQueues DEF OtaInv, Keeps, MasterFrame
<1>1. ASSUME NEW i \in DOMAIN toMaster', toMaster'[i].type = "resume", toMaster'[i].val # 0
      PROVE  \E j \in DOMAIN toMaster : toMaster[j].type = "resume" /\ toMaster[j].val # 0
  <2>1. CASE toMaster' = toMaster
    BY <1>1, <2>1
  <2>2. CASE toMaster' = Tail(toMaster)
    <3>1. toMaster'[i] = toMaster[i + 1] /\ i + 1 \in DOMAIN toMaster
      BY <1>0, <2>2, Tailed
    <3> QED
      BY <1>1, <3>1
  <2> QED
    BY <2>1, <2>2, MasterQueues
<1>2. tws'.type = "resume" /\ tws'.bp # 0 => tws.type = "resume" /\ tws.bp # 0
  BY DEF MasterDoes, MasterWaits, MasterResumes, MasterAgain, MasterAnswers, MasterAnswersLate,
         MasterFailed, MasterHears, SameBreak
<1>3. ASSUME phone.at = "resume", answer'.kind = "resume", answer'.val # 0
      PROVE  ~ram["master"].pending /\ ~ram["slave"].pending
  <2>1. CASE answer' = answer
    BY <1>0, <1>3, <2>1 DEF Resumed
  <2>2. CASE answer' # answer
    <3>1. MasterResumes
      BY <1>3, <2>2 DEF MasterDoes, MasterWaits, MasterAgain, MasterAnswers, MasterAnswersLate,
         MasterFailed, MasterHears
    <3>2. /\ tws.type = "resume" /\ tws.bp # 0
          /\ Told.type = "resume" /\ Told.val # 0
      BY <1>3, <3>1 DEF MasterResumes
    <3>3. Told = toMaster[1] /\ 1 \in DOMAIN toMaster
      BY <1>0, SeqFacts DEF Told
    <3> QED
      BY <1>0, <1>3, <3>2, <3>3 DEF Resumed
  <2> QED
    BY <2>1, <2>2
<1> QED
  BY <1>0, <1>1, <1>2, <1>3 DEF Resumed

\* The master stays in step with the phone.
LEMMA MasterInStep ==
  ASSUME OtaInv, MasterFrame, MasterDoes
  PROVE  InStep'
<1> DEFINE m == "master"
<1>0. /\ inbox' = inbox /\ phone' = phone /\ InStep
      /\ ram'[m].stage = ram[m].stage
      /\ Intact(m) => Intact(m)'
  <2>1. m \in Bud
    BY DEF Bud
  <2> QED
    BY <2>1, MasterBuds, KeepsIntact DEF OtaInv, Keeps, MasterFrame
<1>1. CASE tws'.type = tws.type /\ tws'.err = tws.err /\ answer' = answer
  BY <1>0, <1>1, InStepKept
<1>2. CASE tws'.type = "none" /\ tws'.err = tws.err /\ answer' = answer
  <2>1. Quiet => Quiet'
    BY <1>0, <1>2 DEF Quiet
  <2>2. StepResume' /\ StepStart'
    BY <1>2 DEF StepResume, StepStart
  <2>3. StepConfig => StepConfig'
    BY <1>0, <1>2, <2>1 DEF StepConfig
  <2>4. StepAck => StepAck'
    BY <1>0, <1>2 DEF StepAck, Only, ReadyFor
  <2>5. StepSegment => StepSegment'
    BY <1>0, <1>2, <2>1 DEF StepSegment, Only, ReadyFor
  <2>6. StepResult => StepResult'
    BY <1>0, <1>2 DEF StepResult, Only, ReadyFor, Passed, Seen
  <2> QED
    BY <1>0, <2>1, <2>2, <2>3, <2>4, <2>5, <2>6 DEF InStep
<1>3. CASE tws' = tws /\ answer'.kind = "result" /\ answer'.val # 1
  <2>1. Quiet => Quiet'
    BY <1>0, <1>3 DEF Quiet
  <2>2. StepResume' /\ (StepStart => StepStart')
    BY <1>3 DEF StepResume, StepStart
  <2>3. StepConfig => StepConfig'
    BY <1>0, <1>3 DEF StepConfig
  <2>4. StepAck => StepAck'
    BY <1>0, <1>3 DEF StepAck, Only, ReadyFor
  <2>5. StepSegment => StepSegment'
    BY <1>0, <1>3 DEF StepSegment, Only, ReadyFor
  <2>6. StepResult => StepResult'
    BY <1>0, <1>3 DEF StepResult, Only, ReadyFor, Passed, Seen
  <2> QED
    BY <1>0, <2>1, <2>2, <2>3, <2>4, <2>5, <2>6 DEF InStep
<1>4. CASE MasterResumes
  <2>1. tws.type = "resume" /\ tws'.type = "none" /\ answer'.kind = "resume"
    BY <1>4 DEF MasterResumes
  <2>2. ~Quiet /\ ~StepAck /\ ~StepSegment /\ ~StepResult
    BY <2>1 DEF Quiet, StepAck, StepSegment, StepResult, ReadyFor
  <2>3. StepResume' /\ StepStart' /\ StepConfig'
    BY <2>1 DEF StepResume, StepStart, StepConfig
  <2> QED
    BY <1>0, <2>2, <2>3 DEF InStep
<1>5. CASE MasterAnswersLate
  <2>1. /\ tws'.type = "none" /\ tws'.err = 0
        /\ answer'.kind \in {"result", "apply"} /\ (answer'.kind = "result" => answer'.val # 1)
    BY <1>5 DEF MasterAnswersLate
  <2>2. Quiet => Quiet'
    BY <1>0, <2>1 DEF Quiet
  <2>3. StepResume' /\ StepStart' /\ StepConfig'
    BY <2>1 DEF StepResume, StepStart, StepConfig
  <2>4. StepAck => StepAck'
    BY <1>0, <2>1 DEF StepAck, Only, ReadyFor
  <2>5. StepSegment => StepSegment'
    BY <1>0, <2>1 DEF StepSegment, Only, ReadyFor
  <2>6. StepResult => StepResult'
    BY <1>0, <2>1 DEF StepResult, Only, ReadyFor, Passed, Seen
  <2> QED
    BY <1>0, <2>2, <2>3, <2>4, <2>5, <2>6 DEF InStep
<1>6. CASE MasterAnswers
  <2>1. /\ tws.type \in {"start", "config", "segment", "result"}
        /\ tws'.type = "none" /\ (tws.type = "start" \/ tws'.err = 0)
        /\ answer'.kind = tws.type /\ (tws.type = "result" => tws.err = 1)
    BY <1>6 DEF MasterAnswers
  <2>2. ~Quiet /\ ~StepAck
    BY <2>1 DEF Quiet, StepAck, ReadyFor
  <2>3. StepResume' /\ StepStart'
    BY <2>1 DEF StepResume, StepStart
  <2>4. StepConfig => StepConfig'
    BY <1>0, <2>1 DEF StepConfig, Quiet
  <2>5. StepSegment => StepSegment'
    BY <1>0, <2>1 DEF StepSegment, Only, ReadyFor, Quiet
  <2>6. StepResult => StepResult'
    <3> SUFFICES ASSUME StepResult PROVE StepResult'
      OBVIOUS
    <3>1. /\ inbox[m] = <<>> \/ (Only("result") /\ Seen(m))
          /\ ReadyFor("result")
          /\ tws.type = "result" /\ tws.err = 1 => Intact(m)
      BY <2>1 DEF StepResult
    <3>2. Intact(m)'
      BY <1>0, <2>1, <3>1 DEF ReadyFor
    <3>3. ReadyFor("result")' /\ (inbox'[m] = <<>> \/ (Only("result")' /\ Seen(m)'))
      BY <1>0, <2>1, <3>1 DEF ReadyFor, Only, Seen
    <3> QED
      BY <3>2, <3>3 DEF StepResult
  <2> QED
    BY <1>0, <2>2, <2>3, <2>4, <2>5, <2>6 DEF InStep
<1>7. CASE tws.type = "ack" /\ tws'.type = "none" /\ answer'.kind = "ack" /\ SameBreak
  <2>1. ~Quiet /\ ~StepStart /\ ~StepConfig /\ ~StepSegment /\ ~StepResult
    BY <1>7 DEF Quiet, StepStart, StepConfig, StepSegment, StepResult, ReadyFor
  <2>2. StepResume'
    BY <1>7 DEF StepResume
  <2>3. StepAck => StepAck'
    BY <1>0, <1>7 DEF StepAck, Only, ReadyFor, SameBreak
  <2> QED
    BY <1>0, <2>1, <2>2, <2>3 DEF InStep
<1>8. \/ tws'.type = tws.type /\ tws'.err = tws.err /\ answer' = answer
      \/ tws'.type = "none" /\ tws'.err = tws.err /\ answer' = answer
      \/ tws' = tws /\ answer'.kind = "result" /\ answer'.val # 1
      \/ MasterResumes \/ MasterAnswersLate \/ MasterAnswers
      \/ tws.type = "ack" /\ tws'.type = "none" /\ answer'.kind = "ack" /\ SameBreak
  BY DEF MasterDoes, MasterWaits, MasterAgain, MasterFailed, MasterHears, SameBreak
<1> QED
  BY <1>1, <1>2, <1>3, <1>4, <1>5, <1>6, <1>7, <1>8

\* What is told of an apply.
LEMMA MasterApplying ==
  ASSUME OtaInv, MasterFrame, MasterDoes
  PROVE  MasterApplies' /\ SlaveApplies'
<1> DEFINE m == "master"
           s == "slave"
<1>0. /\ inbox' = inbox /\ phone' = phone /\ link' = link /\ m \in Bud /\ s \in Bud
      /\ ram'[m].stage = ram[m].stage
      /\ Intact(m) => Intact(m)'
      /\ Intact(s) => Intact(s)'
      /\ IsSeq(toMaster) /\ toMaster # <<>> /\ IsSeq(toSlave)
      /\ twsStep = [a \in Bud |-> twsStep[a]] /\ twsStep'[s] = twsStep[s]
  <2>1. m \in Bud /\ s \in Bud
    BY DEF Bud
  <2>2. twsStep = [a \in Bud |-> twsStep[a]]
    BY <2>1, InvOf DEF Shaped
  <2>3. twsStep'[s] = twsStep[s]
    BY <2>1, <2>2, MasterQueues
  <2>4. /\ Intact(m) => Intact(m)'
        /\ Intact(s) => Intact(s)'
    BY <2>1, MasterBuds, KeepsIntact
  <2>5. ram'[m].stage = ram[m].stage
    BY <2>1, MasterBuds DEF Keeps
  <2> QED
    BY <2>1, <2>2, <2>3, <2>4, <2>5, MasterQueues DEF MasterFrame
<1>1. ASSUME NEW p, ToldIn(toMaster', Begun', p) PROVE ToldIn(toMaster, Begun, p)
  <2>1. CASE toMaster' = Tail(toMaster)
    <3>1. PICK g : g = Begun'
      OBVIOUS
    <3>2. ToldIn(Tail(toMaster), g, p)
      BY <1>1, <2>1, <3>1
    <3>3. \A t : ToldIn(toMaster, t, p)
      BY <1>0, <3>2, ToldTail
    <3> QED
      BY <3>3
  <2>2. CASE toMaster' # Tail(toMaster)
    <3>1. MasterWaits
      BY <2>2 DEF MasterDoes, MasterResumes, MasterAgain, MasterAnswers, MasterAnswersLate,
         MasterFailed, MasterHears, Done
    <3>2. toMaster' = toMaster /\ ~Begun
      BY <3>1 DEF MasterWaits, Begun
    <3>3. PICK g : g = Begun'
      OBVIOUS
    <3>4. ToldIn(toMaster, g, p)
      BY <1>1, <3>2, <3>3
    <3> QED
      BY <3>2, <3>4 DEF ToldIn
  <2> QED
    BY <2>1, <2>2
<1>2. Begun' => Begun \/ (Told.type = "apply" /\ Told.val = 1 /\ ~Begun)
  BY <1>0 DEF MasterDoes, MasterWaits, MasterResumes, MasterAgain, MasterAnswers, MasterAnswersLate,
         MasterFailed, MasterHears, Begun
<1>3. ASSUME Told.type = "apply", ~Begun PROVE /\ ApplyTold
                                               /\ Told.val = 1 => AppliedTold
  <2>1. Told = toMaster[1] /\ 1 \in DOMAIN toMaster
    BY <1>0, SeqFacts DEF Told
  <2> QED
    BY <1>3, <2>1 DEF ApplyTold, AppliedTold, ToldIn
<1>4. MasterIsTold' => MasterIsTold
  <2>1. ApplyTold' => ApplyTold
    BY <1>1 DEF ApplyTold
  <2> QED
    BY <1>0, <1>2, <1>3, <2>1 DEF MasterIsTold, Has
<1>5. SlaveIsTold' => SlaveIsTold
  <2>1. AppliedTold' => AppliedTold
    BY <1>1 DEF AppliedTold
  <2>2. ASSUME HasIn(toSlave', "apply") PROVE HasIn(toSlave, "apply") \/ AppliedTold
    <3>1. CASE toSlave' = toSlave
      BY <2>2, <3>1
    <3>2. CASE toSlave' # toSlave
      <4>1. PICK cmd : /\ toSlave' = Append(toSlave, cmd)
                       /\ cmd.type = "apply" =>
                            /\ twsStep[m] = "none" /\ Told.type = "apply" /\ Told.val = 1
        BY <3>2, MasterQueues
      <4>2. HasIn(toSlave, "apply") \/ cmd.type = "apply"
        BY <1>0, <2>2, <4>1, HasAppend
      <4> QED
        BY <1>3, <4>1, <4>2 DEF Begun
    <3> QED
      BY <3>1, <3>2
  <2> QED
    BY <1>0, <2>1, <2>2 DEF SlaveIsTold
<1>6. MasterApplies /\ SlaveApplies
  BY DEF OtaInv
<1>7. MasterApplies'
  BY <1>0, <1>4, <1>6 DEF MasterApplies, NotBack, Seen
<1>8. SlaveApplies'
  BY <1>0, <1>5, <1>6 DEF SlaveApplies, NotBack
<1> QED
  BY <1>7, <1>8

\* The invariant, after a step of the master.
LEMMA MasterKeepsInv ==
  ASSUME OtaInv, MasterStep
  PROVE  OtaInv'
<1>1. MasterFrame /\ MasterDoes
  BY MasterStepDoes
<1>2. \A a \in Bud : BudInv(a)'
  BY <1>1, MasterBuds, KeepsInv
<1> QED
  BY <1>1, <1>2, MasterShaped, MasterHandles, MasterResumed, MasterInStep, MasterApplying DEF OtaInv

-----------------------------------------------------------------------------
\* What the slave does with a response.
SlaveBegins ==
  /\ twsStep["slave"] = "none"
  /\ twsStep' = [twsStep EXCEPT !["slave"] = Head(toSlave).type]
  /\ UNCHANGED <<toSlave, toMaster>>

SlaveEnds ==
  /\ twsStep["slave"] # "none" /\ twsStep' = [twsStep EXCEPT !["slave"] = "none"]
  /\ toSlave' = Tail(toSlave)
  /\ \/ toMaster' = toMaster
     \/ \E cmd : toMaster' = Append(toMaster, cmd) /\ cmd.type = "resume" /\ cmd.val = 0

SlaveFrame ==
  /\ RamKept("slave") /\ PendKept("slave")
  /\ UNCHANGED <<flash, inbox, link, phone, tws, answer>>
  /\ toSlave # <<>>
  /\ twsStep["slave"] = "apply" => pend["slave"] = <<>>

\* Every step of the slave either begins to handle a response or ends it.
LEMMA SlaveStepDoes ==
  ASSUME OtaInv, SlaveStep
  PROVE  SlaveFrame /\ (SlaveBegins \/ SlaveEnds)
<1>0. HandlesInOrder /\ "slave" \in Bud
  BY DEF OtaInv, Bud
<1>1. CASE TakeResponse
  <2>1. /\ toSlave # <<>> /\ twsStep["slave"] = "none"
        /\ UNCHANGED <<flash, inbox, link, phone, tws, answer, toSlave, toMaster>>
        /\ \/ /\ Head(toSlave).type = "apply" /\ UpdatesInfo("slave") /\ ram' = ram
              /\ WaitsFor("slave", "apply")
           \/ /\ Destroyed("slave") /\ Queue("slave", EraseLogOps(flash["slave"]))
              /\ WaitsFor("slave", Head(toSlave).type)
    BY <1>1 DEF TakeResponse, worldVars, UpdatesInfo
  <2>2. RamKept("slave") /\ PendKept("slave")
    BY <1>0, <2>1, RamKeptBy, PendKeptBy
  <2> QED
    BY <2>1, <2>2 DEF SlaveFrame, SlaveBegins, WaitsFor
<1>2. CASE SlaveStartsAgain
  <2> DEFINE code == Head(toSlave).val
             cmd == [type |-> "resume", val |-> 0, code |-> code]
  <2>1. /\ twsStep["slave"] = "resume" /\ toSlave' = Tail(toSlave)
        /\ UNCHANGED <<flash, inbox, link, phone, answer>>
        /\ ram' = [ram EXCEPT !["slave"] = [ResetEnv(@) EXCEPT !.on = TRUE]]
        /\ Queue("slave", EraseLogOps(flash["slave"]) \o <<LogCode(code)>>)
        /\ WaitsFor("slave", "none")
        /\ tws' = tws /\ (toMaster' = toMaster \/ toMaster' = Append(toMaster, cmd))
    BY <1>2 DEF SlaveStartsAgain, StartAgain, Tells, TellsFrom, worldVars
  <2>2. RamKept("slave") /\ PendKept("slave")
    BY <1>0, <2>1, RamKeptBy, PendKeptBy
  <2>3. cmd.type = "resume" /\ cmd.val = 0
    OBVIOUS
  <2> HIDE DEF cmd
  <2>4. toSlave # <<>>
    BY <1>0, <2>1 DEF HandlesInOrder
  <2> QED
    BY <2>1, <2>2, <2>3, <2>4 DEF SlaveFrame, SlaveEnds, WaitsFor
<1>3. CASE FinishResponse
  <2>1. /\ twsStep["slave"] # "none" /\ toSlave' = Tail(toSlave)
        /\ UNCHANGED <<flash, pend, inbox, link, phone, tws, answer, toMaster>>
        /\ WaitsFor("slave", "none")
        /\ \/ ram' = ram
           \/ ram' = [ram EXCEPT !["slave"] = ResetEnv(@)]
           \/ AsksForReset("slave")
        /\ twsStep["slave"] = "apply" => pend["slave"] = <<>>
    BY <1>3 DEF FinishResponse, Flushed, worldVars
  <2>2. RamKept("slave") /\ PendKept("slave")
    BY <1>0, <2>1, RamKeptBy, PendKeptBy
  <2>3. toSlave # <<>>
    BY <1>0, <2>1 DEF HandlesInOrder
  <2> QED
    BY <2>1, <2>2, <2>3 DEF SlaveFrame, SlaveEnds, WaitsFor
<1> QED
  BY <1>1, <1>2, <1>3 DEF SlaveStep

\* It tells the master nothing but to start again.
LEMMA SlaveQueues ==
  ASSUME OtaInv, SlaveFrame, SlaveBegins \/ SlaveEnds
  PROVE  /\ \A a \in Bud : Keeps(a)
         /\ Shaped' /\ HandlesInOrder'
         /\ twsStep'["master"] = twsStep["master"]
         /\ \/ toMaster' = toMaster
            \/ \E cmd : toMaster' = Append(toMaster, cmd) /\ cmd.type = "resume" /\ cmd.val = 0
         /\ \A p : ToldIn(toMaster', Begun', p) => ToldIn(toMaster, Begun, p)
<1>0. /\ IsSeq(toMaster) /\ IsSeq(toSlave) /\ toSlave # <<>> /\ HandlesInOrder
      /\ "master" \in Bud /\ "slave" \in Bud
      /\ twsStep = [a \in Bud |-> twsStep[a]] /\ IsTws(tws)
  <2>1. "master" \in Bud /\ "slave" \in Bud
    BY DEF Bud
  <2> QED
    BY <2>1, InvOf DEF OtaInv, Shaped, SlaveFrame
<1>1. /\ toSlave' = toSlave \/ toSlave' = Tail(toSlave)
      /\ \/ toMaster' = toMaster
         \/ \E cmd : toMaster' = Append(toMaster, cmd) /\ cmd.type = "resume" /\ cmd.val = 0
      /\ \E s : twsStep' = [twsStep EXCEPT !["slave"] = s]
  BY DEF SlaveBegins, SlaveEnds
<1>2. twsStep' = [a \in Bud |-> twsStep'[a]] /\ \A a \in Bud : a # "slave" => twsStep'[a] = twsStep[a]
  BY <1>0, <1>1
<1>3. ~AtRest
  BY <1>0 DEF AtRest
<1>4. \A a \in Bud : Keeps(a)
  BY <1>0, <1>2, <1>3, HandledKeeps DEF SlaveFrame
<1>5. IsSeq(toMaster') /\ IsSeq(toSlave')
  <2>1. IsSeq(Tail(toSlave)) /\ \A cmd : IsSeq(Append(toMaster, cmd))
    BY <1>0, Tailed, Appended
  <2> QED
    BY <1>0, <1>1, <2>1
<1>6. Shaped'
  <2>1. IsTws(tws')
    BY <1>0 DEF SlaveFrame, IsTws
  <2> QED
    BY <1>0, <1>2, <1>4, <1>5, <2>1, HandledShaped DEF SlaveFrame
<1>7. twsStep'["master"] = twsStep["master"]
  BY <1>0, <1>2
<1>8. HandlesInOrder'
  <2>1. toMaster # <<>> => toMaster' # <<>> /\ Head(toMaster') = Head(toMaster)
    <3>1. \A cmd : toMaster # <<>> =>
            Append(toMaster, cmd) # <<>> /\ Head(Append(toMaster, cmd)) = Head(toMaster)
      BY <1>0, AppendKeepsHead
    <3> QED
      BY <1>1, <3>1
  <2>2. twsStep'["slave"] # "none" => toSlave' # <<>> /\ Head(toSlave').type = twsStep'["slave"]
    BY <1>0 DEF SlaveBegins, SlaveEnds
  <2> QED
    BY <1>0, <1>7, <2>1, <2>2 DEF HandlesInOrder
<1>9. ASSUME NEW p, ToldIn(toMaster', Begun', p) PROVE ToldIn(toMaster, Begun, p)
  <2>0. Begun' = Begun
    BY <1>7 DEF Begun
  <2>1. CASE toMaster' = toMaster
    BY <1>9, <2>0, <2>1
  <2>2. CASE toMaster' # toMaster
    <3>1. PICK cmd : toMaster' = Append(toMaster, cmd) /\ cmd.type = "resume"
      BY <1>1, <2>2
    <3>2. PICK g : g = Begun
      OBVIOUS
    <3>3. ToldIn(Append(toMaster, cmd), g, p)
      BY <1>9, <2>0, <3>1, <3>2
    <3>4. ToldIn(toMaster, g, p)
      BY <1>0, <3>1, <3>3, ToldAppend
    <3> QED
      BY <3>2, <3>4
  <2> QED
    BY <2>1, <2>2
<1> QED
  BY <1>1, <1>4, <1>6, <1>7, <1>8, <1>9

\* The invariant, after a step of the slave.
LEMMA SlaveKeepsInv ==
  ASSUME OtaInv, SlaveStep
  PROVE  OtaInv'
<1> DEFINE m == "master"
           s == "slave"
<1>0. SlaveFrame /\ (SlaveBegins \/ SlaveEnds)
  BY SlaveStepDoes
<1>1. /\ m \in Bud /\ s \in Bud
      /\ UNCHANGED <<flash, inbox, link, phone, tws, answer>>
      /\ IsSeq(toMaster) /\ IsSeq(toSlave) /\ toSlave # <<>>
      /\ twsStep = [a \in Bud |-> twsStep[a]] /\ HandlesInOrder
  <2>1. m \in Bud /\ s \in Bud
    BY DEF Bud
  <2> QED
    BY <1>0, <2>1, InvOf DEF OtaInv, Shaped, SlaveFrame
<1>2. /\ \A a \in Bud : Keeps(a)
      /\ Shaped' /\ HandlesInOrder'
      /\ twsStep'[m] = twsStep[m]
      /\ \/ toMaster' = toMaster
         \/ \E cmd : toMaster' = Append(toMaster, cmd) /\ cmd.type = "resume" /\ cmd.val = 0
      /\ \A p : ToldIn(toMaster', Begun', p) => ToldIn(toMaster, Begun, p)
  BY <1>0, SlaveQueues
<1>3. \A a \in Bud : BudInv(a)'
  BY <1>2, KeepsInv
<1>4. /\ Intact(m) => Intact(m)'
      /\ Intact(s) => Intact(s)'
  BY <1>1, <1>2, KeepsIntact
<1>5. /\ ram'[m].stage = ram[m].stage
      /\ ram'[m].pending => ram[m].pending
      /\ ram'[s].pending => ram[s].pending
  BY <1>1, <1>2 DEF Keeps
<1>6. InStep'
  BY <1>1, <1>4, <1>5, InStepKept
<1>7. Resumed'
  <2>1. ASSUME NEW i \in DOMAIN toMaster', toMaster'[i].type = "resume", toMaster'[i].val # 0
        PROVE  \E j \in DOMAIN toMaster : toMaster[j].type = "resume" /\ toMaster[j].val # 0
    <3>1. CASE toMaster' = toMaster
      BY <2>1, <3>1
    <3>2. CASE toMaster' # toMaster
      <4>1. PICK cmd : toMaster' = Append(toMaster, cmd) /\ cmd.type = "resume" /\ cmd.val = 0
        BY <1>2, <3>2
      <4>2. i \in DOMAIN toMaster /\ toMaster'[i] = toMaster[i]
        BY <1>1, <2>1, <4>1, Appended
      <4> QED
        BY <2>1, <4>2
    <3> QED
      BY <3>1, <3>2
  <2>2. Resumed
    BY DEF OtaInv
  <2> QED
    BY <1>1, <1>5, <2>1, <2>2 DEF Resumed
<1>8. MasterIsTold' => MasterIsTold
  <2>1. ApplyTold' => ApplyTold
    BY <1>2 DEF ApplyTold
  <2> QED
    BY <1>1, <1>2, <2>1 DEF MasterIsTold, Has, Begun
<1>9. SlaveIsTold' => SlaveIsTold
  <2>1. AppliedTold' => AppliedTold
    BY <1>2 DEF AppliedTold
  <2>2. HasIn(toSlave', "apply") => HasIn(toSlave, "apply")
    <3>1. HasIn(Tail(toSlave), "apply") => HasIn(toSlave, "apply")
      BY <1>1, HasTail
    <3> QED
      BY <1>0, <3>1 DEF SlaveBegins, SlaveEnds
  <2>3. twsStep'[s] = "apply" => HasIn(toSlave, "apply")
    <3>1. Head(toSlave) = toSlave[1] /\ 1 \in DOMAIN toSlave
      BY <1>1, SeqFacts
    <3>2. twsStep'[s] = "apply" => Head(toSlave).type = "apply"
      BY <1>0, <1>1 DEF SlaveBegins, SlaveEnds
    <3> QED
      BY <3>1, <3>2 DEF HasIn
  <2> QED
    BY <2>1, <2>2, <2>3 DEF SlaveIsTold
<1>10. MasterApplies /\ SlaveApplies
  BY DEF OtaInv
<1>11. MasterApplies'
  BY <1>1, <1>4, <1>5, <1>8, <1>10 DEF MasterApplies, NotBack, Seen
<1>12. SlaveApplies'
  BY <1>1, <1>4, <1>9, <1>10 DEF SlaveApplies, NotBack
<1> QED
  BY <1>2, <1>3, <1>6, <1>7, <1>11, <1>12 DEF OtaInv

-----------------------------------------------------------------------------
(***************************************************************************)
(* The flash does what is queued.                                          *)
(***************************************************************************)
\* What an operation makes of the flash.
LEMMA ApplyIs ==
  ASSUME NEW f, FlashFits(f), NEW o, IsOp(o, OpKind)
  PROVE  /\ FlashFits(Apply(o, f))
         /\ o.op \notin AreaOp => Apply(o, f).area = f.area /\ Apply(o, f).magic = f.magic
         /\ \/ Apply(o, f).boot = f.boot /\ o.op # "boot"
            \/ Apply(o, f).boot = "none"
            \/ o.op = "boot" /\ Apply(o, f).boot = o.boot
<1>0. /\ IsFlash(f) /\ f.log \in [1..LogLen -> Int]
      /\ o.op \in OpKind /\ (o.op = "entry" => o.size \in Int)
  BY DEF FlashFits, IsOp
<1>1. CASE o.op = "erase"
  BY <1>0, <1>1 DEF Apply, FlashFits, IsFlash, AreaOp
<1>2. CASE o.op = "program"
  BY <1>0, <1>2 DEF Apply, FlashFits, IsFlash, AreaOp
<1>3. CASE o.op = "mark"
  BY <1>0, <1>3 DEF Apply, FlashFits, IsFlash, AreaOp
<1>4. CASE o.op = "eraseLog"
  <2>1. EmptyLog \in [1..LogLen -> Int]
    BY DEF EmptyLog, NoNumber
  <2> QED
    BY <1>0, <1>4, <2>1 DEF Apply, FlashFits, IsFlash
<1>5. CASE o.op = "code"
  BY <1>0, <1>5 DEF Apply, FlashFits, IsFlash
<1>6. CASE o.op = "hdr"
  BY <1>0, <1>6 DEF Apply, FlashFits, IsFlash
<1>7. CASE o.op = "entry"
  <2> DEFINE log == [f.log EXCEPT ![o.at] = BurnNumber(@, o.size)]
  <2>1. log \in [1..LogLen -> Int]
    <3>1. \A n \in Int : BurnNumber(n, o.size) \in Int
      BY <1>0, <1>7 DEF BurnNumber, NoNumber, GarbledNumber
    <3> QED
      BY <1>0, <3>1
  <2>2. Apply(o, f) = [f EXCEPT !.log = log]
    BY <1>7 DEF Apply
  <2> HIDE DEF log
  <2> QED
    BY <1>0, <1>7, <2>1, <2>2 DEF FlashFits, IsFlash
<1>8. CASE o.op = "eraseBoot"
  BY <1>0, <1>8 DEF Apply, FlashFits, IsFlash
<1>9. CASE o.op = "boot"
  BY <1>0, <1>9 DEF Apply, FlashFits, IsFlash
<1> QED
  BY <1>0, <1>1, <1>2, <1>3, <1>4, <1>5, <1>6, <1>7, <1>8, <1>9
     DEF OpKind, LogOp, AreaOp

\* The flash of bud b, and what it has still to do, after a step of it.
FlushFrame(b) ==
  /\ pend[b] # <<>>
  /\ flash'[b] = Apply(Head(pend[b]), flash[b]) /\ pend'[b] = Tail(pend[b])
  /\ \A a \in Bud : a # b => flash'[a] = flash[a] /\ pend'[a] = pend[a]
  /\ UNCHANGED <<ram, inbox, tws, toMaster, toSlave, link, answer, twsStep, phone>>
  /\ ~AtRest

\* When the boot information is written the image named is intact.
LEMMA NamedIsWhole ==
  ASSUME OtaInv, NEW b \in Bud, pend[b] # <<>>, Names(Head(pend[b]))
  PROVE  /\ Intact(b) /\ Head(pend[b]).boot = ram[b].img
         /\ ~ToDo(b) /\ ram[b].stage # "config" /\ NotBack
<1>0. Head(pend[b]) = pend[b][1] /\ 1 \in DOMAIN pend[b] /\ IsSeq(inbox[b]) /\ Staged(b)
  BY InvOf, BudInvOf, SeqFacts
<1>1. twsStep[b] = "apply" /\ Head(pend[b]).boot = ram[b].img
  <2>1. NamesTheVerified(b)
    BY BudInvOf
  <2> QED
    BY <1>0, <2>1 DEF NamesTheVerified
<1>2. CASE b = "master"
  <2>1. MasterIsTold
    BY <1>1, <1>2 DEF MasterIsTold, Begun
  <2>2. /\ Intact(b) /\ NotBack
        /\ \A i \in DOMAIN inbox[b] : inbox[b][i].type = "apply" \/ (i = 1 /\ Seen(b))
    BY <1>2, <2>1 DEF OtaInv, MasterApplies
  <2>3. ~ToDo(b)
    BY <2>2 DEF ToDo, ToDoIn, Writers
  <2>4. ram[b].stage # "config"
    <3> SUFFICES ASSUME ram[b].stage = "config" PROVE FALSE
      OBVIOUS
    <3>1. inbox[b] # <<>> /\ Head(inbox[b]).type = "config"
      BY <1>0 DEF Staged
    <3>2. 1 \in DOMAIN inbox[b] /\ inbox[b][1].type = "config"
      BY <1>0, <3>1, SeqFacts
    <3> QED
      BY <2>2, <3>2 DEF Seen
  <2> QED
    BY <1>1, <2>2, <2>3, <2>4
<1>3. CASE b = "slave"
  <2>1. SlaveIsTold
    BY <1>1, <1>3 DEF SlaveIsTold
  <2>2. Intact(b) /\ NotBack /\ inbox[b] = <<>>
    BY <1>3, <2>1 DEF OtaInv, SlaveApplies
  <2>3. ~ToDo(b)
    BY <2>2, HasNone DEF ToDo
  <2>4. ram[b].stage # "config"
    BY <1>0, <2>2 DEF Staged
  <2> QED
    BY <1>1, <2>2, <2>3, <2>4
<1> QED
  BY <1>2, <1>3 DEF Bud

\* An image that is intact stays intact.
LEMMA FlushIntact ==
  ASSUME OtaInv, NEW b \in Bud, FlushFrame(b), NEW img, IntactIn(flash[b], img, pend[b])
  PROVE  IntactIn(flash'[b], img, pend'[b])
<1>0. /\ pend[b] # <<>> /\ OpsIn(pend[b], OpKind) /\ FlashFits(flash[b])
      /\ flash'[b] = Apply(Head(pend[b]), flash[b]) /\ pend'[b] = Tail(pend[b])
  BY InvOf DEF FlushFrame
<1>1. /\ LeavesArea(Tail(pend[b])) /\ Head(pend[b]).op \notin AreaOp
      /\ IsOp(Head(pend[b]), OpKind)
  BY <1>0, OpsTail DEF IntactIn
<1>2. flash'[b].area = flash[b].area /\ flash'[b].magic = flash[b].magic
  BY <1>0, <1>1, ApplyIs
<1> QED
  BY <1>0, <1>1, <1>2 DEF IntactIn, Whole

\* A write to the flash keeps the invariant of its bud,
LEMMA FlushOwnInv ==
  ASSUME OtaInv, NEW b \in Bud, FlushFrame(b)
  PROVE  BudInv(b)' /\ ShapedBud(b)'
<1> DEFINE o == Head(pend[b])
<1>0. /\ pend[b] # <<>> /\ OpsIn(pend[b], OpKind) /\ FlashFits(flash[b]) /\ IsSeq(pend[b])
      /\ flash'[b] = Apply(o, flash[b]) /\ pend'[b] = Tail(pend[b])
      /\ UNCHANGED <<ram, inbox, toMaster, toSlave, link, twsStep, phone>> /\ ~AtRest
  BY InvOf DEF FlushFrame
<1>1. /\ OpsIn(Tail(pend[b]), OpKind) /\ IsOp(o, OpKind)
      /\ \A i \in DOMAIN Tail(pend[b]) : Tail(pend[b])[i] = pend[b][i + 1] /\ i + 1 \in DOMAIN pend[b]
  BY <1>0, OpsTail
<1>2. /\ FlashFits(flash'[b])
      /\ \/ flash'[b].boot = flash[b].boot /\ o.op # "boot"
         \/ flash'[b].boot = "none"
         \/ o.op = "boot" /\ flash'[b].boot = o.boot
  BY <1>0, <1>1, ApplyIs
<1>3. ASSUME flash'[b].boot \in Image
      PROVE  \/ flash'[b].boot = flash[b].boot /\ o.op # "boot"
             \/ Names(o) /\ flash'[b].boot = o.boot
  BY <1>2, <1>3, OtaFlashAssumption DEF Names
<1>4. \A img : IntactIn(flash[b], img, pend[b]) => IntactIn(flash'[b], img, pend'[b])
  BY FlushIntact
<1>5. WillHear(b)' => WillHear(b)
  BY <1>0 DEF WillHear
<1>6. /\ Staged(b) /\ Ordered(b) /\ AtMost(b)
      /\ VerifiedIsWhole(b) /\ BootIsWhole(b) /\ NamesTheVerified(b)
      /\ StartsFirst(b) /\ ConfigFirst(b) /\ ConfigResets(b) /\ Started(b) /\ Configured(b)
  BY BudInvOf
<1>7. ShapedBud(b)'
  <2>1. ShapedBud(b)
    BY InvOf DEF Shaped
  <2>2. OpsIn(pend'[b], OpKind)
    BY <1>0, <1>1
  <2>3. RamFits(ram'[b]) /\ IsSeq(inbox'[b]) /\ PacketsFit(inbox'[b])
    BY <1>0, <2>1 DEF ShapedBud
  <2> QED
    BY <1>2, <2>2, <2>3
       DEF ShapedBud, RamFits, IsRam, FlashFits, IsFlash, OpsIn, IsOp, IsSeq, PacketsFit
<1>8. Staged(b)' /\ Ordered(b)' /\ AtMost(b)' /\ StartsFirst(b)' /\ Started(b)'
  BY <1>0, <1>5, <1>6
     DEF Staged, Ordered, AtMost, StartsFirst, Started, Session, ToDo, Seen, Has
<1>9. VerifiedIsWhole(b)'
  BY <1>0, <1>4, <1>6 DEF VerifiedIsWhole, Intact, IntactIn, LeavesArea, Whole
<1>10. BootIsWhole(b)'
  <2> SUFFICES ASSUME flash'[b].boot \in Image PROVE IntactIn(flash'[b], flash'[b].boot, pend'[b])
    BY DEF BootIsWhole, IntactIn, LeavesArea, Whole
  <2>1. CASE flash'[b].boot = flash[b].boot
    BY <1>4, <1>6, <2>1 DEF BootIsWhole
  <2>2. CASE Names(o) /\ flash'[b].boot = o.boot
    <3>1. Intact(b) /\ o.boot = ram[b].img
      BY <1>0, <2>2, NamedIsWhole
    <3> QED
      BY <1>4, <2>2, <3>1 DEF Intact
  <2> QED
    BY <1>3, <2>1, <2>2
<1>11. NamesTheVerified(b)'
  <2> SUFFICES ASSUME NEW i \in DOMAIN pend'[b], Names(pend'[b][i])
               PROVE  twsStep'[b] = "apply" /\ pend'[b][i].boot = ram'[b].img
    BY DEF NamesTheVerified, Names
  <2> QED
    BY <1>0, <1>1, <1>6 DEF NamesTheVerified
<1>12. flash'[b].boot \in Image => flash[b].boot \in Image \/ (~ToDo(b) /\ ram[b].stage # "config" /\ NotBack)
  BY <1>0, <1>3, NamedIsWhole
<1>13. ConfigFirst(b)'
  BY <1>0, <1>6, <1>12 DEF ConfigFirst, ToDo, Seen, Has
<1>14. Configured(b)'
  <2>1. NotBack => ~(Session /\ Rank(phone.at) \in 2..3)
    BY Ranks DEF NotBack, Session
  <2> QED
    BY <1>0, <1>5, <1>6, <1>12, <2>1 DEF Configured, Session, Has
<1>15. ConfigResets(b)'
  <2> SUFFICES ASSUME ram[b].stage = "config", flash'[b].boot \in Image
               PROVE  \E i \in DOMAIN pend'[b] : pend'[b][i] = SetBoot("normal")
    BY <1>0 DEF ConfigResets, SetBoot
  <2>1. flash'[b].boot = flash[b].boot /\ o.op # "boot"
    BY <1>0, <1>3, NamedIsWhole
  <2>2. PICK i \in DOMAIN pend[b] : pend[b][i] = SetBoot("normal")
    BY <1>6, <2>1 DEF ConfigResets
  <2>3. o = pend[b][1] /\ DOMAIN pend[b] = 1..Len(pend[b]) /\ Len(pend[b]) \in Nat
    BY <1>0, SeqFacts
  <2>4. i # 1
    BY <2>1, <2>2, <2>3 DEF SetBoot
  <2>5. DOMAIN Tail(pend[b]) = 1..(Len(pend[b]) - 1)
    BY <1>0, Tailed
  <2>6. i - 1 \in DOMAIN Tail(pend[b]) /\ (i - 1) + 1 = i
    BY <2>3, <2>4, <2>5
  <2>7. Tail(pend[b])[i - 1] = pend[b][i]
    BY <1>1, <2>6
  <2> QED
    BY <1>0, <2>2, <2>6, <2>7
<1> QED
  BY <1>7, <1>8, <1>9, <1>10, <1>11, <1>13, <1>14, <1>15 DEF BudInv

\* The invariant, after an operation on the flash.
LEMMA FlushKeepsInv ==
  ASSUME OtaInv, NEW b \in Bud, Flushes(b)
  PROVE  OtaInv'
<1>0. /\ ram = [a \in Bud |-> ram[a]] /\ flash = [a \in Bud |-> flash[a]]
      /\ pend = [a \in Bud |-> pend[a]] /\ Shaped
  BY InvOf DEF Shaped
<1>1. /\ pend[b] # <<>>
      /\ flash' = [flash EXCEPT ![b] = Apply(Head(pend[b]), @)]
      /\ pend' = [pend EXCEPT ![b] = Tail(@)]
      /\ UNCHANGED <<ram, inbox, tws, toMaster, toSlave, link, answer, twsStep, phone>>
  BY DEF Flushes, FlushStep, worldVars
<1>2. FlushFrame(b)
  <2>1. flash'[b] = Apply(Head(pend[b]), flash[b]) /\ pend'[b] = Tail(pend[b])
    BY <1>0, <1>1
  <2>2. \A a \in Bud : a # b => flash'[a] = flash[a] /\ pend'[a] = pend[a]
    BY <1>0, <1>1
  <2>3. ~AtRest
    BY <1>1 DEF AtRest
  <2> QED
    BY <1>1, <2>1, <2>2, <2>3 DEF FlushFrame
<1>3. BudInv(b)' /\ ShapedBud(b)'
  BY <1>2, FlushOwnInv
<1>4. ASSUME NEW a \in Bud, a # b PROVE BudInv(a)' /\ ShapedBud(a)' /\ (Intact(a) => Intact(a)')
  <2>1. flash'[a] = flash[a] /\ pend'[a] = pend[a] /\ ~AtRest
    BY <1>2, <1>4 DEF FlushFrame
  <2>2. Keeps(a)
    BY <1>1, <2>1, KeepsNone DEF Keeps, WillHear
  <2>3. ShapedBud(a)
    BY <1>0 DEF Shaped
  <2>4. ShapedBud(a)'
    <3>1. /\ RamFits(ram'[a]) /\ FlashFits(flash'[a]) /\ OpsIn(pend'[a], OpKind)
          /\ IsSeq(inbox'[a]) /\ PacketsFit(inbox'[a])
      BY <1>1, <2>1, <2>3 DEF ShapedBud
    <3> QED
      BY <3>1
         DEF ShapedBud, RamFits, IsRam, FlashFits, IsFlash, OpsIn, IsOp, IsSeq, PacketsFit
  <2> QED
    BY <2>2, <2>4, KeepsInv, KeepsIntact
<1>5. Intact(b) => Intact(b)'
  <2>1. IntactIn(flash[b], ram[b].img, pend[b]) => IntactIn(flash'[b], ram[b].img, pend'[b])
    BY <1>2, FlushIntact
  <2> QED
    BY <1>1, <2>1 DEF Intact, IntactIn, LeavesArea, Whole
<1>6. \A a \in Bud : BudInv(a)' /\ ShapedBud(a)' /\ (Intact(a) => Intact(a)')
  BY <1>3, <1>4, <1>5
<1>7. Shaped'
  <2>1. /\ ram' = [a \in Bud |-> ram'[a]] /\ inbox' = [a \in Bud |-> inbox'[a]]
        /\ twsStep' = [a \in Bud |-> twsStep'[a]]
        /\ IsTws(tws') /\ IsPhone(phone') /\ IsSeq(toMaster') /\ IsSeq(toSlave')
    BY <1>0, <1>1 DEF Shaped, IsTws, IsPhone
  <2>2. /\ flash' = [a \in Bud |-> flash'[a]] /\ pend' = [a \in Bud |-> pend'[a]]
    BY <1>0, <1>1
  <2> QED
    BY <1>6, <2>1, <2>2 DEF Shaped, IsTws, IsPhone, IsSeq
<1>8. "master" \in Bud /\ "slave" \in Bud
  BY DEF Bud
<1>9. HandlesInOrder' /\ Resumed'
  BY <1>1 DEF OtaInv, HandlesInOrder, Resumed
<1>10. InStep'
  BY <1>1, <1>6, <1>8, InStepKept
<1>11. Begun' = Begun /\ ApplyTold' = ApplyTold /\ AppliedTold' = AppliedTold
  BY <1>1 DEF Begun, ApplyTold, AppliedTold, ToldIn
<1>12. MasterApplies' /\ SlaveApplies'
  <2>1. MasterIsTold' => MasterIsTold
    BY <1>1, <1>11 DEF MasterIsTold, Has, HasIn
  <2>2. SlaveIsTold' => SlaveIsTold
    BY <1>1, <1>11 DEF SlaveIsTold, HasIn
  <2> QED
    BY <1>1, <1>6, <1>8, <2>1, <2>2 DEF OtaInv, MasterApplies, SlaveApplies, NotBack, Seen
<1> QED
  BY <1>6, <1>7, <1>9, <1>10, <1>12 DEF OtaInv

-----------------------------------------------------------------------------
(***************************************************************************)
(* A bud restarts.                                                         *)
(***************************************************************************)
\* What a power loss leaves of the flash.
LEMMA TornIs ==
  ASSUME NEW f, FlashFits(f), NEW o, IsOp(o, OpKind)
  PROVE  /\ FlashFits(Torn(o, f)) /\ Torn(o, f).boot = f.boot
         /\ o.op \notin AreaOp => Torn(o, f) = f
<1>0. IsFlash(f) /\ f.log \in [1..LogLen -> Int]
  BY DEF FlashFits
<1>1. CASE o.op = "erase"
  BY <1>0, <1>1 DEF Torn, FlashFits, IsFlash, AreaOp
<1>2. CASE o.op = "program"
  BY <1>0, <1>2 DEF Torn, FlashFits, IsFlash, AreaOp
<1>3. CASE o.op = "mark"
  BY <1>0, <1>3 DEF Torn, FlashFits, IsFlash, AreaOp
<1>4. CASE o.op \notin AreaOp
  BY <1>4 DEF Torn, AreaOp
<1> QED
  BY <1>1, <1>2, <1>3, <1>4 DEF AreaOp

\* The flash a bud starts from.
Left(b, f) ==
  f = flash[b] \/ (pend[b] # <<>> /\ f = Torn(Head(pend[b]), flash[b]))

RestartFrame(b) == \E f : Left(b, f) /\ Restart(b, f)

\* The bud that restarts, and the other.
LEMMA RestartIs ==
  ASSUME OtaInv, NEW b \in Bud, RestartFrame(b)
  PROVE  /\ ram'[b] = ColdRam /\ pend'[b] = <<>> /\ inbox'[b] = <<>> /\ twsStep'[b] = "none"
         /\ FlashFits(flash'[b]) /\ flash'[b].boot \notin Image
         /\ \A a \in Bud : a # b => /\ ram'[a] = ram[a] /\ pend'[a] = pend[a]
                                    /\ inbox'[a] = inbox[a] /\ flash'[a] = flash[a]
                                    /\ twsStep'[a] = twsStep[a]
         /\ ram' = [a \in Bud |-> ram'[a]] /\ pend' = [a \in Bud |-> pend'[a]]
         /\ inbox' = [a \in Bud |-> inbox'[a]] /\ flash' = [a \in Bud |-> flash'[a]]
         /\ twsStep' = [a \in Bud |-> twsStep'[a]]
         /\ link' = FALSE
<1>0. /\ ram = [a \in Bud |-> ram[a]] /\ pend = [a \in Bud |-> pend[a]]
      /\ inbox = [a \in Bud |-> inbox[a]] /\ flash = [a \in Bud |-> flash[a]]
      /\ twsStep = [a \in Bud |-> twsStep[a]]
      /\ FlashFits(flash[b]) /\ OpsIn(pend[b], OpKind) /\ BootIsWhole(b)
  BY InvOf, BudInvOf DEF Shaped
<1>1. PICK f : Left(b, f) /\ Restart(b, f)
  BY DEF RestartFrame
<1> DEFINE g == IF ToCopy(f) THEN [f EXCEPT !.boot = "normal"] ELSE f
<1>2. /\ flash' = [flash EXCEPT ![b] = g]
      /\ pend' = [pend EXCEPT ![b] = <<>>] /\ ram' = [ram EXCEPT ![b] = ColdRam]
      /\ inbox' = [inbox EXCEPT ![b] = <<>>] /\ twsStep' = [twsStep EXCEPT ![b] = "none"]
      /\ link' = FALSE
  BY <1>1 DEF Restart, WaitsFor
<1>3. /\ FlashFits(f) /\ f.boot = flash[b].boot
      /\ LeavesArea(pend[b]) => f = flash[b]
  <2>1. CASE f = flash[b]
    BY <1>0, <2>1
  <2>2. CASE pend[b] # <<>> /\ f = Torn(Head(pend[b]), flash[b])
    <3>1. /\ IsOp(Head(pend[b]), OpKind)
          /\ LeavesArea(pend[b]) => Head(pend[b]).op \notin AreaOp
      BY <1>0, <2>2, OpsTail
    <3> QED
      BY <1>0, <2>2, <3>1, TornIs
  <2> QED
    BY <1>1, <2>1, <2>2 DEF Left
<1>4. g.boot \notin Image
  <2>1. CASE ToCopy(f)
    BY <1>3, <2>1, OtaFlashAssumption DEF FlashFits, IsFlash
  <2>2. CASE ~ToCopy(f)
    <3> SUFFICES ASSUME f.boot \in Image PROVE FALSE
      BY <2>2
    <3>1. flash[b].magic /\ f = flash[b]
      BY <1>0, <1>3 DEF BootIsWhole, IntactIn
    <3> QED
      BY <2>2, <3>1 DEF ToCopy
  <2> QED
    BY <2>1, <2>2
<1>5. FlashFits(g)
  <2>1. IsFlash([f EXCEPT !.boot = "normal"]) /\ [f EXCEPT !.boot = "normal"].log = f.log
    BY <1>3 DEF FlashFits, IsFlash
  <2> QED
    BY <1>3, <2>1 DEF FlashFits
<1> HIDE DEF g
<1>6. flash'[b] = g /\ \A a \in Bud : a # b => flash'[a] = flash[a]
  BY <1>0, <1>2
<1>7. flash' = [a \in Bud |-> flash'[a]]
  BY <1>0, <1>2
<1>8. pend'[b] = <<>> /\ (\A a \in Bud : a # b => pend'[a] = pend[a]) /\ pend' = [a \in Bud |-> pend'[a]]
  BY <1>0, <1>2
<1>9. ram'[b] = ColdRam /\ (\A a \in Bud : a # b => ram'[a] = ram[a]) /\ ram' = [a \in Bud |-> ram'[a]]
  BY <1>0, <1>2
<1>10. /\ inbox'[b] = <<>> /\ (\A a \in Bud : a # b => inbox'[a] = inbox[a])
       /\ inbox' = [a \in Bud |-> inbox'[a]]
  BY <1>0, <1>2
<1>11. /\ twsStep'[b] = "none" /\ (\A a \in Bud : a # b => twsStep'[a] = twsStep[a])
       /\ twsStep' = [a \in Bud |-> twsStep'[a]]
  BY <1>0, <1>2
<1> QED
  BY <1>2, <1>4, <1>5, <1>6, <1>7, <1>8, <1>9, <1>10, <1>11

\* The queues between the buds, and the phone.
LEMMA RestartQueues ==
  ASSUME OtaInv, NEW b \in Bud, RestartFrame(b)
  PROVE  /\ b = "master" =>
              /\ tws' = NotReady /\ toMaster' = <<>> /\ toSlave' = InHand("slave", toSlave)
              /\ IsPhone(phone') /\ phone'.at \in {"idle", "done"}
         /\ b = "slave" =>
              /\ toMaster' = InHand("master", toMaster) /\ toSlave' = <<>>
              /\ UNCHANGED <<tws, answer, phone>>
<1>1. IsPhone(phone)
  BY InvOf DEF Shaped
<1>2. PICK f : Restart(b, f)
  BY DEF RestartFrame
<1>3. CASE b = "master"
  <2>1. /\ tws' = NotReady /\ toMaster' = <<>> /\ toSlave' = InHand("slave", toSlave)
        /\ phone' = IF phone.at = "done" THEN phone ELSE [phone EXCEPT !.at = "idle"]
    BY <1>2, <1>3 DEF Restart
  <2>2. IsPhone(phone') /\ phone'.at \in {"idle", "done"}
    <3>1. CASE phone.at = "done"
      BY <1>1, <2>1, <3>1
    <3>2. CASE phone.at # "done"
      <4>1. phone' = [phone EXCEPT !.at = "idle"]
        BY <2>1, <3>2
      <4> QED
        BY <1>1, <4>1 DEF IsPhone
    <3> QED
      BY <3>1, <3>2
  <2> QED
    BY <1>3, <2>1, <2>2
<1>4. CASE b = "slave"
  BY <1>2, <1>4 DEF Restart
<1> QED
  BY <1>3, <1>4 DEF Bud

\* The message in hand.
LEMMA InHandIs ==
  ASSUME NEW c, NEW q
  PROVE  /\ IsSeq(InHand(c, q))
         /\ twsStep[c] # "none" =>
              InHand(c, q) = <<Head(q)>> /\ InHand(c, q) # <<>> /\ Head(InHand(c, q)) = Head(q)
         /\ twsStep[c] = "none" => InHand(c, q) = <<>>
         /\ \A type : HasIn(InHand(c, q), type) => twsStep[c] # "none" /\ Head(q).type = type
         /\ \A p : ToldIn(InHand(c, q), Head(q).type = "apply", p) => FALSE
<1>1. PICK e : e = Head(q)
  OBVIOUS
<1>2. IsSeq(<<e>>) /\ IsSeq(<<>>) /\ DOMAIN <<e>> = {1} /\ <<e>>[1] = e /\ DOMAIN <<>> = {}
  BY Single
<1>3. <<e>> # <<>> /\ Head(<<e>>) = e
  OBVIOUS
<1>4. InHand(c, q) = IF twsStep[c] # "none" THEN <<e>> ELSE <<>>
  BY <1>1 DEF InHand
<1>5. \A type : HasIn(InHand(c, q), type) => twsStep[c] # "none" /\ e.type = type
  BY <1>2, <1>4 DEF HasIn
<1>6. \A p : ToldIn(InHand(c, q), e.type = "apply", p) => FALSE
  BY <1>2, <1>4 DEF ToldIn
<1> QED
  BY <1>1, <1>2, <1>3, <1>4, <1>5, <1>6

\* A restart keeps the invariant of both buds,
LEMMA RestartBuds ==
  ASSUME OtaInv, NEW b \in Bud, RestartFrame(b)
  PROVE  /\ \A a \in Bud : BudInv(a)' /\ ShapedBud(a)'
         /\ \A a \in Bud : a # b => Keeps(a)
<1>0. /\ ram'[b] = ColdRam /\ pend'[b] = <<>> /\ inbox'[b] = <<>> /\ twsStep'[b] = "none"
      /\ FlashFits(flash'[b]) /\ flash'[b].boot \notin Image
      /\ \A a \in Bud : a # b => /\ ram'[a] = ram[a] /\ pend'[a] = pend[a]
                                 /\ inbox'[a] = inbox[a] /\ flash'[a] = flash[a]
                                 /\ twsStep'[a] = twsStep[a]
  BY RestartIs
<1>1. ColdRam.stage = "idle" /\ ~ColdRam.pending /\ RamFits(ColdRam)
  BY DEF ColdRam, RamFits, IsRam
<1>2. DOMAIN <<>> = {} /\ IsSeq(<<>>)
  BY Single
<1>3. Staged(b)' /\ Ordered(b)' /\ AtMost(b)'
  BY <1>0, <1>1, <1>2 DEF Staged, Ordered, OrderedIn, AtMost, RanksTo
<1>4. VerifiedIsWhole(b)' /\ BootIsWhole(b)' /\ NamesTheVerified(b)'
  BY <1>0, <1>1, <1>2 DEF VerifiedIsWhole, BootIsWhole, NamesTheVerified
<1>5. StartsFirst(b)' /\ ConfigFirst(b)' /\ ConfigResets(b)' /\ Started(b)' /\ Configured(b)'
  BY <1>0, <1>1 DEF StartsFirst, ConfigFirst, ConfigResets, Started, Configured
<1>6. BudInv(b)'
  BY <1>3, <1>4, <1>5 DEF BudInv
<1>7. ShapedBud(b)'
  <2>1. RamFits(ram'[b]) /\ FlashFits(flash'[b]) /\ OpsIn(pend'[b], OpKind)
        /\ IsSeq(inbox'[b]) /\ PacketsFit(inbox'[b])
    BY <1>0, <1>1, <1>2 DEF OpsIn, PacketsFit
  <2> QED
    BY <2>1 DEF ShapedBud, RamFits, IsRam, FlashFits, IsFlash, OpsIn, IsOp, IsSeq, PacketsFit
<1>8. ASSUME NEW a \in Bud, a # b PROVE Keeps(a) /\ BudInv(a)' /\ ShapedBud(a)'
  <2>1. /\ ram'[a] = ram[a] /\ pend'[a] = pend[a]
        /\ inbox'[a] = inbox[a] /\ flash'[a] = flash[a] /\ twsStep'[a] = twsStep[a]
    BY <1>0, <1>8
  <2>2. (phone' = phone /\ (WillHear(a)' => WillHear(a))) \/ phone'.at \in {"idle", "done"}
    BY <1>8, RestartQueues DEF Bud, WillHear
  <2>3. Keeps(a)
    BY <2>1, <2>2, KeepsNone DEF Keeps
  <2>4. ShapedBud(a)
    BY InvOf DEF Shaped
  <2>5. ShapedBud(a)'
    <3>1. /\ RamFits(ram'[a]) /\ FlashFits(flash'[a]) /\ OpsIn(pend'[a], OpKind)
          /\ IsSeq(inbox'[a]) /\ PacketsFit(inbox'[a])
      BY <2>1, <2>4 DEF ShapedBud
    <3> QED
      BY <3>1
         DEF ShapedBud, RamFits, IsRam, FlashFits, IsFlash, OpsIn, IsOp, IsSeq, PacketsFit
  <2> QED
    BY <2>3, <2>5, KeepsInv
<1> QED
  BY <1>6, <1>7, <1>8

\* The invariant, after a restart.
LEMMA RestartKeepsInv ==
  ASSUME OtaInv, NEW b \in Bud, RestartFrame(b)
  PROVE  OtaInv'
<1> DEFINE m == "master"
           s == "slave"
<1>0. /\ m \in Bud /\ s \in Bud /\ m # s /\ IsSeq(toMaster) /\ IsSeq(toSlave) /\ HandlesInOrder
      /\ Shaped /\ Resumed /\ MasterApplies /\ SlaveApplies /\ b \in {m, s}
  <2>1. m \in Bud /\ s \in Bud /\ b \in {m, s}
    BY DEF Bud
  <2> QED
    BY <2>1, InvOf DEF OtaInv
<1>1. /\ ram'[b] = ColdRam /\ inbox'[b] = <<>> /\ twsStep'[b] = "none"
      /\ \A a \in Bud : a # b => /\ ram'[a] = ram[a] /\ pend'[a] = pend[a]
                                 /\ inbox'[a] = inbox[a] /\ flash'[a] = flash[a]
                                 /\ twsStep'[a] = twsStep[a]
      /\ ram' = [a \in Bud |-> ram'[a]] /\ pend' = [a \in Bud |-> pend'[a]]
      /\ inbox' = [a \in Bud |-> inbox'[a]] /\ flash' = [a \in Bud |-> flash'[a]]
      /\ twsStep' = [a \in Bud |-> twsStep'[a]]
      /\ link' = FALSE
  BY RestartIs
<1>2. /\ b = m => /\ tws' = NotReady /\ toMaster' = <<>> /\ toSlave' = InHand(s, toSlave)
                  /\ IsPhone(phone') /\ phone'.at \in {"idle", "done"}
      /\ b = s => /\ toMaster' = InHand(m, toMaster) /\ toSlave' = <<>>
                  /\ UNCHANGED <<tws, answer, phone>>
  BY RestartQueues
<1>3. /\ \A a \in Bud : BudInv(a)' /\ ShapedBud(a)'
      /\ \A a \in Bud : a # b => (Intact(a) => Intact(a)')
  BY RestartBuds, KeepsIntact
<1>4. Shaped'
  <2>1. IsTws(tws') /\ IsPhone(phone')
    <3>1. IsTws(tws) /\ IsPhone(phone)
      BY <1>0 DEF Shaped
    <3>2. IsTws(NotReady)
      BY DEF IsTws, NotReady
    <3> QED
      BY <1>0, <1>2, <3>1, <3>2
  <2>2. IsSeq(toMaster') /\ IsSeq(toSlave')
    BY <1>0, <1>2, InHandIs, Single
  <2> QED
    BY <1>1, <1>3, <2>1, <2>2 DEF Shaped, IsTws, IsPhone, IsSeq
<1>5. HandlesInOrder'
  <2>1. CASE b = m
    <3>1. twsStep'[m] = "none" /\ twsStep'[s] = twsStep[s]
      BY <1>0, <1>1, <2>1
    <3>2. twsStep[s] # "none" => Head(toSlave).type = twsStep[s]
      BY <1>0 DEF HandlesInOrder
    <3>3. twsStep[s] # "none" => toSlave' # <<>> /\ Head(toSlave') = Head(toSlave)
      BY <1>2, <2>1, InHandIs
    <3> QED
      BY <3>1, <3>2, <3>3 DEF HandlesInOrder
  <2>2. CASE b = s
    <3>1. twsStep'[s] = "none" /\ twsStep'[m] = twsStep[m]
      BY <1>0, <1>1, <2>2
    <3>2. twsStep[m] # "none" => Head(toMaster).type = twsStep[m]
      BY <1>0 DEF HandlesInOrder
    <3>3. twsStep[m] # "none" => toMaster' # <<>> /\ Head(toMaster') = Head(toMaster)
      BY <1>2, <2>2, InHandIs
    <3> QED
      BY <3>1, <3>2, <3>3 DEF HandlesInOrder
  <2> QED
    BY <1>0, <2>1, <2>2
<1>6. Resumed'
  <2>1. CASE b = m
    <3>1. tws'.type # "resume" /\ phone'.at # "resume"
      BY <1>2, <2>1 DEF NotReady
    <3> QED
      BY <3>1 DEF Resumed
  <2>2. CASE b = s
    <3>1. UNCHANGED <<tws, answer, phone>> /\ ram'[m] = ram[m] /\ ~ram'[s].pending
      BY <1>0, <1>1, <1>2, <2>2 DEF ColdRam
    <3> QED
      BY <1>0, <3>1 DEF Resumed
  <2> QED
    BY <1>0, <2>1, <2>2
<1>7. InStep'
  <2>1. CASE b = m
    BY <1>2, <2>1 DEF InStep
  <2>2. CASE b = s
    <3>1. /\ UNCHANGED <<tws, answer, phone>> /\ ram'[m] = ram[m] /\ inbox'[m] = inbox[m]
          /\ Intact(m) => Intact(m)'
      BY <1>0, <1>1, <1>2, <1>3, <2>2
    <3> QED
      BY <3>1, InStepKept
  <2> QED
    BY <1>0, <2>1, <2>2
<1>8. CASE b = m
  <2>1. /\ toMaster' = <<>> /\ twsStep'[m] = "none" /\ link' = FALSE
        /\ phone'.at \in {"idle", "done"} /\ twsStep'[s] = twsStep[s] /\ inbox'[s] = inbox[s]
        /\ toSlave' = InHand(s, toSlave)
    BY <1>0, <1>1, <1>2, <1>8
  <2>2. ~ApplyTold' /\ ~AppliedTold'
    <3>1. PICK g : g = Begun'
      OBVIOUS
    <3>2. ~ToldIn(<<>>, g, TRUE) /\ ~ToldIn(<<>>, g, FALSE)
      BY ToldNone
    <3> QED
      BY <2>1, <3>1, <3>2 DEF ApplyTold, AppliedTold
  <2>3. ~MasterIsTold'
    BY <2>1, <2>2 DEF MasterIsTold, Begun
  <2>4. SlaveIsTold' => SlaveIsTold
    <3>1. HasIn(toSlave', "apply") => twsStep[s] # "none" /\ Head(toSlave).type = "apply"
      BY <2>1, InHandIs
    <3>2. HasIn(toSlave', "apply") => twsStep[s] = "apply"
      BY <1>0, <3>1 DEF HandlesInOrder
    <3> QED
      BY <2>1, <2>2, <3>2 DEF SlaveIsTold
  <2>5. Intact(s) => Intact(s)'
    BY <1>0, <1>3, <1>8
  <2>6. MasterApplies'
    BY <2>3 DEF MasterApplies
  <2>7. SlaveApplies'
    BY <1>0, <2>1, <2>4, <2>5 DEF SlaveApplies, NotBack
  <2> QED
    BY <1>3, <1>4, <1>5, <1>6, <1>7, <2>6, <2>7 DEF OtaInv
<1>9. CASE b = s
  <2>1. /\ toMaster' = InHand(m, toMaster) /\ toSlave' = <<>> /\ phone' = phone
        /\ twsStep'[s] = "none" /\ twsStep'[m] = twsStep[m] /\ link' = FALSE
        /\ inbox'[m] = inbox[m] /\ ram'[m] = ram[m]
    BY <1>0, <1>1, <1>2, <1>9
  <2>2. ASSUME NEW p, ToldIn(toMaster', Begun', p) PROVE FALSE
    <3>1. PICK g : g = Begun'
      OBVIOUS
    <3>2. ToldIn(InHand(m, toMaster), g, p)
      BY <2>1, <2>2, <3>1
    <3>3. HasIn(InHand(m, toMaster), "apply")
      BY <3>2 DEF ToldIn, HasIn
    <3>4. Head(toMaster).type = "apply" /\ twsStep[m] # "none"
      BY <3>3, InHandIs
    <3>5. twsStep[m] = "apply"
      BY <1>0, <3>4 DEF HandlesInOrder
    <3>6. g = TRUE
      BY <2>1, <3>1, <3>5 DEF Begun
    <3>7. InHand(m, toMaster) = <<Head(toMaster)>>
      BY <3>4, InHandIs
    <3>8. DOMAIN InHand(m, toMaster) = {1}
      BY <3>7, Single
    <3> QED
      BY <3>2, <3>6, <3>8 DEF ToldIn
  <2>3. ~ApplyTold' /\ ~AppliedTold'
    BY <2>2 DEF ApplyTold, AppliedTold
  <2>4. MasterIsTold' => MasterIsTold
    BY <2>1, <2>3 DEF MasterIsTold, Begun
  <2>5. ~HasIn(<<>>, "apply")
    BY HasNone
  <2>6. ~SlaveIsTold'
    BY <2>1, <2>3, <2>5 DEF SlaveIsTold
  <2>7. Intact(m) => Intact(m)'
    BY <1>0, <1>3, <1>9
  <2>8. MasterApplies'
    BY <1>0, <2>1, <2>4, <2>7 DEF MasterApplies, NotBack, Seen
  <2>9. SlaveApplies'
    BY <2>6 DEF SlaveApplies
  <2> QED
    BY <1>3, <1>4, <1>5, <1>6, <1>7, <2>8, <2>9 DEF OtaInv
<1> QED
  BY <1>0, <1>8, <1>9

\* A reset or a loss of power keeps the invariant.
LEMMA RestartsKeepInv ==
  ASSUME OtaInv, NEW b \in Bud, PostponedReset(b) \/ PowerLoss(b)
  PROVE  OtaInv'
<1>1. RestartFrame(b)
  BY DEF PostponedReset, PowerLoss, RestartFrame, Left
<1> QED
  BY <1>1, RestartKeepsInv

-----------------------------------------------------------------------------
\* The buds find each other again.
LEMMA ReconnectKeepsInv ==
  ASSUME OtaInv, Reconnect
  PROVE  OtaInv'
<1> DEFINE m == "master"
           s == "slave"
<1>1. /\ UNCHANGED <<flash, pend, ram, inbox, tws, toMaster, answer, toSlave, twsStep, phone>>
      /\ AtRest /\ phone.at # "next"
  BY DEF Reconnect, worldVars
<1>2. m \in Bud /\ s \in Bud
  BY DEF Bud
<1>3. \A b \in Bud : Keeps(b)
  <2> SUFFICES ASSUME NEW b \in Bud PROVE Keeps(b)
    OBVIOUS
  <2>1. AtRest'
    BY <1>1 DEF AtRest
  <2>2. WillHear(b)' => WillHear(b)
    BY <1>1, <2>1 DEF WillHear
  <2> QED
    BY <1>1, <2>2, KeepsNone DEF Keeps
<1>4. \A b \in Bud : BudInv(b)' /\ (Intact(b) => Intact(b)')
  BY <1>3, KeepsInv, KeepsIntact
<1>5. Shaped'
  <2>1. Shaped
    BY DEF OtaInv
  <2>2. \A b \in Bud : ShapedBud(b)'
    <3> SUFFICES ASSUME NEW b \in Bud PROVE ShapedBud(b)'
      OBVIOUS
    <3>1. /\ RamFits(ram'[b]) /\ FlashFits(flash'[b]) /\ OpsIn(pend'[b], OpKind)
          /\ IsSeq(inbox'[b]) /\ PacketsFit(inbox'[b])
      BY <1>1, <2>1 DEF Shaped, ShapedBud
    <3> QED
      BY <3>1
         DEF ShapedBud, RamFits, IsRam, FlashFits, IsFlash, OpsIn, IsOp, IsSeq, PacketsFit
  <2>3. /\ ram' = [b \in Bud |-> ram'[b]] /\ flash' = [b \in Bud |-> flash'[b]]
        /\ pend' = [b \in Bud |-> pend'[b]] /\ inbox' = [b \in Bud |-> inbox'[b]]
        /\ twsStep' = [b \in Bud |-> twsStep'[b]]
        /\ IsTws(tws') /\ IsPhone(phone') /\ IsSeq(toMaster') /\ IsSeq(toSlave')
    BY <1>1, <2>1 DEF Shaped
  <2> QED
    BY <2>2, <2>3 DEF Shaped, IsTws, IsPhone, IsSeq
<1>6. HandlesInOrder' /\ Resumed'
  BY <1>1 DEF OtaInv, HandlesInOrder, Resumed
<1>7. InStep'
  BY <1>1, <1>2, <1>4, InStepKept
<1>8. Begun' = Begun /\ ApplyTold' = ApplyTold /\ AppliedTold' = AppliedTold
  BY <1>1 DEF Begun, ApplyTold, AppliedTold, ToldIn
<1>9. MasterIsTold' => MasterIsTold
  <2>1. ~Has(s, "apply")'
    <3>1. inbox'[s] = <<>>
      BY <1>1, <1>2 DEF AtRest
    <3> QED
      BY <3>1, HasNone DEF Has
  <2> QED
    BY <1>1, <1>8, <2>1 DEF MasterIsTold
<1>10. SlaveIsTold' => SlaveIsTold
  BY <1>1, <1>8 DEF SlaveIsTold, HasIn
<1>11. MasterApplies' /\ SlaveApplies'
  BY <1>1, <1>2, <1>4, <1>9, <1>10 DEF OtaInv, MasterApplies, SlaveApplies, NotBack, Seen
<1> QED
  BY <1>4, <1>5, <1>6, <1>7, <1>11 DEF OtaInv

-----------------------------------------------------------------------------
(***************************************************************************)
(* The phone.                                                              *)
(***************************************************************************)
PhoneFrame ==
  /\ UNCHANGED <<flash, pend, ram, tws, toMaster, link, toSlave, twsStep>>
  /\ answer'.kind = "none" /\ IsPhone(phone')

\* The phone moves.
LEMMA MovesIs ==
  ASSUME OtaInv, NEW p, IsPhone(p), Moves(p)
  PROVE  PhoneFrame /\ phone' = p
BY DEF Moves, PhoneFrame, NoAnswer

\* The phone after it has moved.
LEMMA MovedIs ==
  ASSUME OtaInv, NEW at, NEW done, NEW pos, NEW code
  PROVE  /\ IsPhone([phone EXCEPT !.at = at])
         /\ [phone EXCEPT !.at = at].at = at
         /\ IsPhone([phone EXCEPT !.at = at, !.done = done, !.pos = pos])
         /\ [phone EXCEPT !.at = at, !.done = done, !.pos = pos].at = at
         /\ IsPhone([phone EXCEPT !.at = at, !.code = code])
         /\ [phone EXCEPT !.at = at, !.code = code].at = at
         /\ IsPhone([phone EXCEPT !.at = at, !.pos = pos])
         /\ [phone EXCEPT !.at = at, !.pos = pos].at = at
<1>1. IsPhone(phone)
  BY DEF OtaInv, Shaped
<1> QED
  BY <1>1 DEF IsPhone

\* What a bud has when the phone has sent a packet.
Gets(b) == b = "master" \/ link

\* What a packet adds to the inboxes it reaches.
LEMMA SentIs ==
  ASSUME OtaInv, NEW p, p.type \in PacketType, Sends(p), NEW b \in Bud
  PROVE  /\ inbox'[b] = IF Gets(b) THEN Append(inbox[b], p) ELSE inbox[b]
         /\ IsSeq(inbox'[b]) /\ PacketsFit(inbox'[b])
         /\ \A type : HasIn(inbox[b], type) => HasIn(inbox'[b], type)
         /\ \A type : HasIn(inbox'[b], type) => HasIn(inbox[b], type) \/ p.type = type
         /\ Gets(b) => HasIn(inbox'[b], p.type)
         /\ \A seen : ToDoIn(inbox'[b], seen) =>
              ToDoIn(inbox[b], seen) \/ (p.type \in Writers /\ Gets(b))
         /\ inbox[b] # <<>> => inbox'[b] # <<>> /\ Head(inbox'[b]) = Head(inbox[b])
<1>1. PICK q : q = inbox[b]
  OBVIOUS
<1>2. IsSeq(q) /\ PacketsFit(q)
  BY <1>1, InvOf
<1>3. inbox'[b] = IF Gets(b) THEN Append(q, p) ELSE q
  BY <1>1 DEF Sends, Gets
<1>4. /\ IsSeq(Append(q, p))
      /\ \A i \in DOMAIN q : Append(q, p)[i] = q[i]
      /\ Append(q, p)[Len(q) + 1] = p
      /\ DOMAIN Append(q, p) = DOMAIN q \cup {Len(q) + 1}
  BY <1>2, Appended
<1>5. PacketsFit(Append(q, p))
  BY <1>2, <1>4 DEF PacketsFit
<1>6. \A type : HasIn(Append(q, p), type) <=> HasIn(q, type) \/ p.type = type
  BY <1>2, HasAppend
<1>7. \A seen : ToDoIn(Append(q, p), seen) => ToDoIn(q, seen) \/ p.type \in Writers
  BY <1>2, ToDoAppend
<1>8. q # <<>> => Append(q, p) # <<>> /\ Head(Append(q, p)) = Head(q)
  BY <1>2, AppendKeepsHead
<1>9. CASE Gets(b)
  <2>1. inbox'[b] = Append(q, p)
    BY <1>3, <1>9
  <2> QED
    BY <1>1, <1>4, <1>5, <1>6, <1>7, <1>8, <1>9, <2>1
<1>10. CASE ~Gets(b)
  <2>1. inbox'[b] = q
    BY <1>3, <1>10
  <2> QED
    BY <1>1, <1>2, <1>10, <2>1
<1> QED
  BY <1>9, <1>10

\* The packet comes after those a bud has.
Follows(b, p) ==
  \E n \in Int :
    /\ RanksTo(inbox[b], n)
    /\ n < Rank(p.type) \/ (n = 3 /\ Rank(p.type) = 3)

\* The buds have started and been configured when a packet that writes comes.
Prepared(b) ==
  /\ ram[b].pending => Has(b, "start")
  /\ flash[b].boot \in Image => Has(b, "config")

\* A packet that follows those before it, sent when its bud is prepared, keeps the bud's part.
LEMMA SentBudInv ==
  ASSUME OtaInv, NEW p, p.type \in PacketType, Sends(p), PhoneFrame, NEW b \in Bud,
         Follows(b, p), Rank(p.type) <= Rank(phone'.at),
         p.type \in Writers /\ Gets(b) => Prepared(b),
         Started(b)', Configured(b)'
  PROVE  BudInv(b)' /\ ShapedBud(b)'
<1>0. /\ UNCHANGED <<flash, pend, ram, twsStep>> /\ IsSeq(inbox[b])
      /\ Staged(b) /\ Ordered(b)
      /\ VerifiedIsWhole(b) /\ BootIsWhole(b) /\ NamesTheVerified(b)
      /\ StartsFirst(b) /\ ConfigFirst(b) /\ ConfigResets(b)
  BY InvOf, BudInvOf DEF PhoneFrame
<1>1. /\ inbox'[b] = IF Gets(b) THEN Append(inbox[b], p) ELSE inbox[b]
      /\ IsSeq(inbox'[b]) /\ PacketsFit(inbox'[b])
      /\ \A type : HasIn(inbox[b], type) => HasIn(inbox'[b], type)
      /\ \A seen : ToDoIn(inbox'[b], seen) =>
           ToDoIn(inbox[b], seen) \/ (p.type \in Writers /\ Gets(b))
      /\ inbox[b] # <<>> => inbox'[b] # <<>> /\ Head(inbox'[b]) = Head(inbox[b])
  BY SentIs
<1>2. Staged(b)'
  BY <1>0, <1>1 DEF Staged
<1>3. PICK q : q = inbox[b]
  OBVIOUS
<1>4. PICK n \in Int : /\ RanksTo(q, n)
                       /\ n < Rank(p.type) \/ (n = 3 /\ Rank(p.type) = 3)
  BY <1>3 DEF Follows
<1>5. Rank(p.type) \in Int /\ Rank(phone'.at) \in Int /\ \A i \in DOMAIN q : Rank(q[i].type) \in Int
  BY Ranks
<1>6. \A i \in DOMAIN q : Before(q[i], p)
  BY <1>4, <1>5 DEF RanksTo, Before
<1>7. OrderedIn(Append(q, p)) /\ OrderedIn(q)
  BY <1>0, <1>3, <1>6, OrderedAppend DEF Ordered
<1>8. Ordered(b)'
  BY <1>1, <1>3, <1>7 DEF Ordered
<1>9. AtMost(b)'
  <2>1. RanksTo(inbox'[b], Rank(phone'.at))
    <3>1. PICK k : k = Rank(phone'.at)
      OBVIOUS
    <3>2. RanksTo(Append(q, p), k) /\ n <= k
      BY <1>0, <1>3, <1>4, <1>5, <3>1, RanksAppend
    <3>3. RanksTo(q, k)
      BY <1>4, <1>5, <3>1, <3>2 DEF RanksTo
    <3> QED
      BY <1>1, <1>3, <3>1, <3>2, <3>3
  <2> QED
    BY <2>1 DEF AtMost
<1>10. VerifiedIsWhole(b)' /\ BootIsWhole(b)' /\ NamesTheVerified(b)' /\ ConfigResets(b)'
  BY <1>0 DEF VerifiedIsWhole, BootIsWhole, NamesTheVerified, ConfigResets, Intact, IntactIn,
              Whole, LeavesArea, Names, SetBoot
<1>11. ToDo(b)' => ToDo(b) \/ Prepared(b)
  BY <1>0, <1>1 DEF ToDo, Seen
<1>12. StartsFirst(b)' /\ ConfigFirst(b)'
  BY <1>0, <1>1, <1>11 DEF StartsFirst, ConfigFirst, Prepared, Has
<1>13. ShapedBud(b)'
  <2>1. ShapedBud(b)
    BY InvOf DEF Shaped
  <2>2. /\ RamFits(ram'[b]) /\ FlashFits(flash'[b]) /\ OpsIn(pend'[b], OpKind)
        /\ IsSeq(inbox'[b]) /\ PacketsFit(inbox'[b])
    BY <1>0, <1>1, <2>1 DEF ShapedBud
  <2> QED
    BY <2>2 DEF ShapedBud, RamFits, IsRam, FlashFits, IsFlash, OpsIn, IsOp, IsSeq, PacketsFit
<1> QED
  BY <1>2, <1>8, <1>9, <1>10, <1>12, <1>13 DEF BudInv

\* What a packet, or none, leaves as it was.
LEMMA PhoneRest ==
  ASSUME OtaInv, PhoneFrame, inbox' = [b \in Bud |-> inbox'[b]], \A b \in Bud : ShapedBud(b)'
  PROVE  Shaped' /\ HandlesInOrder' /\ (phone'.at # "resume" => Resumed')
<1>1. Shaped
  BY DEF OtaInv
<1>2. Shaped'
  <2>1. /\ ram' = [b \in Bud |-> ram'[b]] /\ flash' = [b \in Bud |-> flash'[b]]
        /\ pend' = [b \in Bud |-> pend'[b]] /\ twsStep' = [b \in Bud |-> twsStep'[b]]
        /\ IsTws(tws') /\ IsPhone(phone') /\ IsSeq(toMaster') /\ IsSeq(toSlave')
    BY <1>1 DEF Shaped, PhoneFrame
  <2> QED
    BY <2>1 DEF Shaped, IsTws, IsPhone, IsSeq
<1>3. HandlesInOrder'
  BY DEF OtaInv, HandlesInOrder, PhoneFrame
<1> QED
  BY <1>2, <1>3 DEF OtaInv, Resumed, PhoneFrame

\* Nothing is told of an apply before the phone asks for it.
LEMMA NothingTold ==
  ASSUME OtaInv, (Session /\ phone.at # "apply") \/ (AtRest /\ phone.at = "idle")
  PROVE  ~MasterIsTold /\ ~SlaveIsTold
<1>1. CASE Session /\ phone.at # "apply"
  BY <1>1 DEF OtaInv, MasterApplies, SlaveApplies, NotBack, Session
<1>2. CASE AtRest /\ phone.at = "idle"
  <2>1. /\ toMaster = <<>> /\ toSlave = <<>> /\ twsStep["master"] = "none"
        /\ twsStep["slave"] = "none" /\ inbox["slave"] = <<>>
    BY <1>2 DEF AtRest, Bud
  <2>2. ~ApplyTold /\ ~AppliedTold
    BY <2>1, ToldNone DEF ApplyTold, AppliedTold
  <2> QED
    BY <1>2, <2>1, <2>2, HasNone DEF MasterIsTold, SlaveIsTold, Begun, Has
<1> QED
  BY <1>1, <1>2

\* A step of the phone tells nobody to apply, but by the packet itself.
LEMMA ToldSame ==
  ASSUME PhoneFrame
  PROVE  /\ Begun' = Begun /\ ApplyTold' = ApplyTold /\ AppliedTold' = AppliedTold
         /\ SlaveIsTold' => SlaveIsTold
<1>1. Begun' = Begun /\ ApplyTold' = ApplyTold /\ AppliedTold' = AppliedTold
  BY DEF PhoneFrame, Begun, ApplyTold, AppliedTold, ToldIn
<1> QED
  BY <1>1 DEF PhoneFrame, SlaveIsTold, HasIn

\* Before the phone's apply nobody is told.
LEMMA StillNotTold ==
  ASSUME PhoneFrame, ~MasterIsTold, ~SlaveIsTold, phone'.at # "apply",
         Has("slave", "apply")' => Has("slave", "apply")
  PROVE  MasterApplies' /\ SlaveApplies'
<1>1. ~MasterIsTold'
  BY ToldSame DEF MasterIsTold, PhoneFrame
<1>2. ~SlaveIsTold'
  BY ToldSame
<1> QED
  BY <1>1, <1>2 DEF MasterApplies, SlaveApplies

\* A packet other than the apply.
LEMMA SentKeepsInv ==
  ASSUME OtaInv, NEW p, p.type \in PacketType \ {"apply"}, Sends(p), PhoneFrame,
         (Session /\ phone.at # "apply") \/ (AtRest /\ phone.at = "idle"),
         phone'.at # "apply", Rank(p.type) <= Rank(phone'.at),
         \A b \in Bud : /\ Follows(b, p)
                        /\ p.type \in Writers /\ Gets(b) => Prepared(b)
                        /\ Started(b)' /\ Configured(b)',
         phone'.at = "resume" => Resumed', InStep'
  PROVE  OtaInv'
<1>1. \A b \in Bud : BudInv(b)' /\ ShapedBud(b)'
  BY SentBudInv
<1>2. inbox' = [b \in Bud |-> inbox'[b]]
  <2> DEFINE F(b) == IF b = "master" \/ link THEN Append(inbox[b], p) ELSE inbox[b]
  <2>1. inbox' = [b \in Bud |-> F(b)]
    BY DEF Sends
  <2> HIDE DEF F
  <2> QED
    BY <2>1
<1>3. Shaped' /\ HandlesInOrder' /\ Resumed'
  BY <1>1, <1>2, PhoneRest
<1>4. Has("slave", "apply")' => Has("slave", "apply")
  <2>1. "slave" \in Bud
    BY DEF Bud
  <2> QED
    BY <2>1, SentIs DEF Has
<1>5. MasterApplies' /\ SlaveApplies'
  BY <1>4, NothingTold, StillNotTold
<1> QED
  BY <1>1, <1>3, <1>5 DEF OtaInv

\* A bud that will hear the next packet has heard this one.
LEMMA HearsOn ==
  ASSUME OtaInv, PhoneFrame, phone.at = "next" \/ ~AtRest, NEW b \in Bud, WillHear(b)'
  PROVE  WillHear(b) /\ Gets(b)
BY DEF WillHear, PhoneFrame, Gets, Bud

\* The phone hears what it waits for.
LEMMA HeardIs ==
  ASSUME NEW kind, kind # "none", Hears(kind)
  PROVE  answer.kind = kind /\ phone.at = kind /\ ~AtRest
<1>1. answer.kind # "none"
  BY DEF Hears
<1>2. NoAnswer.kind = "none"
  BY DEF NoAnswer
<1> QED
  BY <1>1, <1>2 DEF Hears, AtRest

\* The order of the packets, from the phone's.
LEMMA FollowsPhone ==
  ASSUME OtaInv, Session, NEW p,
         Rank(phone.at) < Rank(p.type) \/ (Rank(phone.at) = 3 /\ Rank(p.type) = 3)
  PROVE  \A b \in Bud : Follows(b, p)
<1>1. Rank(phone.at) \in Int
  BY Ranks
<1>2. \A b \in Bud : RanksTo(inbox[b], Rank(phone.at))
  BY BudInvOf DEF AtMost
<1> QED
  BY <1>1, <1>2 DEF Follows

\* The phone's steps, one by one: it asks for the break point,
LEMMA ResumesKeepInv ==
  ASSUME OtaInv, PhoneResumes
  PROVE  OtaInv'
<1> DEFINE p == [type |-> "resume", code |-> phone.code]
           q == [phone EXCEPT !.at = "resume", !.done = 0, !.pos = 0]
<1>1. phone.at = "idle" /\ AtRest /\ Sends(p) /\ Moves(q) /\ p.type = "resume"
  BY DEF PhoneResumes
<1> HIDE DEF p
<1>2. IsPhone(q) /\ q.at = "resume"
  <2>1. IsPhone(phone)
    BY DEF OtaInv, Shaped
  <2> QED
    BY <2>1 DEF IsPhone
<1> HIDE DEF q
<1>3. PhoneFrame /\ phone'.at = "resume"
  BY <1>1, <1>2, MovesIs
<1>4. \A b \in Bud : Follows(b, p)
  <2> SUFFICES ASSUME NEW b \in Bud PROVE Follows(b, p)
    OBVIOUS
  <2>1. DOMAIN inbox[b] = {}
    BY <1>1, Single DEF AtRest
  <2>2. RanksTo(inbox[b], -1)
    BY <2>1 DEF RanksTo
  <2>3. -1 < Rank(p.type)
    BY <1>1, Ranks
  <2> QED
    BY <2>2, <2>3 DEF Follows
<1>5. Rank(phone'.at) = 0 /\ Rank(p.type) = 0
  BY <1>1, <1>3, Ranks
<1>6. \A b \in Bud : Started(b)' /\ Configured(b)'
  BY <1>5 DEF Started, Configured
<1>7. p.type \notin Writers /\ p.type \in PacketType \ {"apply"}
  BY <1>1 DEF Writers, PacketType
<1>8. Resumed'
  <2>1. toMaster' = <<>> /\ answer'.kind = "none"
    BY <1>1, <1>3 DEF PhoneFrame, AtRest
  <2> QED
    BY <1>3, <2>1, Single DEF OtaInv, Resumed, PhoneFrame
<1>9. InStep'
  <2>1. StepResume'
    BY <1>3 DEF StepResume, PhoneFrame
  <2> QED
    BY <1>3, <2>1 DEF InStep
<1>10. Rank(p.type) <= Rank(phone'.at)
  BY <1>5
<1> QED
  BY <1>1, <1>3, <1>4, <1>6, <1>7, <1>8, <1>9, <1>10, SentKeepsInv

\* configures,
LEMMA ConfiguresKeepInv ==
  ASSUME OtaInv, PhoneConfigures
  PROVE  OtaInv'
<1> DEFINE q == [phone EXCEPT !.at = "config", !.done = answer.val, !.pos = answer.val]
<1>0. PICK p : p = Plain("config")
  OBVIOUS
<1>1. /\ Sends(p) /\ Moves(q) /\ p.type = "config"
      /\ \/ Hears("resume") /\ answer.val # 0
         \/ Hears("start")
  BY <1>0 DEF PhoneConfigures, Plain
<1>2. IsPhone(q) /\ q.at = "config"
  <2>1. IsPhone(phone)
    BY DEF OtaInv, Shaped
  <2> QED
    BY <2>1 DEF IsPhone
<1> HIDE DEF q
<1>3. PhoneFrame /\ phone'.at = "config"
  BY <1>1, <1>2, MovesIs
<1>4. /\ answer.kind = phone.at /\ ~AtRest
      /\ (phone.at = "resume" /\ answer.val # 0) \/ phone.at = "start"
  BY <1>1, HeardIs
<1>5. Rank(phone'.at) = 2 /\ Rank(p.type) = 2 /\ Rank(phone.at) < 2 /\ Session /\ phone.at # "apply"
  BY <1>1, <1>3, <1>4, Ranks DEF Session
<1>6. \A b \in Bud : Follows(b, p)
  BY <1>5, FollowsPhone
<1>7. p.type \notin Writers /\ p.type \in PacketType \ {"apply"} /\ p.type \in PacketType
  BY <1>1 DEF Writers, PacketType
<1>8. ASSUME NEW b \in Bud PROVE Started(b)' /\ Configured(b)'
  <2>1. WillHear(b)' => WillHear(b) /\ Gets(b)
    BY <1>3, <1>4, HearsOn
  <2>2. /\ HasIn(inbox[b], "start") => HasIn(inbox'[b], "start")
        /\ Gets(b) => HasIn(inbox'[b], "config")
    BY <1>1, <1>7, SentIs
  <2>3. Configured(b)'
    BY <2>1, <2>2 DEF Configured, Has
  <2>4. Started(b)'
    <3>1. CASE phone.at = "start"
      <4>1. Rank(phone.at) \in 1..3
        BY <3>1, Ranks
      <4>2. WillHear(b) /\ ram[b].pending => Has(b, "start")
        BY <1>5, <4>1, BudInvOf DEF Started
      <4> QED
        BY <1>3, <2>1, <2>2, <4>2 DEF Started, Has, PhoneFrame
    <3>2. CASE phone.at = "resume" /\ answer.val # 0
      <4>1. ~ram[b].pending
        BY <1>4, <3>2 DEF OtaInv, Resumed, Bud
      <4> QED
        BY <1>3, <4>1 DEF Started, PhoneFrame
    <3> QED
      BY <1>4, <3>1, <3>2
  <2> QED
    BY <2>3, <2>4
<1>9. InStep'
  <2>1. tws.type \in {"none", "resume", "start"}
    BY <1>4 DEF OtaInv, InStep, StepResume, StepStart
  <2>2. StepConfig'
    BY <1>3, <2>1 DEF StepConfig, PhoneFrame
  <2> QED
    BY <1>3, <2>2 DEF InStep
<1>10. Rank(p.type) <= Rank(phone'.at) /\ phone'.at # "resume" /\ phone'.at # "apply"
  BY <1>3, <1>5
<1> QED
  BY <1>1, <1>3, <1>5, <1>6, <1>7, <1>8, <1>9, <1>10, SentKeepsInv

\* starts,
LEMMA StartsKeepInv ==
  ASSUME OtaInv, PhoneStarts
  PROVE  OtaInv'
<1> DEFINE q == [phone EXCEPT !.at = "start", !.code = answer.code]
<1>0. PICK p : p = Plain("start")
  OBVIOUS
<1>1. Sends(p) /\ Moves(q) /\ p.type = "start" /\ Hears("resume")
  BY <1>0 DEF PhoneStarts, Plain
<1>2. IsPhone(q) /\ q.at = "start"
  BY MovedIs
<1> HIDE DEF q
<1>3. PhoneFrame /\ phone'.at = "start"
  BY <1>1, <1>2, MovesIs
<1>4. answer.kind = "resume" /\ phone.at = "resume" /\ ~AtRest
  BY <1>1, HeardIs
<1>5. Rank(phone'.at) = 1 /\ Rank(p.type) = 1 /\ Rank(phone.at) = 0 /\ Session /\ phone.at # "apply"
  BY <1>1, <1>3, <1>4, Ranks DEF Session
<1>6. \A b \in Bud : Follows(b, p)
  BY <1>5, FollowsPhone
<1>7. p.type \notin Writers /\ p.type \in PacketType \ {"apply"} /\ p.type \in PacketType
  BY <1>1 DEF Writers, PacketType
<1>8. ASSUME NEW b \in Bud PROVE Started(b)' /\ Configured(b)'
  <2>1. WillHear(b)' => Gets(b)
    BY <1>3, <1>4, HearsOn
  <2>2. Gets(b) => HasIn(inbox'[b], "start")
    BY <1>1, <1>7, SentIs
  <2> QED
    BY <1>5, <2>1, <2>2 DEF Started, Configured, Has
<1>9. InStep'
  <2>1. tws.type \in {"none", "resume"}
    BY <1>4 DEF OtaInv, InStep, StepResume
  <2>2. StepStart'
    BY <1>3, <2>1 DEF StepStart, PhoneFrame
  <2> QED
    BY <1>3, <2>2 DEF InStep
<1>10. Rank(p.type) <= Rank(phone'.at) /\ phone'.at # "resume" /\ phone'.at # "apply"
  BY <1>3, <1>5
<1> QED
  BY <1>1, <1>3, <1>5, <1>6, <1>7, <1>8, <1>9, <1>10, SentKeepsInv

\* The packets that write: what comes of the rank of the phone.
LEMMA WritesKeepInv ==
  ASSUME OtaInv, NEW p, Sends(p), PhoneFrame, phone.at = "next",
         \/ p.type = "data" /\ phone'.at = "ack"
         \/ p.type = "verify" /\ phone'.at = "segment"
         \/ p.type = "result" /\ phone'.at = "result"
  PROVE  OtaInv'
<1>1. /\ Rank(phone.at) = 3 /\ Rank(p.type) \in {3, 4} /\ Rank(p.type) = Rank(phone'.at)
      /\ Rank(phone'.at) \in 3..4
      /\ Session /\ phone.at # "apply" /\ phone'.at \notin {"apply", "resume"}
      /\ p.type \in Writers /\ p.type \in PacketType \ {"apply"} /\ p.type \in PacketType
  BY Ranks DEF Session, Writers, PacketType
<1>2. \A b \in Bud : Follows(b, p)
  <2>1. Rank(phone.at) < Rank(p.type) \/ (Rank(phone.at) = 3 /\ Rank(p.type) = 3)
    BY <1>1
  <2> QED
    BY <1>1, <2>1, FollowsPhone
<1>3. ASSUME NEW b \in Bud PROVE Started(b)' /\ Configured(b)' /\ (Gets(b) => Prepared(b))
  <2>1. /\ WillHear(b) /\ ram[b].pending => Has(b, "start")
        /\ WillHear(b) /\ flash[b].boot \in Image => Has(b, "config")
    <3>1. Rank(phone.at) \in 1..3 /\ Rank(phone.at) \in 2..3
      BY <1>1
    <3> QED
      BY <1>1, <3>1, BudInvOf DEF Started, Configured
  <2>2. WillHear(b)' => WillHear(b)
    BY HearsOn
  <2>3. \A type : HasIn(inbox[b], type) => HasIn(inbox'[b], type)
    BY <1>1, SentIs
  <2>4. Gets(b) => WillHear(b)
    BY DEF Gets, WillHear
  <2> QED
    BY <2>1, <2>2, <2>3, <2>4 DEF Started, Configured, Has, PhoneFrame, Prepared
<1>4. InStep'
  <2>1. /\ inbox["master"] = <<>> /\ tws.type = "none" /\ tws.err = 0
        /\ ram["master"].stage = "idle"
    <3>1. Quiet
      BY DEF OtaInv, InStep
    <3>2. Staged("master")
      BY BudInvOf DEF Bud
    <3> QED
      BY <3>1, <3>2 DEF Quiet, Staged
  <2>2. inbox'["master"] = <<p>>
    <3>1. inbox'["master"] = Append(<<>>, p)
      BY <2>1 DEF Sends, Bud
    <3> QED
      BY <3>1
  <2>3. Only(p.type)'
    BY <2>2 DEF Only
  <2>4. tws' = tws /\ answer'.kind = "none" /\ ram' = ram
    BY DEF PhoneFrame
  <2>5. CASE phone'.at = "ack"
    <3>1. StepAck'
      BY <2>1, <2>3, <2>4, <2>5 DEF StepAck, Only
    <3> QED
      BY <2>5, <3>1 DEF InStep
  <2>6. CASE phone'.at = "segment"
    <3>1. StepSegment'
      BY <2>1, <2>3, <2>4, <2>6 DEF StepSegment, Only
    <3> QED
      BY <2>6, <3>1 DEF InStep
  <2>7. CASE phone'.at = "result"
    <3>1. StepResult'
      BY <2>1, <2>3, <2>4, <2>7 DEF StepResult, Only, Seen, Passed
    <3> QED
      BY <2>7, <3>1 DEF InStep
  <2> QED
    BY <2>5, <2>6, <2>7
<1>5. Rank(p.type) <= Rank(phone'.at)
  BY <1>1
<1> QED
  BY <1>1, <1>2, <1>3, <1>4, <1>5, SentKeepsInv

\* sends a page, asks for the check of a segment and for the result,
LEMMA WritersKeepInv ==
  ASSUME OtaInv, PhoneSendsPage \/ PhoneVerifies \/ PhoneAsksResult
  PROVE  OtaInv'
<1>1. ASSUME NEW at, Moves([phone EXCEPT !.at = at]) PROVE PhoneFrame /\ phone'.at = at
  <2>1. IsPhone([phone EXCEPT !.at = at]) /\ [phone EXCEPT !.at = at].at = at
    BY MovedIs
  <2>2. PICK q : q = [phone EXCEPT !.at = at]
    OBVIOUS
  <2> QED
    BY <1>1, <2>1, <2>2, MovesIs
<1>2. CASE PhoneSendsPage
  <2>1. PICK B :
          Sends([type |-> "data", at |-> phone.pos,
                 data |-> [b \in Bud |-> IF b \in B THEN Garbled ELSE New]])
    BY <1>2 DEF PhoneSendsPage
  <2>2. PICK d : d = [b \in Bud |-> IF b \in B THEN Garbled ELSE New]
    OBVIOUS
  <2>3. PICK p : p = [type |-> "data", at |-> phone.pos, data |-> d]
    OBVIOUS
  <2>4. Sends(p) /\ p.type = "data"
    BY <2>1, <2>2, <2>3
  <2>5. phone.at = "next" /\ PhoneFrame /\ phone'.at = "ack"
    BY <1>1, <1>2 DEF PhoneSendsPage
  <2> QED
    BY <2>4, <2>5, WritesKeepInv
<1>3. CASE PhoneVerifies
  <2>1. PICK p : p = [type |-> "verify", from |-> phone.done, to |-> phone.pos]
    OBVIOUS
  <2>2. Sends(p) /\ p.type = "verify"
    BY <1>3, <2>1 DEF PhoneVerifies
  <2>3. phone.at = "next" /\ PhoneFrame /\ phone'.at = "segment"
    BY <1>1, <1>3 DEF PhoneVerifies
  <2> QED
    BY <2>2, <2>3, WritesKeepInv
<1>4. CASE PhoneAsksResult
  <2>1. PICK p : p = Plain("result")
    OBVIOUS
  <2>2. Sends(p) /\ p.type = "result"
    BY <1>4, <2>1 DEF PhoneAsksResult, Plain
  <2>3. phone.at = "next" /\ PhoneFrame /\ phone'.at = "result"
    BY <1>1, <1>4 DEF PhoneAsksResult
  <2> QED
    BY <2>2, <2>3, WritesKeepInv
<1> QED
  BY <1>2, <1>3, <1>4

\* What the phone is when it moves on without a packet.
LEMMA GoesOnIs ==
  ASSUME OtaInv, PhoneGoesOn
  PROVE  /\ PhoneFrame /\ phone'.at = "next" /\ inbox' = inbox
         /\ answer.kind = phone.at /\ phone.at \in {"config", "ack", "segment"} /\ ~AtRest
<1>0. IsPhone(phone) /\ inbox' = inbox
  BY DEF OtaInv, Shaped, PhoneGoesOn
<1>1. CASE Hears("config") /\ Moves([phone EXCEPT !.at = "next"])
  <2>1. PICK q : q = [phone EXCEPT !.at = "next"]
    OBVIOUS
  <2>2. IsPhone(q) /\ q.at = "next"
    BY <1>0, <2>1 DEF IsPhone
  <2> QED
    BY <1>0, <1>1, <2>1, <2>2, MovesIs, HeardIs
<1>2. CASE Hears("ack") /\ Moves([phone EXCEPT !.at = "next", !.pos = @ + 1])
  <2>1. PICK n : n = phone.pos + 1
    OBVIOUS
  <2>2. PICK q : q = [phone EXCEPT !.at = "next", !.pos = n]
    OBVIOUS
  <2>3. IsPhone(q) /\ q.at = "next"
    BY <1>0, <2>2 DEF IsPhone
  <2>4. Moves(q)
    BY <1>0, <1>2, <2>1, <2>2 DEF IsPhone
  <2> QED
    BY <1>0, <1>2, <2>3, <2>4, MovesIs, HeardIs
<1>3. CASE /\ Hears("segment")
           /\ Moves([phone EXCEPT !.at = "next",
                                  !.done = IF answer.val = 1 THEN phone.pos ELSE @,
                                  !.pos = IF answer.val = 1 THEN @ ELSE phone.done])
  <2>1. PICK done, pos : /\ done = IF answer.val = 1 THEN phone.pos ELSE phone.done
                         /\ pos = IF answer.val = 1 THEN phone.pos ELSE phone.done
    OBVIOUS
  <2>2. PICK q : q = [phone EXCEPT !.at = "next", !.done = done, !.pos = pos]
    OBVIOUS
  <2>3. IsPhone(q) /\ q.at = "next"
    BY <1>0, <2>2 DEF IsPhone
  <2>4. Moves(q)
    BY <1>0, <1>3, <2>1, <2>2 DEF IsPhone
  <2> QED
    BY <1>0, <1>3, <2>3, <2>4, MovesIs, HeardIs
<1> QED
  BY <1>1, <1>2, <1>3 DEF PhoneGoesOn

\* The shape, when the phone moves without a packet.
LEMMA MovedShaped ==
  ASSUME OtaInv, PhoneFrame, inbox' = inbox
  PROVE  /\ Shaped' /\ HandlesInOrder' /\ (phone'.at # "resume" => Resumed')
         /\ \A b \in Bud : Intact(b) => Intact(b)'
<1>1. Shaped
  BY DEF OtaInv
<1>2. \A b \in Bud : ShapedBud(b)'
  <2> SUFFICES ASSUME NEW b \in Bud PROVE ShapedBud(b)'
    OBVIOUS
  <2>1. /\ RamFits(ram'[b]) /\ FlashFits(flash'[b]) /\ OpsIn(pend'[b], OpKind)
        /\ IsSeq(inbox'[b]) /\ PacketsFit(inbox'[b])
    BY <1>1 DEF Shaped, ShapedBud, PhoneFrame
  <2> QED
    BY <2>1 DEF ShapedBud, RamFits, IsRam, FlashFits, IsFlash, OpsIn, IsOp, IsSeq, PacketsFit
<1>3. inbox' = [b \in Bud |-> inbox'[b]]
  BY <1>1 DEF Shaped
<1>4. \A b \in Bud : Intact(b) => Intact(b)'
  BY DEF PhoneFrame, Intact, IntactIn, Whole, LeavesArea
<1> QED
  BY <1>2, <1>3, <1>4, PhoneRest

\* hears an answer and goes on,
LEMMA GoesOnKeepsInv ==
  ASSUME OtaInv, PhoneGoesOn
  PROVE  OtaInv'
<1>1. /\ PhoneFrame /\ phone'.at = "next" /\ inbox' = inbox
      /\ answer.kind = phone.at /\ phone.at \in {"config", "ack", "segment"} /\ ~AtRest
  BY GoesOnIs
<1>2. /\ Rank(phone.at) \in 2..3 /\ Rank(phone.at) \in 1..3 /\ Rank(phone'.at) = 3
      /\ Session /\ phone.at # "apply"
  BY <1>1, Ranks DEF Session
<1>3. ASSUME NEW b \in Bud PROVE BudInv(b)'
  <2>0. /\ UNCHANGED <<flash, pend, ram, twsStep, inbox>>
        /\ Staged(b) /\ Ordered(b) /\ AtMost(b)
        /\ VerifiedIsWhole(b) /\ BootIsWhole(b) /\ NamesTheVerified(b)
        /\ StartsFirst(b) /\ ConfigFirst(b) /\ ConfigResets(b) /\ Started(b) /\ Configured(b)
    BY <1>1, BudInvOf DEF PhoneFrame
  <2>1. AtMost(b)'
    <3>1. PICK k : k = Rank(phone.at)
      OBVIOUS
    <3>2. RanksTo(inbox[b], k)
      BY <1>2, <2>0, <3>1 DEF AtMost
    <3>3. k \in Int /\ k <= 3
      BY <1>2, <3>1
    <3>4. RanksTo(inbox[b], 3)
      BY <3>2, <3>3, Ranks DEF RanksTo
    <3> QED
      BY <1>2, <2>0, <3>4 DEF AtMost
  <2>2. WillHear(b)' => WillHear(b)
    BY <1>1, HearsOn
  <2>3. Started(b)' /\ Configured(b)'
    BY <1>2, <2>0, <2>2 DEF Started, Configured, Has
  <2>4. Staged(b)' /\ Ordered(b)' /\ StartsFirst(b)' /\ ConfigFirst(b)'
    BY <2>0 DEF Staged, Ordered, StartsFirst, ConfigFirst, ToDo, Seen, Has
  <2>5. VerifiedIsWhole(b)' /\ BootIsWhole(b)' /\ NamesTheVerified(b)' /\ ConfigResets(b)'
    BY <2>0 DEF VerifiedIsWhole, BootIsWhole, NamesTheVerified, ConfigResets, Intact, IntactIn,
                Whole, LeavesArea, Names, SetBoot
  <2> QED
    BY <2>1, <2>3, <2>4, <2>5 DEF BudInv
<1>4. Shaped' /\ HandlesInOrder' /\ Resumed'
  BY <1>1, MovedShaped
<1>5. InStep'
  <2>1. Quiet
    <3>1. phone.at = "config" => Quiet
      BY <1>1 DEF OtaInv, InStep, StepConfig
    <3>2. phone.at = "segment" => Quiet
      BY <1>1 DEF OtaInv, InStep, StepSegment
    <3>3. phone.at = "ack" => Quiet
      BY <1>1 DEF OtaInv, InStep, StepAck, Quiet
    <3> QED
      BY <1>1, <3>1, <3>2, <3>3
  <2>2. Quiet'
    BY <1>1, <2>1 DEF Quiet, PhoneFrame
  <2> QED
    BY <1>1, <2>2 DEF InStep
<1>6. MasterApplies' /\ SlaveApplies'
  <2>1. ~MasterIsTold /\ ~SlaveIsTold
    BY <1>2, NothingTold
  <2>2. Has("slave", "apply")' => Has("slave", "apply")
    BY <1>1 DEF Has
  <2> QED
    BY <1>1, <2>1, <2>2, StillNotTold
<1> QED
  BY <1>3, <1>4, <1>5, <1>6 DEF OtaInv

\* The phone ends, or gives up.
LEMMA EndsKeepInv ==
  ASSUME OtaInv, PhoneEnds \/ PhoneGivesUp
  PROVE  OtaInv'
<1>1. /\ PhoneFrame /\ phone'.at \in {"idle", "done"} /\ inbox' = inbox
  <2>0. IsPhone(phone)
    BY DEF OtaInv, Shaped
  <2>1. PICK at \in {"idle", "done"} : Moves([phone EXCEPT !.at = at]) /\ inbox' = inbox
    BY DEF PhoneEnds, PhoneGivesUp
  <2>2. PICK q : q = [phone EXCEPT !.at = at]
    OBVIOUS
  <2>3. IsPhone(q) /\ q.at = at
    BY <2>0, <2>2 DEF IsPhone
  <2> QED
    BY <2>1, <2>2, <2>3, MovesIs
<1>2. \A b \in Bud : Keeps(b)
  BY <1>1, KeepsNone DEF Keeps, PhoneFrame
<1>3. \A b \in Bud : BudInv(b)'
  BY <1>2, KeepsInv
<1>4. Shaped' /\ HandlesInOrder' /\ Resumed' /\ \A b \in Bud : Intact(b) => Intact(b)'
  BY <1>1, MovedShaped
<1>5. InStep'
  BY <1>1 DEF InStep
<1>6. MasterIsTold' => MasterIsTold
  BY <1>1, ToldSame DEF MasterIsTold, Has, PhoneFrame
<1>7. SlaveIsTold' => SlaveIsTold
  BY <1>1, ToldSame
<1>8. MasterApplies' /\ SlaveApplies'
  BY <1>1, <1>4, <1>6, <1>7
     DEF OtaInv, MasterApplies, SlaveApplies, NotBack, Seen, PhoneFrame, Bud
<1> QED
  BY <1>3, <1>4, <1>5, <1>8 DEF OtaInv

\* The phone asks for the image to be applied when the answer is that it is verified.
LEMMA AppliesKeepInv ==
  ASSUME OtaInv, PhoneApplies
  PROVE  OtaInv'
<1> DEFINE m == "master"
           s == "slave"
<1>0. PICK p : p = Plain("apply")
  OBVIOUS
<1>1. Sends(p) /\ p.type = "apply" /\ Hears("result") /\ answer.val = 1
  BY <1>0 DEF PhoneApplies, Plain
<1>2. PhoneFrame /\ phone'.at = "apply"
  <2>1. PICK q : q = [phone EXCEPT !.at = "apply"]
    OBVIOUS
  <2>2. IsPhone(phone)
    BY DEF OtaInv, Shaped
  <2>3. IsPhone(q) /\ q.at = "apply"
    BY <2>1, <2>2 DEF IsPhone
  <2>4. Moves(q)
    BY <2>1 DEF PhoneApplies
  <2> QED
    BY <2>3, <2>4, MovesIs
<1>3. answer.kind = "result" /\ phone.at = "result" /\ m \in Bud /\ s \in Bud
  BY <1>1, HeardIs DEF Bud
<1>4. /\ Rank(phone.at) = 4 /\ Rank(p.type) = 5 /\ Rank(phone'.at) = 5
      /\ Session /\ phone.at # "apply"
      /\ p.type \notin Writers /\ p.type \in PacketType
  BY <1>1, <1>2, <1>3, Ranks DEF Session, Writers, PacketType
<1>5. \A b \in Bud : Follows(b, p)
  <2>1. Rank(phone.at) < Rank(p.type)
    BY <1>4
  <2> QED
    BY <1>4, <2>1, FollowsPhone
<1>6. \A b \in Bud : Started(b)' /\ Configured(b)'
  BY <1>4 DEF Started, Configured
<1>7. \A b \in Bud : BudInv(b)' /\ ShapedBud(b)'
  <2>1. Rank(p.type) <= Rank(phone'.at)
    BY <1>4
  <2> QED
    BY <1>1, <1>2, <1>4, <1>5, <1>6, <2>1, SentBudInv
<1>8. inbox' = [b \in Bud |-> inbox'[b]]
  <2> DEFINE F(b) == IF b = "master" \/ link THEN Append(inbox[b], p) ELSE inbox[b]
  <2>1. inbox' = [b \in Bud |-> F(b)]
    BY <1>1 DEF Sends
  <2> HIDE DEF F
  <2> QED
    BY <2>1
<1>9. Shaped' /\ HandlesInOrder' /\ Resumed'
  BY <1>2, <1>7, <1>8, PhoneRest
<1>10. InStep'
  BY <1>2 DEF InStep
<1>11. MasterApplies'
  <2>1. Passed
    BY <1>1, <1>3 DEF Passed
  <2>2. /\ Intact(m)
        /\ inbox[m] = <<>> \/ (Only("result") /\ Seen(m))
    BY <1>3, <2>1 DEF OtaInv, InStep, StepResult
  <2>3. Intact(m)'
    BY <1>2, <2>2 DEF PhoneFrame, Intact, IntactIn, Whole, LeavesArea
  <2>4. PICK q : q = inbox[m]
    OBVIOUS
  <2>5. /\ IsSeq(q)
        /\ q = <<>> \/ (Len(q) = 1 /\ Seen(m))
    BY <1>3, <2>2, <2>4, InvOf DEF Only
  <2>6. /\ \A i \in DOMAIN q : i = 1 /\ Seen(m)
        /\ DOMAIN Append(q, p) = DOMAIN q \cup {Len(q) + 1} /\ Append(q, p)[Len(q) + 1] = p
    <3>1. DOMAIN q = 1..Len(q) /\ (q = <<>> <=> Len(q) = 0)
      BY <2>5, SeqFacts
    <3>2. \A i \in DOMAIN q : i = 1 /\ Seen(m)
      BY <2>5, <3>1
    <3> QED
      BY <2>5, <3>2, Appended
  <2>7. inbox'[m] = Append(q, p)
    BY <1>3, <2>4, <1>1 DEF Sends
  <2>8. \A i \in DOMAIN inbox'[m] : inbox'[m][i].type = "apply" \/ (i = 1 /\ Seen(m))
    BY <1>1, <2>6, <2>7
  <2> QED
    BY <1>2, <2>3, <2>8 DEF MasterApplies, NotBack, Seen, PhoneFrame
<1>12. SlaveApplies'
  <2>1. ~SlaveIsTold
    BY <1>4, NothingTold
  <2>2. ~SlaveIsTold'
    BY <1>2, <2>1, ToldSame
  <2> QED
    BY <2>2 DEF SlaveApplies
<1> QED
  BY <1>7, <1>9, <1>10, <1>11, <1>12 DEF OtaInv

\* and all of them.
LEMMA PhoneKeepsInv ==
  ASSUME OtaInv, PhoneStep
  PROVE  OtaInv'
BY ResumesKeepInv, ConfiguresKeepInv, StartsKeepInv, GoesOnKeepsInv, WritersKeepInv,
   AppliesKeepInv, EndsKeepInv DEF PhoneStep

-----------------------------------------------------------------------------
(***************************************************************************)
(* The invariant holds at first, is kept by every step, and says that what *)
(* the boot loader copies is whole.                                        *)
(***************************************************************************)
LEMMA FirstFlash ==
  ASSUME NEW f, f = BlankFlash \/ \E i \in Image \ {New} : f = HalfWritten(i)
  PROVE  FlashFits(f) /\ f.boot \notin Image
<1>1. "normal" \notin Image
  BY OtaFlashAssumption
<1>2. EmptyLog \in [1..LogLen -> Int]
  BY DEF EmptyLog, NoNumber
<1>3. BlankFlash.log = EmptyLog /\ IsFlash(BlankFlash) /\ BlankFlash.boot = "normal"
  BY DEF BlankFlash, IsFlash
<1>4. ASSUME NEW i \in Image PROVE FlashFits(HalfWritten(i)) /\ HalfWritten(i).boot = "normal"
  <2>1. Cardinality(SectorPages(0)) \in Int
    <3>1. Total - 1 \in Int
      BY OtaFlashAssumption
    <3>2. IsFiniteSet(0..(Total - 1))
      BY <3>1, FS_Interval
    <3>3. SectorPages(0) \subseteq 0..(Total - 1)
      BY DEF SectorPages, Page
    <3>4. IsFiniteSet(SectorPages(0))
      BY <3>2, <3>3, FS_Subset
    <3> QED
      BY <3>4, FS_CardinalityType
  <2>2. PICK n \in Int : n = Cardinality(SectorPages(0))
    BY <2>1
  <2> DEFINE log == [EmptyLog EXCEPT ![1] = n]
             area == Spread(BlankFlash.area, SectorPages(0), i)
  <2>3. log \in [1..LogLen -> Int]
    BY <1>2
  <2>4. HalfWritten(i) = [BlankFlash EXCEPT !.area = area, !.code = 1, !.hdr = i, !.log = log]
    BY <1>3, <2>2 DEF HalfWritten
  <2> HIDE DEF log, area
  <2> QED
    BY <1>3, <2>3, <2>4 DEF FlashFits, IsFlash
<1> QED
  BY <1>1, <1>2, <1>3, <1>4 DEF FlashFits

\* The invariant holds at first,
LEMMA InitInv ==
  Init => OtaInv
<1> SUFFICES ASSUME Init PROVE OtaInv
  OBVIOUS
<1>1. /\ flash \in [Bud -> {BlankFlash} \cup {HalfWritten(i) : i \in Image \ {New}}]
      /\ pend = [b \in Bud |-> <<>>] /\ ram = [b \in Bud |-> ColdRam]
      /\ inbox = [b \in Bud |-> <<>>] /\ tws = NotReady /\ toMaster = <<>> /\ toSlave = <<>>
      /\ answer = NoAnswer /\ twsStep = [b \in Bud |-> "none"]
      /\ phone = [at |-> "idle", done |-> 0, pos |-> 0, code |-> NoNumber]
  BY DEF Init
<1>2. ASSUME NEW b \in Bud
      PROVE  /\ FlashFits(flash[b]) /\ flash[b].boot \notin Image
             /\ ram[b] = ColdRam /\ inbox[b] = <<>> /\ pend[b] = <<>> /\ twsStep[b] = "none"
  <2>1. flash[b] = BlankFlash \/ \E i \in Image \ {New} : flash[b] = HalfWritten(i)
    BY <1>1
  <2> QED
    BY <1>1, <2>1, FirstFlash
<1>3. ColdRam.stage = "idle" /\ ~ColdRam.pending /\ RamFits(ColdRam)
  BY DEF ColdRam, RamFits, IsRam
<1>4. DOMAIN <<>> = {} /\ IsSeq(<<>>)
  BY Single
<1>5. ASSUME NEW b \in Bud PROVE BudInv(b) /\ ShapedBud(b)
  <2>1. Staged(b) /\ Ordered(b) /\ AtMost(b)
    BY <1>2, <1>3, <1>4 DEF Staged, Ordered, OrderedIn, AtMost, RanksTo
  <2>2. VerifiedIsWhole(b) /\ BootIsWhole(b) /\ NamesTheVerified(b)
    BY <1>2, <1>3, <1>4 DEF VerifiedIsWhole, BootIsWhole, NamesTheVerified
  <2>3. StartsFirst(b) /\ ConfigFirst(b) /\ ConfigResets(b) /\ Started(b) /\ Configured(b)
    BY <1>2, <1>3 DEF StartsFirst, ConfigFirst, ConfigResets, Started, Configured
  <2>4. ShapedBud(b)
    BY <1>2, <1>3, <1>4 DEF ShapedBud, OpsIn, PacketsFit
  <2> QED
    BY <2>1, <2>2, <2>3, <2>4 DEF BudInv
<1>6. Shaped
  <2>1. IsTws(tws) /\ IsPhone(phone)
    BY <1>1 DEF IsTws, IsPhone, NotReady
  <2>2. /\ ram = [b \in Bud |-> ram[b]] /\ flash = [b \in Bud |-> flash[b]]
        /\ pend = [b \in Bud |-> pend[b]] /\ inbox = [b \in Bud |-> inbox[b]]
        /\ twsStep = [b \in Bud |-> twsStep[b]]
    BY <1>1
  <2> QED
    BY <1>1, <1>4, <1>5, <2>1, <2>2 DEF Shaped
<1>7. HandlesInOrder
  BY <1>2 DEF HandlesInOrder, Bud
<1>8. Resumed /\ InStep
  BY <1>1 DEF Resumed, InStep, NotReady
<1>9. AtRest
  BY <1>1, <1>2 DEF AtRest
<1>10. ~MasterIsTold /\ ~SlaveIsTold
  <2>1. ~ApplyTold /\ ~AppliedTold
    BY <1>1, ToldNone DEF ApplyTold, AppliedTold
  <2> QED
    BY <1>1, <1>2, <2>1, HasNone DEF MasterIsTold, SlaveIsTold, Begun, Has, Bud
<1>11. MasterApplies /\ SlaveApplies
  BY <1>10 DEF MasterApplies, SlaveApplies
<1> QED
  BY <1>5, <1>6, <1>7, <1>8, <1>11 DEF OtaInv

\* and every step keeps it.
LEMMA NextKeepsInv ==
  ASSUME OtaInv, [Next]_vars
  PROVE  OtaInv'
<1>1. CASE UNCHANGED vars
  <2>1. UNCHANGED <<flash, pend, ram, inbox, tws, toMaster, link, answer, toSlave, twsStep, phone>>
    BY <1>1 DEF vars, controlVars, worldVars
  <2>2. \A b \in Bud : Keeps(b)
    <3> SUFFICES ASSUME NEW b \in Bud PROVE Keeps(b)
      OBVIOUS
    <3>1. WillHear(b)' => WillHear(b)
      BY <2>1 DEF WillHear, AtRest
    <3> QED
      BY <2>1, <3>1, KeepsNone DEF Keeps
  <2>3. \A b \in Bud : BudInv(b)' /\ (Intact(b) => Intact(b)')
    BY <2>2, KeepsInv, KeepsIntact
  <2>4. Shaped'
    <3>1. Shaped
      BY DEF OtaInv
    <3>2. ASSUME NEW b \in Bud PROVE ShapedBud(b)'
      <4>1. /\ RamFits(ram'[b]) /\ FlashFits(flash'[b]) /\ OpsIn(pend'[b], OpKind)
            /\ IsSeq(inbox'[b]) /\ PacketsFit(inbox'[b])
        BY <2>1, <3>1 DEF Shaped, ShapedBud
      <4> QED
        BY <4>1
           DEF ShapedBud, RamFits, IsRam, FlashFits, IsFlash, OpsIn, IsOp, IsSeq, PacketsFit
    <3>3. /\ ram' = [b \in Bud |-> ram'[b]] /\ flash' = [b \in Bud |-> flash'[b]]
          /\ pend' = [b \in Bud |-> pend'[b]] /\ inbox' = [b \in Bud |-> inbox'[b]]
          /\ twsStep' = [b \in Bud |-> twsStep'[b]]
          /\ IsTws(tws') /\ IsPhone(phone') /\ IsSeq(toMaster') /\ IsSeq(toSlave')
      BY <2>1, <3>1 DEF Shaped
    <3> QED
      BY <3>2, <3>3 DEF Shaped, IsTws, IsPhone, IsSeq
  <2>5. HandlesInOrder' /\ Resumed'
    BY <2>1 DEF OtaInv, HandlesInOrder, Resumed
  <2>6. InStep'
    BY <2>1, <2>3, InStepKept DEF Bud
  <2>7. Begun' = Begun /\ ApplyTold' = ApplyTold /\ AppliedTold' = AppliedTold
    BY <2>1 DEF Begun, ApplyTold, AppliedTold, ToldIn
  <2>8. MasterIsTold' => MasterIsTold
    BY <2>1, <2>7 DEF MasterIsTold, Has
  <2>9. SlaveIsTold' => SlaveIsTold
    BY <2>1, <2>7 DEF SlaveIsTold, HasIn
  <2>10. MasterApplies' /\ SlaveApplies'
    BY <2>1, <2>3, <2>8, <2>9 DEF OtaInv, MasterApplies, SlaveApplies, NotBack, Seen, Bud
  <2> QED
    BY <2>3, <2>4, <2>5, <2>6, <2>10 DEF OtaInv
<1>2. CASE Next
  BY <1>2, PhoneKeepsInv, MasterKeepsInv, SlaveKeepsInv, ReconnectKeepsInv, BudKeepsInv,
     FlushKeepsInv, RestartsKeepInv DEF Next
<1> QED
  BY <1>1, <1>2

\* The inductive invariant of the update.
THEOREM OtaInvariant == Spec => []OtaInv
<1>1. Init => OtaInv
  BY InitInv
<1>2. OtaInv /\ [Next]_vars => OtaInv'
  BY NextKeepsInv
<1> QED
  BY <1>1, <1>2, PTL DEF Spec

\* The boot loader copies only what is whole.
THEOREM CopiesWhatIsWhole == Spec => []CopyIsWhole
<1>1. OtaInv => CopyIsWhole
  BY DEF OtaInv, BudInv, BootIsWhole, IntactIn, CopyIsWhole
<1> QED
  BY <1>1, OtaInvariant, PTL

=============================================================================
