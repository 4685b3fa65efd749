------------------------ MODULE NorflashChainProofs ------------------------
(***************************************************************************)
(* The linked lists and the pools of norflash_api, for any number of       *)
(* modules, sectors, nodes and buffers: the code keeps each list whole,    *)
(* and does to it what PendingList says of a sequence, as long as no       *)
(* client asks for the erase that leaves a freed node in the list.         *)
(***************************************************************************)
EXTENDS NorflashChain, SequenceTheorems, FiniteSetTheorems, WellFoundedInduction, TLAPS

-----------------------------------------------------------------------------
(***************************************************************************)
(* Induction along the positions of a list.                                *)
(***************************************************************************)
LEMMA Upward ==
  ASSUME NEW n \in Nat, NEW G, 0 \in G, \A k \in 1..n : k - 1 \in G => k \in G
  PROVE  \A k \in 0..n : k \in G
<1> DEFINE T == {k \in 0..n : k \notin G}
           R == OpToRel(<, Nat)
<1> SUFFICES ASSUME T # {} PROVE FALSE
  OBVIOUS
<1>1. \E k \in T : \A j \in T : <<j, k>> \notin R
  <2>1. T \subseteq Nat /\ T # {}
    OBVIOUS
  <2> HIDE DEF T
  <2> QED
    BY <2>1, NatLessThanWellFounded, WFMin
<1>2. PICK k \in T : \A j \in T : <<j, k>> \notin R
  BY <1>1
<1>3. \A j \in T : j \in Nat /\ k \in Nat /\ ~(j < k)
  <2>1. k \in Nat /\ T \subseteq Nat
    OBVIOUS
  <2> HIDE DEF T
  <2>2. SUFFICES ASSUME NEW j \in T, j < k PROVE FALSE
    BY <2>1
  <2>3. <<j, k>> \in R
    BY <2>1, <2>2 DEF OpToRel
  <2> QED
    BY <1>2, <2>3
<1> HIDE DEF R
<1>4. k \in 0..n /\ k \notin G /\ k # 0
  BY <1>2
<1>5. k \in 1..n /\ k - 1 \in 0..n /\ k - 1 < k
  BY <1>4
<1>6. k - 1 \notin T
  BY <1>3, <1>5
<1> QED
  BY <1>4, <1>5, <1>6

-----------------------------------------------------------------------------
(***************************************************************************)
(* A set of numbers with a bound has a largest one, any set a least one.   *)
(***************************************************************************)
LEMMA MaxIs ==
  ASSUME NEW n \in Nat, NEW S \in SUBSET (1..n), S # {}
  PROVE  Max(S) \in S /\ \A k \in S : Max(S) >= k
<1> DEFINE G == {k \in 0..n :
                   S \cap 1..k # {} => \E x \in S \cap 1..k : \A y \in S \cap 1..k : x >= y}
<1>1. 0 \in G
  OBVIOUS
<1>2. ASSUME NEW k \in 1..n, k - 1 \in G PROVE k \in G
  <2>1. CASE k \in S
    <3>1. \A y \in S \cap 1..k : k >= y
      OBVIOUS
    <3> QED
      BY <2>1, <3>1
  <2>2. CASE k \notin S
    <3>1. S \cap 1..k = S \cap 1..(k - 1)
      BY <2>2
    <3> QED
      BY <1>2, <3>1
  <2> QED
    BY <2>1, <2>2
<1> HIDE DEF G
<1>3. \A k \in 0..n : k \in G
  BY <1>1, <1>2, Upward
<1>4. n \in G
  BY <1>3
<1>5. S \cap 1..n = S
  OBVIOUS
<1>6. \E x \in S : \A y \in S : x >= y
  BY <1>4, <1>5 DEF G
<1> QED
  BY <1>6 DEF Max

\* A set of numbers that is not empty has a least one, which the code takes.
LEMMA MinIn ==
  ASSUME NEW S \in SUBSET Nat, S # {}
  PROVE  Min(S) \in S
<1>1. PICK k \in S : \A j \in S : <<j, k>> \notin OpToRel(<, Nat)
  BY NatLessThanWellFounded, WFMin
<1>2. \A j \in S : k =< j
  <2> SUFFICES ASSUME NEW j \in S, j < k PROVE FALSE
    OBVIOUS
  <2>1. <<j, k>> \in OpToRel(<, Nat)
    BY DEF OpToRel
  <2> QED
    BY <1>1, <2>1
<1> QED
  BY <1>2 DEF Min

\* So many are the numbers up to n.
LEMMA CardinalityTo ==
  ASSUME NEW n \in Nat
  PROVE  IsFiniteSet(1..n) /\ Cardinality(1..n) = n
<1>1. /\ IsFiniteSet(1..n)
      /\ Cardinality(1..n) = IF 1 > n THEN 0 ELSE n - 1 + 1
  BY FS_Interval
<1>2. (IF 1 > n THEN 0 ELSE n - 1 + 1) = n
  OBVIOUS
<1> QED
  BY <1>1, <1>2

-----------------------------------------------------------------------------
(***************************************************************************)
(* A list: the nodes q, newest first, that the pointers h and nx link.     *)
(***************************************************************************)
Linked(h, nx, q) ==
  /\ q \in Seq(Node)
  /\ h = IF q = <<>> THEN NULL ELSE q[1]
  /\ \A i \in 1..Len(q) : nx[q[i]] = IF i < Len(q) THEN q[i + 1] ELSE NULL
  /\ \A i, j \in 1..Len(q) : q[i] = q[j] => i = j

\* It is no longer than the pool.
LEMMA LinkedFits ==
  ASSUME NEW h, NEW nx, NEW q, Linked(h, nx, q)
  PROVE  /\ Len(q) \in 0..OpraListLen /\ DOMAIN q = 1..Len(q)
         /\ \A i \in 1..Len(q) : q[i] \in Node /\ q[i] # NULL
         /\ q = <<>> <=> Len(q) = 0
<1>1. q \in Seq(Node) /\ \A i, j \in 1..Len(q) : q[i] = q[j] => i = j
  BY DEF Linked
<1>2. Len(q) \in Nat /\ q \in [1..Len(q) -> Node] /\ (q = <<>> <=> Len(q) = 0)
  BY <1>1
<1>3. OpraListLen \in Nat
  BY ChainAssumption
<1>4. /\ IsFiniteSet(Node) /\ Cardinality(Node) = OpraListLen
      /\ IsFiniteSet(1..Len(q)) /\ Cardinality(1..Len(q)) = Len(q)
  BY <1>2, <1>3, CardinalityTo DEF Node
<1>5. q \in Injection(1..Len(q), Node)
  BY <1>1, <1>2 DEF Injection, IsInjective
<1>6. Cardinality(1..Len(q)) <= Cardinality(Node)
  BY <1>4, <1>5, FS_Injection
<1> QED
  BY <1>2, <1>3, <1>4, <1>6 DEF Node, NULL

\* The walk visits all of it.
LEMMA WalkIs ==
  ASSUME NEW h, NEW nx, NEW q, Linked(h, nx, q)
  PROVE  WalkFrom(h, nx) = q
<1> DEFINE F(f) == [k \in Nat |-> IF k <= 1 THEN h
                                  ELSE IF f[k - 1] = NULL THEN NULL ELSE nx[f[k - 1]]]
           visit == CHOOSE f : f = F(f)
           known == [k \in Nat |-> IF k <= 1 THEN h ELSE IF k <= Len(q) THEN q[k] ELSE NULL]
           n == OpraListLen + 1
<1>0. /\ Len(q) \in 0..OpraListLen /\ q \in Seq(Node) /\ DOMAIN q = 1..Len(q)
      /\ \A i \in 1..Len(q) : q[i] # NULL
      /\ h = IF Len(q) = 0 THEN NULL ELSE q[1]
      /\ \A i \in 1..Len(q) : nx[q[i]] = IF i < Len(q) THEN q[i + 1] ELSE NULL
      /\ OpraListLen \in Nat
  BY LinkedFits, ChainAssumption DEF Linked
<1>1. WalkFrom(h, nx) = [k \in 1..Cardinality({k \in 1..n : visit[k] # NULL}) |-> visit[k]]
  BY DEF WalkFrom
<1>2. \A k \in Nat : k >= 1 => known[k] = IF k <= Len(q) THEN q[k] ELSE NULL
  BY <1>0
<1>3. \A k \in Nat : k > 1 =>
        known[k] = IF known[k - 1] = NULL THEN NULL ELSE nx[known[k - 1]]
  BY <1>0, <1>2
<1>4. known = F(known)
  <2>1. \A k \in Nat : known[k] = F(known)[k]
    BY <1>3
  <2> QED
    BY <2>1
<1> HIDE DEF known
<1>5. visit = F(visit)
  BY <1>4
<1> HIDE DEF visit
<1>6. \A k \in 0..n : visit[k] = known[k]
  <2> DEFINE G == {k \in 0..n : visit[k] = known[k]}
  <2>1. 0 \in G
    BY <1>0, <1>4, <1>5
  <2>2. \A k \in 1..n : k - 1 \in G => k \in G
    <3> SUFFICES ASSUME NEW k \in 1..n, k - 1 \in G PROVE visit[k] = known[k]
      OBVIOUS
    <3>1. k \in Nat /\ visit[k - 1] = known[k - 1]
      BY <1>0
    <3>2. visit[k] = F(visit)[k] /\ known[k] = F(known)[k]
      BY <1>4, <1>5
    <3> QED
      BY <3>1, <3>2
  <2>3. n \in Nat
    BY <1>0
  <2> HIDE DEF G
  <2>4. \A k \in 0..n : k \in G
    BY <2>1, <2>2, <2>3, Upward
  <2> QED
    BY <2>4 DEF G
<1>7. {k \in 1..n : visit[k] # NULL} = 1..Len(q)
  BY <1>0, <1>2, <1>6
<1>8. Cardinality(1..Len(q)) = Len(q)
  BY <1>0, CardinalityTo
<1>9. WalkFrom(h, nx) = [k \in 1..Len(q) |-> visit[k]]
  BY <1>1, <1>7, <1>8
<1>10. \A k \in 1..Len(q) : visit[k] = q[k]
  BY <1>0, <1>2, <1>6
<1> QED
  BY <1>0, <1>9, <1>10

-----------------------------------------------------------------------------
(***************************************************************************)
(* The invariant.  Of the list q of m, whose head is h and whose operation *)
(* in the chip is c: its nodes are in use and for the sectors of m, the    *)
(* one in the chip is the oldest and the only one locked, and of those     *)
(* that wait for a sector only an erase is behind another, and only a      *)
(* write in front of one.                                                  *)
(***************************************************************************)
ChainList(m, q, h, c, nx, inf, u) ==
  /\ Linked(h, nx, q)
  /\ \A i \in 1..Len(q) : q[i] \in u /\ Owner[inf[q[i]].sector] = m
  /\ c # NULL => q # <<>> /\ c = q[Len(q)]
  /\ \A i \in 1..Len(q) : inf[q[i]].lock <=> q[i] = c
  /\ \A i, j \in 1..Len(q) :
       i < j /\ inf[q[i]].sector = inf[q[j]].sector /\ ~inf[q[i]].lock /\ ~inf[q[j]].lock
         => inf[q[i]].type = "W" /\ inf[q[j]].type = "E"

(***************************************************************************)
(* Every node in use is in the list of its module, and every buffer in use *)
(* belongs to one of them.                                                 *)
(***************************************************************************)
InItsList(n) ==
  \E i \in 1..Len(Walk(Owner[info[n].sector])) : Walk(Owner[info[n].sector])[i] = n

BuffsOwned(inf, u, bu) ==
  /\ \A n \in u : inf[n].type = "E" => inf[n].buff = NULL
  /\ bu = {inf[n].buff : n \in {n \in u : inf[n].type = "W"}}
  /\ \A a, b \in u :
       inf[a].type = "W" /\ inf[b].type = "W" /\ inf[a].buff = inf[b].buff => a = b

ChainInv ==
  /\ ChainTypeOK
  /\ \A m \in Module : ChainList(m, Walk(m), head[m], cur[m], next, info, used)
  /\ \A n \in used : InItsList(n)
  /\ BuffsOwned(info, used, buffUsed)

\* It is all that OwnedOnce says.
LEMMA InvOwnedOnce ==
  ChainInv => OwnedOnce
<1> SUFFICES ASSUME ChainInv PROVE OwnedOnce
  OBVIOUS
<1>1. ASSUME NEW m \in Module
      PROVE  /\ Len(Walk(m)) \in 0..OpraListLen /\ DOMAIN Walk(m) = 1..Len(Walk(m))
             /\ Range(Walk(m)) = {Walk(m)[i] : i \in 1..Len(Walk(m))}
             /\ \A i \in 1..Len(Walk(m)) :
                  Walk(m)[i] \in used /\ Owner[info[Walk(m)[i]].sector] = m
  BY <1>1, LinkedFits DEF ChainInv, ChainList, Range
<1>2. OpraListLen \in Nat
  BY ChainAssumption
<1>3. WalksEnd
  BY <1>1, <1>2 DEF WalksEnd, Circular
<1>4. used = UNION {Range(Walk(m)) : m \in Module}
  <2>1. ASSUME NEW n \in used PROVE \E m \in Module : n \in Range(Walk(m))
    <3>1. Owner[info[n].sector] \in Module
      BY ChainAssumption DEF ChainInv, ChainTypeOK, Info
    <3>2. InItsList(n)
      BY DEF ChainInv
    <3> QED
      BY <1>1, <3>1, <3>2 DEF InItsList
  <2> QED
    BY <1>1, <2>1
<1>5. \A m, n \in Module : m # n => Range(Walk(m)) \cap Range(Walk(n)) = {}
  BY <1>1
<1> QED
  BY <1>3, <1>4, <1>5 DEF OwnedOnce, ChainInv, BuffsOwned

(***************************************************************************)
(* What a step is that changes the list of m, to q, and no other.          *)
(***************************************************************************)
ListBecomes(m, q) ==
  /\ ChainList(m, q, head'[m], cur'[m], next', info', used')
  /\ \A a \in Module \ {m} : head'[a] = head[a] /\ cur'[a] = cur[a]
  /\ \A n \in used : Owner[info[n].sector] # m =>
       n \in used' /\ next'[n] = next[n] /\ info'[n] = info[n]
  /\ \A n \in used' : \/ n \in used /\ Owner[info[n].sector] # m
                      \/ \E i \in 1..Len(q) : q[i] = n

\* The other lists stay as they are.
LEMMA OtherLists ==
  ASSUME ChainInv, NEW m \in Module, NEW q, ListBecomes(m, q), NEW a \in Module \ {m}
  PROVE  /\ ChainList(a, Walk(a), head'[a], cur'[a], next', info', used')
         /\ Walk(a)' = Walk(a)
         /\ \A i \in 1..Len(Walk(a)) : info'[Walk(a)[i]] = info[Walk(a)[i]]
<1>1. PICK w : w = Walk(a)
  OBVIOUS
<1>2. ChainList(a, w, head[a], cur[a], next, info, used)
  BY <1>1 DEF ChainInv
<1>3. \A i \in 1..Len(w) : /\ w[i] \in used' /\ next'[w[i]] = next[w[i]]
                           /\ info'[w[i]] = info[w[i]]
  BY <1>2 DEF ChainList, ListBecomes
<1>4. head'[a] = head[a] /\ cur'[a] = cur[a]
  BY DEF ListBecomes
<1>5. Linked(head'[a], next', w)
  BY <1>2, <1>3, <1>4 DEF ChainList, Linked
<1>6. \A i \in 1..Len(w) : Owner[info'[w[i]].sector] = a
  BY <1>2, <1>3 DEF ChainList
<1>7. cur'[a] # NULL => w # <<>> /\ cur'[a] = w[Len(w)]
  BY <1>2, <1>4 DEF ChainList
<1>8. \A i \in 1..Len(w) : info'[w[i]].lock <=> w[i] = cur'[a]
  BY <1>2, <1>3, <1>4 DEF ChainList
<1>9. \A i, j \in 1..Len(w) :
        i < j /\ info'[w[i]].sector = info'[w[j]].sector
          /\ ~info'[w[i]].lock /\ ~info'[w[j]].lock
          => info'[w[i]].type = "W" /\ info'[w[j]].type = "E"
  BY <1>2, <1>3 DEF ChainList
<1>10. ChainList(a, w, head'[a], cur'[a], next', info', used')
  BY <1>3, <1>5, <1>6, <1>7, <1>8, <1>9 DEF ChainList
<1>11. WalkFrom(head'[a], next') = w
  BY <1>5, WalkIs
<1> QED
  BY <1>1, <1>3, <1>10, <1>11 DEF Walk

\* Such a step keeps the invariant.
LEMMA ListBecomesKeeps ==
  ASSUME ChainInv, ChainTypeOK', NEW m \in Module, NEW q, ListBecomes(m, q),
         BuffsOwned(info', used', buffUsed')
  PROVE  ChainInv' /\ Walk(m)' = q
<1>1. Walk(m)' = q
  <2>1. WalkFrom(head'[m], next') = q
    BY WalkIs DEF ListBecomes, ChainList
  <2> QED
    BY <2>1 DEF Walk
<1>2. ASSUME NEW a \in Module
      PROVE  ChainList(a, Walk(a)', head'[a], cur'[a], next', info', used')
  <2>1. CASE a = m
    BY <1>1, <2>1 DEF ListBecomes
  <2>2. CASE a # m
    BY <2>2, OtherLists
  <2> QED
    BY <2>1, <2>2
<1>3. ASSUME NEW n \in used' PROVE InItsList(n)'
  <2>1. CASE n \in used /\ Owner[info[n].sector] # m
    <3>1. Owner[info[n].sector] \in Module
      BY <2>1, ChainAssumption DEF ChainInv, ChainTypeOK, Info
    <3>2. PICK a \in Module \ {m} : a = Owner[info[n].sector]
      BY <2>1, <3>1
    <3>3. info'[n] = info[n]
      BY <2>1 DEF ListBecomes
    <3>4. PICK i \in 1..Len(Walk(a)) : Walk(a)[i] = n
      BY <2>1, <3>2 DEF ChainInv, InItsList
    <3>5. Walk(a)' = Walk(a)
      BY OtherLists
    <3> QED
      BY <3>2, <3>3, <3>4, <3>5 DEF InItsList
  <2>2. CASE \E i \in 1..Len(q) : q[i] = n
    <3>1. Owner[info'[n].sector] = m
      BY <2>2 DEF ListBecomes, ChainList
    <3> QED
      BY <1>1, <2>2, <3>1 DEF InItsList
  <2> QED
    BY <2>1, <2>2 DEF ListBecomes
<1>4. \A a \in Module : ChainList(a, Walk(a), head[a], cur[a], next, info, used)'
  BY <1>2
<1> QED
  BY <1>1, <1>3, <1>4 DEF ChainInv

-----------------------------------------------------------------------------
(***************************************************************************)
(* The list as PendingList sees it.                                        *)
(***************************************************************************)
ListFrom(w, inf) == [i \in 1..Len(w) |-> inf[w[Len(w) - i + 1]]]

Mine(m) == {s \in Sector : Owner[s] = m}

FollowsList == \A m \in Module : ListStep(List(m), Shape(List(m)'), Mine(m))

StepOK == ChainInv' /\ FollowsList

\* List is the mirror of the walk, now and after a step.
LEMMA ListIs ==
  \A m : List(m) = ListFrom(Walk(m), info) /\ List(m)' = ListFrom(Walk(m)', info')
<1> SUFFICES ASSUME NEW m
             PROVE  List(m) = ListFrom(Walk(m), info) /\ List(m)' = ListFrom(Walk(m)', info')
  OBVIOUS
<1>1. ASSUME NEW w, NEW inf
      PROVE  [i \in DOMAIN Reverse(w) |-> inf[Reverse(w)[i]]] = ListFrom(w, inf)
  BY DEF Reverse, ListFrom
<1>2. List(m) = [i \in DOMAIN Reverse(Walk(m)) |-> info[Reverse(Walk(m))[i]]]
  BY DEF List
<1>3. List(m)' = [i \in DOMAIN Reverse(Walk(m)') |-> info'[Reverse(Walk(m)')[i]]]
  BY DEF List
<1> QED
  BY <1>1, <1>2, <1>3

\* Its length, and what it looks like.
LEMMA ListFromIs ==
  ASSUME NEW w, Len(w) \in Nat, NEW inf
  PROVE  /\ DOMAIN ListFrom(w, inf) = 1..Len(w) /\ Len(ListFrom(w, inf)) = Len(w)
         /\ (ListFrom(w, inf) = <<>>) <=> (Len(w) = 0)
         /\ \A i \in 1..Len(w) : ListFrom(w, inf)[i] = inf[w[Len(w) - i + 1]]
<1>1. PICK l : l = ListFrom(w, inf)
  OBVIOUS
<1>2. l = [i \in 1..Len(w) |-> inf[w[Len(w) - i + 1]]]
  BY <1>1 DEF ListFrom
<1>3. DOMAIN l = 1..Len(w) /\ Len(l) = Len(w) /\ (l = <<>> <=> Len(w) = 0)
  BY <1>2
<1>4. \A i \in 1..Len(w) : l[i] = inf[w[Len(w) - i + 1]]
  BY <1>2
<1> QED
  BY <1>1, <1>3, <1>4

\* A step that does to the list of m what PendingList says.
LEMMA StepIsOK ==
  ASSUME ChainInv, ChainTypeOK', NEW m \in Module, NEW q, ListBecomes(m, q),
         BuffsOwned(info', used', buffUsed'),
         ListStep(ListFrom(Walk(m), info), Shape(ListFrom(q, info')), Mine(m))
  PROVE  StepOK
<1>1. ChainInv' /\ Walk(m)' = q
  BY ListBecomesKeeps
<1>2. ListStep(List(m), Shape(List(m)'), Mine(m))
  BY <1>1, ListIs
<1>3. ASSUME NEW a \in Module \ {m} PROVE ListStep(List(a), Shape(List(a)'), Mine(a))
  <2>1. PICK w : w = Walk(a)
    OBVIOUS
  <2>2. Walk(a)' = w /\ \A i \in 1..Len(w) : info'[w[i]] = info[w[i]]
    BY <2>1, OtherLists
  <2>3. Len(w) \in Nat
    BY <2>1, LinkedFits DEF ChainInv, ChainList
  <2>4. ListFrom(w, info') = ListFrom(w, info)
    <3>1. \A i \in 1..Len(w) : Len(w) - i + 1 \in 1..Len(w)
      BY <2>3
    <3>2. \A i \in 1..Len(w) : info'[w[Len(w) - i + 1]] = info[w[Len(w) - i + 1]]
      BY <2>2, <3>1
    <3> QED
      BY <3>2 DEF ListFrom
  <2>5. List(a)' = List(a)
    BY <2>1, <2>2, <2>4, ListIs
  <2> QED
    BY <2>5 DEF ListStep
<1> QED
  BY <1>1, <1>2, <1>3 DEF StepOK, FollowsList

-----------------------------------------------------------------------------
(***************************************************************************)
(* The chip takes the oldest operation.                                    *)
(***************************************************************************)
LEMMA StartOK ==
  ASSUME ChainInv, NEW m \in Module, Start(m)
  PROVE  StepOK
<1>1. PICK q : q = Walk(m)
  OBVIOUS
<1>2. ChainList(m, q, head[m], cur[m], next, info, used)
  BY <1>1 DEF ChainInv
<1>3. PICK k : k = Len(q)
  OBVIOUS
<1>4. PICK n : n = q[k]
  OBVIOUS
<1>5. /\ k \in Nat \ {0} /\ n \in Node /\ n \in used /\ n # NULL /\ q # <<>>
      /\ \A i \in 1..Len(q) : q[i] \in Node /\ q[i] # NULL
  <2>1. q # <<>> /\ Linked(head[m], next, q)
    BY <1>2 DEF Start, ChainList, Linked
  <2>2. k \in Nat \ {0} /\ \A i \in 1..Len(q) : q[i] \in Node /\ q[i] # NULL
    BY <1>3, <2>1, LinkedFits
  <2>3. k \in 1..Len(q)
    BY <1>3, <2>2
  <2> QED
    BY <1>2, <1>4, <2>1, <2>2, <2>3 DEF ChainList
<1>6. /\ cur[m] = NULL
      /\ cur' = [cur EXCEPT ![m] = n] /\ info' = [info EXCEPT ![n].lock = TRUE]
      /\ UNCHANGED <<head, next, used, buffUsed>>
  BY <1>1, <1>3, <1>4 DEF Start, Last
<1>7. ChainTypeOK
  BY DEF ChainInv
<1>8. /\ info' \in [Node -> Info]
      /\ info'[n] = [info[n] EXCEPT !.lock = TRUE]
      /\ info'[n].type = info[n].type /\ info'[n].sector = info[n].sector
      /\ info'[n].buff = info[n].buff /\ info'[n].lock
      /\ \A x \in Node : x # n => info'[x] = info[x]
  <2>1. info[n] \in Info /\ info \in [Node -> Info]
    BY <1>5, <1>7 DEF ChainTypeOK
  <2>2. [info[n] EXCEPT !.lock = TRUE] \in Info
    BY <2>1 DEF Info
  <2> QED
    BY <1>5, <1>6, <2>1, <2>2 DEF Info
<1>9. ChainTypeOK' /\ cur'[m] = n
  BY <1>5, <1>6, <1>7, <1>8 DEF ChainTypeOK
<1>10. \A x \in Node : /\ info'[x].type = info[x].type /\ info'[x].sector = info[x].sector
                       /\ info'[x].buff = info[x].buff /\ (info[x].lock => info'[x].lock)
  BY <1>8
<1>11. ChainList(m, q, head'[m], cur'[m], next', info', used')
  <2>1. Linked(head'[m], next', q)
    BY <1>2, <1>6 DEF ChainList
  <2>2. \A i \in 1..Len(q) : q[i] \in used' /\ Owner[info'[q[i]].sector] = m
    BY <1>2, <1>5, <1>6, <1>10 DEF ChainList
  <2>3. \A i \in 1..Len(q) : info'[q[i]].lock <=> q[i] = cur'[m]
    BY <1>2, <1>5, <1>6, <1>8, <1>9 DEF ChainList
  <2>4. \A i, j \in 1..Len(q) :
          i < j /\ info'[q[i]].sector = info'[q[j]].sector
            /\ ~info'[q[i]].lock /\ ~info'[q[j]].lock
            => info'[q[i]].type = "W" /\ info'[q[j]].type = "E"
    BY <1>2, <1>5, <1>10 DEF ChainList
  <2> QED
    BY <1>3, <1>4, <1>5, <1>9, <2>1, <2>2, <2>3, <2>4 DEF ChainList
<1>12. ListBecomes(m, q)
  <2>1. \A a \in Module \ {m} : head'[a] = head[a] /\ cur'[a] = cur[a]
    BY <1>6
  <2>2. \A x \in used : Owner[info[x].sector] # m =>
          x \in used' /\ next'[x] = next[x] /\ info'[x] = info[x]
    <3>1. Owner[info[n].sector] = m
      BY <1>2, <1>3, <1>4, <1>5 DEF ChainList
    <3> QED
      BY <1>6, <1>7, <1>8, <3>1 DEF ChainTypeOK
  <2>3. \A x \in used' : (x \in used /\ Owner[info[x].sector] # m)
                           \/ \E i \in 1..Len(q) : q[i] = x
    BY <1>1, <1>6 DEF ChainInv, InItsList
  <2> QED
    BY <1>11, <2>1, <2>2, <2>3 DEF ListBecomes
<1>13. BuffsOwned(info', used', buffUsed')
  <2>1. BuffsOwned(info, used, buffUsed) /\ used \subseteq Node
    BY <1>7 DEF ChainInv, ChainTypeOK
  <2>2. {x \in used : info'[x].type = "W"} = {x \in used : info[x].type = "W"}
    BY <1>10, <2>1
  <2>3. {info'[x].buff : x \in {x \in used : info[x].type = "W"}}
          = {info[x].buff : x \in {x \in used : info[x].type = "W"}}
    BY <1>10, <2>1
  <2> QED
    BY <1>6, <1>10, <2>1, <2>2, <2>3 DEF BuffsOwned
<1>14. ListStep(ListFrom(q, info), Shape(ListFrom(q, info')), Mine(m))
  <2>1. PICK l : l = ListFrom(q, info)
    OBVIOUS
  <2>2. /\ DOMAIN l = 1..k /\ Len(l) = k /\ l # <<>>
        /\ \A i \in 1..k : l[i] = info[q[k - i + 1]]
        /\ DOMAIN Shape(ListFrom(q, info')) = 1..k
        /\ Shape(ListFrom(q, info')) = [i \in 1..k |-> Kind(info'[q[k - i + 1]])]
    <3>1. Len(q) \in Nat
      BY <1>3, <1>5
    <3>2. /\ DOMAIN l = 1..k /\ Len(l) = k /\ l # <<>>
          /\ \A i \in 1..k : l[i] = info[q[k - i + 1]]
      BY <1>3, <1>5, <2>1, <3>1, ListFromIs
    <3>3. /\ DOMAIN ListFrom(q, info') = 1..k
          /\ \A i \in 1..k : ListFrom(q, info')[i] = info'[q[k - i + 1]]
      BY <1>3, <3>1, ListFromIs
    <3>4. Shape(ListFrom(q, info')) = [i \in 1..k |-> Kind(ListFrom(q, info')[i])]
      BY <3>3 DEF Shape
    <3> QED
      BY <3>2, <3>3, <3>4
  <2>3. PICK r : r = [l EXCEPT ![1].lock = TRUE]
    OBVIOUS
  <2>4. /\ DOMAIN r = 1..k /\ r[1] = [l[1] EXCEPT !.lock = TRUE]
        /\ \A i \in 2..k : r[i] = l[i]
    <3>1. PICK o : o = [l[1] EXCEPT !.lock = TRUE]
      OBVIOUS
    <3>2. r = [l EXCEPT ![1] = o]
      BY <2>3, <3>1
    <3>3. 1 \in 1..k
      BY <1>5
    <3> QED
      BY <2>2, <3>1, <3>2, <3>3
  <2>5. r[1] = info'[n]
    <3>1. 1 \in 1..k /\ k - 1 + 1 = k
      BY <1>5
    <3>2. l[1] = info[n]
      BY <1>4, <2>2, <3>1
    <3> QED
      BY <1>8, <2>4, <3>2
  <2>6. \A i \in 2..k : r[i] = info'[q[k - i + 1]]
    <3> SUFFICES ASSUME NEW i \in 2..k PROVE r[i] = info'[q[k - i + 1]]
      OBVIOUS
    <3>1. k - i + 1 \in 1..k /\ k - i + 1 # k /\ i \in 1..k
      BY <1>5
    <3>2. q[k - i + 1] # n /\ q[k - i + 1] \in Node
      BY <1>2, <1>3, <1>4, <1>5, <3>1 DEF ChainList, Linked
    <3> QED
      BY <1>8, <2>2, <2>4, <3>1, <3>2
  <2>7. \A i \in 1..k : r[i] = info'[q[k - i + 1]]
    <3> SUFFICES ASSUME NEW i \in 1..k PROVE r[i] = info'[q[k - i + 1]]
      OBVIOUS
    <3>1. CASE i = 1
      BY <1>4, <1>5, <2>5, <3>1
    <3>2. CASE i # 1
      BY <1>5, <2>6, <3>2
    <3> QED
      BY <3>1, <3>2
  <2>8. Shape(r) = Shape(ListFrom(q, info'))
    BY <2>2, <2>4, <2>7 DEF Shape
  <2> QED
    BY <2>1, <2>2, <2>3, <2>8 DEF ListStep
<1> QED
  BY <1>1, <1>9, <1>12, <1>13, <1>14, StepIsOK

-----------------------------------------------------------------------------
(***************************************************************************)
(* What is given back.                                                     *)
(***************************************************************************)
BuffsOf(inf, D) == {inf[n].buff : n \in {n \in D : inf[n].type = "W"}}

\* Nodes given back with their buffers leave the others theirs.
LEMMA BuffsGivenBack ==
  ASSUME NEW inf, NEW u, NEW bu, BuffsOwned(inf, u, bu), NEW D \in SUBSET u
  PROVE  BuffsOwned(inf, u \ D, bu \ BuffsOf(inf, D))
<1>1. bu \ BuffsOf(inf, D) = {inf[n].buff : n \in {n \in u \ D : inf[n].type = "W"}}
  BY DEF BuffsOwned, BuffsOf
<1> QED
  BY <1>1 DEF BuffsOwned

\* The oldest operation is done.
LEMMA FinishOK ==
  ASSUME ChainInv, NEW m \in Module, Finish(m)
  PROVE  StepOK
<1>1. PICK q : q = Walk(m)
  OBVIOUS
<1>2. ChainList(m, q, head[m], cur[m], next, info, used)
  BY <1>1 DEF ChainInv
<1>3. PICK k : k = Len(q)
  OBVIOUS
<1>4. PICK n : n = cur[m]
  OBVIOUS
<1>5. /\ k \in Nat \ {0} /\ DOMAIN q = 1..k /\ n = q[k] /\ k \in 1..k
      /\ n \in Node /\ n \in used /\ n # NULL
      /\ \A i \in 1..k : q[i] \in Node /\ q[i] # NULL
      /\ q \in Seq(Node)
  <2>1. n # NULL
    BY <1>4 DEF Finish
  <2>2. q # <<>> /\ n = q[k] /\ Linked(head[m], next, q)
    BY <1>2, <1>3, <1>4, <2>1 DEF ChainList
  <2>3. /\ k \in Nat \ {0} /\ DOMAIN q = 1..k
        /\ \A i \in 1..k : q[i] \in Node /\ q[i] # NULL
    BY <1>3, <2>2, LinkedFits
  <2>4. q[k] \in used /\ q \in Seq(Node)
    BY <1>2, <1>3, <2>3 DEF ChainList, Linked
  <2> QED
    BY <2>1, <2>2, <2>3, <2>4
<1>6. (CHOOSE i \in DOMAIN q : q[i] = n) = k
  <2>1. \A i \in 1..k : q[i] = n => i = k
    BY <1>2, <1>3, <1>5 DEF ChainList, Linked
  <2> QED
    BY <1>5, <2>1
<1>7. /\ cur' = [cur EXCEPT ![m] = NULL] /\ info' = info
      /\ \/ n = head[m] /\ head' = [head EXCEPT ![m] = NULL] /\ next' = next
         \/ n # head[m] /\ next' = [next EXCEPT ![q[k - 1]] = NULL] /\ head' = head
      /\ used' = used \ {n} /\ buffUsed' = buffUsed \ {info[n].buff}
  <2>1. n \in Range(q)
    BY <1>5 DEF Range
  <2> QED
    BY <1>1, <1>4, <1>6, <2>1 DEF Finish
<1>8. ChainTypeOK
  BY DEF ChainInv
<1>9. head[m] = q[1] /\ (n = head[m] <=> k = 1)
      /\ \A i, j \in 1..k : q[i] = q[j] => i = j
  <2>1. q # <<>>
    BY <1>3, <1>5
  <2>2. head[m] = q[1] /\ \A i, j \in 1..k : q[i] = q[j] => i = j
    BY <1>2, <1>3, <2>1 DEF ChainList, Linked
  <2>3. 1 \in 1..k
    BY <1>5
  <2> QED
    BY <1>5, <2>2, <2>3
<1>10. ChainTypeOK'
  BY <1>7, <1>8 DEF ChainTypeOK
<1>11. PICK r : r = [i \in 1..(k - 1) |-> q[i]]
  OBVIOUS
<1>12. r \in Seq(Node) /\ Len(r) = k - 1 /\ (r = <<>> <=> k = 1)
       /\ \A i \in 1..(k - 1) : r[i] = q[i] /\ i \in 1..k /\ i # k
  BY <1>5, <1>11
<1>13. Linked(head'[m], next', r)
  <2>1. \A i \in 1..k : next[q[i]] = IF i < k THEN q[i + 1] ELSE NULL
    BY <1>2, <1>3 DEF ChainList, Linked
  <2>2. CASE k = 1
    <3>1. head'[m] = NULL
      BY <1>7, <1>8, <1>9, <2>2 DEF ChainTypeOK
    <3> QED
      BY <1>12, <2>2, <3>1 DEF Linked
  <2>3. CASE k # 1
    <3>1. head'[m] = r[1] /\ r # <<>>
      BY <1>5, <1>7, <1>9, <1>12, <2>3
    <3>2. k - 1 \in 1..k
      BY <1>5, <2>3
    <3>3. next' = [next EXCEPT ![q[k - 1]] = NULL]
      BY <1>7, <1>9, <2>3
    <3>4. next'[q[k - 1]] = NULL
      BY <1>5, <1>8, <3>2, <3>3 DEF ChainTypeOK
    <3>5. \A i \in 1..k : i # k - 1 => next'[q[i]] = next[q[i]]
      BY <1>5, <1>8, <1>9, <3>2, <3>3 DEF ChainTypeOK
    <3>6. \A i \in 1..(k - 1) : next'[q[i]] = IF i < k - 1 THEN q[i + 1] ELSE NULL
      <4> SUFFICES ASSUME NEW i \in 1..(k - 1)
                   PROVE  next'[q[i]] = IF i < k - 1 THEN q[i + 1] ELSE NULL
        OBVIOUS
      <4>1. CASE i = k - 1
        BY <3>4, <4>1
      <4>2. CASE i # k - 1
        BY <1>5, <2>1, <3>5, <4>2
      <4> QED
        BY <4>1, <4>2
    <3> QED
      BY <1>5, <1>9, <1>12, <3>1, <3>6 DEF Linked
  <2> QED
    BY <2>2, <2>3
<1>14. cur'[m] = NULL
  BY <1>7, <1>8 DEF ChainTypeOK
<1>15. \A i \in 1..(k - 1) : q[i] \in used' /\ Owner[info[q[i]].sector] = m /\ ~info[q[i]].lock
  <2> SUFFICES ASSUME NEW i \in 1..(k - 1)
               PROVE  q[i] \in used' /\ Owner[info[q[i]].sector] = m /\ ~info[q[i]].lock
    OBVIOUS
  <2>1. i \in 1..k /\ i # k
    BY <1>5
  <2>2. q[i] # n
    BY <1>5, <1>9, <2>1
  <2>3. q[i] \in used /\ Owner[info[q[i]].sector] = m /\ (info[q[i]].lock <=> q[i] = cur[m])
    BY <1>2, <1>3, <2>1 DEF ChainList
  <2> QED
    BY <1>4, <1>7, <2>2, <2>3
<1>16. ChainList(m, r, head'[m], cur'[m], next', info', used')
  <2>1. \A i \in 1..Len(r) : r[i] \in used' /\ Owner[info'[r[i]].sector] = m
    BY <1>7, <1>12, <1>15
  <2>2. \A i \in 1..Len(r) : info'[r[i]].lock <=> r[i] = cur'[m]
    BY <1>5, <1>7, <1>12, <1>14, <1>15
  <2>3. \A i, j \in 1..Len(r) :
          i < j /\ info'[r[i]].sector = info'[r[j]].sector
            /\ ~info'[r[i]].lock /\ ~info'[r[j]].lock
            => info'[r[i]].type = "W" /\ info'[r[j]].type = "E"
    <3>1. \A i, j \in 1..k :
            i < j /\ info[q[i]].sector = info[q[j]].sector /\ ~info[q[i]].lock /\ ~info[q[j]].lock
              => info[q[i]].type = "W" /\ info[q[j]].type = "E"
      BY <1>2, <1>3 DEF ChainList
    <3> QED
      BY <1>7, <1>12, <3>1
  <2> QED
    BY <1>13, <1>14, <2>1, <2>2, <2>3 DEF ChainList
<1>17. ListBecomes(m, r)
  <2>1. \A a \in Module \ {m} : head'[a] = head[a] /\ cur'[a] = cur[a]
    BY <1>7, <1>8 DEF ChainTypeOK
  <2>2. \A i \in 1..k : Owner[info[q[i]].sector] = m
    BY <1>2, <1>3 DEF ChainList
  <2>3. \A x \in used : Owner[info[x].sector] # m =>
          x \in used' /\ next'[x] = next[x] /\ info'[x] = info[x]
    <3> SUFFICES ASSUME NEW x \in used, Owner[info[x].sector] # m
                 PROVE  x \in used' /\ next'[x] = next[x] /\ info'[x] = info[x]
      OBVIOUS
    <3>1. \A i \in 1..k : x # q[i]
      BY <2>2
    <3>2. x \in used' /\ info'[x] = info[x]
      BY <1>5, <1>7, <3>1
    <3>3. next'[x] = next[x]
      <4>1. CASE k = 1
        BY <1>7, <1>9, <4>1
      <4>2. CASE k # 1
        <5>1. k - 1 \in 1..k /\ n # head[m]
          BY <1>5, <1>9, <4>2
        <5> QED
          BY <1>7, <1>8, <3>1, <5>1 DEF ChainTypeOK
      <4> QED
        BY <4>1, <4>2
    <3> QED
      BY <3>2, <3>3
  <2>4. \A x \in used' : (x \in used /\ Owner[info[x].sector] # m)
                           \/ \E i \in 1..Len(r) : r[i] = x
    <3> SUFFICES ASSUME NEW x \in used', Owner[info[x].sector] = m
                 PROVE  \E i \in 1..Len(r) : r[i] = x
      BY <1>7
    <3>1. PICK i \in 1..k : q[i] = x
      BY <1>1, <1>3, <1>7 DEF ChainInv, InItsList
    <3>2. i \in 1..(k - 1)
      BY <1>5, <1>7, <3>1
    <3> QED
      BY <1>12, <3>1, <3>2
  <2> QED
    BY <1>16, <2>1, <2>3, <2>4 DEF ListBecomes
<1>18. BuffsOwned(info', used', buffUsed')
  <2>1. BuffsOwned(info, used, buffUsed) /\ buffUsed \subseteq Buff /\ info[n].type \in {"E", "W"}
    BY <1>5, <1>8 DEF ChainInv, ChainTypeOK, Info
  <2>2. buffUsed \ {info[n].buff} = buffUsed \ BuffsOf(info, {n})
    <3>1. CASE info[n].type = "W"
      BY <3>1 DEF BuffsOf
    <3>2. CASE info[n].type = "E"
      <4>1. info[n].buff = NULL /\ BuffsOf(info, {n}) = {}
        BY <1>5, <2>1, <3>2 DEF BuffsOwned, BuffsOf
      <4>2. NULL \notin buffUsed
        BY <2>1 DEF NULL, Buff
      <4> QED
        BY <4>1, <4>2
    <3> QED
      BY <2>1, <3>1, <3>2
  <2>3. BuffsOwned(info, used \ {n}, buffUsed \ BuffsOf(info, {n}))
    BY <1>5, <2>1, BuffsGivenBack
  <2> QED
    BY <1>7, <2>2, <2>3
<1>19. ListStep(ListFrom(q, info), Shape(ListFrom(r, info')), Mine(m))
  <2>1. PICK l : l = ListFrom(q, info)
    OBVIOUS
  <2>2. PICK g : g = ListFrom(r, info)
    OBVIOUS
  <2>3. /\ DOMAIN l = 1..k /\ Len(l) = k /\ l # <<>> /\ l[1] = info[n]
        /\ DOMAIN Shape(l) = 1..k /\ Len(Shape(l)) = k
        /\ \A i \in 1..k : Shape(l)[i] = Kind(info[q[k - i + 1]])
    <3>1. 1 \in 1..k /\ k - 1 + 1 = k /\ Len(q) \in Nat
      BY <1>3, <1>5
    <3>2. /\ DOMAIN l = 1..k /\ Len(l) = k /\ l # <<>>
          /\ \A i \in 1..k : l[i] = info[q[k - i + 1]]
          /\ DOMAIN Shape(l) = 1..k /\ Len(Shape(l)) = k
          /\ \A i \in 1..k : Shape(l)[i] = Kind(info[q[k - i + 1]])
      <4>1. /\ DOMAIN l = 1..k /\ Len(l) = k /\ l # <<>>
            /\ \A i \in 1..k : l[i] = info[q[k - i + 1]]
        BY <1>3, <1>5, <2>1, <3>1, ListFromIs
      <4>2. Shape(l) = [i \in 1..k |-> Kind(l[i])]
        BY <4>1 DEF Shape
      <4>3. DOMAIN Shape(l) = 1..k /\ Len(Shape(l)) = k
        BY <1>5, <4>2
      <4>4. \A i \in 1..k : Shape(l)[i] = Kind(info[q[k - i + 1]])
        BY <4>1, <4>2
      <4> QED
        BY <4>1, <4>3, <4>4
    <3>3. l[1] = info[n]
      BY <1>5, <3>1, <3>2
    <3> QED
      BY <3>2, <3>3
  <2>4. /\ DOMAIN Shape(g) = 1..(k - 1) /\ DOMAIN g = 1..(k - 1)
        /\ Shape(g) = [i \in 1..(k - 1) |-> Kind(g[i])]
        /\ \A i \in 1..(k - 1) : Shape(g)[i] = Kind(info[r[(k - 1) - i + 1]])
    <3>1. Len(r) = k - 1 /\ k - 1 \in Nat
      BY <1>5, <1>12
    <3>2. /\ DOMAIN Shape(g) = 1..(k - 1) /\ DOMAIN g = 1..(k - 1)
          /\ \A i \in 1..(k - 1) : Shape(g)[i] = Kind(info[r[(k - 1) - i + 1]])
      <4>1. DOMAIN g = 1..(k - 1) /\ \A i \in 1..(k - 1) : g[i] = info[r[(k - 1) - i + 1]]
        BY <2>2, <3>1 DEF ListFrom
      <4>2. Shape(g) = [i \in 1..(k - 1) |-> Kind(g[i])]
        BY <4>1 DEF Shape
      <4> QED
        BY <4>1, <4>2
    <3> QED
      BY <3>2 DEF Shape
  <2>5. PICK s : s = Shape(l)
    OBVIOUS
  <2>6. s = [i \in 1..k |-> s[i]] /\ s # <<>>
    <3>1. s = [i \in DOMAIN l |-> Kind(l[i])]
      BY <2>5 DEF Shape
    <3> QED
      BY <1>5, <2>3, <3>1
  <2>7. Len(s) = k /\ Tail(s) = [i \in 1..(k - 1) |-> s[i + 1]]
    <3>1. Len(s) = k
      BY <2>3, <2>5
    <3>2. s \in Seq({s[i] : i \in 1..k})
      BY <1>5, <2>6
    <3>3. /\ Tail(s) \in Seq({s[i] : i \in 1..k}) /\ Len(Tail(s)) = k - 1
          /\ \A i \in 1..Len(Tail(s)) : Tail(s)[i] = s[i + 1]
      BY <2>6, <3>1, <3>2, HeadTailProperties
    <3>4. PICK t : t = Tail(s)
      OBVIOUS
    <3>5. DOMAIN t = 1..(k - 1) /\ t = [i \in DOMAIN t |-> t[i]]
      BY <3>3, <3>4, LenProperties
    <3>6. t = [i \in 1..(k - 1) |-> s[i + 1]]
      BY <3>3, <3>4, <3>5
    <3> QED
      BY <3>1, <3>4, <3>6
  <2>8. \A i \in 1..(k - 1) : Shape(g)[i] = s[i + 1]
    <3> SUFFICES ASSUME NEW i \in 1..(k - 1) PROVE Shape(g)[i] = s[i + 1]
      OBVIOUS
    <3>1. /\ i + 1 \in 1..k /\ (k - 1) - i + 1 = k - (i + 1) + 1
          /\ (k - 1) - i + 1 \in 1..(k - 1)
      BY <1>5
    <3>2. Shape(g)[i] = Kind(info[r[(k - 1) - i + 1]])
      BY <2>4
    <3>3. s[i + 1] = Kind(info[q[k - (i + 1) + 1]])
      BY <2>3, <2>5, <3>1
    <3>4. r[(k - 1) - i + 1] = q[(k - 1) - i + 1]
      BY <1>12, <3>1
    <3> QED
      BY <3>1, <3>2, <3>3, <3>4
  <2>9. Shape(g) = Tail(s)
    BY <2>4, <2>7, <2>8
  <2>10. l[1].lock
    BY <1>2, <1>3, <1>4, <1>5, <2>3 DEF ChainList
  <2> QED
    BY <1>7, <2>1, <2>2, <2>3, <2>5, <2>9, <2>10 DEF ListStep
<1> QED
  BY <1>1, <1>10, <1>17, <1>18, <1>19, StepIsOK

-----------------------------------------------------------------------------
(***************************************************************************)
(* A node in front of a list.                                              *)
(***************************************************************************)
Push(n, q) == [i \in 1..(Len(q) + 1) |-> IF i = 1 THEN n ELSE q[i - 1]]

InFront(r, n, q) ==
  /\ r \in Seq(Node) /\ Len(r) = Len(q) + 1 /\ r # <<>>
  /\ r[1] = n
  /\ \A i \in 1..Len(q) : r[i + 1] = q[i]
  /\ \A i \in 2..(Len(q) + 1) : r[i] = q[i - 1] /\ i - 1 \in 1..Len(q)
  /\ r[Len(q) + 1] = IF q = <<>> THEN n ELSE q[Len(q)]

\* What Push makes of a list.
LEMMA PushIs ==
  ASSUME NEW q \in Seq(Node), NEW n \in Node, NEW r, r = Push(n, q)
  PROVE  InFront(r, n, q)
<1>1. Len(q) \in Nat /\ (q = <<>> <=> Len(q) = 0) /\ \A i \in 1..Len(q) : q[i] \in Node
  OBVIOUS
<1>2. r \in [1..(Len(q) + 1) -> Node]
  BY <1>1 DEF Push
<1>3. r \in Seq(Node) /\ Len(r) = Len(q) + 1 /\ r # <<>>
  BY <1>1, <1>2
<1>4. \A i \in 1..(Len(q) + 1) : r[i] = IF i = 1 THEN n ELSE q[i - 1]
  BY DEF Push
<1>5. r[1] = n
  BY <1>1, <1>4
<1>6. ASSUME NEW i \in 1..Len(q) PROVE r[i + 1] = q[i]
  <2>1. i + 1 \in 1..(Len(q) + 1) /\ i + 1 # 1 /\ (i + 1) - 1 = i
    BY <1>1
  <2> QED
    BY <1>4, <2>1
<1>7. ASSUME NEW i \in 2..(Len(q) + 1) PROVE r[i] = q[i - 1] /\ i - 1 \in 1..Len(q)
  <2>1. i \in 1..(Len(q) + 1) /\ i # 1 /\ i - 1 \in 1..Len(q)
    BY <1>1
  <2> QED
    BY <1>4, <2>1
<1>8. r[Len(q) + 1] = IF q = <<>> THEN n ELSE q[Len(q)]
  <2>1. CASE q = <<>>
    BY <1>1, <1>5, <2>1
  <2>2. CASE q # <<>>
    <3>1. Len(q) \in 1..Len(q)
      BY <1>1, <2>2
    <3> QED
      BY <1>6, <2>2, <3>1
  <2> QED
    BY <2>1, <2>2
<1> QED
  BY <1>3, <1>5, <1>6, <1>7, <1>8 DEF InFront

\* When the node points to the old header the nodes are linked.
LEMMA PushLinked ==
  ASSUME NEW h, NEW nx \in [Node -> Node \cup {NULL}], NEW q, Linked(h, nx, q),
         NEW n \in Node, \A i \in 1..Len(q) : q[i] # n
  PROVE  Linked(n, [nx EXCEPT ![n] = h], Push(n, q))
<1>1. q \in Seq(Node) /\ Len(q) \in Nat /\ (q = <<>> <=> Len(q) = 0)
  BY LinkedFits DEF Linked
<1>2. PICK r : r = Push(n, q)
  OBVIOUS
<1>3. /\ r \in Seq(Node) /\ Len(r) = Len(q) + 1 /\ r # <<>> /\ r[1] = n
      /\ \A i \in 1..Len(q) : r[i + 1] = q[i]
      /\ \A i \in 2..(Len(q) + 1) : r[i] = q[i - 1] /\ i - 1 \in 1..Len(q)
  <2>1. InFront(r, n, q)
    BY <1>1, <1>2, PushIs
  <2> QED
    BY <1>1, <1>2, <2>1 DEF InFront
<1>4. PICK f : f = [nx EXCEPT ![n] = h]
  OBVIOUS
<1>5. f[n] = h /\ \A i \in 1..Len(q) : f[q[i]] = IF i < Len(q) THEN q[i + 1] ELSE NULL
  BY <1>1, <1>4 DEF Linked
<1>6. h = IF Len(q) = 0 THEN NULL ELSE q[1]
  BY <1>1 DEF Linked
<1>7. \A i \in 1..Len(r) : f[r[i]] = IF i < Len(r) THEN r[i + 1] ELSE NULL
  <2> SUFFICES ASSUME NEW i \in 1..Len(r)
               PROVE  f[r[i]] = IF i < Len(r) THEN r[i + 1] ELSE NULL
    OBVIOUS
  <2>1. CASE i = 1
    BY <1>1, <1>3, <1>5, <1>6, <2>1
  <2>2. CASE i # 1
    <3>1. i \in 2..(Len(q) + 1)
      BY <1>1, <1>3, <2>2
    <3>2. r[i] = q[i - 1] /\ i - 1 \in 1..Len(q)
      BY <1>3, <3>1
    <3>3. f[q[i - 1]] = IF i - 1 < Len(q) THEN q[(i - 1) + 1] ELSE NULL
      BY <1>5, <3>2
    <3>4. CASE i < Len(r)
      <4>1. i \in 1..Len(q) /\ i - 1 < Len(q) /\ (i - 1) + 1 = i
        BY <1>1, <1>3, <3>4
      <4> QED
        BY <1>3, <3>2, <3>3, <3>4, <4>1
    <3>5. CASE ~(i < Len(r))
      <4>1. ~(i - 1 < Len(q))
        BY <1>1, <1>3, <3>5
      <4> QED
        BY <3>2, <3>3, <3>5, <4>1
    <3> QED
      BY <3>4, <3>5
  <2> QED
    BY <2>1, <2>2
<1>8. \A i, j \in 1..Len(r) : r[i] = r[j] => i = j
  <2> SUFFICES ASSUME NEW i \in 1..Len(r), NEW j \in 1..Len(r), r[i] = r[j] PROVE i = j
    OBVIOUS
  <2>1. \A x, y \in 1..Len(q) : q[x] = q[y] => x = y
    BY DEF Linked
  <2>2. \A x \in 1..Len(r) : x # 1 => r[x] = q[x - 1] /\ x - 1 \in 1..Len(q)
    BY <1>1, <1>3
  <2>3. CASE i = 1 \/ j = 1
    BY <1>3, <2>2, <2>3
  <2>4. CASE i # 1 /\ j # 1
    <3>1. PICK x \in 1..Len(q) : x = i - 1 /\ r[i] = q[x]
      BY <2>2, <2>4
    <3>2. PICK y \in 1..Len(q) : y = j - 1 /\ r[j] = q[y]
      BY <2>2, <2>4
    <3>3. x = y
      BY <2>1, <3>1, <3>2
    <3> QED
      BY <1>1, <1>3, <3>1, <3>2, <3>3
  <2> QED
    BY <2>3, <2>4
<1> QED
  BY <1>2, <1>3, <1>4, <1>7, <1>8 DEF Linked

\* A new operation may be in front when none that waits for its sector forbids it.
LEMMA PushList ==
  ASSUME NEW m, NEW q, NEW h, NEW c, NEW nx \in [Node -> Node \cup {NULL}],
         NEW inf \in [Node -> Info], NEW u, ChainList(m, q, h, c, nx, inf, u),
         NEW n \in Node, n \notin u, NEW o \in Info, ~o.lock, Owner[o.sector] = m,
         \A i \in 1..Len(q) :
           inf[q[i]].sector = o.sector /\ ~inf[q[i]].lock => o.type = "W" /\ inf[q[i]].type = "E"
  PROVE  ChainList(m, Push(n, q), n, c, [nx EXCEPT ![n] = h], [inf EXCEPT ![n] = o], u \cup {n})
<1>1. Linked(h, nx, q) /\ q \in Seq(Node) /\ Len(q) \in Nat /\ (q = <<>> <=> Len(q) = 0)
  BY LinkedFits DEF ChainList, Linked
<1>2. PICK r : r = Push(n, q)
  OBVIOUS
<1>3. /\ r \in Seq(Node) /\ Len(r) = Len(q) + 1 /\ r # <<>> /\ r[1] = n
      /\ \A i \in 2..(Len(q) + 1) : r[i] = q[i - 1] /\ i - 1 \in 1..Len(q)
      /\ r[Len(q) + 1] = IF q = <<>> THEN n ELSE q[Len(q)]
  <2>1. InFront(r, n, q)
    BY <1>1, <1>2, PushIs
  <2> QED
    BY <1>1, <1>2, <2>1 DEF InFront
<1>4. PICK f : f = [inf EXCEPT ![n] = o]
  OBVIOUS
<1>5. \A i \in 1..Len(q) : q[i] # n /\ q[i] \in Node
  BY <1>1, LinkedFits DEF ChainList
<1>6. f[n] = o /\ \A i \in 1..Len(q) : f[q[i]] = inf[q[i]]
  BY <1>4, <1>5
<1>7. Linked(n, [nx EXCEPT ![n] = h], r)
  BY <1>1, <1>2, <1>5, PushLinked
<1>8. \A i \in 1..Len(r) : i = 1 \/ i \in 2..(Len(q) + 1)
  BY <1>1, <1>3
<1>9. \A i \in 1..Len(r) : \/ i = 1 /\ r[i] = n /\ f[r[i]] = o
                           \/ /\ i - 1 \in 1..Len(q) /\ i # 1
                              /\ r[i] = q[i - 1] /\ f[r[i]] = inf[q[i - 1]]
  <2> SUFFICES ASSUME NEW i \in 1..Len(r), i # 1
               PROVE  /\ i - 1 \in 1..Len(q)
                      /\ r[i] = q[i - 1] /\ f[r[i]] = inf[q[i - 1]]
    BY <1>3, <1>6
  <2> QED
    BY <1>3, <1>6, <1>8
<1>10. c # n
  BY <1>1, <1>5 DEF ChainList, NULL, Node
<1>11. \A i \in 1..Len(r) : r[i] \in u \cup {n} /\ Owner[f[r[i]].sector] = m
  BY <1>9 DEF ChainList
<1>12. c # NULL => c = r[Len(r)]
  BY <1>3 DEF ChainList
<1>13. \A i \in 1..Len(r) : f[r[i]].lock <=> r[i] = c
  BY <1>9, <1>10 DEF ChainList
<1>14. \A i, j \in 1..Len(r) :
         i < j /\ f[r[i]].sector = f[r[j]].sector /\ ~f[r[i]].lock /\ ~f[r[j]].lock
           => f[r[i]].type = "W" /\ f[r[j]].type = "E"
  <2> SUFFICES ASSUME NEW i \in 1..Len(r), NEW j \in 1..Len(r), i < j,
                      f[r[i]].sector = f[r[j]].sector, ~f[r[i]].lock, ~f[r[j]].lock
               PROVE  f[r[i]].type = "W" /\ f[r[j]].type = "E"
    OBVIOUS
  <2>1. j # 1 /\ j - 1 \in 1..Len(q) /\ f[r[j]] = inf[q[j - 1]]
    BY <1>1, <1>3, <1>9
  <2>2. CASE i = 1
    BY <1>9, <2>1, <2>2
  <2>3. CASE i # 1
    <3>1. i - 1 \in 1..Len(q) /\ f[r[i]] = inf[q[i - 1]]
      BY <1>9, <2>3
    <3>2. i - 1 < j - 1
      BY <1>1, <1>3
    <3> QED
      BY <2>1, <3>1, <3>2 DEF ChainList
  <2> QED
    BY <2>2, <2>3
<1> QED
  BY <1>2, <1>3, <1>4, <1>7, <1>11, <1>12, <1>13, <1>14 DEF ChainList

OnlyNew(q, n, o, inf, f) == f[n] = o /\ \A i \in 1..Len(q) : f[q[i]] = inf[q[i]]

\* PendingList sees the new operation appended.
LEMMA PushShape ==
  ASSUME NEW q \in Seq(Node), NEW n \in Node, NEW o, NEW inf, NEW f,
         OnlyNew(q, n, o, inf, f)
  PROVE  Shape(ListFrom(Push(n, q), f)) = Append(Shape(ListFrom(q, inf)), Kind(o))
<1>1. Len(q) \in Nat /\ \A i \in 1..Len(q) : q[i] \in Node
  OBVIOUS
<1>2. PICK k : k = Len(q)
  OBVIOUS
<1>3. PICK r : r = Push(n, q)
  OBVIOUS
<1>4. /\ Len(r) = k + 1 /\ r[1] = n
      /\ \A i \in 2..(k + 1) : r[i] = q[i - 1] /\ i - 1 \in 1..k
  <2>1. InFront(r, n, q)
    BY <1>2, <1>3, PushIs
  <2> QED
    BY <1>1, <1>2, <2>1 DEF InFront
<1>6. f[n] = o /\ \A i \in 1..k : f[q[i]] = inf[q[i]]
  BY <1>2 DEF OnlyNew
<1>7. PICK l : l = ListFrom(q, inf)
  OBVIOUS
<1>8. PICK g : g = ListFrom(r, f)
  OBVIOUS
<1>9. PICK s : s = Shape(l)
  OBVIOUS
<1>10. s = [i \in 1..k |-> Kind(inf[q[k - i + 1]])]
  <2>1. DOMAIN l = 1..k /\ \A i \in 1..k : l[i] = inf[q[k - i + 1]]
    BY <1>1, <1>2, <1>7, ListFromIs
  <2> QED
    BY <1>9, <2>1 DEF Shape
<1>11. Shape(g) = [i \in 1..(k + 1) |-> Kind(f[r[(k + 1) - i + 1]])]
  <2>1. k + 1 \in Nat
    BY <1>1, <1>2
  <2>2. DOMAIN g = 1..(k + 1) /\ \A i \in 1..(k + 1) : g[i] = f[r[(k + 1) - i + 1]]
    <3>1. Len(r) = k + 1
      BY <1>4
    <3>2. Len(r) \in Nat
      BY <2>1, <3>1
    <3>3. DOMAIN g = 1..Len(r) /\ \A i \in 1..Len(r) : g[i] = f[r[Len(r) - i + 1]]
      <4>1. /\ DOMAIN ListFrom(r, f) = 1..Len(r)
            /\ \A i \in 1..Len(r) : ListFrom(r, f)[i] = f[r[Len(r) - i + 1]]
        BY <3>2, ListFromIs
      <4> QED
        BY <1>8, <4>1
    <3> QED
      BY <3>1, <3>3
  <2> QED
    BY <2>2 DEF Shape
<1>12. s \in Seq({s[i] : i \in 1..k}) /\ Len(s) = k
  BY <1>1, <1>2, <1>10
<1>13. Append(s, Kind(o)) = [i \in 1..(k + 1) |-> IF i = k + 1 THEN Kind(o) ELSE s[i]]
  <2>1. s \in Seq({s[i] : i \in 1..k} \cup {Kind(o)})
    BY <1>1, <1>2, <1>10
  <2>2. PICK t : t = Append(s, Kind(o))
    OBVIOUS
  <2>3. /\ t \in Seq({s[i] : i \in 1..k} \cup {Kind(o)}) /\ Len(t) = k + 1
        /\ \A i \in 1..k : t[i] = s[i]
        /\ t[k + 1] = Kind(o)
    BY <1>12, <2>1, <2>2, AppendProperties
  <2>4. t = [i \in 1..(k + 1) |-> t[i]]
    BY <2>3
  <2>5. \A i \in 1..(k + 1) : t[i] = IF i = k + 1 THEN Kind(o) ELSE s[i]
    BY <1>1, <1>2, <2>3
  <2> QED
    BY <2>2, <2>4, <2>5
<1>14. \A i \in 1..(k + 1) :
         Kind(f[r[(k + 1) - i + 1]]) = IF i = k + 1 THEN Kind(o) ELSE s[i]
  <2> SUFFICES ASSUME NEW i \in 1..(k + 1)
               PROVE  Kind(f[r[(k + 1) - i + 1]]) = IF i = k + 1 THEN Kind(o) ELSE s[i]
    OBVIOUS
  <2>1. CASE i = k + 1
    <3>1. (k + 1) - i + 1 = 1
      BY <1>1, <1>2, <2>1
    <3> QED
      BY <1>4, <1>6, <2>1, <3>1
  <2>2. CASE i # k + 1
    <3>1. /\ (k + 1) - i + 1 \in 2..(k + 1) /\ ((k + 1) - i + 1) - 1 = k - i + 1
          /\ i \in 1..k /\ k - i + 1 \in 1..k
      BY <1>1, <1>2, <2>2
    <3>2. r[(k + 1) - i + 1] = q[k - i + 1]
      BY <1>4, <3>1
    <3>3. s[i] = Kind(inf[q[k - i + 1]])
      BY <1>10, <3>1
    <3> QED
      BY <1>6, <2>2, <3>1, <3>2, <3>3
  <2> QED
    BY <2>1, <2>2
<1>15. Shape(g) = Append(s, Kind(o))
  BY <1>11, <1>13, <1>14
<1> QED
  BY <1>3, <1>7, <1>8, <1>9, <1>15

\* Its buffer, if it has one, is new.
LEMMA PushBuffs ==
  ASSUME NEW inf \in [Node -> Info], NEW u \in SUBSET Node, NEW bu, BuffsOwned(inf, u, bu),
         NEW n \in Node, n \notin u, NEW o
  PROVE  /\ o.type = "E" /\ o.buff = NULL => BuffsOwned([inf EXCEPT ![n] = o], u \cup {n}, bu)
         /\ o.type = "W" /\ o.buff \notin bu =>
              BuffsOwned([inf EXCEPT ![n] = o], u \cup {n}, bu \cup {o.buff})
<1>1. PICK f : f = [inf EXCEPT ![n] = o]
  OBVIOUS
<1>2. f[n] = o /\ \A x \in u : f[x] = inf[x]
  BY <1>1
<1>3. /\ \A x \in u : inf[x].type = "E" => inf[x].buff = NULL
      /\ bu = {inf[x].buff : x \in {x \in u : inf[x].type = "W"}}
      /\ \A a, b \in u :
           inf[a].type = "W" /\ inf[b].type = "W" /\ inf[a].buff = inf[b].buff => a = b
  BY DEF BuffsOwned
<1>4. ASSUME o.type = "E", o.buff = NULL PROVE BuffsOwned(f, u \cup {n}, bu)
  <2>1. {x \in u \cup {n} : f[x].type = "W"} = {x \in u : inf[x].type = "W"}
    BY <1>2, <1>4
  <2>2. {f[x].buff : x \in {x \in u : inf[x].type = "W"}} = bu
    BY <1>2, <1>3
  <2>3. \A a, b \in u \cup {n} :
          f[a].type = "W" /\ f[b].type = "W" /\ f[a].buff = f[b].buff => a = b
    BY <1>2, <1>3, <1>4
  <2>4. \A x \in u \cup {n} : f[x].type = "E" => f[x].buff = NULL
    BY <1>2, <1>3, <1>4
  <2> QED
    BY <2>1, <2>2, <2>3, <2>4 DEF BuffsOwned
<1>5. ASSUME o.type = "W", o.buff \notin bu PROVE BuffsOwned(f, u \cup {n}, bu \cup {o.buff})
  <2>1. {x \in u \cup {n} : f[x].type = "W"} = {x \in u : inf[x].type = "W"} \cup {n}
    BY <1>2, <1>5
  <2>2. {f[x].buff : x \in {x \in u : inf[x].type = "W"}} = bu
    BY <1>2, <1>3
  <2>3. {f[x].buff : x \in {x \in u : inf[x].type = "W"} \cup {n}} = bu \cup {o.buff}
    BY <1>2, <2>2
  <2>4. \A x \in u : inf[x].type = "W" => inf[x].buff # o.buff
    BY <1>3, <1>5
  <2>5. \A a, b \in u \cup {n} :
          f[a].type = "W" /\ f[b].type = "W" /\ f[a].buff = f[b].buff => a = b
    BY <1>2, <1>3, <2>4
  <2>6. \A x \in u \cup {n} : f[x].type = "E" => f[x].buff = NULL
    BY <1>2, <1>3, <1>5
  <2> QED
    BY <2>1, <2>3, <2>5, <2>6 DEF BuffsOwned
<1> QED
  BY <1>1, <1>4, <1>5

-----------------------------------------------------------------------------
(***************************************************************************)
(* The list of m is q when what an operation makes useless was taken out.  *)
(***************************************************************************)
Dropped(m, q, h, nx, u, bu) ==
  /\ ChainList(m, q, h, cur[m], nx, info, u)
  /\ nx \in [Node -> Node \cup {NULL}] /\ h \in Node \cup {NULL}
  /\ \A x \in used : Owner[info[x].sector] # m => x \in u /\ nx[x] = next[x]
  /\ \A x \in u : /\ x \in used
                  /\ Owner[info[x].sector] # m \/ \E i \in 1..Len(q) : q[i] = x
  /\ BuffsOwned(info, u, bu) /\ bu \subseteq Buff

\* Nothing was taken out.
LEMMA NoneDropped ==
  ASSUME ChainInv, NEW m \in Module
  PROVE  Dropped(m, Walk(m), head[m], next, used, buffUsed)
BY DEF ChainInv, ChainTypeOK, InItsList, Dropped

\* It may be left at that.
LEMMA DropBecomes ==
  ASSUME ChainInv, NEW m \in Module, NEW q, NEW h, NEW nx, NEW u, NEW bu,
         Dropped(m, q, h, nx, u, bu),
         head' = [head EXCEPT ![m] = h], next' = nx, used' = u, buffUsed' = bu,
         info' = info, cur' = cur
  PROVE  ChainTypeOK' /\ ListBecomes(m, q) /\ BuffsOwned(info', used', buffUsed')
<1>1. ChainTypeOK
  BY DEF ChainInv
<1>2. ChainTypeOK' /\ head'[m] = h /\ \A a \in Module \ {m} : head'[a] = head[a]
  BY <1>1 DEF ChainTypeOK, Dropped
<1> QED
  BY <1>2 DEF Dropped, ListBecomes

(***************************************************************************)
(* Or the node n is put in front, for the operation o.                     *)
(***************************************************************************)
MayPush(m, q, u, n, o) ==
  /\ n \in Node /\ n \notin u
  /\ o \in Info /\ ~o.lock /\ Owner[o.sector] = m
  /\ \A i \in 1..Len(q) :
       info[q[i]].sector = o.sector /\ ~info[q[i]].lock
         => o.type = "W" /\ info[q[i]].type = "E"

Pushes(m, h, nx, u, bu, n, o) ==
  /\ head' = [head EXCEPT ![m] = n] /\ next' = [nx EXCEPT ![n] = h] /\ used' = u \cup {n}
  /\ info' = [info EXCEPT ![n] = o] /\ cur' = cur
  /\ \/ o.type = "E" /\ o.buff = NULL /\ buffUsed' = bu
     \/ o.type = "W" /\ o.buff \in Buff \ bu /\ buffUsed' = bu \cup {o.buff}

\* Then that is what the list becomes, with one operation more.
LEMMA PushBecomes ==
  ASSUME ChainInv, NEW m \in Module, NEW q, NEW h, NEW nx, NEW u, NEW bu,
         Dropped(m, q, h, nx, u, bu), NEW n, NEW o, MayPush(m, q, u, n, o),
         Pushes(m, h, nx, u, bu, n, o)
  PROVE  /\ ChainTypeOK' /\ ListBecomes(m, Push(n, q)) /\ BuffsOwned(info', used', buffUsed')
         /\ Shape(ListFrom(Push(n, q), info')) = Append(Shape(ListFrom(q, info)), Kind(o))
<1>0. /\ n \in Node /\ n \notin u /\ o \in Info /\ ~o.lock /\ Owner[o.sector] = m
      /\ \A i \in 1..Len(q) :
           info[q[i]].sector = o.sector /\ ~info[q[i]].lock
             => o.type = "W" /\ info[q[i]].type = "E"
      /\ head' = [head EXCEPT ![m] = n] /\ next' = [nx EXCEPT ![n] = h] /\ used' = u \cup {n}
      /\ info' = [info EXCEPT ![n] = o] /\ cur' = cur
  BY DEF MayPush, Pushes
<1>1. ChainTypeOK
  BY DEF ChainInv
<1>2. ChainTypeOK' /\ head'[m] = n /\ \A a \in Module \ {m} : head'[a] = head[a]
  <2>1. buffUsed' \subseteq Buff
    BY DEF Dropped, Pushes
  <2>2. used' \subseteq Node
    BY <1>0, <1>1 DEF ChainTypeOK, Dropped
  <2> QED
    BY <1>0, <1>1, <2>1, <2>2 DEF ChainTypeOK, Dropped
<1>3. info \in [Node -> Info] /\ nx \in [Node -> Node \cup {NULL}] /\ u \in SUBSET Node
  BY <1>1 DEF ChainTypeOK, Dropped
<1>4. ChainList(m, Push(n, q), n, cur[m], next', info', used')
  <2>1. ChainList(m, q, h, cur[m], nx, info, u)
    BY DEF Dropped
  <2> QED
    BY <1>0, <1>3, <2>1, PushList
<1>5. BuffsOwned(info', used', buffUsed')
  <2>1. BuffsOwned(info, u, bu)
    BY DEF Dropped
  <2>2. CASE o.type = "E" /\ o.buff = NULL /\ buffUsed' = bu
    BY <1>0, <1>3, <2>1, <2>2, PushBuffs
  <2>3. CASE o.type = "W" /\ o.buff \in Buff \ bu /\ buffUsed' = bu \cup {o.buff}
    BY <1>0, <1>3, <2>1, <2>3, PushBuffs
  <2> QED
    BY <2>2, <2>3 DEF Pushes
<1>6. q \in Seq(Node) /\ Len(q) \in Nat /\ \A i \in 1..Len(q) : q[i] # n
  BY <1>0, LinkedFits DEF Dropped, ChainList, Linked
<1>7. ListBecomes(m, Push(n, q))
  <2>1. \A x \in used : Owner[info[x].sector] # m =>
          x \in used' /\ next'[x] = next[x] /\ info'[x] = info[x]
    <3> SUFFICES ASSUME NEW x \in used, Owner[info[x].sector] # m
                 PROVE  x \in used' /\ next'[x] = next[x] /\ info'[x] = info[x]
      OBVIOUS
    <3>1. x \in u /\ nx[x] = next[x] /\ x # n /\ x \in Node
      BY <1>0, <1>3 DEF Dropped
    <3> QED
      BY <1>0, <1>3, <3>1
  <2>2. PICK r : r = Push(n, q)
    OBVIOUS
  <2>3. /\ Len(r) = Len(q) + 1 /\ r[1] = n
        /\ \A i \in 1..Len(q) : r[i + 1] = q[i]
    <3>1. InFront(r, n, q)
      BY <1>0, <1>6, <2>2, PushIs
    <3> QED
      BY <3>1 DEF InFront
  <2>4. \A x \in used' : (x \in used /\ Owner[info[x].sector] # m)
                           \/ \E i \in 1..Len(r) : r[i] = x
    <3> SUFFICES ASSUME NEW x \in used', ~(x \in used /\ Owner[info[x].sector] # m)
                 PROVE  \E i \in 1..Len(r) : r[i] = x
      OBVIOUS
    <3>1. CASE x = n
      <4>1. 1 \in 1..Len(r)
        BY <1>6, <2>3
      <4> QED
        BY <2>3, <3>1, <4>1
    <3>2. CASE x \in u
      <4>1. PICK i \in 1..Len(q) : q[i] = x
        BY <3>2 DEF Dropped
      <4>2. i + 1 \in 1..Len(r)
        BY <1>6, <2>3
      <4> QED
        BY <2>3, <4>1, <4>2
    <3> QED
      BY <1>0, <3>1, <3>2
  <2>5. \A a \in Module \ {m} : head'[a] = head[a] /\ cur'[a] = cur[a]
    BY <1>0, <1>2
  <2>6. ChainList(m, r, head'[m], cur'[m], next', info', used')
    BY <1>0, <1>2, <1>4, <2>2
  <2>7. ListBecomes(m, r)
    BY <2>1, <2>4, <2>5, <2>6 DEF ListBecomes
  <2> QED
    BY <2>2, <2>7
<1>8. Shape(ListFrom(Push(n, q), info')) = Append(Shape(ListFrom(q, info)), Kind(o))
  <2>1. PICK f : f = info'
    OBVIOUS
  <2>2. OnlyNew(q, n, o, info, f)
    BY <1>0, <1>3, <1>6, <2>1 DEF OnlyNew
  <2>3. Shape(ListFrom(Push(n, q), f)) = Append(Shape(ListFrom(q, info)), Kind(o))
    BY <1>0, <1>6, <2>2, PushShape
  <2> QED
    BY <2>1, <2>3
<1> QED
  BY <1>2, <1>5, <1>7, <1>8

-----------------------------------------------------------------------------
(***************************************************************************)
(* A write that merges into none finds no other write waiting.             *)
(***************************************************************************)
LEMMA NoWaitingWrite ==
  ASSUME NEW m, NEW q, NEW h, NEW c, NEW nx, NEW inf \in [Node -> Info], NEW u,
         ChainList(m, q, h, c, nx, inf, u), NEW s,
         \A i \in DOMAIN ListFrom(q, inf) : ~MergesInto(ListFrom(q, inf), s, i),
         NEW i \in 1..Len(q), inf[q[i]].sector = s, ~inf[q[i]].lock
  PROVE  inf[q[i]].type = "E"
<1>0. PICK k : k = Len(q)
  OBVIOUS
<1>1. PICK l : l = ListFrom(q, inf)
  OBVIOUS
<1>2. k \in Nat /\ q \in Seq(Node) /\ \A x \in 1..k : q[x] \in Node
  BY <1>0, LinkedFits DEF ChainList, Linked
<1>3. DOMAIN l = 1..k /\ \A x \in 1..k : l[x] = inf[q[k - x + 1]]
  BY <1>0, <1>1, <1>2, ListFromIs
<1>4. \A x \in 1..k : inf[q[x]].type \in {"E", "W"}
  BY <1>2 DEF Info
<1> SUFFICES ASSUME inf[q[i]].type = "W" PROVE FALSE
  BY <1>0, <1>4
<1> DEFINE S == {x \in OnSector(l, s) : ~PassedBy(l[x])}
           j == Max(S)
<1>5. k - i + 1 \in 1..k /\ k - (k - i + 1) + 1 = i /\ i \in 1..k
  BY <1>0, <1>2
<1>6. l[k - i + 1] = inf[q[i]]
  BY <1>3, <1>5
<1>7. k - i + 1 \in S
  BY <1>3, <1>5, <1>6 DEF OnSector, PassedBy
<1>8. S \in SUBSET (1..k)
  BY <1>3 DEF OnSector
<1>9. j \in S /\ \A x \in S : j >= x
  <2> HIDE DEF S
  <2> QED
    BY <1>2, <1>7, <1>8, MaxIs
<1>10. j \in OnSector(l, s) /\ ~PassedBy(l[j]) /\ j \in 1..k
  BY <1>8, <1>9
<1>11. \A x \in OnSector(l, s) : x > j => PassedBy(l[x])
  <2> SUFFICES ASSUME NEW x \in OnSector(l, s), x > j, ~PassedBy(l[x]) PROVE FALSE
    OBVIOUS
  <2>1. x \in S
    OBVIOUS
  <2>2. j >= x
    BY <1>9, <2>1
  <2>3. x \in 1..k
    BY <1>8, <2>1
  <2> QED
    BY <1>2, <1>10, <2>2, <2>3
<1>12. j >= k - i + 1
  BY <1>7, <1>9
<1> HIDE DEF S, j
<1>13. FoundFirst(l, s, j)
  BY <1>10, <1>11 DEF FoundFirst
<1>14. l[j].type # "W"
  BY <1>1, <1>3, <1>10, <1>13 DEF MergesInto
<1>15. PICK p \in 1..k : p = k - j + 1
  BY <1>2, <1>10
<1>16. l[j] = inf[q[p]] /\ p <= i /\ p # i
  BY <1>2, <1>3, <1>5, <1>6, <1>10, <1>12, <1>14, <1>15
<1>17. inf[q[p]].sector = s /\ inf[q[p]].type = "E"
  BY <1>4, <1>10, <1>14, <1>16 DEF OnSector
<1>18. ~inf[q[p]].lock
  <2> SUFFICES ASSUME inf[q[p]].lock PROVE FALSE
    OBVIOUS
  <2>1. q[p] = c
    BY <1>0 DEF ChainList
  <2>2. c # NULL
    BY <1>2, <2>1 DEF Node, NULL
  <2>3. c = q[k]
    BY <1>0, <2>2 DEF ChainList
  <2>4. p = k
    <3>1. k \in 1..k
      BY <1>2, <1>15
    <3> QED
      BY <1>0, <2>1, <2>3, <3>1 DEF ChainList, Linked
  <2> QED
    BY <1>2, <1>5, <1>16, <2>4
<1> QED
  BY <1>0, <1>2, <1>5, <1>16, <1>17, <1>18 DEF ChainList

\* A write is added.
LEMMA WriteAddOK ==
  ASSUME ChainInv, NEW s \in Sector, WriteAdd(s)
  PROVE  StepOK
<1>1. PICK m \in Module : m = Owner[s]
  BY ChainAssumption
<1>2. PICK q : q = Walk(m)
  OBVIOUS
<1>3. ChainTypeOK /\ Dropped(m, q, head[m], next, used, buffUsed)
  BY <1>2, NoneDropped DEF ChainInv
<1>4. PICK n \in Node : n = Min(FreeNodes(used)) /\ n \notin used
  <2>1. FreeNodes(used) \in SUBSET Nat /\ FreeNodes(used) # {}
    BY <1>1 DEF WriteAdd, FreeNodes, Node
  <2> QED
    BY <2>1, MinIn DEF FreeNodes
<1>5. PICK b \in Buff : b = Min(FreeBuffs(buffUsed)) /\ b \notin buffUsed
  <2>1. FreeBuffs(buffUsed) \in SUBSET Nat /\ FreeBuffs(buffUsed) # {}
    BY <1>1 DEF WriteAdd, FreeBuffs, Buff
  <2> QED
    BY <2>1, MinIn DEF FreeBuffs
<1>6. PICK o : o = [type |-> "W", sector |-> s, buff |-> b, lock |-> FALSE]
  OBVIOUS
<1>7. o \in Info /\ o.type = "W" /\ o.sector = s /\ o.buff = b /\ ~o.lock
  BY <1>5, <1>6 DEF Info
<1>8. /\ head' = [head EXCEPT ![m] = n] /\ next' = [next EXCEPT ![n] = head[m]]
      /\ used' = used \cup {n} /\ info' = [info EXCEPT ![n] = o] /\ cur' = cur
      /\ buffUsed' = buffUsed \cup {b}
      /\ \A i \in DOMAIN List(m) : ~MergesInto(List(m), s, i)
  BY <1>1, <1>4, <1>5, <1>6 DEF WriteAdd, Link
<1>9. ChainList(m, q, head[m], cur[m], next, info, used) /\ info \in [Node -> Info]
  BY <1>3 DEF Dropped, ChainTypeOK
<1>10. \A i \in DOMAIN ListFrom(q, info) : ~MergesInto(ListFrom(q, info), s, i)
  BY <1>2, <1>8, ListIs
<1>11. ASSUME NEW i \in 1..Len(q), info[q[i]].sector = o.sector, ~info[q[i]].lock
       PROVE  o.type = "W" /\ info[q[i]].type = "E"
  BY <1>7, <1>9, <1>10, <1>11, NoWaitingWrite
<1>12. /\ ChainTypeOK' /\ ListBecomes(m, Push(n, q)) /\ BuffsOwned(info', used', buffUsed')
       /\ Shape(ListFrom(Push(n, q), info')) = Append(Shape(ListFrom(q, info)), Kind(o))
  <2>1. MayPush(m, q, used, n, o)
    BY <1>1, <1>4, <1>7, <1>11 DEF MayPush
  <2>2. Pushes(m, head[m], next, used, buffUsed, n, o)
    BY <1>5, <1>7, <1>8 DEF Pushes
  <2> QED
    BY <1>3, <2>1, <2>2, PushBecomes
<1>13. Kind(o) = <<"W", s, FALSE>>
  BY <1>6 DEF Kind
<1>14. ListStep(ListFrom(Walk(m), info), Shape(ListFrom(Push(n, q), info')), Mine(m))
  BY <1>1, <1>2, <1>12, <1>13 DEF ListStep, Mine
<1> QED
  BY <1>3, <1>12, <1>14, StepIsOK

-----------------------------------------------------------------------------
(***************************************************************************)
(* The loop of _e_opera_add goes round by round: vs[k] is what it has      *)
(* changed after the first k nodes.                                        *)
(***************************************************************************)
LoopStart(m) ==
  [head |-> head[m], pre |-> head[m], next |-> next, used |-> used,
   buffUsed |-> buffUsed, merged |-> FALSE]

Rounds(s, w, start, vs) ==
  /\ vs[0] = start
  /\ \A k \in 1..Len(w) : vs[k] = EraseRound(s, next[w[k]], w[k], vs[k - 1])

\* The rounds exist, and the loop ends with the last.
LEMMA LoopIsRounds ==
  ASSUME NEW m, NEW s, NEW w, w = Walk(m), Len(w) \in Nat, DOMAIN w = 1..Len(w)
  PROVE  \E vs : Rounds(s, w, LoopStart(m), vs) /\ EraseLoop(m, s) = vs[Len(w)]
<1> DEFINE L == Len(w)
           b == LoopStart(m)
           F(f, k) == [S \in SUBSET (1..k) |->
                         IF S = {} THEN b
                         ELSE EraseRound(s, next[w[Max(S)]], w[Max(S)], f[S \ {Max(S)}])]
           Folds(k) == \E f : f = F(f, k)
           G == {k \in 0..L : Folds(k)}
           iter == CHOOSE f : f = F(f, L)
<1>1. EraseLoop(m, s) = iter[1..L]
  BY DEF EraseLoop, LoopStart, FoldLeft, MapThenFoldSet
<1>2. 0 \in G
  <2>1. PICK f : f = [S \in SUBSET (1..0) |-> b]
    OBVIOUS
  <2>2. \A S \in SUBSET (1..0) : S = {}
    OBVIOUS
  <2>3. f = F(f, 0)
    BY <2>1, <2>2
  <2>4. Folds(0) /\ 0 \in 0..L
    BY <2>3
  <2> HIDE DEF Folds
  <2> QED
    BY <2>4
<1>3. ASSUME NEW k \in 1..L, k - 1 \in G PROVE k \in G
  <2>1. PICK f : f = F(f, k - 1)
    <3>1. Folds(k - 1)
      <4> HIDE DEF Folds
      <4> QED
        BY <1>3
    <3> QED
      BY <3>1
  <2>2. PICK g : g = [S \in SUBSET (1..k) |->
                        IF k \notin S THEN f[S]
                        ELSE EraseRound(s, next[w[k]], w[k], f[S \ {k}])]
    OBVIOUS
  <2>3. ASSUME NEW S \in SUBSET (1..k), S # {}
        PROVE  Max(S) \in S /\ \A i \in S : Max(S) >= i
    <3>1. k \in Nat
      OBVIOUS
    <3> QED
      BY <2>3, <3>1, MaxIs
  <2>4. ASSUME NEW S \in SUBSET (1..k)
        PROVE  g[S] = IF S = {} THEN b
                      ELSE EraseRound(s, next[w[Max(S)]], w[Max(S)], g[S \ {Max(S)}])
    <3>1. CASE k \notin S
      <4>1. S \in SUBSET (1..(k - 1)) /\ g[S] = f[S]
        BY <2>2, <3>1
      <4>2. f[S] = IF S = {} THEN b
                   ELSE EraseRound(s, next[w[Max(S)]], w[Max(S)], f[S \ {Max(S)}])
        BY <2>1, <4>1
      <4>3. g[S \ {Max(S)}] = f[S \ {Max(S)}]
        BY <2>2, <3>1
      <4> QED
        BY <4>1, <4>2, <4>3
    <3>2. CASE k \in S
      <4>1. Max(S) \in 1..k /\ Max(S) >= k
        BY <2>3, <3>2
      <4>2. Max(S) = k
        BY <4>1
      <4>3. g[S] = EraseRound(s, next[w[k]], w[k], f[S \ {k}])
        BY <2>2, <3>2
      <4>4. g[S \ {k}] = f[S \ {k}]
        BY <2>2
      <4> QED
        BY <3>2, <4>2, <4>3, <4>4
    <3> QED
      BY <3>1, <3>2
  <2>5. DOMAIN g = SUBSET (1..k) /\ g = [S \in SUBSET (1..k) |-> g[S]]
    BY <2>2
  <2>6. g = F(g, k)
    BY <2>4, <2>5
  <2>7. Folds(k)
    <3> WITNESS g
    <3> QED
      BY <2>6
  <2>8. k \in 0..L
    OBVIOUS
  <2> HIDE DEF Folds
  <2> QED
    BY <2>7, <2>8
<1>4. L \in G
  <2>1. L \in Nat
    OBVIOUS
  <2> HIDE DEF G, L
  <2>2. \A k \in 0..L : k \in G
    BY <1>2, <1>3, <2>1, Upward
  <2> QED
    BY <2>1, <2>2
<1>5. iter = F(iter, L)
  BY <1>4
<1> HIDE DEF iter
<1>6. ASSUME NEW k \in 1..L
      PROVE  iter[1..k] = EraseRound(s, next[w[k]], w[k], iter[1..(k - 1)])
  <2>1. PICK S \in SUBSET (1..L) : S = 1..k
    OBVIOUS
  <2>2. S # {} /\ Max(S) \in S /\ Max(S) >= k
    <3>1. k \in S
      BY <2>1
    <3> QED
      BY <3>1, MaxIs
  <2>3. Max(S) = k
    BY <2>1, <2>2
  <2>4. S \ {k} = 1..(k - 1)
    BY <2>1
  <2>5. iter[S] = EraseRound(s, next[w[Max(S)]], w[Max(S)], iter[S \ {Max(S)}])
    BY <1>5, <2>2
  <2> QED
    BY <2>1, <2>3, <2>4, <2>5
<1>7. iter[1..0] = b
  <2>1. 1..0 = {} /\ {} \in SUBSET (1..L)
    OBVIOUS
  <2> QED
    BY <1>5, <2>1
<1>8. PICK vs : vs = [k \in 0..L |-> iter[1..k]]
  OBVIOUS
<1>9. vs[0] = b /\ \A k \in 1..L : vs[k] = EraseRound(s, next[w[k]], w[k], vs[k - 1])
  <2>1. \A k \in 0..L : vs[k] = iter[1..k]
    BY <1>8
  <2>2. 0 \in 0..L /\ \A k \in 1..L : k \in 0..L /\ k - 1 \in 0..L
    OBVIOUS
  <2> HIDE DEF L
  <2> QED
    BY <1>6, <1>7, <2>1, <2>2
<1>10. vs[L] = iter[1..L]
  BY <1>8
<1> QED
  BY <1>1, <1>9, <1>10 DEF Rounds

-----------------------------------------------------------------------------
(***************************************************************************)
(* One round, field by field.                                              *)
(***************************************************************************)
LoopState ==
  [head : Node \cup {NULL}, pre : Node \cup {NULL}, next : [Node -> Node \cup {NULL}],
   used : SUBSET Node, buffUsed : SUBSET Buff, merged : BOOLEAN]

StaleNode(s, n) == info[n].sector = s /\ ~info[n].lock

Absorbs(s, n) == info[n].sector = s /\ info[n].lock /\ info[n].type = "E"

RoundIs(s, tmp, n, v, r) ==
  /\ r \in LoopState /\ r.merged = v.merged
  /\ r.pre = IF tmp # NULL THEN n ELSE v.pre
  /\ r.used = IF StaleNode(s, n) THEN v.used \ {n} ELSE v.used
  /\ r.buffUsed = IF StaleNode(s, n) /\ info[n].type = "W"
                  THEN v.buffUsed \ {info[n].buff} ELSE v.buffUsed
  /\ r.head = IF StaleNode(s, n) /\ n = v.head THEN tmp ELSE v.head
  /\ r.next = IF StaleNode(s, n) /\ n # v.head THEN [v.next EXCEPT ![v.pre] = tmp] ELSE v.next

\* A round that neither ends the loop nor comes after its end.
LEMMA RoundByField ==
  ASSUME NEW s, NEW n \in Node, NEW tmp \in Node \cup {NULL}, NEW v \in LoopState,
         ~v.merged, ~Absorbs(s, n)
  PROVE  RoundIs(s, tmp, n, v, EraseRound(s, tmp, n, v))
<1> DEFINE f == Freed(v, n)
           w == IF ~StaleNode(s, n) THEN v
                ELSE [f EXCEPT !.head = IF n = @ THEN tmp ELSE @,
                               !.next = IF n = v.head THEN @ ELSE [@ EXCEPT ![v.pre] = tmp]]
           r == IF tmp # NULL THEN [w EXCEPT !.pre = n] ELSE w
<1>1. EraseRound(s, tmp, n, v) = r
  BY DEF EraseRound, Absorbs, StaleNode
<1>2. /\ f \in LoopState /\ f.merged = v.merged /\ f.pre = v.pre
      /\ f.head = v.head /\ f.next = v.next /\ f.used = v.used \ {n}
      /\ f.buffUsed = IF info[n].type = "W" THEN v.buffUsed \ {info[n].buff} ELSE v.buffUsed
  <2>1. CASE info[n].type = "W"
    <3>1. f = [v EXCEPT !.used = v.used \ {n}, !.buffUsed = v.buffUsed \ {info[n].buff}]
      BY <2>1 DEF Freed
    <3> QED
      BY <2>1, <3>1 DEF LoopState
  <2>2. CASE info[n].type # "W"
    <3>1. f = [v EXCEPT !.used = v.used \ {n}, !.buffUsed = v.buffUsed]
      BY <2>2 DEF Freed
    <3> QED
      BY <2>2, <3>1 DEF LoopState
  <2> QED
    BY <2>1, <2>2
<1> HIDE DEF f
<1>3. /\ w \in LoopState /\ w.merged = v.merged /\ w.pre = v.pre
      /\ w.used = IF StaleNode(s, n) THEN v.used \ {n} ELSE v.used
      /\ w.buffUsed = IF StaleNode(s, n) /\ info[n].type = "W"
                      THEN v.buffUsed \ {info[n].buff} ELSE v.buffUsed
      /\ w.head = IF StaleNode(s, n) /\ n = v.head THEN tmp ELSE v.head
      /\ w.next = IF StaleNode(s, n) /\ n # v.head
                  THEN [v.next EXCEPT ![v.pre] = tmp] ELSE v.next
  <2>1. CASE ~StaleNode(s, n)
    BY <2>1
  <2>2. CASE StaleNode(s, n)
    <3>1. PICK h \in Node \cup {NULL} : h = IF n = v.head THEN tmp ELSE v.head
      BY DEF LoopState
    <3>2. PICK nx \in [Node -> Node \cup {NULL}] :
            nx = IF n = v.head THEN v.next ELSE [v.next EXCEPT ![v.pre] = tmp]
      BY DEF LoopState
    <3>3. w = [f EXCEPT !.head = h, !.next = nx]
      BY <1>2, <2>2, <3>1, <3>2
    <3>4. /\ w \in LoopState /\ w.merged = f.merged /\ w.pre = f.pre
          /\ w.used = f.used /\ w.buffUsed = f.buffUsed /\ w.head = h /\ w.next = nx
      BY <1>2, <3>3 DEF LoopState
    <3> HIDE DEF w
    <3> QED
      BY <1>2, <2>2, <3>1, <3>2, <3>4
  <2> QED
    BY <2>1, <2>2
<1> HIDE DEF w
<1>4. /\ r \in LoopState /\ r.merged = w.merged /\ r.used = w.used /\ r.buffUsed = w.buffUsed
      /\ r.head = w.head /\ r.next = w.next /\ r.pre = IF tmp # NULL THEN n ELSE w.pre
  <2>1. CASE tmp # NULL
    <3>1. r = [w EXCEPT !.pre = n]
      BY <2>1
    <3> HIDE DEF r
    <3> QED
      BY <1>3, <2>1, <3>1 DEF LoopState
  <2>2. CASE tmp = NULL
    BY <1>3, <2>2
  <2> QED
    BY <2>1, <2>2
<1> HIDE DEF r
<1> QED
  BY <1>1, <1>3, <1>4 DEF RoundIs

-----------------------------------------------------------------------------
(***************************************************************************)
(* What the loop has done after k rounds: Gone are the positions of the    *)
(* nodes it took out.                                                      *)
(***************************************************************************)
NodeAt(w, i) == IF i <= Len(w) THEN w[i] ELSE NULL

Gone(w, s, k) == {i \in 1..k : StaleNode(s, w[i])}

GoneNodes(w, s, k) == {w[i] : i \in Gone(w, s, k)}

\* No operation behind the newest is stale together with the one after it.
NoHole(w, s) ==
  \A i \in 2..Len(w) : ~(i + 1 <= Len(w) /\ StaleNode(s, w[i]) /\ StaleNode(s, w[i + 1]))

FirstLeft(w, s, k) ==
  IF 1 \notin Gone(w, s, k) THEN NodeAt(w, 1)
  ELSE IF 2 \notin Gone(w, s, k) THEN NodeAt(w, 2) ELSE NodeAt(w, 3)

NextLeft(w, s, k, i) ==
  IF i + 1 \in Gone(w, s, k) THEN NodeAt(w, i + 2) ELSE NodeAt(w, i + 1)

NextOK(w, s, k, nx) ==
  /\ \A i \in 1..Len(w) : i \notin Gone(w, s, k) => nx[w[i]] = NextLeft(w, s, k, i)
  /\ \A x \in Node : (\A i \in 1..Len(w) : w[i] # x) => nx[x] = next[x]

LoopDone(w, s, k, v) ==
  /\ v \in LoopState
  /\ v.head = FirstLeft(w, s, k)
  /\ NextOK(w, s, k, v.next)
  /\ v.used = used \ GoneNodes(w, s, k)
  /\ v.buffUsed = buffUsed \ BuffsOf(info, GoneNodes(w, s, k))

RoundDone(w, s, k, v) ==
  LoopDone(w, s, k, v) /\ ~v.merged /\ (0 < k /\ k < Len(w) => v.pre = w[k])

\* The nodes the loop walks along.
Walked(m, w) ==
  /\ w \in Seq(Node) /\ Len(w) \in Nat
  /\ \A i \in 1..Len(w) : w[i] \in Node /\ w[i] # NULL
  /\ \A i, j \in 1..Len(w) : w[i] = w[j] => i = j
  /\ head[m] = NodeAt(w, 1)
  /\ \A i \in 1..Len(w) : next[w[i]] = NodeAt(w, i + 1)

\* The walk along a list of the invariant.
LEMMA WalkedIs ==
  ASSUME ChainInv, NEW m \in Module
  PROVE  Walked(m, Walk(m)) /\ DOMAIN Walk(m) = 1..Len(Walk(m))
<1>1. PICK w : w = Walk(m)
  OBVIOUS
<1>2. Linked(head[m], next, w)
  BY <1>1 DEF ChainInv, ChainList
<1>3. /\ Len(w) \in Nat /\ DOMAIN w = 1..Len(w) /\ (w = <<>> <=> Len(w) = 0)
      /\ \A i \in 1..Len(w) : w[i] \in Node /\ w[i] # NULL
  BY <1>2, LinkedFits
<1>4. head[m] = NodeAt(w, 1)
  BY <1>2, <1>3 DEF Linked, NodeAt
<1>5. \A i \in 1..Len(w) : next[w[i]] = NodeAt(w, i + 1)
  BY <1>2, <1>3 DEF Linked, NodeAt
<1> QED
  BY <1>1, <1>2, <1>3, <1>4, <1>5 DEF Linked, Walked

\* Before the first round.
LEMMA NoRoundDone ==
  ASSUME ChainInv, NEW m \in Module, NEW w, Walked(m, w), NEW s
  PROVE  RoundDone(w, s, 0, LoopStart(m))
<1>1. PICK v : v = LoopStart(m)
  OBVIOUS
<1>2. /\ v \in LoopState /\ ~v.merged /\ v.head = head[m] /\ v.next = next
      /\ v.used = used /\ v.buffUsed = buffUsed
  BY <1>1 DEF LoopStart, LoopState, ChainInv, ChainTypeOK
<1>3. Gone(w, s, 0) = {}
  BY DEF Gone
<1>4. GoneNodes(w, s, 0) = {} /\ BuffsOf(info, {}) = {}
  BY <1>3 DEF GoneNodes, BuffsOf
<1>5. NextOK(w, s, 0, next)
  BY <1>3 DEF NextOK, NextLeft, Walked
<1>6. head[m] = FirstLeft(w, s, 0)
  BY <1>3 DEF FirstLeft, Walked
<1> QED
  BY <1>1, <1>2, <1>4, <1>5, <1>6 DEF RoundDone, LoopDone

\* What a round adds to the nodes taken out.
LEMMA GoneStep ==
  ASSUME NEW w, NEW s, NEW k \in Nat \ {0}
  PROVE  /\ Gone(w, s, k) = Gone(w, s, k - 1) \cup (IF StaleNode(s, w[k]) THEN {k} ELSE {})
         /\ GoneNodes(w, s, k)
              = GoneNodes(w, s, k - 1) \cup (IF StaleNode(s, w[k]) THEN {w[k]} ELSE {})
         /\ k \notin Gone(w, s, k - 1)
         /\ \A i \in Gone(w, s, k - 1) : i \in 1..(k - 1)
<1>1. Gone(w, s, k) = Gone(w, s, k - 1) \cup (IF StaleNode(s, w[k]) THEN {k} ELSE {})
  BY DEF Gone
<1>2. k \notin Gone(w, s, k - 1) /\ \A i \in Gone(w, s, k - 1) : i \in 1..(k - 1)
  BY DEF Gone
<1> QED
  BY <1>1, <1>2 DEF GoneNodes

\* One round more.
LEMMA RoundOnce ==
  ASSUME ChainInv, NEW m \in Module, NEW w, Walked(m, w), NEW s, NoHole(w, s),
         NEW k \in 1..Len(w), NEW v, RoundDone(w, s, k - 1, v), ~Absorbs(s, w[k])
  PROVE  RoundDone(w, s, k, EraseRound(s, next[w[k]], w[k], v))
<1>1. PICK n \in Node : n = w[k]
  BY DEF Walked
<1>2. PICK tmp \in Node \cup {NULL} : tmp = next[w[k]]
  BY <1>1 DEF ChainInv, ChainTypeOK
<1>3. PICK r : r = EraseRound(s, tmp, n, v)
  OBVIOUS
<1>4. v \in LoopState /\ ~v.merged
  BY DEF RoundDone, LoopDone
<1>5. RoundIs(s, tmp, n, v, r)
  BY <1>1, <1>3, <1>4, RoundByField
<1>6. /\ Len(w) \in Nat /\ k \in Nat \ {0} /\ tmp = NodeAt(w, k + 1)
      /\ (tmp # NULL <=> k < Len(w))
      /\ \A i \in 1..Len(w) : w[i] \in Node /\ w[i] # NULL
      /\ \A i, j \in 1..Len(w) : w[i] = w[j] => i = j
  <2>1. /\ Len(w) \in Nat /\ k \in Nat \ {0} /\ tmp = NodeAt(w, k + 1)
        /\ \A i \in 1..Len(w) : w[i] \in Node /\ w[i] # NULL
        /\ \A i, j \in 1..Len(w) : w[i] = w[j] => i = j
    BY <1>2 DEF Walked
  <2>2. tmp # NULL <=> k < Len(w)
    BY <2>1 DEF NodeAt
  <2> QED
    BY <2>1, <2>2
<1>7. PICK D : D = Gone(w, s, k - 1)
  OBVIOUS
<1>8. /\ Gone(w, s, k) = D \cup (IF StaleNode(s, n) THEN {k} ELSE {})
      /\ GoneNodes(w, s, k)
           = GoneNodes(w, s, k - 1) \cup (IF StaleNode(s, n) THEN {n} ELSE {})
      /\ k \notin D
      /\ \A i \in D : i \in 1..(k - 1) /\ StaleNode(s, w[i])
  <2>1. \A i \in D : StaleNode(s, w[i])
    BY <1>7 DEF Gone
  <2> QED
    BY <1>1, <1>6, <1>7, <2>1, GoneStep
<1>9. \A i \in 1..Len(w) : i > 1 /\ i + 1 = k /\ StaleNode(s, n) => i \notin D
  BY <1>1, <1>6, <1>8 DEF NoHole
<1>10. /\ v.head = FirstLeft(w, s, k - 1) /\ NextOK(w, s, k - 1, v.next)
       /\ v.used = used \ GoneNodes(w, s, k - 1)
       /\ v.buffUsed = buffUsed \ BuffsOf(info, GoneNodes(w, s, k - 1))
       /\ (0 < k - 1 /\ k - 1 < Len(w) => v.pre = w[k - 1])
  BY DEF RoundDone, LoopDone
<1>11. r \in LoopState /\ ~r.merged /\ (0 < k /\ k < Len(w) => r.pre = w[k])
  BY <1>1, <1>4, <1>5, <1>6 DEF RoundIs
<1>12. r.used = used \ GoneNodes(w, s, k)
  BY <1>5, <1>8, <1>10 DEF RoundIs
<1>13. r.buffUsed = buffUsed \ BuffsOf(info, GoneNodes(w, s, k))
  BY <1>5, <1>8, <1>10 DEF RoundIs, BuffsOf
<1>14. StaleNode(s, n) =>
         IF n = v.head
         THEN \/ k = 1
              \/ k = 2 /\ 1 \in D
         ELSE k > 1 /\ k - 1 \notin D /\ v.pre = w[k - 1]
  <2> SUFFICES ASSUME StaleNode(s, n)
               PROVE  IF n = v.head
                      THEN \/ k = 1
                           \/ k = 2 /\ 1 \in D
                      ELSE k > 1 /\ k - 1 \notin D /\ v.pre = w[k - 1]
    OBVIOUS
  <2>1. CASE k = 1
    <3>1. 1 \notin D
      BY <1>8, <2>1
    <3>2. v.head = w[1]
      BY <1>6, <1>7, <1>10, <2>1, <3>1 DEF FirstLeft, NodeAt
    <3> QED
      BY <1>1, <2>1, <3>2
  <2>2. CASE k # 1 /\ k - 1 \in D
    <3>1. k - 1 \in 1..Len(w) /\ (k - 1) + 1 = k
      BY <1>6, <2>2
    <3>2. k - 1 = 1
      BY <1>9, <2>2, <3>1
    <3>3. k = 2 /\ 1 \in D /\ 2 \notin D /\ 2 <= Len(w)
      BY <1>6, <1>8, <2>2, <3>2
    <3>4. v.head = w[2]
      BY <1>7, <1>10, <3>3 DEF FirstLeft, NodeAt
    <3> QED
      BY <1>1, <3>3, <3>4
  <2>3. CASE k # 1 /\ k - 1 \notin D
    <3>1. v.pre = w[k - 1] /\ k > 1
      BY <1>6, <1>10, <2>3
    <3>2. \E i \in 1..Len(w) : i < k /\ v.head = w[i]
      <4>1. CASE 1 \notin D
        <5>1. v.head = w[1] /\ 1 \in 1..Len(w) /\ 1 < k
          BY <1>6, <1>7, <1>10, <2>3, <4>1 DEF FirstLeft, NodeAt
        <5> QED
          BY <5>1
      <4>2. CASE 1 \in D
        <5>1. k > 2
          BY <1>6, <1>8, <2>3, <4>2
        <5>2. CASE 2 \notin D
          <6>1. v.head = w[2] /\ 2 \in 1..Len(w)
            BY <1>6, <1>7, <1>10, <4>2, <5>1, <5>2 DEF FirstLeft, NodeAt
          <6> QED
            BY <5>1, <6>1
        <5>3. CASE 2 \in D
          <6>1. 2 \in 1..(k - 1) /\ k # 3
            BY <1>6, <1>8, <2>3, <5>3
          <6>2. v.head = w[3] /\ 3 \in 1..Len(w) /\ 3 < k
            BY <1>6, <1>7, <1>10, <4>2, <5>1, <5>3, <6>1 DEF FirstLeft, NodeAt
          <6> QED
            BY <6>2
        <5> QED
          BY <5>2, <5>3
      <4> QED
        BY <4>1, <4>2
    <3>3. n # v.head
      BY <1>1, <1>6, <3>2
    <3> QED
      BY <2>3, <3>1, <3>3
  <2> QED
    BY <2>1, <2>2, <2>3
<1>15. r.head = FirstLeft(w, s, k)
  <2>1. CASE ~StaleNode(s, n)
    <3>1. Gone(w, s, k) = D /\ r.head = v.head
      BY <1>5, <1>8, <2>1 DEF RoundIs
    <3> QED
      BY <1>7, <1>10, <3>1 DEF FirstLeft
  <2>2. CASE StaleNode(s, n) /\ n = v.head
    <3>1. r.head = NodeAt(w, k + 1) /\ Gone(w, s, k) = D \cup {k}
      BY <1>5, <1>6, <1>8, <2>2 DEF RoundIs
    <3>2. CASE k = 1
      <4>1. 1 \in Gone(w, s, k) /\ 2 \notin Gone(w, s, k)
        BY <1>8, <3>1, <3>2
      <4> QED
        BY <3>1, <3>2, <4>1 DEF FirstLeft
    <3>3. CASE k = 2 /\ 1 \in D
      <4>1. 1 \in Gone(w, s, k) /\ 2 \in Gone(w, s, k)
        BY <3>1, <3>3
      <4> QED
        BY <3>1, <3>3, <4>1 DEF FirstLeft
    <3> QED
      BY <1>14, <2>2, <3>2, <3>3
  <2>3. CASE StaleNode(s, n) /\ n # v.head
    <3>1. r.head = v.head /\ Gone(w, s, k) = D \cup {k} /\ k > 1 /\ k - 1 \notin D
      BY <1>5, <1>8, <1>14, <2>3 DEF RoundIs
    <3>2. 1 \in Gone(w, s, k) <=> 1 \in D
      BY <3>1
    <3>3. 1 \in D => k # 2
      BY <3>1
    <3> QED
      BY <1>7, <1>10, <3>1, <3>2, <3>3 DEF FirstLeft
  <2> QED
    BY <2>1, <2>2, <2>3
<1>16. NextOK(w, s, k, r.next)
  <2>1. \A i \in 1..Len(w) : i \notin D => v.next[w[i]] = NextLeft(w, s, k - 1, i)
    BY <1>7, <1>10 DEF NextOK
  <2>2. \A x \in Node : (\A i \in 1..Len(w) : w[i] # x) => v.next[x] = next[x]
    BY <1>10 DEF NextOK
  <2>3. CASE ~StaleNode(s, n)
    <3>1. Gone(w, s, k) = D /\ r.next = v.next
      BY <1>5, <1>8, <2>3 DEF RoundIs
    <3> QED
      BY <1>7, <1>10, <3>1 DEF NextOK, NextLeft
  <2>4. CASE StaleNode(s, n) /\ n = v.head
    <3>1. r.next = v.next /\ Gone(w, s, k) = D \cup {k}
      BY <1>5, <1>8, <2>4 DEF RoundIs
    <3>2. ASSUME NEW i \in 1..Len(w), i \notin Gone(w, s, k)
          PROVE  v.next[w[i]] = NextLeft(w, s, k, i)
      <4>1. i \notin D /\ i # k
        BY <3>1, <3>2
      <4>2. i + 1 # k
        BY <1>6, <1>14, <2>4, <4>1
      <4>3. i + 1 \in Gone(w, s, k) <=> i + 1 \in D
        BY <3>1, <4>2
      <4> QED
        BY <1>7, <2>1, <4>1, <4>3 DEF NextLeft
    <3> QED
      BY <2>2, <3>1, <3>2 DEF NextOK
  <2>5. CASE StaleNode(s, n) /\ n # v.head
    <3>1. /\ r.next = [v.next EXCEPT ![w[k - 1]] = tmp] /\ Gone(w, s, k) = D \cup {k}
          /\ k > 1 /\ k - 1 \notin D /\ k - 1 \in 1..Len(w) /\ w[k - 1] \in Node
      BY <1>5, <1>6, <1>8, <1>14, <2>5 DEF RoundIs
    <3>2. v.next \in [Node -> Node \cup {NULL}]
      BY <1>4 DEF LoopState
    <3>3. r.next[w[k - 1]] = tmp /\ \A x \in Node : x # w[k - 1] => r.next[x] = v.next[x]
      BY <3>1, <3>2
    <3>4. ASSUME NEW i \in 1..Len(w), i \notin Gone(w, s, k)
          PROVE  r.next[w[i]] = NextLeft(w, s, k, i)
      <4>1. i \notin D /\ i # k
        BY <3>1, <3>4
      <4>2. CASE i = k - 1
        <5>1. i + 1 \in Gone(w, s, k) /\ i + 2 = k + 1
          BY <1>6, <3>1, <4>2
        <5> QED
          BY <1>6, <3>3, <4>2, <5>1 DEF NextLeft
      <4>3. CASE i # k - 1
        <5>1. i + 1 # k /\ w[i] \in Node /\ w[i] # w[k - 1]
          BY <1>6, <3>1, <4>3
        <5>2. i + 1 \in Gone(w, s, k) <=> i + 1 \in D
          BY <3>1, <5>1
        <5> QED
          BY <1>7, <2>1, <3>3, <4>1, <5>1, <5>2 DEF NextLeft
      <4> QED
        BY <4>2, <4>3
    <3>5. \A x \in Node : (\A i \in 1..Len(w) : w[i] # x) => r.next[x] = next[x]
      BY <2>2, <3>1, <3>3
    <3> QED
      BY <3>4, <3>5 DEF NextOK
  <2> QED
    BY <2>3, <2>4, <2>5
<1>17. RoundDone(w, s, k, r)
  BY <1>11, <1>12, <1>13, <1>15, <1>16 DEF RoundDone, LoopDone
<1> QED
  BY <1>1, <1>2, <1>3, <1>17

-----------------------------------------------------------------------------
(***************************************************************************)
(* What the loop has done when it ends; the erase the chip works on, which *)
(* stops it, can only be the last it comes to.                             *)
(***************************************************************************)
LEMMA LoopEnds ==
  ASSUME ChainInv, NEW m \in Module, NEW w, w = Walk(m), NEW s, NoHole(w, s),
         NEW v, v = EraseLoop(m, s)
  PROVE  /\ LoopDone(w, s, Len(w), v)
         /\ v.merged <=> \E i \in 1..Len(w) : Absorbs(s, w[i])
<1>1. Walked(m, w) /\ DOMAIN w = 1..Len(w) /\ Len(w) \in Nat
  BY WalkedIs DEF Walked
<1>2. PICK vs : Rounds(s, w, LoopStart(m), vs) /\ v = vs[Len(w)]
  BY <1>1, LoopIsRounds
<1>3. ASSUME NEW i \in 1..Len(w), Absorbs(s, w[i]) PROVE i = Len(w)
  <2>1. /\ \A j \in 1..Len(w) : info[w[j]].lock <=> w[j] = cur[m]
        /\ cur[m] # NULL => cur[m] = w[Len(w)]
    BY DEF ChainInv, ChainList
  <2>2. w[i] = w[Len(w)] /\ Len(w) \in 1..Len(w)
    BY <1>1, <1>3, <2>1 DEF Absorbs, Walked
  <2> QED
    BY <2>2, <1>1 DEF Walked
<1> DEFINE Free(k) == \A j \in 1..k : ~Absorbs(s, w[j])
           G == {k \in 0..Len(w) : Free(k) => RoundDone(w, s, k, vs[k])}
<1>4. 0 \in G
  BY <1>1, <1>2, NoRoundDone DEF Rounds
<1>5. ASSUME NEW k \in 1..Len(w), k - 1 \in G PROVE k \in G
  <2> SUFFICES ASSUME Free(k) PROVE RoundDone(w, s, k, vs[k])
    BY <1>1
  <2>1. Free(k - 1) /\ ~Absorbs(s, w[k])
    BY <1>1
  <2>2. RoundDone(w, s, k - 1, vs[k - 1])
    BY <1>5, <2>1
  <2>3. vs[k] = EraseRound(s, next[w[k]], w[k], vs[k - 1])
    BY <1>2 DEF Rounds
  <2> HIDE DEF Free, G
  <2> QED
    BY <1>1, <2>1, <2>2, <2>3, RoundOnce
<1>6. \A k \in 0..Len(w) : k \in G
  <2> HIDE DEF G
  <2> QED
    BY <1>1, <1>4, <1>5, Upward
<1>7. ASSUME NEW k \in 0..Len(w), \A j \in 1..k : ~Absorbs(s, w[j])
      PROVE  RoundDone(w, s, k, vs[k])
  <2>1. k \in G
    BY <1>6
  <2> QED
    BY <1>7, <2>1
<1>8. CASE ~(\E i \in 1..Len(w) : Absorbs(s, w[i]))
  <2>1. RoundDone(w, s, Len(w), vs[Len(w)])
    BY <1>1, <1>7, <1>8
  <2> QED
    BY <1>2, <1>8, <2>1 DEF RoundDone
<1>9. CASE \E i \in 1..Len(w) : Absorbs(s, w[i])
  <2>1. PICK k : k = Len(w)
    OBVIOUS
  <2>2. k \in 1..Len(w) /\ Absorbs(s, w[k]) /\ k - 1 \in 0..Len(w)
    <3>1. PICK i \in 1..Len(w) : Absorbs(s, w[i])
      BY <1>9
    <3>2. i = k
      BY <1>3, <2>1, <3>1
    <3>3. Len(w) \in Nat
      BY <1>1
    <3> QED
      BY <2>1, <3>1, <3>2, <3>3
  <2>3. \A j \in 1..(k - 1) : ~Absorbs(s, w[j])
    <3> SUFFICES ASSUME NEW j \in 1..(k - 1), Absorbs(s, w[j]) PROVE FALSE
      OBVIOUS
    <3>1. Len(w) \in Nat
      BY <1>1
    <3>2. j \in 1..Len(w) /\ j # Len(w)
      BY <2>1, <3>1
    <3> QED
      BY <1>3, <3>2
  <2>4. PICK u : u = vs[k - 1]
    OBVIOUS
  <2>5. RoundDone(w, s, k - 1, u)
    BY <1>7, <2>2, <2>3, <2>4
  <2>6. v = EraseRound(s, next[w[k]], w[k], u)
    BY <1>2, <2>1, <2>2, <2>4 DEF Rounds
  <2>7. v = [u EXCEPT !.merged = TRUE]
    BY <2>2, <2>5, <2>6 DEF EraseRound, Absorbs, RoundDone
  <2>8. /\ v \in LoopState /\ v.merged /\ v.head = u.head /\ v.next = u.next
        /\ v.used = u.used /\ v.buffUsed = u.buffUsed
    BY <2>5, <2>7 DEF LoopState, RoundDone, LoopDone
  <2>9. Gone(w, s, k) = Gone(w, s, k - 1) /\ GoneNodes(w, s, k) = GoneNodes(w, s, k - 1)
    <3>1. ~StaleNode(s, w[k])
      BY <2>2 DEF Absorbs, StaleNode
    <3>2. k \in Nat \ {0}
      BY <1>1, <2>2
    <3>3. Gone(w, s, k) = Gone(w, s, k - 1)
      BY <3>1, <3>2 DEF Gone
    <3> QED
      BY <3>3 DEF GoneNodes
  <2>10. FirstLeft(w, s, k) = FirstLeft(w, s, k - 1)
    BY <2>9 DEF FirstLeft
  <2>11. NextOK(w, s, k, u.next)
    BY <2>5, <2>9 DEF RoundDone, LoopDone, NextOK, NextLeft
  <2>12. LoopDone(w, s, k, v)
    BY <2>5, <2>8, <2>9, <2>10, <2>11 DEF RoundDone, LoopDone
  <2> QED
    BY <1>9, <2>1, <2>8, <2>12
<1> QED
  BY <1>8, <1>9

-----------------------------------------------------------------------------
(***************************************************************************)
(* The list q is what is left of w: its i-th node was the pos[i]-th.       *)
(***************************************************************************)
Kept(w, s, q, pos) ==
  /\ q \in Seq(Node) /\ Len(q) \in Nat /\ (q = <<>> <=> Len(q) = 0)
  /\ \A i \in 1..Len(q) : pos[i] \in 1..Len(w) /\ q[i] = w[pos[i]] /\ ~StaleNode(s, q[i])
  /\ \A i, j \in 1..Len(q) : i < j => pos[i] < pos[j]
  /\ \A p \in 1..Len(w) : ~StaleNode(s, w[p]) => \E i \in 1..Len(q) : pos[i] = p

\* Between two of them, before the first and behind the last all are stale.
LEMMA BetweenKept ==
  ASSUME NEW w, Len(w) \in Nat, NEW s, NEW q, NEW pos, Kept(w, s, q, pos)
  PROVE  /\ \A i \in 1..Len(q) : \A p \in 1..Len(w) :
              pos[i] < p /\ (i < Len(q) => p < pos[i + 1]) => StaleNode(s, w[p])
         /\ q # <<>> => \A p \in 1..Len(w) : p < pos[1] => StaleNode(s, w[p])
<1>1. ASSUME NEW i \in 1..Len(q), NEW p \in 1..Len(w), pos[i] < p,
             i < Len(q) => p < pos[i + 1], ~StaleNode(s, w[p])
      PROVE  FALSE
  <2>1. PICK j \in 1..Len(q) : pos[j] = p
    BY <1>1 DEF Kept
  <2>2. Len(q) \in Nat /\ i \in Nat /\ j \in Nat /\ pos[i] \in Nat /\ pos[j] \in Nat
    BY <2>1 DEF Kept
  <2>3. ~(j <= i)
    BY <1>1, <2>1, <2>2 DEF Kept
  <2>4. i < Len(q) /\ i + 1 \in 1..Len(q) /\ pos[i + 1] \in Nat /\ (j = i + 1 \/ i + 1 < j)
    BY <2>1, <2>2, <2>3 DEF Kept
  <2>5. pos[i + 1] <= pos[j]
    BY <2>2, <2>4 DEF Kept
  <2> QED
    BY <1>1, <2>1, <2>2, <2>4, <2>5
<1>2. ASSUME q # <<>>, NEW p \in 1..Len(w), p < pos[1], ~StaleNode(s, w[p])
      PROVE  FALSE
  <2>1. PICK j \in 1..Len(q) : pos[j] = p
    BY <1>2 DEF Kept
  <2>2. 1 \in 1..Len(q) /\ pos[1] \in Nat /\ (j = 1 \/ 1 < j)
    BY <1>2, <2>1 DEF Kept
  <2>3. pos[1] <= pos[j]
    BY <2>2 DEF Kept
  <2> QED
    BY <1>2, <2>1, <2>2, <2>3
<1> QED
  BY <1>1, <1>2

\* So the pointers of the loop link them.
LEMMA KeptLinked ==
  ASSUME NEW m, NEW w, Walked(m, w), NEW s, NoHole(w, s), NEW q, NEW pos,
         Kept(w, s, q, pos), NEW v, LoopDone(w, s, Len(w), v)
  PROVE  Linked(v.head, v.next, q)
<1>1. PICK L \in Nat : L = Len(w)
  BY DEF Walked
<1>2. PICK K \in Nat : K = Len(q)
  BY DEF Kept
<1>3. \A p : p \in Gone(w, s, L) <=> p \in 1..L /\ StaleNode(s, w[p])
  BY DEF Gone
<1>4. /\ q \in Seq(Node) /\ (q = <<>> <=> K = 0)
      /\ \A i \in 1..K : pos[i] \in 1..L /\ q[i] = w[pos[i]] /\ ~StaleNode(s, w[pos[i]])
      /\ \A i, j \in 1..K : i < j => pos[i] < pos[j]
      /\ \A p \in 1..L : ~StaleNode(s, w[p]) => \E i \in 1..K : pos[i] = p
  BY <1>1, <1>2 DEF Kept
<1>5. /\ \A i \in 1..K : \A p \in 1..L :
           pos[i] < p /\ (i < K => p < pos[i + 1]) => StaleNode(s, w[p])
      /\ K # 0 => \A p \in 1..L : p < pos[1] => StaleNode(s, w[p])
  <2>1. Len(w) \in Nat
    BY <1>1
  <2>2. /\ \A i \in 1..Len(q) : \A p \in 1..Len(w) :
             pos[i] < p /\ (i < Len(q) => p < pos[i + 1]) => StaleNode(s, w[p])
        /\ q # <<>> => \A p \in 1..Len(w) : p < pos[1] => StaleNode(s, w[p])
    BY <2>1, BetweenKept
  <2> QED
    BY <1>1, <1>2, <1>4, <2>2
<1>6. \A p \in 2..L : ~(p + 1 <= L /\ StaleNode(s, w[p]) /\ StaleNode(s, w[p + 1]))
  BY <1>1 DEF NoHole
<1>7. \A p : NodeAt(w, p) = IF p <= L THEN w[p] ELSE NULL
  BY <1>1 DEF NodeAt
<1>8. v.head = IF q = <<>> THEN NULL ELSE q[1]
  <2>1. v.head = FirstLeft(w, s, L)
    BY <1>1 DEF LoopDone
  <2>2. CASE K = 0
    <3>1. \A p \in 1..L : StaleNode(s, w[p])
      BY <1>4, <2>2
    <3>2. L <= 2
      <4> SUFFICES ASSUME L > 2 PROVE FALSE
        OBVIOUS
      <4>1. 2 \in 2..L /\ 2 \in 1..L /\ 2 + 1 \in 1..L
        OBVIOUS
      <4> QED
        BY <1>6, <3>1, <4>1
    <3>3. 1 \in Gone(w, s, L) <=> L >= 1
      BY <1>3, <3>1
    <3>4. 2 \in Gone(w, s, L) <=> L >= 2
      BY <1>3, <3>1
    <3>5. v.head = NULL
      BY <1>7, <2>1, <3>2, <3>3, <3>4 DEF FirstLeft
    <3> QED
      BY <1>4, <2>2, <3>5
  <2>3. CASE K # 0
    <3>1. 1 \in 1..K /\ pos[1] \in 1..L
      BY <1>4, <2>3
    <3>2. pos[1] <= 3
      <4> SUFFICES ASSUME pos[1] > 3 PROVE FALSE
        BY <3>1
      <4>1. 2 \in 2..L /\ 2 \in 1..L /\ 2 + 1 \in 1..L /\ 2 < pos[1] /\ 2 + 1 < pos[1]
        BY <3>1
      <4> QED
        BY <1>5, <1>6, <2>3, <4>1
    <3>3. \A p \in 1..L : p < pos[1] => p \in Gone(w, s, L)
      BY <1>3, <1>5, <2>3
    <3>4. pos[1] \notin Gone(w, s, L)
      BY <1>3, <1>4, <3>1
    <3>5. pos[1] = 1 \/ pos[1] = 2 \/ pos[1] = 3
      BY <3>1, <3>2
    <3>6. v.head = w[pos[1]]
      <4>1. CASE pos[1] = 1
        BY <1>7, <2>1, <3>1, <3>4, <4>1 DEF FirstLeft
      <4>2. CASE pos[1] = 2
        <5>1. 1 \in Gone(w, s, L) /\ 2 \notin Gone(w, s, L) /\ 2 <= L
          BY <3>1, <3>3, <3>4, <4>2
        <5> QED
          BY <1>7, <2>1, <4>2, <5>1 DEF FirstLeft
      <4>3. CASE pos[1] = 3
        <5>1. 1 \in Gone(w, s, L) /\ 2 \in Gone(w, s, L) /\ 3 <= L
          BY <3>1, <3>3, <4>3
        <5> QED
          BY <1>7, <2>1, <4>3, <5>1 DEF FirstLeft
      <4> QED
        BY <3>5, <4>1, <4>2, <4>3
    <3> QED
      BY <1>4, <2>3, <3>1, <3>6
  <2> QED
    BY <2>2, <2>3
<1>9. ASSUME NEW i \in 1..K PROVE v.next[q[i]] = IF i < K THEN q[i + 1] ELSE NULL
  <2>1. PICK p \in 1..L : p = pos[i] /\ q[i] = w[p] /\ ~StaleNode(s, w[p])
    BY <1>4
  <2>2. v.next[q[i]] = NextLeft(w, s, L, p)
    BY <1>1, <1>3, <2>1 DEF LoopDone, NextOK
  <2>3. CASE i < K
    <3>1. PICK r \in 1..L : r = pos[i + 1] /\ q[i + 1] = w[r] /\ ~StaleNode(s, w[r]) /\ p < r
      <4>1. PICK j \in 1..K : j = i + 1 /\ i < j
        BY <2>3
      <4>2. pos[j] \in 1..L /\ q[j] = w[pos[j]] /\ ~StaleNode(s, w[pos[j]])
        BY <1>4
      <4>3. p < pos[j]
        BY <1>4, <2>1, <4>1
      <4> QED
        BY <4>1, <4>2, <4>3
    <3>2. \A x \in 1..L : p < x /\ x < r => StaleNode(s, w[x])
      BY <1>5, <2>1, <2>3, <3>1
    <3>3. CASE p + 1 \in Gone(w, s, L)
      <4>1. p + 1 \in 1..L /\ StaleNode(s, w[p + 1]) /\ p + 1 \in 2..L
        BY <1>3, <3>3
      <4>2. r # p + 1
        BY <3>1, <4>1
      <4>3. r = p + 2
        <5> SUFFICES ASSUME r > p + 2 PROVE FALSE
          BY <3>1, <4>2
        <5>1. (p + 1) + 1 \in 1..L /\ (p + 1) + 1 < r /\ p < (p + 1) + 1
          OBVIOUS
        <5>2. StaleNode(s, w[(p + 1) + 1])
          BY <3>2, <5>1
        <5> QED
          BY <1>6, <4>1, <5>1, <5>2
      <4> QED
        BY <1>7, <2>2, <2>3, <3>1, <3>3, <4>3 DEF NextLeft
    <3>4. CASE p + 1 \notin Gone(w, s, L)
      <4>1. p + 1 \in 1..L
        BY <3>1
      <4>2. ~StaleNode(s, w[p + 1])
        BY <1>3, <3>4, <4>1
      <4>3. r = p + 1
        BY <3>1, <3>2, <4>1, <4>2
      <4> QED
        BY <1>7, <2>2, <2>3, <3>1, <3>4, <4>3 DEF NextLeft
    <3> QED
      BY <3>3, <3>4
  <2>4. CASE ~(i < K)
    <3>1. \A x \in 1..L : p < x => StaleNode(s, w[x])
      BY <1>5, <2>1, <2>4
    <3>2. CASE p + 1 \in Gone(w, s, L)
      <4>1. p + 1 \in 1..L /\ StaleNode(s, w[p + 1]) /\ p + 1 \in 2..L
        BY <1>3, <3>2
      <4>2. p + 2 > L
        <5> SUFFICES ASSUME p + 2 <= L PROVE FALSE
          OBVIOUS
        <5>1. (p + 1) + 1 \in 1..L /\ p < (p + 1) + 1
          OBVIOUS
        <5>2. StaleNode(s, w[(p + 1) + 1])
          BY <3>1, <5>1
        <5> QED
          BY <1>6, <4>1, <5>1, <5>2
      <4>3. NodeAt(w, p + 2) = NULL
        BY <1>7, <4>2
      <4> QED
        BY <2>2, <2>4, <3>2, <4>3 DEF NextLeft
    <3>3. CASE p + 1 \notin Gone(w, s, L)
      <4>1. p + 1 > L
        BY <1>3, <3>1, <3>3
      <4>2. NodeAt(w, p + 1) = NULL
        BY <1>7, <4>1
      <4> QED
        BY <2>2, <2>4, <3>3, <4>2 DEF NextLeft
    <3> QED
      BY <3>2, <3>3
  <2> QED
    BY <2>3, <2>4
<1>10. \A i, j \in 1..K : q[i] = q[j] => i = j
  <2> SUFFICES ASSUME NEW i \in 1..K, NEW j \in 1..K, q[i] = q[j] PROVE i = j
    OBVIOUS
  <2>1. pos[i] = pos[j] /\ pos[i] \in Nat
    BY <1>1, <1>4 DEF Walked
  <2> QED
    BY <1>4, <2>1
<1> QED
  BY <1>2, <1>4, <1>8, <1>9, <1>10 DEF Linked

\* And they are the list of the module, with the rest given back.
LEMMA KeptDropped ==
  ASSUME ChainInv, NEW m \in Module, NEW w, w = Walk(m), NEW s, NoHole(w, s),
         NEW q, NEW pos, Kept(w, s, q, pos), NEW v, LoopDone(w, s, Len(w), v)
  PROVE  Dropped(m, q, v.head, v.next, v.used, v.buffUsed)
<1>1. Walked(m, w)
  BY WalkedIs
<1>2. PICK L \in Nat : L = Len(w)
  BY <1>1 DEF Walked
<1>3. PICK K \in Nat : K = Len(q)
  BY DEF Kept
<1>4. /\ (q = <<>> <=> K = 0)
      /\ \A i \in 1..K : pos[i] \in 1..L /\ q[i] = w[pos[i]] /\ ~StaleNode(s, w[pos[i]])
      /\ \A i, j \in 1..K : i < j => pos[i] < pos[j]
      /\ \A p \in 1..L : ~StaleNode(s, w[p]) => \E i \in 1..K : pos[i] = p
  BY <1>2, <1>3 DEF Kept
<1>5. /\ v \in LoopState /\ v.used = used \ GoneNodes(w, s, L)
      /\ v.buffUsed = buffUsed \ BuffsOf(info, GoneNodes(w, s, L))
      /\ NextOK(w, s, L, v.next)
  BY <1>2 DEF LoopDone
<1>6. \A p \in 1..L : w[p] \in GoneNodes(w, s, L) <=> StaleNode(s, w[p])
  BY <1>1, <1>2 DEF GoneNodes, Gone, Walked
<1>7. \A x \in GoneNodes(w, s, L) : \E p \in 1..L : x = w[p] /\ StaleNode(s, w[p])
  BY DEF GoneNodes, Gone
<1>8. /\ \A p \in 1..L : w[p] \in used /\ Owner[info[w[p]].sector] = m
      /\ cur[m] # NULL => w # <<>> /\ cur[m] = w[L]
      /\ \A p \in 1..L : info[w[p]].lock <=> w[p] = cur[m]
      /\ \A i, j \in 1..L :
           i < j /\ info[w[i]].sector = info[w[j]].sector
             /\ ~info[w[i]].lock /\ ~info[w[j]].lock
             => info[w[i]].type = "W" /\ info[w[j]].type = "E"
  BY <1>2 DEF ChainInv, ChainList
<1>9. Linked(v.head, v.next, q)
  BY <1>1, KeptLinked
<1>10. \A i \in 1..K : q[i] \in v.used /\ Owner[info[q[i]].sector] = m
  <2> SUFFICES ASSUME NEW i \in 1..K PROVE q[i] \in v.used /\ Owner[info[q[i]].sector] = m
    OBVIOUS
  <2>1. PICK p \in 1..L : q[i] = w[p] /\ ~StaleNode(s, w[p])
    BY <1>4
  <2>2. w[p] \in used \ GoneNodes(w, s, L) /\ Owner[info[w[p]].sector] = m
    BY <1>6, <1>8, <2>1
  <2> QED
    BY <1>5, <2>1, <2>2
<1>11. cur[m] # NULL => q # <<>> /\ cur[m] = q[K]
  <2> SUFFICES ASSUME cur[m] # NULL PROVE q # <<>> /\ cur[m] = q[K]
    OBVIOUS
  <2>1. w # <<>> /\ cur[m] = w[L] /\ w \in Seq(Node)
    BY <1>1, <1>8 DEF Walked
  <2>2. L \in 1..L
    BY <1>2, <2>1
  <2>3. ~StaleNode(s, w[L])
    BY <1>8, <2>1, <2>2 DEF StaleNode
  <2>4. PICK i \in 1..K : pos[i] = L
    BY <1>4, <2>2, <2>3
  <2>5. i = K
    <3> SUFFICES ASSUME i < K PROVE FALSE
      BY <1>3, <2>4
    <3>1. K \in 1..K
      OBVIOUS
    <3>2. pos[i] < pos[K] /\ pos[K] \in 1..L
      BY <1>4, <3>1
    <3> QED
      BY <1>2, <2>4, <3>2
  <2>6. q[i] = w[L]
    BY <1>4, <2>4
  <2>7. K # 0
    BY <2>4
  <2> QED
    BY <1>4, <2>1, <2>5, <2>6, <2>7
<1>12. \A i \in 1..K : info[q[i]].lock <=> q[i] = cur[m]
  BY <1>4, <1>8
<1>13. \A i, j \in 1..K :
         i < j /\ info[q[i]].sector = info[q[j]].sector
           /\ ~info[q[i]].lock /\ ~info[q[j]].lock
           => info[q[i]].type = "W" /\ info[q[j]].type = "E"
  <2> SUFFICES ASSUME NEW i \in 1..K, NEW j \in 1..K, i < j,
                      info[q[i]].sector = info[q[j]].sector,
                      ~info[q[i]].lock, ~info[q[j]].lock
               PROVE  info[q[i]].type = "W" /\ info[q[j]].type = "E"
    OBVIOUS
  <2>1. PICK a \in 1..L : a = pos[i] /\ q[i] = w[a]
    BY <1>4
  <2>2. PICK b \in 1..L : b = pos[j] /\ q[j] = w[b]
    BY <1>4
  <2>3. a < b
    BY <1>4, <2>1, <2>2
  <2>4. /\ info[w[a]].sector = info[w[b]].sector
        /\ ~info[w[a]].lock /\ ~info[w[b]].lock
    BY <2>1, <2>2
  <2>5. info[w[a]].type = "W" /\ info[w[b]].type = "E"
    BY <1>8, <2>3, <2>4
  <2> QED
    BY <2>1, <2>2, <2>5
<1>14. ChainList(m, q, v.head, cur[m], v.next, info, v.used)
  BY <1>3, <1>9, <1>10, <1>11, <1>12, <1>13 DEF ChainList
<1>15. v.next \in [Node -> Node \cup {NULL}] /\ v.head \in Node \cup {NULL}
  BY <1>5 DEF LoopState
<1>16. \A x \in used : Owner[info[x].sector] # m => x \in v.used /\ v.next[x] = next[x]
  <2> SUFFICES ASSUME NEW x \in used, Owner[info[x].sector] # m
               PROVE  x \in v.used /\ v.next[x] = next[x]
    OBVIOUS
  <2>1. \A p \in 1..L : w[p] # x
    BY <1>8
  <2>2. x \notin GoneNodes(w, s, L) /\ x \in Node
    BY <1>7, <2>1 DEF ChainInv, ChainTypeOK
  <2> QED
    BY <1>2, <1>5, <2>1, <2>2 DEF NextOK
<1>17. \A x \in v.used : /\ x \in used
                         /\ Owner[info[x].sector] # m \/ \E i \in 1..K : q[i] = x
  <2> SUFFICES ASSUME NEW x \in v.used, Owner[info[x].sector] = m
               PROVE  \E i \in 1..K : q[i] = x
    BY <1>5
  <2>1. PICK p \in 1..L : w[p] = x
    BY <1>2, <1>5 DEF ChainInv, InItsList
  <2>2. ~StaleNode(s, w[p])
    BY <1>5, <1>6, <2>1
  <2>3. PICK i \in 1..K : pos[i] = p
    BY <1>4, <2>2
  <2> QED
    BY <1>4, <2>1, <2>3
<1>18. BuffsOwned(info, v.used, v.buffUsed) /\ v.buffUsed \subseteq Buff
  <2>1. GoneNodes(w, s, L) \in SUBSET used
    BY <1>7, <1>8
  <2>2. BuffsOwned(info, used, buffUsed) /\ buffUsed \subseteq Buff
    BY DEF ChainInv, ChainTypeOK
  <2> QED
    BY <1>5, <2>1, <2>2, BuffsGivenBack
<1> QED
  BY <1>3, <1>14, <1>15, <1>16, <1>17, <1>18 DEF Dropped

-----------------------------------------------------------------------------
(***************************************************************************)
(* A sequence with one element taken out.                                  *)
(***************************************************************************)
TakenOut(S, q, i, r) ==
  /\ r \in Seq(S) /\ Len(r) = Len(q) - 1
  /\ \A j \in 1..(Len(q) - 1) : r[j] = IF j < i THEN q[j] ELSE q[j + 1]

\* That is what RemoveAt does.
LEMMA RemoveAtIs ==
  ASSUME NEW S, NEW q \in Seq(S), NEW i \in 1..Len(q)
  PROVE  TakenOut(S, q, i, RemoveAt(q, i))
<1> DEFINE a == SubSeq(q, 1, i - 1)
           b == SubSeq(q, i + 1, Len(q))
<1>1. a \in Seq(S) /\ Len(a) = i - 1 /\ \A j \in 1..(i - 1) : a[j] = q[j]
  BY LenProperties
<1>2. /\ b \in Seq(S)
      /\ Len(b) = Len(q) - i
      /\ \A j \in 1..(Len(q) - i) : b[j] = q[i + j]
  BY LenProperties
<1>3. RemoveAt(q, i) = a \o b
  BY DEF RemoveAt
<1> HIDE DEF a, b
<1>4. /\ a \o b \in Seq(S)
      /\ Len(a \o b) = Len(a) + Len(b)
      /\ \A j \in 1..(Len(a) + Len(b)) :
           (a \o b)[j] = IF j <= Len(a) THEN a[j] ELSE b[j - Len(a)]
  BY <1>1, <1>2, ConcatProperties
<1>5. Len(q) \in Nat
  BY LenProperties
<1>6. PICK r : r = RemoveAt(q, i)
  OBVIOUS
<1>7. r \in Seq(S) /\ Len(r) = Len(q) - 1
  BY <1>1, <1>2, <1>3, <1>4, <1>5, <1>6
<1>8. ASSUME NEW j \in 1..(Len(q) - 1) PROVE r[j] = IF j < i THEN q[j] ELSE q[j + 1]
  <2>1. j \in 1..(Len(a) + Len(b))
    BY <1>1, <1>2, <1>5
  <2>2. r[j] = IF j <= Len(a) THEN a[j] ELSE b[j - Len(a)]
    BY <1>3, <1>4, <1>6, <2>1
  <2>3. CASE j < i
    <3>1. j \in 1..(i - 1) /\ j <= Len(a)
      BY <1>1, <1>5, <2>3
    <3> QED
      BY <1>1, <2>2, <2>3, <3>1
  <2>4. CASE ~(j < i)
    <3>1. /\ j - Len(a) \in 1..(Len(q) - i) /\ ~(j <= Len(a))
          /\ i + (j - Len(a)) = j + 1
      BY <1>1, <1>5, <2>4
    <3> QED
      BY <1>2, <2>2, <2>4, <3>1
  <2> QED
    BY <2>3, <2>4
<1> QED
  BY <1>6, <1>7, <1>8 DEF TakenOut

\* The list with the oldest first is the mirror of the nodes.
LEMMA RemoveMirrors ==
  ASSUME NEW w \in Seq(Node), NEW a \in 1..Len(w)
  PROVE  ListFrom(RemoveAt(w, a), info)
           = RemoveAt(ListFrom(w, info), Len(w) + 1 - a)
<1>1. PICK L \in Nat : L = Len(w)
  OBVIOUS
<1>2. PICK q : q = RemoveAt(w, a)
  OBVIOUS
<1>3. /\ L >= 1 /\ Len(q) = L - 1 /\ a \in 1..L
      /\ \A j \in 1..(L - 1) : q[j] = IF j < a THEN w[j] ELSE w[j + 1]
  <2>1. TakenOut(Node, w, a, q)
    BY <1>2, RemoveAtIs
  <2> QED
    BY <1>1, <2>1 DEF TakenOut
<1>4. PICK l : l = ListFrom(w, info)
  OBVIOUS
<1>5. DOMAIN l = 1..L /\ Len(l) = L /\ \A i \in 1..L : l[i] = info[w[L - i + 1]]
  BY <1>1, <1>4, ListFromIs
<1>6. PICK S : S = {l[i] : i \in 1..L}
  OBVIOUS
<1>7. l \in Seq(S)
  <2>1. l = [i \in 1..L |-> l[i]]
    BY <1>1, <1>4 DEF ListFrom
  <2>2. l \in [1..L -> S]
    BY <1>6, <2>1
  <2> QED
    BY <2>2
<1>8. PICK b \in 1..L : b = L + 1 - a
  BY <1>3
<1>9. PICK t : t = RemoveAt(l, b)
  OBVIOUS
<1>10. /\ t \in Seq(S) /\ Len(t) = L - 1
       /\ \A j \in 1..(L - 1) : t[j] = IF j < b THEN l[j] ELSE l[j + 1]
  <2>1. b \in 1..Len(l)
    BY <1>5
  <2>2. TakenOut(S, l, b, t)
    BY <1>7, <1>9, <2>1, RemoveAtIs
  <2> QED
    BY <1>5, <2>2 DEF TakenOut
<1>11. PICK g : g = ListFrom(q, info)
  OBVIOUS
<1>12. g = [i \in 1..(L - 1) |-> info[q[(L - 1) - i + 1]]]
  BY <1>3, <1>11 DEF ListFrom
<1>13. ASSUME NEW i \in 1..(L - 1) PROVE t[i] = info[q[(L - 1) - i + 1]]
  <2>1. (L - 1) - i + 1 = L - i /\ L - i \in 1..(L - 1)
    BY <1>3
  <2>2. CASE i < b
    <3>1. ~(L - i < a) /\ i \in 1..L /\ (L - i) + 1 = L - i + 1
      BY <1>3, <1>8, <2>2
    <3>2. q[L - i] = w[L - i + 1]
      BY <1>3, <2>1, <3>1
    <3>3. t[i] = l[i] /\ l[i] = info[w[L - i + 1]]
      BY <1>5, <1>10, <2>2, <3>1
    <3> QED
      BY <2>1, <3>2, <3>3
  <2>3. CASE ~(i < b)
    <3>1. L - i < a /\ i + 1 \in 1..L /\ L - (i + 1) + 1 = L - i
      BY <1>3, <1>8, <2>3
    <3>2. q[L - i] = w[L - i]
      BY <1>3, <2>1, <3>1
    <3>3. t[i] = l[i + 1] /\ l[i + 1] = info[w[L - (i + 1) + 1]]
      BY <1>5, <1>10, <2>3, <3>1
    <3> QED
      BY <2>1, <3>1, <3>2, <3>3
  <2> QED
    BY <2>2, <2>3
<1>14. t = [i \in 1..(L - 1) |-> t[i]]
  BY <1>3, <1>10
<1>15. t = g
  BY <1>12, <1>13, <1>14
<1> QED
  BY <1>1, <1>2, <1>4, <1>8, <1>9, <1>11, <1>15

\* What PendingList takes out is what is stale.
LEMMA StaleMirrors ==
  ASSUME NEW w, NEW L \in Nat, L = Len(w), NEW s, NEW l, l = ListFrom(w, info)
  PROVE  /\ \A i : i \in Stale(l, s) <=> i \in 1..L /\ StaleNode(s, w[L - i + 1])
         /\ \A p \in 1..L : L + 1 - p \in 1..L /\ L - (L + 1 - p) + 1 = p
<1>1. DOMAIN l = 1..L /\ \A i \in 1..L : l[i] = info[w[L - i + 1]]
  BY ListFromIs
<1>2. \A i : i \in Stale(l, s) <=> i \in 1..L /\ StaleNode(s, w[L - i + 1])
  BY <1>1 DEF Stale, OnSector, StaleNode
<1> QED
  BY <1>2

\* What is left after one is taken out, and after two.
KeptOne(w, a) == [i \in 1..(Len(w) - 1) |-> IF i < a THEN i ELSE i + 1]

KeptTwo(w, a, b) ==
  [i \in 1..(Len(w) - 2) |-> IF i < a THEN i ELSE IF i < b - 1 THEN i + 1 ELSE i + 2]

\* One stale node leaves the others in their order.
LEMMA OneTakenOut ==
  ASSUME NEW w \in Seq(Node), NEW s, NEW a \in 1..Len(w),
         \A p \in 1..Len(w) : StaleNode(s, w[p]) <=> p = a
  PROVE  Kept(w, s, RemoveAt(w, a), KeptOne(w, a))
<1>1. PICK L \in Nat : L = Len(w)
  OBVIOUS
<1>2. PICK q : q = RemoveAt(w, a)
  OBVIOUS
<1>3. /\ q \in Seq(Node) /\ Len(q) = L - 1 /\ L >= 1 /\ a \in 1..L
      /\ \A j \in 1..(L - 1) : q[j] = IF j < a THEN w[j] ELSE w[j + 1]
  <2>1. TakenOut(Node, w, a, q)
    BY <1>2, RemoveAtIs
  <2> QED
    BY <1>1, <2>1 DEF TakenOut
<1>4. q = <<>> <=> Len(q) = 0
  BY <1>3
<1>5. PICK pos : pos = KeptOne(w, a)
  OBVIOUS
<1>6. \A i \in 1..(L - 1) : pos[i] = IF i < a THEN i ELSE i + 1
  BY <1>1, <1>5 DEF KeptOne
<1>7. \A i \in 1..(L - 1) : pos[i] \in 1..L /\ pos[i] # a /\ q[i] = w[pos[i]]
  BY <1>3, <1>6
<1>8. \A i, j \in 1..(L - 1) : i < j => pos[i] < pos[j]
  BY <1>3, <1>6
<1>9. \A p \in 1..L : p # a => \E i \in 1..(L - 1) : pos[i] = p
  <2> SUFFICES ASSUME NEW p \in 1..L, p # a PROVE \E i \in 1..(L - 1) : pos[i] = p
    OBVIOUS
  <2>1. CASE p < a
    <3>1. p \in 1..(L - 1) /\ pos[p] = p
      BY <1>3, <1>6, <2>1
    <3> QED
      BY <3>1
  <2>2. CASE ~(p < a)
    <3>1. p - 1 \in 1..(L - 1) /\ ~(p - 1 < a)
      BY <1>3, <2>2
    <3>2. pos[p - 1] = (p - 1) + 1
      BY <1>6, <3>1
    <3> QED
      BY <3>1, <3>2
  <2> QED
    BY <2>1, <2>2
<1>10. \A i \in 1..(L - 1) : ~StaleNode(s, q[i])
  BY <1>1, <1>7
<1>11. L - 1 \in Nat
  BY <1>3
<1> QED
  BY <1>1, <1>2, <1>3, <1>4, <1>5, <1>7, <1>8, <1>9, <1>10, <1>11 DEF Kept

\* So do two.
LEMMA TwoTakenOut ==
  ASSUME NEW w \in Seq(Node), NEW s, NEW a \in 1..Len(w), NEW b \in 1..Len(w), a < b,
         \A p \in 1..Len(w) : StaleNode(s, w[p]) <=> p = a \/ p = b
  PROVE  Kept(w, s, RemoveAt(RemoveAt(w, a), b - 1), KeptTwo(w, a, b))
<1>1. PICK L \in Nat : L = Len(w)
  OBVIOUS
<1>2. PICK r : r = RemoveAt(w, a)
  OBVIOUS
<1>3. /\ r \in Seq(Node) /\ Len(r) = L - 1 /\ L >= 2 /\ a \in 1..L /\ b \in 1..L
      /\ \A j \in 1..(L - 1) : r[j] = IF j < a THEN w[j] ELSE w[j + 1]
  <2>1. TakenOut(Node, w, a, r)
    BY <1>2, RemoveAtIs
  <2> QED
    BY <1>1, <2>1 DEF TakenOut
<1>4. PICK c \in 1..Len(r) : c = b - 1
  BY <1>1, <1>3
<1>5. PICK q : q = RemoveAt(r, c)
  OBVIOUS
<1>6. /\ q \in Seq(Node) /\ Len(q) = (L - 1) - 1
      /\ \A j \in 1..((L - 1) - 1) : q[j] = IF j < c THEN r[j] ELSE r[j + 1]
  <2>1. TakenOut(Node, r, c, q)
    BY <1>3, <1>5, RemoveAtIs
  <2> QED
    BY <1>3, <2>1 DEF TakenOut
<1>7. PICK K \in Nat : K = L - 2 /\ K = (L - 1) - 1
  BY <1>3
<1>8. q = <<>> <=> Len(q) = 0
  BY <1>6
<1>9. PICK pos : pos = KeptTwo(w, a, b)
  OBVIOUS
<1>10. \A i \in 1..K :
         pos[i] = IF i < a THEN i ELSE IF i < b - 1 THEN i + 1 ELSE i + 2
  BY <1>1, <1>7, <1>9 DEF KeptTwo
<1>11. ASSUME NEW i \in 1..K
       PROVE  pos[i] \in 1..L /\ pos[i] # a /\ pos[i] # b /\ q[i] = w[pos[i]]
  <2>1. i \in 1..(L - 1) /\ i + 1 \in 1..(L - 1) /\ (i + 1) + 1 = i + 2
    BY <1>7
  <2>2. q[i] = IF i < c THEN r[i] ELSE r[i + 1]
    BY <1>6, <1>7
  <2>3. CASE i < a
    <3>1. i < c
      BY <1>3, <1>4, <2>3
    <3>2. pos[i] = i
      BY <1>10, <2>3
    <3> QED
      BY <1>3, <1>7, <2>1, <2>2, <2>3, <3>1, <3>2
  <2>4. CASE ~(i < a) /\ i < c
    <3>1. pos[i] = i + 1
      BY <1>4, <1>10, <2>4
    <3> QED
      BY <1>3, <1>4, <1>7, <2>1, <2>2, <2>4, <3>1
  <2>5. CASE ~(i < c)
    <3>1. ~(i < a) /\ ~(i + 1 < a)
      BY <1>3, <1>4, <2>5
    <3>2. pos[i] = i + 2
      BY <1>4, <1>10, <2>5, <3>1
    <3>3. r[i + 1] = w[(i + 1) + 1]
      BY <1>3, <2>1, <3>1
    <3> QED
      BY <1>3, <1>4, <1>7, <2>1, <2>2, <2>5, <3>1, <3>2, <3>3
  <2> QED
    BY <2>3, <2>4, <2>5
<1>12. \A i, j \in 1..K : i < j => pos[i] < pos[j]
  <2> SUFFICES ASSUME NEW i \in 1..K, NEW j \in 1..K, i < j PROVE pos[i] < pos[j]
    OBVIOUS
  <2>1. /\ pos[i] = IF i < a THEN i ELSE IF i < b - 1 THEN i + 1 ELSE i + 2
        /\ pos[j] = IF j < a THEN j ELSE IF j < b - 1 THEN j + 1 ELSE j + 2
    BY <1>10
  <2>2. a \in Nat /\ b \in Nat
    BY <1>3
  <2> QED
    BY <2>1, <2>2
<1>13. \A p \in 1..L : p # a /\ p # b => \E i \in 1..K : pos[i] = p
  <2> SUFFICES ASSUME NEW p \in 1..L, p # a, p # b PROVE \E i \in 1..K : pos[i] = p
    OBVIOUS
  <2>1. CASE p < a
    <3>1. p \in 1..K /\ pos[p] = p
      BY <1>3, <1>7, <1>10, <2>1
    <3> QED
      BY <3>1
  <2>2. CASE a < p /\ p < b
    <3>1. p - 1 \in 1..K /\ ~(p - 1 < a) /\ p - 1 < b - 1
      BY <1>3, <1>7, <2>2
    <3>2. pos[p - 1] = (p - 1) + 1
      BY <1>10, <3>1
    <3> QED
      BY <3>1, <3>2
  <2>3. CASE b < p
    <3>1. p - 2 \in 1..K /\ ~(p - 2 < a) /\ ~(p - 2 < b - 1)
      BY <1>3, <1>7, <2>3
    <3>2. pos[p - 2] = (p - 2) + 2
      BY <1>10, <3>1
    <3> QED
      BY <3>1, <3>2
  <2> QED
    BY <2>1, <2>2, <2>3
<1>14. \A i \in 1..K : ~StaleNode(s, q[i])
  BY <1>1, <1>11
<1>15. Kept(w, s, q, pos)
  BY <1>1, <1>6, <1>7, <1>8, <1>11, <1>12, <1>13, <1>14 DEF Kept
<1> QED
  BY <1>2, <1>4, <1>5, <1>9, <1>15

-----------------------------------------------------------------------------
(***************************************************************************)
(* At most two operations on a sector wait; so what is left is one of the  *)
(* lists PendingList says may be left.                                     *)
(***************************************************************************)
LEMMA LeftIsWithout ==
  ASSUME ChainInv, NEW m \in Module, NEW w, w = Walk(m), NEW s, NEW l, l = ListFrom(w, info)
  PROVE  \E q, pos : Kept(w, s, q, pos) /\ ListFrom(q, info) \in Without(l, Stale(l, s))
<1>1. PICK L \in Nat : L = Len(w)
  BY WalkedIs DEF Walked
<1>2. w \in Seq(Node) /\ (w = <<>> <=> L = 0)
  BY <1>1, WalkedIs DEF Walked
<1>3. \A i, j \in 1..L : i < j /\ StaleNode(s, w[i]) /\ StaleNode(s, w[j])
        => info[w[i]].type = "W" /\ info[w[j]].type = "E"
  BY <1>1 DEF ChainInv, ChainList, StaleNode
<1>4. /\ \A i : i \in Stale(l, s) <=> i \in 1..L /\ StaleNode(s, w[L - i + 1])
      /\ \A p \in 1..L : L + 1 - p \in 1..L /\ L - (L + 1 - p) + 1 = p
  BY <1>1, StaleMirrors
<1>5. \A i \in 1..L : L - i + 1 \in 1..L /\ L + 1 - (L - i + 1) = i
  OBVIOUS
<1>6. CASE \A p \in 1..L : ~StaleNode(s, w[p])
  <2>1. PICK pos : pos = [i \in 1..L |-> i]
    OBVIOUS
  <2>2. Kept(w, s, w, pos)
    BY <1>1, <1>2, <1>6, <2>1 DEF Kept
  <2>3. Stale(l, s) = {}
    BY <1>4, <1>5, <1>6
  <2>4. l \in Without(l, {})
    BY DEF Without
  <2> QED
    BY <2>2, <2>3, <2>4
<1>7. ASSUME NEW a \in 1..L, \A p \in 1..L : StaleNode(s, w[p]) <=> p = a
      PROVE  \E q, pos : Kept(w, s, q, pos) /\ ListFrom(q, info) \in Without(l, Stale(l, s))
  <2>1. Kept(w, s, RemoveAt(w, a), KeptOne(w, a))
    BY <1>1, <1>2, <1>7, OneTakenOut
  <2>2. PICK b : b = L + 1 - a
    OBVIOUS
  <2>3. \A i : i \in Stale(l, s) <=> i = b
    BY <1>4, <1>5, <1>7, <2>2
  <2>4. Stale(l, s) = {b}
    BY <2>3
  <2>5. RemoveAt(l, b) \in Without(l, {b})
    BY DEF Without
  <2>6. ListFrom(RemoveAt(w, a), info) = RemoveAt(l, b)
    BY <1>1, <1>2, <2>2, RemoveMirrors
  <2> QED
    BY <2>1, <2>4, <2>5, <2>6
<1>8. ASSUME NEW a \in 1..L, NEW b \in 1..L, a < b, StaleNode(s, w[a]), StaleNode(s, w[b])
      PROVE  \E q, pos : Kept(w, s, q, pos) /\ ListFrom(q, info) \in Without(l, Stale(l, s))
  <2>1. info[w[a]].type = "W" /\ info[w[b]].type = "E"
    BY <1>3, <1>8
  <2>2. ASSUME NEW p \in 1..L, StaleNode(s, w[p]), p # a, p # b PROVE FALSE
    <3>1. CASE p < a
      <4>1. info[w[a]].type = "E"
        BY <1>3, <1>8, <2>2, <3>1
      <4> QED
        BY <2>1, <4>1
    <3>2. CASE a < p /\ p < b
      <4>1. info[w[p]].type = "E"
        BY <1>3, <1>8, <2>2, <3>2
      <4>2. info[w[p]].type = "W"
        BY <1>3, <1>8, <2>2, <3>2
      <4> QED
        BY <4>1, <4>2
    <3>3. CASE b < p
      <4>1. info[w[b]].type = "W"
        BY <1>3, <1>8, <2>2, <3>3
      <4> QED
        BY <2>1, <4>1
    <3> QED
      BY <2>2, <3>1, <3>2, <3>3
  <2>3. \A p \in 1..L : StaleNode(s, w[p]) <=> p = a \/ p = b
    BY <1>8, <2>2
  <2>4. Kept(w, s, RemoveAt(RemoveAt(w, a), b - 1), KeptTwo(w, a, b))
    BY <1>1, <1>2, <1>8, <2>3, TwoTakenOut
  <2>5. PICK x \in 1..L : x = L + 1 - a
    BY <1>4
  <2>6. PICK y \in 1..L : y = L + 1 - b
    BY <1>4
  <2>7. x > y
    BY <1>8, <2>5, <2>6
  <2>8. \A i : i \in Stale(l, s) <=> i = x \/ i = y
    BY <1>4, <1>5, <2>3, <2>5, <2>6
  <2>9. Stale(l, s) = {x, y}
    BY <2>8
  <2>10. RemoveAt(RemoveAt(l, x), y) \in Without(l, {x, y})
    <3>1. <<x, y>> \in {n \in {x, y} \X {x, y} : n[1] > n[2] /\ {x, y} = {n[1], n[2]}}
      BY <2>7
    <3>2. RemoveAt(RemoveAt(l, <<x, y>>[1]), <<x, y>>[2]) \in Without(l, {x, y})
      BY <3>1 DEF Without
    <3> QED
      BY <3>2
  <2>11. PICK r : r = RemoveAt(w, a)
    OBVIOUS
  <2>12. r \in Seq(Node) /\ Len(r) = L - 1 /\ ListFrom(r, info) = RemoveAt(l, x)
    <3>1. TakenOut(Node, w, a, r)
      BY <1>1, <1>2, <2>11, RemoveAtIs
    <3>2. ListFrom(r, info) = RemoveAt(l, x)
      BY <1>1, <1>2, <2>5, <2>11, RemoveMirrors
    <3> QED
      BY <1>1, <3>1, <3>2 DEF TakenOut
  <2>13. PICK c \in 1..Len(r) : c = b - 1 /\ Len(r) + 1 - c = y
    BY <1>8, <2>6, <2>12
  <2>14. ListFrom(RemoveAt(r, c), info) = RemoveAt(ListFrom(r, info), y)
    <3>1. ListFrom(RemoveAt(r, c), info) = RemoveAt(ListFrom(r, info), Len(r) + 1 - c)
      BY <2>12, RemoveMirrors
    <3> QED
      BY <2>13, <3>1
  <2>15. ListFrom(RemoveAt(r, c), info) = RemoveAt(RemoveAt(l, x), y)
    BY <2>12, <2>14
  <2> QED
    BY <2>4, <2>9, <2>10, <2>11, <2>13, <2>15
<1>9. CASE \E a \in 1..L : StaleNode(s, w[a])
  <2>1. PICK a \in 1..L : StaleNode(s, w[a])
    BY <1>9
  <2>2. CASE \A p \in 1..L : StaleNode(s, w[p]) => p = a
    <3>1. \A p \in 1..L : StaleNode(s, w[p]) <=> p = a
      BY <2>1, <2>2
    <3> QED
      BY <1>7, <3>1
  <2>3. CASE \E b \in 1..L : StaleNode(s, w[b]) /\ b # a
    <3>1. PICK b \in 1..L : StaleNode(s, w[b]) /\ b # a
      BY <2>3
    <3>2. CASE a < b
      BY <1>8, <2>1, <3>1, <3>2
    <3>3. CASE b < a
      BY <1>8, <2>1, <3>1, <3>3
    <3> QED
      BY <3>1, <3>2, <3>3
  <2> QED
    BY <2>2, <2>3
<1> QED
  BY <1>6, <1>9

\* The list seen the other way round: what a hole is, and what absorbs an erase.
LEMMA HoleMirrors ==
  ASSUME NEW w, Len(w) \in Nat, NEW s, NEW l, l = ListFrom(w, info)
  PROVE  /\ ~LeavesFreedNode(l, s) => NoHole(w, s)
         /\ ErasingNow(l, s) <=> \E i \in 1..Len(w) : Absorbs(s, w[i])
<1>1. PICK L \in Nat : L = Len(w)
  OBVIOUS
<1>2. DOMAIN l = 1..L /\ Len(l) = L /\ \A i \in 1..L : l[i] = info[w[L - i + 1]]
  BY <1>1, ListFromIs
<1>3. /\ \A i : i \in Stale(l, s) <=> i \in 1..L /\ StaleNode(s, w[L - i + 1])
      /\ \A p \in 1..L : L + 1 - p \in 1..L /\ L - (L + 1 - p) + 1 = p
  BY <1>1, StaleMirrors
<1>4. ASSUME ~LeavesFreedNode(l, s), NEW p \in 2..L, p + 1 <= L,
             StaleNode(s, w[p]), StaleNode(s, w[p + 1])
      PROVE  FALSE
  <2>1. PICK i : i = L + 1 - p
    OBVIOUS
  <2>2. /\ i \in 1..L /\ L - i + 1 = p
        /\ i - 1 \in 1..L /\ L - (i - 1) + 1 = p + 1 /\ i < L
    BY <1>4, <2>1
  <2>3. i \in Stale(l, s) /\ i - 1 \in Stale(l, s)
    BY <1>3, <1>4, <2>2
  <2> QED
    BY <1>2, <1>4, <2>2, <2>3 DEF LeavesFreedNode
<1>5. ASSUME ErasingNow(l, s) PROVE \E i \in 1..L : Absorbs(s, w[i])
  <2>1. PICK i \in 1..L : l[i].sector = s /\ l[i].lock /\ l[i].type = "E"
    BY <1>2, <1>5 DEF ErasingNow, OnSector
  <2>2. Absorbs(s, w[L - i + 1])
    BY <1>2, <2>1 DEF Absorbs
  <2>3. L - i + 1 \in 1..L
    OBVIOUS
  <2> QED
    BY <2>2, <2>3
<1>6. ASSUME NEW p \in 1..L, Absorbs(s, w[p]) PROVE ErasingNow(l, s)
  <2>1. PICK i \in 1..L : i = L + 1 - p /\ L - i + 1 = p
    BY <1>3
  <2>2. l[i].sector = s /\ l[i].lock /\ l[i].type = "E"
    BY <1>2, <1>6, <2>1 DEF Absorbs
  <2> QED
    BY <1>2, <2>2 DEF ErasingNow, OnSector
<1> QED
  BY <1>1, <1>4, <1>5, <1>6 DEF NoHole

\* An erase is added.
LEMMA EraseAddOK ==
  ASSUME ChainInv, AvoidsHole, NEW s \in Sector, EraseAdd(s)
  PROVE  StepOK
<1>1. PICK m \in Module : m = Owner[s]
  BY ChainAssumption
<1>2. PICK w : w = Walk(m)
  OBVIOUS
<1>3. PICK l : l = ListFrom(w, info)
  OBVIOUS
<1>4. PICK v : v = EraseLoop(m, s)
  OBVIOUS
<1>5. List(m) = l /\ Len(w) \in Nat
  BY <1>2, <1>3, ListIs, WalkedIs DEF Walked
<1>6. NoHole(w, s)
  <2>1. ~LeavesFreedNode(l, s)
    BY <1>1, <1>5 DEF EraseAdd
  <2> QED
    BY <1>3, <1>5, <2>1, HoleMirrors
<1>7. LoopDone(w, s, Len(w), v) /\ (v.merged <=> ErasingNow(l, s))
  BY <1>2, <1>3, <1>4, <1>5, <1>6, HoleMirrors, LoopEnds
<1>8. PICK q, pos : Kept(w, s, q, pos) /\ ListFrom(q, info) \in Without(l, Stale(l, s))
  BY <1>2, <1>3, LeftIsWithout
<1>9. Dropped(m, q, v.head, v.next, v.used, v.buffUsed)
  BY <1>2, <1>6, <1>7, <1>8, KeptDropped
<1>10. s \in Mine(m) /\ ChainTypeOK
  BY <1>1 DEF Mine, ChainInv
<1>11. CASE v.merged \/ FreeNodes(v.used) = {}
  <2>1. /\ head' = [head EXCEPT ![m] = v.head] /\ next' = v.next /\ used' = v.used
        /\ buffUsed' = v.buffUsed /\ info' = info /\ cur' = cur
    BY <1>1, <1>4, <1>11 DEF EraseAdd
  <2>2. ChainTypeOK' /\ ListBecomes(m, q) /\ BuffsOwned(info', used', buffUsed')
    BY <1>9, <2>1, DropBecomes
  <2>3. ErasedFrom(l, s, Shape(ListFrom(q, info)))
    BY <1>8 DEF ErasedFrom
  <2>4. ListStep(l, Shape(ListFrom(q, info')), Mine(m))
    BY <1>10, <2>1, <2>3 DEF ListStep
  <2> QED
    BY <1>2, <1>3, <2>2, <2>4, StepIsOK
<1>12. CASE ~(v.merged \/ FreeNodes(v.used) = {})
  <2>1. PICK n \in Node : n = Min(FreeNodes(v.used)) /\ n \notin v.used
    <3>1. FreeNodes(v.used) \in SUBSET Nat /\ FreeNodes(v.used) # {}
      BY <1>12 DEF FreeNodes, Node
    <3> QED
      BY <3>1, MinIn DEF FreeNodes
  <2>2. PICK o : o = [type |-> "E", sector |-> s, buff |-> NULL, lock |-> FALSE]
    OBVIOUS
  <2>3. /\ o \in Info /\ o.type = "E" /\ o.sector = s /\ o.buff = NULL /\ ~o.lock
        /\ Kind(o) = <<"E", s, FALSE>>
    BY <2>2 DEF Info, Kind
  <2>4. /\ head' = [head EXCEPT ![m] = n] /\ next' = [v.next EXCEPT ![n] = v.head]
        /\ used' = v.used \cup {n} /\ buffUsed' = v.buffUsed
        /\ info' = [info EXCEPT ![n] = o] /\ cur' = cur
    BY <1>1, <1>4, <1>12, <2>1, <2>2 DEF EraseAdd, Link
  <2>5. Pushes(m, v.head, v.next, v.used, v.buffUsed, n, o)
    BY <2>3, <2>4 DEF Pushes
  <2>6. MayPush(m, q, v.used, n, o)
    BY <1>1, <1>8, <2>1, <2>3 DEF MayPush, Kept, StaleNode
  <2>7. /\ ChainTypeOK' /\ ListBecomes(m, Push(n, q)) /\ BuffsOwned(info', used', buffUsed')
        /\ Shape(ListFrom(Push(n, q), info')) = Append(Shape(ListFrom(q, info)), Kind(o))
    BY <1>9, <2>5, <2>6, PushBecomes
  <2>8. ErasedFrom(l, s, Shape(ListFrom(Push(n, q), info')))
    BY <1>7, <1>8, <1>12, <2>3, <2>7 DEF ErasedFrom
  <2>9. ListStep(l, Shape(ListFrom(Push(n, q), info')), Mine(m))
    BY <1>10, <2>8 DEF ListStep
  <2> QED
    BY <1>2, <1>3, <2>7, <2>9, StepIsOK
<1> QED
  BY <1>11, <1>12

-----------------------------------------------------------------------------
\* At first nothing is pending.
LEMMA InitInv ==
  Init => ChainInv
<1> SUFFICES ASSUME Init PROVE ChainInv
  OBVIOUS
<1>1. /\ \A m \in Module : head[m] = NULL /\ cur[m] = NULL
      /\ used = {} /\ buffUsed = {}
  BY DEF Init
<1>2. ChainTypeOK
  <2>1. (CHOOSE s \in Sector : TRUE) \in Sector
    BY ChainAssumption
  <2>2. PICK z \in Sector : z = CHOOSE s \in Sector : TRUE
    BY <2>1
  <2>3. info \in [Node -> {[type |-> "E", sector |-> z, buff |-> NULL, lock |-> FALSE]}]
    BY <2>2 DEF Init
  <2>4. [type |-> "E", sector |-> z, buff |-> NULL, lock |-> FALSE] \in Info
    BY DEF Info
  <2>5. info \in [Node -> Info]
    BY <2>3, <2>4
  <2> QED
    BY <2>5 DEF Init, ChainTypeOK
<1>3. ASSUME NEW m \in Module
      PROVE  ChainList(m, Walk(m), head[m], cur[m], next, info, used)
  <2>1. Linked(head[m], next, <<>>) /\ Len(<<>>) = 0
    BY <1>1 DEF Linked
  <2>2. Walk(m) = <<>>
    BY <2>1, WalkIs DEF Walk
  <2> QED
    BY <1>1, <2>1, <2>2 DEF ChainList
<1>4. BuffsOwned(info, used, buffUsed)
  BY <1>1 DEF BuffsOwned
<1> QED
  BY <1>1, <1>2, <1>3, <1>4 DEF ChainInv

\* Every step keeps the invariant and does to every list what PendingList says.
LEMMA NextStepOK ==
  ASSUME ChainInv, AvoidsHole, Next
  PROVE  StepOK
BY EraseAddOK, WriteAddOK, StartOK, FinishOK DEF Next

\* A step that changes nothing changes no list.
LEMMA StutterOK ==
  ASSUME ChainInv, UNCHANGED vars
  PROVE  StepOK
<1>1. /\ head' = head /\ cur' = cur /\ next' = next /\ info' = info
      /\ used' = used /\ buffUsed' = buffUsed
  BY DEF vars
<1>2. \A m : Walk(m)' = Walk(m)
  BY <1>1 DEF Walk
<1>3. ChainInv'
  BY <1>1, <1>2 DEF ChainInv, ChainTypeOK, InItsList
<1>4. \A m : List(m)' = List(m)
  BY <1>1, <1>2, ListIs
<1>5. FollowsList
  BY <1>4 DEF FollowsList, ListStep
<1> QED
  BY <1>3, <1>5 DEF StepOK

(***************************************************************************)
(* Clients that avoid the erase that leaves a freed node find the pools    *)
(* and the lists in agreement, whatever they ask for in whatever order: no *)
(* node and no buffer leaks or is given back twice, every buffer belongs   *)
(* to one pending write, and no walk along a list runs in a circle         *)
(* (norflash_api.cpp, opera_info_list and data_list).                      *)
(***************************************************************************)
THEOREM OwnedOnceTheorem ==
  AvoidsHole => (Spec => []OwnedOnce)
<1> SUFFICES ASSUME AvoidsHole PROVE Spec => []OwnedOnce
  OBVIOUS
<1>1. Init => ChainInv
  BY InitInv
<1>2. ChainInv /\ [Next]_vars => ChainInv'
  BY NextStepOK, StutterOK DEF StepOK
<1>3. ChainInv => OwnedOnce
  BY InvOwnedOnce
<1> QED
  BY <1>1, <1>2, <1>3, PTL DEF Spec

(***************************************************************************)
(* And what the code does to a list pointer by pointer is what PendingList *)
(* says: _e_opera_add drops the stale nodes and appends or absorbs the     *)
(* erase, _w_opera_add appends, _opera_flush locks the oldest and          *)
(* _opera_del takes it away.                                               *)
(***************************************************************************)
THEOREM FollowsPendingListTheorem ==
  AvoidsHole => (Spec => FollowsPendingList)
<1> SUFFICES ASSUME AvoidsHole PROVE Spec => FollowsPendingList
  OBVIOUS
<1>1. Init => ChainInv
  BY InitInv
<1>2. ChainInv /\ [Next]_vars => ChainInv'
  BY NextStepOK, StutterOK DEF StepOK
<1>3. ChainInv /\ [Next]_vars
        => [\A m \in Module :
              ListStep(List(m), Shape(List(m)'), {s \in Sector : Owner[s] = m})]_vars
  BY NextStepOK DEF StepOK, FollowsList, Mine
<1> QED
  BY <1>1, <1>2, <1>3, PTL DEF Spec, FollowsPendingList

=============================================================================
