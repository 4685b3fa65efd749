---------------------------- MODULE NorflashChain ----------------------------
(***************************************************************************)
(* The pending lists of norflash_api.cpp as the code keeps them: singly    *)
(* linked nodes of the static pool opera_info_list, sector buffers of the  *)
(* pool data_list, and _e_opera_add, _w_opera_add, _get_tail, _opera_del   *)
(* and the two allocation functions working on them pointer by pointer.    *)
(* The chip and the data are left out; which operation is served next is   *)
(* left open.                                                              *)
(***************************************************************************)
EXTENDS PendingList

CONSTANTS ModuleCount,    \* NORFLASH_API_MODULE_ID_COUNT
          Sector, Owner,  \* the sectors and the module of each
          OpraListLen,    \* NORFLASH_API_OPRA_LIST_LEN
          WriteBuffLen,   \* NORFLASH_API_WRITE_BUFF_LEN
          AvoidsHole      \* whether clients avoid the erase that leaves a freed
                          \* node in the list

Module == 0..(ModuleCount - 1)
Node == 1..OpraListLen
Buff == 1..WriteBuffLen
NULL == 0

ASSUME ChainAssumption ==
  /\ Sector # {}
  /\ ModuleCount \in Nat \ {0}
  /\ OpraListLen \in Nat \ {0}
  /\ WriteBuffLen \in Nat
  /\ Owner \in [Sector -> Module]
  /\ AvoidsHole \in BOOLEAN

VARIABLES
  head,       \* mod_info[m].opera_info
  cur,        \* mod_info[m].cur_opera_info
  next,       \* the next field of every node
  info,       \* its other fields
  used,       \* opera_info_list[n].is_used
  buffUsed    \* data_list[n].is_used

vars == <<head, cur, next, info, used, buffUsed>>

Info == [type: {"E", "W"}, sector: Sector, buff: Buff \cup {NULL}, lock: BOOLEAN]

-----------------------------------------------------------------------------
(***************************************************************************)
(* The nodes a walk along a list visits, newest first.  It is cut after    *)
(* one more than the pool has: such a walk is in a circle and the code     *)
(* does not come back.                                                     *)
(***************************************************************************)
WalkFrom(first, link) ==
  LET visit[k \in Nat] ==
        IF k <= 1 THEN first
        ELSE IF visit[k - 1] = NULL THEN NULL ELSE link[visit[k - 1]]
  IN  [k \in 1..Cardinality({k \in 1..(OpraListLen + 1) : visit[k] # NULL}) |-> visit[k]]

Walk(m) == WalkFrom(head[m], next)

Circular(m) == Len(Walk(m)) > OpraListLen

(***************************************************************************)
(* _norflash_api_malloc takes the first free entry of a pool.              *)
(***************************************************************************)
FreeNodes(u) == Node \ u
FreeBuffs(u) == Buff \ u

\* A slip: only the node is given back.
FreedNode(v, n) == [v EXCEPT !.used = @ \ {n}]

(***************************************************************************)
(* The node n of a stale operation is given back, with its buffer.         *)
(***************************************************************************)
Freed(v, n) ==
  [v EXCEPT !.used = @ \ {n},
            !.buffUsed = IF info[n].type = "W" THEN @ \ {info[n].buff} ELSE @]

(***************************************************************************)
(* One round of the loop of _e_opera_add: n is opera_node, tmp its         *)
(* successor, and v holds what the loop has changed so far.                *)
(***************************************************************************)
EraseRound(s, tmp, n, v) ==
  IF v.merged THEN v
  ELSE IF info[n].sector = s /\ info[n].lock /\ info[n].type = "E"
  THEN [v EXCEPT !.merged = TRUE]
  ELSE
    LET stale == info[n].sector = s /\ ~info[n].lock
        w == IF ~stale THEN v
             ELSE [Freed(v, n) EXCEPT
               !.head = IF n = @ THEN tmp ELSE @,
               !.next = IF n = v.head THEN @ ELSE [@ EXCEPT ![v.pre] = tmp]]
    IN  IF tmp # NULL THEN [w EXCEPT !.pre = n] ELSE w

EraseLoop(m, s) ==
  LET w == Walk(m)
      start == [head |-> head[m], pre |-> head[m], next |-> next, used |-> used,
                buffUsed |-> buffUsed, merged |-> FALSE]
  IN  FoldLeft(LAMBDA v, n : EraseRound(s, next[n], n, v), start, w)

-----------------------------------------------------------------------------
(***************************************************************************)
(* The list as PendingList sees it, oldest first.                          *)
(***************************************************************************)
List(m) == LET w == Reverse(Walk(m)) IN [i \in DOMAIN w |-> info[w[i]]]

Link(m, n, i) ==
  /\ info' = [info EXCEPT ![n] = i]
  /\ head' = [head EXCEPT ![m] = n]

EraseAdd(s) ==
  LET m == Owner[s]
      v == EraseLoop(m, s)
  IN  /\ ~Circular(m)
      /\ AvoidsHole => ~LeavesFreedNode(List(m), s)
      /\ buffUsed' = v.buffUsed
      /\ IF v.merged \/ FreeNodes(v.used) = {}
         THEN /\ head' = [head EXCEPT ![m] = v.head]
              /\ next' = v.next
              /\ used' = v.used
              /\ UNCHANGED info
         ELSE LET n == Min(FreeNodes(v.used))
              IN  /\ Link(m, n, [type |-> "E", sector |-> s, buff |-> NULL, lock |-> FALSE])
                  /\ next' = [v.next EXCEPT ![n] = v.head]
                  /\ used' = v.used \cup {n}
      /\ UNCHANGED cur

(***************************************************************************)
(* A merge changes no pointer; a node without a buffer is given back.      *)
(***************************************************************************)
WriteAdd(s) ==
  LET m == Owner[s]
  IN  /\ ~Circular(m)
      /\ \A i \in DOMAIN List(m) : ~MergesInto(List(m), s, i)
      /\ FreeNodes(used) # {} /\ FreeBuffs(buffUsed) # {}
      /\ LET n == Min(FreeNodes(used))
             b == Min(FreeBuffs(buffUsed))
         IN  /\ Link(m, n, [type |-> "W", sector |-> s, buff |-> b, lock |-> FALSE])
             /\ next' = [next EXCEPT ![n] = head[m]]
             /\ used' = used \cup {n}
             /\ buffUsed' = buffUsed \cup {b}
      /\ UNCHANGED cur

\* A slip: the newest operation is taken.
StartNewest(m) ==
  /\ cur[m] = NULL
  /\ head[m] # NULL
  /\ cur' = [cur EXCEPT ![m] = head[m]]
  /\ info' = [info EXCEPT ![head[m]].lock = TRUE]
  /\ UNCHANGED <<head, next, used, buffUsed>>

(***************************************************************************)
(* _opera_flush takes the tail with _get_tail and remembers it while it is *)
(* suspended.                                                              *)
(***************************************************************************)
Start(m) ==
  /\ cur[m] = NULL
  /\ head[m] # NULL
  /\ ~Circular(m)
  /\ LET n == Last(Walk(m))
     IN  /\ cur' = [cur EXCEPT ![m] = n]
         /\ info' = [info EXCEPT ![n].lock = TRUE]
  /\ UNCHANGED <<head, next, used, buffUsed>>

\* A slip: the node is given back but stays linked.
FinishLinked(m) ==
  /\ cur[m] # NULL
  /\ ~Circular(m)
  /\ cur' = [cur EXCEPT ![m] = NULL]
  /\ used' = used \ {cur[m]}
  /\ buffUsed' = buffUsed \ {info[cur[m]].buff}
  /\ UNCHANGED <<head, next, info>>

(***************************************************************************)
(* When it is done _opera_del cuts the list off before the node.           *)
(***************************************************************************)
Finish(m) ==
  LET n == cur[m]
      w == Walk(m)
      i == CHOOSE k \in DOMAIN w : w[k] = n
  IN  /\ n # NULL
      /\ ~Circular(m)
      /\ cur' = [cur EXCEPT ![m] = NULL]
      /\ IF n \notin Range(w) THEN UNCHANGED <<head, next, used, buffUsed>>
         ELSE /\ IF n = head[m]
                 THEN head' = [head EXCEPT ![m] = NULL] /\ UNCHANGED next
                 ELSE next' = [next EXCEPT ![w[i - 1]] = NULL] /\ UNCHANGED head
              /\ used' = used \ {n}
              /\ buffUsed' = buffUsed \ {info[n].buff}
      /\ UNCHANGED info

Init ==
  /\ head = [m \in Module |-> NULL]
  /\ cur = [m \in Module |-> NULL]
  /\ next = [n \in Node |-> NULL]
  /\ info \in [Node -> {[type |-> "E", sector |-> s, buff |-> NULL, lock |-> FALSE] :
                          s \in {CHOOSE s \in Sector : TRUE}}]
  /\ used = {}
  /\ buffUsed = {}

Next ==
  \/ \E s \in Sector : EraseAdd(s) \/ WriteAdd(s)
  \/ \E m \in Module : Start(m) \/ Finish(m)

Spec == Init /\ [][Next]_vars

-----------------------------------------------------------------------------
ChainTypeOK ==
  /\ head \in [Module -> Node \cup {NULL}]
  /\ cur \in [Module -> Node \cup {NULL}]
  /\ next \in [Node -> Node \cup {NULL}]
  /\ info \in [Node -> Info]
  /\ used \subseteq Node
  /\ buffUsed \subseteq Buff

(***************************************************************************)
(* No list runs in a circle: _get_tail and _get_ew_count come to an end.   *)
(* They run with interrupts locked, so that nothing would stop them.       *)
(***************************************************************************)
WalksEnd == \A m \in Module : ~Circular(m)

(***************************************************************************)
(* The pools and the lists agree: the nodes in use are those the lists     *)
(* reach, each in one place, and the buffers in use are those of the       *)
(* pending writes, one each.  Nothing leaks, nothing is freed twice, and   *)
(* every walk along a list comes to an end.                                *)
(***************************************************************************)
OwnedOnce ==
  LET writers == {n \in used : info[n].type = "W"}
  IN  /\ ChainTypeOK /\ WalksEnd
      /\ used = UNION {Range(Walk(m)) : m \in Module}
      /\ \A m, n \in Module : m # n => Range(Walk(m)) \cap Range(Walk(n)) = {}
      /\ buffUsed = {info[n].buff : n \in writers}
      /\ \A a, b \in writers : info[a].buff = info[b].buff => a = b

(***************************************************************************)
(* "delete opera nodes with the same address when add the erase opera      *)
(* node": after an erase was added every node the list reaches is in use.  *)
(***************************************************************************)
NoFreedNodeLinked == \A m \in Module : Range(Walk(m)) \subseteq used

(***************************************************************************)
(* Pointer by pointer the code does to each list what PendingList and      *)
(* NorflashApi say of it as a sequence: an erase drops the stale nodes and *)
(* is appended or absorbed, a write is appended, the oldest is locked, the *)
(* locked one leaves.                                                      *)
(***************************************************************************)
Kind(o) == <<o.type, o.sector, o.lock>>
Shape(q) == [i \in DOMAIN q |-> Kind(q[i])]

ErasedFrom(q, s, r) ==
  \E t \in Without(q, Stale(q, s)) :
    r = Shape(t) \/ (~ErasingNow(q, s) /\ r = Append(Shape(t), <<"E", s, FALSE>>))

ListStep(q, r, mine) ==
  \/ r = Shape(q)
  \/ \E s \in mine : ErasedFrom(q, s, r) \/ r = Append(Shape(q), <<"W", s, FALSE>>)
  \/ q # <<>> /\ r = Shape([q EXCEPT ![1].lock = TRUE])
  \/ q # <<>> /\ q[1].lock /\ r = Tail(Shape(q))

FollowsPendingList ==
  [][\A m \in Module :
       ListStep(List(m), Shape(List(m)'), {s \in Sector : Owner[s] = m})]_vars

=============================================================================
