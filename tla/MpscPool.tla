------------------------------ MODULE MpscPool ------------------------------
(***************************************************************************)
(* The lock-free pool for one consuming PE (ABTI_pool with single_consumer, *)
(* pool.cpp): an intrusive queue in which producers exchange the tail and  *)
(* then link, and the consumer walks from the head under the spinlock lk.  *)
(* Each shared load, store or exchange of the lock-free part is a step.    *)
(* The links are pointers: what the queue holds is what they reach.        *)
(***************************************************************************)
EXTENDS Integers, Sequences, SequencesExt, FiniteSets

CONSTANTS Units, Producers, Consumers, Removers,
          Primary, Home,  \* the unit that only consumer Home may resume
          Stub, None

Procs == Producers \cup Consumers \cup Removers
Nodes == Units \cup {Stub}

VARIABLES tail, head, nxt,   \* the queue: nxt[n] is n->next
          lk,                \* the pool spinlock
          inPool, removed,   \* the flags of each unit
          count,             \* the pool's counter
          pc,                \* where each process is in the pool's operations
          unit,              \* unit[p]: the unit p works on
          link,              \* link[p]: the node p read and will use
          owner              \* owner[u]: the process entitled to push u, or None

vars == <<tail, head, nxt, lk, inPool, removed, count, pc, unit, link, owner>>

Init == /\ tail = Stub /\ head = Stub
        /\ nxt = [n \in Nodes |-> None]
        /\ lk = None
        /\ inPool = [u \in Units |-> FALSE]
        /\ removed = [u \in Units |-> FALSE]
        /\ count = 0
        /\ pc = [p \in Procs |-> "idle"]
        /\ unit = [p \in Procs |-> None]
        /\ link = [p \in Procs |-> None]
        /\ owner \in [Units -> Producers]

Goto(p, l) == pc' = [pc EXCEPT ![p] = l]

\* pinned_elsewhere: the primary ULT popped by a PE that is not its home.
PinnedElsewhere(u, c) == u = Primary /\ c # Home

\* push: raise in_pool; finding it raised is fatal.
Enter(p, u) ==
  /\ unit' = [unit EXCEPT ![p] = u]
  /\ inPool' = [inPool EXCEPT ![u] = TRUE]
  /\ owner' = [owner EXCEPT ![u] = IF inPool[u] THEN @ ELSE None]
  /\ Goto(p, IF inPool[u] THEN "abort" ELSE "xchg")
  /\ UNCHANGED <<tail, head, nxt, lk, removed, count, link>>

\* A process pushes a unit it owns.  After ABT_pool_remove it may do so only
\* once a pop has passed the unit (the message in push says so).
push(p) == \E u \in Units : /\ pc[p] = "idle" /\ owner[u] = p
                            /\ removed[u] => ~inPool[u]
                            /\ Enter(p, u)

\* The node's link is cleared and the tail exchanged ...
PushExchange(p) ==
  /\ pc[p] = "xchg"
  /\ nxt' = [nxt EXCEPT ![unit[p]] = None]
  /\ link' = [link EXCEPT ![p] = tail]
  /\ tail' = unit[p]
  /\ Goto(p, "link")
  /\ UNCHANGED <<head, lk, inPool, removed, count, unit, owner>>

\* ... the previous tail linked to it ...
PushLink(p) ==
  /\ pc[p] = "link"
  /\ nxt' = [nxt EXCEPT ![link[p]] = unit[p]]
  /\ Goto(p, "count")
  /\ UNCHANGED <<tail, head, lk, inPool, removed, count, unit, link, owner>>

\* Variant: the count is read, incremented and written like a plain variable.
VariantPushCount(p) ==
  /\ pc[p] = "count"
  /\ \E q \in Procs : count' = IF q # p /\ pc[q] = "count" THEN count ELSE count + 1
  /\ unit' = [unit EXCEPT ![p] = None]
  /\ Goto(p, "idle")
  /\ UNCHANGED <<tail, head, nxt, lk, inPool, removed, link, owner>>

\* ... and the unit counted.
PushCount(p) ==
  /\ pc[p] = "count"
  /\ count' = count + 1
  /\ unit' = [unit EXCEPT ![p] = None]
  /\ Goto(p, "idle")
  /\ UNCHANGED <<tail, head, nxt, lk, inPool, removed, link, owner>>

\* pop_mpsc takes the spinlock.
pop_mpsc(c) ==
  /\ pc[c] = "idle" /\ lk = None
  /\ lk' = c
  /\ Goto(c, "scan")
  /\ UNCHANGED <<tail, head, nxt, inPool, removed, count, unit, link, owner>>

\* The head's link: empty behind the stub, the stub to step over, a unit with
\* a successor, or the last unit.
Scan(c) ==
  /\ pc[c] = "scan"
  /\ IF head = Stub
     THEN IF nxt[Stub] = None
          THEN lk' = None /\ Goto(c, "idle") /\ UNCHANGED <<head, link>>
          ELSE head' = nxt[Stub] /\ UNCHANGED <<lk, pc, link>>
     ELSE IF nxt[head] = None
          THEN Goto(c, "last") /\ UNCHANGED <<lk, head, link>>
          ELSE /\ link' = [link EXCEPT ![c] = nxt[head]]
               /\ Goto(c, "detach") /\ UNCHANGED <<lk, head>>
  /\ UNCHANGED <<tail, nxt, inPool, removed, count, unit, owner>>

\* A unit without successor that is not the tail has a producer before its
\* link: the pop reports empty.
LastUnit(c) ==
  /\ pc[c] = "last"
  /\ IF head # tail THEN lk' = None /\ Goto(c, "idle") ELSE Goto(c, "stub_xchg") /\ UNCHANGED lk
  /\ UNCHANGED <<tail, head, nxt, inPool, removed, count, unit, link, owner>>

\* Variant: the stub keeps the link it had when it was last in the queue.
VariantStubExchange(c) ==
  /\ pc[c] = "stub_xchg"
  /\ link' = [link EXCEPT ![c] = tail]
  /\ tail' = Stub
  /\ Goto(c, "stub_link")
  /\ UNCHANGED <<head, nxt, lk, inPool, removed, count, unit, owner>>

\* The stub is appended behind it, like a push ...
StubExchange(c) ==
  /\ pc[c] = "stub_xchg"
  /\ nxt' = [nxt EXCEPT ![Stub] = None]
  /\ link' = [link EXCEPT ![c] = tail]
  /\ tail' = Stub
  /\ Goto(c, "stub_link")
  /\ UNCHANGED <<head, lk, inPool, removed, count, unit, owner>>

StubLink(c) ==
  /\ pc[c] = "stub_link"
  /\ nxt' = [nxt EXCEPT ![link[c]] = Stub]
  /\ Goto(c, "reread")
  /\ UNCHANGED <<tail, head, lk, inPool, removed, count, unit, link, owner>>

\* ... and the link read again: a producer may have come between.
Reread(c) ==
  /\ pc[c] = "reread"
  /\ IF nxt[head] = None
     THEN lk' = None /\ Goto(c, "idle") /\ UNCHANGED link
     ELSE link' = [link EXCEPT ![c] = nxt[head]] /\ Goto(c, "detach") /\ UNCHANGED lk
  /\ UNCHANGED <<tail, head, nxt, inPool, removed, count, unit, owner>>

\* The unit is detached ...
Detach(c) ==
  /\ pc[c] = "detach"
  /\ unit' = [unit EXCEPT ![c] = head]
  /\ head' = link[c]
  /\ Goto(c, "clear")
  /\ UNCHANGED <<tail, nxt, lk, inPool, removed, count, link, owner>>

\* ... in_pool lowered ...
Clear(c) ==
  /\ pc[c] = "clear"
  /\ inPool' = [inPool EXCEPT ![unit[c]] = FALSE]
  /\ Goto(c, "check")
  /\ UNCHANGED <<tail, head, nxt, lk, removed, count, unit, link, owner>>

\* ... and, if ABT_pool_remove marked it, passed over.
Check(c) ==
  /\ pc[c] = "check"
  /\ IF removed[unit[c]]
     THEN /\ removed' = [removed EXCEPT ![unit[c]] = FALSE]
          /\ unit' = [unit EXCEPT ![c] = None]
          /\ Goto(c, "scan") /\ UNCHANGED lk
     ELSE lk' = None /\ Goto(c, "uncount") /\ UNCHANGED <<removed, unit>>
  /\ UNCHANGED <<tail, head, nxt, inPool, count, link, owner>>

\* The unit is uncounted and returned, or goes on to be pushed back.
Uncount(c) ==
  /\ pc[c] = "uncount"
  /\ count' = count - 1
  /\ IF PinnedElsewhere(unit[c], c)
     THEN Goto(c, "repush") /\ UNCHANGED <<unit, owner>>
     ELSE /\ Goto(c, "idle")
          /\ owner' = [owner EXCEPT ![unit[c]] = c]
          /\ unit' = [unit EXCEPT ![c] = None]
  /\ UNCHANGED <<tail, head, nxt, lk, inPool, removed, link>>

Repush(c) == pc[c] = "repush" /\ Enter(c, unit[c])

\* remove_unit, under lk: a unit whose in_pool is raised is marked.  The
\* caller owns it from then on.  Nobody removes the primary ULT.
remove_unit(r) == \E u \in Units \ {Primary} :
  /\ pc[r] = "idle" /\ lk = None
  /\ inPool[u] /\ ~removed[u]
  /\ removed' = [removed EXCEPT ![u] = TRUE]
  /\ owner' = [owner EXCEPT ![u] = r]
  /\ Goto(r, "remove_count")
  /\ UNCHANGED <<tail, head, nxt, lk, inPool, count, unit, link>>

RemoveCount(r) ==
  /\ pc[r] = "remove_count"
  /\ count' = count - 1
  /\ Goto(r, "idle")
  /\ UNCHANGED <<tail, head, nxt, lk, inPool, removed, unit, link, owner>>

\* The steps of an operation under way.
PushStep(p) == PushExchange(p) \/ PushLink(p) \/ PushCount(p)
PopStep(c) == \/ Scan(c) \/ LastUnit(c) \/ StubExchange(c) \/ StubLink(c) \/ Reread(c)
              \/ Detach(c) \/ Clear(c) \/ Check(c) \/ Uncount(c) \/ Repush(c)

Next == \/ \E p \in Procs : push(p) \/ PushStep(p)
        \/ \E c \in Consumers : pop_mpsc(c) \/ PopStep(c)
        \/ \E r \in Removers : remove_unit(r) \/ RemoveCount(r)

Spec == Init /\ [][Next]_vars

\* Fairness: operations under way finish, and the consumers keep polling.
FairSpec == /\ Spec
            /\ \A p \in Procs : WF_vars(PushStep(p))
            /\ \A c \in Consumers : WF_vars(PopStep(c)) /\ SF_vars(pop_mpsc(c))

-----------------------------------------------------------------------------
\* What follows each node once the links under way are made.
Succ == [n \in Nodes \cup {None} |->
           IF n = None THEN None
           ELSE IF \E p \in Procs : pc[p] = "link" /\ link[p] = n
                THEN unit[CHOOSE p \in Procs : pc[p] = "link" /\ link[p] = n]
                ELSE IF \E c \in Consumers : pc[c] = "stub_link" /\ link[c] = n
                     THEN Stub ELSE nxt[n]]

\* The nodes from the head on.
Chain ==
  LET at[k \in 1..Cardinality(Nodes)] == IF k = 1 THEN head ELSE Succ[at[k - 1]]
  IN SelectSeq([k \in 1..Cardinality(Nodes) |-> at[k]], LAMBDA n : n # None)

\* A unit marked by remove_unit is out of the pool; the mark still up while a
\* pop passes over the unit does not count against a new push of it.
Marked(u) == removed[u] /\ ~\E c \in Consumers : pc[c] \in {"clear", "check"} /\ unit[c] = u

Queue == SelectSeq(Chain, LAMBDA n : n # Stub /\ ~Marked(n))

\* The unit a pop has taken and not yet returned or pushed back.
Taken(c) == IF \/ pc[c] \in {"clear", "check"} /\ ~removed[unit[c]]
               \/ pc[c] \in {"uncount", "repush"}
               \/ pc[c] = "xchg" /\ PinnedElsewhere(unit[c], c)
            THEN unit[c] ELSE None

Pool == INSTANCE AbstractPool WITH
  PoolUnits <- Units, PoolConsumers <- Consumers, Nobody <- None, Pinned <- PinnedElsewhere,
  queue <- Queue, got <- [c \in Consumers |-> Taken(c)]

\* The links, the flags and the registers have their types, and the spinlock is
\* held by a consumer inside pop_mpsc.
TypeOK == /\ tail \in Nodes /\ head \in Nodes
          /\ nxt \in [Nodes -> Nodes \cup {None}]
          /\ lk \in Consumers \cup {None}
          /\ inPool \in [Units -> BOOLEAN] /\ removed \in [Units -> BOOLEAN]
          /\ count \in -(Cardinality(Units) + Cardinality(Procs))..Cardinality(Units)
          /\ pc \in [Procs -> {"idle", "abort", "xchg", "link", "count", "scan", "last", "stub_xchg",
                               "stub_link", "reread", "detach", "clear", "check", "uncount",
                               "repush", "remove_count"}]
          /\ unit \in [Procs -> Units \cup {None}]
          /\ link \in [Procs -> Nodes \cup {None}]
          /\ owner \in [Units -> Procs \cup {None}]

\* The pool is a FIFO over all producers that loses, duplicates and reorders
\* nothing, whatever the interleaving of exchanges, links and the appended stub
\* (abti.h:91-105; pool.cpp:65-68, 103-137).
ImplementsPool == Pool!PoolSpec

\* No push finds its unit queued: a unit is handed out only after in_pool is
\* lowered, also when the pop passes over a removed unit that is pushed again
\* at that moment (pool.cpp:62-64, 124-125).
NeverQueuedTwice == \A p \in Procs : pc[p] # "abort"

\* The operations between a change of the queue and the change of count.
Uncounted == {p \in Procs : pc[p] \in {"xchg", "link", "count"}}
Overcounted == {p \in Procs : \/ p \in Consumers /\ pc[p] \in {"clear", "check"} /\ ~removed[unit[p]]
                              \/ pc[p] \in {"uncount", "remove_count"}}
Entering == {u \in Units : ~Marked(u) /\ \E p \in Procs : pc[p] = "xchg" /\ unit[p] = u}

\* count differs from the number of units by exactly the operations under way:
\* it is exact whenever the pool is at rest, removals during a push included
\* (abti.h:113; pool.cpp:77, 127, 193).
CountAccounted ==
  count + Cardinality(Uncounted) - Cardinality(Overcounted) = Len(Queue) + Cardinality(Entering)

\* A unit that is in the pool leaves it while the consumer polls: reporting
\* empty behind an unfinished push or at the last unit loses nothing
\* (pool.cpp:113-121).
UnitsArePopped == \A u \in Units : inPool[u] ~> ~inPool[u]
=============================================================================
