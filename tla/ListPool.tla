------------------------------ MODULE ListPool ------------------------------
(***************************************************************************)
(* The spinlocked pool for several consuming PEs (ABTI_pool without         *)
(* single_consumer, pool.cpp): a doubly linked list whose links are in the *)
(* units.  What happens under lk is one step; in_pool is raised before lk  *)
(* is taken and count changes after it is released.                        *)
(***************************************************************************)
EXTENDS Integers, Sequences, SequencesExt, FiniteSets

CONSTANTS Units, Producers, Consumers, Removers,
          Primary, Home,    \* the unit that only consumer Home may resume
          RemoveWhilePushed,  \* whether ABT_pool_remove may overlap the unit's push
          None

Procs == Producers \cup Consumers \cup Removers

VARIABLES lhead, ltail, lnext, lprev,  \* the list
          inPool,   \* in_pool of each unit
          count,    \* the pool's counter
          pc,       \* where each process is in the pool's operations
          unit,     \* unit[p]: the unit p works on
          owner     \* owner[u]: the process entitled to push u, or None

links == <<lhead, ltail, lnext, lprev>>
vars == <<lhead, ltail, lnext, lprev, inPool, count, pc, unit, owner>>

Init == /\ lhead = None /\ ltail = None
        /\ lnext = [u \in Units |-> None] /\ lprev = [u \in Units |-> None]
        /\ inPool = [u \in Units |-> FALSE]
        /\ count = 0
        /\ pc = [p \in Procs |-> "idle"]
        /\ unit = [p \in Procs |-> None]
        /\ owner \in [Units -> Producers]

Goto(p, l) == pc' = [pc EXCEPT ![p] = l]

\* Variant: the primary ULT is refused by its home PE too.
VariantPinned(u, c) == u = Primary

\* pinned_elsewhere: the primary ULT seen by a PE that is not its home.
PinnedElsewhere(u, c) == u = Primary /\ c # Home

\* push: raise in_pool; finding it raised is fatal.
push(p) == \E u \in Units :
  /\ pc[p] = "idle" /\ owner[u] = p
  /\ unit' = [unit EXCEPT ![p] = u]
  /\ inPool' = [inPool EXCEPT ![u] = TRUE]
  /\ owner' = [owner EXCEPT ![u] = IF inPool[u] THEN @ ELSE None]
  /\ Goto(p, IF inPool[u] THEN "abort" ELSE "link")
  /\ UNCHANGED <<links, count>>

\* Under lk: append at the tail.
PushLink(p) ==
  LET u == unit[p] IN
  /\ pc[p] = "link"
  /\ lnext' = [x \in Units |-> IF x = u THEN None ELSE IF x = ltail THEN u ELSE lnext[x]]
  /\ lprev' = [lprev EXCEPT ![u] = ltail]
  /\ lhead' = IF ltail = None THEN u ELSE lhead
  /\ ltail' = u
  /\ Goto(p, "count")
  /\ UNCHANGED <<inPool, count, unit, owner>>

PushCount(p) ==
  /\ pc[p] = "count"
  /\ count' = count + 1
  /\ unit' = [unit EXCEPT ![p] = None]
  /\ Goto(p, "idle")
  /\ UNCHANGED <<links, inPool, owner>>

\* list_unlink.
list_unlink(u) ==
  /\ lhead' = IF lprev[u] = None THEN lnext[u] ELSE lhead
  /\ ltail' = IF lnext[u] = None THEN lprev[u] ELSE ltail
  /\ lnext' = [x \in Units |-> IF x = u THEN None ELSE IF x = lprev[u] THEN lnext[u] ELSE lnext[x]]
  /\ lprev' = [x \in Units |-> IF x = u THEN None ELSE IF x = lnext[u] THEN lprev[u] ELSE lprev[x]]

\* The unit a pop takes: the head, or the next one if the head is the primary
\* ULT of another PE.
First(c) == IF lhead # None /\ PinnedElsewhere(lhead, c) THEN lnext[lhead] ELSE lhead

\* pop_list, under lk: unlink the unit and lower in_pool.
pop_list(c) ==
  LET u == First(c) IN
  /\ pc[c] = "idle" /\ u # None
  /\ list_unlink(u)
  /\ inPool' = [inPool EXCEPT ![u] = FALSE]
  /\ unit' = [unit EXCEPT ![c] = u]
  /\ Goto(c, "uncount")
  /\ UNCHANGED <<count, owner>>

Uncount(c) ==
  /\ pc[c] = "uncount"
  /\ count' = count - 1
  /\ owner' = [owner EXCEPT ![unit[c]] = c]
  /\ unit' = [unit EXCEPT ![c] = None]
  /\ Goto(c, "idle")
  /\ UNCHANGED <<links, inPool>>

Pushing(u) == \E p \in Procs : pc[p] = "link" /\ unit[p] = u

\* remove_unit, under lk: a unit whose in_pool is raised is unlinked, and
\* belongs to the caller.
remove_unit(r) == \E u \in Units :
  /\ pc[r] = "idle"
  /\ Pushing(u) => RemoveWhilePushed
  /\ inPool[u]
  /\ list_unlink(u)
  /\ inPool' = [inPool EXCEPT ![u] = FALSE]
  /\ unit' = [unit EXCEPT ![r] = u]
  /\ Goto(r, "remove_count")
  /\ UNCHANGED <<count, owner>>

RemoveCount(r) ==
  /\ pc[r] = "remove_count"
  /\ count' = count - 1
  /\ owner' = [owner EXCEPT ![unit[r]] = r]
  /\ unit' = [unit EXCEPT ![r] = None]
  /\ Goto(r, "idle")
  /\ UNCHANGED <<links, inPool>>

Step(p) == PushLink(p) \/ PushCount(p) \/ Uncount(p) \/ RemoveCount(p)

Next == \/ \E p \in Procs : push(p) \/ Step(p)
        \/ \E c \in Consumers : pop_list(c)
        \/ \E r \in Removers : remove_unit(r)

Spec == Init /\ [][Next]_vars

\* Fairness: operations under way finish, and every PE keeps polling.
FairSpec == /\ Spec
            /\ \A p \in Procs : WF_vars(Step(p))
            /\ \A c \in Consumers : WF_vars(pop_list(c))

-----------------------------------------------------------------------------
\* The units reached from f by following g.
Reach(f, g) ==
  LET step == [u \in Units \cup {None} |-> IF u = None THEN None ELSE g[u]]
      at[k \in 1..Cardinality(Units)] == IF k = 1 THEN f ELSE step[at[k - 1]]
  IN SelectSeq([k \in 1..Cardinality(Units) |-> at[k]], LAMBDA u : u # None)

Queue == Reach(lhead, lnext)

\* The consumers in the middle of a pop.
Taken(c) == IF pc[c] = "uncount" THEN unit[c] ELSE None

Pool == INSTANCE AbstractPool WITH
  PoolUnits <- Units, PoolConsumers <- Consumers, Nobody <- None, Pinned <- PinnedElsewhere,
  queue <- Queue, got <- [c \in Consumers |-> Taken(c)]

\* The links, flags and registers have their types.
TypeOK == /\ lhead \in Units \cup {None} /\ ltail \in Units \cup {None}
          /\ lnext \in [Units -> Units \cup {None}] /\ lprev \in [Units -> Units \cup {None}]
          /\ inPool \in [Units -> BOOLEAN]
          /\ count \in -Cardinality(Procs)..Cardinality(Units)
          /\ pc \in [Procs -> {"idle", "abort", "link", "count", "uncount", "remove_count"}]
          /\ unit \in [Procs -> Units \cup {None}]
          /\ owner \in [Units -> Procs \cup {None}]

\* Read from the tail the list is the one read from the head, reversed, and it
\* holds exactly the units whose in_pool is raised and whose push has linked
\* them (pool.cpp:70-75, 81-85).
ListIntact == /\ Reach(ltail, lprev) = Reverse(Queue)
              /\ \A u \in Units : Contains(Queue, u) <=> inPool[u] /\ ~Pushing(u)

\* The pool is a FIFO over all producers; only the primary ULT is passed over,
\* and only by a PE that is not its home (abti.h:91-105; pool.cpp:87-98).
ImplementsPool == Pool!PoolSpec

\* No push finds its unit queued (pool.cpp:62-64, 93).
NeverQueuedTwice == \A p \in Procs : pc[p] # "abort"

\* count is the number of units but for the operations between the list and
\* the counter (abti.h:113; pool.cpp:77, 96, 193).
CountAccounted ==
  count + Cardinality({p \in Procs : pc[p] = "count"})
        - Cardinality({p \in Procs : pc[p] \in {"uncount", "remove_count"}}) = Len(Queue)

\* A unit that some PE may resume is popped: the primary ULT at the head does
\* not hide the units behind it (pool.cpp:90).
UnitsArePopped == \A u \in Units : inPool[u] ~> ~inPool[u]
=============================================================================
