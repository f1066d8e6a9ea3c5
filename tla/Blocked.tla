------------------------------ MODULE Blocked -------------------------------
(***************************************************************************)
(* Blocked ULTs: how they are counted, made ready, migrated, and how an    *)
(* execution stream that was asked to finish finds its pools drained       *)
(* (thread.cpp, xstream.cpp).  One PE polls the pools Mine; the ULTs of     *)
(* those pools run on it, and Remotes stand for threads elsewhere that     *)
(* wake and migrate them.                                                  *)
(***************************************************************************)
EXTENDS Integers, Sequences, SequencesExt, FiniteSets

CONSTANTS ULTs, Remotes,
          Pools, Mine,  \* all pools; the pools of the PE's scheduler, in order
          Home,         \* the pool the ULTs are created in
          Shared,       \* the pools of Mine with more than one scheduler
          Migrators,    \* the agents that migrate ULTs
          None

Agents == ULTs \cup Remotes

VARIABLES st,           \* queued, running, blocked, waking or done
          pool,         \* t->pool
          queue,        \* queue[p]: the ULTs in pool p
          num_blocked,  \* num_blocked
          blocked_pool, \* t->blocked_pool
          counted,      \* t->blocked_counted
          migrate_to,   \* t->migrate_to
          wanted,       \* wanted[u]: the last pool asked for and not yet applied
          on,           \* the ULT the PE runs, None in its scheduler
          pc, tgt, reg, \* each agent: where it is, the ULT it wakes, a local pool
          finishing,    \* xs->finishing
          drain,        \* the drain check: idle, or the pool and the counter read next
          released      \* ABTI_xstream_release was called

ult == <<st, pool, queue, num_blocked, blocked_pool, counted, migrate_to, wanted>>
pe == <<finishing, drain, released>>
vars == <<ult, on, pc, tgt, reg, pe>>

Idle == [at |-> "idle", i |-> 0]

Init == /\ st = [u \in ULTs |-> "queued"] /\ pool = [u \in ULTs |-> Home]
        /\ queue \in {[p \in Pools |-> IF p = Home THEN s ELSE <<>>] : s \in SetToSeqs(ULTs)}
        /\ num_blocked = [p \in Pools |-> 0] /\ blocked_pool = [u \in ULTs |-> None]
        /\ counted = [u \in ULTs |-> FALSE] /\ migrate_to = [u \in ULTs |-> None] /\ wanted = [u \in ULTs |-> None]
        /\ on = None /\ pc = [x \in Agents |-> "out"]
        /\ tgt = [x \in Agents |-> None] /\ reg = [x \in Agents |-> None]
        /\ finishing = FALSE /\ drain = Idle /\ released = FALSE

Acts(x) == x \in ULTs => on = x
Goto(x, l) == pc' = [pc EXCEPT ![x] = l]

-----------------------------------------------------------------------------
\* The scheduler pops by policy and runs the ULT.
Run(u) ==
  /\ on = None /\ drain = Idle /\ ~released
  /\ \E i \in DOMAIN Mine : /\ \A k \in 1..(i - 1) : queue[Mine[k]] = <<>>
                            /\ queue[Mine[i]] # <<>> /\ u = Head(queue[Mine[i]])
                            /\ queue' = [queue EXCEPT ![Mine[i]] = Tail(@)]
  /\ st' = [st EXCEPT ![u] = "running"] /\ on' = u
  /\ UNCHANGED <<pool, num_blocked, blocked_pool, counted, migrate_to, wanted, pc, tgt, reg, pe>>

Finish(u) ==
  /\ on = u /\ pc[u] = "out"
  /\ st' = [st EXCEPT ![u] = "done"] /\ on' = None
  /\ UNCHANGED <<pool, queue, num_blocked, blocked_pool, counted, migrate_to, wanted, pc, tgt, reg, pe>>

\* ABTI_thread_block: counted in its pool, flagged, then BLOCKED.
block(u) ==
  /\ on = u /\ pc[u] = "out"
  /\ num_blocked' = [num_blocked EXCEPT ![pool[u]] = @ + 1]
  /\ reg' = [reg EXCEPT ![u] = pool[u]]
  /\ Goto(u, "flag")
  /\ UNCHANGED <<st, pool, queue, blocked_pool, counted, migrate_to, wanted, on, tgt, pe>>

Flag(u) ==
  /\ pc[u] = "flag"
  /\ blocked_pool' = [blocked_pool EXCEPT ![u] = reg[u]]
  /\ counted' = [counted EXCEPT ![u] = TRUE]
  /\ Goto(u, "suspend")
  /\ UNCHANGED <<st, pool, queue, num_blocked, migrate_to, wanted, on, tgt, reg, pe>>

Suspend(u) ==
  /\ pc[u] = "suspend"
  /\ st' = [st EXCEPT ![u] = "blocked"] /\ on' = None
  /\ Goto(u, "out")
  /\ UNCHANGED <<pool, queue, num_blocked, blocked_pool, counted, migrate_to, wanted, tgt, reg, pe>>

\* CthAwakenIfBlocked: nothing unless the ULT is BLOCKED; one waker gets it.
CthAwakenIfBlocked(x, u) ==
  /\ Acts(x) /\ pc[x] = "out" /\ st[u] = "blocked"
  /\ st' = [st EXCEPT ![u] = "waking"]
  /\ tgt' = [tgt EXCEPT ![x] = u] /\ Goto(x, "exchange")
  /\ UNCHANGED <<pool, queue, num_blocked, blocked_pool, counted, migrate_to, wanted, on, reg, pe>>

\* CthYield: READY, and after the switch the same wake routine.
CthYield(u) ==
  /\ on = u /\ pc[u] = "out"
  /\ st' = [st EXCEPT ![u] = "waking"]
  /\ tgt' = [tgt EXCEPT ![u] = u] /\ Goto(u, "exchange")
  /\ UNCHANGED <<pool, queue, num_blocked, blocked_pool, counted, migrate_to, wanted, on, reg, pe>>

-----------------------------------------------------------------------------

\* ABTI_thread_awaken_fn: the ULT stops counting as blocked ...
Exchange(x) ==
  LET u == tgt[x] IN
  /\ pc[x] = "exchange"
  /\ counted' = [counted EXCEPT ![u] = FALSE]
  /\ Goto(x, IF counted[u] THEN "uncount" ELSE "migrate")
  /\ UNCHANGED <<st, pool, queue, num_blocked, blocked_pool, migrate_to, wanted, on, tgt, reg, pe>>

\* Variant: the pool the ULT is associated with now is uncounted.
VariantUncount(x) ==
  /\ pc[x] = "uncount"
  /\ num_blocked' = [num_blocked EXCEPT ![pool[tgt[x]]] = @ - 1]
  /\ Goto(x, "migrate")
  /\ UNCHANGED <<st, pool, queue, blocked_pool, counted, migrate_to, wanted, on, tgt, reg, pe>>

Uncount(x) ==
  /\ pc[x] = "uncount"
  /\ num_blocked' = [num_blocked EXCEPT ![blocked_pool[tgt[x]]] = @ - 1]
  /\ Goto(x, "migrate")
  /\ UNCHANGED <<st, pool, queue, blocked_pool, counted, migrate_to, wanted, on, tgt, reg, pe>>

\* ... a migration that was asked for is read, cleared and applied ...
MigrateRead(x) ==
  LET p == migrate_to[tgt[x]] IN
  /\ pc[x] = "migrate"
  /\ reg' = [reg EXCEPT ![x] = p]
  /\ Goto(x, IF p # None THEN "clear" ELSE "push")
  /\ UNCHANGED <<ult, on, tgt, pe>>

Clear(x) ==
  /\ pc[x] = "clear"
  /\ migrate_to' = [migrate_to EXCEPT ![tgt[x]] = None]
  /\ Goto(x, "associate")
  /\ UNCHANGED <<st, pool, queue, num_blocked, blocked_pool, counted, wanted, on, tgt, reg, pe>>

associate(x) ==
  LET u == tgt[x] IN
  /\ pc[x] = "associate"
  /\ pool' = [pool EXCEPT ![u] = reg[x]]
  /\ wanted' = [wanted EXCEPT ![u] = IF @ = reg[x] THEN None ELSE @]
  /\ Goto(x, "push")
  /\ UNCHANGED <<st, queue, num_blocked, blocked_pool, counted, migrate_to, on, tgt, reg, pe>>

\* ... and the ULT is pushed to its pool; the PE of a ULT that yielded is free.
Push(x) ==
  LET u == tgt[x] IN
  /\ pc[x] = "push"
  /\ queue' = [queue EXCEPT ![pool[u]] = Append(@, u)]
  /\ st' = [st EXCEPT ![u] = "queued"]
  /\ on' = IF x = u THEN None ELSE on
  /\ tgt' = [tgt EXCEPT ![x] = None] /\ reg' = [reg EXCEPT ![x] = None] /\ Goto(x, "out")
  /\ UNCHANGED <<pool, num_blocked, blocked_pool, counted, migrate_to, wanted, pe>>

-----------------------------------------------------------------------------
\* ABT_thread_migrate_to_pool; ABT_thread_set_associated_pool.
migrate_to_pool(x, u, p) ==
  /\ x \in Migrators /\ Acts(x) /\ pc[x] = "out" /\ st[u] # "done"
  /\ migrate_to' = [migrate_to EXCEPT ![u] = p]
  /\ wanted' = [wanted EXCEPT ![u] = p]
  /\ UNCHANGED <<st, pool, queue, num_blocked, blocked_pool, counted, on, pc, tgt, reg, pe>>

set_associated_pool(x, u, p) ==
  /\ x \in Migrators /\ Acts(x) /\ pc[x] = "out" /\ st[u] # "done"
  /\ pool' = [pool EXCEPT ![u] = p]
  /\ UNCHANGED <<st, queue, num_blocked, blocked_pool, counted, migrate_to, wanted, on, pc, tgt, reg, pe>>

-----------------------------------------------------------------------------
\* ABT_xstream_join asks the PE to finish.
AskFinish ==
  /\ ~finishing /\ finishing' = TRUE
  /\ UNCHANGED <<ult, on, pc, tgt, reg, drain, released>>

\* The idle hook, after a sweep that found nothing: pools_drained reads the size
\* and the blocked count of each pool.
IdleHook ==
  /\ finishing /\ ~released /\ on = None /\ drain = Idle
  /\ \A p \in ToSet(Mine) : queue[p] = <<>>
  /\ drain' = [at |-> "size", i |-> 1]
  /\ UNCHANGED <<ult, on, pc, tgt, reg, finishing, released>>

ReadSize ==
  /\ drain.at = "size"
  /\ drain' = IF queue[Mine[drain.i]] # <<>> THEN Idle ELSE [drain EXCEPT !.at = "blocked"]
  /\ UNCHANGED <<ult, on, pc, tgt, reg, finishing, released>>

\* Variant: blocked ULTs do not count.
VariantReadBlocked ==
  /\ drain.at = "blocked"
  /\ drain' = IF drain.i = Len(Mine) THEN [at |-> "release", i |-> 0] ELSE [at |-> "size", i |-> drain.i + 1]
  /\ UNCHANGED <<ult, on, pc, tgt, reg, finishing, released>>

ReadBlocked ==
  /\ drain.at = "blocked"
  /\ drain' = CASE Mine[drain.i] \notin Shared /\ num_blocked[Mine[drain.i]] # 0 -> Idle
                [] drain.i = Len(Mine) -> [at |-> "release", i |-> 0]
                [] OTHER -> [at |-> "size", i |-> drain.i + 1]
  /\ UNCHANGED <<ult, on, pc, tgt, reg, finishing, released>>

ReleasePE ==
  /\ drain.at = "release"
  /\ released' = TRUE /\ drain' = Idle
  /\ UNCHANGED <<ult, on, pc, tgt, reg, finishing>>

AgentStep(x) == \/ Exchange(x) \/ Uncount(x) \/ MigrateRead(x) \/ Clear(x) \/ associate(x) \/ Push(x)
BlockStep(u) == Flag(u) \/ Suspend(u)
DrainStep == ReadSize \/ ReadBlocked \/ ReleasePE

Next == \/ \E u \in ULTs : Run(u) \/ Finish(u) \/ block(u) \/ BlockStep(u) \/ CthYield(u)
        \/ \E x \in Agents, u \in ULTs : CthAwakenIfBlocked(x, u)
        \/ \E x \in Agents : AgentStep(x)
        \/ \E x \in Agents, u \in ULTs, p \in Pools : migrate_to_pool(x, u, p) \/ set_associated_pool(x, u, p)
        \/ AskFinish \/ IdleHook \/ DrainStep

Spec == Init /\ [][Next]_vars

-----------------------------------------------------------------------------
CountedIn(p) == {u \in ULTs : (pc[u] = "flag" /\ reg[u] = p) \/ (counted[u] /\ blocked_pool[u] = p)}
                \cup {u \in ULTs : blocked_pool[u] = p /\ \E x \in Agents : tgt[x] = u /\ pc[x] = "uncount"}

\* The state has its types, and no ULT is in two places of the pools.
TypeOK ==
  /\ st \in [ULTs -> {"queued", "running", "blocked", "waking", "done"}]
  /\ pool \in [ULTs -> Pools] /\ queue \in [Pools -> Seq(ULTs)]
  /\ \A p, q \in Pools : \A i \in DOMAIN queue[p], k \in DOMAIN queue[q] :
       queue[p][i] = queue[q][k] => p = q /\ i = k
  /\ \A p \in Pools : \A i \in DOMAIN queue[p] : st[queue[p][i]] = "queued"
  /\ num_blocked \in [Pools -> Nat]
  /\ migrate_to \in [ULTs -> Pools \cup {None}] /\ wanted \in [ULTs -> Pools \cup {None}]

\* Through every migration and association, a pool's blocked count is the ULTs
\* that blocked in it and have not been made ready (thread.cpp:77-101).
BlockedExact == \A p \in Pools : num_blocked[p] = Cardinality(CountedIn(p))

\* A ULT back in a pool no longer counts as blocked in any: sizes and blocked
\* counts never count it twice (thread.cpp:80-84).
NotCountedTwice == \A u \in ULTs, p \in Pools : st[u] = "queued" => u \notin CountedIn(p)

\* A migration that was asked for is still pending or about to be applied: it is
\* applied the next time the ULT is made ready (thread.cpp:325, 85-89).
RequestKept ==
  \A u \in ULTs : wanted[u] # None =>
    \/ migrate_to[u] = wanted[u]
    \/ \E x \in Agents : tgt[x] = u /\ pc[x] \in {"clear", "associate"} /\ reg[x] = wanted[u]

\* The PE is released only when no ULT of a pool that it owns alone is queued
\* there, blocked there or on its way back (xstream.cpp:194-205, 232-233).
DrainedMeansDone ==
  released => \A p \in ToSet(Mine) \ Shared :
    /\ queue[p] = <<>>
    /\ \A u \in ULTs : blocked_pool[u] = p => st[u] \notin {"blocked", "waking"}
=============================================================================
