---------------------------- MODULE XstreamLease ----------------------------
(***************************************************************************)
(* Execution streams as leased PEs (xstream.cpp).  A creator leases the     *)
(* lowest free rank and sends the PE the lease and its scheduler's poll    *)
(* table; a join asks the PE to finish; the PE, once idle with its pool    *)
(* drained (or once a user scheduler's loop returns), gives the lease      *)
(* back with the default table and a message to itself that completes the  *)
(* release; a free then recycles the rank.                                 *)
(*                                                                         *)
(* A PE is a thread that handles the messages of its queue in order, polls *)
(* the table it has installed, and calls the idle hook when both are empty.*)
(* Each creator works with one scheduler at a time, over one pool.         *)
(***************************************************************************)
EXTENDS Integers, Sequences, SequencesExt, FiniteSets

CONSTANTS Ranks,     \* the ranks of the secondary PEs, 1..n
          Callers,   \* threads that create, join and free
          ULTs,      \* the callers that are ULTs; the others are external
          UserDef,   \* the callers whose scheduler is user-defined
          Reusers,   \* the callers that create again with the same scheduler
          MaxXs,     \* bound on the execution streams created
          MaxUnits,  \* bound on the units in a pool
          None

Xs == 1..MaxXs

ASSUME LeaseAssumption == /\ ULTs \subseteq Callers /\ UserDef \subseteq Callers /\ Reusers \subseteq Callers
                          /\ MaxXs \in Nat /\ MaxUnits \in Nat /\ Ranks \subseteq Nat \ {0}

\* A caller stands for its scheduler, too; Default is the table of an unleased PE
\* and the built-in one that a user scheduler's PE gets.
Default == [table |-> None]
Table(c) == [table |-> IF c \in UserDef THEN None ELSE c]
Lease(x) == [lease |-> x]
ReleaseMsg(x) == [release |-> x]

VARIABLES xstreams,   \* xstreams[r]
          rank, sched,\* of each execution stream
          finishing, finished, joiners, jm, \* its fields
          deleted,    \* the execution streams freed
          made,       \* how many were created
          used_by,    \* used_by[c]: of the scheduler of c
          finish_req, \* the schedulers with REQ_FINISH
          work,       \* work[c]: the units in the pool of c's scheduler
          owed,       \* owed[x]: how many of them a join of x must still see run
          inbox,      \* inbox[r]: the queue of PE r
          tls,        \* ABTI_tls_xstream
          table,      \* the poll table in use: the scheduler it polls, or None
          runner,     \* the user scheduler whose loop runs on the PE
          pc, cur,    \* where each caller and PE is; the execution stream it works on
          op, woken, blocked

obj == <<rank, sched, finishing, finished, joiners, jm, deleted, made, used_by, finish_req>>
vars == <<xstreams, obj, work, owed, inbox, tls, table, runner, pc, cur, op, woken, blocked>>

Init ==
  /\ xstreams = [r \in Ranks |-> 0]
  /\ rank = [x \in Xs |-> 0] /\ sched = [x \in Xs |-> None]
  /\ finishing = {} /\ finished = {} /\ deleted = {} /\ made = 0
  /\ joiners = [x \in Xs |-> {}] /\ jm = [x \in Xs |-> None]
  /\ used_by = [c \in Callers |-> 0] /\ finish_req = {}
  /\ work = [c \in Callers |-> 0] /\ owed = [x \in Xs |-> 0]
  /\ inbox = [r \in Ranks |-> <<>>] /\ tls = [r \in Ranks |-> 0]
  /\ table = [r \in Ranks |-> None] /\ runner = [r \in Ranks |-> None]
  /\ pc = [t \in Callers \cup Ranks |-> "out"] /\ cur = [t \in Callers \cup Ranks |-> 0]
  /\ op = [c \in Callers |-> "join"] /\ woken = [r \in Ranks |-> {}] /\ blocked = {}

Goto(t, l) == pc' = [pc EXCEPT ![t] = l]
Send(r, s) == inbox' = [inbox EXCEPT ![r] = @ \o s]

-----------------------------------------------------------------------------
\* ABT_xstream_create: a scheduler in use is refused; the lowest free rank is
\* leased under xm.
xstream_lease(c) ==
  /\ pc[c] = "out" /\ cur[c] = 0 /\ used_by[c] = 0 /\ made < MaxXs
  /\ c \in Reusers \/ \A x \in Xs : sched[x] # c
  /\ \E r \in Ranks :
       /\ xstreams[r] = 0 /\ \A q \in Ranks : q < r => xstreams[q] # 0
       /\ xstreams' = [xstreams EXCEPT ![r] = made + 1]
       /\ rank' = [rank EXCEPT ![made + 1] = r]
  /\ sched' = [sched EXCEPT ![made + 1] = c]
  /\ used_by' = [used_by EXCEPT ![c] = made + 1]
  /\ made' = made + 1
  /\ cur' = [cur EXCEPT ![c] = made + 1] /\ Goto(c, "install")
  /\ UNCHANGED <<finishing, finished, joiners, jm, deleted, finish_req, work, owed, inbox, tls, table, runner, op, woken, blocked>>

\* ABTI_xstream_install: the lease ...
xstream_install(c) ==
  /\ pc[c] = "install" /\ Send(rank[cur[c]], <<Lease(cur[c])>>) /\ Goto(c, "table")
  /\ UNCHANGED <<xstreams, obj, work, owed, tls, table, runner, cur, op, woken, blocked>>

\* ... and then the table.
InstallTable(c) ==
  /\ pc[c] = "table" /\ Send(rank[cur[c]], <<Table(c)>>) /\ Goto(c, "out")
  /\ UNCHANGED <<xstreams, obj, work, owed, tls, table, runner, cur, op, woken, blocked>>

\* A unit is pushed into the scheduler's pool.
PushUnit(c) ==
  /\ pc[c] = "out" /\ work[c] < MaxUnits
  /\ work' = [work EXCEPT ![c] = @ + 1]
  /\ UNCHANGED <<xstreams, obj, owed, inbox, tls, table, runner, pc, cur, op, woken, blocked>>

-----------------------------------------------------------------------------
\* A PE between two units is free; it handles the first message of its queue.
Free(r) == pc[r] = "out"

lease_handler(r) ==
  /\ Free(r) /\ inbox[r] # <<>> /\ "lease" \in DOMAIN Head(inbox[r])
  /\ LET x == Head(inbox[r]).lease IN
       /\ tls' = [tls EXCEPT ![r] = x]
       /\ runner' = IF sched[x] \in UserDef THEN [runner EXCEPT ![r] = sched[x]] ELSE runner
  /\ inbox' = [inbox EXCEPT ![r] = Tail(@)]
  /\ UNCHANGED <<xstreams, obj, work, owed, table, pc, cur, op, woken, blocked>>

\* The table that came through the queue is put in use.
CsdSchedTableInstall(r) ==
  /\ Free(r) /\ inbox[r] # <<>> /\ "table" \in DOMAIN Head(inbox[r])
  /\ table' = [table EXCEPT ![r] = Head(inbox[r]).table]
  /\ inbox' = [inbox EXCEPT ![r] = Tail(@)]
  /\ UNCHANGED <<xstreams, obj, work, owed, tls, runner, pc, cur, op, woken, blocked>>

\* A unit of the polled scheduler, or of the runner's, is popped and run.
RunUnit(r) ==
  /\ Free(r)
  /\ \E c \in {table[r], runner[r]} \ {None} :
       /\ work[c] > 0
       /\ work' = [work EXCEPT ![c] = @ - 1]
       /\ owed' = [x \in DOMAIN owed |-> IF x \in finishing /\ sched[x] = c /\ owed[x] > 0 THEN owed[x] - 1 ELSE owed[x]]
  /\ UNCHANGED <<xstreams, obj, inbox, tls, table, runner, pc, cur, op, woken, blocked>>

\* Variant: the completion is sent before the default table.
VariantRelease(r) ==
  /\ tls' = [tls EXCEPT ![r] = 0]
  /\ Send(r, <<ReleaseMsg(tls[r]), Default>>)
  /\ UNCHANGED <<xstreams, obj, work, owed, table, pc, cur, op, woken, blocked>>

\* ABTI_xstream_release: the default table, then the message that completes it.
xstream_release(r) ==
  /\ tls' = [tls EXCEPT ![r] = 0]
  /\ Send(r, <<Default, ReleaseMsg(tls[r])>>)
  /\ UNCHANGED <<xstreams, obj, work, owed, table, pc, cur, op, woken, blocked>>

\* pools_drained; blocked ULTs are the subject of Blocked.
pools_drained(c) == work[c] = 0

\* Variant: a finishing PE does not look at its pools.
VariantIdleHook(r) ==
  /\ Free(r) /\ inbox[r] = <<>> /\ tls[r] # 0
  /\ sched[tls[r]] \notin UserDef /\ tls[r] \in finishing
  /\ xstream_release(r) /\ UNCHANGED runner

\* ABTI_xstream_idle_hook: a finishing PE whose pools are drained is released.
idle_hook(r) ==
  /\ Free(r) /\ inbox[r] = <<>> /\ tls[r] # 0
  /\ sched[tls[r]] \notin UserDef /\ tls[r] \in finishing /\ pools_drained(sched[tls[r]])
  /\ xstream_release(r) /\ UNCHANGED runner

\* ABT_sched_has_to_stop.
has_to_stop(c) == c \in finish_req /\ work[c] = 0

\* sched_runner: the user's loop returns once ABT_sched_has_to_stop says so.
sched_runner(r) ==
  /\ Free(r) /\ runner[r] # None /\ has_to_stop(runner[r])
  /\ runner' = [runner EXCEPT ![r] = None]
  /\ IF tls[r] # 0 /\ sched[tls[r]] = runner[r] THEN xstream_release(r)
     ELSE UNCHANGED <<xstreams, obj, work, owed, inbox, tls, table, pc, cur, op, woken, blocked>>

-----------------------------------------------------------------------------
\* release_handler: the scheduler may be used again ...
release_handler(r) ==
  /\ Free(r) /\ inbox[r] # <<>> /\ "release" \in DOMAIN Head(inbox[r])
  /\ LET x == Head(inbox[r]).release IN
       /\ used_by' = [used_by EXCEPT ![sched[x]] = 0]
       /\ cur' = [cur EXCEPT ![r] = x]
  /\ inbox' = [inbox EXCEPT ![r] = Tail(@)]
  /\ Goto(r, "lock")
  /\ UNCHANGED <<xstreams, rank, sched, finishing, finished, joiners, jm, deleted, made, finish_req,
                 work, owed, tls, table, runner, op, woken, blocked>>

\* ... and under jm finished is published and the joiners are taken ...
ReleaseLock(r) ==
  /\ pc[r] = "lock" /\ jm[cur[r]] = None
  /\ jm' = [jm EXCEPT ![cur[r]] = r] /\ Goto(r, "publish")
  /\ UNCHANGED <<xstreams, rank, sched, finishing, finished, joiners, deleted, made, used_by, finish_req,
                 work, owed, inbox, tls, table, runner, cur, op, woken, blocked>>

Publish(r) ==
  /\ pc[r] = "publish"
  /\ finished' = finished \cup {cur[r]} /\ Goto(r, "swap")
  /\ UNCHANGED <<xstreams, rank, sched, finishing, joiners, jm, deleted, made, used_by, finish_req,
                 work, owed, inbox, tls, table, runner, cur, op, woken, blocked>>

SwapUnlock(r) ==
  /\ pc[r] = "swap"
  /\ woken' = [woken EXCEPT ![r] = joiners[cur[r]]]
  /\ joiners' = [joiners EXCEPT ![cur[r]] = {}]
  /\ jm' = [jm EXCEPT ![cur[r]] = None] /\ Goto(r, "wake")
  /\ UNCHANGED <<xstreams, rank, sched, finishing, finished, deleted, made, used_by, finish_req,
                 work, owed, inbox, tls, table, runner, cur, op, blocked>>

\* ... and woken.
WakeJoiners(r) ==
  /\ pc[r] = "wake"
  /\ IF woken[r] = {} THEN Goto(r, "out") /\ UNCHANGED <<woken, blocked>>
     ELSE \E j \in woken[r] : /\ woken' = [woken EXCEPT ![r] = @ \ {j}]
                              /\ blocked' = blocked \ {j} /\ UNCHANGED pc
  /\ UNCHANGED <<xstreams, obj, work, owed, inbox, tls, table, runner, cur, op>>

-----------------------------------------------------------------------------
\* join_impl: a finished execution stream needs no more; others are asked to
\* finish, and so is their scheduler.
join_impl(c) ==
  /\ pc[c] = "out" /\ cur[c] # 0
  /\ op' \in [Callers -> {"join", "free"}] /\ \A b \in Callers \ {c} : op'[b] = op[b]
  /\ IF cur[c] \in finished THEN Goto(c, "return") /\ UNCHANGED <<finishing, owed>>
     ELSE /\ finishing' = finishing \cup {cur[c]}
          /\ owed' = [owed EXCEPT ![cur[c]] = work[c]]
          /\ Goto(c, "request")
  /\ UNCHANGED <<xstreams, rank, sched, finished, joiners, jm, deleted, made, used_by, finish_req,
                 work, inbox, tls, table, runner, cur, woken, blocked>>

JoinRequest(c) ==
  /\ pc[c] = "request"
  /\ finish_req' = finish_req \cup {c}
  /\ Goto(c, IF c \in ULTs THEN "lock" ELSE "poll")
  /\ UNCHANGED <<xstreams, rank, sched, finishing, finished, joiners, jm, deleted, made, used_by,
                 work, owed, inbox, tls, table, runner, cur, op, woken, blocked>>

JoinPoll(c) ==
  /\ pc[c] = "poll" /\ cur[c] \in finished /\ Goto(c, "return")
  /\ UNCHANGED <<xstreams, obj, work, owed, inbox, tls, table, runner, cur, op, woken, blocked>>

JoinLock(c) ==
  /\ pc[c] = "lock" /\ jm[cur[c]] = None
  /\ jm' = [jm EXCEPT ![cur[c]] = c] /\ Goto(c, "recheck")
  /\ UNCHANGED <<xstreams, rank, sched, finishing, finished, joiners, deleted, made, used_by, finish_req,
                 work, owed, inbox, tls, table, runner, cur, op, woken, blocked>>

\* Variant: finished is not looked at under jm.
VariantRecheck(c) ==
  /\ pc[c] = "recheck"
  /\ joiners' = [joiners EXCEPT ![cur[c]] = @ \cup {c}] /\ blocked' = blocked \cup {c}
  /\ jm' = [jm EXCEPT ![cur[c]] = None] /\ Goto(c, "return")
  /\ UNCHANGED <<xstreams, rank, sched, finishing, finished, deleted, made, used_by, finish_req,
                 work, owed, inbox, tls, table, runner, cur, op, woken>>

\* Unless it is finished by now, the caller is listed and BLOCKED before jm is
\* released.
JoinRecheck(c) ==
  /\ pc[c] = "recheck"
  /\ IF cur[c] \in finished THEN UNCHANGED <<joiners, blocked>>
     ELSE joiners' = [joiners EXCEPT ![cur[c]] = @ \cup {c}] /\ blocked' = blocked \cup {c}
  /\ jm' = [jm EXCEPT ![cur[c]] = None] /\ Goto(c, "return")
  /\ UNCHANGED <<xstreams, rank, sched, finishing, finished, deleted, made, used_by, finish_req,
                 work, owed, inbox, tls, table, runner, cur, op, woken>>

JoinReturn(c) ==
  /\ pc[c] = "return" /\ c \notin blocked /\ op[c] = "join" /\ Goto(c, "out")
  /\ UNCHANGED <<xstreams, obj, work, owed, inbox, tls, table, runner, cur, op, woken, blocked>>

\* ABT_xstream_free: after the join the rank is given back and xs deleted.
xstream_free(c) ==
  /\ pc[c] = "return" /\ c \notin blocked /\ op[c] = "free"
  /\ xstreams' = [xstreams EXCEPT ![rank[cur[c]]] = 0]
  /\ deleted' = deleted \cup {cur[c]}
  /\ cur' = [cur EXCEPT ![c] = 0] /\ Goto(c, "out")
  /\ UNCHANGED <<rank, sched, finishing, finished, joiners, jm, made, used_by, finish_req,
                 work, owed, inbox, tls, table, runner, op, woken, blocked>>

CallerStep(c) == \/ xstream_install(c) \/ InstallTable(c) \/ JoinRequest(c) \/ JoinPoll(c)
                 \/ JoinRecheck(c) \/ JoinReturn(c) \/ xstream_free(c)
PEStep(r) == \/ lease_handler(r) \/ CsdSchedTableInstall(r) \/ RunUnit(r) \/ idle_hook(r) \/ sched_runner(r)
             \/ release_handler(r) \/ Publish(r) \/ SwapUnlock(r) \/ WakeJoiners(r)
MessageStep(r) == lease_handler(r) \/ CsdSchedTableInstall(r) \/ release_handler(r)

Next == \/ \E c \in Callers : xstream_lease(c) \/ PushUnit(c) \/ join_impl(c) \/ JoinLock(c) \/ CallerStep(c)
        \/ \E r \in Ranks : PEStep(r) \/ ReleaseLock(r)

Spec == Init /\ [][Next]_vars

-----------------------------------------------------------------------------
\* The state has its types; a rank is leased to one execution stream at a time.
TypeOK ==
  /\ xstreams \in [Ranks -> 0..MaxXs] /\ made \in 0..MaxXs
  /\ \A x \in Xs : x <= made => (x \in deleted <=> xstreams[rank[x]] # x)
  /\ finishing \subseteq Xs /\ finished \subseteq Xs /\ joiners \in [Xs -> SUBSET Callers]
  /\ jm \in [Xs -> Callers \cup Ranks \cup {None}]
  /\ work \in [Callers -> 0..MaxUnits] /\ owed \in [Xs -> 0..MaxUnits]
  /\ tls \in [Ranks -> 0..MaxXs] /\ table \in [Ranks -> Callers \cup {None}]
  /\ runner \in [Ranks -> Callers \cup {None}] /\ blocked \subseteq ULTs

\* A PE that polls a scheduler knows its execution stream, from the first poll
\* until it gives the lease back (xstream.cpp:267-274, 88-94).
KnowsItsXstream ==
  \A r \in Ranks : table[r] # None =>
    \/ (tls[r] # 0 /\ sched[tls[r]] = table[r] /\ rank[tls[r]] = r)
    \/ Contains(inbox[r], Default)

\* When a join may return the PE has left the execution stream: neither its table
\* nor its queue nor a runner refers to it (unless a later lease uses its scheduler
\* again), so that scheduler and pools may be freed (xstream.cpp:207-225, 298-315).
\* This is not so of xs itself: release_handler has still to swap xs->joiners and to
\* unlock xs->jm, at "swap", and by then a joiner that read finished without jm may
\* have deleted it (xstream.cpp:221-223, 302, 313).
FinishedIsQuiet ==
  \A x \in finished : LET r == rank[x] IN
    /\ tls[r] # x /\ ~Contains(inbox[r], ReleaseMsg(x)) /\ ~Contains(inbox[r], Lease(x))
    /\ table[r] = sched[x] \/ runner[r] = sched[x] =>
         \E y \in Xs \ finished : rank[y] = r /\ sched[y] = sched[x]

\* Until it publishes finished the PE releases an execution stream that exists and
\* still has the rank (xstream.cpp:212-221, 359-367).
ReleasesTheLiving ==
  \A r \in Ranks : pc[r] \in {"lock", "publish"} => /\ cur[r] \notin deleted \cup finished
                                                   /\ xstreams[r] = cur[r]

\* The units that were in the pool when the join was called have run when the
\* execution stream is finished (xstream.cpp:2-3, 194-205, 232-235).
JoinedRanAll == \A x \in finished : owed[x] = 0

\* A predefined scheduler's PE is given back only after a join asked for it
\* (xstream.cpp:232, 298-304).
FinishedWasAsked == \A x \in finished : sched[x] \notin UserDef => x \in finishing

\* Every join and free returns (xstream.cpp:207-225, 298-315).
JoinsReturn == \A c \in Callers : pc[c] \in {"request", "poll", "lock", "recheck", "return"} ~> pc[c] = "out"
=============================================================================
