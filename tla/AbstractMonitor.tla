-------------------------- MODULE AbstractMonitor ---------------------------
(***************************************************************************)
(* What an ABT_mutex and the ABT_conds used with it promise together: a    *)
(* lock with one holder, and a FIFO of waiters per condition.  Waiting     *)
(* gives the lock back and joins the queue in one step, so no signal can   *)
(* fall in between; a waiter takes the lock again only after a signal or   *)
(* broadcast has removed it from the queue, or its own deadline has.       *)
(***************************************************************************)
EXTENDS Naturals, Sequences

CONSTANTS Threads, None,
          Conds,         \* the conditions used with the mutex
          TimedThreads   \* the threads whose waits have a deadline

VARIABLES holder, queue

monitorVars == <<holder, queue>>

IsWaiting(t) == \E c \in Conds : \E i \in DOMAIN queue[c] : queue[c][i] = t

MonitorInit == holder = None /\ queue = [c \in Conds |-> <<>>]

Acquire(t) == /\ holder = None /\ ~IsWaiting(t)
              /\ holder' = t
              /\ UNCHANGED queue

Release(t) == /\ holder = t
              /\ holder' = None
              /\ UNCHANGED queue

Wait(t, c) == /\ holder = t
              /\ holder' = None
              /\ queue' = [queue EXCEPT ![c] = Append(@, t)]

Signal(c) == /\ queue' = [queue EXCEPT ![c] = IF @ = <<>> THEN @ ELSE Tail(@)]
             /\ UNCHANGED holder

Broadcast(c) == queue' = [queue EXCEPT ![c] = <<>>] /\ UNCHANGED holder

Without(q, i) == [j \in 1..Len(q) - 1 |-> IF j < i THEN q[j] ELSE q[j + 1]]

Timeout(t, c) == /\ t \in TimedThreads
                 /\ \E i \in 1..Len(queue[c]) : /\ queue[c][i] = t
                                              /\ queue' = [queue EXCEPT ![c] = Without(@, i)]
                 /\ UNCHANGED holder

MonitorNext == \/ \E t \in Threads : Acquire(t) \/ Release(t)
               \/ \E c \in Conds : Signal(c) \/ Broadcast(c)
               \/ \E t \in Threads, c \in Conds : Wait(t, c) \/ Timeout(t, c)

MonitorSpec == MonitorInit /\ [][MonitorNext]_monitorVars
=============================================================================
