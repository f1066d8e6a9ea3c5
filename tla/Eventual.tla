------------------------------ MODULE Eventual ------------------------------
(***************************************************************************)
(* ABT_eventual (sync.cpp): a flag and a wait list under a spinlock.  Set  *)
(* raises the flag, detaches the list and releases the spinlock; from then *)
(* on it touches only the records it detached, so that a waiter may drop   *)
(* the eventual (which may be on its stack) as soon as its wait returns.   *)
(* No mutex is involved: nothing but the wait itself keeps a record alive. *)
(***************************************************************************)
EXTENDS Naturals, Sequences

CONSTANTS Ults, Externals, None,
          Setters,       \* the threads that set and reset; the others wait
          TimedThreads,  \* the waiters whose waits have a deadline
          MaxCalls       \* bound: how often a setter sets and a timed waiter waits

Callers == Ults \cup Externals
Waiters == Callers \ Setters

VARIABLES slock, ready, wl,   \* the fields of ABTI_eventual
          signaled,  \* signaled[t]: the flag in t's waiter record
          run,       \* run[t]: the Converse state of ULT t
          pc,        \* where each thread is in the eventual calls
          list,      \* list[t]: records t detached and has yet to wake
          setter,    \* history: the thread whose set raised the flag
          by,        \* history: by[t]: the setter that ended t's wait
          calls      \* the calls that count towards MaxCalls

history == <<setter, by, calls>>
vars == <<slock, ready, wl, signaled, run, pc, list, setter, by, calls>>

Init == /\ slock = None
        /\ ready = FALSE
        /\ wl = <<>>
        /\ signaled = [t \in Callers |-> FALSE]
        /\ run = [t \in Ults |-> "RUNNING"]
        /\ pc = [t \in Callers |-> "out"]
        /\ list = [t \in Callers |-> <<>>]
        /\ setter = None
        /\ by = [t \in Callers |-> None]
        /\ calls = [t \in Callers |-> 0]

InList(l, w) == \E i \in 1..Len(l) : l[i] = w

Goto(t, l) == pc' = [pc EXCEPT ![t] = l]

Call(t, l) == /\ pc[t] = "out"
              /\ Goto(t, l)
              /\ UNCHANGED <<slock, ready, wl, signaled, run, list, history>>

ABT_eventual_wait(t) == t \in Waiters \ TimedThreads /\ Call(t, "wait")
ABT_eventual_reset(t) == t \in Setters /\ Call(t, "reset")

Counted(t, l) == /\ pc[t] = "out" /\ calls[t] < MaxCalls
                 /\ calls' = [calls EXCEPT ![t] = @ + 1]
                 /\ Goto(t, l)
                 /\ UNCHANGED <<slock, ready, wl, signaled, run, list, setter, by>>

ABT_eventual_set(t) == t \in Setters /\ Counted(t, "set")
ABT_eventual_timedwait(t) == t \in TimedThreads /\ Counted(t, "twait")

\* spin_acquire(e->slock).
spin_acquire(t) ==
  /\ slock = None
  /\ slock' = t
  /\ \E p \in {<<"wait", "wait_cs">>, <<"twait", "twait_cs">>, <<"expired", "expired_cs">>,
               <<"set", "set_cs">>, <<"reset", "reset_cs">>} :
       pc[t] = p[1] /\ Goto(t, p[2])
  /\ UNCHANGED <<ready, wl, signaled, run, list, history>>

\* A wait that finds the flag raised returns.
FindReady(t) ==
  /\ pc[t] \in {"wait_cs", "twait_cs"}
  /\ ready
  /\ slock' = None
  /\ by' = [by EXCEPT ![t] = setter]
  /\ Goto(t, "returned")
  /\ UNCHANGED <<ready, wl, signaled, run, list, setter, calls>>

\* Otherwise it lists a fresh record; a ULT without deadline keeps slock until
\* it is BLOCKED, the others release it and poll.
PushWaiter(t) ==
  /\ pc[t] \in {"wait_cs", "twait_cs"}
  /\ ~ready
  /\ wl' = Append(wl, t)
  /\ signaled' = [signaled EXCEPT ![t] = FALSE]
  /\ \/ pc[t] = "wait_cs" /\ t \in Ults /\ Goto(t, "suspend") /\ UNCHANGED slock
     \/ pc[t] = "wait_cs" /\ t \in Externals /\ Goto(t, "poll") /\ slock' = None
     \/ pc[t] = "twait_cs" /\ Goto(t, "tpoll") /\ slock' = None
  /\ UNCHANGED <<ready, run, list, history>>

\* CthSuspendBlocked, and the post-switch release.
CthSuspendBlocked(t) ==
  /\ pc[t] = "suspend"
  /\ run' = [run EXCEPT ![t] = "BLOCKED"]
  /\ Goto(t, "blocked")
  /\ UNCHANGED <<slock, ready, wl, signaled, list, history>>

spin_release_cb(t) ==
  /\ pc[t] = "blocked"
  /\ slock = t
  /\ slock' = None
  /\ UNCHANGED <<ready, wl, signaled, run, pc, list, history>>

\* The wait is over: a ULT was resumed, or a polling thread saw its flag.
Woken(t) ==
  /\ \/ /\ pc[t] = "blocked" /\ run[t] = "READY"
        /\ run' = [run EXCEPT ![t] = "RUNNING"]
     \/ /\ pc[t] \in {"poll", "tpoll"} /\ signaled[t]
        /\ UNCHANGED run
  /\ Goto(t, "returned")
  /\ UNCHANGED <<slock, ready, wl, signaled, list, history>>

\* A timed waiter read an unset flag and then found its deadline passed.
Deadline(t) ==
  /\ pc[t] = "tpoll" /\ ~signaled[t]
  /\ Goto(t, "expired")
  /\ UNCHANGED <<slock, ready, wl, signaled, run, list, history>>

\* Past the deadline, with slock: signaled after all, or off the list.
Expired(t) ==
  /\ pc[t] = "expired_cs"
  /\ IF signaled[t]
     THEN Goto(t, "returned") /\ UNCHANGED wl
     ELSE Goto(t, "timedout") /\ wl' = SelectSeq(wl, LAMBDA w : w # t)
  /\ slock' = None
  /\ UNCHANGED <<ready, signaled, run, list, history>>

\* The caller goes on; the record and, for a stack eventual, the eventual are
\* gone.
Return(t) ==
  /\ pc[t] \in {"returned", "timedout"}
  /\ Goto(t, "out")
  /\ signaled' = [signaled EXCEPT ![t] = FALSE]
  /\ by' = [by EXCEPT ![t] = None]
  /\ UNCHANGED <<slock, ready, wl, run, list, setter, calls>>

\* A set of a ready eventual, or of a longer value than it holds, is an error.
SetFails(t) ==
  /\ pc[t] = "set_cs"
  /\ slock' = None
  /\ Goto(t, "out")
  /\ UNCHANGED <<ready, wl, signaled, run, list, history>>

\* The value is copied, the flag raised, the list detached.
SetReady(t) ==
  /\ pc[t] = "set_cs"
  /\ ~ready
  /\ ready' = TRUE
  /\ setter' = t
  /\ by' = [w \in Callers |-> IF InList(wl, w) THEN t ELSE by[w]]
  /\ list' = [list EXCEPT ![t] = wl]
  /\ wl' = <<>>
  /\ Goto(t, "set_release")
  /\ UNCHANGED <<slock, signaled, run, calls>>

SetRelease(t) ==
  /\ pc[t] = "set_release"
  /\ slock' = None
  /\ Goto(t, IF list[t] = <<>> THEN "out" ELSE "wake_store")
  /\ UNCHANGED <<ready, wl, signaled, run, list, history>>

\* Where the wake loop goes once the first record of l has been woken.
AfterWake(l) == IF Len(l) = 1 THEN "out" ELSE "wake_store"

\* wake: read w->thread and store w->signaled; then CthAwakenIfBlocked.
wake_store(t) ==
  LET w == Head(list[t]) IN
  /\ pc[t] = "wake_store"
  /\ signaled' = [signaled EXCEPT ![w] = TRUE]
  /\ IF w \in Ults
     THEN Goto(t, "wake_cth") /\ UNCHANGED list
     ELSE Goto(t, AfterWake(list[t])) /\ list' = [list EXCEPT ![t] = Tail(@)]
  /\ UNCHANGED <<slock, ready, wl, run, history>>

wake_cth(t) ==
  /\ pc[t] = "wake_cth"
  /\ run' = [run EXCEPT ![Head(list[t])] = IF @ = "BLOCKED" THEN "READY" ELSE @]
  /\ list' = [list EXCEPT ![t] = Tail(@)]
  /\ Goto(t, AfterWake(list[t]))
  /\ UNCHANGED <<slock, ready, wl, signaled, history>>

\* ABT_eventual_reset, with slock.
Reset(t) ==
  /\ pc[t] = "reset_cs"
  /\ ready' = FALSE
  /\ setter' = None
  /\ slock' = None
  /\ Goto(t, "out")
  /\ UNCHANGED <<wl, signaled, run, list, by, calls>>

Step(t) == \/ FindReady(t) \/ PushWaiter(t) \/ CthSuspendBlocked(t) \/ spin_release_cb(t)
           \/ Woken(t) \/ Deadline(t) \/ Expired(t) \/ Return(t)
           \/ SetFails(t) \/ SetReady(t) \/ SetRelease(t)
           \/ wake_store(t) \/ wake_cth(t) \/ Reset(t)

Next == \E t \in Callers : \/ ABT_eventual_wait(t) \/ ABT_eventual_timedwait(t)
                           \/ ABT_eventual_set(t) \/ ABT_eventual_reset(t)
                           \/ spin_acquire(t) \/ Step(t)

\* Fairness: a thread that runs inside a call, or polls, goes on.  Nobody is
\* obliged to call, and the spinlock need not be granted.
Spec == Init /\ [][Next]_vars
FairSpec == Spec /\ \A t \in Callers : WF_vars(Step(t))

-----------------------------------------------------------------------------
InCS == {"wait_cs", "twait_cs", "expired_cs", "set_cs", "reset_cs", "set_release", "suspend"}

\* The fields have their types, and the spinlock is held only by a thread inside
\* one of the locked regions, or by a ULT whose post-switch release is due.
TypeOK == /\ slock \in Callers \cup {None}
          /\ slock # None => pc[slock] \in InCS \cup {"blocked"}
          /\ ready \in BOOLEAN
          /\ wl \in Seq(Waiters)
          /\ signaled \in [Callers -> BOOLEAN]
          /\ run \in [Ults -> {"RUNNING", "BLOCKED", "READY"}]
          /\ pc \in [Callers -> InCS \cup {"out", "wait", "twait", "poll", "tpoll", "blocked",
                                           "expired", "returned", "timedout", "set", "reset",
                                           "wake_store", "wake_cth"}]
          /\ list \in [Callers -> Seq(Waiters)]
          /\ setter \in Setters \cup {None}
          /\ by \in [Callers -> Setters \cup {None}]
          /\ calls \in [Callers -> 0..MaxCalls]

\* The record of t's wait is on t's stack from the push to the return.
RecordLive(t) == pc[t] \in {"suspend", "blocked", "poll", "tpoll", "expired", "expired_cs"}

\* wake touches a record only while its owner is inside the wait: with waits
\* that have no deadline nothing can end a wait before wake has touched it
\* (sync.cpp:52-57, 319).
WakeTouchesLiveRecord ==
  \A t \in Callers : pc[t] = "wake_store" => RecordLive(Head(list[t]))

\* A waiter that has not been signaled is on the list of an eventual that is
\* not ready, or in the hands of the setter: the test of the flag and the push
\* are one step for a set (sync.cpp:274-278, 312-317).
WaiterAccounted ==
  \A w \in Waiters : RecordLive(w) /\ ~signaled[w] =>
    \/ InList(wl, w) /\ (ready => slock # None)
    \/ \E t \in Setters : InList(list[t], w)

\* When a wait has succeeded, the set that ended it has released the spinlock
\* and will not touch the eventual again, so the waiter may drop it
\* (sync.cpp:318: safe for stack eventuals).
SetterIsGone ==
  \A w \in Waiters : pc[w] = "returned" => pc[by[w]] # "set_release"

Detached(w) == \E t \in Setters : InList(list[t], w)

\* Every wait that a set took off the list returns.
SetReleasesWaiters == \A w \in Waiters : Detached(w) ~> pc[w] \in {"returned", "out"}
=============================================================================
