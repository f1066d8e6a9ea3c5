------------------------------- MODULE Future -------------------------------
(***************************************************************************)
(* ABT_future (sync.cpp): n compartments filled one per set; the set that  *)
(* fills the last one marks the future ready, runs the callback with the   *)
(* mutex held, and wakes every waiter.  Mutex and condition are used       *)
(* through AbstractMonitor.                                                *)
(***************************************************************************)
EXTENDS AbstractMonitor, FiniteSets, Naturals

CONSTANTS N,             \* num_compartments
          Setters,       \* the threads that set and reset; the others wait
          Resets         \* bound: how often the future is reset

VARIABLES count, ready, values,   \* the fields of ABTI_future
          pc,        \* where each thread is in the future calls
          resets,    \* resets so far
          called     \* history: the arguments of the callback, call by call

futureVars == <<count, ready, values, pc, resets, called>>
vars == <<monitorVars, futureVars>>

\* ABT_future_create.
Init == /\ MonitorInit
        /\ count = 0
        /\ ready = FALSE
        /\ values = [i \in 1..N |-> None]
        /\ pc = [t \in Threads |-> "out"]
        /\ resets = 0
        /\ called = <<>>

Goto(t, l) == pc' = [pc EXCEPT ![t] = l]

Call(t, l) == /\ pc[t] = "out"
              /\ Goto(t, l)
              /\ UNCHANGED <<monitorVars, count, ready, values, resets, called>>

ABT_future_wait(t) == t \notin Setters /\ Call(t, "wait")
ABT_future_set(t) == t \in Setters /\ Call(t, "set")
ABT_future_reset(t) == /\ t \in Setters
                       /\ resets + Cardinality({u \in Setters : pc[u] = "reset"}) < Resets
                       /\ Call(t, "reset")

\* ABT_mutex_lock(f->m), and the lock at the end of ABT_cond_wait.
Enter(t) == /\ pc[t] \in {"wait", "set", "reset"}
            /\ Acquire(t)
            /\ UNCHANGED futureVars

\* With f->m held: the loop of wait.
NotReady(t) == /\ pc[t] = "wait" /\ ~ready
               /\ Wait(t, "c")
               /\ UNCHANGED futureVars

WaitReturns(t) == /\ pc[t] = "wait" /\ ready
                  /\ Release(t)
                  /\ Goto(t, "out")
                  /\ UNCHANGED <<count, ready, values, resets, called>>

\* A set of a full future is an error.
SetFull(t) == /\ pc[t] = "set" /\ count >= N
              /\ Release(t)
              /\ Goto(t, "out")
              /\ UNCHANGED <<count, ready, values, resets, called>>

\* Whether this set fills the last compartment.
Fills(t) == count + 1 = N

\* f->values[f->count++] = value; the last one runs the callback on the values
\* and broadcasts.  A value is named by the thread that set it.
Set(t) ==
  /\ pc[t] = "set" /\ count < N /\ holder = t
  /\ values' = [values EXCEPT ![count + 1] = t]
  /\ count' = count + 1
  /\ IF Fills(t)
     THEN /\ ready' = TRUE
          /\ called' = Append(called, values')
          /\ Broadcast("c")
     ELSE UNCHANGED <<ready, called, monitorVars>>
  /\ Goto(t, "leave")
  /\ UNCHANGED resets

\* The values stay; only the count and the flag are reset.
Reset(t) == /\ pc[t] = "reset" /\ holder = t
            /\ count' = 0
            /\ ready' = FALSE
            /\ resets' = resets + 1
            /\ Goto(t, "leave")
            /\ UNCHANGED <<monitorVars, values, called>>

Leave(t) == /\ pc[t] = "leave"
            /\ Release(t)
            /\ Goto(t, "out")
            /\ UNCHANGED <<count, ready, values, resets, called>>

Step(t) == \/ Enter(t) \/ NotReady(t) \/ WaitReturns(t)
           \/ SetFull(t) \/ Set(t) \/ Reset(t) \/ Leave(t)

Next == \E t \in Threads : \/ ABT_future_wait(t) \/ ABT_future_set(t)
                           \/ ABT_future_reset(t) \/ Step(t)

\* Fairness: threads inside a call keep running; a mutex that others keep
\* taking and releasing is not refused for ever (SF), and setters keep setting.
Spec == Init /\ [][Next]_vars
FairSpec == /\ Spec
            /\ \A t \in Threads : SF_vars(Enter(t)) /\ WF_vars(Step(t))
            /\ \A t \in Setters : WF_vars(ABT_future_set(t))

-----------------------------------------------------------------------------
\* The state has its types.
TypeOK == /\ holder \in Threads \cup {None}
          /\ queue \in [Conds -> Seq(Threads)]
          /\ count \in 0..N
          /\ ready \in BOOLEAN
          /\ values \in [1..N -> Threads \cup {None}]
          /\ pc \in [Threads -> {"out", "wait", "set", "reset", "leave"}]
          /\ resets \in 0..Resets
          /\ called \in Seq([1..N -> Threads])

\* The callback runs once per filling and sees every compartment set: never
\* more often than resets allow, and exactly when the future is ready
\* (sync.cpp:411-413).
CallbackOncePerFilling ==
  /\ Len(called) <= resets + 1
  /\ ready => called # <<>> /\ called[Len(called)] = values
  /\ ready <=> count = N

\* Nobody is left in the queue of a ready future: waiters and the last setter
\* agree on the flag under the mutex.
ReadyReleases == ready => queue["c"] = <<>>

\* Without resets, every waiter returns once the setters have filled the
\* future (a reset may take ready away before a woken waiter has looked).
WaitersReturn == \A t \in Threads \ Setters : pc[t] = "wait" ~> pc[t] = "out"
=============================================================================
