-------------------------------- MODULE Timer --------------------------------
(***************************************************************************)
(* ABT_timer (misc.cpp).  A timer works before ABT_init, too, where        *)
(* CmiWallTimer reads an absolute clock; from then on it counts from the   *)
(* start of the runtime.                                                   *)
(***************************************************************************)
EXTENDS Integers

CONSTANTS Timers,
          Epoch,   \* the absolute clock when the program starts
          MaxTime, \* bound on the time that passes
          MaxSum,  \* bound on the time added up
          None

VARIABLES now,   \* the time since the program started
          zero,  \* when ConverseInit ran, None before
          timer, \* the timer objects, None where there is none
          sum,   \* what the program adds up, in secs
          true,  \* when each timer was started and stopped, and the time to be added up
          mixed  \* a difference of readings of both clocks was added to secs

vars == <<now, zero, timer, sum, true, mixed>>

Init == /\ now = 0 /\ zero = None /\ sum = 0 /\ mixed = FALSE
        /\ timer = [t \in Timers |-> None]
        /\ true = [start |-> [t \in Timers |-> None], end |-> [t \in Timers |-> None], sum |-> 0]

CmiWallTimer == IF zero = None THEN Epoch + now ELSE now - zero

Tick == now < MaxTime /\ now' = now + 1 /\ UNCHANGED <<zero, timer, sum, true, mixed>>

\* Starting the runtime takes time.
ConverseInit ==
  /\ zero = None /\ now < MaxTime
  /\ now' = now + 1 /\ zero' = now + 1
  /\ UNCHANGED <<timer, sum, true, mixed>>

timer_create(t) ==
  /\ timer[t] = None
  /\ timer' = [timer EXCEPT ![t] = [start |-> 0, end |-> 0]]
  /\ true' = [true EXCEPT !.start[t] = None, !.end[t] = None]
  /\ UNCHANGED <<now, zero, sum, mixed>>

\* The copy constructor.
Copy(t) == timer[t]

timer_dup(t, n) ==
  /\ timer[t] # None /\ timer[n] = None
  /\ timer' = [timer EXCEPT ![n] = Copy(t)]
  /\ true' = [true EXCEPT !.start[n] = true.start[t], !.end[n] = true.end[t]]
  /\ UNCHANGED <<now, zero, sum, mixed>>

timer_free(t) ==
  /\ timer[t] # None
  /\ timer' = [timer EXCEPT ![t] = None]
  /\ UNCHANGED <<now, zero, sum, true, mixed>>

timer_start(t) ==
  /\ timer[t] # None
  /\ timer' = [timer EXCEPT ![t].start = CmiWallTimer]
  /\ true' = [true EXCEPT !.start[t] = now]
  /\ UNCHANGED <<now, zero, sum, mixed>>

timer_stop(t) ==
  /\ timer[t] # None
  /\ timer' = [timer EXCEPT ![t].end = CmiWallTimer]
  /\ true' = [true EXCEPT !.end[t] = now]
  /\ UNCHANGED <<now, zero, sum, mixed>>

\* ABT_timer_read, where the timer was started and stopped.
timer_read(t) == timer[t].end - timer[t].start

\* The runtime was started between the two readings.
Across(s, e) == zero # None /\ (s < zero) # (e < zero)

\* ABT_timer_stop_and_add; ABT_timer_stop_and_read is the same with secs = 0.
stop_and_add(t) ==
  /\ timer[t] # None /\ true.start[t] # None
  /\ true.sum + (now - true.start[t]) <= MaxSum
  /\ timer' = [timer EXCEPT ![t].end = CmiWallTimer]
  /\ sum' = sum + (CmiWallTimer - timer[t].start)
  /\ true' = [true EXCEPT !.end[t] = now, !.sum = @ + (now - true.start[t])]
  /\ mixed' = (mixed \/ Across(true.start[t], now))
  /\ UNCHANGED <<now, zero>>

Next == \/ Tick \/ ConverseInit
        \/ \E t \in Timers : timer_create(t) \/ timer_free(t) \/ timer_start(t) \/ timer_stop(t) \/ stop_and_add(t)
        \/ \E t, n \in Timers : timer_dup(t, n)

Spec == Init /\ [][Next]_vars

\* Types.
TypeOK ==
  /\ now \in 0..MaxTime /\ zero \in (0..MaxTime) \cup {None} /\ sum \in Int /\ mixed \in BOOLEAN
  /\ \A t \in Timers : timer[t] # None => timer[t].start \in Int /\ timer[t].end \in Int

\* A timer that was started and stopped, or copied from one that was, tells the time
\* between, whatever happened to the original since, and the sums are right, unless
\* the runtime was started between the start and the stop (misc.cpp:107-111,
\* 294-385).
ElapsedExact ==
  /\ \A t \in Timers :
       timer[t] # None /\ true.start[t] # None /\ true.end[t] # None =>
         (~Across(true.start[t], true.end[t]) => timer_read(t) = true.end[t] - true.start[t])
  /\ ~mixed => sum = true.sum
=============================================================================
