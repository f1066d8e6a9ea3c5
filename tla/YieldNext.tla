------------------------------ MODULE YieldNext ------------------------------
(***************************************************************************)
(* A predefined scheduler on its PE, with yield-to-next (xstream.cpp,      *)
(* sched.cpp): a ULT that suspends pops the next unit by the scheduler's   *)
(* policy and switches to it directly; a unit that it may not switch to is *)
(* parked in ABTI_held for the scheduling thread, which gets control after *)
(* at most K direct switches.                                              *)
(*                                                                         *)
(* The PEs run schedulers over the same pools, in the same order.  What a  *)
(* suspending ULT still has to do (push itself back, become BLOCKED, end)  *)
(* is done after the switch, on the stack of the next thread.              *)
(***************************************************************************)
EXTENDS Integers, Sequences

CONSTANTS PEs, Units,
          Order,    \* the pools of the schedulers, highest priority first
          Home,     \* Home[u]: the pool of u
          Tasks,    \* the stackless units
          Mains,    \* PE-main threads (the primary ULT)
          K,        \* direct_burst
          Randws,   \* whether the scheduler is ABT_SCHED_RANDWS
          External, \* whether units are pushed while a PE switches or pops, too
          Asked,    \* the PEs that are sent messages and asked to finish
          None

Pools == {Order[i] : i \in 1..Len(Order)}

ASSUME YieldAssumption == /\ K \in Nat /\ Home \in [Units -> Pools]
                          /\ Order \in Seq(Pools) /\ Len(Order) > 0 /\ None \notin Units
                          /\ Tasks \subseteq Units /\ Mains \subseteq Units \ Tasks
                          /\ Asked \subseteq PEs /\ Randws \in BOOLEAN /\ External \in BOOLEAN

VARIABLES pool,      \* pool[p]: the queue of p
          away,      \* the units that are blocked, or not created yet
          done,      \* the units that have ended
          running,   \* running[pe]: the unit that has the PE, None for the scheduling thread
          held,      \* ABTI_held
          direct_count, last_chain, yielding, \* the thread-locals of these names
          stop,      \* the PEs whose lease is finishing or whose scheduler is to exit
          in_yield,  \* the ULTs inside ABT_thread_yield
          pc,        \* "on": running; "choose", "poll": popping; "post": just switched
          at,        \* the pool that is popped next
          defer,     \* what is done after the switch: <<unit, action>>
          ran,       \* how many units ran since the scheduling thread polled
          msg        \* the PEs with a message in their queue

vars == <<pool, away, done, running, held, direct_count, last_chain, yielding, stop,
          in_yield, pc, at, defer, ran, msg>>

Init ==
  /\ pool = [p \in Pools |-> <<>>] /\ away = Units /\ done = {}
  /\ running = [e \in PEs |-> None] /\ held = [e \in PEs |-> None]
  /\ direct_count = [e \in PEs |-> 0] /\ last_chain = [e \in PEs |-> 0]
  /\ yielding = [e \in PEs |-> FALSE] /\ stop = {} /\ in_yield = {}
  /\ pc = [e \in PEs |-> "on"] /\ at = [e \in PEs |-> 1]
  /\ defer = [e \in PEs |-> <<None, "none">>]
  /\ ran = [e \in PEs |-> 0] /\ msg = {}

\* ABTI_pool_index, from 1.
pool_index(p) == CHOOSE i \in 1..Len(Order) : Order[i] = p

\* ABTI_sched_pop_by_policy: the pool to pop after the i-th one was empty.
pop_by_policy(i) ==
  IF ~Randws \/ Len(Order) = 1 THEN {i + 1}
  ELSE IF i = 1 THEN 2..Len(Order) ELSE {Len(Order) + 1}

Popped(p) == pool' = [pool EXCEPT ![p] = Tail(@)]

\* The scheduling thread gets control; the length of the chain is left for the
\* poll that started it.
ToSched(e) ==
  /\ running' = [running EXCEPT ![e] = None] /\ pc' = [pc EXCEPT ![e] = "post"]
  /\ last_chain' = [last_chain EXCEPT ![e] = direct_count[e]]
  /\ direct_count' = [direct_count EXCEPT ![e] = 0]
  /\ UNCHANGED ran

-----------------------------------------------------------------------------
Suspending(e, act) ==
  /\ pc[e] = "on" /\ running[e] \in Units \ Tasks
  /\ defer' = [defer EXCEPT ![e] = <<running[e], act>>]
  /\ IF act = "yield" THEN /\ yielding' = [yielding EXCEPT ![e] = TRUE]
                           /\ in_yield' = in_yield \cup {running[e]}
     ELSE UNCHANGED <<yielding, in_yield>>
  /\ UNCHANGED <<pool, away, done, held, stop, msg>>

Direct(e) ==
  /\ pc' = [pc EXCEPT ![e] = "choose"] /\ at' = [at EXCEPT ![e] = 1]
  /\ UNCHANGED <<running, direct_count, last_chain, ran>>

\* Variant: the chain has no bound.
VariantChooseUnbounded(e, act) ==
  /\ Suspending(e, act)
  /\ IF K > 0 /\ held[e] = None /\ e \notin stop /\ running[e] \notin Mains
     THEN /\ pc' = [pc EXCEPT ![e] = "choose"] /\ at' = [at EXCEPT ![e] = 1]
          /\ direct_count' = [direct_count EXCEPT ![e] = 0] /\ ran' = [ran EXCEPT ![e] = 0]
          /\ UNCHANGED <<running, last_chain>>
     ELSE ToSched(e) /\ UNCHANGED at

\* ABTI_choose_fn, on the stack of a ULT that yields, blocks or ends: a direct
\* switch is tried unless a unit is parked, the chain is long enough or the PE
\* is to stop.  A PE-main thread has no choose function: the scheduling thread
\* is next, and both counters are 0, because only a poll runs such a thread.
choose_fn(e, act) ==
  /\ Suspending(e, act)
  /\ IF held[e] = None /\ direct_count[e] < K /\ e \notin stop /\ running[e] \notin Mains THEN Direct(e)
     ELSE ToSched(e) /\ UNCHANGED at

\* Variant: any ULT is switched to.
VariantPark(e, t) == t \in Tasks \cup Mains

\* The popped unit is parked: its pool comes after that of the yielding ULT, or
\* it is not a ULT that can be switched to.
Park(e, t) ==
  \/ yielding[e] /\ pool_index(Home[t]) > pool_index(Home[running[e]])
  \/ t \in Tasks \cup Mains

\* One pop of the loop, and what becomes of a popped unit.
ChoosePop(e) ==
  /\ pc[e] = "choose"
  /\ IF at[e] > Len(Order) THEN ToSched(e) /\ UNCHANGED <<pool, held, at>>
     ELSE IF pool[Order[at[e]]] = <<>>
          THEN /\ \E i \in pop_by_policy(at[e]) : at' = [at EXCEPT ![e] = i]
               /\ UNCHANGED <<pool, held, running, pc, direct_count, last_chain, ran>>
          ELSE LET t == Head(pool[Order[at[e]]]) IN
               /\ Popped(Order[at[e]]) /\ UNCHANGED at
               /\ IF Park(e, t) THEN held' = [held EXCEPT ![e] = t] /\ ToSched(e)
                  ELSE /\ running' = [running EXCEPT ![e] = t] /\ pc' = [pc EXCEPT ![e] = "post"]
                       /\ direct_count' = [direct_count EXCEPT ![e] = @ + 1]
                       /\ ran' = [ran EXCEPT ![e] = @ + 1]
                       /\ UNCHANGED <<held, last_chain>>
  /\ UNCHANGED <<away, done, yielding, stop, in_yield, defer, msg>>

\* The end of ABT_thread_yield, when t has the PE again.
YieldReturns(e, t) ==
  /\ yielding' = [yielding EXCEPT ![e] = @ /\ t \notin in_yield]
  /\ in_yield' = in_yield \ {t}

\* What the thread before left to do is done first of all after the switch.
PostSwitch(e) ==
  /\ pc[e] = "post" /\ pc' = [pc EXCEPT ![e] = "on"]
  /\ LET u == defer[e][1] act == defer[e][2] IN
       /\ pool' = IF act = "yield" THEN [pool EXCEPT ![Home[u]] = Append(@, u)] ELSE pool
       /\ away' = IF act = "block" THEN away \cup {u} ELSE away
       /\ done' = IF act = "exit" THEN done \cup {u} ELSE done
  /\ defer' = [defer EXCEPT ![e] = <<None, "none">>]
  /\ YieldReturns(e, running[e])
  /\ UNCHANGED <<running, held, direct_count, last_chain, stop, at, ran, msg>>

-----------------------------------------------------------------------------
\* ABTI_poll_sched: the pools are popped in turn; when a unit is parked, only
\* those that come before its own, and then it is the parked one's turn.
poll_sched(e) ==
  /\ pc[e] = "on" /\ running[e] = None
  /\ pc' = [pc EXCEPT ![e] = "poll"] /\ at' = [at EXCEPT ![e] = 1]
  /\ ran' = [ran EXCEPT ![e] = 0]
  /\ UNCHANGED <<pool, away, done, running, held, direct_count, last_chain, yielding, stop, in_yield, defer, msg>>

PollLimit(e) == IF held[e] = None THEN Len(Order) ELSE pool_index(Home[held[e]]) - 1

\* ABTI_pool_run_thread: t gets the PE.
run_thread(e, t) ==
  /\ running' = [running EXCEPT ![e] = t] /\ pc' = [pc EXCEPT ![e] = "on"]
  /\ last_chain' = [last_chain EXCEPT ![e] = 0] /\ ran' = [ran EXCEPT ![e] = 1]
  /\ YieldReturns(e, t)

\* Variant: the parked unit stays parked.
VariantTakeHeld(e) == run_thread(e, held[e]) /\ UNCHANGED held

TakeHeld(e) == run_thread(e, held[e]) /\ held' = [held EXCEPT ![e] = None]

PollPop(e) ==
  /\ pc[e] = "poll"
  /\ IF at[e] > PollLimit(e)
     THEN /\ UNCHANGED <<pool, at>>
          /\ IF held[e] # None THEN TakeHeld(e)
             ELSE /\ pc' = [pc EXCEPT ![e] = "on"]
                  /\ UNCHANGED <<running, last_chain, ran, yielding, in_yield, held>>
     ELSE /\ UNCHANGED held
          /\ IF pool[Order[at[e]]] # <<>>
             THEN run_thread(e, Head(pool[Order[at[e]]])) /\ Popped(Order[at[e]]) /\ UNCHANGED at
             ELSE /\ \E i \in IF held[e] = None THEN pop_by_policy(at[e]) ELSE {at[e] + 1} :
                       at' = [at EXCEPT ![e] = i]
                  /\ UNCHANGED <<pool, running, pc, last_chain, ran, yielding, in_yield>>
  /\ UNCHANGED <<away, done, direct_count, stop, defer, msg>>

\* A tasklet ends on the stack of the poll.
TaskEnds(e) ==
  /\ pc[e] = "on" /\ running[e] \in Tasks
  /\ running' = [running EXCEPT ![e] = None] /\ done' = done \cup {running[e]}
  /\ UNCHANGED <<pool, away, held, direct_count, last_chain, yielding, stop, in_yield, pc, at, defer, ran, msg>>

\* The scheduling thread handles the messages in the PE's queue.
HandleMessages(e) ==
  /\ pc[e] = "on" /\ running[e] = None /\ e \in msg
  /\ msg' = msg \ {e}
  /\ UNCHANGED <<pool, away, done, running, held, direct_count, last_chain, yielding, stop, in_yield, pc, at, defer, ran>>

-----------------------------------------------------------------------------
\* The unit or the message handler that has a PE, or an external thread, creates
\* or wakes u ...
Push(u) ==
  /\ External \/ \A e \in PEs : pc[e] = "on"
  /\ u \in away /\ away' = away \ {u}
  /\ pool' = [pool EXCEPT ![Home[u]] = Append(@, u)]
  /\ UNCHANGED <<done, running, held, direct_count, last_chain, yielding, stop, in_yield, pc, at, defer, ran, msg>>

\* ... sends a message, or asks the PE to finish.
Send(e) ==
  /\ e \in Asked
  /\ msg' = msg \cup {e} /\ stop' \in {stop, stop \cup {e}}
  /\ UNCHANGED <<pool, away, done, running, held, direct_count, last_chain, yielding, in_yield, pc, at, defer, ran>>

UnitStep(e) == (\E act \in {"yield", "block", "exit"} : choose_fn(e, act)) \/ TaskEnds(e)
PEStep(e) == UnitStep(e) \/ ChoosePop(e) \/ PostSwitch(e) \/ poll_sched(e) \/ PollPop(e)

Next == \/ \E e \in PEs : PEStep(e) \/ HandleMessages(e) \/ Send(e)
        \/ \E u \in Units : Push(u)

Spec == Init /\ [][Next]_vars

-----------------------------------------------------------------------------
\* The state has its types.
TypeOK ==
  /\ pool \in [Pools -> Seq(Units)] /\ away \subseteq Units /\ done \subseteq Units
  /\ running \in [PEs -> Units \cup {None}] /\ held \in [PEs -> Units \cup {None}]
  /\ direct_count \in [PEs -> 0..K] /\ last_chain \in [PEs -> 0..K]
  /\ yielding \in [PEs -> BOOLEAN] /\ stop \subseteq PEs /\ msg \subseteq PEs
  /\ pc \in [PEs -> {"on", "choose", "poll", "post"}] /\ at \in [PEs -> 1..Len(Order)+1]
  /\ ran \in [PEs -> 0..K+1]

\* What PE e has outside the pools: the parked unit, the one that runs and, until
\* it is put away, the one that was switched from.
Has(e, k) == CASE k = "held" -> held[e]
               [] k = "running" -> running[e]
               [] k = "leaving" -> IF pc[e] = "post" THEN defer[e][1] ELSE None

\* The places where u is.
InPools(u) == UNION {{<<"in", p, i>> : i \in {j \in 1..Len(pool[p]) : pool[p][j] = u}} : p \in Pools}
OnPEs(u) == {<<"on", s[1], s[2]>> : s \in {r \in PEs \X {"held", "running", "leaving"} : Has(r[1], r[2]) = u}}
Outside(u) == (IF u \in away THEN {"away"} ELSE {}) \cup (IF u \in done THEN {"done"} ELSE {})
Places(u) == InPools(u) \cup OnPEs(u) \cup {<<w>> : w \in Outside(u)}

\* No unit is lost or run twice: each is in one pool once, or parked once, or has
\* one PE, or is leaving one, or is blocked or ended.  The claim of a popped ULT
\* never fails (xstream.cpp:45-77, sched.cpp:114-124).
OnePlace == \A u \in Units : \E w \in Places(u) : Places(u) = {w}

\* A poll reports as many units as ran before the scheduling thread got control
\* again, the chain of direct switches included (sched.cpp:126-132,
\* xstream.cpp:80-83).
ReportExact ==
  \A e \in PEs : running[e] = None /\ pc[e] = "on" /\ ran[e] > 0 => ran[e] = 1 + last_chain[e]

\* All that is claimed of the units and of what a poll reports (xstream.cpp:45-83,
\* sched.cpp:114-132).
UnitsKept == TypeOK /\ OnePlace /\ ReportExact

\* A ULT that suspends counts as pushed back at once, a parked unit as the first of
\* its pool; with one PE, e.
Leaving(e, p) ==
  IF pc[e] \in {"choose", "post"} /\ defer[e][2] = "yield" /\ Home[defer[e][1]] = p THEN <<defer[e][1]>> ELSE <<>>

Waiting(e) == [p \in Pools |-> (IF held[e] # None /\ Home[held[e]] = p THEN <<held[e]>> ELSE <<>>)
                                \o pool[p] \o Leaving(e, p)]
Current(e) == IF pc[e] = "choose" THEN None ELSE running[e]
Away(e) == away \cup {u \in Units : pc[e] \in {"choose", "post"} /\ defer[e] = <<u, "block">>}
=============================================================================
