------------------------------ MODULE Finalize ------------------------------
(***************************************************************************)
(* ABT_init and ABT_finalize (init.cpp) in one process: the reference      *)
(* count under g_init_mutex, the refusals, and the drain of the primary's  *)
(* pools, during which the primary ULT yields with g_init_mutex locked.    *)
(*                                                                         *)
(* PE 0 runs the primary ULT, its scheduling thread and the units of the   *)
(* primary's two pools, of which the first also holds the primary ULT; a   *)
(* second user of the library is a ULT on a secondary execution stream.    *)
(* The direct switch and the poll are those of YieldNext, in one step; the *)
(* primary ULT has no choose function and suspends to the scheduling       *)
(* thread.  A ULT that blocks is in no pool until it is woken.             *)
(***************************************************************************)
EXTENDS Integers, Sequences, FiniteSets

CONSTANTS Units,
          Tasks,     \* the stackless ones
          Low,       \* those of the second pool
          Callers,   \* those that call ABT_init and ABT_finalize
          Creators,  \* those that create an execution stream and leave it
          Yielders,  \* those that call ABT_thread_yield
          Blockers,  \* those that block
          K,         \* direct_burst
          MaxRefs,   \* bound on the calls of ABT_init by the primary ULT
          Primary,   \* the primary ULT
          Second,    \* the ULT on the secondary execution stream
          Sched      \* the scheduling thread

None == Sched

VARIABLES g_init_mutex, \* the thread that has it, None when free
          init, refs,   \* initialized, g_init_refs
          secondary,    \* whether a secondary execution stream is leased
          second_in,    \* whether its ULT is between ABT_init and ABT_finalize
          main, low,    \* the queues of the primary's pools
          held, chain, yielding, \* ABTI_held, ABTI_direct_count, ABTI_yielding of PE 0
          in_yield,     \* who is inside ABT_thread_yield
          on,           \* who has PE 0
          pc,           \* of the primary ULT: "out", "drain"
          calls,        \* the units that called ABT_init
          created, ended,
          asleep,       \* the ULTs of the primary's pools that are blocked
          stranded      \* the units that were blocked when Argobots was finalized

vars == <<g_init_mutex, init, refs, secondary, second_in, main, low, held, chain, yielding, in_yield,
          on, pc, calls, created, ended, asleep, stranded>>
sched == <<main, low, held, chain, yielding, in_yield, on>>

Init ==
  /\ g_init_mutex = None /\ init = FALSE /\ refs = 0 /\ secondary = FALSE /\ second_in = FALSE
  /\ main = <<>> /\ low = <<>> /\ held = None /\ chain = 0 /\ yielding = FALSE /\ in_yield = {}
  /\ on = Primary /\ pc = "out" /\ calls = {} /\ created = {} /\ ended = {} /\ asleep = {} /\ stranded = {}

PrimaryFree == on = Primary /\ pc = "out"

-----------------------------------------------------------------------------
\* ABT_init: counted, or done by the primary ULT when there is no initialization.
ABT_init(t) ==
  /\ g_init_mutex = None
  /\ IF init THEN refs' = refs + 1 /\ UNCHANGED init
     ELSE t = Primary /\ init' = TRUE /\ refs' = 1

PrimaryInit ==
  /\ PrimaryFree /\ refs < MaxRefs /\ ABT_init(Primary)
  /\ UNCHANGED <<g_init_mutex, secondary, second_in, sched, pc, calls, created, ended, asleep, stranded>>

\* The primary ULT creates a unit, creates or frees the execution stream.
CreateUnit(u) ==
  /\ PrimaryFree /\ init /\ u \notin created /\ created' = created \cup {u}
  /\ main' = IF u \in Low THEN main ELSE Append(main, u)
  /\ low' = IF u \in Low THEN Append(low, u) ELSE low
  /\ UNCHANGED <<g_init_mutex, init, refs, secondary, second_in, held, chain, yielding, in_yield, on, pc, calls, ended, asleep, stranded>>

Secondary ==
  /\ PrimaryFree /\ init /\ ~second_in /\ secondary' = ~secondary
  /\ UNCHANGED <<g_init_mutex, init, refs, second_in, sched, pc, calls, created, ended, asleep, stranded>>

\* The other user ...
SecondInit ==
  /\ secondary /\ ~second_in /\ ABT_init(Second) /\ second_in' = TRUE
  /\ UNCHANGED <<g_init_mutex, secondary, sched, pc, calls, created, ended, asleep, stranded>>

\* ... whose ABT_finalize is refused when it is the last one.
SecondFinalize ==
  /\ secondary /\ second_in /\ g_init_mutex = None
  /\ IF refs > 1 THEN refs' = refs - 1 /\ second_in' = FALSE ELSE UNCHANGED <<refs, second_in>>
  /\ UNCHANGED <<g_init_mutex, init, secondary, sched, pc, calls, created, ended, asleep, stranded>>

\* A finalize of the last user is refused while one is leased.
Refused == secondary

\* ABT_finalize by the primary ULT, up to the drain.
ABT_finalize ==
  /\ PrimaryFree /\ g_init_mutex = None /\ init
  /\ IF refs > 1 THEN refs' = refs - 1 /\ UNCHANGED <<pc, g_init_mutex>>
     ELSE IF Refused THEN UNCHANGED <<refs, pc, g_init_mutex>>
     ELSE refs' = 0 /\ pc' = "drain" /\ g_init_mutex' = Primary
  /\ UNCHANGED <<init, secondary, second_in, sched, calls, created, ended, asleep, stranded>>

-----------------------------------------------------------------------------
Index(t) == IF t \in Low THEN 2 ELSE 1

\* ABTI_sched_pop_by_policy over given queues: <<unit or None, main, low>>.
Pop(m, l) == IF m # <<>> THEN <<Head(m), Tail(m), l>>
             ELSE IF l # <<>> THEN <<Head(l), m, Tail(l)>> ELSE <<None, m, l>>

\* The thread that gets PE 0 ends its ABT_thread_yield, if it was inside.
Gets(t, f, inside) == on' = t /\ yielding' = (f /\ t \notin inside) /\ in_yield' = inside \ {t}

\* ABTI_choose_fn as unit t suspends, and its push after the switch if it yields; f
\* is ABTI_yielding.
Switch(t, yields, f, inside) ==
  LET r == IF held = None /\ chain < K THEN Pop(main, low) ELSE <<None, main, low>>
      next == r[1]
      park == next # None /\ (next \in Tasks \cup {Primary} \/ (f /\ Index(next) > Index(t)))
  IN /\ main' = IF yields /\ Index(t) = 1 THEN Append(r[2], t) ELSE r[2]
     /\ low' = IF yields /\ Index(t) = 2 THEN Append(r[3], t) ELSE r[3]
     /\ held' = IF park THEN next ELSE held
     /\ chain' = IF park \/ next = None THEN 0 ELSE chain + 1
     /\ Gets(IF park THEN Sched ELSE next, f, inside)

\* Variant: the parked unit's own pool goes before it.
VariantPoll ==
  /\ on = Sched
  /\ IF held # None /\ main = <<>>
     THEN Gets(held, yielding, in_yield) /\ held' = None /\ UNCHANGED <<main, low>>
     ELSE LET r == Pop(main, IF held = None THEN low ELSE <<>>) IN
          /\ r[1] # None /\ Gets(r[1], yielding, in_yield) /\ main' = r[2]
          /\ low' = (IF held = None THEN r[3] ELSE low) /\ UNCHANGED held
  /\ UNCHANGED <<g_init_mutex, init, refs, secondary, second_in, chain, pc, calls, created, ended, asleep, stranded>>

\* ABTI_poll_sched.
poll_sched ==
  /\ on = Sched
  /\ IF held # None /\ (Index(held) = 1 \/ main = <<>>)
     THEN Gets(held, yielding, in_yield) /\ held' = None /\ UNCHANGED <<main, low>>
     ELSE LET r == Pop(main, IF held = None THEN low ELSE <<>>) IN
          /\ r[1] # None /\ Gets(r[1], yielding, in_yield) /\ main' = r[2]
          /\ low' = (IF held = None THEN r[3] ELSE low) /\ UNCHANGED held
  /\ UNCHANGED <<g_init_mutex, init, refs, secondary, second_in, chain, pc, calls, created, ended, asleep, stranded>>

\* The primary ULT suspends, and is pushed after the switch if it yields.
PrimaryLeaves(yields, f, inside) ==
  /\ main' = IF yields THEN Append(main, Primary) ELSE main
  /\ Gets(Sched, f, inside)
  /\ UNCHANGED <<low, held, chain>>

\* ABT_thread_yield by the primary ULT.
PrimaryYields ==
  /\ PrimaryFree /\ init /\ PrimaryLeaves(TRUE, TRUE, in_yield \cup {Primary})
  /\ UNCHANGED <<g_init_mutex, init, refs, secondary, second_in, pc, calls, created, ended, asleep, stranded>>

\* ABTI_thread_block by the primary ULT.
PrimaryBlocks ==
  /\ PrimaryFree /\ init /\ asleep' = asleep \cup {Primary}
  /\ PrimaryLeaves(FALSE, yielding, in_yield)
  /\ UNCHANGED <<g_init_mutex, init, refs, secondary, second_in, pc, calls, created, ended, stranded>>

\* ABTI_thread_awaken_fn, called by whoever has PE 0 or by another thread.
Wake(t) ==
  /\ init /\ t \in asleep /\ asleep' = asleep \ {t}
  /\ main' = IF t \in Low THEN main ELSE Append(main, t)
  /\ low' = IF t \in Low THEN Append(low, t) ELSE low
  /\ UNCHANGED <<g_init_mutex, init, refs, secondary, second_in, held, chain, yielding, in_yield, on, pc, calls,
                 created, ended, stranded>>

\* Variant: a parked unit is not counted.
VariantQueued == Len(main) + Len(low)

\* What the drain waits for: num_blocked of the pools is not looked at.
Queued == Len(main) + Len(low) + (IF held # None THEN 1 ELSE 0)

\* The drain: CthYield, not ABT_thread_yield, until nothing is queued.
DrainYield ==
  /\ on = Primary /\ pc = "drain" /\ Queued > 0
  /\ PrimaryLeaves(TRUE, yielding, in_yield)
  /\ UNCHANGED <<g_init_mutex, init, refs, secondary, second_in, pc, calls, created, ended, asleep, stranded>>

\* Then the scheduler and the execution stream are destroyed; a ULT that is blocked
\* is left behind, in a pool that no scheduler polls.
TearDown ==
  /\ on = Primary /\ pc = "drain" /\ Queued = 0
  /\ init' = FALSE /\ pc' = "out" /\ g_init_mutex' = None
  /\ asleep' = {} /\ stranded' = stranded \cup asleep
  /\ UNCHANGED <<refs, secondary, second_in, sched, calls, created, ended>>

-----------------------------------------------------------------------------
\* A unit calls ABT_init and, before it ends, ABT_finalize, which is refused if it
\* is the last one; it keeps PE 0 while it waits for the mutex.
UnitInit(u) ==
  /\ on = u /\ u \in Callers \ calls /\ ABT_init(u) /\ calls' = calls \cup {u}
  /\ UNCHANGED <<g_init_mutex, secondary, second_in, sched, pc, created, ended, asleep, stranded>>

UnitCreates(u) ==
  /\ on = u /\ u \in Creators /\ ~secondary /\ init /\ secondary' = TRUE
  /\ UNCHANGED <<g_init_mutex, init, refs, second_in, sched, pc, calls, created, ended, asleep, stranded>>

UnitYields(u) ==
  /\ on = u /\ u \in Yielders /\ Switch(u, TRUE, TRUE, in_yield \cup {u})
  /\ UNCHANGED <<g_init_mutex, init, refs, secondary, second_in, pc, calls, created, ended, asleep, stranded>>

UnitBlocks(u) ==
  /\ on = u /\ u \in Blockers /\ asleep' = asleep \cup {u} /\ Switch(u, FALSE, yielding, in_yield)
  /\ UNCHANGED <<g_init_mutex, init, refs, secondary, second_in, pc, calls, created, ended, stranded>>

UnitEnds(u) ==
  /\ on = u /\ u \in Units /\ u \notin Callers \ calls
  /\ u \in Creators => secondary
  /\ ended' = ended \cup {u}
  /\ u \in calls => g_init_mutex = None
  /\ refs' = IF u \in calls /\ refs > 1 THEN refs - 1 ELSE refs
  /\ IF u \in Tasks THEN Gets(Sched, yielding, in_yield) /\ UNCHANGED <<main, low, held, chain>>
     ELSE Switch(u, FALSE, yielding, in_yield)
  /\ UNCHANGED <<g_init_mutex, init, secondary, second_in, pc, calls, created, asleep, stranded>>

UnitStep(u) == UnitInit(u) \/ UnitCreates(u) \/ UnitEnds(u)
PE0Step == poll_sched \/ DrainYield \/ TearDown \/ \E u \in Units : UnitStep(u)

Next == \/ PE0Step \/ PrimaryInit \/ ABT_finalize \/ Secondary \/ SecondInit \/ SecondFinalize
        \/ \E u \in Units : CreateUnit(u) \/ UnitYields(u) \/ UnitBlocks(u)
        \/ PrimaryYields \/ PrimaryBlocks
        \/ \E t \in Units \cup {Primary} : Wake(t)

Spec == Init /\ [][Next]_vars

\* Fairness: PE 0 goes on, and a unit does not yield for ever.
FairSpec == Spec /\ WF_vars(PE0Step) /\ \A u \in Units : SF_vars(UnitEnds(u))

-----------------------------------------------------------------------------
\* The state has its types.
TypeOK ==
  /\ g_init_mutex \in {None, Primary} /\ init \in BOOLEAN /\ refs \in 0..(MaxRefs + 1 + Cardinality(Callers))
  /\ secondary \in BOOLEAN /\ second_in \in BOOLEAN /\ yielding \in BOOLEAN
  /\ in_yield \subseteq Units \cup {Primary}
  /\ main \in Seq(Units \cup {Primary}) /\ low \in Seq(Units)
  /\ held \in Units \cup {None, Primary} /\ chain \in 0..K
  /\ on \in Units \cup {Primary, Sched} /\ pc \in {"out", "drain"}
  /\ calls \subseteq Units /\ ended \subseteq created /\ created \subseteq Units
  /\ asleep \subseteq Units \cup {Primary} /\ stranded \subseteq created

\* When Argobots is finalized every unit that was created has run to its end, the
\* parked one included, except those that were blocked just then (init.cpp:186-193).
DrainsAll == ~init => created = ended \cup stranded /\ ended \cap stranded = {}

\* A finalized Argobots has no secondary execution stream (init.cpp:174-177).
NoSecondaryLeft == ~init => ~secondary

\* A refused finalize leaves everything as it was: as long as nobody finalizes,
\* Argobots is initialized when and only when it has users (init.cpp:170-178).
RefsMatch == g_init_mutex = None => (init <=> refs > 0)

\* ABT_finalize returns, if no unit is in a later pool than the primary ULT: every
\* poll finds the primary ULT first (init.cpp:186-193).
FinalizeReturns == pc = "drain" ~> pc = "out"
=============================================================================
