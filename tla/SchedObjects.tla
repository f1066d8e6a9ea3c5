---------------------------- MODULE SchedObjects ----------------------------
(***************************************************************************)
(* Scheduler and pool objects (sched.cpp, pool.cpp, xstream.cpp): who      *)
(* creates, uses, shares, replaces and destroys them, and which of them    *)
(* the PEs poll meanwhile.                                                 *)
(*                                                                         *)
(* A pools argument is a sequence of pools, with None where the library is *)
(* to create one; the pool that scheduler s was created with is s, too.    *)
(* Programs use one object in one call at a time, replace the scheduler of *)
(* an execution stream from a ULT that runs on it, free the old one only   *)
(* when the PE has the table of the new one, do not make a stacked         *)
(* scheduler a main scheduler, and free no pool that a scheduler has, that *)
(* holds units or that a running ULT is of.  No call checks any of this.   *)
(***************************************************************************)
EXTENDS Naturals, Sequences, FiniteSets, SequencesExt

CONSTANTS Xs,        \* the ranks of the secondary execution streams
          Given,     \* the pools that the program created
          Automatic, \* those of them that are automatic
          Args,      \* the pools arguments
          MaxScheds, \* bound on the schedulers created
          MaxLoad,   \* bound on the units in a pool
          MaxTables, \* bound on the tables on their way to a PE
          None

Scheds == 1..MaxScheds
Pools == Given \cup Scheds
auto(p) == p \in Scheds \cup Automatic

VARIABLES sched,      \* the scheduler objects
          made,       \* how many were created
          num_scheds, \* of each pool
          gone,       \* the pools destroyed
          load,       \* load[p]: the units queued or blocked in p
          main,       \* main_sched of each execution stream, None when it is not leased
          table,      \* the scheduler that each PE polls
          pending,    \* the tables on their way to each PE
          on,         \* the pool of the ULT that has the PE, None: the scheduling thread
          made_for_x, \* the schedulers that the library created for an execution stream
          refused     \* the schedulers that a refused lease left behind

vars == <<sched, made, num_scheds, gone, load, main, table, pending, on, made_for_x, refused>>

Init == /\ sched = [s \in Scheds |-> [state |-> "none", automatic |-> FALSE,
                                      pools |-> <<>>, used_by |-> None, in_pool |-> FALSE]]
        /\ made = 0 /\ num_scheds = [p \in Pools |-> 0] /\ gone = {} /\ load = [p \in Pools |-> 0]
        /\ main = [x \in Xs |-> None] /\ table = [x \in Xs |-> None]
        /\ pending = [x \in Xs |-> <<>>] /\ on = [x \in Xs |-> None]
        /\ made_for_x = {} /\ refused = {}

Live(s) == sched[s].state = "live"
Exists(p) == p \in (Given \cup {s \in Scheds : Contains(sched[s].pools, s)}) \ gone
Times(p, ps) == Cardinality({n \in 1..Len(ps) : ps[n] = p})

\* The pools of scheduler s after ABTI_sched_create_predef.
PoolsFor(s, arg) == [n \in 1..Len(arg) |-> IF arg[n] = None THEN s ELSE arg[n]]

\* ABTI_sched_create_predef: the next scheduler, of these pools, used by x.
create_predef(arg, automatic, x) ==
  LET s == made + 1 IN
    /\ made < MaxScheds /\ made' = s /\ \A n \in 1..Len(arg) : arg[n] \notin gone
    /\ sched' = [sched EXCEPT ![s] = [state |-> "live", automatic |-> automatic,
                                      pools |-> PoolsFor(s, arg), used_by |-> x, in_pool |-> FALSE]]
    /\ num_scheds' = [p \in Pools |-> num_scheds[p] + Times(p, PoolsFor(s, arg))]

\* num_scheds when s is destroyed.
Left(s) == [p \in Pools |-> num_scheds[p] - Times(p, sched[s].pools)]

\* Variant: an automatic pool goes with the first of its schedulers.
VariantDying(s) == {p \in ToSet(sched[s].pools) : auto(p) /\ load[p] = 0}

\* ABTI_sched_destroy: the automatic pools of which s was the last scheduler and
\* that hold no unit go with it.
Dying(s) == {p \in ToSet(sched[s].pools) : Left(s)[p] = 0 /\ auto(p) /\ load[p] = 0}

-----------------------------------------------------------------------------
\* ABT_sched_create_basic, with ABT_sched_config_automatic or without;
\* ABT_sched_create, whose schedulers are not automatic.
sched_create(arg, automatic) ==
  /\ create_predef(arg, automatic, None)
  /\ UNCHANGED <<gone, load, main, table, pending, on, made_for_x, refused>>

\* ABT_sched_create whose init fails: the scheduler is destroyed again, and with
\* it the pool it was given.
sched_create_fails(arg) ==
  LET s == made + 1 ps == PoolsFor(s, arg) IN
    /\ made < MaxScheds /\ made' = s /\ \A n \in 1..Len(arg) : arg[n] \notin gone
    /\ sched' = [sched EXCEPT ![s].state = "gone"]
    /\ gone' = gone \cup {p \in ToSet(ps) : num_scheds[p] = 0 /\ auto(p) /\ load[p] = 0}
    /\ UNCHANGED <<num_scheds, load, main, table, pending, on, made_for_x, refused>>

\* ABT_sched_free: refused while it is used.
sched_free(s) ==
  /\ Live(s) /\ sched[s].used_by = None /\ ~sched[s].in_pool /\ \A x \in Xs : table[x] # s
  /\ sched' = [sched EXCEPT ![s].state = "gone"] /\ num_scheds' = Left(s) /\ gone' = gone \cup Dying(s)
  /\ UNCHANGED <<made, load, main, table, pending, on, made_for_x, refused>>

\* ABT_pool_free.
pool_free(p) ==
  /\ Exists(p) /\ num_scheds[p] = 0 /\ load[p] = 0
  /\ \A x \in Xs : on[x] # p
  /\ gone' = gone \cup {p}
  /\ UNCHANGED <<sched, made, num_scheds, load, main, table, pending, on, made_for_x, refused>>

\* ABT_xstream_create with a scheduler of the program, if it is not in use.
xstream_create(x, s) ==
  /\ main[x] = None /\ Live(s) /\ sched[s].used_by = None /\ ~sched[s].in_pool
  /\ main' = [main EXCEPT ![x] = s] /\ sched' = [sched EXCEPT ![s].used_by = x]
  /\ pending' = [pending EXCEPT ![x] = Append(@, s)]
  /\ UNCHANGED <<made, num_scheds, gone, load, table, on, made_for_x, refused>>

\* ABT_xstream_create without one, ABT_xstream_create_basic.
xstream_create_basic(x, arg) ==
  /\ main[x] = None /\ create_predef(arg, TRUE, x)
  /\ main' = [main EXCEPT ![x] = made + 1] /\ pending' = [pending EXCEPT ![x] = Append(@, made + 1)]
  /\ made_for_x' = made_for_x \cup {made + 1}
  /\ UNCHANGED <<gone, load, table, on, refused>>

\* The same when no rank is free: the scheduler stays, and nobody has its handle.
xstream_create_refused(arg) ==
  /\ \A x \in Xs : main[x] # None
  /\ create_predef(arg, TRUE, None)
  /\ made_for_x' = made_for_x \cup {made + 1} /\ refused' = refused \cup {made + 1}
  /\ UNCHANGED <<gone, load, main, table, pending, on>>

\* ABT_xstream_free after the join (XstreamLease): the pools are drained, except for
\* the blocked ULTs of a pool that other schedulers have, and the PE has left them;
\* an automatic scheduler is destroyed.
xstream_free(x) ==
  /\ main[x] # None /\ on[x] = None
  /\ LET s == main[x] IN
       /\ \A p \in ToSet(sched[s].pools) : num_scheds[p] <= 1 => load[p] = 0
       /\ IF sched[s].automatic
          THEN /\ sched' = [sched EXCEPT ![s].state = "gone", ![s].used_by = None]
               /\ num_scheds' = Left(s) /\ gone' = gone \cup Dying(s)
          ELSE sched' = [sched EXCEPT ![s].used_by = None] /\ UNCHANGED <<num_scheds, gone>>
  /\ main' = [main EXCEPT ![x] = None] /\ table' = [table EXCEPT ![x] = None]
  /\ pending' = [pending EXCEPT ![x] = <<>>]
  /\ UNCHANGED <<made, load, on, made_for_x, refused>>

Replaced(old, s, x) ==
  LET new == [sched EXCEPT ![s].used_by = x, ![old].used_by = None] IN
    IF sched[old].automatic THEN [new EXCEPT ![old].state = "gone"] ELSE new

\* ABT_xstream_set_main_sched, called by the ULT that runs on x: it moves to the
\* first pool of s if it was in a pool of the old scheduler, which is destroyed
\* if it is automatic, while the new table is still on its way.
set_main_sched(x, s) ==
  LET old == main[x] IN
    /\ main[x] # None /\ on[x] # None /\ Live(s) /\ old # s
    /\ sched[s].used_by \in {None, x} /\ ~sched[s].in_pool /\ Len(pending[x]) < MaxTables
    /\ main' = [main EXCEPT ![x] = s] /\ sched' = Replaced(old, s, x)
    /\ pending' = [pending EXCEPT ![x] = Append(@, s)]
    /\ on' = IF Contains(sched[old].pools, on[x]) /\ sched[s].pools # <<>>
             THEN [on EXCEPT ![x] = sched[s].pools[1]] ELSE on
    /\ IF sched[old].automatic THEN num_scheds' = Left(old) /\ gone' = gone \cup Dying(old)
       ELSE UNCHANGED <<num_scheds, gone>>
    /\ UNCHANGED <<made, load, table, made_for_x, refused>>

\* ABT_pool_add_sched, and the end of the ULT that runs the stacked scheduler.
add_to_pool(s) ==
  /\ Live(s) /\ ~sched[s].in_pool /\ sched[s].used_by = None
  /\ sched' = [sched EXCEPT ![s].in_pool = TRUE]
  /\ UNCHANGED <<made, num_scheds, gone, load, main, table, pending, on, made_for_x, refused>>

StackedEnds(s) ==
  /\ sched[s].in_pool /\ sched' = [sched EXCEPT ![s].in_pool = FALSE]
  /\ UNCHANGED <<made, num_scheds, gone, load, main, table, pending, on, made_for_x, refused>>

-----------------------------------------------------------------------------
\* A PE takes the next table ...
TakeTable(x) ==
  /\ on[x] = None /\ pending[x] # <<>>
  /\ table' = [table EXCEPT ![x] = Head(pending[x])] /\ pending' = [pending EXCEPT ![x] = Tail(@)]
  /\ UNCHANGED <<sched, made, num_scheds, gone, load, main, on, made_for_x, refused>>

\* ... or runs a unit of the one it has.  What a poll of a destroyed scheduler
\* does is undefined (PollsTheLiving says when there can be one); here, nothing.
RunUnit(x) ==
  /\ on[x] = None /\ table[x] # None /\ Live(table[x])
  /\ \E p \in ToSet(sched[table[x]].pools) :
       load[p] > 0 /\ load' = [load EXCEPT ![p] = @ - 1] /\ on' = [on EXCEPT ![x] = p]
  /\ UNCHANGED <<sched, made, num_scheds, gone, main, table, pending, made_for_x, refused>>

\* The unit ends, or yields or blocks and is back in its pool.
UnitLeaves(x) ==
  /\ on[x] # None /\ on' = [on EXCEPT ![x] = None]
  /\ load' \in {load, [load EXCEPT ![on[x]] = @ + 1]} /\ load'[on[x]] <= MaxLoad
  /\ UNCHANGED <<sched, made, num_scheds, gone, main, table, pending, made_for_x, refused>>

Push(p) ==
  /\ Exists(p) /\ load[p] < MaxLoad /\ load' = [load EXCEPT ![p] = @ + 1]
  /\ UNCHANGED <<sched, made, num_scheds, gone, main, table, pending, on, made_for_x, refused>>

Next == \/ \E arg \in Args : \/ \E automatic \in BOOLEAN : sched_create(arg, automatic)
                             \/ sched_create_fails(arg) \/ xstream_create_refused(arg)
                             \/ \E x \in Xs : xstream_create_basic(x, arg)
        \/ \E s \in Scheds : \/ sched_free(s) \/ add_to_pool(s) \/ StackedEnds(s)
                             \/ \E x \in Xs : xstream_create(x, s) \/ set_main_sched(x, s)
        \/ \E x \in Xs : xstream_free(x) \/ TakeTable(x) \/ RunUnit(x) \/ UnitLeaves(x)
        \/ \E p \in Pools : pool_free(p) \/ Push(p)

Spec == Init /\ [][Next]_vars

-----------------------------------------------------------------------------
\* The state has its types.
TypeOK ==
  /\ made \in 0..MaxScheds /\ num_scheds \in [Pools -> Nat] /\ gone \subseteq Pools /\ load \in [Pools -> 0..MaxLoad]
  /\ main \in [Xs -> Scheds \cup {None}] /\ table \in [Xs -> Scheds \cup {None}]
  /\ pending \in [Xs -> Seq(Scheds)] /\ on \in [Xs -> Pools \cup {None}] /\ made_for_x \subseteq Scheds /\ refused \subseteq Scheds

\* num_scheds counts the schedulers that have the pool, which decides whether
\* blocked ULTs of the pool count and when it is destroyed (abti.h, sched.cpp:81-94).
NumSchedsExact ==
  \A p \in Pools : num_scheds[p] =
    Cardinality({<<s, n>> \in Scheds \X (1..2) : Live(s) /\ n <= Len(sched[s].pools) /\ sched[s].pools[n] = p})

\* A pool outlives the schedulers that have it, the units in it and the ULT that
\* runs from it (sched.cpp:85-96, xstream.cpp:401-409).
PoolsOutlive ==
  /\ \A s \in Scheds : Live(s) => \A n \in 1..Len(sched[s].pools) : sched[s].pools[n] \notin gone
  /\ \A p \in gone : load[p] = 0 /\ \A x \in Xs : on[x] # p

\* used_by and main_sched are each other's inverse, and what is in use, on an
\* execution stream or stacked, is alive (xstream.cpp:276-296, 382-411).
UsedExactly ==
  /\ \A s \in Scheds, x \in Xs : sched[s].used_by = x <=> main[x] = s
  /\ \A s \in Scheds : sched[s].used_by # None \/ sched[s].in_pool => Live(s)

\* A PE polls the main scheduler of its execution stream, and one that was
\* destroyed only until the table of the new one arrives (xstream.cpp:391-409).
PollsTheLiving ==
  \A x \in Xs : table[x] # None /\ pending[x] = <<>> => table[x] = main[x] /\ Live(table[x])

\* Nothing leaks: a scheduler that the library created for an execution stream is
\* destroyed with it or when it is replaced; only a refused lease leaves one behind
\* (xstream.cpp:319-353, 359-370, 409).
NothingLeaks == \A s \in made_for_x : Live(s) => sched[s].used_by # None \/ s \in refused
=============================================================================
