------------------------------ MODULE UserPool ------------------------------
(***************************************************************************)
(* User-defined pools (pool.cpp): the unit that the user's functions give  *)
(* to each thread of such a pool, the map from units back to threads, and  *)
(* what creating, moving, pushing, popping, removing and freeing a thread  *)
(* does to them.                                                           *)
(*                                                                         *)
(* A unit is an address of the user's heap, given out again after u_free.  *)
(* In a built-in pool the unit of a thread is the thread itself.  A thread *)
(* is handled by one agent at a time; programs re-associate threads that   *)
(* are in no pool, and free a pool when no thread is associated with it.   *)
(***************************************************************************)
EXTENDS Naturals, Sequences, FiniteSets

\* s without its i-th element.
Without(s, i) == SubSeq(s, 1, i - 1) \o SubSeq(s, i + 1, Len(s))

CONSTANTS Threads, Units, Agents,
          Users,      \* the user-defined pools
          Fifo,       \* a built-in pool
          Primary,    \* the primary ULT
          Home,       \* the agent on its home PE
          MaxPools,   \* bound on num_user_pools
          None

Pools == Users \cup {Fifo}

ASSUME UserPoolAssumption == /\ Primary \in Threads /\ Home \in Agents /\ MaxPools \in Nat
                             /\ None \notin Threads \cup Units \cup Agents \cup Pools
                             /\ Fifo \notin Users /\ Threads \cap Units = {}

VARIABLES num_user_pools,
          live,       \* the pools there are
          pool, unit, \* the fields of each thread
          units,      \* ABTI_g->units, None where nothing is entered
          heap,       \* the units created and not freed
          content,    \* content[p]: the units in p
          state,      \* of each thread: "none", "held" by an agent or the program, "in" a pool
          pc, cur, to, \* of each agent: where it is, the thread and the pool it works on
          end         \* "push": the thread is pushed in the end; "free": it is freed; "keep"

obj == <<num_user_pools, live, pool, unit, units, heap, content, state>>
vars == <<obj, pc, cur, to, end>>

Init == /\ num_user_pools = 0 /\ live = {Fifo}
        /\ pool = [t \in Threads |-> None] /\ unit = [t \in Threads |-> None]
        /\ units = [u \in Units |-> None] /\ heap = {} /\ content = [p \in Pools |-> <<>>]
        /\ state = [t \in Threads |-> "none"]
        /\ pc = [a \in Agents |-> "out"] /\ cur = [a \in Agents |-> None]
        /\ to = [a \in Agents |-> None] /\ end = [a \in Agents |-> "keep"]

Goto(a, l) == pc' = [pc EXCEPT ![a] = l]
Return(a) == Goto(a, "out") /\ cur' = [cur EXCEPT ![a] = None]

\* unit_to_thread; the map is not looked at before there is a user-defined pool.
unit_to_thread(u) == IF u = None \/ num_user_pools = 0 \/ u \notin Units THEN None ELSE units[u]

any_unit_to_thread(u) == IF unit_to_thread(u) # None THEN unit_to_thread(u) ELSE u

\* thread_to_unit, ABT_thread_get_unit.
thread_to_unit(t) == IF pool[t] \in Users THEN unit[t] ELSE t

pinned_elsewhere(a, t) == t = Primary /\ a # Home

-----------------------------------------------------------------------------
\* ABT_pool_create of a user-defined pool; a failing p_init leaves nothing behind.
pool_create(q) ==
  /\ q \notin live /\ num_user_pools < MaxPools /\ live' = live \cup {q}
  /\ num_user_pools' = num_user_pools + 1
  /\ UNCHANGED <<pool, unit, units, heap, content, state, pc, cur, to, end>>

\* ABT_pool_free, ABTI_pool_destroy: num_user_pools stays.
pool_destroy(q) ==
  /\ q \in live \ {Fifo} /\ content[q] = <<>> /\ \A t \in Threads : pool[t] # q
  /\ \A a \in Agents : pc[a] # "out" => to[a] # q
  /\ live' = live \ {q}
  /\ UNCHANGED <<num_user_pools, pool, unit, units, heap, content, state, pc, cur, to, end>>

\* ABTI_pool_associate, called by ABT_thread_create, ABT_pool_push,
\* ABT_pool_push_thread, ABT_thread_set_associated_pool and by a wake that
\* carries out a migration; and the ABTI_pool_disassociate of ABT_thread_free.
pool_associate(a, t, p, e) ==
  /\ pc[a] = "out" /\ p \in live /\ \A b \in Agents : cur[b] # t
  /\ \/ state[t] = "held"
     \/ state[t] = "none" /\ e = "push"
  /\ state' = [state EXCEPT ![t] = "held"]
  /\ cur' = [cur EXCEPT ![a] = t] /\ to' = [to EXCEPT ![a] = p] /\ end' = [end EXCEPT ![a] = e]
  /\ Goto(a, IF pool[t] = p /\ e # "free" THEN e
             ELSE IF pool[t] \in Users /\ unit[t] # None THEN "erase" ELSE "clear")
  /\ UNCHANGED <<num_user_pools, live, pool, unit, units, heap, content>>

\* Variant: the unit is freed before it is taken out of the map.
VariantForget(a) ==
  /\ \/ /\ pc[a] = "erase" /\ heap' = heap \ {unit[cur[a]]}
        /\ Goto(a, "u_free") /\ UNCHANGED units
     \/ /\ pc[a] = "u_free" /\ units' = [units EXCEPT ![unit[cur[a]]] = None]
        /\ Goto(a, "clear") /\ UNCHANGED heap
  /\ UNCHANGED <<num_user_pools, live, pool, unit, content, state, cur, to, end>>

\* ABTI_pool_disassociate: the unit leaves the map, under um, and is then freed ...
Forget(a) ==
  /\ \/ /\ pc[a] = "erase" /\ units' = [units EXCEPT ![unit[cur[a]]] = None]
        /\ Goto(a, "u_free") /\ UNCHANGED heap
     \/ /\ pc[a] = "u_free" /\ heap' = heap \ {unit[cur[a]]}
        /\ Goto(a, "clear") /\ UNCHANGED units
  /\ UNCHANGED <<num_user_pools, live, pool, unit, content, state, cur, to, end>>

\* ... and the thread has no pool; unless it is freed it gets the new one.
disassociate(a) ==
  /\ pc[a] = "clear"
  /\ unit' = [unit EXCEPT ![cur[a]] = None]
  /\ pool' = [pool EXCEPT ![cur[a]] = IF end[a] = "free" THEN None ELSE to[a]]
  /\ Goto(a, IF end[a] = "free" \/ to[a] = Fifo THEN end[a] ELSE "u_create")
  /\ UNCHANGED <<num_user_pools, live, units, heap, content, state, cur, to, end>>

\* u_create_from_thread gives any address that is not in use.
u_create_from_thread(a) ==
  /\ pc[a] = "u_create"
  /\ \E u \in Units \ heap : heap' = heap \cup {u} /\ unit' = [unit EXCEPT ![cur[a]] = u]
  /\ Goto(a, "enter")
  /\ UNCHANGED <<num_user_pools, live, pool, units, content, state, cur, to, end>>

Enter(a) ==
  /\ pc[a] = "enter" /\ units' = [units EXCEPT ![unit[cur[a]]] = cur[a]]
  /\ Goto(a, end[a])
  /\ UNCHANGED <<num_user_pools, live, pool, unit, heap, content, state, cur, to, end>>

\* What the call ends with: the push, the release of the descriptor, or nothing.
Finish(a) ==
  /\ pc[a] \in {"push", "free", "keep"} /\ Return(a)
  /\ content' = IF pc[a] = "push" THEN [content EXCEPT ![to[a]] = Append(@, thread_to_unit(cur[a]))] ELSE content
  /\ state' = [state EXCEPT ![cur[a]] = CASE pc[a] = "push" -> "in" [] pc[a] = "free" -> "none" [] OTHER -> "held"]
  /\ UNCHANGED <<num_user_pools, live, pool, unit, units, heap, to, end>>

-----------------------------------------------------------------------------
\* ABTI_pool::pop of a user-defined pool: p_pop, the first or the second one, takes
\* a unit ...
pool_pop(a, q) ==
  /\ pc[a] = "out" \/ (pc[a] = "back" /\ to[a] = q)
  /\ q \in live \ {Fifo} /\ content[q] # <<>>
  /\ content' = [content EXCEPT ![q] = Tail(@)]
  /\ cur' = [cur EXCEPT ![a] = Head(content[q])] /\ to' = [to EXCEPT ![a] = q]
  /\ Goto(a, IF pc[a] = "out" THEN "popped" ELSE "again")
  /\ UNCHANGED <<num_user_pools, live, pool, unit, units, heap, state, end>>

\* ... whose thread is looked up under um.  A thread of another PE is put back, and
\* the pop tried again, once.
Popped(a) ==
  /\ pc[a] \in {"popped", "again"}
  /\ LET t == unit_to_thread(cur[a]) IN
       IF ~pinned_elsewhere(a, t)
       THEN /\ state' = IF t = None THEN state ELSE [state EXCEPT ![t] = "held"]
            /\ Goto(a, "out") /\ UNCHANGED content
       ELSE /\ content' = [content EXCEPT ![to[a]] = Append(@, cur[a])]
            /\ Goto(a, IF pc[a] = "popped" THEN "back" ELSE "out") /\ UNCHANGED state
  /\ cur' = [cur EXCEPT ![a] = None]
  /\ UNCHANGED <<num_user_pools, live, pool, unit, units, heap, to, end>>

\* The second p_pop finds the pool empty.
PopNothing(a) ==
  /\ pc[a] = "back" /\ content[to[a]] = <<>> /\ Return(a)
  /\ UNCHANGED <<obj, to, end>>

\* pop of the built-in pool, as ImplementsPool says; ABT_pool_remove of either.
Take(a, p, x) ==
  /\ pc[a] = "out"
  /\ \E n \in 1..Len(content[p]) : content[p][n] = x /\ content' = [content EXCEPT ![p] = Without(@, n)]
  /\ state' = [state EXCEPT ![any_unit_to_thread(x)] = "held"]
  /\ UNCHANGED <<num_user_pools, live, pool, unit, units, heap, pc, cur, to, end>>

Step(a) == Forget(a) \/ disassociate(a) \/ u_create_from_thread(a) \/ Enter(a) \/ Finish(a) \/ Popped(a) \/ PopNothing(a)

Next == \/ \E q \in Users : pool_create(q) \/ pool_destroy(q)
        \/ \E a \in Agents : \/ \E t \in Threads, p \in Pools, e \in {"push", "keep", "free"} : pool_associate(a, t, p, e)
                             \/ \E q \in Users : pool_pop(a, q)
                             \/ \E p \in Pools, x \in Threads \cup Units : Take(a, p, x)
                             \/ Step(a)

Spec == Init /\ [][Next]_vars

-----------------------------------------------------------------------------
\* The state has its types.
TypeOK ==
  /\ num_user_pools \in 0..MaxPools /\ live \subseteq Pools
  /\ pool \in [Threads -> Pools \cup {None}] /\ unit \in [Threads -> Units \cup {None}]
  /\ units \in [Units -> Threads \cup {None}] /\ heap \subseteq Units
  /\ content \in [Pools -> Seq(Threads \cup Units)] /\ state \in [Threads -> {"none", "held", "in"}]
  /\ pc \in [Agents -> {"out", "erase", "u_free", "clear", "u_create", "enter", "push", "free", "keep", "popped", "back", "again"}]
  /\ cur \in [Agents -> Threads \cup Units \cup {None}] /\ to \in [Agents -> Pools \cup {None}]

\* The agent that works on t, and the place where it is.
At(t, places) == \E a \in Agents : cur[a] = t /\ pc[a] \in places

\* The map is the inverse of the threads' units: a unit of the map is that of the
\* thread it leads to and is allocated, and a thread's unit is in the map except
\* between its erase and its free and between its creation and its entry
\* (pool.cpp:219-242).
MapIsInverse ==
  /\ \A u \in Units : units[u] # None => unit[units[u]] = u /\ u \in heap /\ pool[units[u]] \in Users
  /\ \A t \in Threads : pool[t] \in Users /\ ~At(t, {"u_free", "clear", "u_create", "enter"}) => units[unit[t]] = t

\* Every unit that a u_create_from_thread gave is one thread's until its u_free:
\* none is leaked, shared or freed twice (pool.cpp:219-242).
UnitsOwned ==
  \A u \in Units :
    Cardinality({t \in Threads : unit[t] = u /\ ~At(t, {"clear"})}) = IF u \in heap THEN 1 ELSE 0

\* Whatever is in a user-defined pool, or was popped from one and is being looked
\* up, leads to the thread that was pushed, which is of that pool
\* (pool.cpp:14-20, 139-152, 389-396).
UnitsResolve ==
  /\ \A p \in Pools : \A n \in 1..Len(content[p]) :
       LET t == any_unit_to_thread(content[p][n]) IN
         t \in Threads /\ thread_to_unit(t) = content[p][n] /\ pool[t] = p /\ state[t] = "in"
  /\ \A a \in Agents : pc[a] \in {"popped", "again"} => unit_to_thread(cur[a]) # None

\* The map of units is the inverse of the threads' units, every unit that was created
\* is one thread's until it is freed, and what is in a user-defined pool or was popped
\* from one leads to the thread that was pushed (pool.cpp:14-20, 139-152, 219-242).
UnitMapExact == TypeOK /\ MapIsInverse /\ UnitsOwned /\ UnitsResolve
=============================================================================
