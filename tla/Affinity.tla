------------------------------ MODULE Affinity ------------------------------
(***************************************************************************)
(* What is sent to a PE and run there (xstream.cpp): the lease of an       *)
(* xstream, the binding of its thread to a CPU, and the function an        *)
(* external thread has run on a worker (ABTI_run_on_pe).  A PE takes its   *)
(* messages in the order they were pushed.                                 *)
(***************************************************************************)
EXTENDS Integers, Sequences, Functions

CONSTANTS PEs,      \* the ranks; 0 is the primary
          Ext,      \* external threads
          Cpus,     \* the CPUs of the machine
          Process,  \* the ones the operating system lets the process use
          Lists,    \* the lists of ids given to ABT_xstream_set_affinity
          MaxQueue, \* bound on a PE's pending messages
          None

VARIABLES xs,     \* the xstream of each rank, None for a free PE
          queue,  \* the messages pushed to each PE
          mask,   \* the CPUs the thread of each PE may run on
          setter, \* who is between storing cpubind and sending the message, for which xstream
          run,    \* the call of ABTI_run_on_pe of each external thread
          doing   \* whose function the worker is running

vars == <<xs, queue, mask, setter, run, doing>>

\* by_list: the binding comes from ABT_xstream_set_affinity.
NoXstream == [cpubind |-> -1, affinity |-> <<>>, leased |-> FALSE, by_list |-> FALSE]
Callers == PEs \cup Ext

Init == /\ xs = [r \in PEs |-> IF r = 0 THEN [NoXstream EXCEPT !.leased = TRUE] ELSE None]
        /\ queue = [r \in PEs |-> <<>>]
        /\ mask = [r \in PEs |-> Process]
        /\ setter = [c \in Callers |-> None]
        /\ run = [e \in Ext |-> "none"] /\ doing = None

CmiPushPE(r, m) == queue' = [queue EXCEPT ![r] = Append(@, m)]
Room(r) == Len(queue[r]) < MaxQueue
BeingSet == {setter[c].rank : c \in {d \in Callers : setter[d] # None}}

\* Code runs on a PE with an xstream that runs; an external thread runs anywhere the
\* process may.
Runs(c) == IF c \in Ext THEN run[c] = "none" ELSE xs[c] # None /\ xs[c].leased

\* sched_getaffinity(0, ...): the CPUs of the calling thread.
getaffinity(c) == IF c \in Ext THEN Process ELSE mask[c]

\* ABT_xstream_create of a free rank.
xstream_create(r) ==
  /\ xs[r] = None /\ Room(r)
  /\ xs' = [xs EXCEPT ![r] = NoXstream]
  /\ CmiPushPE(r, [op |-> "lease"])
  /\ UNCHANGED <<mask, setter, run, doing>>

\* ABT_xstream_free of a joined xstream; messages about the binding may be pending.
xstream_free(r) ==
  /\ r # 0 /\ xs[r] # None /\ xs[r].leased /\ doing = None
  /\ r \notin BeingSet /\ setter[r] = None
  /\ xs' = [xs EXCEPT ![r] = None]
  /\ UNCHANGED <<queue, mask, setter, run, doing>>

\* One thread at a time sets the binding of an xstream.
MaySet(c, r) == Runs(c) /\ setter[c] = None /\ xs[r] # None /\ Room(r) /\ r \notin BeingSet

\* ABT_xstream_set_cpubind up to the assignment, of an xstream whose list is `list'.
Bind(c, r, cpu, list, by_list) ==
  IF cpu \in getaffinity(c)
  THEN /\ xs' = [xs EXCEPT ![r].cpubind = cpu, ![r].affinity = list, ![r].by_list = by_list]
       /\ setter' = [setter EXCEPT ![c] = [rank |-> r, cpu |-> cpu]]
  ELSE /\ xs' = [xs EXCEPT ![r].affinity = list, ![r].by_list = @ /\ ~by_list]
       /\ UNCHANGED setter

set_cpubind(c, r, cpu) ==
  /\ MaySet(c, r)
  /\ Bind(c, r, cpu, xs[r].affinity, FALSE)
  /\ UNCHANGED <<queue, mask, run, doing>>

\* The first id of the list that is allowed, else the first one.
Chosen(c, l) == LET ok == SelectSeq(l, LAMBDA p : p \in getaffinity(c)) IN IF ok = <<>> THEN l[1] ELSE ok[1]

set_affinity(c, r, l) ==
  /\ MaySet(c, r)
  /\ IF l = <<>>
     THEN xs' = [xs EXCEPT ![r].affinity = l, ![r].by_list = FALSE] /\ UNCHANGED setter
     ELSE Bind(c, r, Chosen(c, l), l, TRUE)
  /\ UNCHANGED <<queue, mask, run, doing>>

\* Variant: the id is left out.
VariantMessage(s) == [op |-> "affinity", cpu |-> -1]

\* What the message says.
Message(s) == [op |-> "affinity", cpu |-> s.cpu]

\* send_pe_msg of ABT_xstream_set_cpubind.
send_pe_msg(c) ==
  /\ setter[c] # None /\ Room(setter[c].rank)
  /\ CmiPushPE(setter[c].rank, Message(setter[c]))
  /\ setter' = [setter EXCEPT ![c] = None]
  /\ UNCHANGED <<xs, mask, run, doing>>

\* ABTI_run_on_pe pushes to a worker, if there is one, and waits.
Worker == IF 1 \in PEs THEN 1 ELSE 0
run_on_pe(e) ==
  /\ run[e] = "none" /\ setter[e] = None /\ Room(Worker)
  /\ CmiPushPE(Worker, [op |-> "run", ext |-> e])
  /\ run' = [run EXCEPT ![e] = "waits"]
  /\ UNCHANGED <<xs, mask, setter, doing>>

\* A PE between two units takes a message.
Takes(r, op) == /\ queue[r] # <<>> /\ Head(queue[r]).op = op /\ setter[r] = None
                /\ r = Worker => doing = None
                /\ queue' = [queue EXCEPT ![r] = Tail(@)]

\* What the lease leaves of the binding.
Leased(r) == IF xs[r].cpubind >= 0 THEN [mask EXCEPT ![r] = {xs[r].cpubind}] ELSE mask

lease_handler(r) ==
  /\ Takes(r, "lease")
  /\ xs' = [xs EXCEPT ![r].leased = TRUE]
  /\ mask' = Leased(r)
  /\ UNCHANGED <<setter, run, doing>>

affinity_handler(r) ==
  /\ Takes(r, "affinity")
  /\ mask' = IF Head(queue[r]).cpu >= 0 THEN [mask EXCEPT ![r] = {Head(queue[r]).cpu}] ELSE mask
  /\ UNCHANGED <<xs, setter, run, doing>>

\* run_handler runs the function, then stores into the caller's frame.
run_handler ==
  /\ Takes(Worker, "run")
  /\ doing' = Head(queue[Worker]).ext
  /\ UNCHANGED <<xs, mask, setter, run>>
RunDone ==
  /\ doing # None
  /\ run' = [run EXCEPT ![doing] = "done"] /\ doing' = None
  /\ UNCHANGED <<xs, queue, mask, setter>>

\* The caller sees `done' and returns, and its frame is gone.
Return(e) == /\ run[e] = "done" /\ run' = [run EXCEPT ![e] = "none"]
             /\ UNCHANGED <<xs, queue, mask, setter, doing>>

Next == \/ \E r \in PEs : xstream_create(r) \/ xstream_free(r) \/ lease_handler(r) \/ affinity_handler(r)
        \/ \E c \in Callers, r \in PEs, cpu \in Cpus : set_cpubind(c, r, cpu)
        \/ \E c \in Callers, r \in PEs, l \in Lists : set_affinity(c, r, l)
        \/ \E c \in Callers : send_pe_msg(c)
        \/ \E e \in Ext : run_on_pe(e) \/ Return(e)
        \/ run_handler \/ RunDone

Spec == Init /\ [][Next]_vars

\* ABT_xstream_get_cpubind, the first of the CPUs of an unbound thread, and
\* ABT_xstream_get_affinity.
os_affinity(r) == mask[r]
get_cpubind(r) == IF xs[r].cpubind >= 0 THEN {xs[r].cpubind} ELSE {CHOOSE c \in os_affinity(r) : \A d \in os_affinity(r) : c <= d}
get_affinity(r) == IF xs[r].affinity # <<>> THEN Range(xs[r].affinity) ELSE os_affinity(r)

\* Types.
TypeOK ==
  /\ \A r \in PEs : /\ xs[r] # None => xs[r].cpubind \in Cpus \cup {-1}
                    /\ Len(queue[r]) <= MaxQueue /\ mask[r] \subseteq Cpus
  /\ doing \in Ext \cup {None}
  /\ \A e \in Ext : run[e] \in {"none", "waits", "done"}

\* Nothing for rank r is on its way.
Settled(r) == queue[r] = <<>> /\ r \notin BeingSet

\* Once the messages are handled a PE runs where its xstream says it does, and there
\* only if it was bound, also when it was bound before the lease arrived or while
\* messages of the last xstream of the rank were pending (xstream.cpp:160-175, 457-497).
BoundAsTold ==
  \A r \in PEs : xs[r] # None /\ Settled(r) =>
    get_cpubind(r) \subseteq mask[r] /\ (xs[r].cpubind >= 0 => mask[r] = get_cpubind(r))

\* A list that was set tells where the PE runs, unless it was refused or the xstream
\* was bound by ABT_xstream_set_cpubind since (xstream.cpp:498-527).
ListTold ==
  \A r \in PEs : xs[r] # None /\ Settled(r) /\ xs[r].by_list => mask[r] \subseteq get_affinity(r)

\* No thread is bound to a CPU the process may not use (xstream.cpp:460-466, 501-514).
StaysAllowed == \A r \in PEs : mask[r] \subseteq Process

\* The handler stores `done' into a frame that is still there: as long as the message
\* is pending or the function runs, the caller waits (xstream.cpp:136-150).
FrameLives ==
  \A e \in Ext : doing = e \/ [op |-> "run", ext |-> e] \in Range(queue[Worker]) => run[e] = "waits"
=============================================================================
