---------------------------- MODULE RuntimeProofs ----------------------------
(***************************************************************************)
(* Proofs about the runtime of a process, its settings and its PEs: of     *)
(* ProcessRuntime, for any number of processes, that an initialized        *)
(* process has its PE threads, that the nesting of init and finalize is    *)
(* counted exactly and that the runtime is torn down once; of NumPes, the  *)
(* number of PEs and the default stack size for every long, every answer   *)
(* of sysconf and every environment; of Affinity, what reaches a PE by     *)
(* message, for any PEs, external threads, CPUs and lists.                 *)
(***************************************************************************)
EXTENDS ProcessRuntime, Integers, Sequences, TLAPS

USE Zenon

CONSTANTS LongMax, Cores, Values, StackValues, Floor, StackDefault
VARIABLES cores, num_pes_var, max_xstreams_var, stack_var, num_pes, stacksize

Pes == INSTANCE NumPes

CONSTANTS PEs, Ext, Cpus, Process, Lists, MaxQueue, None
VARIABLES xs, queue, mask, setter, run, doing

Aff == INSTANCE Affinity

\* The types that the proofs use.
Types ==
  /\ life \in [Procs -> {"none", "alive", "exiting", "gone"}]
  /\ has_g \subseteq Procs /\ init \subseteq Procs /\ started \subseteq Procs /\ threads \subseteq Procs
  /\ refs \in [Procs -> Nat] /\ users \in [Procs -> Nat]
  /\ pid \in [Procs -> Procs \cup {NoPid}] /\ atexits \in [Procs -> Nat]

\* A process that does not exist has nothing, and nobody's runtime is that of one:
\* the process id a child inherits is never its own.
Fresh(p) == life[p] = "none" =>
  /\ p \notin has_g /\ p \notin init /\ p \notin started /\ p \notin threads
  /\ users[p] = 0 /\ refs[p] = 0
  /\ \A q \in Procs : pid[q] # p

\* What a living process knows of its runtime: it has one if it has ABTI_g, the one
\* it started has its threads, and it is initialized only on its own.
Own(p) == life[p] = "alive" =>
  /\ p \in has_g => p \in started
  /\ pid[p] = p => p \in threads
  /\ p \in init => p \in has_g /\ pid[p] = p
  /\ users[p] = refs[p] /\ (users[p] > 0 <=> p \in init)

\* g_runtime_pid is set with g_runtime_started.
Known(p) == p \in started => pid[p] # NoPid

IInv == Types /\ \A p \in Procs : Fresh(p) /\ Own(p) /\ Known(p)

-----------------------------------------------------------------------------
LEMMA InitIInv == Init => IInv
  BY RuntimeAssumption, SMTT(30) DEF Init, IInv, Types, Fresh, Own, Known, NoPid

LEMMA StepInit == ASSUME IInv, NEW p \in Procs, ABT_init(p) PROVE IInv'
<1>1. CASE p \in init
  BY <1>1, RuntimeAssumption, SMTT(30) DEF IInv, Types, Fresh, Own, Known, ABT_init
<1>2. CASE p \notin init /\ (p \notin has_g \/ Forked(p))
  BY <1>2, RuntimeAssumption, SMTT(30) DEF IInv, Types, Fresh, Own, Known, ABT_init, start_runtime
<1>3. CASE p \notin init /\ ~(p \notin has_g \/ Forked(p))
  BY <1>3, RuntimeAssumption, SMTT(30) DEF IInv, Types, Fresh, Own, Known, ABT_init, Forked
<1> QED
  BY <1>1, <1>2, <1>3

LEMMA StepFinalize == ASSUME IInv, NEW p \in Procs, ABT_finalize(p) PROVE IInv'
  BY RuntimeAssumption, SMTT(30) DEF IInv, Types, Fresh, Own, Known, ABT_finalize

LEMMA StepFork == ASSUME IInv, NEW p \in Procs, NEW q \in Procs, Fork(p, q) PROVE IInv'
<1>1. p # q /\ pid[p] # q /\ pid[p] \in Procs \cup {NoPid}
  BY DEF IInv, Types, Fresh, Fork
<1>2. Types'
  BY DEF IInv, Types, Fork
<1>3. \A r \in Procs : Fresh(r)'
  BY <1>1, RuntimeAssumption, SMTT(30) DEF IInv, Types, Fresh, Own, Fork
<1>4. \A r \in Procs : Own(r)'
  BY <1>1, SMTT(30) DEF IInv, Types, Fresh, Own, Fork
<1>5. \A r \in Procs : Known(r)'
  BY <1>1 DEF IInv, Types, Fresh, Known, Fork
<1> QED
  BY <1>2, <1>3, <1>4, <1>5 DEF IInv

LEMMA StepEnd == ASSUME IInv, NEW p \in Procs, Exit(p) \/ shutdown_runtime(p) \/ Gone(p) PROVE IInv'
<1>1. CASE Exit(p)
  BY <1>1, SMTT(30) DEF IInv, Types, Fresh, Own, Known, Exit
<1>2. CASE shutdown_runtime(p)
  BY <1>2, SMTT(30) DEF IInv, Types, Fresh, Own, Known, shutdown_runtime
<1>3. CASE Gone(p)
  BY <1>3, SMTT(30) DEF IInv, Types, Fresh, Own, Known, Gone
<1> QED
  BY <1>1, <1>2, <1>3

LEMMA StepIInv == IInv /\ [Next]_vars => IInv'
<1> SUFFICES ASSUME IInv, [Next]_vars PROVE IInv'
  OBVIOUS
<1>1. CASE UNCHANGED vars
  BY <1>1 DEF vars, IInv, Types, Fresh, Own, Known
<1> QED
  BY <1>1, StepInit, StepFinalize, StepFork, StepEnd DEF Next

LEMMA Invariance == Spec => []IInv
  BY InitIInv, StepIInv, PTL DEF Spec

-----------------------------------------------------------------------------
\* An initialized process, a child that forked after the last ABT_finalize included,
\* has the PE threads that its execution streams need (init.cpp:124-131).
THEOREM InitAlwaysLive == Spec => []InitIsLive
<1>1. IInv => InitIsLive
  BY DEF IInv, Types, Own, InitIsLive
<1> QED
  BY <1>1, Invariance, PTL

\* Argobots stays initialized until as many finalizes as inits were made
\* (init.cpp:123, 170).
THEOREM NestingCounted == Spec => []UsersAreServed
<1>1. IInv => UsersAreServed
  BY DEF IInv, Own, UsersAreServed
<1> QED
  BY <1>1, Invariance, PTL

\* The runtime is torn down at most once in a process, while its PE threads are
\* there, if a child that never calls ABT_init leaves with _exit or exec
\* (init.cpp:83-96, 109-113).
THEOREM SingleTeardown == ASSUME ~PlainExit PROVE Spec => []TornDownOnce
<1> DEFINE Ending == \A p \in Procs : life[p] = "exiting" /\ p \in started => p \in threads
           J == TornDownOnce /\ Ending
<1>1. Init => J
  BY DEF Init, TornDownOnce
<1>2. J /\ IInv /\ [Next]_vars => J'
  <2> SUFFICES ASSUME J, IInv, [Next]_vars PROVE J'
    OBVIOUS
  <2>1. ASSUME NEW p \in Procs, ABT_init(p) PROVE J'
    BY <2>1 DEF ABT_init, start_runtime, TornDownOnce, IInv, Types
  <2>2. ASSUME NEW p \in Procs, ABT_finalize(p) PROVE J'
    BY <2>2 DEF ABT_finalize, TornDownOnce
  <2>3. ASSUME NEW p \in Procs, NEW q \in Procs, Fork(p, q) PROVE J'
    BY <2>3 DEF Fork, TornDownOnce, IInv, Types
  <2>4. ASSUME NEW p \in Procs, Exit(p) PROVE J'
    BY <2>4 DEF Exit, TornDownOnce, IInv, Types, Own, Known
  <2>5. ASSUME NEW p \in Procs, shutdown_runtime(p) PROVE J'
    BY <2>5 DEF shutdown_runtime, TornDownOnce, IInv, Types
  <2>6. ASSUME NEW p \in Procs, Gone(p) PROVE J'
    BY <2>6 DEF Gone, TornDownOnce, IInv, Types
  <2>7. CASE UNCHANGED vars
    BY <2>7 DEF vars, TornDownOnce
  <2> QED
    BY <2>1, <2>2, <2>3, <2>4, <2>5, <2>6, <2>7 DEF Next
<1> QED
  BY <1>1, <1>2, Invariance, PTL DEF Spec

LEMMA TypesStep == ASSUME IInv, TypeOK, [Next]_vars PROVE TypeOK'
<1>1. ASSUME NEW p \in Procs, ABT_init(p) PROVE TypeOK'
  <2>1. life[p] = "alive" /\ users[p] < MaxRefs /\ users[p] = refs[p] /\ MaxRefs \in Nat
    BY <1>1, RuntimeAssumption DEF ABT_init, IInv, Own
  <2>2. users' \in [Procs -> 0..MaxRefs] /\ refs' \in [Procs -> 0..MaxRefs]
    BY <1>1, <2>1, SMTT(30) DEF ABT_init, TypeOK
  <2> QED
    BY <1>1, <2>2, RuntimeAssumption, SMTT(30) DEF ABT_init, start_runtime, TypeOK, IInv, Types
<1>2. ASSUME NEW p \in Procs, ABT_finalize(p) PROVE TypeOK'
  <2>1. users' \in [Procs -> 0..MaxRefs] /\ refs' \in [Procs -> 0..MaxRefs]
    BY <1>2, RuntimeAssumption, SMTT(30) DEF ABT_finalize, TypeOK
  <2> QED
    BY <1>2, <2>1 DEF ABT_finalize, TypeOK
<1>3. ASSUME NEW p \in Procs, NEW q \in Procs, Fork(p, q) PROVE TypeOK'
  BY <1>3 DEF Fork, TypeOK
<1>4. ASSUME NEW p \in Procs, Exit(p) \/ Gone(p) PROVE TypeOK'
  BY <1>4 DEF Exit, Gone, TypeOK
<1>5. ASSUME NEW p \in Procs, shutdown_runtime(p) PROVE TypeOK'
  BY <1>5, SMTT(30) DEF shutdown_runtime, TypeOK
<1>6. CASE UNCHANGED vars
  BY <1>6 DEF vars, TypeOK
<1> QED
  BY <1>1, <1>2, <1>3, <1>4, <1>5, <1>6 DEF Next

\* The runtime over the life of processes that fork: an initialized process has its
\* PE threads, the nesting of init and finalize is counted, and the runtime is torn
\* down once (init.cpp:83-131, 167-178), under the hypothesis of SingleTeardown.
THEOREM RuntimeAlwaysKept == ASSUME ~PlainExit PROVE Spec => []RuntimeKept
<1>1. Init => TypeOK
  BY RuntimeAssumption, SMTT(30) DEF Init, TypeOK
<1>2. IInv /\ TypeOK /\ [Next]_vars => TypeOK'
  BY TypesStep
<1>3. TypeOK /\ InitIsLive /\ TornDownOnce /\ UsersAreServed => RuntimeKept
  BY DEF RuntimeKept
<1> QED
  BY <1>1, <1>2, <1>3, Invariance, InitAlwaysLive, NestingCounted, SingleTeardown, PTL DEF Spec

-----------------------------------------------------------------------------
\* The settings.

Longs == (-LongMax - 1)..LongMax

Inputs == cores \in Int /\ num_pes_var \in Pes!Var /\ max_xstreams_var \in Pes!Var /\ num_pes \in Int

\* Min of FiniteSetsExt, for two numbers.
LEMMA MinOfTwo ==
  ASSUME NEW a \in Int, NEW b \in Int
  PROVE  Pes!Min({a, b}) = IF a <= b THEN a ELSE b
<1> DEFINE m == IF a <= b THEN a ELSE b
<1>1. m \in {a, b} /\ \A y \in {a, b} : m <= y
  BY SMTT(30)
<1>2. \A x \in {a, b} : (\A y \in {a, b} : x <= y) => x = m
  BY SMTT(30)
<1>3. QED
  BY <1>1, <1>2 DEF Pes!Min

\* A variable that counts is a long greater than 0, else the default.
LEMMA EnvLong ==
  ASSUME LongMax \in Nat, Values \subseteq Longs, NEW v \in Pes!Var, NEW dflt \in Int
  PROVE  /\ Pes!env_long(v, dflt) \in Longs \cup {dflt}
         /\ Pes!env_long(v, dflt) # dflt => Pes!env_long(v, dflt) > 0
         /\ v.kind = "whole" /\ v.x > 0 => Pes!env_long(v, dflt) = v.x
<1>1. v.kind = "whole" => v.x \in Values
  BY SMTT(30) DEF Pes!Var, Pes!Unset
<1>2. v.kind = "whole" => v.x \in Longs
  BY <1>1
<1>3. QED
  BY <1>2 DEF Pes!env_long, Longs

\* What a step computes, whatever maxx + 1 overflows to.
LEMMA RuleInRange ==
  ASSUME LongMax \in Nat, Values \subseteq Longs, Inputs, Pes!num_pes_rule
  PROVE  num_pes' \in 2..256
<1>1. \A n \in Int : Pes!Clamp(n) \in 2..256
  BY SMTT(30) DEF Pes!Clamp
<1>2. Pes!AtLeastOne(cores) \in Int
  BY SMTT(30) DEF Pes!AtLeastOne, Inputs
<1>3. Pes!env_long(num_pes_var, 0) \in Int /\ Pes!env_long(max_xstreams_var, 0) \in Int
  BY EnvLong, SMTT(30) DEF Inputs, Longs
<1>4. Pes!Secondaries(Pes!env_long(max_xstreams_var, 0)) \subseteq Int
  BY <1>3, SMTT(30) DEF Pes!Secondaries
<1>5. QED
  BY <1>1, <1>2, <1>3, <1>4, SMTT(30) DEF Pes!num_pes_rule

\* A step that is not asked for a number of PEs takes ABT_MAX_NUM_XSTREAMS and the
\* primary execution stream, as far as 256 PEs go.
LEMMA RuleGivesEnough ==
  ASSUME LongMax \in Nat, Values \subseteq Longs, Inputs, Pes!num_pes_rule
  PROVE  Pes!EnoughPEs'
<1> DEFINE m == max_xstreams_var
<1>1. UNCHANGED <<max_xstreams_var, num_pes_var>>
  BY DEF Pes!num_pes_rule
<1>2. SUFFICES ASSUME m.kind = "whole", m.x \in 1..(LongMax-1), Pes!env_long(num_pes_var, 0) = 0
               PROVE  num_pes' - 1 >= Pes!Min({m.x, 255})
  BY <1>1 DEF Pes!EnoughPEs, Pes!env_long
<1>3. Pes!env_long(m, 0) = m.x
  BY <1>2, EnvLong, SMTT(30) DEF Inputs
<1>4. Pes!Secondaries(m.x) = {IF m.x + 1 < 16 THEN 16 ELSE m.x + 1}
  BY <1>2, SMTT(30) DEF Pes!Secondaries
<1>5. num_pes' \in {Pes!Clamp(k) : k \in Pes!Secondaries(m.x)}
  BY <1>2, <1>3, SMTT(30) DEF Pes!num_pes_rule
<1>6. num_pes' = Pes!Clamp(IF m.x + 1 < 16 THEN 16 ELSE m.x + 1)
  BY <1>4, <1>5
<1>7. Pes!Min({m.x, 255}) = IF m.x <= 255 THEN m.x ELSE 255
  BY <1>2, MinOfTwo, SMTT(30)
<1>8. QED
  BY <1>2, <1>6, <1>7, SMTT(30) DEF Pes!Clamp

\* The inputs stay as they are.
LEMMA InputsKept ==
  ASSUME LongMax \in Nat, Cores \subseteq Int, Values \subseteq Longs
  PROVE  Pes!Spec => []Inputs
<1>1. Pes!Init => Inputs
  BY SMTT(30) DEF Pes!Init, Inputs
<1>2. Inputs /\ [Pes!Next]_Pes!vars => Inputs'
  <2> SUFFICES ASSUME Inputs, [Pes!Next]_Pes!vars PROVE Inputs'
    OBVIOUS
  <2>1. CASE Pes!num_pes_rule
    <3>1. num_pes' \in Int
      BY <2>1, RuleInRange, SMTT(30)
    <3>2. QED
      BY <2>1, <3>1 DEF Pes!num_pes_rule, Inputs
  <2>2. CASE UNCHANGED Pes!vars
    BY <2>2 DEF Pes!vars, Inputs
  <2>3. QED
    BY <2>1, <2>2 DEF Pes!Next
<1>3. QED
  BY <1>1, <1>2, PTL DEF Pes!Spec

\* Whatever the variables hold, the overflow of long included, ABT_init starts from 2
\* to 256 PEs (init.cpp:75-77), for every width of long.
THEOREM PesAlwaysInRange ==
  ASSUME LongMax \in Nat, Cores \subseteq Int, Values \subseteq Longs
  PROVE  Pes!Spec => []Pes!PesInRange
<1>1. Pes!Init => Pes!PesInRange
  BY DEF Pes!Init, Pes!PesInRange
<1>2. Inputs /\ Pes!PesInRange /\ [Pes!Next]_Pes!vars => Pes!PesInRange'
  <2> SUFFICES ASSUME Inputs, Pes!PesInRange, [Pes!Next]_Pes!vars PROVE Pes!PesInRange'
    OBVIOUS
  <2>1. CASE Pes!num_pes_rule
    BY <2>1, RuleInRange DEF Pes!PesInRange
  <2>2. CASE UNCHANGED Pes!vars
    BY <2>2 DEF Pes!vars, Pes!PesInRange
  <2>3. QED
    BY <2>1, <2>2 DEF Pes!Next
<1>3. QED
  BY <1>1, <1>2, InputsKept, PTL DEF Pes!Spec

\* ABT_MAX_NUM_XSTREAMS secondary execution streams can be leased at once, as far as
\* 256 PEs go, for every long whose successor is one (init.cpp:57-60, 67-74).
THEOREM AlwaysEnoughPEs ==
  ASSUME LongMax \in Nat, Cores \subseteq Int, Values \subseteq Longs
  PROVE  Pes!Spec => []Pes!EnoughPEs
<1>1. Pes!Init => Pes!EnoughPEs
  BY DEF Pes!Init, Pes!EnoughPEs
<1>2. Inputs /\ Pes!EnoughPEs /\ [Pes!Next]_Pes!vars => Pes!EnoughPEs'
  <2> SUFFICES ASSUME Inputs, Pes!EnoughPEs, [Pes!Next]_Pes!vars PROVE Pes!EnoughPEs'
    OBVIOUS
  <2>1. CASE Pes!num_pes_rule
    BY <2>1, RuleGivesEnough
  <2>2. CASE UNCHANGED Pes!vars
    BY <2>2 DEF Pes!vars, Pes!EnoughPEs, Pes!env_long
  <2>3. QED
    BY <2>1, <2>2 DEF Pes!Next
<1>3. QED
  BY <1>1, <1>2, InputsKept, PTL DEF Pes!Spec

\* ABT_info_query_config tells the same default stack size before and after ABT_init,
\* at least 16384 and what the variable asks for above that (misc.cpp:130-154,
\* init.cpp:136-139).
THEOREM InfoAlwaysSteady ==
  ASSUME StackValues \subseteq Int, Floor \in Nat \ {0}, StackDefault \in Nat
  PROVE  Pes!Spec => []Pes!InfoSteady
<1> DEFINE Stored == /\ stack_var \in {Pes!Unset} \cup [kind : {"trailing", "whole"}, x : StackValues]
                     /\ num_pes # 0 => stacksize = Pes!StackInit(stack_var)
<1>1. Pes!Init => Stored
  BY DEF Pes!Init
<1>2. Stored /\ [Pes!Next]_Pes!vars => Stored'
  BY DEF Pes!Next, Pes!num_pes_rule, Pes!vars, Pes!StackInit, Pes!env_long
<1>3. Stored => Pes!InfoSteady
  <2> SUFFICES ASSUME Stored PROVE Pes!InfoSteady
    OBVIOUS
  <2>1. Pes!default_stacksize = Pes!StackInit(stack_var)
    BY DEF Pes!default_stacksize, Pes!StackInit
  <2>2. stack_var.x \in Int
    <3>1. CASE stack_var = Pes!Unset
      BY <3>1, SMTT(30) DEF Pes!Unset
    <3>2. CASE stack_var \in [kind : {"trailing", "whole"}, x : StackValues]
      BY <3>2
    <3> QED
      BY <3>1, <3>2
  <2>3. /\ Pes!StackInit(stack_var) >= Floor
        /\ stack_var.kind = "whole" /\ stack_var.x >= Floor => Pes!StackInit(stack_var) = stack_var.x
    BY <2>2, SMTT(30) DEF Pes!StackInit, Pes!env_long
  <2> QED
    BY <2>1, <2>3 DEF Pes!InfoSteady
<1> QED
  BY <1>1, <1>2, <1>3, PTL DEF Pes!Spec

-----------------------------------------------------------------------------
\* What is sent to the PEs and run there.

Xstream == [cpubind : Int, affinity : Seq(Int), leased : BOOLEAN, by_list : BOOLEAN]
Setting == [rank : PEs, cpu : Int]
Msg == [op : {"lease"}] \cup [op : {"affinity"}, cpu : Int] \cup [op : {"run"}, ext : Ext]

\* What the constants are: CPU ids are natural numbers, and None is nothing else.
AffSound ==
  /\ 0 \in PEs /\ Cpus \subseteq Nat /\ Process \subseteq Cpus /\ Lists \subseteq Seq(Int)
  /\ None \notin Ext \cup Xstream \cup Setting

AffTypes ==
  /\ xs \in [PEs -> Xstream \cup {None}]
  /\ queue \in [PEs -> Seq(Msg)]
  /\ mask \in [PEs -> SUBSET Process]
  /\ setter \in [Aff!Callers -> Setting \cup {None}]
  /\ run \in [Ext -> {"none", "waits", "done"}]
  /\ doing \in Ext \cup {None}

\* Every CPU on its way to a PE is one the process may use.
Allowed ==
  /\ \A r \in PEs : xs[r] # None => xs[r].cpubind \in Process \cup {-1}
  /\ \A c \in Aff!Callers : setter[c] # None => setter[c].cpu \in Process
  /\ \A r \in PEs : \A i \in 1..Len(queue[r]) : queue[r][i].op = "affinity" => queue[r][i].cpu \in Process

\* A lease is on its way once, to an xstream that is there and was not leased yet.
LeaseOnce ==
  \A r \in PEs : \A i \in 1..Len(queue[r]) : queue[r][i].op = "lease" =>
    /\ xs[r] # None /\ ~xs[r].leased
    /\ \A j \in 1..Len(queue[r]) : queue[r][j].op = "lease" => j = i

\* A call of ABTI_run_on_pe is in one place: in the queue, once, or on the worker; and
\* its caller waits.
RunOnce ==
  /\ \A i \in 1..Len(queue[Aff!Worker]) : queue[Aff!Worker][i].op = "run" =>
       /\ run[queue[Aff!Worker][i].ext] = "waits" /\ queue[Aff!Worker][i].ext # doing
       /\ \A j \in 1..Len(queue[Aff!Worker]) :
            queue[Aff!Worker][j].op = "run" /\ queue[Aff!Worker][j].ext = queue[Aff!Worker][i].ext => j = i
  /\ doing # None => run[doing] = "waits"

AffInv == AffTypes /\ Allowed /\ LeaseOnce /\ RunOnce

-----------------------------------------------------------------------------
\* A sequence after a push and after a pop.
LEMMA Pushed ==
  ASSUME NEW q \in Seq(Msg), NEW m \in Msg
  PROVE  /\ Append(q, m) \in Seq(Msg) /\ Len(Append(q, m)) = Len(q) + 1
         /\ \A i \in 1..Len(q) : Append(q, m)[i] = q[i]
         /\ Append(q, m)[Len(q) + 1] = m
  BY SMTT(30)

LEMMA Popped ==
  ASSUME NEW q \in Seq(Msg), q # <<>>
  PROVE  /\ Tail(q) \in Seq(Msg) /\ Len(Tail(q)) = Len(q) - 1 /\ Len(q) \in Nat \ {0}
         /\ \A i \in 1..Len(Tail(q)) : Tail(q)[i] = q[i + 1]
         /\ Head(q) = q[1] /\ Head(q) \in Msg
  BY SMTT(30)

LEMMA WorkerIsPE == ASSUME AffSound PROVE Aff!Worker \in PEs
  BY DEF AffSound, Aff!Worker

\* What the three kinds of messages are.
LEMMA Messages ==
  /\ [op |-> "lease"] \in Msg
  /\ \A c \in Int : [op |-> "affinity", cpu |-> c] \in Msg
  /\ \A e \in Ext : [op |-> "run", ext |-> e] \in Msg
  /\ \A m \in Msg : m.op = "run" => m.ext \in Ext /\ m = [op |-> "run", ext |-> m.ext]
  /\ \A m \in Msg : m.op = "affinity" => m.cpu \in Int
  BY SMTT(30) DEF Msg

\* After a push of m to PE r a message is where it was, or is m and the last one.
LEMMA PushAdds ==
  ASSUME AffSound, AffInv, NEW r \in PEs, NEW m \in Msg, Aff!CmiPushPE(r, m)
  PROVE  /\ queue' \in [PEs -> Seq(Msg)]
         /\ \A p \in PEs : \A i \in 1..Len(queue'[p]) :
              \/ i \in 1..Len(queue[p]) /\ queue'[p][i] = queue[p][i]
              \/ p = r /\ i = Len(queue[r]) + 1 /\ queue'[p][i] = m
<1>1. queue[r] \in Seq(Msg) /\ queue \in [PEs -> Seq(Msg)]
  BY DEF AffInv, AffTypes
<1>2. queue' = [queue EXCEPT ![r] = Append(queue[r], m)]
  BY DEF Aff!CmiPushPE
<1>3. queue'[r] = Append(queue[r], m) /\ \A p \in PEs : p # r => queue'[p] = queue[p]
  BY <1>1, <1>2
<1>4. Append(queue[r], m) \in Seq(Msg)
  BY <1>1, Pushed
<1>5. queue' \in [PEs -> Seq(Msg)]
  BY <1>1, <1>2, <1>4
<1>6. ASSUME NEW i \in 1..Len(queue'[r])
      PROVE  \/ i \in 1..Len(queue[r]) /\ queue'[r][i] = queue[r][i]
             \/ i = Len(queue[r]) + 1 /\ queue'[r][i] = m
  BY <1>1, <1>3, Pushed, SMTT(30)
<1>7. QED
  BY <1>3, <1>5, <1>6

\* After PE r has taken a message the others have moved up by one.
LEMMA TakeShifts ==
  ASSUME AffSound, AffInv, NEW r \in PEs, NEW op, Aff!Takes(r, op)
  PROVE  /\ queue' \in [PEs -> Seq(Msg)]
         /\ \A p \in PEs : p # r => queue'[p] = queue[p]
         /\ \A i \in 1..Len(queue'[r]) : i \in Int /\ i + 1 \in 1..Len(queue[r]) /\ queue'[r][i] = queue[r][i + 1]
         /\ 1 \in 1..Len(queue[r]) /\ Head(queue[r]) = queue[r][1] /\ queue[r][1].op = op /\ queue[r][1] \in Msg
<1>1. queue[r] \in Seq(Msg) /\ queue \in [PEs -> Seq(Msg)] /\ queue[r] # <<>>
  BY DEF AffInv, AffTypes, Aff!Takes
<1>2. queue' = [queue EXCEPT ![r] = Tail(queue[r])]
  BY DEF Aff!Takes
<1>3. queue'[r] = Tail(queue[r]) /\ \A p \in PEs : p # r => queue'[p] = queue[p]
  BY <1>1, <1>2
<1>4. queue' \in [PEs -> Seq(Msg)]
  BY <1>1, <1>2, Popped
<1>5. Head(queue[r]) = queue[r][1] /\ queue[r][1] \in Msg /\ 1 \in 1..Len(queue[r])
  BY <1>1, Popped, SMTT(30)
<1>6. queue[r][1].op = op
  BY <1>5 DEF Aff!Takes
<1>7. \A i \in 1..Len(queue'[r]) : i \in Int /\ i + 1 \in 1..Len(queue[r]) /\ queue'[r][i] = queue[r][i + 1]
  BY <1>1, <1>3, Popped, SMTT(30)
<1>8. QED
  BY <1>3, <1>4, <1>5, <1>6, <1>7

\* An xstream that was just created.
LEMMA Created ==
  ASSUME AffSound
  PROVE  /\ Aff!NoXstream \in Xstream /\ Aff!NoXstream.cpubind = -1 /\ ~Aff!NoXstream.leased /\ Aff!NoXstream # None
         /\ [Aff!NoXstream EXCEPT !.leased = TRUE] \in Xstream /\ [Aff!NoXstream EXCEPT !.leased = TRUE].cpubind = -1
<1>1. <<>> \in Seq(Int) /\ -1 \in Int
  BY SMTT(30)
<1>2. Aff!NoXstream \in Xstream /\ Aff!NoXstream.cpubind = -1 /\ ~Aff!NoXstream.leased
  BY <1>1 DEF Aff!NoXstream, Xstream
<1>3. QED
  BY <1>2 DEF AffSound, Xstream

-----------------------------------------------------------------------------
LEMMA InitAff == ASSUME AffSound PROVE Aff!Init => AffInv
<1> SUFFICES ASSUME Aff!Init PROVE AffInv
  OBVIOUS
<1>1. /\ Aff!NoXstream \in Xstream /\ [Aff!NoXstream EXCEPT !.leased = TRUE] \in Xstream
      /\ Aff!NoXstream.cpubind = -1 /\ [Aff!NoXstream EXCEPT !.leased = TRUE].cpubind = -1
  BY Created
<1>2. AffTypes
  BY <1>1, SMTT(30) DEF Aff!Init, AffTypes, AffSound
<1>3. \A r \in PEs : Len(queue[r]) = 0
  BY DEF Aff!Init
<1>4. Allowed
  BY <1>1, <1>3, SMTT(30) DEF Aff!Init, Allowed
<1>5. LeaseOnce /\ RunOnce
  BY <1>3, WorkerIsPE, SMTT(30) DEF Aff!Init, LeaseOnce, RunOnce
<1>6. QED
  BY <1>2, <1>4, <1>5 DEF AffInv

LEMMA StepCreate == ASSUME AffSound, AffInv, NEW r \in PEs, Aff!xstream_create(r) PROVE AffInv'
<1> DEFINE m == [op |-> "lease"]
<1>1. m \in Msg /\ m.op = "lease" /\ Aff!CmiPushPE(r, m)
  BY Messages DEF Aff!xstream_create
<1>2. queue' \in [PEs -> Seq(Msg)]
  BY <1>1, PushAdds
<1>3. \A p \in PEs : \A i \in 1..Len(queue'[p]) :
        \/ i \in 1..Len(queue[p]) /\ queue'[p][i] = queue[p][i]
        \/ p = r /\ i = Len(queue[r]) + 1 /\ queue'[p][i] = m
  BY <1>1, PushAdds, SMTT(30)
<1>4. /\ xs' = [xs EXCEPT ![r] = Aff!NoXstream] /\ xs[r] = None /\ xs \in [PEs -> Xstream \cup {None}]
      /\ mask' = mask /\ setter' = setter /\ run' = run /\ doing' = doing
  BY DEF Aff!xstream_create, AffInv, AffTypes
<1> HIDE DEF m
<1>5. AffTypes'
  BY <1>2, <1>4, Created DEF AffInv, AffTypes
<1>6. Allowed'
  <2>1. \A p \in PEs : xs'[p] # None => xs'[p].cpubind \in Process \cup {-1}
    BY <1>4, Created DEF AffInv, Allowed
  <2>2. \A p \in PEs : \A i \in 1..Len(queue'[p]) :
          queue'[p][i].op = "affinity" => queue'[p][i].cpu \in Process
    BY <1>1, <1>3 DEF AffInv, Allowed
  <2>3. QED
    BY <1>4, <2>1, <2>2 DEF AffInv, Allowed
<1>7. \A i \in 1..Len(queue[r]) : queue[r][i].op # "lease"
  BY <1>4 DEF AffInv, LeaseOnce
<1>8. LeaseOnce'
  <2> SUFFICES ASSUME NEW p \in PEs, NEW i \in 1..Len(queue'[p]), queue'[p][i].op = "lease"
               PROVE  /\ xs'[p] # None /\ ~xs'[p].leased
                      /\ \A j \in 1..Len(queue'[p]) : queue'[p][j].op = "lease" => j = i
    BY DEF LeaseOnce
  <2>1. CASE p = r
    BY <1>3, <1>4, <1>7, <2>1, Created
  <2>2. CASE p # r
    BY <1>3, <1>4, <2>2, SMTT(40) DEF AffInv, LeaseOnce
  <2>3. QED
    BY <2>1, <2>2
<1>9. RunOnce'
  BY <1>1, <1>3, <1>4, WorkerIsPE, ZenonT(40) DEF AffInv, RunOnce
<1>10. QED
  BY <1>5, <1>6, <1>8, <1>9 DEF AffInv

LEMMA StepFree == ASSUME AffSound, AffInv, NEW r \in PEs, Aff!xstream_free(r) PROVE AffInv'
<1>1. /\ xs[r] # None /\ xs[r].leased /\ xs' = [xs EXCEPT ![r] = None] /\ xs \in [PEs -> Xstream \cup {None}]
      /\ queue' = queue /\ mask' = mask /\ setter' = setter /\ run' = run /\ doing' = doing
  BY DEF Aff!xstream_free, AffInv, AffTypes
<1>2. AffTypes'
  BY <1>1 DEF AffInv, AffTypes
<1>3. Allowed'
  BY <1>1 DEF AffInv, Allowed
<1>4. \A i \in 1..Len(queue[r]) : queue[r][i].op # "lease"
  BY <1>1 DEF AffInv, LeaseOnce
<1>5. LeaseOnce'
  BY <1>1, <1>4 DEF AffInv, LeaseOnce
<1>6. RunOnce'
  BY <1>1 DEF AffInv, RunOnce
<1>7. QED
  BY <1>2, <1>3, <1>5, <1>6 DEF AffInv

\* What a call of ABT_xstream_set_cpubind or ABT_xstream_set_affinity may change.
LEMMA XstreamKept ==
  ASSUME AffSound, AffInv, NEW r \in PEs, xs[r] # None, NEW x \in Xstream,
         x.cpubind \in Process \cup {-1}, x.leased = xs[r].leased,
         xs' = [xs EXCEPT ![r] = x], UNCHANGED <<queue, mask, run, doing>>,
         setter' \in [Aff!Callers -> Setting \cup {None}],
         \A c \in Aff!Callers : setter'[c] # None => setter'[c].cpu \in Process
  PROVE  AffInv'
<1>1. x # None /\ xs \in [PEs -> Xstream \cup {None}]
  BY DEF AffSound, AffInv, AffTypes
<1>2. AffTypes'
  BY <1>1 DEF AffInv, AffTypes
<1>3. Allowed'
  BY <1>1 DEF AffInv, Allowed
<1>4. LeaseOnce'
  BY <1>1 DEF AffInv, LeaseOnce
<1>5. RunOnce'
  BY DEF AffInv, RunOnce
<1>6. QED
  BY <1>2, <1>3, <1>4, <1>5 DEF AffInv

LEMMA StepBind ==
  ASSUME AffSound, AffInv, NEW c \in Aff!Callers, NEW r \in PEs, NEW cpu, NEW list \in Seq(Int), NEW by_list \in BOOLEAN,
         xs[r] # None, Aff!Bind(c, r, cpu, list, by_list), UNCHANGED <<queue, mask, run, doing>>
  PROVE  AffInv'
<1>1. xs[r] \in Xstream /\ xs \in [PEs -> Xstream \cup {None}] /\ setter \in [Aff!Callers -> Setting \cup {None}]
      /\ xs[r].cpubind \in Process \cup {-1}
  BY DEF AffInv, AffTypes, Allowed
<1>2. Aff!getaffinity(c) \subseteq Process /\ Process \subseteq Int
  <2>1. Process \subseteq Int
    BY SMTT(30) DEF AffSound
  <2>2. mask \in [PEs -> SUBSET Process] /\ (c \in PEs \/ c \in Ext)
    BY DEF AffInv, AffTypes, Aff!Callers
  <2>3. Aff!getaffinity(c) \subseteq Process
    BY <2>2 DEF Aff!getaffinity
  <2> QED
    BY <2>1, <2>3
<1>3. CASE cpu \in Aff!getaffinity(c)
  <2> DEFINE x == [xs[r] EXCEPT !.cpubind = cpu, !.affinity = list, !.by_list = by_list]
             s == [rank |-> r, cpu |-> cpu]
  <2>1. xs' = [xs EXCEPT ![r] = x] /\ setter' = [setter EXCEPT ![c] = s]
    BY <1>1, <1>3 DEF Aff!Bind
  <2>2. x \in Xstream /\ x.cpubind = cpu /\ x.leased = xs[r].leased
    BY <1>1, <1>2, <1>3 DEF Xstream
  <2>3. s \in Setting /\ s.cpu = cpu
    BY <1>2, <1>3 DEF Setting
  <2>4. setter' \in [Aff!Callers -> Setting \cup {None}]
    BY <1>1, <2>1, <2>3
  <2>5. \A d \in Aff!Callers : setter'[d] # None => setter'[d].cpu \in Process
    BY <1>1, <1>2, <1>3, <2>1, <2>3 DEF AffInv, Allowed
  <2> HIDE DEF x, s
  <2>6. QED
    BY <1>2, <1>3, <2>1, <2>2, <2>4, <2>5, XstreamKept
<1>4. CASE cpu \notin Aff!getaffinity(c)
  <2> DEFINE x == [xs[r] EXCEPT !.affinity = list, !.by_list = @ /\ ~by_list]
  <2>1. xs' = [xs EXCEPT ![r] = x] /\ setter' = setter
    BY <1>1, <1>4 DEF Aff!Bind
  <2>2. x \in Xstream /\ x.cpubind = xs[r].cpubind /\ x.leased = xs[r].leased
    BY <1>1 DEF Xstream
  <2>3. \A d \in Aff!Callers : setter'[d] # None => setter'[d].cpu \in Process
    BY <2>1 DEF AffInv, Allowed
  <2> HIDE DEF x
  <2>4. QED
    BY <1>1, <2>1, <2>2, <2>3, XstreamKept
<1>5. QED
  BY <1>3, <1>4

LEMMA StepSet ==
  ASSUME AffSound, AffInv, NEW c \in Aff!Callers, NEW r \in PEs,
         (\E cpu \in Cpus : Aff!set_cpubind(c, r, cpu)) \/ (\E l \in Lists : Aff!set_affinity(c, r, l))
  PROVE  AffInv'
<1>1. CASE \E cpu \in Cpus : Aff!set_cpubind(c, r, cpu)
  <2>1. PICK cpu \in Cpus : Aff!set_cpubind(c, r, cpu)
    BY <1>1
  <2>2. xs[r] # None
    BY <2>1 DEF Aff!set_cpubind, Aff!MaySet
  <2>3. xs[r].affinity \in Seq(Int)
    BY <2>2 DEF AffInv, AffTypes, Xstream
  <2>4. Aff!Bind(c, r, cpu, xs[r].affinity, FALSE) /\ UNCHANGED <<queue, mask, run, doing>>
    BY <2>1 DEF Aff!set_cpubind
  <2>5. QED
    BY <2>2, <2>3, <2>4, StepBind
<1>2. CASE \E l \in Lists : Aff!set_affinity(c, r, l)
  <2>1. PICK l \in Lists : Aff!set_affinity(c, r, l)
    BY <1>2
  <2>2. xs[r] # None /\ l \in Seq(Int) /\ UNCHANGED <<queue, mask, run, doing>>
    BY <2>1 DEF Aff!set_affinity, Aff!MaySet, AffSound
  <2>3. CASE l = <<>>
    <3> DEFINE x == [xs[r] EXCEPT !.affinity = l, !.by_list = FALSE]
    <3>1. xs[r] \in Xstream /\ xs \in [PEs -> Xstream \cup {None}] /\ setter \in [Aff!Callers -> Setting \cup {None}]
      BY <2>2 DEF AffInv, AffTypes
    <3>2. xs' = [xs EXCEPT ![r] = x] /\ setter' = setter
      BY <2>1, <2>3, <3>1 DEF Aff!set_affinity
    <3>3. x \in Xstream /\ x.cpubind = xs[r].cpubind /\ x.leased = xs[r].leased
      BY <2>2, <3>1 DEF Xstream
    <3>4. x.cpubind \in Process \cup {-1} /\ \A d \in Aff!Callers : setter'[d] # None => setter'[d].cpu \in Process
      BY <2>2, <3>2, <3>3 DEF AffInv, Allowed
    <3> HIDE DEF x
    <3>5. QED
      BY <2>2, <3>1, <3>2, <3>3, <3>4, XstreamKept
  <2>4. CASE l # <<>>
    <3>1. Aff!Bind(c, r, Aff!Chosen(c, l), l, TRUE)
      BY <2>1, <2>4 DEF Aff!set_affinity
    <3>2. QED
      BY <2>2, <3>1, StepBind
  <2>5. QED
    BY <2>3, <2>4
<1>3. QED
  BY <1>1, <1>2

LEMMA StepSend == ASSUME AffSound, AffInv, NEW c \in Aff!Callers, Aff!send_pe_msg(c) PROVE AffInv'
<1>1. PICK s \in Setting : s = setter[c]
  BY DEF Aff!send_pe_msg, AffInv, AffTypes
<1>2. PICK r \in PEs : r = s.rank
  BY DEF Setting
<1>3. s.cpu \in Process /\ s.cpu \in Int
  BY <1>1 DEF Aff!send_pe_msg, AffInv, Allowed, Setting
<1>4. PICK m \in Msg : m = Aff!Message(s)
  BY <1>3, Messages DEF Aff!Message
<1>5. m.op = "affinity" /\ m.cpu = s.cpu
  BY <1>4 DEF Aff!Message
<1>6. /\ Aff!CmiPushPE(r, m) /\ setter' = [setter EXCEPT ![c] = None]
      /\ xs' = xs /\ mask' = mask /\ run' = run /\ doing' = doing
  BY <1>1, <1>2, <1>4 DEF Aff!send_pe_msg
<1>7. queue' \in [PEs -> Seq(Msg)]
  BY <1>6, PushAdds
<1>8. \A p \in PEs : \A i \in 1..Len(queue'[p]) :
        \/ i \in 1..Len(queue[p]) /\ queue'[p][i] = queue[p][i]
        \/ p = r /\ i = Len(queue[r]) + 1 /\ queue'[p][i] = m
  BY <1>6, PushAdds
<1>9. AffTypes'
  BY <1>6, <1>7 DEF AffInv, AffTypes
<1>10. Allowed'
  <2>1. \A d \in Aff!Callers : setter'[d] # None => setter'[d].cpu \in Process
    BY <1>6 DEF AffInv, AffTypes, Allowed
  <2>2. \A p \in PEs : \A i \in 1..Len(queue'[p]) :
          queue'[p][i].op = "affinity" => queue'[p][i].cpu \in Process
    BY <1>3, <1>5, <1>8 DEF AffInv, Allowed
  <2>3. QED
    BY <1>6, <2>1, <2>2 DEF AffInv, Allowed
<1>11. LeaseOnce'
  BY <1>5, <1>6, <1>8, SMTT(30) DEF AffInv, LeaseOnce
<1>12. RunOnce'
  BY <1>5, <1>6, <1>8, WorkerIsPE, SMTT(30) DEF AffInv, RunOnce
<1>13. QED
  BY <1>9, <1>10, <1>11, <1>12 DEF AffInv

LEMMA StepCall == ASSUME AffSound, AffInv, NEW e \in Ext, Aff!run_on_pe(e) PROVE AffInv'
<1>1. PICK m \in Msg : m = [op |-> "run", ext |-> e]
  BY Messages
<1>2. m.op = "run" /\ m.ext = e
  BY <1>1
<1>3. /\ Aff!CmiPushPE(Aff!Worker, m) /\ run[e] = "none" /\ run' = [run EXCEPT ![e] = "waits"]
      /\ xs' = xs /\ mask' = mask /\ setter' = setter /\ doing' = doing
  BY <1>1 DEF Aff!run_on_pe
<1>4. queue' \in [PEs -> Seq(Msg)]
  BY <1>3, PushAdds, WorkerIsPE
<1>5. \A p \in PEs : \A i \in 1..Len(queue'[p]) :
        \/ i \in 1..Len(queue[p]) /\ queue'[p][i] = queue[p][i]
        \/ p = Aff!Worker /\ i = Len(queue[Aff!Worker]) + 1 /\ queue'[p][i] = m
  BY <1>3, PushAdds, WorkerIsPE
<1>6. AffTypes'
  BY <1>3, <1>4 DEF AffInv, AffTypes
<1>7. Allowed'
  <2>1. \A p \in PEs : \A i \in 1..Len(queue'[p]) :
          queue'[p][i].op = "affinity" => queue'[p][i].cpu \in Process
    BY <1>2, <1>5 DEF AffInv, Allowed
  <2>2. QED
    BY <1>3, <2>1 DEF AffInv, Allowed
<1>8. LeaseOnce'
  BY <1>2, <1>3, <1>5, SMTT(40) DEF AffInv, LeaseOnce
<1>9. RunOnce'
  <2>1. run \in [Ext -> {"none", "waits", "done"}] /\ doing \in Ext \cup {None} /\ None # e
    BY DEF AffInv, AffTypes, AffSound
  <2>2. \A i \in 1..Len(queue[Aff!Worker]) : queue[Aff!Worker][i].op = "run" =>
          queue[Aff!Worker][i].ext \in Ext /\ queue[Aff!Worker][i].ext # e
    BY <1>3, Messages, WorkerIsPE, SMTT(30) DEF AffInv, AffTypes, RunOnce
  <2>3. doing # e
    BY <1>3, <2>1 DEF AffInv, RunOnce
  <2>4. doing # None => run'[doing] = "waits"
    BY <1>3, <2>1, <2>3 DEF AffInv, RunOnce
  <2>5. ASSUME NEW i \in 1..Len(queue'[Aff!Worker]), queue'[Aff!Worker][i].op = "run"
        PROVE  /\ run'[queue'[Aff!Worker][i].ext] = "waits" /\ queue'[Aff!Worker][i].ext # doing
               /\ \A j \in 1..Len(queue'[Aff!Worker]) :
                    queue'[Aff!Worker][j].op = "run" /\ queue'[Aff!Worker][j].ext = queue'[Aff!Worker][i].ext => j = i
    <3>1. CASE i \in 1..Len(queue[Aff!Worker]) /\ queue'[Aff!Worker][i] = queue[Aff!Worker][i]
      BY <1>2, <1>3, <1>5, <2>1, <2>2, <2>5, <3>1, WorkerIsPE, ZenonT(60) DEF AffInv, RunOnce
    <3>2. CASE i = Len(queue[Aff!Worker]) + 1 /\ queue'[Aff!Worker][i] = m
      BY <1>2, <1>3, <1>5, <2>1, <2>2, <2>3, <3>2, WorkerIsPE, ZenonT(40)
    <3>3. QED
      BY <1>5, <3>1, <3>2, WorkerIsPE
  <2>6. QED
    BY <1>3, <2>4, <2>5 DEF RunOnce
<1>10. QED
  BY <1>6, <1>7, <1>8, <1>9 DEF AffInv

\* What PE r has taken is gone from its queue; the rest is as good as before.
LEMMA TakeKeeps ==
  ASSUME AffSound, AffInv, NEW r \in PEs, NEW op, Aff!Takes(r, op)
  PROVE  /\ \A p \in PEs : \A i \in 1..Len(queue'[p]) :
              queue'[p][i].op = "affinity" => queue'[p][i].cpu \in Process
         /\ \A p \in PEs : \A i \in 1..Len(queue'[p]) : queue'[p][i].op = "lease" =>
              /\ xs[p] # None /\ ~xs[p].leased /\ (p = r => op # "lease")
              /\ \A j \in 1..Len(queue'[p]) : queue'[p][j].op = "lease" => j = i
         /\ \A i \in 1..Len(queue'[Aff!Worker]) : queue'[Aff!Worker][i].op = "run" =>
              /\ run[queue'[Aff!Worker][i].ext] = "waits" /\ queue'[Aff!Worker][i].ext # doing
              /\ (r = Aff!Worker /\ op = "run" => queue'[Aff!Worker][i].ext # queue[Aff!Worker][1].ext)
              /\ \A j \in 1..Len(queue'[Aff!Worker]) :
                   queue'[Aff!Worker][j].op = "run" /\ queue'[Aff!Worker][j].ext = queue'[Aff!Worker][i].ext => j = i
<1>1. \A p \in PEs : p # r => queue'[p] = queue[p]
  BY TakeShifts
<1>2. \A i \in 1..Len(queue'[r]) : i \in Int /\ i + 1 \in 1..Len(queue[r]) /\ queue'[r][i] = queue[r][i + 1]
  BY TakeShifts
<1>3. 1 \in 1..Len(queue[r]) /\ queue[r][1].op = op
  BY TakeShifts
<1>4. \A p \in PEs : \A i \in 1..Len(queue'[p]) :
        queue'[p][i].op = "affinity" => queue'[p][i].cpu \in Process
  BY <1>1, <1>2, SMTT(30) DEF AffInv, Allowed
<1>5. ASSUME NEW p \in PEs, NEW i \in 1..Len(queue'[p]), queue'[p][i].op = "lease"
      PROVE  /\ xs[p] # None /\ ~xs[p].leased /\ (p = r => op # "lease")
             /\ \A j \in 1..Len(queue'[p]) : queue'[p][j].op = "lease" => j = i
  <2>1. CASE p = r
    <3>1. PICK k \in 1..Len(queue[r]) : k = i + 1 /\ queue[r][k].op = "lease" /\ k # 1
      BY <1>2, <1>5, <2>1, SMTT(30)
    <3>2. /\ xs[r] # None /\ ~xs[r].leased
          /\ \A l \in 1..Len(queue[r]) : queue[r][l].op = "lease" => l = k
      BY <3>1 DEF AffInv, LeaseOnce
    <3>3. op # "lease"
      BY <1>3, <3>1, <3>2
    <3>4. ASSUME NEW j \in 1..Len(queue'[r]), queue'[r][j].op = "lease" PROVE j = i
      <4>1. j + 1 = k
        BY <1>2, <3>2, <3>4
      <4>2. QED
        BY <1>2, <2>1, <3>1, <4>1, SMTT(30)
    <3>5. QED
      BY <2>1, <3>2, <3>3, <3>4
  <2>2. CASE p # r
    BY <1>1, <1>5, <2>2 DEF AffInv, LeaseOnce
  <2>3. QED
    BY <2>1, <2>2
<1>6. ASSUME NEW i \in 1..Len(queue'[Aff!Worker]), queue'[Aff!Worker][i].op = "run"
      PROVE  /\ run[queue'[Aff!Worker][i].ext] = "waits" /\ queue'[Aff!Worker][i].ext # doing
             /\ (r = Aff!Worker /\ op = "run" => queue'[Aff!Worker][i].ext # queue[Aff!Worker][1].ext)
             /\ \A j \in 1..Len(queue'[Aff!Worker]) :
                  queue'[Aff!Worker][j].op = "run" /\ queue'[Aff!Worker][j].ext = queue'[Aff!Worker][i].ext => j = i
  <2>1. CASE r = Aff!Worker
    <3>1. PICK k \in 1..Len(queue[Aff!Worker]) :
            k = i + 1 /\ queue[Aff!Worker][k] = queue'[Aff!Worker][i] /\ queue[Aff!Worker][k].op = "run" /\ k # 1
      BY <1>2, <1>6, <2>1, SMTT(30)
    <3>2. /\ run[queue[Aff!Worker][k].ext] = "waits" /\ queue[Aff!Worker][k].ext # doing
          /\ \A l \in 1..Len(queue[Aff!Worker]) :
               queue[Aff!Worker][l].op = "run" /\ queue[Aff!Worker][l].ext = queue[Aff!Worker][k].ext => l = k
      BY <3>1 DEF AffInv, RunOnce
    <3>3. op = "run" => queue[Aff!Worker][k].ext # queue[Aff!Worker][1].ext
      BY <1>3, <2>1, <3>1, <3>2
    <3>4. ASSUME NEW j \in 1..Len(queue'[Aff!Worker]), queue'[Aff!Worker][j].op = "run",
                 queue'[Aff!Worker][j].ext = queue'[Aff!Worker][i].ext
          PROVE  j = i
      <4>1. j + 1 = k
        BY <1>2, <2>1, <3>1, <3>2, <3>4
      <4>2. QED
        BY <1>2, <2>1, <3>1, <4>1, SMTT(30)
    <3>5. QED
      BY <3>1, <3>2, <3>3, <3>4
  <2>2. CASE r # Aff!Worker
    BY <1>1, <1>6, <2>2, WorkerIsPE DEF AffInv, RunOnce
  <2>3. QED
    BY <2>1, <2>2
<1>7. QED
  BY <1>4, <1>5, <1>6

LEMMA StepLease == ASSUME AffSound, AffInv, NEW r \in PEs, Aff!lease_handler(r) PROVE AffInv'
<1>1. Aff!Takes(r, "lease") /\ UNCHANGED <<setter, run, doing>>
  BY DEF Aff!lease_handler
<1>2. queue' \in [PEs -> Seq(Msg)] /\ 1 \in 1..Len(queue[r]) /\ queue[r][1].op = "lease"
  BY <1>1, TakeShifts
<1>3. xs[r] # None
  BY <1>2 DEF AffInv, LeaseOnce
<1>4. xs[r] \in Xstream /\ xs \in [PEs -> Xstream \cup {None}] /\ xs[r].cpubind \in Process \cup {-1}
  BY <1>3 DEF AffInv, AffTypes, Allowed
<1>5. PICK x \in Xstream : xs' = [xs EXCEPT ![r] = x] /\ x.cpubind = xs[r].cpubind
  <2> DEFINE y == [xs[r] EXCEPT !.leased = TRUE]
  <2>1. y \in Xstream /\ y.cpubind = xs[r].cpubind
    BY <1>4 DEF Xstream
  <2>2. xs' = [xs EXCEPT ![r] = y]
    BY <1>4 DEF Aff!lease_handler
  <2>3. QED
    BY <2>1, <2>2
<1>6. mask' \in [PEs -> SUBSET Process]
  BY <1>4, SMTT(30) DEF Aff!lease_handler, Aff!Leased, AffInv, AffTypes
<1>7. AffTypes'
  BY <1>1, <1>2, <1>4, <1>5, <1>6 DEF AffInv, AffTypes
<1>8. Allowed'
  <2>1. \A p \in PEs : \A i \in 1..Len(queue'[p]) :
          queue'[p][i].op = "affinity" => queue'[p][i].cpu \in Process
    BY <1>1, TakeKeeps
  <2>2. \A p \in PEs : xs'[p] # None => xs'[p].cpubind \in Process \cup {-1}
    BY <1>4, <1>5 DEF AffInv, Allowed
  <2>3. QED
    BY <1>1, <2>1, <2>2 DEF AffInv, Allowed
<1>9. LeaseOnce'
  <2>1. \A p \in PEs : \A i \in 1..Len(queue'[p]) : queue'[p][i].op = "lease" =>
          /\ xs[p] # None /\ ~xs[p].leased /\ p # r
          /\ \A j \in 1..Len(queue'[p]) : queue'[p][j].op = "lease" => j = i
    BY <1>1, TakeKeeps, SMTT(30)
  <2>2. \A p \in PEs : p # r => xs'[p] = xs[p]
    BY <1>4, <1>5
  <2>3. QED
    BY <2>1, <2>2 DEF LeaseOnce
<1>10. RunOnce'
  BY <1>1, TakeKeeps DEF AffInv, RunOnce
<1>11. QED
  BY <1>7, <1>8, <1>9, <1>10 DEF AffInv

LEMMA StepAffinity == ASSUME AffSound, AffInv, NEW r \in PEs, Aff!affinity_handler(r) PROVE AffInv'
<1>1. Aff!Takes(r, "affinity") /\ UNCHANGED <<xs, setter, run, doing>>
  BY DEF Aff!affinity_handler
<1>2. /\ queue' \in [PEs -> Seq(Msg)] /\ 1 \in 1..Len(queue[r])
      /\ Head(queue[r]) = queue[r][1] /\ queue[r][1].op = "affinity"
  BY <1>1, TakeShifts
<1>3. queue[r][1].cpu \in Process
  BY <1>2 DEF AffInv, Allowed
<1>4. mask' \in [PEs -> SUBSET Process]
  BY <1>2, <1>3 DEF Aff!affinity_handler, AffInv, AffTypes
<1>5. AffTypes'
  BY <1>1, <1>2, <1>4 DEF AffInv, AffTypes
<1>6. Allowed'
  <2>1. \A p \in PEs : \A i \in 1..Len(queue'[p]) :
          queue'[p][i].op = "affinity" => queue'[p][i].cpu \in Process
    BY <1>1, TakeKeeps
  <2>2. QED
    BY <1>1, <2>1 DEF AffInv, Allowed
<1>7. LeaseOnce'
  BY <1>1, TakeKeeps, SMTT(30) DEF LeaseOnce
<1>8. RunOnce'
  BY <1>1, TakeKeeps DEF AffInv, RunOnce
<1>9. QED
  BY <1>5, <1>6, <1>7, <1>8 DEF AffInv

LEMMA StepHandler == ASSUME AffSound, AffInv, Aff!run_handler PROVE AffInv'
<1>1. Aff!Takes(Aff!Worker, "run") /\ UNCHANGED <<xs, mask, setter, run>>
  BY DEF Aff!run_handler
<1>2. /\ queue' \in [PEs -> Seq(Msg)] /\ 1 \in 1..Len(queue[Aff!Worker])
      /\ Head(queue[Aff!Worker]) = queue[Aff!Worker][1] /\ queue[Aff!Worker][1].op = "run" /\ queue[Aff!Worker][1] \in Msg
  BY <1>1, TakeShifts, WorkerIsPE
<1>3. doing' = queue[Aff!Worker][1].ext /\ doing' \in Ext
  BY <1>2, Messages DEF Aff!run_handler
<1>4. AffTypes'
  BY <1>1, <1>2, <1>3 DEF AffInv, AffTypes
<1>5. Allowed'
  <2>1. \A p \in PEs : \A i \in 1..Len(queue'[p]) :
          queue'[p][i].op = "affinity" => queue'[p][i].cpu \in Process
    BY <1>1, TakeKeeps, WorkerIsPE
  <2>2. QED
    BY <1>1, <2>1 DEF AffInv, Allowed
<1>6. LeaseOnce'
  BY <1>1, TakeKeeps, WorkerIsPE, SMTT(30) DEF LeaseOnce
<1>7. RunOnce'
  <2>1. \A i \in 1..Len(queue'[Aff!Worker]) : queue'[Aff!Worker][i].op = "run" =>
          /\ run[queue'[Aff!Worker][i].ext] = "waits" /\ queue'[Aff!Worker][i].ext # queue[Aff!Worker][1].ext
          /\ \A j \in 1..Len(queue'[Aff!Worker]) :
               queue'[Aff!Worker][j].op = "run" /\ queue'[Aff!Worker][j].ext = queue'[Aff!Worker][i].ext => j = i
    BY <1>1, TakeKeeps, WorkerIsPE, SMTT(30)
  <2>2. run[queue[Aff!Worker][1].ext] = "waits"
    BY <1>2 DEF AffInv, RunOnce
  <2>3. QED
    BY <1>1, <1>3, <2>1, <2>2 DEF RunOnce
<1>8. QED
  BY <1>4, <1>5, <1>6, <1>7 DEF AffInv

LEMMA StepReturn ==
  ASSUME AffSound, AffInv, Aff!RunDone \/ \E e \in Ext : Aff!Return(e)
  PROVE  AffInv'
<1>1. UNCHANGED <<xs, queue, mask, setter>>
  BY DEF Aff!RunDone, Aff!Return
<1>2. run \in [Ext -> {"none", "waits", "done"}] /\ doing \in Ext \cup {None} /\ None \notin Ext
  BY DEF AffInv, AffTypes, AffSound
<1>3. \A i \in 1..Len(queue[Aff!Worker]) : queue[Aff!Worker][i].op = "run" => queue[Aff!Worker][i].ext \in Ext
  BY Messages, WorkerIsPE, SMTT(30) DEF AffInv, AffTypes
<1>4. AffTypes'
  BY <1>1 DEF AffInv, AffTypes, Aff!RunDone, Aff!Return
<1>5. Allowed' /\ LeaseOnce'
  BY <1>1 DEF AffInv, Allowed, LeaseOnce
<1>6. RunOnce'
  <2>1. CASE Aff!RunDone
    BY <1>1, <1>2, <1>3, <2>1, SMTT(30) DEF Aff!RunDone, AffInv, RunOnce
  <2>2. CASE \E e \in Ext : Aff!Return(e)
    BY <1>1, <1>2, <1>3, <2>2, SMTT(30) DEF Aff!Return, AffInv, RunOnce
  <2>3. QED
    BY <2>1, <2>2
<1>7. QED
  BY <1>4, <1>5, <1>6 DEF AffInv

-----------------------------------------------------------------------------
LEMMA StepAff == ASSUME AffSound PROVE AffInv /\ [Aff!Next]_Aff!vars => AffInv'
<1> SUFFICES ASSUME AffInv, [Aff!Next]_Aff!vars PROVE AffInv'
  OBVIOUS
<1>1. CASE \E r \in PEs : Aff!xstream_create(r) \/ Aff!xstream_free(r) \/ Aff!lease_handler(r) \/ Aff!affinity_handler(r)
  BY <1>1, StepCreate, StepFree, StepLease, StepAffinity
<1>2. CASE \E c \in Aff!Callers, r \in PEs, cpu \in Cpus : Aff!set_cpubind(c, r, cpu)
  BY <1>2, StepSet
<1>3. CASE \E c \in Aff!Callers, r \in PEs, l \in Lists : Aff!set_affinity(c, r, l)
  BY <1>3, StepSet
<1>4. CASE \E c \in Aff!Callers : Aff!send_pe_msg(c)
  BY <1>4, StepSend
<1>5. CASE \E e \in Ext : Aff!run_on_pe(e)
  BY <1>5, StepCall
<1>6. CASE Aff!run_handler
  BY <1>6, StepHandler
<1>7. CASE Aff!RunDone \/ \E e \in Ext : Aff!Return(e)
  BY <1>7, StepReturn
<1>8. CASE UNCHANGED Aff!vars
  BY <1>8, ZenonT(40) DEF Aff!vars, AffInv, AffTypes, Allowed, LeaseOnce, RunOnce
<1>9. QED
  BY <1>1, <1>2, <1>3, <1>4, <1>5, <1>6, <1>7, <1>8 DEF Aff!Next

LEMMA AffInvariance == ASSUME AffSound PROVE Aff!Spec => []AffInv
<1>1. Aff!Init => AffInv
  BY InitAff
<1>2. AffInv /\ [Aff!Next]_Aff!vars => AffInv'
  BY StepAff
<1>3. QED
  BY <1>1, <1>2, PTL DEF Aff!Spec

\* No PE is ever bound to a CPU the process may not use, whoever sets the binding of
\* which execution stream when, and whatever its PE has still to handle
\* (xstream.cpp:460-466, 501-514).
THEOREM AlwaysAllowed == ASSUME AffSound PROVE Aff!Spec => []Aff!StaysAllowed
<1>1. AffInv => Aff!StaysAllowed
  BY DEF AffInv, AffTypes, Aff!StaysAllowed
<1>2. QED
  BY <1>1, AffInvariance, PTL

\* The caller of ABTI_run_on_pe waits, and its frame is there, as long as the message
\* that points into it is pending or its function runs (xstream.cpp:136-150).
THEOREM FrameAlwaysLives == ASSUME AffSound PROVE Aff!Spec => []Aff!FrameLives
<1>1. AffInv => Aff!FrameLives
  <2> SUFFICES ASSUME AffInv, NEW e \in Ext, doing = e \/ [op |-> "run", ext |-> e] \in Aff!Range(queue[Aff!Worker])
               PROVE  run[e] = "waits"
    BY DEF Aff!FrameLives
  <2>1. CASE doing = e
    BY <2>1 DEF AffInv, RunOnce, AffSound
  <2>2. CASE [op |-> "run", ext |-> e] \in Aff!Range(queue[Aff!Worker])
    <3>1. queue[Aff!Worker] \in Seq(Msg)
      BY WorkerIsPE DEF AffInv, AffTypes
    <3>2. PICK i \in 1..Len(queue[Aff!Worker]) : queue[Aff!Worker][i] = [op |-> "run", ext |-> e]
      <4>1. DOMAIN queue[Aff!Worker] = 1..Len(queue[Aff!Worker])
        BY <3>1, SMTT(30)
      <4> QED
        BY <2>2, <4>1 DEF Aff!Range
    <3>3. queue[Aff!Worker][i].op = "run" /\ queue[Aff!Worker][i].ext = e
      BY <3>2, SMTT(30)
    <3>4. QED
      BY <3>3 DEF AffInv, RunOnce
  <2>3. QED
    BY <2>1, <2>2
<1>2. QED
  BY <1>1, AffInvariance, PTL

-----------------------------------------------------------------------------
\* Where a PE is bound.

\* After the i-th message of PE r no other is about its binding.
Silent(r, i) == \A j \in 1..Len(queue[r]) : j > i => queue[r][j].op = "run"

\* When PE r has handled its messages it runs on CPU c, if the xstream's binding is c:
\* the last message about it says so or is the lease, or there is none and it does.
Ends(r, c) ==
  \/ \E i \in 1..Len(queue[r]) :
       /\ queue[r][i].op = "lease" \/ (queue[r][i].op = "affinity" /\ queue[r][i].cpu = c)
       /\ Silent(r, i)
  \/ Silent(r, 0) /\ mask[r] = {c}

\* Who is between storing the binding and sending the message is alone in that, for an
\* xstream that is there and has that binding.
SetterInv ==
  \A c \in Aff!Callers : setter[c] # None =>
    /\ xs[setter[c].rank] # None /\ setter[c].cpu = xs[setter[c].rank].cpubind
    /\ \A d \in Aff!Callers : setter[d] # None /\ setter[d].rank = setter[c].rank => d = c

\* Unless its message is still to be sent, a stored binding is where the PE ends.
EndsInv ==
  \A r \in PEs : xs[r] # None /\ xs[r].cpubind >= 0 /\ r \notin Aff!BeingSet => Ends(r, xs[r].cpubind)

\* A PE runs where the process may, or on one CPU.
MaskInv == \A r \in PEs : mask[r] = Process \/ \E c \in Process : mask[r] = {c}

ToldInv == SetterInv /\ EndsInv /\ MaskInv

LEMMA BeingSetIs ==
  ASSUME NEW r
  PROVE  r \in Aff!BeingSet <=> \E c \in Aff!Callers : setter[c] # None /\ setter[c].rank = r
  BY DEF Aff!BeingSet

LEMMA InitTold == ASSUME AffSound PROVE Aff!Init => ToldInv
<1> SUFFICES ASSUME Aff!Init PROVE ToldInv
  OBVIOUS
<1>1. SetterInv
  BY DEF Aff!Init, SetterInv
<1>2. \A r \in PEs : xs[r] # None => xs[r].cpubind = -1
  BY DEF Aff!Init, Aff!NoXstream, AffSound
<1>3. EndsInv
  BY <1>2, SMTT(30) DEF EndsInv
<1>4. MaskInv
  BY DEF Aff!Init, MaskInv
<1> QED
  BY <1>1, <1>3, <1>4 DEF ToldInv

\* Nothing about the binding changes.
LEMMA EndsPushed ==
  ASSUME AffSound, AffInv, NEW r \in PEs, NEW m \in Msg, Aff!CmiPushPE(r, m), mask' = mask,
         NEW p \in PEs, NEW c, Ends(p, c),
         m.op = "run" \/ p # r
  PROVE  Ends(p, c)'
<1>1. CASE p # r
  <2>1. queue'[p] = queue[p]
    BY <1>1 DEF AffInv, AffTypes, Aff!CmiPushPE
  <2> QED
    BY <2>1 DEF Ends, Silent
<1>2. CASE p = r /\ m.op = "run"
  <2>1. \A i \in 1..Len(queue'[p]) :
              \/ i \in 1..Len(queue[p]) /\ queue'[p][i] = queue[p][i]
              \/ queue'[p][i] = m
    BY <1>2, PushAdds, SMTT(30)
  <2>2. \A i \in 1..Len(queue[p]) : i \in 1..Len(queue'[p]) /\ queue'[p][i] = queue[p][i]
    <3>1. queue'[p] = Append(queue[p], m) /\ queue[p] \in Seq(Msg)
      BY <1>2 DEF AffInv, AffTypes, Aff!CmiPushPE
    <3> QED
      BY <3>1, Pushed, SMTT(30)
  <2>3. \A i : Silent(p, i) => Silent(p, i)'
    BY <1>2, <2>1 DEF Silent
  <2> QED
    BY <2>2, <2>3 DEF Ends
<1> QED
  BY <1>1, <1>2

\* The message of the setter comes last.
LEMMA EndsLast ==
  ASSUME AffSound, AffInv, NEW r \in PEs, NEW m \in Msg, Aff!CmiPushPE(r, m), NEW c,
         m.op = "affinity" /\ m.cpu = c
  PROVE  Ends(r, c)'
<1> PICK q \in Seq(Msg) : q = queue[r]
  BY DEF AffInv, AffTypes
<1> PICK n \in Nat : n = Len(q) + 1
  BY SMTT(30)
<1>1. queue'[r] = Append(q, m)
  BY DEF AffInv, AffTypes, Aff!CmiPushPE
<1>2. Len(queue'[r]) = n /\ queue'[r][n] = m
  BY <1>1, Pushed, SMTT(30)
<1>3. Silent(r, n)'
  BY <1>2, SMTT(30) DEF Silent
<1> QED
  BY <1>2, <1>3, SMTT(30) DEF Ends

\* A message is taken and has the effect it should have.
LEMMA EndsTaken ==
  ASSUME AffSound, AffInv, NEW r \in PEs, NEW op, Aff!Takes(r, op), NEW p \in PEs, NEW c, Ends(p, c),
         p # r \/ op = "run" => mask'[p] = mask[p],
         p = r /\ (op = "lease" \/ (op = "affinity" /\ queue[r][1].cpu = c)) => mask'[p] = {c}
  PROVE  Ends(p, c)'
<1>1. CASE p # r
  <2>1. queue'[p] = queue[p]
    BY <1>1, TakeShifts
  <2> QED
    BY <1>1, <2>1 DEF Ends, Silent
<1>2. CASE p = r
  <2>1. \A i \in 1..Len(queue'[r]) : i \in Int /\ i + 1 \in 1..Len(queue[r]) /\ queue'[r][i] = queue[r][i + 1]
    BY TakeShifts
  <2>2. 1 \in 1..Len(queue[r]) /\ queue[r][1].op = op
    BY TakeShifts
  <2>3. \A i \in 1..Len(queue[r]) : i # 1 => i - 1 \in 1..Len(queue'[r]) /\ queue'[r][i - 1] = queue[r][i]
    <3>1. queue'[r] = Tail(queue[r]) /\ queue[r] \in Seq(Msg) /\ queue[r] # <<>>
      BY DEF AffInv, AffTypes, Aff!Takes
    <3> QED
      BY <3>1, Popped, SMTT(30)
  <2>4. ASSUME NEW i \in 1..Len(queue[r]), Silent(r, i) PROVE Silent(r, i - 1)'
    <3> SUFFICES ASSUME NEW j \in 1..Len(queue'[r]), j > i - 1 PROVE queue'[r][j].op = "run"
      BY DEF Silent
    <3>1. j + 1 \in 1..Len(queue[r]) /\ queue'[r][j] = queue[r][j + 1] /\ j + 1 > i
      BY <2>1, SMTT(30)
    <3> QED
      BY <2>4, <3>1 DEF Silent
  <2>5. CASE Silent(r, 0) /\ mask[r] = {c}
    <3>1. op = "run"
      BY <2>2, <2>5, SMTT(30) DEF Silent
    <3>2. Silent(r, 0)'
      BY <2>1, <2>5, SMTT(30) DEF Silent
    <3> QED
      BY <1>2, <2>5, <3>1, <3>2 DEF Ends
  <2>6. ASSUME NEW i \in 1..Len(queue[r]), Silent(r, i),
               queue[r][i].op = "lease" \/ (queue[r][i].op = "affinity" /\ queue[r][i].cpu = c)
        PROVE  Ends(r, c)'
    <3>1. CASE i = 1
      <4>1. Silent(r, 0)'
        BY <2>4, <2>6, <3>1, SMTT(30)
      <4>2. mask'[r] = {c}
        BY <1>2, <2>2, <2>6, <3>1
      <4> QED
        BY <4>1, <4>2 DEF Ends
    <3>2. CASE i # 1
      BY <2>3, <2>4, <2>6, <3>2 DEF Ends
    <3> QED
      BY <3>1, <3>2
  <2> QED
    BY <1>2, <2>5, <2>6 DEF Ends
<1> QED
  BY <1>1, <1>2

LEMMA EndsPrime ==
  ASSUME NEW r, NEW c, c = xs'[r].cpubind
  PROVE  Ends(r, c)' <=> Ends(r, xs[r].cpubind)'
  BY DEF Ends, Silent

\* No binding is stored, the messages and the masks change.
LEMMA ToldKept ==
  ASSUME AffSound, AffInv, ToldInv, setter' = setter, MaskInv',
         \A p \in PEs : xs[p] # None => xs'[p] # None /\ xs'[p].cpubind = xs[p].cpubind,
         \A p \in PEs : xs'[p] # None => xs[p] # None,
         \A p \in PEs : \A c : xs[p] # None /\ c = xs[p].cpubind /\ c >= 0 /\ Ends(p, c) => Ends(p, c)'
  PROVE  ToldInv'
<1>1. \A c \in Aff!Callers : setter[c] # None => setter[c].rank \in PEs
  BY DEF AffInv, AffTypes, Setting
<1>2. SetterInv'
  BY <1>1 DEF ToldInv, SetterInv
<1>3. ASSUME NEW r \in PEs, xs'[r] # None, xs'[r].cpubind >= 0, r \notin Aff!BeingSet'
      PROVE  Ends(r, xs[r].cpubind)'
  <2>1. PICK c : c = xs'[r].cpubind
    OBVIOUS
  <2>2. xs[r] # None /\ c = xs[r].cpubind /\ c >= 0
    BY <1>3, <2>1
  <2>3. r \notin Aff!BeingSet
    BY <1>3 DEF Aff!BeingSet
  <2>4. Ends(r, c)
    BY <2>2, <2>3 DEF ToldInv, EndsInv
  <2>5. Ends(r, c)'
    BY <2>2, <2>4
  <2> QED
    BY <2>1, <2>5, EndsPrime
<1>4. EndsInv'
  BY <1>3 DEF EndsInv
<1> QED
  BY <1>2, <1>4 DEF ToldInv

LEMMA ToldCreate == ASSUME AffSound, AffInv, ToldInv, NEW r \in PEs, Aff!xstream_create(r) PROVE ToldInv'
<1> PICK m \in Msg : m = [op |-> "lease"]
  BY Messages
<1>1. /\ xs[r] = None /\ xs' = [xs EXCEPT ![r] = Aff!NoXstream] /\ Aff!CmiPushPE(r, m)
      /\ mask' = mask /\ setter' = setter
  BY DEF Aff!xstream_create
<1>2. xs'[r] = Aff!NoXstream /\ \A p \in PEs : p # r => xs'[p] = xs[p]
  BY <1>1 DEF AffInv, AffTypes
<1>3. \A c \in Aff!Callers : setter[c] # None => setter[c].rank \in PEs /\ setter[c].rank # r
  BY <1>1 DEF AffInv, AffTypes, Setting, ToldInv, SetterInv
<1>4. SetterInv'
  BY <1>1, <1>2, <1>3, SMTT(30) DEF ToldInv, SetterInv
<1>5. ASSUME NEW p \in PEs, xs'[p] # None, xs'[p].cpubind >= 0, p \notin Aff!BeingSet'
      PROVE  Ends(p, xs[p].cpubind)'
  <2>1. p # r
    BY <1>2, <1>5, SMTT(30) DEF Aff!NoXstream
  <2>2. PICK c : c = xs'[p].cpubind
    OBVIOUS
  <2>3. xs[p] # None /\ c = xs[p].cpubind /\ c >= 0 /\ p \notin Aff!BeingSet
    BY <1>1, <1>2, <1>5, <2>1, <2>2 DEF Aff!BeingSet
  <2>4. Ends(p, c)
    BY <2>3 DEF ToldInv, EndsInv
  <2>5. Ends(p, c)'
    BY <1>1, <2>1, <2>4, EndsPushed
  <2> QED
    BY <2>2, <2>5, EndsPrime
<1>6. EndsInv'
  BY <1>5 DEF EndsInv
<1>7. MaskInv'
  BY <1>1 DEF ToldInv, MaskInv
<1> QED
  BY <1>4, <1>6, <1>7 DEF ToldInv

LEMMA ToldFree == ASSUME AffSound, AffInv, ToldInv, NEW r \in PEs, Aff!xstream_free(r) PROVE ToldInv'
<1>1. /\ xs' = [xs EXCEPT ![r] = None] /\ r \notin Aff!BeingSet /\ UNCHANGED <<queue, mask, setter>>
  BY DEF Aff!xstream_free
<1>2. xs'[r] = None /\ \A p \in PEs : p # r => xs'[p] = xs[p]
  BY <1>1 DEF AffInv, AffTypes
<1>3. \A c \in Aff!Callers : setter[c] # None => setter[c].rank \in PEs /\ setter[c].rank # r
  BY <1>1, BeingSetIs DEF AffInv, AffTypes, Setting
<1>4. SetterInv'
  BY <1>1, <1>2, <1>3, SMTT(30) DEF ToldInv, SetterInv
<1>5. ASSUME NEW p \in PEs, xs'[p] # None, xs'[p].cpubind >= 0, p \notin Aff!BeingSet'
      PROVE  Ends(p, xs[p].cpubind)'
  <2>1. xs'[p] = xs[p] /\ p \notin Aff!BeingSet
    BY <1>1, <1>2, <1>5 DEF Aff!BeingSet
  <2>2. Ends(p, xs[p].cpubind)
    BY <1>5, <2>1 DEF ToldInv, EndsInv
  <2> QED
    BY <1>1, <2>1, <2>2 DEF Ends, Silent
<1>6. EndsInv'
  BY <1>5 DEF EndsInv
<1>7. MaskInv'
  BY <1>1 DEF ToldInv, MaskInv
<1> QED
  BY <1>4, <1>6, <1>7 DEF ToldInv

\* A binding is stored, and its message is still to be sent.
LEMMA ToldStored ==
  ASSUME AffSound, AffInv, ToldInv, NEW c \in Aff!Callers, NEW r \in PEs, NEW x, NEW s,
         x # None, s.rank = r, s.cpu = x.cpubind, setter[c] = None, r \notin Aff!BeingSet,
         xs' = [xs EXCEPT ![r] = x], setter' = [setter EXCEPT ![c] = s], UNCHANGED <<queue, mask>>,
         s # None
  PROVE  ToldInv'
<1>1. \A d \in Aff!Callers : setter[d] # None => setter[d].rank \in PEs /\ setter[d].rank # r
  BY BeingSetIs DEF AffInv, AffTypes, Setting
<1>2. xs'[r] = x /\ \A p \in PEs : p # r => xs'[p] = xs[p]
  BY DEF AffInv, AffTypes
<1>3. setter'[c] = s /\ \A d \in Aff!Callers : d # c => setter'[d] = setter[d]
  BY DEF AffInv, AffTypes
<1>4. SetterInv'
  BY <1>1, <1>2, <1>3, SMTT(30) DEF ToldInv, SetterInv
<1>5. ASSUME NEW p \in PEs, xs'[p] # None, xs'[p].cpubind >= 0, p \notin Aff!BeingSet'
      PROVE  Ends(p, xs[p].cpubind)'
  <2>1. p # r
    BY <1>3, <1>5, SMTT(30) DEF Aff!BeingSet
  <2>2. p \notin Aff!BeingSet
    BY <1>3, <1>5, BeingSetIs, SMTT(30) DEF Aff!BeingSet
  <2>3. xs'[p] = xs[p]
    BY <1>2, <2>1
  <2>4. Ends(p, xs[p].cpubind)
    BY <1>5, <2>2, <2>3 DEF ToldInv, EndsInv
  <2> QED
    BY <2>3, <2>4 DEF Ends, Silent
<1>6. EndsInv'
  BY <1>5 DEF EndsInv
<1>7. MaskInv'
  BY DEF ToldInv, MaskInv
<1> QED
  BY <1>4, <1>6, <1>7 DEF ToldInv

\* An xstream is written and its binding stays.
LEMMA ToldWritten ==
  ASSUME AffSound, AffInv, ToldInv, NEW r \in PEs, NEW x, x # None, xs[r] # None, x.cpubind = xs[r].cpubind,
         xs' = [xs EXCEPT ![r] = x], setter' = setter, UNCHANGED <<queue, mask>>
  PROVE  ToldInv'
<1>1. xs'[r] = x /\ \A p \in PEs : p # r => xs'[p] = xs[p]
  BY DEF AffInv, AffTypes
<1>2. \A p \in PEs : xs[p] # None => xs'[p] # None /\ xs'[p].cpubind = xs[p].cpubind
  BY <1>1
<1>3. \A p \in PEs : xs'[p] # None => xs[p] # None
  BY <1>1
<1>4. MaskInv'
  BY DEF ToldInv, MaskInv
<1>5. \A p \in PEs : \A c : xs[p] # None /\ c = xs[p].cpubind /\ c >= 0 /\ Ends(p, c) => Ends(p, c)'
  BY DEF Ends, Silent
<1> QED
  BY <1>2, <1>3, <1>4, <1>5, ToldKept

LEMMA ToldBind ==
  ASSUME AffSound, AffInv, ToldInv, NEW c \in Aff!Callers, NEW r \in PEs,
         NEW cpu, NEW list \in Seq(Int), NEW by_list \in BOOLEAN,
         Aff!MaySet(c, r), Aff!Bind(c, r, cpu, list, by_list), UNCHANGED <<queue, mask>>
  PROVE  ToldInv'
<1>1. /\ xs[r] # None /\ xs[r] \in Xstream /\ setter[c] = None /\ r \notin Aff!BeingSet
      /\ xs \in [PEs -> Xstream \cup {None}] /\ setter \in [Aff!Callers -> Setting \cup {None}]
  BY DEF Aff!MaySet, AffInv, AffTypes
<1>2. CASE cpu \in Aff!getaffinity(c)
  <2>1. cpu \in Int
    <3>1. mask \in [PEs -> SUBSET Process] /\ (c \in PEs \/ c \in Ext) /\ Process \subseteq Int
      BY SMTT(30) DEF AffInv, AffTypes, Aff!Callers, AffSound
    <3> QED
      BY <1>2, <3>1 DEF Aff!getaffinity
  <2> DEFINE x == [xs[r] EXCEPT !.cpubind = cpu, !.affinity = list, !.by_list = by_list]
             s == [rank |-> r, cpu |-> cpu]
  <2>2. xs' = [xs EXCEPT ![r] = x] /\ setter' = [setter EXCEPT ![c] = s]
    BY <1>1, <1>2 DEF Aff!Bind
  <2>3. x \in Xstream /\ x.cpubind = cpu
    BY <1>1, <2>1 DEF Xstream
  <2>4. s \in Setting /\ s.cpu = cpu /\ s.rank = r
    BY <2>1 DEF Setting
  <2> HIDE DEF x, s
  <2>5. x # None /\ s # None
    BY <2>3, <2>4 DEF AffSound
  <2> QED
    BY <1>1, <2>2, <2>3, <2>4, <2>5, ToldStored
<1>3. CASE cpu \notin Aff!getaffinity(c)
  <2> DEFINE x == [xs[r] EXCEPT !.affinity = list, !.by_list = @ /\ ~by_list]
  <2>1. xs' = [xs EXCEPT ![r] = x] /\ setter' = setter
    BY <1>1, <1>3 DEF Aff!Bind
  <2>2. x \in Xstream /\ x.cpubind = xs[r].cpubind
    BY <1>1 DEF Xstream
  <2> HIDE DEF x
  <2>3. x # None
    BY <2>2 DEF AffSound
  <2> QED
    BY <1>1, <2>1, <2>2, <2>3, ToldWritten
<1> QED
  BY <1>2, <1>3

LEMMA ToldSet ==
  ASSUME AffSound, AffInv, ToldInv, NEW c \in Aff!Callers, NEW r \in PEs,
         (\E cpu \in Cpus : Aff!set_cpubind(c, r, cpu)) \/ (\E l \in Lists : Aff!set_affinity(c, r, l))
  PROVE  ToldInv'
<1>1. CASE \E cpu \in Cpus : Aff!set_cpubind(c, r, cpu)
  <2>1. PICK cpu \in Cpus : Aff!set_cpubind(c, r, cpu)
    BY <1>1
  <2>2. Aff!MaySet(c, r) /\ Aff!Bind(c, r, cpu, xs[r].affinity, FALSE) /\ UNCHANGED <<queue, mask>>
    BY <2>1 DEF Aff!set_cpubind
  <2>3. xs[r].affinity \in Seq(Int)
    BY <2>2 DEF Aff!MaySet, AffInv, AffTypes, Xstream
  <2> QED
    BY <2>2, <2>3, ToldBind
<1>2. CASE \E l \in Lists : Aff!set_affinity(c, r, l)
  <2>1. PICK l \in Lists : Aff!set_affinity(c, r, l)
    BY <1>2
  <2>2. Aff!MaySet(c, r) /\ l \in Seq(Int) /\ UNCHANGED <<queue, mask>>
    BY <2>1 DEF Aff!set_affinity, AffSound
  <2>3. CASE l = <<>>
    <3> DEFINE x == [xs[r] EXCEPT !.affinity = l, !.by_list = FALSE]
    <3>1. xs[r] # None /\ xs[r] \in Xstream /\ xs \in [PEs -> Xstream \cup {None}]
      BY <2>2 DEF Aff!MaySet, AffInv, AffTypes
    <3>2. xs' = [xs EXCEPT ![r] = x] /\ setter' = setter
      BY <2>1, <2>3, <3>1 DEF Aff!set_affinity
    <3>3. x \in Xstream /\ x.cpubind = xs[r].cpubind
      BY <2>2, <3>1 DEF Xstream
    <3> HIDE DEF x
    <3>4. x # None
      BY <3>3 DEF AffSound
    <3> QED
      BY <2>2, <3>1, <3>2, <3>3, <3>4, ToldWritten
  <2>4. CASE l # <<>>
    <3>1. Aff!Bind(c, r, Aff!Chosen(c, l), l, TRUE)
      BY <2>1, <2>4 DEF Aff!set_affinity
    <3> QED
      BY <2>2, <3>1, ToldBind
  <2> QED
    BY <2>3, <2>4
<1> QED
  BY <1>1, <1>2

LEMMA ToldSend == ASSUME AffSound, AffInv, ToldInv, NEW c \in Aff!Callers, Aff!send_pe_msg(c) PROVE ToldInv'
<1>1. PICK s \in Setting : s = setter[c] /\ s # None
  BY DEF Aff!send_pe_msg, AffInv, AffTypes
<1>2. PICK r \in PEs : r = s.rank
  BY DEF Setting
<1>3. s.cpu \in Int /\ xs[r] # None /\ s.cpu = xs[r].cpubind
  BY <1>1, <1>2 DEF ToldInv, SetterInv, Setting
<1>4. PICK m \in Msg : m = Aff!Message(s)
  BY <1>3, Messages DEF Aff!Message
<1>5. m.op = "affinity" /\ m.cpu = s.cpu
  BY <1>4 DEF Aff!Message
<1>6. Aff!CmiPushPE(r, m) /\ setter' = [setter EXCEPT ![c] = None] /\ xs' = xs /\ mask' = mask
  BY <1>1, <1>2, <1>4 DEF Aff!send_pe_msg
<1>7. setter'[c] = None /\ \A d \in Aff!Callers : d # c => setter'[d] = setter[d]
  BY <1>6 DEF AffInv, AffTypes
<1>8. SetterInv'
  BY <1>6, <1>7, SMTT(30) DEF ToldInv, SetterInv
<1>9. ASSUME NEW p \in PEs, xs'[p] # None, xs'[p].cpubind >= 0, p \notin Aff!BeingSet'
      PROVE  Ends(p, xs[p].cpubind)'
  <2>1. PICK k : k = xs'[p].cpubind
    OBVIOUS
  <2>2. CASE p = r
    <3>1. m.cpu = k
      BY <1>3, <1>5, <1>6, <2>1, <2>2
    <3>2. Ends(p, k)'
      BY <1>5, <1>6, <2>2, <3>1, EndsLast
    <3> QED
      BY <2>1, <3>2, EndsPrime
  <2>3. CASE p # r
    <3>1. p \notin Aff!BeingSet
      BY <1>1, <1>2, <1>7, <1>9, <2>3 DEF Aff!BeingSet
    <3>2. Ends(p, k)
      BY <1>6, <1>9, <2>1, <3>1 DEF ToldInv, EndsInv
    <3>3. Ends(p, k)'
      BY <1>6, <2>3, <3>2, EndsPushed
    <3> QED
      BY <2>1, <3>3, EndsPrime
  <2> QED
    BY <2>2, <2>3
<1>10. EndsInv'
  BY <1>9 DEF EndsInv
<1>11. MaskInv'
  BY <1>6 DEF ToldInv, MaskInv
<1> QED
  BY <1>8, <1>10, <1>11 DEF ToldInv

LEMMA ToldCall == ASSUME AffSound, AffInv, ToldInv, NEW e \in Ext, Aff!run_on_pe(e) PROVE ToldInv'
<1>1. PICK m \in Msg : m = [op |-> "run", ext |-> e]
  BY Messages
<1>2. PICK w \in PEs : w = Aff!Worker
  BY WorkerIsPE
<1>3. m.op = "run" /\ Aff!CmiPushPE(w, m) /\ xs' = xs /\ mask' = mask /\ setter' = setter
  BY <1>1, <1>2 DEF Aff!run_on_pe
<1>4. \A p \in PEs : \A c : xs[p] # None /\ c = xs[p].cpubind /\ c >= 0 /\ Ends(p, c) => Ends(p, c)'
  BY <1>3, EndsPushed
<1>5. MaskInv'
  BY <1>3 DEF ToldInv, MaskInv
<1> QED
  BY <1>3, <1>4, <1>5, ToldKept

LEMMA ToldLease == ASSUME AffSound, AffInv, ToldInv, NEW r \in PEs, Aff!lease_handler(r) PROVE ToldInv'
<1>1. Aff!Takes(r, "lease") /\ xs' = [xs EXCEPT ![r].leased = TRUE] /\ mask' = Aff!Leased(r) /\ setter' = setter
  BY DEF Aff!lease_handler
<1>2. xs[r] # None /\ xs[r] \in Xstream /\ xs[r].cpubind \in Process \cup {-1}
  <2>1. 1 \in 1..Len(queue[r]) /\ queue[r][1].op = "lease"
    BY <1>1, TakeShifts
  <2> QED
    BY <2>1 DEF AffInv, AffTypes, LeaseOnce, Allowed
<1> DEFINE x == [xs[r] EXCEPT !.leased = TRUE]
<1>3. xs' = [xs EXCEPT ![r] = x]
  BY <1>1 DEF AffInv, AffTypes
<1>4. x \in Xstream /\ x.cpubind = xs[r].cpubind
  BY <1>2 DEF Xstream
<1> HIDE DEF x
<1>5. x # None
  BY <1>4 DEF AffSound
<1>6. xs'[r] = x /\ \A p \in PEs : p # r => xs'[p] = xs[p]
  BY <1>3 DEF AffInv, AffTypes
<1>7. /\ \A p \in PEs : xs[p] # None => xs'[p] # None /\ xs'[p].cpubind = xs[p].cpubind
      /\ \A p \in PEs : xs'[p] # None => xs[p] # None
  BY <1>2, <1>4, <1>5, <1>6
<1>8. /\ \A p \in PEs : p # r => mask'[p] = mask[p]
      /\ xs[r].cpubind >= 0 => mask'[r] = {xs[r].cpubind}
      /\ ~(xs[r].cpubind >= 0) => mask' = mask
  BY <1>1 DEF Aff!Leased, AffInv, AffTypes
<1>9. MaskInv'
  <2>1. xs[r].cpubind >= 0 => xs[r].cpubind \in Process
    BY <1>2, SMTT(30)
  <2> QED
    BY <1>8, <2>1, ZenonT(40) DEF ToldInv, MaskInv
<1>10. ASSUME NEW p \in PEs, NEW c, xs[p] # None, c = xs[p].cpubind, c >= 0, Ends(p, c) PROVE Ends(p, c)'
  <2>1. p # r => mask'[p] = mask[p]
    BY <1>8
  <2>2. p = r => mask'[p] = {c}
    BY <1>8, <1>10
  <2> QED
    BY <1>1, <1>10, <2>1, <2>2, EndsTaken, SMTT(30)
<1> QED
  BY <1>1, <1>7, <1>9, <1>10, ToldKept

LEMMA ToldAffinity == ASSUME AffSound, AffInv, ToldInv, NEW r \in PEs, Aff!affinity_handler(r) PROVE ToldInv'
<1>1. 1 \in 1..Len(queue[r]) /\ queue[r][1].op = "affinity" /\ queue[r] \in Seq(Msg)
  BY TakeShifts DEF Aff!affinity_handler, AffInv, AffTypes
<1>2. PICK k \in Process : k = queue[r][1].cpu /\ k >= 0
  <2>1. PICK k \in Process : k = queue[r][1].cpu
    BY <1>1 DEF AffInv, Allowed
  <2> QED
    BY <2>1, SMTT(30) DEF AffSound
<1>3. Head(queue[r]).cpu = k
  BY <1>1, <1>2, SMTT(30)
<1>4. Aff!Takes(r, "affinity") /\ mask' = [mask EXCEPT ![r] = {k}] /\ xs' = xs /\ setter' = setter
  BY <1>2, <1>3 DEF Aff!affinity_handler
<1>5. mask'[r] = {k} /\ \A p \in PEs : p # r => mask'[p] = mask[p]
  BY <1>4 DEF AffInv, AffTypes
<1>6. MaskInv'
  BY <1>5 DEF ToldInv, MaskInv
<1>7. ASSUME NEW p \in PEs, NEW c, xs[p] # None, c = xs[p].cpubind, c >= 0, Ends(p, c) PROVE Ends(p, c)'
  <2>1. p # r => mask'[p] = mask[p]
    BY <1>5
  <2>2. p = r /\ queue[r][1].cpu = c => mask'[p] = {c}
    BY <1>2, <1>5
  <2> QED
    BY <1>4, <1>7, <2>1, <2>2, EndsTaken, SMTT(30)
<1> QED
  BY <1>4, <1>6, <1>7, ToldKept

LEMMA ToldRun == ASSUME AffSound, AffInv, ToldInv, Aff!run_handler PROVE ToldInv'
<1>1. PICK w \in PEs : w = Aff!Worker
  BY WorkerIsPE
<1>2. Aff!Takes(w, "run") /\ xs' = xs /\ mask' = mask /\ setter' = setter
  BY <1>1 DEF Aff!run_handler
<1>3. ASSUME NEW p \in PEs, NEW c, Ends(p, c) PROVE Ends(p, c)'
  BY <1>2, <1>3, EndsTaken, SMTT(30)
<1>4. MaskInv'
  BY <1>2 DEF ToldInv, MaskInv
<1> QED
  BY <1>2, <1>3, <1>4, ToldKept

LEMMA ToldSame == ASSUME AffSound, AffInv, ToldInv, UNCHANGED <<xs, queue, mask, setter>> PROVE ToldInv'
<1>1. \A p \in PEs : \A c : Ends(p, c) => Ends(p, c)'
  BY DEF Ends, Silent
<1>2. MaskInv'
  BY DEF ToldInv, MaskInv
<1> QED
  BY <1>1, <1>2, ToldKept

LEMMA StepTold == ASSUME AffSound, AffInv, ToldInv, [Aff!Next]_Aff!vars PROVE ToldInv'
<1>1. ASSUME NEW r \in PEs, Aff!xstream_create(r) PROVE ToldInv'
  BY <1>1, ToldCreate
<1>2. ASSUME NEW r \in PEs, Aff!xstream_free(r) PROVE ToldInv'
  BY <1>2, ToldFree
<1>3. ASSUME NEW r \in PEs, Aff!lease_handler(r) PROVE ToldInv'
  BY <1>3, ToldLease
<1>4. ASSUME NEW r \in PEs, Aff!affinity_handler(r) PROVE ToldInv'
  BY <1>4, ToldAffinity
<1>5. ASSUME NEW c \in Aff!Callers, NEW r \in PEs, NEW cpu \in Cpus, Aff!set_cpubind(c, r, cpu) PROVE ToldInv'
  BY <1>5, ToldSet
<1>6. ASSUME NEW c \in Aff!Callers, NEW r \in PEs, NEW l \in Lists, Aff!set_affinity(c, r, l) PROVE ToldInv'
  BY <1>6, ToldSet
<1>7. ASSUME NEW c \in Aff!Callers, Aff!send_pe_msg(c) PROVE ToldInv'
  BY <1>7, ToldSend
<1>8. ASSUME NEW e \in Ext, Aff!run_on_pe(e) PROVE ToldInv'
  BY <1>8, ToldCall
<1>9. CASE Aff!run_handler
  BY <1>9, ToldRun
<1>10. ASSUME Aff!RunDone \/ (\E e \in Ext : Aff!Return(e)) \/ UNCHANGED Aff!vars PROVE ToldInv'
  BY <1>10, ToldSame DEF Aff!RunDone, Aff!Return, Aff!vars
<1> QED
  BY <1>1, <1>2, <1>3, <1>4, <1>5, <1>6, <1>7, <1>8, <1>9, <1>10 DEF Aff!Next

\* The process may use some CPU: of those it may use one has the lowest number.
LeastCpu == \E c \in Process : \A d \in Process : c <= d

LEMMA ToldShows == ASSUME AffSound, LeastCpu, AffInv, ToldInv PROVE Aff!BoundAsTold
<1> SUFFICES ASSUME NEW r \in PEs, xs[r] # None, Aff!Settled(r)
             PROVE  Aff!get_cpubind(r) \subseteq mask[r] /\ (xs[r].cpubind >= 0 => mask[r] = Aff!get_cpubind(r))
  BY DEF Aff!BoundAsTold
<1>1. CASE xs[r].cpubind >= 0
  <2>1. queue[r] = <<>> /\ r \notin Aff!BeingSet
    BY DEF Aff!Settled
  <2>2. Ends(r, xs[r].cpubind)
    BY <1>1, <2>1 DEF ToldInv, EndsInv
  <2>3. mask[r] = {xs[r].cpubind}
    BY <2>1, <2>2, SMTT(30) DEF Ends
  <2> QED
    BY <1>1, <2>3 DEF Aff!get_cpubind
<1>2. CASE ~(xs[r].cpubind >= 0)
  <2>1. \E c \in mask[r] : \A d \in mask[r] : c <= d
    <3>1. CASE mask[r] = Process
      BY <3>1 DEF LeastCpu
    <3>2. CASE \E c \in Process : mask[r] = {c}
      <4>1. PICK c \in Process : mask[r] = {c}
        BY <3>2
      <4>2. c <= c
        BY SMTT(30) DEF AffSound
      <4> QED
        BY <4>1, <4>2
    <3> QED
      BY <3>1, <3>2 DEF ToldInv, MaskInv
  <2> QED
    BY <1>2, <2>1 DEF Aff!get_cpubind, Aff!os_affinity
<1> QED
  BY <1>1, <1>2

\* Once its messages are handled a PE runs where its xstream says, whatever the order of
\* lease, bindings and messages of an earlier xstream of the rank (xstream.cpp:160-175,
\* 457-497).
THEOREM AlwaysBoundAsTold == ASSUME AffSound, LeastCpu PROVE Aff!Spec => []Aff!BoundAsTold
<1>1. Aff!Init => AffInv /\ ToldInv
  BY InitAff, InitTold
<1>2. AffInv /\ ToldInv /\ [Aff!Next]_Aff!vars => AffInv' /\ ToldInv'
  BY StepAff, StepTold
<1>3. AffInv /\ ToldInv => Aff!BoundAsTold
  BY ToldShows
<1> QED
  BY <1>1, <1>2, <1>3, PTL DEF Aff!Spec
=============================================================================
