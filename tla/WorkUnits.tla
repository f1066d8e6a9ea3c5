------------------------------ MODULE WorkUnits ------------------------------
(***************************************************************************)
(* Work units as the program sees them (thread.cpp): ULTs and tasklets with *)
(* their attributes, what a unit learns of itself, what others learn of it, *)
(* and how it ends.  Descriptors are not recycled here (see ThreadLife) and *)
(* an execution stream is the PE it runs on (see XstreamLease).            *)
(***************************************************************************)
EXTENDS Integers, FiniteSets

CONSTANTS Units, Primary,   \* the work units; the primary ULT, one of them
          PEs, Ext, None,   \* the PEs 1, 2, ...; an external thread
          Sizes, Default,   \* the stack sizes asked for, 0: none; ABTI_g->default_stacksize
          IntRange,         \* the number of values of int
          TasksExit         \* tasklets, too, call ABT_thread_exit

Contexts == PEs \cup {Ext}

VARIABLES rec,      \* the descriptor of each unit
          attr,     \* the stack size in the program's ABTI_thread_attr, 0: none
          ready,    \* the units in the pool
          on,       \* on[r]: the ULT whose stack PE r is on, None: the scheduling thread's
          task,     \* task[r]: ABTI_tls_task
          next_id,  \* ABTI_g->next_id
          asked,    \* the stack size that each unit's creator asked for
          wild      \* a longjmp went to a frame that is not there

vars == <<rec, attr, ready, on, task, next_id, asked, wild>>

NoRec == [type |-> None, is_task |-> FALSE, cth |-> FALSE, stacksize |-> 0, stack |-> 0, id |-> 0, last_xstream |-> None, state |-> "BLOCKED", terminated |-> FALSE, frame |-> FALSE]

Init == /\ rec = [u \in Units |-> IF u = Primary
                    THEN [NoRec EXCEPT !.type = "PRIMARY", !.cth = TRUE, !.id = 1, !.state = "RUNNING", !.last_xstream = 1]
                    ELSE NoRec]
        /\ attr = 0
        /\ ready = {} /\ on = [r \in PEs |-> IF r = 1 THEN Primary ELSE None]
        /\ task = [r \in PEs |-> None] /\ next_id = 2
        /\ asked = [u \in Units |-> 0]
        /\ wild = FALSE

\* ABTI_self_thread.
self_thread(c) == IF c = Ext THEN None ELSE IF task[c] # None THEN task[c] ELSE on[c]

\* map_state, for one reading of the two fields.
map_state(terminated, state) == IF terminated THEN "TERMINATED" ELSE state

StackSize(size) == IF size = 0 THEN Default ELSE size

\* (int)stacksize.
ToInt(n) == LET m == n % IntRange IN IF m < IntRange \div 2 THEN m ELSE m - IntRange

-----------------------------------------------------------------------------
Bool(b) == IF b THEN "TRUE" ELSE "FALSE"

\* The queries on a handle: ABT_thread_get_id to get_last_xstream, is_primary and
\* is_unnamed, and get_stacksize.
thread_get(u) == [id |-> rec[u].id, state |-> map_state(rec[u].terminated, rec[u].state),
                  last_xstream |-> rec[u].last_xstream]
thread_is(u) == [primary |-> Bool(rec[u].type = "PRIMARY"), unnamed |-> Bool(rec[u].type = "DETACHED")]
thread_get_stacksize(u) == StackSize(rec[u].stacksize)

\* The ones on a tasklet's handle; a tasklet is never BLOCKED.
task_get(u) == IF rec[u].is_task THEN u ELSE None
task_get_state(u) ==
  LET s == thread_get(u).state IN
  IF task_get(u) = None THEN "INV_TASK" ELSE IF s \in {"READY", "TERMINATED"} THEN s ELSE "RUNNING"
task_get_xstream(u) == IF task_get(u) = None THEN "INV_TASK" ELSE rec[u].last_xstream

NoUnit(c) == IF c = Ext THEN "INV_XSTREAM" ELSE "INV_THREAD"

\* ABT_thread_self and ABT_thread_self_id; ABT_task_self and ABT_task_self_id.
thread_self(c) ==
  LET t == self_thread(c) IN IF t = None \/ rec[t].is_task THEN NoUnit(c) ELSE t
thread_self_id(c) ==
  LET t == self_thread(c) IN IF t = None \/ rec[t].is_task THEN NoUnit(c) ELSE rec[t].id

VariantTaskSelf(c) ==
  LET t == self_thread(c) IN IF c = Ext THEN "INV_XSTREAM" ELSE IF t = None THEN "INV_TASK" ELSE t

task_self(c) ==
  LET t == self_thread(c) IN
  IF c = Ext THEN "INV_XSTREAM" ELSE IF t = None \/ ~rec[t].is_task THEN "INV_TASK" ELSE t
task_self_id(c) ==
  LET t == task_self(c) IN IF t \in Units THEN rec[t].id ELSE t

\* The ABT_self queries.
self_get_xstream(c) == IF c = Ext THEN "INV_XSTREAM" ELSE c
self_get_thread(c) == IF self_thread(c) = None THEN NoUnit(c) ELSE self_thread(c)
self_get_type(c) ==
  LET t == self_thread(c) IN IF t = None THEN "EXT" ELSE IF rec[t].is_task THEN "TASK" ELSE "THREAD"
self_is_primary(c) ==
  LET t == self_thread(c) IN
  IF c = Ext THEN "INV_XSTREAM" ELSE IF t = None THEN "FALSE"
  ELSE IF rec[t].is_task THEN "INV_THREAD" ELSE Bool(rec[t].type = "PRIMARY")
self_on_primary(c) == IF c = Ext THEN "INV_XSTREAM" ELSE Bool(c = 1)
self_is_unnamed(c) ==
  LET t == self_thread(c) IN IF t = None THEN NoUnit(c) ELSE Bool(rec[t].type = "DETACHED")

-----------------------------------------------------------------------------
others == <<rec, ready, on, task, next_id, asked, wild>>

\* ABT_thread_attr_create; ABT_thread_attr_set_stacksize and _set_stack;
\* ABT_thread_get_attr, a copy with the default filled in.
attr_create == attr' = 0 /\ UNCHANGED others
attr_set_stacksize(size) == attr' = size /\ UNCHANGED others
thread_get_attr(u) == rec[u].type # None /\ attr' = StackSize(rec[u].stacksize) /\ UNCHANGED others

CanCall(c) == c = Ext \/ self_thread(c) # None

\* The stack of a new ULT: of the size in the attributes, a copy of the program's, or
\* the default, as an int.
Stack(size) == ToInt(StackSize(size))

\* thread_create_impl by context c; an external thread has a PE do it.
thread_create(c, u, type, size) ==
  /\ CanCall(c) /\ rec[u].type = None
  /\ rec' = [rec EXCEPT ![u] = [NoRec EXCEPT !.type = type, !.cth = TRUE, !.stacksize = size, !.stack = Stack(size),
               !.id = next_id, !.state = "READY"]]
  /\ asked' = [asked EXCEPT ![u] = size]
  /\ next_id' = next_id + 1 /\ ready' = ready \cup {u}
  /\ UNCHANGED <<attr, on, task, wild>>

\* ABT_thread_create_to by the ULT on PE r, which yields to the new one.
thread_create_to(r, u, size) ==
  /\ on[r] # None /\ task[r] = None /\ rec[u].type = None
  /\ rec' = [rec EXCEPT ![u] = [NoRec EXCEPT !.type = "NAMED", !.cth = TRUE, !.stacksize = size, !.stack = Stack(size),
               !.id = next_id, !.state = "READY"], ![on[r]].state = "READY"]
  /\ asked' = [asked EXCEPT ![u] = size]
  /\ next_id' = next_id + 1 /\ ready' = ready \cup {u, on[r]} /\ on' = [on EXCEPT ![r] = None]
  /\ UNCHANGED <<attr, task, wild>>

\* task_create_impl.
task_create(c, u, type) ==
  /\ CanCall(c) /\ rec[u].type = None
  /\ rec' = [rec EXCEPT ![u] = [NoRec EXCEPT !.type = type, !.is_task = TRUE, !.id = next_id, !.state = "READY"]]
  /\ next_id' = next_id + 1 /\ ready' = ready \cup {u}
  /\ UNCHANGED <<attr, on, task, asked, wild>>

\* The execution stream that a unit is resumed on.
Resumed(r, u) == r

\* ABTI_pool_run_thread on PE r, of a tasklet inline, of a ULT by the scheduling
\* thread; thread_main sets the frame that ABT_thread_exit returns to.
run_thread(r, u) ==
  /\ u \in ready /\ task[r] = None /\ (u = Primary => r = 1)
  /\ IF rec[u].cth THEN on[r] = None /\ on' = [on EXCEPT ![r] = u] /\ UNCHANGED task
     ELSE task' = [task EXCEPT ![r] = u] /\ UNCHANGED on
  /\ rec' = [rec EXCEPT ![u].last_xstream = Resumed(r, u), ![u].state = "RUNNING",
                        ![u].frame = rec[u].cth /\ u # Primary]
  /\ ready' = ready \ {u}
  /\ UNCHANGED <<attr, next_id, asked, wild>>

\* ABT_thread_yield and ABT_self_suspend by the ULT on PE r; both do nothing to a
\* tasklet.
thread_yield(r) ==
  /\ on[r] # None /\ task[r] = None
  /\ rec' = [rec EXCEPT ![on[r]].state = "READY"]
  /\ ready' = ready \cup {on[r]} /\ on' = [on EXCEPT ![r] = None]
  /\ UNCHANGED <<attr, task, next_id, asked, wild>>

self_suspend(r) ==
  /\ on[r] # None /\ task[r] = None
  /\ rec' = [rec EXCEPT ![on[r]].state = "BLOCKED"] /\ on' = [on EXCEPT ![r] = None]
  /\ UNCHANGED <<attr, ready, task, next_id, asked, wild>>

\* ABT_thread_resume of a ULT: CthAwakenIfBlocked.
thread_resume(c, u) ==
  /\ CanCall(c) /\ rec[u].type # None /\ rec[u].cth /\ rec[u].state = "BLOCKED"
  /\ rec' = [rec EXCEPT ![u].state = "READY"] /\ ready' = ready \cup {u}
  /\ UNCHANGED <<attr, on, task, next_id, asked, wild>>

\* The unit leaves PE r for good: a ULT is switched away from, its thread
\* TERMINATED, a tasklet returns; ABTI_thread_terminated is the next step.
Leave(r) ==
  LET t == self_thread(r) IN
  /\ rec' = [rec EXCEPT ![t].state = "TERMINATED", ![t].frame = FALSE]
  /\ IF rec[t].is_task THEN task' = [task EXCEPT ![r] = None] /\ UNCHANGED on
     ELSE on' = [on EXCEPT ![r] = None] /\ UNCHANGED task
  /\ UNCHANGED <<attr, ready, next_id, asked>>

\* The unit's function returns.
Return(r) == /\ self_thread(r) \notin {None, Primary} /\ Leave(r) /\ UNCHANGED wild

\* ABT_thread_exit: a longjmp to the frame of thread_main.
thread_exit(r) ==
  LET t == self_thread(r) IN
  /\ t \notin {None, Primary} /\ (rec[t].is_task => TasksExit)
  /\ wild' = (wild \/ ~rec[t].frame)
  /\ Leave(r)

\* ABTI_thread_terminated stores the flag that joiners wait for.
Terminated(u) ==
  /\ rec[u].state = "TERMINATED" /\ ~rec[u].terminated
  /\ rec' = [rec EXCEPT ![u].terminated = TRUE]
  /\ UNCHANGED <<attr, ready, on, task, next_id, asked, wild>>

Next == \/ attr_create
        \/ \E size \in Sizes : attr_set_stacksize(size)
        \/ \E u \in Units : thread_get_attr(u)
        \/ \E c \in Contexts, u \in Units, type \in {"NAMED", "DETACHED"} :
             thread_create(c, u, type, 0) \/ thread_create(c, u, type, attr) \/ task_create(c, u, type)
        \/ \E r \in PEs : \/ \E u \in Units : run_thread(r, u) \/ thread_create_to(r, u, attr)
                          \/ thread_yield(r) \/ self_suspend(r) \/ Return(r) \/ thread_exit(r)
        \/ \E c \in Contexts, u \in Units : thread_resume(c, u)
        \/ \E u \in Units : Terminated(u)

Spec == Init /\ [][Next]_vars

\* Types.
TypeOK ==
  /\ \A u \in Units : rec[u].state \in {"BLOCKED", "READY", "RUNNING", "TERMINATED"} /\ rec[u].id < next_id
  /\ ready \subseteq Units /\ on \in [PEs -> Units \cup {None}] /\ task \in [PEs -> Units \cup {None}]
  /\ asked \in [Units -> Sizes \cup {0, Default}] /\ wild \in BOOLEAN

\* What a unit learns of itself is what the others learn of it: of a ULT and of a
\* tasklet exactly one kind of query answers, the answers name one unit, which is
\* RUNNING on the execution stream that the unit sees, and an external thread is
\* told so by all (thread.cpp:281-304, 466-513, 639-668).
AnswersAgree ==
  \A c \in Contexts : LET t == self_get_thread(c)  type == self_get_type(c) IN
    /\ type = "THREAD" <=> thread_self(c) \in Units
    /\ type = "TASK" <=> task_self(c) \in Units
    /\ type = "EXT" <=> t \notin Units
    /\ type # "EXT" =>
         /\ t = (IF type = "TASK" THEN task_self(c) ELSE thread_self(c))
         /\ thread_get(t).id = (IF type = "TASK" THEN task_self_id(c) ELSE thread_self_id(c))
         /\ thread_get(t).state = "RUNNING" /\ thread_get(t).last_xstream = self_get_xstream(c)
         /\ type = "TASK" => task_get_state(t) = "RUNNING" /\ task_get_xstream(t) = c
         /\ thread_is(t).unnamed = self_is_unnamed(c)
         /\ thread_is(t).primary = "TRUE" => self_is_primary(c) = "TRUE" /\ self_on_primary(c) = "TRUE"
    /\ c = Ext => {self_get_xstream(c), t, self_is_primary(c), self_on_primary(c), thread_self(c), task_self(c)}
                     = {"INV_XSTREAM"}

\* A tasklet is BLOCKED for nobody: the two state queries never differ
\* (thread.cpp:658-668).
TaskNeverBlocks ==
  \A u \in Units : rec[u].is_task => task_get_state(u) = thread_get(u).state

\* Two units never have the same id.
IdsUnique == \A u, w \in Units : rec[u].type # None /\ rec[u].id = rec[w].id => u = w

\* A ULT has the stack that its creator asked for, or the default, whatever became of
\* the attribute object since, if the size is an int (thread.cpp:206-221, 432-463).
StackAsAsked ==
  \A u \in Units : rec[u].cth /\ u # Primary =>
    /\ thread_get_stacksize(u) = StackSize(asked[u])
    /\ StackSize(asked[u]) < IntRange \div 2 => rec[u].stack = StackSize(asked[u])

\* ABT_thread_exit returns to the thread_main of the unit that calls it
\* (thread.cpp:564-570).
ExitFindsItsFrame == ~wild
=============================================================================
