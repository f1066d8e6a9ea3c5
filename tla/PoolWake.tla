------------------------------ MODULE PoolWake ------------------------------
(***************************************************************************)
(* Waiting for a pool (pool.cpp, xstream.cpp, sched.cpp).  A timed pop      *)
(* waits on the pool's condition variable; a PE whose scheduler found      *)
(* nothing, and a stacked scheduler whose ULTs are all blocked, park in    *)
(* CsdIdleWait as sleepers of the pool.  A push makes its unit visible and  *)
(* then looks for waiters and sleepers.  Nothing but these looks, and the  *)
(* waiters' second look at the pool, keeps a waiter from being missed.     *)
(*                                                                         *)
(* A unit stands for the push that makes it ready, too: pc[u] is where     *)
(* that push is.                                                           *)
(***************************************************************************)
EXTENDS Integers, Sequences, FiniteSets

CONSTANTS Units,
          Poppers,    \* threads in ABT_pool_pop_timedwait
          IdlePEs,    \* PEs in the idle hook of a basic_wait scheduler
          Stacked,    \* PEs in the loop of a stacked scheduler
          None

PEs == IdlePEs \cup Stacked
Consumers == Poppers \cup PEs

ASSUME PoolWakeAssumption ==
  /\ IsFiniteSet(Units) /\ IsFiniteSet(Poppers) /\ IsFiniteSet(PEs)
  /\ Units \cap Consumers = {} /\ Poppers \cap PEs = {}
  /\ None \notin Units \cup Consumers

VARIABLES kind,      \* the pool's implementation, which never changes
          queue,     \* the units in the pool
          hand,      \* hand[c]: the unit a pop of c has taken and not yet counted
          count,     \* count
          waiters,   \* waiters
          wm,        \* the popper that holds wm
          cv,        \* the poppers waiting on cv
          smask,     \* the PEs whose bit is set
          nsleepers, \* nsleepers
          notified,  \* the PEs with a CsdIdleNotify pending
          pc,        \* where each push and each consumer is
          todo       \* todo[u]: the PEs the push of u has yet to notify

vars == <<kind, queue, hand, count, waiters, wm, cv, smask, nsleepers, notified, pc, todo>>

Init == /\ kind \in {"list", "mpsc", "user"}
        /\ queue = <<>> /\ count = 0 /\ hand = [c \in Consumers |-> None]
        /\ waiters = 0 /\ wm = None /\ cv = {}
        /\ smask = {} /\ nsleepers = 0 /\ notified = {}
        /\ pc = [x \in Units \cup Consumers |-> "out"]
        /\ todo = [u \in Units |-> {}]

Goto(x, l) == pc' = [pc EXCEPT ![x] = l]
Queued(u) == \E i \in 1..Len(queue) : queue[i] = u

-----------------------------------------------------------------------------
\* push: the unit is linked, or in an mpsc pool exchanged in and linked later;
\* a user pool keeps no count.
push(u) ==
  /\ pc[u] = "out" /\ ~Queued(u) /\ \A c \in Consumers : hand[c] # u
  /\ queue' = Append(queue, u)
  /\ Goto(u, CASE kind = "mpsc" -> "link" [] kind = "list" -> "count" [] kind = "user" -> "waiters")
  /\ UNCHANGED <<kind, hand, count, waiters, wm, cv, smask, nsleepers, notified, todo>>

PushLink(u) ==
  /\ pc[u] = "link" /\ Goto(u, "count")
  /\ UNCHANGED <<kind, queue, hand, count, waiters, wm, cv, smask, nsleepers, notified, todo>>

PushCount(u) ==
  /\ pc[u] = "count"
  /\ count' = count + 1
  /\ Goto(u, "waiters")
  /\ UNCHANGED <<kind, hand, queue, waiters, wm, cv, smask, nsleepers, notified, todo>>

\* wake_after_push: look for timed pops ...
LoadWaiters(u) ==
  /\ pc[u] = "waiters"
  /\ Goto(u, IF waiters > 0 THEN "notify" ELSE "sleepers")
  /\ UNCHANGED <<kind, queue, hand, count, waiters, wm, cv, smask, nsleepers, notified, todo>>

\* ... notify one of them under wm ...
NotifyOne(u) ==
  /\ pc[u] = "notify" /\ wm = None
  /\ IF cv = {} THEN UNCHANGED cv ELSE \E w \in cv : cv' = cv \ {w}
  /\ Goto(u, "sleepers")
  /\ UNCHANGED <<kind, hand, queue, count, waiters, wm, smask, nsleepers, notified, todo>>

\* ... look for sleepers, read the mask and notify each PE in it.
LoadSleepers(u) ==
  /\ pc[u] = "sleepers"
  /\ Goto(u, IF nsleepers > 0 THEN "mask" ELSE "out")
  /\ UNCHANGED <<kind, queue, hand, count, waiters, wm, cv, smask, nsleepers, notified, todo>>

LoadMask(u) ==
  /\ pc[u] = "mask"
  /\ todo' = [todo EXCEPT ![u] = smask]
  /\ Goto(u, "bits")
  /\ UNCHANGED <<kind, hand, queue, count, waiters, wm, cv, smask, nsleepers, notified>>

IdleNotify(u) ==
  /\ pc[u] = "bits"
  /\ IF todo[u] = {}
     THEN Goto(u, "out") /\ UNCHANGED <<notified, todo>>
     ELSE \E r \in todo[u] : /\ notified' = notified \cup {r}
                             /\ todo' = [todo EXCEPT ![u] = @ \ {r}]
                             /\ UNCHANGED pc
  /\ UNCHANGED <<kind, hand, queue, count, waiters, wm, cv, smask, nsleepers>>

PushStep(u) == \/ PushLink(u) \/ PushCount(u) \/ LoadWaiters(u) \/ NotifyOne(u)
               \/ LoadSleepers(u) \/ LoadMask(u) \/ IdleNotify(u)

-----------------------------------------------------------------------------
\* Whether a pop finds a unit: an mpsc pop reports empty while the first unit
\* or its successor is not linked.
Poppable == /\ queue # <<>>
            /\ \A i \in 1..Len(queue) : i <= 2 => pc[queue[i]] # "link"

\* pop, leaving for found or for empty.
pop(c, found, empty) ==
  /\ IF Poppable
     THEN queue' = Tail(queue) /\ hand' = [hand EXCEPT ![c] = Head(queue)] /\ Goto(c, found)
     ELSE Goto(c, empty) /\ UNCHANGED <<queue, hand>>
  /\ UNCHANGED <<kind, count, waiters, wm, cv, smask, nsleepers, notified, todo>>

\* The end of a pop that found a unit.
Uncount(c) ==
  /\ \E l \in {<<"uncount", "out">>, <<"uncount_asleep", "unmask">>} : pc[c] = l[1] /\ Goto(c, l[2])
  /\ hand' = [hand EXCEPT ![c] = None]
  /\ count' = IF kind = "user" THEN count ELSE count - 1
  /\ UNCHANGED <<kind, queue, waiters, wm, cv, smask, nsleepers, notified, todo>>

\* pop_timedwait: a first pop; then under wm register ...
pop_timedwait(w) == pc[w] = "out" /\ pop(w, "uncount", "register")

Register(w) ==
  /\ pc[w] = "register" /\ wm = None
  /\ wm' = w
  /\ waiters' = waiters + 1
  /\ Goto(w, "recheck")
  /\ UNCHANGED <<kind, hand, queue, count, cv, smask, nsleepers, notified, todo>>

\* Variant: the count is not looked at again.
VariantRecheck(w) ==
  /\ pc[w] = "recheck"
  /\ wm' = None /\ cv' = cv \cup {w} /\ Goto(w, "wait")
  /\ UNCHANGED <<kind, hand, queue, count, waiters, smask, nsleepers, notified, todo>>

\* ... and wait, in a built-in pool only if the count is still zero.
Recheck(w) ==
  /\ pc[w] = "recheck"
  /\ IF kind # "user" /\ count # 0
     THEN Goto(w, "unregister") /\ UNCHANGED <<wm, cv>>
     ELSE wm' = None /\ cv' = cv \cup {w} /\ Goto(w, "wait")
  /\ UNCHANGED <<kind, hand, queue, count, waiters, smask, nsleepers, notified, todo>>

\* A notified popper has wm again; in a built-in pool it waits on unless the
\* count is positive.
CvWoken(w) ==
  /\ pc[w] = "wait" /\ w \notin cv /\ wm = None
  /\ IF kind # "user" /\ count <= 0
     THEN cv' = cv \cup {w} /\ UNCHANGED <<pc, wm>>
     ELSE wm' = w /\ Goto(w, "unregister") /\ UNCHANGED cv
  /\ UNCHANGED <<kind, hand, queue, count, waiters, smask, nsleepers, notified, todo>>

CvTimeout(w) ==
  /\ pc[w] = "wait" /\ wm = None
  /\ wm' = w /\ cv' = cv \ {w}
  /\ Goto(w, "unregister")
  /\ UNCHANGED <<kind, hand, queue, count, waiters, smask, nsleepers, notified, todo>>

Unregister(w) ==
  /\ pc[w] = "unregister"
  /\ waiters' = waiters - 1
  /\ wm' = None
  /\ Goto(w, "last_pop")
  /\ UNCHANGED <<kind, hand, queue, count, cv, smask, nsleepers, notified, todo>>

LastPop(w) == pc[w] = "last_pop" /\ pop(w, "uncount", "out")

-----------------------------------------------------------------------------
\* The idle hook of a basic_wait scheduler comes after a sweep that found
\* nothing; a stacked scheduler's loop polls itself.
IdleHook(r) ==
  /\ r \in IdlePEs /\ pc[r] = "out" /\ Goto(r, "mask")
  /\ UNCHANGED <<kind, queue, hand, count, waiters, wm, cv, smask, nsleepers, notified, todo>>

StackedPoll(r) == r \in Stacked /\ pc[r] = "out" /\ pop(r, "uncount", "mask")

\* add_sleeper: the bit, then the counter.
SetMask(r) ==
  /\ pc[r] = "mask"
  /\ smask' = smask \cup {r}
  /\ Goto(r, "sleep")
  /\ UNCHANGED <<kind, hand, queue, count, waiters, wm, cv, nsleepers, notified, todo>>

AddSleeper(r) ==
  /\ pc[r] = "sleep"
  /\ nsleepers' = nsleepers + 1
  /\ Goto(r, "look")
  /\ UNCHANGED <<kind, hand, queue, count, waiters, wm, cv, smask, notified, todo>>

\* Variant: the pool is not looked at again.
VariantLook(r) ==
  /\ pc[r] = "look" /\ Goto(r, "park")
  /\ UNCHANGED <<kind, queue, hand, count, waiters, wm, cv, smask, nsleepers, notified, todo>>

\* size: a user pool is asked for it.
size == IF kind = "user" THEN Len(queue) ELSE count

\* The second look: the idle hook pops, the stacked scheduler asks the size.
Look(r) ==
  /\ pc[r] = "look"
  /\ IF r \in IdlePEs THEN pop(r, "uncount_asleep", "park")
     ELSE /\ Goto(r, IF size > 0 THEN "unmask" ELSE "park")
          /\ UNCHANGED <<kind, queue, hand, count, waiters, wm, cv, smask, nsleepers, notified, todo>>

\* CsdIdleWait returns when a notification is pending, or after 10 ms; the idle
\* hook then pops again.
Parked(r) ==
  /\ notified' = notified \ {r}
  /\ Goto(r, IF r \in IdlePEs THEN "pop_again" ELSE "unmask")
  /\ UNCHANGED <<kind, hand, queue, count, waiters, wm, cv, smask, nsleepers, todo>>

CsdIdleWait(r) == pc[r] = "park" /\ r \in notified /\ Parked(r)
IdleTimeout(r) == pc[r] = "park" /\ r \notin notified /\ Parked(r)

PopAgain(r) == pc[r] = "pop_again" /\ pop(r, "uncount_asleep", "unmask")

\* remove_sleeper: the bit, then the counter.
ClearMask(r) ==
  /\ pc[r] = "unmask"
  /\ smask' = smask \ {r}
  /\ Goto(r, "unsleep")
  /\ UNCHANGED <<kind, hand, queue, count, waiters, wm, cv, nsleepers, notified, todo>>

DropSleeper(r) ==
  /\ pc[r] = "unsleep"
  /\ nsleepers' = nsleepers - 1
  /\ Goto(r, "out")
  /\ UNCHANGED <<kind, hand, queue, count, waiters, wm, cv, smask, notified, todo>>

PopperStep(w) == \/ pop_timedwait(w) \/ Recheck(w) \/ Unregister(w) \/ LastPop(w)
PEStep(r) == \/ IdleHook(r) \/ StackedPoll(r) \/ SetMask(r) \/ AddSleeper(r) \/ Look(r)
             \/ CsdIdleWait(r) \/ PopAgain(r) \/ ClearMask(r) \/ DropSleeper(r)

Next == \/ \E u \in Units : push(u) \/ PushStep(u)
        \/ \E c \in Consumers : Uncount(c)
        \/ \E w \in Poppers : PopperStep(w) \/ Register(w) \/ CvWoken(w) \/ CvTimeout(w)
        \/ \E r \in PEs : PEStep(r) \/ IdleTimeout(r)

Spec == Init /\ [][Next]_vars

\* Fairness: pushes under way finish and consumers keep coming back; wm is not
\* refused for ever.  No fairness for the timeouts: nothing may rest on them.
FairSpec == /\ Spec
            /\ \A u \in Units : WF_vars(PushStep(u)) /\ SF_vars(NotifyOne(u))
            /\ \A c \in Consumers : WF_vars(Uncount(c))
            /\ \A w \in Poppers : WF_vars(PopperStep(w)) /\ SF_vars(Register(w)) /\ SF_vars(CvWoken(w))
            /\ \A r \in PEs : WF_vars(PEStep(r))

-----------------------------------------------------------------------------
\* The state has its types; the counters are those of the registered waiters.
TypeOK ==
  /\ kind \in {"list", "mpsc", "user"}
  /\ queue \in Seq(Units) /\ hand \in [Consumers -> Units \cup {None}]
  /\ count \in -Cardinality(Units)..Cardinality(Units)
  /\ waiters = Cardinality({w \in Poppers : pc[w] \in {"recheck", "wait", "unregister"}})
  /\ nsleepers = Cardinality({r \in PEs : pc[r] \in {"look", "park", "pop_again", "uncount_asleep", "unmask", "unsleep"}})
  /\ wm \in Poppers \cup {None}
  /\ cv \subseteq Poppers /\ smask \subseteq PEs /\ notified \subseteq PEs
  /\ pc \in [Units \cup Consumers -> {"out", "link", "count", "waiters", "notify", "sleepers", "mask", "bits",
               "uncount", "uncount_asleep", "register", "recheck", "wait", "unregister", "last_pop",
               "sleep", "look", "park", "pop_again", "unmask", "unsleep"}]
  /\ todo \in [Units -> SUBSET PEs]

\* A PE parked with no notification pending is not left beside a unit: the push
\* of some unit has still to look for sleepers, or to notify this PE
\* (pool.cpp:38-42, 48-52; xstream.cpp:251-253, sched.cpp:187-190).
NoSleeperMissed ==
  \A r \in PEs : pc[r] = "park" /\ r \notin notified /\ queue # <<>> =>
    \E u \in Units : \/ pc[u] \in {"link", "count", "waiters", "notify", "sleepers", "mask"}
                     \/ pc[u] = "bits" /\ r \in todo[u]

\* A timed pop is not left waiting beside a unit: some push has still to look
\* for waiters, or another timed pop is on its way out of the wait and will pop
\* (pool.cpp:38-47, 162-168).
NoWaiterMissed ==
  cv # {} /\ queue # <<>> =>
    \/ \E u \in Units : pc[u] \in {"link", "count", "waiters", "notify"}
    \/ \E w \in Poppers \ cv : pc[w] \in {"wait", "unregister", "last_pop"}

\* Nobody sleeps beside a unit that nobody will tell them of: no PE parked for the
\* pool and no timed pop (pool.cpp:38-54, 154-171).
NobodyMissed == TypeOK /\ NoSleeperMissed /\ NoWaiterMissed

\* A unit is popped although its consumers wait without a timeout
\* (pool.cpp:38-42: either they see the unit or we see them).
UnitsAreTaken == \A u \in Units : Queued(u) ~> ~Queued(u)
=============================================================================
