--------------------------- MODULE MCXstreamLease ---------------------------
(* XstreamLease for TLC.  In the scenario "plain" two callers share one rank, *)
(* which is leased up to three times; in "user" there are two ranks and the  *)
(* scheduler of c2 is user-defined.  ReuseSpec is a third, where c2 creates  *)
(* a second execution stream with its user-defined scheduler.                *)
EXTENDS XstreamLease

CONSTANTS c1, c2

VARIABLE scenario

Plain == INSTANCE XstreamLease WITH Ranks <- {1}
User == INSTANCE XstreamLease WITH UserDef <- {c2}, Reusers <- {c1}, MaxXs <- 2
Reuse == INSTANCE XstreamLease WITH Ranks <- {1}, Callers <- {c2}, ULTs <- {c2}, UserDef <- {c2},
                                    Reusers <- {c2}, MaxXs <- 2

MCVars == <<vars, scenario>>

MCInit == Init /\ scenario \in {"plain", "user"}

MCNext == /\ \/ scenario = "plain" /\ Plain!Next
             \/ scenario = "user" /\ User!Next
          /\ UNCHANGED scenario

\* Fairness: threads and PEs go on, messages are handled although units keep
\* coming, and jm is not refused for ever.
MCSpec ==
  /\ MCInit /\ [][MCNext]_MCVars
  /\ \A c \in Callers : WF_vars((scenario = "plain" /\ Plain!CallerStep(c)) \/ (scenario = "user" /\ User!CallerStep(c)))
  /\ \A c \in Callers : SF_vars(JoinLock(c))
  /\ WF_vars(scenario = "plain" /\ Plain!PEStep(1))
  /\ \A r \in Ranks :
       /\ WF_vars(scenario = "user" /\ User!PEStep(r))
       /\ SF_vars(ReleaseLock(r))
       /\ WF_vars((scenario = "plain" /\ Plain!MessageStep(r)) \/ (scenario = "user" /\ User!MessageStep(r)))

ReuseInit == Init /\ scenario = "reuse"
ReuseNext == Reuse!Next /\ UNCHANGED scenario
ReuseSpec == ReuseInit /\ [][ReuseNext]_MCVars

-----------------------------------------------------------------------------
\* From the first poll until it gives the lease back a PE knows its execution
\* stream; it gives it back only when asked to; it releases one that exists and still
\* has the rank, and when a join may return no table, message or runner of the PE refers
\* to the execution stream any more, so that its scheduler and pools may be freed; xs
\* itself is still used for the end of the release (TypeOK, KnowsItsXstream,
\* FinishedWasAsked, ReleasesTheLiving, FinishedIsQuiet of XstreamLease;
\* xstream.cpp:88-94, 207-235, 267-274).
LeaseExact == TypeOK /\ KnowsItsXstream /\ FinishedWasAsked /\ ReleasesTheLiving /\ FinishedIsQuiet
=============================================================================
