----------------------------- MODULE MCPoolWake -----------------------------
(* PoolWake for TLC.  Each scenario is a kind of pool and the consumers that *)
(* take part; the others never come.  Liveness is worth checking with one    *)
(* way of waiting at a time: another consumer would hide a lost wake.        *)
EXTENDS PoolWake

CONSTANTS a, b, w1, w2, r1, r2

VARIABLE active   \* the consumers that take part

MCVars == <<vars, active>>

Scenarios == {<<"list", {w1, r1}>>, <<"list", {w1, w2}>>, <<"mpsc", {r1}>>, <<"user", {r1}>>,
              <<"list", {r2}>>, <<"mpsc", {w1}>>, <<"user", {r2}>>}

MCInit == Init /\ active \in SUBSET Consumers /\ <<kind, active>> \in Scenarios

MCNext == /\ Next
          /\ \A c \in Consumers \ active : pc'[c] = "out"
          /\ UNCHANGED active

MCFairness ==
  /\ \A u \in Units : /\ WF_MCVars(PushStep(u) /\ UNCHANGED active)
                      /\ SF_MCVars(NotifyOne(u) /\ UNCHANGED active)
  /\ \A c \in Consumers : WF_MCVars(Uncount(c) /\ UNCHANGED active)
  /\ \A w \in Poppers : /\ WF_MCVars(w \in active /\ PopperStep(w) /\ UNCHANGED active)
                        /\ SF_MCVars(Register(w) /\ UNCHANGED active)
                        /\ SF_MCVars(CvWoken(w) /\ UNCHANGED active)
  /\ \A r \in PEs : WF_MCVars(r \in active /\ PEStep(r) /\ UNCHANGED active)

MCSpec == MCInit /\ [][MCNext]_MCVars /\ MCFairness
=============================================================================
