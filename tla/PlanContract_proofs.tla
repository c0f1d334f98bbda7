------------------------ MODULE PlanContract_proofs ------------------------
(* Theorems about PlanContract: what PlanRuns_proofs shows for one operator, *)
(* said of the copy of the planner that has only one.                        *)
EXTENDS PlanContract, TLAPS

P == INSTANCE PlanRuns_proofs
    WITH Plans <- SoloPlans, Requests <- {SoloRequest}, MaxCrashes <- 0,
         status <- soloStatus, reg <- soloReg, flagged <- soloFlagged, req <- soloReq,
         ran <- soloRan, through <- soloThrough, blessed <- soloBlessed,
         asked <- soloAsked, lost <- soloLost, crashes <- soloCrashes

\* The copy meets the hypotheses of those theorems.
LEMMA SoloIsOneOperator == P!PlanAssumption /\ P!OneOperator
BY SoloAssumption, PlanAssumption DEF P!PlanAssumption, P!OneOperator

\* The two instances of the module name the same steps.
LEMMA SameStep ==
    \A r \in {SoloRequest} :
        /\ Solo!RequestStep(r) <=> P!RequestStep(r)
        /\ Solo!Arrive(r) <=> P!Arrive(r)
        /\ Solo!RunStartRaises(r) <=> P!RunStartRaises(r)
        /\ Solo!RunExceptionRaises(r) <=> P!RunExceptionRaises(r)
BY DEF Solo!RequestStep, P!RequestStep, Solo!Arrive, P!Arrive,
   Solo!SetStatusSelect, P!SetStatusSelect, Solo!SetStatusUpdate, P!SetStatusUpdate,
   Solo!StatusRead, P!StatusRead, Solo!Rerun, P!Rerun, Solo!RunBegin, P!RunBegin,
   Solo!RunRead, P!RunRead, Solo!RunCheck, P!RunCheck, Solo!RunRegister, P!RunRegister,
   Solo!GroupBegin, P!GroupBegin, Solo!GroupEnd, P!GroupEnd, Solo!RunClose, P!RunClose,
   Solo!NoneReturned, P!NoneReturned, Solo!CallSetStatus, P!CallSetStatus,
   Solo!Goto, P!Goto, Solo!Begin, P!Begin, Solo!At, P!At, Solo!Plan, P!Plan,
   Solo!RunStartRaises, P!RunStartRaises, Solo!RunExceptionRaises, P!RunExceptionRaises,
   Solo!CutOff, P!CutOff, Solo!Idle, P!Idle, Solo!NoRow, P!NoRow, Solo!Live, P!Live, Solo!Terminal, P!Terminal

LEMMA SameSpec == Solo!Spec <=> P!Spec
<1>1. Solo!Init <=> P!Init
  BY DEF Solo!Init, P!Init, Solo!Idle, P!Idle
<1>2. [Solo!Next]_(Solo!vars) <=> [P!Next]_(P!vars)
  BY SameStep DEF Solo!Next, P!Next, Solo!Insert, P!Insert, Solo!Delete, P!Delete,
     Solo!Abort, P!Abort, Solo!Crash, P!Crash, Solo!Idle, P!Idle, Solo!Plan, P!Plan,
     Solo!NoRow, P!NoRow, Solo!vars, P!vars
<1> QED
  BY <1>1, <1>2, PTL DEF Solo!Spec, P!Spec

\* For one operator the planner implements the lifecycle of a plan, whatever
\* the plans and their number of groups, and whichever events raise.
THEOREM SoloImplements == Solo!Spec => RefinesLifecycle
<1>1. P!Spec => P!Contract!Lifecycle
  BY SoloIsOneOperator, P!OneOperatorRefines
<1>2. P!Contract!Lifecycle <=> RefinesLifecycle
  BY DEF RefinesLifecycle, P!Contract!Lifecycle, Contract!Lifecycle,
     P!Executing, Solo!Executing, P!Plan, Solo!Plan,
     P!Contract!LInit, Contract!LInit, P!Contract!LNext, Contract!LNext,
     P!Contract!lvars, Contract!lvars, P!Contract!LInsert, Contract!LInsert,
     P!Contract!LDecide, Contract!LDecide, P!Contract!LDelete, Contract!LDelete,
     P!Contract!LStart, Contract!LStart, P!Contract!LGroup, Contract!LGroup,
     P!Contract!LStop, Contract!LStop, P!Contract!LLose, Contract!LLose,
     P!Contract!LOutcome, Contract!LOutcome
<1> QED
  BY <1>1, <1>2, SameSpec
=============================================================================
