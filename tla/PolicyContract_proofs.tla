----------------------- MODULE PolicyContract_proofs -----------------------
(* Theorems about PolicyContract: what PolicyConfirmations_proofs shows for *)
(* one operator, said of the copy of the queue that has only one.           *)
EXTENDS PolicyContract, TLAPS

P == INSTANCE PolicyConfirmations_proofs
    WITH Tokens <- SoloTokens, Requests <- {SoloRequest}, Sweepers <- {},
         Orphans <- SoloOrphans, OverCeiling <- SoloOverCeiling, MaxCrashes <- 0,
         row <- soloRow, lapsed <- soloLapsed, req <- soloReq, sweep <- soloSweep,
         runs <- soloRuns, returned <- soloReturned, told <- soloTold, unsaid <- soloUnsaid,
         crashes <- soloCrashes

\* The copy meets the hypotheses of those theorems.
LEMMA SoloIsOneOperator == P!PolicyAssumption /\ P!OneOperator
BY SoloAssumption DEF P!PolicyAssumption, P!OneOperator

\* The two instances of the module name the same steps.
LEMMA SameStep == \A r \in {SoloRequest} : Solo!RequestStep(r) <=> P!RequestStep(r)
BY DEF Solo!RequestStep, P!RequestStep, Solo!ConfirmStep, P!ConfirmStep,
   Solo!Stage, P!Stage, Solo!AnnounceStaged, P!AnnounceStaged,
   Solo!ConfirmRead, P!ConfirmRead, Solo!CancelRead, P!CancelRead,
   Solo!BulkRead, P!BulkRead, Solo!ConfirmJudge, P!ConfirmJudge,
   Solo!ConfirmLapsed, P!ConfirmLapsed, Solo!ConfirmOrphan, P!ConfirmOrphan,
   Solo!ConfirmAnnounce, P!ConfirmAnnounce, Solo!ConfirmStart, P!ConfirmStart,
   Solo!HandlerReturns, P!HandlerReturns, Solo!HandlerRaises, P!HandlerRaises,
   Solo!ConfirmResolve, P!ConfirmResolve, Solo!ConfirmFail, P!ConfirmFail,
   Solo!CancelResolve, P!CancelResolve, Solo!CancelAnnounce, P!CancelAnnounce,
   Solo!BulkResolve, P!BulkResolve, Solo!BulkAnnounce, P!BulkAnnounce,
   Solo!AnnouncementRaises, P!AnnouncementRaises,
   Solo!Resolve, P!Resolve, Solo!Pending, P!Pending, Solo!Tell, P!Tell,
   Solo!Goto, P!Goto, Solo!Begin, P!Begin, Solo!At, P!At

LEMMA SameSpec == Solo!Spec <=> P!Spec
<1>1. Solo!Init <=> P!Init
  BY DEF Solo!Init, P!Init
<1>2. [Solo!Next]_(Solo!vars) <=> [P!Next]_(P!vars)
  BY SameStep DEF Solo!Next, P!Next, Solo!Lapse, P!Lapse, Solo!Crash, P!Crash,
     Solo!vars, P!vars
<1> QED
  BY <1>1, <1>2, PTL DEF Solo!Spec, P!Spec

\* One operator and no restart: the handler of a token runs at most once.
THEOREM SoloAlwaysRunsOnce == Solo!Spec => []SoloRunsAtMostOnce
<1>1. P!Spec => []P!RunsAtMostOnce
  BY SoloIsOneOperator, P!OneOperatorRunsOnce
<1>2. P!RunsAtMostOnce <=> SoloRunsAtMostOnce
  BY DEF P!RunsAtMostOnce, SoloRunsAtMostOnce, Solo!RunsAtMostOnce
<1> QED
  BY <1>1, <1>2, SameSpec, PTL

\* One operator: an announced denial is a cancelled row whose handler was never
\* started.
THEOREM SoloDenialAlwaysReal == Solo!Spec => []SoloDenialIsReal
<1>1. P!Spec => []P!DenialIsReal
  BY SoloIsOneOperator, P!OneOperatorDenies
<1>2. P!DenialIsReal <=> SoloDenialIsReal
  BY DEF P!DenialIsReal, SoloDenialIsReal, Solo!DenialIsReal
<1> QED
  BY <1>1, <1>2, SameSpec, PTL

\* The queue implements the one-shot contract for one operator, whatever its
\* tokens, orphans and bulk ceiling.
THEOREM SoloImplements == Solo!Spec => RefinesOneShot
<1>1. P!Spec => P!Contract!OneShot
  BY SoloIsOneOperator, P!OneOperatorRefines
<1>2. P!Contract!OneShot <=> RefinesOneShot
  BY DEF RefinesOneShot, P!Contract!OneShot, Contract!OneShot, P!Contract!AInit,
     Contract!AInit, P!Contract!ANext, Contract!ANext, P!Contract!avars, Contract!avars,
     P!Contract!AStage, Contract!AStage, P!Contract!AExecute, Contract!AExecute,
     P!Contract!AResolve, Contract!AResolve, P!Contract!Verdicts, Contract!Verdicts
<1> QED
  BY <1>1, <1>2, SameSpec
=============================================================================
