---------------------------- MODULE PlanContract ----------------------------
(***************************************************************************)
(* The planner under one request at a time and no restart: a copy of       *)
(* PlanRuns with variables of its own, and the lifecycle it implements     *)
(* then, PlanLifecycle.                                                    *)
(***************************************************************************)
EXTENDS PlanRuns

CONSTANTS SoloPlans, SoloRequest

ASSUME SoloAssumption == SoloRequest \notin {NoRun, Orphan}

VARIABLES soloStatus, soloReg, soloFlagged, soloReq, soloRan, soloThrough, soloBlessed,
          soloAsked, soloLost, soloCrashes

soloVars == <<soloStatus, soloReg, soloFlagged, soloReq, soloRan, soloThrough, soloBlessed,
              soloAsked, soloLost, soloCrashes>>

Solo == INSTANCE PlanRuns
    WITH Plans <- SoloPlans, Requests <- {SoloRequest}, MaxCrashes <- 0,
         status <- soloStatus, reg <- soloReg, flagged <- soloFlagged, req <- soloReq,
         ran <- soloRan, through <- soloThrough, blessed <- soloBlessed,
         asked <- soloAsked, lost <- soloLost, crashes <- soloCrashes

\* The lifecycle of a plan as an operator thinks of it.
Contract == INSTANCE PlanLifecycle
    WITH Plans <- SoloPlans, status <- soloStatus, executing <- Solo!Executing,
         ran <- soloRan, through <- soloThrough, lost <- soloLost

\* With one request at a time and no restart, whatever is inserted, deleted
\* and aborted meanwhile, and whichever event of a run raises, the planner
\* implements that contract: every step of PlanRunner.run and of the handlers
\* is a step of it or a stutter.
RefinesLifecycle == Contract!Lifecycle
=============================================================================
