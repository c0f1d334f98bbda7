--------------------------- MODULE PolicyContract ---------------------------
(***************************************************************************)
(* The confirmation queue under one request at a time, no sweep and no     *)
(* restart: a copy of PolicyConfirmations with variables of its own, and   *)
(* the contract it implements then, OneShotConfirmation.                   *)
(***************************************************************************)
EXTENDS PolicyConfirmations

CONSTANTS SoloTokens, SoloRequest, SoloOrphans, SoloOverCeiling

ASSUME SoloAssumption ==
    /\ SoloOrphans \subseteq SoloTokens
    /\ SoloOverCeiling \subseteq SoloTokens

VARIABLES soloRow, soloLapsed, soloReq, soloSweep, soloRuns, soloReturned, soloTold,
          soloUnsaid, soloCrashes

soloVars == <<soloRow, soloLapsed, soloReq, soloSweep, soloRuns, soloReturned, soloTold,
              soloUnsaid, soloCrashes>>

Solo == INSTANCE PolicyConfirmations
    WITH Tokens <- SoloTokens, Requests <- {SoloRequest}, Sweepers <- {},
         Orphans <- SoloOrphans, OverCeiling <- SoloOverCeiling, MaxCrashes <- 0,
         row <- soloRow, lapsed <- soloLapsed, req <- soloReq, sweep <- soloSweep,
         runs <- soloRuns, returned <- soloReturned, told <- soloTold, unsaid <- soloUnsaid,
         crashes <- soloCrashes

\* One operator and no restart: the handler of a token runs at most once
\* (/confirm refuses a row that is not pending).
SoloRunsAtMostOnce == Solo!RunsAtMostOnce

\* One operator: an announced denial is a cancelled row whose handler was
\* never started (/cancel and /deny refuse a row that is not pending).
SoloDenialIsReal == Solo!DenialIsReal

\* The lifecycle of a token as an operator thinks of it.
Contract == INSTANCE OneShotConfirmation
    WITH Tokens   <- SoloTokens,
         status   <- [t \in SoloTokens |-> soloRow[t].status],
         executed <- soloRuns

\* With one request at a time, no sweep and no restart, the queue does
\* implement that contract: every step of a handler of
\* web_extras/routers/policy.py is a step of the contract or a stutter.
RefinesOneShot == Contract!OneShot
=============================================================================
