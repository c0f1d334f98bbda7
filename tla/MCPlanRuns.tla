----------------------------- MODULE MCPlanRuns -----------------------------
(***************************************************************************)
(* The planner twice, side by side: under concurrent requests and restarts *)
(* (the variables of PlanRuns), and under one request at a time            *)
(* (PlanContract). The first state chooses which of the two runs.          *)
(***************************************************************************)
EXTENDS PlanContract

VARIABLE solo

MCInit ==
    /\ solo \in BOOLEAN /\ Init /\ Solo!Init
    /\ solo \/ soloReq[SoloRequest].plan = (CHOOSE p \in SoloPlans : TRUE)

MCNext ==
    \/ ~solo /\ Next /\ UNCHANGED soloVars /\ UNCHANGED solo
    \/ solo /\ Solo!Next /\ UNCHANGED vars /\ UNCHANGED solo

MCSpec ==
    /\ MCInit /\ [][MCNext]_<<solo, vars, soloVars>>
    /\ \A r \in Requests : WF_vars(RequestStep(r))
=============================================================================
