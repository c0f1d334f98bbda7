----------------------- MODULE MCPolicyConfirmations -----------------------
(***************************************************************************)
(* The confirmation queue twice, side by side: under concurrent requests,  *)
(* sweeps and restarts (the variables of PolicyConfirmations), and under   *)
(* one request at a time (PolicyContract). The first state chooses what is *)
(* run: everybody about one token, one requester and one sweeper about a   *)
(* batch of tokens without a restart, or the one request at a time.        *)
(***************************************************************************)
EXTENDS PolicyContract

VARIABLE mode

\* The only token, requester and sweeper there is where there is only one.
FirstToken == CHOOSE t \in Tokens : TRUE
FirstRequest == CHOOSE r \in Requests : TRUE
FirstSweeper == CHOOSE s \in Sweepers : TRUE

MCInit ==
    /\ mode \in {"race", "batch", "solo"} /\ Init /\ Solo!Init
    /\ mode = "solo" \/ soloReq[SoloRequest].tok = (CHOOSE t \in SoloTokens : TRUE)
    /\ mode = "batch" \/ req[FirstRequest].tok = FirstToken

MCNext ==
    /\ UNCHANGED mode
    /\ \/ /\ mode = "race"
          /\ Next /\ UNCHANGED soloVars
          /\ \A t \in Tokens \ {FirstToken} : UNCHANGED row[t]
       \/ /\ mode = "batch"
          /\ Next /\ UNCHANGED soloVars
          /\ \A r \in Requests \ {FirstRequest} : UNCHANGED req[r]
          /\ \A s \in Sweepers \ {FirstSweeper} : UNCHANGED sweep[s]
          /\ UNCHANGED crashes
       \/ /\ mode = "solo"
          /\ Solo!Next /\ UNCHANGED vars

\* Nothing obliges the sweepers that a mode keeps idle.
MCSpec ==
    /\ MCInit /\ [][MCNext]_<<mode, vars, soloVars>>
    /\ \A s \in Sweepers : WF_vars(SweepStep(s) /\ (mode = "race" \/ s = FirstSweeper))
=============================================================================
