------------------------ MODULE OneShotConfirmation ------------------------
(***************************************************************************)
(* What an operator expects of a confirmation: it is staged once, its      *)
(* action is executed at most once and only while it is pending, and it is *)
(* resolved once.                                                          *)
(***************************************************************************)
CONSTANT Tokens

VARIABLES status, executed   \* token -> lifecycle status, executions begun

avars == <<status, executed>>

Verdicts == {"confirmed", "cancelled", "expired", "failed"}

AInit ==
    /\ status = [t \in Tokens |-> "none"]
    /\ executed = [t \in Tokens |-> 0]

AStage(t) ==
    /\ status[t] = "none"
    /\ status' = [status EXCEPT ![t] = "pending"]
    /\ UNCHANGED executed

AExecute(t) ==
    /\ status[t] = "pending"
    /\ executed[t] = 0
    /\ executed' = [executed EXCEPT ![t] = 1]
    /\ UNCHANGED status

AResolve(t) ==
    /\ status[t] = "pending"
    /\ \E v \in Verdicts :
         /\ v \in {"cancelled", "expired"} => executed[t] = 0
         /\ status' = [status EXCEPT ![t] = v]
    /\ UNCHANGED executed

ANext == \E t \in Tokens : AStage(t) \/ AExecute(t) \/ AResolve(t)

OneShot == AInit /\ [][ANext]_avars
=============================================================================
