--------------------------- MODULE PlanLifecycle ---------------------------
(***************************************************************************)
(* What an operator expects of a plan: it runs after an approval, it reads *)
(* "running" until that run is over, it ends as "completed" exactly when   *)
(* the run went through all its groups, and that is final. A run may also  *)
(* be cut off: its row reads "running" until somebody decides anew.        *)
(***************************************************************************)
CONSTANT Plans

VARIABLES status,    \* plan -> its lifecycle status
          executing, \* plans whose groups are being run
          ran,       \* plans some group of which was started
          through,   \* plans whose run went through every group
          lost       \* plans whose last run was cut off

lvars == <<status, executing, ran, through, lost>>

LInit ==
    /\ status = [p \in Plans |-> "none"]
    /\ executing = {}
    /\ ran = {}
    /\ through = {}
    /\ lost = {}

LInsert(p) ==
    /\ status[p] = "none"
    /\ status' = [status EXCEPT ![p] = "proposed"]
    /\ UNCHANGED <<executing, ran, through, lost>>

\* A plan that never ran, or whose run was cut off, is approved or rejected.
LDecide(p) ==
    /\ \/ status[p] \in {"proposed", "approved"}
       \/ status[p] = "running" /\ p \in lost
    /\ \E s \in {"approved", "rejected"} : status' = [status EXCEPT ![p] = s]
    /\ lost' = lost \ {p}
    /\ UNCHANGED <<executing, ran, through>>

LDelete(p) ==
    /\ status[p] # "none"
    /\ status' = [status EXCEPT ![p] = "gone"]
    /\ UNCHANGED <<executing, ran, through, lost>>

LStart(p) ==
    /\ status[p] = "approved"
    /\ p \notin executing \union through
    /\ status' = [status EXCEPT ![p] = "running"]
    /\ executing' = executing \union {p}
    /\ lost' = lost \ {p}
    /\ UNCHANGED <<ran, through>>

\* A deleted plan's run goes on to its end.
LGroup(p) ==
    /\ p \in executing
    /\ ran' = ran \union {p}
    /\ through' \in {through, through \union {p}}
    /\ UNCHANGED <<status, executing, lost>>

LStop(p) ==
    /\ p \in executing
    /\ executing' = executing \ {p}
    /\ UNCHANGED <<status, ran, through, lost>>

\* The run is over, and no outcome will be written.
LLose(p) ==
    /\ p \in executing
    /\ p \notin through
    /\ executing' = executing \ {p}
    /\ lost' = lost \union {p}
    /\ UNCHANGED <<status, ran, through>>

LOutcome(p) ==
    /\ status[p] = "running"
    /\ p \notin executing \union lost
    /\ status' = [status EXCEPT ![p] = IF p \in through THEN "completed" ELSE "aborted"]
    /\ UNCHANGED <<executing, ran, through, lost>>

LNext ==
    \E p \in Plans :
        \/ LInsert(p) \/ LDecide(p) \/ LDelete(p)
        \/ LStart(p) \/ LGroup(p) \/ LStop(p) \/ LLose(p) \/ LOutcome(p)

Lifecycle == LInit /\ [][LNext]_lvars
=============================================================================
