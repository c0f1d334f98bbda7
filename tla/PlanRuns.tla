------------------------------ MODULE PlanRuns ------------------------------
(***************************************************************************)
(* Operator plans: rows of the sqlite table `plans`                        *)
(* (backend/core/planner/store.py), run group by group by PlanRunner       *)
(* (backend/core/planner/runner.py) and steered by the handlers of         *)
(* web_extras/routers/planner.py.                                          *)
(*                                                                         *)
(* PlannerStore._set_status_sync is a SELECT and an UPDATE that no         *)
(* transaction joins (sqlite3's implicit BEGIN comes with the UPDATE), so  *)
(* other store threads run between the two.                                *)
(***************************************************************************)
EXTENDS Naturals, FiniteSets

CONSTANTS
    Plans,      \* plan ids a run may insert
    Requests,   \* HTTP requests in flight at the same time
    NoRun,      \* the registry has no entry for a plan
    Orphan,     \* the registry holds an entry whose run is over
    Groups,     \* execution groups of a plan
    MaxCrashes  \* bound on process restarts

ASSUME PlanAssumption ==
    /\ NoRun \notin Requests /\ Orphan \notin Requests /\ Orphan # NoRun
    /\ Groups \in Nat \ {0}
    /\ MaxCrashes \in Nat

VARIABLES
    status,    \* plan -> the status column of its row
    reg,       \* PlanRunRegistry: plan -> the request whose run it holds
    flagged,   \* requests whose run's abort event is set
    req,       \* request -> where it is suspended, and its locals
    ran,       \* plans some group of which was started
    through,   \* plans some run of which went through every group
    blessed,   \* plans somebody approved
    asked,     \* plans an abort was accepted for
    lost,      \* plans a run of which was cut off since their row was last
               \* written: by a client.emit that raised, or by a restart
    crashes

vars == <<status, reg, flagged, req, ran, through, blessed, asked, lost, crashes>>

-----------------------------------------------------------------------------
(* Types                                                                   *)

\* PlanStatus.terminal().
Terminal == {"completed", "aborted", "rejected"}
Live == {"proposed", "approved", "running"}

\* Before the insert, after the delete.
NoRow == {"none", "gone"}
Status == NoRow \union Live \union Terminal

Pc == {"idle", "entering", "check", "select", "update", "register",
       "groups", "running"}

\* Where set_status returns to: a handler's or a run's end (which only emit
\* events), the run of a rerun, or the runner's entry.
After == {"idle", "entering", "register"}

RequestState == [pc : Pc, plan : Plans, target : Live \union Terminal,
                 after : After, left : 0..Groups, stopped : BOOLEAN]

TypeOK ==
    /\ status \in [Plans -> Status]
    /\ reg \in [Plans -> Requests \union {NoRun, Orphan}]
    /\ flagged \subseteq Requests
    /\ req \in [Requests -> RequestState]
    /\ ran \subseteq Plans
    /\ through \subseteq Plans
    /\ blessed \subseteq Plans
    /\ asked \subseteq Plans
    /\ lost \subseteq Plans
    /\ crashes \in Nat

-----------------------------------------------------------------------------
(* Control of a request                                                    *)

At(r, pc) == req[r].pc = pc
Plan(r) == req[r].plan

Idle(p) == [pc |-> "idle", plan |-> p, target |-> "approved", after |-> "idle",
            left |-> 0, stopped |-> FALSE]

Goto(r, pc) ==
    req' = [req EXCEPT ![r] = IF pc = "idle" THEN Idle(Plan(r)) ELSE [@ EXCEPT !.pc = pc]]

\* `await store.set_status(plan, target)`, then on to after.
CallSetStatus(r, p, target, after) ==
    req' = [req EXCEPT ![r] = [pc |-> "select", plan |-> p, target |-> target,
                               after |-> after, left |-> 0, stopped |-> FALSE]]

Begin(r, pc, p) == req' = [req EXCEPT ![r] = [Idle(p) EXCEPT !.pc = pc]]

\* The run of r is past its registry check, up to its last status change.
Owns(r) ==
    \/ req[r].pc \in {"register", "groups", "running"}
    \/ req[r].pc \in {"select", "update"} /\ req[r].target \in {"running", "completed", "aborted"}

-----------------------------------------------------------------------------
(* PlannerStore.set_status                                                 *)

\* No row: the runner's entry raises status_update_failed.
NoneReturned(r) == IF req[r].after = "register" THEN "idle" ELSE req[r].after

\* A terminal status is refused silently: the row is returned all the same.
SetStatusSelect(r) ==
    LET current == status[Plan(r)]
    IN  /\ At(r, "select")
        /\ Goto(r, IF current \in NoRow THEN NoneReturned(r)
                   ELSE IF current \in Terminal /\ current # req[r].target
                        THEN req[r].after
                   ELSE "update")
        /\ UNCHANGED <<status, reg, flagged, ran, through, blessed, asked, lost, crashes>>

\* UPDATE ... WHERE id = ?, whatever the status has become.
SetStatusUpdate(r) ==
    /\ At(r, "update")
    /\ IF status[Plan(r)] \in NoRow
       THEN Goto(r, NoneReturned(r)) /\ UNCHANGED <<status, blessed, lost>>
       ELSE /\ status' = [status EXCEPT ![Plan(r)] = req[r].target]
            /\ blessed' = IF req[r].target = "approved"
                          THEN blessed \union {Plan(r)} ELSE blessed
            /\ lost' = lost \ {Plan(r)}
            /\ Goto(r, req[r].after)
    /\ UNCHANGED <<reg, flagged, ran, through, asked, crashes>>

-----------------------------------------------------------------------------
(* The handlers of web_extras/routers/planner.py                           *)

\* POST /plan, POST /{plan}/clone: a fresh proposed row.
Insert(p) ==
    /\ status[p] = "none"
    /\ status' = [status EXCEPT ![p] = "proposed"]
    /\ UNCHANGED <<reg, flagged, req, ran, through, blessed, asked, lost, crashes>>

\* DELETE /{plan}, in any status.
Delete(p) ==
    /\ status[p] \notin NoRow
    /\ status' = [status EXCEPT ![p] = "gone"]
    /\ UNCHANGED <<reg, flagged, req, ran, through, blessed, asked, lost, crashes>>

\* POST /{plan}/status with approved or rejected, of a row read as not terminal.
StatusRead(r, p, target) ==
    /\ At(r, "idle")
    /\ status[p] \in Live
    /\ target \in {"approved", "rejected"}
    /\ CallSetStatus(r, p, target, "idle")
    /\ UNCHANGED <<status, reg, flagged, ran, through, blessed, asked, lost, crashes>>

\* POST /{plan}/rerun: a clone, approved and run by the same request.
Rerun(r, p, clone) ==
    /\ At(r, "idle")
    /\ status[p] \notin NoRow
    /\ status[clone] = "none"
    /\ status' = [status EXCEPT ![clone] = "proposed"]
    /\ CallSetStatus(r, clone, "approved", "entering")
    /\ UNCHANGED <<reg, flagged, ran, through, blessed, asked, lost, crashes>>

\* POST /{plan}/abort: the check and the flip are one step; 404 otherwise.
\* Nobody looks at the event of an orphaned entry.
Abort(p) ==
    /\ reg[p] # NoRun
    /\ flagged' = flagged \union ({reg[p]} \ {Orphan})
    /\ asked' = asked \union {p}
    /\ UNCHANGED <<status, reg, req, ran, through, blessed, lost, crashes>>

-----------------------------------------------------------------------------
(* PlanRunner.run                                                          *)

RunBegin(r, p) ==
    /\ At(r, "idle")
    /\ status[p] \notin NoRow
    /\ Begin(r, "entering", p)
    /\ UNCHANGED <<status, reg, flagged, ran, through, blessed, asked, lost, crashes>>

\* Mutant: a proposed plan may run.
RunReadProposed(r) ==
    /\ At(r, "entering")
    /\ Goto(r, IF status[Plan(r)] \in {"proposed", "approved"} THEN "check" ELSE "idle")
    /\ UNCHANGED <<status, reg, flagged, ran, through, blessed, asked, lost, crashes>>

\* Mutant: an aborted plan may be resumed.
RunReadAborted(r) ==
    /\ At(r, "entering")
    /\ Goto(r, IF status[Plan(r)] \in {"aborted", "approved"} THEN "check" ELSE "idle")
    /\ UNCHANGED <<status, reg, flagged, ran, through, blessed, asked, lost, crashes>>

\* plan_not_found, plan_not_runnable.
RunRead(r) ==
    /\ At(r, "entering")
    /\ Goto(r, IF status[Plan(r)] = "approved" THEN "check" ELSE "idle")
    /\ UNCHANGED <<status, reg, flagged, ran, through, blessed, asked, lost, crashes>>

\* Mutant: without plan_already_running.
RunCheckSkipped(r) ==
    /\ At(r, "check")
    /\ CallSetStatus(r, Plan(r), "running", "register")
    /\ UNCHANGED <<status, reg, flagged, ran, through, blessed, asked, lost, crashes>>

\* plan_already_running, or on to the status change.
RunCheck(r) ==
    /\ At(r, "check")
    /\ IF reg[Plan(r)] # NoRun THEN Goto(r, "idle")
       ELSE CallSetStatus(r, Plan(r), "running", "register")
    /\ UNCHANGED <<status, reg, flagged, ran, through, blessed, asked, lost, crashes>>

\* A fresh event replaces whatever entry the registry has.
RunRegister(r) ==
    /\ At(r, "register")
    /\ reg' = [reg EXCEPT ![Plan(r)] = r]
    /\ flagged' = flagged \ {r}
    /\ req' = [req EXCEPT ![r].pc = "groups", ![r].left = Groups]
    /\ UNCHANGED <<status, ran, through, blessed, asked, lost, crashes>>

\* Between two groups: the abort event, or the next group.
GroupBegin(r) ==
    /\ At(r, "groups")
    /\ req[r].left > 0
    /\ ~req[r].stopped
    /\ IF r \in flagged
       THEN req' = [req EXCEPT ![r].stopped = TRUE] /\ UNCHANGED ran
       ELSE Goto(r, "running") /\ ran' = ran \union {Plan(r)}
    /\ UNCHANGED <<status, reg, flagged, through, blessed, asked, lost, crashes>>

\* Every step of the group has ended; a blocked or failed one may stop the run.
GroupEnd(r) ==
    /\ At(r, "running")
    /\ \E stop \in BOOLEAN :
         /\ req' = [req EXCEPT ![r].pc = "groups", ![r].left = @ - 1, ![r].stopped = stop]
         /\ through' = IF req[r].left = 1 /\ ~stop
                       THEN through \union {Plan(r)} ELSE through
    /\ UNCHANGED <<status, reg, flagged, ran, blessed, asked, lost, crashes>>

\* Mutant: only the operator's abort is an abort.
RunCloseOptimistic(r) ==
    /\ At(r, "groups")
    /\ req[r].left = 0 \/ req[r].stopped
    /\ reg' = [reg EXCEPT ![Plan(r)] = NoRun]
    /\ CallSetStatus(r, Plan(r), IF r \in flagged THEN "aborted" ELSE "completed", "idle")
    /\ UNCHANGED <<status, flagged, ran, through, blessed, asked, lost, crashes>>

\* Mutant: an aborted run returns without writing its outcome.
RunCloseSilent(r) ==
    /\ At(r, "groups")
    /\ req[r].left = 0 \/ req[r].stopped
    /\ reg' = [reg EXCEPT ![Plan(r)] = NoRun]
    /\ IF req[r].stopped THEN Goto(r, "idle")
       ELSE CallSetStatus(r, Plan(r), "completed", "idle")
    /\ UNCHANGED <<status, flagged, ran, through, blessed, asked, lost, crashes>>

\* The plan's entry is dropped, whichever run it belongs to, and the outcome
\* is written.
RunClose(r) ==
    /\ At(r, "groups")
    /\ req[r].left = 0 \/ req[r].stopped
    /\ reg' = [reg EXCEPT ![Plan(r)] = NoRun]
    /\ CallSetStatus(r, Plan(r), IF req[r].stopped THEN "aborted" ELSE "completed", "idle")
    /\ UNCHANGED <<status, flagged, ran, through, blessed, asked, lost, crashes>>

\* client.emit raises what its HTTP call raises, but for URLError, TimeoutError
\* and OSError: the request ends where it stands, and nobody writes the row.
CutOff(r) ==
    /\ Goto(r, "idle")
    /\ lost' = lost \union {Plan(r)}
    /\ UNCHANGED <<status, flagged, ran, through, blessed, asked, crashes>>

\* plan.run.started comes after the registration and before the try: its
\* entry outlives the run.
RunStartRaises(r) ==
    /\ At(r, "groups")
    /\ req[r].left = Groups /\ ~req[r].stopped
    /\ reg' = [reg EXCEPT ![Plan(r)] = IF @ = r THEN Orphan ELSE @]
    /\ CutOff(r)

\* Something raised among the groups, or among the events of the skipped ones,
\* and then plan.run.exception did too: the entry goes, the outcome is not
\* written.
RunExceptionRaises(r) ==
    /\ \/ At(r, "running")
       \/ At(r, "groups") /\ req[r].stopped /\ req[r].left > 0
    /\ reg' = [reg EXCEPT ![Plan(r)] = NoRun]
    /\ CutOff(r)

-----------------------------------------------------------------------------
\* A restart forgets every request and the registry; the rows survive.
Crash ==
    /\ crashes < MaxCrashes
    /\ crashes' = crashes + 1
    /\ req' = [r \in Requests |-> Idle(Plan(r))]
    /\ reg' = [p \in Plans |-> NoRun]
    /\ flagged' = {}
    /\ lost' = lost \union {p \in Plans : status[p] = "running"}
    /\ UNCHANGED <<status, ran, through, blessed, asked>>

Init ==
    /\ status = [p \in Plans |-> "none"]
    /\ reg = [p \in Plans |-> NoRun]
    /\ flagged = {}
    /\ \E p \in Plans : req = [r \in Requests |-> Idle(p)]
    /\ ran = {}
    /\ through = {}
    /\ blessed = {}
    /\ asked = {}
    /\ lost = {}
    /\ crashes = 0

\* What a request does once it has begun.
RequestStep(r) ==
    \/ SetStatusSelect(r) \/ SetStatusUpdate(r)
    \/ RunRead(r) \/ RunCheck(r) \/ RunRegister(r)
    \/ GroupBegin(r) \/ GroupEnd(r) \/ RunClose(r)

Arrive(r) ==
    \E p \in Plans :
        \/ \E target \in {"approved", "rejected"} : StatusRead(r, p, target)
        \/ \E clone \in Plans : Rerun(r, p, clone)
        \/ RunBegin(r, p)

Next ==
    \/ \E r \in Requests :
         RequestStep(r) \/ Arrive(r) \/ RunStartRaises(r) \/ RunExceptionRaises(r)
    \/ \E p \in Plans : Insert(p) \/ Delete(p) \/ Abort(p)
    \/ Crash

Spec == Init /\ [][Next]_vars

\* Every await of a request returns and every step of a plan ends.
FairSpec == Spec /\ \A r \in Requests : WF_vars(RequestStep(r))

-----------------------------------------------------------------------------
(* Properties                                                              *)

\* Plans a request holds between its entry of the registry and its last group.
Executing ==
    {p \in Plans : \E r \in Requests :
                       Plan(r) = p /\ req[r].pc \in {"register", "groups", "running"}}

\* A plan that reads "completed" went through all its groups in one run,
\* whatever other runs, aborts and status changes interfered.
CompletedRanThrough ==
    \A p \in Plans : status[p] = "completed" => p \in through

\* No step of a plan runs that was not approved first.
RanWasApproved == ran \subseteq blessed

\* A row that reads "running" has a run that will still write its outcome,
\* unless a restart or an event that raised cut a run of it off since the row
\* was last written; nothing reaps the rows it does so to.
RunningHasARun ==
    \A p \in Plans : status[p] = "running" =>
        \/ \E r \in Requests : Plan(r) = p /\ Owns(r)
        \/ p \in lost

\* An entry of the registry is that of a run among its groups, or was left
\* behind by a run whose first event raised; no other run that is over is
\* still offered an abort.
RegistryIsLive ==
    \A p \in Plans : reg[p] \in Requests =>
        Plan(reg[p]) = p /\ req[reg[p]].pc \in {"groups", "running"}

\* The run of r is the only one of its plan, and registered.
Sole(r) ==
    /\ reg[Plan(r)] = r
    /\ \A s \in Requests \ {r} : Plan(s) = Plan(r) => ~Owns(s)

\* A run that is alone stays alone until it closes or is cut off, and once its
\* abort was accepted it starts no further group.
SoleRunStaysSole ==
    [][\A r \in Requests : Sole(r) =>
         /\ Sole(r)' \/ reg'[Plan(r)] \in {NoRun, Orphan}
         /\ r \in flagged /\ ~At(r, "running") => ~At(r, "running")']_vars

\* A run that has begun ends, and its row does not stay "running", unless a
\* restart or an event that raised cuts it off.
RunningIsTemporary ==
    \A p \in Plans :
        (status[p] = "running" /\ p \notin lost) ~> (status[p] # "running" \/ p \in lost)

\* "the runner stops between groups and persists status=aborted" (the abort
\* endpoint): an accepted abort does not end in "completed".
AbortPersists ==
    \A p \in Plans : p \in asked => status[p] # "completed"
=============================================================================
