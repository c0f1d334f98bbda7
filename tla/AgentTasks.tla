----------------------------- MODULE AgentTasks -----------------------------
(***************************************************************************)
(* Tasks of agents: run_task of core/agents/runner.py, as the endpoint and *)
(* the autopilot call it, and the endpoint that cancels one, over the      *)
(* store's patch_task (core/agents/store.py), which reads the row, holds   *)
(* the change against VALID_TASK_TRANSITIONS, and writes it by the task's  *)
(* id alone.                                                               *)
(***************************************************************************)
EXTENDS Naturals

CONSTANTS
    Tasks,
    Callers,   \* calls in flight at a time
    MaxFaults  \* bound on restarts and on calls that break

VARIABLES
    task,    \* tasks.status
    caller,  \* where each call is suspended: its task, and the status it will write
    faults

vars == <<task, caller, faults>>

-----------------------------------------------------------------------------
\* "none": no such row. Nothing in the repository sets awaiting_confirmation.
Statuses == {"none", "pending", "running", "done", "failed", "cancelled"}

\* Mutant: a task that runs may not fail.
FollowersWithoutFailure == [none |-> {}, pending |-> {"running", "cancelled", "failed"},
                            running |-> {"done", "cancelled"},
                            done |-> {}, failed |-> {"pending"}, cancelled |-> {}]

\* VALID_TASK_TRANSITIONS
Followers == [none |-> {}, pending |-> {"running", "cancelled", "failed"},
              running |-> {"done", "failed", "cancelled"},
              done |-> {}, failed |-> {"pending"}, cancelled |-> {}]

Caller == [pc : {"idle", "select", "update", "deliberate"},
           task : Tasks, to : {"running", "done", "failed", "cancelled"}]

\* What the proofs assume of the constants.
Bounds == Tasks # {} /\ MaxFaults \in Nat

TypeOK ==
    /\ task \in [Tasks -> Statuses]
    /\ caller \in [Callers -> Caller]
    /\ faults \in 0..MaxFaults

SomeTask == CHOOSE t \in Tasks : TRUE

Idle == [pc |-> "idle", task |-> SomeTask, to |-> "running"]

Return(c) == caller' = [caller EXCEPT ![c] = Idle]

\* Call c is about to patch its task.
PatchTask(c, to) == caller' = [caller EXCEPT ![c].pc = "select", ![c].to = to]

Enter(c, t, to) ==
    /\ caller[c].pc = "idle"
    /\ caller' = [caller EXCEPT ![c] = [pc |-> "select", task |-> t, to |-> to]]

-----------------------------------------------------------------------------
Create(t) ==
    /\ task[t] = "none"
    /\ task' = [task EXCEPT ![t] = "pending"]
    /\ UNCHANGED <<caller, faults>>

\* run_task up to its first patch. The autopilot passes over failed tasks.
Run(c, t) ==
    /\ task[t] \in {"pending", "failed"}
    /\ Enter(c, t, "running")
    /\ UNCHANGED <<task, faults>>

Cancel(c, t) ==
    /\ task[t] \in {"pending", "running"}
    /\ Enter(c, t, "cancelled")
    /\ UNCHANGED <<task, faults>>

-----------------------------------------------------------------------------
(* patch_task                                                              *)

Valid(from, to) == to = from \/ to \in Followers[from]

\* What a raise out of patch_task comes to: run_task catches that of its last one
\* and patches the task to failed, any other ends the call.
Raise(c) == IF caller[c].to = "done" THEN PatchTask(c, "failed") ELSE Return(c)

Select(c) ==
    /\ caller[c].pc = "select"
    /\ IF Valid(task[caller[c].task], caller[c].to)
       THEN caller' = [caller EXCEPT ![c].pc = "update"]
       ELSE Raise(c)
    /\ UNCHANGED <<task, faults>>

Update(c) ==
    /\ caller[c].pc = "update"
    /\ task' = [task EXCEPT ![caller[c].task] = caller[c].to]
    /\ IF caller[c].to = "running" THEN caller' = [caller EXCEPT ![c].pc = "deliberate"]
                                   ELSE Return(c)
    /\ UNCHANGED faults

\* A broken database, neither the select nor the update being done; or, of a call about
\* to deliberate, an event whose ingest answers out of HTTP (emit is outside the try).
CallBreaks(c) ==
    /\ caller[c].pc \in {"select", "update", "deliberate"}
    /\ faults < MaxFaults
    /\ faults' = faults + 1
    /\ Raise(c)
    /\ UNCHANGED task

\* The council answers, or raises.
Deliberated(c) ==
    /\ caller[c].pc = "deliberate"
    /\ PatchTask(c, "done") \/ PatchTask(c, "failed")
    /\ UNCHANGED <<task, faults>>

\* Nothing takes up the tasks that were running.
Restart ==
    /\ faults < MaxFaults
    /\ faults' = faults + 1
    /\ caller' = [c \in Callers |-> Idle]
    /\ UNCHANGED task

Init ==
    /\ task = [t \in Tasks |-> "none"]
    /\ caller = [c \in Callers |-> Idle]
    /\ faults = 0

Next ==
    \/ Restart
    \/ \E t \in Tasks :
        \/ Create(t)
        \/ \E c \in Callers : Run(c, t) \/ Cancel(c, t)
    \/ \E c \in Callers : Select(c) \/ Update(c) \/ CallBreaks(c) \/ Deliberated(c)

Spec == Init /\ [][Next]_vars

-----------------------------------------------------------------------------
(* Properties                                                              *)

\* Call c has written that t is running and has not yet written what came of it.
RunsTask(c, t) ==
    /\ caller[c].task = t
    /\ \/ caller[c].pc = "deliberate"
       \/ caller[c].pc \in {"select", "update"} /\ caller[c].to \in {"done", "failed"}

\* A task that reads running is run by some call, which will write its outcome:
\* run_task "lands on done or failed" (runner.py:71), whichever runs and cancels
\* overlap, as long as no call breaks and the process lives.
RunningIsRun ==
    faults = 0 =>
        \A t \in Tasks : task[t] = "running" => \E c \in Callers : RunsTask(c, t)

\* What a call that has passed the check of the transition may still write over t.
Unwritten(t) == {caller[c].to : c \in {k \in Callers : caller[k].task = t
                                                       /\ caller[k].pc = "update"}}

\* Done or cancelled, and no call is between its read of another status and its
\* write.
Over(t) == task[t] \in {"done", "cancelled"} /\ Unwritten(t) \subseteq {task[t]}

\* Such a task is over for good: a restart, a failed write or a run that began before
\* do not change it (models.py has no transition out of either status).
OverForGood ==
    [][\A t \in Tasks : Over(t) => task'[t] = task[t] /\ Over(t)']_vars
=============================================================================
