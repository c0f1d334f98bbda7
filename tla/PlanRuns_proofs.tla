-------------------------- MODULE PlanRuns_proofs --------------------------
(***************************************************************************)
(* Proofs about PlanRuns: type correctness, the inductive invariant behind *)
(* its safety properties, and the action property of a sole run.           *)
(***************************************************************************)
EXTENDS PlanRuns, TLAPS

LEMMA IdleType == \A p \in Plans : Idle(p) \in RequestState
BY PlanAssumption DEF Idle, RequestState, Pc, Live, Terminal, After

LEMMA TypeInit == Init => TypeOK
BY IdleType DEF Init, TypeOK, Status, NoRow

LEMMA GotoType ==
    ASSUME TypeOK, NEW r \in Requests, NEW pc \in Pc, Goto(r, pc)
    PROVE  req' \in [Requests -> RequestState]
<1>1. req[r] \in RequestState /\ Idle(Plan(r)) \in RequestState
  BY IdleType DEF TypeOK, Plan, RequestState
<1>2. [req[r] EXCEPT !.pc = pc] \in RequestState
  BY <1>1 DEF RequestState
<1> QED
  BY <1>1, <1>2 DEF Goto, TypeOK

LEMMA CallType ==
    ASSUME TypeOK, NEW r \in Requests, NEW p \in Plans,
           NEW target \in Live \union Terminal, NEW after \in After,
           CallSetStatus(r, p, target, after)
    PROVE  req' \in [Requests -> RequestState]
BY PlanAssumption DEF CallSetStatus, TypeOK, RequestState, Pc

LEMMA TypeStep == TypeOK /\ [Next]_vars => TypeOK'
<1> SUFFICES ASSUME TypeOK, [Next]_vars PROVE TypeOK'
    OBVIOUS
<1> USE DEF TypeOK
<1>1. ASSUME NEW r \in Requests, RequestStep(r) PROVE TypeOK'
  <2>0. /\ req[r] \in RequestState /\ Plan(r) \in Plans
        /\ req[r].after \in Pc /\ NoneReturned(r) \in Pc
    BY DEF RequestState, Plan, After, Pc, NoneReturned
  <2>1. CASE SetStatusSelect(r)
    BY <2>0, <2>1, GotoType DEF SetStatusSelect, Pc
  <2>2. CASE SetStatusUpdate(r)
    <3>1. req' \in [Requests -> RequestState]
      BY <2>0, <2>2, GotoType DEF SetStatusUpdate
    <3>2. status' \in [Plans -> Status] /\ blessed' \subseteq Plans
      BY <2>0, <2>2 DEF SetStatusUpdate, RequestState, Status
    <3> QED
      BY <2>2, <3>1, <3>2 DEF SetStatusUpdate
  <2>3. CASE RunRead(r)
    <3>1. (IF status[Plan(r)] = "approved" THEN "check" ELSE "idle") \in Pc
      BY DEF Pc
    <3> QED
      BY <2>3, <3>1, GotoType DEF RunRead
  <2>4. CASE RunCheck(r)
    <3>1. CASE reg[Plan(r)] # NoRun
      <4>1. "idle" \in Pc
        BY DEF Pc
      <4> QED
        BY <2>4, <3>1, <4>1, GotoType DEF RunCheck
    <3>2. CASE reg[Plan(r)] = NoRun
      BY <2>0, <2>4, <3>2, CallType DEF RunCheck, Live, After
    <3> QED
      BY <3>1, <3>2
  <2>5. CASE RunRegister(r)
    <3>1. Groups \in 0..Groups /\ "groups" \in Pc
      BY PlanAssumption DEF Pc
    <3>2. req' \in [Requests -> RequestState]
      BY <2>0, <2>5, <3>1 DEF RunRegister, RequestState
    <3> QED
      BY <2>0, <2>5, <3>2 DEF RunRegister
  <2>6. CASE GroupBegin(r)
    <3>1. [req[r] EXCEPT !.stopped = TRUE] \in RequestState
      BY <2>0 DEF RequestState
    <3>2. req' \in [Requests -> RequestState]
      BY <2>0, <2>6, <3>1, GotoType DEF GroupBegin, Pc
    <3> QED
      BY <2>0, <2>6, <3>2 DEF GroupBegin
  <2>7. CASE GroupEnd(r)
    BY <2>0, <2>7, PlanAssumption DEF GroupEnd, RequestState, Pc
  <2>8. CASE RunClose(r)
    BY <2>0, <2>8, CallType DEF RunClose, Terminal, After
  <2> QED
    BY <1>1, <2>1, <2>2, <2>3, <2>4, <2>5, <2>6, <2>7, <2>8 DEF RequestStep
<1>2. ASSUME NEW r \in Requests, Arrive(r) PROVE TypeOK'
  <2>1. ASSUME NEW p \in Plans, NEW target \in {"approved", "rejected"},
               StatusRead(r, p, target)
        PROVE  TypeOK'
    BY <2>1, CallType DEF StatusRead, Live, Terminal, After
  <2>2. ASSUME NEW p \in Plans, NEW clone \in Plans, Rerun(r, p, clone)
        PROVE  TypeOK'
    BY <2>2, CallType DEF Rerun, Live, Status, After
  <2>3. ASSUME NEW p \in Plans, RunBegin(r, p) PROVE TypeOK'
    <3>1. [Idle(p) EXCEPT !.pc = "entering"] \in RequestState
      BY IdleType DEF RequestState, Pc
    <3> QED
      BY <2>3, <3>1 DEF RunBegin, Begin
  <2> QED
    BY <1>2, <2>1, <2>2, <2>3 DEF Arrive
<1>3. ASSUME NEW p \in Plans, Insert(p) \/ Delete(p) \/ Abort(p) PROVE TypeOK'
  BY <1>3 DEF Insert, Delete, Abort, Status, Live, NoRow
<1>4. CASE Crash
  <2>1. \A r \in Requests : Idle(Plan(r)) \in RequestState
    BY IdleType DEF Plan, RequestState
  <2> QED
    BY <1>4, <2>1 DEF Crash
<1>5. CASE UNCHANGED vars
  BY <1>5 DEF vars
<1>6. ASSUME NEW r \in Requests, RunStartRaises(r) \/ RunExceptionRaises(r) PROVE TypeOK'
  <2>1. "idle" \in Pc /\ Plan(r) \in Plans /\ r \in Requests
    BY DEF Pc, Plan, RequestState
  <2>2. req' \in [Requests -> RequestState]
    BY <1>6, <2>1, GotoType DEF RunStartRaises, RunExceptionRaises, CutOff
  <2> QED
    BY <1>6, <2>1, <2>2 DEF RunStartRaises, RunExceptionRaises, CutOff
<1> QED
  BY <1>1, <1>2, <1>3, <1>4, <1>5, <1>6 DEF Next

\* The variables stay in their types in every behaviour.
THEOREM TypeCorrect == Spec => []TypeOK
BY TypeInit, TypeStep, PTL DEF Spec

-----------------------------------------------------------------------------
(* The inductive invariant: what each suspended request already knows.     *)

\* Past its registry check and not yet in its groups.
Marking(r) == req[r].pc \in {"select", "update"} /\ req[r].target = "running"
InRun(r) == req[r].pc \in {"register", "groups", "running"}
Closing(r) == req[r].pc \in {"select", "update"} /\ req[r].target \in {"completed", "aborted"}

\* Only the runner asks for "running", and only it goes on to register.
EntryOnly ==
    \A r \in Requests : req[r].pc \in {"select", "update"} =>
        (req[r].after = "register" <=> req[r].target = "running")

\* Whoever is about to run a plan, or may be, found it approved.
Blessed ==
    /\ \A p \in Plans : status[p] = "approved" => p \in blessed
    /\ \A r \in Requests :
         req[r].pc \in {"check", "register", "groups", "running"} \/ Marking(r) =>
             Plan(r) \in blessed

\* Where a run stands among its groups.
Progress ==
    \A r \in Requests :
        /\ req[r].pc = "running" => req[r].left > 0 /\ ~req[r].stopped
        /\ req[r].pc = "groups" /\ req[r].left = 0 /\ ~req[r].stopped =>
             Plan(r) \in through
        /\ req[r].pc \in {"select", "update"} /\ req[r].target = "completed" =>
             Plan(r) \in through

IInv ==
    /\ TypeOK
    /\ EntryOnly /\ Blessed /\ Progress
    /\ RanWasApproved /\ CompletedRanThrough /\ RunningHasARun /\ RegistryIsLive

LEMMA IInvInit == Init => IInv
<1> SUFFICES ASSUME Init PROVE IInv
    OBVIOUS
<1>1. TypeOK
  BY TypeInit
<1>2. /\ \A r \in Requests : req[r].pc = "idle"
      /\ \A p \in Plans : status[p] = "none" /\ reg[p] = NoRun
  BY DEF Init, Idle
<1> QED
  BY <1>1, <1>2, PlanAssumption DEF Init, IInv, EntryOnly, Blessed, Progress, Marking, RanWasApproved,
     CompletedRanThrough, RunningHasARun, RegistryIsLive

\* What a request's own step does to its record; the other records stay.
LEMMA Moves ==
    ASSUME TypeOK, NEW r \in Requests, RequestStep(r) \/ Arrive(r)
    PROVE  \A s \in Requests \ {r} : req'[s] = req[s]
<1>1. CASE RequestStep(r)
  BY <1>1 DEF TypeOK, RequestStep, SetStatusSelect, SetStatusUpdate, RunRead, RunCheck,
     RunRegister, GroupBegin, GroupEnd, RunClose, Goto, CallSetStatus
<1>2. CASE Arrive(r)
  BY <1>2 DEF TypeOK, Arrive, StatusRead, Rerun, RunBegin, Begin, CallSetStatus
<1> QED
  BY <1>1, <1>2

LEMMA GotoEffect ==
    ASSUME TypeOK, NEW r \in Requests, NEW pc \in Pc, Goto(r, pc)
    PROVE  /\ req'[r].pc = pc /\ req'[r].plan = req[r].plan
           /\ pc # "idle" => /\ req'[r].target = req[r].target
                            /\ req'[r].after = req[r].after
                            /\ req'[r].left = req[r].left
                            /\ req'[r].stopped = req[r].stopped
<1>1. req[r] \in RequestState
  BY DEF TypeOK
<1>2. CASE pc = "idle"
  BY <1>1, <1>2 DEF Goto, TypeOK, Idle, Plan
<1>3. CASE pc # "idle"
  BY <1>1, <1>3 DEF Goto, TypeOK, RequestState
<1> QED
  BY <1>2, <1>3

\* A run that is cut off leaves its request idle, its row as it was, and no
\* entry of its own in the registry.
LEMMA CutOffEffect ==
    ASSUME TypeOK, NEW r \in Requests, RunStartRaises(r) \/ RunExceptionRaises(r)
    PROVE  /\ InRun(r) /\ Plan(r) \in Plans
           /\ req'[r].pc = "idle" /\ req'[r].plan = req[r].plan
           /\ \A s \in Requests \ {r} : req'[s] = req[s]
           /\ lost' = lost \union {Plan(r)}
           /\ \A p \in Plans \ {Plan(r)} : reg'[p] = reg[p]
           /\ reg'[Plan(r)] # r
           /\ reg'[Plan(r)] \in {reg[Plan(r)], NoRun, Orphan}
           /\ UNCHANGED <<status, flagged, ran, through, blessed, crashes>>
<1>1. req[r] \in RequestState /\ Plan(r) \in Plans /\ "idle" \in Pc
  BY DEF TypeOK, RequestState, Plan, Pc
<1>2. CutOff(r) /\ InRun(r)
  BY DEF RunStartRaises, RunExceptionRaises, At, InRun
<1>3. Goto(r, "idle") /\ lost' = lost \union {Plan(r)}
      /\ UNCHANGED <<status, flagged, ran, through, blessed, crashes>>
  BY <1>2 DEF CutOff
<1>4. req'[r].pc = "idle" /\ req'[r].plan = req[r].plan
  BY <1>1, <1>3, GotoEffect
<1>5. \A s \in Requests \ {r} : req'[s] = req[s]
  BY <1>3 DEF Goto, TypeOK
<1>6. \/ reg' = [reg EXCEPT ![Plan(r)] = IF @ = r THEN Orphan ELSE @]
      \/ reg' = [reg EXCEPT ![Plan(r)] = NoRun]
  BY DEF RunStartRaises, RunExceptionRaises
<1>7. /\ \A p \in Plans \ {Plan(r)} : reg'[p] = reg[p]
      /\ reg'[Plan(r)] # r
      /\ reg'[Plan(r)] \in {reg[Plan(r)], NoRun, Orphan}
  BY <1>1, <1>6, PlanAssumption DEF TypeOK
<1> QED
  BY <1>1, <1>2, <1>3, <1>4, <1>5, <1>7

LEMMA CallEffect ==
    ASSUME TypeOK, NEW r \in Requests, NEW p, NEW target, NEW after,
           CallSetStatus(r, p, target, after)
    PROVE  /\ req'[r].pc = "select" /\ req'[r].plan = p
           /\ req'[r].target = target /\ req'[r].after = after
BY DEF TypeOK, CallSetStatus

LEMMA BeginEffect ==
    ASSUME TypeOK, NEW r \in Requests, NEW p \in Plans, Begin(r, "entering", p)
    PROVE  req'[r].pc = "entering" /\ req'[r].plan = p
<1>1. Idle(p) \in RequestState
  BY IdleType
<1>2. [Idle(p) EXCEPT !.pc = "entering"].pc = "entering"
  BY <1>1 DEF RequestState
<1>3. [Idle(p) EXCEPT !.pc = "entering"].plan = p
  BY DEF Idle
<1> QED
  BY <1>2, <1>3 DEF Begin, TypeOK

\* One statement of what every step of a request does to its record.
Effect(r) ==
    \/ /\ SetStatusSelect(r) \/ SetStatusUpdate(r)
       /\ req'[r].plan = req[r].plan
       /\ \/ /\ req'[r].pc = "update" /\ SetStatusSelect(r)
             /\ req'[r].target = req[r].target /\ req'[r].after = req[r].after
          \/ req'[r].pc = req[r].after
          \/ req'[r].pc = "idle"
    \/ /\ RunRead(r)
       /\ req'[r].plan = req[r].plan
       /\ \/ req'[r].pc = "check" /\ status[Plan(r)] = "approved"
          \/ req'[r].pc = "idle"
    \/ /\ RunCheck(r)
       /\ req'[r].plan = req[r].plan
       /\ \/ req'[r].pc = "idle"
          \/ /\ reg[Plan(r)] = NoRun
             /\ req'[r].pc = "select" /\ req'[r].target = "running"
             /\ req'[r].after = "register"
    \/ /\ RunRegister(r)
       /\ req'[r].plan = req[r].plan /\ req'[r].pc = "groups" /\ req'[r].left = Groups
    \/ /\ GroupBegin(r)
       /\ req'[r].plan = req[r].plan
       /\ req'[r].left = req[r].left
       /\ \/ req'[r].pc = "groups" /\ req'[r].stopped /\ ran' = ran
          \/ req'[r].pc = "running" /\ ~req'[r].stopped /\ r \notin flagged
    \/ /\ GroupEnd(r)
       /\ req'[r].plan = req[r].plan /\ req'[r].pc = "groups"
       /\ req'[r].left = req[r].left - 1
       /\ req[r].left = 1 /\ ~req'[r].stopped => through' = through \union {Plan(r)}
    \/ /\ RunClose(r)
       /\ req'[r].plan = req[r].plan
       /\ req'[r].pc = "select" /\ req'[r].after = "idle"
       /\ req'[r].target = IF req[r].stopped THEN "aborted" ELSE "completed"

LEMMA StepEffect ==
    ASSUME TypeOK, NEW r \in Requests, RequestStep(r)
    PROVE  Effect(r)
<1>0. req[r] \in RequestState /\ req[r].after \in Pc /\ NoneReturned(r) \in Pc
  BY DEF TypeOK, RequestState, After, Pc, NoneReturned
<1>1. CASE SetStatusSelect(r)
  <2> DEFINE pc == IF status[Plan(r)] \in NoRow THEN NoneReturned(r)
                   ELSE IF status[Plan(r)] \in Terminal /\ status[Plan(r)] # req[r].target
                        THEN req[r].after
                   ELSE "update"
  <2>1. pc \in Pc /\ Goto(r, pc) /\ pc \in {"idle", "update", req[r].after}
    BY <1>0, <1>1 DEF SetStatusSelect, Pc, NoneReturned
  <2> HIDE DEF pc
  <2> QED
    BY <1>1, <2>1, GotoEffect DEF Effect
<1>2. CASE SetStatusUpdate(r)
  <2>1. PICK pc \in Pc : Goto(r, pc) /\ pc \in {"idle", req[r].after}
    BY <1>0, <1>2 DEF SetStatusUpdate, NoneReturned
  <2> QED
    BY <1>2, <2>1, GotoEffect DEF Effect
<1>3. CASE RunRead(r)
  <2>1. PICK pc \in Pc : /\ Goto(r, pc)
                         /\ \/ pc = "idle"
                            \/ pc = "check" /\ status[Plan(r)] = "approved"
    <3>1. CASE status[Plan(r)] = "approved"
      BY <1>3, <3>1 DEF RunRead, Pc
    <3>2. CASE status[Plan(r)] # "approved"
      BY <1>3, <3>2 DEF RunRead, Pc
    <3> QED
      BY <3>1, <3>2
  <2> QED
    BY <1>3, <2>1, GotoEffect DEF Effect
<1>4. CASE RunCheck(r)
  <2>1. CASE reg[Plan(r)] # NoRun
    <3>1. "idle" \in Pc /\ Goto(r, "idle")
      BY <1>4, <2>1 DEF RunCheck, Pc
    <3> QED
      BY <1>4, <3>1, GotoEffect DEF Effect
  <2>2. CASE reg[Plan(r)] = NoRun
    <3>1. CallSetStatus(r, Plan(r), "running", "register")
      BY <1>4, <2>2 DEF RunCheck
    <3> QED
      BY <1>4, <2>2, <3>1, CallEffect DEF Effect, Plan
  <2> QED
    BY <2>1, <2>2
<1>5. CASE RunRegister(r)
  BY <1>0, <1>5 DEF RunRegister, TypeOK, Effect, RequestState
<1>6. CASE GroupBegin(r)
  <2>1. CASE r \in flagged
    BY <1>0, <1>6, <2>1 DEF GroupBegin, TypeOK, Effect, RequestState, At
  <2>2. CASE r \notin flagged
    <3>1. "running" \in Pc /\ Goto(r, "running")
      BY <1>6, <2>2 DEF GroupBegin, Pc
    <3> QED
      BY <1>6, <2>2, <3>1, GotoEffect DEF GroupBegin, Effect
  <2> QED
    BY <2>1, <2>2
<1>7. CASE GroupEnd(r)
  <2>1. PICK stop \in BOOLEAN :
          /\ req' = [req EXCEPT ![r].pc = "groups", ![r].left = @ - 1, ![r].stopped = stop]
          /\ through' = IF req[r].left = 1 /\ ~stop
                        THEN through \union {Plan(r)} ELSE through
    BY <1>7 DEF GroupEnd
  <2>2. /\ req'[r].plan = req[r].plan /\ req'[r].pc = "groups"
        /\ req'[r].left = req[r].left - 1 /\ req'[r].stopped = stop
    BY <1>0, <2>1 DEF TypeOK, RequestState
  <2> QED
    BY <1>7, <2>1, <2>2 DEF Effect
<1>8. CASE RunClose(r)
  <2>1. CallSetStatus(r, Plan(r), IF req[r].stopped THEN "aborted" ELSE "completed", "idle")
    BY <1>8 DEF RunClose
  <2> QED
    BY <1>8, <2>1, CallEffect DEF Effect, Plan
<1> QED
  BY <1>1, <1>2, <1>3, <1>4, <1>5, <1>6, <1>7, <1>8 DEF RequestStep

\* An arriving request owns no run and asks for nothing the runner asks for.
LEMMA ArriveEffect ==
    ASSUME TypeOK, NEW r \in Requests, Arrive(r)
    PROVE  /\ req[r].pc = "idle"
           /\ \/ req'[r].pc = "entering"
              \/ /\ req'[r].pc = "select" /\ req'[r].target \in {"approved", "rejected"}
                 /\ req'[r].after \in {"idle", "entering"}
<1>1. ASSUME NEW p \in Plans, NEW target \in {"approved", "rejected"}, StatusRead(r, p, target)
      PROVE  /\ req[r].pc = "idle" /\ req'[r].pc = "select"
             /\ req'[r].target \in {"approved", "rejected"} /\ req'[r].after = "idle"
  BY <1>1, CallEffect DEF StatusRead, At
<1>2. ASSUME NEW p \in Plans, NEW clone \in Plans, Rerun(r, p, clone)
      PROVE  /\ req[r].pc = "idle" /\ req'[r].pc = "select"
             /\ req'[r].target = "approved" /\ req'[r].after = "entering"
  BY <1>2, CallEffect DEF Rerun, At
<1>3. ASSUME NEW p \in Plans, RunBegin(r, p)
      PROVE  req[r].pc = "idle" /\ req'[r].pc = "entering"
  BY <1>3, BeginEffect DEF RunBegin, At
<1> QED
  BY <1>1, <1>2, <1>3 DEF Arrive

-----------------------------------------------------------------------------
(* A request's own step.                                                   *)

LEMMA StepKeepsEntryOnly ==
    ASSUME IInv, NEW r \in Requests, RequestStep(r)
    PROVE  EntryOnly'
<1>1. Effect(r) /\ \A s \in Requests \ {r} : req'[s] = req[s]
  BY StepEffect, Moves DEF IInv
<1>2. req[r] \in RequestState
  BY DEF IInv, TypeOK
<1> QED
  BY <1>1, <1>2 DEF Effect, EntryOnly, IInv, SetStatusSelect, SetStatusUpdate, At,
     RequestState, After

LEMMA StepKeepsBlessed ==
    ASSUME IInv, NEW r \in Requests, RequestStep(r)
    PROVE  Blessed'
<1>0. TypeOK /\ Effect(r) /\ \A s \in Requests \ {r} : req'[s] = req[s]
  BY StepEffect, Moves DEF IInv
<1>1. req[r] \in RequestState /\ Plan(r) \in Plans
  BY <1>0 DEF TypeOK, RequestState, Plan
<1>2. blessed \subseteq blessed'
  BY <1>0 DEF Effect, SetStatusSelect, SetStatusUpdate, RunRead, RunCheck, RunRegister,
     GroupBegin, GroupEnd, RunClose
<1>3. \A p \in Plans : status'[p] = "approved" => p \in blessed'
  <2>1. CASE SetStatusUpdate(r)
    BY <1>0, <1>1, <2>1 DEF SetStatusUpdate, IInv, Blessed, TypeOK
  <2>2. CASE UNCHANGED status
    BY <1>2, <2>2 DEF IInv, Blessed
  <2> QED
    BY <1>0, <2>1, <2>2 DEF Effect, SetStatusSelect, RunRead, RunCheck, RunRegister,
       GroupBegin, GroupEnd, RunClose
<1>4. ASSUME req'[r].pc \in {"check", "register", "groups", "running"} \/ Marking(r)'
      PROVE  req'[r].plan \in blessed'
  <2>1. \/ req[r].pc \in {"check", "register", "groups", "running"} \/ Marking(r)
        \/ status[Plan(r)] = "approved"
    BY <1>0, <1>1, <1>4 DEF Effect, Marking, SetStatusSelect, SetStatusUpdate, RunCheck,
       RunRegister, GroupBegin, GroupEnd, At, IInv, EntryOnly, RequestState, After
  <2>2. req'[r].plan = req[r].plan
    BY <1>0 DEF Effect
  <2> QED
    BY <1>1, <1>2, <2>1, <2>2 DEF IInv, Blessed, Plan
<1> QED
  BY <1>0, <1>2, <1>3, <1>4 DEF IInv, Blessed, Marking, Plan

LEMMA StepKeepsProgress ==
    ASSUME IInv, NEW r \in Requests, RequestStep(r)
    PROVE  Progress'
<1>0. TypeOK /\ Effect(r) /\ \A s \in Requests \ {r} : req'[s] = req[s]
  BY StepEffect, Moves DEF IInv
<1>1. req[r] \in RequestState /\ Groups > 0
  BY <1>0, PlanAssumption DEF TypeOK
<1>2. through \subseteq through' /\ (GroupEnd(r) \/ through' = through)
  BY <1>0 DEF Effect, SetStatusSelect, SetStatusUpdate, RunRead, RunCheck, RunRegister,
     GroupBegin, GroupEnd, RunClose
<1>3. req'[r].pc = "running" => req'[r].left > 0 /\ ~req'[r].stopped
  BY <1>0, <1>1 DEF Effect, GroupBegin, RequestState, After
<1>4. ASSUME req'[r].pc = "groups", req'[r].left = 0, ~req'[r].stopped
      PROVE  req'[r].plan \in through'
  BY <1>0, <1>1, <1>4 DEF Effect, GroupBegin, RequestState, After, Plan
<1>5. ASSUME req'[r].pc \in {"select", "update"}, req'[r].target = "completed"
      PROVE  req'[r].plan \in through'
  BY <1>0, <1>1, <1>2, <1>5 DEF Effect, SetStatusSelect, SetStatusUpdate, RunClose, At,
     RequestState, After, Plan, IInv, Progress
<1> QED
  BY <1>0, <1>2, <1>3, <1>4, <1>5 DEF IInv, Progress, Plan

LEMMA StepKeepsHistory ==
    ASSUME IInv, NEW r \in Requests, RequestStep(r)
    PROVE  RanWasApproved' /\ CompletedRanThrough'
<1>0. TypeOK /\ Effect(r) /\ req[r] \in RequestState /\ Plan(r) \in Plans
  BY StepEffect DEF IInv, TypeOK, RequestState, Plan
<1>1. RanWasApproved'
  <2>1. CASE GroupBegin(r)
    BY <2>1 DEF GroupBegin, At, IInv, Blessed, RanWasApproved
  <2>2. CASE SetStatusUpdate(r)
    BY <2>2 DEF SetStatusUpdate, IInv, RanWasApproved
  <2> QED
    BY <1>0, <2>1, <2>2 DEF Effect, SetStatusSelect, RunRead, RunCheck, RunRegister,
       GroupEnd, RunClose, IInv, RanWasApproved
<1>2. CompletedRanThrough'
  <2>1. CASE SetStatusUpdate(r)
    BY <1>0, <2>1 DEF SetStatusUpdate, At, IInv, Progress, CompletedRanThrough, TypeOK
  <2>2. CASE GroupEnd(r)
    BY <2>2 DEF GroupEnd, IInv, CompletedRanThrough
  <2> QED
    BY <1>0, <2>1, <2>2 DEF Effect, SetStatusSelect, RunRead, RunCheck, RunRegister,
       GroupBegin, RunClose, IInv, CompletedRanThrough
<1> QED
  BY <1>1, <1>2

LEMMA StepKeepsRunning ==
    ASSUME IInv, NEW r \in Requests, RequestStep(r)
    PROVE  RunningHasARun'
<1>0. TypeOK /\ Effect(r) /\ \A s \in Requests \ {r} : req'[s] = req[s]
  BY StepEffect, Moves DEF IInv
<1>1. req[r] \in RequestState /\ Plan(r) \in Plans
  BY <1>0 DEF TypeOK, RequestState, Plan
<1> SUFFICES ASSUME NEW p \in Plans, status'[p] = "running", p \notin lost'
             PROVE  \E s \in Requests : req'[s].plan = p /\ Owns(s)'
  BY <1>1 DEF RunningHasARun, Plan
<1>2. CASE status[p] = "running" /\ p \notin lost
  <2>1. PICK s \in Requests : Plan(s) = p /\ Owns(s)
    BY <1>2 DEF IInv, RunningHasARun
  <2>2. CASE s # r
    BY <1>0, <2>1, <2>2 DEF Owns, Plan
  <2>3. CASE s = r
    <3>1. CASE SetStatusSelect(r)
      <4>1. Goto(r, "update") /\ "update" \in Pc
        BY <1>2, <2>1, <2>3, <3>1 DEF SetStatusSelect, Plan, Terminal, NoRow, Pc
      <4>2. req'[r].pc = "update" /\ req'[r].target = req[r].target /\ req'[r].plan = p
        BY <1>0, <2>1, <2>3, <4>1, GotoEffect DEF Plan
      <4> QED
        BY <2>1, <2>3, <3>1, <4>2 DEF SetStatusSelect, At, Owns
    <3>2. CASE SetStatusUpdate(r)
      <4>1. status' = [status EXCEPT ![p] = req[r].target] /\ Goto(r, req[r].after)
        BY <1>2, <2>1, <2>3, <3>2 DEF SetStatusUpdate, NoRow
      <4>2. req[r].target = "running"
        BY <1>0, <4>1 DEF TypeOK
      <4>3. req[r].after = "register" /\ "register" \in Pc
        BY <3>2, <4>2 DEF SetStatusUpdate, At, IInv, EntryOnly, Pc
      <4>4. req'[r].pc = "register" /\ req'[r].plan = p
        BY <1>0, <2>1, <2>3, <4>1, <4>3, GotoEffect DEF Plan
      <4> QED
        BY <4>4 DEF Owns
    <3>3. CASE ~(SetStatusSelect(r) \/ SetStatusUpdate(r))
      BY <1>0, <2>1, <2>3, <3>3 DEF Effect, Owns, Plan, At, RunRead, RunCheck
    <3> QED
      BY <3>1, <3>2, <3>3
  <2> QED
    BY <2>2, <2>3
<1>3. CASE status[p] # "running" \/ p \in lost
  <2>0. SetStatusUpdate(r)
    BY <1>0, <1>3 DEF Effect, SetStatusSelect, RunRead, RunCheck, RunRegister, GroupBegin,
       GroupEnd, RunClose
  <2>1. /\ SetStatusUpdate(r) /\ Plan(r) = p /\ status[p] \notin NoRow
        /\ req[r].target = "running"
    BY <1>0, <1>1, <1>3, <2>0 DEF SetStatusUpdate, TypeOK
  <2>2. req[r].after = "register" /\ "register" \in Pc
    BY <2>1 DEF SetStatusUpdate, At, IInv, EntryOnly, Pc
  <2>3. Goto(r, "register")
    BY <2>1, <2>2 DEF SetStatusUpdate
  <2> QED
    BY <1>0, <2>1, <2>2, <2>3, GotoEffect DEF Owns, Plan
<1> QED
  BY <1>2, <1>3

LEMMA StepKeepsRegistry ==
    ASSUME IInv, NEW r \in Requests, RequestStep(r)
    PROVE  RegistryIsLive'
<1>0. TypeOK /\ Effect(r) /\ \A s \in Requests \ {r} : req'[s] = req[s]
  BY StepEffect, Moves DEF IInv
<1>1. req[r] \in RequestState /\ Plan(r) \in Plans
  BY <1>0 DEF TypeOK, RequestState, Plan
<1>2. req'[r].plan = req[r].plan
  BY <1>0 DEF Effect
<1> SUFFICES ASSUME NEW p \in Plans, reg'[p] \in Requests
             PROVE  req'[reg'[p]].plan = p /\ req'[reg'[p]].pc \in {"groups", "running"}
  BY DEF RegistryIsLive, Plan
<1>3. CASE RunRegister(r) /\ p = Plan(r)
  BY <1>0, <1>1, <1>2, <1>3 DEF RunRegister, TypeOK, Plan
<1>4. CASE ~(RunRegister(r) /\ p = Plan(r))
  <2>1. reg'[p] = reg[p] /\ ~(RunClose(r) /\ p = Plan(r))
    BY <1>0, <1>1, <1>4, PlanAssumption DEF Effect, SetStatusSelect, SetStatusUpdate, RunRead, RunCheck,
       RunRegister, GroupBegin, GroupEnd, RunClose, TypeOK
  <2>2. reg[p] \in Requests /\ req[reg[p]].plan = p /\ req[reg[p]].pc \in {"groups", "running"}
    BY <1>0, <2>1 DEF IInv, RegistryIsLive, Plan, TypeOK
  <2>3. CASE reg[p] = r
    <3>1. ~RunClose(r) /\ Plan(r) = p
      BY <2>1, <2>2, <2>3 DEF Plan
    <3> QED
      BY <1>0, <1>2, <2>1, <2>2, <2>3, <3>1 DEF Effect, SetStatusSelect, SetStatusUpdate,
         RunRead, RunCheck, RunRegister, At
  <2> QED
    BY <1>0, <2>1, <2>2, <2>3
<1> QED
  BY <1>3, <1>4

-----------------------------------------------------------------------------
(* The other steps.                                                        *)

LEMMA ArriveKeeps ==
    ASSUME IInv, NEW r \in Requests, Arrive(r)
    PROVE  IInv'
<1>0. TypeOK /\ \A s \in Requests \ {r} : req'[s] = req[s]
  BY Moves DEF IInv
<1>1. /\ req[r].pc = "idle"
      /\ \/ req'[r].pc = "entering"
         \/ /\ req'[r].pc = "select" /\ req'[r].target \in {"approved", "rejected"}
            /\ req'[r].after \in {"idle", "entering"}
  BY <1>0, ArriveEffect
<1>2. /\ UNCHANGED <<reg, flagged, ran, through, blessed, asked, lost, crashes>>
      /\ \A p \in Plans : \/ status'[p] = status[p]
                          \/ status'[p] = "proposed" /\ status[p] = "none"
  BY <1>0 DEF Arrive, StatusRead, Rerun, RunBegin, TypeOK
<1>3. TypeOK'
  BY <1>0, TypeStep DEF Next
<1>4. EntryOnly' /\ Progress'
  BY <1>0, <1>1, <1>2 DEF IInv, EntryOnly, Progress, Plan
<1>5. Blessed'
  <2>1. \A p \in Plans : status'[p] = "approved" => p \in blessed'
    BY <1>2 DEF IInv, Blessed
  <2> QED
    BY <1>0, <1>1, <1>2, <2>1 DEF IInv, Blessed, Marking, Plan
<1>6. RanWasApproved' /\ CompletedRanThrough'
  BY <1>2 DEF IInv, RanWasApproved, CompletedRanThrough
<1>7. RunningHasARun'
  <2> SUFFICES ASSUME NEW p \in Plans, status'[p] = "running", p \notin lost
               PROVE  \E s \in Requests : req'[s].plan = p /\ Owns(s)'
    BY <1>2 DEF RunningHasARun, Plan
  <2>1. PICK s \in Requests : Plan(s) = p /\ Owns(s)
    BY <1>2 DEF IInv, RunningHasARun
  <2>2. s # r
    BY <1>1, <2>1 DEF Owns
  <2> QED
    BY <1>0, <2>1, <2>2 DEF Owns, Plan
<1>8. RegistryIsLive'
  BY <1>0, <1>1, <1>2 DEF IInv, RegistryIsLive, Plan, TypeOK
<1> QED
  BY <1>3, <1>4, <1>5, <1>6, <1>7, <1>8 DEF IInv

LEMMA RowKeeps ==
    ASSUME IInv, NEW p \in Plans, Insert(p) \/ Delete(p) \/ Abort(p)
    PROVE  IInv'
<1>1. /\ UNCHANGED <<reg, req, ran, through, blessed, lost, crashes>>
      /\ \A q \in Plans : status'[q] = status[q] \/ status'[q] \in {"proposed", "gone"}
  BY DEF Insert, Delete, Abort, IInv, TypeOK
<1>2. TypeOK'
  BY TypeStep DEF Next, IInv
<1>3. EntryOnly' /\ Progress' /\ RegistryIsLive'
  BY <1>1 DEF IInv, EntryOnly, Progress, RegistryIsLive, Plan
<1>4. Blessed'
  BY <1>1 DEF IInv, Blessed, Marking, Plan
<1>5. RanWasApproved' /\ CompletedRanThrough'
  BY <1>1 DEF IInv, RanWasApproved, CompletedRanThrough
<1>6. RunningHasARun'
  BY <1>1 DEF IInv, RunningHasARun, Owns, Plan
<1> QED
  BY <1>2, <1>3, <1>4, <1>5, <1>6 DEF IInv

LEMMA CrashKeeps == IInv /\ Crash => IInv'
<1> SUFFICES ASSUME IInv, Crash PROVE IInv'
    OBVIOUS
<1>1. \A r \in Requests : req'[r].pc = "idle"
  BY DEF Crash, Idle
<1>2. /\ UNCHANGED <<status, ran, through, blessed>>
      /\ \A p \in Plans : reg'[p] = NoRun
      /\ \A p \in Plans : status'[p] = "running" => p \in lost'
  BY DEF Crash, IInv, TypeOK
<1>3. TypeOK'
  BY TypeStep DEF Next, IInv
<1>4. EntryOnly' /\ Progress' /\ RegistryIsLive' /\ RunningHasARun'
  BY <1>1, <1>2, PlanAssumption DEF EntryOnly, Progress, RegistryIsLive, RunningHasARun
<1>5. Blessed'
  BY <1>1, <1>2 DEF IInv, Blessed, Marking
<1>6. RanWasApproved' /\ CompletedRanThrough'
  BY <1>2 DEF IInv, RanWasApproved, CompletedRanThrough
<1> QED
  BY <1>3, <1>4, <1>5, <1>6 DEF IInv

LEMMA CutOffKeeps ==
    ASSUME IInv, NEW r \in Requests, RunStartRaises(r) \/ RunExceptionRaises(r)
    PROVE  IInv'
<1>0. TypeOK /\ TypeOK'
  BY TypeStep DEF Next, IInv
<1>1. /\ InRun(r) /\ Plan(r) \in Plans
      /\ req'[r].pc = "idle" /\ req'[r].plan = req[r].plan
      /\ \A s \in Requests \ {r} : req'[s] = req[s]
      /\ lost' = lost \union {Plan(r)}
      /\ \A p \in Plans \ {Plan(r)} : reg'[p] = reg[p]
      /\ reg'[Plan(r)] # r
      /\ reg'[Plan(r)] \in {reg[Plan(r)], NoRun, Orphan}
      /\ UNCHANGED <<status, flagged, ran, through, blessed, crashes>>
  BY <1>0, CutOffEffect
<1>2. EntryOnly' /\ Progress'
  BY <1>1 DEF IInv, EntryOnly, Progress, Plan
<1>3. Blessed'
  BY <1>1 DEF IInv, Blessed, Marking, Plan
<1>4. RanWasApproved' /\ CompletedRanThrough'
  BY <1>1 DEF IInv, RanWasApproved, CompletedRanThrough
<1>5. RunningHasARun'
  BY <1>1 DEF IInv, RunningHasARun, Owns, Plan
<1>6. RegistryIsLive'
  <2> SUFFICES ASSUME NEW p \in Plans, reg'[p] \in Requests
               PROVE  req'[reg'[p]].plan = p /\ req'[reg'[p]].pc \in {"groups", "running"}
    BY DEF RegistryIsLive, Plan
  <2>1. reg'[p] = reg[p]
    BY <1>1, PlanAssumption
  <2>2. req[reg[p]].plan = p /\ req[reg[p]].pc \in {"groups", "running"}
    BY <2>1 DEF IInv, RegistryIsLive, Plan
  <2>3. reg[p] # r
    BY <1>1, <2>1, <2>2 DEF Plan
  <2> QED
    BY <1>1, <2>1, <2>2, <2>3
<1> QED
  BY <1>0, <1>2, <1>3, <1>4, <1>5, <1>6 DEF IInv

LEMMA IInvStep == IInv /\ [Next]_vars => IInv'
<1> SUFFICES ASSUME IInv, [Next]_vars PROVE IInv'
    OBVIOUS
<1>1. ASSUME NEW r \in Requests, RequestStep(r) PROVE IInv'
  <2>1. TypeOK'
    BY <1>1, TypeStep DEF Next, IInv
  <2> QED
    BY <1>1, <2>1, StepKeepsEntryOnly, StepKeepsBlessed, StepKeepsProgress, StepKeepsHistory,
       StepKeepsRunning, StepKeepsRegistry DEF IInv
<1>2. CASE UNCHANGED vars
  BY <1>2 DEF vars, IInv, TypeOK, EntryOnly, Blessed, Marking, Progress, RanWasApproved,
     CompletedRanThrough, RunningHasARun, RegistryIsLive, Owns, Plan
<1> QED
  BY <1>1, <1>2, ArriveKeeps, RowKeeps, CrashKeeps, CutOffKeeps DEF Next

LEMMA Invariance == Spec => []IInv
BY IInvInit, IInvStep, PTL DEF Spec

-----------------------------------------------------------------------------
(* The safety theorems.                                                    *)

\* A plan that reads "completed" went through all its groups in one run,
\* however many runs, aborts, status changes and restarts interleave.
THEOREM CompletedAlwaysRanThrough == Spec => []CompletedRanThrough
<1>1. IInv => CompletedRanThrough
  BY DEF IInv
<1> QED
  BY <1>1, Invariance, PTL

\* No group of a plan starts unless somebody approved the plan before.
THEOREM RanAlwaysApproved == Spec => []RanWasApproved
<1>1. IInv => RanWasApproved
  BY DEF IInv
<1> QED
  BY <1>1, Invariance, PTL

\* A row that reads "running" has a run that will still write its outcome, or
\* a run of it was cut off since the row was last written.
THEOREM RunningAlwaysHasARun == Spec => []RunningHasARun
<1>1. IInv => RunningHasARun
  BY DEF IInv
<1> QED
  BY <1>1, Invariance, PTL

\* The abort registry holds no run that is over, but for the entries that a
\* first event that raised left behind.
THEOREM RegistryAlwaysLive == Spec => []RegistryIsLive
<1>1. IInv => RegistryIsLive
  BY DEF IInv
<1> QED
  BY <1>1, Invariance, PTL

\* No other run joins a run that is alone and registered.
LEMMA StepKeepsSole ==
    ASSUME IInv, NEW r \in Requests, Sole(r), NEW s \in Requests, RequestStep(s)
    PROVE  Sole(r)' \/ reg'[Plan(r)] \in {NoRun, Orphan}
<1>0. TypeOK /\ Effect(s) /\ \A t \in Requests \ {s} : req'[t] = req[t]
  BY StepEffect, Moves DEF IInv
<1>1. /\ req[s] \in RequestState /\ Plan(s) \in Plans /\ Plan(r) \in Plans
      /\ req[r].pc \in {"groups", "running"} /\ req'[s].plan = req[s].plan
      /\ r # NoRun
  BY <1>0, PlanAssumption DEF TypeOK, RequestState, Plan, Effect, IInv, RegistryIsLive, Sole
<1> SUFFICES ASSUME ~(RunClose(s) /\ Plan(s) = Plan(r)) PROVE Sole(r)'
  <2>1. ASSUME RunClose(s), Plan(s) = Plan(r) PROVE reg'[Plan(r)] = NoRun
    BY <1>0, <1>1, <2>1 DEF RunClose, TypeOK
  <2> QED
    BY <2>1
<1>2. req'[r].plan = req[r].plan
  BY <1>0, <1>1
<1>3. reg'[Plan(r)] = r
  <2>1. CASE RunRegister(s)
    <3>1. Plan(s) # Plan(r)
      BY <1>1, <2>1 DEF RunRegister, At, Sole, Owns
    <3> QED
      BY <1>0, <1>1, <2>1, <3>1 DEF RunRegister, TypeOK, Sole
  <2>2. CASE RunClose(s)
    BY <1>0, <1>1, <2>2 DEF RunClose, TypeOK, Sole
  <2> QED
    BY <1>0, <2>1, <2>2 DEF Effect, SetStatusSelect, SetStatusUpdate, RunRead, RunCheck,
       GroupBegin, GroupEnd, Sole
<1>4. ASSUME s # r, req'[s].plan = req[r].plan PROVE ~Owns(s)'
  <2>1. ~Owns(s) /\ Plan(s) = Plan(r) /\ reg[Plan(s)] # NoRun
    BY <1>1, <1>4 DEF Sole, Plan
  <2> QED
    BY <1>0, <1>1, <2>1 DEF Effect, Owns, At, SetStatusSelect, SetStatusUpdate, RunRegister,
       GroupBegin, GroupEnd, RunClose, IInv, EntryOnly, RequestState, After
<1> QED
  BY <1>0, <1>2, <1>3, <1>4 DEF Sole, Plan, Owns

\* An accepted abort starts no further group.
LEMMA FlaggedStartsNothing ==
    ASSUME IInv, [Next]_vars, NEW r \in Requests, r \in flagged, ~At(r, "running")
    PROVE  ~At(r, "running")'
<1>1. ASSUME NEW s \in Requests, RequestStep(s) PROVE req'[r].pc # "running"
  <2>1. Effect(s) /\ req[s] \in RequestState /\ \A t \in Requests \ {s} : req'[t] = req[t]
    BY <1>1, StepEffect, Moves DEF IInv, TypeOK
  <2> QED
    BY <2>1 DEF Effect, At, RequestState, After
<1>2. ASSUME NEW s \in Requests, Arrive(s) PROVE req'[r].pc # "running"
  BY <1>2, ArriveEffect, Moves DEF IInv, At
<1>3. CASE Crash
  BY <1>3 DEF Crash, Idle, At
<1>4. CASE UNCHANGED req
  BY <1>4 DEF At
<1>5. ASSUME NEW s \in Requests, RunStartRaises(s) \/ RunExceptionRaises(s)
      PROVE  req'[r].pc # "running"
  BY <1>5, CutOffEffect DEF IInv, At
<1> QED
  BY <1>1, <1>2, <1>3, <1>4, <1>5 DEF Next, vars, Insert, Delete, Abort, At

\* A registered run that is the only one of its plan stays the only one, and
\* registered, until the run closes or is cut off; and once its abort was
\* accepted it starts no further group.
THEOREM SoleRunAlwaysStaysSole == Spec => SoleRunStaysSole
<1>1. ASSUME IInv, [Next]_vars, NEW r \in Requests, Sole(r)
      PROVE  Sole(r)' \/ reg'[Plan(r)] \in {NoRun, Orphan}
  <2>0. TypeOK /\ Plan(r) \in Plans /\ req[r].pc \in {"groups", "running"}
    BY <1>1, PlanAssumption DEF IInv, TypeOK, RequestState, Plan, RegistryIsLive, Sole
  <2>1. ASSUME NEW s \in Requests, RequestStep(s)
        PROVE  Sole(r)' \/ reg'[Plan(r)] \in {NoRun, Orphan}
    BY <1>1, <2>1, StepKeepsSole
  <2>2. ASSUME NEW s \in Requests, Arrive(s) PROVE Sole(r)'
    <3>1. reg' = reg /\ s # r /\ ~Owns(s)' /\ \A t \in Requests \ {s} : req'[t] = req[t]
      BY <2>0, <2>2, ArriveEffect, Moves DEF Arrive, StatusRead, Rerun, RunBegin, Owns
    <3> QED
      BY <1>1, <3>1 DEF Sole, Owns, Plan
  <2>3. CASE Crash
    BY <2>0, <2>3 DEF Crash
  <2>4. CASE UNCHANGED <<reg, req>>
    BY <1>1, <2>4 DEF Sole, Owns, Plan
  <2>5. ASSUME NEW s \in Requests, RunStartRaises(s) \/ RunExceptionRaises(s)
        PROVE  Sole(r)' \/ reg'[Plan(r)] \in {NoRun, Orphan}
    <3>1. /\ InRun(s) /\ Plan(s) \in Plans
          /\ req'[s].pc = "idle" /\ req'[s].plan = req[s].plan
          /\ \A t \in Requests \ {s} : req'[t] = req[t]
          /\ \A p \in Plans \ {Plan(s)} : reg'[p] = reg[p]
          /\ reg'[Plan(s)] # s
          /\ reg'[Plan(s)] \in {reg[Plan(s)], NoRun, Orphan}
      BY <2>0, <2>5, CutOffEffect
    <3>2. CASE s = r
      BY <1>1, <3>1, <3>2 DEF Sole
    <3>3. CASE s # r
      <4>1. Plan(s) # Plan(r)
        BY <1>1, <3>1, <3>3 DEF Sole, Owns, InRun
      <4> QED
        BY <1>1, <2>0, <3>1, <3>3, <4>1 DEF Sole, Owns, Plan
    <3> QED
      BY <3>2, <3>3
  <2> QED
    BY <1>1, <2>1, <2>2, <2>3, <2>4, <2>5 DEF Next, vars, Insert, Delete, Abort
<1>2. IInv /\ [Next]_vars =>
        [\A r \in Requests : Sole(r) =>
            /\ Sole(r)' \/ reg'[Plan(r)] \in {NoRun, Orphan}
            /\ r \in flagged /\ ~At(r, "running") => ~At(r, "running")']_vars
  BY <1>1, FlaggedStartsNothing
<1> QED
  BY <1>2, Invariance, PTL DEF Spec, SoleRunStaysSole

-----------------------------------------------------------------------------
(* One operator: a single request at a time and no restart. What the races *)
(* take away holds then, and the planner implements PlanLifecycle.         *)

OneOperator ==
    /\ \A r, s \in Requests : r = s
    /\ MaxCrashes = 0

Deciding(r) ==
    req[r].pc \in {"select", "update"} /\ req[r].target \notin {"running", "completed", "aborted"}

\* The row a request read stays what it read, unless it is deleted.
RowHeld ==
    \A r \in Requests :
        /\ req[r].pc = "check" \/ Marking(r) => status[Plan(r)] \in {"approved", "gone"}
        /\ Deciding(r) => /\ \/ status[Plan(r)] \in {"proposed", "approved", "gone"}
                             \/ status[Plan(r)] = "running" /\ Plan(r) \in lost
                          /\ req[r].target \in {"approved", "rejected"}
        /\ InRun(r) \/ Closing(r) =>
             \/ status[Plan(r)] = "running" /\ Plan(r) \notin lost
             \/ status[Plan(r)] = "gone"

\* A plan that went through all its groups does not run again.
ThroughIsPast ==
    \A p \in through :
        /\ status[p] \notin {"none", "proposed", "approved"}
        /\ status[p] = "running" => p \notin lost

\* A run goes through all its groups exactly when it will report "completed".
RunReport ==
    \A r \in Requests :
        /\ req[r].pc = "register" => Plan(r) \notin through
        /\ req[r].pc = "groups" =>
             (Plan(r) \in through <=> req[r].left = 0 /\ ~req[r].stopped)
        /\ req[r].pc = "running" => Plan(r) \in ran /\ Plan(r) \notin through
        /\ Closing(r) => (req[r].target = "completed" <=> Plan(r) \in through)

OneInv ==
    /\ IInv /\ crashes = 0
    /\ RowHeld /\ ThroughIsPast /\ RunReport

LEMMA OneInvInit == Init => OneInv
<1> SUFFICES ASSUME Init PROVE OneInv
    OBVIOUS
<1>1. \A r \in Requests : req[r].pc = "idle"
  BY DEF Init, Idle
<1> QED
  BY <1>1, IInvInit DEF Init, OneInv, RowHeld, ThroughIsPast, RunReport, Marking, Closing,
     Deciding, InRun

\* What one operator's request finds out about its row when it selects it.
LEMMA OneSelect ==
    ASSUME OneInv, NEW r \in Requests, SetStatusSelect(r)
    PROVE  /\ req'[r].plan = req[r].plan
           /\ \/ req'[r].pc \in {"idle", "entering"}
              \/ req'[r].pc = "update" /\ req'[r].target = req[r].target
<1>0. /\ TypeOK /\ req[r] \in RequestState /\ Plan(r) \in Plans
      /\ req[r].after \in After /\ NoneReturned(r) \in Pc
  BY DEF OneInv, IInv, TypeOK, RequestState, Plan, NoneReturned, After, Pc
<1>1. PICK pc \in Pc :
        /\ Goto(r, pc)
        /\ pc = IF status[Plan(r)] \in NoRow THEN NoneReturned(r)
                ELSE IF status[Plan(r)] \in Terminal /\ status[Plan(r)] # req[r].target
                     THEN req[r].after
                ELSE "update"
  BY <1>0 DEF SetStatusSelect, After, Pc
<1>2. pc \in {"idle", "entering", "update"}
  <2>1. req[r].pc = "select"
    BY DEF SetStatusSelect, At
  <2>2. status[Plan(r)] \notin Terminal
    BY <2>1 DEF OneInv, RowHeld, Marking, Deciding, Closing, Terminal
  <2> QED
    BY <1>0, <1>1, <2>2 DEF NoneReturned, After
<1> QED
  BY <1>0, <1>1, <1>2, GotoEffect

\* One operator's request keeps the invariant, step by step.
LEMMA OneStep ==
    ASSUME OneOperator, OneInv, NEW r \in Requests, RequestStep(r)
    PROVE  OneInv'
<1>0. /\ TypeOK /\ Effect(r) /\ req[r] \in RequestState /\ Plan(r) \in Plans /\ r # NoRun
      /\ \A s \in Requests : s = r
  BY StepEffect, PlanAssumption DEF OneInv, IInv, TypeOK, RequestState, Plan, OneOperator
<1>1. IInv' /\ TypeOK'
  BY IInvStep DEF OneInv, IInv, Next
<1>2. crashes' = 0
  BY DEF OneInv, RequestStep, SetStatusSelect, SetStatusUpdate, RunRead, RunCheck, RunRegister,
     GroupBegin, GroupEnd, RunClose
<1>a. /\ SetStatusSelect(r) => req[r].pc = "select"
      /\ SetStatusUpdate(r) => req[r].pc = "update"
      /\ RunRead(r) => req[r].pc = "entering"
      /\ RunCheck(r) => req[r].pc = "check"
      /\ RunRegister(r) => req[r].pc = "register"
      /\ GroupBegin(r) => req[r].pc = "groups" /\ req[r].left > 0 /\ ~req[r].stopped
      /\ GroupEnd(r) => req[r].pc = "running"
      /\ RunClose(r) => req[r].pc = "groups" /\ (req[r].left = 0 \/ req[r].stopped)
  BY DEF SetStatusSelect, SetStatusUpdate, RunRead, RunCheck, RunRegister, GroupBegin,
     GroupEnd, RunClose, At
<1> USE DEF OneInv, RowHeld, ThroughIsPast, RunReport, Marking, Closing, Deciding, InRun
<1>3. CASE SetStatusSelect(r)
  BY <1>0, <1>1, <1>2, <1>3, OneSelect DEF SetStatusSelect, At, Plan
<1>4. CASE SetStatusUpdate(r)
  <2>1. /\ req'[r].plan = req[r].plan
        /\ req'[r].pc \in {req[r].after, "idle"}
        /\ UNCHANGED <<ran, through>>
    BY <1>0, <1>a, <1>4 DEF Effect, SetStatusUpdate
  <2>2. CASE status[Plan(r)] \in NoRow
    <3>1. req'[r].pc \in {"idle", "entering"} /\ UNCHANGED <<status, lost>>
      BY <1>0, <1>4, <2>2, GotoEffect DEF SetStatusUpdate, NoneReturned, RequestState, After, Pc
    <3> QED
      BY <1>0, <1>1, <1>2, <2>1, <3>1 DEF Plan
  <2>3. CASE status[Plan(r)] \notin NoRow
    <3>1. status' = [status EXCEPT ![Plan(r)] = req[r].target]
      BY <1>4, <2>3 DEF SetStatusUpdate
    <3>1a. lost' = lost \ {Plan(r)}
      BY <1>4, <2>3 DEF SetStatusUpdate
    <3>2. status'[Plan(r)] = req[r].target /\ \A p \in Plans : p # Plan(r) => status'[p] = status[p]
      BY <1>0, <3>1 DEF TypeOK
    <3>3. req'[r].pc = "register" => req[r].target = "running"
      BY <1>0, <1>a, <1>4, <2>1 DEF IInv, EntryOnly
    <3>4. RowHeld'
      BY <1>0, <2>1, <3>1a, <3>2, <3>3 DEF Plan, RequestState, After
    <3>5. ThroughIsPast'
      <4>1. req[r].target \in {"approved", "rejected"} => Plan(r) \notin through
        BY <1>0, <1>a, <1>4, <2>3 DEF NoRow
      <4>2. req[r].target \in {"approved", "rejected", "running", "completed", "aborted"}
        BY <1>0, <1>a, <1>4
      <4> QED
        BY <1>0, <2>1, <3>1a, <3>2, <4>1, <4>2 DEF TypeOK
    <3>6. RunReport'
      <4>1. req[r].target = "running" => Plan(r) \notin through
        BY <1>0, <1>a, <1>4, <2>3 DEF NoRow
      <4> QED
        BY <1>0, <2>1, <3>3, <4>1 DEF Plan, RequestState, After
    <3> QED
      BY <1>1, <1>2, <2>1, <3>4, <3>5, <3>6
  <2> QED
    BY <2>2, <2>3
<1>5. CASE RunRead(r)
  <2>1. /\ req'[r].plan = req[r].plan
        /\ \/ req'[r].pc = "check" /\ status[Plan(r)] = "approved"
           \/ req'[r].pc = "idle"
        /\ UNCHANGED <<status, ran, through, lost>>
    BY <1>0, <1>a, <1>5 DEF Effect, RunRead
  <2> QED
    BY <1>0, <1>1, <1>2, <2>1 DEF Plan
<1>6. CASE RunCheck(r)
  <2>1. /\ req'[r].plan = req[r].plan
        /\ \/ req'[r].pc = "select" /\ req'[r].target = "running"
           \/ req'[r].pc = "idle"
        /\ UNCHANGED <<status, ran, through, lost>>
    BY <1>0, <1>a, <1>6 DEF Effect, RunCheck
  <2> QED
    BY <1>0, <1>a, <1>1, <1>2, <1>6, <2>1 DEF Plan
<1>7. CASE RunRegister(r)
  <2>1. /\ req'[r].plan = req[r].plan /\ req'[r].pc = "groups" /\ req'[r].left = Groups
        /\ UNCHANGED <<status, ran, through, lost>>
    BY <1>0, <1>a, <1>7 DEF Effect, RunRegister
  <2>2. Groups # 0
    BY PlanAssumption
  <2> QED
    BY <1>0, <1>a, <1>1, <1>2, <1>7, <2>1, <2>2 DEF Plan
<1>8. CASE GroupBegin(r)
  <2>1. /\ req'[r].plan = req[r].plan /\ req'[r].left = req[r].left
        /\ \/ req'[r].pc = "groups" /\ req'[r].stopped /\ ran' = ran
           \/ req'[r].pc = "running" /\ ran' = ran \union {Plan(r)}
        /\ UNCHANGED <<status, through, lost>>
    BY <1>0, <1>a, <1>8 DEF Effect, GroupBegin
  <2> QED
    BY <1>0, <1>a, <1>1, <1>2, <1>8, <2>1 DEF Plan
<1>9. CASE GroupEnd(r)
  <2>1. /\ req'[r].plan = req[r].plan /\ req'[r].pc = "groups"
        /\ req'[r].left = req[r].left - 1
        /\ through' = IF req'[r].left = 0 /\ ~req'[r].stopped
                      THEN through \union {Plan(r)} ELSE through
        /\ UNCHANGED <<status, ran, lost>>
    <3>1. PICK stop \in BOOLEAN :
            /\ req' = [req EXCEPT ![r].pc = "groups", ![r].left = @ - 1, ![r].stopped = stop]
            /\ through' = IF req[r].left = 1 /\ ~stop
                          THEN through \union {Plan(r)} ELSE through
      BY <1>9 DEF GroupEnd
    <3>2. /\ req'[r].plan = req[r].plan /\ req'[r].pc = "groups"
          /\ req'[r].left = req[r].left - 1 /\ req'[r].stopped = stop
      BY <1>0, <3>1 DEF TypeOK, RequestState
    <3>3. req[r].left = 1 <=> req'[r].left = 0
      BY <1>0, <3>2, PlanAssumption DEF RequestState
    <3> QED
      BY <1>9, <3>1, <3>2, <3>3 DEF GroupEnd
  <2> QED
    BY <1>0, <1>a, <1>1, <1>2, <1>9, <2>1 DEF Plan
<1>10. CASE RunClose(r)
  <2>1. /\ req'[r].plan = req[r].plan /\ req'[r].pc = "select"
        /\ req'[r].target = IF req[r].stopped THEN "aborted" ELSE "completed"
        /\ UNCHANGED <<status, ran, through, lost>>
    BY <1>0, <1>a, <1>10 DEF Effect, RunClose
  <2> QED
    BY <1>0, <1>a, <1>1, <1>2, <1>10, <2>1 DEF Plan
<1> QED
  BY <1>3, <1>4, <1>5, <1>6, <1>7, <1>8, <1>9, <1>10 DEF RequestStep

\* What the only request finds when it arrives.
LEMMA OneArrives ==
    ASSUME OneOperator, OneInv, NEW r \in Requests, Arrive(r)
    PROVE  OneInv'
<1>0. /\ TypeOK /\ req[r].pc = "idle" /\ (\A s \in Requests : s = r) /\ IInv' /\ crashes' = 0
      /\ UNCHANGED <<ran, through, lost>>
  BY ArriveEffect, IInvStep DEF OneInv, IInv, OneOperator, Next, Arrive, StatusRead, Rerun,
     RunBegin
<1>1. \A p \in Plans : status[p] = "running" => p \in lost
  BY <1>0 DEF OneInv, IInv, RunningHasARun, Owns
<1> USE DEF OneInv, RowHeld, ThroughIsPast, RunReport, Marking, Closing, Deciding, InRun, Plan
<1>2. ASSUME NEW p \in Plans, NEW target \in {"approved", "rejected"}, StatusRead(r, p, target)
      PROVE  OneInv'
  <2>1. /\ req'[r].pc = "select" /\ req'[r].plan = p /\ req'[r].target = target
        /\ status[p] \in Live /\ UNCHANGED status
    BY <1>0, <1>2, CallEffect DEF StatusRead
  <2> QED
    BY <1>0, <1>1, <2>1 DEF Live
<1>3. ASSUME NEW p \in Plans, NEW clone \in Plans, Rerun(r, p, clone) PROVE OneInv'
  <2>1. /\ req'[r].pc = "select" /\ req'[r].plan = clone /\ req'[r].target = "approved"
        /\ status[clone] = "none" /\ status' = [status EXCEPT ![clone] = "proposed"]
    BY <1>0, <1>3, CallEffect DEF Rerun
  <2>2. status'[clone] = "proposed" /\ \A q \in Plans \ {clone} : status'[q] = status[q]
    BY <1>0, <2>1 DEF TypeOK
  <2>3. clone \notin through /\ through \subseteq Plans
    BY <1>0, <2>1 DEF TypeOK
  <2> QED
    BY <1>0, <2>1, <2>2, <2>3
<1>4. ASSUME NEW p \in Plans, RunBegin(r, p) PROVE OneInv'
  <2>1. req'[r].pc = "entering" /\ UNCHANGED status
    BY <1>0, <1>4, BeginEffect DEF RunBegin
  <2> QED
    BY <1>0, <2>1
<1> QED
  BY <1>2, <1>3, <1>4 DEF Arrive

\* Insertions, deletions and aborts of any plan leave the request's row as it
\* is or take it away.
LEMMA OneRow ==
    ASSUME OneInv, NEW p \in Plans, Insert(p) \/ Delete(p) \/ Abort(p)
    PROVE  OneInv'
<1>0. TypeOK /\ IInv' /\ UNCHANGED <<req, ran, through, lost, crashes>>
  BY IInvStep DEF OneInv, IInv, Next, Insert, Delete, Abort
<1>1. \A q \in Plans : \/ status'[q] = status[q]
                       \/ status'[q] = "gone"
                       \/ status[q] = "none" /\ status'[q] = "proposed"
  BY <1>0 DEF Insert, Delete, Abort, TypeOK
<1>2. through \subseteq Plans /\ \A r \in Requests : Plan(r) \in Plans
  BY <1>0 DEF TypeOK, RequestState, Plan
<1>3. UNCHANGED RunReport
  BY <1>0 DEF RunReport, Closing, Plan
<1>4. RowHeld' /\ ThroughIsPast'
  BY <1>0, <1>1, <1>2 DEF OneInv, RowHeld, ThroughIsPast, Marking, Deciding, Closing, InRun, Plan
<1> QED
  BY <1>0, <1>3, <1>4 DEF OneInv

\* No run is cut off once it went through its groups.
LEMMA CutOffBefore ==
    ASSUME RunReport, NEW r \in Requests, RunStartRaises(r) \/ RunExceptionRaises(r)
    PROVE  Plan(r) \notin through
<1>1. CASE RunStartRaises(r)
  BY <1>1, PlanAssumption DEF RunReport, RunStartRaises, At
<1>2. CASE RunExceptionRaises(r)
  BY <1>2 DEF RunReport, RunExceptionRaises, At
<1> QED
  BY <1>1, <1>2

\* A run that is cut off leaves its row running, and the plan lost.
LEMMA OneCutOff ==
    ASSUME OneOperator, OneInv, NEW r \in Requests, RunStartRaises(r) \/ RunExceptionRaises(r)
    PROVE  OneInv'
<1>0. TypeOK /\ IInv' /\ Plan(r) \in Plans /\ \A s \in Requests : s = r
  BY IInvStep, CutOffEffect DEF OneInv, IInv, OneOperator, Next
<1>1. /\ InRun(r) /\ req'[r].pc = "idle" /\ lost' = lost \union {Plan(r)}
      /\ UNCHANGED <<status, ran, through, crashes>>
  BY <1>0, CutOffEffect
<1>2. Plan(r) \notin through
  BY CutOffBefore DEF OneInv
<1>3. RowHeld' /\ RunReport'
  BY <1>0, <1>1 DEF RowHeld, RunReport, Marking, Deciding, Closing, InRun, Plan
<1>4. ThroughIsPast'
  BY <1>1, <1>2 DEF OneInv, ThroughIsPast
<1> QED
  BY <1>0, <1>1, <1>3, <1>4 DEF OneInv

LEMMA OneInvStep == ASSUME OneOperator PROVE OneInv /\ [Next]_vars => OneInv'
<1> SUFFICES ASSUME OneInv, [Next]_vars PROVE OneInv'
    OBVIOUS
<1>1. CASE \E r \in Requests : RequestStep(r) \/ Arrive(r)
  BY <1>1, OneStep, OneArrives
<1>2. CASE \E p \in Plans : Insert(p) \/ Delete(p) \/ Abort(p)
  BY <1>2, OneRow
<1>3. CASE Crash
  BY <1>3 DEF Crash, OneOperator, OneInv
<1>4. CASE UNCHANGED vars
  <2>1. IInv'
    BY <1>4, IInvStep DEF OneInv
  <2> QED
    BY <1>4, <2>1 DEF vars, OneInv, RowHeld, ThroughIsPast, RunReport, Marking, Deciding, Closing,
       InRun, Plan
<1> QED
  BY <1>1, <1>2, <1>3, <1>4, OneCutOff DEF Next

LEMMA OneInvariance == ASSUME OneOperator PROVE Spec => []OneInv
BY OneInvInit, OneInvStep, PTL DEF Spec

\* The lifecycle, read off the planner.
Contract == INSTANCE PlanLifecycle WITH executing <- Executing

LEMMA ContractInit == Init => Contract!LInit
BY DEF Init, Contract!LInit, Executing, Idle

\* The plan of the only request is the only one that may be executing.
LEMMA OneExecuting ==
    ASSUME OneOperator, OneInv, OneInv', NEW r \in Requests
    PROVE  /\ Executing = IF InRun(r) THEN {Plan(r)} ELSE {}
           /\ Executing' = IF InRun(r)' THEN {Plan(r)'} ELSE {}
BY DEF OneOperator, OneInv, IInv, TypeOK, RequestState, Executing, InRun, Plan

\* The request's own step is a step of the contract or a stutter.
LEMMA ContractRequest ==
    ASSUME OneOperator, OneInv, OneInv', NEW r \in Requests, RequestStep(r)
    PROVE  [Contract!LNext]_(Contract!lvars)
<1>0. /\ TypeOK /\ Effect(r) /\ req[r] \in RequestState /\ Plan(r) \in Plans
      /\ req'[r].plan = req[r].plan
  BY StepEffect DEF OneInv, IInv, TypeOK, RequestState, Plan, Effect
<1>1. /\ Executing = IF InRun(r) THEN {Plan(r)} ELSE {}
      /\ Executing' = IF InRun(r)' THEN {Plan(r)} ELSE {}
  BY <1>0, OneExecuting DEF Plan
<1>2. CASE SetStatusSelect(r) \/ RunRead(r) \/ RunCheck(r) \/ RunRegister(r)
  <2>1. UNCHANGED <<status, ran, through, lost>>
    BY <1>2 DEF SetStatusSelect, RunRead, RunCheck, RunRegister
  <2>2. InRun(r)' <=> InRun(r)
    BY <1>0, <1>2, OneSelect DEF Effect, SetStatusSelect, SetStatusUpdate, RunRead, RunCheck,
       RunRegister, GroupBegin, GroupEnd, RunClose, At, InRun
  <2> QED
    BY <1>1, <2>1, <2>2 DEF Contract!lvars
<1>3. CASE SetStatusUpdate(r)
  <2>1. /\ req[r].pc = "update" /\ ~InRun(r) /\ Executing = {}
        /\ UNCHANGED <<ran, through>>
    BY <1>1, <1>3 DEF SetStatusUpdate, At, InRun
  <2>2. CASE status[Plan(r)] \in NoRow
    <3>1. UNCHANGED <<status, lost>> /\ ~InRun(r)'
      BY <1>0, <1>3, <2>2, GotoEffect
         DEF SetStatusUpdate, NoneReturned, RequestState, After, Pc, InRun
    <3> QED
      BY <1>1, <2>1, <3>1 DEF Contract!lvars
  <2>3. CASE status[Plan(r)] \notin NoRow
    <3>1. /\ status' = [status EXCEPT ![Plan(r)] = req[r].target]
          /\ lost' = lost \ {Plan(r)}
          /\ req'[r].pc = req[r].after
      BY <1>0, <1>3, <2>3, GotoEffect DEF SetStatusUpdate, RequestState, After, Pc
    <3>2. InRun(r)' <=> req[r].target = "running"
      BY <1>0, <2>1, <3>1 DEF OneInv, IInv, EntryOnly, InRun, RequestState, After
    <3>3. CASE Marking(r)
      <4>1. /\ status[Plan(r)] = "approved" /\ req[r].target = "running"
            /\ Plan(r) \notin through
        BY <2>1, <2>3, <3>3 DEF OneInv, RowHeld, ThroughIsPast, Marking, NoRow
      <4> QED
        BY <1>0, <1>1, <2>1, <3>1, <3>2, <4>1 DEF Contract!LNext, Contract!LStart
    <3>4. CASE Deciding(r)
      <4>1. /\ \/ status[Plan(r)] \in {"proposed", "approved"}
               \/ status[Plan(r)] = "running" /\ Plan(r) \in lost
            /\ req[r].target \in {"approved", "rejected"}
        BY <2>1, <2>3, <3>4 DEF OneInv, RowHeld, NoRow
      <4> QED
        BY <1>0, <1>1, <2>1, <3>1, <3>2, <4>1 DEF Contract!LNext, Contract!LDecide
    <3>5. CASE Closing(r)
      <4>1. /\ status[Plan(r)] = "running" /\ Plan(r) \notin lost
            /\ lost' = lost
            /\ req[r].target = IF Plan(r) \in through THEN "completed" ELSE "aborted"
        BY <2>1, <2>3, <3>1, <3>5 DEF OneInv, RowHeld, RunReport, Closing, NoRow
      <4> QED
        BY <1>0, <1>1, <2>1, <3>1, <3>2, <4>1 DEF Contract!LNext, Contract!LOutcome
    <3> QED
      BY <2>1, <3>3, <3>4, <3>5 DEF Marking, Deciding, Closing
  <2> QED
    BY <2>2, <2>3
<1>4. CASE GroupBegin(r) \/ GroupEnd(r)
  <2>1. InRun(r) /\ InRun(r)'
    BY <1>0, <1>4 DEF Effect, SetStatusSelect, SetStatusUpdate, RunRead, RunCheck,
       RunRegister, GroupBegin, GroupEnd, RunClose, At, InRun
  <2>2. UNCHANGED <<status, lost, Executing>> /\ Plan(r) \in Executing
    BY <1>1, <1>4, <2>1 DEF GroupBegin, GroupEnd
  <2>3. CASE GroupBegin(r)
    BY <1>0, <2>2, <2>3 DEF GroupBegin, Contract!lvars, Contract!LNext, Contract!LGroup
  <2>4. CASE GroupEnd(r)
    <3>1. Plan(r) \in ran /\ ran' = ran
      BY <2>4 DEF OneInv, RunReport, GroupEnd, At
    <3>2. through' \in {through, through \union {Plan(r)}}
      BY <2>4 DEF GroupEnd
    <3> QED
      BY <1>0, <2>2, <3>1, <3>2 DEF Contract!LNext, Contract!LGroup
  <2> QED
    BY <1>4, <2>3, <2>4
<1>5. CASE RunClose(r)
  <2>1. InRun(r) /\ ~InRun(r)' /\ UNCHANGED <<status, ran, through, lost>>
    BY <1>0, <1>5 DEF Effect, SetStatusSelect, SetStatusUpdate, RunRead, RunCheck,
       RunRegister, GroupBegin, GroupEnd, RunClose, At, InRun
  <2> QED
    BY <1>0, <1>1, <2>1 DEF Contract!LNext, Contract!LStop
<1> QED
  BY <1>2, <1>3, <1>4, <1>5 DEF RequestStep

\* An arriving request starts no run: it inserts a clone at most.
LEMMA ContractArrive ==
    ASSUME OneOperator, OneInv, OneInv', NEW r \in Requests, Arrive(r)
    PROVE  [Contract!LNext]_(Contract!lvars)
<1>1. Executing = {} /\ Executing' = {}
  BY ArriveEffect, OneExecuting DEF OneInv, IInv, InRun
<1>2. ASSUME NEW p \in Plans, NEW clone \in Plans, Rerun(r, p, clone)
      PROVE  Contract!LInsert(clone)
  BY <1>1, <1>2 DEF Rerun, Contract!LInsert
<1> QED
  BY <1>1, <1>2 DEF Arrive, StatusRead, RunBegin, Contract!LNext, Contract!lvars

\* A run that is cut off ends without an outcome.
LEMMA ContractCutOff ==
    ASSUME OneOperator, OneInv, OneInv', NEW r \in Requests,
           RunStartRaises(r) \/ RunExceptionRaises(r)
    PROVE  Contract!LNext
<1>1. TypeOK /\ Plan(r) \in Plans
  BY CutOffEffect DEF OneInv, IInv
<1>2. /\ InRun(r) /\ req'[r].pc = "idle" /\ lost' = lost \union {Plan(r)}
      /\ UNCHANGED <<status, ran, through>>
  BY <1>1, CutOffEffect
<1>3. Executing = {Plan(r)} /\ Executing' = {}
  BY <1>2, OneExecuting DEF InRun
<1>4. Plan(r) \notin through
  BY CutOffBefore DEF OneInv
<1> QED
  BY <1>1, <1>2, <1>3, <1>4 DEF Contract!LNext, Contract!LLose

LEMMA ContractStep ==
    ASSUME OneOperator, OneInv, OneInv', [Next]_vars
    PROVE  [Contract!LNext]_(Contract!lvars)
<1>1. ASSUME NEW p \in Plans, Insert(p) \/ Delete(p) \/ Abort(p)
      PROVE  [Contract!LNext]_(Contract!lvars)
  <2>1. UNCHANGED <<Executing, ran, through, lost>>
    BY <1>1 DEF Insert, Delete, Abort, Executing, Plan
  <2> QED
    BY <1>1, <2>1 DEF Insert, Delete, Abort, NoRow, Contract!LNext, Contract!LInsert,
       Contract!LDelete, Contract!lvars
<1>2. CASE Crash
  BY <1>2 DEF Crash, OneOperator, OneInv
<1>3. CASE UNCHANGED vars
  BY <1>3 DEF vars, Executing, Plan, Contract!lvars
<1> QED
  BY <1>1, <1>2, <1>3, ContractRequest, ContractArrive, ContractCutOff DEF Next

\* With one operator the planner implements the lifecycle of a plan.
THEOREM OneOperatorRefines == ASSUME OneOperator PROVE Spec => Contract!Lifecycle
BY ContractInit, ContractStep, OneInvariance, PTL DEF Spec, Contract!Lifecycle
=============================================================================
