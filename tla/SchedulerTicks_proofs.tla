----------------------- MODULE SchedulerTicks_proofs -----------------------
(***************************************************************************)
(* Proofs about SchedulerTicks: type correctness, the accounting of the    *)
(* runs in flight, the run history and what the tick may fire.             *)
(***************************************************************************)
EXTENDS SchedulerTicks, FiniteSetTheorems, TLAPS

\* A run-now call never reaches record_fire.
HandsNeverUpdate == \A s \in Schedules, h \in Hands : task[s][h].pc # "updating"

\* TypeOK and the accounting need each other: record_fire takes one away.
IInv == TypeOK /\ InflightIsExact /\ HandsNeverUpdate

LEMMA TickedFinite == \A s \in Schedules : IsFiniteSet(Ticked(s))
BY SchedulerAssumption, FS_Subset DEF Ticked

LEMMA NextAfterType == TypeOK => \A s \in Schedules : NextAfter(s) \in Instants
<1> SUFFICES ASSUME TypeOK, NEW s \in Schedules PROVE NextAfter(s) \in Instants
  OBVIOUS
<1>1. instant[s] \in 0..MaxInstants
  BY DEF TypeOK
<1> QED
  BY <1>1, SchedulerAssumption DEF NextAfter, Instants

LEMMA CallTypes ==
    /\ Rest \in Call /\ Play \in Call
    /\ \A k \in Instants : [pc |-> "updating", next |-> k] \in Call
BY SchedulerAssumption DEF Rest, Play, Call, Instants

-----------------------------------------------------------------------------
(* What a step does to the runs of one schedule.                           *)

Kept(s) == Ticked(s)' = Ticked(s) /\ inflight'[s] = inflight[s]

CountedOut(s) ==
    \E l \in Ticked(s) : Ticked(s)' = Ticked(s) \ {l} /\ inflight'[s] = inflight[s] - 1

CountedIn(s) ==
    /\ \E l \in Lanes \ Ticked(s) : Ticked(s)' = Ticked(s) \union {l}
    /\ inflight'[s] = inflight[s] + 1
    /\ \E x \in loop.held : x.sched = s /\ inflight[s] < x.max

Cleared(s) == Ticked(s)' = {} /\ inflight'[s] = 0

Counted(s) == Kept(s) \/ CountedOut(s) \/ CountedIn(s) \/ Cleared(s)

LEMMA BecomeEffect ==
    ASSUME TypeOK, NEW s \in Schedules, NEW l \in Calls, NEW call, Become(s, l, call)
    PROVE  /\ task'[s][l] = call
           /\ \A t \in Schedules, m \in Calls : t # s \/ m # l => task'[t][m] = task[t][m]
           /\ call \in Call => task' \in [Schedules -> [Calls -> Call]]
BY DEF TypeOK, Become

LEMMA BecomeKeeps ==
    ASSUME TypeOK, NEW s \in Schedules, NEW l \in Calls, NEW call, Become(s, l, call),
           l \in Hands \/ (task[s][l].pc # "idle" /\ call.pc # "idle"),
           inflight' = inflight
    PROVE  \A t \in Schedules : Kept(t)
<1> SUFFICES ASSUME NEW t \in Schedules PROVE Ticked(t)' = Ticked(t)
  BY DEF Kept
<1>1. \A m \in Lanes : task'[t][m].pc # "idle" <=> task[t][m].pc # "idle"
  BY BecomeEffect, SchedulerAssumption DEF Calls
<1> QED
  BY <1>1 DEF Ticked

LEMMA BecomeRest ==
    ASSUME TypeOK, NEW s \in Schedules, NEW l \in Lanes, Become(s, l, Rest),
           task[s][l].pc # "idle", CountOut(s), InflightIsExact
    PROVE  \A t \in Schedules : Counted(t)
<1> SUFFICES ASSUME NEW t \in Schedules PROVE Counted(t)
  OBVIOUS
<1>1. \A m \in Lanes : t # s \/ m # l => task'[t][m] = task[t][m]
  BY BecomeEffect DEF Calls
<1>2. task'[s][l].pc = "idle"
  BY BecomeEffect DEF Rest, Calls
<1>3. CASE t # s
  BY <1>1, <1>3 DEF Counted, Kept, Ticked, CountOut, TypeOK
<1>4. CASE t = s
  <2>1. Ticked(s)' = Ticked(s) \ {l} /\ l \in Ticked(s)
    BY <1>1, <1>2, <1>4 DEF Ticked
  <2>2. inflight[s] # 0 /\ inflight[s] \in Nat
    BY <2>1, TickedFinite, FS_EmptySet DEF InflightIsExact, TypeOK
  <2> QED
    BY <1>4, <2>1, <2>2 DEF Counted, CountedOut, CountOut, TypeOK
<1> QED
  BY <1>3, <1>4

LEMMA FireCounts ==
    ASSUME TypeOK, TickFire
    PROVE  \A t \in Schedules : Counted(t)
<1> DEFINE chosen == {x \in loop.held : inflight[x.sched] < x.max}
           slots == {x.sched : x \in chosen}
<1>1. PICK lane \in [slots -> Lanes] :
         /\ \A s \in slots : At(s, lane[s], "idle")
         /\ task' = [s \in Schedules |->
                       IF s \in slots THEN [task[s] EXCEPT ![lane[s]] = Play]
                       ELSE task[s]]
  BY DEF TickFire
<1>2. inflight' = [s \in Schedules |-> IF s \in slots THEN inflight[s] + 1 ELSE inflight[s]]
  BY DEF TickFire
<1> SUFFICES ASSUME NEW t \in Schedules PROVE Counted(t)
  OBVIOUS
<1>3. CASE t \notin slots
  BY <1>1, <1>2, <1>3 DEF Counted, Kept, Ticked
<1>4. CASE t \in slots
  <2>1. lane[t] \in Lanes \ Ticked(t)
    BY <1>1, <1>4 DEF At, Ticked
  <2>2. task'[t] = [task[t] EXCEPT ![lane[t]] = Play] /\ task[t] \in [Calls -> Call]
    BY <1>1, <1>4 DEF TypeOK
  <2>3. Ticked(t)' = Ticked(t) \union {lane[t]}
    <3>1. \A m \in Lanes : task'[t][m] = IF m = lane[t] THEN Play ELSE task[t][m]
      BY <2>1, <2>2 DEF Calls
    <3>2. Play.pc # "idle"
      BY DEF Play
    <3> QED
      BY <2>1, <3>1, <3>2 DEF Ticked
  <2>4. PICK x \in chosen : x.sched = t
    BY <1>4
  <2> QED
    BY <1>2, <1>4, <2>1, <2>3, <2>4 DEF Counted, CountedIn
<1> QED
  BY <1>3, <1>4

LEMMA StepCounts ==
    ASSUME IInv, [Next]_vars
    PROVE  \A t \in Schedules : Counted(t)
<1> USE DEF IInv
<1>1. CASE UNCHANGED <<task, inflight>>
  BY <1>1 DEF Counted, Kept, Ticked
<1>2. CASE TickFire
  BY <1>2, FireCounts
<1>3. ASSUME NEW s \in Schedules, NEW h \in Hands, RunNow(s, h)
      PROVE  \A t \in Schedules : Counted(t)
  BY <1>3, BecomeKeeps DEF RunNow, Counted, Calls
<1>4. ASSUME NEW s \in Schedules, NEW l \in Calls, PlayEnd(s, l)
      PROVE  \A t \in Schedules : Counted(t)
  <2>1. task[s][l] \in Call /\ task[s][l].pc = "playing"
    BY <1>4 DEF PlayEnd, At, TypeOK
  <2>2. [task[s][l] EXCEPT !.pc = "recording"].pc # "idle" /\ task[s][l].pc # "idle"
    BY <2>1 DEF Call
  <2> QED
    BY <1>4, <2>2, BecomeKeeps DEF PlayEnd, Counted
<1>5. ASSUME NEW s \in Schedules, NEW l \in Calls, RecordRun(s, l) \/ RecordRunRaises(s, l)
      PROVE  \A t \in Schedules : Counted(t)
  <2>1. Onward(s, l) /\ task[s][l].pc # "idle" /\ inflight' = inflight
    BY <1>5 DEF RecordRun, RecordRunRaises, At
  <2>2. CASE l \in Lanes
    <3>1. Become(s, l, [pc |-> "updating", next |-> NextAfter(s)])
      BY <2>1, <2>2 DEF Onward
    <3> QED
      BY <2>1, <3>1, BecomeKeeps DEF Counted
  <2>3. CASE l \notin Lanes
    <3>1. Become(s, l, Rest) /\ l \in Hands
      BY <2>1, <2>3 DEF Onward, Calls
    <3> QED
      BY <2>1, <3>1, BecomeKeeps DEF Counted
  <2> QED
    BY <2>2, <2>3
<1>6. ASSUME NEW s \in Schedules, NEW l \in Calls, RecordFire(s, l) \/ RecordFireRaises(s, l)
      PROVE  \A t \in Schedules : Counted(t)
  <2>1. task[s][l].pc = "updating" /\ Become(s, l, Rest) /\ CountOut(s)
    BY <1>6 DEF RecordFire, RecordFireRaises, At
  <2>2. l \in Lanes
    BY <2>1 DEF HandsNeverUpdate, Calls
  <2> QED
    BY <2>1, <2>2, BecomeRest
<1>7. CASE Crash
  <2>1. \A t \in Schedules, m \in Lanes : task'[t][m].pc = "idle"
    BY <1>7 DEF Crash, Rest, Calls
  <2> QED
    BY <1>7, <2>1 DEF Crash, Counted, Cleared, Ticked
<1> QED
  BY <1>1, <1>2, <1>3, <1>4, <1>5, <1>6, <1>7 DEF Next, vars, LoopStep, RecoverList, RecoverWrite,
     RecoverEnd, TickRead, PatchWrite, Operator, Create, PatchRead, Delete, TimePasses, CallStep,
     RecoverRaises

-----------------------------------------------------------------------------
(* The inductive invariant.                                                *)

LEMMA ExactStep ==
    ASSUME IInv, [Next]_vars
    PROVE  InflightIsExact' /\ inflight' \in [Schedules -> Nat]
<1>1. inflight' = [s \in Schedules |-> inflight'[s]]
  BY DEF IInv, TypeOK, Next, vars, LoopStep, RecoverList, RecoverWrite, RecoverEnd, TickRead,
     TickFire, PatchWrite, Operator, Create, PatchRead, Delete, RunNow, TimePasses, CallStep,
     PlayEnd, RecordRun, RecordFire, RecordRunRaises, RecordFireRaises, CountOut, RecoverRaises,
     Crash
<1>2. ASSUME NEW s \in Schedules
      PROVE  inflight'[s] = Cardinality(Ticked(s)') /\ inflight'[s] \in Nat
  <2>1. Counted(s) /\ IsFiniteSet(Ticked(s)) /\ inflight[s] = Cardinality(Ticked(s))
        /\ inflight[s] \in Nat
    BY StepCounts, TickedFinite DEF IInv, InflightIsExact, TypeOK
  <2>2. CASE Kept(s)
    BY <2>1, <2>2 DEF Kept
  <2>3. CASE CountedOut(s)
    <3>1. PICK l \in Ticked(s) : Ticked(s)' = Ticked(s) \ {l} /\ inflight'[s] = inflight[s] - 1
      BY <2>3 DEF CountedOut
    <3>2. Cardinality(Ticked(s) \ {l}) = Cardinality(Ticked(s)) - 1
          /\ Cardinality(Ticked(s) \ {l}) \in Nat
      BY <2>1, <3>1, FS_RemoveElement, FS_CardinalityType
    <3> QED
      BY <2>1, <3>1, <3>2
  <2>4. CASE CountedIn(s)
    <3>1. PICK l \in Lanes \ Ticked(s) : Ticked(s)' = Ticked(s) \union {l}
      BY <2>4 DEF CountedIn
    <3>2. Cardinality(Ticked(s) \union {l}) = Cardinality(Ticked(s)) + 1
      BY <2>1, <3>1, FS_AddElement
    <3> QED
      BY <2>1, <2>4, <3>1, <3>2 DEF CountedIn
  <2>5. CASE Cleared(s)
    BY <2>5, FS_EmptySet DEF Cleared
  <2> QED
    BY <2>1, <2>2, <2>3, <2>4, <2>5 DEF Counted
<1> QED
  BY <1>1, <1>2 DEF InflightIsExact

LEMMA HandsStep ==
    ASSUME IInv, [Next]_vars
    PROVE  HandsNeverUpdate'
<1> USE DEF IInv
<1>1. CASE task' = task
  BY <1>1 DEF HandsNeverUpdate
<1>2. CASE TickFire
  <2> DEFINE slots == {x.sched : x \in {x \in loop.held : inflight[x.sched] < x.max}}
  <2>1. PICK lane \in [slots -> Lanes] :
           task' = [s \in Schedules |->
                      IF s \in slots THEN [task[s] EXCEPT ![lane[s]] = Play] ELSE task[s]]
    BY <1>2 DEF TickFire
  <2>2. \A s \in Schedules, h \in Hands : task'[s][h] = task[s][h]
    BY <2>1, SchedulerAssumption DEF TypeOK, Calls
  <2> QED
    BY <2>2 DEF HandsNeverUpdate
<1>3. ASSUME NEW s \in Schedules, NEW l \in Calls, NEW call, Become(s, l, call),
             l \in Lanes \/ call.pc # "updating"
      PROVE  HandsNeverUpdate'
  BY <1>3, BecomeEffect, SchedulerAssumption DEF HandsNeverUpdate, Calls
<1>4. ASSUME NEW s \in Schedules, NEW l \in Calls,
             \/ RunNow(s, l) \/ PlayEnd(s, l) \/ RecordRun(s, l) \/ RecordRunRaises(s, l)
             \/ RecordFire(s, l) \/ RecordFireRaises(s, l)
      PROVE  HandsNeverUpdate'
  <2>1. CASE Become(s, l, Play) \/ Become(s, l, Rest)
    BY <1>3, <2>1 DEF Play, Rest
  <2>2. CASE Become(s, l, [task[s][l] EXCEPT !.pc = "recording"])
    <3>1. [task[s][l] EXCEPT !.pc = "recording"].pc = "recording"
      BY DEF TypeOK, Call
    <3> QED
      BY <1>3, <2>2, <3>1
  <2>3. CASE Onward(s, l)
    <3>1. CASE l \in Lanes
      BY <1>3, <2>3, <3>1 DEF Onward
    <3>2. CASE l \notin Lanes
      BY <2>1, <2>3, <3>2 DEF Onward
    <3> QED
      BY <3>1, <3>2
  <2> QED
    BY <1>4, <2>1, <2>2, <2>3 DEF RunNow, PlayEnd, RecordRun, RecordRunRaises, RecordFire,
       RecordFireRaises
<1>5. CASE Crash
  BY <1>5 DEF Crash, Rest, HandsNeverUpdate, Calls
<1> QED
  BY <1>1, <1>2, <1>4, <1>5 DEF Next, vars, LoopStep, RecoverList, RecoverWrite, RecoverEnd,
     TickRead, PatchWrite, Operator, Create, PatchRead, Delete, TimePasses, CallStep,
     RecoverRaises, Calls

-----------------------------------------------------------------------------
(* Types, one variable at a time.                                          *)

LEMMA RowStep ==
    ASSUME TypeOK, Next
    PROVE  row' \in [Schedules -> Row]
<1>1. CASE row' = row
  BY <1>1 DEF TypeOK
<1>2. ASSUME NEW s \in Schedules, Create(s)
      PROVE  row' \in [Schedules -> Row]
  <2>1. PICK enabled \in BOOLEAN, max \in Sizes :
           row' = [row EXCEPT ![s] = [there |-> TRUE, used |-> TRUE, enabled |-> enabled,
                                      next |-> NextAfter(s), max |-> max]]
    BY <1>2 DEF Create
  <2>2. [there |-> TRUE, used |-> TRUE, enabled |-> enabled,
         next |-> NextAfter(s), max |-> max] \in Row
    BY NextAfterType DEF Row
  <2> QED
    BY <2>1, <2>2 DEF TypeOK
<1>3. CASE PatchWrite
  <2>1. patch.sched \in Schedules /\ patch.next \in Instants /\ patch.max \in Sizes
    BY DEF TypeOK
  <2>2. CASE row' = row
    BY <2>2 DEF TypeOK
  <2>3. CASE row' # row
    <3>1. PICK e \in BOOLEAN, n \in Instants, m \in Sizes :
               row' = [row EXCEPT ![patch.sched].enabled = e, ![patch.sched].next = n,
                                  ![patch.sched].max = m]
      BY <1>3, <2>1, <2>3 DEF PatchWrite, TypeOK, Row
    <3>2. row' \in [Schedules -> Row] <=> row'[patch.sched] \in Row
      BY <2>1, <3>1 DEF TypeOK
    <3>3. row[patch.sched] \in Row
      BY <2>1 DEF TypeOK
    <3>4. row'[patch.sched] = [row[patch.sched] EXCEPT !.enabled = e, !.next = n, !.max = m]
      BY <2>1, <3>1 DEF TypeOK
    <3>5. \A r \in Row : [r EXCEPT !.enabled = e, !.next = n, !.max = m] \in Row
      BY DEF Row
    <3> QED
      BY <3>2, <3>3, <3>4, <3>5
  <2> QED
    BY <2>2, <2>3
<1>4. ASSUME NEW s \in Schedules, Delete(s)
      PROVE  row' \in [Schedules -> Row]
  BY <1>4 DEF Delete, TypeOK, Row
<1>5. CASE RecoverWrite
  <2>1. PICK x \in Read : row' = IF row[x.sched].there
                                 THEN [row EXCEPT ![x.sched].next = x.next] ELSE row
    BY <1>5 DEF RecoverWrite, TypeOK
  <2>2. x.sched \in Schedules /\ x.next \in Instants
    BY DEF Read
  <2>3. row[x.sched] \in Row
    BY <2>2 DEF TypeOK
  <2>4. [row[x.sched] EXCEPT !.next = x.next] \in Row
    BY <2>2, <2>3 DEF Row
  <2>5. row' = row \/ row' = [row EXCEPT ![x.sched] = [row[x.sched] EXCEPT !.next = x.next]]
    BY <2>1
  <2> QED
    BY <2>2, <2>4, <2>5 DEF TypeOK
<1>6. ASSUME NEW s \in Schedules, NEW l \in Calls, RecordFire(s, l)
      PROVE  row' \in [Schedules -> Row]
  <2>1. task[s][l].next \in Instants
    BY DEF TypeOK, Call
  <2> QED
    BY <1>6, <2>1 DEF RecordFire, TypeOK, Row
<1> QED
  BY <1>1, <1>2, <1>3, <1>4, <1>5, <1>6 DEF Next, LoopStep, RecoverList, RecoverEnd, TickRead,
     TickFire, Operator, PatchRead, RunNow, TimePasses, CallStep, PlayEnd, RecordRun,
     RecordRunRaises, RecordFireRaises, RecoverRaises, Crash

LEMMA LoopTypeStep ==
    ASSUME TypeOK, Next
    PROVE  loop' \in [pc : {"starting", "recovering", "asleep", "ticking"}, held : SUBSET Read]
<1>1. CASE loop' = loop
  BY <1>1 DEF TypeOK
<1>2. \A s \in Schedules : row[s] \in Row /\ ReadOf(s) \in Read
  BY DEF TypeOK, ReadOf, Read, Row
<1>3. CASE RecoverList
  <2>1. \A s \in Schedules : [ReadOf(s) EXCEPT !.next = NextAfter(s)] \in Read
    BY <1>2, NextAfterType DEF Read
  <2> QED
    BY <1>3, <2>1 DEF RecoverList
<1>4. CASE TickRead
  BY <1>2, <1>4 DEF TickRead
<1>5. CASE RecoverEnd \/ TickFire \/ RecoverRaises \/ Crash
  BY <1>5 DEF TypeOK, RecoverEnd, TickFire, RecoverRaises, Crash
<1>6. CASE RecoverWrite
  <2>1. PICK x : loop' = [loop EXCEPT !.held = @ \ {x}]
    BY <1>6 DEF RecoverWrite
  <2> QED
    BY <2>1 DEF TypeOK
<1> QED
  BY <1>1, <1>3, <1>4, <1>5, <1>6 DEF Next, LoopStep, PatchWrite, Operator, Create,
     PatchRead, Delete, RunNow, TimePasses, CallStep, PlayEnd, RecordRun, RecordFire,
     RecordRunRaises, RecordFireRaises

LEMMA TaskStep ==
    ASSUME TypeOK, Next
    PROVE  task' \in [Schedules -> [Calls -> Call]]
<1>1. CASE task' = task
  BY <1>1 DEF TypeOK
<1>2. CASE TickFire
  <2> DEFINE slots == {x.sched : x \in {x \in loop.held : inflight[x.sched] < x.max}}
  <2>1. PICK lane \in [slots -> Lanes] :
           task' = [s \in Schedules |->
                      IF s \in slots THEN [task[s] EXCEPT ![lane[s]] = Play] ELSE task[s]]
    BY <1>2 DEF TickFire
  <2> QED
    BY <2>1, CallTypes DEF TypeOK
<1>3. ASSUME NEW s \in Schedules, NEW l \in Calls,
             \/ RunNow(s, l) \/ PlayEnd(s, l) \/ RecordRun(s, l) \/ RecordRunRaises(s, l)
             \/ RecordFire(s, l) \/ RecordFireRaises(s, l)
      PROVE  task' \in [Schedules -> [Calls -> Call]]
  <2>1. CASE Become(s, l, Play) \/ Become(s, l, Rest)
    BY <2>1, BecomeEffect, CallTypes
  <2>2. CASE Become(s, l, [task[s][l] EXCEPT !.pc = "recording"])
    <3>1. task[s][l] \in Call
      BY DEF TypeOK
    <3>2. [task[s][l] EXCEPT !.pc = "recording"] \in Call
      BY <3>1 DEF Call
    <3> QED
      BY <2>2, <3>2, BecomeEffect
  <2>3. CASE Onward(s, l)
    <3>1. CASE l \in Lanes
      BY <2>3, <3>1, BecomeEffect, CallTypes, NextAfterType DEF Onward
    <3>2. CASE l \notin Lanes
      BY <2>1, <2>3, <3>2 DEF Onward
    <3> QED
      BY <3>1, <3>2
  <2> QED
    BY <1>3, <2>1, <2>2, <2>3 DEF RunNow, PlayEnd, RecordRun, RecordRunRaises, RecordFire,
       RecordFireRaises
<1>4. CASE Crash
  BY <1>4, CallTypes DEF Crash
<1> QED
  BY <1>1, <1>2, <1>3, <1>4 DEF Next, LoopStep, RecoverList, RecoverWrite, RecoverEnd, TickRead,
     PatchWrite, Operator, Create, PatchRead, Delete, TimePasses, CallStep, RecoverRaises, Calls

LEMMA PatchStep ==
    ASSUME TypeOK, Next
    PROVE  patch' \in [pc : {"idle", "writing"}, change : Change, sched : Schedules,
                       next : Instants, max : Sizes]
<1>1. CASE patch' = patch
  BY <1>1 DEF TypeOK
<1>2. ASSUME NEW s \in Schedules, PatchRead(s)
      PROVE  patch' \in [pc : {"idle", "writing"}, change : Change, sched : Schedules,
                         next : Instants, max : Sizes]
  BY <1>2, NextAfterType DEF PatchRead
<1>3. CASE patch' = [patch EXCEPT !.pc = "idle"]
  BY <1>3 DEF TypeOK
<1> QED
  BY <1>1, <1>2, <1>3 DEF Next, LoopStep, RecoverList, RecoverWrite, RecoverEnd, TickRead,
     TickFire, PatchWrite, Operator, Create, Delete, RunNow, TimePasses, CallStep, PlayEnd,
     RecordRun, RecordFire, RecordRunRaises, RecordFireRaises, RecoverRaises, Crash

LEMMA FiredStep ==
    ASSUME TypeOK, Next
    PROVE  fired' \in [Schedules -> [Instants -> Nat]]
<1>1. CASE fired' = fired
  BY <1>1 DEF TypeOK
<1>2. CASE PatchWrite
  BY <1>2 DEF PatchWrite, TypeOK
<1>3. CASE TickFire
  <2> DEFINE chosen == {x \in loop.held : inflight[x.sched] < x.max}
  <2>1. fired' = [s \in Schedules |-> [k \in Instants |->
                    IF \E x \in chosen : x.sched = s /\ x.next = k
                    THEN fired[s][k] + 1 ELSE fired[s][k]]]
    BY <1>3 DEF TickFire
  <2>2. \A s \in Schedules, k \in Instants : fired[s][k] \in Nat /\ fired[s][k] + 1 \in Nat
    BY DEF TypeOK
  <2> HIDE DEF chosen
  <2> QED
    BY <2>1, <2>2
<1> QED
  BY <1>1, <1>2, <1>3 DEF Next, LoopStep, RecoverList, RecoverWrite, RecoverEnd, TickRead,
     Operator, Create, PatchRead, Delete, RunNow, TimePasses, CallStep, PlayEnd, RecordRun,
     RecordFire, RecordRunRaises, RecordFireRaises, RecoverRaises, Crash

LEMMA RestStep ==
    ASSUME TypeOK, Next
    PROVE  /\ instant' \in [Schedules -> 0..MaxInstants]
           /\ history' \subseteq Schedules
           /\ faults' \in Nat
<1>1. ASSUME NEW s \in Schedules, TimePasses(s)
      PROVE  instant' \in [Schedules -> 0..MaxInstants]
  <2>1. instant[s] \in 0..MaxInstants /\ instant[s] + 1 \in 0..MaxInstants
    BY <1>1, SchedulerAssumption DEF TimePasses, TypeOK
  <2> QED
    BY <1>1, <2>1 DEF TimePasses, TypeOK
<1>2. instant' \in [Schedules -> 0..MaxInstants]
  <2>1. CASE instant' = instant
    BY <2>1 DEF TypeOK
  <2> QED
    BY <1>1, <2>1 DEF Next, LoopStep, RecoverList, RecoverWrite, RecoverEnd, TickRead, TickFire,
       PatchWrite, Operator, Create, PatchRead, Delete, RunNow, CallStep, PlayEnd, RecordRun,
       RecordFire, RecordRunRaises, RecordFireRaises, RecoverRaises, Crash
<1>3. history' \subseteq Schedules
  BY DEF TypeOK, Next, LoopStep, RecoverList, RecoverWrite, RecoverEnd, TickRead, TickFire,
     PatchWrite, Operator, Create, PatchRead, Delete, RunNow, TimePasses, CallStep, PlayEnd,
     RecordRun, RecordFire, RecordRunRaises, RecordFireRaises, RecoverRaises, Crash
<1>4. faults' = faults \/ faults' = faults + 1
  BY DEF Next, LoopStep, RecoverList, RecoverWrite, RecoverEnd, TickRead, TickFire,
     PatchWrite, Operator, Create, PatchRead, Delete, RunNow, TimePasses, CallStep, PlayEnd,
     RecordRun, RecordFire, RecordRunRaises, RecordFireRaises, RecoverRaises, Crash
<1> QED
  BY <1>2, <1>3, <1>4 DEF TypeOK

-----------------------------------------------------------------------------
(* The theorems.                                                           *)

LEMMA IInvInit == Init => IInv
<1> SUFFICES ASSUME Init PROVE IInv
  OBVIOUS
<1>1. TypeOK
  <2>1. row \in [Schedules -> Row]
    <3>1. PICK max \in Sizes :
             row = [s \in Schedules |-> [there |-> FALSE, used |-> FALSE, enabled |-> FALSE,
                                         next |-> 0, max |-> max]]
      BY DEF Init
    <3> QED
      BY <3>1, SchedulerAssumption DEF Row, Instants
  <2>2. patch \in [pc : {"idle", "writing"}, change : Change,
                    sched : Schedules, next : Instants, max : Sizes]
    BY SchedulerAssumption DEF Init, Change, Instants
  <2>3. task \in [Schedules -> [Calls -> Call]]
    BY CallTypes DEF Init
  <2>4. instant \in [Schedules -> 0..MaxInstants]
    BY SchedulerAssumption DEF Init
  <2>5. inflight \in [Schedules -> Nat] /\ fired \in [Schedules -> [Instants -> Nat]]
    BY DEF Init
  <2> QED
    BY <2>1, <2>2, <2>3, <2>4, <2>5 DEF Init, TypeOK
<1>2. \A s \in Schedules : Ticked(s) = {} /\ inflight[s] = 0
  BY DEF Init, Ticked, Rest, Calls
<1>3. HandsNeverUpdate
  BY DEF Init, Rest, HandsNeverUpdate, Calls
<1> QED
  BY <1>1, <1>2, <1>3, FS_EmptySet DEF IInv, InflightIsExact

LEMMA IInvStep == IInv /\ [Next]_vars => IInv'
<1> SUFFICES ASSUME IInv, [Next]_vars PROVE IInv'
  OBVIOUS
<1>1. TypeOK'
  <2>1. CASE Next
    BY <2>1, ExactStep, RowStep, LoopTypeStep, TaskStep, PatchStep, FiredStep, RestStep
       DEF IInv, TypeOK
  <2>2. CASE UNCHANGED vars
    BY <2>2 DEF IInv, TypeOK, vars
  <2> QED
    BY <2>1, <2>2
<1> QED
  BY <1>1, ExactStep, HandsStep DEF IInv

LEMMA Invariance == Spec => []IInv
BY IInvInit, IInvStep, PTL DEF Spec

\* Every variable keeps its type.
THEOREM TypeCorrect == Spec => []TypeOK
BY Invariance, PTL DEF IInv

\* SchedulerRunner._inflight is the number of ticked runs in flight, for any
\* schedules, any max_concurrent, and any failed writes and restarts
\* (_fire_and_track gives the slot back in a finally).
THEOREM InflightAlwaysExact == Spec => []InflightIsExact
BY Invariance, PTL DEF IInv

\* The tick never has more runs of a schedule in flight than the largest
\* max_concurrent it was ever given.
THEOREM NeverOverfullHolds == Spec => []NeverOverfull
<1>1. Init => NeverOverfull
  <2> SUFFICES ASSUME Init PROVE NeverOverfull
    OBVIOUS
  <2>1. \A s \in Schedules : Ticked(s) = {}
    BY DEF Init, Ticked, Rest, Calls
  <2>2. PICK max \in Sizes : TRUE
    BY DEF Init
  <2> QED
    BY <2>1, <2>2, FS_EmptySet, SchedulerAssumption DEF NeverOverfull
<1>2. IInv /\ IInv' /\ NeverOverfull /\ [Next]_vars => NeverOverfull'
  <2> SUFFICES ASSUME IInv, IInv', NeverOverfull, [Next]_vars, NEW s \in Schedules
               PROVE  \E max \in Sizes : Cardinality(Ticked(s)') <= max
    BY DEF NeverOverfull
  <2>1. /\ inflight[s] = Cardinality(Ticked(s)) /\ inflight[s] \in Nat
        /\ inflight'[s] = Cardinality(Ticked(s)')
    BY DEF IInv, InflightIsExact, TypeOK
  <2>2. PICK max \in Sizes : inflight[s] <= max
    BY <2>1 DEF NeverOverfull
  <2>3. CASE inflight'[s] \in {inflight[s], inflight[s] - 1, 0}
    BY <2>1, <2>2, <2>3, SchedulerAssumption
  <2>4. CASE CountedIn(s)
    <3>1. PICK x \in Read : inflight[s] < x.max
      BY <2>4 DEF CountedIn, IInv, TypeOK
    <3>2. x.max \in Sizes /\ x.max \in Nat
      BY SchedulerAssumption DEF Read
    <3> QED
      BY <2>1, <2>4, <3>1, <3>2 DEF CountedIn
  <2> QED
    BY <2>3, <2>4, StepCounts DEF Counted, Kept, CountedOut, Cleared
<1> QED
  BY <1>1, <1>2, Invariance, PTL DEF Spec

\* A run that ends after its schedule was deleted leaves no row behind.
THEOREM NeverAnOrphanRun == Spec => []NoOrphanRuns
<1>1. Init => NoOrphanRuns
  BY DEF Init, NoOrphanRuns
<1>2. IInv /\ NoOrphanRuns /\ [Next]_vars => NoOrphanRuns'
  <2> SUFFICES ASSUME IInv, NoOrphanRuns, [Next]_vars PROVE NoOrphanRuns'
    OBVIOUS
  <2> USE DEF IInv, TypeOK, Row
  <2>1. CASE UNCHANGED <<row, history>>
    BY <2>1 DEF NoOrphanRuns
  <2>2. ASSUME NEW s \in Schedules, NEW l \in Calls, RecordRun(s, l)
        PROVE  NoOrphanRuns'
    BY <2>2 DEF RecordRun, NoOrphanRuns
  <2>3. ASSUME NEW s \in Schedules, Delete(s)
        PROVE  NoOrphanRuns'
    BY <2>3 DEF Delete, NoOrphanRuns
  <2>4. ASSUME history' = history, \A s \in Schedules : row[s].there => row'[s].there
        PROVE  NoOrphanRuns'
    BY <2>4 DEF NoOrphanRuns
  <2>5. ASSUME NEW s \in Schedules, Create(s)
        PROVE  NoOrphanRuns'
    <3>1. \A t \in Schedules : row[t].there => row'[t].there
      BY <2>5 DEF Create
    <3> QED
      BY <2>4, <2>5, <3>1 DEF Create
  <2>6. CASE PatchWrite
    <3>1. \A t \in Schedules : row[t].there => row'[t].there
      BY <2>6 DEF PatchWrite
    <3> QED
      BY <2>4, <2>6, <3>1 DEF PatchWrite
  <2>7. CASE RecoverWrite
    <3>1. \A t \in Schedules : row[t].there => row'[t].there
      BY <2>7 DEF RecoverWrite
    <3> QED
      BY <2>4, <2>7, <3>1 DEF RecoverWrite
  <2>8. ASSUME NEW s \in Schedules, NEW l \in Calls, RecordFire(s, l)
        PROVE  NoOrphanRuns'
    <3>1. \A t \in Schedules : row[t].there => row'[t].there
      BY <2>8 DEF RecordFire
    <3> QED
      BY <2>4, <2>8, <3>1 DEF RecordFire
  <2> QED
    BY <2>1, <2>2, <2>3, <2>5, <2>6, <2>7, <2>8 DEF Next, vars, LoopStep, RecoverList,
       RecoverEnd, TickRead, TickFire, Operator, PatchRead, RunNow, TimePasses, CallStep,
       PlayEnd, RecordRunRaises, RecordFireRaises, RecoverRaises, Crash
<1> QED
  BY <1>1, <1>2, Invariance, PTL DEF Spec

\* Whatever next_run_at has become by the time the tick gets to fire, the
\* instant it fires has passed: no run is early.
THEOREM NeverEarlyHolds == Spec => []NeverEarly
<1> DEFINE HeldDue == loop.pc = "ticking" => \A x \in loop.held : x.next <= instant[x.sched]
<1>1. Init => NeverEarly /\ HeldDue
  BY DEF Init, NeverEarly
<1>2. IInv /\ NeverEarly /\ HeldDue /\ [Next]_vars => NeverEarly' /\ HeldDue'
  <2> SUFFICES ASSUME IInv, NeverEarly, HeldDue, [Next]_vars PROVE NeverEarly' /\ HeldDue'
    OBVIOUS
  <2> USE DEF IInv, TypeOK, Read, Instants
  <2>1. CASE UNCHANGED <<loop, instant, fired>>
    BY <2>1 DEF NeverEarly
  <2>2. CASE TickRead
    BY <2>2 DEF TickRead, NeverEarly, Due, ReadOf
  <2>3. CASE TickFire
    <3>1. \A s \in Schedules, k \in Instants : fired'[s][k] > 0 =>
             fired[s][k] > 0 \/ \E x \in loop.held : x.sched = s /\ x.next = k
      BY <2>3 DEF TickFire
    <3> QED
      BY <2>3, <3>1 DEF TickFire, NeverEarly
  <2>4. ASSUME NEW s \in Schedules, TimePasses(s)
        PROVE  NeverEarly' /\ HeldDue'
    <3>1. \A t \in Schedules : instant[t] \in Nat /\ instant'[t] \in Nat
                               /\ instant[t] <= instant'[t]
      BY <2>4 DEF TimePasses
    <3>2. fired' = fired /\ loop' = loop
      BY <2>4 DEF TimePasses
    <3>3. NeverEarly'
      <4> SUFFICES ASSUME NEW t \in Schedules, NEW k \in Instants, fired[t][k] > 0
                   PROVE  k <= instant'[t]
        BY <3>2 DEF NeverEarly
      <4>1. k \in Nat
        BY SchedulerAssumption
      <4> HIDE DEF IInv, TypeOK, Instants
      <4>2. k <= instant[t]
        BY DEF NeverEarly
      <4>3. instant[t] <= instant'[t] /\ instant[t] \in Nat /\ instant'[t] \in Nat
        BY <3>1
      <4> QED
        BY <4>1, <4>2, <4>3
    <3>4. ASSUME NEW x \in loop.held
          PROVE  x.sched \in Schedules /\ x.next \in Nat
      <4>1. x \in Read
        OBVIOUS
      <4> QED
        BY <4>1, SchedulerAssumption
    <3>5. HeldDue'
      BY <3>1, <3>2, <3>4
    <3> QED
      BY <3>3, <3>5
  <2>5. CASE PatchWrite
    <3>1. \A s \in Schedules, k \in Instants : fired'[s][k] > 0 => fired[s][k] > 0
      BY <2>5 DEF PatchWrite
    <3> QED
      BY <2>5, <3>1 DEF PatchWrite, NeverEarly
  <2>6. CASE RecoverList \/ RecoverWrite \/ RecoverEnd \/ RecoverRaises \/ Crash
    <3>1. fired' = fired /\ instant' = instant
      BY <2>6 DEF RecoverList, RecoverWrite, RecoverEnd, RecoverRaises, Crash
    <3>2. loop'.pc # "ticking"
      <4>1. CASE RecoverList \/ RecoverRaises \/ Crash
        BY <4>1 DEF RecoverList, RecoverRaises, Crash
      <4>2. CASE RecoverEnd
        BY <4>2 DEF RecoverEnd
      <4>3. CASE RecoverWrite
        <5>1. PICK x : loop' = [loop EXCEPT !.held = @ \ {x}]
          BY <4>3 DEF RecoverWrite
        <5>2. loop.pc = "recovering"
          BY <4>3 DEF RecoverWrite
        <5> QED
          BY <5>1, <5>2
      <4> QED
        BY <2>6, <4>1, <4>2, <4>3
    <3> QED
      BY <3>1, <3>2 DEF NeverEarly
  <2> QED
    BY <2>1, <2>2, <2>3, <2>4, <2>5, <2>6 DEF Next, vars, LoopStep, Operator, Create, PatchRead,
       Delete, RunNow, CallStep, PlayEnd, RecordRun, RecordFire, RecordRunRaises,
       RecordFireRaises
<1> QED
  BY <1>1, <1>2, Invariance, PTL DEF Spec

-----------------------------------------------------------------------------
(* Fired at most twice.  What an instant fired once already needs, to be   *)
(* fired no more than once again: with one run at a time, a fired instant  *)
(* is left behind by the row once its run has ended, and the only tick     *)
(* that can still fire it is one that read the row before that.            *)

Serial == faults = 0 /\ Sizes = {1}

\* The row no longer asks for instant k.
PassedOver(s, k) == ~row[s].there \/ k < row[s].next

FiredOncePassed ==
    \A s \in Schedules, k \in Instants :
        Ticked(s) = {} /\ fired[s][k] > 0 => PassedOver(s, k)

FiredTwicePassed ==
    \A s \in Schedules, k \in Instants : fired[s][k] > 1 => PassedOver(s, k)

\* A run about to update its row moves it past everything fired.
RunsMoveOn ==
    \A s \in Schedules, l \in Lanes, k \in Instants :
        At(s, l, "updating") /\ fired[s][k] > 0 => k < task[s][l].next

\* Nothing is fired before the first recovery ends.
NoneYet ==
    loop.pc \in {"starting", "recovering"} =>
        \A s \in Schedules, k \in Instants : fired[s][k] = 0

\* What a tick has read and not fired yet was fired at most once.
HeldOnce == loop.pc = "ticking" => \A x \in loop.held : fired[x.sched][x.next] <= 1

NeverThrice == \A s \in Schedules, k \in Instants : fired[s][k] <= 2

SerialInv ==
    Serial => /\ FiredOncePassed /\ FiredTwicePassed /\ RunsMoveOn /\ NoneYet
              /\ HeldOnce /\ NeverThrice

LEMMA SerialInit == Init => SerialInv
BY DEF Init, SerialInv, FiredOncePassed, FiredTwicePassed, RunsMoveOn, NoneYet,
   HeldOnce, NeverThrice

\* The tick fires an instant it read: at most once it had been fired before,
\* and no run of its schedule is in flight.
LEMMA SerialFire ==
    ASSUME IInv, SerialInv, Serial, TickFire
    PROVE  (FiredOncePassed /\ FiredTwicePassed /\ RunsMoveOn /\ NoneYet /\ HeldOnce
              /\ NeverThrice)'
<1> DEFINE Fires(s, k) ==
               \E x \in loop.held : inflight[x.sched] < x.max /\ x.sched = s /\ x.next = k
<1>1. ASSUME NEW s \in Schedules, NEW k \in Instants
      PROVE  fired'[s][k] = IF Fires(s, k) THEN fired[s][k] + 1 ELSE fired[s][k]
  BY DEF TickFire
<1>2. ASSUME NEW s \in Schedules, NEW k \in Instants, Fires(s, k)
      PROVE  Ticked(s) = {} /\ fired[s][k] <= 1
  <2>1. PICK x \in loop.held : inflight[s] < x.max /\ x.sched = s /\ x.next = k
    BY <1>2
  <2>2. x.max = 1 /\ inflight[s] \in Nat
    BY DEF IInv, TypeOK, Read, Serial
  <2>3. inflight[s] = 0
    BY <2>1, <2>2
  <2>4. fired[s][k] <= 1
    BY <2>1 DEF TickFire, SerialInv, HeldOnce
  <2> QED
    BY <2>3, <2>4, TickedFinite, FS_EmptySet DEF IInv, InflightIsExact
<1>3. row' = row /\ loop'.pc = "asleep"
  BY DEF TickFire
<1> HIDE DEF Fires
<1>4. ASSUME NEW s \in Schedules
      PROVE  /\ Ticked(s)' = {} => Ticked(s) = {} /\ \A k \in Instants : ~Fires(s, k)
             /\ \A l \in Lanes : At(s, l, "updating")' =>
                   /\ At(s, l, "updating") /\ task'[s][l] = task[s][l]
                   /\ \A k \in Instants : ~Fires(s, k)
  <2> DEFINE slots == {x.sched : x \in {x \in loop.held : inflight[x.sched] < x.max}}
  <2>1. PICK lane \in [slots -> Lanes] :
          task' = [t \in Schedules |-> IF t \in slots THEN [task[t] EXCEPT ![lane[t]] = Play]
                                       ELSE task[t]]
    BY DEF TickFire
  <2>2. CASE s \in slots
    <3>1. task'[s] = [task[s] EXCEPT ![lane[s]] = Play] /\ lane[s] \in Lanes
      BY <2>1, <2>2
    <3>2. task[s] \in [Calls -> Call] /\ lane[s] \in Calls
      BY <3>1 DEF IInv, TypeOK, Calls
    <3>3. Ticked(s) = {}
      <4>1. PICK x \in loop.held : inflight[s] < x.max /\ x.sched = s
        BY <2>2
      <4>2. x.max = 1 /\ inflight[s] \in Nat
        BY DEF IInv, TypeOK, Read, Serial
      <4>3. inflight[s] = 0
        BY <4>1, <4>2
      <4> QED
        BY <4>3, TickedFinite, FS_EmptySet DEF IInv, InflightIsExact
    <3>4. \A l \in Lanes : task'[s][l].pc \in {"idle", "playing"}
      BY <3>1, <3>2, <3>3 DEF Ticked, Play, Calls
    <3>5. lane[s] \in Ticked(s)'
      BY <3>1, <3>2 DEF Ticked, Play
    <3> QED
      BY <3>4, <3>5 DEF At
  <2>3. CASE s \notin slots
    <3>1. task'[s] = task[s]
      BY <2>1, <2>3
    <3>2. \A k \in Instants : ~Fires(s, k)
      BY <2>3 DEF Fires
    <3> QED
      BY <3>1, <3>2 DEF Ticked, At
  <2> QED
    BY <2>2, <2>3
<1>5. ASSUME NEW s \in Schedules, NEW k \in Instants
      PROVE  fired[s][k] \in Nat
  BY DEF IInv, TypeOK
<1>6. \A s \in Schedules, k \in Instants : PassedOver(s, k)' = PassedOver(s, k)
  BY <1>3 DEF PassedOver
<1>7. FiredOncePassed'
  BY <1>1, <1>4, <1>6 DEF FiredOncePassed, SerialInv
<1>8. FiredTwicePassed'
  <2> SUFFICES ASSUME NEW s \in Schedules, NEW k \in Instants, fired'[s][k] > 1
               PROVE  PassedOver(s, k)
    BY <1>6 DEF FiredTwicePassed
  <2>1. CASE Fires(s, k)
    <3>1. fired[s][k] > 0 /\ Ticked(s) = {}
      BY <1>1, <1>2, <1>5, <2>1
    <3> QED
      BY <3>1 DEF SerialInv, FiredOncePassed
  <2>2. CASE ~Fires(s, k)
    BY <1>1, <2>2 DEF SerialInv, FiredTwicePassed
  <2> QED
    BY <2>1, <2>2
<1>9. NeverThrice'
  <2> SUFFICES ASSUME NEW s \in Schedules, NEW k \in Instants PROVE fired'[s][k] <= 2
    BY DEF NeverThrice
  <2>1. fired[s][k] <= 2
    BY DEF SerialInv, NeverThrice
  <2> QED
    BY <1>1, <1>2, <1>5, <2>1
<1>10. RunsMoveOn'
  BY <1>1, <1>4 DEF RunsMoveOn, SerialInv
<1> QED
  BY <1>3, <1>7, <1>8, <1>9, <1>10 DEF NoneYet, HeldOnce

\* A run that ends moves its row past everything fired, and one that goes on to
\* its update has a next_run_at after everything fired, as nothing is early.
LEMMA SerialRun ==
    ASSUME IInv, SerialInv, Serial, NeverEarly, NEW s \in Schedules, NEW l \in Calls,
           RecordRun(s, l) \/ RecordFire(s, l)
    PROVE  (FiredOncePassed /\ FiredTwicePassed /\ RunsMoveOn /\ NoneYet /\ HeldOnce
              /\ NeverThrice)'
<1>0. TypeOK /\ fired' = fired /\ loop' = loop
  BY DEF IInv, RecordRun, RecordFire
<1>1. NoneYet' /\ HeldOnce' /\ NeverThrice'
  BY <1>0 DEF SerialInv, NoneYet, HeldOnce, NeverThrice
<1>2. CASE RecordRun(s, l)
  <2>1. row' = row /\ Onward(s, l) /\ inflight' = inflight /\ task[s][l].pc = "recording"
    BY <1>2 DEF RecordRun, At
  <2>2. PICK call : /\ Become(s, l, call)
                    /\ call = IF l \in Lanes THEN [pc |-> "updating", next |-> NextAfter(s)]
                                             ELSE Rest
    BY <2>1 DEF Onward
  <2>3. \A t \in Schedules : Kept(t)
    BY <1>0, <2>1, <2>2, BecomeKeeps DEF Calls
  <2>4. FiredOncePassed' /\ FiredTwicePassed'
    BY <1>0, <2>1, <2>3 DEF SerialInv, FiredOncePassed, FiredTwicePassed, PassedOver, Kept
  <2>5. RunsMoveOn'
    <3> SUFFICES ASSUME NEW t \in Schedules, NEW m \in Lanes, NEW k \in Instants,
                        task'[t][m].pc = "updating", fired[t][k] > 0
                 PROVE  k < task'[t][m].next
      BY <1>0 DEF RunsMoveOn, At
    <3>1. CASE t = s /\ m = l
      <4>1. task'[t][m] = [pc |-> "updating", next |-> NextAfter(s)]
        BY <1>0, <2>2, <3>1, BecomeEffect
      <4>2. k <= instant[s]
        BY <3>1 DEF NeverEarly
      <4>3. k \in Nat /\ instant[s] \in Nat
        BY <1>0, SchedulerAssumption DEF TypeOK, Instants
      <4> QED
        BY <4>1, <4>2, <4>3 DEF NextAfter
    <3>2. CASE ~(t = s /\ m = l)
      <4>1. task'[t][m] = task[t][m]
        BY <1>0, <2>2, <3>2, BecomeEffect DEF Calls
      <4> QED
        BY <4>1 DEF SerialInv, RunsMoveOn, At
    <3> QED
      BY <3>1, <3>2
  <2> QED
    BY <1>1, <2>4, <2>5
<1>3. CASE RecordFire(s, l)
  <2>1. /\ task[s][l].pc = "updating"
        /\ row' = IF row[s].there THEN [row EXCEPT ![s].next = task[s][l].next] ELSE row
        /\ Become(s, l, Rest)
    BY <1>3 DEF RecordFire, At
  <2>2. l \in Lanes
    BY <2>1 DEF IInv, HandsNeverUpdate, Calls
  <2>3. \A k \in Instants : fired[s][k] > 0 => PassedOver(s, k)'
    BY <1>0, <2>1, <2>2 DEF SerialInv, RunsMoveOn, At, PassedOver, TypeOK, Row
  <2>4. \A t \in Schedules : t # s => row'[t] = row[t] /\ Ticked(t)' = Ticked(t)
    BY <1>0, <2>1, BecomeEffect DEF Ticked, Calls
  <2>5. FiredOncePassed' /\ FiredTwicePassed'
    <3>1. ASSUME NEW t \in Schedules, NEW k \in Instants, t # s
          PROVE  PassedOver(t, k)' = PassedOver(t, k)
      BY <2>4, <3>1 DEF PassedOver
    <3>2. \A k \in Instants : fired[s][k] \in Nat
      BY <1>0 DEF TypeOK
    <3> QED
      BY <1>0, <2>3, <2>4, <3>1, <3>2 DEF SerialInv, FiredOncePassed, FiredTwicePassed
  <2>6. RunsMoveOn'
    <3>1. \A t \in Schedules, m \in Lanes :
            task'[t][m] = task[t][m] \/ task'[t][m].pc = "idle"
      BY <1>0, <2>1, BecomeEffect DEF Calls, Rest
    <3> QED
      BY <1>0, <3>1 DEF SerialInv, RunsMoveOn, At
  <2> QED
    BY <1>1, <2>5, <2>6
<1> QED
  BY <1>2, <1>3

\* A PATCH that sets next_run_at forgets what was fired; another leaves it.
LEMMA SerialPatch ==
    ASSUME IInv, SerialInv, Serial, PatchWrite
    PROVE  (FiredOncePassed /\ FiredTwicePassed /\ RunsMoveOn /\ NoneYet /\ HeldOnce
              /\ NeverThrice)'
<1>0. /\ TypeOK /\ patch.sched \in Schedules /\ task' = task /\ loop' = loop
      /\ \A t \in Schedules : Ticked(t)' = Ticked(t)
  BY DEF IInv, TypeOK, PatchWrite, Ticked
<1>1. \A t \in Schedules, k \in Instants :
        \/ fired'[t][k] = 0
        \/ fired'[t][k] = fired[t][k] /\ PassedOver(t, k)' = PassedOver(t, k)
  <2> SUFFICES ASSUME NEW t \in Schedules, NEW k \in Instants
               PROVE  \/ fired'[t][k] = 0
                      \/ /\ fired'[t][k] = fired[t][k]
                         /\ PassedOver(t, k)' = PassedOver(t, k)
    OBVIOUS
  <2>1. CASE t = patch.sched /\ patch.change \in {"enable", "reschedule"}
    BY <1>0, <2>1 DEF PatchWrite, TypeOK
  <2>2. CASE ~(t = patch.sched /\ patch.change \in {"enable", "reschedule"})
    <3>1. fired'[t][k] = fired[t][k]
      BY <1>0, <2>2 DEF PatchWrite, TypeOK
    <3>2. row'[t].there = row[t].there /\ row'[t].next = row[t].next
      BY <1>0, <2>2 DEF PatchWrite, TypeOK, Row
    <3> QED
      BY <3>1, <3>2 DEF PassedOver
  <2> QED
    BY <2>1, <2>2
<1>2. FiredOncePassed' /\ FiredTwicePassed' /\ NeverThrice'
  BY <1>0, <1>1 DEF SerialInv, FiredOncePassed, FiredTwicePassed, NeverThrice
<1>3. RunsMoveOn' /\ NoneYet'
  BY <1>0, <1>1 DEF SerialInv, RunsMoveOn, NoneYet, At
<1>4. HeldOnce'
  <2> SUFFICES ASSUME loop.pc = "ticking", NEW x \in loop.held
               PROVE  fired'[x.sched][x.next] <= 1
    BY <1>0 DEF HeldOnce
  <2>1. x.sched \in Schedules /\ x.next \in Instants
    BY <1>0 DEF TypeOK, Read
  <2>2. fired[x.sched][x.next] <= 1
    BY DEF SerialInv, HeldOnce
  <2> QED
    BY <1>1, <2>1, <2>2
<1> QED
  BY <1>2, <1>3, <1>4

LEMMA SerialStep ==
    ASSUME IInv, IInv', SerialInv, NeverEarly, [Next]_vars
    PROVE  SerialInv'
<1> SUFFICES ASSUME Serial'
             PROVE  (FiredOncePassed /\ FiredTwicePassed /\ RunsMoveOn /\ NoneYet
                       /\ HeldOnce /\ NeverThrice)'
  BY DEF SerialInv
<1>0. TypeOK /\ TypeOK'
  BY DEF IInv
<1>1. faults' = faults \/ faults' = faults + 1
  BY DEF Next, vars, LoopStep, RecoverList, RecoverWrite, RecoverEnd, TickRead, TickFire,
     PatchWrite, Operator, Create, PatchRead, Delete, RunNow, TimePasses, CallStep, PlayEnd,
     RecordRun, RecordFire, RecordRunRaises, RecordFireRaises, RecoverRaises, Crash
<1>2. Serial /\ faults' = faults
  BY <1>0, <1>1 DEF Serial, TypeOK
<1>3. ASSUME fired' = fired, row' = row, task' = task,
             loop' = loop \/ loop'.pc \in {"asleep", "recovering"},
             loop'.pc = "recovering" => loop.pc \in {"starting", "recovering"}
      PROVE  (FiredOncePassed /\ FiredTwicePassed /\ RunsMoveOn /\ NoneYet /\ HeldOnce
                /\ NeverThrice)'
  BY <1>2, <1>3 DEF SerialInv, FiredOncePassed, FiredTwicePassed, RunsMoveOn, NoneYet,
     HeldOnce, NeverThrice, PassedOver, Ticked, At
<1>4. CASE RecoverList
  BY <1>3, <1>4 DEF RecoverList
<1>5. CASE RecoverWrite
  <2>1. \A s \in Schedules, k \in Instants : fired[s][k] = 0
    BY <1>2, <1>5 DEF RecoverWrite, SerialInv, NoneYet
  <2>2. PICK x : loop' = [loop EXCEPT !.held = @ \ {x}]
    BY <1>5 DEF RecoverWrite
  <2>3. fired' = fired /\ loop'.pc = "recovering"
    BY <1>0, <1>5, <2>2 DEF RecoverWrite, TypeOK
  <2> QED
    BY <2>1, <2>3 DEF FiredOncePassed, FiredTwicePassed, RunsMoveOn, NoneYet, HeldOnce,
       NeverThrice
<1>6. CASE RecoverEnd
  <2>1. loop'.pc = "asleep"
    BY <1>0, <1>6 DEF RecoverEnd, TypeOK
  <2> QED
    BY <1>3, <1>6, <2>1 DEF RecoverEnd
<1>7. CASE TickRead
  <2>1. row' = row /\ task' = task /\ fired' = fired /\ loop'.pc = "ticking"
    BY <1>7 DEF TickRead
  <2>2. HeldOnce'
    <3> SUFFICES ASSUME NEW s \in Schedules, Due(s) PROVE fired[s][row[s].next] <= 1
      BY <1>7, <2>1 DEF TickRead, HeldOnce, ReadOf
    <3>1. row[s].next \in Instants /\ row[s].next \in Nat /\ fired[s][row[s].next] \in Nat
      <4>1. row[s].next \in Instants
        BY <1>0 DEF TypeOK, Row
      <4>2. row[s].next \in Nat
        BY <4>1, SchedulerAssumption DEF Instants
      <4> QED
        BY <1>0, <4>1, <4>2 DEF TypeOK
    <3>2. ~PassedOver(s, row[s].next)
      BY <3>1 DEF PassedOver, Due
    <3> QED
      BY <1>2, <3>1, <3>2 DEF SerialInv, FiredTwicePassed
  <2> QED
    BY <1>2, <2>1, <2>2 DEF SerialInv, FiredOncePassed, FiredTwicePassed, RunsMoveOn,
       NoneYet, NeverThrice, PassedOver, Ticked, At
<1>8. CASE TickFire
  BY <1>2, <1>8, SerialFire
<1>9. CASE PatchWrite
  BY <1>2, <1>9, SerialPatch
<1>10. ASSUME NEW s \in Schedules, Create(s) \/ Delete(s)
       PROVE  (FiredOncePassed /\ FiredTwicePassed /\ RunsMoveOn /\ NoneYet /\ HeldOnce
                 /\ NeverThrice)'
  <2>1. fired' = fired /\ task' = task /\ loop' = loop
    BY <1>10 DEF Create, Delete
  <2>2. ASSUME NEW t \in Schedules, NEW k \in Instants, fired[t][k] > 0, PassedOver(t, k)
        PROVE  PassedOver(t, k)'
    <3>1. CASE t # s
      BY <1>0, <1>10, <2>2, <3>1 DEF Create, Delete, TypeOK, PassedOver
    <3>2. CASE t = s /\ Delete(s)
      BY <1>0, <3>2 DEF Delete, TypeOK, Row, PassedOver
    <3>3. CASE t = s /\ Create(s)
      <4>1. row'[s].next = NextAfter(s)
        BY <1>0, <3>3 DEF Create, TypeOK
      <4>2. k <= instant[s]
        BY <2>2, <3>3 DEF NeverEarly
      <4>3. k \in Nat /\ instant[s] \in Nat
        BY <1>0, SchedulerAssumption DEF TypeOK, Instants
      <4> QED
        BY <3>3, <4>1, <4>2, <4>3 DEF PassedOver, NextAfter
    <3> QED
      BY <1>10, <3>1, <3>2, <3>3
  <2>3. \A t \in Schedules, k \in Instants : fired[t][k] \in Nat
    BY <1>0 DEF TypeOK
  <2>4. (FiredOncePassed /\ FiredTwicePassed)'
    BY <1>2, <2>1, <2>2, <2>3 DEF SerialInv, FiredOncePassed, FiredTwicePassed, Ticked
  <2> QED
    BY <1>2, <2>1, <2>4 DEF SerialInv, RunsMoveOn, NoneYet, HeldOnce, NeverThrice, At
<1>11. ASSUME NEW s \in Schedules, NEW l \in Calls, RecordRun(s, l) \/ RecordFire(s, l)
       PROVE  (FiredOncePassed /\ FiredTwicePassed /\ RunsMoveOn /\ NoneYet /\ HeldOnce
                 /\ NeverThrice)'
  BY <1>2, <1>11, SerialRun
<1>12. ASSUME NEW s \in Schedules, NEW l \in Calls,
              PlayEnd(s, l) \/ (l \in Hands /\ RunNow(s, l))
       PROVE  (FiredOncePassed /\ FiredTwicePassed /\ RunsMoveOn /\ NoneYet /\ HeldOnce
                 /\ NeverThrice)'
  <2>1. fired' = fired /\ row' = row /\ loop' = loop /\ inflight' = inflight
    BY <1>12 DEF PlayEnd, RunNow
  <2>2. PICK call : /\ Become(s, l, call) /\ call.pc # "idle" /\ call.pc # "updating"
                    /\ l \in Hands \/ task[s][l].pc # "idle"
    <3>1. CASE PlayEnd(s, l)
      <4>1. task[s][l] \in Call
        BY <1>0 DEF TypeOK
      <4>2. [task[s][l] EXCEPT !.pc = "recording"].pc = "recording"
        BY <4>1 DEF Call
      <4> QED
        BY <3>1, <4>2 DEF PlayEnd, At
    <3>2. CASE l \in Hands /\ RunNow(s, l)
      BY <3>2 DEF RunNow, Play
    <3> QED
      BY <1>12, <3>1, <3>2
  <2>3. \A t \in Schedules : Ticked(t)' = Ticked(t)
    BY <1>0, <2>1, <2>2, BecomeKeeps DEF Kept
  <2>4. \A t \in Schedules, m \in Lanes :
          task'[t][m] = task[t][m] \/ task'[t][m].pc # "updating"
    BY <1>0, <2>2, BecomeEffect DEF Calls
  <2> QED
    BY <1>2, <2>1, <2>3, <2>4 DEF SerialInv, FiredOncePassed, FiredTwicePassed, RunsMoveOn,
       NoneYet, HeldOnce, NeverThrice, PassedOver, At
<1>13. ASSUME NEW s \in Schedules, PatchRead(s) \/ TimePasses(s)
       PROVE  (FiredOncePassed /\ FiredTwicePassed /\ RunsMoveOn /\ NoneYet /\ HeldOnce
                 /\ NeverThrice)'
  BY <1>0, <1>3, <1>13 DEF PatchRead, TimePasses, NoneYet
<1>14. CASE UNCHANGED vars
  BY <1>3, <1>14 DEF vars
<1>15. ASSUME \/ RecoverRaises \/ Crash
              \/ \E s \in Schedules, l \in Calls : RecordRunRaises(s, l) \/ RecordFireRaises(s, l)
       PROVE  FALSE
  <2>1. faults' = faults + 1
    BY <1>15 DEF RecoverRaises, Crash, RecordRunRaises, RecordFireRaises
  <2> QED
    BY <1>0, <1>2, <2>1 DEF TypeOK
<1> QED
  BY <1>4, <1>5, <1>6, <1>7, <1>8, <1>9, <1>10, <1>11, <1>12, <1>13, <1>14, <1>15
     DEF Next, LoopStep, Operator, CallStep, Calls

\* With max_concurrent = 1 and no failed write or restart, an instant is fired
\* at most twice between two patches of its schedule, however ticks, runs, run-now
\* requests and deletions interleave: only a tick that read the row before the
\* first run moved it on can fire it again.
THEOREM FiredTwiceAtMost == Spec => []TwiceAtMost
<1>1. SerialInv => TwiceAtMost
  BY DEF SerialInv, Serial, NeverThrice, TwiceAtMost
<1>2. IInv /\ IInv' /\ SerialInv /\ NeverEarly /\ [Next]_vars => SerialInv'
  BY SerialStep
<1> QED
  BY <1>1, <1>2, SerialInit, Invariance, NeverEarlyHolds, PTL DEF Spec
=============================================================================
