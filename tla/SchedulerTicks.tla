--------------------------- MODULE SchedulerTicks ---------------------------
(***************************************************************************)
(* Cron schedules: rows of the sqlite tables `schedules` and `run_history` *)
(* (backend/core/scheduler/store.py), fired by the tick loop of            *)
(* SchedulerRunner (backend/core/scheduler/runner.py) and steered by the   *)
(* handlers of web_extras/routers/scheduler.py.                            *)
(*                                                                         *)
(* Time is counted per schedule in instants its cron expression matches:   *)
(* next_after(now) is the instant after the last one that has passed.      *)
(***************************************************************************)
EXTENDS Naturals, FiniteSets

CONSTANTS
    Schedules,   \* schedule ids a run may create
    Lanes,       \* ticked runs of one schedule in flight at the same time
    Hands,       \* run-now requests of one schedule in flight at the same time
    Sizes,       \* values of max_concurrent
    MaxInstants, \* bound on the instants of a schedule that pass
    MaxFaults    \* bound on restarts and failed writes

ASSUME SchedulerAssumption ==
    /\ IsFiniteSet(Lanes)
    /\ Lanes \intersect Hands = {}
    /\ Sizes \subseteq Nat \ {0}
    /\ MaxInstants \in Nat
    /\ MaxFaults \in Nat

VARIABLES
    row,      \* schedule -> its row
    instant,  \* schedule -> its last instant that has passed
    loop,     \* scheduler_loop: where it is suspended, and what it read
    patch,    \* a PATCH in flight: where it is suspended, and what it writes
    task,     \* schedule, lane or hand -> a call of fire_schedule
    inflight, \* SchedulerRunner._inflight
    history,  \* schedules with rows in run_history
    fired,    \* schedule, instant -> times the tick fired it since a PATCH last
              \* set next_run_at
    faults

vars == <<row, instant, loop, patch, task, inflight, history, fired, faults>>

-----------------------------------------------------------------------------
(* Types                                                                   *)

Instants == 0..(MaxInstants + 1)
Calls == Lanes \union Hands

Row == [there : BOOLEAN, used : BOOLEAN, enabled : BOOLEAN, next : Instants, max : Sizes]

\* What due_now and list_schedules return of a row, next recomputed by recovery.
Read == [sched : Schedules, next : Instants, max : Sizes]

Change == {"enable", "disable", "reschedule", "resize"}

\* playing: run_playbook; recording: record_run; updating: record_fire.
Call == [pc : {"idle", "playing", "recording", "updating"}, next : Instants]

TypeOK ==
    /\ row \in [Schedules -> Row]
    /\ instant \in [Schedules -> 0..MaxInstants]
    /\ loop \in [pc : {"starting", "recovering", "asleep", "ticking"}, held : SUBSET Read]
    /\ patch \in [pc : {"idle", "writing"}, change : Change, sched : Schedules,
                  next : Instants, max : Sizes]
    /\ task \in [Schedules -> [Calls -> Call]]
    /\ inflight \in [Schedules -> Nat]
    /\ history \subseteq Schedules
    /\ fired \in [Schedules -> [Instants -> Nat]]
    /\ faults \in Nat

-----------------------------------------------------------------------------
(* Helpers                                                                 *)

NextAfter(s) == instant[s] + 1

\* due_now: enabled=1 AND next_run_at <= now.
Due(s) == row[s].there /\ row[s].enabled /\ row[s].next <= instant[s]

ReadOf(s) == [sched |-> s, next |-> row[s].next, max |-> row[s].max]

Rest == [pc |-> "idle", next |-> 0]
Play == [pc |-> "playing", next |-> 0]

At(s, l, pc) == task[s][l].pc = pc
Become(s, l, call) == task' = [task EXCEPT ![s][l] = call]

\* The finally of _fire_and_track: max(0, count - 1).
CountOut(s) == inflight' = [inflight EXCEPT ![s] = IF @ = 0 THEN 0 ELSE @ - 1]

\* The runs of s the tick has in flight.
Ticked(s) == {l \in Lanes : task[s][l].pc # "idle"}

-----------------------------------------------------------------------------
(* The handlers of web_extras/routers/scheduler.py                         *)

Create(s) ==
    /\ ~row[s].used
    /\ \E enabled \in BOOLEAN, max \in Sizes :
         row' = [row EXCEPT ![s] = [there |-> TRUE, used |-> TRUE, enabled |-> enabled,
                                    next |-> NextAfter(s), max |-> max]]
    /\ UNCHANGED <<instant, loop, patch, task, inflight, history, fired, faults>>

\* _update_sync reads the row and the clock, then writes the changed columns.
PatchRead(s) ==
    /\ patch.pc = "idle"
    /\ row[s].there
    /\ \E change \in Change, max \in Sizes :
         patch' = [pc |-> "writing", change |-> change, sched |-> s,
                   next |-> NextAfter(s), max |-> max]
    /\ UNCHANGED <<row, instant, loop, task, inflight, history, fired, faults>>

PatchWrite ==
    LET s == patch.sched
    IN  /\ patch.pc = "writing"
        /\ patch' = [patch EXCEPT !.pc = "idle"]
        /\ row' = IF ~row[s].there THEN row
                  ELSE [row EXCEPT
                     ![s].enabled = IF patch.change = "enable" THEN TRUE
                                    ELSE IF patch.change = "disable" THEN FALSE
                                    ELSE @,
                     ![s].next = IF patch.change \in {"enable", "reschedule"}
                                 THEN patch.next ELSE @,
                     ![s].max = IF patch.change = "resize" THEN patch.max ELSE @]
        /\ fired' = IF patch.change \in {"enable", "reschedule"}
                    THEN [fired EXCEPT ![s] = [k \in Instants |-> 0]] ELSE fired
        /\ UNCHANGED <<instant, loop, task, inflight, history, faults>>

\* The row and its history, in one transaction.
Delete(s) ==
    /\ row[s].there
    /\ row' = [row EXCEPT ![s].there = FALSE]
    /\ history' = history \ {s}
    /\ UNCHANGED <<instant, loop, patch, task, inflight, fired, faults>>

\* POST /schedules/{id}/run-now, of an enabled or a disabled schedule.
RunNow(s, h) ==
    /\ row[s].there
    /\ At(s, h, "idle")
    /\ Become(s, h, Play)
    /\ UNCHANGED <<row, instant, loop, patch, inflight, history, fired, faults>>

-----------------------------------------------------------------------------
(* scheduler_loop                                                          *)

\* recover_state: list_schedules, and the clock.
RecoverList ==
    /\ loop.pc = "starting"
    /\ loop' = [pc   |-> "recovering",
                held |-> {[ReadOf(s) EXCEPT !.next = NextAfter(s)] :
                            s \in {s \in Schedules : row[s].there /\ row[s].enabled}}]
    /\ UNCHANGED <<row, instant, patch, task, inflight, history, fired, faults>>

\* set_next_run, of one schedule it listed.
RecoverWrite ==
    /\ loop.pc = "recovering"
    /\ \E x \in loop.held :
         /\ row' = IF row[x.sched].there THEN [row EXCEPT ![x.sched].next = x.next] ELSE row
         /\ loop' = [loop EXCEPT !.held = @ \ {x}]
    /\ UNCHANGED <<instant, patch, task, inflight, history, fired, faults>>

RecoverEnd ==
    /\ loop.pc = "recovering"
    /\ loop.held = {}
    /\ loop' = [loop EXCEPT !.pc = "asleep"]
    /\ UNCHANGED <<row, instant, patch, task, inflight, history, fired, faults>>

\* recover_state raised: logged, and on to the ticks.
RecoverRaises ==
    /\ loop.pc \in {"starting", "recovering"}
    /\ faults < MaxFaults
    /\ faults' = faults + 1
    /\ loop' = [pc |-> "asleep", held |-> {}]
    /\ UNCHANGED <<row, instant, patch, task, inflight, history, fired>>

\* tick: due_now (a tick that finds nothing due does nothing).
TickRead ==
    LET due == {s \in Schedules : Due(s)}
    IN  /\ loop.pc = "asleep"
        /\ due # {}
        /\ loop' = [pc |-> "ticking", held |-> {ReadOf(s) : s \in due}]
        /\ UNCHANGED <<row, instant, patch, task, inflight, history, fired, faults>>

\* Mutant: one run too many.
TickFireOver ==
    LET chosen == {x \in loop.held : inflight[x.sched] <= x.max}
        slots == {x.sched : x \in chosen}
    IN  /\ loop.pc = "ticking"
        /\ loop' = [pc |-> "asleep", held |-> {}]
        /\ \E lane \in [slots -> Lanes] :
             /\ \A s \in slots : At(s, lane[s], "idle")
             /\ task' = [s \in Schedules |->
                          IF s \in slots THEN [task[s] EXCEPT ![lane[s]] = Play]
                          ELSE task[s]]
        /\ inflight' = [s \in Schedules |-> IF s \in slots THEN inflight[s] + 1
                                            ELSE inflight[s]]
        /\ fired' = [s \in Schedules |-> [k \in Instants |->
                        IF \E x \in chosen : x.sched = s /\ x.next = k
                        THEN fired[s][k] + 1 ELSE fired[s][k]]]
        /\ UNCHANGED <<row, instant, patch, history, faults>>

\* One task per read row whose max_concurrent is not reached.  The tasks count
\* themselves in as soon as the loop sleeps, before any later tick.
TickFire ==
    LET chosen == {x \in loop.held : inflight[x.sched] < x.max}
        slots == {x.sched : x \in chosen}
    IN  /\ loop.pc = "ticking"
        /\ loop' = [pc |-> "asleep", held |-> {}]
        /\ \E lane \in [slots -> Lanes] :
             /\ \A s \in slots : At(s, lane[s], "idle")
             /\ task' = [s \in Schedules |->
                          IF s \in slots THEN [task[s] EXCEPT ![lane[s]] = Play]
                          ELSE task[s]]
        /\ inflight' = [s \in Schedules |-> IF s \in slots THEN inflight[s] + 1
                                            ELSE inflight[s]]
        /\ fired' = [s \in Schedules |-> [k \in Instants |->
                        IF \E x \in chosen : x.sched = s /\ x.next = k
                        THEN fired[s][k] + 1 ELSE fired[s][k]]]
        /\ UNCHANGED <<row, instant, patch, history, faults>>

-----------------------------------------------------------------------------
(* fire_schedule                                                           *)

\* run_playbook returned or raised.
PlayEnd(s, l) ==
    /\ At(s, l, "playing")
    /\ Become(s, l, [task[s][l] EXCEPT !.pc = "recording"])
    /\ UNCHANGED <<row, instant, loop, patch, inflight, history, fired, faults>>

\* Mutant: next_run_at is written back as it was.
OnwardStale(s, l) ==
    Become(s, l, IF l \in Lanes THEN [pc |-> "updating", next |-> row[s].next] ELSE Rest)

\* After record_run: done, or on to record_fire with a fresh next_run_at.
Onward(s, l) ==
    Become(s, l, IF l \in Lanes THEN [pc |-> "updating", next |-> NextAfter(s)] ELSE Rest)

\* Mutant: without PRAGMA foreign_keys.
RecordRunUnchecked(s, l) ==
    /\ At(s, l, "recording")
    /\ history' = history \union {s}
    /\ Onward(s, l)
    /\ UNCHANGED <<row, instant, loop, patch, inflight, fired, faults>>

\* The foreign key refuses the run of a deleted schedule; fire_schedule logs it.
RecordRun(s, l) ==
    /\ At(s, l, "recording")
    /\ history' = IF row[s].there THEN history \union {s} ELSE history
    /\ Onward(s, l)
    /\ UNCHANGED <<row, instant, loop, patch, inflight, fired, faults>>

RecordRunRaises(s, l) ==
    /\ At(s, l, "recording")
    /\ faults < MaxFaults
    /\ faults' = faults + 1
    /\ Onward(s, l)
    /\ UNCHANGED <<row, instant, loop, patch, inflight, history, fired>>

\* record_fire, then _fire_and_track counts the run out.
RecordFire(s, l) ==
    /\ At(s, l, "updating")
    /\ row' = IF row[s].there THEN [row EXCEPT ![s].next = task[s][l].next] ELSE row
    /\ CountOut(s)
    /\ Become(s, l, Rest)
    /\ UNCHANGED <<instant, loop, patch, history, fired, faults>>

\* Mutant: the count is given back on success only.
RecordFireRaisesLeaky(s, l) ==
    /\ At(s, l, "updating")
    /\ faults < MaxFaults
    /\ faults' = faults + 1
    /\ Become(s, l, Rest)
    /\ UNCHANGED <<row, instant, loop, patch, inflight, history, fired>>

\* record_fire raised: logged, and counted out all the same.
RecordFireRaises(s, l) ==
    /\ At(s, l, "updating")
    /\ faults < MaxFaults
    /\ faults' = faults + 1
    /\ CountOut(s)
    /\ Become(s, l, Rest)
    /\ UNCHANGED <<row, instant, loop, patch, history, fired>>

-----------------------------------------------------------------------------
(* The environment                                                         *)

TimePasses(s) ==
    /\ instant[s] < MaxInstants
    /\ instant' = [instant EXCEPT ![s] = @ + 1]
    /\ UNCHANGED <<row, loop, patch, task, inflight, history, fired, faults>>

\* A restart forgets the loop, the calls and _inflight; the rows survive.
Crash ==
    /\ faults < MaxFaults
    /\ faults' = faults + 1
    /\ loop' = [pc |-> "starting", held |-> {}]
    /\ patch' = [patch EXCEPT !.pc = "idle"]
    /\ task' = [s \in Schedules |-> [l \in Calls |-> Rest]]
    /\ inflight' = [s \in Schedules |-> 0]
    /\ UNCHANGED <<row, instant, history, fired>>

\* The table is empty; the handlers serve while the first recovery runs.
Init ==
    /\ \E max \in Sizes :
         /\ row = [s \in Schedules |-> [there |-> FALSE, used |-> FALSE, enabled |-> FALSE,
                                        next |-> 0, max |-> max]]
         /\ \E s \in Schedules :
              patch = [pc |-> "idle", change |-> "enable", sched |-> s, next |-> 0,
                       max |-> max]
    /\ instant = [s \in Schedules |-> 0]
    /\ loop = [pc |-> "starting", held |-> {}]
    /\ task = [s \in Schedules |-> [l \in Calls |-> Rest]]
    /\ inflight = [s \in Schedules |-> 0]
    /\ history = {}
    /\ fired = [s \in Schedules |-> [k \in Instants |-> 0]]
    /\ faults = 0

LoopStep == RecoverList \/ RecoverWrite \/ RecoverEnd \/ TickRead \/ TickFire

CallStep(s, l) == PlayEnd(s, l) \/ RecordRun(s, l) \/ RecordFire(s, l)

Operator(s) == Create(s) \/ PatchRead(s) \/ Delete(s) \/ \E h \in Hands : RunNow(s, h)

Next ==
    \/ LoopStep \/ PatchWrite
    \/ \E s \in Schedules :
         \/ Operator(s) \/ TimePasses(s)
         \/ \E l \in Calls : CallStep(s, l) \/ RecordRunRaises(s, l) \/ RecordFireRaises(s, l)
    \/ RecoverRaises \/ Crash

Spec == Init /\ [][Next]_vars

\* The loop survives every exception; runs of playbooks end.
Fairness ==
    /\ WF_vars(LoopStep)
    /\ \A s \in Schedules, l \in Calls : WF_vars(CallStep(s, l))

FairSpec == Spec /\ Fairness

-----------------------------------------------------------------------------
(* Properties                                                              *)

\* _inflight counts exactly the ticked runs in flight, whatever fails in them.
InflightIsExact == \A s \in Schedules : inflight[s] = Cardinality(Ticked(s))

\* No more ticked runs of a schedule than the largest max_concurrent in use.
NeverOverfull == \A s \in Schedules : \E max \in Sizes : Cardinality(Ticked(s)) <= max

\* run_history never refers to a deleted schedule, although runs outlive it.
NoOrphanRuns == \A s \in history : row[s].there

\* The tick fires no instant before it has passed, although next_run_at may
\* have moved since it was read.
NeverEarly == \A s \in Schedules, k \in Instants : fired[s][k] > 0 => k <= instant[s]

\* With max_concurrent = 1 an instant is fired at most twice between two
\* patches of its schedule: the tick may have read the row just before the
\* first run moved it on.
TwiceAtMost ==
    faults = 0 /\ Sizes = {1} => \A s \in Schedules, k \in Instants : fired[s][k] <= 2

\* A due schedule does not stay due: it is fired, or the operator or the
\* recovery moves it.
DueIsServed == \A s \in Schedules : Due(s) ~> ~Due(s)

\* "a process restart at most postpones one tick - no scheduled fire is lost"
\* (docs/contracts/SCHEDULER.md): after a restart, with nobody patching it, a
\* due instant is passed over only because a run of it ended.
NoFireLost ==
    [][\A s \in Schedules :
         faults > 0 /\ Due(s) /\ row'[s].there /\ patch.pc = "idle" =>
             Due(s)' \/ \E l \in Lanes : At(s, l, "updating")]_vars
=============================================================================
