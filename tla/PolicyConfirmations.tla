------------------------ MODULE PolicyConfirmations ------------------------
(***************************************************************************)
(* The human-in-the-loop queue: rows of the sqlite table `confirmations`   *)
(* (backend/core/policy/store.py), staged by PolicyGate.check              *)
(* (backend/core/policy/gate.py), resolved by the handlers of              *)
(* web_extras/routers/policy.py and reaped by the expire loop of           *)
(* web_extras/app.py.                                                      *)
(*                                                                         *)
(* Every `await asyncio.to_thread(...)` and every awaited call ends an     *)
(* atomic step: other requests run between two steps of a request.  Each   *)
(* SQL statement is atomic by itself (autocommit connections).             *)
(***************************************************************************)
EXTENDS Naturals, FiniteSets

CONSTANTS
    Tokens,      \* confirmation tokens a run may stage
    Requests,    \* HTTP requests in flight at the same time
    Sweepers,    \* concurrent calls of expire_stale: the loop, POST /expire
    Orphans,     \* tokens whose pack or action is no longer registered
    OverCeiling, \* tokens whose dollar impact exceeds the bulk ceiling
    MaxCrashes   \* bound on process restarts

ASSUME PolicyAssumption ==
    /\ Orphans \subseteq Tokens
    /\ OverCeiling \subseteq Tokens
    /\ MaxCrashes \in Nat

VARIABLES
    row,      \* token -> the status and result columns of its row
    lapsed,   \* tokens whose expires_at is in the past
    req,      \* request -> where it is suspended, and its token
    sweep,    \* sweeper -> where it is suspended, and the tokens it holds
    runs,     \* token -> times its handler was started by /confirm
    returned, \* token -> times its handler returned normally
    told,     \* token -> events, webhooks and receipts sent about it
    unsaid,   \* tokens a sweep had expired, and still had to report, when an
              \* event that raised or a restart cut it off
    crashes

vars == <<row, lapsed, req, sweep, runs, returned, told, unsaid, crashes>>

-----------------------------------------------------------------------------
(* Types                                                                   *)

Terminal == {"confirmed", "cancelled", "expired", "failed"}
Status == {"none", "pending"} \union Terminal

\* What the result column holds: NULL, {}, the handler's result, an error,
\* {"via": "bulk_approve"} or {"via": "deny"}.
Result == {"null", "empty", "handler", "error", "bulk", "deny"}

Event == {"requested", "approvedByConfirm", "approvedByBulk", "denied", "expired"}

RequestPc == {"idle", "staged",
              "judge", "lapsed", "orphan", "approve", "start", "running",
              "returned", "raised",
              "cancelling", "denied", "approving", "approved"}

\* A confirm request that has passed its checks and has not written yet.
Committed == {"judge", "approve", "start", "running", "returned", "raised"}

SweepPc == {"idle", "selected", "emitting"}

TypeOK ==
    /\ row \in [Tokens -> [status : Status, result : Result]]
    /\ lapsed \subseteq Tokens
    /\ req \in [Requests -> [pc : RequestPc, tok : Tokens]]
    /\ sweep \in [Sweepers -> [pc : SweepPc, held : SUBSET Tokens]]
    /\ runs \in [Tokens -> Nat]
    /\ returned \in [Tokens -> Nat]
    /\ told \in [Tokens -> SUBSET Event]
    /\ unsaid \subseteq Tokens
    /\ crashes \in Nat

Pending(t) == row[t].status = "pending"

-----------------------------------------------------------------------------
(* The store                                                               *)

\* Mutant: without "AND status = 'pending'".
ResolveAnyStatus(t, status, result) ==
    row' = [row EXCEPT ![t] = [status |-> status, result |-> result]]

\* PolicyStore._resolve_sync: UPDATE ... WHERE token = ? AND status = 'pending'.
Resolve(t, status, result) ==
    row' = IF Pending(t)
           THEN [row EXCEPT ![t] = [status |-> status, result |-> result]]
           ELSE row

Tell(t, e) == told' = [told EXCEPT ![t] = @ \union {e}]

-----------------------------------------------------------------------------
(* Requests                                                                *)

Goto(r, pc) == req' = [req EXCEPT ![r].pc = pc]
Begin(r, pc, t) == req[r].pc = "idle" /\ req' = [req EXCEPT ![r] = [pc |-> pc, tok |-> t]]
At(r, pc) == req[r].pc = pc

\* PolicyGate.check for a destructive, unconfirmed action in confirm mode:
\* the row is created, then hil.requested is fanned out.
Stage(r, t) ==
    /\ row[t].status = "none"
    /\ Begin(r, "staged", t)
    /\ row' = [row EXCEPT ![t] = [status |-> "pending", result |-> "null"]]
    /\ UNCHANGED <<lapsed, sweep, runs, returned, told, unsaid, crashes>>

AnnounceStaged(r) ==
    /\ At(r, "staged")
    /\ Tell(req[r].tok, "requested")
    /\ Goto(r, "idle")
    /\ UNCHANGED <<row, lapsed, sweep, runs, returned, unsaid, crashes>>

\* Mutant: without the 409 for a row that is not pending.
ConfirmReadAnyStatus(r, t) ==
    /\ row[t].status # "none"
    /\ Begin(r, "judge", t)
    /\ UNCHANGED <<row, lapsed, sweep, runs, returned, told, unsaid, crashes>>

\* POST /confirm/{token}: the read.  A row that is not pending is a 404 or
\* a 409 and the request changes nothing.
ConfirmRead(r, t) ==
    /\ Pending(t)
    /\ Begin(r, "judge", t)
    /\ UNCHANGED <<row, lapsed, sweep, runs, returned, told, unsaid, crashes>>

\* The checks on the row it read: TTL first, then pack and action.
ConfirmJudge(r) ==
    /\ At(r, "judge")
    /\ Goto(r, IF req[r].tok \in lapsed THEN "lapsed"
               ELSE IF req[r].tok \in Orphans THEN "orphan"
               ELSE "approve")
    /\ UNCHANGED <<row, lapsed, sweep, runs, returned, told, unsaid, crashes>>

\* 410 confirmation_expired.
ConfirmLapsed(r) ==
    /\ At(r, "lapsed")
    /\ Resolve(req[r].tok, "expired", "empty")
    /\ Goto(r, "idle")
    /\ UNCHANGED <<lapsed, sweep, runs, returned, told, unsaid, crashes>>

\* 404 domain_not_found / action_not_found.
ConfirmOrphan(r) ==
    /\ At(r, "orphan")
    /\ Resolve(req[r].tok, "failed", "error")
    /\ Goto(r, "idle")
    /\ UNCHANGED <<lapsed, sweep, runs, returned, told, unsaid, crashes>>

\* policy.confirm, the hil.approved webhook and the hil.approved receipt.
ConfirmAnnounce(r) ==
    /\ At(r, "approve")
    /\ Tell(req[r].tok, "approvedByConfirm")
    /\ Goto(r, "start")
    /\ UNCHANGED <<row, lapsed, sweep, runs, returned, unsaid, crashes>>

ConfirmStart(r) ==
    /\ At(r, "start")
    /\ runs' = [runs EXCEPT ![req[r].tok] = @ + 1]
    /\ Goto(r, "running")
    /\ UNCHANGED <<row, lapsed, sweep, returned, told, unsaid, crashes>>

HandlerReturns(r) ==
    /\ At(r, "running")
    /\ returned' = [returned EXCEPT ![req[r].tok] = @ + 1]
    /\ Goto(r, "returned")
    /\ UNCHANGED <<row, lapsed, sweep, runs, told, unsaid, crashes>>

\* Mutant: the except branch falls through to the success path.
HandlerRaisesUnnoticed(r) ==
    /\ At(r, "running")
    /\ Goto(r, "returned")
    /\ UNCHANGED <<row, lapsed, sweep, runs, returned, told, unsaid, crashes>>

\* Mutant: the except branch tries the handler again.
HandlerRaisesRetried(r) ==
    /\ At(r, "running")
    /\ Goto(r, "start")
    /\ UNCHANGED <<row, lapsed, sweep, runs, returned, told, unsaid, crashes>>

HandlerRaises(r) ==
    /\ At(r, "running")
    /\ Goto(r, "raised")
    /\ UNCHANGED <<row, lapsed, sweep, runs, returned, told, unsaid, crashes>>

\* The row is written only now; a lost race is not noticed.
ConfirmResolve(r) ==
    /\ At(r, "returned")
    /\ Resolve(req[r].tok, "confirmed", "handler")
    /\ Goto(r, "idle")
    /\ UNCHANGED <<lapsed, sweep, runs, returned, told, unsaid, crashes>>

ConfirmFail(r) ==
    /\ At(r, "raised")
    /\ Resolve(req[r].tok, "failed", "error")
    /\ Goto(r, "idle")
    /\ UNCHANGED <<lapsed, sweep, runs, returned, told, unsaid, crashes>>

\* Mutant: without the 409 for a row that is not pending.
CancelReadAnyStatus(r, t) ==
    /\ row[t].status # "none"
    /\ Begin(r, "cancelling", t)
    /\ UNCHANGED <<row, lapsed, sweep, runs, returned, told, unsaid, crashes>>

\* POST /cancel/{token} and POST /deny/{token}.
CancelRead(r, t) ==
    /\ Pending(t)
    /\ Begin(r, "cancelling", t)
    /\ UNCHANGED <<row, lapsed, sweep, runs, returned, told, unsaid, crashes>>

CancelResolve(r) ==
    /\ At(r, "cancelling")
    /\ \E result \in {"empty", "deny"} : Resolve(req[r].tok, "cancelled", result)
    /\ Goto(r, "denied")
    /\ UNCHANGED <<lapsed, sweep, runs, returned, told, unsaid, crashes>>

\* policy.cancelled, the hil.denied webhook and receipt, whether or not the
\* UPDATE matched.
CancelAnnounce(r) ==
    /\ At(r, "denied")
    /\ Tell(req[r].tok, "denied")
    /\ Goto(r, "idle")
    /\ UNCHANGED <<row, lapsed, sweep, runs, returned, unsaid, crashes>>

\* POST /queue/bulk-approve, one token of its list.
BulkRead(r, t) ==
    /\ Pending(t)
    /\ t \notin OverCeiling
    /\ Begin(r, "approving", t)
    /\ UNCHANGED <<row, lapsed, sweep, runs, returned, told, unsaid, crashes>>

\* Mutant: the row count of the UPDATE is ignored.
BulkResolveUnchecked(r) ==
    /\ At(r, "approving")
    /\ Resolve(req[r].tok, "confirmed", "bulk")
    /\ Goto(r, "approved")
    /\ UNCHANGED <<lapsed, sweep, runs, returned, told, unsaid, crashes>>

\* A token whose UPDATE matched no row is reported as resolve_lost_race.
BulkResolve(r) ==
    /\ At(r, "approving")
    /\ Resolve(req[r].tok, "confirmed", "bulk")
    /\ Goto(r, IF Pending(req[r].tok) THEN "approved" ELSE "idle")
    /\ UNCHANGED <<lapsed, sweep, runs, returned, told, unsaid, crashes>>

BulkAnnounce(r) ==
    /\ At(r, "approved")
    /\ Tell(req[r].tok, "approvedByBulk")
    /\ Goto(r, "idle")
    /\ UNCHANGED <<row, lapsed, sweep, runs, returned, unsaid, crashes>>

\* The client.emit that comes first in each announcement of a handler raises,
\* after it may have stored its event: no webhook, no receipt, and the handler
\* ends there.
AnnouncementRaises(r) ==
    /\ req[r].pc \in {"approve", "denied", "approved"}
    /\ \/ At(r, "approve") /\ Tell(req[r].tok, "approvedByConfirm")
       \/ UNCHANGED told
    /\ Goto(r, "idle")
    /\ UNCHANGED <<row, lapsed, sweep, runs, returned, unsaid, crashes>>

-----------------------------------------------------------------------------
(* PolicyStore._expire_sync: SELECT, UPDATE, SELECT, then one policy.expired *)
(* per returned row, from the lifespan loop or from POST /expire.            *)

SweepSelect(s) ==
    LET stale == {t \in lapsed : Pending(t)}
    IN  /\ sweep[s].pc = "idle"
        /\ stale # {}
        /\ sweep' = [sweep EXCEPT ![s] = [pc |-> "selected", held |-> stale]]
        /\ UNCHANGED <<row, lapsed, req, runs, returned, told, unsaid, crashes>>

\* Mutant: the UPDATE is never committed.
SweepUpdateUncommitted(s) ==
    /\ sweep[s].pc = "selected"
    /\ sweep' = [sweep EXCEPT ![s].pc = "emitting"]
    /\ UNCHANGED <<row, lapsed, req, runs, returned, told, unsaid, crashes>>

\* Mutant: the re-SELECT still asks for pending rows, and finds none.
SweepUpdateUnreported(s) ==
    /\ sweep[s].pc = "selected"
    /\ row' = [t \in Tokens |-> IF t \in sweep[s].held /\ Pending(t)
                                THEN [row[t] EXCEPT !.status = "expired"]
                                ELSE row[t]]
    /\ sweep' = [sweep EXCEPT ![s] = [pc |-> "idle", held |-> {}]]
    /\ UNCHANGED <<lapsed, req, runs, returned, told, unsaid, crashes>>

\* The re-SELECT after the UPDATE is by token only: it returns every held
\* row, whatever its status has become, so held is what gets reported.
SweepUpdate(s) ==
    /\ sweep[s].pc = "selected"
    /\ row' = [t \in Tokens |-> IF t \in sweep[s].held /\ Pending(t)
                                THEN [row[t] EXCEPT !.status = "expired"]
                                ELSE row[t]]
    /\ sweep' = [sweep EXCEPT ![s].pc = "emitting"]
    /\ UNCHANGED <<lapsed, req, runs, returned, told, unsaid, crashes>>

SweepEmit(s) ==
    /\ sweep[s].pc = "emitting"
    /\ \E t \in sweep[s].held :
         /\ Tell(t, "expired")
         /\ sweep' = [sweep EXCEPT ![s] =
                        [pc   |-> IF @.held = {t} THEN "idle" ELSE "emitting",
                         held |-> @.held \ {t}]]
    /\ UNCHANGED <<row, lapsed, req, runs, returned, unsaid, crashes>>

\* The event of one token raises, stored or not: the loop over the batch ends
\* (the lifespan loop logs it and sleeps, POST /expire answers 500), and no
\* later sweep selects the rows that are left, which are no longer pending.
SweepRaises(s) ==
    /\ sweep[s].pc = "emitting"
    /\ \E t \in sweep[s].held : Tell(t, "expired") \/ UNCHANGED told
    /\ unsaid' = unsaid \union sweep[s].held
    /\ sweep' = [sweep EXCEPT ![s] = [pc |-> "idle", held |-> {}]]
    /\ UNCHANGED <<row, lapsed, req, runs, returned, crashes>>

-----------------------------------------------------------------------------
(* The environment                                                         *)

Lapse(t) ==
    /\ row[t].status # "none"
    /\ t \notin lapsed
    /\ lapsed' = lapsed \union {t}
    /\ UNCHANGED <<row, req, sweep, runs, returned, told, unsaid, crashes>>

\* A restart forgets every request and sweep in flight; the rows survive.
Crash ==
    /\ crashes < MaxCrashes
    /\ crashes' = crashes + 1
    /\ req' = [r \in Requests |-> [req[r] EXCEPT !.pc = "idle"]]
    /\ sweep' = [s \in Sweepers |-> [pc |-> "idle", held |-> {}]]
    /\ unsaid' = unsaid \union
                    UNION {sweep[s].held : s \in {x \in Sweepers : sweep[x].pc = "emitting"}}
    /\ UNCHANGED <<row, lapsed, runs, returned, told>>

-----------------------------------------------------------------------------
Init ==
    /\ row = [t \in Tokens |-> [status |-> "none", result |-> "null"]]
    /\ lapsed = {}
    /\ \E t \in Tokens : req = [r \in Requests |-> [pc |-> "idle", tok |-> t]]
    /\ sweep = [s \in Sweepers |-> [pc |-> "idle", held |-> {}]]
    /\ runs = [t \in Tokens |-> 0]
    /\ returned = [t \in Tokens |-> 0]
    /\ told = [t \in Tokens |-> {}]
    /\ unsaid = {}
    /\ crashes = 0

ConfirmStep(r) ==
    \/ ConfirmJudge(r) \/ ConfirmLapsed(r) \/ ConfirmOrphan(r)
    \/ ConfirmAnnounce(r) \/ ConfirmStart(r)
    \/ HandlerReturns(r) \/ HandlerRaises(r)
    \/ ConfirmResolve(r) \/ ConfirmFail(r)

RequestStep(r) ==
    \/ \E t \in Tokens :
         Stage(r, t) \/ ConfirmRead(r, t) \/ CancelRead(r, t) \/ BulkRead(r, t)
    \/ AnnounceStaged(r)
    \/ ConfirmStep(r)
    \/ CancelResolve(r) \/ CancelAnnounce(r)
    \/ BulkResolve(r) \/ BulkAnnounce(r)
    \/ AnnouncementRaises(r)

SweepStep(s) == SweepSelect(s) \/ SweepUpdate(s) \/ SweepEmit(s)

Next ==
    \/ \E r \in Requests : RequestStep(r)
    \/ \E s \in Sweepers : SweepStep(s) \/ SweepRaises(s)
    \/ \E t \in Tokens : Lapse(t)
    \/ Crash

Spec == Init /\ [][Next]_vars

\* The expire loop keeps ticking (it catches every exception) and each of
\* its awaits returns; nothing is assumed of the operator or the handlers.
FairSpec == Spec /\ \A s \in Sweepers : WF_vars(SweepStep(s))

\* An operator who confirms any row as often as /confirm accepts it, with
\* handlers that end: how far a run can be insisted on.
InsistentSpec ==
    /\ Spec
    /\ \A r \in Requests :
         /\ \A t \in Tokens : SF_vars(ConfirmRead(r, t))
         /\ WF_vars(ConfirmStep(r))
         /\ WF_vars(AnnounceStaged(r) \/ CancelResolve(r) \/ CancelAnnounce(r)
                      \/ BulkResolve(r) \/ BulkAnnounce(r))

-----------------------------------------------------------------------------
(* Properties                                                              *)

\* Nothing ever rewrites a resolved confirmation: whatever confirm, cancel,
\* bulk approval and sweeps race for a row, the first write wins
\* (_resolve_sync and _expire_sync both test status = 'pending').
FirstWriteWins ==
    [][\A t \in Tokens : row[t].status \in Terminal => row'[t] = row[t]]_row

\* A row that reads "confirmed" with a handler's result was earned: the
\* handler did return.  The converse fails: a run may leave no trace.
ConfirmedWasEarned ==
    \A t \in Tokens :
        row[t].status = "confirmed" /\ row[t].result = "handler" => returned[t] > 0

\* Bulk approval never claims a token somebody else resolved, and a token it
\* did resolve stays confirmed without its handler's result.
BulkClaimsAreTrue ==
    \A t \in Tokens :
        "approvedByBulk" \in told[t] =>
            row[t] = [status |-> "confirmed", result |-> "bulk"]

\* Requests still able to start, or running, the handler of t.
CanStillRun(t) == \E r \in Requests : req[r].tok = t /\ req[r].pc \in Committed

\* Once a confirmation is resolved and no confirm request is past its read,
\* it is over: the handler is never started again and no request gets past
\* its read again, not even after a restart.
OverIsOver ==
    [][\A t \in Tokens :
         row[t].status \in Terminal /\ ~CanStillRun(t) =>
             runs'[t] = runs[t] /\ ~CanStillRun(t)']_vars

\* The handler is started only after the approval was announced.
AnnouncedBeforeRun ==
    \A t \in Tokens : runs[t] > 0 => "approvedByConfirm" \in told[t]

\* A lapsed confirmation does not stay pending while the expire loop runs.
LapsedIsReaped ==
    \A t \in Tokens : (Pending(t) /\ t \in lapsed) ~> ~Pending(t)

\* Every row a sweep expired is announced, whatever else is in its batch and
\* whatever touches the row meanwhile, unless an event that raised or a restart
\* cut off a sweep that had it still to report.
ReapIsAnnounced ==
    \A t \in Tokens :
        row[t] = [status |-> "expired", result |-> "null"]
            ~> ("expired" \in told[t] \/ t \in unsaid)

\* One operator and no restart: the handler of a token runs at most once.
RunsAtMostOnce == \A t \in Tokens : runs[t] <= 1

\* One operator: an announced denial is a cancelled row, and its handler was
\* never started.
DenialIsReal ==
    \A t \in Tokens :
        "denied" \in told[t] => row[t].status = "cancelled" /\ runs[t] = 0

\* What the comment in bulk_approve says: the handler of a bulk-approved token
\* still runs, via /confirm/{token}.
BulkApprovedStillRuns ==
    \A t \in Tokens :
        row[t] = [status |-> "confirmed", result |-> "bulk"] ~> runs[t] > 0

\* What _expire_sync's docstring promises: a concurrent confirm or cancel
\* cannot win the race, so a token reported expired is expired.
ExpiredReportIsTrue ==
    \A t \in Tokens : "expired" \in told[t] => row[t].status = "expired"
=============================================================================
