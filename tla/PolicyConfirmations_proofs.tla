-------------------- MODULE PolicyConfirmations_proofs ---------------------
(* Theorems about PolicyConfirmations, for every value of its constants.   *)
EXTENDS PolicyConfirmations, TLAPS

-----------------------------------------------------------------------------
(* The inductive invariant: what each suspended request already knows.     *)

Bulk == [status |-> "confirmed", result |-> "bulk"]

\* A request holding a handler's result has a run that returned behind it.
ReturnedKnown ==
    \A r \in Requests : req[r].pc = "returned" => returned[req[r].tok] > 0

\* A bulk request about to announce has won the row.
BulkWon == \A r \in Requests : req[r].pc = "approved" => row[req[r].tok] = Bulk

\* A request past its announcement has announced.
Announced ==
    \A r \in Requests :
        req[r].pc \in {"start", "running", "returned", "raised"} =>
            "approvedByConfirm" \in told[req[r].tok]

IInv ==
    /\ TypeOK
    /\ ConfirmedWasEarned /\ ReturnedKnown
    /\ BulkClaimsAreTrue /\ BulkWon
    /\ AnnouncedBeforeRun /\ Announced

-----------------------------------------------------------------------------
(* Type correctness.                                                       *)

LEMMA TypeInit == Init => TypeOK
BY DEF Init, TypeOK, Status, Result, RequestPc, SweepPc

\* The store's conditional write keeps the table well typed.
LEMMA ResolveType ==
    ASSUME TypeOK, NEW t \in Tokens, NEW st \in Terminal, NEW re \in Result,
           Resolve(t, st, re)
    PROVE  row' \in [Tokens -> [status : Status, result : Result]]
BY DEF TypeOK, Resolve, Status

\* Every step of the queue keeps the variables in their types.
LEMMA TypeStep == TypeOK /\ [Next]_vars => TypeOK'
<1> SUFFICES ASSUME TypeOK, [Next]_vars PROVE TypeOK'
    OBVIOUS
<1> USE DEF TypeOK
<1>1. ASSUME NEW r \in Requests, RequestStep(r) PROVE TypeOK'
  <2>1. ASSUME NEW t \in Tokens, Stage(r, t) PROVE TypeOK'
    BY <2>1 DEF Stage, Begin, RequestPc, Status, Result
  <2>2. ASSUME NEW t \in Tokens, ConfirmRead(r, t) PROVE TypeOK'
    BY <2>2 DEF ConfirmRead, Begin, RequestPc
  <2>3. ASSUME NEW t \in Tokens, CancelRead(r, t) PROVE TypeOK'
    BY <2>3 DEF CancelRead, Begin, RequestPc
  <2>4. ASSUME NEW t \in Tokens, BulkRead(r, t) PROVE TypeOK'
    BY <2>4 DEF BulkRead, Begin, RequestPc
  <2>5. CASE AnnounceStaged(r)
    BY <2>5 DEF AnnounceStaged, Goto, Tell, Event, RequestPc
  <2>6. CASE ConfirmJudge(r)
    BY <2>6 DEF ConfirmJudge, Goto, RequestPc
  <2>7. CASE ConfirmLapsed(r)
    <3>1. row' \in [Tokens -> [status : Status, result : Result]]
      BY <2>7, ResolveType DEF ConfirmLapsed, Terminal, Result
    <3>2. req' \in [Requests -> [pc : RequestPc, tok : Tokens]]
      BY <2>7 DEF ConfirmLapsed, Goto, RequestPc
    <3> QED
      BY <2>7, <3>1, <3>2 DEF ConfirmLapsed
  <2>8. CASE ConfirmOrphan(r)
    <3>1. row' \in [Tokens -> [status : Status, result : Result]]
      BY <2>8, ResolveType DEF ConfirmOrphan, Terminal, Result
    <3>2. req' \in [Requests -> [pc : RequestPc, tok : Tokens]]
      BY <2>8 DEF ConfirmOrphan, Goto, RequestPc
    <3> QED
      BY <2>8, <3>1, <3>2 DEF ConfirmOrphan
  <2>9. CASE ConfirmAnnounce(r)
    BY <2>9 DEF ConfirmAnnounce, Goto, Tell, Event, RequestPc
  <2>10. CASE ConfirmStart(r)
    BY <2>10 DEF ConfirmStart, Goto, RequestPc
  <2>11. CASE HandlerReturns(r)
    BY <2>11 DEF HandlerReturns, Goto, RequestPc
  <2>12. CASE HandlerRaises(r)
    BY <2>12 DEF HandlerRaises, Goto, RequestPc
  <2>13. CASE ConfirmResolve(r)
    <3>1. row' \in [Tokens -> [status : Status, result : Result]]
      BY <2>13, ResolveType DEF ConfirmResolve, Terminal, Result
    <3>2. req' \in [Requests -> [pc : RequestPc, tok : Tokens]]
      BY <2>13 DEF ConfirmResolve, Goto, RequestPc
    <3> QED
      BY <2>13, <3>1, <3>2 DEF ConfirmResolve
  <2>14. CASE ConfirmFail(r)
    <3>1. row' \in [Tokens -> [status : Status, result : Result]]
      BY <2>14, ResolveType DEF ConfirmFail, Terminal, Result
    <3>2. req' \in [Requests -> [pc : RequestPc, tok : Tokens]]
      BY <2>14 DEF ConfirmFail, Goto, RequestPc
    <3> QED
      BY <2>14, <3>1, <3>2 DEF ConfirmFail
  <2>15. CASE CancelResolve(r)
    <3>1. PICK re \in {"empty", "deny"} : Resolve(req[r].tok, "cancelled", re)
      BY <2>15 DEF CancelResolve
    <3>2. row' \in [Tokens -> [status : Status, result : Result]]
      BY <3>1, ResolveType DEF Terminal, Result
    <3> QED
      BY <2>15, <3>2 DEF CancelResolve, Goto, RequestPc
  <2>16. CASE CancelAnnounce(r)
    BY <2>16 DEF CancelAnnounce, Goto, Tell, Event, RequestPc
  <2>17. CASE BulkResolve(r)
    <3>1. row' \in [Tokens -> [status : Status, result : Result]]
      BY <2>17, ResolveType DEF BulkResolve, Terminal, Result
    <3>2. req' \in [Requests -> [pc : RequestPc, tok : Tokens]]
      BY <2>17 DEF BulkResolve, Goto, RequestPc
    <3> QED
      BY <2>17, <3>1, <3>2 DEF BulkResolve
  <2>18. CASE BulkAnnounce(r)
    BY <2>18 DEF BulkAnnounce, Goto, Tell, Event, RequestPc
  <2>19. CASE AnnouncementRaises(r)
    <3>1. told' \in [Tokens -> SUBSET Event]
      BY <2>19 DEF AnnouncementRaises, Tell, Event
    <3> QED
      BY <2>19, <3>1 DEF AnnouncementRaises, Goto, RequestPc
  <2> QED
    BY <1>1, <2>1, <2>2, <2>3, <2>4, <2>5, <2>6, <2>7, <2>8, <2>9, <2>10, <2>11,
       <2>12, <2>13, <2>14, <2>15, <2>16, <2>17, <2>18, <2>19
       DEF RequestStep, ConfirmStep
<1>2. ASSUME NEW s \in Sweepers, SweepStep(s) \/ SweepRaises(s) PROVE TypeOK'
  <2>1. CASE SweepSelect(s)
    BY <2>1 DEF SweepSelect, SweepPc
  <2>2. CASE SweepUpdate(s)
    BY <2>2 DEF SweepUpdate, SweepPc, Status, Terminal
  <2>3. CASE SweepEmit(s)
    BY <2>3 DEF SweepEmit, SweepPc, Tell, Event
  <2>4. CASE SweepRaises(s)
    BY <2>4 DEF SweepRaises, SweepPc, Tell, Event
  <2> QED
    BY <1>2, <2>1, <2>2, <2>3, <2>4 DEF SweepStep
<1>3. ASSUME NEW t \in Tokens, Lapse(t) PROVE TypeOK'
  BY <1>3 DEF Lapse
<1>4. CASE Crash
  BY <1>4 DEF Crash, RequestPc, SweepPc
<1>5. CASE UNCHANGED vars
  BY <1>5 DEF vars
<1> QED
  BY <1>1, <1>2, <1>3, <1>4, <1>5 DEF Next

\* The variables stay in their types in every behaviour of the queue.
THEOREM TypeCorrect == Spec => []TypeOK
BY TypeInit, TypeStep, PTL DEF Spec

-----------------------------------------------------------------------------
(* The first write wins.                                                   *)

\* Whatever the interleaving of confirms, cancels, bulk approvals, sweeps and
\* restarts, a resolved row is never written again.
LEMMA FirstWriteStep ==
    ASSUME TypeOK, [Next]_vars, NEW t \in Tokens, row[t].status \in Terminal
    PROVE  row'[t] = row[t]
<1> USE DEF TypeOK
<1>0. ~Pending(t) /\ row[t].status # "none"
  BY DEF Pending, Terminal
<1>1. ASSUME NEW r \in Requests, RequestStep(r) PROVE row'[t] = row[t]
  <2>1. ASSUME NEW u \in Tokens, NEW st, NEW re, Resolve(u, st, re)
        PROVE  row'[t] = row[t]
    BY <1>0, <2>1 DEF Resolve
  <2>2. ASSUME NEW u \in Tokens, Stage(r, u) PROVE row'[t] = row[t]
    BY <1>0, <2>2 DEF Stage
  <2>3. CASE ConfirmStep(r)
    BY <2>1, <2>3 DEF ConfirmStep, ConfirmJudge, ConfirmLapsed, ConfirmOrphan,
       ConfirmAnnounce, ConfirmStart, HandlerReturns, HandlerRaises,
       ConfirmResolve, ConfirmFail
  <2>4. CASE CancelResolve(r) \/ BulkResolve(r)
    BY <2>1, <2>4 DEF CancelResolve, BulkResolve
  <2>5. CASE AnnounceStaged(r) \/ CancelAnnounce(r) \/ BulkAnnounce(r) \/ AnnouncementRaises(r)
    BY <2>5 DEF AnnounceStaged, CancelAnnounce, BulkAnnounce, AnnouncementRaises
  <2>6. ASSUME NEW u \in Tokens,
               ConfirmRead(r, u) \/ CancelRead(r, u) \/ BulkRead(r, u)
        PROVE  row'[t] = row[t]
    BY <2>6 DEF ConfirmRead, CancelRead, BulkRead
  <2> QED
    BY <1>1, <2>2, <2>3, <2>4, <2>5, <2>6 DEF RequestStep
<1>2. ASSUME NEW s \in Sweepers, SweepStep(s) \/ SweepRaises(s) PROVE row'[t] = row[t]
  BY <1>0, <1>2 DEF SweepStep, SweepSelect, SweepUpdate, SweepEmit, SweepRaises
<1>3. CASE (\E u \in Tokens : Lapse(u)) \/ Crash \/ UNCHANGED vars
  BY <1>3 DEF Lapse, Crash, vars
<1> QED
  BY <1>1, <1>2, <1>3 DEF Next

\* A resolved confirmation is never rewritten: the compare-and-set of
\* _resolve_sync and the guarded UPDATE of _expire_sync are enough.
THEOREM FirstWriteAlwaysWins == Spec => FirstWriteWins
<1>1. TypeOK /\ [Next]_vars =>
        [\A t \in Tokens : row[t].status \in Terminal => row'[t] = row[t]]_row
  BY FirstWriteStep
<1> QED
  BY <1>1, TypeCorrect, PTL DEF Spec, FirstWriteWins

-----------------------------------------------------------------------------
(* Earned confirmations, true bulk claims, announced runs.                 *)

LEMMA IInvInit == Init => IInv
BY TypeInit DEF Init, IInv, ConfirmedWasEarned, ReturnedKnown, BulkClaimsAreTrue,
   BulkWon, AnnouncedBeforeRun, Announced

\* The histories only grow: runs and events are never taken back.
LEMMA HistoryGrows ==
    ASSUME TypeOK, [Next]_vars, NEW t \in Tokens
    PROVE  /\ returned[t] > 0 => returned'[t] > 0
           /\ told[t] \subseteq told'[t]
<1> USE DEF TypeOK
<1>1. ASSUME NEW r \in Requests, RequestStep(r)
      PROVE  (returned[t] > 0 => returned'[t] > 0) /\ told[t] \subseteq told'[t]
  BY <1>1 DEF RequestStep, ConfirmStep, Stage, ConfirmRead, CancelRead, BulkRead,
     AnnounceStaged, ConfirmJudge, ConfirmLapsed, ConfirmOrphan, ConfirmAnnounce,
     ConfirmStart, HandlerReturns, HandlerRaises, ConfirmResolve, ConfirmFail,
     CancelResolve, CancelAnnounce, BulkResolve, BulkAnnounce, AnnouncementRaises, Tell
<1>2. ASSUME NEW s \in Sweepers, SweepStep(s) \/ SweepRaises(s)
      PROVE  (returned[t] > 0 => returned'[t] > 0) /\ told[t] \subseteq told'[t]
  <2>1. UNCHANGED returned
    BY <1>2 DEF SweepStep, SweepSelect, SweepUpdate, SweepEmit, SweepRaises
  <2>2. told' = told \/ \E u \in Tokens : Tell(u, "expired")
    BY <1>2 DEF SweepStep, SweepSelect, SweepUpdate, SweepEmit, SweepRaises
  <2> QED
    BY <2>1, <2>2 DEF Tell
<1>3. CASE (\E u \in Tokens : Lapse(u)) \/ Crash \/ UNCHANGED vars
  BY <1>3 DEF Lapse, Crash, vars
<1> QED
  BY <1>1, <1>2, <1>3 DEF Next

\* Where a request step can lead: the program points that carry a promise
\* are reached by one action each, and other requests do not move.
LEMMA Landing ==
    ASSUME TypeOK, NEW r \in Requests, RequestStep(r)
    PROVE  /\ \A q \in Requests \ {r} : req'[q] = req[q]
           /\ req'[r].pc = "returned" => HandlerReturns(r) /\ req'[r].tok = req[r].tok
           /\ req'[r].pc = "approved" =>
                BulkResolve(r) /\ Pending(req[r].tok) /\ req'[r].tok = req[r].tok
           /\ req'[r].pc = "start" => ConfirmAnnounce(r) /\ req'[r].tok = req[r].tok
           /\ req'[r].pc = "running" => At(r, "start") /\ req'[r].tok = req[r].tok
           /\ req'[r].pc = "raised" => At(r, "running") /\ req'[r].tok = req[r].tok
<1> USE DEF TypeOK
<1>1. CASE \E t \in Tokens : Stage(r, t) \/ ConfirmRead(r, t) \/ CancelRead(r, t) \/ BulkRead(r, t)
  BY <1>1 DEF Stage, ConfirmRead, CancelRead, BulkRead, Begin
<1>2. CASE AnnounceStaged(r) \/ CancelAnnounce(r) \/ BulkAnnounce(r) \/ CancelResolve(r)
           \/ AnnouncementRaises(r)
  BY <1>2 DEF AnnounceStaged, CancelAnnounce, BulkAnnounce, CancelResolve, AnnouncementRaises,
     Goto
<1>3. CASE ConfirmJudge(r) \/ ConfirmLapsed(r) \/ ConfirmOrphan(r)
           \/ ConfirmResolve(r) \/ ConfirmFail(r)
  BY <1>3 DEF ConfirmJudge, ConfirmLapsed, ConfirmOrphan, ConfirmResolve, ConfirmFail, Goto
<1>4. CASE ConfirmAnnounce(r)
  BY <1>4 DEF ConfirmAnnounce, Goto
<1>5. CASE ConfirmStart(r)
  BY <1>5 DEF ConfirmStart, Goto
<1>6. CASE HandlerReturns(r)
  BY <1>6 DEF HandlerReturns, Goto
<1>7. CASE HandlerRaises(r)
  BY <1>7 DEF HandlerRaises, Goto
<1>8. CASE BulkResolve(r)
  BY <1>8 DEF BulkResolve, Goto
<1> QED
  BY <1>1, <1>2, <1>3, <1>4, <1>5, <1>6, <1>7, <1>8 DEF RequestStep, ConfirmStep

\* Who can write what about a token: "confirmed with a handler's result" only
\* the request holding that result, a bulk claim only BulkAnnounce, a run only
\* ConfirmStart.
LEMMA Writers ==
    ASSUME TypeOK, NEW r \in Requests, RequestStep(r), NEW t \in Tokens
    PROVE  /\ row'[t].status = "confirmed" /\ row'[t].result = "handler" =>
                row'[t] = row[t] \/ (At(r, "returned") /\ req[r].tok = t)
           /\ "approvedByBulk" \in told'[t] =>
                "approvedByBulk" \in told[t] \/ (At(r, "approved") /\ req[r].tok = t)
           /\ runs'[t] > 0 => runs[t] > 0 \/ (At(r, "start") /\ req[r].tok = t)
<1> USE DEF TypeOK
<1>1. CASE \E u \in Tokens : Stage(r, u) \/ ConfirmRead(r, u) \/ CancelRead(r, u) \/ BulkRead(r, u)
  BY <1>1 DEF Stage, ConfirmRead, CancelRead, BulkRead
<1>2. CASE AnnounceStaged(r) \/ CancelAnnounce(r) \/ BulkAnnounce(r) \/ ConfirmAnnounce(r)
           \/ AnnouncementRaises(r)
  BY <1>2 DEF AnnounceStaged, CancelAnnounce, BulkAnnounce, ConfirmAnnounce,
     AnnouncementRaises, Tell
<1>3. CASE CancelResolve(r) \/ BulkResolve(r)
  BY <1>3 DEF CancelResolve, BulkResolve, Resolve
<1>4. CASE ConfirmLapsed(r) \/ ConfirmOrphan(r) \/ ConfirmFail(r)
  BY <1>4 DEF ConfirmLapsed, ConfirmOrphan, ConfirmFail, Resolve
<1>5. CASE ConfirmResolve(r)
  BY <1>5 DEF ConfirmResolve, Resolve
<1>6. CASE ConfirmStart(r)
  BY <1>6 DEF ConfirmStart
<1>7. CASE ConfirmJudge(r) \/ HandlerReturns(r) \/ HandlerRaises(r)
  BY <1>7 DEF ConfirmJudge, HandlerReturns, HandlerRaises
<1> QED
  BY <1>1, <1>2, <1>3, <1>4, <1>5, <1>6, <1>7 DEF RequestStep, ConfirmStep

\* The steps that are no request's: they confirm nothing, claim nothing, run
\* nothing, and a restart only makes requests idle.
LEMMA Outside ==
    ASSUME TypeOK, NEW t \in Tokens,
           \/ \E s \in Sweepers : SweepStep(s) \/ SweepRaises(s)
           \/ \E u \in Tokens : Lapse(u)
           \/ Crash
           \/ UNCHANGED vars
    PROVE  /\ row'[t].status = "confirmed" => row'[t] = row[t]
           /\ "approvedByBulk" \in told'[t] => "approvedByBulk" \in told[t]
           /\ runs' = runs
           /\ \A r \in Requests : req'[r].pc # "idle" => req'[r] = req[r]
<1> USE DEF TypeOK
<1>1. CASE \E s \in Sweepers : SweepStep(s) \/ SweepRaises(s)
  <2>1. /\ UNCHANGED <<runs, req>>
        /\ row'[t] = row[t] \/ row'[t].status = "expired"
    BY <1>1 DEF SweepStep, SweepSelect, SweepUpdate, SweepEmit, SweepRaises
  <2>2. told' = told \/ \E u \in Tokens : Tell(u, "expired")
    BY <1>1 DEF SweepStep, SweepSelect, SweepUpdate, SweepEmit, SweepRaises
  <2> QED
    BY <2>1, <2>2 DEF Tell
<1>2. CASE (\E u \in Tokens : Lapse(u)) \/ UNCHANGED vars
  BY <1>2 DEF Lapse, vars
<1>3. CASE Crash
  BY <1>3 DEF Crash
<1> QED
  BY <1>1, <1>2, <1>3

\* A confirmed row carrying a handler's result has a handler that returned:
\* /confirm writes the row after the handler, never before it.
LEMMA EarnedStep ==
    ASSUME TypeOK, ConfirmedWasEarned, ReturnedKnown, [Next]_vars
    PROVE  ConfirmedWasEarned' /\ ReturnedKnown'
<1> USE DEF ConfirmedWasEarned, ReturnedKnown
<1>0. TypeOK' /\ \A t \in Tokens : returned[t] > 0 => returned'[t] > 0
  BY TypeStep, HistoryGrows
<1>1. ASSUME NEW r \in Requests, RequestStep(r)
      PROVE  ConfirmedWasEarned' /\ ReturnedKnown'
  <2>1. ConfirmedWasEarned'
    BY <1>0, <1>1, Writers DEF At
  <2>2. HandlerReturns(r) => returned'[req[r].tok] > 0
    BY DEF HandlerReturns, TypeOK
  <2>3. ReturnedKnown'
    BY <1>0, <1>1, <2>2, Landing DEF TypeOK
  <2> QED
    BY <2>1, <2>3
<1>2. CASE \/ \E s \in Sweepers : SweepStep(s) \/ SweepRaises(s)
           \/ \E u \in Tokens : Lapse(u)
           \/ Crash
           \/ UNCHANGED vars
  BY <1>0, <1>2, Outside DEF TypeOK
<1> QED
  BY <1>1, <1>2 DEF Next

\* A bulk approval that was announced is the row's resolution, because
\* bulk_approve announces only the tokens whose UPDATE matched.
LEMMA BulkStep ==
    ASSUME TypeOK, BulkClaimsAreTrue, BulkWon, [Next]_vars
    PROVE  BulkClaimsAreTrue' /\ BulkWon'
<1> USE DEF BulkClaimsAreTrue, BulkWon, Bulk
<1>0. TypeOK' /\ \A t \in Tokens : row[t] = Bulk => row'[t] = Bulk
  BY TypeStep, FirstWriteStep DEF Terminal
<1>1. ASSUME NEW r \in Requests, RequestStep(r)
      PROVE  BulkClaimsAreTrue' /\ BulkWon'
  <2>1. BulkClaimsAreTrue'
    BY <1>0, <1>1, Writers DEF At
  <2>2. BulkResolve(r) /\ Pending(req[r].tok) => row'[req[r].tok] = Bulk
    BY DEF BulkResolve, Resolve, TypeOK
  <2>3. ASSUME NEW q \in Requests, req'[q].pc = "approved"
        PROVE  row'[req'[q].tok] = Bulk
    <3>1. CASE q = r
      BY <1>1, <2>2, <2>3, <3>1, Landing
    <3>2. CASE q # r
      <4>1. req'[q] = req[q] /\ req[q].tok \in Tokens
        BY <1>1, <3>2, Landing DEF TypeOK
      <4> QED
        BY <1>0, <2>3, <4>1
    <3> QED
      BY <3>1, <3>2
  <2> QED
    BY <2>1, <2>3
<1>2. CASE \/ \E s \in Sweepers : SweepStep(s) \/ SweepRaises(s)
           \/ \E u \in Tokens : Lapse(u)
           \/ Crash
           \/ UNCHANGED vars
  BY <1>0, <1>2, Outside DEF TypeOK
<1> QED
  BY <1>1, <1>2 DEF Next

\* No handler is started before the approval is on record.
LEMMA AnnouncedStep ==
    ASSUME TypeOK, AnnouncedBeforeRun, Announced, [Next]_vars
    PROVE  AnnouncedBeforeRun' /\ Announced'
<1> USE DEF AnnouncedBeforeRun, Announced
<1>0. TypeOK' /\ \A t \in Tokens : told[t] \subseteq told'[t]
  BY TypeStep, HistoryGrows
<1>1. ASSUME NEW r \in Requests, RequestStep(r)
      PROVE  AnnouncedBeforeRun' /\ Announced'
  <2>1. AnnouncedBeforeRun'
    BY <1>0, <1>1, Writers DEF At
  <2>2. ConfirmAnnounce(r) => "approvedByConfirm" \in told'[req[r].tok]
    BY DEF ConfirmAnnounce, Tell, TypeOK
  <2>3. HandlerReturns(r) => At(r, "running")
    BY DEF HandlerReturns
  <2>4. Announced'
    BY <1>0, <1>1, <2>2, <2>3, Landing DEF TypeOK, At
  <2> QED
    BY <2>1, <2>4
<1>2. CASE \/ \E s \in Sweepers : SweepStep(s) \/ SweepRaises(s)
           \/ \E u \in Tokens : Lapse(u)
           \/ Crash
           \/ UNCHANGED vars
  BY <1>0, <1>2, Outside DEF TypeOK
<1> QED
  BY <1>1, <1>2 DEF Next

LEMMA IInvStep == IInv /\ [Next]_vars => IInv'
BY TypeStep, EarnedStep, BulkStep, AnnouncedStep DEF IInv

LEMMA Invariance == Spec => []IInv
BY IInvInit, IInvStep, PTL DEF Spec

\* A row that reads "confirmed" with a handler's result was earned.
THEOREM ConfirmedAlwaysEarned == Spec => []ConfirmedWasEarned
<1>1. IInv => ConfirmedWasEarned
  BY DEF IInv
<1> QED
  BY <1>1, Invariance, PTL

\* Bulk approval never claims a token somebody else resolved.
THEOREM BulkClaimsAlwaysTrue == Spec => []BulkClaimsAreTrue
<1>1. IInv => BulkClaimsAreTrue
  BY DEF IInv
<1> QED
  BY <1>1, Invariance, PTL

\* Every handler run of /confirm was announced as hil.approved beforehand.
THEOREM RunsAlwaysAnnounced == Spec => []AnnouncedBeforeRun
<1>1. IInv => AnnouncedBeforeRun
  BY DEF IInv
<1> QED
  BY <1>1, Invariance, PTL

-----------------------------------------------------------------------------
(* When a confirmation is over.                                            *)

\* A step of the queue neither starts the handler of a token that is over
\* nor lets a new request past its read.
LEMMA OverStep ==
    ASSUME TypeOK, [Next]_vars, NEW t \in Tokens,
           row[t].status \in Terminal, ~CanStillRun(t)
    PROVE  runs'[t] = runs[t] /\ ~CanStillRun(t)'
<1> USE DEF TypeOK, CanStillRun, Committed
<1>0. ~Pending(t) /\ row[t].status # "none"
  BY DEF Pending, Terminal
<1>1. ASSUME NEW r \in Requests, RequestStep(r)
      PROVE  runs'[t] = runs[t] /\ ~CanStillRun(t)'
  <2>1. CASE \E u \in Tokens : Stage(r, u) \/ ConfirmRead(r, u) \/ CancelRead(r, u) \/ BulkRead(r, u)
    BY <1>0, <2>1 DEF Stage, ConfirmRead, CancelRead, BulkRead, Begin
  <2>2. CASE ConfirmStart(r)
    BY <2>2 DEF ConfirmStart, At, Goto
  <2>3. CASE ConfirmStep(r) /\ ~ConfirmStart(r)
    <3>1. /\ UNCHANGED runs /\ req[r].pc \in Committed \union {"lapsed", "orphan"}
          /\ \E pc : Goto(r, pc) /\ (req[r].pc \in {"lapsed", "orphan"} => pc = "idle")
      BY <2>3 DEF ConfirmStep, ConfirmJudge, ConfirmLapsed, ConfirmOrphan, ConfirmAnnounce,
         HandlerReturns, HandlerRaises, ConfirmResolve, ConfirmFail, At
    <3> QED
      BY <3>1 DEF Goto
  <2>4. CASE AnnounceStaged(r) \/ CancelResolve(r) \/ CancelAnnounce(r)
             \/ BulkResolve(r) \/ BulkAnnounce(r)
    <3>1. UNCHANGED runs /\ \E pc \in {"idle", "denied", "approved"} : Goto(r, pc)
      BY <2>4 DEF AnnounceStaged, CancelResolve, CancelAnnounce, BulkResolve, BulkAnnounce
    <3> QED
      BY <3>1 DEF Goto
  <2>5. CASE AnnouncementRaises(r)
    BY <2>5 DEF AnnouncementRaises, Goto
  <2> QED
    BY <1>1, <2>1, <2>2, <2>3, <2>4, <2>5 DEF RequestStep
<1>2. ASSUME NEW s \in Sweepers, SweepStep(s) \/ SweepRaises(s)
      PROVE  runs'[t] = runs[t] /\ ~CanStillRun(t)'
  BY <1>2 DEF SweepStep, SweepSelect, SweepUpdate, SweepEmit, SweepRaises
<1>3. CASE (\E u \in Tokens : Lapse(u)) \/ UNCHANGED vars
  BY <1>3 DEF Lapse, vars
<1>4. CASE Crash
  BY <1>4 DEF Crash
<1> QED
  BY <1>1, <1>2, <1>3, <1>4 DEF Next

\* Once a confirmation is resolved and no confirm is past its read, its
\* handler never runs again.
THEOREM OverStaysOver == Spec => OverIsOver
<1>1. TypeOK /\ [Next]_vars =>
        [\A t \in Tokens :
           row[t].status \in Terminal /\ ~CanStillRun(t) =>
             runs'[t] = runs[t] /\ ~CanStillRun(t)']_vars
  BY OverStep
<1> QED
  BY <1>1, TypeCorrect, PTL DEF Spec, OverIsOver

-----------------------------------------------------------------------------
(* One operator: a single request at a time, no sweep and no restart. The  *)
(* guarantees that races take away hold then, and the queue implements     *)
(* OneShotConfirmation.                                                    *)

OneOperator ==
    /\ \A r, q \in Requests : r = q
    /\ Sweepers = {}
    /\ MaxCrashes = 0

\* Program points of a request that has read its row and not written it.
Busy == RequestPc \ {"idle", "denied", "approved"}
Begun == {"running", "returned", "raised"}

Holds(t, pcs) == \E r \in Requests : req[r].tok = t /\ req[r].pc \in pcs

\* Nobody resolves a row behind the back of the request that holds it.
BusyIsPending == \A t \in Tokens : Holds(t, Busy) => Pending(t)

\* A handler that was started is still held by its request, or its row is
\* resolved, and not as cancelled.
RunsAccounted ==
    \A t \in Tokens : runs[t] > 0 =>
        /\ runs[t] = 1 /\ row[t].status \notin {"none", "cancelled"}
        /\ Pending(t) => Holds(t, Begun)

\* A denial that was or will be announced has cancelled its row.
DenialAccounted ==
    \A t \in Tokens :
        Holds(t, {"denied"}) \/ "denied" \in told[t] => row[t].status = "cancelled"

OneInv ==
    /\ TypeOK /\ crashes = 0
    /\ BusyIsPending /\ RunsAccounted /\ DenialAccounted

LEMMA OneInvInit == Init => OneInv
<1> SUFFICES ASSUME Init PROVE OneInv
    OBVIOUS
<1>1. \A r \in Requests : req[r].pc = "idle"
  BY DEF Init
<1> QED
  BY <1>1, TypeInit DEF Init, OneInv, BusyIsPending, RunsAccounted, DenialAccounted, Holds,
     Busy

\* The contract, read off the queue: a token's status and its runs.
Contract == INSTANCE OneShotConfirmation
    WITH status <- [t \in Tokens |-> row[t].status], executed <- runs

\* The invariant of one token: where the request that holds it is ("idle" if none
\* does), its status, its runs and what was told of it.
Sound(pc, status, n, ann) ==
    /\ pc \in Busy => status = "pending"
    /\ n > 0 => /\ n = 1 /\ status \notin {"none", "cancelled"}
                /\ status = "pending" => pc \in Begun
    /\ pc = "denied" \/ "denied" \in ann => status = "cancelled"

PcOn(r, t) == IF req[r].tok = t THEN req[r].pc ELSE "idle"

LEMMA OneInvIs ==
    ASSUME OneOperator, NEW r \in Requests
    PROVE  OneInv <=> /\ TypeOK /\ crashes = 0
                      /\ \A t \in Tokens : Sound(PcOn(r, t), row[t].status, runs[t], told[t])
<1>1. \A t : \A pcs : "idle" \notin pcs => (Holds(t, pcs) <=> PcOn(r, t) \in pcs)
  BY DEF OneOperator, Holds, PcOn
<1>2. "idle" \notin Busy /\ "idle" \notin Begun /\ "idle" \notin {"denied"}
  BY DEF Busy, Begun
<1>3. \A t : /\ Holds(t, Busy) <=> PcOn(r, t) \in Busy
             /\ Holds(t, Begun) <=> PcOn(r, t) \in Begun
             /\ Holds(t, {"denied"}) <=> PcOn(r, t) = "denied"
  BY <1>1, <1>2
<1> HIDE DEF Holds, PcOn, Busy, Begun
<1> QED
  BY <1>3 DEF OneInv, BusyIsPending, RunsAccounted, DenialAccounted, Sound, Pending

\* The same after a step.
LEMMA OneInvIsPrime ==
    ASSUME OneOperator, NEW r \in Requests, TypeOK', crashes' = 0,
           \A t \in Tokens : Sound(PcOn(r, t)', row'[t].status, runs'[t], told'[t])
    PROVE  OneInv'
<1>1. \A t : \A pcs : "idle" \notin pcs => (Holds(t, pcs)' <=> PcOn(r, t)' \in pcs)
  BY DEF OneOperator, Holds, PcOn
<1>2. "idle" \notin Busy /\ "idle" \notin Begun /\ "idle" \notin {"denied"}
  BY DEF Busy, Begun
<1>3. \A t : /\ Holds(t, Busy)' <=> PcOn(r, t)' \in Busy
             /\ Holds(t, Begun)' <=> PcOn(r, t)' \in Begun
             /\ Holds(t, {"denied"})' <=> PcOn(r, t)' = "denied"
  BY <1>1, <1>2
<1>4. BusyIsPending' /\ RunsAccounted'
  BY <1>3 DEF BusyIsPending, RunsAccounted, Sound, Pending
<1>5. DenialAccounted'
  BY <1>3 DEF DenialAccounted, Sound
<1> QED
  BY <1>4, <1>5 DEF OneInv

\* A step in which the request, at rest or holding t, comes to be at pc of t.
LEMMA OneTokenStep ==
    ASSUME OneOperator, OneInv, NEW r \in Requests, NEW t \in Tokens, NEW pc,
           TypeOK', crashes' = crashes,
           req' = [req EXCEPT ![r] = [pc |-> pc, tok |-> t]],
           req[r].pc = "idle" \/ req[r].tok = t,
           \A u \in Tokens : u # t => /\ row'[u] = row[u] /\ runs'[u] = runs[u]
                                      /\ told'[u] = told[u],
           Sound(pc, row'[t].status, runs'[t], told'[t])
    PROVE  OneInv'
<1>1. /\ TypeOK /\ crashes = 0
      /\ \A u \in Tokens : Sound(PcOn(r, u), row[u].status, runs[u], told[u])
  BY OneInvIs
<1>2. req'[r] = [pc |-> pc, tok |-> t]
  BY <1>1 DEF TypeOK
<1>3. PcOn(r, t)' = pc /\ \A u \in Tokens : u # t => PcOn(r, u)' = "idle"
  BY <1>2 DEF PcOn
<1>4. \A u \in Tokens : u # t => PcOn(r, u) = "idle"
  BY DEF PcOn
<1>5. ASSUME NEW u \in Tokens PROVE Sound(PcOn(r, u)', row'[u].status, runs'[u], told'[u])
  BY <1>1, <1>3, <1>4
<1> QED
  BY <1>1, <1>5, OneInvIsPrime

\* The request takes up t, and the row is as it is then.
LEMMA OneBegin ==
    ASSUME OneOperator, OneInv, NEW r \in Requests, NEW t \in Tokens, NEW pc,
           TypeOK', Begin(r, pc, t), UNCHANGED <<runs, told, crashes>>,
           \A u \in Tokens : u # t => row'[u] = row[u],
           row'[t].status = "pending", row[t].status \in {"none", "pending"},
           pc # "denied"
    PROVE  OneInv'
<1>1. /\ TypeOK /\ Sound(PcOn(r, t), row[t].status, runs[t], told[t]) /\ req[r].pc = "idle"
  BY OneInvIs DEF Begin
<1>2. Sound("idle", row[t].status, runs[t], told[t])
  BY <1>1 DEF PcOn
<1>3. "idle" \notin Begun
  BY DEF Begun
<1>4. runs[t] \in Nat /\ ~(runs[t] > 0) /\ "denied" \notin told[t]
  BY <1>1, <1>2, <1>3 DEF Sound, TypeOK
<1>5. Sound(pc, row'[t].status, runs'[t], told'[t])
  BY <1>4 DEF Sound
<1> QED
  BY <1>1, <1>5, OneTokenStep DEF Begin

\* What the request knows of the token it holds, and where Goto takes it.
LEMMA OneHolds ==
    ASSUME OneInv, OneOperator, NEW r \in Requests
    PROVE  /\ TypeOK /\ req[r].tok \in Tokens
           /\ Sound(req[r].pc, row[req[r].tok].status, runs[req[r].tok], told[req[r].tok])
           /\ \A pc : Goto(r, pc) => req' = [req EXCEPT ![r] = [pc |-> pc, tok |-> req[r].tok]]
<1>1. /\ TypeOK /\ req[r].tok \in Tokens /\ req[r] \in [pc : RequestPc, tok : Tokens]
      /\ \A t \in Tokens : Sound(PcOn(r, t), row[t].status, runs[t], told[t])
  BY OneInvIs DEF TypeOK
<1>2. PcOn(r, req[r].tok) = req[r].pc
  BY DEF PcOn
<1>3. \A pc : [req[r] EXCEPT !.pc = pc] = [pc |-> pc, tok |-> req[r].tok]
  BY <1>1
<1> QED
  BY <1>1, <1>2, <1>3 DEF Goto

\* It goes on, and neither rows nor announcements change.
LEMMA OneGoes ==
    ASSUME OneOperator, OneInv, NEW r \in Requests, NEW pc,
           TypeOK', Goto(r, pc), UNCHANGED <<row, told, crashes>>,
           runs' = runs \/ runs' = [runs EXCEPT ![req[r].tok] = @ + 1],
           Sound(pc, row[req[r].tok].status, runs'[req[r].tok], told[req[r].tok])
    PROVE  OneInv'
<1>1. \A u \in Tokens : u # req[r].tok => runs'[u] = runs[u]
  BY OneHolds DEF TypeOK
<1>2. /\ req[r].tok \in Tokens
      /\ req' = [req EXCEPT ![r] = [pc |-> pc, tok |-> req[r].tok]]
  BY OneHolds
<1>3. row' = row /\ told' = told /\ crashes' = crashes
  OBVIOUS
<1> QED
  BY <1>1, <1>2, <1>3, OneTokenStep

\* It announces e.
LEMMA OneTells ==
    ASSUME OneOperator, OneInv, NEW r \in Requests, NEW pc, NEW e,
           TypeOK', Goto(r, pc), Tell(req[r].tok, e), UNCHANGED <<row, runs, crashes>>,
           Sound(pc, row[req[r].tok].status, runs[req[r].tok], told[req[r].tok] \union {e})
    PROVE  OneInv'
<1>1. /\ told'[req[r].tok] = told[req[r].tok] \union {e}
      /\ \A u \in Tokens : u # req[r].tok => told'[u] = told[u]
  BY OneHolds DEF Tell, TypeOK
<1>2. /\ req[r].tok \in Tokens
      /\ req' = [req EXCEPT ![r] = [pc |-> pc, tok |-> req[r].tok]]
  BY OneHolds
<1>3. row' = row /\ runs' = runs /\ crashes' = crashes
  OBVIOUS
<1> QED
  BY <1>1, <1>2, <1>3, OneTokenStep

\* It resolves its row, which is pending still.
LEMMA OneResolves ==
    ASSUME OneOperator, OneInv, NEW r \in Requests, NEW pc, NEW st, NEW re,
           req[r].pc \in Busy, TypeOK', Goto(r, pc), Resolve(req[r].tok, st, re),
           UNCHANGED <<runs, told, crashes>>,
           row[req[r].tok].status = "pending" =>
               Sound(pc, st, runs[req[r].tok], told[req[r].tok])
    PROVE  OneInv'
<1>1. row[req[r].tok].status = "pending" /\ TypeOK /\ req[r].tok \in Tokens
  BY OneHolds DEF Sound
<1>2. row' = [row EXCEPT ![req[r].tok] = [status |-> st, result |-> re]]
  BY <1>1 DEF Resolve, Pending
<1>3. /\ row'[req[r].tok].status = st
      /\ \A u \in Tokens : u # req[r].tok => row'[u] = row[u]
  BY <1>1, <1>2 DEF TypeOK
<1>4. /\ req[r].tok \in Tokens
      /\ req' = [req EXCEPT ![r] = [pc |-> pc, tok |-> req[r].tok]]
  BY OneHolds
<1>5. runs' = runs /\ told' = told /\ crashes' = crashes
  OBVIOUS
<1> QED
  BY <1>1, <1>3, <1>4, <1>5, OneTokenStep

\* The operator's request keeps the invariant, action by action.
LEMMA OneStep ==
    ASSUME OneOperator, OneInv, NEW r \in Requests, RequestStep(r)
    PROVE  OneInv'
<1> DEFINE t == req[r].tok
<1>0. TypeOK' /\ TypeOK
  BY TypeStep DEF OneInv, Next
<1>h. Sound(req[r].pc, row[t].status, runs[t], told[t]) /\ runs[t] \in Nat
  BY <1>0, OneHolds DEF TypeOK
<1>1. ASSUME NEW u \in Tokens, Stage(r, u) PROVE OneInv'
  <2>1. row'[u].status = "pending" /\ \A v \in Tokens : v # u => row'[v] = row[v]
    BY <1>0, <1>1 DEF Stage, TypeOK
  <2> QED
    BY <1>0, <1>1, <2>1, OneBegin DEF Stage
<1>2. ASSUME NEW u \in Tokens, ConfirmRead(r, u) \/ CancelRead(r, u) \/ BulkRead(r, u)
      PROVE  OneInv'
  BY <1>0, <1>2, OneBegin DEF ConfirmRead, CancelRead, BulkRead, Pending
<1>3. CASE AnnounceStaged(r)
  <2>1. Sound("idle", row[t].status, runs[t], told[t] \union {"requested"})
    BY <1>h, <1>3 DEF AnnounceStaged, At, Sound, Busy, Begun
  <2> QED
    BY <1>0, <1>3, <2>1, OneTells DEF AnnounceStaged
<1>4. CASE ConfirmJudge(r)
  <2>1. PICK pc \in {"lapsed", "orphan", "approve"} : Goto(r, pc)
    BY <1>4 DEF ConfirmJudge
  <2>2. Sound(pc, row[t].status, runs[t], told[t])
    BY <1>h, <1>4 DEF ConfirmJudge, At, Sound, Busy, Begun, RequestPc
  <2> QED
    BY <1>0, <1>4, <2>1, <2>2, OneGoes DEF ConfirmJudge
<1>5. CASE ConfirmLapsed(r)
  <2>1. req[r].pc \in Busy /\ (row[t].status = "pending" =>
                                  Sound("idle", "expired", runs[t], told[t]))
    BY <1>h, <1>5 DEF ConfirmLapsed, At, Sound, Busy, Begun, RequestPc
  <2> QED
    BY <1>0, <1>5, <2>1, OneResolves DEF ConfirmLapsed
<1>6. CASE ConfirmOrphan(r)
  <2>1. req[r].pc \in Busy /\ (row[t].status = "pending" =>
                                  Sound("idle", "failed", runs[t], told[t]))
    BY <1>h, <1>6 DEF ConfirmOrphan, At, Sound, Busy, Begun, RequestPc
  <2> QED
    BY <1>0, <1>6, <2>1, OneResolves DEF ConfirmOrphan
<1>7. CASE ConfirmAnnounce(r)
  <2>1. Sound("start", row[t].status, runs[t], told[t] \union {"approvedByConfirm"})
    BY <1>h, <1>7 DEF ConfirmAnnounce, At, Sound, Busy, Begun, RequestPc
  <2> QED
    BY <1>0, <1>7, <2>1, OneTells DEF ConfirmAnnounce
<1>8. CASE ConfirmStart(r)
  <2>1. runs'[t] = runs[t] + 1
    BY <1>0, <1>8, OneHolds DEF ConfirmStart, TypeOK
  <2>2. row[t].status = "pending" /\ runs[t] = 0
    BY <1>h, <1>8 DEF ConfirmStart, At, Sound, Busy, Begun, RequestPc
  <2>3. Sound("running", row[t].status, runs'[t], told[t])
    BY <1>h, <2>1, <2>2 DEF Sound, Busy, Begun, RequestPc
  <2> QED
    BY <1>0, <1>8, <2>3, OneGoes DEF ConfirmStart
<1>9. CASE HandlerReturns(r)
  <2>1. Sound("returned", row[t].status, runs[t], told[t])
    BY <1>h, <1>9 DEF HandlerReturns, At, Sound, Busy, Begun, RequestPc
  <2> QED
    BY <1>0, <1>9, <2>1, OneGoes DEF HandlerReturns
<1>10. CASE HandlerRaises(r)
  <2>1. Sound("raised", row[t].status, runs[t], told[t])
    BY <1>h, <1>10 DEF HandlerRaises, At, Sound, Busy, Begun, RequestPc
  <2> QED
    BY <1>0, <1>10, <2>1, OneGoes DEF HandlerRaises
<1>11. CASE ConfirmResolve(r)
  <2>1. req[r].pc \in Busy /\ (row[t].status = "pending" =>
                                  Sound("idle", "confirmed", runs[t], told[t]))
    BY <1>h, <1>11 DEF ConfirmResolve, At, Sound, Busy, Begun, RequestPc
  <2> QED
    BY <1>0, <1>11, <2>1, OneResolves DEF ConfirmResolve
<1>12. CASE ConfirmFail(r)
  <2>1. req[r].pc \in Busy /\ (row[t].status = "pending" =>
                                  Sound("idle", "failed", runs[t], told[t]))
    BY <1>h, <1>12 DEF ConfirmFail, At, Sound, Busy, Begun, RequestPc
  <2> QED
    BY <1>0, <1>12, <2>1, OneResolves DEF ConfirmFail
<1>13. CASE CancelResolve(r)
  <2>1. req[r].pc \in Busy /\ (row[t].status = "pending" =>
                                  Sound("denied", "cancelled", runs[t], told[t]))
    BY <1>h, <1>13 DEF CancelResolve, At, Sound, Busy, Begun, RequestPc
  <2> QED
    BY <1>0, <1>13, <2>1, OneResolves DEF CancelResolve
<1>14. CASE CancelAnnounce(r)
  <2>1. Sound("idle", row[t].status, runs[t], told[t] \union {"denied"})
    BY <1>h, <1>14 DEF CancelAnnounce, At, Sound, Busy, Begun
  <2> QED
    BY <1>0, <1>14, <2>1, OneTells DEF CancelAnnounce
<1>15. CASE BulkResolve(r)
  <2>1. PICK pc \in {"approved", "idle"} : Goto(r, pc)
    BY <1>15 DEF BulkResolve
  <2>2. req[r].pc \in Busy /\ (row[t].status = "pending" =>
                                  Sound(pc, "confirmed", runs[t], told[t]))
    BY <1>h, <1>15 DEF BulkResolve, At, Sound, Busy, Begun, RequestPc
  <2> QED
    BY <1>0, <1>15, <2>1, <2>2, OneResolves DEF BulkResolve
<1>16. CASE BulkAnnounce(r)
  <2>1. Sound("idle", row[t].status, runs[t], told[t] \union {"approvedByBulk"})
    BY <1>h, <1>16 DEF BulkAnnounce, At, Sound, Busy, Begun
  <2> QED
    BY <1>0, <1>16, <2>1, OneTells DEF BulkAnnounce
<1>17. CASE AnnouncementRaises(r)
  <2>1. Sound("idle", row[t].status, runs[t], told[t])
    BY <1>h, <1>17 DEF AnnouncementRaises, At, Sound, Busy, Begun
  <2>2. Sound("idle", row[t].status, runs[t], told[t] \union {"approvedByConfirm"})
    BY <2>1 DEF Sound
  <2>3. CASE Tell(t, "approvedByConfirm")
    BY <1>0, <1>17, <2>2, <2>3, OneTells DEF AnnouncementRaises
  <2>4. CASE UNCHANGED told
    BY <1>0, <1>17, <2>1, <2>4, OneGoes DEF AnnouncementRaises
  <2> QED
    BY <1>17, <2>3, <2>4 DEF AnnouncementRaises
<1> QED
  BY <1>1, <1>2, <1>3, <1>4, <1>5, <1>6, <1>7, <1>8, <1>9, <1>10, <1>11, <1>12, <1>13,
     <1>14, <1>15, <1>16, <1>17 DEF RequestStep, ConfirmStep

LEMMA OneInvStep == ASSUME OneOperator PROVE OneInv /\ [Next]_vars => OneInv'
<1> SUFFICES ASSUME OneInv, [Next]_vars PROVE OneInv'
    OBVIOUS
<1>1. CASE \E r \in Requests : RequestStep(r)
  BY <1>1, OneStep
<1>2. CASE (\E t \in Tokens : Lapse(t)) \/ UNCHANGED vars
  <2>1. TypeOK' /\ UNCHANGED <<row, req, runs, told, crashes>>
    BY <1>2, TypeStep DEF OneInv, Next, Lapse, vars
  <2> QED
    BY <2>1 DEF OneInv, BusyIsPending, RunsAccounted, DenialAccounted, Holds, Pending
<1>3. CASE (\E s \in Sweepers : SweepStep(s) \/ SweepRaises(s)) \/ Crash
  BY <1>3 DEF OneOperator, OneInv, Crash
<1> QED
  BY <1>1, <1>2, <1>3 DEF Next

LEMMA OneInvariance == ASSUME OneOperator PROVE Spec => []OneInv
BY OneInvInit, OneInvStep, PTL DEF Spec

\* With one operator the handler of a token runs at most once.
THEOREM OneOperatorRunsOnce == ASSUME OneOperator PROVE Spec => []RunsAtMostOnce
<1>1. OneInv => RunsAtMostOnce
  BY DEF OneInv, RunsAccounted, RunsAtMostOnce, TypeOK
<1> QED
  BY <1>1, OneInvariance, PTL

\* With one operator an announced denial is a cancelled row whose handler was
\* never started.
THEOREM OneOperatorDenies == ASSUME OneOperator PROVE Spec => []DenialIsReal
<1>1. OneInv => DenialIsReal
  BY DEF OneInv, TypeOK, DenialAccounted, RunsAccounted, DenialIsReal
<1> QED
  BY <1>1, OneInvariance, PTL

\* Resolving a pending row is the contract's AResolve, if nothing of it was
\* executed or the verdict is one an execution may end in.
LEMMA ContractResolve ==
    ASSUME TypeOK, NEW t \in Tokens, NEW st \in Terminal, NEW re \in Result,
           Pending(t), Resolve(t, st, re), UNCHANGED runs,
           st \in {"cancelled", "expired"} => runs[t] = 0
    PROVE  Contract!ANext
<1>1. row' = [row EXCEPT ![t] = [status |-> st, result |-> re]]
  BY DEF Resolve
<1>2. [u \in Tokens |-> row'[u].status] = [[u \in Tokens |-> row[u].status] EXCEPT ![t] = st]
  BY <1>1 DEF TypeOK
<1>3. [u \in Tokens |-> row[u].status][t] = "pending"
  BY DEF Pending
<1>4. Contract!AResolve(t)
  BY <1>2, <1>3 DEF Contract!AResolve, Contract!Verdicts, Terminal
<1> QED
  BY <1>4 DEF Contract!ANext

\* Every step of one operator's queue is a step of the contract or a stutter.
LEMMA ContractStep ==
    ASSUME OneOperator, OneInv, [Next]_vars
    PROVE  [Contract!ANext]_(Contract!avars)
<1>0. TypeOK
  BY DEF OneInv
<1>1. ASSUME NEW r \in Requests, RequestStep(r) PROVE [Contract!ANext]_(Contract!avars)
  <2>0. /\ req[r].tok \in Tokens
        /\ req[r].pc \in Busy => Pending(req[r].tok)
        /\ req[r].pc \in Busy \ Begun => runs[req[r].tok] = 0
    BY DEF OneInv, OneOperator, TypeOK, BusyIsPending, RunsAccounted, Holds, Busy, Begun
  <2>1. ASSUME NEW t \in Tokens, Stage(r, t) PROVE Contract!ANext
    <3>1. /\ [u \in Tokens |-> row'[u].status]
               = [[u \in Tokens |-> row[u].status] EXCEPT ![t] = "pending"]
          /\ [u \in Tokens |-> row[u].status][t] = "none"
          /\ UNCHANGED runs
      BY <1>0, <2>1 DEF Stage, TypeOK
    <3> QED
      BY <3>1 DEF Contract!ANext, Contract!AStage
  <2>2. ASSUME NEW t \in Tokens, ConfirmRead(r, t) \/ CancelRead(r, t) \/ BulkRead(r, t)
        PROVE  UNCHANGED <<row, runs>>
    BY <2>2 DEF ConfirmRead, CancelRead, BulkRead
  <2>3. CASE AnnounceStaged(r) \/ CancelAnnounce(r) \/ BulkAnnounce(r) \/ ConfirmAnnounce(r)
             \/ ConfirmJudge(r) \/ HandlerReturns(r) \/ HandlerRaises(r) \/ AnnouncementRaises(r)
    BY <2>3 DEF AnnouncementRaises, AnnounceStaged, CancelAnnounce, BulkAnnounce, ConfirmAnnounce, ConfirmJudge,
       HandlerReturns, HandlerRaises, Contract!avars
  <2>4. CASE ConfirmStart(r)
    <3>0. req[r].pc = "start" /\ req[r].pc \in Busy \ Begun
      BY <2>4 DEF ConfirmStart, At, Busy, Begun, RequestPc
    <3>1. runs[req[r].tok] = 0
      BY <2>0, <3>0
    <3>2. runs' = [runs EXCEPT ![req[r].tok] = runs[req[r].tok] + 1] /\ UNCHANGED row
      BY <2>4 DEF ConfirmStart
    <3>3. runs' = [runs EXCEPT ![req[r].tok] = 1]
      BY <3>1, <3>2
    <3>4. [u \in Tokens |-> row[u].status][req[r].tok] = "pending"
      BY <2>0, <3>0 DEF Pending
    <3> QED
      BY <2>0, <3>1, <3>2, <3>3, <3>4 DEF Contract!ANext, Contract!AExecute
  <2>5. CASE ConfirmLapsed(r) \/ ConfirmOrphan(r)
    BY <1>0, <2>0, <2>5, ContractResolve
       DEF ConfirmLapsed, ConfirmOrphan, At, Busy, Begun, RequestPc, Terminal, Result
  <2>6. CASE ConfirmResolve(r) \/ ConfirmFail(r)
    BY <1>0, <2>0, <2>6, ContractResolve
       DEF ConfirmResolve, ConfirmFail, At, Busy, Begun, RequestPc, Terminal, Result
  <2>7. CASE CancelResolve(r) \/ BulkResolve(r)
    BY <1>0, <2>0, <2>7, ContractResolve
       DEF CancelResolve, BulkResolve, At, Busy, Begun, RequestPc, Terminal, Result
  <2> QED
    BY <1>1, <2>1, <2>2, <2>3, <2>4, <2>5, <2>6, <2>7
       DEF RequestStep, ConfirmStep, Contract!avars
<1>2. CASE (\E t \in Tokens : Lapse(t)) \/ UNCHANGED vars
  BY <1>2 DEF Lapse, vars, Contract!avars
<1>3. CASE (\E s \in Sweepers : SweepStep(s) \/ SweepRaises(s)) \/ Crash
  BY <1>3 DEF OneOperator, OneInv, Crash
<1> QED
  BY <1>1, <1>2, <1>3 DEF Next

LEMMA ContractInit == Init => Contract!AInit
BY DEF Init, Contract!AInit

\* With one operator the queue implements the one-shot contract.
THEOREM OneOperatorRefines == ASSUME OneOperator PROVE Spec => Contract!OneShot
BY ContractInit, ContractStep, OneInvariance, PTL DEF Spec, Contract!OneShot
=============================================================================
