------------------------- MODULE WebhookDeliveries -------------------------
(***************************************************************************)
(* Outgoing webhooks: rows of the sqlite table `deliveries`                *)
(* (backend/core/webhooks/store.py), created and fired by dispatch,        *)
(* re-fired by the dispatcher loop and by the replay endpoint              *)
(* (dispatcher.py, dispatcher_loop.py, web_extras/routers/webhooks.py).    *)
(*                                                                         *)
(* An actor is the loop or a coroutine that runs one dispatch or replay.   *)
(* It holds copies of rows across its awaits, and the store's updates are  *)
(* unconditional, so a copy may be stale when its outcome is written.      *)
(***************************************************************************)
EXTENDS Integers, FiniteSets

CONSTANTS
    Hooks,         \* registered outgoing webhooks
    Workers,       \* coroutines that dispatch events or replay deliveries
    Loop,          \* the dispatcher loop
    MaxDeliveries, \* bound on delivery rows
    Batch,         \* rows the loop takes per tick
    MaxReplays,    \* bound on operator replays
    MaxFaults      \* bound on restarts and failed writes

ASSUME WebhookAssumption ==
    /\ Loop \notin Workers
    /\ MaxDeliveries \in Nat \ {0}
    /\ Batch \in Nat \ {0}
    /\ MaxReplays \in Nat
    /\ MaxFaults \in Nat

\* RETRY_BACKOFF_S and next_attempt_delay of models.py; 0 stands for None.
RetryBackoff == <<30, 120, 600, 3600>>
MaxAttempts == 4
\* Mutant: one attempt too few.
NextDelayShort(attempts) ==
    IF attempts < 1 THEN RetryBackoff[1]
    ELSE IF attempts >= MaxAttempts - 1 THEN 0
    ELSE RetryBackoff[attempts + 1]

NextDelay(attempts) ==
    IF attempts < 1 THEN RetryBackoff[1]
    ELSE IF attempts >= MaxAttempts THEN 0
    ELSE RetryBackoff[attempts + 1]

VARIABLES
    active,   \* webhooks whose active column is 1
    raising,  \* deliveries for which the HTTP call raises, as things stand
    row,      \* delivery -> the columns of its row
    created,  \* number of rows inserted so far
    act,      \* actor -> where it is suspended and the copies it holds
    posts,    \* delivery -> POSTs answered or refused
    acked,    \* deliveries some POST of which was answered 2xx
    replays,
    faults

vars == <<active, raising, row, created, act, posts, acked, replays, faults>>

-----------------------------------------------------------------------------
(* Types                                                                   *)

Actors == Workers \union {Loop}
Deliveries == 1..MaxDeliveries
Status == {"none", "pending", "retry", "success", "failed"}

\* next_attempt_at: NULL, in the past, or in the future.
NextAt == {"null", "due", "later"}
Error == {"null", "http", "inactive"}

\* A copy of a row, as far as fire_delivery uses it.
Copy == [del : Deliveries, attempts : Nat]

ActorPc == {"idle", "creating", "queue", "resetting", "reread",
            "posting", "acked", "refused", "dropping"}

TypeOK ==
    /\ active \subseteq Hooks
    /\ raising \subseteq Deliveries
    /\ row \in [Deliveries -> [status : Status, attempts : Nat, next : NextAt,
                               error : Error, hook : Hooks]]
    /\ created \in 0..MaxDeliveries
    /\ act \in [Actors -> [pc : ActorPc, todo : SUBSET Hooks,
                           queue : SUBSET Copy, cur : Copy]]
    /\ posts \in [Deliveries -> Nat]
    /\ acked \subseteq Deliveries
    /\ replays \in Nat
    /\ faults \in Nat

Rows == 1..created
Open == {"pending", "retry"}
Settled == {"success", "failed"}

\* Mutant: every row that did not succeed.
DueUnsuccessful(d) ==
    row[d].status \in {"pending", "retry", "failed"} /\ row[d].next \in {"null", "due"}

\* Mutant: pending rows are left to their dispatch.
DueRetryOnly(d) == row[d].status = "retry" /\ row[d].next \in {"null", "due"}

\* list_due_deliveries.
Due(d) == row[d].status \in Open /\ row[d].next \in {"null", "due"}

CopyOf(d) == [del |-> d, attempts |-> row[d].attempts]

\* patch_delivery: an unconditional UPDATE of these columns.
Patch(d, status, attempts, next, error) ==
    row' = [row EXCEPT ![d] = [status |-> status, attempts |-> attempts, next |-> next,
                               error |-> error, hook |-> row[d].hook]]

-----------------------------------------------------------------------------
(* Control of an actor                                                     *)

At(a, pc) == act[a].pc = pc
Goto(a, pc) == act' = [act EXCEPT ![a].pc = pc]

NoCopy == [del |-> 1, attempts |-> 0]
Idle == [pc |-> "idle", todo |-> {}, queue |-> {}, cur |-> NoCopy]

\* After one delivery, on to the next copy in the queue, or done.
Continue(a) ==
    act' = [act EXCEPT ![a] = [pc    |-> IF act[a].queue = {} THEN "idle" ELSE "queue",
                               todo  |-> {},
                               queue |-> act[a].queue,
                               cur   |-> NoCopy]]

\* The actor takes the copies of its queue oldest row first.
Take(a, c, pc) ==
    /\ At(a, "queue")
    /\ c \in act[a].queue
    /\ \A e \in act[a].queue : c.del <= e.del
    /\ act' = [act EXCEPT ![a] = [pc |-> pc, todo |-> {}, queue |-> act[a].queue \ {c},
                                  cur |-> c]]
    /\ UNCHANGED <<active, raising, row, created, posts, acked, replays, faults>>

-----------------------------------------------------------------------------
(* dispatch                                                                *)

\* Rows the dispatches in progress are still going to insert.
Reserved == Cardinality({p \in Workers \X Hooks : p[2] \in act[p[1]].todo})

\* The active webhooks whose filter matches the event.
DispatchMatch(w, matched) ==
    /\ At(w, "idle")
    /\ matched \subseteq active
    /\ matched # {}
    /\ created + Reserved + Cardinality(matched) <= MaxDeliveries
    /\ act' = [act EXCEPT ![w] = [pc |-> "creating", todo |-> matched, queue |-> {},
                                  cur |-> NoCopy]]
    /\ UNCHANGED <<active, raising, row, created, posts, acked, replays, faults>>

\* One create_delivery per matched webhook, eligible at once.
DispatchCreate(w) ==
    LET d == created + 1
    IN  /\ At(w, "creating")
        /\ d \in Deliveries
        /\ \E h \in act[w].todo :
             /\ row' = [row EXCEPT ![d] = [status |-> "pending", attempts |-> 0,
                                           next |-> "due", error |-> "null",
                                           hook |-> h]]
             /\ act' = [act EXCEPT
                  ![w] = [pc    |-> IF act[w].todo = {h} THEN "queue" ELSE "creating",
                          todo  |-> act[w].todo \ {h},
                          queue |-> act[w].queue \union {[del |-> d, attempts |-> 0]},
                          cur   |-> NoCopy]]
        /\ created' = d
        /\ UNCHANGED <<active, raising, posts, acked, replays, faults>>

\* The rows are fired in turn, with the webhook as it was when it matched.
DispatchTake(w) == \E c \in act[w].queue : Take(w, c, "posting")

-----------------------------------------------------------------------------
(* POST /outgoing/{id}/deliveries/{id}/replay                              *)

ReplayBegin(w, d) ==
    /\ At(w, "idle")
    /\ d \in Rows
    /\ replays < MaxReplays
    /\ replays' = replays + 1
    /\ act' = [act EXCEPT ![w] = [pc |-> "resetting", todo |-> {}, queue |-> {},
                                  cur |-> CopyOf(d)]]
    /\ UNCHANGED <<active, raising, row, created, posts, acked, faults>>

\* patch_delivery back to PENDING; attempts are kept.
ReplayReset(w) ==
    /\ At(w, "resetting")
    /\ LET d == act[w].cur.del
       IN  Patch(d, "pending", row[d].attempts, "null", "null")
    /\ Goto(w, "reread")
    /\ UNCHANGED <<active, raising, created, posts, acked, replays, faults>>

\* patch_delivery returns the row from a second connection.
ReplayReread(w) ==
    /\ At(w, "reread")
    /\ act' = [act EXCEPT ![w] = [pc |-> "posting", todo |-> {}, queue |-> {},
                                  cur |-> CopyOf(act[w].cur.del)]]
    /\ UNCHANGED <<active, raising, row, created, posts, acked, replays, faults>>

-----------------------------------------------------------------------------
(* webhooks_dispatcher_loop                                                *)

\* The oldest due rows, at most Batch of them.
LoopSelect ==
    LET due == {d \in Rows : Due(d)}
        chosen == {d \in due : Cardinality({e \in due : e < d}) < Batch}
    IN  /\ At(Loop, "idle")
        /\ due # {}
        /\ act' = [act EXCEPT ![Loop] = [pc    |-> "queue",
                                         todo  |-> {},
                                         queue |-> {CopyOf(d) : d \in chosen},
                                         cur   |-> NoCopy]]
        /\ UNCHANGED <<active, raising, row, created, posts, acked, replays, faults>>

\* The webhook is read again for each delivery.
LoopTake ==
    \E c \in act[Loop].queue :
        Take(Loop, c, IF row[c.del].hook \in active THEN "posting" ELSE "dropping")

\* The webhook is inactive: failed, webhook_inactive.
LoopDrop ==
    /\ At(Loop, "dropping")
    /\ LET d == act[Loop].cur.del
       IN  Patch(d, "failed", row[d].attempts, "null", "inactive")
    /\ Continue(Loop)
    /\ UNCHANGED <<active, raising, created, posts, acked, replays, faults>>

-----------------------------------------------------------------------------
(* fire_delivery                                                           *)

\* The POST and its answer; a refusal may be a transport error. A dispatch or
\* a replay calls the URL it read before, which may be another by now.
Post(a) ==
    /\ At(a, "posting")
    /\ a = Loop => act[a].cur.del \notin raising
    /\ posts' = [posts EXCEPT ![act[a].cur.del] = @ + 1]
    /\ \/ Goto(a, "acked") /\ acked' = acked \union {act[a].cur.del}
       \/ Goto(a, "refused") /\ UNCHANGED acked
    /\ UNCHANGED <<active, raising, row, created, replays, faults>>

\* The call itself raises, as it does for a URL without a scheme or an answer
\* that is not HTTP: none of the errors _post_sync catches, so the row is not
\* written; logged, and on to the next delivery.
PostRaises(a) ==
    /\ At(a, "posting")
    /\ a = Loop => act[a].cur.del \in raising
    /\ Continue(a)
    /\ UNCHANGED <<active, raising, row, created, posts, acked, replays, faults>>

\* Mutant: any answer counts as success.
WriteSuccessAnyAnswer(a) ==
    /\ act[a].pc \in {"acked", "refused"}
    /\ Patch(act[a].cur.del, "success", act[a].cur.attempts + 1, "null", "null")
    /\ Continue(a)
    /\ UNCHANGED <<active, raising, created, posts, acked, replays, faults>>

\* 2xx: success.  attempts is the copy's plus one, whatever the row says.
WriteSuccess(a) ==
    /\ At(a, "acked")
    /\ Patch(act[a].cur.del, "success", act[a].cur.attempts + 1, "null", "null")
    /\ Continue(a)
    /\ UNCHANGED <<active, raising, created, posts, acked, replays, faults>>

\* Anything else: retry while the copy's budget lasts, then failed.
WriteRetry(a) ==
    /\ At(a, "refused")
    /\ NextDelay(act[a].cur.attempts + 1) # 0
    /\ Patch(act[a].cur.del, "retry", act[a].cur.attempts + 1, "later", "http")
    /\ Continue(a)
    /\ UNCHANGED <<active, raising, created, posts, acked, replays, faults>>

WriteFailed(a) ==
    /\ At(a, "refused")
    /\ NextDelay(act[a].cur.attempts + 1) = 0
    /\ Patch(act[a].cur.del, "failed", act[a].cur.attempts + 1, "null", "http")
    /\ Continue(a)
    /\ UNCHANGED <<active, raising, created, posts, acked, replays, faults>>

\* The write after a POST raised: logged, and on to the next delivery.
WriteLost(a) ==
    /\ act[a].pc \in {"acked", "refused"}
    /\ faults < MaxFaults
    /\ faults' = faults + 1
    /\ Continue(a)
    /\ UNCHANGED <<active, raising, row, created, posts, acked, replays>>

\* A store call outside fire_delivery raised: the dispatch, the replay or the
\* loop's whole tick ends there.
CallRaises(a) ==
    /\ \/ act[a].pc \in {"creating", "resetting", "reread", "dropping"}
       \/ a = Loop /\ At(a, "queue")
    /\ faults < MaxFaults
    /\ faults' = faults + 1
    /\ act' = [act EXCEPT ![a] = Idle]
    /\ UNCHANGED <<active, raising, row, created, posts, acked, replays>>

-----------------------------------------------------------------------------
(* The environment                                                         *)

\* PATCH /outgoing/{id} with active, DELETE /outgoing/{id}.
SetActive(h) ==
    /\ active' = IF h \in active THEN active \ {h} ELSE active \union {h}
    /\ UNCHANGED <<raising, row, created, act, posts, acked, replays, faults>>

\* The URL is patched, or the receiver stops or begins to answer in HTTP.
CallsChange(d) ==
    /\ raising' = IF d \in raising THEN raising \ {d} ELSE raising \union {d}
    /\ UNCHANGED <<active, row, created, act, posts, acked, replays, faults>>

TimePasses(d) ==
    /\ row[d].next = "later"
    /\ row' = [row EXCEPT ![d].next = "due"]
    /\ UNCHANGED <<active, raising, created, act, posts, acked, replays, faults>>

\* A restart forgets every actor; the rows survive.
Crash ==
    /\ faults < MaxFaults
    /\ faults' = faults + 1
    /\ act' = [a \in Actors |-> Idle]
    /\ UNCHANGED <<active, raising, row, created, posts, acked, replays>>

-----------------------------------------------------------------------------
Init ==
    /\ active = Hooks
    /\ raising \in SUBSET Deliveries
    /\ \E h \in Hooks :
         row = [d \in Deliveries |-> [status |-> "none", attempts |-> 0, next |-> "null",
                                      error |-> "null", hook |-> h]]
    /\ created = 0
    /\ act = [a \in Actors |-> Idle]
    /\ posts = [d \in Deliveries |-> 0]
    /\ acked = {}
    /\ replays = 0
    /\ faults = 0

Fire(a) ==
    \/ Post(a) \/ PostRaises(a)
    \/ WriteSuccess(a) \/ WriteRetry(a) \/ WriteFailed(a)

WorkerStep(w) ==
    \/ \E matched \in SUBSET Hooks : DispatchMatch(w, matched)
    \/ DispatchCreate(w)
    \/ DispatchTake(w)
    \/ \E d \in Deliveries : ReplayBegin(w, d)
    \/ ReplayReset(w)
    \/ ReplayReread(w)
    \/ Fire(w)

LoopStep == LoopSelect \/ LoopTake \/ LoopDrop \/ Fire(Loop)

Next ==
    \/ \E w \in Workers : WorkerStep(w)
    \/ LoopStep
    \/ \E a \in Actors : WriteLost(a) \/ CallRaises(a)
    \/ \E h \in Hooks : SetActive(h)
    \/ \E d \in Deliveries : CallsChange(d) \/ TimePasses(d)
    \/ Crash

Spec == Init /\ [][Next]_vars

\* The loop survives every exception and each POST has a timeout; retry times
\* come.  Nothing is assumed of the coroutines that dispatch or replay.
FairSpec == Spec /\ WF_vars(LoopStep) /\ \A d \in Deliveries : WF_vars(TimePasses(d))

-----------------------------------------------------------------------------
(* Properties                                                              *)

\* The attempts column never counts a POST that was not made, however stale
\* the copy it was computed from (it may count too few).
AttemptsAreReal == \A d \in Rows : row[d].attempts <= posts[d]

\* No delivery is given up before its budget of POSTs is spent, unless its
\* webhook was inactive.
NeverGivesUpEarly ==
    \A d \in Rows :
        row[d].status = "failed" /\ row[d].error = "http" => posts[d] >= MaxAttempts

\* A delivery that reads "success" was answered 2xx at least once.
SuccessWasAcked == \A d \in Rows : row[d].status = "success" => d \in acked

\* Some actor holds a copy of d it may still fire or write.
Held(d) ==
    \E a \in Actors :
        \/ \E c \in act[a].queue : c.del = d
        \/ act[a].pc \in {"resetting", "reread", "posting", "acked", "refused", "dropping"}
           /\ act[a].cur.del = d

\* Once a delivery is settled and no actor holds a copy, it is neither posted
\* nor rewritten, and nobody picks it up again unless an operator replays it.
SettledStaysSettled ==
    [][\A d \in Rows :
         row[d].status \in Settled /\ ~Held(d) =>
             /\ row'[d] = row[d]
             /\ posts'[d] = posts[d]
             /\ Held(d)' => replays' > replays]_vars

\* The loop takes the oldest rows first, and d is behind a batch of open ones
\* whose calls raise: they stay due for ever and leave it no place.
Jammed(d) ==
    Cardinality({e \in Rows : e < d /\ row[e].status \in Open /\ e \in raising}) >= Batch

\* Every delivery is eventually settled, across finitely many restarts, failed
\* store calls and replays, any deactivations and refusals, while the loop runs:
\* but for one whose own call raises, which stays due for ever, and one jammed
\* behind such. (Rows whose calls raise in turn, for ever, could jam others
\* without ever being a batch.)
EveryDeliverySettles ==
    <>[][UNCHANGED raising]_vars =>
        \A d \in Deliveries :
            (row[d].status \in Open) ~>
                (row[d].status \in Settled \/ d \in raising \/ Jammed(d))

\* "4 attempts max" (dispatcher.py's docstring), without operator replays.
FourAttemptsMax == replays = 0 => \A d \in Rows : posts[d] <= MaxAttempts
=============================================================================
