--------------------------- MODULE RealtimeSocket ---------------------------
(***************************************************************************)
(* The realtime socket of the cockpit: WsManager (apps/cockpit/src/runtime *)
(* /ws.ts), the browser's WebSocket events, and the reader of the server   *)
(* (web_extras/routers/realtime.py) as far as subscriptions go.            *)
(*                                                                         *)
(* A handler of the page runs to completion, so each is one step; what     *)
(* interleaves is calls, socket events, timers and the server.             *)
(***************************************************************************)
EXTENDS Naturals, Sequences

CONSTANTS
    Topics,    \* topics a page may ask for
    MaxLives,  \* bound on the setups of a manager that is not wanted open
    MaxWire,   \* bound on the messages of the page the server has not read
    MaxFaults  \* bound on lost, refused and failed connections

VARIABLES
    sock,             \* the sockets constructed so far, oldest first
    ws,               \* WsManager.ws: an index of sock, 0 for null
    wantOpen, status, attempt,
    retryTimer,       \* whether WsManager.retryTimer holds a handle
    timers,           \* timeouts of scheduleRetry armed
    subscribedTopics,
    lives, faults

vars == <<sock, ws, wantOpen, status, attempt, retryTimer, timers, subscribedTopics,
          lives, faults>>

-----------------------------------------------------------------------------
(* Types                                                                   *)

Message == [op : {"subscribe", "unsubscribe"}, topics : SUBSET Topics]

\* cancelled: close() was called while connecting; its open event may already
\* be on its way, as the open handler expects.
Phase == {"connecting", "open", "cancelled", "closing", "gone"}

\* wire: messages the server has yet to read; served: topics it drains.
Socket == [phase : Phase, code : {0, 1000, 1006, 4001}, wire : Seq(Message),
           served : SUBSET Topics]

Status == {"idle", "connecting", "open", "reconnecting", "closed"}

TypeOK ==
    /\ sock \in Seq(Socket)
    /\ ws \in 0..Len(sock)
    /\ wantOpen \in BOOLEAN
    /\ status \in Status
    /\ attempt \in Nat
    /\ retryTimer \in BOOLEAN
    /\ timers \in Nat
    /\ subscribedTopics \subseteq Topics
    /\ lives \in Nat
    /\ faults \in Nat

-----------------------------------------------------------------------------
(* Helpers                                                                 *)

Fresh == [phase |-> "connecting", code |-> 0, wire |-> <<>>, served |-> {}]

\* A socket that no longer carries anything; the server ends its reader.
Cut(phase, code) == [phase |-> phase, code |-> code, wire |-> <<>>, served |-> {}]

IsOpen(k) == k # 0 /\ sock[k].phase = "open"
Open == IsOpen(ws)

\* Tell the server, if the current socket is open.
Tell(op, topics) ==
    IF Open
    THEN /\ Len(sock[ws].wire) < MaxWire
         /\ sock' = [sock EXCEPT ![ws].wire = Append(@, [op |-> op, topics |-> topics])]
    ELSE UNCHANGED sock

\* WebSocket.close(1000, ...): nothing on a socket already closing.
Close(s) == CASE s.phase = "connecting" -> Cut("cancelled", 1000)
              [] s.phase = "open"       -> Cut("closing", 1000)
              [] OTHER                  -> s

\* Mutant: the lost connection is noted and no retry is armed.
ScheduleRetryForgets(left) ==
    /\ attempt' = attempt + 1
    /\ status' = "reconnecting"
    /\ retryTimer' = FALSE
    /\ timers' = left

\* left: the timers that stay armed beside the new one.
ScheduleRetry(left) ==
    /\ attempt' = attempt + 1
    /\ status' = "reconnecting"
    /\ retryTimer' = TRUE
    /\ timers' = left + 1

\* connect, past its test of wantOpen; the constructor may throw. retryTimer is
\* null at both its calls.
Connect(left) ==
    \/ /\ sock' = Append(sock, Fresh)
       /\ ws' = Len(sock) + 1
       /\ status' = IF attempt = 0 THEN "connecting" ELSE "reconnecting"
       /\ retryTimer' = FALSE
       /\ timers' = left
       /\ UNCHANGED <<attempt, faults>>
    \/ /\ faults < MaxFaults
       /\ faults' = faults + 1
       /\ ScheduleRetry(left)
       /\ UNCHANGED <<sock, ws>>

-----------------------------------------------------------------------------
(* Calls of the page                                                       *)

\* Mutant: a second setup connects again.
RunsNever == FALSE

\* A session is alive: a socket or a retry.
Runs == wantOpen /\ (ws # 0 \/ retryTimer)

SetupAgain(topics) ==
    /\ Runs
    /\ subscribedTopics' = subscribedTopics \union topics
    /\ IF topics = {} THEN UNCHANGED sock ELSE Tell("subscribe", topics)
    /\ UNCHANGED <<ws, wantOpen, status, attempt, retryTimer, timers, lives, faults>>

SetupAfresh(topics) ==
    /\ ~Runs
    /\ wantOpen \/ lives < MaxLives
    /\ lives' = IF wantOpen THEN lives ELSE lives + 1
    /\ subscribedTopics' = subscribedTopics \union topics
    /\ wantOpen' = TRUE
    /\ Connect(timers)

Setup == \E topics \in SUBSET Topics : SetupAgain(topics) \/ SetupAfresh(topics)

\* Mutant: the armed timeout is not cleared.
TeardownLeavesTimer ==
    /\ lives > 0
    /\ wantOpen' = FALSE
    /\ sock' = IF ws = 0 THEN sock ELSE [sock EXCEPT ![ws] = Close(@)]
    /\ ws' = 0
    /\ status' = "closed"
    /\ UNCHANGED <<attempt, retryTimer, timers, subscribedTopics, lives, faults>>

Teardown ==
    /\ lives > 0
    /\ wantOpen' = FALSE
    /\ timers' = IF retryTimer THEN timers - 1 ELSE timers
    /\ retryTimer' = FALSE
    /\ sock' = IF ws = 0 THEN sock ELSE [sock EXCEPT ![ws] = Close(@)]
    /\ ws' = 0
    /\ status' = "closed"
    /\ UNCHANGED <<attempt, subscribedTopics, lives, faults>>

Subscribe(topics) ==
    /\ subscribedTopics' = subscribedTopics \union topics
    /\ Tell("subscribe", topics)
    /\ UNCHANGED <<ws, wantOpen, status, attempt, retryTimer, timers, lives, faults>>

\* Mutant: the server is not told.
UnsubscribeQuietly(topics) ==
    /\ subscribedTopics' = subscribedTopics \ topics
    /\ UNCHANGED <<sock, ws, wantOpen, status, attempt, retryTimer, timers, lives, faults>>

Unsubscribe(topics) ==
    /\ subscribedTopics' = subscribedTopics \ topics
    /\ Tell("unsubscribe", topics)
    /\ UNCHANGED <<ws, wantOpen, status, attempt, retryTimer, timers, lives, faults>>

-----------------------------------------------------------------------------
(* Events of socket k, the retry timer, and the other end                  *)

\* Mutant: the open handler does not look at wantOpen.
OpenEventBlind(k) ==
    /\ sock[k].phase \in {"connecting", "cancelled"}
    /\ attempt' = 0
    /\ status' = "open"
    /\ sock' = IF sock[k].phase = "cancelled" THEN [sock EXCEPT ![k] = Cut("closing", 1000)]
               ELSE [sock EXCEPT ![k].phase = "open",
                       ![k].wire = <<[op |-> "subscribe", topics |-> subscribedTopics]>>]
    /\ UNCHANGED <<ws, wantOpen, retryTimer, timers, subscribedTopics, lives, faults>>

\* The open handler; what it sends over a cancelled socket is discarded.
OpenEvent(k) ==
    /\ sock[k].phase \in {"connecting", "cancelled"}
    /\ IF wantOpen
       THEN attempt' = 0 /\ status' = "open"
       ELSE UNCHANGED <<attempt, status>>
    /\ sock' = IF sock[k].phase = "cancelled" \/ ~wantOpen
               THEN [sock EXCEPT ![k] = Cut("closing", 1000)]
               ELSE [sock EXCEPT ![k].phase = "open",
                       ![k].wire = IF subscribedTopics = {} THEN <<>>
                                   ELSE <<[op |-> "subscribe", topics |-> subscribedTopics]>>]
    /\ UNCHANGED <<ws, wantOpen, retryTimer, timers, subscribedTopics, lives, faults>>

\* The close handler: clean and wanted closed, refused for good, or retried.
CloseEvent(k) ==
    /\ sock[k].phase \in {"cancelled", "closing"}
    /\ sock' = [sock EXCEPT ![k].phase = "gone"]
    /\ ws' = 0
    /\ IF ~wantOpen \/ sock[k].code = 4001
       THEN status' = "closed" /\ UNCHANGED <<attempt, retryTimer, timers>>
       ELSE ScheduleRetry(timers)
    /\ UNCHANGED <<wantOpen, subscribedTopics, lives, faults>>

RetryTimerFires ==
    /\ timers > 0
    /\ IF wantOpen
       THEN Connect(timers - 1)
       ELSE /\ timers' = timers - 1
            /\ retryTimer' = FALSE
            /\ UNCHANGED <<sock, ws, status, attempt, faults>>
    /\ UNCHANGED <<wantOpen, subscribedTopics, lives>>

\* A connection that is lost or cannot be made, and a client the server refuses.
LossCode == {1006, 4001}

Lose(k) ==
    /\ sock[k].phase \in {"connecting", "open"}
    /\ faults < MaxFaults
    /\ faults' = faults + 1
    /\ \E code \in LossCode : sock' = [sock EXCEPT ![k] = Cut("closing", code)]
    /\ UNCHANGED <<ws, wantOpen, status, attempt, retryTimer, timers, subscribedTopics, lives>>

\* realtime_ws reads one message: _attach or _detach of its topics.
ServerReads(k) ==
    /\ sock[k].phase = "open"
    /\ sock[k].wire # <<>>
    /\ LET m == Head(sock[k].wire)
       IN  sock' = [sock EXCEPT ![k].wire = Tail(@),
                      ![k].served = IF m.op = "subscribe" THEN @ \union m.topics
                                                          ELSE @ \ m.topics]
    /\ UNCHANGED <<ws, wantOpen, status, attempt, retryTimer, timers, subscribedTopics,
                   lives, faults>>

-----------------------------------------------------------------------------
Init ==
    /\ sock = <<>>
    /\ ws = 0
    /\ wantOpen = FALSE
    /\ status = "idle"
    /\ attempt = 0
    /\ retryTimer = FALSE
    /\ timers = 0
    /\ subscribedTopics = {}
    /\ lives = 0
    /\ faults = 0

Event(k) == OpenEvent(k) \/ CloseEvent(k)

Next ==
    \/ Setup
    \/ Teardown
    \/ \E topics \in SUBSET Topics \ {{}} : Subscribe(topics) \/ Unsubscribe(topics)
    \/ RetryTimerFires
    \/ \E k \in DOMAIN sock : Event(k) \/ Lose(k) \/ ServerReads(k)

Spec == Init /\ [][Next]_vars

\* The browser delivers every event and timeout that is due.
Fairness ==
    /\ WF_vars(RetryTimerFires)
    /\ \A k \in 1..(MaxLives + MaxFaults) : WF_vars(k \in DOMAIN sock /\ Event(k))

-----------------------------------------------------------------------------
(* Properties                                                              *)

Live == {k \in DOMAIN sock : sock[k].phase \in {"connecting", "open"}}

\* "only one WS per cockpit session" (ws.ts:21): whatever setups, failures and
\* retries the first life of the manager sees, at most one socket is alive or
\* about to be, and it is the one WsManager can close. (A setup after a teardown
\* may meet the close event of the socket the teardown closed, which drops the
\* new one from WsManager.ws; the page never calls it.)
SoleSocket ==
    lives <= 1 => /\ Live \subseteq {ws}
                  /\ timers <= IF Live = {} THEN 1 ELSE 0

\* Whether the server will serve t once it has read the wire of s: what the last
\* message that names t says.
WillServe(s, t) ==
    LET Naming == {i \in DOMAIN s.wire : t \in s.wire[i].topics}
    IN  IF Naming = {} THEN t \in s.served
        ELSE \E i \in Naming : s.wire[i].op = "subscribe" /\ \A j \in Naming : j <= i

\* Subscriptions survive reconnections and mid-flight changes: once the server
\* has read what the open socket carries, it serves exactly subscribedTopics.
TopicsInSync ==
    Open => \A t \in Topics : WillServe(sock[ws], t) <=> t \in subscribedTopics

\* After teardown nothing comes back by itself: no socket is held, no retry of a
\* first life is armed, and a late open, close or timeout leaves the badge alone.
TeardownIsFinal ==
    ~wantOpen => /\ ws = 0
                 /\ status \in {"idle", "closed"}
                 /\ lives <= 1 => timers = 0

\* The retries give the connection back: in a first life, a page that wants the
\* bus and has no socket gets an open one, unless it is torn down or refused.
ComesBack == (lives <= 1 /\ wantOpen /\ ws = 0) ~> (Open \/ status = "closed")
=============================================================================
