--------------------------- MODULE Cockpit_proofs ---------------------------
(***************************************************************************)
(* Proofs about Cockpit, for every value of its constants: one inductive   *)
(* invariant per part of the page. A behaviour of the page is, seen        *)
(* through the variables of one part, a behaviour of that part (the lemmas *)
(* Alone), so each invariant is shown of its own part's steps and then of  *)
(* the page.                                                               *)
(*                                                                         *)
(* Socket: while the manager lives its first life, of a socket and a retry *)
(* timer at most one is left of it; and what the server will have served,  *)
(* once it has read the wire, is what the page wants. Chat: what a call    *)
(* has handled and holds is what arrived, and a send that goes on can be   *)
(* aborted, or was, unless two overlapped. Voice: a prompt is the one      *)
(* shared, a recorder that records is the last, and nothing is recorded    *)
(* while a click waits for its transcript. Speech: the utterances that may *)
(* still be heard form one chain, each after those said before it.         *)
(***************************************************************************)
EXTENDS Cockpit, SequenceTheorems, TLAPS

-----------------------------------------------------------------------------
(* What a wire makes the server serve                                      *)

\* The messages of a wire that name topic t.
Naming(wire, t) == {i \in DOMAIN wire : t \in wire[i].topics}

\* The last word on t is the message sent last, if that names it.
LEMMA ServeAppend ==
    ASSUME NEW s \in Socket!Socket, NEW m \in Socket!Message, NEW t, NEW r \in Socket!Socket,
           r.wire = Append(s.wire, m), r.served = s.served
    PROVE  Socket!WillServe(r, t) <=> IF t \in m.topics THEN m.op = "subscribe"
                                      ELSE Socket!WillServe(s, t)
<1> DEFINE n == Len(s.wire)
<1>0. s.wire \in Seq(Socket!Message)
  BY DEF Socket!Socket
<1>1. /\ n \in Nat /\ DOMAIN s.wire = 1..n /\ DOMAIN r.wire = 1..(n + 1)
      /\ \A i \in 1..n : r.wire[i] = s.wire[i]
      /\ r.wire[n + 1] = m
  BY <1>0
<1> HIDE DEF n
<1>2. CASE t \in m.topics
  <2>1. /\ n + 1 \in Naming(r.wire, t)
        /\ \A i \in Naming(r.wire, t) : i <= n + 1 /\ (i # n + 1 => ~(n + 1 <= i))
    BY <1>1, <1>2 DEF Naming
  <2> QED
    BY <1>1, <1>2, <2>1 DEF Socket!WillServe, Naming
<1>3. CASE t \notin m.topics
  <2>1. Naming(r.wire, t) = Naming(s.wire, t)
    BY <1>1, <1>3 DEF Naming
  <2>2. \A i \in Naming(s.wire, t) : r.wire[i] = s.wire[i]
    BY <1>1 DEF Naming
  <2> QED
    BY <1>3, <2>1, <2>2 DEF Socket!WillServe, Naming
<1> QED
  BY <1>2, <1>3

\* What the server will serve does not depend on how much it has read.
LEMMA ServeRead ==
    ASSUME NEW s \in Socket!Socket, s.wire # <<>>, NEW t, NEW r \in Socket!Socket,
           r.wire = Tail(s.wire),
           r.served = IF Head(s.wire).op = "subscribe"
                      THEN s.served \union Head(s.wire).topics
                      ELSE s.served \ Head(s.wire).topics
    PROVE  Socket!WillServe(r, t) <=> Socket!WillServe(s, t)
<1> DEFINE n == Len(s.wire)
<1>0. s.wire \in Seq(Socket!Message)
  BY DEF Socket!Socket
<1>1. /\ n \in Nat /\ n >= 1 /\ DOMAIN s.wire = 1..n /\ DOMAIN r.wire = 1..(n - 1)
      /\ \A i \in 1..(n - 1) : r.wire[i] = s.wire[i + 1]
      /\ Head(s.wire) = s.wire[1]
  BY <1>0
<1> HIDE DEF n
<1>2. /\ \A i \in Naming(r.wire, t) : i \in 1..(n - 1) /\ i + 1 \in Naming(s.wire, t)
      /\ \A i \in Naming(s.wire, t) : i = 1 \/ (i - 1 \in Naming(r.wire, t) /\ i \in 2..n)
  BY <1>1 DEF Naming
<1>3. CASE Naming(r.wire, t) = {}
  <2>1. CASE t \in s.wire[1].topics
    <3>1. Naming(s.wire, t) = {1}
      BY <1>1, <1>2, <1>3, <2>1 DEF Naming
    <3>2. Socket!WillServe(s, t) <=> s.wire[1].op = "subscribe"
      BY <3>1 DEF Socket!WillServe, Naming
    <3>3. Socket!WillServe(r, t) <=> t \in r.served
      BY <1>3 DEF Socket!WillServe, Naming
    <3> QED
      BY <1>1, <2>1, <3>2, <3>3
  <2>2. CASE t \notin s.wire[1].topics
    <3>1. Naming(s.wire, t) = {}
      BY <1>1, <1>2, <1>3, <2>2 DEF Naming
    <3>2. Socket!WillServe(s, t) <=> t \in s.served
      BY <3>1 DEF Socket!WillServe, Naming
    <3>3. Socket!WillServe(r, t) <=> t \in r.served
      BY <1>3 DEF Socket!WillServe, Naming
    <3> QED
      BY <1>1, <2>2, <3>2, <3>3
  <2> QED
    BY <2>1, <2>2
<1>4. CASE Naming(r.wire, t) # {}
  <2>0. Naming(s.wire, t) # {}
    BY <1>2, <1>4
  <2>1. Socket!WillServe(r, t) <=> \E i \in Naming(r.wire, t) :
            r.wire[i].op = "subscribe" /\ \A j \in Naming(r.wire, t) : j <= i
    BY <1>4 DEF Socket!WillServe, Naming
  <2>2. Socket!WillServe(s, t) <=> \E i \in Naming(s.wire, t) :
            s.wire[i].op = "subscribe" /\ \A j \in Naming(s.wire, t) : j <= i
    BY <2>0 DEF Socket!WillServe, Naming
  <2>3. ASSUME NEW i \in Naming(r.wire, t), r.wire[i].op = "subscribe",
               \A j \in Naming(r.wire, t) : j <= i
        PROVE  Socket!WillServe(s, t)
    <3>1. i + 1 \in Naming(s.wire, t) /\ s.wire[i + 1].op = "subscribe"
      BY <1>1, <1>2, <2>3
    <3>2. ASSUME NEW j \in Naming(s.wire, t) PROVE j <= i + 1
      BY <1>1, <1>2, <2>3, <3>2
    <3> QED
      BY <2>2, <3>1, <3>2
  <2>4. ASSUME NEW i \in Naming(s.wire, t), s.wire[i].op = "subscribe",
               \A j \in Naming(s.wire, t) : j <= i
        PROVE  Socket!WillServe(r, t)
    <3>1. i # 1
      BY <1>2, <1>4, <2>4
    <3>2. i - 1 \in Naming(r.wire, t) /\ i \in 2..n
      BY <1>2, <2>4, <3>1
    <3>3. r.wire[i - 1].op = "subscribe"
      BY <1>1, <2>4, <3>2
    <3>4. ASSUME NEW j \in Naming(r.wire, t) PROVE j <= i - 1
      BY <1>2, <2>4, <3>2
    <3> QED
      BY <2>1, <3>2, <3>3, <3>4
  <2> QED
    BY <2>1, <2>2, <2>3, <2>4
<1> QED
  BY <1>3, <1>4

\* A socket that opens asks for every topic the page wants, and for no other.
LEMMA ServeOpened ==
    ASSUME NEW T \in SUBSET Topics, NEW s, s.served = {},
           s.wire = IF T = {} THEN <<>> ELSE <<[op |-> "subscribe", topics |-> T]>>
    PROVE  \A t \in Topics : Socket!WillServe(s, t) <=> t \in T
<1> SUFFICES ASSUME NEW t \in Topics PROVE Socket!WillServe(s, t) <=> t \in T
  OBVIOUS
<1>1. CASE T = {}
  <2>1. Naming(s.wire, t) = {}
    BY <1>1 DEF Naming
  <2> QED
    BY <1>1, <2>1 DEF Socket!WillServe, Naming
<1>2. CASE T # {}
  <2> DEFINE m == [op |-> "subscribe", topics |-> T]
  <2>1. DOMAIN s.wire = {1} /\ s.wire[1] = m /\ m.op = "subscribe" /\ m.topics = T
    BY <1>2
  <2> HIDE DEF m
  <2>2. Naming(s.wire, t) = IF t \in T THEN {1} ELSE {}
    BY <2>1 DEF Naming
  <2> QED
    BY <2>1, <2>2 DEF Socket!WillServe, Naming
<1> QED
  BY <1>1, <1>2

-----------------------------------------------------------------------------
(* The invariant of the socket                                             *)

\* Only an open socket carries anything.
QuietUnlessOpen ==
    \A k \in DOMAIN sock : sock[k].phase # "open" => sock[k].wire = <<>> /\ sock[k].served = {}

NotWanted == ~wantOpen => ws = 0 /\ status \in {"idle", "closed"}

\* While the manager lives its first life, at most one of a socket and a timer
\* is left of it: every other socket has had its close event.
FirstLife ==
    lives <= 1 =>
        /\ timers = IF retryTimer THEN 1 ELSE 0
        /\ retryTimer => wantOpen /\ ws = 0
        /\ wantOpen => \A k \in DOMAIN sock : k # ws => sock[k].phase = "gone"
        /\ ~wantOpen => \A k \in DOMAIN sock : sock[k].phase \notin {"connecting", "open"}
        /\ lives = 0 => sock = <<>> /\ ~wantOpen

\* The handle held is of a timer that is armed.
TimerArmed == retryTimer => timers > 0

SocketInv ==
    /\ Socket!TypeOK /\ QuietUnlessOpen /\ NotWanted /\ FirstLife /\ TimerArmed
    /\ Socket!TopicsInSync

-----------------------------------------------------------------------------
(* Sockets                                                                 *)

LEMMA SocketTypes ==
    ASSUME Socket!TypeOK
    PROVE  /\ Len(sock) \in Nat
           /\ \A k \in DOMAIN sock : /\ k \in Nat /\ 1 <= k /\ k <= Len(sock)
                                     /\ sock[k] \in Socket!Socket
           /\ ws # 0 => ws \in DOMAIN sock
BY DEF Socket!TypeOK

LEMMA WireChange ==
    ASSUME NEW s \in Socket!Socket, NEW wire
    PROVE  [s EXCEPT !.wire = wire]
               = [phase |-> s.phase, code |-> s.code, wire |-> wire, served |-> s.served]
BY DEF Socket!Socket

LEMMA PhaseChange ==
    ASSUME NEW s \in Socket!Socket, NEW phase
    PROVE  [s EXCEPT !.phase = phase]
               = [phase |-> phase, code |-> s.code, wire |-> s.wire, served |-> s.served]
BY DEF Socket!Socket

LEMMA OpenChange ==
    ASSUME NEW s \in Socket!Socket, NEW phase, NEW wire
    PROVE  [s EXCEPT !.phase = phase, !.wire = wire]
               = [phase |-> phase, code |-> s.code, wire |-> wire, served |-> s.served]
<1> DEFINE r == [phase |-> phase, code |-> s.code, wire |-> s.wire, served |-> s.served]
<1>1. [r EXCEPT !.wire = wire]
          = [phase |-> phase, code |-> s.code, wire |-> wire, served |-> s.served]
  OBVIOUS
<1> QED
  BY <1>1, PhaseChange

LEMMA ReadChange ==
    ASSUME NEW s \in Socket!Socket, NEW wire, NEW served
    PROVE  [s EXCEPT !.wire = wire, !.served = served]
               = [phase |-> s.phase, code |-> s.code, wire |-> wire, served |-> served]
<1> DEFINE r == [phase |-> s.phase, code |-> s.code, wire |-> wire, served |-> s.served]
<1>1. [r EXCEPT !.served = served]
          = [phase |-> s.phase, code |-> s.code, wire |-> wire, served |-> served]
  OBVIOUS
<1> QED
  BY <1>1, WireChange

LEMMA CutType ==
    ASSUME NEW phase \in Socket!Phase, NEW code \in {0, 1000, 1006, 4001}
    PROVE  /\ Socket!Cut(phase, code) \in Socket!Socket
           /\ (Socket!Cut(phase, code)).phase = phase
           /\ (Socket!Cut(phase, code)).wire = <<>> /\ (Socket!Cut(phase, code)).served = {}
BY DEF Socket!Cut, Socket!Socket

\* The change of one socket.
LEMMA SockWrite ==
    ASSUME Socket!TypeOK, NEW k \in DOMAIN sock, NEW s \in Socket!Socket,
           sock' = [sock EXCEPT ![k] = s]
    PROVE  /\ sock' \in Seq(Socket!Socket) /\ Len(sock') = Len(sock)
           /\ DOMAIN sock' = DOMAIN sock
           /\ sock'[k] = s
           /\ \A j \in DOMAIN sock : j # k => sock'[j] = sock[j]
BY DEF Socket!TypeOK

\* A socket more, in its first state.
LEMMA SockAppend ==
    ASSUME Socket!TypeOK, sock' = Append(sock, Socket!Fresh)
    PROVE  /\ sock' \in Seq(Socket!Socket) /\ Len(sock') = Len(sock) + 1
           /\ \A k \in DOMAIN sock : sock'[k] = sock[k]
           /\ \A k \in DOMAIN sock' : k \in DOMAIN sock \/ k = Len(sock) + 1
           /\ sock'[Len(sock) + 1].phase = "connecting"
           /\ sock'[Len(sock) + 1].wire = <<>> /\ sock'[Len(sock) + 1].served = {}
<1>1. /\ Socket!Fresh \in Socket!Socket /\ Socket!Fresh.phase = "connecting"
      /\ Socket!Fresh.wire = <<>> /\ Socket!Fresh.served = {}
  BY DEF Socket!Fresh, Socket!Socket, Socket!Phase
<1> QED
  BY <1>1 DEF Socket!TypeOK

-----------------------------------------------------------------------------
(* Steps that tell the server                                              *)

\* The new topics of the page, and what the server is told, agree.
LEMMA TellStep ==
    ASSUME SocketInv, NEW op \in {"subscribe", "unsubscribe"}, NEW topics \in SUBSET Topics,
           Socket!Tell(op, topics),
           subscribedTopics' = IF op = "subscribe" THEN subscribedTopics \union topics
                                                   ELSE subscribedTopics \ topics,
           UNCHANGED <<ws, wantOpen, status, attempt, retryTimer, timers, lives, losses>>
    PROVE  SocketInv'
<1> Socket!TypeOK
  BY DEF SocketInv
<1>1. CASE ~Socket!Open
  <2>1. sock' = sock
    BY <1>1 DEF Socket!Tell
  <2>2. Socket!TypeOK'
    BY <2>1 DEF Socket!TypeOK
  <2>3. QuietUnlessOpen' /\ NotWanted' /\ FirstLife' /\ TimerArmed'
    BY <2>1 DEF SocketInv, QuietUnlessOpen, NotWanted, FirstLife, TimerArmed
  <2>4. Socket!TopicsInSync'
    BY <1>1, <2>1 DEF Socket!TopicsInSync, Socket!Open, Socket!IsOpen
  <2> QED
    BY <2>2, <2>3, <2>4 DEF SocketInv
<1>2. CASE Socket!Open
  <2> DEFINE m == [op |-> op, topics |-> topics]
  <2> DEFINE wire == Append(sock[ws].wire, m)
  <2> DEFINE s == [phase |-> sock[ws].phase, code |-> sock[ws].code, wire |-> wire,
                   served |-> sock[ws].served]
  <2>1. ws \in DOMAIN sock /\ sock[ws].phase = "open" /\ sock[ws] \in Socket!Socket
    BY <1>2, SocketTypes DEF Socket!Open, Socket!IsOpen
  <2>2. m \in Socket!Message /\ m.op = op /\ m.topics = topics
    BY DEF Socket!Message
  <2>3. sock' = [sock EXCEPT ![ws].wire = Append(@, m)]
    BY <1>2 DEF Socket!Tell
  <2> HIDE DEF m
  <2>4. /\ s \in Socket!Socket
        /\ s.phase = "open" /\ s.wire = wire /\ s.served = sock[ws].served
    <3>1. wire \in Seq(Socket!Message)
      BY <2>1, <2>2 DEF Socket!Socket
    <3> HIDE DEF wire
    <3> QED
      BY <2>1, <3>1 DEF Socket!Socket
  <2>5. sock' = [sock EXCEPT ![ws] = s]
    BY <2>1, <2>3, WireChange
  <2> HIDE DEF s
  <2>7. /\ sock' \in Seq(Socket!Socket) /\ Len(sock') = Len(sock) /\ DOMAIN sock' = DOMAIN sock
        /\ sock'[ws] = s /\ \A j \in DOMAIN sock : j # ws => sock'[j] = sock[j]
    BY <2>1, <2>4, <2>5, SockWrite
  <2>8. Socket!TypeOK'
    BY <2>7 DEF Socket!TypeOK
  <2>9. QuietUnlessOpen' /\ NotWanted' /\ FirstLife' /\ TimerArmed'
    <3>1. QuietUnlessOpen'
      BY <2>4, <2>7 DEF SocketInv, QuietUnlessOpen
    <3>2. NotWanted' /\ TimerArmed'
      BY DEF SocketInv, NotWanted, TimerArmed
    <3>3. FirstLife'
      BY <2>1, <2>4, <2>7 DEF SocketInv, FirstLife
    <3> QED
      BY <3>1, <3>2, <3>3
  <2>10. Socket!TopicsInSync'
    <3> SUFFICES ASSUME NEW t \in Topics
                 PROVE  Socket!WillServe(s, t) <=> t \in subscribedTopics'
      BY <2>7 DEF Socket!TopicsInSync
    <3>1. Socket!WillServe(sock[ws], t) <=> t \in subscribedTopics
      BY <1>2 DEF SocketInv, Socket!TopicsInSync
    <3>2. Socket!WillServe(s, t) <=> IF t \in topics THEN op = "subscribe"
                                     ELSE Socket!WillServe(sock[ws], t)
      BY <2>1, <2>2, <2>4, ServeAppend
    <3> QED
      BY <3>1, <3>2
  <2> QED
    BY <2>8, <2>9, <2>10 DEF SocketInv
<1> QED
  BY <1>1, <1>2

-----------------------------------------------------------------------------
(* Steps that connect                                                      *)

\* connect is called without a socket, unless by the stray timer of another
\* life; in a first life no timer and no socket whose close event is due is left.
LEMMA ConnectStep ==
    ASSUME SocketInv, NEW left \in Nat, Socket!Connect(left),
           wantOpen' = TRUE, subscribedTopics' \in SUBSET Topics, lives' \in Nat \ {0},
           ws = 0 \/ subscribedTopics' = subscribedTopics,
           lives' <= 1 => /\ left = 0 /\ ws = 0
                          /\ \A k \in DOMAIN sock : sock[k].phase = "gone"
    PROVE  SocketInv'
<1> Socket!TypeOK
  BY DEF SocketInv
<1>1. CASE /\ sock' = Append(sock, Socket!Fresh)
           /\ ws' = Len(sock) + 1
           /\ status' = IF attempt = 0 THEN "connecting" ELSE "reconnecting"
           /\ retryTimer' = FALSE
           /\ timers' = left
           /\ UNCHANGED <<attempt, losses>>
  <2>1. /\ sock' \in Seq(Socket!Socket) /\ Len(sock') = Len(sock) + 1
        /\ \A k \in DOMAIN sock : sock'[k] = sock[k]
        /\ \A k \in DOMAIN sock' : k \in DOMAIN sock \/ k = Len(sock) + 1
        /\ sock'[Len(sock) + 1].phase = "connecting"
        /\ sock'[Len(sock) + 1].wire = <<>> /\ sock'[Len(sock) + 1].served = {}
    BY <1>1, SockAppend
  <2>2. Socket!TypeOK'
    <3>1. ws' \in 0..Len(sock') /\ status' \in Socket!Status
      BY <1>1, <2>1, SocketTypes DEF Socket!Status
    <3>2. retryTimer' \in BOOLEAN /\ wantOpen' \in BOOLEAN
      BY <1>1
    <3> QED
      BY <1>1, <2>1, <3>1, <3>2 DEF Socket!TypeOK
  <2>3. QuietUnlessOpen'
    BY <2>1 DEF SocketInv, QuietUnlessOpen
  <2>4. NotWanted' /\ FirstLife' /\ TimerArmed'
    BY <1>1, <2>1 DEF NotWanted, FirstLife, TimerArmed
  <2>5. Socket!TopicsInSync'
    BY <1>1, <2>1 DEF Socket!TopicsInSync, Socket!Open, Socket!IsOpen
  <2> QED
    BY <2>2, <2>3, <2>4, <2>5 DEF SocketInv
<1>2. CASE /\ losses < MaxLosses
           /\ losses' = losses + 1
           /\ Socket!ScheduleRetry(left)
           /\ UNCHANGED <<sock, ws>>
  <2>1. /\ attempt' = attempt + 1 /\ status' = "reconnecting" /\ retryTimer' = TRUE
        /\ timers' = left + 1 /\ sock' = sock /\ ws' = ws
    BY <1>2 DEF Socket!ScheduleRetry
  <2>2. Socket!TypeOK'
    BY <1>2, <2>1 DEF Socket!TypeOK, Socket!Status
  <2>3. QuietUnlessOpen' /\ NotWanted' /\ FirstLife' /\ TimerArmed'
    BY <2>1 DEF SocketInv, QuietUnlessOpen, NotWanted, FirstLife, TimerArmed
  <2>4. Socket!TopicsInSync'
    BY <2>1 DEF SocketInv, Socket!TopicsInSync, Socket!Open, Socket!IsOpen
  <2> QED
    BY <2>2, <2>3, <2>4 DEF SocketInv
<1> QED
  BY <1>1, <1>2 DEF Socket!Connect

-----------------------------------------------------------------------------
(* Steps of one socket                                                     *)

\* What the change of socket k to s keeps, if s keeps it.
LEMMA SockChange ==
    ASSUME SocketInv, NEW k \in DOMAIN sock, NEW s \in Socket!Socket,
           sock' = [sock EXCEPT ![k] = s], ws' \in {0, ws}, subscribedTopics' = subscribedTopics,
           s.phase # "open" => s.wire = <<>> /\ s.served = {},
           k = ws /\ s.phase = "open" =>
               \A t \in Topics : Socket!WillServe(s, t) <=> t \in subscribedTopics
    PROVE  /\ sock' \in Seq(Socket!Socket) /\ Len(sock') = Len(sock)
           /\ DOMAIN sock' = DOMAIN sock
           /\ sock'[k] = s
           /\ \A j \in DOMAIN sock : j # k => sock'[j] = sock[j]
           /\ ws' \in 0..Len(sock')
           /\ QuietUnlessOpen'
           /\ Socket!TopicsInSync'
<1> Socket!TypeOK
  BY DEF SocketInv
<1>1. /\ sock' \in Seq(Socket!Socket) /\ Len(sock') = Len(sock)
      /\ DOMAIN sock' = DOMAIN sock
      /\ sock'[k] = s
      /\ \A j \in DOMAIN sock : j # k => sock'[j] = sock[j]
  BY SockWrite
<1>2. ws' \in 0..Len(sock') /\ (ws' # 0 => ws' = ws /\ ws \in DOMAIN sock)
  BY <1>1, SocketTypes DEF Socket!TypeOK
<1>3. QuietUnlessOpen'
  BY <1>1 DEF SocketInv, QuietUnlessOpen
<1>4. Socket!TopicsInSync'
  <2> SUFFICES ASSUME ws' # 0, sock'[ws'].phase = "open", NEW t \in Topics
               PROVE  Socket!WillServe(sock'[ws'], t) <=> t \in subscribedTopics
    BY DEF Socket!TopicsInSync, Socket!Open, Socket!IsOpen
  <2>1. CASE k = ws
    BY <1>1, <1>2, <2>1
  <2>2. CASE k # ws
    <3>1. sock'[ws'] = sock[ws] /\ Socket!Open
      BY <1>1, <1>2, <2>2 DEF Socket!Open, Socket!IsOpen
    <3> QED
      BY <3>1 DEF SocketInv, Socket!TopicsInSync
  <2> QED
    BY <2>1, <2>2
<1> QED
  BY <1>1, <1>2, <1>3, <1>4

LEMMA CloseType ==
    ASSUME NEW s \in Socket!Socket, s.phase # "open" => s.wire = <<>> /\ s.served = {}
    PROVE  /\ Socket!Close(s) \in Socket!Socket
           /\ Socket!Close(s) = s \/ (Socket!Close(s)).phase \in {"cancelled", "closing"}
           /\ (Socket!Close(s)).phase \notin {"connecting", "open"}
           /\ (Socket!Close(s)).wire = <<>> /\ (Socket!Close(s)).served = {}
<1>1. CASE s.phase = "connecting"
  BY <1>1, CutType DEF Socket!Close, Socket!Phase
<1>2. CASE s.phase = "open"
  BY <1>2, CutType DEF Socket!Close, Socket!Phase
<1>3. CASE s.phase \notin {"connecting", "open"}
  BY <1>3 DEF Socket!Close
<1> QED
  BY <1>1, <1>2, <1>3

LEMMA TeardownStep == ASSUME SocketInv, Socket!Teardown PROVE SocketInv'
<1> Socket!TypeOK
  BY DEF SocketInv
<1>1. /\ lives > 0 /\ wantOpen' = FALSE /\ retryTimer' = FALSE /\ ws' = 0 /\ status' = "closed"
      /\ timers' = IF retryTimer THEN timers - 1 ELSE timers
      /\ UNCHANGED <<attempt, subscribedTopics, lives, losses>>
  BY DEF Socket!Teardown
<1>2. lives \in Nat /\ lives # 0 /\ (lives <= 1 => timers' = 0)
  BY <1>1 DEF SocketInv, FirstLife, Socket!TypeOK
<1>3. /\ sock' \in Seq(Socket!Socket) /\ QuietUnlessOpen' /\ Socket!TopicsInSync'
      /\ \A k \in DOMAIN sock' :
            /\ k \in DOMAIN sock
            /\ (sock'[k] = sock[k] /\ k # ws) \/ sock'[k].phase \notin {"connecting", "open"}
  <2>1. CASE ws = 0
    <3>1. sock' = sock
      BY <2>1 DEF Socket!Teardown
    <3>2. QuietUnlessOpen'
      BY <3>1 DEF SocketInv, QuietUnlessOpen
    <3>3. Socket!TopicsInSync'
      BY <1>1 DEF Socket!TopicsInSync, Socket!Open, Socket!IsOpen
    <3> QED
      BY <2>1, <3>1, <3>2, <3>3, SocketTypes DEF Socket!TypeOK
  <2>2. CASE ws # 0
    <3> DEFINE s == Socket!Close(sock[ws])
    <3>1. ws \in DOMAIN sock /\ sock[ws] \in Socket!Socket /\ sock' = [sock EXCEPT ![ws] = s]
      BY <2>2, SocketTypes DEF Socket!Teardown
    <3>2. /\ s \in Socket!Socket /\ s.phase \notin {"connecting", "open"}
          /\ s.wire = <<>> /\ s.served = {}
      BY <3>1, CloseType DEF SocketInv, QuietUnlessOpen
    <3> HIDE DEF s
    <3> QED
      BY <1>1, <3>1, <3>2, SockChange
  <2> QED
    BY <2>1, <2>2
<1>4. Socket!TypeOK'
  <2>1. timers' \in Nat
    BY <1>1 DEF SocketInv, TimerArmed, Socket!TypeOK
  <2>2. Len(sock') \in Nat /\ 0 \in 0..Len(sock')
    BY <1>3
  <2>3. wantOpen' \in BOOLEAN /\ retryTimer' \in BOOLEAN
    BY <1>1
  <2> QED
    BY <1>1, <1>3, <2>1, <2>2, <2>3 DEF Socket!TypeOK, Socket!Status
<1>5. NotWanted'
  BY <1>1 DEF NotWanted
<1>6. FirstLife'
  <2> SUFFICES ASSUME lives <= 1, NEW k \in DOMAIN sock'
               PROVE  sock'[k].phase \notin {"connecting", "open"}
    BY <1>1, <1>2 DEF FirstLife
  <2>1. k \in DOMAIN sock /\ (k # ws => sock[k].phase \notin {"connecting", "open"})
    BY <1>3 DEF SocketInv, FirstLife, Socket!TypeOK
  <2> QED
    BY <1>3, <2>1
<1>7. TimerArmed'
  BY <1>1 DEF TimerArmed
<1> QED
  BY <1>3, <1>4, <1>5, <1>6, <1>7 DEF SocketInv

LEMMA OpenStep ==
    ASSUME SocketInv, NEW k \in DOMAIN sock, Socket!OpenEvent(k)
    PROVE  SocketInv'
<1> Socket!TypeOK
  BY DEF SocketInv
<1>0. /\ sock[k] \in Socket!Socket /\ sock[k].phase \in {"connecting", "cancelled"}
      /\ sock[k].served = {}
      /\ UNCHANGED <<ws, wantOpen, retryTimer, timers, subscribedTopics, lives, losses>>
      /\ IF wantOpen THEN attempt' = 0 /\ status' = "open" ELSE UNCHANGED <<attempt, status>>
  BY SocketTypes DEF Socket!OpenEvent, SocketInv, QuietUnlessOpen
<1>1. /\ status' \in Socket!Status /\ attempt' \in Nat
      /\ ~wantOpen => status' = status
  BY <1>0 DEF Socket!TypeOK, Socket!Status
<1> DEFINE wire == IF subscribedTopics = {} THEN <<>>
                   ELSE <<[op |-> "subscribe", topics |-> subscribedTopics]>>
<1> DEFINE opened == [phase |-> "open", code |-> sock[k].code, wire |-> wire,
                      served |-> sock[k].served]
<1>2. PICK s \in Socket!Socket :
         /\ sock' = [sock EXCEPT ![k] = s]
         /\ s.phase # "open" => s.wire = <<>> /\ s.served = {}
         /\ s.phase = "open" => \A t \in Topics : Socket!WillServe(s, t) <=> t \in subscribedTopics
         /\ s.phase \in {"open", "closing"}
         /\ s.phase = "open" => wantOpen = TRUE /\ sock[k].phase = "connecting"
  <2>1. CASE sock[k].phase = "cancelled" \/ ~wantOpen
    <3> DEFINE cut == Socket!Cut("closing", 1000)
    <3>1. sock' = [sock EXCEPT ![k] = cut]
      BY <2>1 DEF Socket!OpenEvent
    <3>2. cut \in Socket!Socket /\ cut.phase = "closing" /\ cut.wire = <<>> /\ cut.served = {}
      BY CutType DEF Socket!Phase
    <3> HIDE DEF cut
    <3> QED
      BY <3>1, <3>2
  <2>2. CASE ~(sock[k].phase = "cancelled" \/ ~wantOpen)
    <3>1. sock' = [sock EXCEPT ![k].phase = "open", ![k].wire = wire]
      BY <2>2 DEF Socket!OpenEvent
    <3>2. wire \in Seq(Socket!Message)
      <4>1. [op |-> "subscribe", topics |-> subscribedTopics] \in Socket!Message
        BY DEF Socket!Message, Socket!TypeOK
      <4> QED
        BY <4>1
    <3>3. \A t \in Topics : Socket!WillServe(opened, t) <=> t \in subscribedTopics
      BY <1>0, ServeOpened DEF Socket!TypeOK
    <3> HIDE DEF wire
    <3>4. sock' = [sock EXCEPT ![k] = opened]
      BY <1>0, <3>1, OpenChange
    <3>5. opened \in Socket!Socket
      BY <1>0, <3>2 DEF Socket!Socket, Socket!Phase
    <3> QED
      BY <1>0, <2>2, <3>3, <3>4, <3>5 DEF Socket!TypeOK
  <2> QED
    BY <2>1, <2>2
<1>3. /\ sock' \in Seq(Socket!Socket) /\ DOMAIN sock' = DOMAIN sock /\ sock'[k] = s
      /\ Len(sock') = Len(sock) /\ \A j \in DOMAIN sock : j # k => sock'[j] = sock[j]
      /\ QuietUnlessOpen' /\ Socket!TopicsInSync'
  BY <1>0, <1>2, SockChange
<1>4. Socket!TypeOK'
  BY <1>0, <1>1, <1>3 DEF Socket!TypeOK
<1>5. NotWanted' /\ TimerArmed'
  BY <1>0, <1>1 DEF SocketInv, NotWanted, TimerArmed
<1>6. FirstLife'
  BY <1>0, <1>2, <1>3 DEF SocketInv, FirstLife
<1> QED
  BY <1>3, <1>4, <1>5, <1>6 DEF SocketInv

LEMMA CloseStep ==
    ASSUME SocketInv, NEW k \in DOMAIN sock, Socket!CloseEvent(k)
    PROVE  SocketInv'
<1> Socket!TypeOK
  BY DEF SocketInv
<1> DEFINE s == [phase |-> "gone", code |-> sock[k].code, wire |-> sock[k].wire,
                 served |-> sock[k].served]
<1>0. /\ sock[k] \in Socket!Socket /\ sock[k].phase \in {"cancelled", "closing"}
      /\ sock[k].wire = <<>> /\ sock[k].served = {} /\ k # 0 /\ k \in Nat
      /\ ws' = 0 /\ UNCHANGED <<wantOpen, subscribedTopics, lives, losses>>
  BY SocketTypes DEF Socket!CloseEvent, SocketInv, QuietUnlessOpen
<1>1. s \in Socket!Socket
  BY <1>0 DEF Socket!Socket, Socket!Phase
<1>2. sock' = [sock EXCEPT ![k] = s]
  <2>1. sock' = [sock EXCEPT ![k].phase = "gone"]
    BY DEF Socket!CloseEvent
  <2> QED
    BY <1>0, <2>1, PhaseChange
<1>3. s.phase = "gone" /\ s.wire = <<>> /\ s.served = {}
  BY <1>0
<1> HIDE DEF s
<1>4. /\ sock' \in Seq(Socket!Socket) /\ DOMAIN sock' = DOMAIN sock /\ sock'[k] = s
      /\ Len(sock') = Len(sock) /\ \A j \in DOMAIN sock : j # k => sock'[j] = sock[j]
      /\ ws' \in 0..Len(sock') /\ QuietUnlessOpen' /\ Socket!TopicsInSync'
  BY <1>0, <1>1, <1>2, <1>3, SockChange
<1>5. CASE ~wantOpen \/ sock[k].code = 4001
  <2>1. status' = "closed" /\ UNCHANGED <<attempt, retryTimer, timers>>
    BY <1>5 DEF Socket!CloseEvent
  <2>2. Socket!TypeOK'
    BY <1>0, <1>4, <2>1 DEF Socket!TypeOK, Socket!Status
  <2>3. NotWanted' /\ TimerArmed'
    BY <1>0, <2>1 DEF SocketInv, NotWanted, TimerArmed
  <2>4. FirstLife'
    BY <1>0, <1>3, <1>4, <2>1 DEF SocketInv, FirstLife
  <2> QED
    BY <1>4, <2>2, <2>3, <2>4 DEF SocketInv
<1>6. CASE ~(~wantOpen \/ sock[k].code = 4001)
  <2>1. /\ attempt' = attempt + 1 /\ status' = "reconnecting" /\ retryTimer' = TRUE
        /\ timers' = timers + 1
    BY <1>6 DEF Socket!CloseEvent, Socket!ScheduleRetry
  <2>2. Socket!TypeOK'
    BY <1>0, <1>4, <2>1 DEF Socket!TypeOK, Socket!Status
  <2>3. NotWanted' /\ TimerArmed'
    BY <1>0, <1>6, <2>1 DEF NotWanted, TimerArmed, Socket!TypeOK
  <2>4. FirstLife'
    BY <1>0, <1>3, <1>4, <1>6, <2>1 DEF SocketInv, FirstLife, Socket!TypeOK
  <2> QED
    BY <1>4, <2>2, <2>3, <2>4 DEF SocketInv
<1> QED
  BY <1>5, <1>6

LEMMA LoseStep ==
    ASSUME SocketInv, NEW k \in DOMAIN sock, Socket!Lose(k)
    PROVE  SocketInv'
<1> Socket!TypeOK
  BY DEF SocketInv
<1>1. PICK code \in Socket!LossCode : sock' = [sock EXCEPT ![k] = Socket!Cut("closing", code)]
  BY Zenon DEF Socket!Lose
<1> DEFINE s == Socket!Cut("closing", code)
<1>2. sock' = [sock EXCEPT ![k] = s]
  BY <1>1
<1>3. s \in Socket!Socket /\ s.phase = "closing" /\ s.wire = <<>> /\ s.served = {}
  BY CutType DEF Socket!Phase, Socket!LossCode
<1> HIDE DEF s
<1>4. /\ sock[k].phase \in {"connecting", "open"} /\ losses' = losses + 1
      /\ UNCHANGED <<ws, wantOpen, status, attempt, retryTimer, timers, subscribedTopics, lives>>
  BY DEF Socket!Lose
<1>5. /\ sock' \in Seq(Socket!Socket) /\ DOMAIN sock' = DOMAIN sock /\ sock'[k] = s
      /\ Len(sock') = Len(sock) /\ \A j \in DOMAIN sock : j # k => sock'[j] = sock[j]
      /\ QuietUnlessOpen' /\ Socket!TopicsInSync'
  BY <1>2, <1>3, <1>4, SockChange
<1>6. Socket!TypeOK'
  BY <1>4, <1>5 DEF Socket!TypeOK
<1>7. NotWanted' /\ TimerArmed'
  BY <1>4 DEF SocketInv, NotWanted, TimerArmed
<1>8. FirstLife'
  BY <1>3, <1>4, <1>5 DEF SocketInv, FirstLife
<1> QED
  BY <1>5, <1>6, <1>7, <1>8 DEF SocketInv

LEMMA ReadStep ==
    ASSUME SocketInv, NEW k \in DOMAIN sock, Socket!ServerReads(k)
    PROVE  SocketInv'
<1> Socket!TypeOK
  BY DEF SocketInv
<1> DEFINE m == Head(sock[k].wire)
<1> DEFINE served == IF m.op = "subscribe" THEN sock[k].served \union m.topics
                                           ELSE sock[k].served \ m.topics
<1> DEFINE s == [phase |-> sock[k].phase, code |-> sock[k].code, wire |-> Tail(sock[k].wire),
                 served |-> served]
<1>0. /\ sock[k] \in Socket!Socket /\ sock[k].phase = "open" /\ sock[k].wire # <<>>
      /\ sock[k].wire \in Seq(Socket!Message)
      /\ UNCHANGED <<ws, wantOpen, status, attempt, retryTimer, timers, subscribedTopics,
                     lives, losses>>
  BY SocketTypes DEF Socket!ServerReads, Socket!Socket
<1>1. m \in Socket!Message /\ Tail(sock[k].wire) \in Seq(Socket!Message)
  BY <1>0
<1>2. sock' = [sock EXCEPT ![k].wire = Tail(@), ![k].served = IF m.op = "subscribe"
                                                       THEN @ \union m.topics ELSE @ \ m.topics]
  BY DEF Socket!ServerReads
<1> HIDE DEF m
<1>3. served \in SUBSET Topics
  BY <1>0, <1>1 DEF Socket!Socket, Socket!Message
<1>4. s \in Socket!Socket
  BY <1>0, <1>1, <1>3 DEF Socket!Socket
<1>5. sock' = [sock EXCEPT ![k] = s]
  BY <1>0, <1>2, ReadChange
<1>6. \A t \in Topics : Socket!WillServe(s, t) <=> Socket!WillServe(sock[k], t)
  BY <1>0, <1>4, ServeRead DEF m
<1>7. s.phase = "open"
  BY <1>0
<1> HIDE DEF s
<1>8. k = ws => \A t \in Topics : Socket!WillServe(sock[k], t) <=> t \in subscribedTopics
  BY <1>0, SocketTypes DEF SocketInv, Socket!TopicsInSync, Socket!Open, Socket!IsOpen
<1>9. /\ sock' \in Seq(Socket!Socket) /\ DOMAIN sock' = DOMAIN sock /\ sock'[k] = s
      /\ Len(sock') = Len(sock) /\ \A j \in DOMAIN sock : j # k => sock'[j] = sock[j]
      /\ QuietUnlessOpen' /\ Socket!TopicsInSync'
  BY <1>0, <1>4, <1>5, <1>6, <1>7, <1>8, SockChange
<1>10. Socket!TypeOK'
  BY <1>0, <1>9 DEF Socket!TypeOK
<1>11. NotWanted' /\ TimerArmed'
  BY <1>0 DEF SocketInv, NotWanted, TimerArmed
<1>12. FirstLife'
  BY <1>0, <1>7, <1>9 DEF SocketInv, FirstLife
<1> QED
  BY <1>9, <1>10, <1>11, <1>12 DEF SocketInv

\* A timeout: a connection, or the end of a timer nobody waits for.
LEMMA TimerStep == ASSUME SocketInv, Socket!RetryTimerFires PROVE SocketInv'
<1> Socket!TypeOK
  BY DEF SocketInv
<1>1. /\ timers > 0 /\ timers \in Nat /\ timers - 1 \in Nat
      /\ UNCHANGED <<wantOpen, subscribedTopics, lives>>
  BY DEF Socket!RetryTimerFires, Socket!TypeOK
<1>2. CASE wantOpen
  <2>1. lives \in Nat \ {0}
    BY <1>2 DEF SocketInv, FirstLife, Socket!TypeOK
  <2>2. lives <= 1 => /\ timers - 1 = 0 /\ ws = 0
                      /\ \A k \in DOMAIN sock : sock[k].phase = "gone"
    BY <1>1, <1>2, SocketTypes DEF SocketInv, FirstLife
  <2>3. Socket!Connect(timers - 1)
    BY <1>2 DEF Socket!RetryTimerFires
  <2>4. wantOpen' = TRUE /\ subscribedTopics' = subscribedTopics /\ lives' = lives
    BY <1>1, <1>2 DEF Socket!TypeOK
  <2>5. subscribedTopics' \in SUBSET Topics
    BY <2>4 DEF Socket!TypeOK
  <2> QED
    BY <1>1, <2>1, <2>2, <2>3, <2>4, <2>5, ConnectStep
<1>3. CASE ~wantOpen
  <2>1. /\ timers' = timers - 1 /\ retryTimer' = FALSE
        /\ UNCHANGED <<sock, ws, status, attempt, losses>>
    BY <1>3 DEF Socket!RetryTimerFires
  <2>2. Socket!TypeOK'
    <3>1. retryTimer' \in BOOLEAN
      BY <2>1
    <3>2. timers' \in Nat
      BY <1>1, <2>1
    <3>3. sock' \in Seq(Socket!Socket) /\ ws' \in 0..Len(sock') /\ status' \in Socket!Status
      BY <2>1 DEF Socket!TypeOK
    <3>4. /\ attempt' \in Nat /\ losses' \in Nat /\ lives' \in Nat /\ wantOpen' \in BOOLEAN
          /\ subscribedTopics' \subseteq Topics
      BY <1>1, <2>1 DEF Socket!TypeOK
    <3> QED
      BY <3>1, <3>2, <3>3, <3>4 DEF Socket!TypeOK
  <2>3. QuietUnlessOpen' /\ NotWanted' /\ TimerArmed'
    BY <1>1, <2>1 DEF SocketInv, QuietUnlessOpen, NotWanted, TimerArmed
  <2>4. FirstLife'
    <3>1. lives <= 1 => timers = 0
      BY <1>3 DEF SocketInv, FirstLife
    <3> QED
      BY <1>1, <1>3, <2>1, <3>1 DEF SocketInv, FirstLife
  <2>5. Socket!TopicsInSync'
    BY <1>1, <2>1 DEF SocketInv, Socket!TopicsInSync, Socket!Open, Socket!IsOpen
  <2> QED
    BY <2>2, <2>3, <2>4, <2>5 DEF SocketInv
<1> QED
  BY <1>2, <1>3

-----------------------------------------------------------------------------
(* The socket as a whole                                                   *)

LEMMA SocketQuiet == ASSUME SocketInv, UNCHANGED Socket!vars PROVE SocketInv'
<1>1. Socket!TypeOK'
  BY DEF SocketInv, Socket!vars, Socket!TypeOK
<1>2. QuietUnlessOpen' /\ NotWanted' /\ FirstLife' /\ TimerArmed'
  BY DEF SocketInv, Socket!vars, QuietUnlessOpen, NotWanted, FirstLife, TimerArmed
<1>3. Socket!TopicsInSync'
  BY DEF SocketInv, Socket!vars, Socket!TopicsInSync, Socket!Open, Socket!IsOpen
<1> QED
  BY <1>1, <1>2, <1>3 DEF SocketInv

LEMMA SetupStep ==
    ASSUME SocketInv, NEW topics \in SUBSET Topics,
           Socket!SetupAgain(topics) \/ Socket!SetupAfresh(topics)
    PROVE  SocketInv'
<1> Socket!TypeOK
  BY DEF SocketInv
<1>0. subscribedTopics' = subscribedTopics \union topics /\ subscribedTopics' \in SUBSET Topics
  BY DEF Socket!SetupAgain, Socket!SetupAfresh, Socket!TypeOK
<1>1. CASE Socket!SetupAgain(topics)
  <2>1. UNCHANGED <<ws, wantOpen, status, attempt, retryTimer, timers, lives, losses>>
    BY <1>1 DEF Socket!SetupAgain
  <2>2. CASE topics = {}
    <3>1. sock' = sock /\ subscribedTopics' = subscribedTopics
      BY <1>0, <1>1, <2>2 DEF Socket!SetupAgain
    <3> QED
      BY <2>1, <3>1, SocketQuiet DEF Socket!vars
  <2>3. CASE topics # {}
    <3>1. Socket!Tell("subscribe", topics)
      BY <1>1, <2>3 DEF Socket!SetupAgain
    <3> QED
      BY <1>0, <2>1, <3>1, TellStep
  <2> QED
    BY <2>2, <2>3
<1>2. CASE Socket!SetupAfresh(topics)
  <2>1. /\ Socket!Connect(timers) /\ timers \in Nat /\ wantOpen' = TRUE
        /\ lives' = IF wantOpen THEN lives ELSE lives + 1
        /\ ~(wantOpen /\ (ws # 0 \/ retryTimer))
    BY <1>2 DEF Socket!SetupAfresh, Socket!Runs, Socket!TypeOK
  <2>2. ws = 0 /\ (wantOpen => ~retryTimer)
    BY <2>1 DEF SocketInv, NotWanted
  <2>3. lives' \in Nat \ {0}
    BY <2>1 DEF SocketInv, FirstLife, Socket!TypeOK
  <2>4. lives' <= 1 => timers = 0 /\ \A k \in DOMAIN sock : sock[k].phase = "gone"
    <3>1. CASE wantOpen
      BY <2>1, <2>2, <3>1, SocketTypes DEF SocketInv, FirstLife
    <3>2. CASE ~wantOpen
      <4> SUFFICES ASSUME lives' <= 1
                   PROVE  timers = 0 /\ \A k \in DOMAIN sock : sock[k].phase = "gone"
        OBVIOUS
      <4>1. lives = 0
        BY <2>1, <3>2 DEF Socket!TypeOK
      <4>2. sock = <<>> /\ timers = 0
        BY <3>2, <4>1 DEF SocketInv, FirstLife
      <4> QED
        BY <4>2
    <3> QED
      BY <3>1, <3>2
  <2> QED
    BY <1>0, <2>1, <2>2, <2>3, <2>4, ConnectStep
<1> QED
  BY <1>1, <1>2

LEMMA SubscribeStep ==
    ASSUME SocketInv, NEW topics \in SUBSET Topics,
           Socket!Subscribe(topics) \/ Socket!Unsubscribe(topics)
    PROVE  SocketInv'
<1>1. CASE Socket!Subscribe(topics)
  BY <1>1, TellStep DEF Socket!Subscribe
<1>2. CASE Socket!Unsubscribe(topics)
  BY <1>2, TellStep DEF Socket!Unsubscribe
<1> QED
  BY <1>1, <1>2

LEMMA SocketInvInit == Socket!Init => SocketInv
<1> SUFFICES ASSUME Socket!Init PROVE SocketInv
  OBVIOUS
<1>1. Socket!TypeOK
  <2>1. wantOpen \in BOOLEAN /\ retryTimer \in BOOLEAN
    BY DEF Socket!Init
  <2>2. sock \in Seq(Socket!Socket) /\ ws \in 0..Len(sock) /\ status \in Socket!Status
    BY DEF Socket!Init, Socket!Status
  <2>3. /\ attempt \in Nat /\ timers \in Nat /\ lives \in Nat /\ losses \in Nat
        /\ subscribedTopics \subseteq Topics
    BY DEF Socket!Init
  <2> QED
    BY <2>1, <2>2, <2>3 DEF Socket!TypeOK
<1>2. QuietUnlessOpen /\ NotWanted /\ FirstLife /\ TimerArmed
  BY DEF Socket!Init, QuietUnlessOpen, NotWanted, FirstLife, TimerArmed
<1>3. Socket!TopicsInSync
  BY DEF Socket!Init, Socket!TopicsInSync, Socket!Open, Socket!IsOpen
<1> QED
  BY <1>1, <1>2, <1>3 DEF SocketInv

LEMMA SocketInvStep == SocketInv /\ [Socket!Next]_(Socket!vars) => SocketInv'
<1> SUFFICES ASSUME SocketInv, [Socket!Next]_(Socket!vars) PROVE SocketInv'
  OBVIOUS
<1>1. CASE Socket!Setup
  BY <1>1, SetupStep DEF Socket!Setup
<1>2. CASE Socket!Teardown
  BY <1>2, TeardownStep
<1>3. ASSUME NEW topics \in SUBSET Topics \ {{}},
             Socket!Subscribe(topics) \/ Socket!Unsubscribe(topics)
      PROVE  SocketInv'
  BY <1>3, SubscribeStep
<1>4. CASE Socket!RetryTimerFires
  BY <1>4, TimerStep
<1>5. ASSUME NEW k \in DOMAIN sock, Socket!Event(k) \/ Socket!Lose(k) \/ Socket!ServerReads(k)
      PROVE  SocketInv'
  <2>1. CASE Socket!OpenEvent(k)
    BY <2>1, OpenStep
  <2>2. CASE Socket!CloseEvent(k)
    BY <2>2, CloseStep
  <2>3. CASE Socket!Lose(k)
    BY <2>3, LoseStep
  <2>4. CASE Socket!ServerReads(k)
    BY <2>4, ReadStep
  <2> QED
    BY <1>5, <2>1, <2>2, <2>3, <2>4 DEF Socket!Event
<1>6. CASE UNCHANGED Socket!vars
  BY <1>6, SocketQuiet
<1> QED
  BY <1>1, <1>2, <1>3, <1>4, <1>5, <1>6 DEF Socket!Next

\* In a first life the sockets alive and the timers armed are at most one.
LEMMA SoleFollows == SocketInv => Socket!SoleSocket
<1> SUFFICES ASSUME SocketInv, lives <= 1
             PROVE  /\ Socket!Live \subseteq {ws}
                    /\ timers <= IF Socket!Live = {} THEN 1 ELSE 0
  BY DEF Socket!SoleSocket
<1>1. Socket!Live \subseteq {ws} /\ timers \in {0, 1} /\ (timers = 1 => ws = 0)
  BY DEF SocketInv, FirstLife, Socket!Live
<1>2. ws = 0 => Socket!Live = {}
  BY <1>1, SocketTypes DEF Socket!Live, SocketInv
<1> QED
  BY <1>1, <1>2

LEMMA FinalFollows == SocketInv => Socket!TeardownIsFinal
BY DEF SocketInv, NotWanted, FirstLife, Socket!TeardownIsFinal

LEMMA SocketAlone == PageSpec => Socket!Spec
<1>1. PageInit => Socket!Init
  BY DEF PageInit
<1>2. [PageNext]_pageVars => [Socket!Next]_(Socket!vars)
  BY DEF PageNext, pageVars, SocketStep, ChatStep, VoiceStep, SpeechStep, socketVars, Socket!vars
<1> QED
  BY <1>1, <1>2, PTL DEF PageSpec, Socket!Spec

LEMMA SocketInvAlways == PageSpec => []SocketInv
BY SocketInvInit, SocketInvStep, SocketAlone, PTL DEF Socket!Spec

\* "only one WS per cockpit session" (ws.ts:21): whatever setups, failures and
\* retries a first life sees, one socket at most is alive or about to be, and it
\* is the one WsManager can close.
THEOREM SoleSocketAlways == PageSpec => []SoleSocket
<1>1. SocketInv => SoleSocket
  BY SoleFollows DEF SoleSocket
<1> QED
  BY <1>1, SocketInvAlways, PTL

\* What the server will serve, once it has read the wire, is what the page is
\* subscribed to: across reconnections and changes sent while one is under way.
THEOREM TopicsStayInSync == PageSpec => []TopicsInSync
<1>1. SocketInv => TopicsInSync
  BY DEF SocketInv, TopicsInSync
<1> QED
  BY <1>1, SocketInvAlways, PTL

\* Whatever is late for it, nothing of the bus is left or comes back after a
\* teardown.
THEOREM TeardownStaysFinal == PageSpec => []TeardownIsFinal
<1>1. SocketInv => TeardownIsFinal
  BY FinalFollows DEF TeardownIsFinal
<1> QED
  BY <1>1, SocketInvAlways, PTL

-----------------------------------------------------------------------------
(* Calls of the strand                                                     *)

\* A call with its fields in order.
CallOf(pc, aborted, user, asst, started, sent, buf, cut, handled) ==
    [pc |-> pc, aborted |-> aborted, user |-> user, asst |-> asst, started |-> started,
     sent |-> sent, buf |-> buf, cut |-> cut, handled |-> handled]

LEMMA CallIs ==
    ASSUME NEW c \in Chat!Call
    PROVE  c = CallOf(c.pc, c.aborted, c.user, c.asst, c.started, c.sent, c.buf, c.cut, c.handled)
BY DEF Chat!Call, CallOf

LEMMA CallFields ==
    ASSUME NEW p, NEW ab, NEW u, NEW a, NEW st, NEW se, NEW bu, NEW cu, NEW h
    PROVE  LET c == CallOf(p, ab, u, a, st, se, bu, cu, h)
           IN  /\ c.pc = p /\ c.aborted = ab /\ c.user = u /\ c.asst = a /\ c.started = st
               /\ c.sent = se /\ c.buf = bu /\ c.cut = cu /\ c.handled = h
BY DEF CallOf

LEMMA HandleIs ==
    ASSUME NEW c \in Chat!Call, NEW frames
    PROVE  Chat!Handle(c, frames) =
              CallOf(c.pc, c.aborted, c.user,
                     IF Chat!Fails(frames) THEN "failed" ELSE c.asst,
                     c.started \/ Chat!Starts(frames), c.sent, c.buf, c.cut,
                     c.handled \o frames)
<1> DEFINE h == c.handled \o frames
           st == c.started \/ Chat!Starts(frames)
           a == IF Chat!Fails(frames) THEN "failed" ELSE c.asst
<1>1. Chat!Handle(c, frames) = [[[c EXCEPT !.handled = h] EXCEPT !.started = st] EXCEPT !.asst = a]
  BY DEF Chat!Handle
<1> HIDE DEF h, st, a
<1> DEFINE c1 == CallOf(c.pc, c.aborted, c.user, c.asst, c.started, c.sent, c.buf, c.cut, h)
           c2 == CallOf(c.pc, c.aborted, c.user, c.asst, st, c.sent, c.buf, c.cut, h)
           c3 == CallOf(c.pc, c.aborted, c.user, a, st, c.sent, c.buf, c.cut, h)
<1>2. [c EXCEPT !.handled = h] = c1
  BY CallIs DEF CallOf
<1>3. [c1 EXCEPT !.started = st] = c2
  BY DEF CallOf
<1>4. [c2 EXCEPT !.asst = a] = c3
  BY DEF CallOf
<1> HIDE DEF c1, c2, c3
<1>5. Chat!Handle(c, frames) = c3
  BY <1>1, <1>2, <1>3, <1>4
<1> QED
  BY <1>5 DEF h, st, a, c3

LEMMA CallTypes ==
    ASSUME NEW p \in {"new", "posting", "reading", "done"}, NEW ab \in BOOLEAN,
           NEW u \in Chat!MessageStatus, NEW a \in Chat!MessageStatus, NEW st \in BOOLEAN,
           NEW se \in Seq(Chat!Frame), NEW bu \in Seq(Chat!Frame), NEW cu \in BOOLEAN,
           NEW h \in Seq(Chat!Frame)
    PROVE  CallOf(p, ab, u, a, st, se, bu, cu, h) \in Chat!Call
BY DEF CallOf, Chat!Call

\* consumeBufferedFrames, frames of the buffer that are whole.
Whole(c) == IF c.cut THEN Len(c.buf) - 1 ELSE Len(c.buf)
Taken(c) == SubSeq(c.buf, 1, Whole(c))
Kept(c) == SubSeq(c.buf, Whole(c) + 1, Len(c.buf))

LEMMA ConsumeIs ==
    ASSUME NEW c \in Chat!Call
    PROVE  Chat!Consume(c) =
              CallOf(c.pc, c.aborted, c.user,
                     IF Chat!Fails(Taken(c)) THEN "failed" ELSE c.asst,
                     c.started \/ Chat!Starts(Taken(c)), c.sent, Kept(c), c.cut,
                     c.handled \o Taken(c))
<1> DEFINE a == IF Chat!Fails(Taken(c)) THEN "failed" ELSE c.asst
           st == c.started \/ Chat!Starts(Taken(c))
           h == c.handled \o Taken(c)
           r == CallOf(c.pc, c.aborted, c.user, a, st, c.sent, c.buf, c.cut, h)
<1>1. Chat!Handle(c, Taken(c)) = r
  BY HandleIs
<1>2. r.buf = c.buf
  BY DEF CallOf
<1>3. Chat!Consume(c) = [r EXCEPT !.buf = Kept(c)]
  <2>1. Chat!Consume(c) = [Chat!Handle(c, Taken(c)) EXCEPT !.buf = SubSeq(@, Whole(c) + 1, Len(@))]
    BY DEF Chat!Consume, Taken, Whole
  <2> HIDE DEF r
  <2> QED
    BY <1>1, <1>2, <2>1 DEF Kept
<1> HIDE DEF a, st, h
<1>4. [r EXCEPT !.buf = Kept(c)]
         = CallOf(c.pc, c.aborted, c.user, a, st, c.sent, Kept(c), c.cut, h)
  BY DEF CallOf
<1> QED
  BY <1>3, <1>4 DEF a, st, h

LEMMA FramesAssociate ==
    ASSUME NEW s \in Seq(Chat!Frame), NEW t \in Seq(Chat!Frame), NEW u \in Seq(Chat!Frame)
    PROVE  (s \o t) \o u = s \o (t \o u)
BY ConcatAssociative

\* A sequence is its first k elements and then the rest.
LEMMA SplitSeq ==
    ASSUME NEW S, NEW q \in Seq(S), NEW k \in 0..Len(q)
    PROVE  /\ SubSeq(q, 1, k) \in Seq(S) /\ SubSeq(q, k + 1, Len(q)) \in Seq(S)
           /\ Len(SubSeq(q, k + 1, Len(q))) = Len(q) - k
           /\ SubSeq(q, 1, k) \o SubSeq(q, k + 1, Len(q)) = q
<1> DEFINE a == SubSeq(q, 1, k)
           b == SubSeq(q, k + 1, Len(q))
<1>0. Len(q) \in Nat /\ k \in Int /\ \A i \in 1..Len(q) : q[i] \in S
  OBVIOUS
<1>1. a \in Seq(S) /\ Len(a) = k /\ \A i \in 1..k : a[i] = q[i]
  BY <1>0, SubSeqProperties
<1>2. b \in Seq(S) /\ Len(b) = Len(q) - k /\ \A i \in 1..(Len(q) - k) : b[i] = q[k + i]
  BY <1>0, SubSeqProperties
<1> HIDE DEF a, b
<1>3. /\ a \o b \in Seq(S) /\ Len(a \o b) = Len(q)
      /\ \A i \in 1..Len(q) : (a \o b)[i] = q[i]
  <2>1. /\ a \o b \in Seq(S) /\ Len(a \o b) = Len(a) + Len(b)
        /\ \A i \in 1..(Len(a) + Len(b)) :
              (a \o b)[i] = IF i <= Len(a) THEN a[i] ELSE b[i - Len(a)]
    BY <1>1, <1>2, ConcatProperties
  <2>2. Len(a) + Len(b) = Len(q)
    BY <1>0, <1>1, <1>2
  <2>3. ASSUME NEW i \in 1..Len(q) PROVE (IF i <= k THEN a[i] ELSE b[i - k]) = q[i]
    <3>1. CASE i <= k
      BY <1>1, <3>1
    <3>2. CASE ~(i <= k)
      <4>1. i - k \in 1..(Len(q) - k) /\ k + (i - k) = i
        BY <1>0, <3>2
      <4> QED
        BY <1>2, <3>2, <4>1
    <3> QED
      BY <3>1, <3>2
  <2> QED
    BY <1>1, <2>1, <2>2, <2>3
<1>4. a \o b = q
  BY <1>3, SeqEqual
<1> QED
  BY <1>1, <1>2, <1>4 DEF a, b

\* What comes before a last element that is replaced.
LEMMA ReplaceLast ==
    ASSUME NEW S, NEW h \in Seq(S), NEW b \in Seq(S), Len(b) = 1
    PROVE  SubSeq(h \o b, 1, Len(h \o b) - 1) = h
<1>1. h \o b \in Seq(S) /\ Len(h \o b) = Len(h) + 1 /\ \A i \in 1..Len(h) : (h \o b)[i] = h[i]
  <2>1. /\ h \o b \in Seq(S) /\ Len(h \o b) = Len(h) + Len(b)
        /\ \A i \in 1..(Len(h) + Len(b)) :
              (h \o b)[i] = IF i <= Len(h) THEN h[i] ELSE b[i - Len(h)]
    BY ConcatProperties
  <2>2. Len(h) \in Nat
    OBVIOUS
  <2> QED
    BY <2>1, <2>2
<1> DEFINE a == SubSeq(h \o b, 1, Len(h))
<1>2. a \in Seq(S) /\ Len(a) = Len(h) /\ \A i \in 1..Len(h) : a[i] = h[i]
  BY <1>1, SubSeqProperties, \A i \in 1..Len(h) : h[i] \in S
<1> HIDE DEF a
<1>3. a = h
  BY <1>2, SeqEqual
<1> QED
  BY <1>1, <1>3 DEF a

-----------------------------------------------------------------------------
(* The invariant of the strand                                             *)

\* What a call has handled and what it holds is what arrived.
CallGood(c) ==
    /\ c.pc \in {"new", "posting"} =>
           c.sent = <<>> /\ c.buf = <<>> /\ c.handled = <<>> /\ c.cut = FALSE
    /\ c.pc = "reading" => /\ c.sent = c.handled \o c.buf
                           /\ Len(c.buf) = IF c.cut THEN 1 ELSE 0
    /\ c.asst = "delivered" => c.pc = "done" /\ c.handled = c.sent

Live(c) == c.pc \in {"posting", "reading"}

\* As long as no two sends overlapped, the one that goes on can be aborted, or was.
SoleSend ==
    overlapped = FALSE =>
        \A s \in Sends : Live(req[s]) =>
            /\ req[s].aborted = TRUE \/ asking = {s}
            /\ \A o \in Sends : Live(req[o]) => o = s

Torn ==
    overlapped = FALSE /\ thread = FALSE =>
        messages = <<>> /\ \A s \in Sends : Live(req[s]) => req[s].aborted = TRUE

ChatInv ==
    /\ Chat!TypeOK
    /\ \A s \in Sends : CallGood(req[s])
    /\ SoleSend /\ Torn
    /\ booted = FALSE => thread = FALSE

\* A call whose fields but aborted stay.
LEMMA CallTyped ==
    ASSUME NEW c \in Chat!Call
    PROVE  /\ c.pc \in {"new", "posting", "reading", "done"} /\ c.aborted \in BOOLEAN
           /\ c.user \in Chat!MessageStatus /\ c.asst \in Chat!MessageStatus
           /\ c.started \in BOOLEAN /\ c.sent \in Seq(Chat!Frame) /\ c.buf \in Seq(Chat!Frame)
           /\ c.cut \in BOOLEAN /\ c.handled \in Seq(Chat!Frame)
BY DEF Chat!Call

\* One chunk, taken as far as it is whole.
LEMMA ReadGood ==
    ASSUME NEW c \in Chat!Call, CallGood(c), c.pc = "reading",
           NEW new \in Seq(Chat!Frame), NEW cut \in BOOLEAN,
           cut => Len(c.buf \o new) > 0
    PROVE  LET d == Chat!Receive(c, new, cut)
           IN  d \in Chat!Call /\ CallGood(d) /\ d.pc = "reading" /\ d.aborted = c.aborted
<1> DEFINE bu == c.buf \o new
           se == c.sent \o new
           e == CallOf(c.pc, c.aborted, c.user, c.asst, c.started, se, bu, cut, c.handled)
<1>1. [c EXCEPT !.buf = @ \o new, !.sent = @ \o new, !.cut = cut] = e
  <2> DEFINE e1 == CallOf(c.pc, c.aborted, c.user, c.asst, c.started, c.sent, bu, c.cut, c.handled)
             e2 == CallOf(c.pc, c.aborted, c.user, c.asst, c.started, se, bu, c.cut, c.handled)
  <2>1. [c EXCEPT !.buf = @ \o new, !.sent = @ \o new, !.cut = cut]
           = [[[c EXCEPT !.buf = bu] EXCEPT !.sent = se] EXCEPT !.cut = cut]
    OBVIOUS
  <2> HIDE DEF bu, se
  <2>2. [c EXCEPT !.buf = bu] = e1
    BY CallIs DEF CallOf
  <2>3. [e1 EXCEPT !.sent = se] = e2
    BY DEF CallOf
  <2>4. [e2 EXCEPT !.cut = cut] = e
    BY DEF CallOf
  <2> HIDE DEF e, e1, e2
  <2> QED
    BY <2>1, <2>2, <2>3, <2>4
<1>2. bu \in Seq(Chat!Frame) /\ se \in Seq(Chat!Frame)
  BY CallTyped
<1>3. se = c.handled \o bu
  <2>1. c.sent = c.handled \o c.buf /\ c.handled \in Seq(Chat!Frame) /\ c.buf \in Seq(Chat!Frame)
    BY CallTyped DEF CallGood
  <2>2. (c.handled \o c.buf) \o new = c.handled \o (c.buf \o new)
    BY <2>1, CallTyped, FramesAssociate
  <2> QED
    BY <2>1, <2>2
<1>4. cut => Len(bu) >= 1
  BY <1>2
<1> HIDE DEF bu, se
<1>5. e \in Chat!Call
  <2>1. /\ c.pc \in {"new", "posting", "reading", "done"} /\ c.aborted \in BOOLEAN
        /\ c.user \in Chat!MessageStatus /\ c.asst \in Chat!MessageStatus
        /\ c.started \in BOOLEAN /\ se \in Seq(Chat!Frame) /\ bu \in Seq(Chat!Frame)
        /\ cut \in BOOLEAN /\ c.handled \in Seq(Chat!Frame)
    BY <1>2, CallTyped
  <2> QED
    BY <2>1, CallTypes
<1>6. /\ e.pc = "reading" /\ e.aborted = c.aborted /\ e.user = c.user /\ e.asst = c.asst
      /\ e.started = c.started /\ e.sent = se /\ e.buf = bu /\ e.cut = cut
      /\ e.handled = c.handled
  BY CallFields
<1> HIDE DEF e
<1> DEFINE k == Whole(e)
           a == IF Chat!Fails(Taken(e)) THEN "failed" ELSE e.asst
           st == e.started \/ Chat!Starts(Taken(e))
           h == e.handled \o Taken(e)
           d == CallOf(e.pc, e.aborted, e.user, a, st, e.sent, Kept(e), e.cut, h)
<1>7. k \in 0..Len(bu) /\ Len(bu) - k = IF cut THEN 1 ELSE 0
  BY <1>2, <1>4, <1>6 DEF Whole
<1>8. /\ Taken(e) \in Seq(Chat!Frame) /\ Kept(e) \in Seq(Chat!Frame)
      /\ Len(Kept(e)) = IF cut THEN 1 ELSE 0
      /\ Taken(e) \o Kept(e) = bu
  <2>1. Taken(e) = SubSeq(bu, 1, k) /\ Kept(e) = SubSeq(bu, k + 1, Len(bu))
    BY <1>6 DEF Taken, Kept
  <2> HIDE DEF k
  <2> QED
    BY <1>2, <1>7, <2>1, SplitSeq
<1>9. h \in Seq(Chat!Frame) /\ se = h \o Kept(e)
  <2>1. c.handled \in Seq(Chat!Frame)
    BY CallTyped
  <2>2. (c.handled \o Taken(e)) \o Kept(e) = c.handled \o (Taken(e) \o Kept(e))
    BY <1>8, <2>1, FramesAssociate, Zenon
  <2>3. c.handled \o Taken(e) \in Seq(Chat!Frame)
    BY <1>8, <2>1
  <2> QED
    BY <1>3, <1>6, <1>8, <2>2, <2>3
<1>10. a \in Chat!MessageStatus /\ a # "delivered" /\ st \in BOOLEAN
  BY <1>6, CallTyped DEF CallGood, Chat!MessageStatus
<1>11. Chat!Consume(e) = d
  BY <1>5, ConsumeIs
<1> HIDE DEF a, st, h
<1>12. d \in Chat!Call
  <2>1. /\ e.pc \in {"new", "posting", "reading", "done"} /\ e.aborted \in BOOLEAN
        /\ e.user \in Chat!MessageStatus /\ e.cut \in BOOLEAN /\ e.sent \in Seq(Chat!Frame)
    BY <1>5, CallTyped
  <2>2. /\ a \in Chat!MessageStatus /\ st \in BOOLEAN /\ h \in Seq(Chat!Frame)
        /\ Kept(e) \in Seq(Chat!Frame)
    BY <1>8, <1>9, <1>10
  <2> QED
    BY <2>1, <2>2, CallTypes
<1>13. /\ d.pc = "reading" /\ d.aborted = c.aborted /\ d.asst = a /\ d.sent = se
       /\ d.buf = Kept(e) /\ d.cut = cut /\ d.handled = h
  BY <1>6, CallFields
<1> HIDE DEF d
<1>14. CallGood(d)
  BY <1>8, <1>9, <1>10, <1>13 DEF CallGood
<1>15. Chat!Receive(c, new, cut) = d
  BY <1>1, <1>11 DEF Chat!Receive
<1> QED
  BY <1>12, <1>13, <1>14, <1>15

\* The end of the stream: what is left is a frame too, whole or torn.
LEMMA EndGood ==
    ASSUME NEW b \in Chat!Call, CallGood(b), b.pc = "reading",
           NEW torn \in IF b.cut THEN BOOLEAN ELSE {FALSE}
    PROVE  LET c == IF torn THEN [b EXCEPT !.buf = <<"idle">>,
                                     !.sent = SubSeq(@, 1, Len(@) - 1) \o <<"idle">>]
                    ELSE b
               d == Chat!Finish(Chat!Flush(c))
           IN  d \in Chat!Call /\ CallGood(d) /\ d.pc = "done"
<1> DEFINE c == IF torn THEN [b EXCEPT !.buf = <<"idle">>,
                                !.sent = SubSeq(@, 1, Len(@) - 1) \o <<"idle">>]
                ELSE b
<1>1. c \in Chat!Call /\ c.sent = c.handled \o c.buf /\ c.asst # "delivered"
  <2>0. /\ b.sent = b.handled \o b.buf /\ Len(b.buf) = (IF b.cut THEN 1 ELSE 0)
        /\ b.asst # "delivered"
    BY DEF CallGood
  <2>1. CASE torn = TRUE
    <3>1. b.cut /\ Len(b.buf) = 1
      BY <2>0, <2>1
    <3> DEFINE idle == <<"idle">>
               se == SubSeq(b.sent, 1, Len(b.sent) - 1) \o idle
               c1 == CallOf(b.pc, b.aborted, b.user, b.asst, b.started, b.sent, idle, b.cut, b.handled)
               c2 == CallOf(b.pc, b.aborted, b.user, b.asst, b.started, se, idle, b.cut, b.handled)
    <3>2. c = [[b EXCEPT !.buf = idle] EXCEPT !.sent = se]
      BY <2>1
    <3>3. idle \in Seq(Chat!Frame)
      BY DEF Chat!Frame
    <3>4. se = b.handled \o idle
      <4>1. b.handled \in Seq(Chat!Frame) /\ b.buf \in Seq(Chat!Frame)
        BY CallTyped
      <4>2. SubSeq(b.handled \o b.buf, 1, Len(b.handled \o b.buf) - 1) = b.handled
        BY <3>1, <4>1, ReplaceLast
      <4> QED
        BY <2>0, <4>2
    <3> HIDE DEF idle, se, c
    <3>5. [b EXCEPT !.buf = idle] = c1
      BY CallIs DEF CallOf
    <3>6. [c1 EXCEPT !.sent = se] = c2
      BY DEF CallOf
    <3>7. c = c2
      <4> HIDE DEF c1, c2
      <4> QED
        BY <3>2, <3>5, <3>6
    <3>8. se \in Seq(Chat!Frame)
      BY <3>3, <3>4, CallTyped
    <3>9. c2 \in Chat!Call
      <4>1. /\ b.pc \in {"new", "posting", "reading", "done"} /\ b.aborted \in BOOLEAN
            /\ b.user \in Chat!MessageStatus /\ b.asst \in Chat!MessageStatus
            /\ b.started \in BOOLEAN /\ b.cut \in BOOLEAN /\ b.sent \in Seq(Chat!Frame)
            /\ b.buf \in Seq(Chat!Frame) /\ b.handled \in Seq(Chat!Frame)
        BY CallTyped
      <4> QED
        BY <3>3, <3>8, <4>1, CallTypes
    <3>10. c2.sent = se /\ c2.handled = b.handled /\ c2.buf = idle /\ c2.asst = b.asst
      BY CallFields
    <3> HIDE DEF c2
    <3> QED
      BY <2>0, <3>4, <3>7, <3>9, <3>10
  <2>2. CASE torn = FALSE
    BY <2>0, <2>2
  <2> QED
    BY <2>1, <2>2
<1> HIDE DEF c
<1> DEFINE a == IF Chat!Fails(c.buf) THEN "failed" ELSE c.asst
           st == c.started \/ Chat!Starts(c.buf)
           h == c.handled \o c.buf
           r == CallOf(c.pc, c.aborted, c.user, a, st, c.sent, c.buf, c.cut, h)
           nil == <<>>
           no == FALSE
           fa == IF st THEN "delivered" ELSE a
           r1 == CallOf(c.pc, c.aborted, c.user, a, st, c.sent, nil, c.cut, h)
           r2 == CallOf(c.pc, c.aborted, c.user, a, st, c.sent, nil, no, h)
           d1 == CallOf("done", c.aborted, c.user, a, st, c.sent, nil, no, h)
           d == CallOf("done", c.aborted, c.user, fa, st, c.sent, nil, no, h)
<1>2. Chat!Handle(c, c.buf) = r
  BY <1>1, HandleIs
<1>3. /\ h = c.sent /\ h \in Seq(Chat!Frame)
      /\ a \in Chat!MessageStatus /\ st \in BOOLEAN /\ fa \in Chat!MessageStatus
      /\ nil \in Seq(Chat!Frame) /\ no \in BOOLEAN
  BY <1>1, CallTyped DEF Chat!MessageStatus
<1> HIDE DEF a, st, h
<1>4. Chat!Flush(c) = [[r EXCEPT !.buf = nil] EXCEPT !.cut = no]
  <2> HIDE DEF r
  <2> QED
    BY <1>2 DEF Chat!Flush
<1> HIDE DEF nil, no
<1>5. [r EXCEPT !.buf = nil] = r1 /\ [r1 EXCEPT !.cut = no] = r2
  BY DEF CallOf
<1>6. Chat!Flush(c) = r2
  <2> HIDE DEF r, r1, r2
  <2> QED
    BY <1>4, <1>5
<1>7. r2.started = st /\ r2.asst = a
  BY DEF CallOf
<1>8. Chat!Finish(r2) = [[r2 EXCEPT !.pc = "done"] EXCEPT !.asst = fa]
  <2> HIDE DEF r2
  <2> QED
    BY <1>7 DEF Chat!Finish
<1>9. [r2 EXCEPT !.pc = "done"] = d1 /\ [d1 EXCEPT !.asst = fa] = d
  <2> HIDE DEF fa
  <2> QED
    BY DEF CallOf
<1>10. Chat!Finish(Chat!Flush(c)) = d
  <2> HIDE DEF r2, d1, d, fa
  <2> QED
    BY <1>6, <1>8, <1>9
<1> HIDE DEF fa
<1>11. d \in Chat!Call
  <2>1. c.aborted \in BOOLEAN /\ c.user \in Chat!MessageStatus /\ c.sent \in Seq(Chat!Frame)
    BY <1>1, CallTyped
  <2>2. /\ "done" \in {"new", "posting", "reading", "done"} /\ c.aborted \in BOOLEAN
        /\ c.user \in Chat!MessageStatus /\ fa \in Chat!MessageStatus /\ st \in BOOLEAN
        /\ c.sent \in Seq(Chat!Frame) /\ nil \in Seq(Chat!Frame) /\ no \in BOOLEAN
        /\ h \in Seq(Chat!Frame)
    BY <1>3, <2>1
  <2> QED
    BY <2>2, CallTypes
<1>12. d.pc = "done" /\ d.sent = c.sent /\ d.handled = h
  BY DEF CallOf
<1> HIDE DEF d
<1>13. CallGood(d)
  BY <1>3, <1>12 DEF CallGood
<1> QED
  BY <1>10, <1>11, <1>12, <1>13 DEF c

\* The change of one call.
LEMMA ReqWrite ==
    ASSUME ChatInv, NEW s \in Sends, NEW d \in Chat!Call, CallGood(d),
           req' = [req EXCEPT ![s] = d]
    PROVE  /\ req' \in [Sends -> Chat!Call]
           /\ \A o \in Sends : CallGood(req'[o])
           /\ req'[s] = d /\ \A o \in Sends : o # s => req'[o] = req[o]
BY DEF ChatInv, Chat!TypeOK

LEMMA ShownType ==
    ASSUME Chat!TypeOK, NEW s \in Sends, NEW b, NEW a
    PROVE  Chat!Shown(s, b, a) \in Seq(Sends \X {"user", "assistant"})
<1>1. <<s, "assistant">> \in Sends \X {"user", "assistant"}
  OBVIOUS
<1> QED
  BY <1>1 DEF Chat!Shown, Chat!TypeOK

\* A call that goes on, and is not aborted, shows what it likes.
LEMMA OngoingKept ==
    ASSUME ChatInv, NEW s \in Sends, NEW d \in Chat!Call, CallGood(d),
           req' = [req EXCEPT ![s] = d], Live(req[s]), Live(d), d.aborted = req[s].aborted,
           req[s].aborted = FALSE,
           messages' \in Seq(Sends \X {"user", "assistant"}),
           UNCHANGED <<booted, thread, asking, overlapped>>
    PROVE  ChatInv'
<1>1. /\ req' \in [Sends -> Chat!Call]
      /\ \A o \in Sends : CallGood(req'[o])
      /\ req'[s] = d /\ \A o \in Sends : o # s => req'[o] = req[o]
  BY ReqWrite
<1>2. \A o \in Sends : (Live(req'[o]) <=> Live(req[o])) /\ req'[o].aborted = req[o].aborted
  BY <1>1
<1>3. Chat!TypeOK'
  BY <1>1 DEF ChatInv, Chat!TypeOK
<1>4. SoleSend' /\ (booted = FALSE => thread = FALSE)'
  BY <1>2 DEF ChatInv, SoleSend
<1>5. Torn'
  BY <1>2 DEF ChatInv, Torn
<1> QED
  BY <1>1, <1>3, <1>4, <1>5 DEF ChatInv

\* A call that is over leaves no other going on, unless sends overlapped.
LEMMA OverKept ==
    ASSUME ChatInv, NEW s \in Sends, NEW d \in Chat!Call, CallGood(d),
           req' = [req EXCEPT ![s] = d], Live(req[s]), d.pc = "done",
           messages' \in Seq(Sends \X {"user", "assistant"}),
           req[s].aborted = FALSE \/ messages' = messages,
           asking' = {}, UNCHANGED <<booted, thread, overlapped>>
    PROVE  ChatInv'
<1>1. /\ req' \in [Sends -> Chat!Call]
      /\ \A o \in Sends : CallGood(req'[o])
      /\ req'[s] = d /\ \A o \in Sends : o # s => req'[o] = req[o]
  BY ReqWrite
<1>2. overlapped = FALSE => \A o \in Sends : ~Live(req'[o])
  BY <1>1 DEF ChatInv, SoleSend, Live
<1>3. Chat!TypeOK'
  BY <1>1 DEF ChatInv, Chat!TypeOK
<1>4. SoleSend' /\ (booted = FALSE => thread = FALSE)'
  BY <1>2 DEF ChatInv, SoleSend
<1>5. Torn'
  BY <1>2 DEF ChatInv, Torn
<1> QED
  BY <1>1, <1>3, <1>4, <1>5 DEF ChatInv

LEMMA SendKept == ASSUME ChatInv, NEW s \in Sends, Chat!Send(s) PROVE ChatInv'
<1> DEFINE c == req[s]
           d == CallOf("posting", c.aborted, c.user, c.asst, c.started, c.sent, c.buf, c.cut,
                       c.handled)
<1>0. /\ thread /\ req[s].pc = "new" /\ asking' = {s} /\ UNCHANGED <<booted, thread>>
      /\ messages' = Append(messages, <<s, "user">>)
      /\ overlapped' = (overlapped \/ \E o \in Sends : Chat!Ongoing(o))
      /\ c \in Chat!Call /\ CallGood(c)
  BY DEF Chat!Send, ChatInv, Chat!TypeOK
<1>1. req' = [req EXCEPT ![s] = d]
  <2>1. req' = [req EXCEPT ![s] = [c EXCEPT !.pc = "posting"]]
    BY DEF Chat!Send
  <2>2. [c EXCEPT !.pc = "posting"] = d
    BY <1>0, CallIs DEF CallOf
  <2> HIDE DEF d
  <2> QED
    BY <2>1, <2>2
<1>2. d \in Chat!Call
  <2> HIDE DEF c
  <2>1. /\ "posting" \in {"new", "posting", "reading", "done"} /\ c.aborted \in BOOLEAN
        /\ c.user \in Chat!MessageStatus /\ c.asst \in Chat!MessageStatus
        /\ c.started \in BOOLEAN /\ c.cut \in BOOLEAN /\ c.sent \in Seq(Chat!Frame)
        /\ c.buf \in Seq(Chat!Frame) /\ c.handled \in Seq(Chat!Frame)
    BY <1>0, CallTyped
  <2> QED
    BY <2>1, CallTypes
<1>3. /\ d.pc = "posting" /\ d.asst = c.asst /\ d.sent = c.sent /\ d.buf = c.buf
      /\ d.cut = c.cut /\ d.handled = c.handled
  BY DEF CallOf
<1> HIDE DEF d
<1>4. CallGood(d)
  BY <1>0, <1>3 DEF CallGood
<1>5. /\ req' \in [Sends -> Chat!Call]
      /\ \A o \in Sends : CallGood(req'[o])
      /\ req'[s] = d /\ \A o \in Sends : o # s => req'[o] = req[o]
  BY <1>1, <1>2, <1>4, ReqWrite
<1>6. overlapped' = FALSE => \A o \in Sends : ~Live(req[o])
  BY <1>0 DEF Chat!Ongoing, Live
<1>7. Chat!TypeOK'
  <2>1. messages' \in Seq(Sends \X {"user", "assistant"})
    <3>1. <<s, "user">> \in Sends \X {"user", "assistant"}
      OBVIOUS
    <3> QED
      BY <1>0, <3>1 DEF ChatInv, Chat!TypeOK
  <2>2. overlapped' \in BOOLEAN
    BY <1>0 DEF ChatInv, Chat!TypeOK
  <2>3. booted' \in BOOLEAN /\ thread' \in BOOLEAN /\ asking' \subseteq Sends
    BY <1>0 DEF ChatInv, Chat!TypeOK
  <2> QED
    BY <1>5, <2>1, <2>2, <2>3 DEF Chat!TypeOK
<1>8. SoleSend' /\ (booted = FALSE => thread = FALSE)'
  BY <1>0, <1>5, <1>6 DEF ChatInv, SoleSend
<1>9. Torn'
  BY <1>0 DEF Torn
<1> QED
  BY <1>5, <1>7, <1>8, <1>9 DEF ChatInv

LEMMA AcceptedKept == ASSUME ChatInv, NEW s \in Sends, Chat!Accepted(s) PROVE ChatInv'
<1> DEFINE c == req[s]
           d1 == CallOf("reading", c.aborted, c.user, c.asst, c.started, c.sent, c.buf, c.cut,
                        c.handled)
           d == CallOf("reading", c.aborted, "delivered", c.asst, c.started, c.sent, c.buf,
                       c.cut, c.handled)
<1>0. /\ c.pc = "posting" /\ c \in Chat!Call /\ CallGood(c) /\ c.aborted \in BOOLEAN
      /\ ~c.aborted /\ UNCHANGED <<booted, thread, messages, asking, overlapped>>
  BY CallTyped DEF Chat!Accepted, ChatInv, Chat!TypeOK
<1>1. req' = [req EXCEPT ![s] = d]
  <2>1. req' = [req EXCEPT ![s] = [[c EXCEPT !.pc = "reading"] EXCEPT !.user = "delivered"]]
    BY DEF Chat!Accepted, ChatInv, Chat!TypeOK
  <2>2. [c EXCEPT !.pc = "reading"] = d1
    BY <1>0, CallIs DEF CallOf
  <2>3. [d1 EXCEPT !.user = "delivered"] = d
    BY DEF CallOf
  <2> HIDE DEF d1, d
  <2> QED
    BY <2>1, <2>2, <2>3
<1>2. d \in Chat!Call
  <2> HIDE DEF c
  <2>1. "delivered" \in Chat!MessageStatus
    BY DEF Chat!MessageStatus
  <2>2. /\ "reading" \in {"new", "posting", "reading", "done"} /\ c.aborted \in BOOLEAN
        /\ "delivered" \in Chat!MessageStatus /\ c.asst \in Chat!MessageStatus
        /\ c.started \in BOOLEAN /\ c.cut \in BOOLEAN /\ c.sent \in Seq(Chat!Frame)
        /\ c.buf \in Seq(Chat!Frame) /\ c.handled \in Seq(Chat!Frame)
    BY <1>0, <2>1, CallTyped
  <2> QED
    BY <2>2, CallTypes
<1>3. /\ d.pc = "reading" /\ d.aborted = c.aborted /\ d.asst = c.asst /\ d.sent = c.sent
      /\ d.buf = c.buf /\ d.cut = c.cut /\ d.handled = c.handled
  BY DEF CallOf
<1> HIDE DEF d
<1>4. CallGood(d)
  <2>1. c.sent = <<>> /\ c.buf = <<>> /\ c.handled = <<>> /\ c.cut = FALSE /\ c.asst # "delivered"
    BY <1>0 DEF CallGood
  <2>2. <<>> = <<>> \o <<>> /\ Len(<<>>) = 0
    OBVIOUS
  <2>3. d.sent = d.handled \o d.buf /\ Len(d.buf) = (IF d.cut THEN 1 ELSE 0)
    BY <1>3, <2>1, <2>2
  <2> QED
    BY <1>3, <2>1, <2>3 DEF CallGood
<1>5. messages' \in Seq(Sends \X {"user", "assistant"})
  BY <1>0 DEF ChatInv, Chat!TypeOK
<1> QED
  BY <1>0, <1>1, <1>2, <1>3, <1>4, <1>5, OngoingKept DEF Live

LEMMA ReadKept == ASSUME ChatInv, NEW s \in Sends, Chat!Read(s) PROVE ChatInv'
<1> DEFINE c == req[s]
<1>0. /\ c.pc = "reading" /\ c \in Chat!Call /\ CallGood(c) /\ c.aborted \in BOOLEAN
      /\ ~c.aborted /\ UNCHANGED <<booted, thread, asking, overlapped>>
  BY CallTyped DEF Chat!Read, ChatInv, Chat!TypeOK
<1>1. PICK n \in 0..2 : \E new \in [1..n -> Chat!Frame], cut \in BOOLEAN :
         /\ cut => Len(c.buf \o new) > 0
         /\ req' = [req EXCEPT ![s] = Chat!Receive(c, new, cut)]
         /\ messages' = Chat!Shown(s, c, Chat!Receive(c, new, cut))
  BY DEF Chat!Read
<1> PICK new \in [1..n -> Chat!Frame], cut \in BOOLEAN :
         /\ cut => Len(c.buf \o new) > 0
         /\ req' = [req EXCEPT ![s] = Chat!Receive(c, new, cut)]
         /\ messages' = Chat!Shown(s, c, Chat!Receive(c, new, cut))
  BY <1>1
<1> DEFINE d == Chat!Receive(c, new, cut)
<1>2. req' = [req EXCEPT ![s] = d] /\ messages' = Chat!Shown(s, c, d)
  OBVIOUS
<1>3. new \in Seq(Chat!Frame) /\ (cut => Len(c.buf \o new) > 0)
  OBVIOUS
<1>4. d \in Chat!Call /\ CallGood(d) /\ d.pc = "reading" /\ d.aborted = c.aborted
  BY <1>0, <1>3, ReadGood
<1> HIDE DEF d
<1>5. messages' \in Seq(Sends \X {"user", "assistant"})
  BY <1>2, ShownType DEF ChatInv
<1> QED
  BY <1>0, <1>2, <1>4, <1>5, OngoingKept DEF Live

LEMMA EndsKept == ASSUME ChatInv, NEW s \in Sends, Chat!StreamEnds(s) PROVE ChatInv'
<1> DEFINE b == req[s]
<1>0. /\ b.pc = "reading" /\ b \in Chat!Call /\ CallGood(b) /\ b.aborted \in BOOLEAN
      /\ ~b.aborted /\ asking' = {} /\ UNCHANGED <<booted, thread, overlapped>>
  BY CallTyped DEF Chat!StreamEnds, ChatInv, Chat!TypeOK
<1>1. PICK torn \in IF b.cut THEN BOOLEAN ELSE {FALSE} :
         LET c    == IF torn THEN [b EXCEPT !.buf = <<"idle">>,
                                     !.sent = SubSeq(@, 1, Len(@) - 1) \o <<"idle">>]
                     ELSE b
             read == Chat!Flush(c)
         IN  /\ req' = [req EXCEPT ![s] = Chat!Finish(read)]
             /\ messages' = Chat!Shown(s, c, read)
  BY DEF Chat!StreamEnds
<1> DEFINE c == IF torn THEN [b EXCEPT !.buf = <<"idle">>,
                                !.sent = SubSeq(@, 1, Len(@) - 1) \o <<"idle">>]
                ELSE b
           d == Chat!Finish(Chat!Flush(c))
<1>2. req' = [req EXCEPT ![s] = d] /\ messages' = Chat!Shown(s, c, Chat!Flush(c))
  BY <1>1
<1>3. d \in Chat!Call /\ CallGood(d) /\ d.pc = "done"
  BY <1>0, EndGood
<1> HIDE DEF c, d
<1>4. messages' \in Seq(Sends \X {"user", "assistant"})
  BY <1>2, ShownType DEF ChatInv
<1> QED
  BY <1>0, <1>2, <1>3, <1>4, OverKept DEF Live

LEMMA BreaksKept == ASSUME ChatInv, NEW s \in Sends, Chat!Breaks(s) PROVE ChatInv'
<1> DEFINE c == req[s]
           a == IF c.started THEN "failed" ELSE c.asst
           d1 == CallOf("done", c.aborted, c.user, c.asst, c.started, c.sent, c.buf, c.cut,
                        c.handled)
           d2 == CallOf("done", c.aborted, "failed", c.asst, c.started, c.sent, c.buf, c.cut,
                        c.handled)
           d == CallOf("done", c.aborted, "failed", a, c.started, c.sent, c.buf, c.cut,
                       c.handled)
<1>0. /\ Live(c) /\ c \in Chat!Call /\ CallGood(c)
      /\ asking' = {} /\ UNCHANGED <<booted, thread, messages, overlapped>>
  BY DEF Chat!Breaks, Chat!Ongoing, Live, ChatInv, Chat!TypeOK
<1>1. req' = [req EXCEPT ![s] = d]
  <2>1. req' = [req EXCEPT ![s] = Chat!Failed(c)]
    BY DEF Chat!Breaks
  <2>2. Chat!Failed(c) = [[[c EXCEPT !.pc = "done"] EXCEPT !.user = "failed"] EXCEPT !.asst = a]
    BY DEF Chat!Failed
  <2> HIDE DEF a
  <2>3. [c EXCEPT !.pc = "done"] = d1
    BY <1>0, CallIs DEF CallOf
  <2>4. [d1 EXCEPT !.user = "failed"] = d2
    BY DEF CallOf
  <2>5. [d2 EXCEPT !.asst = a] = d
    BY DEF CallOf
  <2> HIDE DEF d1, d2, d
  <2> QED
    BY <2>1, <2>2, <2>3, <2>4, <2>5
<1>2. a \in Chat!MessageStatus /\ "failed" \in Chat!MessageStatus /\ a # "delivered"
  BY <1>0, CallTyped DEF Chat!MessageStatus, CallGood, Live
<1> HIDE DEF a
<1>3. d \in Chat!Call
  <2> HIDE DEF c
  <2>1. /\ "done" \in {"new", "posting", "reading", "done"} /\ c.aborted \in BOOLEAN
        /\ "failed" \in Chat!MessageStatus /\ a \in Chat!MessageStatus
        /\ c.started \in BOOLEAN /\ c.cut \in BOOLEAN /\ c.sent \in Seq(Chat!Frame)
        /\ c.buf \in Seq(Chat!Frame) /\ c.handled \in Seq(Chat!Frame)
    BY <1>0, <1>2, CallTyped
  <2> QED
    BY <2>1, CallTypes
<1>4. d.pc = "done" /\ d.asst = a
  BY DEF CallOf
<1> HIDE DEF d
<1>5. CallGood(d)
  BY <1>2, <1>4 DEF CallGood
<1>6. messages' \in Seq(Sends \X {"user", "assistant"})
  BY <1>0 DEF ChatInv, Chat!TypeOK
<1> QED
  BY <1>0, <1>1, <1>3, <1>4, <1>5, <1>6, OverKept

\* A teardown aborts the send it knows of.
LEMMA TornKept == ASSUME ChatInv, Chat!Teardown PROVE ChatInv'
<1>0. /\ booted /\ thread' = FALSE /\ messages' = <<>> /\ asking' = {}
      /\ UNCHANGED <<booted, overlapped>>
      /\ req' = [s \in Sends |-> IF s \in asking THEN [req[s] EXCEPT !.aborted = TRUE]
                                 ELSE req[s]]
  BY DEF Chat!Teardown
<1>1. ASSUME NEW s \in Sends
      PROVE  /\ req'[s] \in Chat!Call /\ CallGood(req'[s])
             /\ Live(req'[s]) => Live(req[s])
             /\ s \in asking \/ req[s].aborted = TRUE => req'[s].aborted = TRUE
  <2> DEFINE c == req[s]
             yes == TRUE
             d == CallOf(c.pc, yes, c.user, c.asst, c.started, c.sent, c.buf, c.cut, c.handled)
  <2>0. c \in Chat!Call /\ CallGood(c)
    BY DEF ChatInv, Chat!TypeOK
  <2>1. yes = TRUE /\ yes \in BOOLEAN
    OBVIOUS
  <2>2. s \in asking => req'[s] = [c EXCEPT !.aborted = yes]
    BY <1>0
  <2>3. s \notin asking => req'[s] = c
    BY <1>0
  <2> HIDE DEF yes
  <2>4. [c EXCEPT !.aborted = yes] = d
    BY <2>0, CallIs DEF CallOf
  <2>5. d \in Chat!Call
    <3> HIDE DEF c
    <3>1. /\ c.pc \in {"new", "posting", "reading", "done"} /\ yes \in BOOLEAN
          /\ c.user \in Chat!MessageStatus /\ c.asst \in Chat!MessageStatus
          /\ c.started \in BOOLEAN /\ c.cut \in BOOLEAN /\ c.sent \in Seq(Chat!Frame)
          /\ c.buf \in Seq(Chat!Frame) /\ c.handled \in Seq(Chat!Frame)
      BY <2>0, <2>1, CallTyped
    <3> QED
      BY <3>1, CallTypes
  <2>6. /\ d.pc = c.pc /\ d.aborted = yes /\ d.asst = c.asst /\ d.sent = c.sent
        /\ d.buf = c.buf /\ d.cut = c.cut /\ d.handled = c.handled
    BY DEF CallOf
  <2> HIDE DEF d
  <2>7. CallGood(d)
    BY <2>0, <2>6 DEF CallGood
  <2> QED
    BY <2>0, <2>1, <2>2, <2>3, <2>4, <2>5, <2>6, <2>7 DEF Live
<1>2. Chat!TypeOK'
  <2>1. req' \in [Sends -> Chat!Call]
    BY <1>0, <1>1
  <2>2. thread' \in BOOLEAN
    BY <1>0
  <2>3. booted' \in BOOLEAN /\ overlapped' \in BOOLEAN /\ asking' \subseteq Sends
    BY <1>0 DEF ChatInv, Chat!TypeOK
  <2>4. messages' \in Seq(Sends \X {"user", "assistant"})
    BY <1>0
  <2> QED
    BY <2>1, <2>2, <2>3, <2>4 DEF Chat!TypeOK
<1>3. overlapped = FALSE => \A s \in Sends : Live(req'[s]) => req'[s].aborted = TRUE
  BY <1>1 DEF ChatInv, SoleSend
<1>4. SoleSend'
  BY <1>0, <1>1, <1>3 DEF ChatInv, SoleSend
<1>5. Torn'
  BY <1>0, <1>3 DEF Torn
<1> QED
  BY <1>0, <1>1, <1>2, <1>4, <1>5 DEF ChatInv

LEMMA ChatInvInit == Chat!Init => ChatInv
<1> SUFFICES ASSUME Chat!Init PROVE ChatInv
  OBVIOUS
<1>1. Chat!Unsent \in Chat!Call
  <2>1. <<>> \in Seq(Chat!Frame)
    OBVIOUS
  <2> QED
    BY <2>1 DEF Chat!Unsent, Chat!Call, Chat!MessageStatus
<1>2. CallGood(Chat!Unsent) /\ ~Live(Chat!Unsent)
  BY DEF Chat!Unsent, CallGood, Live
<1>3. Chat!TypeOK
  <2>1. booted \in BOOLEAN /\ thread \in BOOLEAN /\ overlapped \in BOOLEAN
    BY DEF Chat!Init
  <2>2. messages \in Seq(Sends \X {"user", "assistant"}) /\ asking \subseteq Sends
    BY DEF Chat!Init
  <2>3. req \in [Sends -> Chat!Call]
    BY <1>1 DEF Chat!Init
  <2> QED
    BY <2>1, <2>2, <2>3 DEF Chat!TypeOK
<1>4. \A s \in Sends : CallGood(req[s]) /\ ~Live(req[s])
  BY <1>2 DEF Chat!Init
<1> QED
  BY <1>3, <1>4 DEF ChatInv, SoleSend, Torn, Chat!Init

LEMMA ChatInvStep == ChatInv /\ [Chat!Next]_(Chat!vars) => ChatInv'
<1> SUFFICES ASSUME ChatInv, [Chat!Next]_(Chat!vars) PROVE ChatInv'
  OBVIOUS
<1>1. CASE Chat!Setup
  BY <1>1 DEF Chat!Setup, ChatInv, Chat!TypeOK, SoleSend, Torn
<1>2. CASE Chat!Teardown
  BY <1>2, TornKept
<1>3. ASSUME NEW s \in Sends,
             \/ Chat!Send(s) \/ Chat!Accepted(s) \/ Chat!Read(s) \/ Chat!StreamEnds(s)
             \/ Chat!Breaks(s)
      PROVE  ChatInv'
  BY <1>3, SendKept, AcceptedKept, ReadKept, EndsKept, BreaksKept
<1>4. CASE UNCHANGED Chat!vars
  BY <1>4 DEF Chat!vars, ChatInv, Chat!TypeOK, SoleSend, Torn
<1> QED
  BY <1>1, <1>2, <1>3, <1>4 DEF Chat!Next

LEMMA ChatAlone == PageSpec => Chat!Spec
<1>1. PageInit => Chat!Init
  BY DEF PageInit
<1>2. [PageNext]_pageVars => [Chat!Next]_(Chat!vars)
  BY DEF PageNext, pageVars, SocketStep, ChatStep, VoiceStep, SpeechStep, chatVars, Chat!vars
<1> QED
  BY <1>1, <1>2, PTL DEF PageSpec, Chat!Spec

LEMMA ChatInvAlways == PageSpec => []ChatInv
BY ChatInvInit, ChatInvStep, ChatAlone, PTL DEF Chat!Spec

\* An answer shown as delivered is the whole answer: however long its stream was
\* and wherever its chunks were cut, each frame was handled once and in order.
THEOREM AnswersAreWhole == PageSpec => []AnswerIsWhole
<1>1. ChatInv => AnswerIsWhole
  BY DEF ChatInv, CallGood, AnswerIsWhole, Chat!AnswerIsWhole
<1> QED
  BY <1>1, ChatInvAlways, PTL

\* No frame of a stream that was in flight at a teardown adds a message to the
\* strand, as long as no two sends overlapped.
THEOREM TornDownStrandsStayEmpty == PageSpec => []TornDownStaysEmpty
<1>1. ChatInv => TornDownStaysEmpty
  BY DEF ChatInv, Chat!TypeOK, Torn, TornDownStaysEmpty, Chat!TornDownStaysEmpty
<1> QED
  BY <1>1, ChatInvAlways, PTL

-----------------------------------------------------------------------------
(* The microphone                                                          *)

\* A prompt on screen is the one that is shared, and nothing is held beside it.
Prompt ==
    /\ \A k \in DOMAIN stream : stream[k] = "asked" => micPromise = {k}
    /\ micPromise # {} => mic = 0
    /\ starting \subseteq micPromise

\* A recorder that records is the last one, on the stream held.
Running ==
    \A r \in DOMAIN recording : recording[r].state = "recording" =>
        /\ r = recorder /\ r = Len(recording) /\ recording[r].wanted = FALSE
        /\ recording[r].on = mic /\ mic # 0 /\ stream[mic] = "live"

\* While a click waits for a transcript, no other recording can begin.
Wanted ==
    \A r \in DOMAIN recording :
        recording[r].wanted = TRUE /\ recording[r].state \in {"ending", "uploading"} =>
            sttDisabled = TRUE /\ starting = {} /\ r = Len(recording)

Chunks == chunks \subseteq late \union {Len(recording)}

VoiceInv ==
    /\ Voice!TypeOK /\ Voice!NoLeakedMic /\ Prompt /\ Running /\ Wanted /\ Chunks
    /\ Voice!TranscriptIsItsOwn

LEMMA VoiceTypes ==
    ASSUME Voice!TypeOK
    PROVE  /\ Len(stream) \in Nat /\ DOMAIN stream = 1..Len(stream)
           /\ Len(recording) \in Nat /\ DOMAIN recording = 1..Len(recording)
           /\ \A k \in DOMAIN stream : k # 0 /\ k \in Nat /\ stream[k] \in Voice!Request
           /\ \A r \in DOMAIN recording :
                 r # 0 /\ r \in Nat /\ r <= Len(recording) /\ recording[r] \in Voice!Recorder
           /\ mic # 0 => mic \in DOMAIN stream
           /\ recorder # 0 => recorder \in DOMAIN recording
           /\ mic \in Nat
BY DEF Voice!TypeOK

LEMMA RecorderTypes ==
    ASSUME NEW c \in Voice!Recorder
    PROVE  /\ c.state \in {"recording", "ending", "over", "uploading", "uploaded"}
           /\ c.on \in Nat /\ c.wanted \in BOOLEAN /\ c.sent \in SUBSET Nat
           /\ c = [state |-> c.state, on |-> c.on, wanted |-> c.wanted, sent |-> c.sent]
BY DEF Voice!Recorder

RecorderOf(state, on, wanted, sent) ==
    [state |-> state, on |-> on, wanted |-> wanted, sent |-> sent]

LEMMA RecorderOfType ==
    ASSUME NEW st \in {"recording", "ending", "over", "uploading", "uploaded"},
           NEW on \in Nat, NEW w \in BOOLEAN, NEW se \in SUBSET Nat
    PROVE  RecorderOf(st, on, w, se) \in Voice!Recorder
BY DEF RecorderOf, Voice!Recorder

\* Only the state of a recorder changes.
LEMMA StateChange ==
    ASSUME NEW c \in Voice!Recorder,
           NEW st \in {"recording", "ending", "over", "uploading", "uploaded"}
    PROVE  LET d == [c EXCEPT !.state = st]
           IN  /\ d \in Voice!Recorder
               /\ d.state = st /\ d.on = c.on /\ d.wanted = c.wanted /\ d.sent = c.sent
<1> DEFINE d == RecorderOf(st, c.on, c.wanted, c.sent)
<1>1. [c EXCEPT !.state = st] = d
  BY RecorderTypes DEF RecorderOf
<1>2. d \in Voice!Recorder
  BY RecorderTypes, RecorderOfType
<1>3. d.state = st /\ d.on = c.on /\ d.wanted = c.wanted /\ d.sent = c.sent
  BY DEF RecorderOf
<1> HIDE DEF d
<1> QED
  BY <1>1, <1>2, <1>3

\* A change of one recorder.
LEMMA RecWrite ==
    ASSUME NEW recs \in Seq(Voice!Recorder), NEW r \in DOMAIN recs, NEW d \in Voice!Recorder
    PROVE  LET new == [recs EXCEPT ![r] = d]
           IN  /\ new \in Seq(Voice!Recorder) /\ Len(new) = Len(recs)
               /\ DOMAIN new = DOMAIN recs
               /\ new[r] = d /\ \A q \in DOMAIN recs : q # r => new[q] = recs[q]
OBVIOUS

\* Silence leaves no recorder on what dies, and changes nothing else.
LEMMA Silenced ==
    ASSUME NEW recs \in Seq(Voice!Recorder), NEW dying
    PROVE  LET new == Voice!Silence(recs, dying)
           IN  /\ new \in Seq(Voice!Recorder) /\ Len(new) = Len(recs)
               /\ DOMAIN new = DOMAIN recs
               /\ \A r \in DOMAIN recs :
                     /\ new[r].on = recs[r].on /\ new[r].wanted = recs[r].wanted
                     /\ new[r].sent = recs[r].sent
                     /\ \/ new[r].state = recs[r].state
                           /\ ~(recs[r].state = "recording" /\ recs[r].on \in dying)
                        \/ /\ recs[r].state = "recording" /\ recs[r].on \in dying
                           /\ new[r].state = "ending"
<1> DEFINE new == Voice!Silence(recs, dying)
<1>0. \A r \in DOMAIN recs : recs[r] \in Voice!Recorder
  OBVIOUS
<1>1. /\ DOMAIN new = DOMAIN recs
      /\ \A r \in DOMAIN recs : new[r] =
            IF recs[r].state = "recording" /\ recs[r].on \in dying
            THEN [recs[r] EXCEPT !.state = "ending"] ELSE recs[r]
      /\ new = [r \in DOMAIN recs |-> new[r]]
  BY DEF Voice!Silence
<1> HIDE DEF new
<1>2. ASSUME NEW r \in DOMAIN recs
      PROVE  /\ new[r] \in Voice!Recorder
             /\ new[r].on = recs[r].on /\ new[r].wanted = recs[r].wanted
             /\ new[r].sent = recs[r].sent
             /\ \/ new[r].state = recs[r].state
                   /\ ~(recs[r].state = "recording" /\ recs[r].on \in dying)
                \/ /\ recs[r].state = "recording" /\ recs[r].on \in dying
                   /\ new[r].state = "ending"
  <2>1. CASE recs[r].state = "recording" /\ recs[r].on \in dying
    <3>1. new[r] = [recs[r] EXCEPT !.state = "ending"]
      BY <1>1, <2>1
    <3>2. LET d == [recs[r] EXCEPT !.state = "ending"]
          IN  /\ d \in Voice!Recorder /\ d.state = "ending"
              /\ d.on = recs[r].on /\ d.wanted = recs[r].wanted /\ d.sent = recs[r].sent
      BY <1>0, StateChange
    <3> QED
      BY <2>1, <3>1, <3>2
  <2>2. CASE ~(recs[r].state = "recording" /\ recs[r].on \in dying)
    BY <1>0, <1>1, <2>2
  <2> QED
    BY <2>1, <2>2
<1>3. new \in Seq(Voice!Recorder) /\ Len(new) = Len(recs)
  <2>1. DOMAIN recs = 1..Len(recs) /\ Len(recs) \in Nat
    OBVIOUS
  <2>2. new \in [1..Len(recs) -> Voice!Recorder]
    BY <1>1, <1>2, <2>1
  <2> QED
    BY <2>1, <2>2
<1> QED
  BY <1>1, <1>2, <1>3 DEF new

\* A change of one request.
LEMMA StreamWrite ==
    ASSUME Voice!TypeOK, NEW k \in DOMAIN stream, NEW answer \in Voice!Request
    PROVE  LET new == [stream EXCEPT ![k] = answer]
           IN  /\ new \in Seq(Voice!Request) /\ Len(new) = Len(stream)
               /\ DOMAIN new = DOMAIN stream
               /\ new[k] = answer /\ \A j \in DOMAIN stream : j # k => new[j] = stream[j]
BY DEF Voice!TypeOK

LEMMA OffStep == ASSUME VoiceInv, Voice!MicOff PROVE VoiceInv'
<1> Voice!TypeOK
  BY DEF VoiceInv
<1>0. /\ mic # 0 /\ mic \in DOMAIN stream /\ stream[mic] = "live" /\ micPromise = {}
      /\ stream' = [stream EXCEPT ![mic] = "dead"] /\ mic' = 0
      /\ recording' = Voice!Silence(recording, {mic})
      /\ UNCHANGED <<alive, micPromise, recorder, chunks, recordPromise, starting, sttDisabled,
                     late>>
  BY VoiceTypes DEF Voice!MicOff, Voice!HasMic, Voice!ReleaseMic, VoiceInv, Prompt
<1>1. /\ stream' \in Seq(Voice!Request) /\ Len(stream') = Len(stream)
      /\ DOMAIN stream' = DOMAIN stream
      /\ stream'[mic] = "dead" /\ \A j \in DOMAIN stream : j # mic => stream'[j] = stream[j]
  BY <1>0, StreamWrite DEF Voice!Request
<1>2. /\ recording' \in Seq(Voice!Recorder) /\ Len(recording') = Len(recording)
      /\ DOMAIN recording' = DOMAIN recording
      /\ \A r \in DOMAIN recording :
            /\ recording'[r].wanted = recording[r].wanted
            /\ recording'[r].sent = recording[r].sent
            /\ \/ recording'[r].state = recording[r].state /\ recording[r].state # "recording"
               \/ recording[r].state = "recording" /\ recording'[r].state = "ending"
  <2>1. recording \in Seq(Voice!Recorder)
    BY DEF Voice!TypeOK
  <2>2. \A r \in DOMAIN recording : recording[r].state = "recording" => recording[r].on \in {mic}
    BY DEF VoiceInv, Running
  <2> QED
    BY <1>0, <2>1, <2>2, Silenced
<1>3. Voice!TypeOK'
  <2>1. mic' \in 0..Len(stream') /\ recorder' \in 0..Len(recording')
    BY <1>0, <1>1, <1>2, VoiceTypes DEF Voice!TypeOK
  <2>2. micPromise' \subseteq DOMAIN stream' /\ starting' \subseteq DOMAIN stream'
    BY <1>0, <1>1 DEF Voice!TypeOK
  <2>3. chunks' \subseteq DOMAIN recording' /\ late' \subseteq DOMAIN recording'
    BY <1>0, <1>2 DEF Voice!TypeOK
  <2>4. alive' \in BOOLEAN /\ recordPromise' \in BOOLEAN /\ sttDisabled' \in BOOLEAN
    BY <1>0 DEF Voice!TypeOK
  <2> QED
    BY <1>1, <1>2, <2>1, <2>2, <2>3, <2>4 DEF Voice!TypeOK
<1>4. Voice!NoLeakedMic'
  BY <1>0, <1>1 DEF VoiceInv, Voice!NoLeakedMic
<1>5. Prompt'
  BY <1>0, <1>1 DEF VoiceInv, Prompt
<1>6. Running'
  BY <1>2 DEF Running
<1>7. Wanted'
  BY <1>0, <1>2 DEF VoiceInv, Wanted, Running
<1>8. Chunks' /\ Voice!TranscriptIsItsOwn'
  BY <1>0, <1>2 DEF VoiceInv, Chunks, Voice!TranscriptIsItsOwn
<1> QED
  BY <1>3, <1>4, <1>5, <1>6, <1>7, <1>8 DEF VoiceInv

\* ensureMic, where no stream is usable, as far as it concerns the microphone.
LEMMA AskKeeps ==
    ASSUME VoiceInv, ~Voice!HasMic, Voice!Ask, alive' = alive,
           starting' \subseteq starting \union micPromise'
    PROVE  /\ stream' \in Seq(Voice!Request) /\ mic' = 0 /\ micPromise' \subseteq DOMAIN stream'
           /\ mic' \in 0..Len(stream') /\ starting' \subseteq DOMAIN stream'
           /\ Voice!NoLeakedMic' /\ Prompt'
           /\ \A r \in DOMAIN recording : recording[r].state # "recording"
<1> Voice!TypeOK
  BY DEF VoiceInv
<1>0. mic' = 0 /\ \A r \in DOMAIN recording : recording[r].state # "recording"
  BY DEF Voice!Ask, Voice!HasMic, VoiceInv, Running
<1>1. \A k \in DOMAIN stream : stream[k] # "live"
  BY VoiceTypes DEF Voice!HasMic, VoiceInv, Voice!NoLeakedMic
<1>2. CASE micPromise # {}
  <2>1. stream' = stream /\ micPromise' = micPromise
    BY <1>2 DEF Voice!Ask
  <2>2. 0 \in 0..Len(stream)
    BY VoiceTypes
  <2> QED
    BY <1>0, <1>1, <2>1, <2>2 DEF VoiceInv, Voice!TypeOK, Prompt, Voice!NoLeakedMic
<1>3. CASE micPromise = {}
  <2> DEFINE n == Len(stream) + 1
  <2>1. stream' = Append(stream, "asked") /\ micPromise' = {n}
    BY <1>3 DEF Voice!Ask
  <2>2. /\ stream' \in Seq(Voice!Request) /\ Len(stream') = n /\ n \in Nat /\ n >= 1
        /\ DOMAIN stream' = 1..n /\ stream'[n] = "asked"
        /\ \A k \in DOMAIN stream' : k = n \/ (k \in DOMAIN stream /\ stream'[k] = stream[k])
    <3>1. "asked" \in Voice!Request
      BY DEF Voice!Request
    <3> QED
      BY <2>1, <3>1 DEF Voice!TypeOK
  <2> HIDE DEF n
  <2>3. starting = {} /\ \A k \in DOMAIN stream : stream[k] # "asked"
    BY <1>3 DEF VoiceInv, Prompt
  <2>4. Prompt'
    BY <1>0, <2>1, <2>2, <2>3 DEF Prompt
  <2>5. Voice!NoLeakedMic'
    BY <1>1, <2>2 DEF Voice!NoLeakedMic
  <2>6. mic' \in 0..Len(stream') /\ micPromise' \subseteq DOMAIN stream'
    BY <1>0, <2>1, <2>2
  <2> QED
    BY <1>0, <2>1, <2>2, <2>3, <2>4, <2>5, <2>6
<1> QED
  BY <1>2, <1>3

LEMMA AskStep == ASSUME VoiceInv, Voice!MicOn \/ Voice!StartAsks PROVE VoiceInv'
<1> Voice!TypeOK
  BY DEF VoiceInv
<1>1. /\ ~Voice!HasMic /\ Voice!Ask
      /\ UNCHANGED <<alive, recording, recorder, chunks, sttDisabled, late>>
  BY DEF Voice!MicOn, Voice!StartAsks, Voice!recVars
<1>2. \/ starting' = starting /\ recordPromise' = recordPromise
      \/ starting' = starting \union micPromise' /\ recordPromise' = TRUE /\ ~sttDisabled
  BY DEF Voice!MicOn, Voice!StartAsks, Voice!recVars
<1>3. /\ stream' \in Seq(Voice!Request) /\ mic' = 0 /\ micPromise' \subseteq DOMAIN stream'
      /\ mic' \in 0..Len(stream') /\ starting' \subseteq DOMAIN stream'
      /\ Voice!NoLeakedMic' /\ Prompt'
      /\ \A r \in DOMAIN recording : recording[r].state # "recording"
  BY <1>1, <1>2, AskKeeps
<1>4. Voice!TypeOK'
  <2>1. recordPromise' \in BOOLEAN
    BY <1>2 DEF Voice!TypeOK
  <2> QED
    BY <1>1, <1>3, <2>1 DEF Voice!TypeOK
<1>5. Running'
  BY <1>1, <1>3 DEF Running
<1>6. Wanted'
  BY <1>1, <1>2 DEF VoiceInv, Wanted
<1>7. Chunks' /\ Voice!TranscriptIsItsOwn'
  BY <1>1 DEF VoiceInv, Chunks, Voice!TranscriptIsItsOwn
<1> QED
  BY <1>3, <1>4, <1>5, <1>6, <1>7 DEF VoiceInv

LEMMA StopStep == ASSUME VoiceInv, Voice!Stop PROVE VoiceInv'
<1> Voice!TypeOK
  BY DEF VoiceInv
<1> DEFINE c == recording[recorder]
           yes == TRUE
           d1 == RecorderOf("ending", c.on, c.wanted, c.sent)
           d == RecorderOf("ending", c.on, yes, c.sent)
<1>0. /\ recorder \in DOMAIN recording /\ c.state = "recording" /\ recorder = Len(recording)
      /\ c \in Voice!Recorder /\ mic # 0 /\ micPromise = {} /\ starting = {}
      /\ sttDisabled' = TRUE
      /\ UNCHANGED <<alive, stream, mic, micPromise, recorder, chunks, recordPromise, starting,
                     late>>
  BY VoiceTypes DEF Voice!Stop, Voice!IsRecording, Voice!micVars, VoiceInv, Running, Prompt
<1>1. recording' = [recording EXCEPT ![recorder] = d]
  <2>1. recording' = [recording EXCEPT ![recorder] = [[c EXCEPT !.state = "ending"]
                                                         EXCEPT !.wanted = yes]]
    BY <1>0 DEF Voice!Stop
  <2> HIDE DEF yes
  <2>2. [c EXCEPT !.state = "ending"] = d1
    BY <1>0, RecorderTypes DEF RecorderOf
  <2>3. [d1 EXCEPT !.wanted = yes] = d
    BY DEF RecorderOf
  <2> HIDE DEF d1, d
  <2> QED
    BY <2>1, <2>2, <2>3
<1>2. d \in Voice!Recorder
  <2>1. c.on \in Nat /\ c.sent \in SUBSET Nat /\ yes \in BOOLEAN
    BY <1>0, RecorderTypes
  <2> QED
    BY <2>1, RecorderOfType
<1>3. d.state = "ending"
  BY DEF RecorderOf
<1> HIDE DEF d
<1>4. /\ recording' \in Seq(Voice!Recorder) /\ Len(recording') = Len(recording)
      /\ DOMAIN recording' = DOMAIN recording /\ recording'[recorder] = d
      /\ \A q \in DOMAIN recording : q # recorder => recording'[q] = recording[q]
  <2>1. recording \in Seq(Voice!Recorder)
    BY DEF Voice!TypeOK
  <2> QED
    BY <1>0, <1>1, <1>2, <2>1, RecWrite
<1>5. Voice!TypeOK'
  <2>1. sttDisabled' \in BOOLEAN
    BY <1>0
  <2> QED
    BY <1>0, <1>4, <2>1 DEF Voice!TypeOK
<1>6. Voice!NoLeakedMic' /\ Prompt'
  BY <1>0 DEF VoiceInv, Voice!NoLeakedMic, Prompt
<1>7. Running'
  BY <1>0, <1>3, <1>4 DEF VoiceInv, Running
<1>8. Wanted'
  BY <1>0, <1>4 DEF VoiceInv, Wanted
<1>9. Chunks' /\ Voice!TranscriptIsItsOwn'
  BY <1>0, <1>3, <1>4 DEF VoiceInv, Chunks, Voice!TranscriptIsItsOwn
<1> QED
  BY <1>5, <1>6, <1>7, <1>8, <1>9 DEF VoiceInv

\* startRecording with stream k, while nothing records and no click is waiting:
\* a recorder more, or none, and no data yet.
LEMMA RecordKeeps ==
    ASSUME VoiceInv, NEW k \in Nat \ {0}, Voice!Record(k),
           \A r \in DOMAIN recording : recording[r].state # "recording",
           \A r \in DOMAIN recording :
              ~(recording[r].wanted = TRUE /\ recording[r].state \in {"ending", "uploading"}),
           mic' = k, stream'[k] = "live", late' = late
    PROVE  /\ recording' \in Seq(Voice!Recorder) /\ recorder' \in 0..Len(recording')
           /\ chunks' = {} /\ late' \subseteq DOMAIN recording'
           /\ Running' /\ Wanted' /\ Chunks' /\ Voice!TranscriptIsItsOwn'
<1> Voice!TypeOK
  BY DEF VoiceInv
<1>0. chunks' = {}
  BY DEF Voice!Record
<1>1. CASE UNCHANGED <<recording, recorder>>
  <2>1. recording' \in Seq(Voice!Recorder) /\ recorder' \in 0..Len(recording')
    BY <1>1 DEF Voice!TypeOK
  <2>2. late' \subseteq DOMAIN recording'
    BY <1>1 DEF Voice!TypeOK
  <2>3. Running' /\ Wanted'
    BY <1>1 DEF Running, Wanted
  <2>4. Chunks' /\ Voice!TranscriptIsItsOwn'
    BY <1>0, <1>1 DEF VoiceInv, Chunks, Voice!TranscriptIsItsOwn
  <2> QED
    BY <1>0, <2>1, <2>2, <2>3, <2>4
<1>2. ASSUME NEW state \in {"recording", "over"},
             recording' = Append(recording, Voice!NewRecorder(k, state)),
             recorder' = Len(recording) + 1
      PROVE  /\ recording' \in Seq(Voice!Recorder) /\ recorder' \in 0..Len(recording')
             /\ late' \subseteq DOMAIN recording'
             /\ Running' /\ Wanted' /\ Chunks' /\ Voice!TranscriptIsItsOwn'
  <2> DEFINE d == Voice!NewRecorder(k, state)
             n == Len(recording) + 1
  <2>1. d \in Voice!Recorder /\ d.state = state /\ d.on = k /\ d.wanted = FALSE
    BY DEF Voice!NewRecorder, Voice!Recorder
  <2> HIDE DEF d
  <2>2. /\ recording' \in Seq(Voice!Recorder) /\ Len(recording') = n /\ n \in Nat /\ n >= 1
        /\ recording'[n] = d /\ recorder' = n
        /\ \A r \in DOMAIN recording' :
              r = n \/ (r \in DOMAIN recording /\ recording'[r] = recording[r])
        /\ DOMAIN recording \subseteq DOMAIN recording'
    BY <1>2, <2>1 DEF Voice!TypeOK, d
  <2> HIDE DEF n
  <2>3. recorder' \in 0..Len(recording') /\ late' \subseteq DOMAIN recording'
    BY <2>2 DEF Voice!TypeOK
  <2>4. Running'
    BY <2>1, <2>2 DEF Running
  <2>5. Wanted'
    BY <2>1, <2>2 DEF Wanted
  <2>6. Chunks'
    BY <1>0 DEF Chunks
  <2>7. Voice!TranscriptIsItsOwn'
    BY <2>1, <2>2 DEF VoiceInv, Voice!TranscriptIsItsOwn
  <2> QED
    BY <2>2, <2>3, <2>4, <2>5, <2>6, <2>7
<1> QED
  BY <1>0, <1>1, <1>2 DEF Voice!Record

LEMMA StartStep == ASSUME VoiceInv, Voice!StartNow PROVE VoiceInv'
<1> Voice!TypeOK
  BY DEF VoiceInv
<1>0. /\ sttDisabled = FALSE /\ ~Voice!IsRecording /\ mic # 0 /\ stream[mic] = "live"
      /\ mic \in Nat \ {0} /\ Voice!Record(mic)
      /\ UNCHANGED <<alive, stream, mic, micPromise, recordPromise, starting, sttDisabled, late>>
  BY VoiceTypes DEF Voice!StartNow, Voice!HasMic, Voice!micVars, Voice!TypeOK
<1>1. \A r \in DOMAIN recording : recording[r].state # "recording"
  BY <1>0, VoiceTypes DEF Voice!IsRecording, VoiceInv, Running
<1>2. \A r \in DOMAIN recording :
         ~(recording[r].wanted = TRUE /\ recording[r].state \in {"ending", "uploading"})
  BY <1>0 DEF VoiceInv, Wanted
<1>3. /\ recording' \in Seq(Voice!Recorder) /\ recorder' \in 0..Len(recording')
      /\ chunks' = {} /\ late' \subseteq DOMAIN recording'
      /\ Running' /\ Wanted' /\ Chunks' /\ Voice!TranscriptIsItsOwn'
  <2>1. stream'[mic] = "live" /\ mic' = mic /\ late' = late
    BY <1>0
  <2> QED
    BY <1>0, <1>1, <1>2, <2>1, RecordKeeps
<1>4. Voice!TypeOK'
  BY <1>0, <1>3 DEF Voice!TypeOK
<1>5. Voice!NoLeakedMic' /\ Prompt'
  BY <1>0 DEF VoiceInv, Voice!NoLeakedMic, Prompt
<1> QED
  BY <1>3, <1>4, <1>5 DEF VoiceInv

\* A prompt that is answered leaves none on screen and no start waiting.
LEMMA Answered ==
    ASSUME VoiceInv, NEW k \in DOMAIN stream, stream[k] = "asked",
           NEW answer \in Voice!Request, answer # "asked",
           stream' = [stream EXCEPT ![k] = answer],
           micPromise' = {}, starting' = starting \ {k},
           recordPromise' = (recordPromise /\ k \notin starting),
           IF answer = "live" THEN mic' = k /\ alive = TRUE ELSE mic' = mic,
           alive' = alive
    PROVE  /\ k \in Nat \ {0} /\ mic = 0 /\ micPromise = {k} /\ starting \subseteq {k}
           /\ stream' \in Seq(Voice!Request) /\ mic' \in 0..Len(stream') /\ stream'[k] = answer
           /\ starting' = {} /\ recordPromise' \in BOOLEAN /\ micPromise' \subseteq DOMAIN stream'
           /\ starting' \subseteq DOMAIN stream'
           /\ Voice!NoLeakedMic' /\ Prompt'
           /\ \A r \in DOMAIN recording : recording[r].state # "recording"
<1> Voice!TypeOK
  BY DEF VoiceInv
<1>1. /\ k \in Nat \ {0} /\ k <= Len(stream) /\ Len(stream) \in Nat
      /\ mic = 0 /\ micPromise = {k} /\ starting \subseteq {k} /\ starting' = {}
      /\ \A j \in DOMAIN stream : stream[j] = "asked" => j = k
      /\ \A j \in DOMAIN stream : j # 0
  BY VoiceTypes DEF VoiceInv, Prompt
<1>2. /\ stream' \in Seq(Voice!Request) /\ Len(stream') = Len(stream)
      /\ DOMAIN stream' = DOMAIN stream
      /\ stream'[k] = answer /\ \A j \in DOMAIN stream : j # k => stream'[j] = stream[j]
  BY StreamWrite
<1>3. mic' \in 0..Len(stream') /\ recordPromise' \in BOOLEAN
  BY <1>1, <1>2 DEF Voice!TypeOK
<1>4. Voice!NoLeakedMic'
  BY <1>1, <1>2 DEF VoiceInv, Voice!NoLeakedMic
<1>5. Prompt'
  BY <1>1, <1>2 DEF Prompt
<1>6. \A r \in DOMAIN recording : recording[r].state # "recording"
  BY <1>1 DEF VoiceInv, Running
<1> QED
  BY <1>1, <1>2, <1>3, <1>4, <1>5, <1>6

LEMMA AnswerStep ==
    ASSUME VoiceInv, NEW k \in DOMAIN stream, Voice!Grant(k) \/ Voice!Refuse(k)
    PROVE  VoiceInv'
<1> Voice!TypeOK
  BY DEF VoiceInv
<1>0. /\ stream[k] = "asked" /\ micPromise' = {} /\ starting' = starting \ {k}
      /\ recordPromise' = (recordPromise /\ k \notin starting)
      /\ UNCHANGED <<alive, sttDisabled, late>>
  BY DEF Voice!Grant, Voice!Refuse
<1>1. CASE /\ alive = TRUE /\ stream' = [stream EXCEPT ![k] = "live"] /\ mic' = k
           /\ k \in starting /\ Voice!Record(k)
  <2>1. /\ k \in Nat \ {0} /\ starting' = {} /\ stream'[k] = "live"
        /\ stream' \in Seq(Voice!Request) /\ mic' \in 0..Len(stream')
        /\ recordPromise' \in BOOLEAN /\ micPromise' \subseteq DOMAIN stream'
        /\ starting' \subseteq DOMAIN stream'
        /\ Voice!NoLeakedMic' /\ Prompt'
        /\ \A r \in DOMAIN recording : recording[r].state # "recording"
    <3>1. "live" \in Voice!Request /\ "live" # "asked"
      BY DEF Voice!Request
    <3> QED
      BY <1>0, <1>1, <3>1, Answered
  <2>2. \A r \in DOMAIN recording :
           ~(recording[r].wanted = TRUE /\ recording[r].state \in {"ending", "uploading"})
    BY <1>1 DEF VoiceInv, Wanted
  <2>3. /\ recording' \in Seq(Voice!Recorder) /\ recorder' \in 0..Len(recording')
        /\ chunks' = {} /\ late' \subseteq DOMAIN recording'
        /\ Running' /\ Wanted' /\ Chunks' /\ Voice!TranscriptIsItsOwn'
    BY <1>0, <1>1, <2>1, <2>2, RecordKeeps
  <2>4. Voice!TypeOK'
    BY <1>0, <2>1, <2>3 DEF Voice!TypeOK
  <2> QED
    BY <2>1, <2>3, <2>4 DEF VoiceInv
<1>2. ASSUME NEW answer \in {"live", "dead", "refused"},
             stream' = [stream EXCEPT ![k] = answer],
             IF answer = "live" THEN mic' = k /\ alive = TRUE ELSE mic' = mic,
             UNCHANGED <<recording, recorder, chunks>>
      PROVE  VoiceInv'
  <2>1. /\ starting' = {} /\ stream' \in Seq(Voice!Request) /\ mic' \in 0..Len(stream')
        /\ recordPromise' \in BOOLEAN /\ micPromise' \subseteq DOMAIN stream'
        /\ starting' \subseteq DOMAIN stream'
        /\ Voice!NoLeakedMic' /\ Prompt'
        /\ \A r \in DOMAIN recording : recording[r].state # "recording"
    <3>1. answer \in Voice!Request /\ answer # "asked"
      BY DEF Voice!Request
    <3> QED
      BY <1>0, <1>2, <3>1, Answered
  <2>2. Voice!TypeOK'
    BY <1>0, <1>2, <2>1 DEF Voice!TypeOK
  <2>3. Running'
    BY <1>2, <2>1 DEF Running
  <2>4. Wanted'
    BY <1>0, <1>2, <2>1 DEF VoiceInv, Wanted
  <2>5. Chunks' /\ Voice!TranscriptIsItsOwn'
    BY <1>0, <1>2 DEF VoiceInv, Chunks, Voice!TranscriptIsItsOwn
  <2> QED
    BY <2>1, <2>2, <2>3, <2>4, <2>5 DEF VoiceInv
<1>3. CASE Voice!Grant(k)
  <2>1. CASE alive = TRUE /\ k \in starting
    BY <1>1, <1>3, <2>1 DEF Voice!Grant
  <2>2. CASE alive = TRUE /\ k \notin starting
    BY <1>2, <1>3, <2>2 DEF Voice!Grant
  <2>3. CASE alive = FALSE
    <3>1. /\ stream' = [stream EXCEPT ![k] = "dead"]
          /\ UNCHANGED <<mic, recording, recorder, chunks>>
      BY <1>3, <2>3 DEF Voice!Grant
    <3> QED
      BY <1>2, <3>1
  <2> QED
    BY <2>1, <2>2, <2>3 DEF Voice!TypeOK
<1>4. CASE Voice!Refuse(k)
  <2>1. /\ stream' = [stream EXCEPT ![k] = "refused"]
        /\ UNCHANGED <<mic, recording, recorder, chunks>>
    BY <1>4 DEF Voice!Refuse
  <2> QED
    BY <1>2, <2>1
<1> QED
  BY <1>3, <1>4

LEMMA RevokeStep ==
    ASSUME VoiceInv, NEW k \in DOMAIN stream, Voice!Revoke(k)
    PROVE  VoiceInv'
<1> Voice!TypeOK
  BY DEF VoiceInv
<1>0. /\ stream[k] = "live" /\ k = mic /\ k # 0
      /\ stream' = [stream EXCEPT ![k] = "dead"]
      /\ recording' = Voice!Silence(recording, {k})
      /\ UNCHANGED <<alive, mic, micPromise, recorder, chunks, recordPromise, starting,
                     sttDisabled, late>>
  BY VoiceTypes DEF Voice!Revoke, VoiceInv, Voice!NoLeakedMic
<1>1. /\ stream' \in Seq(Voice!Request) /\ Len(stream') = Len(stream)
      /\ DOMAIN stream' = DOMAIN stream
      /\ stream'[k] = "dead" /\ \A j \in DOMAIN stream : j # k => stream'[j] = stream[j]
  BY <1>0, StreamWrite DEF Voice!Request
<1>2. /\ recording' \in Seq(Voice!Recorder) /\ Len(recording') = Len(recording)
      /\ DOMAIN recording' = DOMAIN recording
      /\ \A r \in DOMAIN recording :
            /\ recording'[r].wanted = recording[r].wanted
            /\ recording'[r].sent = recording[r].sent
            /\ \/ recording'[r].state = recording[r].state /\ recording[r].state # "recording"
               \/ recording[r].state = "recording" /\ recording'[r].state = "ending"
  <2>1. recording \in Seq(Voice!Recorder)
    BY DEF Voice!TypeOK
  <2>2. \A r \in DOMAIN recording : recording[r].state = "recording" => recording[r].on \in {k}
    BY <1>0 DEF VoiceInv, Running
  <2> QED
    BY <1>0, <2>1, <2>2, Silenced
<1>3. Voice!TypeOK'
  <2>1. mic' \in 0..Len(stream') /\ recorder' \in 0..Len(recording')
    BY <1>0, <1>1, <1>2, VoiceTypes DEF Voice!TypeOK
  <2>2. micPromise' \subseteq DOMAIN stream' /\ starting' \subseteq DOMAIN stream'
    BY <1>0, <1>1 DEF Voice!TypeOK
  <2>3. chunks' \subseteq DOMAIN recording' /\ late' \subseteq DOMAIN recording'
    BY <1>0, <1>2 DEF Voice!TypeOK
  <2>4. alive' \in BOOLEAN /\ recordPromise' \in BOOLEAN /\ sttDisabled' \in BOOLEAN
    BY <1>0 DEF Voice!TypeOK
  <2> QED
    BY <1>1, <1>2, <2>1, <2>2, <2>3, <2>4 DEF Voice!TypeOK
<1>4. Voice!NoLeakedMic'
  BY <1>0, <1>1 DEF VoiceInv, Voice!NoLeakedMic
<1>5. Prompt'
  BY <1>0, <1>1 DEF VoiceInv, Prompt
<1>6. Running'
  BY <1>2 DEF Running
<1>7. Wanted'
  BY <1>0, <1>2 DEF VoiceInv, Wanted, Running
<1>8. Chunks' /\ Voice!TranscriptIsItsOwn'
  BY <1>0, <1>2 DEF VoiceInv, Chunks, Voice!TranscriptIsItsOwn
<1> QED
  BY <1>3, <1>4, <1>5, <1>6, <1>7, <1>8 DEF VoiceInv

\* A stop event that somebody waits for: the recorder is the last one, and what
\* it uploads is its data and that of late recorders.
LEMMA SentStep ==
    ASSUME VoiceInv, NEW r \in DOMAIN recording, Voice!Stopped(r), recording[r].wanted = TRUE
    PROVE  VoiceInv'
<1> Voice!TypeOK
  BY DEF VoiceInv
<1> DEFINE c == recording[r]
           heard == chunks \union {r}
<1>0. /\ c.state = "ending" /\ c \in Voice!Recorder /\ r \in Nat
      /\ r = Len(recording) /\ sttDisabled = TRUE /\ starting = {}
      /\ late' = IF r < Len(recording) THEN late \union {r} ELSE late
      /\ UNCHANGED <<alive, stream, mic, micPromise, recordPromise, starting>>
  BY VoiceTypes DEF Voice!Stopped, Voice!micVars, VoiceInv, Wanted
<1>1. PICK error \in BOOLEAN :
         /\ recording' = [recording EXCEPT ![r].state = "uploading", ![r].sent = heard,
                                           ![r].wanted = ~error]
         /\ recorder' = 0
         /\ chunks' = {}
         /\ sttDisabled' = (sttDisabled /\ ~error)
  BY DEF Voice!Stopped
<1>2. late' = late
  BY <1>0
<1> DEFINE w == ~error
           d1 == RecorderOf("uploading", c.on, c.wanted, c.sent)
           d2 == RecorderOf("uploading", c.on, c.wanted, heard)
           d == RecorderOf("uploading", c.on, w, heard)
<1>3. heard \in SUBSET Nat /\ r \in heard /\ heard \ {r} \subseteq late
  BY <1>0 DEF VoiceInv, Chunks, Voice!TypeOK
<1>4. w \in BOOLEAN /\ sttDisabled' = w
  BY <1>0, <1>1
<1>5. recording' = [recording EXCEPT ![r] = d]
  <2>1. recording' = [recording EXCEPT ![r] = [[[c EXCEPT !.state = "uploading"]
                                                   EXCEPT !.sent = heard] EXCEPT !.wanted = w]]
    BY <1>1
  <2> HIDE DEF heard, w
  <2>2. [c EXCEPT !.state = "uploading"] = d1
    BY <1>0, RecorderTypes DEF RecorderOf
  <2>3. [d1 EXCEPT !.sent = heard] = d2
    BY DEF RecorderOf
  <2>4. [d2 EXCEPT !.wanted = w] = d
    BY DEF RecorderOf
  <2> HIDE DEF d1, d2, d
  <2> QED
    BY <2>1, <2>2, <2>3, <2>4
<1> HIDE DEF heard, w
<1>6. d \in Voice!Recorder /\ d.state = "uploading" /\ d.wanted = w /\ d.sent = heard
  <2>1. c.on \in Nat
    BY <1>0, RecorderTypes
  <2>2. d \in Voice!Recorder
    BY <1>3, <1>4, <2>1, RecorderOfType
  <2> QED
    BY <2>2 DEF RecorderOf
<1> HIDE DEF d
<1>7. /\ recording' \in Seq(Voice!Recorder) /\ Len(recording') = Len(recording)
      /\ DOMAIN recording' = DOMAIN recording /\ recording'[r] = d
      /\ \A q \in DOMAIN recording : q # r => recording'[q] = recording[q]
  <2>1. recording \in Seq(Voice!Recorder)
    BY DEF Voice!TypeOK
  <2> QED
    BY <1>5, <1>6, <2>1, RecWrite
<1>8. Voice!TypeOK'
  <2>1. recorder' \in 0..Len(recording') /\ chunks' \subseteq DOMAIN recording'
    BY <1>1, <1>7, VoiceTypes
  <2>2. late' \subseteq DOMAIN recording' /\ sttDisabled' \in BOOLEAN
    BY <1>2, <1>4, <1>7 DEF Voice!TypeOK
  <2> QED
    BY <1>0, <1>7, <2>1, <2>2 DEF Voice!TypeOK
<1>9. Voice!NoLeakedMic' /\ Prompt'
  BY <1>0 DEF VoiceInv, Voice!NoLeakedMic, Prompt
<1>10. Running'
  BY <1>0, <1>6, <1>7 DEF VoiceInv, Running
<1>11. Wanted'
  BY <1>0, <1>4, <1>6, <1>7 DEF VoiceInv, Wanted
<1>12. Chunks'
  BY <1>1 DEF Chunks
<1>13. Voice!TranscriptIsItsOwn'
  BY <1>2, <1>3, <1>6, <1>7 DEF VoiceInv, Voice!TranscriptIsItsOwn
<1> QED
  BY <1>8, <1>9, <1>10, <1>11, <1>12, <1>13 DEF VoiceInv

\* One that nobody waits for: the data is kept, and is late if a recorder is newer.
LEMMA KeptStep ==
    ASSUME VoiceInv, NEW r \in DOMAIN recording, Voice!Stopped(r), recording[r].wanted = FALSE
    PROVE  VoiceInv'
<1> Voice!TypeOK
  BY DEF VoiceInv
<1> DEFINE c == recording[r]
           d == [c EXCEPT !.state = "over"]
<1>0. /\ c.state = "ending" /\ c \in Voice!Recorder /\ r \in Nat /\ r <= Len(recording)
      /\ Len(recording) \in Nat
      /\ late' = IF r < Len(recording) THEN late \union {r} ELSE late
      /\ recording' = [recording EXCEPT ![r] = d]
      /\ chunks' = chunks \union {r}
      /\ UNCHANGED <<alive, stream, mic, micPromise, recorder, recordPromise, starting,
                     sttDisabled>>
  BY VoiceTypes DEF Voice!Stopped, Voice!micVars
<1>1. d \in Voice!Recorder /\ d.state = "over"
  BY <1>0, StateChange
<1> HIDE DEF d
<1>2. /\ recording' \in Seq(Voice!Recorder) /\ Len(recording') = Len(recording)
      /\ DOMAIN recording' = DOMAIN recording /\ recording'[r] = d
      /\ \A q \in DOMAIN recording : q # r => recording'[q] = recording[q]
  <2>1. recording \in Seq(Voice!Recorder)
    BY DEF Voice!TypeOK
  <2> QED
    BY <1>0, <1>1, <2>1, RecWrite
<1>3. late \subseteq late' /\ (r = Len(recording) \/ r \in late')
  BY <1>0
<1>4. Voice!TypeOK'
  <2>1. chunks' \subseteq DOMAIN recording' /\ late' \subseteq DOMAIN recording'
    BY <1>0, <1>2 DEF Voice!TypeOK
  <2> QED
    BY <1>0, <1>2, <2>1 DEF Voice!TypeOK
<1>5. Voice!NoLeakedMic' /\ Prompt'
  BY <1>0 DEF VoiceInv, Voice!NoLeakedMic, Prompt
<1>6. Running'
  BY <1>0, <1>1, <1>2 DEF VoiceInv, Running
<1>7. Wanted'
  BY <1>0, <1>1, <1>2 DEF VoiceInv, Wanted
<1>8. Chunks'
  BY <1>0, <1>2, <1>3 DEF VoiceInv, Chunks
<1>9. Voice!TranscriptIsItsOwn'
  BY <1>1, <1>2, <1>3 DEF VoiceInv, Voice!TranscriptIsItsOwn
<1> QED
  BY <1>4, <1>5, <1>6, <1>7, <1>8, <1>9 DEF VoiceInv

LEMMA UploadedStep ==
    ASSUME VoiceInv, NEW r \in DOMAIN recording, Voice!Uploaded(r)
    PROVE  VoiceInv'
<1> Voice!TypeOK
  BY DEF VoiceInv
<1> DEFINE c == recording[r]
           d == [c EXCEPT !.state = "uploaded"]
<1>0. /\ c.state = "uploading" /\ c \in Voice!Recorder
      /\ recording' = [recording EXCEPT ![r] = d]
      /\ sttDisabled' = (sttDisabled /\ ~c.wanted)
      /\ UNCHANGED <<alive, stream, mic, micPromise, recorder, chunks, recordPromise, starting,
                     late>>
  BY VoiceTypes DEF Voice!Uploaded, Voice!micVars
<1>1. /\ d \in Voice!Recorder /\ d.state = "uploaded" /\ d.sent = c.sent
      /\ c.wanted \in BOOLEAN
  BY <1>0, StateChange, RecorderTypes
<1> HIDE DEF d
<1>2. /\ recording' \in Seq(Voice!Recorder) /\ Len(recording') = Len(recording)
      /\ DOMAIN recording' = DOMAIN recording /\ recording'[r] = d
      /\ \A q \in DOMAIN recording : q # r => recording'[q] = recording[q]
  <2>1. recording \in Seq(Voice!Recorder)
    BY DEF Voice!TypeOK
  <2> QED
    BY <1>0, <1>1, <2>1, RecWrite
<1>3. Voice!TypeOK'
  <2>1. sttDisabled' \in BOOLEAN
    BY <1>0, <1>1 DEF Voice!TypeOK
  <2> QED
    BY <1>0, <1>2, <2>1 DEF Voice!TypeOK
<1>4. Voice!NoLeakedMic' /\ Prompt'
  BY <1>0 DEF VoiceInv, Voice!NoLeakedMic, Prompt
<1>5. Running'
  BY <1>0, <1>1, <1>2 DEF VoiceInv, Running
<1>6. Wanted'
  <2> SUFFICES ASSUME NEW q \in DOMAIN recording', recording'[q].wanted = TRUE,
                      recording'[q].state \in {"ending", "uploading"}
               PROVE  sttDisabled' = TRUE /\ starting' = {} /\ q = Len(recording')
    BY DEF Wanted
  <2>1. q # r /\ q \in DOMAIN recording /\ recording'[q] = recording[q]
    BY <1>1, <1>2
  <2>2. sttDisabled = TRUE /\ starting = {} /\ q = Len(recording)
    BY <2>1 DEF VoiceInv, Wanted
  <2>3. c.wanted # TRUE
    BY <1>0, <2>1, <2>2 DEF VoiceInv, Wanted
  <2> QED
    BY <1>0, <1>1, <1>2, <2>2, <2>3
<1>7. Chunks'
  BY <1>0, <1>2 DEF VoiceInv, Chunks
<1>8. Voice!TranscriptIsItsOwn'
  BY <1>0, <1>1, <1>2 DEF VoiceInv, Voice!TranscriptIsItsOwn
<1> QED
  BY <1>3, <1>4, <1>5, <1>6, <1>7, <1>8 DEF VoiceInv

LEMMA VoiceTeardown == ASSUME VoiceInv, Voice!Teardown PROVE VoiceInv'
<1> Voice!TypeOK
  BY DEF VoiceInv
<1> DEFINE recs == IF Voice!IsRecording THEN [recording EXCEPT ![recorder].state = "ending"]
                   ELSE recording
<1>0. /\ alive' = FALSE /\ recording' = Voice!Silence(recs, {mic}) /\ recorder' = 0
      /\ chunks' = {} /\ recordPromise' = FALSE /\ mic' = 0
      /\ stream' = (IF mic = 0 THEN stream ELSE [stream EXCEPT ![mic] = "dead"])
      /\ UNCHANGED <<micPromise, starting, sttDisabled, late>>
  BY DEF Voice!Teardown, Voice!ReleaseMic
<1>1. /\ recs \in Seq(Voice!Recorder) /\ Len(recs) = Len(recording)
      /\ DOMAIN recs = DOMAIN recording
      /\ \A r \in DOMAIN recording :
            /\ recs[r].wanted = recording[r].wanted /\ recs[r].sent = recording[r].sent
            /\ \/ recs[r].state = recording[r].state /\ recording[r].state # "recording"
               \/ recording[r].state = "recording" /\ recs[r].state = "ending"
  <2>0. recording \in Seq(Voice!Recorder)
    BY DEF Voice!TypeOK
  <2>1. CASE Voice!IsRecording
    <3> DEFINE c == recording[recorder]
               d == [c EXCEPT !.state = "ending"]
    <3>1. /\ recorder \in DOMAIN recording /\ c.state = "recording" /\ c \in Voice!Recorder
          /\ \A r \in DOMAIN recording : recording[r].state = "recording" => r = recorder
      BY <2>1, VoiceTypes DEF Voice!IsRecording, VoiceInv, Running
    <3>2. recs = [recording EXCEPT ![recorder] = d]
      BY <2>1
    <3>3. /\ d \in Voice!Recorder /\ d.state = "ending" /\ d.sent = c.sent
          /\ d.wanted = c.wanted
      BY <3>1, StateChange
    <3> HIDE DEF d, recs
    <3>4. /\ recs \in Seq(Voice!Recorder) /\ Len(recs) = Len(recording)
          /\ DOMAIN recs = DOMAIN recording /\ recs[recorder] = d
          /\ \A q \in DOMAIN recording : q # recorder => recs[q] = recording[q]
      BY <2>0, <3>1, <3>2, <3>3, RecWrite
    <3> QED
      BY <3>1, <3>3, <3>4
  <2>2. CASE ~Voice!IsRecording
    <3>1. recs = recording
      BY <2>2
    <3>2. \A r \in DOMAIN recording : recording[r].state # "recording"
      BY <2>2, VoiceTypes DEF Voice!IsRecording, VoiceInv, Running
    <3> HIDE DEF recs
    <3> QED
      BY <2>0, <3>1, <3>2
  <2> QED
    BY <2>1, <2>2
<1> HIDE DEF recs
<1>2. /\ recording' \in Seq(Voice!Recorder) /\ Len(recording') = Len(recording)
      /\ DOMAIN recording' = DOMAIN recording
      /\ \A r \in DOMAIN recording :
            /\ recording'[r].wanted = recording[r].wanted
            /\ recording'[r].sent = recording[r].sent
            /\ \/ recording'[r].state = recording[r].state /\ recording[r].state # "recording"
               \/ recording[r].state = "recording" /\ recording'[r].state = "ending"
  <2>1. /\ recording' \in Seq(Voice!Recorder) /\ Len(recording') = Len(recs)
        /\ DOMAIN recording' = DOMAIN recs
        /\ \A r \in DOMAIN recs :
              /\ recording'[r].wanted = recs[r].wanted /\ recording'[r].sent = recs[r].sent
              /\ \/ recording'[r].state = recs[r].state
                 \/ recs[r].state = "recording" /\ recording'[r].state = "ending"
    BY <1>0, <1>1, Silenced
  <2> QED
    BY <1>1, <2>1
<1>3. /\ stream' \in Seq(Voice!Request) /\ Len(stream') = Len(stream)
      /\ DOMAIN stream' = DOMAIN stream
      /\ \A j \in DOMAIN stream : stream'[j] # "live" /\ (stream'[j] = "asked" => stream[j] = "asked")
  <2>1. \A j \in DOMAIN stream : stream[j] = "live" => j = mic /\ mic # 0
    BY VoiceTypes DEF VoiceInv, Voice!NoLeakedMic
  <2>2. CASE mic = 0
    BY <1>0, <2>1, <2>2 DEF Voice!TypeOK
  <2>3. CASE mic # 0
    <3>1. /\ stream' \in Seq(Voice!Request) /\ Len(stream') = Len(stream)
          /\ DOMAIN stream' = DOMAIN stream
          /\ stream'[mic] = "dead" /\ \A j \in DOMAIN stream : j # mic => stream'[j] = stream[j]
      <4>1. mic \in DOMAIN stream /\ "dead" \in Voice!Request
        BY <2>3, VoiceTypes DEF Voice!Request
      <4>2. stream' = [stream EXCEPT ![mic] = "dead"]
        BY <1>0, <2>3
      <4> QED
        BY <4>1, <4>2, StreamWrite
    <3> QED
      BY <2>1, <3>1
  <2> QED
    BY <2>2, <2>3
<1>4. Voice!TypeOK'
  <2>1. mic' \in 0..Len(stream') /\ recorder' \in 0..Len(recording')
    BY <1>0, <1>2, <1>3, VoiceTypes
  <2>2. micPromise' \subseteq DOMAIN stream' /\ starting' \subseteq DOMAIN stream'
    BY <1>0, <1>3 DEF Voice!TypeOK
  <2>3. chunks' \subseteq DOMAIN recording' /\ late' \subseteq DOMAIN recording'
    BY <1>0, <1>2 DEF Voice!TypeOK
  <2>4. alive' \in BOOLEAN /\ recordPromise' \in BOOLEAN
    BY <1>0
  <2>5. sttDisabled' \in BOOLEAN
    BY <1>0 DEF Voice!TypeOK
  <2> QED
    BY <1>2, <1>3, <2>1, <2>2, <2>3, <2>4, <2>5 DEF Voice!TypeOK
<1>5. Voice!NoLeakedMic' /\ Prompt'
  BY <1>0, <1>3 DEF VoiceInv, Prompt, Voice!NoLeakedMic
<1>6. Running'
  BY <1>2 DEF Running
<1>7. Wanted'
  BY <1>0, <1>2 DEF VoiceInv, Wanted, Running
<1>8. Chunks' /\ Voice!TranscriptIsItsOwn'
  BY <1>0, <1>2 DEF VoiceInv, Chunks, Voice!TranscriptIsItsOwn
<1> QED
  BY <1>4, <1>5, <1>6, <1>7, <1>8 DEF VoiceInv

LEMMA VoiceInvInit == Voice!Init => VoiceInv
<1> SUFFICES ASSUME Voice!Init PROVE VoiceInv
  OBVIOUS
<1>1. Voice!TypeOK
  <2>1. alive \in BOOLEAN /\ recordPromise \in BOOLEAN /\ sttDisabled \in BOOLEAN
    BY DEF Voice!Init
  <2>2. stream \in Seq(Voice!Request) /\ recording \in Seq(Voice!Recorder)
    BY DEF Voice!Init
  <2>3. mic \in 0..Len(stream) /\ recorder \in 0..Len(recording)
    BY DEF Voice!Init
  <2>4. /\ micPromise \subseteq DOMAIN stream /\ starting \subseteq DOMAIN stream
        /\ chunks \subseteq DOMAIN recording /\ late \subseteq DOMAIN recording
    BY DEF Voice!Init
  <2> QED
    BY <2>1, <2>2, <2>3, <2>4 DEF Voice!TypeOK
<1>2. DOMAIN stream = {} /\ DOMAIN recording = {}
  BY DEF Voice!Init
<1>3. Voice!NoLeakedMic /\ Running /\ Wanted /\ Voice!TranscriptIsItsOwn
  BY <1>2 DEF Voice!NoLeakedMic, Running, Wanted, Voice!TranscriptIsItsOwn
<1>4. Prompt /\ Chunks
  BY <1>2 DEF Voice!Init, Prompt, Chunks
<1> QED
  BY <1>1, <1>3, <1>4 DEF VoiceInv

LEMMA VoiceInvStep == VoiceInv /\ [Voice!Next]_(Voice!vars) => VoiceInv'
<1> SUFFICES ASSUME VoiceInv, [Voice!Next]_(Voice!vars) PROVE VoiceInv'
  OBVIOUS
<1>1. CASE \/ Voice!MicOn \/ Voice!MicOff \/ Voice!Stop \/ Voice!StartAsks \/ Voice!StartNow
           \/ Voice!Teardown
  BY <1>1, OffStep, AskStep, StopStep, StartStep, VoiceTeardown
<1>2. ASSUME NEW k \in DOMAIN stream, Voice!Grant(k) \/ Voice!Refuse(k) \/ Voice!Revoke(k)
      PROVE  VoiceInv'
  BY <1>2, AnswerStep, RevokeStep
<1>3. ASSUME NEW r \in DOMAIN recording, Voice!Stopped(r) \/ Voice!Uploaded(r)
      PROVE  VoiceInv'
  <2>1. recording[r].wanted \in BOOLEAN
    BY VoiceTypes, RecorderTypes DEF VoiceInv
  <2> QED
    BY <1>3, <2>1, SentStep, KeptStep, UploadedStep
<1>4. CASE UNCHANGED Voice!vars
  <2>1. /\ UNCHANGED <<alive, stream, mic, micPromise, recording, recorder, chunks>>
        /\ UNCHANGED <<recordPromise, starting, sttDisabled, late>>
    BY <1>4 DEF Voice!vars
  <2>2. Voice!TypeOK' /\ Voice!NoLeakedMic'
    BY <2>1 DEF VoiceInv, Voice!TypeOK, Voice!NoLeakedMic
  <2>3. Prompt' /\ Running' /\ Wanted' /\ Chunks' /\ Voice!TranscriptIsItsOwn'
    BY <2>1 DEF VoiceInv, Prompt, Running, Wanted, Chunks, Voice!TranscriptIsItsOwn
  <2> QED
    BY <2>2, <2>3 DEF VoiceInv
<1> QED
  BY <1>1, <1>2, <1>3, <1>4 DEF Voice!Next

LEMMA VoiceAlone == PageSpec => Voice!Spec
<1>1. PageInit => Voice!Init
  BY DEF PageInit
<1>2. [PageNext]_pageVars => [Voice!Next]_(Voice!vars)
  BY DEF PageNext, pageVars, SocketStep, ChatStep, VoiceStep, SpeechStep, voiceVars, Voice!vars
<1> QED
  BY <1>1, <1>2, PTL DEF PageSpec, Voice!Spec

LEMMA VoiceInvAlways == PageSpec => []VoiceInv
BY VoiceInvInit, VoiceInvStep, VoiceAlone, PTL DEF Voice!Spec

\* No stream is live and no recorder records that the page does not hold and
\* could not stop, whatever the operator answers or revokes, and when.
THEOREM CaptureStaysHeld == PageSpec => []CaptureIsHeld
<1>1. VoiceInv => CaptureIsHeld
  BY DEF VoiceInv, Running, CaptureIsHeld, Voice!RecordingIsHeld
<1> QED
  BY <1>1, VoiceInvAlways, PTL

\* What is sent to be transcribed is the data of its recording, and nothing of
\* another but what came too late for that one.
THEOREM TranscriptsAreTheirOwn == PageSpec => []TranscriptIsItsOwn
<1>1. VoiceInv => TranscriptIsItsOwn
  BY DEF VoiceInv, TranscriptIsItsOwn
<1> QED
  BY <1>1, VoiceInvAlways, PTL

-----------------------------------------------------------------------------
(* Spoken answers                                                          *)

\* Only in its state does an utterance change, and those of n may be heard.
Chain(n) ==
    /\ \A u \in 1..n : said[u].after = u - 1
    /\ \A u, v \in 1..n : u < v /\ said[v].state # "queued" => Speech!Settled(u)
    /\ \A u \in DOMAIN said : u > n => said[u].state \in {"queued", "dropped"}
    /\ up = TRUE => n = Len(said) /\ queue = n

SpeechInv == Speech!TypeOK /\ \E n \in 0..Len(said) : Chain(n)

-----------------------------------------------------------------------------
\* What Become does to the chain of n, if the state it gives to u may follow
\* that of the utterances before it.
LEMMA BecomeKeepsChain ==
    ASSUME Speech!TypeOK,
           NEW n \in 0..Len(said), Chain(n),
           NEW u \in DOMAIN said,
           NEW s \in {"fetching", "playing", "over", "dropped"}, Speech!Become(u, s),
           ~Speech!Settled(u),
           u > n => s = "dropped",
           \A t \in 1..n : t < u /\ u <= n => Speech!Settled(t)
    PROVE  Speech!TypeOK' /\ n \in 0..Len(said)' /\ Chain(n)'
<1> /\ \A t \in DOMAIN said : said[t] \in Speech!Utterance /\ t \in Nat /\ 1 <= t /\ t <= Len(said)
    /\ \A t \in Nat : 1 <= t /\ t <= Len(said) => t \in DOMAIN said
  BY DEF Speech!TypeOK
<1>1. said' = [said EXCEPT ![u].state = s] /\ up' = up /\ queue' = queue
  BY DEF Speech!Become
<1>2. /\ said' \in Seq(Speech!Utterance)
      /\ Len(said') = Len(said) /\ DOMAIN said' = DOMAIN said
      /\ \A t \in DOMAIN said : /\ said'[t].after = said[t].after
                                /\ t # u => said'[t].state = said[t].state
      /\ said'[u].state = s
  <2>1. [said[u] EXCEPT !.state = s] \in Speech!Utterance
    BY DEF Speech!Utterance
  <2>2. said' = [said EXCEPT ![u] = [said[u] EXCEPT !.state = s]]
    BY <1>1
  <2> HIDE <1>1
  <2>3. said' \in Seq(Speech!Utterance) /\ Len(said') = Len(said)
    BY <2>1, <2>2 DEF Speech!TypeOK
  <2>4. \A t \in DOMAIN said : said'[t] = IF t = u THEN [said[u] EXCEPT !.state = s] ELSE said[t]
    BY <2>2
  <2> QED
    BY <2>2, <2>3, <2>4 DEF Speech!Utterance
<1>3. Speech!TypeOK'
  BY <1>1, <1>2 DEF Speech!TypeOK
<1> n \in Nat /\ 1..n \subseteq DOMAIN said
  <2> Len(said) \in Nat /\ n <= Len(said)
    BY DEF Speech!TypeOK
  <2> QED
    OBVIOUS
<1>4. (\A t \in 1..n : said[t].after = t - 1)'
  BY <1>2 DEF Chain
<1>5. (\A t, v \in 1..n : t < v /\ said[v].state # "queued" => Speech!Settled(t))'
  <2> SUFFICES ASSUME NEW t \in 1..n, NEW v \in 1..n, t < v, said'[v].state # "queued"
               PROVE  Speech!Settled(t)'
    OBVIOUS
  <2>1. CASE v = u
    BY <2>1, <1>2 DEF Speech!Settled
  <2>2. CASE v # u
    <3>1. Speech!Settled(t)
      BY <2>2, <1>2 DEF Chain
    <3> QED
      BY <3>1, <1>2 DEF Speech!Settled
  <2> QED
    BY <2>1, <2>2
<1>6. (\A t \in DOMAIN said : t > n => said[t].state \in {"queued", "dropped"})'
  BY <1>2 DEF Chain
<1> QED
  BY <1>1, <1>2, <1>3, <1>4, <1>5, <1>6 DEF Chain

\* The invariant holds at first.
LEMMA SpeechInvInit == Speech!Init => SpeechInv
<1> SUFFICES ASSUME Speech!Init PROVE SpeechInv
  OBVIOUS
<1>1. Speech!TypeOK
  BY DEF Speech!Init, Speech!TypeOK
<1>2. Chain(0) /\ 0 \in 0..Len(said)
  BY DEF Speech!Init, Chain
<1> QED
  BY <1>1, <1>2 DEF SpeechInv

\* Every step keeps it.
LEMMA SpeechInvStep == SpeechInv /\ [Speech!Next]_(Speech!vars) => SpeechInv'
<1> SUFFICES ASSUME SpeechInv, [Speech!Next]_(Speech!vars) PROVE SpeechInv'
  OBVIOUS
<1> Speech!TypeOK
  BY DEF SpeechInv
<1> /\ \A t \in DOMAIN said : said[t] \in Speech!Utterance /\ t \in Nat /\ 1 <= t /\ t <= Len(said)
    /\ \A t \in Nat : 1 <= t /\ t <= Len(said) => t \in DOMAIN said
  BY DEF Speech!TypeOK
<1>0. PICK n \in 0..Len(said) : Chain(n)
  BY DEF SpeechInv
<1> n \in Nat /\ Len(said) \in Nat /\ n <= Len(said) /\ 1..n \subseteq DOMAIN said
  <2> Len(said) \in Nat
    BY DEF Speech!TypeOK
  <2> QED
    OBVIOUS
<1>1. CASE Speech!Speak
  <2> DEFINE new == [state |-> "queued", after |-> queue]
  <2>1. new \in Speech!Utterance
    BY DEF Speech!TypeOK, Speech!Utterance
  <2>2. said' = Append(said, new) /\ queue' = Len(said) + 1 /\ up' = up
    BY <1>1 DEF Speech!Speak
  <2> HIDE DEF new
  <2>3. /\ said' \in Seq(Speech!Utterance)
        /\ Len(said') = Len(said) + 1
        /\ \A t \in DOMAIN said' : t \in DOMAIN said \/ t = Len(said) + 1
        /\ \A t \in DOMAIN said : said'[t] = said[t]
        /\ said'[Len(said) + 1] = new
    BY <2>1, <2>2 DEF Speech!TypeOK
  <2>4. Speech!TypeOK'
    BY <2>2, <2>3 DEF Speech!TypeOK
  <2>5. CASE up = TRUE
    <3>0. n = Len(said) /\ queue = n
      BY <1>0, <2>5 DEF Chain
    <3> PICK k \in 0..Len(said') : k = Len(said) + 1
      BY <2>3
    <3>1. \A u \in 1..k : said'[u].after = u - 1
      <4> SUFFICES ASSUME NEW u \in 1..k PROVE said'[u].after = u - 1
        OBVIOUS
      <4>1. CASE u = Len(said) + 1
        BY <2>3, <3>0, <4>1 DEF new
      <4>2. CASE u # Len(said) + 1
        <5>1. u \in 1..n /\ u \in DOMAIN said
          BY <3>0, <4>2
        <5> QED
          BY <1>0, <2>3, <5>1 DEF Chain
      <4> QED
        BY <4>1, <4>2
    <3>2. \A u, v \in 1..k : u < v /\ said'[v].state # "queued" => Speech!Settled(u)'
      <4> SUFFICES ASSUME NEW u \in 1..k, NEW v \in 1..k, u < v,
                          said'[v].state # "queued"
                   PROVE  Speech!Settled(u)'
        OBVIOUS
      <4>1. v # Len(said) + 1
        BY <2>3 DEF new
      <4>2. u \in 1..n /\ v \in 1..n
        BY <3>0, <4>1
      <4>3. said'[u] = said[u] /\ said'[v] = said[v]
        BY <2>3, <4>2
      <4>4. Speech!Settled(u)
        BY <1>0, <4>2, <4>3 DEF Chain
      <4> QED
        BY <4>3, <4>4 DEF Speech!Settled
    <3>3. \A u \in DOMAIN said' : ~(u > k)
      BY <2>3, <3>0
    <3>4. k = Len(said') /\ queue' = k
      BY <2>2, <2>3
    <3>5. Chain(k)'
      BY <3>1, <3>2, <3>3, <3>4 DEF Chain
    <3> QED
      BY <3>0, <3>5, <2>4 DEF SpeechInv
  <2>6. CASE up = FALSE
    <3>1. Chain(n)'
      BY <1>0, <2>2, <2>3, <2>6 DEF Chain, Speech!Settled, new
    <3> QED
      BY <3>1, <2>3, <2>4 DEF SpeechInv
  <2> QED
    BY <2>5, <2>6 DEF Speech!TypeOK
<1>2. CASE Speech!Teardown
  <2>1. said' = said /\ up' = FALSE /\ queue' = 0
    BY <1>2 DEF Speech!Teardown
  <2>2. up' \in BOOLEAN /\ up' # TRUE
    BY <2>1
  <2>3. Speech!TypeOK'
    BY <2>1, <2>2 DEF Speech!TypeOK
  <2>4. Chain(n)'
    BY <1>0, <2>1, <2>2 DEF Chain, Speech!Settled
  <2> QED
    BY <2>1, <2>3, <2>4 DEF SpeechInv
<1>3. ASSUME NEW u \in DOMAIN said, Speech!Begin(u) PROVE SpeechInv'
  <2>1. ~Speech!Settled(u)
    BY <1>3 DEF Speech!Begin, Speech!Settled
  <2> u \in Nat /\ u <= Len(said)
    OBVIOUS
  <2>2. u > n => up # TRUE
    <3> SUFFICES ASSUME up = TRUE PROVE ~(u > n)
      OBVIOUS
    <3>1. n = Len(said)
      BY <1>0 DEF Chain
    <3> QED
      BY <3>1
  <2>3. \A t \in 1..n : t < u /\ u <= n => Speech!Settled(t)
    <3> SUFFICES ASSUME NEW t \in 1..n, t < u, u <= n PROVE Speech!Settled(t)
      OBVIOUS
    <3>0. u \in 1..n /\ u - 1 # 0
      OBVIOUS
    <3>1. said[u].after = u - 1 /\ Speech!Settled(u - 1)
      BY <1>0, <1>3, <3>0 DEF Chain, Speech!Begin
    <3>2. said[u - 1].state # "queued"
      BY <3>1 DEF Speech!Settled
    <3>3. CASE t = u - 1
      BY <3>1, <3>3
    <3>4. CASE t < u - 1
      <4>1. u - 1 \in 1..n
        OBVIOUS
      <4> QED
        BY <1>0, <3>2, <3>4, <4>1 DEF Chain
    <3> QED
      BY <3>3, <3>4
  <2>4. CASE up = TRUE
    <3>1. Speech!Become(u, "fetching")
      BY <1>3, <2>4 DEF Speech!Begin
    <3> QED
      BY <1>0, <2>1, <2>2, <2>3, <2>4, <3>1, BecomeKeepsChain DEF SpeechInv
  <2>5. CASE up = FALSE
    <3>1. Speech!Become(u, "dropped")
      BY <1>3, <2>5 DEF Speech!Begin
    <3> QED
      BY <1>0, <2>1, <2>3, <3>1, BecomeKeepsChain DEF SpeechInv
  <2> QED
    BY <2>4, <2>5 DEF Speech!TypeOK
<1>4. ASSUME NEW u \in DOMAIN said, Speech!Fetched(u) \/ Speech!Played(u) PROVE SpeechInv'
  <2>1. Speech!Voiced(u) /\ (Speech!Become(u, "playing") \/ Speech!Become(u, "over"))
    BY <1>4 DEF Speech!Fetched, Speech!Played, Speech!Voiced
  <2> u \in Nat /\ 1 <= u
    OBVIOUS
  <2>2. u <= n /\ ~Speech!Settled(u) /\ said[u].state # "queued"
    BY <1>0, <2>1 DEF Chain, Speech!Voiced, Speech!Settled
  <2>3. \A t \in 1..n : t < u /\ u <= n => Speech!Settled(t)
    <3>1. u \in 1..n
      BY <2>2
    <3> QED
      BY <1>0, <2>2, <3>1 DEF Chain
  <2> QED
    BY <1>0, <2>1, <2>2, <2>3, BecomeKeepsChain DEF SpeechInv
<1>5. CASE UNCHANGED Speech!vars
  <2>1. Speech!TypeOK' /\ Chain(n)' /\ n \in 0..Len(said)'
    BY <1>0, <1>5 DEF Speech!vars, Speech!TypeOK, Chain, Speech!Settled
  <2> QED
    BY <2>1 DEF SpeechInv
<1> QED
  BY <1>1, <1>2, <1>3, <1>4, <1>5 DEF Speech!Next

\* A behaviour of the page is one of its utterances.
LEMMA SpeechAlone == PageSpec => Speech!Spec
<1>1. PageInit => Speech!Init
  BY DEF PageInit
<1>2. [PageNext]_pageVars => [Speech!Next]_(Speech!vars)
  BY DEF PageNext, pageVars, SocketStep, ChatStep, VoiceStep, SpeechStep, speechVars, Speech!vars
<1> QED
  BY <1>1, <1>2, PTL DEF PageSpec, Speech!Spec

\* "two clicks don't overlap" (voice.ts:23): at no time are two utterances
\* fetched or played, and each is heard only after those said before it.
THEOREM OneVoiceAlways == PageSpec => []OneVoice
<1>1. SpeechInv => OneVoice
  BY DEF SpeechInv, Speech!TypeOK, OneVoice, Speech!OneVoice, Chain, Speech!Voiced
<1> QED
  BY <1>1, SpeechInvInit, SpeechInvStep, SpeechAlone, PTL DEF Speech!Spec

\* Every part of the page keeps its types.
THEOREM PageTypesHold == PageSpec => []PageTypeOK
<1>1. SocketInv => Socket!TypeOK
  BY DEF SocketInv
<1>2. ChatInv => Chat!TypeOK
  BY DEF ChatInv
<1>3. VoiceInv => Voice!TypeOK
  BY DEF VoiceInv
<1>4. SpeechInv => Speech!TypeOK
  BY DEF SpeechInv
<1>5. Socket!TypeOK /\ Chat!TypeOK /\ Voice!TypeOK /\ Speech!TypeOK => PageTypeOK
  BY DEF PageTypeOK
<1>6. PageSpec => []SpeechInv
  BY SpeechInvInit, SpeechInvStep, SpeechAlone, PTL DEF Speech!Spec
<1> QED
  BY <1>1, <1>2, <1>3, <1>4, <1>5, <1>6, SocketInvAlways, ChatInvAlways, VoiceInvAlways, PTL
=============================================================================
