----------------------------- MODULE ChatStrand -----------------------------
(***************************************************************************)
(* The conversation strand of the cockpit (apps/cockpit/src/runtime/chat   *)
(* .ts): messages shown before the sidecar has them, answers streamed as   *)
(* server-sent events over the POST that sends the message.                *)
(*                                                                         *)
(* A send suspends at each await, and the input bar does not wait for it:  *)
(* sends overlap, and the page may be torn down under them.                *)
(***************************************************************************)
EXTENDS Naturals, Sequences

CONSTANTS
    Sends,     \* calls of send with a text
    MaxFrames  \* bound on the frames of one stream

VARIABLES
    booted,    \* whether setup has settled
    thread,    \* whether state.thread is set
    messages,  \* state.messages, as <<send, role>>
    inflight,  \* the send whose controller state.inflight holds, if any
    req,       \* send -> the state of its call
    overlapped \* whether a send ever began under another

vars == <<booted, thread, messages, inflight, req, overlapped>>

-----------------------------------------------------------------------------
(* Types                                                                   *)

\* What a frame does: names the trace or adds text, reports an error, or nothing
\* (stream.closed, a comment, data that is not JSON).
Frame == {"update", "error", "idle"}

MessageStatus == {"sending", "delivered", "failed"}

\* sent: the frames whose bytes arrived whole; buf: frames not yet handled, the
\* last one still open if cut; handled: the frames handleFrame took.
Call == [pc : {"new", "posting", "reading", "done"}, aborted : BOOLEAN,
         user : MessageStatus, asst : MessageStatus, started : BOOLEAN,
         sent : Seq(Frame), buf : Seq(Frame), cut : BOOLEAN, handled : Seq(Frame)]

TypeOK ==
    /\ booted \in BOOLEAN
    /\ thread \in BOOLEAN
    /\ messages \in Seq(Sends \X {"user", "assistant"})
    /\ inflight \subseteq Sends
    /\ req \in [Sends -> Call]
    /\ overlapped \in BOOLEAN

-----------------------------------------------------------------------------
(* Helpers                                                                 *)

Unsent == [pc |-> "new", aborted |-> FALSE, user |-> "sending", asst |-> "sending",
           started |-> FALSE, sent |-> <<>>, buf |-> <<>>, cut |-> FALSE, handled |-> <<>>]

Ongoing(s) == req[s].pc \in {"posting", "reading"}

Starts(frames) == \E i \in DOMAIN frames : frames[i] # "idle"
Fails(frames) == \E i \in DOMAIN frames : frames[i] = "error"

\* handleFrame over frames, on the assistant message of call c.
Handle(c, frames) ==
    [c EXCEPT !.handled = @ \o frames,
              !.started = @ \/ Starts(frames),
              !.asst = IF Fails(frames) THEN "failed" ELSE @]

\* Mutant: one frame of what is buffered is taken, and the rest dropped.
ConsumeOne(c) ==
    IF c.buf = <<>> \/ (c.cut /\ Len(c.buf) = 1) THEN c
    ELSE LET first == SubSeq(c.buf, 1, 1)
             rest  == IF c.cut THEN SubSeq(c.buf, Len(c.buf), Len(c.buf)) ELSE <<>>
         IN  [Handle(c, first) EXCEPT !.buf = rest]

\* consumeBufferedFrames: every frame whose boundary has arrived, in order.
Consume(c) ==
    LET whole == IF c.cut THEN Len(c.buf) - 1 ELSE Len(c.buf)
    IN  [Handle(c, SubSeq(c.buf, 1, whole)) EXCEPT !.buf = SubSeq(@, whole + 1, Len(@))]

\* Mutant: a last frame without its blank line is dropped.
FlushNothing(c) == [c EXCEPT !.buf = <<>>, !.cut = FALSE]

\* What is left when the stream ends is handled as a frame.
Flush(c) == [Handle(c, c.buf) EXCEPT !.buf = <<>>, !.cut = FALSE]

\* The assistant message enters the strand with the first frame that updates it.
Shown(s, before, after) ==
    IF after.started /\ ~before.started
    THEN Append(messages, <<s, "assistant">>) ELSE messages

\* The finally of send, when nothing was thrown.
Finish(c) == [c EXCEPT !.pc = "done", !.asst = IF c.started THEN "delivered" ELSE @]

\* Its catch and finally, when something was.
Failed(c) == [c EXCEPT !.pc = "done", !.user = "failed",
                       !.asst = IF c.started THEN "failed" ELSE @]

-----------------------------------------------------------------------------
(* setup, teardown                                                         *)

\* The page settles setup once, before a teardown can run.
Setup ==
    /\ ~booted
    /\ booted' = TRUE
    /\ thread' \in BOOLEAN
    /\ UNCHANGED <<messages, inflight, req, overlapped>>

\* Mutant: the stream in flight is not aborted.
TeardownLetsRun ==
    /\ booted
    /\ thread' = FALSE
    /\ messages' = <<>>
    /\ inflight' = {}
    /\ UNCHANGED <<booted, req, overlapped>>

Teardown ==
    /\ booted
    /\ thread' = FALSE
    /\ messages' = <<>>
    /\ inflight' = {}
    /\ req' = [s \in Sends |-> IF s \in inflight THEN [req[s] EXCEPT !.aborted = TRUE]
                               ELSE req[s]]
    /\ UNCHANGED <<booted, overlapped>>

-----------------------------------------------------------------------------
(* send, up to each of its awaits                                          *)

Send(s) ==
    /\ thread
    /\ req[s].pc = "new"
    /\ req' = [req EXCEPT ![s].pc = "posting"]
    /\ messages' = Append(messages, <<s, "user">>)
    /\ inflight' = {s}
    /\ overlapped' = (overlapped \/ \E o \in Sends : Ongoing(o))
    /\ UNCHANGED <<booted, thread>>

\* fetch answered 200 with a body.
Accepted(s) ==
    /\ req[s].pc = "posting"
    /\ ~req[s].aborted
    /\ req' = [req EXCEPT ![s].pc = "reading", ![s].user = "delivered"]
    /\ UNCHANGED <<booted, thread, messages, inflight, overlapped>>

\* One chunk: frames that begin in it, the last of them perhaps still open.
Receive(c, new, cut) ==
    Consume([c EXCEPT !.buf = @ \o new, !.sent = @ \o new, !.cut = cut])

Read(s) ==
    /\ req[s].pc = "reading"
    /\ ~req[s].aborted
    /\ \E n \in 0..2 : \E new \in [1..n -> Frame], cut \in BOOLEAN :
         LET c    == req[s]
             read == Receive(c, new, cut)
         IN  /\ Len(c.sent \o new) <= MaxFrames
             /\ cut => Len(c.buf \o new) > 0
             /\ req' = [req EXCEPT ![s] = read]
             /\ messages' = Shown(s, c, read)
    /\ UNCHANGED <<booted, thread, inflight, overlapped>>

\* The stream ends; a frame still open is whole, or torn and no JSON.
StreamEnds(s) ==
    /\ req[s].pc = "reading"
    /\ ~req[s].aborted
    /\ \E torn \in IF req[s].cut THEN BOOLEAN ELSE {FALSE} :
         LET c    == IF torn THEN [req[s] EXCEPT !.buf = <<"idle">>,
                                     !.sent = SubSeq(@, 1, Len(@) - 1) \o <<"idle">>]
                     ELSE req[s]
             read == Flush(c)
         IN  /\ req' = [req EXCEPT ![s] = Finish(read)]
             /\ messages' = Shown(s, c, read)
    /\ inflight' = {}
    /\ UNCHANGED <<booted, thread, overlapped>>

\* The POST or a read fails, or was aborted.
Breaks(s) ==
    /\ Ongoing(s)
    /\ req' = [req EXCEPT ![s] = Failed(@)]
    /\ inflight' = {}
    /\ UNCHANGED <<booted, thread, messages, overlapped>>

-----------------------------------------------------------------------------
Init ==
    /\ booted = FALSE
    /\ thread = FALSE
    /\ messages = <<>>
    /\ inflight = {}
    /\ req = [s \in Sends |-> Unsent]
    /\ overlapped = FALSE

Next ==
    \/ Setup
    \/ Teardown
    \/ \E s \in Sends : Send(s) \/ Accepted(s) \/ Read(s) \/ StreamEnds(s) \/ Breaks(s)

Spec == Init /\ [][Next]_vars

-----------------------------------------------------------------------------
(* Properties                                                              *)

\* An answer shown as delivered is the whole answer: wherever the chunks of its
\* stream were cut, and whether or not it ended with a blank line, every frame
\* that arrived was handled, once and in order.
AnswerIsWhole ==
    \A s \in Sends : req[s].pc = "done" /\ req[s].asst = "delivered" =>
        req[s].handled = req[s].sent

\* A torn-down strand stays empty: a stream that was in flight adds no message
\* to it. (Not so once two sends have overlapped: state.inflight then holds the
\* later controller, or none.)
TornDownStaysEmpty == booted /\ ~thread /\ ~overlapped => messages = <<>>
=============================================================================
