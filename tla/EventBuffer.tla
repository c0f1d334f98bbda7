----------------------------- MODULE EventBuffer -----------------------------
(***************************************************************************)
(* The durable buffer of events on their way to the ingest service: emit,  *)
(* replay_unpushed and repush_trace of backend/core/meeet/client.py and    *)
(* store.py, the replay loop of web_extras/app.py, and the privacy gate of *)
(* emit. An event is inserted, posted and then marked pushed; what was not *)
(* marked is posted again by a replay, of this process or of the CLI's.    *)
(***************************************************************************)
EXTENDS Naturals, Sequences, FiniteSetsExt

CONSTANTS
    Loop,      \* the periodic replay
    Hands,     \* replays and repushes an operator asks for
    MaxEvents,
    Refused,   \* events the ingest service refuses each time
    Limit,     \* events one replay takes
    MaxFaults  \* bound on outages, lost answers, failed writes and stops

VARIABLES
    event,  \* the events emitted, oldest first
    sender, \* replay -> where it is suspended, and what it has yet to post
    strict, \* whether the privacy mode blocks telemetry
    faults

vars == <<event, sender, strict, faults>>

-----------------------------------------------------------------------------
Senders == Hands \union {Loop}
Id == 1..MaxEvents

\* A replay takes an event at least (replay_cli.py).
Bounds == MaxEvents \in Nat /\ MaxFaults \in Nat /\ Limit \in Nat \ {0}

\* row: none, if the insert failed. pc: where emit is; ok: how its POST went.
\* held: the privacy gate held it back, and the mode has not changed since.
Event == [row : {"none", "open", "pushed"}, pc : {"inserted", "posted", "done"},
          ok : BOOLEAN, arrived : BOOLEAN, held : BOOLEAN]

Sender == [pc : {"idle", "push", "mark"}, queue : SUBSET Id, ok : BOOLEAN]

TypeOK ==
    /\ event \in Seq(Event) /\ Len(event) <= MaxEvents
    /\ sender \in [Senders -> Sender]
    /\ strict \in BOOLEAN
    /\ faults \in 0..MaxFaults

Idle == [pc |-> "idle", queue |-> {}, ok |-> FALSE]

Open == {e \in DOMAIN event : event[e].row = "open"}

Fault == faults < MaxFaults /\ faults' = faults + 1

\* Mutant: a batch is one event short of its limit.
NewestShort(events) == {e \in events : Cardinality({f \in events : f > e}) < Limit - 1}

\* list_events: the newest, up to the limit.
Newest(events) == {e \in events : Cardinality({f \in events : f > e}) < Limit}

\* What a POST of event e, in the state it is now, leads to: it is accepted, or
\* refused, or does not arrive, or arrives and its answer is lost.
Posted(e, ok, arrived) ==
    \/ e \notin Refused /\ ok /\ arrived /\ UNCHANGED faults
    \/ e \in Refused /\ ~ok /\ arrived = event[e].arrived /\ UNCHANGED faults
    \/ Fault /\ ~ok /\ arrived \in {event[e].arrived, e \notin Refused}

\* Mutant: a row is marked whether or not its POST went through.
MarkedAnyway(row, ok) == IF row = "open" THEN "pushed" ELSE row

\* mark_pushed; an error leaves pushed as it was.
Marked(row, ok) == IF row = "open" /\ ok THEN "pushed" ELSE row

-----------------------------------------------------------------------------
(* emit                                                                    *)

Emit ==
    /\ Len(event) < MaxEvents
    /\ \E row \in {"open", "none"} :
         /\ event' = Append(event, [row |-> row, pc |-> "inserted", ok |-> FALSE,
                                    arrived |-> FALSE, held |-> FALSE])
         /\ IF row = "none" THEN Fault ELSE UNCHANGED faults
    /\ UNCHANGED <<sender, strict>>

EmitPost(e) ==
    /\ event[e].pc = "inserted"
    /\ IF strict
       THEN event' = [event EXCEPT ![e].pc = "done", ![e].held = TRUE] /\ UNCHANGED faults
       ELSE \E ok, arrived \in BOOLEAN :
              /\ Posted(e, ok, arrived)
              /\ event' = [event EXCEPT ![e].pc = "posted", ![e].ok = ok, ![e].arrived = arrived]
    /\ UNCHANGED <<sender, strict>>

\* A failed write is swallowed.
EmitMark(e) ==
    /\ event[e].pc = "posted"
    /\ \/ event' = [event EXCEPT ![e].pc = "done", ![e].row = Marked(@, event[e].ok)]
          /\ UNCHANGED faults
       \/ Fault /\ event' = [event EXCEPT ![e].pc = "done"]
    /\ UNCHANGED <<sender, strict>>

-----------------------------------------------------------------------------
(* replay_unpushed and repush_trace: _push_events                          *)

Begin(s, events) ==
    /\ sender[s].pc = "idle"
    /\ events # {}
    /\ sender' = [sender EXCEPT ![s] = [Idle EXCEPT !.pc = "push", !.queue = Newest(events)]]
    /\ UNCHANGED <<event, strict, faults>>

ReplayUnpushed(s) == Begin(s, Open)

\* Every event of one trace, pushed or not.
RepushTrace(h) ==
    \E trace \in SUBSET {e \in DOMAIN event : event[e].row # "none"} : Begin(h, trace)

\* The oldest one left; no gate is asked.
Push(s) ==
    LET e == Min(sender[s].queue)
    IN  /\ sender[s].pc = "push"
        /\ \E ok, arrived \in BOOLEAN :
             /\ Posted(e, ok, arrived)
             /\ event' = [event EXCEPT ![e].arrived = arrived]
             /\ sender' = [sender EXCEPT ![s].pc = "mark", ![s].ok = ok]
        /\ UNCHANGED strict

Mark(s) ==
    LET e    == Min(sender[s].queue)
        left == sender[s].queue \ {e}
    IN  /\ sender[s].pc = "mark"
        /\ event' = [event EXCEPT ![e].row = Marked(@, sender[s].ok)]
        /\ sender' = [sender EXCEPT ![s] = [Idle EXCEPT !.queue = left,
                                              !.pc = IF left = {} THEN "idle" ELSE "push"]]
        /\ UNCHANGED <<strict, faults>>

\* The write fails: the batch is given up, the loop goes on.
MarkRaises(s) ==
    /\ Fault
    /\ sender[s].pc = "mark"
    /\ sender' = [sender EXCEPT ![s] = Idle]
    /\ UNCHANGED <<event, strict>>

-----------------------------------------------------------------------------
\* The operator changes the privacy mode.
SetMode ==
    /\ strict' = ~strict
    /\ event' = [e \in DOMAIN event |-> [event[e] EXCEPT !.held = FALSE]]
    /\ UNCHANGED <<sender, faults>>

Stop ==
    /\ Fault
    /\ sender' = [s \in Senders |-> Idle]
    /\ event' = [e \in DOMAIN event |-> [event[e] EXCEPT !.pc = "done"]]
    /\ UNCHANGED strict

Init ==
    /\ event = <<>>
    /\ sender = [s \in Senders |-> Idle]
    /\ strict = FALSE
    /\ faults = 0

Replay(s) == ReplayUnpushed(s) \/ Push(s) \/ Mark(s)

Next ==
    \/ Emit \/ SetMode \/ Stop
    \/ \E e \in DOMAIN event : EmitPost(e) \/ EmitMark(e)
    \/ \E s \in Senders : Replay(s) \/ MarkRaises(s)
    \/ \E h \in Hands : RepushTrace(h)

Spec == Init /\ [][Next]_vars

\* _replay_loop ticks, and each of its calls returns.
Fairness == WF_vars(Replay(Loop))

-----------------------------------------------------------------------------
(* Properties                                                              *)

\* "the local-first guarantee" (client.py:97): an event that was buffered arrives,
\* and is marked only once it has, although emits and replays race for it, stop,
\* fail and lose answers, and although fewer than Limit events are refused for good.
BufferedArrives ==
    \A e \in Id \ Refused :
        (e \in Open) ~> (e \in DOMAIN event /\ event[e].row = "pushed" /\ event[e].arrived)

\* "strict mode + block_meeet_telemetry skip the outbound push ... so a later mode
\* flip + replay can drain it" (client.py:125): an event the gate held back does
\* not reach the service before the mode changes.
HeldStaysHeld ==
    [][\A e \in DOMAIN event :
         event[e].held /\ event'[e].held => event'[e].arrived = event[e].arrived]_vars
=============================================================================
