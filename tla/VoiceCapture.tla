---------------------------- MODULE VoiceCapture ----------------------------
(***************************************************************************)
(* The microphone of the cockpit: ensureMic, releaseMic, the recordings    *)
(* and teardown of apps/cockpit/src/runtime/voice.ts, under the two        *)
(* buttons of apps/cockpit/src/pages/cockpit-entry.ts that drive them.     *)
(*                                                                         *)
(* What interleaves with the clicks: the permission prompt, an operator    *)
(* who revokes it in the OS, recorders that stop, and uploads.             *)
(***************************************************************************)
EXTENDS Naturals, Sequences, FiniteSets

CONSTANTS
    MaxStreams,    \* bound on the getUserMedia requests of a page
    MaxRecordings  \* bound on its recorders

VARIABLES
    alive,
    stream,        \* the getUserMedia requests so far, oldest first
    mic,           \* state.mic: an index of stream, 0 for null
    micPromise,    \* the requests whose promise state.micPromise holds, if any
    recording,     \* the recorders so far, oldest first
    recorder,      \* state.recorder: an index of recording, 0 for null
    chunks,        \* the recorders whose data is in state.recordChunks
    recordPromise, \* whether state.recordPromise is set
    starting,      \* the requests a startRecording awaits
    sttDisabled,   \* the disabled attribute of the record button
    late           \* recorders whose data came when a later one had started

vars == <<alive, stream, mic, micPromise, recording, recorder, chunks, recordPromise,
          starting, sttDisabled, late>>

micVars == <<stream, mic, micPromise>>
recVars == <<recording, recorder, chunks, recordPromise, starting, sttDisabled, late>>

-----------------------------------------------------------------------------
(* Types                                                                   *)

\* refused: getUserMedia rejected. dead: its tracks are stopped or revoked.
Request == {"asked", "refused", "live", "dead"}

\* on: the stream a recorder records. ending: inactive, its data and its stop
\* event yet to come. wanted: stopRecording awaits it. sent: the recorders whose
\* data it uploads.
Recorder == [state : {"recording", "ending", "over", "uploading", "uploaded"},
             on : Nat, wanted : BOOLEAN, sent : SUBSET Nat]

TypeOK ==
    /\ alive \in BOOLEAN
    /\ stream \in Seq(Request)
    /\ mic \in 0..Len(stream)
    /\ micPromise \subseteq DOMAIN stream
    /\ recording \in Seq(Recorder)
    /\ recorder \in 0..Len(recording)
    /\ chunks \subseteq DOMAIN recording
    /\ recordPromise \in BOOLEAN
    /\ starting \subseteq DOMAIN stream
    /\ sttDisabled \in BOOLEAN
    /\ late \subseteq DOMAIN recording

-----------------------------------------------------------------------------
(* Helpers                                                                 *)

HasMic == mic # 0 /\ stream[mic] = "live"
IsRecording == recorder # 0 /\ recording[recorder].state = "recording"

\* A recorder whose stream dies becomes inactive by itself.
Silence(recs, dying) ==
    [r \in DOMAIN recs |-> IF recs[r].state = "recording" /\ recs[r].on \in dying
                           THEN [recs[r] EXCEPT !.state = "ending"] ELSE recs[r]]

\* releaseMic: stop the tracks of the held stream and forget it.
ReleaseMic(streams, held) ==
    IF held = 0 THEN streams ELSE [streams EXCEPT ![held] = "dead"]

\* Mutant: a request in flight is not shared.
AskAgain ==
    /\ Len(stream) < MaxStreams
    /\ stream' = Append(ReleaseMic(stream, mic), "asked")
    /\ micPromise' = {Len(stream) + 1}
    /\ mic' = 0

\* ensureMic without a usable stream: drop a dead one, then share the request
\* in flight or make one. micPromise' = {k} is the request the caller awaits.
Ask ==
    /\ mic' = 0
    /\ IF micPromise # {} THEN UNCHANGED <<stream, micPromise>>
       ELSE /\ Len(stream) < MaxStreams
            /\ stream' = Append(stream, "asked")
            /\ micPromise' = {Len(stream) + 1}

NewRecorder(k, state) == [state |-> state, on |-> k, wanted |-> FALSE, sent |-> {}]

\* Mutant: the chunks of an earlier recording are kept.
RecordOnTop(k) ==
    /\ Len(recording) < MaxRecordings
    /\ recording' = Append(recording, NewRecorder(k, "recording"))
    /\ recorder' = Len(recording) + 1
    /\ UNCHANGED chunks

\* startRecording from the line that has stream k. start() may throw, and leaves
\* an inactive recorder; the constructor may, and leaves the recorder of before.
Record(k) ==
    /\ chunks' = {}
    /\ \/ /\ Len(recording) < MaxRecordings
          /\ \E state \in {"recording", "over"} :
               recording' = Append(recording, NewRecorder(k, state))
          /\ recorder' = Len(recording) + 1
       \/ UNCHANGED <<recording, recorder>>

-----------------------------------------------------------------------------
(* The microphone button                                                   *)

MicOff ==
    /\ HasMic
    /\ stream' = ReleaseMic(stream, mic)
    /\ mic' = 0
    /\ recording' = Silence(recording, {mic})
    /\ UNCHANGED <<alive, micPromise, recorder, chunks, recordPromise, starting,
                   sttDisabled, late>>

MicOn ==
    /\ ~HasMic
    /\ Ask
    /\ UNCHANGED <<alive, recVars>>

-----------------------------------------------------------------------------
(* The record button                                                       *)

\* Mutant: the button stays enabled while the recording is sent.
StopStaysEnabled ==
    /\ ~sttDisabled
    /\ IsRecording
    /\ recording' = [recording EXCEPT ![recorder].state = "ending",
                                      ![recorder].wanted = TRUE]
    /\ UNCHANGED <<alive, micVars, recorder, chunks, recordPromise, starting, sttDisabled,
                   late>>

\* The click that stops: stopRecording as far as recorder.stop().
Stop ==
    /\ ~sttDisabled
    /\ IsRecording
    /\ sttDisabled' = TRUE
    /\ recording' = [recording EXCEPT ![recorder].state = "ending",
                                      ![recorder].wanted = TRUE]
    /\ UNCHANGED <<alive, micVars, recorder, chunks, recordPromise, starting, late>>

\* The click that starts, with no stream in hand: startRecording awaits one.
StartAsks ==
    /\ ~sttDisabled
    /\ ~IsRecording
    /\ ~recordPromise
    /\ ~HasMic
    /\ Ask
    /\ starting' = starting \union micPromise'
    /\ recordPromise' = TRUE
    /\ UNCHANGED <<alive, recording, recorder, chunks, sttDisabled, late>>

\* The same with a usable stream.
StartNow ==
    /\ ~sttDisabled
    /\ ~IsRecording
    /\ ~recordPromise
    /\ HasMic
    /\ Record(mic)
    /\ UNCHANGED <<alive, micVars, recordPromise, starting, sttDisabled, late>>

-----------------------------------------------------------------------------
(* What the browser answers                                                *)

\* Mutant: a grant after teardown is kept.
GrantAlways(k) ==
    /\ stream[k] = "asked"
    /\ stream' = [stream EXCEPT ![k] = "live"]
    /\ mic' = k
    /\ micPromise' = {}
    /\ starting' = starting \ {k}
    /\ recordPromise' = (recordPromise /\ k \notin starting)
    /\ UNCHANGED <<alive, recording, recorder, chunks, sttDisabled, late>>

\* getUserMedia resolves, and the startRecording that awaits it runs on; after
\* teardown the stream is stopped, and whoever awaits it sees an error.
Grant(k) ==
    /\ stream[k] = "asked"
    /\ micPromise' = {}
    /\ starting' = starting \ {k}
    /\ recordPromise' = (recordPromise /\ k \notin starting)
    /\ IF alive
       THEN /\ stream' = [stream EXCEPT ![k] = "live"]
            /\ mic' = k
            /\ IF k \in starting THEN Record(k) ELSE UNCHANGED <<recording, recorder, chunks>>
       ELSE /\ stream' = [stream EXCEPT ![k] = "dead"]
            /\ UNCHANGED <<mic, recording, recorder, chunks>>
    /\ UNCHANGED <<alive, sttDisabled, late>>

\* getUserMedia rejects: the operator denies the prompt.
Refuse(k) ==
    /\ stream[k] = "asked"
    /\ stream' = [stream EXCEPT ![k] = "refused"]
    /\ micPromise' = {}
    /\ starting' = starting \ {k}
    /\ recordPromise' = (recordPromise /\ k \notin starting)
    /\ UNCHANGED <<alive, mic, recording, recorder, chunks, sttDisabled, late>>

\* The operator revokes the permission, or the device goes.
Revoke(k) ==
    /\ stream[k] = "live"
    /\ stream' = [stream EXCEPT ![k] = "dead"]
    /\ recording' = Silence(recording, {k})
    /\ UNCHANGED <<alive, mic, micPromise, recorder, chunks, recordPromise, starting,
                   sttDisabled, late>>

\* The data of recorder r is pushed, and its stop event handled: onstop makes the
\* blob of all chunks and uploads it. After an error event the click has failed,
\* and its button is enabled, before the upload begins.
Stopped(r) ==
    LET heard == chunks \union {r}
    IN  /\ recording[r].state = "ending"
        /\ late' = IF r < Len(recording) THEN late \union {r} ELSE late
        /\ IF recording[r].wanted
           THEN \E error \in BOOLEAN :
                  /\ recording' = [recording EXCEPT ![r].state = "uploading", ![r].sent = heard,
                                                    ![r].wanted = ~error]
                  /\ recorder' = 0
                  /\ chunks' = {}
                  /\ sttDisabled' = (sttDisabled /\ ~error)
           ELSE /\ recording' = [recording EXCEPT ![r].state = "over"]
                /\ chunks' = heard
                /\ UNCHANGED <<recorder, sttDisabled>>
        /\ UNCHANGED <<alive, micVars, recordPromise, starting>>

\* The transcript comes back, or the upload fails.
Uploaded(r) ==
    /\ recording[r].state = "uploading"
    /\ recording' = [recording EXCEPT ![r].state = "uploaded"]
    /\ sttDisabled' = (sttDisabled /\ ~recording[r].wanted)
    /\ UNCHANGED <<alive, micVars, recorder, chunks, recordPromise, starting, late>>

-----------------------------------------------------------------------------
\* abortRecording, then releaseMic.
Teardown ==
    /\ alive' = FALSE
    /\ recording' = Silence(IF IsRecording
                            THEN [recording EXCEPT ![recorder].state = "ending"]
                            ELSE recording, {mic})
    /\ recorder' = 0
    /\ chunks' = {}
    /\ recordPromise' = FALSE
    /\ stream' = ReleaseMic(stream, mic)
    /\ mic' = 0
    /\ UNCHANGED <<micPromise, starting, sttDisabled, late>>

Init ==
    /\ alive = TRUE
    /\ stream = <<>>
    /\ mic = 0
    /\ micPromise = {}
    /\ recording = <<>>
    /\ recorder = 0
    /\ chunks = {}
    /\ recordPromise = FALSE
    /\ starting = {}
    /\ sttDisabled = FALSE
    /\ late = {}

Next ==
    \/ MicOn \/ MicOff \/ Stop \/ StartAsks \/ StartNow \/ Teardown
    \/ \E k \in DOMAIN stream : Grant(k) \/ Refuse(k) \/ Revoke(k)
    \/ \E r \in DOMAIN recording : Stopped(r) \/ Uploaded(r)

Spec == Init /\ [][Next]_vars

-----------------------------------------------------------------------------
(* Properties                                                              *)

\* No microphone stays open behind the page's back (voice.ts:276 "whose tracks
\* then leak"): a live stream is the one releaseMic and teardown will stop, so
\* after a teardown there is none, whenever the prompt was answered.
NoLeakedMic ==
    \A k \in DOMAIN stream : stream[k] = "live" => k = mic /\ alive

\* A recorder that records is the one stopRecording and abortRecording reach:
\* no click, grant, stop event or error leaves one running unheld.
RecordingIsHeld ==
    \A r \in DOMAIN recording : recording[r].state = "recording" => r = recorder

\* What is transcribed as a recording is that recording: its own data, and
\* nothing of another one, except data a silenced recorder gave up only after
\* this one had started.
TranscriptIsItsOwn ==
    \A r \in DOMAIN recording : recording[r].state \in {"uploading", "uploaded"} =>
        r \in recording[r].sent /\ recording[r].sent \ {r} \subseteq late
=============================================================================
