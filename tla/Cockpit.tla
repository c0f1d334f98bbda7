------------------------------ MODULE Cockpit ------------------------------
(***************************************************************************)
(* The cockpit page: its four modules that keep state of their own, side   *)
(* by side. The page's one thread runs a handler of one of them at a time; *)
(* they share no variable, so a step of one leaves the others as they are. *)
(***************************************************************************)
EXTENDS Naturals, Sequences

CONSTANTS
    Topics, MaxLives, MaxWire, MaxLosses,  \* of the socket
    Sends, MaxFrames,                      \* of the strand
    MaxStreams, MaxRecordings,             \* of the microphone
    MaxSaid                                \* of the spoken answers

VARIABLES
    sock, ws, wantOpen, status, attempt, retryTimer, timers, subscribedTopics, lives, losses,
    booted, thread, messages, asking, req, overlapped,
    alive, stream, mic, micPromise, recording, recorder, chunks, recordPromise, starting,
    sttDisabled, late,
    up, said, queue

socketVars == <<sock, ws, wantOpen, status, attempt, retryTimer, timers, subscribedTopics,
                lives, losses>>
chatVars == <<booted, thread, messages, asking, req, overlapped>>
voiceVars == <<alive, stream, mic, micPromise, recording, recorder, chunks,
               recordPromise, starting, sttDisabled, late>>
speechVars == <<up, said, queue>>
pageVars == <<socketVars, chatVars, voiceVars, speechVars>>

Socket == INSTANCE RealtimeSocket WITH MaxFaults <- MaxLosses, faults <- losses
Chat == INSTANCE ChatStrand WITH inflight <- asking
Voice == INSTANCE VoiceCapture
Speech == INSTANCE SpeechQueue

-----------------------------------------------------------------------------
PageInit == Socket!Init /\ Chat!Init /\ Voice!Init /\ Speech!Init

SocketStep == Socket!Next /\ UNCHANGED <<chatVars, voiceVars, speechVars>>
ChatStep == Chat!Next /\ UNCHANGED <<socketVars, voiceVars, speechVars>>
VoiceStep == Voice!Next /\ UNCHANGED <<socketVars, chatVars, speechVars>>
SpeechStep == Speech!Next /\ UNCHANGED <<socketVars, chatVars, voiceVars>>

PageNext == SocketStep \/ ChatStep \/ VoiceStep \/ SpeechStep

PageSpec == PageInit /\ [][PageNext]_pageVars

-----------------------------------------------------------------------------
(* What the page promises, each part of it stated in its module            *)

\* Every part keeps its types.
PageTypeOK == Socket!TypeOK /\ Chat!TypeOK /\ Voice!TypeOK /\ Speech!TypeOK

\* WsManager has one socket or retry, and holds it (ws.ts).
SoleSocket == Socket!SoleSocket

\* The server comes to serve the topics the page is subscribed to (ws.ts).
TopicsInSync == Socket!TopicsInSync

\* After teardown no socket, retry or late event of the bus is left (ws.ts).
TeardownIsFinal == Socket!TeardownIsFinal

\* The bus comes back after lost connections and failed retries (ws.ts).
ComesBack == Socket!ComesBack

\* A delivered answer lost no frame of its stream (chat.ts).
AnswerIsWhole == Chat!AnswerIsWhole

\* A stream in flight adds nothing to a strand torn down (chat.ts).
TornDownStaysEmpty == Chat!TornDownStaysEmpty

\* A live microphone and a running recorder are the ones voice.ts holds, and
\* can stop: none is left behind a revocation, a late grant or a teardown.
CaptureIsHeld == Voice!NoLeakedMic /\ Voice!RecordingIsHeld

\* A transcript is of its recording and of no other (voice.ts).
TranscriptIsItsOwn == Voice!TranscriptIsItsOwn

\* Spoken answers never overlap and keep their order (voice.ts).
OneVoice == Speech!OneVoice
=============================================================================
