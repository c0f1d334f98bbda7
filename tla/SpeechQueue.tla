----------------------------- MODULE SpeechQueue -----------------------------
(***************************************************************************)
(* Spoken answers of the cockpit: speak and playOne of                     *)
(* apps/cockpit/src/runtime/voice.ts. Each utterance is chained to the     *)
(* promise of the one before; teardown starts a new chain.                 *)
(***************************************************************************)
EXTENDS Naturals, Sequences

CONSTANT MaxSaid  \* bound on the calls of speak

VARIABLES
    up,    \* state.alive, as playOne reads it
    said,  \* the calls of speak, oldest first
    queue  \* the utterance whose promise state.ttsQueue holds, 0 for a resolved one

vars == <<up, said, queue>>

\* after: the utterance whose promise this one's was chained to.
Utterance == [state : {"queued", "fetching", "playing", "over", "dropped"}, after : Nat]

TypeOK ==
    /\ up \in BOOLEAN
    /\ said \in Seq(Utterance)
    /\ queue \in 0..Len(said)

Settled(u) == said[u].state \in {"over", "dropped"}
Voiced(u) == said[u].state \in {"fetching", "playing"}

Become(u, state) ==
    /\ said' = [said EXCEPT ![u].state = state]
    /\ UNCHANGED <<up, queue>>

\* Mutant: the utterance is played, the chain left as it is.
SpeakAtOnce ==
    /\ Len(said) < MaxSaid
    /\ said' = Append(said, [state |-> "queued", after |-> queue])
    /\ UNCHANGED <<up, queue>>

Speak ==
    /\ Len(said) < MaxSaid
    /\ said' = Append(said, [state |-> "queued", after |-> queue])
    /\ queue' = Len(said) + 1
    /\ UNCHANGED up

\* The promise before u has settled: playOne, as far as its first await.
Begin(u) ==
    /\ said[u].state = "queued"
    /\ said[u].after # 0 => Settled(said[u].after)
    /\ Become(u, IF up THEN "fetching" ELSE "dropped")

\* The audio arrives, or the request fails or brings no audio.
Fetched(u) ==
    /\ said[u].state = "fetching"
    /\ Become(u, "playing") \/ Become(u, "over")

\* Playback ends, or fails; the catch of speak keeps the chain going.
Played(u) ==
    /\ said[u].state = "playing"
    /\ Become(u, "over")

Teardown ==
    /\ up' = FALSE
    /\ queue' = 0
    /\ UNCHANGED said

Init == up = TRUE /\ said = <<>> /\ queue = 0

Next ==
    \/ Speak \/ Teardown
    \/ \E u \in DOMAIN said : Begin(u) \/ Fetched(u) \/ Played(u)

Spec == Init /\ [][Next]_vars

-----------------------------------------------------------------------------
\* "two clicks don't overlap" (voice.ts:23): no two utterances are fetched or
\* played at a time, and one is only after those said before it, whatever failed
\* in between and whenever the page was torn down.
OneVoice ==
    \A u, v \in DOMAIN said : u < v /\ Voiced(v) => Settled(u)
=============================================================================
