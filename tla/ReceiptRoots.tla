---------------------------- MODULE ReceiptRoots ----------------------------
(***************************************************************************)
(* The daily Merkle roots of receipts and their anchors: merkle_for_day    *)
(* and anchor of web_extras/routers/receipts.py, _merkle_root_loop of      *)
(* web_extras/app.py, anchor_to_solana of receipts/anchor.py, and          *)
(* upsert_merkle_root of receipts/store.py.                                *)
(*                                                                         *)
(* The file of a day only grows, so a root is the number of lines it was   *)
(* computed over. Each of the three suspends between its reads and writes. *)
(***************************************************************************)
EXTENDS Naturals, Sequences

CONSTANTS
    Clerks,   \* requests of the two endpoints
    Loop,     \* _merkle_root_loop
    MaxDay,   \* bound on the days
    MaxLines, \* bound on the lines of a day
    MaxMemos  \* bound on the memo transactions submitted

VARIABLES
    today,
    filed,  \* day -> lines in its file
    merkle, \* day -> its row of merkle_roots
    memos,  \* the memos on chain: memos[sig] is the day and root of one
    job     \* clerk -> where it is suspended, and its locals

vars == <<today, filed, merkle, memos, job>>

-----------------------------------------------------------------------------
\* What the proofs assume of the constants.
Bounds == MaxDay \in Nat /\ MaxLines \in Nat /\ MaxMemos \in Nat

Days == 0..MaxDay
Actors == Clerks \union {Loop}

\* sig: solana_signature, 0 for NULL; anchored_at is NULL with it.
Row == [there : BOOLEAN, root : 0..MaxLines, leaves : 0..MaxLines, sig : 0..MaxMemos]

Memo == [day : Days, root : 0..MaxLines]

\* kind: get, the endpoint that reads a root; anchor, the one that anchors; loop.
Job == [pc : {"idle", "replay", "upsert", "submit", "cached", "record"},
        kind : {"get", "anchor", "loop"}, day : Days, root : 0..MaxLines,
        leaves : 0..MaxLines, sig : 0..MaxMemos]

TypeOK ==
    /\ today \in Days
    /\ filed \in [Days -> 0..MaxLines]
    /\ merkle \in [Days -> Row]
    /\ memos \in Seq(Memo) /\ Len(memos) <= MaxMemos
    /\ job \in [Actors -> Job]

NoRow == [there |-> FALSE, root |-> 0, leaves |-> 0, sig |-> 0]
Idle == [pc |-> "idle", kind |-> "get", day |-> 0, root |-> 0, leaves |-> 0, sig |-> 0]

Start(a, pc, kind, d) ==
    job' = [job EXCEPT ![a] = [pc |-> pc, kind |-> kind, day |-> d, root |-> 0,
                               leaves |-> 0, sig |-> 0]]

Goto(a, pc) == job' = [job EXCEPT ![a].pc = pc]
Done(a) == job' = [job EXCEPT ![a] = Idle]

\* Mutant: a row that exists keeps its anchor.
UpsertKeepsAnchor(d, root, leaves, sig) ==
    merkle' = [merkle EXCEPT ![d] = [there |-> TRUE, root |-> root, leaves |-> leaves,
                                     sig |-> IF sig = 0 THEN @.sig ELSE sig]]

\* upsert_merkle_root: every column is written, the anchor too.
Upsert(d, root, leaves, sig) ==
    merkle' = [merkle EXCEPT ![d] = [there |-> TRUE, root |-> root, leaves |-> leaves,
                                     sig |-> sig]]

-----------------------------------------------------------------------------
(* The first step of each                                                  *)

\* merkle_for_day reads the row, and is done if there is one.
GetRoot(c, d) ==
    /\ job[c].pc = "idle"
    /\ ~merkle[d].there
    /\ Start(c, "replay", "get", d)
    /\ UNCHANGED <<today, filed, merkle, memos>>

AnchorDay(c, d) ==
    /\ job[c].pc = "idle"
    /\ Start(c, "replay", "anchor", d)
    /\ UNCHANGED <<today, filed, merkle, memos>>

\* The loop, an hour into a day, for the day before: the row it needs may be
\* missing, or there and not anchored.
LoopTick ==
    /\ job[Loop].pc = "idle"
    /\ today > 0
    /\ LET d == today - 1
       IN  IF merkle[d].there
           THEN /\ merkle[d].sig = 0
                /\ merkle[d].leaves > 0
                /\ job' = [job EXCEPT ![Loop] = [Idle EXCEPT
                             !.pc = "submit", !.kind = "loop", !.day = d, !.root = merkle[d].root]]
           ELSE Start(Loop, "replay", "loop", d)
    /\ UNCHANGED <<today, filed, merkle, memos>>

-----------------------------------------------------------------------------
(* The steps they share                                                    *)

\* replay_chain_for_day and compute_root; there is nothing to anchor of an empty day.
Replay(a) ==
    /\ job[a].pc = "replay"
    /\ LET n == filed[job[a].day]
       IN  IF job[a].kind = "anchor" /\ n = 0 THEN Done(a)
           ELSE job' = [job EXCEPT ![a].pc = "upsert", ![a].root = n, ![a].leaves = n]
    /\ UNCHANGED <<today, filed, merkle, memos>>

UpsertRoot(a) ==
    /\ job[a].pc = "upsert"
    /\ Upsert(job[a].day, job[a].root, job[a].leaves, 0)
    /\ IF job[a].kind = "get" \/ job[a].leaves = 0 THEN Done(a) ELSE Goto(a, "submit")
    /\ UNCHANGED <<today, filed, memos>>

\* The memo transaction is submitted. It may fail, or succeed with its answer lost.
Submit(a) ==
    /\ job[a].pc = "submit"
    /\ \/ Done(a) /\ UNCHANGED memos
       \/ /\ Len(memos) < MaxMemos
          /\ memos' = Append(memos, [day |-> job[a].day, root |-> job[a].root])
          /\ \/ Done(a)
             \/ job' = [job EXCEPT ![a].pc = "cached", ![a].sig = Len(memos) + 1]
    /\ UNCHANGED <<today, filed, merkle>>

\* leaf_count is read anew, and may be another root's.
ReadCached(a) ==
    /\ job[a].pc = "cached"
    /\ job' = [job EXCEPT ![a].pc = "record", ![a].leaves = merkle[job[a].day].leaves]
    /\ UNCHANGED <<today, filed, merkle, memos>>

RecordAnchor(a) ==
    /\ job[a].pc = "record"
    /\ Upsert(job[a].day, job[a].root, job[a].leaves, job[a].sig)
    /\ Done(a)
    /\ UNCHANGED <<today, filed, memos>>

-----------------------------------------------------------------------------
\* A receipt's line; none comes for a day that the loop may work on.
File ==
    /\ filed[today] < MaxLines
    /\ filed' = [filed EXCEPT ![today] = @ + 1]
    /\ UNCHANGED <<today, merkle, memos, job>>

Midnight ==
    /\ today < MaxDay
    /\ today' = today + 1
    /\ UNCHANGED <<filed, merkle, memos, job>>

Stop ==
    /\ job' = [a \in Actors |-> Idle]
    /\ UNCHANGED <<today, filed, merkle, memos>>

Init ==
    /\ today = 0
    /\ filed = [d \in Days |-> 0]
    /\ merkle = [d \in Days |-> NoRow]
    /\ memos = <<>>
    /\ job = [a \in Actors |-> Idle]

Step(a) == Replay(a) \/ UpsertRoot(a) \/ Submit(a) \/ ReadCached(a) \/ RecordAnchor(a)

Next ==
    \/ File \/ Midnight \/ Stop \/ LoopTick
    \/ \E c \in Clerks, d \in Days : GetRoot(c, d) \/ AnchorDay(c, d)
    \/ \E a \in Actors : Step(a)

Spec == Init /\ [][Next]_vars

-----------------------------------------------------------------------------
(* Properties                                                              *)

\* A day shown as anchored is: the memo its signature names carries the very root
\* of its row (RECEIPTS.md:99 "the memo body must equal ..."), whichever of the
\* loop and the endpoints wrote the row last, and whatever the file did since.
AnchorMatchesRoot ==
    \A d \in Days : merkle[d].sig # 0 =>
        memos[merkle[d].sig] = [day |-> d, root |-> merkle[d].root]
=============================================================================
