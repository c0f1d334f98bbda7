---------------------------- MODULE ReceiptChain ----------------------------
(***************************************************************************)
(* The hash chain of receipts: append and _append_sync of                  *)
(* backend/core/receipts/store.py, the replay of a day, and verify_chain   *)
(* of chain.py. A receipt's line goes into the file of its UTC day, the    *)
(* source of truth, and then its row into sqlite; prev_hash is the hash of *)
(* the latest row.                                                         *)
(*                                                                         *)
(* append holds an asyncio lock around a thread. A call that is cancelled  *)
(* releases the lock, and its thread runs on.                              *)
(***************************************************************************)
EXTENDS Naturals, Sequences

CONSTANTS
    Callers,    \* tasks that may be in append at a time
    NoOne,      \* a free lock
    MaxTime,    \* bound on time.time()
    DayLength,  \* instants of a UTC day
    MaxLines,   \* bound on the receipts written
    MaxFaults   \* bound on stops, failed inserts, cancelled calls, clock steps

VARIABLES
    now,       \* time.time()
    lines,     \* the lines written, of all days, oldest first
    rows,      \* those that have a row: indexes of lines
    call,      \* caller -> where its append is, and the receipt it made
    lock,      \* the call that holds the store's lock
    strayed,   \* whether a call was ever cancelled
    faults

vars == <<now, lines, rows, call, lock, strayed, faults>>

-----------------------------------------------------------------------------
\* What the proofs assume of the constants.
Bounds ==
    /\ NoOne \notin Callers
    /\ MaxTime \in Nat /\ MaxLines \in Nat \ {0} /\ MaxFaults \in Nat

\* The hash of a receipt is the index of its line, 0 stands for "". Of two rows
\* with one ts, the greater id is the later.
Receipt == [ts : 0..MaxTime, id : 1..MaxLines, prev : 0..MaxLines]

\* line: about to write the line; row: about to insert the row of line at.
Call == [pc : {"idle", "line", "row"}, made : Receipt, at : 0..MaxLines]

TypeOK ==
    /\ now \in 0..MaxTime
    /\ lines \in Seq(Receipt) /\ Len(lines) <= MaxLines
    /\ rows \subseteq DOMAIN lines
    /\ call \in [Callers -> Call]
    /\ lock \in Callers \union {NoOne}
    /\ strayed \in BOOLEAN
    /\ faults \in 0..MaxFaults

Idle == [pc |-> "idle", made |-> [ts |-> 0, id |-> 1, prev |-> 0], at |-> 0]

Day(ts) == ts \div DayLength

\* ORDER BY ts, id.
Before(r, s) == r.ts < s.ts \/ (r.ts = s.ts /\ r.id <= s.id)

\* _last_receipt_sync, its hash.
LastRow == IF rows = {} THEN 0
           ELSE CHOOSE i \in rows : \A j \in rows : Before(lines[j], lines[i])

Ids == {lines[i].id : i \in DOMAIN lines} \union
       {call[c].made.id : c \in {d \in Callers : call[d].pc = "line"}}

Fault == faults < MaxFaults /\ faults' = faults + 1

Release(c) == lock' = IF lock = c THEN NoOne ELSE lock

-----------------------------------------------------------------------------
(* append                                                                  *)

\* Mutant: the lock is not waited for.
BeginUnlocked(c) ==
    /\ call[c].pc = "idle"
    /\ \E id \in 1..MaxLines \ Ids :
         call' = [call EXCEPT ![c] = [pc |-> "line", at |-> 0,
                                      made |-> [ts |-> now, id |-> id, prev |-> LastRow]]]
    /\ lock' = c
    /\ UNCHANGED <<now, lines, rows, strayed, faults>>

\* The lock is taken, the last row read, and the receipt made.
BeginAppend(c) ==
    /\ call[c].pc = "idle"
    /\ lock = NoOne
    /\ lock' = c
    /\ \E id \in 1..MaxLines \ Ids :
         call' = [call EXCEPT ![c] = [pc |-> "line", at |-> 0,
                                      made |-> [ts |-> now, id |-> id, prev |-> LastRow]]]
    /\ UNCHANGED <<now, lines, rows, strayed, faults>>

WriteLine(c) ==
    /\ call[c].pc = "line"
    /\ Len(lines) < MaxLines
    /\ lines' = Append(lines, call[c].made)
    /\ call' = [call EXCEPT ![c].pc = "row", ![c].at = Len(lines) + 1]
    /\ UNCHANGED <<now, rows, lock, strayed, faults>>

InsertRow(c) ==
    /\ call[c].pc = "row"
    /\ rows' = rows \union {call[c].at}
    /\ call' = [call EXCEPT ![c] = Idle]
    /\ Release(c)
    /\ UNCHANGED <<now, lines, strayed, faults>>

\* The disk is full or sqlite busy: record swallows the exception.
AppendRaises(c) ==
    /\ Fault
    /\ call[c].pc # "idle"
    /\ call' = [call EXCEPT ![c] = Idle]
    /\ Release(c)
    /\ UNCHANGED <<now, lines, rows, strayed>>

Cancel(c) ==
    /\ Fault
    /\ lock = c
    /\ lock' = NoOne
    /\ strayed' = TRUE
    /\ UNCHANGED <<now, lines, rows, call>>

-----------------------------------------------------------------------------
(* Time, and stops                                                         *)

TimePasses ==
    /\ now < MaxTime
    /\ now' = now + 1
    /\ UNCHANGED <<lines, rows, call, lock, strayed, faults>>

ClockStepsBack ==
    /\ Fault
    /\ now' \in 0..now
    /\ UNCHANGED <<lines, rows, call, lock, strayed>>

Stop ==
    /\ Fault
    /\ call' = [c \in Callers |-> Idle]
    /\ lock' = NoOne
    /\ UNCHANGED <<now, lines, rows, strayed>>

Init ==
    /\ now = 0
    /\ lines = <<>>
    /\ rows = {}
    /\ call = [c \in Callers |-> Idle]
    /\ lock = NoOne
    /\ strayed = FALSE
    /\ faults = 0

Next ==
    \/ TimePasses \/ ClockStepsBack \/ Stop
    \/ \E c \in Callers :
         BeginAppend(c) \/ WriteLine(c) \/ InsertRow(c) \/ AppendRaises(c) \/ Cancel(c)

Spec == Init /\ [][Next]_vars

-----------------------------------------------------------------------------
(* Properties                                                              *)

\* Receipts made at one instant, or after a clock step back, may fork the chain.
Steady == \A i, j \in DOMAIN lines : i < j => lines[i].ts < lines[j].ts

\* The receipts form one chain (receipts/store.py:222 "concurrent appends from the
\* same process serialise"): with a steady clock and no cancelled call, every
\* receipt links to the row before it, whatever was stopped or failed between the
\* line of one and its row.
OneChain ==
    Steady /\ ~strayed =>
        \A i \in DOMAIN lines :
            LET earlier == {j \in rows : j < i}
            IN  IF earlier = {} THEN lines[i].prev = 0
                ELSE /\ lines[i].prev \in earlier
                     /\ \A j \in earlier : j <= lines[i].prev

\* replay_chain_for_day.
Replay(d) ==
    SelectSeq([i \in DOMAIN lines |-> i], LAMBDA i : Day(lines[i].ts) = d)

\* verify_chain, its walk over the links.
Verifies(replayed) ==
    \A k \in DOMAIN replayed :
        lines[replayed[k]].prev = IF k = 1 THEN 0 ELSE replayed[k - 1]

\* "Walk the chain: ... confirm prev_hash matches the previous receipt's hash
\* ... (POST /api/receipts/chain/verify does this for you)" (RECEIPTS.md:92): a
\* ledger nothing went wrong with verifies, each day of it.
HonestDaysVerify ==
    Steady /\ faults = 0 => \A d \in 0..Day(MaxTime) : Verifies(Replay(d))
=============================================================================
