--------------------------- MODULE OutreachSends ---------------------------
(***************************************************************************)
(* Drafts and the calls of send_draft (core/outreach/sender.py), whose     *)
(* checks (safety.py) read the store before the mail leaves and whose      *)
(* outcome is written after it has left.                                   *)
(***************************************************************************)
EXTENDS Naturals, FiniteSets

CONSTANTS
    Drafts,   \* the ids of drafts
    Mailers,  \* calls in flight at a time: requests, and campaigns, which send one by one
    Cap       \* TARS_OUTREACH_DAILY_CAP

VARIABLES
    draft,  \* drafts.status
    send    \* where each call is suspended, and its draft

vars == <<draft, send>>

-----------------------------------------------------------------------------
\* "aged" is sent with sent_at more than a day ago; "none": no such row.
Statuses == {"none", "draft", "approved", "sent", "aged", "failed"}

Send == [pc : {"idle", "check", "post", "accepted", "refused"}, draft : Drafts]

\* What the proofs assume of the constants.
Bounds == IsFiniteSet(Mailers) /\ Drafts # {} /\ Cap \in Nat \ {0}

TypeOK == draft \in [Drafts -> Statuses] /\ send \in [Mailers -> Send]

SomeDraft == CHOOSE d \in Drafts : TRUE

Idle == [pc |-> "idle", draft |-> SomeDraft]

Goto(s, pc) == send' = [send EXCEPT ![s].pc = pc]

Return(s) == send' = [send EXCEPT ![s] = Idle]

\* The rows that count_sent_since counts.
SentToday == {d \in Drafts : draft[d] = "sent"}

-----------------------------------------------------------------------------
(* The operator                                                            *)

Generate(d) ==
    /\ draft[d] = "none"
    /\ draft' = [draft EXCEPT ![d] = "draft"]
    /\ UNCHANGED send

\* PATCH, and approve-all by what it read before: update_draft asks for no status.
Patch(d, status) ==
    /\ draft[d] # "none"
    /\ draft' = [draft EXCEPT ![d] = status]
    /\ UNCHANGED send

Delete(d) ==
    /\ draft[d] # "none"
    /\ draft' = [draft EXCEPT ![d] = "none"]
    /\ UNCHANGED send

-----------------------------------------------------------------------------
(* send_draft                                                              *)

Read(s, d) ==
    /\ send[s].pc = "idle"
    /\ draft[d] = "approved"
    /\ send' = [send EXCEPT ![s] = [pc |-> "check", draft |-> d]]
    /\ UNCHANGED draft

\* Mutant: the cap may be passed by one.
CheckAtCap(s) ==
    /\ send[s].pc = "check"
    /\ IF Cardinality(SentToday) <= Cap THEN Goto(s, "post") \/ Return(s) ELSE Return(s)
    /\ UNCHANGED draft

\* check_send_eligibility; a bad address or a leftover placeholder returns too.
Check(s) ==
    /\ send[s].pc = "check"
    /\ IF Cardinality(SentToday) < Cap THEN Goto(s, "post") \/ Return(s) ELSE Return(s)
    /\ UNCHANGED draft

\* The POST to Gmail, with nothing awaited before it; no token, or an answer that is
\* no JSON, ends the call.
Post(s) ==
    /\ send[s].pc = "post"
    /\ Goto(s, "accepted") \/ Goto(s, "refused") \/ Return(s)
    /\ UNCHANGED draft

\* update_draft; the row may have been deleted, or patched.
Write(s) ==
    /\ send[s].pc \in {"accepted", "refused"}
    /\ LET d == send[s].draft
           outcome == IF send[s].pc = "accepted" THEN "sent" ELSE "failed"
       IN  draft' = IF draft[d] = "none" THEN draft ELSE [draft EXCEPT ![d] = outcome]
    /\ Return(s)

\* A locked database: a mail that left leaves its draft as it was.
WriteRaises(s) ==
    /\ send[s].pc \in {"accepted", "refused"}
    /\ Return(s)
    /\ UNCHANGED draft

-----------------------------------------------------------------------------
DayPasses(d) ==
    /\ draft[d] = "sent"
    /\ draft' = [draft EXCEPT ![d] = "aged"]
    /\ UNCHANGED send

Stop ==
    /\ send' = [s \in Mailers |-> Idle]
    /\ UNCHANGED draft

Init ==
    /\ draft = [d \in Drafts |-> "none"]
    /\ send = [s \in Mailers |-> Idle]

Next ==
    \/ Stop
    \/ \E d \in Drafts :
        \/ Generate(d) \/ Delete(d) \/ DayPasses(d)
        \/ \E status \in {"draft", "approved", "failed"} : Patch(d, status)
    \/ \E s \in Mailers :
        \/ \E d \in Drafts : Read(s, d)
        \/ Check(s) \/ Post(s) \/ Write(s) \/ WriteRaises(s)

Spec == Init /\ [][Next]_vars

-----------------------------------------------------------------------------
(* Properties                                                              *)

\* "Daily send-cap not exceeded" (safety.py:8) is what a single call keeps. Calls
\* in flight together, each of which counted before the others' outcomes were
\* written, go beyond the cap by their number less one and by no more, however many
\* drafts are patched, deleted or sent over again.
CapNearlyKept == Cardinality(SentToday) + 1 <= Cap + Cardinality(Mailers)
=============================================================================
