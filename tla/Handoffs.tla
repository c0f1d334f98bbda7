------------------------------ MODULE Handoffs ------------------------------
(***************************************************************************)
(* Handoffs of one cowork session: create_handoff, accept_handoff and      *)
(* revoke_handoff of core/cowork/handoff.py over the conditional updates   *)
(* of core/cowork/store.py. Every call of the store is a transaction of    *)
(* its own, and the calls of a function may meet those of others between.  *)
(***************************************************************************)
EXTENDS Naturals, Sequences

CONSTANTS
    Users,
    Founder,     \* the user that opened the session
    Calls,       \* calls in flight at a time
    MaxHandoffs  \* bound on the handoffs of the session

VARIABLES
    live,     \* sessions.status = 'live'
    owner,    \* sessions.owner_user_id
    handoff,  \* the rows of handoffs, oldest first
    call,     \* where each call is suspended, and its locals
    moves     \* the transfers of ownership done, in order

vars == <<live, owner, handoff, call, moves>>

-----------------------------------------------------------------------------
NoUser == "none"

\* What the proofs assume of the constants.
Bounds == Founder \in Users /\ NoUser \notin Users /\ MaxHandoffs \in Nat

\* past: expires_at is behind the clock; by: accepted_by_user_id.
Handoff == [from : Users, past : BOOLEAN, by : Users \union {NoUser}, revoked : BOOLEAN]

Call == [pc : {"idle", "insert", "mark", "transfer", "revoke"},
         user : Users, h : 0..MaxHandoffs]

\* Handoff h made user to the owner.
Move == [h : 1..MaxHandoffs, to : Users]

TypeOK ==
    /\ live \in BOOLEAN
    /\ owner \in Users
    /\ handoff \in Seq(Handoff) /\ Len(handoff) <= MaxHandoffs
    /\ call \in [Calls -> Call]
    /\ moves \in Seq(Move)

Idle == [pc |-> "idle", user |-> Founder, h |-> 0]

Enter(c, pc, u, h) ==
    /\ call[c].pc = "idle"
    /\ call' = [call EXCEPT ![c] = [pc |-> pc, user |-> u, h |-> h]]

Done(c) == call' = [call EXCEPT ![c] = Idle]

\* Handoff.is_pending
Pending(h) == handoff[h].by = NoUser /\ ~handoff[h].revoked /\ ~handoff[h].past

\* Mutant: the update of an accept is by id alone.
AcceptableAlways(h) == ~handoff[h].past

\* The WHERE of mark_handoff_accepted.
Acceptable(h) == Pending(h)

\* Mutant: the update of a revocation does not ask whether it was accepted.
RevocableAccepted(h) == ~handoff[h].revoked

\* The WHERE of the store's revoke_handoff: the expiry is not in it.
Revocable(h) == ~handoff[h].revoked /\ handoff[h].by = NoUser

-----------------------------------------------------------------------------
(* create_handoff                                                          *)

Create(c, u) ==
    /\ live
    /\ owner = u
    /\ Enter(c, "insert", u, 0)
    /\ UNCHANGED <<live, owner, handoff, moves>>

Insert(c) ==
    /\ call[c].pc = "insert"
    /\ Len(handoff) < MaxHandoffs
    /\ handoff' = Append(handoff, [from |-> call[c].user, past |-> FALSE, by |-> NoUser,
                                   revoked |-> FALSE])
    /\ Done(c)
    /\ UNCHANGED <<live, owner, moves>>

-----------------------------------------------------------------------------
(* accept_handoff: whoever holds the token                                 *)

Accept(c, u, h) ==
    /\ Pending(h)
    /\ Enter(c, "mark", u, h)
    /\ UNCHANGED <<live, owner, handoff, moves>>

Mark(c) ==
    /\ call[c].pc = "mark"
    /\ LET h == call[c].h
       IN  IF Acceptable(h)
           THEN /\ handoff' = [handoff EXCEPT ![h].by = call[c].user]
                /\ call' = [call EXCEPT ![c].pc = "transfer"]
           ELSE Done(c) /\ UNCHANGED handoff
    /\ UNCHANGED <<live, owner, moves>>

\* transfer_ownership writes the owner whoever it is by now.
Transfer(c) ==
    /\ call[c].pc = "transfer"
    /\ owner' = call[c].user
    /\ moves' = Append(moves, [h |-> call[c].h, to |-> call[c].user])
    /\ Done(c)
    /\ UNCHANGED <<live, handoff>>

-----------------------------------------------------------------------------
(* revoke_handoff: only by the one that created it                         *)

Revoke(c, u, h) ==
    /\ handoff[h].from = u
    /\ Pending(h)
    /\ Enter(c, "revoke", u, h)
    /\ UNCHANGED <<live, owner, handoff, moves>>

RevokeRow(c) ==
    /\ call[c].pc = "revoke"
    /\ LET h == call[c].h
       IN  handoff' = IF Revocable(h) THEN [handoff EXCEPT ![h].revoked = TRUE] ELSE handoff
    /\ Done(c)
    /\ UNCHANGED <<live, owner, moves>>

-----------------------------------------------------------------------------
Expire(h) ==
    /\ ~handoff[h].past
    /\ handoff' = [handoff EXCEPT ![h].past = TRUE]
    /\ UNCHANGED <<live, owner, call, moves>>

EndSession ==
    /\ live
    /\ live' = FALSE
    /\ UNCHANGED <<owner, handoff, call, moves>>

\* The server stops: the calls are lost wherever they were.
Stop ==
    /\ call' = [c \in Calls |-> Idle]
    /\ UNCHANGED <<live, owner, handoff, moves>>

Init ==
    /\ live = TRUE
    /\ owner = Founder
    /\ handoff = <<>>
    /\ call = [c \in Calls |-> Idle]
    /\ moves = <<>>

Step(c) == Insert(c) \/ Mark(c) \/ Transfer(c) \/ RevokeRow(c)

Next ==
    \/ EndSession \/ Stop
    \/ \E h \in DOMAIN handoff : Expire(h)
    \/ \E c \in Calls, u \in Users :
        \/ Create(c, u)
        \/ \E h \in DOMAIN handoff : Accept(c, u, h) \/ Revoke(c, u, h)
    \/ \E c \in Calls : Step(c)

Spec == Init /\ [][Next]_vars

-----------------------------------------------------------------------------
(* Properties                                                              *)

\* "A second accept on the same token loses the race" and the handoff is
\* "revocable" (handoff.py:13-18): a handoff moves the session at most once, to
\* the user whose accept was recorded, and never when a revocation succeeded.
SingleUse ==
    /\ \A i, j \in DOMAIN moves : moves[i].h = moves[j].h => i = j
    /\ \A i \in DOMAIN moves : LET h == handoff[moves[i].h]
                               IN  h.by = moves[i].to /\ ~h.revoked
=============================================================================
