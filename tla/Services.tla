------------------------------ MODULE Services ------------------------------
(***************************************************************************)
(* The services whose state no other component of the project touches: the *)
(* download proxy, the ledger of receipts and its Merkle roots, the event  *)
(* buffer, the handoffs of a session, a search for a cron expression's     *)
(* next firing, outreach and the tasks of agents, side by side. Each has   *)
(* tables, a cache or locals of its own; a step of one leaves the others   *)
(* as they are.                                                            *)
(***************************************************************************)
EXTENDS Naturals, Sequences, FiniteSets

CONSTANTS
    Versions, Latest, Aliased, Installers, PerPage, MaxReleases,      \* of the proxy
    Callers, NoOne, MaxTime, DayLength, MaxLines, MaxUpsets,          \* of the ledger
    Clerks, Loop, MaxDay, MaxFiled, MaxMemos,                         \* of the roots
    Replays, MaxEvents, Refused, Limit, MaxOutages,                   \* of the buffer
    Users, Founder, HandoffCalls, MaxHandoffs,                        \* of the handoffs
    Years, DaysIn, First, Expressions, Zones, Moments,                 \* of the search
    Drafts, Mailers, Cap,                                             \* of outreach
    Tasks, TaskCalls, MaxMishaps                                      \* of the tasks

VARIABLES
    rels, byTag, list, request,
    now, lines, rows, append, lock, strayed, upsets,
    today, filed, merkle, memos, job,
    event, sender, strict, outages,
    live, owner, handoff, call, moves,
    cron, zone, began, since, local, pc,
    draft, send,
    todo, runner, mishaps

releaseVars == <<rels, byTag, list, request>>
receiptVars == <<now, lines, rows, append, lock, strayed, upsets>>
rootVars == <<today, filed, merkle, memos, job>>
eventVars == <<event, sender, strict, outages>>
handoffVars == <<live, owner, handoff, call, moves>>
cronVars == <<cron, zone, began, since, local, pc>>
outreachVars == <<draft, send>>
taskVars == <<todo, runner, mishaps>>
serviceVars == <<releaseVars, receiptVars, rootVars, eventVars, handoffVars, cronVars,
                 outreachVars, taskVars>>

Release == INSTANCE ReleaseProxy
Receipts == INSTANCE ReceiptChain
    WITH MaxFaults <- MaxUpsets, call <- append, faults <- upsets
Roots == INSTANCE ReceiptRoots WITH MaxLines <- MaxFiled
Events == INSTANCE EventBuffer
    WITH Hands <- Replays, MaxFaults <- MaxOutages, faults <- outages
Cowork == INSTANCE Handoffs WITH Calls <- HandoffCalls
Cron == INSTANCE CronSearch
Outreach == INSTANCE OutreachSends
Agents == INSTANCE AgentTasks
    WITH Callers <- TaskCalls, MaxFaults <- MaxMishaps,
         task <- todo, caller <- runner, faults <- mishaps

\* What the proofs assume of the constants.
ASSUME ServicesBounds ==
    /\ Release!Bounds /\ Receipts!Bounds /\ Roots!Bounds
    /\ Events!Bounds /\ Cowork!Bounds /\ Cron!Bounds
    /\ Outreach!Bounds /\ Agents!Bounds

-----------------------------------------------------------------------------
ServicesInit ==
    /\ Release!Init /\ Receipts!Init /\ Roots!Init
    /\ Events!Init /\ Cowork!Init /\ Cron!Init
    /\ Outreach!Init /\ Agents!Init

ReleaseStep ==
    /\ Release!Next
    /\ UNCHANGED <<receiptVars, rootVars, eventVars, handoffVars, cronVars,
                   outreachVars, taskVars>>
ReceiptStep ==
    /\ Receipts!Next
    /\ UNCHANGED <<releaseVars, rootVars, eventVars, handoffVars, cronVars,
                   outreachVars, taskVars>>
RootStep ==
    /\ Roots!Next
    /\ UNCHANGED <<releaseVars, receiptVars, eventVars, handoffVars, cronVars,
                   outreachVars, taskVars>>
EventStep ==
    /\ Events!Next
    /\ UNCHANGED <<releaseVars, receiptVars, rootVars, handoffVars, cronVars,
                   outreachVars, taskVars>>
HandoffStep ==
    /\ Cowork!Next
    /\ UNCHANGED <<releaseVars, receiptVars, rootVars, eventVars, cronVars,
                   outreachVars, taskVars>>
CronStep ==
    /\ Cron!Next
    /\ UNCHANGED <<releaseVars, receiptVars, rootVars, eventVars, handoffVars,
                   outreachVars, taskVars>>
OutreachStep ==
    /\ Outreach!Next
    /\ UNCHANGED <<releaseVars, receiptVars, rootVars, eventVars, handoffVars,
                   cronVars, taskVars>>
TaskStep ==
    /\ Agents!Next
    /\ UNCHANGED <<releaseVars, receiptVars, rootVars, eventVars, handoffVars,
                   cronVars, outreachVars>>

ServicesNext ==
    \/ ReleaseStep \/ ReceiptStep \/ RootStep \/ EventStep
    \/ HandoffStep \/ CronStep \/ OutreachStep \/ TaskStep

ServicesSpec == ServicesInit /\ [][ServicesNext]_serviceVars

-----------------------------------------------------------------------------
(* What the services promise, each stated in its module                    *)

\* Every service keeps its types.
ServicesTypeOK ==
    /\ Release!TypeOK /\ Receipts!TypeOK /\ Roots!TypeOK
    /\ Events!TypeOK /\ Cowork!TypeOK /\ Cron!TypeOK
    /\ Outreach!TypeOK /\ Agents!TypeOK

\* A download comes from its own version's release if that has it ([file].ts).
PrefersItsTag == Release!PrefersItsTag

\* Receipts form one chain (receipts/store.py).
OneChain == Receipts!OneChain

\* An anchored Merkle root is the root its memo carries (receipts/anchor.py).
AnchorMatchesRoot == Roots!AnchorMatchesRoot

\* A buffered event arrives before it is marked, and is marked (meeet/client.py).
BufferedArrives == Events!BufferedArrives

\* A handoff moves a session once, or was revoked (cowork/handoff.py).
SingleUse == Cowork!SingleUse

\* A search passes over nothing its expression matches (scheduler/cron.py).
FirstMatch == Cron!FirstMatch

\* What it returns is the next firing, but for the hours the clock shows twice
\* and those it skips (scheduler/cron.py).
NextFiring == Cron!NextFiring

\* Every step of the loop goes forward or ends the search (scheduler/cron.py).
WalkEnds == Cron!WalkEnds

\* Sends in flight together pass the daily cap by fewer than they are (outreach/sender.py).
CapNearlyKept == Outreach!CapNearlyKept

\* A task that reads running has a run that will write its outcome (agents/runner.py).
RunningIsRun == Agents!RunningIsRun

\* A task that is over stays so (agents/store.py).
OverForGood == Agents!OverForGood
=============================================================================
