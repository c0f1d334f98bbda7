------------------------------ MODULE MCParts ------------------------------
(***************************************************************************)
(* The page, the services and the scheduler on small instances. A          *)
(* behaviour is one of a single part, which its first state chooses, with  *)
(* the others in their initial states: the parts share no variable, so a   *)
(* property of one part fails in an interleaving of them only if it fails  *)
(* here.                                                                   *)
(***************************************************************************)
EXTENDS Cockpit, Services, SchedulerTicks, MCCalendar

VARIABLE part

MCInstallers == {[kind |-> kind, version |-> Aliased] : kind \in {"x64", "aarch64"}}

Parts == {"socket", "chat", "voice", "speech", "release", "receipts", "roots", "events",
          "handoffs", "cron", "outreach", "tasks", "ticks"}

\* Searches differ in what they are asked; where none runs, one stands for all.
OneSearch ==
    /\ cron = CHOOSE c \in Expressions : c.days = {29}
    /\ zone = CHOOSE z \in Zones : z.before = z.after
    /\ since = Cron!NextMinute(CHOOSE s \in Moments : TRUE)

MCInit ==
    /\ part \in Parts
    /\ PageInit /\ ServicesInit /\ Init
    /\ part # "cron" => OneSearch

\* Part p moves, and no other.
Alone(p, step) == part = p /\ step /\ UNCHANGED part

OfPage(p, step) == Alone(p, step) /\ UNCHANGED <<serviceVars, vars>>
OfServices(p, step) == Alone(p, step) /\ UNCHANGED <<pageVars, vars>>

MCNext ==
    \/ OfPage("socket", SocketStep)
    \/ OfPage("chat", ChatStep)
    \/ OfPage("voice", VoiceStep)
    \/ OfPage("speech", SpeechStep)
    \/ OfServices("release", ReleaseStep)
    \/ OfServices("receipts", ReceiptStep)
    \/ OfServices("roots", RootStep)
    \/ OfServices("events", EventStep)
    \/ OfServices("handoffs", HandoffStep)
    \/ OfServices("cron", CronStep)
    \/ OfServices("outreach", OutreachStep)
    \/ OfServices("tasks", TaskStep)
    \/ Alone("ticks", Next) /\ UNCHANGED <<pageVars, serviceVars>>

\* What Socket, Events and SchedulerTicks call fair, where that part moves.
MCFairness ==
    /\ WF_socketVars(part = "socket" /\ Socket!RetryTimerFires)
    /\ \A k \in 1..(MaxLives + MaxLosses) :
         WF_socketVars(part = "socket" /\ k \in DOMAIN sock /\ Socket!Event(k))
    /\ WF_eventVars(part = "events" /\ Events!Replay(Loop))
    /\ WF_vars(part = "ticks" /\ LoopStep)
    /\ \A s \in Schedules, l \in Lanes : WF_vars(part = "ticks" /\ CallStep(s, l))

MCSpec == MCInit /\ [][MCNext]_<<part, pageVars, serviceVars, vars>> /\ MCFairness
=============================================================================
