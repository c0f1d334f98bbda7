------------------------------ MODULE CronSearch ------------------------------
(***************************************************************************)
(* When a schedule fires next: next_after, the search of                   *)
(* backend/core/scheduler/cron.py for the first local time after an        *)
(* instant that an expression matches. It walks local times without their  *)
(* offsets, one branch of its loop a step, and returns the instant of the  *)
(* one it found.                                                           *)
(*                                                                         *)
(* An instant, and a local time as a number, is in minutes; seconds are    *)
(* left out. A zone changes its clocks once. The calendar is a parameter:  *)
(* how long the months are and on which day they begin.                    *)
(***************************************************************************)
EXTENDS Integers

CONSTANTS
    Years,       \* the years a date may have
    DaysIn,      \* year, month -> its days
    First,       \* year, month -> number of its first day; day 0 is a Sunday
    Expressions, \* what parse returned
    Zones,       \* [change, before, after]: an instant, offsets before and after it
    Moments       \* local times a search may be asked after

VARIABLES
    cron,  \* the expression
    zone,  \* the zone
    began, \* after_dt
    since,  \* the first local time looked at
    local,
    pc

vars == <<cron, zone, began, since, local, pc>>

-----------------------------------------------------------------------------
(* Local times                                                             *)

Dates == {d \in [year : Years, month : 1..12, day : 1..31, hour : 0..23, minute : 0..59] :
             d.day <= DaysIn[d.year][d.month]}

DayNumber(d) == First[d.year][d.month] + d.day - 1

\* Minutes from midnight of day 0: how datetime orders the times of one zone.
At(d) == 1440 * DayNumber(d) + 60 * d.hour + d.minute

Midnight(year, month, day) ==
    [year |-> year, month |-> month, day |-> day, hour |-> 0, minute |-> 0]

Later(S, x) == {y \in S : y > x}

Least(S) == CHOOSE x \in S : \A y \in S : x <= y

NextDay(d) ==
    IF d.day < DaysIn[d.year][d.month] THEN Midnight(d.year, d.month, d.day + 1)
    ELSE IF d.month < 12 THEN Midnight(d.year, d.month + 1, 1)
    ELSE Midnight(d.year + 1, 1, 1)

NextMinute(d) ==
    IF d.minute < 59 THEN [d EXCEPT !.minute = @ + 1]
    ELSE IF d.hour < 23 THEN [d EXCEPT !.hour = @ + 1, !.minute = 0]
    ELSE NextDay(d)

AdvanceMonth(d, allowed) ==
    IF Later(allowed, d.month) # {} THEN Midnight(d.year, Least(Later(allowed, d.month)), 1)
    ELSE Midnight(d.year + 1, Least(allowed), 1)

AdvanceHour(d, allowed) ==
    IF Later(allowed, d.hour) # {}
    THEN [d EXCEPT !.hour = Least(Later(allowed, d.hour)), !.minute = 0]
    ELSE NextDay(d)

-----------------------------------------------------------------------------
(* Zones, as zoneinfo has them                                             *)

Wall(z, i) == i + (IF i < z.change THEN z.before ELSE z.after)

\* The instant of a local time: of one that comes twice, fold says which; one
\* that is skipped has the offset of before the change with fold 0.
Instant(z, w, fold) ==
    LET early == (z.before >= z.after) = (fold = 0)
        last == z.change + (IF early THEN z.before ELSE z.after)
    IN  IF w < last THEN w - z.before ELSE w - z.after

\* The clock shows at i what it showed before.
SecondPass(z, i) == z.change <= i /\ i + z.after < z.change + z.before

-----------------------------------------------------------------------------
(* Expressions                                                             *)

\* What parse makes of five fields: a * stands for the whole range.
Parsed(c) ==
    /\ c \in [minutes : SUBSET (0..59), hours : SUBSET (0..23), days : SUBSET (1..31),
              months : SUBSET (1..12), dows : SUBSET (0..6),
              domRestricted : BOOLEAN, dowRestricted : BOOLEAN]
    /\ {} \notin {c.minutes, c.hours, c.days, c.months, c.dows}
    /\ ~c.domRestricted => c.days = 1..31
    /\ ~c.dowRestricted => c.dows = 0..6

\* The day, when both fields restrict it, by either.
DayMatches(c, d) ==
    LET dom == d.day \in c.days
        dow == DayNumber(d) % 7 \in c.dows
    IN  IF c.domRestricted /\ c.dowRestricted THEN dom \/ dow ELSE dom /\ dow

Matches(c, d) ==
    /\ d.minute \in c.minutes
    /\ d.hour \in c.hours
    /\ d.month \in c.months
    /\ DayMatches(c, d)

-----------------------------------------------------------------------------
(* Assumptions and types                                                   *)

\* Months have 28 to 31 days, and one that is later begins when the earlier has
\* ended; no search starts in the last year.
Bounds ==
    /\ Years \subseteq Nat
    /\ \A y \in Years, m \in 1..12 : DaysIn[y][m] \in 28..31 /\ First[y][m] \in Nat
    /\ \A y, z \in Years, m, n \in 1..12 :
         y < z \/ (y = z /\ m < n) => First[y][m] + DaysIn[y][m] <= First[z][n]
    /\ \A c \in Expressions : Parsed(c)
    /\ Zones \subseteq [change : Int, before : Int, after : Int]
    /\ Moments \subseteq Dates
    /\ \A s \in Moments : s.year + 1 \in Years

TypeOK ==
    /\ cron \in Expressions
    /\ zone \in Zones
    /\ began \in Int
    /\ since \in Dates
    /\ local \in Dates
    /\ pc \in {"walking", "found", "raised"}

-----------------------------------------------------------------------------
(* next_after                                                              *)

\* Mutant: the walk starts at after_dt itself.
InitUnstepped ==
    /\ cron \in Expressions
    /\ zone \in Zones
    /\ \E s \in Moments, fold \in {0, 1} :
         /\ began = Instant(zone, At(s), fold)
         /\ Wall(zone, began) = At(s)
         /\ since = s
    /\ local = since
    /\ pc = "walking"

\* The clock shows s at after_dt; the walk starts a minute on, where the sum has
\* dropped the fold.
Init ==
    /\ cron \in Expressions
    /\ zone \in Zones
    /\ \E s \in Moments, fold \in {0, 1} :
         /\ began = Instant(zone, At(s), fold)
         /\ Wall(zone, began) = At(s)
         /\ since = NextMinute(s)
    /\ local = since
    /\ pc = "walking"

Horizon == 1440 * 366 * 4

Walking == pc = "walking" /\ At(local) <= At(since) + Horizon

Stop(outcome) == pc' = outcome /\ UNCHANGED <<cron, zone, began, since, local>>

\* A date past the last year there is raises.
WalkTo(d) ==
    IF d.year \in Years THEN local' = d /\ UNCHANGED <<cron, zone, began, since, pc>>
    ELSE Stop("raised")

MonthRuledOut == local.month \notin cron.months

\* Mutant: the day of the month decides alone.
DayRuledOutAlone == local.day \notin cron.days

DayRuledOut == local.day \notin cron.days /\ ~cron.dowRestricted

HourRuledOut == local.hour \notin cron.hours

SkipMonth == Walking /\ MonthRuledOut /\ WalkTo(AdvanceMonth(local, cron.months))

SkipDay == Walking /\ ~MonthRuledOut /\ DayRuledOut /\ WalkTo(NextDay(local))

SkipHour ==
    /\ Walking /\ ~MonthRuledOut /\ ~DayRuledOut /\ HourRuledOut
    /\ WalkTo(AdvanceHour(local, cron.hours))

Candidate == Walking /\ ~MonthRuledOut /\ ~DayRuledOut /\ ~HourRuledOut

Found == Candidate /\ Matches(cron, local) /\ Stop("found")

SkipMinute == Candidate /\ ~Matches(cron, local) /\ WalkTo(NextMinute(local))

GiveUp == pc = "walking" /\ At(local) > At(since) + Horizon /\ Stop("raised")

Next == SkipMonth \/ SkipDay \/ SkipHour \/ Found \/ SkipMinute \/ GiveUp

Spec == Init /\ [][Next]_vars

-----------------------------------------------------------------------------
(* Properties                                                              *)

\* What next_after returns: the time found has no fold.
Result == Instant(zone, At(local), 0)

\* The times of the years walked through that have what the expression asks for.
Eligible ==
    {d \in [year : since.year..local.year, month : cron.months, day : 1..31,
            hour : cron.hours, minute : cron.minutes] : Matches(cron, d) /\ d \in Dates}

\* The search passes over no local time the expression matches, whichever
\* branches of the loop skip it, and what it returns matches.
FirstMatch ==
    pc # "walking" =>
        /\ pc = "found" => Matches(cron, local)
        /\ ~\E d \in Eligible : At(since) <= At(d) /\ At(d) < At(local)

\* A search that does not start in an hour the clock shows again returns a later
\* instant; a firing in between is in such an hour, or the clock skips the time
\* returned.
NextFiring ==
    pc = "found" /\ ~SecondPass(zone, began) =>
        /\ Result > began
        /\ Wall(zone, Result) = At(local) =>
             \A d \in Eligible, fold \in {0, 1} :
               LET i == Instant(zone, At(d), fold)
               IN  began < i /\ i < Result /\ Wall(zone, i) = At(d) => SecondPass(zone, i)

\* Every step of the walk goes forward, from a time within four years, or ends it:
\* the loop takes no more steps than four years have minutes.
WalkEnds ==
    [][pc' = "walking" => /\ At(local) < At(local')
                          /\ At(since) <= At(local) /\ At(local) <= At(since) + Horizon]_vars

\* "Return the next firing time strictly after after_dt" (cron.py:293).
StrictlyAfter == pc = "found" => Result > began
=============================================================================
