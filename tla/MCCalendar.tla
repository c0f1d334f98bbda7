------------------------------ MODULE MCCalendar ------------------------------
(***************************************************************************)
(* Small instances for CronSearch: the Gregorian calendar of seven years,  *)
(* clocks that do not change, that go back an hour and that skip one, and  *)
(* the expressions and starts that meet them.                              *)
(***************************************************************************)
EXTENDS Integers

MCYears == 2025..2031

MCDaysIn == [y \in MCYears |->
    [m \in 1..12 |-> IF m = 2 THEN IF y = 2028 THEN 29 ELSE 28
                     ELSE IF m \in {4, 6, 9, 11} THEN 30 ELSE 31]]

\* 2025 began on a Wednesday.
MCFirst == [y \in MCYears |->
    LET january == 3 + 365 * (y - 2025) + (IF y > 2028 THEN 1 ELSE 0)
    IN  [m \in 1..12 |-> january + 31 * (m - 1)
            - (IF m <= 2 THEN 0 ELSE 31 - MCDaysIn[y][2])
            - ((IF m > 4 THEN 1 ELSE 0) + (IF m > 6 THEN 1 ELSE 0)
               + (IF m > 9 THEN 1 ELSE 0) + (IF m > 11 THEN 1 ELSE 0))]]

MCMidnight(y, m, day) == 1440 * (MCFirst[y][m] + day - 1)

\* UTC, and New York on 1 November 2026 at 06:00 UTC, on 14 March 2027 at 07:00.
MCZones == {
    [change |-> 0, before |-> 0, after |-> 0],
    [change |-> MCMidnight(2026, 11, 1) + 360, before |-> -240, after |-> -300],
    [change |-> MCMidnight(2027, 3, 14) + 420, before |-> -300, after |-> -240]}

Time(y, m, day, h, min) ==
    [year |-> y, month |-> m, day |-> day, hour |-> h, minute |-> min]

MCMoments == {
    Time(2026, 10, 31, 23, 59), Time(2026, 11, 1, 1, 20), Time(2026, 11, 1, 1, 50),
    Time(2026, 12, 31, 23, 59),
    Time(2027, 2, 28, 9, 0), Time(2027, 3, 14, 1, 59), Time(2027, 3, 14, 3, 0)}

Fields(minutes, hours, days, months, dows) ==
    [minutes |-> minutes, hours |-> hours, days |-> days, months |-> months, dows |-> dows,
     domRestricted |-> days # 1..31, dowRestricted |-> dows # 0..6]

MCExpressions == {
    Fields({0, 15, 30, 45}, 0..23, 1..31, 1..12, 0..6),  \* */15 * * * *
    Fields({30}, {1, 2}, 1..31, 1..12, 0..6),            \* 30 1,2 * * *
    Fields({5}, {9}, 1..31, 1..12, 1..5),                \* 5 9 * * 1-5
    Fields({0}, {0}, {13}, 1..12, {5}),                  \* 0 0 13 * 5
    Fields({0}, {12}, {31}, {1, 4, 6}, 0..6),            \* 0 12 31 1,4,6 *
    Fields({0}, {0}, {29}, {2}, 0..6),                   \* 0 0 29 2 *
    Fields({0}, {0}, {31}, {2}, 0..6)}                   \* 0 0 31 2 *
=============================================================================
