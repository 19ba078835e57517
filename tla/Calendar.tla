------------------------------ MODULE Calendar ------------------------------
(***************************************************************************)
(* The arithmetic of hebrew-calendar.ts: days are counted from a fixed     *)
(* start, and the Hebrew and Gregorian dates, the days on which the kollel *)
(* does not sit and the fasts are worked out from the count.  The walk     *)
(* turns the pages of both calendars a day at a time, by the lengths of    *)
(* the months alone, and is the reference the formulas are checked against.*)
(***************************************************************************)
EXTENDS Integers, FiniteSetsExt, SequencesExt

CONSTANTS
    FirstYear,      \* the walk starts on 1 Tishrei of this Hebrew year,
    FirstGregorian, \* which is this Gregorian date,
    LastYear        \* and ends with this year

VARIABLES
    dayNumber,      \* the count of days
    hebrew,     \* [year, month, day]: month 1 is Nisan, the year starts in month 7
    gregorian,  \* [year, month, day]
    kept        \* fast -> how often it fell in this Hebrew year

calendarVars == <<dayNumber, hebrew, gregorian, kept>>
-----------------------------------------------------------------------------
Epoch == -1373428

IsHebrewLeap(y) == ((7 * y + 1) % 19) < 7
HebrewMonthsInYear(y) == IF IsHebrewLeap(y) THEN 13 ELSE 12

(* elapsedDays: the mean new moon of Tishrei, then the four postponements. *)
ElapsedDays(y) ==
    LET cycle  == (y - 1) % 19
        months == 235 * ((y - 1) \div 19) + 12 * cycle + ((7 * cycle + 1) \div 19)
        part   == 204 + 793 * (months % 1080)
        hours  == 5 + 12 * months + 793 * (months \div 1080) + (part \div 1080)
        day    == 1 + 29 * months + (hours \div 24)
        parts  == 1080 * (hours % 24) + (part % 1080)
        late   == \/ parts >= 19440
                  \/ day % 7 = 2 /\ parts >= 9924 /\ ~IsHebrewLeap(y)
                  \/ day % 7 = 1 /\ parts >= 16789 /\ IsHebrewLeap(y - 1)
        moved  == IF late THEN day + 1 ELSE day
    IN  IF moved % 7 \in {0, 3, 5} THEN moved + 1 ELSE moved

HebrewNewYear(y)    == Epoch + ElapsedDays(y)
HebrewDaysInYear(y) == HebrewNewYear(y + 1) - HebrewNewYear(y)

(* Mutant of LongCheshvan: every year that is not short is taken for long. *)
LongUnlessShort(y) == HebrewDaysInYear(y) % 10 # 3

LongCheshvan(y) == HebrewDaysInYear(y) % 10 = 5
ShortKislev(y)  == HebrewDaysInYear(y) % 10 = 3

HebrewLastDayOfMonth(month, y) ==
    IF \/ month \in {2, 4, 6, 10, 13}
       \/ month = 12 /\ ~IsHebrewLeap(y)
       \/ month = 8 /\ ~LongCheshvan(y)
       \/ month = 9 /\ ShortKislev(y)
    THEN 29 ELSE 30

FixedFromHebrew(y, month, day) ==
    LET before == IF month < 7
                  THEN (7 .. HebrewMonthsInYear(y)) \cup (1 .. month - 1)
                  ELSE 7 .. month - 1
    IN  HebrewNewYear(y) + day - 1
            + SumFunction([k \in before |-> HebrewLastDayOfMonth(k, y)])

(* The two loops of hebrewFromFixed, from the year and month they start at;*)
(* the year they stop at is less than twice the one they start at.         *)
HebrewFromFixed(fixed) ==
    LET approx == ((fixed - Epoch) \div 366) + 1
        year   == CHOOSE y \in approx .. 2 * approx :
                    /\ HebrewNewYear(y + 1) > fixed
                    /\ y = approx \/ HebrewNewYear(y) <= fixed
        start  == IF fixed < FixedFromHebrew(year, 1, 1) THEN 7 ELSE 1
        month  == Min({m \in start .. 13 :
                        fixed <= FixedFromHebrew(year, m, HebrewLastDayOfMonth(m, year))})
    IN  [year |-> year, month |-> month, day |-> fixed - FixedFromHebrew(year, month, 1) + 1]

IsGregorianLeap(y) == y % 4 = 0 /\ (y % 100 # 0 \/ y % 400 = 0)
FixedFromGregorian(y, m, d) ==
    365 * (y - 1) + ((y - 1) \div 4) - ((y - 1) \div 100) + ((y - 1) \div 400)
        + ((367 * m - 362) \div 12)
        + (IF m <= 2 THEN 0 ELSE IF IsGregorianLeap(y) THEN -1 ELSE -2) + d

GregorianDaysInMonth(m, y) ==
    CASE m = 2             -> IF IsGregorianLeap(y) THEN 29 ELSE 28
      [] m \in {4, 6, 9, 11} -> 30
      [] OTHER             -> 31
-----------------------------------------------------------------------------
(* The days of the kollel.  0 is Sunday.                                   *)
Weekday(fixed) == fixed % 7

Fasts == {"gedalia", "tevet", "esther", "tamuz", "av", "bechorot"}

(* Mutant of FastOn: a fast that meets Shabbat is not moved away from it.  *)
FastOnItsDay(h, w) ==
    LET day == [gedalia |-> <<7, 3>>, tevet |-> <<10, 10>>, tamuz |-> <<4, 17>>,
                av |-> <<5, 9>>, bechorot |-> <<1, 14>>,
                esther |-> <<IF IsHebrewLeap(h.year) THEN 13 ELSE 12, 13>>]
    IN  {f \in Fasts : w # 6 /\ <<h.month, h.day>> = day[f]}

(* fastDayName: the day itself unless it is Shabbat; then the day after it *)
(* or the Thursday before.                                                 *)
FastOn(h, w) ==
    LET On(month, day)      == h.month = month /\ h.day = day
        MovedOn(month, day) == (On(month, day) /\ w # 6) \/ (On(month, day + 1) /\ w = 0)
        MovedUp(month, day) == (On(month, day) /\ w # 6) \/ (On(month, day - 2) /\ w = 4)
        adar == IF IsHebrewLeap(h.year) THEN 13 ELSE 12
    IN  {f \in Fasts : CASE f = "gedalia"  -> MovedOn(7, 3)
                         [] f = "tevet"    -> On(10, 10)
                         [] f = "esther"   -> MovedUp(adar, 13)
                         [] f = "tamuz"    -> MovedOn(4, 17)
                         [] f = "av"       -> MovedOn(5, 9)
                         [] f = "bechorot" -> MovedUp(1, 14)}

(* numToHebrewLetters, as the values of the letters it writes.             *)
HebrewLetters(n) ==
    LET rest == n % 100
        Digit(value)    == IF value = 0 THEN <<>> ELSE <<value>>
        Hundreds(value) == IF value <= 400 THEN Digit(value)
                           ELSE IF value <= 800 THEN <<400, value - 400>> ELSE <<400, 400, 100>>
    IN  Hundreds(n - rest)
            \o (IF rest \in {15, 16} THEN <<9, rest - 9>>
                ELSE Digit(10 * (rest \div 10)) \o Digit(rest % 10))
-----------------------------------------------------------------------------
ASSUME CalendarAssumption ==
    /\ FirstYear \in Nat \ {0}
    /\ FirstGregorian \in [year : Int, month : 1 .. 12, day : Nat \ {0}]
    /\ FirstGregorian.day <= GregorianDaysInMonth(FirstGregorian.month, FirstGregorian.year)
    /\ FixedFromGregorian(FirstGregorian.year, FirstGregorian.month, FirstGregorian.day)
          = HebrewNewYear(FirstYear)

CalendarInit ==
    /\ dayNumber = HebrewNewYear(FirstYear)
    /\ hebrew = [year |-> FirstYear, month |-> 7, day |-> 1]
    /\ gregorian = FirstGregorian
    /\ kept = [f \in Fasts |-> 0]

NextHebrew(h) ==
    IF h.day < HebrewLastDayOfMonth(h.month, h.year) THEN [h EXCEPT !.day = @ + 1]
    ELSE IF h.month = 6 THEN [year |-> h.year + 1, month |-> 7, day |-> 1]
    ELSE [h EXCEPT !.day = 1, !.month = IF @ = HebrewMonthsInYear(h.year) THEN 1 ELSE @ + 1]

NextGregorian(g) ==
    IF g.day < GregorianDaysInMonth(g.month, g.year) THEN [g EXCEPT !.day = @ + 1]
    ELSE IF g.month = 12 THEN [year |-> g.year + 1, month |-> 1, day |-> 1]
    ELSE [g EXCEPT !.day = 1, !.month = @ + 1]

NextDay ==
    /\ hebrew.year <= LastYear
    /\ dayNumber' = dayNumber + 1
    /\ hebrew' = NextHebrew(hebrew)
    /\ gregorian' = NextGregorian(gregorian)
    /\ kept' = LET fasts == FastOn(hebrew', Weekday(dayNumber'))
               IN  [f \in Fasts |-> (IF hebrew'.year = hebrew.year THEN kept[f] ELSE 0)
                                        + IF f \in fasts THEN 1 ELSE 0]
-----------------------------------------------------------------------------
(* The formulas give the dates the calendar shows: the count from either   *)
(* calendar is the count of days, the Hebrew date worked out from it is    *)
(* the date shown, the new year falls on none of its three forbidden days, *)
(* and the letters written for the day and the year add up to them.        *)
CalendarAgrees ==
    /\ HebrewFromFixed(dayNumber) = hebrew
    /\ FixedFromHebrew(hebrew.year, hebrew.month, hebrew.day) = dayNumber
    /\ FixedFromGregorian(gregorian.year, gregorian.month, gregorian.day) = dayNumber
    /\ hebrew.month = 7 /\ hebrew.day = 1 => Weekday(dayNumber) \notin {0, 3, 5}
    /\ \A n \in {hebrew.day, hebrew.year % 1000} :
            SumFunction(HebrewLetters(n)) = n

(* Every Hebrew year has each of its fasts exactly once, however the year  *)
(* falls, and never on Shabbat.                                            *)
EveryFastOnce ==
    [][/\ hebrew'.year # hebrew.year => \A f \in Fasts : kept[f] = 1
       /\ Weekday(dayNumber') = 6 => kept' = kept \/ hebrew'.year # hebrew.year]_calendarVars
=============================================================================
