------------------------------ MODULE Stipend ------------------------------
(***************************************************************************)
(* What a month's records are worth: the missing minutes of one seder      *)
(* (calcSeder), their monthly summary, the score and the streak            *)
(* (kollel-store.ts), and the stipend (stipend.ts).  The machine is the    *)
(* user correcting the records of one month, one record or lesson at a     *)
(* time.  Money and minutes are whole numbers; `Policy` holds the figures  *)
(* of STIPEND_POLICY.                                                      *)
(***************************************************************************)
EXTENDS Integers, SequencesExt

CONSTANTS
    Seders,        \* the month's seders, <<day, 1 or 2>>
    Records,       \* seder -> the values its record can be given
    Lessons,       \* [framework, day, minutes, tanitDibur]
    Months,        \* [session, full]: learning days held, and of a full month
    SederHours,    \* SederHours[1], SederHours[2]: [start, end]
    BonusThreshold, ShasDeadline, Policy,
    NoTime,        \* an arrival or a departure that was not filled in
    NoRecord,      \* nothing was recorded for the seder
    MaxLessons     \* bound on lessons recorded

(* A time is a number of minutes; the figures of the policy are counts and *)
(* sums of money, and a block and an hour have some minutes.               *)
ASSUME StipendAssumption ==
    /\ IsFiniteSet(Seders) /\ IsFiniteSet({l.day : l \in Lessons})
    /\ \A k \in Seders :
          /\ SederHours[k[2]] \in [start : Int, end : Int]
          /\ NoRecord \notin Records[k]
          /\ Records[k] \subseteq
                [absent : BOOLEAN, arrival : Int \cup {NoTime}, departure : Int \cup {NoTime},
                 excused : Int, excusedAll : BOOLEAN, adjust : Int, ohevei : BOOLEAN]
    /\ NoTime \notin Int /\ BonusThreshold \in Int /\ ShasDeadline \in Int
    /\ \A l \in Lessons : l.minutes \in Int
    /\ \A m \in Months : m.session \in Nat /\ m.full \in Int
    /\ {Policy.base, Policy.free, Policy.excusedFree, Policy.erev.nisPerHour,
        Policy.erev.minMonthly, Policy.erev.maxDaily, Policy.torato.nisPerHour,
        Policy.torato.maxMonthly} \subseteq Int
    /\ {Policy.shortfallBonus, Policy.ohevei, Policy.shas} \subseteq Nat
    /\ {Policy.block, Policy.hour} \subseteq Nat \ {0}
    /\ Policy.tiers \in Seq([from : Int, to : Int \cup {NoTime}, nis : Nat])

VARIABLES records, lessons, month, shasChavura, approved

stipendVars == <<records, lessons, month, shasChavura, approved>>

Recorded(rs) == {k \in Seders : rs[k] # NoRecord}
AtMost(a, b)  == IF a <= b THEN a ELSE b
AtLeast(a, b) == IF a >= b THEN a ELSE b
Positive(a)   == AtLeast(0, a)
Rounded(a, b) == (2 * a + b) \div (2 * b)     \* Math.round(a / b)
-----------------------------------------------------------------------------
(* calcSeder.                                                              *)
Missing(k, r) ==
    LET h == SederHours[k[2]]
    IN  IF r.absent \/ {r.arrival, r.departure} = {NoTime} THEN Positive(h.end - h.start)
        ELSE (IF r.arrival # NoTime THEN Positive(r.arrival - h.start) ELSE 0)
             + (IF r.departure # NoTime THEN Positive(h.end - r.departure) ELSE 0)

EarlyBonus(k, r) ==
    IF r.absent \/ r.arrival = NoTime THEN 0
    ELSE AtMost(BonusThreshold, Positive(SederHours[k[2]].start - r.arrival))

Excused(k, r) == IF r.excusedAll THEN Missing(k, r) ELSE AtMost(Positive(r.excused), Missing(k, r))

NetRaw(k, r) == Missing(k, r) - Excused(k, r) + r.adjust - EarlyBonus(k, r)
Net(k, r)    == Positive(NetRaw(k, r))

IsLate(k, r) == ~r.absent /\ r.arrival # NoTime /\ r.arrival > SederHours[k[2]].start

(* Mutant of IsOhevei: leaving early is asked for instead of staying.      *)
IsOheveiIfLeft(k, r) ==
    /\ r.ohevei /\ ~r.absent /\ NoTime \notin {r.arrival, r.departure}
    /\ r.arrival <= SederHours[k[2]].start /\ r.departure <= SederHours[k[2]].end

IsOhevei(k, r) ==
    /\ r.ohevei /\ ~r.absent /\ NoTime \notin {r.arrival, r.departure}
    /\ r.arrival <= SederHours[k[2]].start /\ r.departure >= SederHours[k[2]].end

IsShasArrival(k, r) ==
    k[2] = 2 /\ ~r.absent /\ r.arrival # NoTime /\ r.arrival <= ShasDeadline

(* validateSeder: what can be recorded at all.                             *)
Valid(r) ==
    /\ ~r.absent /\ NoTime \notin {r.arrival, r.departure} => r.arrival <= r.departure
    /\ r.excused >= 0

(* summarizeEntries.                                                       *)
Summary(rs) ==
    LET rows == Recorded(rs)
        SumOf(F(_, _))  == SumFunction([k \in rows |-> F(k, rs[k])])
        CountOf(P(_, _)) == Cardinality({k \in rows : P(k, rs[k])})
        length(k, r) == Positive(SederHours[k[2]].end - SederHours[k[2]].start)
    IN  [missing |-> SumOf(Missing), excused |-> SumOf(Excused), net |-> SumOf(Net),
         bonus |-> SumOf(EarlyBonus), late |-> CountOf(IsLate), expected |-> SumOf(length),
         ohevei |-> CountOf(IsOhevei), shas |-> CountOf(IsShasArrival)]
-----------------------------------------------------------------------------
(* scoreEntries: (1 - net/expected) * 100 + min(3, bonus/30) - min(5,      *)
(* late/2), rounded and kept between 0 and 100.                            *)
Score(rs) ==
    LET s == Summary(rs)
    IN  IF s.expected = 0 THEN 0
        ELSE AtMost(100, Positive(Rounded(
                6000 * (s.expected - s.net)
                + s.expected * (AtMost(180, 2 * s.bonus) - AtMost(300, 30 * s.late)),
                60 * s.expected)))

(* currentDayStreak: the days back from today (the last day) on which some *)
(* seder was attended in full; today does not break it while it is empty.  *)
Streak(rs) ==
    LET days    == {k[1] : k \in Seders}
        good    == {d \in days : \E k \in Recorded(rs) :
                        k[1] = d /\ ~rs[k].absent /\ Net(k, rs[k]) = 0}
        skipped == {d \in days : d = Max(days) /\ \A k \in Recorded(rs) : k[1] # d}
        broken  == days \ (good \union skipped)
    IN  Cardinality({d \in good : \A b \in broken : b < d})
-----------------------------------------------------------------------------
(* proportionalRatio and scaleMinutes.                                     *)
Scaled(m, n) ==
    IF m.full <= 0 THEN 0 ELSE Rounded(n * AtMost(m.session, m.full), m.full)

(* tierCharges: the whole blocks in each band; the last band has no end.   *)
Charges(m, chargeable) ==
    LET charge(t) ==
            LET upTo == IF t.to = NoTime THEN chargeable ELSE AtMost(chargeable, Scaled(m, t.to))
            IN  (Positive(upTo - Scaled(m, t.from)) \div Policy.block) * t.nis
    IN  SumFunction([i \in DOMAIN Policy.tiers |-> charge(Policy.tiers[i])])

(* Mutant of ExcusedCharged: past the ceiling all that was excused counts. *)
ExcusedChargedWhole(m, excused, approval) ==
    IF approval \/ excused <= Scaled(m, Policy.excusedFree) THEN 0 ELSE excused

ExcusedCharged(m, excused, approval) ==
    IF approval THEN 0 ELSE Positive(excused - Scaled(m, Policy.excusedFree))

(* effectiveLearningMin, cappedKollelErev and cappedToratoBeyado.          *)
Minutes(ls, framework, days) ==
    LET mine == {i \in DOMAIN ls : ls[i].framework = framework /\ ls[i].day \in days}
    IN  SumFunction([i \in mine |-> IF ls[i].tanitDibur THEN 2 * ls[i].minutes ELSE ls[i].minutes])

LearningPay(m, ls) ==
    LET days   == {l.day : l \in Lessons}
        erev   == SumFunction([d \in days |->
                        AtMost(Policy.erev.maxDaily, Minutes(ls, "kollel-erev", {d}))])
        torato == AtMost(Policy.torato.maxMonthly, Minutes(ls, "torato-beyado", days))
    IN  (IF erev < Scaled(m, Policy.erev.minMonthly) THEN 0
         ELSE Rounded(erev * Policy.erev.nisPerHour, Policy.hour))
        + Rounded(torato * Policy.torato.nisPerHour, Policy.hour)

(* calcStipend.                                                            *)
StipendOf(rs, ls, m, shas, approval) ==
    LET s == Summary(rs)
        deduction == Charges(m, s.net + ExcusedCharged(m, s.excused, approval))
        shortfall == IF s.missing < Scaled(m, Policy.free) THEN Scaled(m, Policy.shortfallBonus) ELSE 0
    IN  Positive(Policy.base - deduction + shortfall + s.ohevei * Policy.ohevei
                 + (IF shas THEN s.shas * Policy.shas ELSE 0) + LearningPay(m, ls))

Stipend == StipendOf(records, lessons, month, shasChavura, approved)
-----------------------------------------------------------------------------
StipendInit ==
    /\ records = [k \in Seders |-> NoRecord] /\ lessons = <<>>
    /\ month \in Months /\ shasChavura \in BOOLEAN /\ approved = FALSE

SaveRecord(k, r) ==
    /\ Valid(r) /\ r # records[k]
    /\ records' = [records EXCEPT ![k] = r]
    /\ UNCHANGED <<lessons, month, shasChavura, approved>>

DeleteRecord(k) ==
    /\ records[k] # NoRecord
    /\ records' = [records EXCEPT ![k] = NoRecord]
    /\ UNCHANGED <<lessons, month, shasChavura, approved>>

AddLesson(l) ==
    /\ Len(lessons) < MaxLessons
    /\ lessons' = Append(lessons, l)
    /\ UNCHANGED <<records, month, shasChavura, approved>>

(* setMonthApproved.                                                       *)
ApproveMonth ==
    /\ approved' = ~approved
    /\ UNCHANGED <<records, lessons, month, shasChavura>>

StipendNext ==
    \/ \E k \in Seders : DeleteRecord(k) \/ \E r \in Records[k] : SaveRecord(k, r)
    \/ \E l \in Lessons : AddLesson(l)
    \/ ApproveMonth
-----------------------------------------------------------------------------
Earlier(a, b) == a = b \/ (NoTime \notin {a, b} /\ a <= b)

(* Correcting a record to an earlier arrival or a later departure, and     *)
(* nothing else, never lowers the stipend, the score or the streak,        *)
(* whatever was excused, adjusted or promised on it.                       *)
BetterNeverCosts ==
    [][\A k \in Seders :
        LET old == records[k]
            new == records'[k]
        IN  (/\ old # new /\ NoRecord \notin {old, new} /\ records' = [records EXCEPT ![k] = new]
             /\ old = [new EXCEPT !.arrival = old.arrival, !.departure = old.departure]
             /\ Earlier(new.arrival, old.arrival) /\ Earlier(old.departure, new.departure))
            => Stipend' >= Stipend /\ Score(records') >= Score(records)
               /\ Streak(records') >= Streak(records)]_stipendVars

(* Excusing more of a record's minutes never lowers the stipend, past the  *)
(* ceiling of free excused minutes too, as long as the record still has    *)
(* net minutes for the excuse to come off.                                 *)
ExcuseNeverCosts ==
    [][\A k \in Seders :
        LET old == records[k]
            new == records'[k]
        IN  (/\ old # new /\ NoRecord \notin {old, new} /\ records' = [records EXCEPT ![k] = new]
             /\ old = [new EXCEPT !.excused = old.excused, !.excusedAll = old.excusedAll]
             /\ Excused(k, new) >= Excused(k, old) /\ NetRaw(k, new) >= 0)
            => Stipend' >= Stipend]_stipendVars
=============================================================================
