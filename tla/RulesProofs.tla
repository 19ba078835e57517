---------------------------- MODULE RulesProofs ----------------------------
(***************************************************************************)
(* The rules of RulesMC, proved for lists of any length, any hours and     *)
(* changes to them, any records, policy and month, and any number of years *)
(* of the calendar.                                                        *)
(*                                                                         *)
(* The loops of the code are folds of the community modules, and a fold is *)
(* chosen as the function that satisfies its own recursion.  So the first  *)
(* part shows, once, that such functions exist; after it each loop is a    *)
(* walk h[0], h[1], ... whose last value is what the loop returns, and     *)
(* what it keeps is shown by induction on the set of places where it holds.*)
(***************************************************************************)
EXTENDS MergeLists, Calendar, Hours, Stipend, WellFoundedInduction, FiniteSetTheorems,
        SequenceTheorems, TLAPS

-----------------------------------------------------------------------------
(* INDUCTION AND FOLDS.                                                    *)

(* The natural numbers are well ordered.                                   *)
LEMMA LeastExists ==
    ASSUME NEW S \in SUBSET Nat, S # {}
    PROVE  \E n \in S : \A m \in S : n <= m
<1> DEFINE R == OpToRel(<, Nat)
<1>1. IsWellFoundedOn(R, Nat) BY NatLessThanWellFounded
<1>2. ASSUME NEW x \in Nat, NEW y \in Nat, ~(<<x, y>> \in R) PROVE ~(x < y)
  BY <1>2 DEF OpToRel
<1> HIDE DEF R
<1>3. PICK x \in S : \A y \in S : ~(<<y, x>> \in R) BY <1>1, WFMin
<1>4. ASSUME NEW y \in S PROVE x <= y
  <2>1. x \in Nat /\ y \in Nat OBVIOUS
  <2>2. ~(y < x) BY <1>2, <1>3, <2>1
  <2> QED BY <2>1, <2>2
<1> QED BY <1>4

(* Induction up to n, with the set of the numbers it holds for.            *)
LEMMA UpTo ==
    ASSUME NEW n \in Nat, NEW P \in SUBSET (0 .. n), 0 \in P,
           \A k \in 1 .. n : k - 1 \in P => k \in P
    PROVE  P = 0 .. n
<1> SUFFICES ASSUME (0 .. n) \ P # {} PROVE FALSE OBVIOUS
<1> PICK k \in (0 .. n) \ P : \A m \in (0 .. n) \ P : k <= m
  <2>1. (0 .. n) \ P \in SUBSET Nat OBVIOUS
  <2> QED BY <2>1, LeastExists
<1>1. k # 0 OBVIOUS
<1>2. k - 1 \in 0 .. n /\ ~(k <= k - 1) /\ k \in 1 .. n BY <1>1
<1>3. k - 1 \in P BY <1>2
<1> QED BY <1>2, <1>3

(* A recursion over 0 .. n that stays in a set defines a function.         *)
Defined(n, D, a, adv) ==
    \E g \in [0 .. n -> D] : g[0] = a /\ \A k \in 1 .. n : g[k] = adv[k][g[k - 1]]

LEMMA Recursion ==
    ASSUME NEW n \in Nat, NEW D, NEW a \in D, NEW adv \in [1 .. n -> [D -> D]]
    PROVE  Defined(n, D, a, adv)
<1> DEFINE Is(m, g) == g[0] = a /\ \A k \in 1 .. m : g[k] = adv[k][g[k - 1]]
           P == {m \in 0 .. n : \E g \in [0 .. m -> D] : Is(m, g)}
<1>1. 0 \in P
  <2> [k \in 0 .. 0 |-> a] \in [0 .. 0 -> D] /\ Is(0, [k \in 0 .. 0 |-> a]) OBVIOUS
  <2> HIDE DEF Is
  <2> QED OBVIOUS
<1>2. ASSUME NEW m \in 1 .. n, m - 1 \in P PROVE m \in P
  <2> PICK g \in [0 .. m - 1 -> D] : Is(m - 1, g) BY <1>2
  <2> DEFINE e == adv[m][g[m - 1]]
             h == [k \in 0 .. m |-> IF k = m THEN e ELSE g[k]]
  <2>1. m - 1 \in 0 .. m - 1 /\ m \in 1 .. n /\ g[m - 1] \in D BY <1>2
  <2>2. e \in D BY <2>1
  <2> HIDE DEF e
  <2>3. h \in [0 .. m -> D] BY <2>2
  <2>4. h[0] = a OBVIOUS
  <2>5. ASSUME NEW k \in 1 .. m PROVE h[k] = adv[k][h[k - 1]]
    <3>1. CASE k = m
      <4> h[k] = e /\ h[k - 1] = g[m - 1] BY <3>1
      <4> QED BY <3>1 DEF e
    <3>2. CASE k # m
      <4>1. k \in 1 .. m - 1 /\ k - 1 \in 0 .. m - 1 /\ k - 1 # m BY <3>2
      <4>2. h[k] = g[k] /\ h[k - 1] = g[k - 1] BY <3>2, <4>1
      <4> QED BY <4>1, <4>2
    <3> QED BY <3>1, <3>2
  <2> HIDE DEF h
  <2>6. Is(m, h) BY <2>4, <2>5
  <2> QED BY <2>3, <2>6
<1> HIDE DEF P
<1>3. P \in SUBSET (0 .. n) BY DEF P
<1>4. n \in P
  <2>1. P = 0 .. n BY <1>1, <1>2, <1>3, UpTo
  <2> QED BY <2>1
<1> QED BY <1>4 DEF P, Defined
(* The greatest of a finite set of numbers is in it.                       *)
LEMMA MaxIsIn ==
    ASSUME NEW n \in Nat, NEW S \in SUBSET (1 .. n), S # {}
    PROVE  Max(S) \in S /\ \A x \in S : x <= Max(S)
<1> DEFINE Back == {d \in 0 .. n : n - d \in S}
<1>1. Back \in SUBSET Nat OBVIOUS
<1>2. Back # {}
  <2> PICK d \in S : TRUE OBVIOUS
  <2>1. n - d \in 0 .. n /\ n - (n - d) = d OBVIOUS
  <2> QED BY <2>1
<1> HIDE DEF Back
<1> PICK m \in Back : \A x \in Back : m <= x BY <1>1, <1>2, LeastExists
<1>3. n - m \in S BY DEF Back
<1>4. ASSUME NEW y \in S PROVE n - m >= y
  <2>1. n - y \in 0 .. n /\ n - (n - y) = y OBVIOUS
  <2>2. n - y \in Back BY <2>1 DEF Back
  <2>3. m <= n - y BY <2>2
  <2>4. m \in 0 .. n BY DEF Back
  <2> QED BY <2>3, <2>4
<1> QED BY <1>3, <1>4 DEF Max

LEMMA MinBounds ==
    ASSUME NEW n \in Nat, NEW S \in SUBSET (1 .. n), S # {}
    PROVE  Min(S) \in S /\ \A x \in S : Min(S) <= x
<1> PICK m \in S : \A x \in S : m <= x BY LeastExists
<1> QED BY DEF Min

(* Induction over the subsets of a finite set: who has every set that is   *)
(* one element larger than one it has, has them all.                       *)
LEMMA EverySubset ==
    ASSUME NEW S, IsFiniteSet(S), NEW P, {} \in P,
           \A T \in SUBSET S : T # {} => \E x \in T : T \ {x} \in P => T \in P
    PROVE  SUBSET S \subseteq P
<1> DEFINE n == Cardinality(S)
           Q == {k \in 0 .. n : \A T \in SUBSET S : Cardinality(T) = k => T \in P}
<1>1. n \in Nat BY FS_CardinalityType
<1>2. ASSUME NEW T \in SUBSET S PROVE IsFiniteSet(T) /\ Cardinality(T) \in 0 .. n
  <2>1. IsFiniteSet(T) /\ Cardinality(T) <= n BY FS_Subset
  <2> QED BY <1>1, <2>1, FS_CardinalityType
<1>3. 0 \in Q
  <2> 0 \in 0 .. n BY <1>1
  <2> QED BY <1>2, FS_EmptySet
<1>4. ASSUME NEW k \in 1 .. n, k - 1 \in Q PROVE k \in Q
  <2> SUFFICES ASSUME NEW T \in SUBSET S, Cardinality(T) = k PROVE T \in P BY <1>1
  <2>1. T # {}
    <3> k # 0 BY <1>1
    <3> Cardinality({}) = 0 BY FS_EmptySet
    <3> QED OBVIOUS
  <2> PICK x \in T : T \ {x} \in P => T \in P BY <2>1
  <2>2. Cardinality(T \ {x}) = k - 1 BY <1>2, FS_RemoveElement
  <2>3. T \ {x} \in P BY <1>4, <2>2
  <2> QED BY <2>3
<1> HIDE DEF n
<1>5. Q = 0 .. n 
  <2>1. Q \in SUBSET (0 .. n) OBVIOUS
  <2> HIDE DEF Q
  <2> QED BY <1>1, <1>3, <1>4, <2>1, UpTo
<1> QED BY <1>2, <1>5
-----------------------------------------------------------------------------
(* A fold over a set: it takes pick[T] out of what is left, T, and adds it *)
(* to the fold of the rest.                                                *)
FoldIsDefined(S, D, first, pick, add) ==
    \E g \in [SUBSET S -> D] :
        \A T \in SUBSET S : g[T] = IF T = {} THEN first ELSE add[pick[T]][g[T \ {pick[T]}]]

LEMMA FoldExists ==
    ASSUME NEW S, IsFiniteSet(S), NEW D, NEW first \in D,
           NEW pick, \A T \in SUBSET S : T # {} => pick[T] \in T,
           NEW add \in [S -> [D -> D]]
    PROVE  FoldIsDefined(S, D, first, pick, add)
<1> DEFINE n == Cardinality(S)
           E == [SUBSET S -> D]
           Once(h) == [T \in SUBSET S |-> IF T = {} THEN first ELSE add[pick[T]][h[T \ {pick[T]}]]]
           adv == [k \in 1 .. n + 1 |-> [h \in E |-> Once(h)]]
           zero == [T \in SUBSET S |-> first]
<1>1. n \in Nat /\ n + 1 \in Nat BY FS_CardinalityType
<1>2. ASSUME NEW h \in E PROVE Once(h) \in E
  <2> SUFFICES ASSUME NEW T \in SUBSET S, T # {} PROVE add[pick[T]][h[T \ {pick[T]}]] \in D OBVIOUS
  <2>1. pick[T] \in S /\ T \ {pick[T]} \in SUBSET S OBVIOUS
  <2>2. h[T \ {pick[T]}] \in D BY <2>1
  <2>3. add[pick[T]] \in [D -> D] BY <2>1
  <2> QED BY <2>2, <2>3
<1>3. zero \in E OBVIOUS
<1>4. adv \in [1 .. n + 1 -> [E -> E]] BY <1>2
<1>5. Defined(n + 1, E, zero, adv)
  <2> HIDE DEF n, E, zero, adv
  <2> QED BY <1>1, <1>3, <1>4, Recursion
<1>6. PICK h \in [0 .. n + 1 -> E] : h[0] = zero /\ \A k \in 1 .. n + 1 : h[k] = adv[k][h[k - 1]]
  <2> HIDE DEF n, E, zero, adv
  <2> QED BY <1>5 DEF Defined
<1>7. ASSUME NEW k \in 1 .. n + 1 PROVE h[k] = Once(h[k - 1]) /\ h[k - 1] \in E
  <2> HIDE DEF n, E
  <2>1. k - 1 \in 0 .. n + 1 BY <1>1
  <2>2. h[k - 1] \in E BY <2>1
  <2> QED BY <1>6, <2>2
<1> DEFINE Same(k) == \A T \in SUBSET S : Cardinality(T) < k => h[k][T] = h[k - 1][T]
           P == {k \in 0 .. n + 1 : k = 0 \/ Same(k)}
<1>8. ASSUME NEW T \in SUBSET S
      PROVE  /\ IsFiniteSet(T) /\ Cardinality(T) \in 0 .. n
             /\ Cardinality(T) = 0 => T = {}
  <2>1. IsFiniteSet(T) /\ Cardinality(T) <= n BY FS_Subset
  <2> QED BY <1>1, <2>1, FS_CardinalityType, FS_EmptySet
<1>9. 0 \in P BY <1>1
<1>10. ASSUME NEW k \in 1 .. n + 1, k - 1 \in P PROVE k \in P
  <2> SUFFICES ASSUME NEW T \in SUBSET S, Cardinality(T) < k PROVE h[k][T] = h[k - 1][T] OBVIOUS
  <2>1. h[k] = Once(h[k - 1]) BY <1>7
  <2>2. CASE T = {}
    <3>1. h[k][T] = first BY <2>1, <2>2
    <3>2. CASE k = 1
      <4> h[k - 1] = zero BY <1>6, <3>2
      <4> QED BY <2>2, <3>1
    <3>3. CASE k # 1
      <4>1. k - 1 \in 1 .. n + 1 BY <1>1, <3>3
      <4>2. h[k - 1] = Once(h[k - 1 - 1]) BY <1>7, <4>1
      <4> QED BY <2>2, <3>1, <4>2
    <3> QED BY <3>2, <3>3
  <2>3. CASE T # {}
    <3> DEFINE U == T \ {pick[T]}
    <3>1. Cardinality(U) = Cardinality(T) - 1 /\ U \in SUBSET S BY <1>8, <2>3, FS_RemoveElement
    <3>2. Cardinality(T) \in 1 .. n BY <1>1, <1>8, <2>3
    <3>3. k - 1 \in 1 .. n + 1 /\ k - 1 # 0 /\ Cardinality(U) < k - 1 BY <1>1, <3>1, <3>2
    <3>4. Same(k - 1) BY <1>10, <3>3
    <3>5. h[k - 1][U] = h[k - 1 - 1][U] BY <3>1, <3>3, <3>4
    <3>6. h[k - 1] = Once(h[k - 1 - 1]) BY <1>7, <3>3
    <3>7. h[k][T] = add[pick[T]][h[k - 1][U]] BY <2>1, <2>3
    <3>8. h[k - 1][T] = add[pick[T]][h[k - 1 - 1][U]] BY <2>3, <3>6
    <3> QED BY <3>5, <3>7, <3>8
  <2> QED BY <2>2, <2>3
<1>11. ASSUME NEW k \in 1 .. n + 1 PROVE Same(k)
  <2>1. P \in SUBSET (0 .. n + 1) OBVIOUS
  <2>2. k \in 0 .. n + 1 /\ k # 0 BY <1>1
  <2>3. P = 0 .. n + 1
    <3> HIDE DEF P, n
    <3> QED BY <1>1, <1>9, <1>10, <2>1, UpTo
  <2> HIDE DEF Same
  <2> QED BY <2>2, <2>3
<1>12. ASSUME NEW T \in SUBSET S
       PROVE  h[n][T] = IF T = {} THEN first ELSE add[pick[T]][h[n][T \ {pick[T]}]]
  <2> DEFINE m == n + 1
  <2>0. Cardinality(T) \in 0 .. n BY <1>8
  <2>1. m \in 1 .. n + 1 /\ m - 1 = n /\ Cardinality(T) < m
    <3> HIDE DEF n
    <3> QED BY <1>1, <2>0
  <2> HIDE DEF m, n
  <2>2. h[m] = Once(h[n])
    <3> HIDE DEF Once
    <3> QED BY <1>7, <2>1
  <2>3. h[m][T] = h[n][T] BY <1>11, <2>1
  <2> QED BY <2>2, <2>3
<1>13. h[n] \in [SUBSET S -> D]
  <2> n \in 0 .. n + 1 BY <1>1
  <2> QED OBVIOUS
<1> HIDE DEF n
<1> QED BY <1>12, <1>13 DEF FoldIsDefined
-----------------------------------------------------------------------------
(* LISTS OF RECORDS.  The window's loop and the file's loop of a merging   *)
(* save, the filter and the "replace".                                     *)

(* A fold over the places of a list, from the first on.                    *)
ListFoldIsDefined(n, D, first, add) ==
    \E g \in [SUBSET (1 .. n) -> D] :
        \A T \in SUBSET (1 .. n) : g[T] = IF T = {} THEN first ELSE add[Max(T)][g[T \ {Max(T)}]]

LEMMA ListFold ==
    ASSUME NEW n \in Nat, NEW D, NEW first \in D, NEW add \in [1 .. n -> [D -> D]]
    PROVE  ListFoldIsDefined(n, D, first, add)
<1> DEFINE pick == [T \in SUBSET (1 .. n) |-> Max(T)]
           S == 1 .. n
<1>1. IsFiniteSet(S) BY FS_Interval
<1>2. \A T \in SUBSET S : T # {} => pick[T] \in T BY MaxIsIn
<1>3. FoldIsDefined(S, D, first, pick, add)
  <2> add \in [S -> [D -> D]] OBVIOUS
  <2> HIDE DEF pick, S
  <2> QED BY <1>1, <1>2, FoldExists
<1>4. PICK g \in [SUBSET S -> D] :
          \A T \in SUBSET S : g[T] = IF T = {} THEN first ELSE add[pick[T]][g[T \ {pick[T]}]]
  <2> HIDE DEF pick, S
  <2> QED BY <1>3 DEF FoldIsDefined
<1> QED BY <1>4 DEF ListFoldIsDefined

LEMMA MaxOfRange ==
    ASSUME NEW n \in Nat, NEW k \in 1 .. n
    PROVE  /\ Max(1 .. k) = k /\ (1 .. k) \ {k} = 1 .. k - 1
           /\ 1 .. k # {} /\ 1 .. k \in SUBSET (1 .. n)
<1>1. 1 .. k \in SUBSET (1 .. k) /\ 1 .. k # {} /\ k \in 1 .. k /\ k \in Nat OBVIOUS
<1>2. Max(1 .. k) \in 1 .. k /\ k <= Max(1 .. k) BY <1>1, MaxIsIn
<1> QED BY <1>1, <1>2

(* h[k] is what the first loop has after k records.                        *)
SentWalk(b, n, c, h) ==
    /\ h[0] = <<>>
    /\ \A k \in 1 .. Len(n) :
          LET version == KeptFromSent(b[n[k].id], n[k].version, c[n[k].id])
          IN  h[k] = IF version = Absent THEN h[k - 1]
                     ELSE Append(h[k - 1], [id |-> n[k].id, version |-> version])
    /\ SentLoop(b, n, c) = h[Len(n)]

LEMMA SentRuns ==
    ASSUME NEW b \in [Ids -> Versions \cup {Absent}], NEW n \in Seq(Record),
           NEW c \in [Ids -> Versions \cup {Absent}]
    PROVE  \E h : SentWalk(b, n, c, h)
<1> DEFINE D == Seq(Record)
           L == Len(n)
           Push(out, record) ==
               LET version == KeptFromSent(b[record.id], record.version, c[record.id])
               IN  IF version = Absent THEN out
                   ELSE Append(out, [id |-> record.id, version |-> version])
           add == [k \in 1 .. L |-> [out \in D |-> Push(out, n[k])]]
           F == CHOOSE F : F = [s \in SUBSET (DOMAIN n) |->
                                  IF s = {} THEN <<>> ELSE Push(F[s \ {Max(s)}], n[Max(s)])]
           h == [k \in 0 .. L |-> F[1 .. k]]
<1>1. L \in Nat /\ DOMAIN n = 1 .. L /\ <<>> \in D OBVIOUS
<1>2. ASSUME NEW out \in D, NEW k \in 1 .. L PROVE Push(out, n[k]) \in D
  <2>1. n[k] \in Record BY <1>1
  <2>2. n[k].id \in Ids /\ n[k].version \in Versions BY <2>1 DEF Record
  <2> DEFINE v == KeptFromSent(b[n[k].id], n[k].version, c[n[k].id])
  <2>3. v \in Versions \cup {Absent} BY <2>2 DEF KeptFromSent
  <2> HIDE DEF v
  <2>4. v # Absent => [id |-> n[k].id, version |-> v] \in Record BY <2>2, <2>3 DEF Record
  <2>5. v # Absent => Append(out, [id |-> n[k].id, version |-> v]) \in D BY <2>4
  <2> QED BY <2>5 DEF v
<1>3. add \in [1 .. L -> [D -> D]]
  <2> HIDE DEF D, L, Push
  <2> QED BY <1>2
<1>4. PICK g \in [SUBSET (1 .. L) -> D] :
          \A T \in SUBSET (1 .. L) : g[T] = IF T = {} THEN <<>> ELSE add[Max(T)][g[T \ {Max(T)}]]
  <2> DEFINE a == <<>>
  <2> a \in D BY <1>1
  <2>1. ListFoldIsDefined(L, D, a, add)
    <3> HIDE DEF D, L, add, a
    <3> QED BY <1>1, <1>3, ListFold
  <2> HIDE DEF D, L, add
  <2> QED BY <2>1 DEF ListFoldIsDefined
<1>5. g = [s \in SUBSET (DOMAIN n) |-> IF s = {} THEN <<>> ELSE Push(g[s \ {Max(s)}], n[Max(s)])]
  <2> HIDE DEF D, L, Push
  <2>1. ASSUME NEW s \in SUBSET (1 .. L), s # {}
        PROVE  g[s] = Push(g[s \ {Max(s)}], n[Max(s)])
    <3>1. Max(s) \in 1 .. L BY <1>1, <2>1, MaxIsIn
    <3>2. g[s \ {Max(s)}] \in D BY <3>1
    <3>3. add[Max(s)][g[s \ {Max(s)}]] = Push(g[s \ {Max(s)}], n[Max(s)]) BY <3>1, <3>2
    <3> QED BY <1>4, <2>1, <3>3
  <2> HIDE DEF add
  <2> QED BY <1>1, <1>4, <2>1
<1>6. F = [s \in SUBSET (DOMAIN n) |-> IF s = {} THEN <<>> ELSE Push(F[s \ {Max(s)}], n[Max(s)])]
  <2> HIDE DEF Push
  <2> QED BY <1>5
<1>7. SentLoop(b, n, c) = F[DOMAIN n]
  BY DEF SentLoop, FoldLeft, MapThenFoldSet
<1>8. h[0] = <<>>
  <2>1. 1 .. 0 = {} /\ 0 \in 0 .. L BY <1>1
  <2>2. F[{}] = <<>>
    <3> HIDE DEF F, Push
    <3> QED BY <1>6
  <2> HIDE DEF F
  <2> QED BY <2>1, <2>2
<1>9. ASSUME NEW k \in 1 .. L PROVE h[k] = Push(h[k - 1], n[k])
  <2>1. /\ Max(1 .. k) = k /\ (1 .. k) \ {k} = 1 .. k - 1
        /\ 1 .. k # {} /\ 1 .. k \in SUBSET (1 .. L)
    BY <1>1, MaxOfRange
  <2>2. F[1 .. k] = Push(F[1 .. k - 1], n[k])
    <3> HIDE DEF F, Push, L
    <3> QED BY <1>1, <1>6, <2>1
  <2>3. k \in 0 .. L /\ k - 1 \in 0 .. L BY <1>1
  <2> HIDE DEF F, Push, L
  <2> QED BY <2>2, <2>3
<1>10. SentLoop(b, n, c) = h[L]
  <2>1. L \in 0 .. L BY <1>1
  <2> HIDE DEF F, L
  <2> QED BY <1>1, <1>7, <2>1
<1> HIDE DEF h
<1>11. SentWalk(b, n, c, h) BY <1>8, <1>9, <1>10 DEF SentWalk
<1> QED BY <1>11

-----------------------------------------------------------------------------
(* A list in which no id comes twice, as a set of records.                 *)
NoIdTwice(l) == \A i, j \in DOMAIN l : l[i].id = l[j].id => i = j

LEMMA RecordListIs ==
    ASSUME NEW l \in Seq(Record)
    PROVE  /\ IsRecordList(l) <=> NoIdTwice(l)
           /\ IsFiniteSet(IdsOf(l)) /\ IdsOf(l) \subseteq Ids
<1> DEFINE n == Len(l)
           f == [k \in 1 .. n |-> l[k].id]
<1>1. n \in Nat /\ DOMAIN l = 1 .. n /\ \A k \in 1 .. n : l[k] \in Record OBVIOUS
<1>2. IdsOf(l) = {l[k].id : k \in 1 .. n} BY <1>1 DEF IdsOf, ToSet
<1>3. f \in Surjection(1 .. n, IdsOf(l))
  <2> HIDE DEF n
  <2>1. f \in [1 .. n -> IdsOf(l)] BY <1>2
  <2>2. \A id \in IdsOf(l) : \E k \in 1 .. n : f[k] = id BY <1>2
  <2> QED BY <2>1, <2>2 DEF Surjection
<1>4. IsFiniteSet(1 .. n) /\ Cardinality(1 .. n) = n
  <2> HIDE DEF n
  <2> QED BY <1>1, FS_Interval
<1>5. IsFiniteSet(IdsOf(l)) /\ (Cardinality(IdsOf(l)) = n <=> f \in Injection(1 .. n, IdsOf(l)))
  <2> HIDE DEF f, n
  <2> QED BY <1>3, <1>4, FS_Surjection
<1>6. f \in Injection(1 .. n, IdsOf(l)) <=> NoIdTwice(l)
  <2>1. f \in [1 .. n -> IdsOf(l)] BY <1>3 DEF Surjection
  <2>2. DOMAIN f = 1 .. n /\ \A k \in 1 .. n : f[k] = l[k].id OBVIOUS
  <2> HIDE DEF f
  <2> QED BY <1>1, <2>1, <2>2 DEF Injection, IsInjective, NoIdTwice
<1>7. IdsOf(l) \subseteq Ids
  <2> SUFFICES ASSUME NEW k \in 1 .. n PROVE l[k].id \in Ids BY <1>2
  <2> QED BY <1>1 DEF Record
<1> QED BY <1>5, <1>6, <1>7 DEF IsRecordList

(* The lists that can be merged record by record.                          *)
RecordLists == {l \in Seq(Record) : NoIdTwice(l)}

LEMMA ListsAre ==
    ASSUME IsFiniteSet(Ids)
    PROVE  Lists = RecordLists
<1> DEFINE m == Cardinality(Ids)
<1>1. m \in Nat BY FS_CardinalityType
<1>2. ASSUME NEW l \in Lists PROVE l \in RecordLists
  <2>1. PICK k \in 0 .. m : l \in [1 .. k -> Record] BY <1>2 DEF Lists, BoundedSeq, SeqOf
  <2>2. k \in Nat BY <1>1
  <2>3. l \in Seq(Record) BY <2>1, <2>2
  <2>4. IsRecordList(l) BY <1>2 DEF Lists
  <2> QED BY <2>3, <2>4, RecordListIs DEF RecordLists
<1>3. ASSUME NEW l \in RecordLists PROVE l \in Lists
  <2>1. l \in Seq(Record) /\ NoIdTwice(l) BY DEF RecordLists
  <2>2. IsRecordList(l) /\ IdsOf(l) \subseteq Ids BY <2>1, RecordListIs
  <2>3. Cardinality(IdsOf(l)) <= m BY <2>2, FS_Subset
  <2>4. Len(l) \in Nat /\ l \in [1 .. Len(l) -> Record] BY <2>1
  <2>5. Len(l) \in 0 .. m BY <1>1, <2>2, <2>3, <2>4 DEF IsRecordList
  <2>6. l \in BoundedSeq(Record, m)
    <3> HIDE DEF m
    <3> QED BY <2>4, <2>5 DEF BoundedSeq, SeqOf
  <2> QED BY <2>2, <2>6 DEF Lists
<1> QED BY <1>2, <1>3

(* Looked up by id.                                                        *)
LEMMA VersionOf ==
    ASSUME NEW l \in RecordLists
    PROVE  /\ \A k \in 1 .. Len(l) : VersionIn(l, l[k].id) = l[k].version
           /\ \A id : id \notin IdsOf(l) => VersionIn(l, id) = Absent
           /\ \A id \in IdsOf(l) : \E k \in 1 .. Len(l) : l[k].id = id
           /\ ById(l) \in [Ids -> Versions \cup {Absent}]
<1>1. /\ Len(l) \in Nat /\ DOMAIN l = 1 .. Len(l) /\ NoIdTwice(l)
      /\ \A k \in 1 .. Len(l) : l[k] \in Record
  BY DEF RecordLists
<1>2. IdsOf(l) = {l[k].id : k \in 1 .. Len(l)} BY <1>1 DEF IdsOf, ToSet
<1>3. ASSUME NEW k \in 1 .. Len(l) PROVE VersionIn(l, l[k].id) = l[k].version
  <2>1. l[k].id \in IdsOf(l) BY <1>2
  <2> DEFINE j == CHOOSE j \in DOMAIN l : l[j].id = l[k].id
  <2>2. j \in DOMAIN l /\ l[j].id = l[k].id BY <1>1
  <2>3. j = k BY <1>1, <2>2 DEF NoIdTwice
  <2> QED BY <2>1, <2>3 DEF VersionIn
<1>4. ASSUME NEW id \in IdsOf(l) PROVE VersionIn(l, id) \in Versions
  <2> PICK k \in 1 .. Len(l) : l[k].id = id BY <1>2
  <2>1. l[k].version \in Versions BY <1>1 DEF Record
  <2> QED BY <1>3, <2>1
<1>5. \A id : id \notin IdsOf(l) => VersionIn(l, id) = Absent BY DEF VersionIn
<1>6. ById(l) \in [Ids -> Versions \cup {Absent}]
  <2> SUFFICES ASSUME NEW id \in Ids PROVE VersionIn(l, id) \in Versions \cup {Absent} BY DEF ById
  <2> QED BY <1>4, <1>5
<1>7. \A id \in IdsOf(l) : \E k \in 1 .. Len(l) : l[k].id = id BY <1>2
<1> QED BY <1>3, <1>5, <1>6, <1>7

(* A new record at some place.                                             *)
LEMMA InsertedAt ==
    ASSUME NEW l \in Seq(Record), NEW at \in 1 .. Len(l) + 1, NEW e \in Record
    PROVE  /\ InsertAt(l, at, e) \in Seq(Record) /\ Len(InsertAt(l, at, e)) = Len(l) + 1
           /\ \A i \in 1 .. Len(l) + 1 :
                 InsertAt(l, at, e)[i] = IF i < at THEN l[i] ELSE IF i = at THEN e ELSE l[i - 1]
<1> DEFINE a == SubSeq(l, 1, at - 1)
           z == SubSeq(l, at, Len(l))
           o == <<e>>
<1>1. Len(l) \in Nat /\ at \in Nat /\ at - 1 \in Nat /\ \A i \in 1 .. Len(l) : l[i] \in Record
  OBVIOUS
<1>2. a \in Seq(Record) /\ Len(a) = at - 1 /\ \A i \in 1 .. at - 1 : a[i] = l[i]
  <2>1. \A i \in 1 .. at - 1 : l[i] \in Record BY <1>1
  <2>2. /\ a \in Seq(Record) /\ Len(a) = IF 1 <= at - 1 THEN at - 1 - 1 + 1 ELSE 0
        /\ \A i \in 1 .. at - 1 - 1 + 1 : a[i] = l[1 + i - 1]
    BY <1>1, <2>1, SubSeqProperties
  <2> HIDE DEF a
  <2> QED BY <1>1, <2>2
<1>3. z \in Seq(Record) /\ Len(z) = Len(l) - at + 1 /\ \A i \in 1 .. Len(l) - at + 1 : z[i] = l[at + i - 1]
  <2>1. \A i \in at .. Len(l) : l[i] \in Record BY <1>1
  <2>2. /\ z \in Seq(Record) /\ Len(z) = IF at <= Len(l) THEN Len(l) - at + 1 ELSE 0
        /\ \A i \in 1 .. Len(l) - at + 1 : z[i] = l[at + i - 1]
    BY <1>1, <2>1, SubSeqProperties
  <2> HIDE DEF z
  <2> QED BY <1>1, <2>2
<1>4. o \in Seq(Record) /\ Len(o) = 1 /\ o[1] = e OBVIOUS
<1>5. InsertAt(l, at, e) = (a \o o) \o z BY DEF InsertAt
<1> HIDE DEF a, z, o
<1>6. /\ a \o o \in Seq(Record) /\ Len(a \o o) = at
      /\ \A i \in 1 .. at : (a \o o)[i] = IF i < at THEN l[i] ELSE e
  <2>1. /\ a \o o \in Seq(Record) /\ Len(a \o o) = Len(a) + Len(o)
        /\ \A i \in 1 .. Len(a) + Len(o) : (a \o o)[i] = IF i <= Len(a) THEN a[i] ELSE o[i - Len(a)]
    BY <1>2, <1>4, ConcatProperties
  <2>2. ASSUME NEW i \in 1 .. at PROVE (a \o o)[i] = IF i < at THEN l[i] ELSE e
    <3>1. CASE i < at BY <1>1, <1>2, <1>4, <2>1, <3>1
    <3>2. CASE i = at
      <4> i - Len(a) = 1 /\ ~(i <= Len(a)) /\ i \in 1 .. Len(a) + Len(o) BY <1>1, <1>2, <1>4, <3>2
      <4> QED BY <1>4, <2>1, <3>2
    <3>3. i < at \/ i = at BY <1>1
    <3>4. i = at => ~(i < at) BY <1>1
    <3> HIDE DEF o
    <3> QED BY <3>1, <3>2, <3>3, <3>4
  <2> QED BY <1>1, <1>2, <1>4, <2>1, <2>2
<1> DEFINE q == a \o o
<1>7. /\ q \in Seq(Record) /\ Len(q) = at /\ \A i \in 1 .. at : q[i] = IF i < at THEN l[i] ELSE e
  BY <1>6
<1> HIDE DEF q
<1>8. /\ q \o z \in Seq(Record) /\ Len(q \o z) = Len(q) + Len(z)
      /\ \A i \in 1 .. Len(q) + Len(z) : (q \o z)[i] = IF i <= Len(q) THEN q[i] ELSE z[i - Len(q)]
  BY <1>3, <1>7, ConcatProperties
<1>9. Len(q) + Len(z) = Len(l) + 1 BY <1>1, <1>3, <1>7
<1>10. ASSUME NEW i \in 1 .. Len(l) + 1
       PROVE  (q \o z)[i] = IF i < at THEN l[i] ELSE IF i = at THEN e ELSE l[i - 1]
  <2>1. CASE i <= at BY <1>1, <1>7, <1>8, <1>9, <2>1
  <2>2. CASE ~(i <= at)
    <3>1. i - at \in 1 .. Len(l) - at + 1 /\ at + (i - at) - 1 = i - 1 BY <1>1, <2>2
    <3>2. (q \o z)[i] = z[i - at] BY <1>1, <1>7, <1>8, <1>9, <2>2
    <3> QED BY <1>1, <1>3, <2>2, <3>1, <3>2
  <2> QED BY <2>1, <2>2
<1>11. InsertAt(l, at, e) = q \o z BY <1>5 DEF q
<1> QED BY <1>8, <1>9, <1>10, <1>11

(* What is put into a list is new in it, and the rest is what it was.      *)
LEMMA InsertedIs ==
    ASSUME NEW l \in RecordLists, NEW at \in 1 .. Len(l) + 1, NEW e \in Record,
           e.id \notin IdsOf(l)
    PROVE  /\ InsertAt(l, at, e) \in RecordLists
           /\ ToSet(InsertAt(l, at, e)) = ToSet(l) \cup {e}
           /\ IdsOf(InsertAt(l, at, e)) = IdsOf(l) \cup {e.id}
<1> DEFINE r == InsertAt(l, at, e)
           n == Len(l)
<1>1. /\ n \in Nat /\ DOMAIN l = 1 .. n /\ NoIdTwice(l) /\ l \in Seq(Record) /\ at \in 1 .. n + 1
  BY DEF RecordLists
<1>2. /\ r \in Seq(Record) /\ Len(r) = n + 1
      /\ \A i \in 1 .. n + 1 : r[i] = IF i < at THEN l[i] ELSE IF i = at THEN e ELSE l[i - 1]
  BY <1>1, InsertedAt
<1> HIDE DEF r, n
<1>3. DOMAIN r = 1 .. n + 1 BY <1>1, <1>2
<1>4. ASSUME NEW i \in 1 .. n + 1, i # at
      PROVE  /\ (IF i < at THEN i ELSE i - 1) \in 1 .. n
             /\ r[i] = l[IF i < at THEN i ELSE i - 1]
  <2>1. CASE i < at BY <1>1, <1>2, <2>1
  <2>2. CASE ~(i < at)
    <3> i - 1 \in 1 .. n BY <1>1, <1>4, <2>2
    <3> QED BY <1>2, <1>4, <2>2
  <2> QED BY <2>1, <2>2
<1>5. r[at] = e BY <1>1, <1>2
<1>6. IdsOf(l) = {l[k].id : k \in 1 .. n} BY <1>1 DEF IdsOf, ToSet
<1>7. NoIdTwice(r)
  <2> SUFFICES ASSUME NEW i \in 1 .. n + 1, NEW j \in 1 .. n + 1, r[i].id = r[j].id PROVE i = j
    BY <1>3 DEF NoIdTwice
  <2>1. ASSUME NEW k \in 1 .. n + 1, k # at PROVE r[k].id # e.id
    <3> (IF k < at THEN k ELSE k - 1) \in 1 .. n /\ r[k] = l[IF k < at THEN k ELSE k - 1]
      BY <1>4, <2>1
    <3> QED BY <1>6
  <2>2. CASE i = at BY <1>5, <2>1, <2>2
  <2>3. CASE j = at BY <1>5, <2>1, <2>3
  <2>4. CASE i # at /\ j # at
    <3> DEFINE p == IF i < at THEN i ELSE i - 1
               q == IF j < at THEN j ELSE j - 1
    <3>1. p \in 1 .. n /\ r[i] = l[p] BY <1>4, <2>4
    <3>2. q \in 1 .. n /\ r[j] = l[q] BY <1>4, <2>4
    <3>3. p = q
      <4> HIDE DEF p, q
      <4> QED BY <1>1, <3>1, <3>2 DEF NoIdTwice
    <3> QED BY <1>1, <2>4, <3>3
  <2> QED BY <2>2, <2>3, <2>4
<1>8. ToSet(r) = ToSet(l) \cup {e}
  <2>1. ASSUME NEW x \in ToSet(r) PROVE x \in ToSet(l) \cup {e}
    <3> PICK i \in 1 .. n + 1 : x = r[i] BY <1>3, <2>1 DEF ToSet
    <3>1. CASE i = at BY <1>5, <3>1
    <3>2. CASE i # at
      <4> (IF i < at THEN i ELSE i - 1) \in 1 .. n /\ r[i] = l[IF i < at THEN i ELSE i - 1]
        BY <1>4, <3>2
      <4> QED BY <1>1 DEF ToSet
    <3> QED BY <3>1, <3>2
  <2>2. e \in ToSet(r)
    <3> at \in 1 .. n + 1 BY <1>1
    <3> QED BY <1>3, <1>5 DEF ToSet
  <2>3. ASSUME NEW k \in 1 .. n PROVE l[k] \in ToSet(r)
    <3>1. CASE k < at
      <4> k \in 1 .. n + 1 /\ r[k] = l[k] BY <1>1, <1>2, <3>1
      <4> QED BY <1>3 DEF ToSet
    <3>2. CASE ~(k < at)
      <4>1. k + 1 \in 1 .. n + 1 /\ ~(k + 1 < at) /\ k + 1 # at /\ k + 1 - 1 = k BY <1>1, <3>2
      <4>2. r[k + 1] = l[k] BY <1>2, <4>1
      <4> QED BY <1>3, <4>1, <4>2 DEF ToSet
    <3> QED BY <3>1, <3>2
  <2>4. \A x \in ToSet(l) : x \in ToSet(r) BY <1>1, <2>3 DEF ToSet
  <2> QED BY <2>1, <2>2, <2>4
<1>9. IdsOf(r) = IdsOf(l) \cup {e.id} BY <1>8 DEF IdsOf
<1>10. r \in RecordLists BY <1>2, <1>7 DEF RecordLists
<1> QED BY <1>8, <1>9, <1>10 DEF r

LEMMA AppendedIs ==
    ASSUME NEW l \in RecordLists, NEW e \in Record, e.id \notin IdsOf(l)
    PROVE  /\ Append(l, e) \in RecordLists
           /\ Len(Append(l, e)) = Len(l) + 1 /\ Append(l, e)[Len(l) + 1] = e
           /\ \A i \in 1 .. Len(l) : Append(l, e)[i] = l[i]
           /\ ToSet(Append(l, e)) = ToSet(l) \cup {e}
           /\ IdsOf(Append(l, e)) = IdsOf(l) \cup {e.id}
<1> DEFINE r == Append(l, e)
           n == Len(l)
<1>1. n \in Nat /\ DOMAIN l = 1 .. n /\ NoIdTwice(l) /\ l \in Seq(Record) BY DEF RecordLists
<1>2. /\ r \in Seq(Record) /\ Len(r) = n + 1 /\ DOMAIN r = 1 .. n + 1
      /\ r[n + 1] = e /\ \A i \in 1 .. n : r[i] = l[i]
  BY <1>1
<1> HIDE DEF r, n
<1>3. IdsOf(l) = {l[k].id : k \in 1 .. n} BY <1>1 DEF IdsOf, ToSet
<1>4. NoIdTwice(r)
  <2> SUFFICES ASSUME NEW i \in 1 .. n + 1, NEW j \in 1 .. n + 1, r[i].id = r[j].id PROVE i = j
    BY <1>2 DEF NoIdTwice
  <2>1. ASSUME NEW k \in 1 .. n PROVE r[k].id # e.id BY <1>2, <1>3
  <2>2. (i = n + 1 \/ i \in 1 .. n) /\ (j = n + 1 \/ j \in 1 .. n) BY <1>1
  <2> QED BY <1>1, <1>2, <2>1, <2>2 DEF NoIdTwice
<1>5. ToSet(r) = ToSet(l) \cup {e}
  <2>1. ASSUME NEW x \in ToSet(r) PROVE x \in ToSet(l) \cup {e}
    <3> PICK i \in 1 .. n + 1 : x = r[i] BY <1>2, <2>1 DEF ToSet
    <3> i = n + 1 \/ i \in 1 .. n BY <1>1
    <3> QED BY <1>1, <1>2 DEF ToSet
  <2>2. e \in ToSet(r)
    <3> n + 1 \in 1 .. n + 1 BY <1>1
    <3> QED BY <1>2 DEF ToSet
  <2>3. ASSUME NEW x \in ToSet(l) PROVE x \in ToSet(r)
    <3> PICK i \in 1 .. n : x = l[i] BY <1>1, <2>3 DEF ToSet
    <3> i \in 1 .. n + 1 /\ x = r[i] BY <1>1, <1>2
    <3> QED BY <1>2 DEF ToSet
  <2> QED BY <2>1, <2>2, <2>3
<1>6. IdsOf(r) = IdsOf(l) \cup {e.id} BY <1>5 DEF IdsOf
<1>7. r \in RecordLists BY <1>2, <1>4 DEF RecordLists
<1> QED BY <1>2, <1>5, <1>6, <1>7 DEF r, n

-----------------------------------------------------------------------------
(* What the first loop leaves: the kept versions, in the sent order.       *)
Kept(b, n, c, k) == KeptFromSent(b[n[k].id], n[k].version, c[n[k].id])

Maps == [Ids -> Versions \cup {Absent}]

LEMMA KeptType ==
    ASSUME NEW b \in Maps, NEW n \in RecordLists, NEW c \in Maps, NEW k \in 1 .. Len(n)
    PROVE  n[k].id \in Ids /\ n[k].version \in Versions /\ Kept(b, n, c, k) \in Versions \cup {Absent}
<1>1. n[k] \in Record BY DEF RecordLists
<1>2. n[k].id \in Ids /\ n[k].version \in Versions BY <1>1 DEF Record
<1> QED BY <1>2 DEF Kept, KeptFromSent, Maps

LEMMA SentLoopIs ==
    ASSUME NEW b \in Maps, NEW n \in RecordLists, NEW c \in Maps
    PROVE  /\ SentLoop(b, n, c) \in RecordLists
           /\ ToSet(SentLoop(b, n, c)) = {[id |-> n[k].id, version |-> Kept(b, n, c, k)] :
                                             k \in {k \in 1 .. Len(n) : Kept(b, n, c, k) # Absent}}
           /\ IdsOf(SentLoop(b, n, c)) \subseteq IdsOf(n)
           /\ SameOrder(n, SentLoop(b, n, c))
<1> DEFINE L == Len(n)
           rec(k) == [id |-> n[k].id, version |-> Kept(b, n, c, k)]
           upto(k) == {rec(j) : j \in {j \in 1 .. k : Kept(b, n, c, j) # Absent}}
<1>1. PICK h : SentWalk(b, n, c, h)
  <2> n \in Seq(Record) /\ b \in [Ids -> Versions \cup {Absent}] /\ c \in [Ids -> Versions \cup {Absent}]
    BY DEF RecordLists, Maps
  <2> QED BY SentRuns
<1>2. /\ L \in Nat /\ DOMAIN n = 1 .. L /\ NoIdTwice(n)
      /\ \A k \in 1 .. L : n[k].id \in Ids /\ n[k].version \in Versions
  BY KeptType DEF RecordLists
<1>3. /\ h[0] = <<>> /\ SentLoop(b, n, c) = h[L]
      /\ \A k \in 1 .. L : h[k] = IF Kept(b, n, c, k) = Absent THEN h[k - 1] ELSE Append(h[k - 1], rec(k))
  BY <1>1 DEF SentWalk, Kept
<1>4. ASSUME NEW k \in 1 .. L PROVE Kept(b, n, c, k) # Absent => rec(k) \in Record
  BY <1>2, KeptType DEF Record
<1> DEFINE Good(k) == /\ h[k] \in RecordLists /\ ToSet(h[k]) = upto(k)
                      /\ SameOrder(n, h[k])
           P == {k \in 0 .. L : Good(k)}
<1>5. 0 \in P
  <2>1. upto(0) = {} /\ ToSet(<<>>) = {} BY DEF ToSet
  <2>2. <<>> \in RecordLists /\ SameOrder(n, <<>>) BY DEF RecordLists, NoIdTwice, SameOrder
  <2> HIDE DEF upto
  <2>3. Good(0) BY <1>3, <2>1, <2>2
  <2> QED BY <1>2, <2>3
<1>6. ASSUME NEW k \in 1 .. L, k - 1 \in P PROVE k \in P
  <2>1. Good(k - 1) BY <1>6
  <2>2. CASE Kept(b, n, c, k) = Absent
    <3>1. upto(k) = upto(k - 1)
      <4> {j \in 1 .. k : Kept(b, n, c, j) # Absent} = {j \in 1 .. k - 1 : Kept(b, n, c, j) # Absent}
        BY <1>2, <2>2
      <4> QED OBVIOUS
    <3>2. h[k] = h[k - 1] BY <1>3, <2>2
    <3> HIDE DEF upto
    <3>3. Good(k) BY <2>1, <3>1, <3>2
    <3> QED BY <1>2, <3>3
  <2>3. CASE Kept(b, n, c, k) # Absent
    <3> DEFINE o == h[k - 1]
               e == rec(k)
    <3>1. {j \in 1 .. k : Kept(b, n, c, j) # Absent} = {j \in 1 .. k - 1 : Kept(b, n, c, j) # Absent} \cup {k}
      BY <1>2, <2>3
    <3>2. upto(k) = upto(k - 1) \cup {e} BY <3>1
    <3>3. \A id \in IdsOf(o) : \E m \in 1 .. k - 1 : id = n[m].id
      <4>1. IdsOf(o) = {x.id : x \in upto(k - 1)} BY <2>1 DEF IdsOf
      <4>2. \A x \in upto(k - 1) : \E m \in 1 .. k - 1 : x.id = n[m].id OBVIOUS
      <4> HIDE DEF upto
      <4> QED BY <4>1, <4>2
    <3>4. e.id \notin IdsOf(o)
      <4> SUFFICES ASSUME NEW j \in 1 .. k - 1, n[j].id = n[k].id PROVE FALSE BY <3>3
      <4> j \in 1 .. L /\ j # k BY <1>2
      <4> QED BY <1>2 DEF NoIdTwice
    <3>5. e \in Record BY <1>4, <2>3
    <3>6. h[k] = Append(o, e) BY <1>3, <2>3
    <3>e. e.id = n[k].id OBVIOUS
    <3>7. o \in RecordLists /\ SameOrder(n, o) /\ ToSet(o) = upto(k - 1) BY <2>1
    <3> HIDE DEF upto, e, o
    <3>8. /\ Append(o, e) \in RecordLists
          /\ Len(Append(o, e)) = Len(o) + 1 /\ Append(o, e)[Len(o) + 1] = e
          /\ \A i \in 1 .. Len(o) : Append(o, e)[i] = o[i]
          /\ ToSet(Append(o, e)) = ToSet(o) \cup {e}
      BY <3>4, <3>5, <3>7, AppendedIs
    <3>9. SameOrder(n, h[k])
      <4> DEFINE r == h[k]
      <4> SUFFICES ASSUME NEW i \in 1 .. L, NEW j \in 1 .. L, NEW x \in DOMAIN r, NEW y \in DOMAIN r,
                          n[i].id = r[x].id, n[j].id = r[y].id, i < j
                   PROVE  x < y
        BY <1>2 DEF SameOrder
      <4>1. /\ Len(o) \in Nat /\ DOMAIN o = 1 .. Len(o) /\ DOMAIN r = 1 .. Len(o) + 1
        BY <3>6, <3>7, <3>8 DEF RecordLists
      <4>2. r[Len(o) + 1] = e /\ \A z \in 1 .. Len(o) : r[z] = o[z] BY <3>6, <3>8
      <4>3. ASSUME NEW z \in 1 .. Len(o) PROVE \E m \in 1 .. k - 1 : o[z].id = n[m].id
        <5> o[z].id \in IdsOf(o) BY <4>1 DEF IdsOf, ToSet
        <5> QED BY <3>3
      <4> HIDE DEF r
      <4>4. CASE y = Len(o) + 1
        <5>1. j = k BY <1>2, <3>e, <4>2, <4>4 DEF NoIdTwice
        <5>2. x # Len(o) + 1
          <6> SUFFICES ASSUME x = Len(o) + 1 PROVE FALSE OBVIOUS
          <6> i = k BY <1>2, <3>e, <4>2 DEF NoIdTwice
          <6> QED BY <5>1
        <5> QED BY <4>1, <4>4, <5>2
      <4>5. CASE y # Len(o) + 1
        <5>1. y \in 1 .. Len(o) BY <4>1, <4>5
        <5>2. PICK m \in 1 .. k - 1 : o[y].id = n[m].id BY <4>3, <5>1
        <5>3. m \in 1 .. L BY <1>2
        <5>4. j = m BY <1>2, <4>2, <5>1, <5>2, <5>3 DEF NoIdTwice
        <5>5. x # Len(o) + 1
          <6> SUFFICES ASSUME x = Len(o) + 1 PROVE FALSE OBVIOUS
          <6> i = k BY <1>2, <3>e, <4>2 DEF NoIdTwice
          <6> QED BY <1>2, <5>4
        <5>6. x \in 1 .. Len(o) BY <4>1, <5>5
        <5> QED BY <1>2, <3>7, <4>1, <4>2, <5>1, <5>6 DEF SameOrder
      <4> QED BY <4>4, <4>5
    <3>10. Good(k) BY <3>2, <3>6, <3>7, <3>8, <3>9
    <3> QED BY <1>2, <3>10
  <2> QED BY <2>2, <2>3
<1>7. Good(L)
  <2>1. P \in SUBSET (0 .. L) OBVIOUS
  <2> HIDE DEF P
  <2>2. P = 0 .. L BY <1>2, <1>5, <1>6, <2>1, UpTo
  <2>3. L \in P
    <3> L \in 0 .. L BY <1>2
    <3> QED BY <2>2
  <2> HIDE DEF Good
  <2> QED BY <2>3 DEF P
<1>8. IdsOf(h[L]) \subseteq IdsOf(n)
  <2>1. IdsOf(h[L]) = {x.id : x \in upto(L)} BY <1>7 DEF IdsOf
  <2>2. \A x \in upto(L) : \E k \in 1 .. L : x.id = n[k].id OBVIOUS
  <2>3. \A k \in 1 .. L : n[k].id \in IdsOf(n) BY <1>2 DEF IdsOf, ToSet
  <2> QED BY <2>1, <2>2, <2>3
<1> QED BY <1>3, <1>7, <1>8

(* Where the second loop puts the k-th record of the file: behind the      *)
(* nearest earlier one that is in the result, or at the front.             *)
AnchorOf(c, k, out) ==
    LET I == {i \in 1 .. k - 1 : c[i].id \in IdsOf(out)} IN IF I # {} THEN Max(I) ELSE 0
PlaceOf(out, id) ==
    LET I == {i \in 1 .. Len(out) : out[i].id = id} IN IF I # {} THEN Min(I) ELSE 0
SpotFor(c, k, out) ==
    IF AnchorOf(c, k, out) = 0 THEN 1 ELSE PlaceOf(out, c[AnchorOf(c, k, out)].id) + 1

LEMMA SpotIs ==
    ASSUME NEW c \in Seq(Record), NEW k \in 1 .. Len(c), NEW out \in Seq(Record)
    PROVE  /\ SpotFor(c, k, out) \in 1 .. Len(out) + 1
           /\ \/ /\ SpotFor(c, k, out) = 1
                 /\ \A i \in 1 .. k - 1 : c[i].id \notin IdsOf(out)
              \/ \E a \in 1 .. k - 1 :
                    /\ \A i \in 1 .. k - 1 : c[i].id \in IdsOf(out) => i <= a
                    /\ \E p \in 1 .. Len(out) : out[p].id = c[a].id /\ SpotFor(c, k, out) = p + 1
<1> DEFINE I == {i \in 1 .. k - 1 : c[i].id \in IdsOf(out)}
<1>1. Len(out) \in Nat /\ DOMAIN out = 1 .. Len(out) /\ Len(c) \in Nat /\ k \in Nat /\ k - 1 \in Nat
  OBVIOUS
<1>2. IdsOf(out) = {out[i].id : i \in 1 .. Len(out)} BY <1>1 DEF IdsOf, ToSet
<1>3. CASE I = {}
  <2>1. AnchorOf(c, k, out) = 0 BY <1>3 DEF AnchorOf
  <2> QED BY <1>1, <1>3, <2>1 DEF SpotFor
<1>4. CASE I # {}
  <2> DEFINE a == Max(I)
  <2>1. AnchorOf(c, k, out) = a BY <1>4 DEF AnchorOf
  <2>2. I \in SUBSET (1 .. k - 1) OBVIOUS
  <2>3. a \in I /\ \A i \in I : i <= a
    <3> HIDE DEF I
    <3> QED BY <1>1, <1>4, <2>2, MaxIsIn
  <2> HIDE DEF a
  <2>4. a # 0 /\ a \in 1 .. k - 1 /\ c[a].id \in IdsOf(out) BY <1>1, <2>3
  <2> DEFINE J == {i \in 1 .. Len(out) : out[i].id = c[a].id}
             p == PlaceOf(out, c[a].id)
  <2>5. J # {} BY <1>2, <2>4
  <2>6. p = Min(J) BY <2>5 DEF PlaceOf
  <2>7. J \in SUBSET (1 .. Len(out)) OBVIOUS
  <2>8. Min(J) \in J
    <3> HIDE DEF J
    <3> QED BY <1>1, <2>5, <2>7, MinBounds
  <2>9. p \in 1 .. Len(out) /\ out[p].id = c[a].id BY <2>6, <2>8
  <2>10. SpotFor(c, k, out) = p + 1 BY <2>1, <2>4 DEF SpotFor
  <2> HIDE DEF p, J
  <2> QED BY <1>1, <2>3, <2>4, <2>9, <2>10
<1> QED BY <1>3, <1>4

(* The second loop passes over what was sent and what the window deleted.  *)
PassedOver(b, n, c, k) == c[k].id \in IdsOf(n) \/ b[c[k].id] = c[k].version

(* h[k] is what the second loop has after k records of the file.           *)
FileWalk(b, n, c, own, h) ==
    /\ h[0] = own
    /\ \A k \in 1 .. Len(c) :
          h[k] = IF PassedOver(b, n, c, k) THEN h[k - 1]
                 ELSE InsertAt(h[k - 1], SpotFor(c, k, h[k - 1]), c[k])
    /\ FileLoop(b, n, c, own) = h[Len(c)]

LEMMA FileRuns ==
    ASSUME NEW b, NEW n, NEW c \in Seq(Record), NEW own \in Seq(Record)
    PROVE  \E h : FileWalk(b, n, c, own, h)
<1> DEFINE D == Seq(Record)
           L == Len(c)
           places == [i \in DOMAIN c |-> i]
           Insert(out, k) ==
               IF PassedOver(b, n, c, k) THEN out ELSE InsertAt(out, SpotFor(c, k, out), c[k])
           add == [k \in 1 .. L |-> [out \in D |-> Insert(out, k)]]
           F == CHOOSE F : F = [s \in SUBSET (DOMAIN places) |->
                                  IF s = {} THEN own ELSE Insert(F[s \ {Max(s)}], places[Max(s)])]
           h == [k \in 0 .. L |-> F[1 .. k]]
<1>1. L \in Nat /\ DOMAIN c = 1 .. L /\ own \in D OBVIOUS
<1>p. DOMAIN places = 1 .. L /\ \A k \in 1 .. L : places[k] = k BY <1>1
<1>2. ASSUME NEW out \in D, NEW k \in 1 .. L PROVE Insert(out, k) \in D
  <2>1. c[k] \in Record BY <1>1
  <2>2. SpotFor(c, k, out) \in 1 .. Len(out) + 1 BY SpotIs
  <2>3. InsertAt(out, SpotFor(c, k, out), c[k]) \in D BY <2>1, <2>2, InsertedAt
  <2> QED BY <2>3
<1>3. add \in [1 .. L -> [D -> D]]
  <2> HIDE DEF D, L, Insert
  <2> QED BY <1>2
<1>4. PICK g \in [SUBSET (1 .. L) -> D] :
          \A T \in SUBSET (1 .. L) : g[T] = IF T = {} THEN own ELSE add[Max(T)][g[T \ {Max(T)}]]
  <2>1. ListFoldIsDefined(L, D, own, add)
    <3> HIDE DEF D, L, add
    <3> QED BY <1>1, <1>3, ListFold
  <2> HIDE DEF D, L, add
  <2> QED BY <2>1 DEF ListFoldIsDefined
<1>5. g = [s \in SUBSET (DOMAIN places) |->
             IF s = {} THEN own ELSE Insert(g[s \ {Max(s)}], places[Max(s)])]
  <2> HIDE DEF D, L, Insert, places
  <2>1. ASSUME NEW s \in SUBSET (1 .. L), s # {}
        PROVE  g[s] = Insert(g[s \ {Max(s)}], places[Max(s)])
    <3>1. Max(s) \in 1 .. L BY <1>1, <2>1, MaxIsIn
    <3>2. g[s \ {Max(s)}] \in D BY <3>1
    <3>3. add[Max(s)][g[s \ {Max(s)}]] = Insert(g[s \ {Max(s)}], Max(s)) BY <3>1, <3>2
    <3> QED BY <1>4, <1>p, <2>1, <3>1, <3>3
  <2> HIDE DEF add
  <2> QED BY <1>p, <1>4, <2>1
<1>6. F = [s \in SUBSET (DOMAIN places) |->
             IF s = {} THEN own ELSE Insert(F[s \ {Max(s)}], places[Max(s)])]
  <2> HIDE DEF Insert, places
  <2> QED BY <1>5
<1>7. FileLoop(b, n, c, own) = F[DOMAIN places]
  BY DEF FileLoop, FoldLeftDomain, FoldLeft, MapThenFoldSet, SelectLastInSubSeq, SelectInSeq,
         SpotFor, AnchorOf, PlaceOf, PassedOver
<1>8. h[0] = own
  <2>1. 1 .. 0 = {} /\ 0 \in 0 .. L BY <1>1
  <2>2. F[{}] = own
    <3> HIDE DEF F, Insert, places
    <3> QED BY <1>6
  <2> HIDE DEF F
  <2> QED BY <2>1, <2>2
<1>9. ASSUME NEW k \in 1 .. L PROVE h[k] = Insert(h[k - 1], k)
  <2>1. /\ Max(1 .. k) = k /\ (1 .. k) \ {k} = 1 .. k - 1
        /\ 1 .. k # {} /\ 1 .. k \in SUBSET (1 .. L)
    BY <1>1, MaxOfRange
  <2>2. F[1 .. k] = Insert(F[1 .. k - 1], k)
    <3> HIDE DEF F, Insert, L, places
    <3> DEFINE s == 1 .. k
    <3>1. s \in SUBSET (DOMAIN places) /\ s # {} BY <1>p, <2>1
    <3>2. Max(s) = k /\ s \ {k} = 1 .. k - 1 BY <2>1
    <3> HIDE DEF s
    <3>3. F[s] = Insert(F[s \ {Max(s)}], places[Max(s)]) BY <1>6, <3>1
    <3>4. F[s] = Insert(F[1 .. k - 1], k) BY <1>p, <3>2, <3>3
    <3> QED BY <3>4 DEF s
  <2>3. k \in 0 .. L /\ k - 1 \in 0 .. L BY <1>1
  <2> HIDE DEF F, Insert, L
  <2> QED BY <2>2, <2>3
<1>10. FileLoop(b, n, c, own) = h[L]
  <2>1. L \in 0 .. L BY <1>1
  <2> HIDE DEF F, L, places
  <2> QED BY <1>p, <1>7, <2>1
<1> HIDE DEF h
<1>11. FileWalk(b, n, c, own, h) BY <1>8, <1>9, <1>10 DEF FileWalk
<1> QED BY <1>11

(* A record put between those that come before and after it in the order   *)
(* of A keeps that order.                                                  *)
LEMMA InsertKeepsOrder ==
    ASSUME NEW A \in RecordLists, NEW l \in RecordLists, NEW at \in 1 .. Len(l) + 1,
           NEW e \in Record, e.id \notin IdsOf(l), SameOrder(A, l),
           \A m, i \in DOMAIN A : \A x \in DOMAIN l :
               A[m].id = e.id /\ A[i].id = l[x].id => (i < m => x < at) /\ (m < i => at <= x)
    PROVE  SameOrder(A, InsertAt(l, at, e))
<1> DEFINE r == InsertAt(l, at, e)
           n == Len(l)
           old(x) == IF x < at THEN x ELSE x - 1
<1>1. /\ n \in Nat /\ DOMAIN l = 1 .. n /\ l \in Seq(Record) /\ at \in 1 .. n + 1
      /\ DOMAIN A = 1 .. Len(A) /\ Len(A) \in Nat /\ NoIdTwice(A)
  BY DEF RecordLists
<1>2. /\ r \in Seq(Record) /\ Len(r) = n + 1
      /\ \A i \in 1 .. n + 1 : r[i] = IF i < at THEN l[i] ELSE IF i = at THEN e ELSE l[i - 1]
  BY <1>1, InsertedAt
<1> HIDE DEF r, n
<1>3. DOMAIN r = 1 .. n + 1 BY <1>1, <1>2
<1>4. r[at] = e BY <1>1, <1>2
<1>5. ASSUME NEW x \in 1 .. n + 1, x # at
      PROVE  old(x) \in 1 .. n /\ r[x] = l[old(x)]
  <2>1. CASE x < at BY <1>1, <1>2, <2>1
  <2>2. CASE ~(x < at)
    <3> x - 1 \in 1 .. n BY <1>1, <1>5, <2>2
    <3> QED BY <1>2, <1>5, <2>2
  <2> QED BY <2>1, <2>2
<1> SUFFICES ASSUME NEW i \in DOMAIN A, NEW j \in DOMAIN A, NEW x \in 1 .. n + 1, NEW y \in 1 .. n + 1,
                    A[i].id = r[x].id, A[j].id = r[y].id, i < j
             PROVE  x < y
  BY <1>3 DEF SameOrder, r
<1>6. CASE x = at /\ y = at
  <2> i = j BY <1>1, <1>6 DEF NoIdTwice
  <2> QED BY <1>1
<1>7. CASE x = at /\ y # at
  <2>1. old(y) \in 1 .. n /\ A[j].id = l[old(y)].id /\ A[i].id = e.id BY <1>4, <1>5, <1>7
  <2> HIDE DEF old
  <2>2. at <= old(y) BY <1>1, <2>1
  <2> QED BY <1>1, <1>7, <2>2 DEF old
<1>8. CASE x # at /\ y = at
  <2>1. old(x) \in 1 .. n /\ A[i].id = l[old(x)].id /\ A[j].id = e.id BY <1>4, <1>5, <1>8
  <2> HIDE DEF old
  <2>2. old(x) < at BY <1>1, <2>1
  <2> QED BY <1>1, <1>8, <2>2 DEF old
<1>9. CASE x # at /\ y # at
  <2>1. old(x) \in 1 .. n /\ A[i].id = l[old(x)].id BY <1>5, <1>9
  <2>2. old(y) \in 1 .. n /\ A[j].id = l[old(y)].id BY <1>5, <1>9
  <2>3. old(x) < old(y)
    <3> HIDE DEF old
    <3> QED BY <1>1, <2>1, <2>2 DEF SameOrder
  <2> QED BY <1>1, <1>9, <2>3
<1> QED BY <1>6, <1>7, <1>8, <1>9

(* What the second loop leaves: what the first one left, and the records   *)
(* of the file that are not passed over, each in its place.                *)
LEMMA FileLoopIs ==
    ASSUME NEW b, NEW n \in RecordLists, NEW c \in RecordLists, NEW own \in RecordLists,
           IdsOf(own) \subseteq IdsOf(n), SameOrder(n, own)
    PROVE  /\ FileLoop(b, n, c, own) \in RecordLists
           /\ ToSet(FileLoop(b, n, c, own)) =
                 ToSet(own) \cup {c[k] : k \in {k \in 1 .. Len(c) : ~PassedOver(b, n, c, k)}}
           /\ SameOrder(n, FileLoop(b, n, c, own))
           /\ SameOrder(n, c) => SameOrder(c, FileLoop(b, n, c, own))
<1> DEFINE L == Len(c)
           upto(k) == {c[j] : j \in {j \in 1 .. k : ~PassedOver(b, n, c, j)}}
<1>1. /\ L \in Nat /\ DOMAIN c = 1 .. L /\ NoIdTwice(c) /\ c \in Seq(Record)
      /\ \A k \in 1 .. L : c[k] \in Record
      /\ DOMAIN n = 1 .. Len(n) /\ Len(n) \in Nat /\ NoIdTwice(n)
      /\ DOMAIN own = 1 .. Len(own) /\ Len(own) \in Nat /\ own \in Seq(Record)
  BY DEF RecordLists
<1>2. PICK h : FileWalk(b, n, c, own, h) BY <1>1, FileRuns
<1>3. /\ h[0] = own /\ FileLoop(b, n, c, own) = h[L]
      /\ \A k \in 1 .. L : h[k] = IF PassedOver(b, n, c, k) THEN h[k - 1]
                                  ELSE InsertAt(h[k - 1], SpotFor(c, k, h[k - 1]), c[k])
  BY <1>2 DEF FileWalk
<1> DEFINE Good(k) == /\ h[k] \in RecordLists /\ ToSet(h[k]) = ToSet(own) \cup upto(k)
                      /\ SameOrder(n, h[k])
                      /\ SameOrder(n, c) => SameOrder(c, h[k])
           P == {k \in 0 .. L : Good(k)}
<1>4. SameOrder(n, c) => SameOrder(c, own)
  <2> SUFFICES ASSUME SameOrder(n, c), NEW i \in DOMAIN c, NEW j \in DOMAIN c,
                      NEW x \in DOMAIN own, NEW y \in DOMAIN own,
                      c[i].id = own[x].id, c[j].id = own[y].id, i < j
               PROVE  x < y
    BY DEF SameOrder
  <2>1. own[x].id \in IdsOf(n) /\ own[y].id \in IdsOf(n) BY DEF IdsOf, ToSet
  <2>2. PICK p \in DOMAIN n : n[p].id = own[x].id BY <2>1 DEF IdsOf, ToSet
  <2>3. PICK q \in DOMAIN n : n[q].id = own[y].id BY <2>1 DEF IdsOf, ToSet
  <2>4. p # q BY <1>1, <2>2, <2>3 DEF NoIdTwice
  <2>5. ~(q < p) BY <1>1, <2>2, <2>3 DEF SameOrder
  <2>6. p < q BY <1>1, <2>4, <2>5
  <2> QED BY <2>2, <2>3, <2>6 DEF SameOrder
<1>5. 0 \in P
  <2>1. upto(0) = {} OBVIOUS
  <2> HIDE DEF upto
  <2>2. Good(0) BY <1>3, <1>4, <2>1
  <2> QED BY <1>1, <2>2
<1>6. ASSUME NEW k \in 1 .. L, k - 1 \in P PROVE k \in P
  <2>1. Good(k - 1) BY <1>6
  <2>2. CASE PassedOver(b, n, c, k)
    <3>1. {j \in 1 .. k : ~PassedOver(b, n, c, j)} = {j \in 1 .. k - 1 : ~PassedOver(b, n, c, j)}
      BY <1>1, <2>2
    <3>2. upto(k) = upto(k - 1) BY <3>1
    <3>3. h[k] = h[k - 1] BY <1>3, <2>2
    <3> HIDE DEF upto
    <3>4. Good(k) BY <2>1, <3>2, <3>3
    <3> QED BY <1>1, <3>4
  <2>3. CASE ~PassedOver(b, n, c, k)
    <3> DEFINE o == h[k - 1]
               at == SpotFor(c, k, o)
    <3>1. {j \in 1 .. k : ~PassedOver(b, n, c, j)} = {j \in 1 .. k - 1 : ~PassedOver(b, n, c, j)} \cup {k}
      BY <1>1, <2>3
    <3>2. upto(k) = upto(k - 1) \cup {c[k]} BY <3>1
    <3>3. /\ o \in RecordLists /\ ToSet(o) = ToSet(own) \cup upto(k - 1)
          /\ SameOrder(n, o) /\ (SameOrder(n, c) => SameOrder(c, o))
      BY <2>1
    <3>4. h[k] = InsertAt(o, at, c[k]) BY <1>3, <2>3
    <3> HIDE DEF o
    <3>5. /\ Len(o) \in Nat /\ DOMAIN o = 1 .. Len(o) /\ o \in Seq(Record) /\ NoIdTwice(o)
      BY <3>3 DEF RecordLists
    <3>6. /\ at \in 1 .. Len(o) + 1
          /\ \/ at = 1 /\ \A i \in 1 .. k - 1 : c[i].id \notin IdsOf(o)
             \/ \E a \in 1 .. k - 1 :
                   /\ \A i \in 1 .. k - 1 : c[i].id \in IdsOf(o) => i <= a
                   /\ \E p \in 1 .. Len(o) : o[p].id = c[a].id /\ at = p + 1
      BY <1>1, <3>5, SpotIs
    <3> HIDE DEF at
    <3>7. c[k].id \notin IdsOf(n) BY <2>3 DEF PassedOver
    <3>8. c[k].id \notin IdsOf(o)
      <4>1. \A x \in upto(k - 1) : x.id # c[k].id
        <5> SUFFICES ASSUME NEW j \in 1 .. k - 1, c[j].id = c[k].id PROVE FALSE OBVIOUS
        <5> j \in 1 .. L /\ j # k BY <1>1
        <5> QED BY <1>1 DEF NoIdTwice
      <4>2. \A x \in ToSet(own) : x.id # c[k].id BY <3>7 DEF IdsOf
      <4> HIDE DEF upto
      <4> QED BY <3>3, <4>1, <4>2 DEF IdsOf
    <3>9. /\ InsertAt(o, at, c[k]) \in RecordLists
          /\ ToSet(InsertAt(o, at, c[k])) = ToSet(o) \cup {c[k]}
      BY <1>1, <3>3, <3>6, <3>8, InsertedIs
    <3>10. SameOrder(n, InsertAt(o, at, c[k]))
      <4>1. \A m \in DOMAIN n : n[m].id # c[k].id BY <3>7 DEF IdsOf, ToSet
      <4> QED BY <1>1, <3>3, <3>6, <3>8, <4>1, InsertKeepsOrder
    <3>11. ASSUME SameOrder(n, c) PROVE SameOrder(c, InsertAt(o, at, c[k]))
      <4> SUFFICES ASSUME NEW m \in DOMAIN c, NEW i \in DOMAIN c, NEW x \in DOMAIN o,
                          c[m].id = c[k].id, c[i].id = o[x].id
                   PROVE  (i < m => x < at) /\ (m < i => at <= x)
        BY <1>1, <3>3, <3>6, <3>8, <3>11, InsertKeepsOrder
      <4>1. m = k BY <1>1 DEF NoIdTwice
      <4>2. c[i].id \in IdsOf(o) BY DEF IdsOf, ToSet
      <4>3. SameOrder(c, o) BY <3>3, <3>11
      <4>4. CASE at = 1 /\ \A z \in 1 .. k - 1 : c[z].id \notin IdsOf(o)
        <5> ~(i < k) BY <1>1, <4>2, <4>4
        <5> QED BY <3>5, <4>1, <4>4
      <4>5. CASE \E a \in 1 .. k - 1 :
                   /\ \A z \in 1 .. k - 1 : c[z].id \in IdsOf(o) => z <= a
                   /\ \E p \in 1 .. Len(o) : o[p].id = c[a].id /\ at = p + 1
        <5> PICK a \in 1 .. k - 1 :
                   /\ \A z \in 1 .. k - 1 : c[z].id \in IdsOf(o) => z <= a
                   /\ \E p \in 1 .. Len(o) : o[p].id = c[a].id /\ at = p + 1
          BY <4>5
        <5> PICK p \in 1 .. Len(o) : o[p].id = c[a].id /\ at = p + 1 OBVIOUS
        <5>1. a \in DOMAIN c /\ a < k BY <1>1
        <5>2. i < a => x < p BY <3>5, <4>3, <5>1 DEF SameOrder
        <5>3. a < i => p < x BY <3>5, <4>3, <5>1 DEF SameOrder
        <5>4. i = a => x = p BY <3>5 DEF NoIdTwice
        <5>5. i < k => i <= a BY <1>1, <4>2
        <5> QED BY <1>1, <3>5, <4>1, <5>1, <5>2, <5>3, <5>4, <5>5
      <4> QED BY <3>6, <4>4, <4>5
    <3> HIDE DEF upto
    <3>12. Good(k) BY <3>2, <3>3, <3>4, <3>9, <3>10, <3>11
    <3> QED BY <1>1, <3>12
  <2> QED BY <2>2, <2>3
<1>7. Good(L)
  <2>1. P \in SUBSET (0 .. L) OBVIOUS
  <2> HIDE DEF P
  <2>2. P = 0 .. L BY <1>1, <1>5, <1>6, <2>1, UpTo
  <2>3. L \in P
    <3> L \in 0 .. L BY <1>1
    <3> QED BY <2>2
  <2> HIDE DEF Good
  <2> QED BY <2>3 DEF P
<1> QED BY <1>3, <1>7

(* h[k] is what the filter has after k records.                            *)
WithoutWalk(l, id, h) ==
    /\ h[0] = <<>>
    /\ \A k \in 1 .. Len(l) : h[k] = IF l[k].id = id THEN h[k - 1] ELSE Append(h[k - 1], l[k])
    /\ Without(l, id) = h[Len(l)]

LEMMA WithoutRuns ==
    ASSUME NEW l \in Seq(Record), NEW id
    PROVE  \E h : WithoutWalk(l, id, h)
<1> DEFINE D == Seq(Record)
           L == Len(l)
           Push(out, r) == IF r.id = id THEN out ELSE Append(out, r)
           add == [k \in 1 .. L |-> [out \in D |-> Push(out, l[k])]]
           F == CHOOSE F : F = [s \in SUBSET (DOMAIN l) |->
                                  IF s = {} THEN <<>> ELSE Push(F[s \ {Max(s)}], l[Max(s)])]
           h == [k \in 0 .. L |-> F[1 .. k]]
<1>1. L \in Nat /\ DOMAIN l = 1 .. L /\ <<>> \in D OBVIOUS
<1>2. ASSUME NEW out \in D, NEW k \in 1 .. L PROVE Push(out, l[k]) \in D
  <2>1. l[k] \in Record BY <1>1
  <2> QED BY <2>1
<1>3. add \in [1 .. L -> [D -> D]]
  <2> HIDE DEF D, L, Push
  <2> QED BY <1>2
<1>4. PICK g \in [SUBSET (1 .. L) -> D] :
          \A T \in SUBSET (1 .. L) : g[T] = IF T = {} THEN <<>> ELSE add[Max(T)][g[T \ {Max(T)}]]
  <2> DEFINE a == <<>>
  <2> a \in D BY <1>1
  <2>1. ListFoldIsDefined(L, D, a, add)
    <3> HIDE DEF D, L, add, a
    <3> QED BY <1>1, <1>3, ListFold
  <2> HIDE DEF D, L, add
  <2> QED BY <2>1 DEF ListFoldIsDefined
<1>5. g = [s \in SUBSET (DOMAIN l) |-> IF s = {} THEN <<>> ELSE Push(g[s \ {Max(s)}], l[Max(s)])]
  <2> HIDE DEF D, L, Push
  <2>1. ASSUME NEW s \in SUBSET (1 .. L), s # {}
        PROVE  g[s] = Push(g[s \ {Max(s)}], l[Max(s)])
    <3>1. Max(s) \in 1 .. L BY <1>1, <2>1, MaxIsIn
    <3>2. g[s \ {Max(s)}] \in D BY <3>1
    <3>3. add[Max(s)][g[s \ {Max(s)}]] = Push(g[s \ {Max(s)}], l[Max(s)]) BY <3>1, <3>2
    <3> QED BY <1>4, <2>1, <3>3
  <2> HIDE DEF add
  <2> QED BY <1>1, <1>4, <2>1
<1>6. F = [s \in SUBSET (DOMAIN l) |-> IF s = {} THEN <<>> ELSE Push(F[s \ {Max(s)}], l[Max(s)])]
  <2> HIDE DEF Push
  <2> QED BY <1>5
<1>7. Without(l, id) = F[DOMAIN l]
  BY DEF Without, FoldLeft, MapThenFoldSet
<1>8. h[0] = <<>>
  <2>1. 1 .. 0 = {} /\ 0 \in 0 .. L BY <1>1
  <2>2. F[{}] = <<>>
    <3> HIDE DEF F, Push
    <3> QED BY <1>6
  <2> HIDE DEF F
  <2> QED BY <2>1, <2>2
<1>9. ASSUME NEW k \in 1 .. L PROVE h[k] = Push(h[k - 1], l[k])
  <2>1. /\ Max(1 .. k) = k /\ (1 .. k) \ {k} = 1 .. k - 1
        /\ 1 .. k # {} /\ 1 .. k \in SUBSET (1 .. L)
    BY <1>1, MaxOfRange
  <2>2. F[1 .. k] = Push(F[1 .. k - 1], l[k])
    <3> HIDE DEF F, Push, L
    <3> QED BY <1>1, <1>6, <2>1
  <2>3. k \in 0 .. L /\ k - 1 \in 0 .. L BY <1>1
  <2> HIDE DEF F, Push, L
  <2> QED BY <2>2, <2>3
<1>10. Without(l, id) = h[L]
  <2>1. L \in 0 .. L BY <1>1
  <2> HIDE DEF F, L
  <2> QED BY <1>1, <1>7, <2>1
<1> HIDE DEF h
<1>11. WithoutWalk(l, id, h) BY <1>8, <1>9, <1>10 DEF WithoutWalk
<1> QED BY <1>11

(* The filter takes out that record and no other.                          *)
LEMMA WithoutIs ==
    ASSUME NEW l \in RecordLists, NEW id
    PROVE  /\ Without(l, id) \in RecordLists
           /\ ToSet(Without(l, id)) = {r \in ToSet(l) : r.id # id}
<1> DEFINE L == Len(l)
           upto(k) == {l[j] : j \in {j \in 1 .. k : l[j].id # id}}
<1>1. /\ L \in Nat /\ DOMAIN l = 1 .. L /\ NoIdTwice(l) /\ l \in Seq(Record)
      /\ \A k \in 1 .. L : l[k] \in Record
  BY DEF RecordLists
<1>2. PICK h : WithoutWalk(l, id, h) BY <1>1, WithoutRuns
<1>3. /\ h[0] = <<>> /\ Without(l, id) = h[L]
      /\ \A k \in 1 .. L : h[k] = IF l[k].id = id THEN h[k - 1] ELSE Append(h[k - 1], l[k])
  BY <1>2 DEF WithoutWalk
<1> DEFINE Good(k) == h[k] \in RecordLists /\ ToSet(h[k]) = upto(k)
           P == {k \in 0 .. L : Good(k)}
<1>4. 0 \in P
  <2>1. upto(0) = {} /\ ToSet(<<>>) = {} BY DEF ToSet
  <2>2. <<>> \in RecordLists BY DEF RecordLists, NoIdTwice
  <2> HIDE DEF upto
  <2>3. Good(0) BY <1>3, <2>1, <2>2
  <2> QED BY <1>1, <2>3
<1>5. ASSUME NEW k \in 1 .. L, k - 1 \in P PROVE k \in P
  <2>1. Good(k - 1) BY <1>5
  <2>2. CASE l[k].id = id
    <3>1. upto(k) = upto(k - 1)
      <4> {j \in 1 .. k : l[j].id # id} = {j \in 1 .. k - 1 : l[j].id # id} BY <1>1, <2>2
      <4> QED OBVIOUS
    <3>2. h[k] = h[k - 1] BY <1>3, <2>2
    <3> HIDE DEF upto
    <3>3. Good(k) BY <2>1, <3>1, <3>2
    <3> QED BY <1>1, <3>3
  <2>3. CASE l[k].id # id
    <3> DEFINE o == h[k - 1]
    <3>1. {j \in 1 .. k : l[j].id # id} = {j \in 1 .. k - 1 : l[j].id # id} \cup {k}
      BY <1>1, <2>3
    <3>2. upto(k) = upto(k - 1) \cup {l[k]} BY <3>1
    <3>3. o \in RecordLists /\ ToSet(o) = upto(k - 1) BY <2>1
    <3>4. l[k].id \notin IdsOf(o)
      <4>1. \A x \in upto(k - 1) : x.id # l[k].id
        <5> SUFFICES ASSUME NEW j \in 1 .. k - 1, l[j].id = l[k].id PROVE FALSE OBVIOUS
        <5> j \in 1 .. L /\ j # k BY <1>1
        <5> QED BY <1>1 DEF NoIdTwice
      <4> HIDE DEF upto
      <4> QED BY <3>3, <4>1 DEF IdsOf
    <3>5. h[k] = Append(o, l[k]) BY <1>3, <2>3
    <3> HIDE DEF upto, o
    <3>6. Append(o, l[k]) \in RecordLists /\ ToSet(Append(o, l[k])) = ToSet(o) \cup {l[k]}
      BY <1>1, <3>3, <3>4, AppendedIs
    <3>7. Good(k) BY <3>2, <3>3, <3>5, <3>6
    <3> QED BY <1>1, <3>7
  <2> QED BY <2>2, <2>3
<1>6. Good(L)
  <2>1. P \in SUBSET (0 .. L) OBVIOUS
  <2> HIDE DEF P
  <2>2. P = 0 .. L BY <1>1, <1>4, <1>5, <2>1, UpTo
  <2>3. L \in P
    <3> L \in 0 .. L BY <1>1
    <3> QED BY <2>2
  <2> HIDE DEF Good
  <2> QED BY <2>3 DEF P
<1>7. upto(L) = {r \in ToSet(l) : r.id # id} BY <1>1 DEF ToSet
<1> QED BY <1>3, <1>6, <1>7

(* The versions of a list are those of its set of records.                 *)
LEMMA VersionsOfSet ==
    ASSUME NEW l \in RecordLists
    PROVE  /\ \A r \in ToSet(l) : r \in Record /\ VersionIn(l, r.id) = r.version
           /\ \A id : (\A r \in ToSet(l) : r.id # id) => VersionIn(l, id) = Absent
           /\ \A id \in IdsOf(l) : \E r \in ToSet(l) : r.id = id
<1>1. Len(l) \in Nat /\ DOMAIN l = 1 .. Len(l) /\ \A k \in 1 .. Len(l) : l[k] \in Record
  BY DEF RecordLists
<1>2. ASSUME NEW r \in ToSet(l) PROVE r \in Record /\ VersionIn(l, r.id) = r.version
  <2> PICK k \in 1 .. Len(l) : r = l[k] BY <1>1 DEF ToSet
  <2> QED BY <1>1, VersionOf
<1>3. ASSUME NEW id, \A r \in ToSet(l) : r.id # id PROVE VersionIn(l, id) = Absent
  <2> id \notin IdsOf(l) BY <1>3 DEF IdsOf
  <2> QED BY VersionOf
<1> QED BY <1>2, <1>3 DEF IdsOf

(* What the two loops say of one record of the window is the record merge. *)
LEMMA KeptIsMerged ==
    ASSUME NEW b, NEW n, NEW c, n # Absent
    PROVE  KeptFromSent(b, n, c) = Merged(b, n, c)
BY DEF KeptFromSent, Merged, Applied

LEMMA MergeIs ==
    ASSUME NEW b \in Maps, NEW n \in RecordLists, NEW c \in RecordLists, Absent \notin Versions
    PROVE  /\ MergeRecords(b, n, c) \in RecordLists
           /\ \A id \in Ids :
                 VersionIn(MergeRecords(b, n, c), id) = Merged(b[id], VersionIn(n, id), VersionIn(c, id))
           /\ SameOrder(n, MergeRecords(b, n, c))
           /\ SameOrder(n, c) => SameOrder(c, MergeRecords(b, n, c))
<1> DEFINE C == ById(c)
           own == SentLoop(b, n, C)
           res == MergeRecords(b, n, c)
           sentPart == {[id |-> n[k].id, version |-> Kept(b, n, C, k)] :
                           k \in {k \in 1 .. Len(n) : Kept(b, n, C, k) # Absent}}
           filePart == {c[k] : k \in {k \in 1 .. Len(c) : ~PassedOver(b, n, c, k)}}
<1>1. C \in Maps /\ \A id \in Ids : C[id] = VersionIn(c, id)
  <2>1. C \in Maps BY VersionOf DEF Maps
  <2> QED BY <2>1 DEF ById
<1>2. res = FileLoop(b, n, c, own) BY DEF MergeRecords
<1> HIDE DEF C
<1>3. /\ own \in RecordLists /\ ToSet(own) = sentPart
      /\ IdsOf(own) \subseteq IdsOf(n) /\ SameOrder(n, own)
  BY <1>1, SentLoopIs
<1> HIDE DEF own, res
<1>4. /\ res \in RecordLists /\ ToSet(res) = sentPart \cup filePart
      /\ SameOrder(n, res) /\ (SameOrder(n, c) => SameOrder(c, res))
  <2>1. /\ FileLoop(b, n, c, own) \in RecordLists
        /\ ToSet(FileLoop(b, n, c, own)) = ToSet(own) \cup filePart
        /\ SameOrder(n, FileLoop(b, n, c, own))
        /\ SameOrder(n, c) => SameOrder(c, FileLoop(b, n, c, own))
    BY <1>3, FileLoopIs
  <2> HIDE DEF sentPart, filePart
  <2> QED BY <1>2, <1>3, <2>1
<1>5. ASSUME NEW id \in Ids PROVE VersionIn(res, id) = Merged(b[id], VersionIn(n, id), VersionIn(c, id))
  <2>1. /\ Len(n) \in Nat /\ NoIdTwice(n) /\ DOMAIN n = 1 .. Len(n)
        /\ \A k \in 1 .. Len(n) : n[k] \in Record
        /\ Len(c) \in Nat /\ NoIdTwice(c) /\ DOMAIN c = 1 .. Len(c)
        /\ \A k \in 1 .. Len(c) : c[k] \in Record
    BY DEF RecordLists
  <2>2. /\ \A r \in sentPart \cup filePart : VersionIn(res, r.id) = r.version
        /\ (\A r \in sentPart \cup filePart : r.id # id) => VersionIn(res, id) = Absent
    <3> HIDE DEF sentPart, filePart
    <3> QED BY <1>4, VersionsOfSet
  <2>3. CASE id \in IdsOf(n)
    <3>1. PICK k \in 1 .. Len(n) : n[k].id = id BY <2>3, VersionOf
    <3>2. VersionIn(n, id) = n[k].version /\ n[k].version \in Versions
      BY <2>1, <3>1, VersionOf DEF Record
    <3>3. Kept(b, n, C, k) = KeptFromSent(b[id], n[k].version, VersionIn(c, id))
      BY <1>1, <3>1 DEF Kept
    <3>4. Kept(b, n, C, k) = Merged(b[id], VersionIn(n, id), VersionIn(c, id))
      <4> n[k].version # Absent BY <3>2
      <4> QED BY <3>2, <3>3, KeptIsMerged
    <3>5. CASE Kept(b, n, C, k) # Absent
      <4> DEFINE r == [id |-> n[k].id, version |-> Kept(b, n, C, k)]
      <4>1. r \in sentPart BY <3>5
      <4>2. VersionIn(res, r.id) = r.version
        <5> HIDE DEF sentPart, filePart, r
        <5> QED BY <2>2, <4>1
      <4> QED BY <3>1, <3>4, <4>2
    <3>6. CASE Kept(b, n, C, k) = Absent
      <4>1. ASSUME NEW r \in sentPart PROVE r.id # id
        <5> PICK j \in 1 .. Len(n) : Kept(b, n, C, j) # Absent /\ r.id = n[j].id OBVIOUS
        <5> j # k BY <3>6
        <5> QED BY <2>1, <3>1 DEF NoIdTwice
      <4>2. ASSUME NEW r \in filePart PROVE r.id # id
        <5> PICK j \in 1 .. Len(c) : ~PassedOver(b, n, c, j) /\ r = c[j] OBVIOUS
        <5> QED BY <2>3 DEF PassedOver
      <4> HIDE DEF sentPart, filePart
      <4> QED BY <2>2, <3>4, <3>6, <4>1, <4>2
    <3> QED BY <3>5, <3>6
  <2>4. CASE id \notin IdsOf(n)
    <3>1. VersionIn(n, id) = Absent BY <2>4, VersionOf
    <3>2. ASSUME NEW r \in sentPart PROVE r.id # id
      <4> PICK j \in 1 .. Len(n) : r.id = n[j].id OBVIOUS
      <4> n[j].id \in IdsOf(n) BY <2>1 DEF IdsOf, ToSet
      <4> QED BY <2>4
    <3>3. CASE id \in IdsOf(c)
      <4>1. PICK k \in 1 .. Len(c) : c[k].id = id BY <3>3, VersionOf
      <4>2. VersionIn(c, id) = c[k].version /\ c[k].version \in Versions
        BY <2>1, <4>1, VersionOf DEF Record
      <4>3. CASE b[id] = c[k].version
        <5>1. Merged(b[id], VersionIn(n, id), VersionIn(c, id)) = Absent
          BY <3>1, <4>2, <4>3 DEF Merged, Applied
        <5>2. ASSUME NEW r \in filePart PROVE r.id # id
          <6> PICK j \in 1 .. Len(c) : ~PassedOver(b, n, c, j) /\ r = c[j] OBVIOUS
          <6> j # k BY <4>1, <4>3 DEF PassedOver
          <6> QED BY <2>1, <4>1 DEF NoIdTwice
        <5> HIDE DEF sentPart, filePart
        <5> QED BY <2>2, <3>2, <5>1, <5>2
      <4>4. CASE b[id] # c[k].version
        <5>1. Merged(b[id], VersionIn(n, id), VersionIn(c, id)) = c[k].version
          BY <3>1, <4>2, <4>4 DEF Merged, Applied
        <5>2. c[k] \in filePart BY <2>4, <4>1, <4>4 DEF PassedOver
        <5> HIDE DEF sentPart, filePart
        <5> QED BY <2>2, <4>1, <5>1, <5>2
      <4> QED BY <4>3, <4>4
    <3>4. CASE id \notin IdsOf(c)
      <4>1. VersionIn(c, id) = Absent BY <3>4, VersionOf
      <4>2. Merged(b[id], VersionIn(n, id), VersionIn(c, id)) = Absent
        BY <3>1, <4>1 DEF Merged, Applied
      <4>3. ASSUME NEW r \in filePart PROVE r.id # id
        <5> PICK j \in 1 .. Len(c) : r = c[j] OBVIOUS
        <5> c[j].id \in IdsOf(c) BY <2>1 DEF IdsOf, ToSet
        <5> QED BY <3>4
      <4> HIDE DEF sentPart, filePart
      <4> QED BY <2>2, <3>2, <4>2, <4>3
    <3> QED BY <3>3, <3>4
  <2> QED BY <2>3, <2>4
<1> QED BY <1>4, <1>5 DEF res

(* "Replace": the user's version of that record, the others as they were.  *)
LEMMA ApplyMineIs ==
    ASSUME NEW l \in RecordLists, NEW conflict, conflict.id \in Ids,
           conflict.mine \in Versions \cup {Absent}
    PROVE  /\ ApplyMine(l, conflict) \in RecordLists
           /\ \A id \in Ids : VersionIn(ApplyMine(l, conflict), id) =
                                 IF id = conflict.id THEN conflict.mine ELSE VersionIn(l, id)
<1> DEFINE q == conflict.id
           mine == [id |-> q, version |-> conflict.mine]
           res == ApplyMine(l, conflict)
           place == SelectInSeq(l, LAMBDA r : r.id = conflict.id)
<1>0. /\ Len(l) \in Nat /\ DOMAIN l = 1 .. Len(l) /\ NoIdTwice(l) /\ l \in Seq(Record)
      /\ \A k \in 1 .. Len(l) : l[k] \in Record
  BY DEF RecordLists
<1>s. SUFFICES /\ res \in RecordLists
               /\ \A r \in ToSet(res) : IF r.id = q THEN r.version = conflict.mine ELSE r \in ToSet(l)
               /\ \A r \in ToSet(l) : r.id # q => r \in ToSet(res)
               /\ conflict.mine # Absent => \E r \in ToSet(res) : r.id = q
               /\ conflict.mine = Absent => \A r \in ToSet(res) : r.id # q
  <2> SUFFICES ASSUME NEW id \in Ids
               PROVE  VersionIn(res, id) = IF id = q THEN conflict.mine ELSE VersionIn(l, id)
    BY <1>s
  <2> HIDE DEF res
  <2>1. CASE id = q
    <3>1. CASE conflict.mine = Absent BY <1>s, <2>1, <3>1, VersionsOfSet
    <3>2. CASE conflict.mine # Absent
      <4> PICK r \in ToSet(res) : r.id = q BY <1>s, <3>2
      <4> QED BY <1>s, <2>1, VersionsOfSet
    <3> QED BY <3>1, <3>2
  <2>2. CASE id # q
    <3>1. CASE \E r \in ToSet(l) : r.id = id
      <4> PICK r \in ToSet(l) : r.id = id BY <3>1
      <4>1. r \in ToSet(res) BY <1>s, <2>2
      <4> QED BY <1>s, <2>2, <4>1, VersionsOfSet
    <3>2. CASE \A r \in ToSet(l) : r.id # id
      <4> \A r \in ToSet(res) : r.id # id BY <1>s, <2>2, <3>2
      <4> QED BY <1>s, <2>2, <3>2, VersionsOfSet
    <3> QED BY <3>1, <3>2
  <2> QED BY <2>1, <2>2
<1>1. CASE conflict.mine = Absent
  <2>1. res = Without(l, q) BY <1>1 DEF ApplyMine
  <2> HIDE DEF res
  <2>2. res \in RecordLists /\ ToSet(res) = {r \in ToSet(l) : r.id # q} BY <2>1, WithoutIs
  <2> QED BY <1>1, <2>2
<1>2. CASE conflict.mine # Absent /\ q \notin IdsOf(l)
  <2>1. res = <<mine>> \o l BY <1>2 DEF ApplyMine, Cons
  <2>2. mine \in Record BY <1>2 DEF Record
  <2>3. InsertAt(l, 1, mine) = <<mine>> \o l
    <3>1. SubSeq(l, 1, 1 - 1) = <<>> BY <1>0
    <3>2. SubSeq(l, 1, Len(l)) = l BY <1>0
    <3>3. <<>> \o <<mine>> = <<mine>> OBVIOUS
    <3> QED BY <3>1, <3>2, <3>3 DEF InsertAt
  <2>4. 1 \in 1 .. Len(l) + 1 BY <1>0
  <2>5. /\ InsertAt(l, 1, mine) \in RecordLists
        /\ ToSet(InsertAt(l, 1, mine)) = ToSet(l) \cup {mine}
    <3> mine.id \notin IdsOf(l) BY <1>2
    <3> HIDE DEF mine
    <3> QED BY <2>2, <2>4, InsertedIs
  <2>6. \A r \in ToSet(l) : r.id # q BY <1>2 DEF IdsOf
  <2>7. res \in RecordLists /\ ToSet(res) = ToSet(l) \cup {mine} BY <2>1, <2>3, <2>5
  <2>8. mine.id = q /\ mine.version = conflict.mine OBVIOUS
  <2> HIDE DEF res, mine
  <2>9. \E r \in ToSet(res) : r.id = q BY <2>7, <2>8
  <2> QED BY <1>2, <2>6, <2>7, <2>8, <2>9
<1>3. CASE conflict.mine # Absent /\ q \in IdsOf(l)
  <2>1. res = [l EXCEPT ![place] = mine] BY <1>3 DEF ApplyMine, ReplaceAt
  <2>2. place \in 1 .. Len(l) /\ l[place].id = q
    <3> DEFINE I == {i \in 1 .. Len(l) : l[i].id = q}
    <3>1. PICK k \in 1 .. Len(l) : l[k].id = q BY <1>3, VersionOf
    <3>2. I # {} /\ I \in SUBSET (1 .. Len(l)) BY <3>1
    <3>3. place = Min(I) BY <3>2 DEF SelectInSeq
    <3>4. Min(I) \in I BY <1>0, <3>2, MinBounds
    <3> QED BY <3>3, <3>4
  <2>3. mine \in Record BY <1>3 DEF Record
  <2> HIDE DEF place, res
  <2>4. /\ res \in Seq(Record) /\ Len(res) = Len(l) /\ DOMAIN res = 1 .. Len(l)
        /\ \A k \in 1 .. Len(l) : res[k] = IF k = place THEN mine ELSE l[k]
    BY <1>0, <2>1, <2>2, <2>3
  <2>5. \A k \in 1 .. Len(l) : res[k].id = l[k].id BY <2>2, <2>4
  <2>6. NoIdTwice(res) BY <1>0, <2>4, <2>5 DEF NoIdTwice
  <2>7. res \in RecordLists BY <2>4, <2>6 DEF RecordLists
  <2>8. ASSUME NEW r \in ToSet(res)
        PROVE  IF r.id = q THEN r.version = conflict.mine ELSE r \in ToSet(l)
    <3> PICK k \in 1 .. Len(l) : r = res[k] BY <2>4 DEF ToSet
    <3>1. CASE k = place BY <2>4, <3>1
    <3>2. CASE k # place
      <4>1. r = l[k] /\ r.id # q BY <1>0, <2>2, <2>4, <3>2 DEF NoIdTwice
      <4> QED BY <1>0, <4>1 DEF ToSet
    <3> QED BY <3>1, <3>2
  <2>9. ASSUME NEW r \in ToSet(l), r.id # q PROVE r \in ToSet(res)
    <3> PICK k \in 1 .. Len(l) : r = l[k] BY <1>0 DEF ToSet
    <3>1. res[k] = r BY <2>2, <2>4, <2>9
    <3> QED BY <2>4, <3>1 DEF ToSet
  <2>10. mine \in ToSet(res)
    <3> res[place] = mine BY <2>2, <2>4
    <3> QED BY <2>2, <2>4 DEF ToSet
  <2>11. \E r \in ToSet(res) : r.id = q BY <2>10
  <2> QED BY <1>3, <2>7, <2>8, <2>9, <2>11
<1> QED BY <1>1, <1>2, <1>3

(* The conflicts are what the type says.                                   *)
LEMMA ConflictsType ==
    ASSUME NEW b \in Maps, NEW n \in Maps, NEW c \in Maps
    PROVE  RecordConflicts(b, n, c) \subseteq Conflicts
<1> SUFFICES ASSUME NEW id \in Ids, NEW kind \in ConflictKinds(b[id], n[id], c[id])
             PROVE  [id |-> id, kind |-> kind, mine |-> n[id], theirs |-> c[id]] \in Conflicts
  BY DEF RecordConflicts
<1>1. n[id] \in Versions \cup {Absent} /\ c[id] \in Versions \cup {Absent} BY DEF Maps
<1>2. kind \in {"edit-edit", "edit-deleted", "add-add", "deleted-edited"} BY DEF ConflictKinds
<1> QED BY <1>1, <1>2 DEF Conflicts

(* Who starts from what the file has meets no conflict, and is followed.   *)
LEMMA FromTheFile ==
    ASSUME NEW n, NEW c
    PROVE  Merged(c, n, c) = n /\ ConflictKinds(c, n, c) = {}
BY DEF Merged, Applied, ConflictKinds, EditEdit, EditDeleted, AddAdd, DeletedEdited

(* A call on any base, sent list and file there can be.                    *)
ListsInit ==
    /\ step = "sent" /\ conflicts = {}
    /\ base \in Maps \cup {NotList}
    /\ sent \in Lists \cup {NotList}
    /\ file \in Lists \cup {NotList}

ListsSpec == ListsInit /\ [][Next]_vars

(* Conflicts are only met in a list.                                       *)
ListsInv == TypeOK /\ (conflicts # {} => file \in Lists)

(* One save, whichever one it is.                                          *)
LEMMA SaveIs ==
    ASSUME ListsInv, NEW from, NEW to, Save(from, to), to \in {"saved", "repeated"}
    PROVE  /\ ListsInv'
           /\ Mergeable => /\ base \in Maps /\ sent \in RecordLists /\ file \in RecordLists
                           /\ file' = MergeRecords(base, sent, file)
<1>1. /\ Lists = RecordLists /\ Absent \notin Versions
  BY ListsAre, MergeAssumption
<1>2. step' = to /\ base' = base /\ sent' = sent BY DEF Save
<1>3. /\ base \in Maps \cup {NotList} /\ sent \in RecordLists \cup {NotList}
      /\ file \in RecordLists \cup {NotList}
  BY <1>1 DEF ListsInv, TypeOK, Maps
<1>4. CASE Mergeable
  <2>1. base \in Maps /\ sent \in RecordLists /\ file \in RecordLists
    BY <1>3, <1>4 DEF Mergeable
  <2>2. /\ file' = MergeRecords(base, sent, file)
        /\ conflicts' = RecordConflicts(base, ById(sent), ById(file))
    BY <1>4 DEF Save
  <2>3. file' \in RecordLists BY <1>1, <2>1, <2>2, MergeIs
  <2>4. ById(sent) \in Maps /\ ById(file) \in Maps BY <2>1, VersionOf DEF Maps
  <2>5. conflicts' \subseteq Conflicts BY <2>1, <2>2, <2>4, ConflictsType
  <2> QED BY <1>1, <1>2, <1>3, <2>1, <2>2, <2>3, <2>5 DEF ListsInv, TypeOK, Maps
<1>5. CASE ~Mergeable
  <2>1. file' = sent /\ conflicts' = {} BY <1>5 DEF Save
  <2> QED BY <1>1, <1>2, <1>3, <1>5, <2>1 DEF ListsInv, TypeOK, Maps
<1> QED BY <1>4, <1>5

(* "Replace" puts one version in and leaves the rest.                      *)
LEMMA ReplaceIs ==
    ASSUME ListsInv, Replace
    PROVE  /\ ListsInv'
           /\ conflicts' = {}
           /\ \E conflict \in conflicts :
                 ById(file') = [ById(file) EXCEPT ![conflict.id] = conflict.mine]
<1>1. /\ Lists = RecordLists /\ Absent \notin Versions
  BY ListsAre, MergeAssumption
<1>2. PICK conflict \in conflicts :
          /\ base' = ById(file)
          /\ sent' = ApplyMine(file, conflict)
          /\ file' = MergeRecords(ById(file), ApplyMine(file, conflict), file)
          /\ conflicts' = RecordConflicts(ById(file), ById(ApplyMine(file, conflict)), ById(file))
  BY DEF Replace
<1>3. /\ file \in RecordLists /\ conflict.id \in Ids /\ conflict.mine \in Versions \cup {Absent}
  BY <1>1, <1>2 DEF ListsInv, TypeOK, Conflicts
<1> DEFINE m == ApplyMine(file, conflict)
<1>4. /\ m \in RecordLists
      /\ \A id \in Ids : VersionIn(m, id) = IF id = conflict.id THEN conflict.mine ELSE VersionIn(file, id)
  BY <1>3, ApplyMineIs
<1>5. base' = ById(file) /\ sent' = m /\ file' = MergeRecords(ById(file), m, file)
      /\ conflicts' = RecordConflicts(ById(file), ById(m), ById(file)) /\ step' = "replaced"
  BY <1>2 DEF Replace
<1> HIDE DEF m
<1>6. ById(file) \in Maps BY <1>3, VersionOf DEF Maps
<1>7. /\ file' \in RecordLists
      /\ \A id \in Ids : VersionIn(file', id) = Merged(ById(file)[id], VersionIn(m, id), VersionIn(file, id))
  BY <1>1, <1>3, <1>4, <1>5, <1>6, MergeIs
<1>8. ASSUME NEW id \in Ids PROVE VersionIn(file', id) = VersionIn(m, id)
  <2> ById(file)[id] = VersionIn(file, id) BY DEF ById
  <2> QED BY <1>7, FromTheFile
<1>9. ById(file') = [ById(file) EXCEPT ![conflict.id] = conflict.mine]
  BY <1>3, <1>4, <1>8 DEF ById
<1>10. conflicts' = {} BY <1>5, FromTheFile DEF RecordConflicts
<1>11. ListsInv' BY <1>1, <1>4, <1>5, <1>6, <1>7, <1>10 DEF ListsInv, TypeOK, Maps
<1> QED BY <1>2, <1>9, <1>10, <1>11

(* They are the same after any number of saves.                           *)
LEMMA ListsInvariant == ListsSpec => []ListsInv
<1>1. ListsInit => ListsInv BY DEF ListsInit, ListsInv, TypeOK, Maps
<1>2. ListsInv /\ [Next]_vars => ListsInv'
  <2> SUFFICES ASSUME ListsInv, [Next]_vars PROVE ListsInv' OBVIOUS
  <2>1. CASE FirstSave BY <2>1, SaveIs DEF FirstSave
  <2>2. CASE RepeatSave BY <2>2, SaveIs DEF RepeatSave
  <2>3. CASE Replace BY <2>3, ReplaceIs
  <2>4. CASE UNCHANGED vars BY <2>4 DEF vars, ListsInv, TypeOK
  <2> QED BY <2>1, <2>2, <2>3, <2>4 DEF Next
<1> QED BY <1>1, <1>2, PTL DEF ListsSpec

(* A save or a "replace" keeps every list a list with no id twice, and the *)
(* conflicts it reports are conflicts of its records.                      *)
THEOREM ListsStayLists == ListsSpec => []TypeOK
<1>1. ListsInv => TypeOK BY DEF ListsInv
<1> QED BY <1>1, ListsInvariant, PTL

(* The two loops of a merging save, over lists of any length, leave under  *)
(* every id the version that merge_records says of one record.             *)
THEOREM TwoLoopsMerge == ListsSpec => EveryRecordIsMerged
<1>1. ASSUME ListsInv, [Next]_vars, step = "sent", Mergeable, NEW id \in Ids
      PROVE  ById(file')[id] = Merged(base[id], ById(sent)[id], ById(file)[id])
         \/ UNCHANGED vars
  <2>1. CASE FirstSave
    <3>1. /\ base \in Maps /\ sent \in RecordLists /\ file \in RecordLists
          /\ file' = MergeRecords(base, sent, file)
      BY <1>1, <2>1, SaveIs DEF FirstSave
    <3>2. VersionIn(file', id) = Merged(base[id], VersionIn(sent, id), VersionIn(file, id))
      BY <3>1, MergeIs, MergeAssumption
    <3> QED BY <3>2 DEF ById
  <2>2. ~RepeatSave /\ ~Replace BY <1>1 DEF RepeatSave, Replace, Save
  <2> QED BY <1>1, <2>1, <2>2 DEF Next
<1>2. ListsInv /\ [Next]_vars =>
          [step = "sent" /\ Mergeable =>
              \A id \in Ids :
                 ById(file')[id] = Merged(base[id], ById(sent)[id], ById(file)[id])]_vars
  BY <1>1
<1> QED BY <1>2, ListsInvariant, PTL DEF ListsSpec, EveryRecordIsMerged

(* The window's order stays, and the file's where it does not differ.      *)
THEOREM OrderStays == ListsSpec => OrderIsKept
<1>1. ASSUME ListsInv, [Next]_vars, step = "sent", Mergeable
      PROVE  \/ /\ SameOrder(sent, file')
                /\ SameOrder(sent, file) => SameOrder(file, file')
             \/ UNCHANGED vars
  <2>1. CASE FirstSave
    <3>1. /\ base \in Maps /\ sent \in RecordLists /\ file \in RecordLists
          /\ file' = MergeRecords(base, sent, file)
      BY <1>1, <2>1, SaveIs DEF FirstSave
    <3> QED BY <3>1, MergeIs, MergeAssumption
  <2>2. ~RepeatSave /\ ~Replace BY <1>1 DEF RepeatSave, Replace, Save
  <2> QED BY <1>1, <2>1, <2>2 DEF Next
<1>2. ListsInv /\ [Next]_vars =>
          [step = "sent" /\ Mergeable =>
              /\ SameOrder(sent, file')
              /\ SameOrder(sent, file) => SameOrder(file, file')]_vars
  BY <1>1
<1> QED BY <1>2, ListsInvariant, PTL DEF ListsSpec, OrderIsKept

(* The user's answer to a conflict changes that record and no other, and   *)
(* leaves no conflict.                                                     *)
THEOREM ReplaceIsLocal == ListsSpec => ReplaceTouchesOneRecord
<1>1. ASSUME ListsInv, [Next]_vars, step = "saved", step' = "replaced"
      PROVE  /\ conflicts' = {}
             /\ \E conflict \in conflicts :
                   ById(file') = [ById(file) EXCEPT ![conflict.id] = conflict.mine]
  <2>1. CASE Replace BY <1>1, <2>1, ReplaceIs
  <2>2. ~FirstSave /\ ~RepeatSave /\ ~UNCHANGED vars BY <1>1 DEF FirstSave, RepeatSave, Save, vars
  <2> QED BY <1>1, <2>1, <2>2 DEF Next
<1>2. ListsInv /\ [Next]_vars =>
          [step = "saved" /\ step' = "replaced" =>
              /\ conflicts' = {}
              /\ \E conflict \in conflicts :
                    ById(file') = [ById(file) EXCEPT ![conflict.id] = conflict.mine]]_vars
  BY <1>1
<1> QED BY <1>2, ListsInvariant, PTL DEF ListsSpec, ReplaceTouchesOneRecord
-----------------------------------------------------------------------------
(* HOURS.  What the user typed into the form is kept.  The form follows    *)
(* today when it holds nothing to save, and it judges that by a comparison *)
(* with where it was started from and with the hours in force.  The        *)
(* invariant says that the comparison is never fooled: what was typed      *)
(* differs from one of the two as they are now.                            *)

HoursSpec == HoursInit /\ [][HoursNext]_hourVars

TypedDiffers ==
    typed # NoDraft => typed # baseline \/ typed.times # TimesFor(settings, typed.from)

IInv == TypedIsKept /\ TypedDiffers

(* Unsaved keeps a draft only while it differs.                            *)
LEMMA UnsavedDiffers ==
    ASSUME NEW d, NEW started, NEW s
    PROVE  /\ Unsaved(d, started, s) \in {d, NoDraft}
           /\ Unsaved(d, started, s) # NoDraft =>
                Unsaved(d, started, s) # started
                \/ Unsaved(d, started, s).times # TimesFor(s, Unsaved(d, started, s).from)
BY DEF Unsaved

(* A step that judges what was typed anew, and leaves the form alone.      *)
LEMMA JudgedAnew ==
    ASSUME IInv, typed' = Unsaved(typed, baseline', settings'), draft' = draft
    PROVE  IInv'
BY UnsavedDiffers DEF IInv, TypedIsKept, TypedDiffers

LEMMA ChangesKeep == ASSUME IInv, NEW s, Changes(s) PROVE IInv'
BY JudgedAnew DEF Changes

LEMMA InvHoldsAtFirst == HoursInit => IInv
BY DEF HoursInit, IInv, TypedIsKept, TypedDiffers

LEMMA InvIsKept == IInv /\ [HoursNext]_hourVars => IInv'
<1> SUFFICES ASSUME IInv, [HoursNext]_hourVars PROVE IInv' OBVIOUS
<1> USE DEF IInv, TypedIsKept, TypedDiffers
<1>1. ASSUME NEW next, EditDraft(next) PROVE IInv'
  BY <1>1, UnsavedDiffers DEF EditDraft
<1>2. CASE SaveHours BY <1>2, JudgedAnew DEF SaveHours
<1>3. CASE HoursSaved BY <1>3, JudgedAnew DEF HoursSaved
<1>4. CASE HoursNotSaved BY <1>4, JudgedAnew DEF HoursNotSaved
<1>5. CASE CancelDraft BY <1>5 DEF CancelDraft
<1>6. CASE FollowToday
  <2>1. typed # NoDraft => IsDraft BY DEF IsDraft, NeedsSave, Touched
  <2> QED BY <1>6, <2>1 DEF FollowToday
<1>7. CASE Midnight BY <1>7 DEF Midnight
<1>8. ASSUME NEW times, NEW from, OtherWindowSets(times, from) PROVE IInv'
  BY <1>8, ChangesKeep DEF OtherWindowSets
<1>9. ASSUME NEW times, NEW from, NEW to, AddOverride(from, to, times) PROVE IInv'
  BY <1>9, ChangesKeep DEF AddOverride
<1>10. ASSUME NEW from, RemoveEntry(from) PROVE IInv'
  BY <1>10, ChangesKeep DEF RemoveEntry
<1>11. ASSUME NEW k, RemoveOverride(k) PROVE IInv'
  BY <1>11, ChangesKeep DEF RemoveOverride
<1>12. CASE UndoRemove BY <1>12, ChangesKeep DEF UndoRemove
<1>13. CASE UNCHANGED hourVars BY <1>13 DEF hourVars
<1> QED
  BY <1>1, <1>2, <1>3, <1>4, <1>5, <1>6, <1>7, <1>8, <1>9, <1>10, <1>11, <1>12, <1>13
  DEF HoursNext

(* What the user typed stays in the form (TypedIsKept) across midnight,    *)
(* failed saves and changes by the other window, for every set of hours    *)
(* and every number of days.                                               *)
THEOREM TypedStays == HoursSpec => []TypedIsKept
<1>1. HoursInit => IInv BY InvHoldsAtFirst
<1>2. IInv /\ [HoursNext]_hourVars => IInv' BY InvIsKept
<1>3. IInv => TypedIsKept BY DEF IInv
<1> QED BY <1>1, <1>2, <1>3, PTL DEF HoursSpec
-----------------------------------------------------------------------------
(* Everything that may come into force is a schedule of days.              *)
IsSettings(s) ==
    /\ {"base", "schedule", "overrides"} \subseteq DOMAIN s
    /\ DOMAIN s.schedule \subseteq 0 .. LastDay

DatesAreDays ==
    /\ IsSettings(settings)
    /\ today \in Days /\ draft.from \in Days /\ baseline.from \in Days
    /\ DOMAIN removed \subseteq 0 .. LastDay
    /\ saving # <<>> => saving.draft.from \in Days /\ IsSettings(saving.before)

LEMMA EmptyHasNoDays == DOMAIN <<>> = {}
OBVIOUS

LEMMA LastExists ==
    ASSUME NEW S \in SUBSET (0 .. LastDay), S # {}
    PROVE  Max(S) \in S
<1> LastDay \in Nat BY HoursAssumption
<1> DEFINE Back == {d \in 0 .. LastDay : LastDay - d \in S}
<1>1. Back \subseteq Nat OBVIOUS
<1>2. Back # {}
  <2> PICK d \in S : TRUE OBVIOUS
  <2>1. LastDay - d \in 0 .. LastDay /\ LastDay - (LastDay - d) = d OBVIOUS
  <2> QED BY <2>1
<1> HIDE DEF Back
<1> PICK n \in Back : \A m \in Back : n <= m BY <1>1, <1>2, LeastExists
<1>3. LastDay - n \in S BY DEF Back
<1>4. ASSUME NEW y \in S PROVE LastDay - n >= y
  <2>1. y \in 0 .. LastDay OBVIOUS
  <2>2. LastDay - y \in 0 .. LastDay /\ LastDay - (LastDay - y) = y BY <2>1
  <2>3. LastDay - y \in Back BY <2>2 DEF Back
  <2>4. n <= LastDay - y BY <2>3
  <2>5. n \in 0 .. LastDay BY DEF Back
  <2> QED BY <2>1, <2>4, <2>5
<1> QED BY <1>3, <1>4 DEF Max

(* The override in force; TimesFor asks for it and else for the schedule.  *)
Overrides(o, day) == {k \in DOMAIN o : day >= o[k].from /\ day <= o[k].to}
Override(o, day) ==
    o[CHOOSE k \in Overrides(o, day) : \A j \in Overrides(o, day) :
        \/ o[j].from < o[k].from
        \/ o[j].from = o[k].from /\ j <= k].times

LEMMA TimesForIs ==
    ASSUME NEW s, NEW day
    PROVE  LET begun == {from \in DOMAIN s.schedule : from <= day}
           IN  TimesFor(s, day) =
                 IF Overrides(s.overrides, day) # {} THEN Override(s.overrides, day)
                 ELSE IF begun # {} THEN s.schedule[Max(begun)] ELSE s.base
BY Zenon DEF TimesFor, Override, Overrides

(* The first change: the base hours go on record from day 0.               *)
LEMMA FirstPatchKeepsThePast ==
    ASSUME NEW s, IsSettings(s), NEW times, NEW from \in Days, NEW day \in Days,
           day < from, s.schedule = <<>>
    PROVE  TimesFor(HoursPatch(s, times, from), day) = TimesFor(s, day)
<1> DEFINE p == HoursPatch(s, times, from)
           schedule == [d \in {from, 0} |-> IF d = from THEN times ELSE s.base]
<1>1. p.overrides = s.overrides /\ p.schedule = schedule
  <2>1. Entered(Entered(<<>>, s.base, 0), times, from) = schedule BY EmptyHasNoDays DEF Entered
  <2> QED BY <2>1 DEF HoursPatch, IsSettings
<1>2. {d \in DOMAIN s.schedule : d <= day} = {} BY EmptyHasNoDays
<1>3. {d \in DOMAIN p.schedule : d <= day} = {0} BY <1>1, HoursAssumption DEF Days
<1>4. Max({0}) = 0 BY LastExists, HoursAssumption
<1>5. p.schedule[0] = s.base BY <1>1, HoursAssumption DEF Days
<1> HIDE DEF p
<1>6. TimesFor(p, day) =
        IF Overrides(p.overrides, day) # {} THEN Override(p.overrides, day) ELSE s.base
  BY <1>3, <1>4, <1>5, TimesForIs
<1>7. TimesFor(s, day) =
        IF Overrides(s.overrides, day) # {} THEN Override(s.overrides, day) ELSE s.base
  BY <1>2, TimesForIs
<1>8. p.overrides = s.overrides BY <1>1 DEF p
<1> QED BY <1>6, <1>7, <1>8 DEF p

(* A later one: the last entry begun is the same as before.                *)
LEMMA LaterPatchKeepsThePast ==
    ASSUME NEW s, IsSettings(s), NEW times, NEW from \in Days, NEW day \in Days,
           day < from, s.schedule # <<>>, 0 \in DOMAIN s.schedule
    PROVE  TimesFor(HoursPatch(s, times, from), day) = TimesFor(s, day)
<1> DEFINE p == HoursPatch(s, times, from)
           schedule == [d \in {from} \cup DOMAIN s.schedule |->
                            IF d = from THEN times ELSE s.schedule[d]]
           begun == {d \in DOMAIN s.schedule : d <= day}
<1>1. p.overrides = s.overrides /\ p.schedule = schedule
  BY DEF HoursPatch, IsSettings, Entered
<1>2. {d \in DOMAIN p.schedule : d <= day} = begun
  BY <1>1, HoursAssumption DEF Days, IsSettings
<1>3. begun # {} /\ begun \subseteq 0 .. LastDay
  BY HoursAssumption DEF Days, IsSettings
<1>4. Max(begun) \in begun BY <1>3, LastExists
<1>5. Max(begun) \in DOMAIN s.schedule /\ Max(begun) # from
  <2> HIDE DEF schedule
  <2> QED BY <1>4, HoursAssumption DEF Days, IsSettings
<1>6. p.schedule[Max(begun)] = s.schedule[Max(begun)] BY <1>1, <1>5
<1> HIDE DEF p
<1>7. TimesFor(p, day) =
        IF Overrides(p.overrides, day) # {} THEN Override(p.overrides, day)
        ELSE p.schedule[Max(begun)]
  BY <1>2, <1>3, TimesForIs
<1>8. TimesFor(s, day) =
        IF Overrides(s.overrides, day) # {} THEN Override(s.overrides, day)
        ELSE s.schedule[Max(begun)]
  BY <1>3, TimesForIs
<1>9. p.overrides = s.overrides BY <1>1
<1> HIDE DEF schedule, begun
<1> QED BY <1>6, <1>7, <1>8, <1>9 DEF p

LEMMA DatesAtFirst == HoursInit => DatesAreDays
BY EmptyHasNoDays, HoursAssumption DEF HoursInit, DatesAreDays, IsSettings, Days

LEMMA PatchIsSettings ==
    ASSUME NEW s, IsSettings(s), NEW times, NEW from \in Days
    PROVE  IsSettings(HoursPatch(s, times, from))
<1> DEFINE before == IF s.schedule = <<>> THEN Entered(<<>>, s.base, 0) ELSE s.schedule
<1>1. DOMAIN before \subseteq 0 .. LastDay BY HoursAssumption, EmptyHasNoDays DEF IsSettings, Entered
<1>2. DOMAIN Entered(before, times, from) \subseteq 0 .. LastDay BY <1>1 DEF Days, Entered
<1>3. /\ DOMAIN HoursPatch(s, times, from) = DOMAIN s
      /\ HoursPatch(s, times, from).schedule = Entered(before, times, from)
  BY DEF HoursPatch, IsSettings
<1> QED BY <1>2, <1>3 DEF IsSettings

LEMMA DatesAreKept == DatesAreDays /\ [HoursNext]_hourVars => DatesAreDays'
<1> SUFFICES ASSUME DatesAreDays, [HoursNext]_hourVars PROVE DatesAreDays' OBVIOUS
<1> USE DEF DatesAreDays
<1>1. ASSUME NEW times, NEW from \in Days, EditDraft([times |-> times, from |-> from])
      PROVE  DatesAreDays'
  BY <1>1 DEF EditDraft
<1>2. CASE SaveHours
  <2>1. IsSettings(settings') BY <1>2, PatchIsSettings DEF SaveHours
  <2> QED BY <1>2, <2>1 DEF SaveHours
<1>3. CASE HoursSaved BY <1>3 DEF HoursSaved
<1>4. CASE HoursNotSaved BY <1>4 DEF HoursNotSaved
<1>5. CASE CancelDraft BY <1>5 DEF CancelDraft
<1>6. CASE FollowToday BY <1>6 DEF FollowToday
<1>7. CASE Midnight BY <1>7, HoursAssumption DEF Midnight, Days
<1>8. ASSUME NEW times, NEW from \in Days, OtherWindowSets(times, from) PROVE DatesAreDays'
  <2>1. IsSettings(settings') BY <1>8, PatchIsSettings DEF OtherWindowSets, Changes
  <2> QED BY <1>8, <2>1 DEF OtherWindowSets, Changes
<1>9. ASSUME NEW times, NEW from, NEW to, AddOverride(from, to, times) PROVE DatesAreDays'
  BY <1>9 DEF AddOverride, Changes, IsSettings
<1>10. ASSUME NEW from, RemoveEntry(from) PROVE DatesAreDays'
  BY <1>10 DEF RemoveEntry, Changes, IsSettings, Restrict
<1>11. ASSUME NEW k, RemoveOverride(k) PROVE DatesAreDays'
  BY <1>11 DEF RemoveOverride, Changes, IsSettings
<1>12. CASE UndoRemove BY <1>12, EmptyHasNoDays DEF UndoRemove, Changes, IsSettings
<1>13. CASE UNCHANGED hourVars BY <1>13 DEF hourVars
<1> QED
  BY <1>1, <1>2, <1>3, <1>4, <1>5, <1>6, <1>7, <1>8, <1>9, <1>10, <1>11, <1>12, <1>13
  DEF HoursNext

(* New hours leave every day before them as it was scored                  *)
(* (PastKeepsItsHours), for every set of hours and every number of days.   *)
THEOREM PastStays == HoursSpec => PastKeepsItsHours
<1> DEFINE Past ==
        \A times \in HourSets, from \in Days :
            settings' = HoursPatch(settings, times, from) /\ settings' # settings
                => \A day \in Days :
                    \/ day >= from
                    \/ settings.schedule # <<>> /\ 0 \notin DOMAIN settings.schedule
                    \/ TimesFor(settings', day) = TimesFor(settings, day)
<1>1. DatesAreDays => Past
  <2> SUFFICES ASSUME DatesAreDays, NEW times \in HourSets, NEW from \in Days, NEW day \in Days,
                      settings' = HoursPatch(settings, times, from), ~(day >= from),
                      ~(settings.schedule # <<>> /\ 0 \notin DOMAIN settings.schedule)
               PROVE  TimesFor(settings', day) = TimesFor(settings, day)
    OBVIOUS
  <2>1. IsSettings(settings) BY DEF DatesAreDays
  <2>2. day < from BY HoursAssumption DEF Days
  <2> QED BY <2>1, <2>2, FirstPatchKeepsThePast, LaterPatchKeepsThePast
<1>2. HoursInit => DatesAreDays BY DatesAtFirst
<1>3. DatesAreDays /\ [HoursNext]_hourVars => DatesAreDays' BY DatesAreKept
<1>4. DatesAreDays => [Past]_hourVars BY <1>1
<1> HIDE DEF Past
<1>5. HoursSpec => [][Past]_hourVars BY <1>2, <1>3, <1>4, PTL DEF HoursSpec
<1> QED BY <1>5 DEF PastKeepsItsHours, Past
-----------------------------------------------------------------------------
(* STIPEND.  Each sum, count, charge and rounding of the reckoning grows   *)
(* with what it is taken of.                                               *)

(* The sums of two functions over one set take their values in one order.  *)
Summing(f, S, g) ==
    /\ g \in [SUBSET S -> Int] /\ g[{}] = 0
    /\ \A T \in SUBSET S : T # {} =>
          g[T] = f[CHOOSE x \in T : TRUE] + g[T \ {CHOOSE x \in T : TRUE}]
    /\ SumFunction(f) = g[S]

LEMMA SumType ==
    ASSUME NEW S, IsFiniteSet(S), NEW f \in [S -> Int], NEW F,
           F = [s \in SUBSET S |-> IF s = {} THEN 0
                                   ELSE f[CHOOSE x \in s : TRUE] + F[s \ {CHOOSE x \in s : TRUE}]]
    PROVE  F \in [SUBSET S -> Int]
<1> DEFINE P == {T \in SUBSET S : F[T] \in Int}
<1>1. {} \in P OBVIOUS
<1>2. ASSUME NEW T \in SUBSET S, T # {} PROVE \E x \in T : T \ {x} \in P => T \in P
  <2> DEFINE p == CHOOSE x \in T : TRUE
  <2>1. p \in T BY <1>2
  <2>2. F[T] = f[p] + F[T \ {p}] BY <1>2
  <2> HIDE DEF p
  <2>3. T \ {p} \in P => T \in P BY <2>1, <2>2
  <2> QED BY <2>1, <2>3
<1> HIDE DEF P
<1>3. SUBSET S \subseteq P BY <1>1, <1>2, EverySubset
<1> QED BY <1>3 DEF P

LEMMA SumRuns ==
    ASSUME NEW S, IsFiniteSet(S), NEW f \in [S -> Int]
    PROVE  \E g : Summing(f, S, g)
<1> DEFINE pick == [T \in SUBSET S |-> CHOOSE x \in T : TRUE]
           add == [x \in S |-> [t \in Int |-> f[x] + t]]
           z == 0
           F == CHOOSE F : F = [s \in SUBSET S |->
                                  IF s = {} THEN 0 ELSE f[CHOOSE x \in s : TRUE] + F[s \ {CHOOSE x \in s : TRUE}]]
<1>0. DOMAIN f = S /\ \A x \in S : f[x] \in Int OBVIOUS
<1>1. \A T \in SUBSET S : T # {} => pick[T] \in T /\ pick[T] = CHOOSE x \in T : TRUE OBVIOUS
<1>2. add \in [S -> [Int -> Int]] OBVIOUS
<1>3. FoldIsDefined(S, Int, z, pick, add)
  <2> z \in Int OBVIOUS
  <2> HIDE DEF pick, add, z
  <2> QED BY <1>1, <1>2, FoldExists
<1>4. PICK g \in [SUBSET S -> Int] :
          \A T \in SUBSET S : g[T] = IF T = {} THEN 0 ELSE add[pick[T]][g[T \ {pick[T]}]]
  <2> HIDE DEF pick, add
  <2> QED BY <1>3 DEF FoldIsDefined
<1>5. ASSUME NEW T \in SUBSET S, T # {}
      PROVE  g[T] = f[CHOOSE x \in T : TRUE] + g[T \ {CHOOSE x \in T : TRUE}]
  <2> DEFINE p == CHOOSE x \in T : TRUE
  <2>1. pick[T] = p /\ p \in T BY <1>1, <1>5
  <2>2. g[T] = add[p][g[T \ {p}]] BY <1>4, <1>5, <2>1
  <2>3. p \in S /\ g[T \ {p}] \in Int BY <2>1
  <2> HIDE DEF p
  <2>4. g[T] = f[p] + g[T \ {p}] BY <2>2, <2>3
  <2> QED BY <2>4 DEF p
<1>6. g[{}] = 0 BY <1>4
<1>7. g = [s \in SUBSET S |-> IF s = {} THEN 0 ELSE f[CHOOSE x \in s : TRUE] + g[s \ {CHOOSE x \in s : TRUE}]]
  BY <1>5, <1>6
<1>8. F = [s \in SUBSET S |-> IF s = {} THEN 0 ELSE f[CHOOSE x \in s : TRUE] + F[s \ {CHOOSE x \in s : TRUE}]]
  BY <1>7
<1>9. SumFunction(f) = F[S]
  BY <1>0 DEF SumFunction, SumFunctionOnSet, FoldFunctionOnSet, MapThenFoldSet
<1> HIDE DEF F
<1> HIDE DEF pick, add, z
<1>10. F \in [SUBSET S -> Int] BY <1>8, SumType
<1>11. F[{}] = 0 BY <1>8
<1>12. \A T \in SUBSET S : T # {} =>
          F[T] = f[CHOOSE x \in T : TRUE] + F[T \ {CHOOSE x \in T : TRUE}]
  BY <1>8
<1> QED BY <1>9, <1>10, <1>11, <1>12 DEF Summing

(* A sum is a number, no term that grows makes it smaller, and one term    *)
(* that changes alone changes it by as much.                               *)
LEMMA SumIsInt ==
    ASSUME NEW S, IsFiniteSet(S), NEW f \in [S -> Int]
    PROVE  SumFunction(f) \in Int
<1> PICK g : Summing(f, S, g) BY SumRuns
<1> QED BY DEF Summing

LEMMA SumGrows ==
    ASSUME NEW S, IsFiniteSet(S), NEW f \in [S -> Int], NEW e \in [S -> Int],
           \A x \in S : f[x] <= e[x]
    PROVE  SumFunction(f) <= SumFunction(e)
<1> PICK g : Summing(f, S, g) BY SumRuns
<1> PICK h : Summing(e, S, h) BY SumRuns
<1> DEFINE P == {T \in SUBSET S : g[T] <= h[T]}
<1>1. {} \in P BY DEF Summing
<1>2. ASSUME NEW T \in SUBSET S, T # {} PROVE \E x \in T : T \ {x} \in P => T \in P
  <2> DEFINE p == CHOOSE x \in T : TRUE
  <2>1. p \in T BY <1>2
  <2>2. g[T] = f[p] + g[T \ {p}] /\ h[T] = e[p] + h[T \ {p}] BY <1>2 DEF Summing
  <2> HIDE DEF p
  <2>3. g[T \ {p}] \in Int /\ h[T \ {p}] \in Int /\ f[p] \in Int /\ e[p] \in Int /\ f[p] <= e[p]
    <3> T \ {p} \in SUBSET S /\ p \in S BY <2>1
    <3> QED BY DEF Summing
  <2>4. T \ {p} \in P => T \in P BY <2>2, <2>3
  <2> QED BY <2>1, <2>4
<1> HIDE DEF P
<1>3. SUBSET S \subseteq P BY <1>1, <1>2, EverySubset
<1>4. S \in P BY <1>3
<1> QED BY <1>4 DEF P, Summing

LEMMA SumOfOne ==
    ASSUME NEW S, IsFiniteSet(S), NEW f \in [S -> Int], NEW e \in [S -> Int], NEW k \in S,
           \A x \in S : x # k => f[x] = e[x]
    PROVE  SumFunction(e) = SumFunction(f) + (e[k] - f[k])
<1> PICK g : Summing(f, S, g) BY SumRuns
<1> PICK h : Summing(e, S, h) BY SumRuns
<1> DEFINE P == {T \in SUBSET S : h[T] = g[T] + (IF k \in T THEN e[k] - f[k] ELSE 0)}
<1>1. {} \in P BY DEF Summing
<1>2. ASSUME NEW T \in SUBSET S, T # {} PROVE \E x \in T : T \ {x} \in P => T \in P
  <2> DEFINE p == CHOOSE x \in T : TRUE
  <2>1. p \in T BY <1>2
  <2>2. g[T] = f[p] + g[T \ {p}] /\ h[T] = e[p] + h[T \ {p}] BY <1>2 DEF Summing
  <2> HIDE DEF p
  <2>3. g[T \ {p}] \in Int /\ h[T \ {p}] \in Int /\ f[p] \in Int /\ e[p] \in Int /\ f[k] \in Int /\ e[k] \in Int
    <3> T \ {p} \in SUBSET S /\ p \in S BY <2>1
    <3> QED BY DEF Summing
  <2>4. ASSUME T \ {p} \in P PROVE T \in P
    <3>1. h[T \ {p}] = g[T \ {p}] + (IF k \in T \ {p} THEN e[k] - f[k] ELSE 0) BY <2>4
    <3>2. CASE p = k
      <4> k \in T /\ k \notin T \ {p} BY <2>1, <3>2
      <4> h[T] = g[T] + (e[k] - f[k]) BY <2>2, <2>3, <3>1, <3>2
      <4> QED OBVIOUS
    <3>3. CASE p # k
      <4>1. f[p] = e[p] /\ (k \in T <=> k \in T \ {p}) BY <2>1, <3>3
      <4>2. h[T] = g[T] + (IF k \in T THEN e[k] - f[k] ELSE 0) BY <2>2, <2>3, <3>1, <4>1
      <4> QED BY <4>2
    <3> QED BY <3>2, <3>3
  <2> QED BY <2>1, <2>4
<1> HIDE DEF P
<1>3. SUBSET S \subseteq P BY <1>1, <1>2, EverySubset
<1>4. S \in P BY <1>3
<1> QED BY <1>4 DEF P, Summing

(* Whole-number products and quotients grow with what they are taken of.   *)
LEMMA TimesGrows ==
    ASSUME NEW a \in Nat, NEW x \in Int, NEW y \in Int, x <= y
    PROVE  a * x \in Int /\ a * x <= a * y
<1> DEFINE d == y - x
<1>1. d \in Nat /\ y = x + d OBVIOUS
<1> HIDE DEF d
<1>2. a * y = a * x + a * d BY <1>1
<1>3. a * d \in Nat BY <1>1
<1>4. a * x \in Int OBVIOUS
<1> QED BY <1>2, <1>3, <1>4

LEMMA QuotientIs ==
    ASSUME NEW x \in Int, NEW c \in Nat \ {0}
    PROVE  x \div c \in Int /\ c * (x \div c) <= x /\ x < c * (x \div c) + c
OBVIOUS

LEMMA QuotientGrows ==
    ASSUME NEW x \in Int, NEW y \in Int, x <= y, NEW c \in Nat \ {0}
    PROVE  x \div c \in Int /\ x \div c <= y \div c /\ (0 <= x => 0 <= x \div c)
<1> DEFINE p == x \div c
           q == y \div c
<1>1. p \in Int /\ c * p <= x /\ x < c * p + c BY QuotientIs
<1>2. q \in Int /\ c * q <= y /\ y < c * q + c BY QuotientIs
<1> HIDE DEF p, q
<1>3. c * (q + 1) = c * q + c BY <1>2
<1>4. ~(q + 1 <= p)
  <2> SUFFICES ASSUME q + 1 <= p PROVE FALSE OBVIOUS
  <2>1. c * (q + 1) <= c * p BY <1>1, <1>2, TimesGrows
  <2>2. c * p \in Int /\ c * q \in Int BY <1>1, <1>2
  <2> QED BY <1>1, <1>2, <1>3, <2>1, <2>2
<1>5. 0 <= x => 0 <= p
  <2> SUFFICES ASSUME 0 <= x, p <= -1 PROVE FALSE BY <1>1
  <2>1. c * p <= c * (-1) BY <1>1, TimesGrows
  <2>2. c * p \in Int /\ c * (-1) = -c BY <1>1
  <2> QED BY <1>1, <2>1, <2>2
<1> QED BY <1>1, <1>2, <1>4, <1>5 DEF p, q

LEMMA RoundedGrows ==
    ASSUME NEW x \in Int, NEW y \in Int, x <= y, NEW c \in Nat \ {0}
    PROVE  Rounded(x, c) \in Int /\ Rounded(x, c) <= Rounded(y, c) /\ (0 <= x => 0 <= Rounded(x, c))
<1> DEFINE u == 2 * x + c
           v == 2 * y + c
           w == 2 * c
<1>1. /\ u \in Int /\ v \in Int /\ w \in Nat \ {0} /\ u <= v /\ (0 <= x => 0 <= u)
      /\ Rounded(x, c) = u \div w /\ Rounded(y, c) = v \div w
  BY DEF Rounded
<1> HIDE DEF u, v, w
<1> QED BY <1>1, QuotientGrows

LEMMA AtMostIs ==
    ASSUME NEW a \in Int, NEW b \in Int
    PROVE  AtMost(a, b) \in Int /\ AtMost(a, b) <= a /\ AtMost(a, b) <= b
BY DEF AtMost

LEMMA PositiveIs ==
    ASSUME NEW a \in Int
    PROVE  Positive(a) \in Nat /\ a <= Positive(a)
BY DEF Positive, AtLeast

RecordShape ==
    [absent : BOOLEAN, arrival : Int \cup {NoTime}, departure : Int \cup {NoTime},
     excused : Int, excusedAll : BOOLEAN, adjust : Int, ohevei : BOOLEAN]

LEMMA TheRecordsAre ==
    ASSUME NEW k \in Seders
    PROVE  /\ SederHours[k[2]].start \in Int /\ SederHours[k[2]].end \in Int
           /\ Records[k] \subseteq RecordShape /\ NoRecord \notin Records[k] /\ NoTime \notin Int
           /\ BonusThreshold \in Int /\ ShasDeadline \in Int
BY StipendAssumption DEF RecordShape

(* What is reckoned of one record is a number.                             *)
LEMMA ReckonedIsInt ==
    ASSUME NEW k \in Seders, NEW r \in RecordShape
    PROVE  /\ Missing(k, r) \in Nat /\ EarlyBonus(k, r) \in Int /\ Excused(k, r) \in Nat
           /\ Excused(k, r) <= Missing(k, r)
           /\ NetRaw(k, r) = Missing(k, r) - Excused(k, r) + r.adjust - EarlyBonus(k, r)
           /\ NetRaw(k, r) \in Int /\ Net(k, r) \in Nat
           /\ Net(k, r) = Positive(NetRaw(k, r))
<1> DEFINE h == SederHours[k[2]]
<1>1. /\ r.absent \in BOOLEAN /\ r.arrival \in Int \cup {NoTime} /\ r.departure \in Int \cup {NoTime}
      /\ r.excused \in Int /\ r.excusedAll \in BOOLEAN /\ r.adjust \in Int
      /\ h.start \in Int /\ h.end \in Int /\ NoTime \notin Int /\ BonusThreshold \in Int
  BY TheRecordsAre DEF RecordShape
<1>2. Missing(k, r) \in Nat
  <2> HIDE DEF h
  <2>1. Positive(h.end - h.start) \in Nat BY <1>1, PositiveIs
  <2>2. r.arrival # NoTime => Positive(r.arrival - h.start) \in Nat BY <1>1, PositiveIs
  <2>3. r.departure # NoTime => Positive(h.end - r.departure) \in Nat BY <1>1, PositiveIs
  <2>4. Missing(k, r) = IF r.absent \/ {r.arrival, r.departure} = {NoTime} THEN Positive(h.end - h.start)
                        ELSE (IF r.arrival # NoTime THEN Positive(r.arrival - h.start) ELSE 0)
                             + (IF r.departure # NoTime THEN Positive(h.end - r.departure) ELSE 0)
    BY DEF Missing, h
  <2> QED BY <2>1, <2>2, <2>3, <2>4
<1>3. EarlyBonus(k, r) \in Int
  <2> HIDE DEF h
  <2>1. r.arrival # NoTime => Positive(h.start - r.arrival) \in Nat BY <1>1, PositiveIs
  <2>2. r.arrival # NoTime => AtMost(BonusThreshold, Positive(h.start - r.arrival)) \in Int
    BY <1>1, <2>1, AtMostIs
  <2> QED BY <2>2 DEF EarlyBonus, h
<1>4. Excused(k, r) \in Nat /\ Excused(k, r) <= Missing(k, r)
  BY <1>1, <1>2 DEF Excused, AtMost, Positive, AtLeast
<1>5. NetRaw(k, r) = Missing(k, r) - Excused(k, r) + r.adjust - EarlyBonus(k, r) BY DEF NetRaw
<1>6. NetRaw(k, r) \in Int BY <1>1, <1>2, <1>3, <1>4, <1>5
<1>7. Net(k, r) \in Nat BY <1>6, PositiveIs DEF Net
<1> QED BY <1>2, <1>3, <1>4, <1>5, <1>6, <1>7 DEF Net

(* The correction of one record that BetterNeverCosts is about.            *)
Better(old, new) ==
    /\ old = [new EXCEPT !.arrival = old.arrival, !.departure = old.departure]
    /\ Earlier(new.arrival, old.arrival) /\ Earlier(old.departure, new.departure)

LEMMA BetterFields ==
    ASSUME NEW old \in RecordShape, NEW new \in RecordShape, Better(old, new)
    PROVE  /\ old.absent = new.absent /\ old.excused = new.excused /\ old.excusedAll = new.excusedAll
           /\ old.adjust = new.adjust /\ old.ohevei = new.ohevei
           /\ new.arrival = old.arrival
              \/ (new.arrival # NoTime /\ old.arrival # NoTime /\ new.arrival <= old.arrival)
           /\ new.departure = old.departure
              \/ (new.departure # NoTime /\ old.departure # NoTime /\ old.departure <= new.departure)
<1> DEFINE w == [new EXCEPT !.arrival = old.arrival, !.departure = old.departure]
<1>1. old = w BY DEF Better
<1>2. /\ w.absent = new.absent /\ w.excused = new.excused /\ w.excusedAll = new.excusedAll
      /\ w.adjust = new.adjust /\ w.ohevei = new.ohevei
  BY DEF RecordShape
<1> HIDE DEF w
<1> QED BY <1>1, <1>2 DEF Better, Earlier

(* Such a correction takes no minute away and adds none that is missing.   *)
LEMMA BetterRecord ==
    ASSUME NEW k \in Seders, NEW old \in RecordShape, NEW new \in RecordShape, Better(old, new)
    PROVE  /\ Missing(k, new) <= Missing(k, old) /\ Excused(k, new) <= Excused(k, old)
           /\ EarlyBonus(k, old) <= EarlyBonus(k, new) /\ Net(k, new) <= Net(k, old)
           /\ IsLate(k, new) => IsLate(k, old)
           /\ IsOhevei(k, old) => IsOhevei(k, new)
           /\ IsShasArrival(k, old) => IsShasArrival(k, new)
<1> DEFINE h == SederHours[k[2]]
           s == h.start
           e == h.end
<1>1. /\ old.arrival \in Int \cup {NoTime} /\ old.departure \in Int \cup {NoTime}
      /\ new.arrival \in Int \cup {NoTime} /\ new.departure \in Int \cup {NoTime}
      /\ new.excused \in Int /\ new.excusedAll \in BOOLEAN /\ new.adjust \in Int /\ new.absent \in BOOLEAN
      /\ s \in Int /\ e \in Int /\ NoTime \notin Int /\ BonusThreshold \in Int /\ ShasDeadline \in Int
  BY TheRecordsAre DEF RecordShape
<1>2. /\ old.absent = new.absent /\ old.excused = new.excused /\ old.excusedAll = new.excusedAll
      /\ old.adjust = new.adjust /\ old.ohevei = new.ohevei
      /\ new.arrival = old.arrival
         \/ (new.arrival # NoTime /\ old.arrival # NoTime /\ new.arrival <= old.arrival)
      /\ new.departure = old.departure
         \/ (new.departure # NoTime /\ old.departure # NoTime /\ old.departure <= new.departure)
  BY BetterFields
<1>3. /\ Missing(k, old) \in Nat /\ Missing(k, new) \in Nat
      /\ EarlyBonus(k, old) \in Int /\ EarlyBonus(k, new) \in Int
  BY ReckonedIsInt
<1>4. Missing(k, new) <= Missing(k, old)
  <2>1. {old.arrival, old.departure} = {NoTime} <=> {new.arrival, new.departure} = {NoTime}
    BY <1>1, <1>2
  <2>2. CASE new.absent \/ {new.arrival, new.departure} = {NoTime}
    <3>1. Missing(k, new) = Missing(k, old) BY <1>2, <2>1, <2>2 DEF Missing
    <3> QED BY <1>3, <3>1
  <2>3. CASE ~(new.absent \/ {new.arrival, new.departure} = {NoTime})
    <3> DEFINE oa == IF old.arrival # NoTime THEN Positive(old.arrival - s) ELSE 0
               na == IF new.arrival # NoTime THEN Positive(new.arrival - s) ELSE 0
               od == IF old.departure # NoTime THEN Positive(e - old.departure) ELSE 0
               nd == IF new.departure # NoTime THEN Positive(e - new.departure) ELSE 0
    <3>1. Missing(k, old) = oa + od BY <1>2, <2>1, <2>3 DEF Missing
    <3>2. Missing(k, new) = na + nd BY <2>3 DEF Missing
    <3> HIDE DEF s, e
    <3>3. na \in Int /\ oa \in Int /\ na <= oa BY <1>1, <1>2 DEF Positive, AtLeast
    <3>4. nd \in Int /\ od \in Int /\ nd <= od BY <1>1, <1>2 DEF Positive, AtLeast
    <3> HIDE DEF oa, na, od, nd
    <3> QED BY <3>1, <3>2, <3>3, <3>4
  <2> QED BY <2>2, <2>3
<1>5. EarlyBonus(k, old) <= EarlyBonus(k, new)
  <2>1. /\ EarlyBonus(k, old) = IF old.absent \/ old.arrival = NoTime THEN 0
                                ELSE AtMost(BonusThreshold, Positive(s - old.arrival))
        /\ EarlyBonus(k, new) = IF new.absent \/ new.arrival = NoTime THEN 0
                                ELSE AtMost(BonusThreshold, Positive(s - new.arrival))
    BY DEF EarlyBonus
  <2> HIDE DEF s
  <2> QED BY <1>1, <1>2, <1>3, <2>1 DEF AtMost, Positive, AtLeast
<1>6. /\ Excused(k, new) <= Excused(k, old)
      /\ Missing(k, new) - Excused(k, new) <= Missing(k, old) - Excused(k, old)
  BY <1>1, <1>2, <1>3, <1>4 DEF Excused, AtMost, Positive, AtLeast
<1>7. Net(k, new) <= Net(k, old)
  <2>1. NetRaw(k, new) \in Int /\ NetRaw(k, old) \in Int /\ NetRaw(k, new) <= NetRaw(k, old)
    BY <1>1, <1>2, <1>3, <1>5, <1>6, ReckonedIsInt
  <2> QED BY <2>1 DEF Net, Positive, AtLeast
<1>8. IsLate(k, new) => IsLate(k, old)
  <2>1. /\ IsLate(k, new) <=> ~new.absent /\ new.arrival # NoTime /\ new.arrival > s
        /\ IsLate(k, old) <=> ~old.absent /\ old.arrival # NoTime /\ old.arrival > s
    BY DEF IsLate
  <2> HIDE DEF s
  <2> QED BY <1>1, <1>2, <2>1
<1>9. IsOhevei(k, old) => IsOhevei(k, new)
  <2>1. /\ IsOhevei(k, new) <=> /\ new.ohevei /\ ~new.absent /\ NoTime \notin {new.arrival, new.departure}
                                /\ new.arrival <= s /\ new.departure >= e
        /\ IsOhevei(k, old) <=> /\ old.ohevei /\ ~old.absent /\ NoTime \notin {old.arrival, old.departure}
                                /\ old.arrival <= s /\ old.departure >= e
    BY DEF IsOhevei
  <2> HIDE DEF s, e
  <2> QED BY <1>1, <1>2, <2>1
<1>10. IsShasArrival(k, old) => IsShasArrival(k, new) BY <1>1, <1>2 DEF IsShasArrival
<1> QED BY <1>4, <1>5, <1>6, <1>7, <1>8, <1>9, <1>10

(* Tables of records, and one that has every record as good or better.     *)
Table(rs) == \A k \in Recorded(rs) : rs[k] \in RecordShape

Improves(rs, rt) ==
    /\ Table(rs) /\ Table(rt) /\ Recorded(rs) = Recorded(rt)
    /\ \A k \in Recorded(rs) : rt[k] = rs[k] \/ Better(rs[k], rt[k])

LEMMA SummaryFields ==
    ASSUME NEW rs
    PROVE  LET rows == Recorded(rs)
               s == Summary(rs)
           IN  /\ s.missing = SumFunction([k \in rows |-> Missing(k, rs[k])])
               /\ s.excused = SumFunction([k \in rows |-> Excused(k, rs[k])])
               /\ s.net = SumFunction([k \in rows |-> Net(k, rs[k])])
               /\ s.bonus = SumFunction([k \in rows |-> EarlyBonus(k, rs[k])])
               /\ s.late = Cardinality({k \in rows : IsLate(k, rs[k])})
               /\ s.expected = SumFunction([k \in rows |->
                                   Positive(SederHours[k[2]].end - SederHours[k[2]].start)])
               /\ s.ohevei = Cardinality({k \in rows : IsOhevei(k, rs[k])})
               /\ s.shas = Cardinality({k \in rows : IsShasArrival(k, rs[k])})
BY DEF Summary

LEMMA RowsAreFinite ==
    ASSUME NEW rs
    PROVE  IsFiniteSet(Recorded(rs)) /\ Recorded(rs) \subseteq Seders
<1> Recorded(rs) \subseteq Seders /\ IsFiniteSet(Seders) BY StipendAssumption DEF Recorded
<1> QED BY FS_Subset

LEMMA CountGrows ==
    ASSUME NEW S, IsFiniteSet(S), NEW A \in SUBSET S, NEW B \in SUBSET S, A \subseteq B
    PROVE  Cardinality(A) \in Nat /\ Cardinality(B) \in Nat /\ Cardinality(A) <= Cardinality(B)
<1>1. IsFiniteSet(A) /\ IsFiniteSet(B) BY FS_Subset
<1>2. Cardinality(A) \in Nat /\ Cardinality(B) \in Nat BY <1>1, FS_CardinalityType
<1>3. Cardinality(A) <= Cardinality(B) BY <1>1, FS_Subset
<1> QED BY <1>2, <1>3

LEMMA SummaryIs ==
    ASSUME NEW rs, Table(rs)
    PROVE  LET s == Summary(rs)
           IN  /\ s.missing \in Int /\ s.excused \in Int /\ s.net \in Int /\ s.bonus \in Int
               /\ s.late \in Nat /\ s.expected \in Nat /\ s.ohevei \in Nat /\ s.shas \in Nat
<1> DEFINE rows == Recorded(rs)
           s == Summary(rs)
           expect == [k \in rows |-> Positive(SederHours[k[2]].end - SederHours[k[2]].start)]
           zero == [k \in rows |-> 0]
<1>1. IsFiniteSet(rows) /\ rows \subseteq Seders BY RowsAreFinite
<1>2. \A k \in rows : rs[k] \in RecordShape BY DEF Table
<1>3. ASSUME NEW k \in rows
      PROVE  /\ Missing(k, rs[k]) \in Int /\ Excused(k, rs[k]) \in Int /\ Net(k, rs[k]) \in Int
             /\ EarlyBonus(k, rs[k]) \in Int /\ expect[k] \in Nat
  <2>1. k \in Seders BY <1>1
  <2>2. rs[k] \in RecordShape BY <1>2
  <2>3. SederHours[k[2]].end - SederHours[k[2]].start \in Int BY <2>1, TheRecordsAre
  <2> QED BY <2>1, <2>2, <2>3, ReckonedIsInt, PositiveIs
<1>4. /\ s.missing = SumFunction([k \in rows |-> Missing(k, rs[k])])
      /\ s.excused = SumFunction([k \in rows |-> Excused(k, rs[k])])
      /\ s.net = SumFunction([k \in rows |-> Net(k, rs[k])])
      /\ s.bonus = SumFunction([k \in rows |-> EarlyBonus(k, rs[k])])
      /\ s.late = Cardinality({k \in rows : IsLate(k, rs[k])})
      /\ s.expected = SumFunction(expect)
      /\ s.ohevei = Cardinality({k \in rows : IsOhevei(k, rs[k])})
      /\ s.shas = Cardinality({k \in rows : IsShasArrival(k, rs[k])})
  BY SummaryFields
<1>5. expect \in [rows -> Int] /\ zero \in [rows -> Int] /\ \A k \in rows : zero[k] <= expect[k]
  BY <1>3
<1>6. [k \in rows |-> Missing(k, rs[k])] \in [rows -> Int] BY <1>3
<1>7. [k \in rows |-> Excused(k, rs[k])] \in [rows -> Int] BY <1>3
<1>8. [k \in rows |-> Net(k, rs[k])] \in [rows -> Int] BY <1>3
<1>9. [k \in rows |-> EarlyBonus(k, rs[k])] \in [rows -> Int] BY <1>3
<1> HIDE DEF rows, s, expect
<1>10. /\ s.missing \in Int /\ s.excused \in Int /\ s.net \in Int /\ s.bonus \in Int /\ s.expected \in Int
  BY <1>1, <1>4, <1>5, <1>6, <1>7, <1>8, <1>9, SumIsInt
<1>11. 0 <= SumFunction(expect)
  <2>1. PICK g : Summing(zero, rows, g) 
    <3> HIDE DEF zero
    <3> QED BY <1>1, <1>5, SumRuns
  <2> DEFINE P == {T \in SUBSET rows : g[T] = 0}
  <2>2. {} \in P BY <2>1 DEF Summing
  <2>3. ASSUME NEW T \in SUBSET rows, T # {} PROVE \E x \in T : T \ {x} \in P => T \in P
    <3> DEFINE p == CHOOSE x \in T : TRUE
    <3>1. p \in T BY <2>3
    <3>2. g[T] = zero[p] + g[T \ {p}] BY <2>1, <2>3 DEF Summing
    <3> HIDE DEF p
    <3>3. zero[p] = 0 BY <3>1
    <3> HIDE DEF zero
    <3> QED BY <3>1, <3>2, <3>3
  <2>4. SUBSET rows \subseteq P
    <3> HIDE DEF P
    <3> QED BY <1>1, <2>2, <2>3, EverySubset
  <2>5. rows \in P BY <2>4
  <2>6. SumFunction(zero) = 0
    <3> HIDE DEF zero
    <3> QED BY <2>1, <2>5 DEF Summing
  <2>7. SumFunction(zero) <= SumFunction(expect)
    <3> HIDE DEF zero
    <3> QED BY <1>1, <1>5, SumGrows
  <2> QED BY <2>6, <2>7
<1>12. s.late \in Nat /\ s.ohevei \in Nat /\ s.shas \in Nat BY <1>1, <1>4, CountGrows
<1> QED BY <1>4, <1>10, <1>11, <1>12 DEF s

LEMMA SummaryImproves ==
    ASSUME NEW rs, NEW rt, Improves(rs, rt)
    PROVE  /\ Summary(rt).missing <= Summary(rs).missing /\ Summary(rt).excused <= Summary(rs).excused
           /\ Summary(rt).net <= Summary(rs).net /\ Summary(rs).bonus <= Summary(rt).bonus
           /\ Summary(rt).late <= Summary(rs).late /\ Summary(rt).expected = Summary(rs).expected
           /\ Summary(rs).ohevei <= Summary(rt).ohevei /\ Summary(rs).shas <= Summary(rt).shas
<1> DEFINE rows == Recorded(rs)
<1>1. IsFiniteSet(rows) /\ rows \subseteq Seders /\ Recorded(rt) = rows
  BY RowsAreFinite DEF Improves
<1>2. ASSUME NEW k \in rows
      PROVE  /\ Missing(k, rt[k]) \in Int /\ Missing(k, rs[k]) \in Int
             /\ Excused(k, rt[k]) \in Int /\ Excused(k, rs[k]) \in Int
             /\ Net(k, rt[k]) \in Int /\ Net(k, rs[k]) \in Int
             /\ EarlyBonus(k, rt[k]) \in Int /\ EarlyBonus(k, rs[k]) \in Int
             /\ Missing(k, rt[k]) <= Missing(k, rs[k]) /\ Excused(k, rt[k]) <= Excused(k, rs[k])
             /\ EarlyBonus(k, rs[k]) <= EarlyBonus(k, rt[k]) /\ Net(k, rt[k]) <= Net(k, rs[k])
             /\ IsLate(k, rt[k]) => IsLate(k, rs[k])
             /\ IsOhevei(k, rs[k]) => IsOhevei(k, rt[k])
             /\ IsShasArrival(k, rs[k]) => IsShasArrival(k, rt[k])
  <2>1. k \in Seders BY <1>1
  <2>2. rs[k] \in RecordShape /\ rt[k] \in RecordShape BY <1>1 DEF Improves, Table
  <2>3. /\ Missing(k, rt[k]) \in Int /\ Missing(k, rs[k]) \in Int
        /\ Excused(k, rt[k]) \in Int /\ Excused(k, rs[k]) \in Int
        /\ Net(k, rt[k]) \in Int /\ Net(k, rs[k]) \in Int
        /\ EarlyBonus(k, rt[k]) \in Int /\ EarlyBonus(k, rs[k]) \in Int
    BY <2>1, <2>2, ReckonedIsInt
  <2>4. CASE rt[k] = rs[k] BY <2>3, <2>4
  <2>5. CASE Better(rs[k], rt[k]) BY <2>1, <2>2, <2>3, <2>5, BetterRecord
  <2> QED BY <2>4, <2>5 DEF Improves
<1> HIDE DEF rows
<1>3. SumFunction([k \in rows |-> Missing(k, rt[k])]) <= SumFunction([k \in rows |-> Missing(k, rs[k])])
  <2> DEFINE f == [k \in rows |-> Missing(k, rt[k])]
             e == [k \in rows |-> Missing(k, rs[k])]
  <2>1. f \in [rows -> Int] /\ e \in [rows -> Int] /\ \A k \in rows : f[k] <= e[k] BY <1>2
  <2> HIDE DEF f, e
  <2>2. SumFunction(f) <= SumFunction(e) BY <1>1, <2>1, SumGrows
  <2> QED BY <2>2 DEF f, e
<1>4. SumFunction([k \in rows |-> Excused(k, rt[k])]) <= SumFunction([k \in rows |-> Excused(k, rs[k])])
  <2> DEFINE f == [k \in rows |-> Excused(k, rt[k])]
             e == [k \in rows |-> Excused(k, rs[k])]
  <2>1. f \in [rows -> Int] /\ e \in [rows -> Int] /\ \A k \in rows : f[k] <= e[k] BY <1>2
  <2> HIDE DEF f, e
  <2>2. SumFunction(f) <= SumFunction(e) BY <1>1, <2>1, SumGrows
  <2> QED BY <2>2 DEF f, e
<1>5. SumFunction([k \in rows |-> Net(k, rt[k])]) <= SumFunction([k \in rows |-> Net(k, rs[k])])
  <2> DEFINE f == [k \in rows |-> Net(k, rt[k])]
             e == [k \in rows |-> Net(k, rs[k])]
  <2>1. f \in [rows -> Int] /\ e \in [rows -> Int] /\ \A k \in rows : f[k] <= e[k] BY <1>2
  <2> HIDE DEF f, e
  <2>2. SumFunction(f) <= SumFunction(e) BY <1>1, <2>1, SumGrows
  <2> QED BY <2>2 DEF f, e
<1>6. SumFunction([k \in rows |-> EarlyBonus(k, rs[k])]) <= SumFunction([k \in rows |-> EarlyBonus(k, rt[k])])
  <2> DEFINE f == [k \in rows |-> EarlyBonus(k, rs[k])]
             e == [k \in rows |-> EarlyBonus(k, rt[k])]
  <2>1. f \in [rows -> Int] /\ e \in [rows -> Int] /\ \A k \in rows : f[k] <= e[k] BY <1>2
  <2> HIDE DEF f, e
  <2>2. SumFunction(f) <= SumFunction(e) BY <1>1, <2>1, SumGrows
  <2> QED BY <2>2 DEF f, e
<1>7. Cardinality({k \in rows : IsLate(k, rt[k])}) <= Cardinality({k \in rows : IsLate(k, rs[k])})
  <2> {k \in rows : IsLate(k, rt[k])} \subseteq {k \in rows : IsLate(k, rs[k])} BY <1>2
  <2> QED BY <1>1, CountGrows
<1>8. Cardinality({k \in rows : IsOhevei(k, rs[k])}) <= Cardinality({k \in rows : IsOhevei(k, rt[k])})
  <2> {k \in rows : IsOhevei(k, rs[k])} \subseteq {k \in rows : IsOhevei(k, rt[k])} BY <1>2
  <2> QED BY <1>1, CountGrows
<1>9. Cardinality({k \in rows : IsShasArrival(k, rs[k])}) <= Cardinality({k \in rows : IsShasArrival(k, rt[k])})
  <2> {k \in rows : IsShasArrival(k, rs[k])} \subseteq {k \in rows : IsShasArrival(k, rt[k])} BY <1>2
  <2> QED BY <1>1, CountGrows
<1> QED BY <1>1, <1>3, <1>4, <1>5, <1>6, <1>7, <1>8, <1>9, SummaryFields DEF rows

LEMMA ScoreImproves ==
    ASSUME NEW rs, NEW rt, Improves(rs, rt)
    PROVE  Score(rs) <= Score(rt)
<1> DEFINE E == Summary(rs).expected
           net == Summary(rs).net
           bonus == Summary(rs).bonus
           late == Summary(rs).late
           net2 == Summary(rt).net
           bonus2 == Summary(rt).bonus
           late2 == Summary(rt).late
           x == AtMost(180, 2 * bonus) - AtMost(300, 30 * late)
           y == AtMost(180, 2 * bonus2) - AtMost(300, 30 * late2)
           a == 6000 * (E - net) + E * x
           b == 6000 * (E - net2) + E * y
<1>1. /\ E \in Nat /\ net \in Int /\ bonus \in Int /\ late \in Nat
      /\ net2 \in Int /\ bonus2 \in Int /\ late2 \in Nat
  BY SummaryIs DEF Improves
<1>2. net2 <= net /\ bonus <= bonus2 /\ late2 <= late /\ Summary(rt).expected = E
  BY SummaryImproves
<1>3. /\ Score(rs) = IF E = 0 THEN 0 ELSE AtMost(100, Positive(Rounded(a, 60 * E)))
      /\ Score(rt) = IF E = 0 THEN 0 ELSE AtMost(100, Positive(Rounded(b, 60 * E)))
  BY <1>2 DEF Score
<1> HIDE DEF E, net, bonus, late, net2, bonus2, late2
<1>4. x \in Int /\ y \in Int /\ x <= y BY <1>1, <1>2 DEF AtMost
<1> HIDE DEF x, y
<1>5. E * x \in Int /\ E * y \in Int /\ E * x <= E * y BY <1>1, <1>4, TimesGrows
<1>6. a \in Int /\ b \in Int /\ a <= b BY <1>1, <1>2, <1>5
<1> HIDE DEF a, b
<1>7. CASE E = 0 BY <1>3, <1>7
<1>8. CASE E # 0
  <2> DEFINE c == 60 * E
  <2>1. c \in Nat \ {0} BY <1>1, <1>8
  <2> HIDE DEF c
  <2>2. /\ Rounded(a, c) \in Int /\ Rounded(b, c) \in Int /\ Rounded(a, c) <= Rounded(b, c)
    BY <1>6, <2>1, RoundedGrows
  <2>3. Score(rs) = AtMost(100, Positive(Rounded(a, c))) /\ Score(rt) = AtMost(100, Positive(Rounded(b, c)))
    BY <1>3, <1>8 DEF c
  <2> QED BY <2>2, <2>3 DEF AtMost, Positive, AtLeast
<1> QED BY <1>7, <1>8

LEMMA StreakImproves ==
    ASSUME NEW rs, NEW rt, Improves(rs, rt)
    PROVE  Streak(rs) <= Streak(rt)
<1> DEFINE days == {k[1] : k \in Seders}
           good(r) == {d \in days : \E k \in Recorded(r) : k[1] = d /\ ~r[k].absent /\ Net(k, r[k]) = 0}
           skipped(r) == {d \in days : d = Max(days) /\ \A k \in Recorded(r) : k[1] # d}
           broken(r) == days \ (good(r) \union skipped(r))
           lasting(r) == {d \in good(r) : \A b \in broken(r) : b < d}
<1>1. IsFiniteSet(days)
  <2> DEFINE dayOf == [k \in Seders |-> k[1]]
  <2>1. dayOf \in Surjection(Seders, days) BY DEF Surjection
  <2> HIDE DEF days, dayOf
  <2> QED BY <2>1, StipendAssumption, FS_Surjection
<1>2. good(rs) \subseteq good(rt)
  <2> SUFFICES ASSUME NEW k \in Recorded(rs), ~rs[k].absent, Net(k, rs[k]) = 0
               PROVE  k \in Recorded(rt) /\ ~rt[k].absent /\ Net(k, rt[k]) = 0
    OBVIOUS
  <2>1. k \in Recorded(rt) /\ k \in Seders BY RowsAreFinite DEF Improves
  <2>2. rs[k] \in RecordShape /\ rt[k] \in RecordShape BY <2>1 DEF Improves, Table
  <2>3. CASE rt[k] = rs[k] BY <2>1, <2>3
  <2>4. CASE Better(rs[k], rt[k])
    <3>1. rs[k].absent = rt[k].absent BY <2>2, <2>4, BetterFields
    <3>2. Net(k, rt[k]) <= Net(k, rs[k]) BY <2>1, <2>2, <2>4, BetterRecord
    <3>3. Net(k, rt[k]) \in Nat BY <2>1, <2>2, ReckonedIsInt
    <3> QED BY <2>1, <3>1, <3>2, <3>3
  <2> QED BY <2>3, <2>4 DEF Improves
<1>3. skipped(rs) = skipped(rt) BY DEF Improves
<1>4. broken(rt) \subseteq broken(rs) /\ good(rt) \subseteq days
  <2> good(rt) \subseteq days OBVIOUS
  <2> HIDE DEF good, skipped, days
  <2> QED BY <1>2, <1>3
<1>5. Streak(rs) = Cardinality(lasting(rs)) /\ Streak(rt) = Cardinality(lasting(rt)) BY DEF Streak
<1> HIDE DEF good, broken, days
<1>6. lasting(rs) \subseteq lasting(rt) /\ lasting(rt) \in SUBSET days BY <1>2, <1>4
<1> HIDE DEF lasting
<1>7. lasting(rs) \in SUBSET days BY <1>6
<1> QED BY <1>1, <1>5, <1>6, <1>7, CountGrows

LEMMA PolicyIs ==
    /\ Policy.base \in Int /\ Policy.free \in Int /\ Policy.excusedFree \in Int
    /\ Policy.erev.nisPerHour \in Int /\ Policy.erev.minMonthly \in Int /\ Policy.erev.maxDaily \in Int
    /\ Policy.torato.nisPerHour \in Int /\ Policy.torato.maxMonthly \in Int
    /\ Policy.shortfallBonus \in Nat /\ Policy.ohevei \in Nat /\ Policy.shas \in Nat
    /\ Policy.block \in Nat \ {0} /\ Policy.hour \in Nat \ {0}
    /\ Policy.tiers \in Seq([from : Int, to : Int \cup {NoTime}, nis : Nat])
BY StipendAssumption

LEMMA ScaledIs ==
    ASSUME NEW m \in Months, NEW n \in Int
    PROVE  Scaled(m, n) \in Int /\ (0 <= n => 0 <= Scaled(m, n))
<1> DEFINE a == AtMost(m.session, m.full)
<1>1. m.session \in Nat /\ m.full \in Int BY StipendAssumption
<1>2. CASE m.full <= 0 BY <1>1, <1>2 DEF Scaled
<1>3. CASE ~(m.full <= 0)
  <2>1. m.full \in Nat \ {0} /\ a \in Nat BY <1>1, <1>3 DEF AtMost
  <2>2. Scaled(m, n) = Rounded(n * a, m.full) BY <1>3 DEF Scaled
  <2> HIDE DEF a
  <2>3. n * a \in Int BY <2>1
  <2>4. 0 <= n => 0 <= n * a BY <2>1
  <2> DEFINE p == n * a
  <2>5. p \in Int /\ Scaled(m, n) = Rounded(p, m.full) /\ (0 <= n => 0 <= p) BY <2>2, <2>3, <2>4
  <2> HIDE DEF p
  <2>6. p <= p BY <2>5
  <2> QED BY <2>1, <2>5, <2>6, RoundedGrows
<1> QED BY <1>2, <1>3

(* The more minutes there are to charge, the more is charged.              *)
LEMMA ChargesGrow ==
    ASSUME NEW m \in Months, NEW x \in Int, NEW y \in Int, x <= y
    PROVE  Charges(m, x) \in Int /\ Charges(m, y) \in Int /\ Charges(m, x) <= Charges(m, y)
<1> DEFINE S == DOMAIN Policy.tiers
           upTo(c, t) == IF t.to = NoTime THEN c ELSE AtMost(c, Scaled(m, t.to))
           charge(c, t) == (Positive(upTo(c, t) - Scaled(m, t.from)) \div Policy.block) * t.nis
           f == [i \in S |-> charge(x, Policy.tiers[i])]
           e == [i \in S |-> charge(y, Policy.tiers[i])]
<1>1. IsFiniteSet(S)
  <2>1. S = 1 .. Len(Policy.tiers) /\ Len(Policy.tiers) \in Nat BY PolicyIs
  <2> QED BY <2>1, FS_Interval
<1>2. ASSUME NEW i \in S PROVE f[i] \in Int /\ e[i] \in Int /\ f[i] <= e[i]
  <2> DEFINE t == Policy.tiers[i]
  <2>1. t \in [from : Int, to : Int \cup {NoTime}, nis : Nat]
    <3> DEFINE ts == Policy.tiers
               Tier == [from : Int, to : Int \cup {NoTime}, nis : Nat]
    <3>1. ts \in Seq(Tier) /\ i \in DOMAIN ts BY PolicyIs
    <3> HIDE DEF ts, Tier
    <3>2. ts[i] \in Tier BY <3>1
    <3> QED BY <3>2 DEF ts, Tier
  <2>2. t.from \in Int /\ t.to \in Int \cup {NoTime} /\ t.nis \in Nat BY <2>1
  <2> HIDE DEF t
  <2>3. Scaled(m, t.from) \in Int /\ (t.to # NoTime => Scaled(m, t.to) \in Int) BY <2>2, ScaledIs
  <2> DEFINE u == Positive(upTo(x, t) - Scaled(m, t.from))
             v == Positive(upTo(y, t) - Scaled(m, t.from))
             p == u \div Policy.block
             q == v \div Policy.block
  <2>4. u \in Int /\ v \in Int /\ u <= v BY <2>3 DEF AtMost, Positive, AtLeast
  <2> HIDE DEF u, v
  <2>5. p \in Int /\ q \in Int /\ p <= q
    <3>1. Policy.block \in Nat \ {0} BY PolicyIs
    <3> QED BY <2>4, <3>1, QuotientGrows
  <2>6. f[i] = p * t.nis /\ e[i] = q * t.nis BY DEF u, v, t
  <2> HIDE DEF p, q, f, e
  <2>7. t.nis * p \in Int /\ t.nis * q \in Int /\ t.nis * p <= t.nis * q BY <2>2, <2>5, TimesGrows
  <2>8. p * t.nis = t.nis * p /\ q * t.nis = t.nis * q BY <2>2, <2>5
  <2> QED BY <2>6, <2>7, <2>8
<1>3. Charges(m, x) = SumFunction(f) /\ Charges(m, y) = SumFunction(e) BY DEF Charges
<1>4. f = [i \in S |-> f[i]] /\ e = [i \in S |-> e[i]] OBVIOUS
<1> HIDE DEF f, e, S
<1>5. f \in [S -> Int] /\ e \in [S -> Int] BY <1>2, <1>4
<1> QED BY <1>1, <1>2, <1>3, <1>5, SumIsInt, SumGrows

LEMMA MinutesAreInt ==
    ASSUME NEW ls \in Seq(Lessons), NEW framework, NEW days
    PROVE  Minutes(ls, framework, days) \in Int
<1> DEFINE mine == {i \in DOMAIN ls : ls[i].framework = framework /\ ls[i].day \in days}
           f == [i \in mine |-> IF ls[i].tanitDibur THEN 2 * ls[i].minutes ELSE ls[i].minutes]
<1>1. IsFiniteSet(mine)
  <2>1. DOMAIN ls = 1 .. Len(ls) /\ Len(ls) \in Nat OBVIOUS
  <2>2. IsFiniteSet(DOMAIN ls) BY <2>1, FS_Interval
  <2>3. mine \subseteq DOMAIN ls OBVIOUS
  <2> HIDE DEF mine
  <2> QED BY <2>2, <2>3, FS_Subset
<1>2. \A i \in mine : ls[i].minutes \in Int
  <2>1. \A i \in DOMAIN ls : ls[i] \in Lessons OBVIOUS
  <2> QED BY <2>1, StipendAssumption
<1>3. Minutes(ls, framework, days) = SumFunction(f) BY DEF Minutes
<1> HIDE DEF mine
<1>4. f \in [mine -> Int] BY <1>2
<1> HIDE DEF f
<1> QED BY <1>1, <1>3, <1>4, SumIsInt

LEMMA LearningPayIsInt ==
    ASSUME NEW m \in Months, NEW ls \in Seq(Lessons)
    PROVE  LearningPay(m, ls) \in Int
<1> DEFINE days == {l.day : l \in Lessons}
           f == [d \in days |-> AtMost(Policy.erev.maxDaily, Minutes(ls, "kollel-erev", {d}))]
           erev == SumFunction(f)
           torato == AtMost(Policy.torato.maxMonthly, Minutes(ls, "torato-beyado", days))
           a == erev * Policy.erev.nisPerHour
           b == torato * Policy.torato.nisPerHour
<1>1. IsFiniteSet(days) BY StipendAssumption
<1>2. LearningPay(m, ls) = (IF erev < Scaled(m, Policy.erev.minMonthly) THEN 0 ELSE Rounded(a, Policy.hour))
                           + Rounded(b, Policy.hour)
  BY DEF LearningPay
<1>3. torato \in Int BY MinutesAreInt, PolicyIs, AtMostIs
<1> HIDE DEF torato, days
<1>4. f \in [days -> Int]
  <2> SUFFICES ASSUME NEW d \in days
               PROVE  AtMost(Policy.erev.maxDaily, Minutes(ls, "kollel-erev", {d})) \in Int
    OBVIOUS
  <2> QED BY MinutesAreInt, PolicyIs, AtMostIs
<1> HIDE DEF f
<1>5. erev \in Int BY <1>1, <1>4, SumIsInt
<1> HIDE DEF erev
<1>6. a \in Int /\ b \in Int /\ Policy.hour \in Nat \ {0}
  <2>1. /\ Policy.erev.nisPerHour \in Int /\ Policy.torato.nisPerHour \in Int
        /\ Policy.hour \in Nat \ {0}
    BY PolicyIs
  <2>2. a \in Int BY <1>5, <2>1
  <2>3. b \in Int BY <1>3, <2>1
  <2> QED BY <2>1, <2>2, <2>3
<1> HIDE DEF a, b
<1>7. a <= a /\ b <= b BY <1>6
<1>8. Rounded(a, Policy.hour) \in Int /\ Rounded(b, Policy.hour) \in Int BY <1>6, <1>7, RoundedGrows
<1> QED BY <1>2, <1>8

(* What the stipend takes from the records' summary: it falls with what is *)
(* charged and rises with the rest.                                        *)
StipendFrom(s, m, shas, pay) ==
    Positive(Policy.base - Charges(m, s.charge)
             + (IF s.missing < Scaled(m, Policy.free) THEN Scaled(m, Policy.shortfallBonus) ELSE 0)
             + s.ohevei * Policy.ohevei + (IF shas THEN s.shas * Policy.shas ELSE 0) + pay)

Sums == [charge : Int, missing : Int, ohevei : Nat, shas : Nat]

SumsOf(rs, m, approval) ==
    [charge |-> Summary(rs).net + ExcusedCharged(m, Summary(rs).excused, approval),
     missing |-> Summary(rs).missing, ohevei |-> Summary(rs).ohevei, shas |-> Summary(rs).shas]

LEMMA StipendFromIs ==
    ASSUME NEW rs, NEW ls, NEW m, NEW shas, NEW approval
    PROVE  StipendOf(rs, ls, m, shas, approval) =
             StipendFrom(SumsOf(rs, m, approval), m, shas, LearningPay(m, ls))
BY DEF StipendOf, StipendFrom, SumsOf

LEMMA StipendGrows ==
    ASSUME NEW m \in Months, NEW shas \in BOOLEAN, NEW pay \in Int, NEW s \in Sums, NEW s2 \in Sums,
           s2.charge <= s.charge, s2.missing <= s.missing, s.ohevei <= s2.ohevei, s.shas <= s2.shas
    PROVE  StipendFrom(s, m, shas, pay) <= StipendFrom(s2, m, shas, pay)
<1> DEFINE c == Charges(m, s.charge)
           c2 == Charges(m, s2.charge)
           bonus == IF s.missing < Scaled(m, Policy.free) THEN Scaled(m, Policy.shortfallBonus) ELSE 0
           bonus2 == IF s2.missing < Scaled(m, Policy.free) THEN Scaled(m, Policy.shortfallBonus) ELSE 0
           o == s.ohevei * Policy.ohevei
           o2 == s2.ohevei * Policy.ohevei
           h == IF shas THEN s.shas * Policy.shas ELSE 0
           h2 == IF shas THEN s2.shas * Policy.shas ELSE 0
           t == Policy.base - c + bonus + o + h + pay
           t2 == Policy.base - c2 + bonus2 + o2 + h2 + pay
<1>0. /\ s.charge \in Int /\ s.missing \in Int /\ s.ohevei \in Nat /\ s.shas \in Nat
      /\ s2.charge \in Int /\ s2.missing \in Int /\ s2.ohevei \in Nat /\ s2.shas \in Nat
  BY DEF Sums
<1>1. c \in Int /\ c2 \in Int /\ c2 <= c BY <1>0, ChargesGrow
<1>2. bonus \in Int /\ bonus2 \in Int /\ bonus <= bonus2
  <2> DEFINE u == Scaled(m, Policy.free)
             v == Scaled(m, Policy.shortfallBonus)
  <2>1. u \in Int BY PolicyIs, ScaledIs
  <2>2. v \in Int /\ 0 <= v
    <3> Policy.shortfallBonus \in Int /\ 0 <= Policy.shortfallBonus BY PolicyIs
    <3> QED BY ScaledIs
  <2> HIDE DEF u, v
  <2>3. bonus = (IF s.missing < u THEN v ELSE 0) /\ bonus2 = (IF s2.missing < u THEN v ELSE 0)
    BY DEF u, v
  <2> HIDE DEF bonus, bonus2
  <2> QED BY <1>0, <2>1, <2>2, <2>3
<1>3. o \in Int /\ o2 \in Int /\ o <= o2
  <2> DEFINE p == Policy.ohevei
  <2>1. p \in Nat BY PolicyIs
  <2> HIDE DEF p
  <2>2. p * s.ohevei \in Int /\ p * s2.ohevei \in Int /\ p * s.ohevei <= p * s2.ohevei
    BY <1>0, <2>1, TimesGrows
  <2>3. p * s.ohevei = s.ohevei * p /\ p * s2.ohevei = s2.ohevei * p BY <1>0, <2>1
  <2> QED BY <2>2, <2>3 DEF p
<1>4. h \in Int /\ h2 \in Int /\ h <= h2
  <2> DEFINE p == Policy.shas
  <2>1. p \in Nat BY PolicyIs
  <2> HIDE DEF p
  <2>2. p * s.shas \in Int /\ p * s2.shas \in Int /\ p * s.shas <= p * s2.shas
    BY <1>0, <2>1, TimesGrows
  <2>3. p * s.shas = s.shas * p /\ p * s2.shas = s2.shas * p BY <1>0, <2>1
  <2> QED BY <2>2, <2>3 DEF p
<1>5. StipendFrom(s, m, shas, pay) = Positive(t) /\ StipendFrom(s2, m, shas, pay) = Positive(t2)
  BY DEF StipendFrom
<1>6. Policy.base \in Int BY PolicyIs
<1> HIDE DEF c, c2, bonus, bonus2, o, o2, h, h2
<1>7. t \in Int /\ t2 \in Int /\ t <= t2 BY <1>1, <1>2, <1>3, <1>4, <1>6
<1> HIDE DEF t, t2
<1> QED BY <1>5, <1>7 DEF Positive, AtLeast

LEMMA ChargedGrows ==
    ASSUME NEW m \in Months, NEW approval \in BOOLEAN, NEW x \in Int, NEW y \in Int, x <= y
    PROVE  /\ ExcusedCharged(m, x, approval) \in Int /\ ExcusedCharged(m, y, approval) \in Int
           /\ ExcusedCharged(m, x, approval) <= ExcusedCharged(m, y, approval)
           /\ ExcusedCharged(m, y, approval) <= ExcusedCharged(m, x, approval) + (y - x)
<1>1. Scaled(m, Policy.excusedFree) \in Int BY PolicyIs, ScaledIs
<1> QED BY <1>1 DEF ExcusedCharged, Positive, AtLeast

LEMMA SumsType ==
    ASSUME NEW rs, Table(rs), NEW m \in Months, NEW approval \in BOOLEAN
    PROVE  SumsOf(rs, m, approval) \in Sums
<1>1. /\ Summary(rs).missing \in Int /\ Summary(rs).excused \in Int /\ Summary(rs).net \in Int
      /\ Summary(rs).ohevei \in Nat /\ Summary(rs).shas \in Nat
  BY SummaryIs
<1>2. ExcusedCharged(m, Summary(rs).excused, approval) \in Int
  <2> Summary(rs).excused <= Summary(rs).excused BY <1>1
  <2> QED BY <1>1, ChargedGrows
<1> QED BY <1>1, <1>2 DEF SumsOf, Sums

LEMMA StipendImproves ==
    ASSUME NEW rs, NEW rt, Improves(rs, rt), NEW ls \in Seq(Lessons), NEW m \in Months,
           NEW shas \in BOOLEAN, NEW approval \in BOOLEAN
    PROVE  StipendOf(rs, ls, m, shas, approval) <= StipendOf(rt, ls, m, shas, approval)
<1> DEFINE s == SumsOf(rs, m, approval)
           s2 == SumsOf(rt, m, approval)
           pay == LearningPay(m, ls)
<1>1. SumsOf(rs, m, approval) \in Sums /\ SumsOf(rt, m, approval) \in Sums
  BY SumsType DEF Improves
<1>2. /\ Summary(rt).missing <= Summary(rs).missing /\ Summary(rt).excused <= Summary(rs).excused
      /\ Summary(rt).net <= Summary(rs).net
      /\ Summary(rs).ohevei <= Summary(rt).ohevei /\ Summary(rs).shas <= Summary(rt).shas
  BY SummaryImproves
<1>3. s2.missing <= s.missing /\ s.ohevei <= s2.ohevei /\ s.shas <= s2.shas BY <1>2 DEF SumsOf
<1>4. s2.charge <= s.charge
  <2> DEFINE x == Summary(rt).excused
             y == Summary(rs).excused
             p == Summary(rt).net
             q == Summary(rs).net
             e == ExcusedCharged(m, x, approval)
             f == ExcusedCharged(m, y, approval)
  <2>1. s2.charge = p + e /\ s.charge = q + f BY DEF SumsOf
  <2>2. x \in Int /\ y \in Int /\ p \in Int /\ q \in Int /\ x <= y /\ p <= q
    BY <1>2, SummaryIs DEF Improves
  <2> HIDE DEF x, y, p, q
  <2>3. e \in Int /\ f \in Int /\ e <= f BY <2>2, ChargedGrows
  <2> HIDE DEF e, f
  <2> QED BY <2>1, <2>2, <2>3
<1>5. pay \in Int BY LearningPayIsInt
<1>6. /\ StipendOf(rs, ls, m, shas, approval) = StipendFrom(s, m, shas, pay)
      /\ StipendOf(rt, ls, m, shas, approval) = StipendFrom(s2, m, shas, pay)
  BY StipendFromIs
<1> HIDE DEF s, s2, pay
<1> QED BY <1>1, <1>3, <1>4, <1>5, <1>6, StipendGrows DEF s, s2

(* The change of one record that ExcuseNeverCosts is about.                *)
MoreExcused(k, old, new) ==
    /\ old = [new EXCEPT !.excused = old.excused, !.excusedAll = old.excusedAll]
    /\ Excused(k, new) >= Excused(k, old) /\ NetRaw(k, new) >= 0

(* What it excuses comes off the net minutes, and nothing else changes.    *)
LEMMA ExcusedRecord ==
    ASSUME NEW k \in Seders, NEW old \in RecordShape, NEW new \in RecordShape,
           MoreExcused(k, old, new)
    PROVE  /\ Missing(k, new) = Missing(k, old)
           /\ Excused(k, old) <= Excused(k, new)
           /\ Net(k, new) + Excused(k, new) = Net(k, old) + Excused(k, old)
           /\ IsOhevei(k, old) <=> IsOhevei(k, new)
           /\ IsShasArrival(k, old) <=> IsShasArrival(k, new)
<1> DEFINE w == [new EXCEPT !.excused = old.excused, !.excusedAll = old.excusedAll]
<1>1. old = w BY DEF MoreExcused
<1>2. /\ w.absent = new.absent /\ w.arrival = new.arrival /\ w.departure = new.departure
      /\ w.adjust = new.adjust /\ w.ohevei = new.ohevei
  BY DEF RecordShape
<1> HIDE DEF w
<1>3. /\ old.absent = new.absent /\ old.arrival = new.arrival /\ old.departure = new.departure
      /\ old.adjust = new.adjust /\ old.ohevei = new.ohevei /\ new.adjust \in Int
  BY <1>1, <1>2 DEF RecordShape
<1>4. Missing(k, new) = Missing(k, old) BY <1>3 DEF Missing
<1>5. EarlyBonus(k, new) = EarlyBonus(k, old) BY <1>3 DEF EarlyBonus
<1>6. (IsOhevei(k, old) <=> IsOhevei(k, new)) /\ (IsShasArrival(k, old) <=> IsShasArrival(k, new))
  BY <1>3 DEF IsOhevei, IsShasArrival
<1>7. Excused(k, old) <= Excused(k, new) /\ 0 <= NetRaw(k, new)
  <2> Excused(k, old) \in Int /\ Excused(k, new) \in Int /\ NetRaw(k, new) \in Int BY ReckonedIsInt
  <2> QED BY DEF MoreExcused
<1>8. Net(k, new) + Excused(k, new) = Net(k, old) + Excused(k, old)
  <2>1. /\ Excused(k, old) \in Int /\ Excused(k, new) \in Int /\ Missing(k, new) \in Int
        /\ EarlyBonus(k, new) \in Int /\ NetRaw(k, new) \in Int /\ NetRaw(k, old) \in Int
        /\ NetRaw(k, new) = Missing(k, new) - Excused(k, new) + new.adjust - EarlyBonus(k, new)
        /\ NetRaw(k, old) = Missing(k, old) - Excused(k, old) + old.adjust - EarlyBonus(k, old)
    BY ReckonedIsInt
  <2>2. /\ NetRaw(k, old) = NetRaw(k, new) + (Excused(k, new) - Excused(k, old))
        /\ 0 <= NetRaw(k, old)
    BY <1>3, <1>4, <1>5, <1>7, <2>1
  <2>3. Net(k, new) = NetRaw(k, new) /\ Net(k, old) = NetRaw(k, old)
    BY <1>7, <2>1, <2>2 DEF Net, Positive, AtLeast
  <2> QED BY <2>1, <2>2, <2>3
<1> QED BY <1>4, <1>6, <1>7, <1>8

(* One record of a table with more excused.                                *)
Excuses(k, rs, rt) ==
    /\ Table(rs) /\ Table(rt) /\ Recorded(rs) = Recorded(rt) /\ k \in Recorded(rs)
    /\ \A j \in Recorded(rs) : j # k => rt[j] = rs[j]
    /\ MoreExcused(k, rs[k], rt[k])

LEMMA SummaryExcuses ==
    ASSUME NEW k, NEW rs, NEW rt, Excuses(k, rs, rt)
    PROVE  /\ Summary(rt).missing = Summary(rs).missing
           /\ Summary(rs).excused <= Summary(rt).excused
           /\ Summary(rt).net + Summary(rt).excused = Summary(rs).net + Summary(rs).excused
           /\ Summary(rt).ohevei = Summary(rs).ohevei /\ Summary(rt).shas = Summary(rs).shas
<1> DEFINE rows == Recorded(rs)
           n1 == [j \in rows |-> Net(j, rs[j])]
           n2 == [j \in rows |-> Net(j, rt[j])]
           e1 == [j \in rows |-> Excused(j, rs[j])]
           e2 == [j \in rows |-> Excused(j, rt[j])]
<1>1. IsFiniteSet(rows) /\ rows \subseteq Seders /\ Recorded(rt) = rows /\ k \in rows
  BY RowsAreFinite DEF Excuses
<1>2. ASSUME NEW j \in rows
      PROVE  /\ Excused(j, rt[j]) \in Int /\ Excused(j, rs[j]) \in Int
             /\ Net(j, rt[j]) \in Int /\ Net(j, rs[j]) \in Int
  <2>1. j \in Seders BY <1>1
  <2>2. rs[j] \in RecordShape /\ rt[j] \in RecordShape BY <1>1 DEF Excuses, Table
  <2> QED BY <2>1, <2>2, ReckonedIsInt
<1>3. /\ Missing(k, rt[k]) = Missing(k, rs[k])
      /\ Excused(k, rs[k]) <= Excused(k, rt[k])
      /\ Net(k, rt[k]) + Excused(k, rt[k]) = Net(k, rs[k]) + Excused(k, rs[k])
      /\ IsOhevei(k, rs[k]) <=> IsOhevei(k, rt[k])
      /\ IsShasArrival(k, rs[k]) <=> IsShasArrival(k, rt[k])
  <2>1. k \in Seders BY <1>1
  <2>2. rs[k] \in RecordShape /\ rt[k] \in RecordShape BY <1>1 DEF Excuses, Table
  <2> QED BY <2>1, <2>2, ExcusedRecord DEF Excuses
<1>4. \A j \in rows : j # k => rt[j] = rs[j] BY DEF Excuses
<1>5. \A j \in rows : /\ Missing(j, rt[j]) = Missing(j, rs[j])
                      /\ IsOhevei(j, rs[j]) <=> IsOhevei(j, rt[j])
                      /\ IsShasArrival(j, rs[j]) <=> IsShasArrival(j, rt[j])
  BY <1>3, <1>4
<1>6. /\ Summary(rs).missing = SumFunction([j \in rows |-> Missing(j, rs[j])])
      /\ Summary(rt).missing = SumFunction([j \in rows |-> Missing(j, rt[j])])
      /\ Summary(rs).excused = SumFunction(e1) /\ Summary(rt).excused = SumFunction(e2)
      /\ Summary(rs).net = SumFunction(n1) /\ Summary(rt).net = SumFunction(n2)
      /\ Summary(rs).ohevei = Cardinality({j \in rows : IsOhevei(j, rs[j])})
      /\ Summary(rt).ohevei = Cardinality({j \in rows : IsOhevei(j, rt[j])})
      /\ Summary(rs).shas = Cardinality({j \in rows : IsShasArrival(j, rs[j])})
      /\ Summary(rt).shas = Cardinality({j \in rows : IsShasArrival(j, rt[j])})
  BY <1>1, SummaryFields
<1> HIDE DEF rows
<1>7. [j \in rows |-> Missing(j, rs[j])] = [j \in rows |-> Missing(j, rt[j])] BY <1>5
<1>8. {j \in rows : IsOhevei(j, rs[j])} = {j \in rows : IsOhevei(j, rt[j])} BY <1>5
<1>9. {j \in rows : IsShasArrival(j, rs[j])} = {j \in rows : IsShasArrival(j, rt[j])} BY <1>5
<1>10. /\ n1 \in [rows -> Int] /\ n2 \in [rows -> Int] /\ e1 \in [rows -> Int] /\ e2 \in [rows -> Int]
       /\ \A j \in rows : j # k => n1[j] = n2[j] /\ e1[j] = e2[j]
  BY <1>2, <1>4
<1>11. n1[k] + e1[k] = n2[k] + e2[k] /\ e1[k] <= e2[k] BY <1>1, <1>3
<1> HIDE DEF n1, n2, e1, e2
<1>12. SumFunction(n2) = SumFunction(n1) + (n2[k] - n1[k]) BY <1>1, <1>10, SumOfOne
<1>13. SumFunction(e2) = SumFunction(e1) + (e2[k] - e1[k]) BY <1>1, <1>10, SumOfOne
<1>14. /\ SumFunction(n1) \in Int /\ SumFunction(e1) \in Int
       /\ n1[k] \in Int /\ n2[k] \in Int /\ e1[k] \in Int /\ e2[k] \in Int
  BY <1>1, <1>10, SumIsInt
<1>15. /\ SumFunction(e1) <= SumFunction(e2)
       /\ SumFunction(n2) + SumFunction(e2) = SumFunction(n1) + SumFunction(e1)
  BY <1>11, <1>12, <1>13, <1>14
<1> QED BY <1>6, <1>7, <1>8, <1>9, <1>15

LEMMA StipendExcuses ==
    ASSUME NEW k, NEW rs, NEW rt, Excuses(k, rs, rt), NEW ls \in Seq(Lessons), NEW m \in Months,
           NEW shas \in BOOLEAN, NEW approval \in BOOLEAN
    PROVE  StipendOf(rs, ls, m, shas, approval) <= StipendOf(rt, ls, m, shas, approval)
<1> DEFINE s == SumsOf(rs, m, approval)
           s2 == SumsOf(rt, m, approval)
           pay == LearningPay(m, ls)
<1>1. SumsOf(rs, m, approval) \in Sums /\ SumsOf(rt, m, approval) \in Sums
  BY SumsType DEF Excuses
<1>2. /\ Summary(rt).missing = Summary(rs).missing
      /\ Summary(rs).excused <= Summary(rt).excused
      /\ Summary(rt).net + Summary(rt).excused = Summary(rs).net + Summary(rs).excused
      /\ Summary(rt).ohevei = Summary(rs).ohevei /\ Summary(rt).shas = Summary(rs).shas
  BY SummaryExcuses
<1>3. s2.missing = s.missing /\ s.ohevei = s2.ohevei /\ s.shas = s2.shas BY <1>2 DEF SumsOf
<1>4. s2.charge <= s.charge
  <2> DEFINE x == Summary(rs).excused
             y == Summary(rt).excused
             p == Summary(rs).net
             q == Summary(rt).net
             e == ExcusedCharged(m, x, approval)
             f == ExcusedCharged(m, y, approval)
  <2>1. s.charge = p + e /\ s2.charge = q + f BY DEF SumsOf
  <2>2. x \in Int /\ y \in Int /\ p \in Int /\ q \in Int /\ x <= y /\ q + y = p + x
    BY <1>2, SummaryIs DEF Excuses
  <2> HIDE DEF x, y, p, q
  <2>3. e \in Int /\ f \in Int /\ f <= e + (y - x) BY <2>2, ChargedGrows
  <2> HIDE DEF e, f
  <2> QED BY <2>1, <2>2, <2>3
<1>5. pay \in Int BY LearningPayIsInt
<1>6. /\ StipendOf(rs, ls, m, shas, approval) = StipendFrom(s, m, shas, pay)
      /\ StipendOf(rt, ls, m, shas, approval) = StipendFrom(s2, m, shas, pay)
  BY StipendFromIs
<1> HIDE DEF s, s2, pay
<1>7. s.ohevei <= s2.ohevei /\ s.shas <= s2.shas /\ s2.missing <= s.missing
  BY <1>1, <1>3 DEF s, s2, Sums
<1> QED BY <1>1, <1>4, <1>5, <1>6, <1>7, StipendGrows DEF s, s2

StipendSpec == StipendInit /\ [][StipendNext]_stipendVars

StipendTyped ==
    /\ records = [k \in Seders |-> records[k]]
    /\ \A k \in Seders : records[k] \in Records[k] \cup {NoRecord}
    /\ lessons \in Seq(Lessons) /\ month \in Months
    /\ shasChavura \in BOOLEAN /\ approved \in BOOLEAN

(* A month's records stay what the screens can record.                     *)
THEOREM MonthIsTyped == StipendSpec => []StipendTyped
<1>1. StipendInit => StipendTyped
  <2> SUFFICES ASSUME StipendInit PROVE StipendTyped OBVIOUS
  <2>1. records = [k \in Seders |-> NoRecord] BY DEF StipendInit
  <2>2. records = [k \in Seders |-> records[k]] BY <2>1
  <2>3. \A k \in Seders : records[k] \in Records[k] \cup {NoRecord} BY <2>1
  <2>4. lessons \in Seq(Lessons) BY DEF StipendInit
  <2> QED BY <2>2, <2>3, <2>4 DEF StipendInit, StipendTyped
<1>2. StipendTyped /\ [StipendNext]_stipendVars => StipendTyped'
  <2> SUFFICES ASSUME StipendTyped, [StipendNext]_stipendVars PROVE StipendTyped' OBVIOUS
  <2>1. ASSUME NEW k \in Seders, DeleteRecord(k) PROVE StipendTyped'
    BY <2>1 DEF DeleteRecord, StipendTyped
  <2>2. ASSUME NEW k \in Seders, NEW r \in Records[k], SaveRecord(k, r) PROVE StipendTyped'
    BY <2>2 DEF SaveRecord, StipendTyped
  <2>3. ASSUME NEW l \in Lessons, AddLesson(l) PROVE StipendTyped'
    BY <2>3 DEF AddLesson, StipendTyped
  <2>4. CASE ApproveMonth BY <2>4 DEF ApproveMonth, StipendTyped
  <2>5. CASE UNCHANGED stipendVars BY <2>5 DEF stipendVars, StipendTyped
  <2> QED BY <2>1, <2>2, <2>3, <2>4, <2>5 DEF StipendNext
<1> QED BY <1>1, <1>2, PTL DEF StipendSpec

LEMMA TheTable ==
    ASSUME StipendTyped
    PROVE  Table(records) /\ \A k \in Recorded(records) : records[k] \in Records[k]
<1>1. ASSUME NEW k \in Recorded(records) PROVE records[k] \in Records[k] /\ records[k] \in RecordShape
  <2> k \in Seders /\ records[k] # NoRecord BY DEF Recorded
  <2>1. records[k] \in Records[k] BY DEF StipendTyped
  <2> QED BY <2>1, TheRecordsAre
<1> QED BY <1>1 DEF Table

(* Who corrects a record leaves the lessons and the month's settings.      *)
LEMMA OneRecordSaved ==
    ASSUME StipendTyped, StipendTyped', [StipendNext]_stipendVars, NEW k \in Seders,
           records[k] # records'[k], NoRecord \notin {records[k], records'[k]},
           records' = [records EXCEPT ![k] = records'[k]]
    PROVE  /\ Table(records) /\ Table(records') /\ Recorded(records) = Recorded(records')
           /\ k \in Recorded(records)
           /\ \A j \in Recorded(records) : j # k => records'[j] = records[j]
           /\ lessons' = lessons /\ month' = month /\ shasChavura' = shasChavura /\ approved' = approved
           /\ lessons \in Seq(Lessons) /\ month \in Months
           /\ shasChavura \in BOOLEAN /\ approved \in BOOLEAN
<1>1. Table(records) BY TheTable
<1>2. Table(records')
  <2> SUFFICES ASSUME NEW j \in Recorded(records') PROVE records'[j] \in RecordShape BY DEF Table
  <2>1. j \in Seders /\ records'[j] # NoRecord BY DEF Recorded
  <2>2. records'[j] \in Records[j] BY <2>1 DEF StipendTyped
  <2> QED BY <2>1, <2>2, TheRecordsAre
<1>3. \A j \in Seders : j # k => records'[j] = records[j]
  <2> DEFINE new == records'[k]
  <2>1. records' = [records EXCEPT ![k] = new] OBVIOUS
  <2>2. records = [j \in Seders |-> records[j]] BY DEF StipendTyped
  <2> HIDE DEF new
  <2> QED BY <2>1, <2>2
<1>4. Recorded(records) = Recorded(records') /\ k \in Recorded(records) BY <1>3 DEF Recorded
<1>5. /\ lessons' = lessons /\ month' = month /\ shasChavura' = shasChavura /\ approved' = approved
  <2>1. CASE UNCHANGED stipendVars BY <2>1 DEF stipendVars
  <2>2. ASSUME NEW j \in Seders, DeleteRecord(j) PROVE <1>5!1 BY <2>2 DEF DeleteRecord
  <2>3. ASSUME NEW j \in Seders, NEW r \in Records[j], SaveRecord(j, r) PROVE <1>5!1
    BY <2>3 DEF SaveRecord
  <2>4. ASSUME NEW l \in Lessons PROVE ~AddLesson(l) BY DEF AddLesson
  <2>5. ~ApproveMonth BY DEF ApproveMonth
  <2> QED BY <2>1, <2>2, <2>3, <2>4, <2>5 DEF StipendNext
<1>6. \A j \in Recorded(records) : j # k => records'[j] = records[j] BY <1>3 DEF Recorded
<1> QED BY <1>1, <1>2, <1>4, <1>5, <1>6 DEF StipendTyped

(* Coming earlier or leaving later never costs: whatever the records, the  *)
(* hours and the figures of the policy are.                                *)
THEOREM EarlierNeverCosts == StipendSpec => BetterNeverCosts
<1>1. ASSUME StipendTyped, StipendTyped', [StipendNext]_stipendVars, NEW k \in Seders,
             records[k] # records'[k], NoRecord \notin {records[k], records'[k]},
             records' = [records EXCEPT ![k] = records'[k]],
             records[k] = [records'[k] EXCEPT !.arrival = records[k].arrival,
                                              !.departure = records[k].departure],
             Earlier(records'[k].arrival, records[k].arrival),
             Earlier(records[k].departure, records'[k].departure)
      PROVE  /\ Stipend' >= Stipend /\ Score(records') >= Score(records)
             /\ Streak(records') >= Streak(records)
  <2>1. /\ Table(records) /\ Table(records') /\ Recorded(records) = Recorded(records')
        /\ k \in Recorded(records)
        /\ \A j \in Recorded(records) : j # k => records'[j] = records[j]
        /\ lessons' = lessons /\ month' = month /\ shasChavura' = shasChavura /\ approved' = approved
        /\ lessons \in Seq(Lessons) /\ month \in Months
        /\ shasChavura \in BOOLEAN /\ approved \in BOOLEAN
    BY <1>1, OneRecordSaved
  <2>2. Better(records[k], records'[k]) BY <1>1 DEF Better
  <2>3. Improves(records, records') BY <2>1, <2>2 DEF Improves
  <2>4. Score(records) <= Score(records') BY <2>3, ScoreImproves
  <2>5. Streak(records) <= Streak(records') BY <2>3, StreakImproves
  <2>6. StipendOf(records, lessons, month, shasChavura, approved)
          <= StipendOf(records', lessons, month, shasChavura, approved)
    BY <2>1, <2>3, StipendImproves
  <2>7. Stipend <= Stipend' BY <2>1, <2>6 DEF Stipend
  <2> QED BY <2>4, <2>5, <2>7
<1>2. StipendTyped /\ StipendTyped' /\ [StipendNext]_stipendVars =>
        [\A k \in Seders :
          LET old == records[k]
              new == records'[k]
          IN  (/\ old # new /\ NoRecord \notin {old, new} /\ records' = [records EXCEPT ![k] = new]
               /\ old = [new EXCEPT !.arrival = old.arrival, !.departure = old.departure]
               /\ Earlier(new.arrival, old.arrival) /\ Earlier(old.departure, new.departure))
              => Stipend' >= Stipend /\ Score(records') >= Score(records)
                 /\ Streak(records') >= Streak(records)]_stipendVars
  BY <1>1
<1> QED BY <1>2, MonthIsTyped, PTL DEF StipendSpec, BetterNeverCosts

(* Excusing more minutes never costs, whatever the ceiling and the bands.  *)
THEOREM ExcusingNeverCosts == StipendSpec => ExcuseNeverCosts
<1>1. ASSUME StipendTyped, StipendTyped', [StipendNext]_stipendVars, NEW k \in Seders,
             records[k] # records'[k], NoRecord \notin {records[k], records'[k]},
             records' = [records EXCEPT ![k] = records'[k]],
             records[k] = [records'[k] EXCEPT !.excused = records[k].excused,
                                              !.excusedAll = records[k].excusedAll],
             Excused(k, records'[k]) >= Excused(k, records[k]), NetRaw(k, records'[k]) >= 0
      PROVE  Stipend' >= Stipend
  <2>1. /\ Table(records) /\ Table(records') /\ Recorded(records) = Recorded(records')
        /\ k \in Recorded(records)
        /\ \A j \in Recorded(records) : j # k => records'[j] = records[j]
        /\ lessons' = lessons /\ month' = month /\ shasChavura' = shasChavura /\ approved' = approved
        /\ lessons \in Seq(Lessons) /\ month \in Months
        /\ shasChavura \in BOOLEAN /\ approved \in BOOLEAN
    BY <1>1, OneRecordSaved
  <2>2. MoreExcused(k, records[k], records'[k]) BY <1>1 DEF MoreExcused
  <2>3. Excuses(k, records, records') BY <2>1, <2>2 DEF Excuses
  <2>6. StipendOf(records, lessons, month, shasChavura, approved)
          <= StipendOf(records', lessons, month, shasChavura, approved)
    BY <2>1, <2>3, StipendExcuses
  <2>7. Stipend <= Stipend' BY <2>1, <2>6 DEF Stipend
  <2> QED BY <2>7
<1>2. StipendTyped /\ StipendTyped' /\ [StipendNext]_stipendVars =>
        [\A k \in Seders :
          LET old == records[k]
              new == records'[k]
          IN  (/\ old # new /\ NoRecord \notin {old, new} /\ records' = [records EXCEPT ![k] = new]
               /\ old = [new EXCEPT !.excused = old.excused, !.excusedAll = old.excusedAll]
               /\ Excused(k, new) >= Excused(k, old) /\ NetRaw(k, new) >= 0)
              => Stipend' >= Stipend]_stipendVars
  BY <1>1
<1> QED BY <1>2, MonthIsTyped, PTL DEF StipendSpec, ExcuseNeverCosts
-----------------------------------------------------------------------------
(* CALENDAR.  The new moon in parts of a day decides the lengths of the    *)
(* years and months; the searches find the date whose place in the year    *)
(* the walk has reached; a fast has one place in a year.                   *)

(* The months before a year, by the nineteen-year cycle.                   *)
MonthsBefore(y) ==
    235 * ((y - 1) \div 19) + 12 * ((y - 1) % 19) + ((7 * ((y - 1) % 19) + 1) \div 19)

(* The mean new moon, in parts of a 25920th of a day.                      *)
Molad(m) == 31524 + 765433 * m
MoladDay(m) ==
    LET part  == 204 + 793 * (m % 1080)
        hours == 5 + 12 * m + 793 * (m \div 1080) + (part \div 1080)
    IN  1 + 29 * m + (hours \div 24)
MoladParts(m) ==
    LET part  == 204 + 793 * (m % 1080)
        hours == 5 + 12 * m + 793 * (m \div 1080) + (part \div 1080)
    IN  1080 * (hours % 24) + (part % 1080)

(* The four postponements of a new moon on day d, of p parts.              *)
Postponed(d, p, leap, afterLeap) ==
    LET late  == p >= 19440 \/ (d % 7 = 2 /\ p >= 9924 /\ ~leap) \/ (d % 7 = 1 /\ p >= 16789 /\ afterLeap)
        moved == IF late THEN d + 1 ELSE d
    IN  IF moved % 7 \in {0, 3, 5} THEN moved + 1 ELSE moved

LEMMA CycleIs ==
    ASSUME NEW y \in Int
    PROVE  \E c \in Int, q \in 0 .. 18 :
              /\ y = 19 * c + q + 1
              /\ IsHebrewLeap(y) <=> q \in {2, 5, 7, 10, 13, 16, 18}
              /\ MonthsBefore(y) = 235 * c + 12 * q + ((7 * q + 1) \div 19)
<1> DEFINE c == (y - 1) \div 19
           q == (y - 1) % 19
<1>1. c \in Int /\ q \in 0 .. 18 /\ y = 19 * c + q + 1 OBVIOUS
<1>2. MonthsBefore(y) = 235 * c + 12 * q + ((7 * q + 1) \div 19) BY DEF MonthsBefore
<1> HIDE DEF c, q
<1>3. IsHebrewLeap(y) <=> (7 * q + 8) % 19 < 7
  <2>1. 7 * y + 1 = 19 * (7 * c) + (7 * q + 8) BY <1>1
  <2>2. (7 * y + 1) % 19 = (7 * q + 8) % 19 BY <1>1, <2>1
  <2> QED BY <2>2 DEF IsHebrewLeap
<1>4. (7 * q + 8) % 19 < 7 <=> q \in {2, 5, 7, 10, 13, 16, 18} BY <1>1
<1> QED BY <1>1, <1>2, <1>3, <1>4

(* A year adds twelve months, or thirteen; two leap years never follow one *)
(* another.                                                                *)
LEMMA YearHasItsMonths ==
    ASSUME NEW y \in Int
    PROVE  /\ MonthsBefore(y) \in Int
           /\ MonthsBefore(y + 1) = MonthsBefore(y) + HebrewMonthsInYear(y)
           /\ ~(IsHebrewLeap(y) /\ IsHebrewLeap(y + 1))
<1>1. PICK c \in Int, q \in 0 .. 18 :
              /\ y = 19 * c + q + 1
              /\ IsHebrewLeap(y) <=> q \in {2, 5, 7, 10, 13, 16, 18}
              /\ MonthsBefore(y) = 235 * c + 12 * q + ((7 * q + 1) \div 19)
  BY CycleIs
<1>2. y + 1 \in Int OBVIOUS
<1>3. PICK b \in Int, r \in 0 .. 18 :
              /\ y + 1 = 19 * b + r + 1
              /\ IsHebrewLeap(y + 1) <=> r \in {2, 5, 7, 10, 13, 16, 18}
              /\ MonthsBefore(y + 1) = 235 * b + 12 * r + ((7 * r + 1) \div 19)
  BY <1>2, CycleIs
<1>4. (b = c /\ r = q + 1) \/ (b = c + 1 /\ r = 0 /\ q = 18) BY <1>1, <1>3
<1>5. HebrewMonthsInYear(y) = IF q \in {2, 5, 7, 10, 13, 16, 18} THEN 13 ELSE 12
  BY <1>1 DEF HebrewMonthsInYear
<1>6. ((7 * r + 1) \div 19) - ((7 * q + 1) \div 19)
        = (IF r = 0 THEN -6 ELSE IF q \in {2, 5, 7, 10, 13, 16, 18} THEN 1 ELSE 0)
  <2> DEFINE t == (7 * q + 1) \div 19
             u == (7 * r + 1) \div 19
  <2>1. t \in Int /\ 19 * t <= 7 * q + 1 /\ 7 * q + 1 < 19 * t + 19 OBVIOUS
  <2>2. u \in Int /\ 19 * u <= 7 * r + 1 /\ 7 * r + 1 < 19 * u + 19 OBVIOUS
  <2> HIDE DEF t, u
  <2>3. CASE r = 0 /\ q = 18 BY <2>1, <2>2, <2>3
  <2>4. CASE r = q + 1 BY <2>1, <2>2, <2>4
  <2> QED BY <1>4, <2>3, <2>4 DEF t, u
<1> QED BY <1>1, <1>3, <1>4, <1>5, <1>6

(* Day d and p parts of it are t parts from the start.                     *)
MoonAt(d, p, t) == d \in Int /\ p \in Int /\ 0 <= p /\ p < 25920 /\ 25920 * d + p = t

LEMMA MoladIs ==
    ASSUME NEW m \in Int
    PROVE  /\ MoladDay(m) \in Int /\ MoladParts(m) \in Int
           /\ 0 <= MoladParts(m) /\ MoladParts(m) < 25920
           /\ 25920 * MoladDay(m) + MoladParts(m) = Molad(m)
<1> DEFINE part  == 204 + 793 * (m % 1080)
           more  == part \div 1080
           hours == 5 + 12 * m + 793 * (m \div 1080) + more
<1>1. /\ m = 1080 * (m \div 1080) + (m % 1080) /\ m \div 1080 \in Int /\ m % 1080 \in Int
      /\ 0 <= m % 1080
  OBVIOUS
<1>2. part \in Int BY <1>1
<1> HIDE DEF part
<1>3. /\ part = 1080 * more + (part % 1080) /\ more \in Int /\ part % 1080 \in Int
      /\ 0 <= part % 1080 /\ part % 1080 < 1080
  BY <1>2
<1> HIDE DEF more
<1>4. hours \in Int BY <1>1, <1>3
<1> HIDE DEF hours
<1>5. /\ hours = 24 * (hours \div 24) + (hours % 24) /\ hours \div 24 \in Int /\ hours % 24 \in Int
      /\ 0 <= hours % 24 /\ hours % 24 < 24
  BY <1>4
<1>6. part = 204 + 793 * (m % 1080) /\ hours = 5 + 12 * m + 793 * (m \div 1080) + more
  BY DEF part, hours
<1>7. 25920 * (1 + 29 * m + (hours \div 24)) + (1080 * (hours % 24) + (part % 1080)) = Molad(m)
  BY SMT, <1>1, <1>3, <1>5, <1>6 DEF Molad
<1> QED BY SMT, <1>1, <1>3, <1>5, <1>7 DEF part, hours, more, MoladDay, MoladParts

(* The new moon of the year, and the new year that the postponements make. *)
NewMoon(y, d, p) ==
    /\ MoonAt(d, p, Molad(MonthsBefore(y)))
    /\ ElapsedDays(y) = Postponed(d, p, IsHebrewLeap(y), IsHebrewLeap(y - 1))

LEMMA NewYearIs ==
    ASSUME NEW y \in Int
    PROVE  \E d \in Int, p \in Int : NewMoon(y, d, p)
<1>1. ElapsedDays(y) = Postponed(MoladDay(MonthsBefore(y)), MoladParts(MonthsBefore(y)),
                                 IsHebrewLeap(y), IsHebrewLeap(y - 1))
  BY DEF ElapsedDays, MonthsBefore, Postponed, MoladDay, MoladParts
<1>2. MonthsBefore(y) \in Int BY YearHasItsMonths
<1>3. MoladDay(MonthsBefore(y)) \in Int /\ MoladParts(MonthsBefore(y)) \in Int BY <1>2, MoladIs
<1>4. MoonAt(MoladDay(MonthsBefore(y)), MoladParts(MonthsBefore(y)), Molad(MonthsBefore(y)))
  BY <1>2, MoladIs DEF MoonAt
<1> QED BY <1>1, <1>3, <1>4 DEF NewMoon

(* A new moon and the one a year later, put off each by its own rules, are *)
(* one of three numbers of days apart; none falls on a forbidden day.      *)
LEMMA PostponedIs ==
    ASSUME NEW d \in Int, NEW p \in Int, 0 <= p, p < 25920, NEW leap \in BOOLEAN, NEW afterLeap \in BOOLEAN
    PROVE  /\ Postponed(d, p, leap, afterLeap) \in d .. d + 2
           /\ Postponed(d, p, leap, afterLeap) % 7 \in {1, 2, 4, 6}
BY SMT DEF Postponed

TwelveMonths   == 12 * 765433
ThirteenMonths == 13 * 765433

LEMMA CommonYear ==
    ASSUME NEW y \in Int, NEW d, NEW p, NEW e, NEW q, NewMoon(y, d, p), NewMoon(y + 1, e, q),
           ~IsHebrewLeap(y), Molad(MonthsBefore(y)) \in Int,
           Molad(MonthsBefore(y + 1)) = Molad(MonthsBefore(y)) + TwelveMonths
    PROVE  ElapsedDays(y + 1) - ElapsedDays(y) \in {353, 354, 355}
<1>0. d \in Int /\ e \in Int /\ p \in Int /\ q \in Int /\ 0 <= p /\ p < 25920 /\ 0 <= q /\ q < 25920
  BY DEF NewMoon, MoonAt
<1>1. \/ e = d + 354 /\ q = p + 9516
      \/ e = d + 355 /\ q = p + 9516 - 25920
  BY SMT DEF NewMoon, MoonAt, TwelveMonths
<1>2. PICK r \in 0 .. 6 : d % 7 = r BY SMT, <1>0
<1>3. y + 1 - 1 = y OBVIOUS
<1> QED BY SMT, <1>0, <1>1, <1>2, <1>3 DEF Postponed, NewMoon

LEMMA LeapYear ==
    ASSUME NEW y \in Int, NEW d, NEW p, NEW e, NEW q, NewMoon(y, d, p), NewMoon(y + 1, e, q),
           IsHebrewLeap(y), ~IsHebrewLeap(y - 1), ~IsHebrewLeap(y + 1), Molad(MonthsBefore(y)) \in Int,
           Molad(MonthsBefore(y + 1)) = Molad(MonthsBefore(y)) + ThirteenMonths
    PROVE  ElapsedDays(y + 1) - ElapsedDays(y) \in {383, 384, 385}
<1>0. d \in Int /\ e \in Int /\ p \in Int /\ q \in Int /\ 0 <= p /\ p < 25920 /\ 0 <= q /\ q < 25920
  BY DEF NewMoon, MoonAt
<1>1. \/ e = d + 383 /\ q = p + 23269
      \/ e = d + 384 /\ q = p + 23269 - 25920
  BY SMT DEF NewMoon, MoonAt, ThirteenMonths
<1>2. PICK r \in 0 .. 6 : d % 7 = r BY SMT, <1>0
<1>3. y + 1 - 1 = y OBVIOUS
<1> QED BY SMT, <1>0, <1>1, <1>2, <1>3 DEF Postponed, NewMoon

(* The new year falls on a Monday, a Tuesday, a Thursday or a Shabbat, and *)
(* a year has one of its three lengths.                                    *)
LEMMA YearLength ==
    ASSUME NEW y \in Int
    PROVE  /\ HebrewNewYear(y) \in Int
           /\ Weekday(HebrewNewYear(y)) \in {1, 2, 4, 6}
           /\ HebrewDaysInYear(y) \in IF IsHebrewLeap(y) THEN {383, 384, 385} ELSE {353, 354, 355}
           /\ HebrewNewYear(y + 1) = HebrewNewYear(y) + HebrewDaysInYear(y)
<1>1. PICK d \in Int, p \in Int : NewMoon(y, d, p)
  BY NewYearIs
<1>2. PICK e \in Int, q \in Int : NewMoon(y + 1, e, q)
  <2> y + 1 \in Int /\ y + 1 - 1 = y OBVIOUS
  <2> QED BY NewYearIs
<1>3. IsHebrewLeap(y) \in BOOLEAN /\ IsHebrewLeap(y - 1) \in BOOLEAN /\ IsHebrewLeap(y + 1) \in BOOLEAN
  BY DEF IsHebrewLeap
<1>4. /\ MoonAt(d, p, Molad(MonthsBefore(y))) /\ 0 <= p /\ p < 25920
      /\ ElapsedDays(y) = Postponed(d, p, IsHebrewLeap(y), IsHebrewLeap(y - 1))
  BY <1>1 DEF NewMoon, MoonAt
<1>5. /\ MoonAt(e, q, Molad(MonthsBefore(y + 1))) /\ 0 <= q /\ q < 25920
      /\ ElapsedDays(y + 1) = Postponed(e, q, IsHebrewLeap(y + 1), IsHebrewLeap(y))
  <2> y + 1 - 1 = y OBVIOUS
  <2> QED BY <1>2 DEF NewMoon, MoonAt
<1>6. ElapsedDays(y) \in Int /\ ElapsedDays(y) % 7 \in {1, 2, 4, 6}
  <2>1. ElapsedDays(y) \in d .. d + 2 BY <1>3, <1>4, PostponedIs
  <2>2. ElapsedDays(y) % 7 \in {1, 2, 4, 6} BY <1>3, <1>4, PostponedIs
  <2> QED BY <2>1, <2>2
<1>7. ElapsedDays(y + 1) \in Int
  <2> ElapsedDays(y + 1) \in e .. e + 2 BY <1>3, <1>5, PostponedIs
  <2> QED OBVIOUS
<1>8. /\ MonthsBefore(y) \in Int /\ MonthsBefore(y + 1) = MonthsBefore(y) + HebrewMonthsInYear(y)
      /\ Molad(MonthsBefore(y)) \in Int
  BY YearHasItsMonths DEF Molad
<1>9. CASE ~IsHebrewLeap(y)
  <2>1. Molad(MonthsBefore(y + 1)) = Molad(MonthsBefore(y)) + TwelveMonths
    BY SMT, <1>8, <1>9 DEF Molad, HebrewMonthsInYear, TwelveMonths
  <2>2. ElapsedDays(y + 1) - ElapsedDays(y) \in {353, 354, 355}
    BY <1>1, <1>2, <1>8, <1>9, <2>1, CommonYear
  <2> QED BY SMT, <1>6, <1>7, <1>9, <2>2 DEF HebrewNewYear, HebrewDaysInYear, Weekday, Epoch
<1>10. CASE IsHebrewLeap(y)
  <2>1. Molad(MonthsBefore(y + 1)) = Molad(MonthsBefore(y)) + ThirteenMonths
    BY SMT, <1>8, <1>10 DEF Molad, HebrewMonthsInYear, ThirteenMonths
  <2>2. ~IsHebrewLeap(y + 1) /\ ~IsHebrewLeap(y - 1)
    <3> y - 1 \in Int /\ y - 1 + 1 = y OBVIOUS
    <3> QED BY <1>10, YearHasItsMonths
  <2>3. ElapsedDays(y + 1) - ElapsedDays(y) \in {383, 384, 385}
    BY <1>1, <1>2, <1>8, <1>10, <2>1, <2>2, LeapYear
  <2> QED BY SMT, <1>6, <1>7, <1>10, <2>3 DEF HebrewNewYear, HebrewDaysInYear, Weekday, Epoch
<1> QED BY <1>9, <1>10

LEMMA YearsFollow ==
    ASSUME NEW y \in Int, NEW z \in Int, y < z
    PROVE  HebrewNewYear(y + 1) <= HebrewNewYear(z)
<1> DEFINE n == z - y - 1
           P == {k \in 0 .. n : HebrewNewYear(y + 1) <= HebrewNewYear(y + 1 + k)}
<1>1. n \in Nat /\ y + 1 + n = z OBVIOUS
<1>2. 0 \in P
  <2>1. y + 1 \in Int /\ y + 1 + 0 = y + 1 OBVIOUS
  <2>2. HebrewNewYear(y + 1) \in Int BY <2>1, YearLength
  <2> HIDE DEF n
  <2> QED BY <1>1, <2>1, <2>2
<1> HIDE DEF n
<1>3. ASSUME NEW k \in 1 .. n, k - 1 \in P PROVE k \in P
  <2> DEFINE x == y + 1 + (k - 1)
  <2>1. x \in Int /\ y + 1 + k = x + 1 /\ k \in 0 .. n /\ y + 1 \in Int BY <1>1
  <2>2. HebrewNewYear(y + 1) <= HebrewNewYear(x) BY <1>3
  <2> HIDE DEF x
  <2>3. HebrewNewYear(x) \in Int /\ HebrewNewYear(x + 1) \in Int
        /\ HebrewDaysInYear(x) \in Nat /\ HebrewNewYear(x + 1) = HebrewNewYear(x) + HebrewDaysInYear(x)
    <3> x + 1 \in Int BY <2>1
    <3> QED BY <2>1, YearLength
  <2>4. HebrewNewYear(y + 1) \in Int BY <2>1, YearLength
  <2> HebrewNewYear(y + 1) <= HebrewNewYear(x + 1) BY <2>2, <2>3, <2>4
  <2> QED BY <2>1
<1>4. P \in SUBSET (0 .. n) OBVIOUS
<1>5. n \in P
  <2> HIDE DEF P
  <2> P = 0 .. n BY <1>1, <1>2, <1>3, <1>4, UpTo
  <2> QED BY <1>1
<1> QED BY <1>1, <1>5

(* The year of a day is not before the year the search starts from, and    *)
(* not after its double.                                                   *)
LEMMA ElapsedBounds ==
    ASSUME NEW y \in Nat \ {0}
    PROVE  /\ ElapsedDays(y) \in Int /\ 353 * (y - 1) < ElapsedDays(y)
           /\ ElapsedDays(y + 1) \in Int /\ ElapsedDays(y + 1) <= 366 * y
<1>0. y \in Int /\ y + 1 \in Int /\ 1 <= y /\ y + 1 - 1 = y OBVIOUS
<1>1. PICK d \in Int, p \in Int : NewMoon(y, d, p)
  BY <1>0, NewYearIs
<1>2. PICK e \in Int, q \in Int : NewMoon(y + 1, e, q)
  BY <1>0, NewYearIs
<1>3. IsHebrewLeap(y) \in BOOLEAN /\ IsHebrewLeap(y - 1) \in BOOLEAN /\ IsHebrewLeap(y + 1) \in BOOLEAN
  BY DEF IsHebrewLeap
<1>4. ElapsedDays(y) \in d .. d + 2 /\ ElapsedDays(y + 1) \in e .. e + 2
  BY <1>0, <1>1, <1>2, <1>3, PostponedIs DEF NewMoon, MoonAt
<1>5. MonthsBefore(y) \in Int /\ 12 * (y - 1) <= MonthsBefore(y)
  <2>1. PICK c \in Int, k \in 0 .. 18 :
              /\ y = 19 * c + k + 1
              /\ MonthsBefore(y) = 235 * c + 12 * k + ((7 * k + 1) \div 19)
    BY <1>0, CycleIs
  <2>2. c >= 0 BY SMT, <1>0, <2>1
  <2>3. (7 * k + 1) \div 19 \in Int /\ (7 * k + 1) \div 19 >= 0 BY SMT
  <2> QED BY SMT, <2>1, <2>2, <2>3
<1>6. 353 * (y - 1) < d BY SMT, <1>0, <1>1, <1>5 DEF Molad, NewMoon, MoonAt
<1>7. MonthsBefore(y + 1) \in Int /\ 19 * MonthsBefore(y + 1) <= 235 * y + 1
  <2>1. PICK c \in Int, k \in 0 .. 18 :
              /\ y + 1 = 19 * c + k + 1
              /\ MonthsBefore(y + 1) = 235 * c + 12 * k + ((7 * k + 1) \div 19)
    BY <1>0, CycleIs
  <2>2. (7 * k + 1) \div 19 \in Int /\ 19 * ((7 * k + 1) \div 19) <= 7 * k + 1 BY SMT
  <2> QED BY SMT, <2>1, <2>2
<1>8. e + 2 <= 366 * y
  <2>1. CASE y >= 7 BY SMT, <1>0, <1>2, <1>7, <2>1 DEF Molad, NewMoon, MoonAt
  <2>2. CASE y < 7
    <3>1. y \in 1 .. 6 BY <1>0, <2>2
    <3>2. MonthsBefore(y + 1) <= 12 * y + (IF y < 3 THEN 0 ELSE IF y < 6 THEN 1 ELSE 2)
      BY <3>1 DEF MonthsBefore
    <3> QED BY SMT, <1>0, <1>2, <1>7, <3>1, <3>2 DEF Molad, NewMoon, MoonAt
  <2> QED BY <1>0, <2>1, <2>2
<1> QED BY SMT, <1>0, <1>4, <1>6, <1>8

LEMMA YearIsFound ==
    ASSUME NEW y \in Nat \ {0}, NEW fixed \in Int,
           HebrewNewYear(y) <= fixed, fixed < HebrewNewYear(y + 1)
    PROVE  LET approx == ((fixed - Epoch) \div 366) + 1
           IN  y = CHOOSE x \in approx .. 2 * approx :
                     /\ HebrewNewYear(x + 1) > fixed
                     /\ x = approx \/ HebrewNewYear(x) <= fixed
<1> DEFINE approx == ((fixed - Epoch) \div 366) + 1
           Is(x) == HebrewNewYear(x + 1) > fixed /\ (x = approx \/ HebrewNewYear(x) <= fixed)
<1>1. y \in Int /\ y + 1 \in Int OBVIOUS
<1>2. HebrewNewYear(y) \in Int /\ HebrewNewYear(y + 1) \in Int BY <1>1, YearLength
<1>3. approx \in Int /\ 366 * (approx - 1) <= fixed - Epoch /\ fixed - Epoch < 366 * approx
  BY SMT DEF Epoch
<1> HIDE DEF approx
<1>4. approx <= y /\ y <= 2 * approx
  <2>1. /\ ElapsedDays(y) \in Int /\ 353 * (y - 1) < ElapsedDays(y)
        /\ ElapsedDays(y + 1) \in Int /\ ElapsedDays(y + 1) <= 366 * y
    BY ElapsedBounds
  <2>2. ElapsedDays(y) <= fixed - Epoch /\ fixed - Epoch < ElapsedDays(y + 1)
    BY SMT, <2>1 DEF HebrewNewYear, Epoch
  <2> QED BY SMT, <1>1, <1>3, <2>1, <2>2 DEF Epoch
<1>5. y \in approx .. 2 * approx /\ Is(y) BY <1>1, <1>2, <1>3, <1>4
<1>6. ASSUME NEW x \in approx .. 2 * approx, Is(x) PROVE x = y
  <2>1. x \in Int /\ x + 1 \in Int BY <1>3
  <2>2. HebrewNewYear(x) \in Int /\ HebrewNewYear(x + 1) \in Int BY <2>1, YearLength
  <2>3. ~(x < y)
    <3> SUFFICES ASSUME x < y PROVE FALSE OBVIOUS
    <3> HebrewNewYear(x + 1) <= HebrewNewYear(y) BY <1>1, <2>1, YearsFollow
    <3> QED BY <1>2, <1>6, <2>2
  <2>4. ~(y < x)
    <3> SUFFICES ASSUME y < x PROVE FALSE OBVIOUS
    <3>1. HebrewNewYear(y + 1) <= HebrewNewYear(x) BY <1>1, <2>1, YearsFollow
    <3>2. x # approx BY <1>1, <1>3, <1>4, <2>1
    <3> QED BY <1>2, <1>6, <2>2, <3>1, <3>2
  <2> QED BY <1>1, <2>1, <2>3, <2>4
<1>7. y = CHOOSE x \in approx .. 2 * approx : Is(x)
  <2> HIDE DEF Is
  <2> QED BY <1>5, <1>6
<1> QED BY <1>7 DEF approx

(* A sum can be taken apart at any of its places.                          *)
LEMMA SumAny ==
    ASSUME NEW S, IsFiniteSet(S), NEW f \in [S -> Int], NEW g, Summing(f, S, g)
    PROVE  \A T \in SUBSET S : \A x \in T : g[T] = f[x] + g[T \ {x}]
<1> DEFINE n == Cardinality(S)
           Is(T) == \A x \in T : g[T] = f[x] + g[T \ {x}]
           Q == {k \in 0 .. n : \A T \in SUBSET S : Cardinality(T) = k => Is(T)}
<1>1. n \in Nat BY FS_CardinalityType
<1>2. ASSUME NEW T \in SUBSET S PROVE IsFiniteSet(T) /\ Cardinality(T) \in 0 .. n
  <2>1. IsFiniteSet(T) /\ Cardinality(T) <= n BY FS_Subset
  <2> QED BY <1>1, <2>1, FS_CardinalityType
<1>3. 0 \in Q
  <2>1. 0 \in 0 .. n BY <1>1
  <2>2. ASSUME NEW T \in SUBSET S, Cardinality(T) = 0 PROVE Is(T) BY <1>2, <2>2, FS_EmptySet
  <2> QED BY <2>1, <2>2
<1>4. ASSUME NEW k \in 1 .. n, k - 1 \in Q PROVE k \in Q
  <2> SUFFICES ASSUME NEW T \in SUBSET S, Cardinality(T) = k, NEW x \in T
               PROVE  g[T] = f[x] + g[T \ {x}]
    BY <1>1
  <2> DEFINE p == CHOOSE z \in T : TRUE
  <2>1. p \in T /\ T # {} OBVIOUS
  <2>2. g[T] = f[p] + g[T \ {p}] BY <2>1 DEF Summing
  <2> HIDE DEF p
  <2>3. CASE x = p BY <2>2, <2>3
  <2>4. CASE x # p
    <3> DEFINE A == T \ {p}
               B == T \ {x}
               C == T \ {p, x}
    <3>1. A \in SUBSET S /\ B \in SUBSET S /\ C \in SUBSET S /\ x \in A /\ p \in B
          /\ A \ {x} = C /\ B \ {p} = C
      BY <2>1, <2>4
    <3>2. Cardinality(A) = k - 1 /\ Cardinality(B) = k - 1 BY <1>2, <2>1, FS_RemoveElement
    <3> HIDE DEF A, B, C, n
    <3>3. Is(A) /\ Is(B) BY <1>4, <3>1, <3>2
    <3>4. g[A] = f[x] + g[C] /\ g[B] = f[p] + g[C] BY <3>1, <3>3
    <3>5. f[x] \in Int /\ f[p] \in Int /\ g[C] \in Int BY <2>1, <3>1 DEF Summing
    <3>6. g[T] = f[p] + g[A] BY <2>2 DEF A
    <3>7. g[T] = f[x] + g[B] BY <3>4, <3>5, <3>6
    <3> QED BY <3>7 DEF B
  <2> QED BY <2>3, <2>4
<1> HIDE DEF n
<1>5. Q = 0 .. n
  <2>1. Q \in SUBSET (0 .. n) OBVIOUS
  <2> HIDE DEF Q
  <2> QED BY <1>1, <1>3, <1>4, <2>1, UpTo
<1> HIDE DEF Is
<1> \A T \in SUBSET S : Is(T) BY <1>2, <1>5
<1> QED BY DEF Is

Splits(f, x, e) == SumFunction(f) = f[x] + SumFunction(e) /\ SumFunction(e) \in Int

LEMMA SumSplits ==
    ASSUME NEW S, IsFiniteSet(S), NEW f \in [S -> Int], NEW x \in S,
           NEW e \in [S \ {x} -> Int], \A k \in S \ {x} : e[k] = f[k]
    PROVE  Splits(f, x, e)
<1> DEFINE R == S \ {x}
<1>0. IsFiniteSet(R) BY FS_RemoveElement
<1>1. PICK g : Summing(f, S, g) BY SumRuns
<1>2. PICK h : Summing(e, R, h)
  <2> HIDE DEF R
  <2> e \in [R -> Int] BY DEF R
  <2> QED BY <1>0, SumRuns
<1> DEFINE P == {T \in SUBSET R : g[T] = h[T]}
<1>3. {} \in P BY <1>1, <1>2 DEF Summing
<1>4. ASSUME NEW T \in SUBSET R, T # {} PROVE \E z \in T : T \ {z} \in P => T \in P
  <2> DEFINE p == CHOOSE z \in T : TRUE
  <2>1. p \in T BY <1>4
  <2>2. g[T] = f[p] + g[T \ {p}] /\ h[T] = e[p] + h[T \ {p}] BY <1>1, <1>2, <1>4 DEF Summing
  <2> HIDE DEF p
  <2>3. T \ {p} \in P => T \in P BY <2>1, <2>2
  <2> QED BY <2>1, <2>3
<1> HIDE DEF P
<1>5. R \in P
  <2> HIDE DEF R
  <2> SUBSET R \subseteq P BY <1>0, <1>3, <1>4, EverySubset
  <2> QED OBVIOUS
<1>6. g[R] = h[R] BY <1>5 DEF P
<1>7. g[S] = f[x] + g[R] BY <1>1, SumAny
<1>8. g[S] \in Int /\ h[R] \in Int BY <1>1, <1>2 DEF Summing
<1>9. SumFunction(f) = g[S] /\ SumFunction(e) = h[R] BY <1>1, <1>2 DEF Summing
<1> QED BY <1>6, <1>7, <1>8, <1>9 DEF Splits

(* The days of a set of months of one year.                                *)
DaysOf(y, S) == SumFunction([k \in S |-> HebrewLastDayOfMonth(k, y)])

LEMMA DaysAdd ==
    ASSUME NEW y, NEW S, IsFiniteSet(S), NEW x, x \notin S
    PROVE  /\ DaysOf(y, S \cup {x}) = DaysOf(y, S) + HebrewLastDayOfMonth(x, y)
           /\ DaysOf(y, S) \in Int
<1> DEFINE U == S \cup {x}
           f == [k \in U |-> HebrewLastDayOfMonth(k, y)]
           e == [k \in S |-> HebrewLastDayOfMonth(k, y)]
<1>1. IsFiniteSet(U) BY FS_AddElement
<1>2. x \in U /\ U \ {x} = S OBVIOUS
<1>3. f \in [U -> Int] /\ e \in [S -> Int] BY DEF HebrewLastDayOfMonth
<1>4. (\A k \in U \ {x} : e[k] = f[k]) /\ f[x] = HebrewLastDayOfMonth(x, y) BY <1>2
<1>5. HebrewLastDayOfMonth(x, y) \in Int BY DEF HebrewLastDayOfMonth
<1> HIDE DEF U, f, e
<1> e \in [U \ {x} -> Int] BY <1>2, <1>3
<1>6. Splits(f, x, e) BY <1>1, <1>2, <1>3, <1>4, SumSplits
<1>7. DaysOf(y, U) = SumFunction(f) /\ DaysOf(y, S) = SumFunction(e) BY DEF DaysOf, f, e
<1> QED BY <1>4, <1>5, <1>6, <1>7 DEF U, Splits

LEMMA NoDays ==
    ASSUME NEW y PROVE DaysOf(y, {}) = 0
<1> DEFINE f == [k \in {} |-> HebrewLastDayOfMonth(k, y)]
<1>1. IsFiniteSet({}) /\ f \in [{} -> Int] BY FS_EmptySet
<1> HIDE DEF f
<1>2. PICK g : Summing(f, {}, g) BY <1>1, SumRuns
<1>3. SumFunction(f) = 0 BY <1>2 DEF Summing
<1> QED BY <1>3 DEF f, DaysOf

Cheshvan(y) == HebrewLastDayOfMonth(8, y)
Kislev(y)   == HebrewLastDayOfMonth(9, y)

(* The days of the year before the first of a month.                       *)
DaysBefore(y, m) ==
    CASE m = 7  -> 0
      [] m = 8  -> 30
      [] m = 9  -> 30 + Cheshvan(y)
      [] m = 10 -> 30 + Cheshvan(y) + Kislev(y)
      [] m = 11 -> 59 + Cheshvan(y) + Kislev(y)
      [] m = 12 -> 89 + Cheshvan(y) + Kislev(y)
      [] m = 13 -> (IF IsHebrewLeap(y) THEN 119 ELSE 118) + Cheshvan(y) + Kislev(y)
      [] m \in 1 .. 6 -> (IF IsHebrewLeap(y) THEN 148 ELSE 118) + Cheshvan(y) + Kislev(y)
                           + 29 * (m - 1) + (m \div 2)

LEMMA TheMonthsAre ==
    ASSUME NEW y \in Int
    PROVE  /\ \A m \in 1 .. 13 : HebrewLastDayOfMonth(m, y) \in {29, 30}
           /\ \A m \in {2, 4, 6, 10, 13} : HebrewLastDayOfMonth(m, y) = 29
           /\ \A m \in {1, 3, 5, 7, 11} : HebrewLastDayOfMonth(m, y) = 30
           /\ HebrewLastDayOfMonth(12, y) = IF IsHebrewLeap(y) THEN 30 ELSE 29
           /\ HebrewLastDayOfMonth(8, y) = Cheshvan(y) /\ HebrewLastDayOfMonth(9, y) = Kislev(y)
           /\ Cheshvan(y) \in {29, 30} /\ Kislev(y) \in {29, 30}
           /\ Cheshvan(y) = IF HebrewDaysInYear(y) % 10 = 5 THEN 30 ELSE 29
           /\ Kislev(y) = IF HebrewDaysInYear(y) % 10 = 3 THEN 29 ELSE 30
           /\ HebrewDaysInYear(y) = (IF IsHebrewLeap(y) THEN 325 ELSE 295) + Cheshvan(y) + Kislev(y)
<1>1. Cheshvan(y) = IF HebrewDaysInYear(y) % 10 = 5 THEN 30 ELSE 29
  BY DEF Cheshvan, HebrewLastDayOfMonth, LongCheshvan
<1>2. Kislev(y) = IF HebrewDaysInYear(y) % 10 = 3 THEN 29 ELSE 30
  BY DEF Kislev, HebrewLastDayOfMonth, ShortKislev
<1>3. HebrewDaysInYear(y) \in IF IsHebrewLeap(y) THEN {383, 384, 385} ELSE {353, 354, 355}
  BY YearLength
<1>4. HebrewDaysInYear(y) = (IF IsHebrewLeap(y) THEN 325 ELSE 295) + Cheshvan(y) + Kislev(y)
  BY SMT, <1>1, <1>2, <1>3
<1>5. HebrewLastDayOfMonth(8, y) = Cheshvan(y) /\ HebrewLastDayOfMonth(9, y) = Kislev(y)
  BY DEF Cheshvan, Kislev
<1>6. /\ \A m \in 1 .. 13 : HebrewLastDayOfMonth(m, y) \in {29, 30}
      /\ \A m \in {2, 4, 6, 10, 13} : HebrewLastDayOfMonth(m, y) = 29
      /\ \A m \in {1, 3, 5, 7, 11} : HebrewLastDayOfMonth(m, y) = 30
      /\ HebrewLastDayOfMonth(12, y) = IF IsHebrewLeap(y) THEN 30 ELSE 29
  BY DEF HebrewLastDayOfMonth
<1> QED BY <1>1, <1>2, <1>4, <1>5, <1>6

LEMMA AutumnDays ==
    ASSUME NEW y \in Int, NEW m \in 7 .. 13
    PROVE  DaysOf(y, 7 .. m - 1) = DaysBefore(y, m)
<1>1. ASSUME NEW k \in 7 .. 13
      PROVE DaysOf(y, 7 .. k) = DaysOf(y, 7 .. k - 1) + HebrewLastDayOfMonth(k, y)
            /\ DaysOf(y, 7 .. k - 1) \in Int
  <2> DEFINE S == 7 .. k - 1
  <2>1. IsFiniteSet(S) /\ k \notin S /\ S \cup {k} = 7 .. k
    <3> k - 1 \in Int OBVIOUS
    <3> IsFiniteSet(S) BY FS_Interval
    <3> QED OBVIOUS
  <2> HIDE DEF S
  <2>2. DaysOf(y, S \cup {k}) = DaysOf(y, S) + HebrewLastDayOfMonth(k, y) /\ DaysOf(y, S) \in Int
    BY <2>1, DaysAdd
  <2> QED BY <2>1, <2>2 DEF S
<1>2. DaysOf(y, 7 .. 6) = 0
  <2> 7 .. 6 = {} OBVIOUS
  <2> QED BY NoDays
<1> DEFINE D(k) == DaysOf(y, 7 .. k)
<1>3. /\ D(7) = D(6) + 30 /\ D(8) = D(7) + Cheshvan(y) /\ D(9) = D(8) + Kislev(y)
      /\ D(10) = D(9) + 29 /\ D(11) = D(10) + 30
      /\ D(12) = D(11) + IF IsHebrewLeap(y) THEN 30 ELSE 29
  <2>1. /\ D(7) = D(7 - 1) + HebrewLastDayOfMonth(7, y)
        /\ D(8) = D(8 - 1) + HebrewLastDayOfMonth(8, y)
        /\ D(9) = D(9 - 1) + HebrewLastDayOfMonth(9, y)
        /\ D(10) = D(10 - 1) + HebrewLastDayOfMonth(10, y)
        /\ D(11) = D(11 - 1) + HebrewLastDayOfMonth(11, y)
        /\ D(12) = D(12 - 1) + HebrewLastDayOfMonth(12, y)
    <3> 7 \in 7 .. 13 /\ 8 \in 7 .. 13 /\ 9 \in 7 .. 13 /\ 10 \in 7 .. 13 /\ 11 \in 7 .. 13 /\ 12 \in 7 .. 13
      OBVIOUS
    <3> QED BY <1>1
  <2>2. 7 - 1 = 6 /\ 8 - 1 = 7 /\ 9 - 1 = 8 /\ 10 - 1 = 9 /\ 11 - 1 = 10 /\ 12 - 1 = 11 OBVIOUS
  <2> HIDE DEF D
  <2> QED BY <2>1, <2>2, TheMonthsAre
<1>4. D(m - 1) = DaysBefore(y, m)
  <2>1. m \in {7, 8, 9, 10, 11, 12, 13} OBVIOUS
  <2>2. D(6) = 0 BY <1>2
  <2>3. Cheshvan(y) \in {29, 30} /\ Kislev(y) \in {29, 30} BY TheMonthsAre
  <2> HIDE DEF D
  <2>4. CASE m = 7 BY <2>2, <2>4 DEF DaysBefore
  <2>5. CASE m = 8 BY <1>3, <2>2, <2>3, <2>5 DEF DaysBefore
  <2>6. CASE m = 9 BY <1>3, <2>2, <2>3, <2>6 DEF DaysBefore
  <2>7. CASE m = 10 BY <1>3, <2>2, <2>3, <2>7 DEF DaysBefore
  <2>8. CASE m = 11 BY <1>3, <2>2, <2>3, <2>8 DEF DaysBefore
  <2>9. CASE m = 12 BY <1>3, <2>2, <2>3, <2>9 DEF DaysBefore
  <2>10. CASE m = 13 BY <1>3, <2>2, <2>3, <2>10 DEF DaysBefore
  <2> QED BY <2>1, <2>4, <2>5, <2>6, <2>7, <2>8, <2>9, <2>10
<1> QED BY <1>4

LEMMA SpringDays ==
    ASSUME NEW y \in Int, NEW m \in 1 .. 6
    PROVE  DaysOf(y, (7 .. HebrewMonthsInYear(y)) \cup (1 .. m - 1)) = DaysBefore(y, m)
<1> DEFINE last == HebrewMonthsInYear(y)
           D(k) == DaysOf(y, (7 .. last) \cup (1 .. k))
<1>0. last \in {12, 13} BY DEF HebrewMonthsInYear
<1>1. D(0) = (IF IsHebrewLeap(y) THEN 148 ELSE 118) + Cheshvan(y) + Kislev(y)
  <2>1. (7 .. last) \cup (1 .. 0) = 7 .. last OBVIOUS
  <2>2. CASE ~IsHebrewLeap(y)
    <3>1. last = 13 - 1 BY <2>2 DEF HebrewMonthsInYear
    <3>2. D(0) = DaysOf(y, 7 .. 13 - 1) BY <2>1, <3>1
    <3> HIDE DEF D
    <3>3. 13 \in 7 .. 13 OBVIOUS
    <3>4. DaysOf(y, 7 .. 13 - 1) = DaysBefore(y, 13) BY <3>3, AutumnDays
    <3> QED BY <2>2, <3>2, <3>4 DEF DaysBefore
  <2>3. CASE IsHebrewLeap(y)
    <3>1. last = 13 BY <2>3 DEF HebrewMonthsInYear
    <3> DEFINE S == 7 .. 13 - 1
    <3>2. IsFiniteSet(S) /\ 13 \notin S /\ S \cup {13} = 7 .. 13
      <4>1. 7 \in Int /\ 13 - 1 \in Int OBVIOUS
      <4>2. IsFiniteSet(S) BY <4>1, FS_Interval
      <4> QED BY <4>2
    <3>3. 13 \in 7 .. 13 OBVIOUS
    <3>4. DaysOf(y, S) = DaysBefore(y, 13) BY <3>3, AutumnDays
    <3>5. D(0) = DaysOf(y, 7 .. 13) BY <2>1, <3>1
    <3> HIDE DEF S, D
    <3>6. DaysOf(y, S \cup {13}) = DaysOf(y, S) + HebrewLastDayOfMonth(13, y) BY <3>2, DaysAdd
    <3>7. HebrewLastDayOfMonth(13, y) = 29 /\ Cheshvan(y) \in {29, 30} /\ Kislev(y) \in {29, 30}
      BY TheMonthsAre
    <3>8. DaysBefore(y, 13) = 119 + Cheshvan(y) + Kislev(y) BY <2>3 DEF DaysBefore
    <3> QED BY <2>3, <3>2, <3>4, <3>5, <3>6, <3>7, <3>8
  <2> QED BY <2>2, <2>3
<1> HIDE DEF last
<1>2. ASSUME NEW k \in 1 .. 5
      PROVE D(k) = D(k - 1) + HebrewLastDayOfMonth(k, y)
  <2> DEFINE S == (7 .. last) \cup (1 .. k - 1)
  <2>1. IsFiniteSet(S) /\ k \notin S /\ S \cup {k} = (7 .. last) \cup (1 .. k)
    <3>1. k - 1 \in Int /\ last \in Int BY <1>0
    <3>2. IsFiniteSet(7 .. last) /\ IsFiniteSet(1 .. k - 1) BY <3>1, FS_Interval
    <3>3. IsFiniteSet(S) BY <3>2, FS_Union
    <3> QED BY <1>0, <3>3
  <2> HIDE DEF S
  <2>2. DaysOf(y, S \cup {k}) = DaysOf(y, S) + HebrewLastDayOfMonth(k, y)
    BY <2>1, DaysAdd
  <2> QED BY <2>1, <2>2 DEF S
<1>3. D(1) = D(0) + 30 /\ D(2) = D(1) + 29 /\ D(3) = D(2) + 30 /\ D(4) = D(3) + 29 /\ D(5) = D(4) + 30
  <2> HIDE DEF D
  <2>1. /\ D(1) = D(1 - 1) + HebrewLastDayOfMonth(1, y)
        /\ D(2) = D(2 - 1) + HebrewLastDayOfMonth(2, y)
        /\ D(3) = D(3 - 1) + HebrewLastDayOfMonth(3, y)
        /\ D(4) = D(4 - 1) + HebrewLastDayOfMonth(4, y)
        /\ D(5) = D(5 - 1) + HebrewLastDayOfMonth(5, y)
    <3> 1 \in 1 .. 5 /\ 2 \in 1 .. 5 /\ 3 \in 1 .. 5 /\ 4 \in 1 .. 5 /\ 5 \in 1 .. 5 OBVIOUS
    <3> QED BY <1>2
  <2>2. 1 - 1 = 0 /\ 2 - 1 = 1 /\ 3 - 1 = 2 /\ 4 - 1 = 3 /\ 5 - 1 = 4 OBVIOUS
  <2> QED BY <2>1, <2>2, TheMonthsAre
<1>4. Cheshvan(y) \in {29, 30} /\ Kislev(y) \in {29, 30} BY TheMonthsAre
<1> DEFINE a == (IF IsHebrewLeap(y) THEN 148 ELSE 118) + Cheshvan(y) + Kislev(y)
<1>5. a \in Int BY <1>4
<1>6. DaysBefore(y, m) = a + 29 * (m - 1) + (m \div 2) BY <1>4 DEF DaysBefore
<1>7. D(0) = a BY <1>1
<1> HIDE DEF D, a
<1>8. D(m - 1) = a + 29 * (m - 1) + (m \div 2)
  <2>1. D(1) = a + 30 /\ D(2) = a + 59 /\ D(3) = a + 89 /\ D(4) = a + 118 /\ D(5) = a + 148
    BY <1>3, <1>5, <1>7
  <2>2. m \in {1, 2, 3, 4, 5, 6} OBVIOUS
  <2> QED BY <1>5, <1>7, <2>1, <2>2
<1> QED BY <1>6, <1>8 DEF D, last

LEMMA DaysBeforeType ==
    ASSUME NEW y \in Int, NEW m \in 1 .. 13
    PROVE  DaysBefore(y, m) \in Nat
<1>1. Cheshvan(y) \in {29, 30} /\ Kislev(y) \in {29, 30} BY TheMonthsAre
<1>2. m \in 1 .. 6 \/ m \in {7, 8, 9, 10, 11, 12, 13} OBVIOUS
<1> QED BY <1>1, <1>2 DEF DaysBefore

(* The count of days of a Hebrew date.                                     *)
LEMMA FixedIs ==
    ASSUME NEW y \in Int, NEW m \in 1 .. 13, NEW d \in Int
    PROVE  FixedFromHebrew(y, m, d) = HebrewNewYear(y) + DaysBefore(y, m) + d - 1
<1> DEFINE before == IF m < 7 THEN (7 .. HebrewMonthsInYear(y)) \cup (1 .. m - 1) ELSE 7 .. m - 1
<1>1. DaysOf(y, before) = DaysBefore(y, m)
  <2>1. CASE m < 7
    <3> m \in 1 .. 6 BY <2>1
    <3> QED BY <2>1, SpringDays
  <2>2. CASE ~(m < 7)
    <3> m \in 7 .. 13 BY <2>2
    <3> QED BY <2>2, AutumnDays
  <2> QED BY <2>1, <2>2
<1>2. FixedFromHebrew(y, m, d) = HebrewNewYear(y) + d - 1 + DaysOf(y, before)
  BY DEF FixedFromHebrew, DaysOf
<1> HIDE DEF before
<1>3. HebrewNewYear(y) \in Int BY YearLength
<1>4. DaysBefore(y, m) \in Nat BY DaysBeforeType
<1> QED BY <1>1, <1>2, <1>3, <1>4

(* A date that the calendar has, and its place in the year, from 0.        *)
Dated(h) ==
    /\ h \in [year : Nat \ {0}, month : 1 .. 13, day : Nat \ {0}]
    /\ h.month = 13 => IsHebrewLeap(h.year)
    /\ h.day <= HebrewLastDayOfMonth(h.month, h.year)
Place(h) == DaysBefore(h.year, h.month) + h.day - 1

(* The months follow one another.                                          *)
LEMMA MonthsFollow ==
    ASSUME NEW y \in Int, NEW m \in 1 .. 13, m = 13 => IsHebrewLeap(y)
    PROVE  IF m = 6 THEN DaysBefore(y, m) + HebrewLastDayOfMonth(m, y) = HebrewDaysInYear(y)
           ELSE LET next == IF m = HebrewMonthsInYear(y) THEN 1 ELSE m + 1
                IN  /\ next \in 1 .. 13 /\ (next = 13 => IsHebrewLeap(y))
                    /\ DaysBefore(y, m) + HebrewLastDayOfMonth(m, y) = DaysBefore(y, next)
<1> DEFINE next == IF m = HebrewMonthsInYear(y) THEN 1 ELSE m + 1
<1>1. Cheshvan(y) \in {29, 30} /\ Kislev(y) \in {29, 30}
      /\ HebrewDaysInYear(y) = (IF IsHebrewLeap(y) THEN 325 ELSE 295) + Cheshvan(y) + Kislev(y)
  BY TheMonthsAre
<1>2. m = 6 => DaysBefore(y, m) + HebrewLastDayOfMonth(m, y) = HebrewDaysInYear(y)
  <2> SUFFICES ASSUME m = 6 PROVE DaysBefore(y, 6) + HebrewLastDayOfMonth(6, y) = HebrewDaysInYear(y)
    OBVIOUS
  <2>1. HebrewLastDayOfMonth(6, y) = 29 BY TheMonthsAre
  <2>2. DaysBefore(y, 6) = (IF IsHebrewLeap(y) THEN 148 ELSE 118) + Cheshvan(y) + Kislev(y) + 29 * (6 - 1) + 3
    BY DEF DaysBefore
  <2> QED BY <1>1, <2>1, <2>2
<1>3. m # 6 => next \in 1 .. 13 /\ (next = 13 => IsHebrewLeap(y))
  BY DEF HebrewMonthsInYear
<1>4. m # 6 => DaysBefore(y, m) + HebrewLastDayOfMonth(m, y) = DaysBefore(y, next)
  <2> SUFFICES ASSUME m # 6
               PROVE  DaysBefore(y, m) + HebrewLastDayOfMonth(m, y) = DaysBefore(y, next)
    OBVIOUS
  <2>1. CASE m \in {1, 2, 3, 4, 5}
    <3>1. next = m + 1 BY <2>1 DEF HebrewMonthsInYear
    <3>2. HebrewLastDayOfMonth(m, y) = IF m \in {2, 4} THEN 29 ELSE 30 BY <2>1, TheMonthsAre
    <3> HIDE DEF next
    <3> QED BY <1>1, <2>1, <3>1, <3>2 DEF DaysBefore
  <2>2. CASE m \in {7, 8, 9, 10, 11}
    <3>1. next = m + 1 BY <2>2 DEF HebrewMonthsInYear
    <3>2. HebrewLastDayOfMonth(m, y) = IF m = 8 THEN Cheshvan(y) ELSE IF m = 9 THEN Kislev(y)
                                       ELSE IF m = 10 THEN 29 ELSE 30
      BY <2>2, TheMonthsAre
    <3> HIDE DEF next
    <3> QED BY <1>1, <2>2, <3>1, <3>2 DEF DaysBefore
  <2>3. CASE m = 12
    <3>1. next = IF IsHebrewLeap(y) THEN 13 ELSE 1 BY <2>3 DEF HebrewMonthsInYear
    <3>2. HebrewLastDayOfMonth(m, y) = IF IsHebrewLeap(y) THEN 30 ELSE 29 BY <2>3, TheMonthsAre
    <3> HIDE DEF next
    <3> QED BY <1>1, <2>3, <3>1, <3>2 DEF DaysBefore
  <2>4. CASE m = 13
    <3>1. next = 1 /\ IsHebrewLeap(y) BY <2>4 DEF HebrewMonthsInYear
    <3>2. HebrewLastDayOfMonth(m, y) = 29 BY <2>4, TheMonthsAre
    <3> HIDE DEF next
    <3> QED BY <1>1, <2>4, <3>1, <3>2 DEF DaysBefore
  <2> QED BY <2>1, <2>2, <2>3, <2>4
<1> QED BY <1>2, <1>3, <1>4

(* Of two months of the year, the later starts after the earlier has ended.*)
LEMMA MonthsInOrder ==
    ASSUME NEW y \in Int, NEW m \in 1 .. 13, NEW k \in 1 .. 13, m = 13 => IsHebrewLeap(y),
           IF m < 7 THEN m < k /\ k < 7 ELSE m < k \/ k < 7
    PROVE  DaysBefore(y, m) + HebrewLastDayOfMonth(m, y) <= DaysBefore(y, k)
<1>1. Cheshvan(y) \in {29, 30} /\ Kislev(y) \in {29, 30}
  BY TheMonthsAre
<1>2. CASE m \in 1 .. 5
  <2>1. HebrewLastDayOfMonth(m, y) <= 30 /\ HebrewLastDayOfMonth(m, y) \in Int
        /\ (m \in {2, 4} => HebrewLastDayOfMonth(m, y) = 29)
    BY <1>2, TheMonthsAre
  <2>2. k \in 2 .. 6 /\ m < k BY <1>2
  <2> QED BY <1>1, <1>2, <2>1, <2>2 DEF DaysBefore
<1>3. CASE m \in {7, 8, 9, 10, 11} /\ k < 7
  <2>1. HebrewLastDayOfMonth(m, y) <= 30 /\ HebrewLastDayOfMonth(m, y) \in Int
    BY <1>3, TheMonthsAre
  <2>2. DaysBefore(y, k) >= 118 + Cheshvan(y) + Kislev(y) /\ DaysBefore(y, k) \in Int
    <3> k \in 1 .. 6 BY <1>3
    <3> QED BY <1>1, <1>3 DEF DaysBefore
  <2>3. DaysBefore(y, m) <= 59 + Cheshvan(y) + Kislev(y) /\ DaysBefore(y, m) \in Int
    BY <1>1, <1>3 DEF DaysBefore
  <2> QED BY <1>1, <2>1, <2>2, <2>3
<1>4. CASE m \in {12, 13} /\ k < 7
  <2>1. HebrewLastDayOfMonth(12, y) = (IF IsHebrewLeap(y) THEN 30 ELSE 29) /\ HebrewLastDayOfMonth(13, y) = 29
    BY TheMonthsAre
  <2>2. DaysBefore(y, k) >= (IF IsHebrewLeap(y) THEN 148 ELSE 118) + Cheshvan(y) + Kislev(y)
        /\ DaysBefore(y, k) \in Int
    <3> k \in 1 .. 6 BY <1>4
    <3> QED BY <1>1, <1>4 DEF DaysBefore
  <2>3. /\ DaysBefore(y, 12) = 89 + Cheshvan(y) + Kislev(y)
        /\ DaysBefore(y, 13) = (IF IsHebrewLeap(y) THEN 119 ELSE 118) + Cheshvan(y) + Kislev(y)
    BY DEF DaysBefore
  <2> QED BY <1>1, <1>4, <2>1, <2>2, <2>3
<1>5. CASE m \in 7 .. 12 /\ k \in 8 .. 13 /\ m < k
  <2>1. /\ HebrewLastDayOfMonth(m, y) \in {29, 30} 
        /\ m = 8 => HebrewLastDayOfMonth(m, y) = Cheshvan(y)
        /\ m = 9 => HebrewLastDayOfMonth(m, y) = Kislev(y)
        /\ m = 10 => HebrewLastDayOfMonth(m, y) = 29
        /\ m = 12 => HebrewLastDayOfMonth(m, y) = IF IsHebrewLeap(y) THEN 30 ELSE 29
    BY <1>5, TheMonthsAre
  <2>2. m \in {7, 8, 9, 10, 11, 12} /\ k \in {8, 9, 10, 11, 12, 13} /\ m < k BY <1>5
  <2> QED BY <1>1, <2>1, <2>2 DEF DaysBefore
<1> QED BY <1>2, <1>3, <1>4, <1>5

LEMMA PlaceIs ==
    ASSUME NEW h, Dated(h)
    PROVE  /\ h.year \in Nat \ {0} /\ h.month \in 1 .. 13 /\ h.day \in Nat \ {0}
           /\ Place(h) \in Nat /\ Place(h) < HebrewDaysInYear(h.year)
<1>1. h.year \in Nat \ {0} /\ h.month \in 1 .. 13 /\ h.day \in Nat \ {0} BY DEF Dated
<1> DEFINE y == h.year
           m == h.month
<1>2. y \in Int /\ m \in 1 .. 13 /\ (m = 13 => IsHebrewLeap(y)) /\ h.day <= HebrewLastDayOfMonth(m, y)
  BY <1>1 DEF Dated
<1>3. Place(h) = DaysBefore(y, m) + h.day - 1 BY DEF Place
<1> HIDE DEF y, m
<1>4. DaysBefore(y, m) \in Nat /\ DaysBefore(y, 6) \in Nat /\ HebrewLastDayOfMonth(m, y) \in {29, 30}
  <2> 6 \in 1 .. 13 OBVIOUS
  <2> QED BY <1>2, DaysBeforeType, TheMonthsAre
<1>5. DaysBefore(y, m) + HebrewLastDayOfMonth(m, y) <= HebrewDaysInYear(y)
  <2>0. 6 \in 1 .. 13 OBVIOUS
  <2>1. DaysBefore(y, 6) + HebrewLastDayOfMonth(6, y) = HebrewDaysInYear(y) BY <1>2, <2>0, MonthsFollow
  <2>2. HebrewLastDayOfMonth(6, y) = 29 BY <1>2, TheMonthsAre
  <2>3. CASE m = 6 BY <1>4, <2>1, <2>3
  <2>4. CASE m # 6
    <3> DaysBefore(y, m) + HebrewLastDayOfMonth(m, y) <= DaysBefore(y, 6)
      <4> IF m < 7 THEN m < 6 /\ 6 < 7 ELSE m < 6 \/ 6 < 7 BY <1>2, <2>4
      <4> QED BY <1>2, <2>0, MonthsInOrder
    <3> QED BY <1>4, <2>1, <2>2
  <2> QED BY <2>3, <2>4
<1>6. HebrewDaysInYear(y) \in Int BY <1>2, YearLength
<1> QED BY <1>1, <1>2, <1>3, <1>4, <1>5, <1>6 DEF y

(* The count of days of a date, and back.                                  *)
CountOf(h) == HebrewNewYear(h.year) + Place(h)

LEMMA CountIs ==
    ASSUME NEW h, Dated(h)
    PROVE  /\ FixedFromHebrew(h.year, h.month, h.day) = CountOf(h) /\ CountOf(h) \in Int
           /\ HebrewNewYear(h.year) <= CountOf(h) /\ CountOf(h) < HebrewNewYear(h.year + 1)
<1>1. /\ h.year \in Nat \ {0} /\ h.month \in 1 .. 13 /\ h.day \in Nat \ {0}
      /\ Place(h) \in Nat /\ Place(h) < HebrewDaysInYear(h.year)
  BY PlaceIs
<1> DEFINE y == h.year
           m == h.month
           d == h.day
<1>2. y \in Int /\ m \in 1 .. 13 /\ d \in Int BY <1>1
<1>3. HebrewNewYear(y) \in Int /\ HebrewDaysInYear(y) \in Int
      /\ HebrewNewYear(y + 1) = HebrewNewYear(y) + HebrewDaysInYear(y)
  BY <1>2, YearLength
<1>4. Place(h) = DaysBefore(y, m) + d - 1 /\ DaysBefore(y, m) \in Nat /\ CountOf(h) = HebrewNewYear(y) + Place(h)
  BY <1>2, DaysBeforeType DEF Place, CountOf
<1> HIDE DEF y, m, d
<1>5. FixedFromHebrew(y, m, d) = HebrewNewYear(y) + DaysBefore(y, m) + d - 1 BY <1>2, FixedIs
<1>6. FixedFromHebrew(y, m, d) = CountOf(h) /\ CountOf(h) \in Int BY <1>1, <1>2, <1>3, <1>4, <1>5
<1>7. Place(h) < HebrewDaysInYear(y) /\ Place(h) \in Nat BY <1>1 DEF y
<1>8. HebrewNewYear(y) <= CountOf(h) /\ CountOf(h) < HebrewNewYear(y + 1) BY <1>3, <1>4, <1>7
<1> QED BY <1>6, <1>8 DEF y, m, d

LEMMA MonthIsFound ==
    ASSUME NEW h, Dated(h), NEW start,
           start = IF CountOf(h) < FixedFromHebrew(h.year, 1, 1) THEN 7 ELSE 1
    PROVE  h.month = Min({m \in start .. 13 :
               CountOf(h) <= FixedFromHebrew(h.year, m, HebrewLastDayOfMonth(m, h.year))})
<1> DEFINE y == h.year
           k == h.month
           d == h.day
           n == CountOf(h)
           ny == HebrewNewYear(y)
           S == {m \in start .. 13 : n <= FixedFromHebrew(y, m, HebrewLastDayOfMonth(m, y))}
<1>1. /\ y \in Int /\ k \in 1 .. 13 /\ d \in Nat \ {0} /\ (k = 13 => IsHebrewLeap(y))
      /\ d <= HebrewLastDayOfMonth(k, y)
  BY PlaceIs DEF Dated
<1>2. n = ny + DaysBefore(y, k) + d - 1 /\ ny \in Int
  <2>1. ny \in Int BY <1>1, YearLength
  <2>2. DaysBefore(y, k) \in Nat BY <1>1, DaysBeforeType
  <2>3. n = HebrewNewYear(y) + (DaysBefore(y, k) + d - 1) BY DEF CountOf, Place
  <2> HIDE DEF n, y, k, d
  <2> QED BY <1>1, <2>1, <2>2, <2>3
<1>3. start = IF n < FixedFromHebrew(y, 1, 1) THEN 7 ELSE 1 OBVIOUS
<1> HIDE DEF y, k, d, n, ny
<1>4. \A m \in 1 .. 13 : DaysBefore(y, m) \in Nat /\ HebrewLastDayOfMonth(m, y) \in {29, 30}
  BY <1>1, DaysBeforeType, TheMonthsAre
<1>5. ASSUME NEW m \in 1 .. 13
      PROVE  FixedFromHebrew(y, m, HebrewLastDayOfMonth(m, y))
               = ny + DaysBefore(y, m) + HebrewLastDayOfMonth(m, y) - 1
  <2> HebrewLastDayOfMonth(m, y) \in Int BY <1>4
  <2> QED BY <1>1, FixedIs DEF ny
<1>6. FixedFromHebrew(y, 1, 1) = ny + DaysBefore(y, 1)
  <2> 1 \in 1 .. 13 /\ 1 \in Int OBVIOUS
  <2>1. FixedFromHebrew(y, 1, 1) = ny + DaysBefore(y, 1) + 1 - 1 BY <1>1, FixedIs DEF ny
  <2> QED BY <1>2, <1>4, <2>1
<1>7. start = IF k < 7 THEN 1 ELSE 7
  <2>0. 1 \in 1 .. 13 OBVIOUS
  <2>1. CASE k >= 7
    <3> DaysBefore(y, k) + HebrewLastDayOfMonth(k, y) <= DaysBefore(y, 1)
      BY <1>1, <2>0, <2>1, MonthsInOrder
    <3> QED BY <1>1, <1>2, <1>3, <1>4, <1>6, <2>0, <2>1
  <2>2. CASE k = 1 BY <1>1, <1>2, <1>3, <1>4, <1>6, <2>0, <2>2
  <2>3. CASE k < 7 /\ k # 1
    <3>1. (1 = 13 => IsHebrewLeap(y)) /\ 1 < k BY <1>1, <2>3
    <3>2. DaysBefore(y, 1) + HebrewLastDayOfMonth(1, y) <= DaysBefore(y, k)
      BY <1>1, <2>0, <2>3, <3>1, MonthsInOrder
    <3> QED BY <1>1, <1>2, <1>3, <1>4, <1>6, <2>0, <2>3, <3>2
  <2> QED BY <1>1, <2>1, <2>2, <2>3
<1>8. k \in S
  <2>1. k \in start .. 13 BY <1>1, <1>7
  <2>2. n <= ny + DaysBefore(y, k) + HebrewLastDayOfMonth(k, y) - 1 BY <1>1, <1>2, <1>4
  <2> QED BY <1>1, <1>5, <2>1, <2>2
<1>9. ASSUME NEW m \in S PROVE k <= m
  <2>0. m \in 1 .. 13 /\ m \in start .. 13 BY <1>7
  <2> SUFFICES ASSUME m < k PROVE FALSE BY <1>1, <2>0
  <2>1. DaysBefore(y, m) + HebrewLastDayOfMonth(m, y) <= DaysBefore(y, k)
    <3> (m = 13 => IsHebrewLeap(y)) /\ (IF m < 7 THEN m < k /\ k < 7 ELSE m < k \/ k < 7)
      BY <1>1, <1>7, <2>0
    <3> QED BY <1>1, <2>0, MonthsInOrder
  <2>2. n <= ny + DaysBefore(y, m) + HebrewLastDayOfMonth(m, y) - 1 BY <1>5, <2>0
  <2> QED BY <1>1, <1>2, <1>4, <2>0, <2>1, <2>2
<1>10. S \in SUBSET (1 .. 13) BY <1>7
<1> HIDE DEF S
<1>11. Min(S) \in S /\ Min(S) <= k
  <2> 13 \in Nat OBVIOUS
  <2> QED BY <1>8, <1>10, MinBounds
<1>12. k = Min(S)
  <2> Min(S) \in 1 .. 13 BY <1>10, <1>11
  <2> QED BY <1>1, <1>9, <1>11
<1> QED BY <1>12 DEF S, n, y, k

(* The search finds the date that a day has.                               *)
LEMMA DateIsFound ==
    ASSUME NEW h, Dated(h)
    PROVE  HebrewFromFixed(CountOf(h)) = h
<1> DEFINE n == CountOf(h)
           y == h.year
           k == h.month
           d == h.day
           approx == ((n - Epoch) \div 366) + 1
           found == CHOOSE x \in approx .. 2 * approx :
                      /\ HebrewNewYear(x + 1) > n
                      /\ x = approx \/ HebrewNewYear(x) <= n
           start(x) == IF n < FixedFromHebrew(x, 1, 1) THEN 7 ELSE 1
           month1(x) == Min({m \in start(x) .. 13 :
                        n <= FixedFromHebrew(x, m, HebrewLastDayOfMonth(m, x))})
<1>1. HebrewFromFixed(n) = [year |-> found, month |-> month1(found),
                            day |-> n - FixedFromHebrew(found, month1(found), 1) + 1]
  BY DEF HebrewFromFixed
<1>2. /\ y \in Nat \ {0} /\ k \in 1 .. 13 /\ d \in Nat \ {0} /\ n \in Int
      /\ HebrewNewYear(y) <= n /\ n < HebrewNewYear(y + 1)
  BY CountIs, PlaceIs
<1>3. found = y
  <2> HIDE DEF n, y
  <2> QED BY <1>2, YearIsFound
<1>4. month1(y) = k
  <2> DEFINE s == start(y)
  <2>1. s = IF CountOf(h) < FixedFromHebrew(h.year, 1, 1) THEN 7 ELSE 1 OBVIOUS
  <2> HIDE DEF s
  <2>2. h.month = Min({m \in s .. 13 :
               CountOf(h) <= FixedFromHebrew(h.year, m, HebrewLastDayOfMonth(m, h.year))})
    BY <2>1, MonthIsFound
  <2> QED BY <2>2 DEF s
<1> HIDE DEF found, month1
<1>5. n - FixedFromHebrew(y, k, 1) + 1 = d
  <2>1. FixedFromHebrew(y, k, 1) = HebrewNewYear(y) + DaysBefore(y, k) + 1 - 1
    <3> y \in Int /\ 1 \in Int BY <1>2
    <3> QED BY <1>2, FixedIs
  <2>2. HebrewNewYear(y) \in Int /\ DaysBefore(y, k) \in Nat
    <3>1. y \in Int BY <1>2
    <3>2. HebrewNewYear(y) \in Int BY <3>1, YearLength
    <3>3. DaysBefore(y, k) \in Nat BY <1>2, <3>1, DaysBeforeType
    <3> QED BY <3>2, <3>3
  <2>3. n = HebrewNewYear(y) + (DaysBefore(y, k) + d - 1) BY DEF CountOf, Place
  <2> HIDE DEF n, y, k, d
  <2> QED BY <1>2, <2>1, <2>2, <2>3
<1>6. HebrewFromFixed(n) = [year |-> y, month |-> k, day |-> d] BY <1>1, <1>3, <1>4, <1>5
<1>7. h = [year |-> h.year, month |-> h.month, day |-> h.day] BY DEF Dated
<1> QED BY <1>6, <1>7

(* The next date is the next place of the year, or the first of the next.  *)
LEMMA NextDateIs ==
    ASSUME NEW h, Dated(h)
    PROVE  /\ Dated(NextHebrew(h)) /\ CountOf(NextHebrew(h)) = CountOf(h) + 1
           /\ \/ NextHebrew(h).year = h.year /\ Place(NextHebrew(h)) = Place(h) + 1
              \/ /\ NextHebrew(h).year = h.year + 1 /\ Place(NextHebrew(h)) = 0
                 /\ Place(h) = HebrewDaysInYear(h.year) - 1
<1> DEFINE y == h.year
           k == h.month
           d == h.day
           g == NextHebrew(h)
<1>1. /\ y \in Nat \ {0} /\ k \in 1 .. 13 /\ d \in Nat \ {0} /\ (k = 13 => IsHebrewLeap(y))
      /\ d <= HebrewLastDayOfMonth(k, y) /\ y \in Int /\ Place(h) \in Nat
  BY PlaceIs DEF Dated
<1>2. h = [year |-> y, month |-> k, day |-> d] BY DEF Dated
<1>3. /\ HebrewNewYear(y) \in Int /\ HebrewNewYear(y + 1) = HebrewNewYear(y) + HebrewDaysInYear(y)
      /\ HebrewDaysInYear(y) \in Int
  BY <1>1, YearLength
<1>4. DaysBefore(y, k) \in Nat /\ Place(h) = DaysBefore(y, k) + d - 1 /\ CountOf(h) = HebrewNewYear(y) + Place(h)
  BY <1>1, DaysBeforeType DEF Place, CountOf
<1>5. \A m \in 1 .. 13 : \A x \in Int : HebrewLastDayOfMonth(m, x) \in {29, 30} BY TheMonthsAre
<1> DEFINE last == HebrewLastDayOfMonth(k, y)
<1>6. last \in {29, 30} BY <1>1, <1>5
<1>7. CASE d < last
  <2>1. g = [year |-> y, month |-> k, day |-> d + 1] BY <1>2, <1>7 DEF NextHebrew
  <2> HIDE DEF y, k, d, g, last
  <2>2. Dated(g) BY <1>1, <1>6, <1>7, <2>1 DEF Dated, last
  <2>3. Place(g) = DaysBefore(y, k) + (d + 1) - 1 /\ CountOf(g) = HebrewNewYear(y) + Place(g)
    BY <2>1 DEF Place, CountOf
  <2>4. Place(g) = Place(h) + 1 /\ CountOf(g) = CountOf(h) + 1 /\ g.year = y BY <1>1, <1>3, <1>4, <2>1, <2>3
  <2> QED BY <2>2, <2>4 DEF y, g
<1>8. CASE ~(d < last) /\ k = 6
  <2>1. g = [year |-> y + 1, month |-> 7, day |-> 1] BY <1>2, <1>8 DEF NextHebrew
  <2>2. DaysBefore(y, k) + last = HebrewDaysInYear(y) BY <1>1, <1>8, MonthsFollow
  <2> HIDE DEF y, k, d, g, last
  <2>3. HebrewLastDayOfMonth(7, y + 1) \in {29, 30}
    <3> 7 \in 1 .. 13 /\ y + 1 \in Int BY <1>1
    <3> QED BY <1>5
  <2>4. Dated(g) BY <1>1, <2>1, <2>3 DEF Dated
  <2>5. Place(g) = 0 /\ CountOf(g) = HebrewNewYear(y + 1) + 0 /\ g.year = y + 1
    BY <2>1 DEF Place, CountOf, DaysBefore
  <2>6. d = last BY <1>1, <1>6, <1>8 DEF last
  <2>7. Place(h) = HebrewDaysInYear(y) - 1 /\ CountOf(g) = CountOf(h) + 1
    BY <1>1, <1>3, <1>4, <1>6, <2>2, <2>5, <2>6
  <2> QED BY <2>4, <2>5, <2>7 DEF y, g
<1>9. CASE ~(d < last) /\ k # 6
  <2> DEFINE next == IF k = HebrewMonthsInYear(y) THEN 1 ELSE k + 1
  <2>1. g = [year |-> y, month |-> next, day |-> 1] BY <1>2, <1>9 DEF NextHebrew
  <2>2. /\ next \in 1 .. 13 /\ (next = 13 => IsHebrewLeap(y))
        /\ DaysBefore(y, k) + last = DaysBefore(y, next)
    BY <1>1, <1>9, MonthsFollow
  <2> HIDE DEF y, k, d, g, last, next
  <2>3. HebrewLastDayOfMonth(next, y) \in {29, 30} BY <1>1, <1>5, <2>2
  <2>4. Dated(g) BY <1>1, <2>1, <2>2, <2>3 DEF Dated
  <2>5. Place(g) = DaysBefore(y, next) + 1 - 1 /\ CountOf(g) = HebrewNewYear(y) + Place(g) /\ g.year = y
    BY <2>1 DEF Place, CountOf
  <2>6. d = last BY <1>1, <1>6, <1>9 DEF last
  <2>7. Place(g) = Place(h) + 1 /\ CountOf(g) = CountOf(h) + 1
    BY <1>1, <1>3, <1>4, <1>6, <2>2, <2>5, <2>6
  <2> QED BY <2>4, <2>5, <2>7 DEF y, g
<1> QED BY <1>7, <1>8, <1>9

(* The same of the Gregorian calendar.                                     *)
GregorianDated(g) ==
    /\ g \in [year : Int, month : 1 .. 12, day : Nat \ {0}]
    /\ g.day <= GregorianDaysInMonth(g.month, g.year)
GregorianCount(g) == FixedFromGregorian(g.year, g.month, g.day)

(* The leap days up to a year.                                             *)
LeapDays(y) == (y \div 4) - (y \div 100) + (y \div 400)

LEMMA LeapDaysAdd ==
    ASSUME NEW y \in Int
    PROVE  /\ LeapDays(y - 1) \in Int
           /\ LeapDays(y) = LeapDays(y - 1) + IF IsGregorianLeap(y) THEN 1 ELSE 0
<1>1. /\ y \div 4 \in Int /\ (y - 1) \div 4 \in Int
      /\ y \div 4 = ((y - 1) \div 4) + (IF y % 4 = 0 THEN 1 ELSE 0)
  OBVIOUS
<1>2. /\ y \div 100 \in Int /\ (y - 1) \div 100 \in Int
      /\ y \div 100 = ((y - 1) \div 100) + (IF y % 100 = 0 THEN 1 ELSE 0)
  OBVIOUS
<1>3. /\ y \div 400 \in Int /\ (y - 1) \div 400 \in Int
      /\ y \div 400 = ((y - 1) \div 400) + (IF y % 400 = 0 THEN 1 ELSE 0)
  OBVIOUS
<1>4. (y % 400 = 0 => y % 100 = 0) /\ (y % 100 = 0 => y % 4 = 0) OBVIOUS
<1> QED BY <1>1, <1>2, <1>3, <1>4 DEF LeapDays, IsGregorianLeap

Before(y, m) ==
    365 * (y - 1) + LeapDays(y - 1) + ((367 * m - 362) \div 12)
        + (IF m <= 2 THEN 0 ELSE IF IsGregorianLeap(y) THEN -1 ELSE -2)

LEMMA GregorianIs ==
    ASSUME NEW y \in Int, NEW m \in Int, NEW d \in Int
    PROVE  FixedFromGregorian(y, m, d) = Before(y, m) + d /\ Before(y, m) \in Int
<1> DEFINE c == (367 * m - 362) \div 12
           e == IF m <= 2 THEN 0 ELSE IF IsGregorianLeap(y) THEN -1 ELSE -2
<1>1. c \in Int /\ e \in Int OBVIOUS
<1>2. (y - 1) \div 4 \in Int /\ (y - 1) \div 100 \in Int /\ (y - 1) \div 400 \in Int OBVIOUS
<1>3. FixedFromGregorian(y, m, d)
        = 365 * (y - 1) + ((y - 1) \div 4) - ((y - 1) \div 100) + ((y - 1) \div 400) + c + e + d
  BY DEF FixedFromGregorian
<1>4. Before(y, m) = 365 * (y - 1) + LeapDays(y - 1) + c + e BY DEF Before
<1> HIDE DEF c, e
<1> QED BY <1>1, <1>2, <1>3, <1>4 DEF LeapDays

LEMMA BeforeJanuary ==
    ASSUME NEW y \in Int, LeapDays(y - 1) \in Int
    PROVE  Before(y, 1) = 365 * (y - 1) + LeapDays(y - 1)
<1> DEFINE m == 1
<1>1. Before(y, m) = 365 * (y - 1) + LeapDays(y - 1) + ((367 * m - 362) \div 12)
                       + (IF m <= 2 THEN 0 ELSE IF IsGregorianLeap(y) THEN -1 ELSE -2)
  <2> HIDE DEF m
  <2> QED BY DEF Before
<1>2. (367 * m - 362) \div 12 = 0 /\ m <= 2 OBVIOUS
<1> HIDE DEF m
<1> Before(y, m) = 365 * (y - 1) + LeapDays(y - 1) BY <1>1, <1>2
<1> QED BY DEF m

LEMMA NextGregorianIs ==
    ASSUME NEW g, GregorianDated(g)
    PROVE  /\ GregorianDated(NextGregorian(g)) /\ GregorianCount(g) \in Int
           /\ GregorianCount(NextGregorian(g)) = GregorianCount(g) + 1
<1> DEFINE y == g.year
           m == g.month
           d == g.day
           h == NextGregorian(g)
           e(z) == IF IsGregorianLeap(z) THEN -1 ELSE -2
           last == GregorianDaysInMonth(m, y)
<1>1. /\ g = [year |-> y, month |-> m, day |-> d] /\ y \in Int /\ m \in 1 .. 12 /\ d \in Nat \ {0}
      /\ d <= last /\ d \in Int
  BY DEF GregorianDated
<1>2. GregorianCount(g) = FixedFromGregorian(y, m, d) BY DEF GregorianCount
<1> HIDE DEF y, m, d, h
<1>3. /\ FixedFromGregorian(y, m, d) = Before(y, m) + d /\ Before(y, m) \in Int
      /\ Before(y, m) = 365 * (y - 1) + LeapDays(y - 1) + ((367 * m - 362) \div 12)
                          + (IF m <= 2 THEN 0 ELSE e(y))
  <2> m \in Int BY <1>1
  <2>1. FixedFromGregorian(y, m, d) = Before(y, m) + d /\ Before(y, m) \in Int BY <1>1, GregorianIs
  <2> QED BY <2>1 DEF Before
<1>4. LeapDays(y - 1) \in Int /\ LeapDays(y) = LeapDays(y - 1) + 2 + e(y)
  BY <1>1, LeapDaysAdd
<1>5. e(y) \in {-1, -2} /\ (367 * m - 362) \div 12 \in Int BY <1>1
<1>6. last = (IF m = 2 THEN 30 + e(y) ELSE IF m \in {4, 6, 9, 11} THEN 30 ELSE 31) /\ last \in Int
  BY <1>1 DEF GregorianDaysInMonth
<1>7. \A z \in Int : \A k \in 1 .. 12 : GregorianDaysInMonth(k, z) \in Nat \ {0}
  BY DEF GregorianDaysInMonth
<1>8. CASE d < last
  <2>1. h = [year |-> y, month |-> m, day |-> d + 1] BY <1>1, <1>8 DEF NextGregorian, h, y, m, d
  <2> HIDE DEF last, e
  <2>2. GregorianDated(h) BY <1>1, <1>6, <1>8, <2>1 DEF GregorianDated, last
  <2>3. GregorianCount(h) = FixedFromGregorian(y, m, d + 1) BY <2>1 DEF GregorianCount
  <2>4. FixedFromGregorian(y, m, d + 1) = Before(y, m) + (d + 1)
    <3> m \in Int /\ d + 1 \in Int BY <1>1
    <3> QED BY <1>1, GregorianIs
  <2>5. GregorianCount(h) = GregorianCount(g) + 1 BY <1>1, <1>2, <1>3, <2>3, <2>4
  <2> QED BY <1>1, <1>2, <1>3, <2>2, <2>5 DEF h
<1>9. CASE ~(d < last) /\ m = 12
  <2>1. h = [year |-> y + 1, month |-> 1, day |-> 1] BY <1>1, <1>9 DEF NextGregorian, h, y, m, d
  <2> HIDE DEF last, e
  <2>2. GregorianDated(h) BY <1>1, <1>7, <2>1 DEF GregorianDated
  <2>3. GregorianCount(h) = FixedFromGregorian(y + 1, 1, 1) BY <2>1 DEF GregorianCount
  <2>4. FixedFromGregorian(y + 1, 1, 1) = 365 * y + LeapDays(y) + 1
    <3>1. y + 1 \in Int /\ 1 \in Int /\ y + 1 - 1 = y BY <1>1
    <3>2. FixedFromGregorian(y + 1, 1, 1) = Before(y + 1, 1) + 1 BY <3>1, GregorianIs
    <3>3. (367 * 1 - 362) \div 12 = 0 OBVIOUS
    <3>4. Before(y + 1, 1) = 365 * y + LeapDays(y)
      <4> DEFINE x == y + 1
      <4>1. x \in Int /\ x - 1 = y /\ LeapDays(y) \in Int BY <1>1, <1>4, <1>5
      <4> HIDE DEF x
      <4>2. LeapDays(x - 1) \in Int BY <4>1
      <4>3. Before(x, 1) = 365 * (x - 1) + LeapDays(x - 1) BY <4>1, <4>2, BeforeJanuary
      <4> QED BY <1>1, <4>1, <4>3 DEF x
    <3> QED BY <1>1, <1>4, <1>5, <3>2, <3>4
  <2>5. (367 * 12 - 362) \div 12 = 336 OBVIOUS
  <2>6. GregorianCount(h) = GregorianCount(g) + 1
    BY <1>1, <1>2, <1>3, <1>4, <1>5, <1>6, <1>9, <2>3, <2>4, <2>5
  <2> QED BY <1>1, <1>2, <1>3, <2>2, <2>6 DEF h
<1>10. CASE ~(d < last) /\ m # 12
  <2>1. h = [year |-> y, month |-> m + 1, day |-> 1] BY <1>1, <1>10 DEF NextGregorian, h, y, m, d
  <2> HIDE DEF last
  <2>0. m + 1 \in 1 .. 12 /\ m \in 1 .. 11 BY <1>1, <1>10
  <2>2. GregorianDated(h)
    <3> GregorianDaysInMonth(m + 1, y) \in Nat \ {0} BY <1>1, <1>7, <2>0
    <3> QED BY <1>1, <2>0, <2>1 DEF GregorianDated
  <2>3. GregorianCount(h) = FixedFromGregorian(y, m + 1, 1) BY <2>1 DEF GregorianCount
  <2>4. /\ FixedFromGregorian(y, m + 1, 1) = Before(y, m + 1) + 1
        /\ Before(y, m + 1) = 365 * (y - 1) + LeapDays(y - 1) + ((367 * (m + 1) - 362) \div 12)
                                + (IF m + 1 <= 2 THEN 0 ELSE e(y))
    <3>1. m + 1 \in Int /\ 1 \in Int BY <2>0
    <3>2. FixedFromGregorian(y, m + 1, 1) = Before(y, m + 1) + 1 BY <1>1, <3>1, GregorianIs
    <3> QED BY <3>2 DEF Before
  <2> HIDE DEF e
  <2>5. ((367 * (m + 1) - 362) \div 12) - ((367 * m - 362) \div 12)
          = (IF m = 2 THEN 30 ELSE IF m \in {4, 6, 9, 11} THEN 30 ELSE 31)
    BY <2>0
  <2>6. d = last BY <1>1, <1>6, <1>10
  <2>7. GregorianCount(h) = GregorianCount(g) + 1
    BY <1>1, <1>2, <1>3, <1>4, <1>5, <1>6, <2>0, <2>3, <2>4, <2>5, <2>6
  <2> QED BY <1>1, <1>2, <1>3, <2>2, <2>7 DEF h
<1> QED BY <1>8, <1>9, <1>10

(* The letters of a number up to 999 add up to it.                         *)
LEMMA SumOfLast ==
    ASSUME NEW n \in Nat \ {0}, NEW t \in [1 .. n -> Int], NEW s \in [1 .. n - 1 -> Int],
           \A k \in 1 .. n - 1 : t[k] = s[k]
    PROVE  SumFunction(t) = t[n] + SumFunction(s) /\ SumFunction(s) \in Int
<1> DEFINE S == 1 .. n
           R == S \ {n}
<1>1. IsFiniteSet(S) /\ R = 1 .. n - 1 /\ n \in S
  <2> 1 \in Int /\ n \in Int OBVIOUS
  <2> IsFiniteSet(S) BY FS_Interval
  <2> QED OBVIOUS
<1>2. t \in [S -> Int] /\ s \in [R -> Int] /\ \A k \in R : s[k] = t[k] BY <1>1
<1> HIDE DEF S
<1>3. Splits(t, n, s) BY <1>1, <1>2, SumSplits
<1> QED BY <1>3 DEF Splits

LEMMA SumOfAppend ==
    ASSUME NEW s \in Seq(Int), NEW v \in Int
    PROVE  /\ SumFunction(Append(s, v)) = SumFunction(s) + v
           /\ SumFunction(s) \in Int /\ Append(s, v) \in Seq(Int)
<1> DEFINE t == Append(s, v)
           n == Len(s) + 1
<1>1. n \in Nat \ {0} /\ t \in Seq(Int) /\ Len(t) = n /\ t[n] = v
      /\ \A k \in 1 .. n - 1 : t[k] = s[k]
  OBVIOUS
<1>2. s \in [1 .. n - 1 -> Int]
  <2> n - 1 = Len(s) OBVIOUS
  <2> QED OBVIOUS
<1> HIDE DEF t, n
<1>3. t \in [1 .. n -> Int] BY <1>1
<1>4. SumFunction(t) = t[n] + SumFunction(s) /\ SumFunction(s) \in Int
  BY <1>1, <1>2, <1>3, SumOfLast
<1> QED BY <1>1, <1>4 DEF t

LEMMA TwoLetters ==
    ASSUME NEW v \in Int, NEW w \in Int PROVE <<v>> \o <<w>> = <<v, w>>
<1> DEFINE a == <<v>>
           b == <<w>>
           p == a \o b
           q == <<v, w>>
<1>1. a \in Seq(Int) /\ b \in Seq(Int) /\ q \in Seq(Int) OBVIOUS
<1>2. Len(p) = 2 /\ p[1] = v /\ p[2] = w /\ Len(q) = 2 /\ q[1] = v /\ q[2] = w OBVIOUS
<1>3. p \in Seq(Int)
  <2> HIDE DEF a, b
  <2> QED BY <1>1, ConcatProperties
<1> HIDE DEF p, q
<1>4. \A i \in 1 .. Len(p) : p[i] = q[i] BY <1>2
<1>5. Len(p) = Len(q) BY <1>2
<1>6. p = q BY <1>1, <1>3, <1>4, <1>5, SeqEqual
<1> QED BY <1>6 DEF p, q

LEMMA SumOfEmpty == SumFunction(<<>>) = 0
<1> DEFINE f == <<>>
<1>1. IsFiniteSet({}) /\ f \in [{} -> Int]
  <2> <<>> \in [{} -> Int] OBVIOUS
  <2> QED BY FS_EmptySet
<1> HIDE DEF f
<1>2. PICK g : Summing(f, {}, g) BY <1>1, SumRuns
<1>3. SumFunction(f) = 0 BY <1>2 DEF Summing
<1> QED BY <1>3 DEF f

LEMMA SumOfPair ==
    ASSUME NEW s \in Seq(Int), NEW v \in Int, NEW w \in Int
    PROVE  /\ SumFunction(s \o <<>>) = SumFunction(s)
           /\ SumFunction(s \o <<v>>) = SumFunction(s) + v
           /\ SumFunction(s \o <<v, w>>) = SumFunction(s) + v + w
           /\ SumFunction(s) \in Int
<1>1. s \o <<>> = s /\ s \o <<v>> = Append(s, v) /\ s \o <<v, w>> = Append(Append(s, v), w) OBVIOUS
<1>2. /\ SumFunction(Append(s, v)) = SumFunction(s) + v /\ SumFunction(s) \in Int
      /\ Append(s, v) \in Seq(Int)
  BY SumOfAppend
<1>3. SumFunction(Append(Append(s, v), w)) = SumFunction(Append(s, v)) + w
  BY <1>2, SumOfAppend
<1> QED BY <1>1, <1>2, <1>3

LEMMA LettersAddUp ==
    ASSUME NEW n \in 0 .. 999
    PROVE  SumFunction(HebrewLetters(n)) = n
<1> DEFINE rest == n % 100
           big == n - rest
           ten == 10 * (rest \div 10)
           one == rest % 10
           Digit(value) == IF value = 0 THEN <<>> ELSE <<value>>
           Hundreds(value) == IF value <= 400 THEN Digit(value)
                              ELSE IF value <= 800 THEN <<400, value - 400>> ELSE <<400, 400, 100>>
           tail == IF rest \in {15, 16} THEN <<9, rest - 9>> ELSE Digit(ten) \o Digit(one)
<1>1. HebrewLetters(n) = Hundreds(big) \o tail BY DEF HebrewLetters
<1>2. /\ rest \in 0 .. 99 /\ big \in {0, 100, 200, 300, 400, 500, 600, 700, 800, 900} /\ n = big + rest
      /\ ten \in Int /\ one \in Int /\ rest = ten + one
  OBVIOUS
<1> HIDE DEF rest, big, ten, one
<1>3. /\ SumFunction(<<>>) = 0
      /\ \A v \in Int : SumFunction(<<v>>) = v
      /\ \A v, w \in Int : SumFunction(<<v, w>>) = v + w
      /\ SumFunction(<<400, 400, 100>>) = 900
  <2> DEFINE e == <<>>
  <2>1. e \in Seq(Int) /\ SumFunction(e) = 0 BY SumOfEmpty
  <2>2. ASSUME NEW v \in Int, NEW w \in Int
        PROVE  SumFunction(<<v>>) = v /\ SumFunction(<<v, w>>) = v + w
    <3>1. e \o <<v>> = <<v>> /\ e \o <<v, w>> = <<v, w>> OBVIOUS
    <3> HIDE DEF e
    <3>2. SumFunction(e \o <<v>>) = SumFunction(e) + v /\ SumFunction(e \o <<v, w>>) = SumFunction(e) + v + w
      BY <2>1, SumOfPair
    <3>3. SumFunction(e \o <<v>>) = v /\ SumFunction(e \o <<v, w>>) = v + w BY <2>1, <3>2
    <3> QED BY <3>1, <3>3
  <2>3. SumFunction(<<400, 400, 100>>) = 900
    <3>1. <<400, 400, 100>> = Append(<<400, 400>>, 100) /\ <<400, 400>> \in Seq(Int) /\ 400 \in Int /\ 100 \in Int
      OBVIOUS
    <3>2. SumFunction(Append(<<400, 400>>, 100)) = SumFunction(<<400, 400>>) + 100 BY <3>1, SumOfAppend
    <3>3. SumFunction(<<400, 400>>) = 400 + 400 BY <2>2, <3>1
    <3>4. SumFunction(Append(<<400, 400>>, 100)) = 900 BY <3>2, <3>3
    <3> QED BY <3>1, <3>4
  <2>4. (\A v \in Int : SumFunction(<<v>>) = v) /\ (\A v, w \in Int : SumFunction(<<v, w>>) = v + w) BY <2>2
  <2>5. SumFunction(<<>>) = 0 BY SumOfEmpty
  <2> QED BY <2>3, <2>4, <2>5
<1>4. Hundreds(big) \in Seq(Int) /\ SumFunction(Hundreds(big)) = big
  <2>1. CASE big = 0 BY <1>3, <2>1
  <2>2. CASE big \in {100, 200, 300, 400} BY <1>3, <2>2
  <2>3. CASE big \in {500, 600, 700, 800}
    <3>1. big - 400 \in Int /\ 400 \in Int /\ Hundreds(big) = <<400, big - 400>> BY <2>3
    <3>2. SumFunction(<<400, big - 400>>) = 400 + (big - 400) BY <1>3, <3>1
    <3> QED BY <2>3, <3>1, <3>2
  <2>4. CASE big = 900 BY <1>3, <2>4
  <2> QED BY <1>2, <2>1, <2>2, <2>3, <2>4
<1> DEFINE s == Hundreds(big)
<1>5. s \in Seq(Int) /\ SumFunction(s) = big /\ HebrewLetters(n) = s \o tail BY <1>1, <1>4
<1> HIDE DEF s, Hundreds
<1>6. \A v, w \in Int : /\ SumFunction(s \o <<>>) = big
                        /\ SumFunction(s \o <<v>>) = big + v
                        /\ SumFunction(s \o <<v, w>>) = big + v + w
  BY <1>5, SumOfPair
<1>7. SumFunction(s \o tail) = big + rest
  <2>1. CASE rest \in {15, 16}
    <3> DEFINE v == rest - 9
    <3>1. tail = <<9, v>> /\ 9 \in Int /\ v \in Int /\ 9 + v = rest BY <2>1
    <3> HIDE DEF v, tail
    <3>2. SumFunction(s \o <<9, v>>) = big + 9 + v BY <1>6, <3>1
    <3>3. SumFunction(s \o tail) = big + 9 + v BY <3>1, <3>2
    <3> QED BY <1>2, <3>1, <3>3
  <2>2. CASE rest \notin {15, 16} /\ ten = 0 /\ one = 0
    <3>1. tail = <<>> BY <2>2
    <3>2. SumFunction(s \o <<>>) = big BY <1>2, <1>6
    <3> HIDE DEF tail
    <3>3. SumFunction(s \o tail) = big BY <3>1, <3>2
    <3> QED BY <1>2, <2>2, <3>3
  <2>3. CASE rest \notin {15, 16} /\ ten = 0 /\ one # 0
    <3>1. tail = <<one>> BY <2>3
    <3>2. SumFunction(s \o <<one>>) = big + one BY <1>2, <1>6
    <3> HIDE DEF tail
    <3>3. SumFunction(s \o tail) = big + one BY <3>1, <3>2
    <3> QED BY <1>2, <2>3, <3>3
  <2>4. CASE rest \notin {15, 16} /\ ten # 0 /\ one = 0
    <3>1. tail = <<ten>> BY <2>4
    <3>2. SumFunction(s \o <<ten>>) = big + ten BY <1>2, <1>6
    <3> HIDE DEF tail
    <3>3. SumFunction(s \o tail) = big + ten BY <3>1, <3>2
    <3> QED BY <1>2, <2>4, <3>3
  <2>5. CASE rest \notin {15, 16} /\ ten # 0 /\ one # 0
    <3>1. tail = <<ten, one>> 
      <4> Digit(ten) = <<ten>> /\ Digit(one) = <<one>> BY <2>5
      <4> <<ten>> \o <<one>> = <<ten, one>> BY <1>2, TwoLetters
      <4> QED BY <2>5
    <3>2. SumFunction(s \o <<ten, one>>) = big + ten + one BY <1>2, <1>6
    <3> HIDE DEF tail
    <3>3. SumFunction(s \o tail) = big + ten + one BY <3>1, <3>2
    <3> QED BY <1>2, <3>3
  <2> QED BY <2>1, <2>2, <2>3, <2>4, <2>5
<1> HIDE DEF tail
<1>8. SumFunction(HebrewLetters(n)) = SumFunction(s \o tail) BY <1>5
<1> QED BY <1>2, <1>7, <1>8

CalendarSpec == CalendarInit /\ [][NextDay]_calendarVars

(* Both calendars show dates that they have, of one and the same day.      *)
DatesInv ==
    /\ Dated(hebrew) /\ dayNumber = CountOf(hebrew)
    /\ GregorianDated(gregorian) /\ dayNumber = GregorianCount(gregorian)

LEMMA DatesAtStart == CalendarInit => DatesInv
<1> SUFFICES ASSUME CalendarInit PROVE DatesInv OBVIOUS
<1>1. FirstYear \in Nat \ {0} /\ FirstYear \in Int BY CalendarAssumption
<1>2. HebrewLastDayOfMonth(7, FirstYear) = 30 BY <1>1, TheMonthsAre
<1>3. hebrew = [year |-> FirstYear, month |-> 7, day |-> 1] BY DEF CalendarInit
<1>4. Dated(hebrew) BY <1>1, <1>2, <1>3 DEF Dated
<1>5. Place(hebrew) = 0 BY <1>3 DEF Place, DaysBefore
<1>6. CountOf(hebrew) = HebrewNewYear(FirstYear)
  <2> HebrewNewYear(FirstYear) \in Int BY <1>1, YearLength
  <2> QED BY <1>3, <1>5 DEF CountOf
<1>7. GregorianDated(gregorian) /\ GregorianCount(gregorian) = HebrewNewYear(FirstYear)
  BY CalendarAssumption DEF CalendarInit, GregorianDated, GregorianCount
<1> QED BY <1>4, <1>6, <1>7 DEF DatesInv, CalendarInit

LEMMA DatesAreKeptTogether == DatesInv /\ [NextDay]_calendarVars => DatesInv'
<1> SUFFICES ASSUME DatesInv, [NextDay]_calendarVars PROVE DatesInv' OBVIOUS
<1>1. CASE NextDay
  <2>1. dayNumber' = dayNumber + 1 /\ hebrew' = NextHebrew(hebrew) /\ gregorian' = NextGregorian(gregorian)
    BY <1>1 DEF NextDay
  <2>2. Dated(hebrew) /\ dayNumber = CountOf(hebrew) /\ GregorianDated(gregorian)
        /\ dayNumber = GregorianCount(gregorian)
    BY DEF DatesInv
  <2>3. Dated(NextHebrew(hebrew)) /\ CountOf(NextHebrew(hebrew)) = CountOf(hebrew) + 1 BY <2>2, NextDateIs
  <2>4. /\ GregorianDated(NextGregorian(gregorian))
        /\ GregorianCount(NextGregorian(gregorian)) = GregorianCount(gregorian) + 1
    BY <2>2, NextGregorianIs
  <2>5. Dated(hebrew') /\ dayNumber' = CountOf(hebrew') BY <2>1, <2>2, <2>3
  <2>6. GregorianDated(gregorian') /\ dayNumber' = GregorianCount(gregorian') BY <2>1, <2>2, <2>4
  <2> QED BY <2>5, <2>6 DEF DatesInv, Dated, CountOf, Place, GregorianDated, GregorianCount
<1>2. CASE UNCHANGED calendarVars
  BY <1>2 DEF calendarVars, DatesInv, Dated, CountOf, Place, GregorianDated, GregorianCount
<1> QED BY <1>1, <1>2

LEMMA DatesInvariant == CalendarSpec => []DatesInv
BY DatesAtStart, DatesAreKeptTogether, PTL DEF CalendarSpec

(* The conversions give the dates the calendars show, in every year.       *)
THEOREM CalendarIsRight == CalendarSpec => []CalendarAgrees
<1>1. DatesInv => CalendarAgrees
  <2> SUFFICES ASSUME DatesInv PROVE CalendarAgrees OBVIOUS
  <2>1. Dated(hebrew) /\ dayNumber = CountOf(hebrew) /\ GregorianDated(gregorian)
        /\ dayNumber = GregorianCount(gregorian)
    BY DEF DatesInv
  <2>2. HebrewFromFixed(dayNumber) = hebrew BY <2>1, DateIsFound
  <2>3. FixedFromHebrew(hebrew.year, hebrew.month, hebrew.day) = dayNumber BY <2>1, CountIs
  <2>4. FixedFromGregorian(gregorian.year, gregorian.month, gregorian.day) = dayNumber
    BY <2>1 DEF GregorianCount
  <2>5. ASSUME hebrew.month = 7, hebrew.day = 1 PROVE Weekday(dayNumber) \notin {0, 3, 5}
    <3> DEFINE y == hebrew.year
    <3>1. y \in Int BY <2>1, PlaceIs
    <3>2. Place(hebrew) = 0 BY <2>5 DEF Place, DaysBefore
    <3>3. dayNumber = HebrewNewYear(y) + 0 BY <2>1, <3>2 DEF CountOf
    <3> HIDE DEF y
    <3>4. HebrewNewYear(y) \in Int /\ Weekday(HebrewNewYear(y)) \in {1, 2, 4, 6} BY <3>1, YearLength
    <3>5. dayNumber = HebrewNewYear(y) BY <3>3, <3>4
    <3> QED BY <3>4, <3>5
  <2>6. hebrew.day \in 0 .. 999 /\ hebrew.year % 1000 \in 0 .. 999
    <3>1. hebrew.year \in Nat \ {0} /\ hebrew.month \in 1 .. 13 /\ hebrew.day \in Nat \ {0}
      BY <2>1, PlaceIs
    <3>2. hebrew.year \in Int BY <3>1
    <3>3. HebrewLastDayOfMonth(hebrew.month, hebrew.year) \in {29, 30} BY <3>1, <3>2, TheMonthsAre
    <3>4. hebrew.day <= HebrewLastDayOfMonth(hebrew.month, hebrew.year) BY <2>1 DEF Dated
    <3>5. hebrew.day \in 0 .. 999 BY <3>1, <3>3, <3>4
    <3>6. hebrew.year % 1000 \in 0 .. 999 BY <3>2
    <3> QED BY <3>5, <3>6
  <2>7. \A n \in {hebrew.day, hebrew.year % 1000} : SumFunction(HebrewLetters(n)) = n
    BY <2>6, LettersAddUp
  <2> QED BY <2>2, <2>3, <2>4, <2>5, <2>7 DEF CalendarAgrees
<1> QED BY <1>1, DatesInvariant, PTL

(* A day is a date of the calendar exactly when it has its place.          *)
LEMMA OnItsPlace ==
    ASSUME NEW h, Dated(h), NEW m \in 1 .. 13, m = 13 => IsHebrewLeap(h.year), NEW d \in 1 .. 29
    PROVE  h.month = m /\ h.day = d <=> Place(h) = DaysBefore(h.year, m) + d - 1
<1> DEFINE y == h.year
           k == h.month
           c == h.day
<1>1. /\ y \in Int /\ k \in 1 .. 13 /\ c \in Nat \ {0} /\ (k = 13 => IsHebrewLeap(y))
      /\ c <= HebrewLastDayOfMonth(k, y)
  BY PlaceIs DEF Dated
<1>2. Place(h) = DaysBefore(y, k) + c - 1 BY DEF Place
<1>3. m = 13 => IsHebrewLeap(y) OBVIOUS
<1> HIDE DEF y, k, c
<1>4. DaysBefore(y, k) \in Nat /\ DaysBefore(y, m) \in Nat BY <1>1, DaysBeforeType
<1>5. HebrewLastDayOfMonth(k, y) \in {29, 30} /\ HebrewLastDayOfMonth(m, y) \in {29, 30}
  BY <1>1, TheMonthsAre
<1>6. CASE k = m BY <1>1, <1>2, <1>4, <1>6 DEF y, k, c
<1>7. CASE k # m
  <2>1. \/ DaysBefore(y, k) + HebrewLastDayOfMonth(k, y) <= DaysBefore(y, m)
        \/ DaysBefore(y, m) + HebrewLastDayOfMonth(m, y) <= DaysBefore(y, k)
    <3>1. \/ IF k < 7 THEN k < m /\ m < 7 ELSE k < m \/ m < 7
          \/ IF m < 7 THEN m < k /\ k < 7 ELSE m < k \/ k < 7
      BY <1>1, <1>7
    <3>2. CASE IF k < 7 THEN k < m /\ m < 7 ELSE k < m \/ m < 7
      BY <1>1, <3>2, MonthsInOrder
    <3>3. CASE IF m < 7 THEN m < k /\ k < 7 ELSE m < k \/ k < 7
      BY <1>1, <1>3, <3>3, MonthsInOrder
    <3> QED BY <3>1, <3>2, <3>3
  <2>2. Place(h) # DaysBefore(y, m) + d - 1 BY <1>1, <1>2, <1>4, <1>5, <2>1
  <2> QED BY <1>7, <2>2 DEF y, k
<1> QED BY <1>6, <1>7

(* The place of each fast in the year, and the days from which it is kept. *)
FastMonth(f, y) ==
    CASE f = "gedalia"  -> 7
      [] f = "tevet"    -> 10
      [] f = "esther"   -> IF IsHebrewLeap(y) THEN 13 ELSE 12
      [] f = "tamuz"    -> 4
      [] f = "av"       -> 5
      [] f = "bechorot" -> 1
FastDay(f) ==
    CASE f = "gedalia"  -> 3
      [] f = "tevet"    -> 10
      [] f = "esther"   -> 13
      [] f = "tamuz"    -> 17
      [] f = "av"       -> 9
      [] f = "bechorot" -> 14
FastPlace(f, y) == DaysBefore(y, FastMonth(f, y)) + FastDay(f) - 1

LateFasts  == {"gedalia", "tamuz", "av"}
EarlyFasts == {"esther", "bechorot"}

FastAt(f, q, p, w) ==
    IF f \in LateFasts THEN (p = q /\ w # 6) \/ (p = q + 1 /\ w = 0)
    ELSE IF f \in EarlyFasts THEN (p = q /\ w # 6) \/ (p = q - 2 /\ w = 4)
    ELSE p = q
Over(f, q, p, w) ==
    IF f \in LateFasts THEN p > q \/ (p = q /\ w # 6)
    ELSE IF f \in EarlyFasts THEN p >= q \/ (p = q - 1 /\ w = 5) \/ (p = q - 2 /\ w = 4)
    ELSE p >= q

LEMMA FastPlaceIs ==
    ASSUME NEW y \in Int, NEW f \in Fasts
    PROVE  /\ FastMonth(f, y) \in 1 .. 13 /\ (FastMonth(f, y) = 13 => IsHebrewLeap(y))
           /\ FastDay(f) \in 3 .. 17
           /\ FastPlace(f, y) \in Nat /\ 2 <= FastPlace(f, y) /\ (f \in EarlyFasts => 3 <= FastPlace(f, y))
           /\ FastPlace(f, y) + 1 < HebrewDaysInYear(y)
<1>1. f \in {"gedalia", "tevet", "esther", "tamuz", "av", "bechorot"} BY DEF Fasts
<1>2. Cheshvan(y) \in {29, 30} /\ Kislev(y) \in {29, 30}
      /\ HebrewDaysInYear(y) = (IF IsHebrewLeap(y) THEN 325 ELSE 295) + Cheshvan(y) + Kislev(y)
  BY TheMonthsAre
<1>3. CASE f = "gedalia"
  BY <1>2, <1>3 DEF FastPlace, FastMonth, FastDay, DaysBefore, EarlyFasts
<1>4. CASE f = "tevet"
  BY <1>2, <1>4 DEF FastPlace, FastMonth, FastDay, DaysBefore, EarlyFasts
<1>5. CASE f = "esther"
  BY <1>2, <1>5 DEF FastPlace, FastMonth, FastDay, DaysBefore, EarlyFasts
<1>6. CASE f = "tamuz"
  BY <1>2, <1>6 DEF FastPlace, FastMonth, FastDay, DaysBefore, EarlyFasts
<1>7. CASE f = "av"
  BY <1>2, <1>7 DEF FastPlace, FastMonth, FastDay, DaysBefore, EarlyFasts
<1>8. CASE f = "bechorot"
  BY <1>2, <1>8 DEF FastPlace, FastMonth, FastDay, DaysBefore, EarlyFasts
<1> QED BY <1>1, <1>3, <1>4, <1>5, <1>6, <1>7, <1>8

LEMMA FastOnIs ==
    ASSUME NEW h, Dated(h), NEW w, NEW f \in Fasts
    PROVE  f \in FastOn(h, w) <=> FastAt(f, FastPlace(f, h.year), Place(h), w)
<1> DEFINE y == h.year
           m == FastMonth(f, y)
           d == FastDay(f)
           On(x) == h.month = m /\ h.day = x
           q == FastPlace(f, y)
<1>1. y \in Int BY PlaceIs
<1>2. m \in 1 .. 13 /\ (m = 13 => IsHebrewLeap(y)) /\ d \in 3 .. 17 BY <1>1, FastPlaceIs
<1>3. ASSUME NEW x \in 1 .. 29 PROVE On(x) <=> Place(h) = DaysBefore(y, m) + x - 1
  BY <1>2, OnItsPlace
<1>4. f \in FastOn(h, w) <=> IF f \in LateFasts THEN (On(d) /\ w # 6) \/ (On(d + 1) /\ w = 0)
                             ELSE IF f \in EarlyFasts THEN (On(d) /\ w # 6) \/ (On(d - 2) /\ w = 4)
                             ELSE On(d)
  <2>1. f \in {"gedalia", "tevet", "esther", "tamuz", "av", "bechorot"} BY DEF Fasts
  <2>2. CASE f = "gedalia" BY <2>2 DEF FastOn, FastMonth, FastDay, LateFasts, EarlyFasts, Fasts
  <2>3. CASE f = "tevet" BY <2>3 DEF FastOn, FastMonth, FastDay, LateFasts, EarlyFasts, Fasts
  <2>4. CASE f = "esther" BY <2>4 DEF FastOn, FastMonth, FastDay, LateFasts, EarlyFasts, Fasts
  <2>5. CASE f = "tamuz" BY <2>5 DEF FastOn, FastMonth, FastDay, LateFasts, EarlyFasts, Fasts
  <2>6. CASE f = "av" BY <2>6 DEF FastOn, FastMonth, FastDay, LateFasts, EarlyFasts, Fasts
  <2>7. CASE f = "bechorot" BY <2>7 DEF FastOn, FastMonth, FastDay, LateFasts, EarlyFasts, Fasts
  <2> QED BY <2>1, <2>2, <2>3, <2>4, <2>5, <2>6, <2>7
<1>5. q = DaysBefore(y, m) + d - 1 BY DEF FastPlace
<1>6. DaysBefore(y, m) \in Nat BY <1>1, <1>2, DaysBeforeType
<1> HIDE DEF On, y, m, d, q
<1>7. d \in Int /\ d \in 1 .. 29 /\ d + 1 \in 1 .. 29 /\ d - 2 \in 1 .. 29 BY <1>2
<1>8. /\ On(d) <=> Place(h) = q
      /\ On(d + 1) <=> Place(h) = q + 1
      /\ On(d - 2) <=> Place(h) = q - 2
  <2>1. On(d) <=> Place(h) = DaysBefore(y, m) + d - 1 BY <1>3, <1>7
  <2>2. On(d + 1) <=> Place(h) = DaysBefore(y, m) + (d + 1) - 1 BY <1>3, <1>7
  <2>3. On(d - 2) <=> Place(h) = DaysBefore(y, m) + (d - 2) - 1 BY <1>3, <1>7
  <2> QED BY <1>5, <1>6, <1>7, <2>1, <2>2, <2>3
<1> QED BY <1>4, <1>8 DEF FastAt, q, y

(* 10 Tevet never falls on Shabbat: the new year it would need, or the next*)
(* one, would be on a forbidden day.                                       *)
LEMMA TevetIsNotShabbat ==
    ASSUME NEW y \in Int
    PROVE  Weekday(HebrewNewYear(y) + FastPlace("tevet", y)) # 6
<1>1. /\ HebrewNewYear(y) \in Int /\ Weekday(HebrewNewYear(y)) \in {1, 2, 4, 6}
      /\ HebrewDaysInYear(y) \in IF IsHebrewLeap(y) THEN {383, 384, 385} ELSE {353, 354, 355}
      /\ HebrewNewYear(y + 1) = HebrewNewYear(y) + HebrewDaysInYear(y)
  BY YearLength
<1>2. Weekday(HebrewNewYear(y + 1)) \in {1, 2, 4, 6}
  <2> y + 1 \in Int OBVIOUS
  <2> QED BY YearLength
<1>3. /\ HebrewDaysInYear(y) = (IF IsHebrewLeap(y) THEN 325 ELSE 295) + Cheshvan(y) + Kislev(y)
      /\ Cheshvan(y) \in {29, 30} /\ Kislev(y) \in {29, 30}
  BY TheMonthsAre
<1>4. FastPlace("tevet", y) = 39 + Cheshvan(y) + Kislev(y)
  BY <1>3 DEF FastPlace, FastMonth, FastDay, DaysBefore
<1> DEFINE n == HebrewNewYear(y)
           s == Cheshvan(y) + Kislev(y)
           t == FastPlace("tevet", y)
           l == HebrewDaysInYear(y)
<1>5. n \in Int /\ s \in {58, 59, 60} /\ t = 39 + s /\ l = (IF IsHebrewLeap(y) THEN 325 ELSE 295) + s
      /\ n % 7 \in {1, 2, 4, 6} /\ (n + l) % 7 \in {1, 2, 4, 6}
  BY <1>1, <1>2, <1>3, <1>4 DEF Weekday
<1> HIDE DEF n, s, t, l
<1>6. (n + t) % 7 # 6
  <2>1. PICK r \in {1, 2, 4, 6} : n % 7 = r BY <1>5
  <2>2. CASE s = 58 BY <1>5, <2>1, <2>2
  <2>3. CASE s = 59 BY <1>5, <2>1, <2>3
  <2>4. CASE s = 60 BY <1>5, <2>1, <2>4
  <2> QED BY <1>5, <2>2, <2>3, <2>4
<1> QED BY <1>6 DEF n, t, Weekday

IsOver(f, h, n) == Over(f, FastPlace(f, h.year), Place(h), Weekday(n))
KeptInv == kept = [f \in Fasts |-> IF IsOver(f, hebrew, dayNumber) THEN 1 ELSE 0]
FastsInv == DatesInv /\ KeptInv

(* A fast is over from one of its days on, and that day is only once.      *)
LEMMA OverIs ==
    ASSUME NEW f \in Fasts, NEW q \in Nat, NEW p \in Nat, NEW n \in Int, 2 <= q,
           f \in EarlyFasts => 3 <= q
    PROVE  /\ Over(f, q, p + 1, Weekday(n + 1))
                <=> Over(f, q, p, Weekday(n)) \/ FastAt(f, q, p + 1, Weekday(n + 1))
           /\ ~(Over(f, q, p, Weekday(n)) /\ FastAt(f, q, p + 1, Weekday(n + 1)))
           /\ ~Over(f, q, 0, Weekday(n)) /\ ~FastAt(f, q, 0, Weekday(n))
           /\ q < p => Over(f, q, p, Weekday(n))
<1> DEFINE w == Weekday(n)
           v == Weekday(n + 1)
<1>1. w \in 0 .. 6 /\ v \in 0 .. 6 /\ v = (IF w = 6 THEN 0 ELSE w + 1) BY DEF Weekday
<1> HIDE DEF w, v
<1>2. CASE f \in LateFasts
  BY <1>1, <1>2 DEF Over, FastAt, w, v
<1>3. CASE f \notin LateFasts /\ f \in EarlyFasts
  BY <1>1, <1>3 DEF Over, FastAt, w, v
<1>4. CASE f \notin LateFasts /\ f \notin EarlyFasts
  BY <1>1, <1>4 DEF Over, FastAt, w, v
<1> QED BY <1>2, <1>3, <1>4

(* One day of the walk, for one fast.                                      *)
LEMMA OneFast ==
    ASSUME DatesInv, KeptInv, NextDay, NEW f \in Fasts
    PROVE  /\ kept[f] = IF IsOver(f, hebrew, dayNumber) THEN 1 ELSE 0
           /\ kept'[f] = IF IsOver(f, hebrew', dayNumber') THEN 1 ELSE 0
           /\ hebrew'.year # hebrew.year => kept[f] = 1
           /\ hebrew'.year = hebrew.year /\ Weekday(dayNumber') = 6 => kept'[f] = kept[f]
<1> DEFINE h == hebrew
           g == NextHebrew(hebrew)
           n == dayNumber
           p == Place(h)
           y == h.year
<1>1. Dated(h) /\ n = CountOf(h) BY DEF DatesInv
<1>2. hebrew' = g /\ dayNumber' = n + 1 BY DEF NextDay
<1>3. /\ Dated(g) /\ CountOf(g) = CountOf(h) + 1
      /\ \/ g.year = y /\ Place(g) = p + 1
         \/ g.year = y + 1 /\ Place(g) = 0 /\ p = HebrewDaysInYear(y) - 1
  BY <1>1, NextDateIs
<1>4. p \in Nat /\ y \in Int /\ n \in Int BY <1>1, PlaceIs, CountIs
<1>5. kept[f] = IF IsOver(f, h, n) THEN 1 ELSE 0 BY DEF KeptInv
<1>6. kept'[f] = (IF hebrew'.year = hebrew.year THEN kept[f] ELSE 0)
                     + (IF f \in FastOn(hebrew', Weekday(dayNumber')) THEN 1 ELSE 0)
  BY DEF NextDay
<1>7. kept'[f] = (IF g.year = y THEN kept[f] ELSE 0) + (IF f \in FastOn(g, Weekday(n + 1)) THEN 1 ELSE 0)
  BY <1>2, <1>6
<1>8. f \in FastOn(g, Weekday(n + 1)) <=> FastAt(f, FastPlace(f, g.year), Place(g), Weekday(n + 1))
  BY <1>3, FastOnIs
<1> HIDE DEF h, g, n, p, y
<1>9. CASE g.year = y /\ Place(g) = p + 1
  <2> DEFINE q == FastPlace(f, y)
  <2>1. q \in Nat /\ 2 <= q /\ (f \in EarlyFasts => 3 <= q) BY <1>4, FastPlaceIs
  <2>2. IsOver(f, h, n) <=> Over(f, q, p, Weekday(n)) BY DEF IsOver, p, y
  <2>3. IsOver(f, g, n + 1) <=> Over(f, q, p + 1, Weekday(n + 1)) BY <1>9 DEF IsOver
  <2>4. f \in FastOn(g, Weekday(n + 1)) <=> FastAt(f, q, p + 1, Weekday(n + 1)) BY <1>8, <1>9
  <2> HIDE DEF q
  <2>5. /\ Over(f, q, p + 1, Weekday(n + 1))
              <=> Over(f, q, p, Weekday(n)) \/ FastAt(f, q, p + 1, Weekday(n + 1))
        /\ ~(Over(f, q, p, Weekday(n)) /\ FastAt(f, q, p + 1, Weekday(n + 1)))
    BY <1>4, <2>1, OverIs
  <2>6. kept'[f] = IF IsOver(f, g, n + 1) THEN 1 ELSE 0
    BY <1>5, <1>7, <1>9, <2>2, <2>3, <2>4, <2>5
  <2>7. Weekday(n + 1) = 6 => ~FastAt(f, q, p + 1, Weekday(n + 1))
    <3> SUFFICES ASSUME Weekday(n + 1) = 6, FastAt(f, q, p + 1, 6) PROVE FALSE OBVIOUS
    <3>1. f \notin LateFasts /\ f \notin EarlyFasts /\ p + 1 = q BY DEF FastAt
    <3>2. f = "tevet" BY <3>1 DEF Fasts, LateFasts, EarlyFasts
    <3>3. n + 1 = HebrewNewYear(y) + q
      <4>1. n = HebrewNewYear(y) + p BY <1>1 DEF CountOf, p, y
      <4>2. HebrewNewYear(y) \in Int BY <1>4, YearLength
      <4> QED BY <1>4, <3>1, <4>1, <4>2
    <3>4. Weekday(HebrewNewYear(y) + q) # 6 BY <1>4, <3>2, TevetIsNotShabbat DEF q
    <3> QED BY <3>3, <3>4
  <2>8. Weekday(n + 1) = 6 => kept'[f] = kept[f] BY <1>5, <1>7, <1>9, <2>4, <2>7
  <2> QED BY <1>2, <1>5, <1>9, <2>6, <2>8 DEF h, n, y
<1>10. CASE g.year = y + 1 /\ Place(g) = 0 /\ p = HebrewDaysInYear(y) - 1
  <2> DEFINE q == FastPlace(f, y + 1)
             r == FastPlace(f, y)
  <2>0. y + 1 \in Int /\ n + 1 \in Int /\ y + 1 # y BY <1>4
  <2>1. q \in Nat /\ 2 <= q /\ (f \in EarlyFasts => 3 <= q) BY <2>0, FastPlaceIs
  <2>2. r \in Nat /\ 2 <= r /\ (f \in EarlyFasts => 3 <= r) /\ r + 1 < HebrewDaysInYear(y)
    BY <1>4, FastPlaceIs
  <2>3. HebrewDaysInYear(y) \in Int
    <3> HebrewDaysInYear(y) \in IF IsHebrewLeap(y) THEN {383, 384, 385} ELSE {353, 354, 355}
      BY <1>4, YearLength
    <3> QED OBVIOUS
  <2>4. IsOver(f, h, n) <=> Over(f, r, p, Weekday(n)) BY DEF IsOver, p, y
  <2>5. IsOver(f, g, n + 1) <=> Over(f, q, 0, Weekday(n + 1)) BY <1>10 DEF IsOver
  <2>6. f \in FastOn(g, Weekday(n + 1)) <=> FastAt(f, q, 0, Weekday(n + 1)) BY <1>8, <1>10
  <2> HIDE DEF q, r
  <2>7. r < p BY <1>4, <1>10, <2>2, <2>3
  <2>8. Over(f, r, p, Weekday(n)) BY <1>4, <2>2, <2>7, OverIs
  <2>9. ~Over(f, q, 0, Weekday(n + 1)) /\ ~FastAt(f, q, 0, Weekday(n + 1))
    BY <1>4, <2>0, <2>1, OverIs
  <2>10. kept[f] = 1 /\ kept'[f] = 0 /\ ~IsOver(f, g, n + 1)
    BY <1>5, <1>7, <1>10, <2>0, <2>4, <2>5, <2>6, <2>8, <2>9
  <2> QED BY <1>2, <1>5, <1>10, <2>0, <2>10 DEF h, n, y
<1> QED BY <1>3, <1>9, <1>10

LEMMA FastsInvariant == CalendarSpec => []FastsInv
<1>1. CalendarInit => FastsInv
  <2> SUFFICES ASSUME CalendarInit PROVE KeptInv BY DatesAtStart DEF FastsInv
  <2>1. Dated(hebrew) BY DatesAtStart DEF DatesInv
  <2>2. hebrew = [year |-> FirstYear, month |-> 7, day |-> 1] BY DEF CalendarInit
  <2>3. Place(hebrew) = 0 /\ hebrew.year \in Int
    <3>1. Place(hebrew) = 0 BY <2>2 DEF Place, DaysBefore
    <3>2. hebrew.year \in Int BY <2>1, PlaceIs
    <3> QED BY <3>1, <3>2
  <2>4. dayNumber \in Int BY <2>1, DatesAtStart, CountIs DEF DatesInv
  <2>5. ASSUME NEW f \in Fasts PROVE ~IsOver(f, hebrew, dayNumber)
    <3> DEFINE q == FastPlace(f, hebrew.year)
    <3>1. q \in Nat /\ 2 <= q /\ (f \in EarlyFasts => 3 <= q) BY <2>3, FastPlaceIs
    <3> HIDE DEF q
    <3>2. 0 \in Nat OBVIOUS
    <3>3. ~Over(f, q, 0, Weekday(dayNumber)) BY <2>4, <3>1, <3>2, OverIs
    <3> QED BY <2>3, <3>3 DEF IsOver, q
  <2>6. kept = [f \in Fasts |-> 0] BY DEF CalendarInit
  <2> HIDE DEF IsOver
  <2> QED BY <2>5, <2>6 DEF KeptInv
<1>2. FastsInv /\ [NextDay]_calendarVars => FastsInv'
  <2> SUFFICES ASSUME DatesInv, KeptInv, [NextDay]_calendarVars PROVE FastsInv' BY DEF FastsInv
  <2>1. DatesInv' BY DatesAreKeptTogether
  <2>2. CASE NextDay
    <3>1. \A f \in Fasts : kept'[f] = IF IsOver(f, hebrew', dayNumber') THEN 1 ELSE 0
      BY <2>2, OneFast
    <3>2. kept' = [f \in Fasts |-> kept'[f]]
      BY <2>2 DEF NextDay
    <3>3. kept' = [f \in Fasts |-> IF IsOver(f, hebrew', dayNumber') THEN 1 ELSE 0] BY <3>1, <3>2
    <3>4. KeptInv' BY <3>3 DEF KeptInv, IsOver, Place
    <3> QED BY <2>1, <3>4 DEF FastsInv
  <2>3. CASE UNCHANGED calendarVars
    <3> KeptInv' BY <2>3 DEF calendarVars, KeptInv, IsOver, Place
    <3> QED BY <2>1 DEF FastsInv
  <2> QED BY <2>2, <2>3
<1> QED BY <1>1, <1>2, PTL DEF CalendarSpec

(* Every year has each of its fasts once, and none of them on Shabbat.     *)
THEOREM FastsAreOnce == CalendarSpec => EveryFastOnce
<1>1. ASSUME FastsInv, NextDay
      PROVE  /\ hebrew'.year # hebrew.year => \A f \in Fasts : kept[f] = 1
             /\ Weekday(dayNumber') = 6 => kept' = kept \/ hebrew'.year # hebrew.year
  <2>1. /\ \A f \in Fasts : hebrew'.year # hebrew.year => kept[f] = 1
        /\ \A f \in Fasts : hebrew'.year = hebrew.year /\ Weekday(dayNumber') = 6 => kept'[f] = kept[f]
    BY <1>1, OneFast DEF FastsInv
  <2>2. kept' = [f \in Fasts |-> kept'[f]] BY <1>1 DEF NextDay
  <2>3. kept = [f \in Fasts |-> kept[f]] BY <1>1 DEF FastsInv, KeptInv
  <2>4. hebrew'.year = hebrew.year /\ Weekday(dayNumber') = 6 => kept' = kept
    BY <2>1, <2>2, <2>3
  <2> QED BY <2>1, <2>4
<1>2. FastsInv /\ [NextDay]_calendarVars =>
        [/\ hebrew'.year # hebrew.year => \A f \in Fasts : kept[f] = 1
         /\ Weekday(dayNumber') = 6 => kept' = kept \/ hebrew'.year # hebrew.year]_calendarVars
  BY <1>1
<1> QED BY <1>2, FastsInvariant, PTL DEF CalendarSpec, EveryFastOnce
=============================================================================
