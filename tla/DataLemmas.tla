------------------------------ MODULE DataLemmas ------------------------------
(***************************************************************************)
(* Lemmas about the data of the models: what Min and Max of FiniteSetsExt  *)
(* choose from sets of naturals, the induction and the recursion that      *)
(* follow from it, quotients, remainders and intervals, what flattening    *)
(* makes of a sequence of sequences, and numbers and their digits.         *)
(***************************************************************************)
EXTENDS Integers, FiniteSetsExt, FiniteSetTheorems, Sequences, SequenceTheorems,
        WellFoundedInduction, Numerals, TLAPS

(* A non-empty set of naturals has a least element, which Min chooses.      *)
LEMMA MinOfNaturals ==
  ASSUME NEW S, S \subseteq Nat, S # {}
  PROVE  Min(S) \in S /\ \A s \in S : Min(S) <= s
<1>1. \E x \in S : \A y \in S : ~ (<<y, x>> \in OpToRel(<, Nat))
  BY WFMin, NatLessThanWellFounded
<1>2. \E x \in S : \A y \in S : x <= y
  <2>1. PICK x \in S : \A y \in S : ~ (<<y, x>> \in OpToRel(<, Nat))
    BY <1>1
  <2>2. ASSUME NEW y \in S PROVE x <= y
    <3>1. ~ (y < x)
      BY <2>1 DEF OpToRel
    <3> QED
      BY <3>1
  <2> QED
    BY <2>2
<1> QED
  BY <1>2 DEF Min

(* A non-empty set of naturals up to a bound has a greatest element, which  *)
(* Max chooses: it is as far below the bound as any.                        *)
LEMMA MaxOfBoundedNaturals ==
  ASSUME NEW bound \in Nat, NEW S, S \subseteq 0 .. bound, S # {}
  PROVE  Max(S) \in S /\ \A s \in S : s <= Max(S)
<1> DEFINE Slack == {bound - s : s \in S}
<1>1. Slack \subseteq Nat /\ Slack # {}
  <2>1. \A s \in S : bound - s \in Nat
    OBVIOUS
  <2>2. PICK s \in S : TRUE
    OBVIOUS
  <2>3. bound - s \in Slack
    OBVIOUS
  <2> QED
    BY <2>1, <2>3
<1>2. Min(Slack) \in Slack /\ \A d \in Slack : Min(Slack) <= d
  BY <1>1, MinOfNaturals
<1>3. PICK x \in S : Min(Slack) = bound - x
  BY <1>2
<1>4. \A s \in S : s <= x
  <2>1. ASSUME NEW s \in S PROVE s <= x
    <3>1. bound - x <= bound - s
      BY <1>2, <1>3
    <3>2. s \in Int /\ x \in Int
      OBVIOUS
    <3> QED
      BY <3>1, <3>2
  <2> QED
    BY <2>1
<1>5. \E z \in S : \A y \in S : z >= y
  <2>1. \A y \in S : x >= y
    BY <1>4
  <2> QED
    BY <2>1
<1> QED
  BY <1>5 DEF Max

(* Induction, with a set in the place of the predicate: the least natural   *)
(* outside the set would have its predecessor in it.                        *)
LEMMA Induction ==
  ASSUME NEW S, 0 \in S, \A n \in Nat : n \in S => n + 1 \in S
  PROVE  Nat \subseteq S
<1> SUFFICES ASSUME Nat \ S # {} PROVE FALSE
  OBVIOUS
<1> DEFINE x == Min(Nat \ S)
<1>1. x \in Nat \ S /\ \A y \in Nat \ S : x <= y
  <2>1. Nat \ S \subseteq Nat
    OBVIOUS
  <2> QED
    BY <2>1, MinOfNaturals
<1> HIDE DEF x
<1>2. x - 1 \in Nat /\ x - 1 \in S
  BY <1>1
<1>3. (x - 1) + 1 \in S
  BY <1>2
<1> QED
  BY <1>1, <1>3

(* Quotient and remainder.                                                  *)
LEMMA DivMod ==
  ASSUME NEW M \in Nat \ {0}, NEW a \in Nat
  PROVE  a % M \in 0 .. M - 1 /\ a \div M \in Nat /\ a = M * (a \div M) + (a % M)
OBVIOUS

(* The remainders of two naturals less than M apart differ as they do, but  *)
(* for the one wrap-around there may be between them.                        *)
LEMMA ModNear ==
  ASSUME NEW M \in Nat \ {0}, NEW a \in Nat, NEW b \in Nat, b <= a, a - b < M
  PROVE  (a % M) - (b % M) \in {a - b, a - b - M}
<1> DEFINE k == a \div M
           l == b \div M
           r == a % M
           s == b % M
<1>1. r \in 0 .. M - 1 /\ k \in Int /\ a = M * k + r
  BY DivMod
<1>2. s \in 0 .. M - 1 /\ l \in Int /\ b = M * l + s
  BY DivMod
<1> HIDE DEF k, l, r, s
<1>3. k = l \/ k = l + 1
  <2>1. \A x \in Int : x >= 2 => M * x >= M * 2
    OBVIOUS
  <2>2. \A x \in Int : x <= -1 => M * x <= M * (-1)
    OBVIOUS
  <2>3. M * (k - l) = M * k - M * l /\ k - l \in Int
    BY <1>1, <1>2
  <2> QED
    BY <1>1, <1>2, <2>1, <2>2, <2>3
<1>4. CASE k = l
  BY <1>1, <1>2, <1>4
<1>5. CASE k = l + 1
  <2>1. M * k = M * l + M
    BY <1>1, <1>2, <1>5
  <2> QED
    BY <1>1, <1>2, <2>1
<1> QED
  BY <1>3, <1>4, <1>5 DEF r, s

(* How often F has to be taken to reach t.                                  *)
LEMMA Ceil ==
  ASSUME NEW F \in Nat \ {0}, NEW t \in Nat, NEW d \in Nat
  PROVE  d * F >= t <=> d >= (t + F - 1) \div F
<1> DEFINE q == (t + F - 1) \div F
<1>1. q \in Nat /\ q * F <= t + F - 1 /\ t + F - 1 < q * F + F
  OBVIOUS
<1> QED
  OBVIOUS

(* How many integers an interval can hold.                                  *)
LEMMA IntervalHolds ==
  ASSUME NEW a \in Int, NEW b \in Int, NEW S, S \subseteq a .. b, a <= b + 1
  PROVE  IsFiniteSet(S) /\ Cardinality(S) <= b - a + 1
<1>1. IsFiniteSet(a .. b) /\ Cardinality(a .. b) = b - a + 1
  BY FS_Interval
<1> QED
  BY <1>1, FS_Subset, FS_CardinalityType
-----------------------------------------------------------------------------
(* FlattenSeq of SequencesExt, under a name of its own: modules whose names *)
(* clash with others of SequencesExt use the lemmas above.                  *)
Flatten(ss) ==
  IF Len(ss) = 0 THEN ss
  ELSE LET flatten[i \in 1 .. Len(ss)] ==
             IF i = 1 THEN ss[i] ELSE flatten[i - 1] \o ss[i]
       IN  flatten[Len(ss)]

(* Concatenation from left to right: f[i] is what the first i parts give.   *)
Steps(f, ss, n) == f[0] = << >> /\ \A i \in 1 .. n : f[i] = f[i - 1] \o ss[i]

(* The definition of Flatten, unfolded.                                     *)
LEMMA FlattenSteps ==
  ASSUME NEW S, NEW ss \in Seq(Seq(S))
  PROVE  \E f \in [0 .. Len(ss) -> Seq(S)] :
           Steps(f, ss, Len(ss)) /\ Flatten(ss) = f[Len(ss)]
<1> DEFINE n == Len(ss)
<1>1. n \in Nat /\ \A i \in 1 .. n : ss[i] \in Seq(S)
  OBVIOUS
<1>2. CASE n = 0
  <2>1. ss = << >> /\ Flatten(ss) = ss
    BY <1>2 DEF Flatten
  <2> DEFINE g == [i \in 0 .. n |-> << >>]
  <2>2. g \in [0 .. n -> Seq(S)] /\ g[0] = << >>
    BY <1>2
  <2>3. Flatten(ss) = g[n] /\ \A i \in 1 .. n : FALSE
    BY <1>2, <2>1
  <2> HIDE DEF g
  <2> QED
    BY <2>2, <2>3 DEF Steps
<1>3. CASE n # 0
  <2> DEFINE Step(f, i) == IF i = 1 THEN ss[i] ELSE f[i - 1] \o ss[i]
             Rec(f) == f = [i \in 1 .. n |-> Step(f, i)]
             P(k) == k <= n => \E f \in [1 .. k -> Seq(S)] : \A i \in 1 .. k : f[i] = Step(f, i)
             T == {k \in Nat : P(k)}
  <2>1. \E f \in [1 .. n -> Seq(S)] : \A i \in 1 .. n : f[i] = Step(f, i)
    <3>1. P(0)
      <4>1. [i \in 1 .. 0 |-> << >>] \in [1 .. 0 -> Seq(S)] /\ \A i \in 1 .. 0 : FALSE
        OBVIOUS
      <4> HIDE DEF Step
      <4> QED
        BY <4>1
    <3>2. ASSUME NEW k \in Nat, P(k)
          PROVE  P(k + 1)
      <4> SUFFICES ASSUME k + 1 <= n
                   PROVE  \E f \in [1 .. k + 1 -> Seq(S)] : \A i \in 1 .. k + 1 : f[i] = Step(f, i)
        OBVIOUS
      <4>1. PICK f \in [1 .. k -> Seq(S)] : \A i \in 1 .. k : f[i] = Step(f, i)
        <5>1. k <= n
          BY <1>1
        <5> HIDE DEF Step
        <5> QED
          BY <3>2, <5>1
      <4> DEFINE g == [i \in 1 .. k + 1 |-> IF i <= k THEN f[i] ELSE Step(f, i)]
      <4>2. Step(f, k + 1) \in Seq(S)
        <5>1. CASE k = 0
          BY <1>1, <5>1
        <5>2. CASE k # 0
          BY <1>1, <5>2
        <5> QED
          BY <5>1, <5>2
      <4>3. g \in [1 .. k + 1 -> Seq(S)]
        BY <4>2
      <4>4. \A i \in 1 .. k + 1 : g[i] = Step(g, i)
        <5>1. ASSUME NEW i \in 1 .. k + 1
              PROVE  g[i] = Step(g, i)
          <6>1. i # 1 => i - 1 \in 1 .. k /\ g[i - 1] = f[i - 1]
            OBVIOUS
          <6>2. Step(g, i) = Step(f, i)
            BY <6>1
          <6> HIDE DEF Step
          <6>3. i <= k => i \in 1 .. k
            OBVIOUS
          <6>4. g[i] = IF i <= k THEN f[i] ELSE Step(f, i)
            OBVIOUS
          <6> HIDE DEF g
          <6> QED
            BY <4>1, <6>2, <6>3, <6>4
        <5> QED
          BY <5>1
      <4> HIDE DEF g, Step
      <4> QED
        BY <4>3, <4>4
    <3> HIDE DEF P
    <3>3. 0 \in T /\ \A k \in Nat : k \in T => k + 1 \in T
      BY <3>1, <3>2
    <3>4. n \in T
      <4> HIDE DEF T
      <4> QED
        BY <1>1, <3>3, Induction
    <3>5. P(n)
      BY <3>4
    <3> QED
      BY <1>1, <3>5 DEF P
  <2>2. \E f : Rec(f)
    <3>1. PICK f \in [1 .. n -> Seq(S)] : \A i \in 1 .. n : f[i] = Step(f, i)
      BY <2>1
    <3> HIDE DEF Step
    <3>2. f = [i \in 1 .. n |-> Step(f, i)]
      BY <3>1
    <3> QED
      BY <3>2
  <2> DEFINE flatten == CHOOSE f : Rec(f)
  <2>3. Rec(flatten)
    <3> HIDE DEF Rec
    <3> QED
      BY <2>2
  <2>4. Flatten(ss) = flatten[n]
    BY <1>3 DEF Flatten
  <2> HIDE DEF flatten
  <2>5. \A i \in 1 .. n : flatten[i] = Step(flatten, i)
    <3> HIDE DEF Step
    <3> QED
      BY <2>3
  <2> HIDE DEF Rec
  <2> DEFINE Typed(k) == k + 1 <= n => flatten[k + 1] \in Seq(S)
             U == {k \in Nat : Typed(k)}
  <2>6. \A i \in 1 .. n : flatten[i] \in Seq(S)
    <3>1. Typed(0)
      BY <1>1, <2>5
    <3>2. ASSUME NEW k \in Nat, Typed(k)
          PROVE  Typed(k + 1)
      <4> SUFFICES ASSUME (k + 1) + 1 <= n
                   PROVE  flatten[(k + 1) + 1] \in Seq(S)
        OBVIOUS
      <4>1. (k + 1) + 1 \in 1 .. n /\ (k + 1) + 1 # 1 /\ ((k + 1) + 1) - 1 = k + 1 /\ k + 1 <= n
        BY <1>1
      <4>2. flatten[(k + 1) + 1] = flatten[k + 1] \o ss[(k + 1) + 1]
        BY <2>5, <4>1
      <4>3. flatten[k + 1] \in Seq(S) /\ ss[(k + 1) + 1] \in Seq(S)
        BY <1>1, <3>2, <4>1
      <4> QED
        BY <4>2, <4>3, ConcatProperties
    <3> HIDE DEF Typed
    <3>3. 0 \in U /\ \A k \in Nat : k \in U => k + 1 \in U
      BY <3>1, <3>2
    <3>4. Nat \subseteq U
      <4> HIDE DEF U
      <4> QED
        BY <3>3, Induction
    <3>5. ASSUME NEW i \in 1 .. n
          PROVE  flatten[i] \in Seq(S)
      <4>1. i - 1 \in Nat /\ (i - 1) + 1 = i /\ i <= n
        BY <1>1
      <4>2. Typed(i - 1)
        BY <3>4, <4>1
      <4> QED
        BY <4>1, <4>2 DEF Typed
    <3> QED
      BY <3>5
  <2> DEFINE g == [i \in 0 .. n |-> IF i = 0 THEN << >> ELSE flatten[i]]
  <2>7. g \in [0 .. n -> Seq(S)]
    BY <2>6
  <2>8. g[0] = << >> /\ g[n] = flatten[n]
    BY <1>1, <1>3
  <2>9. ASSUME NEW i \in 1 .. n
        PROVE  g[i] = g[i - 1] \o ss[i]
    <3>1. g[i] = flatten[i] /\ flatten[i] = Step(flatten, i)
      BY <1>1, <2>5
    <3>2. CASE i = 1
      <4>1. g[i - 1] = << >> /\ flatten[i] = ss[i] /\ ss[i] \in Seq(S)
        BY <1>1, <3>1, <3>2
      <4>2. << >> \o ss[i] = ss[i]
        BY <4>1, ConcatEmptySeq
      <4> QED
        BY <3>1, <4>1, <4>2
    <3>3. CASE i # 1
      <4>1. g[i - 1] = flatten[i - 1]
        BY <1>1, <3>3
      <4> QED
        BY <3>1, <3>3, <4>1
    <3> QED
      BY <3>2, <3>3
  <2> HIDE DEF g
  <2> QED
    BY <2>4, <2>7, <2>8, <2>9 DEF Steps
<1> QED
  BY <1>2, <1>3

(* Equal parts make equal steps.                                            *)
LEMMA SameSteps ==
  ASSUME NEW n \in Nat, NEW f, NEW g, NEW ss, NEW tt,
         Steps(f, ss, n), Steps(g, tt, n), \A i \in 1 .. n : ss[i] = tt[i]
  PROVE  f[n] = g[n]
<1> DEFINE P(k) == k <= n => f[k] = g[k]
           T == {k \in Nat : P(k)}
<1>1. P(0)
  BY DEF Steps
<1>2. ASSUME NEW k \in Nat, P(k)
      PROVE  P(k + 1)
  <2> SUFFICES ASSUME k + 1 <= n
               PROVE  f[k + 1] = g[k + 1]
    OBVIOUS
  <2>1. k + 1 \in 1 .. n /\ (k + 1) - 1 = k /\ f[k] = g[k]
    BY <1>2
  <2> QED
    BY <2>1 DEF Steps
<1> HIDE DEF P
<1>3. 0 \in T /\ \A k \in Nat : k \in T => k + 1 \in T
  BY <1>1, <1>2
<1>4. n \in T
  <2> HIDE DEF T
  <2> QED
    BY <1>3, Induction
<1>5. P(n)
  BY <1>4
<1> QED
  BY <1>5 DEF P

LEMMA FlattenType ==
  ASSUME NEW S, NEW ss \in Seq(Seq(S))
  PROVE  Flatten(ss) \in Seq(S)
<1>1. PICK f \in [0 .. Len(ss) -> Seq(S)] : Flatten(ss) = f[Len(ss)]
  BY FlattenSteps
<1>2. Len(ss) \in 0 .. Len(ss)
  OBVIOUS
<1> QED
  BY <1>1, <1>2

LEMMA FlattenEmpty == Flatten(<< >>) = << >>
BY DEF Flatten

(* A last part adds to the end.                                             *)
LEMMA FlattenAppend ==
  ASSUME NEW S, NEW ss \in Seq(Seq(S)), NEW s \in Seq(S)
  PROVE  Flatten(Append(ss, s)) = Flatten(ss) \o s
<1> DEFINE tt == Append(ss, s)
           n == Len(ss)
<1>1. /\ tt \in Seq(Seq(S)) /\ n \in Nat /\ Len(tt) = n + 1 /\ tt[n + 1] = s
      /\ \A i \in 1 .. n : tt[i] = ss[i]
  BY AppendProperties
<1>2. PICK f \in [0 .. n -> Seq(S)] :
        Steps(f, ss, n) /\ Flatten(ss) = f[n]
  BY FlattenSteps
<1> HIDE DEF tt
<1>3. PICK g \in [0 .. n + 1 -> Seq(S)] :
        Steps(g, tt, n + 1) /\ Flatten(tt) = g[n + 1]
  BY <1>1, FlattenSteps
<1> HIDE DEF n
<1>4. f[n] = g[n]
  <2>1. Steps(g, tt, n)
    <3>1. \A i \in 1 .. n : i \in 1 .. n + 1
      BY <1>1
    <3>2. Steps(g, tt, n + 1)
      BY <1>3
    <3> QED
      BY ONLY <3>1, <3>2, Zenon DEF Steps
  <2> QED
    BY <1>1, <1>2, <2>1, SameSteps
<1>5. g[n + 1] = g[n] \o s
  <2>1. n + 1 \in 1 .. n + 1 /\ (n + 1) - 1 = n
    BY <1>1
  <2> QED
    BY <1>1, <1>3, <2>1 DEF Steps
<1> QED
  BY <1>1, <1>2, <1>3, <1>4, <1>5 DEF tt

(* The first part comes first.                                              *)
LEMMA FlattenHead ==
  ASSUME NEW S, NEW ss \in Seq(Seq(S)), ss # << >>
  PROVE  Flatten(ss) = Head(ss) \o Flatten(Tail(ss))
<1> DEFINE tt == Tail(ss)
           n == Len(tt)
           h == Head(ss)
<1>1. /\ tt \in Seq(Seq(S)) /\ n \in Nat /\ Len(ss) = n + 1 /\ h = ss[1] /\ h \in Seq(S)
      /\ \A i \in 1 .. n : tt[i] = ss[i + 1] /\ tt[i] \in Seq(S)
  BY HeadTailProperties
<1> HIDE DEF tt, h
<1>2. PICK f \in [0 .. n -> Seq(S)] :
        Steps(f, tt, n) /\ Flatten(tt) = f[n]
  BY <1>1, FlattenSteps
<1>3. PICK g \in [0 .. n + 1 -> Seq(S)] :
        Steps(g, ss, n + 1) /\ Flatten(ss) = g[n + 1]
  BY <1>1, FlattenSteps
<1> HIDE DEF n
<1> DEFINE P(k) == k <= n => g[k + 1] = h \o f[k]
           T == {k \in Nat : P(k)}
<1>4. P(0)
  <2>1. 1 \in 1 .. n + 1 /\ 1 - 1 = 0 /\ 0 + 1 = 1
    BY <1>1
  <2>2. g[1] = << >> \o ss[1]
    BY <1>3, <2>1 DEF Steps
  <2>3. << >> \o h = h /\ h \o << >> = h
    BY <1>1, ConcatEmptySeq
  <2> QED
    BY <1>1, <1>2, <2>1, <2>2, <2>3 DEF Steps
<1>5. ASSUME NEW k \in Nat, P(k)
      PROVE  P(k + 1)
  <2> SUFFICES ASSUME k + 1 <= n
               PROVE  g[(k + 1) + 1] = h \o f[k + 1]
    OBVIOUS
  <2>1. /\ k + 1 \in 1 .. n /\ (k + 1) - 1 = k
        /\ (k + 1) + 1 \in 1 .. n + 1 /\ ((k + 1) + 1) - 1 = k + 1
        /\ k \in 0 .. n /\ k <= n
    BY <1>1
  <2>2. g[(k + 1) + 1] = g[k + 1] \o ss[(k + 1) + 1]
    BY <1>3, <2>1 DEF Steps
  <2>3. ss[(k + 1) + 1] = tt[k + 1] /\ tt[k + 1] \in Seq(S)
    BY <1>1, <2>1
  <2>4. g[k + 1] = h \o f[k]
    BY <1>5, <2>1
  <2>5. f[k + 1] = f[k] \o tt[k + 1] /\ f[k] \in Seq(S)
    BY <1>2, <2>1 DEF Steps
  <2> DEFINE a == f[k]
             b == tt[k + 1]
  <2>6. (h \o a) \o b = h \o (a \o b)
    <3>1. a \in Seq(S) /\ b \in Seq(S) /\ h \in Seq(S)
      BY <1>1, <2>3, <2>5
    <3> HIDE DEF a, b
    <3> QED
      BY ONLY <3>1, ConcatAssociative
  <2> QED
    BY <2>2, <2>3, <2>4, <2>5, <2>6
<1> HIDE DEF P
<1>6. 0 \in T /\ \A k \in Nat : k \in T => k + 1 \in T
  BY <1>4, <1>5
<1>7. n \in T
  <2> HIDE DEF T
  <2> QED
    BY <1>1, <1>6, Induction
<1>8. g[n + 1] = h \o f[n]
  BY <1>1, <1>7 DEF P
<1> QED
  BY <1>1, <1>2, <1>3, <1>8 DEF tt, h

(* Empty parts at the end add nothing.                                      *)
EmptyAfter(ss, m, n) == \A i \in m + 1 .. n : ss[i] = << >>

LEMMA TrailingSteps ==
  ASSUME NEW S, NEW n \in Nat, NEW f \in [0 .. n -> Seq(S)], NEW ss,
         Steps(f, ss, n), NEW m \in 0 .. n, EmptyAfter(ss, m, n)
  PROVE  f[n] = f[m]
<1> DEFINE P(k) == m + k <= n => f[m + k] = f[m]
           T == {k \in Nat : P(k)}
<1>1. P(0)
  OBVIOUS
<1>2. ASSUME NEW k \in Nat, P(k)
      PROVE  P(k + 1)
  <2> SUFFICES ASSUME m + (k + 1) <= n
               PROVE  f[m + (k + 1)] = f[m]
    OBVIOUS
  <2>1. /\ m + (k + 1) \in 1 .. n /\ (m + (k + 1)) - 1 = m + k
        /\ m + (k + 1) \in m + 1 .. n /\ m + k \in 0 .. n
    OBVIOUS
  <2>2. f[m + k] = f[m] /\ f[m + k] \in Seq(S)
    BY <1>2, <2>1
  <2>3. f[m + (k + 1)] = f[m + k] \o << >>
    BY <2>1 DEF Steps, EmptyAfter
  <2>4. f[m + k] \o << >> = f[m + k]
    BY <2>2, ConcatEmptySeq
  <2> QED
    BY <2>2, <2>3, <2>4
<1> HIDE DEF P
<1>3. 0 \in T /\ \A k \in Nat : k \in T => k + 1 \in T
  BY <1>1, <1>2
<1>4. n - m \in T
  <2>1. n - m \in Nat
    OBVIOUS
  <2> HIDE DEF T
  <2> QED
    BY <1>3, <2>1, Induction
<1>5. P(n - m) /\ m + (n - m) = n
  BY <1>4
<1> QED
  BY <1>5 DEF P

(* Parts of equal length.                                                   *)
LEMMA FlattenUniform ==
  ASSUME NEW S, NEW ss \in Seq(Seq(S)), NEW w \in Nat, \A i \in 1 .. Len(ss) : Len(ss[i]) = w
  PROVE  /\ Len(Flatten(ss)) = w * Len(ss)
         /\ \A i \in 1 .. Len(ss), j \in 1 .. w : Flatten(ss)[w * (i - 1) + j] = ss[i][j]
<1> DEFINE n == Len(ss)
           at(i, j) == w * (i - 1) + j
<1>1. n \in Nat /\ \A i \in 1 .. n : ss[i] \in Seq(S) /\ Len(ss[i]) = w
  OBVIOUS
<1>2. PICK f \in [0 .. n -> Seq(S)] : Steps(f, ss, n) /\ Flatten(ss) = f[n]
  BY FlattenSteps
<1> DEFINE P(k) == k <= n => /\ Len(f[k]) = w * k
                             /\ \A i \in 1 .. k, j \in 1 .. w : f[k][at(i, j)] = ss[i][j]
           T == {k \in Nat : P(k)}
<1>3. P(0)
  BY <1>2 DEF Steps
<1>4. ASSUME NEW k \in Nat, P(k)
      PROVE  P(k + 1)
  <2> SUFFICES ASSUME k + 1 <= n
               PROVE  /\ Len(f[k + 1]) = w * (k + 1)
                      /\ \A i \in 1 .. k + 1, j \in 1 .. w : f[k + 1][at(i, j)] = ss[i][j]
    OBVIOUS
  <2>1. k + 1 \in 1 .. n /\ (k + 1) - 1 = k /\ k \in 0 .. n /\ k <= n
    BY <1>1
  <2>2. f[k + 1] = f[k] \o ss[k + 1] /\ f[k] \in Seq(S) /\ ss[k + 1] \in Seq(S) /\ Len(ss[k + 1]) = w
    BY <1>1, <1>2, <2>1 DEF Steps
  <2>3. Len(f[k]) = w * k /\ w * k \in Nat /\ w * (k + 1) = w * k + w
    BY <1>4, <2>1
  <2>4. /\ Len(f[k + 1]) = w * k + w
        /\ \A m \in 1 .. w * k + w : f[k + 1][m] = IF m <= w * k THEN f[k][m] ELSE ss[k + 1][m - w * k]
    <3> DEFINE a == f[k]
               c == ss[k + 1]
    <3>1. a \in Seq(S) /\ c \in Seq(S)
      BY <2>2
    <3> HIDE DEF a, c
    <3>2. /\ Len(a \o c) = Len(a) + Len(c)
          /\ \A m \in 1 .. Len(a) + Len(c) :
               (a \o c)[m] = IF m <= Len(a) THEN a[m] ELSE c[m - Len(a)]
      BY ONLY <3>1, ConcatProperties
    <3>3. Len(a) = w * k /\ Len(c) = w /\ f[k + 1] = a \o c
      BY <2>2, <2>3 DEF a, c
    <3> QED
      BY ONLY <3>2, <3>3 DEF a, c
  <2>5. ASSUME NEW i \in 1 .. k + 1, NEW j \in 1 .. w
        PROVE  f[k + 1][at(i, j)] = ss[i][j]
    <3>1. CASE i = k + 1
      <4>1. at(i, j) = w * k + j /\ w * k + j \in 1 .. w * k + w /\ ~(w * k + j <= w * k)
            /\ (w * k + j) - w * k = j
        BY <2>3, <3>1
      <4> QED
        BY <2>4, <3>1, <4>1
    <3>2. CASE i # k + 1
      <4>1. i \in 1 .. k /\ i - 1 \in Nat /\ k - i \in Nat
        BY <3>2
      <4>2. /\ w * (i - 1) \in Nat /\ w * (k - i) \in Nat
            /\ w * k = w * (i - 1) + w + w * (k - i)
        BY <4>1
      <4>3. at(i, j) \in 1 .. w * k + w /\ at(i, j) <= w * k
        <5> DEFINE x == w * (i - 1)
                   y == w * (k - i)
                   z == w * k
        <5>1. x \in Nat /\ y \in Nat /\ z = x + w + y
          BY <4>2
        <5> HIDE DEF x, y, z
        <5>2. x + j \in 1 .. z + w /\ x + j <= z
          BY <5>1
        <5> QED
          BY <5>2 DEF x, z
      <4>4. f[k][at(i, j)] = ss[i][j]
        BY <1>4, <2>1, <4>1
      <4> HIDE DEF at
      <4> QED
        BY <2>4, <4>3, <4>4
    <3> QED
      BY <3>1, <3>2
  <2> HIDE DEF at
  <2> QED
    BY <2>3, <2>4, <2>5
<1> HIDE DEF P
<1>5. 0 \in T /\ \A k \in Nat : k \in T => k + 1 \in T
  BY <1>3, <1>4
<1>6. n \in T
  <2> HIDE DEF T
  <2> QED
    BY <1>1, <1>5, Induction
<1>7. P(n) /\ n <= n
  BY <1>1, <1>6
<1> QED
  BY <1>2, <1>7 DEF P

(* Flattening distributes over concatenation.                               *)
LEMMA FlattenConcat ==
  ASSUME NEW S, NEW ss \in Seq(Seq(S)), NEW tt \in Seq(Seq(S))
  PROVE  Flatten(ss \o tt) = Flatten(ss) \o Flatten(tt)
<1> DEFINE m == Len(ss)
           n == Len(tt)
           uu == ss \o tt
<1>1. /\ m \in Nat /\ n \in Nat /\ uu \in Seq(Seq(S)) /\ Len(uu) = m + n
      /\ \A i \in 1 .. m + n : uu[i] = IF i <= m THEN ss[i] ELSE tt[i - m]
      /\ \A i \in 1 .. n : tt[i] \in Seq(S)
  BY ConcatProperties
<1>2. PICK f \in [0 .. m -> Seq(S)] : Steps(f, ss, m) /\ Flatten(ss) = f[m]
  BY FlattenSteps
<1>3. PICK g \in [0 .. n -> Seq(S)] : Steps(g, tt, n) /\ Flatten(tt) = g[n]
  BY FlattenSteps
<1> HIDE DEF uu
<1>4. PICK h \in [0 .. m + n -> Seq(S)] : Steps(h, uu, m + n) /\ Flatten(uu) = h[m + n]
  BY <1>1, FlattenSteps
<1> HIDE DEF m, n
<1>5. h[m] = f[m]
  <2>1. \A i \in 1 .. m : i \in 1 .. m + n /\ uu[i] = ss[i]
    <3>1. \A i \in 1 .. m : i \in 1 .. m + n /\ i <= m
      BY <1>1
    <3> QED
      BY ONLY <1>1, <3>1
  <2>2. Steps(h, uu, m)
    BY ONLY <1>4, <2>1, Zenon DEF Steps
  <2> QED
    BY <1>1, <1>2, <2>1, <2>2, SameSteps
<1>6. f[m] \in Seq(S)
  BY <1>1
<1> DEFINE P(k) == k <= n => h[m + k] = f[m] \o g[k]
           T == {k \in Nat : P(k)}
<1>7. P(0)
  <2>1. g[0] = << >> /\ m + 0 = m
    BY <1>1, <1>3 DEF Steps
  <2>2. f[m] \o << >> = f[m]
    BY <1>6, ConcatEmptySeq
  <2> QED
    BY <1>5, <2>1, <2>2
<1>8. ASSUME NEW k \in Nat, P(k)
      PROVE  P(k + 1)
  <2> SUFFICES ASSUME k + 1 <= n
               PROVE  h[m + (k + 1)] = f[m] \o g[k + 1]
    OBVIOUS
  <2>1. /\ k + 1 \in 1 .. n /\ (k + 1) - 1 = k /\ k \in 0 .. n /\ k <= n
        /\ m + (k + 1) \in 1 .. m + n /\ (m + (k + 1)) - 1 = m + k
        /\ ~(m + (k + 1) <= m) /\ (m + (k + 1)) - m = k + 1
    BY <1>1
  <2>2. h[m + (k + 1)] = h[m + k] \o tt[k + 1]
    BY <1>1, <1>4, <2>1 DEF Steps
  <2>3. h[m + k] = f[m] \o g[k]
    BY <1>8, <2>1
  <2>4. g[k + 1] = g[k] \o tt[k + 1]
    BY <1>3, <2>1 DEF Steps
  <2> DEFINE a == f[m]
             b == g[k]
             c == tt[k + 1]
  <2>5. (a \o b) \o c = a \o (b \o c)
    <3>1. a \in Seq(S) /\ b \in Seq(S) /\ c \in Seq(S)
      BY <1>1, <1>6, <2>1
    <3> HIDE DEF a, b, c
    <3> QED
      BY ONLY <3>1, ConcatAssociative
  <2> QED
    BY <2>2, <2>3, <2>4, <2>5
<1> HIDE DEF P
<1>9. 0 \in T /\ \A k \in Nat : k \in T => k + 1 \in T
  BY <1>7, <1>8
<1>10. n \in T
  <2> HIDE DEF T
  <2> QED
    BY <1>1, <1>9, Induction
<1>11. h[m + n] = f[m] \o g[n]
  BY <1>1, <1>10 DEF P
<1> QED
  BY <1>2, <1>3, <1>4, <1>11 DEF uu

(* Parts of one element, and parts of none.                                 *)
LEMMA FlattenSingletons ==
  ASSUME NEW S, NEW s \in Seq(S)
  PROVE  Flatten([i \in 1 .. Len(s) |-> <<s[i]>>]) = s
<1> DEFINE n == Len(s)
           ss == [i \in 1 .. n |-> <<s[i]>>]
<1>1. n \in Nat /\ \A i \in 1 .. n : s[i] \in S
  OBVIOUS
<1>2. ss \in Seq(Seq(S)) /\ Len(ss) = n /\ \A i \in 1 .. n : ss[i] = <<s[i]>>
  <2>1. ss \in [1 .. n -> Seq(S)]
    BY <1>1
  <2>2. \A i \in 1 .. n : ss[i] = <<s[i]>>
    OBVIOUS
  <2> HIDE DEF ss
  <2> QED
    BY <1>1, <2>1, <2>2
<1> HIDE DEF ss
<1>3. \A i \in 1 .. n : Len(ss[i]) = 1 /\ ss[i][1] = s[i]
  <2>1. \A x : Len(<<x>>) = 1 /\ <<x>>[1] = x
    OBVIOUS
  <2> QED
    BY ONLY <1>2, <2>1, Zenon
<1>4. /\ Len(Flatten(ss)) = 1 * Len(ss)
      /\ \A i \in 1 .. Len(ss), j \in 1 .. 1 : Flatten(ss)[1 * (i - 1) + j] = ss[i][j]
  <2> DEFINE w == 1
  <2>1. w \in Nat /\ \A i \in 1 .. Len(ss) : Len(ss[i]) = w
    BY <1>2, <1>3
  <2> HIDE DEF w
  <2>2. /\ Len(Flatten(ss)) = w * Len(ss)
        /\ \A i \in 1 .. Len(ss), j \in 1 .. w : Flatten(ss)[w * (i - 1) + j] = ss[i][j]
    BY ONLY <1>2, <2>1, FlattenUniform
  <2> QED
    BY ONLY <2>2 DEF w
<1>5. Flatten(ss) \in Seq(S)
  BY <1>2, FlattenType
<1>6. Len(Flatten(ss)) = n
  BY <1>1, <1>2, <1>4
<1>7. \A i \in 1 .. n : Flatten(ss)[i] = s[i]
  <2>1. ASSUME NEW i \in 1 .. n
        PROVE  Flatten(ss)[i] = s[i]
    <3>1. 1 \in 1 .. 1 /\ 1 * (i - 1) + 1 = i
      BY <1>1
    <3> QED
      BY <1>2, <1>3, <1>4, <3>1
  <2> QED
    BY <2>1
<1> QED
  BY <1>5, <1>6, <1>7, SeqEqual DEF ss

LEMMA FlattenEmpties ==
  ASSUME NEW n \in Nat
  PROVE  Flatten([i \in 1 .. n |-> << >>]) = << >>
<1> DEFINE ss == [i \in 1 .. n |-> << >>]
<1>1. ss \in Seq(Seq(Nat)) /\ Len(ss) = n /\ \A i \in 1 .. n : ss[i] = << >>
  <2>1. ss \in [1 .. n -> Seq(Nat)]
    BY EmptySeq
  <2>2. \A i \in 1 .. n : ss[i] = << >>
    OBVIOUS
  <2> HIDE DEF ss
  <2> QED
    BY <2>1, <2>2
<1> HIDE DEF ss
<1>2. \A i \in 1 .. Len(ss) : Len(ss[i]) = 0
  BY <1>1
<1>3. Len(Flatten(ss)) = 0 * Len(ss)
  BY <1>1, <1>2, FlattenUniform
<1>4. Flatten(ss) \in Seq(Nat) /\ Len(Flatten(ss)) = 0
  BY <1>1, <1>3, FlattenType
<1> QED
  BY <1>4, EmptySeq DEF ss

(* A part of a sequence that agrees with another sequence.                  *)
LEMMA PartAt ==
  ASSUME NEW S, NEW s \in Seq(S), NEW b \in Seq(S), NEW o \in Nat, o + Len(b) <= Len(s),
         \A i \in 1 .. Len(b) : s[o + i] = b[i]
  PROVE  SubSeq(s, o + 1, o + Len(b)) = b
<1>1. SubSeq(s, o + 1, o + Len(b)) = [i \in 1 .. Len(b) |-> s[o + i]]
  OBVIOUS
<1>2. b = [i \in 1 .. Len(b) |-> b[i]]
  OBVIOUS
<1> QED
  BY <1>1, <1>2

-----------------------------------------------------------------------------
(* Recursion over the naturals, with a function in the place of the step.   *)
Iterable(S, a, step) == a \in S /\ step \in [Nat -> [S -> S]]
Iterates(S, a, step) ==
  \E f \in [Nat -> S] : f[0] = a /\ \A n \in Nat : f[n + 1] = step[n][f[n]]

LEMMA Recursion ==
  ASSUME NEW S, NEW a, NEW step, Iterable(S, a, step)
  PROVE  Iterates(S, a, step)
<1> USE DEF Iterable
<1> DEFINE Starts(g, n) == g[0] = a /\ \A i \in 0 .. n - 1 : g[i + 1] = step[i][g[i]]
           Some(n) == \E g \in [0 .. n -> S] : Starts(g, n)
           T == {n \in Nat : Some(n)}
<1>1. Some(0)
  <2>1. [i \in 0 .. 0 |-> a] \in [0 .. 0 -> S] /\ Starts([i \in 0 .. 0 |-> a], 0)
    OBVIOUS
  <2> HIDE DEF Starts
  <2> QED
    BY <2>1
<1>2. ASSUME NEW n \in Nat, Some(n)
      PROVE  Some(n + 1)
  <2>1. PICK g \in [0 .. n -> S] : Starts(g, n)
    BY <1>2
  <2> DEFINE h == [i \in 0 .. n + 1 |-> IF i <= n THEN g[i] ELSE step[n][g[n]]]
  <2>2. h \in [0 .. n + 1 -> S]
    <3>1. n \in 0 .. n /\ g[n] \in S /\ step[n] \in [S -> S]
      OBVIOUS
    <3>2. step[n][g[n]] \in S
      BY <3>1
    <3>3. \A i \in 0 .. n + 1 : i <= n => i \in 0 .. n
      OBVIOUS
    <3> QED
      BY <3>2, <3>3
  <2>3. Starts(h, n + 1)
    <3>1. h[0] = a
      BY <2>1
    <3>2. ASSUME NEW i \in 0 .. (n + 1) - 1
          PROVE  h[i + 1] = step[i][h[i]]
      <4>1. i \in 0 .. n + 1 /\ i + 1 \in 0 .. n + 1 /\ i <= n
        OBVIOUS
      <4>2. h[i] = g[i] /\ h[i + 1] = IF i + 1 <= n THEN g[i + 1] ELSE step[n][g[n]]
        BY <4>1
      <4>3. CASE i + 1 <= n
        <5>1. i \in 0 .. n - 1
          BY <4>1, <4>3
        <5> HIDE DEF h
        <5> QED
          BY <2>1, <4>2, <4>3, <5>1
      <4>4. CASE ~(i + 1 <= n)
        <5>1. i = n
          BY <4>1, <4>4
        <5> HIDE DEF h
        <5> QED
          BY <4>2, <4>4, <5>1
      <4> QED
        BY <4>3, <4>4
    <3> HIDE DEF h
    <3> QED
      BY <3>1, <3>2
  <2> HIDE DEF h, Starts
  <2> QED
    BY <2>2, <2>3
<1> HIDE DEF Some
<1>3. \A n \in Nat : Some(n)
  <2>1. 0 \in T /\ \A n \in Nat : n \in T => n + 1 \in T
    BY <1>1, <1>2
  <2>2. Nat \subseteq T
    <3> HIDE DEF T
    <3> QED
      BY <2>1, Induction
  <2> QED
    BY <2>2
<1> DEFINE G == [n \in Nat |-> CHOOSE g : g \in [0 .. n -> S] /\ Starts(g, n)]
<1>4. \A n \in Nat : G[n] \in [0 .. n -> S] /\ Starts(G[n], n)
  <2> HIDE DEF Starts
  <2> QED
    BY <1>3 DEF Some
<1> HIDE DEF G
<1>5. ASSUME NEW n \in Nat
      PROVE  \A i \in 0 .. n : G[n + 1][i] = G[n][i]
  <2> DEFINE Same(i) == i <= n => G[n + 1][i] = G[n][i]
             U == {i \in Nat : Same(i)}
  <2>1. Starts(G[n + 1], n + 1) /\ Starts(G[n], n)
    BY <1>4
  <2>2. Same(0)
    BY <2>1
  <2>3. ASSUME NEW i \in Nat, Same(i)
        PROVE  Same(i + 1)
    <3> SUFFICES ASSUME i + 1 <= n
                 PROVE  G[n + 1][i + 1] = G[n][i + 1]
      OBVIOUS
    <3>1. i \in 0 .. n - 1 /\ i \in 0 .. (n + 1) - 1 /\ i <= n
      OBVIOUS
    <3> QED
      BY <2>1, <2>3, <3>1
  <2> HIDE DEF Same
  <2>4. 0 \in U /\ \A i \in Nat : i \in U => i + 1 \in U
    BY <2>2, <2>3
  <2>5. Nat \subseteq U
    <3> HIDE DEF U
    <3> QED
      BY <2>4, Induction
  <2> QED
    BY <2>5 DEF Same
<1> DEFINE f == [n \in Nat |-> G[n][n]]
<1>6. f \in [Nat -> S]
  <2>1. \A n \in Nat : n \in 0 .. n
    OBVIOUS
  <2> HIDE DEF Starts
  <2> QED
    BY <1>4, <2>1
<1>7. f[0] = a
  BY <1>4
<1>8. ASSUME NEW n \in Nat
      PROVE  f[n + 1] = step[n][f[n]]
  <2>1. n + 1 \in Nat /\ n \in 0 .. (n + 1) - 1 /\ n \in 0 .. n
    OBVIOUS
  <2>2. G[n + 1][n + 1] = step[n][G[n + 1][n]]
    BY <1>4, <2>1
  <2> QED
    BY <1>5, <2>1, <2>2
<1> HIDE DEF f
<1> QED
  BY <1>6, <1>7, <1>8 DEF Iterates

(* Powers.                                                                  *)
LEMMA Powers ==
  ASSUME NEW b \in Nat \ {0}
  PROVE  /\ Power(b) \in [Nat -> Nat \ {0}] /\ Power(b)[0] = 1
         /\ \A k \in Nat : Power(b)[k + 1] = b * Power(b)[k]
<1> DEFINE Rec(p) == p = [k \in Nat |-> IF k = 0 THEN 1 ELSE b * p[k - 1]]
           step == [n \in Nat |-> [x \in Nat \ {0} |-> b * x]]
<1>1. step \in [Nat -> [Nat \ {0} -> Nat \ {0}]]
  <2>1. \A x \in Nat \ {0} : b * x \in Nat \ {0}
    OBVIOUS
  <2> QED
    BY <2>1
<1>2. \A n \in Nat, x \in Nat \ {0} : step[n][x] = b * x
  OBVIOUS
<1> HIDE DEF step
<1>3. PICK f \in [Nat -> Nat \ {0}] : f[0] = 1 /\ \A n \in Nat : f[n + 1] = step[n][f[n]]
  <2>1. Iterable(Nat \ {0}, 1, step)
    BY <1>1 DEF Iterable
  <2>2. Iterates(Nat \ {0}, 1, step)
    BY <2>1, Recursion, Zenon
  <2> QED
    BY <2>2 DEF Iterates
<1>4. Rec(f)
  <2>1. ASSUME NEW k \in Nat
        PROVE  f[k] = IF k = 0 THEN 1 ELSE b * f[k - 1]
    <3>1. CASE k = 0
      BY <1>3, <3>1
    <3>2. CASE k # 0
      <4>1. k - 1 \in Nat /\ (k - 1) + 1 = k
        BY <3>2
      <4>2. f[(k - 1) + 1] = step[k - 1][f[k - 1]] /\ f[k - 1] \in Nat \ {0}
        BY <1>3, <4>1
      <4> QED
        BY <1>2, <3>2, <4>1, <4>2
    <3> QED
      BY <3>1, <3>2
  <2> QED
    BY <2>1
<1>5. Power(b) = CHOOSE p : Rec(p)
  BY DEF Power
<1>6. Rec(Power(b))
  <2> HIDE DEF Rec
  <2> QED
    BY <1>4, <1>5
<1> DEFINE q == Power(b)
<1>7. \A k \in Nat : q[k] = IF k = 0 THEN 1 ELSE b * q[k - 1]
  BY <1>6
<1> DEFINE T == {k \in Nat : q[k] \in Nat \ {0}}
<1>8. \A k \in Nat : q[k] \in Nat \ {0}
  <2> HIDE DEF q
  <2>1. 0 \in T
    BY <1>7
  <2>2. ASSUME NEW k \in Nat, k \in T
        PROVE  k + 1 \in T
    <3>1. q[k + 1] = b * q[k] /\ q[k] \in Nat \ {0}
      BY <1>7, <2>2
    <3>2. \A x \in Nat \ {0} : b * x \in Nat \ {0}
      OBVIOUS
    <3> QED
      BY <3>1, <3>2
  <2>3. Nat \subseteq T
    <3> HIDE DEF T
    <3> QED
      BY <2>1, <2>2, Induction
  <2> QED
    BY <2>3
<1>9. Power(b) \in [Nat -> Nat \ {0}]
  <2>1. Power(b) = [k \in Nat |-> IF k = 0 THEN 1 ELSE b * Power(b)[k - 1]]
    BY <1>6
  <2>2. Power(b) = [k \in Nat |-> q[k]]
    BY <2>1
  <2> HIDE DEF q
  <2> QED
    BY <1>8, <2>2
<1>10. ASSUME NEW k \in Nat
       PROVE  q[k + 1] = b * q[k]
  BY <1>7
<1> QED
  BY <1>7, <1>9, <1>10

(* The digits of a number, read one after the other.                        *)
LEMMA NumberSteps ==
  ASSUME NEW b \in Nat, NEW d \in Seq(Nat)
  PROVE  \E f \in [0 .. Len(d) -> Nat] :
           /\ f[0] = 0 /\ \A i \in 1 .. Len(d) : f[i] = f[i - 1] * b + d[i]
           /\ Number(d, b) = f[Len(d)]
<1> DEFINE n == Len(d)
           Rec(v) == v = [i \in 0 .. n |-> IF i = 0 THEN 0 ELSE v[i - 1] * b + d[i]]
           step == [i \in Nat |-> [x \in Nat |-> IF i + 1 \in 1 .. n THEN x * b + d[i + 1] ELSE x]]
<1>1. n \in Nat /\ \A i \in 1 .. n : d[i] \in Nat
  OBVIOUS
<1>2. step \in [Nat -> [Nat -> Nat]]
  <2>1. \A i \in Nat, x \in Nat : x * b \in Nat
    OBVIOUS
  <2>2. \A i \in Nat, x \in Nat : (IF i + 1 \in 1 .. n THEN x * b + d[i + 1] ELSE x) \in Nat
    BY <1>1, <2>1
  <2> QED
    BY <2>2
<1>3. \A i \in Nat, x \in Nat : i + 1 \in 1 .. n => step[i][x] = x * b + d[i + 1]
  OBVIOUS
<1> HIDE DEF step
<1>4. PICK g \in [Nat -> Nat] : g[0] = 0 /\ \A i \in Nat : g[i + 1] = step[i][g[i]]
  <2>1. Iterable(Nat, 0, step)
    BY <1>2 DEF Iterable
  <2>2. Iterates(Nat, 0, step)
    BY <2>1, Recursion, Zenon
  <2> QED
    BY <2>2 DEF Iterates
<1> DEFINE f == [i \in 0 .. n |-> g[i]]
<1>5. f \in [0 .. n -> Nat] /\ f[0] = 0
  BY <1>1, <1>4
<1>6. ASSUME NEW i \in 1 .. n
      PROVE  f[i] = f[i - 1] * b + d[i]
  <2>1. i - 1 \in Nat /\ (i - 1) + 1 = i /\ i \in 0 .. n /\ i - 1 \in 0 .. n
    BY <1>1
  <2>2. g[(i - 1) + 1] = step[i - 1][g[i - 1]] /\ g[i - 1] \in Nat
    BY <1>4, <2>1
  <2>3. g[i] = g[i - 1] * b + d[i]
    BY <1>3, <2>1, <2>2
  <2> QED
    BY <2>1, <2>3
<1>7. Rec(f)
  <2>1. \A i \in 0 .. n : i # 0 => i \in 1 .. n
    BY <1>1
  <2>2. \A i \in 0 .. n : f[i] = IF i = 0 THEN 0 ELSE f[i - 1] * b + d[i]
    BY <1>5, <1>6, <2>1
  <2>3. f = [i \in 0 .. n |-> f[i]]
    OBVIOUS
  <2> HIDE DEF f
  <2> QED
    BY <2>2, <2>3
<1>8. Number(d, b) = (CHOOSE v : Rec(v))[n]
  BY DEF Number
<1> DEFINE v == CHOOSE w : Rec(w)
<1> HIDE DEF f
<1>9. Rec(v)
  <2> HIDE DEF Rec
  <2> QED
    BY <1>7
<1>10. Number(d, b) = v[n]
  BY <1>8
<1> HIDE DEF v
<1>11. v[0] = 0 /\ \A i \in 1 .. n : v[i] = v[i - 1] * b + d[i]
  <2>1. \A i \in 0 .. n : v[i] = IF i = 0 THEN 0 ELSE v[i - 1] * b + d[i]
    BY ONLY <1>9
  <2>2. 0 \in 0 .. n /\ \A i \in 1 .. n : i \in 0 .. n /\ i # 0
    BY <1>1
  <2> HIDE DEF Rec
  <2> QED
    BY ONLY <2>1, <2>2
<1> HIDE DEF Rec
<1> DEFINE T == {k \in Nat : k <= n => v[k] = f[k]}
<1>12. v[n] = f[n]
  <2>1. 0 \in T
    BY <1>5, <1>11
  <2>2. ASSUME NEW k \in Nat, k \in T
        PROVE  k + 1 \in T
    <3>1. k + 1 <= n => k <= n /\ k + 1 \in 1 .. n /\ (k + 1) - 1 = k
      BY <1>1
    <3>2. k <= n => v[k] = f[k]
      BY <2>2
    <3>3. k + 1 <= n => v[k + 1] = f[k + 1]
      BY <1>6, <1>11, <3>1, <3>2
    <3> QED
      BY <3>3
  <2>3. n \in T
    <3> HIDE DEF T
    <3> QED
      BY <1>1, <2>1, <2>2, Induction
  <2> QED
    BY <2>3
<1> QED
  BY <1>5, <1>6, <1>10, <1>12

(* Sums, one element after the other.                                       *)
LEMMA SumSteps ==
  ASSUME NEW d \in Seq(Nat)
  PROVE  /\ Sums(d) \in [0 .. Len(d) -> Nat] /\ Sums(d)[0] = 0
         /\ \A i \in 1 .. Len(d) : Sums(d)[i] = Sums(d)[i - 1] + d[i]
<1> DEFINE n == Len(d)
           Rec(v) == v = [i \in 0 .. n |-> IF i = 0 THEN 0 ELSE v[i - 1] + d[i]]
           step == [i \in Nat |-> [x \in Nat |-> IF i + 1 \in 1 .. n THEN x + d[i + 1] ELSE x]]
<1>1. n \in Nat /\ \A i \in 1 .. n : d[i] \in Nat
  OBVIOUS
<1>2. step \in [Nat -> [Nat -> Nat]]
  <2>1. \A i \in Nat, x \in Nat : (IF i + 1 \in 1 .. n THEN x + d[i + 1] ELSE x) \in Nat
    BY <1>1
  <2> QED
    BY <2>1
<1>3. \A i \in Nat, x \in Nat : i + 1 \in 1 .. n => step[i][x] = x + d[i + 1]
  OBVIOUS
<1> HIDE DEF step
<1>4. PICK g \in [Nat -> Nat] : g[0] = 0 /\ \A i \in Nat : g[i + 1] = step[i][g[i]]
  <2>1. Iterable(Nat, 0, step)
    BY <1>2 DEF Iterable
  <2>2. Iterates(Nat, 0, step)
    BY <2>1, Recursion, Zenon
  <2> QED
    BY <2>2 DEF Iterates
<1> DEFINE f == [i \in 0 .. n |-> g[i]]
<1>5. f \in [0 .. n -> Nat] /\ f[0] = 0
  BY <1>1, <1>4
<1>6. ASSUME NEW i \in 1 .. n
      PROVE  f[i] = f[i - 1] + d[i]
  <2>1. i - 1 \in Nat /\ (i - 1) + 1 = i /\ i \in 0 .. n /\ i - 1 \in 0 .. n
    BY <1>1
  <2>2. g[(i - 1) + 1] = step[i - 1][g[i - 1]] /\ g[i - 1] \in Nat
    BY <1>4, <2>1
  <2>3. g[i] = g[i - 1] + d[i]
    BY <1>3, <2>1, <2>2
  <2> QED
    BY <2>1, <2>3
<1>7. Rec(f)
  <2>1. \A i \in 0 .. n : i # 0 => i \in 1 .. n
    BY <1>1
  <2>2. \A i \in 0 .. n : f[i] = IF i = 0 THEN 0 ELSE f[i - 1] + d[i]
    BY <1>5, <1>6, <2>1
  <2>3. f = [i \in 0 .. n |-> f[i]]
    OBVIOUS
  <2> HIDE DEF f
  <2> QED
    BY <2>2, <2>3
<1> DEFINE v == CHOOSE w : Rec(w)
<1> HIDE DEF f
<1>9. Rec(v)
  <2> HIDE DEF Rec
  <2> QED
    BY <1>7
<1>10. Sums(d) = v
  BY DEF Sums
<1> HIDE DEF v
<1>8. v = [i \in 0 .. n |-> v[i]]
  BY ONLY <1>9
<1>11. v[0] = 0 /\ \A i \in 1 .. n : v[i] = v[i - 1] + d[i]
  <2>1. \A i \in 0 .. n : v[i] = IF i = 0 THEN 0 ELSE v[i - 1] + d[i]
    BY ONLY <1>9
  <2>2. 0 \in 0 .. n /\ \A i \in 1 .. n : i \in 0 .. n /\ i # 0
    BY <1>1
  <2> HIDE DEF Rec
  <2> QED
    BY ONLY <2>1, <2>2
<1> HIDE DEF Rec
<1> DEFINE T == {k \in Nat : k <= n => v[k] = f[k]}
<1>12. \A k \in 0 .. n : v[k] = f[k]
  <2>1. 0 \in T
    BY <1>5, <1>11
  <2>2. ASSUME NEW k \in Nat, k \in T
        PROVE  k + 1 \in T
    <3>1. k + 1 <= n => k <= n /\ k + 1 \in 1 .. n /\ (k + 1) - 1 = k
      BY <1>1
    <3>2. k <= n => v[k] = f[k]
      BY <2>2
    <3>3. k + 1 <= n => v[k + 1] = f[k + 1]
      BY <1>6, <1>11, <3>1, <3>2
    <3>4. k + 1 \in Nat
      OBVIOUS
    <3> QED
      BY <3>3, <3>4, Zenon
  <2>3. Nat \subseteq T
    <3> HIDE DEF T
    <3> QED
      BY <2>1, <2>2, Induction
  <2> QED
    BY <1>1, <2>3
<1>13. v \in [0 .. n -> Nat]
  <2>1. \A k \in 0 .. n : v[k] \in Nat
    BY <1>5, <1>12
  <2> QED
    BY <1>8, <2>1
<1> QED
  BY <1>10, <1>11, <1>13

-----------------------------------------------------------------------------
(* Quotients are unique, and taken one after the other divide by the        *)
(* product.                                                                 *)
LEMMA DivUnique ==
  ASSUME NEW a \in Nat, NEW m \in Nat \ {0}, NEW q \in Nat, NEW r \in 0 .. m - 1, a = m * q + r
  PROVE  a \div m = q
<1> DEFINE p == a \div m
           s == a % m
<1>1. p \in Nat /\ s \in 0 .. m - 1 /\ a = m * p + s
  BY DivMod
<1> HIDE DEF p, s
<1>2. \A x \in Nat : x >= 1 => m * x >= m
  OBVIOUS
<1>3. CASE p > q
  <2>1. p - q \in Nat /\ p - q >= 1 /\ m * (p - q) = m * p - m * q
    BY <1>1, <1>3
  <2>2. m * (p - q) >= m
    BY <1>2, <2>1
  <2>3. m * p \in Nat /\ m * q \in Nat
    BY <1>1
  <2> QED
    BY <1>1, <2>1, <2>2, <2>3
<1>4. CASE p < q
  <2>1. q - p \in Nat /\ q - p >= 1 /\ m * (q - p) = m * q - m * p
    BY <1>1, <1>4
  <2>2. m * (q - p) >= m
    BY <1>2, <2>1
  <2>3. m * p \in Nat /\ m * q \in Nat
    BY <1>1
  <2> QED
    BY <1>1, <2>1, <2>2, <2>3
<1> QED
  BY <1>1, <1>3, <1>4 DEF p

LEMMA DivDiv ==
  ASSUME NEW a \in Nat, NEW b \in Nat \ {0}, NEW c \in Nat \ {0}
  PROVE  a \div (b * c) = (a \div c) \div b
<1> DEFINE m == a \div c
           r == a % c
           k == m \div b
           s == m % b
<1>1. m \in Nat /\ r \in 0 .. c - 1 /\ a = c * m + r
  BY DivMod
<1> HIDE DEF m, r
<1>2. k \in Nat /\ s \in 0 .. b - 1 /\ m = b * k + s
  BY <1>1, DivMod
<1> HIDE DEF k, s
<1>3. b * c \in Nat \ {0}
  OBVIOUS
<1>4. c * m = (b * c) * k + c * s
  BY <1>1, <1>2
<1>5. c * s + r \in 0 .. b * c - 1
  <2>1. c * s \in Nat /\ c * (b - 1) = b * c - c
    BY <1>2
  <2>2. c * s <= c * (b - 1)
    <3>1. (b - 1) - s \in Nat
      BY <1>2
    <3>2. c * ((b - 1) - s) \in Nat
      BY <3>1
    <3>3. c * ((b - 1) - s) = c * (b - 1) - c * s
      BY <1>2
    <3>4. c * (b - 1) \in Nat
      OBVIOUS
    <3> QED
      BY <2>1, <3>2, <3>3, <3>4
  <2> QED
    BY <1>1, <1>3, <2>1, <2>2
<1>6. a = (b * c) * k + (c * s + r)
  <2>1. (b * c) * k \in Nat /\ c * s \in Nat
    BY <1>2, <1>3
  <2> QED
    BY <1>1, <1>4, <2>1
<1> DEFINE bc == b * c
           rest == c * s + r
<1>7. bc \in Nat \ {0} /\ rest \in 0 .. bc - 1 /\ a = bc * k + rest
  BY <1>3, <1>5, <1>6
<1> HIDE DEF bc, rest
<1>8. a \div bc = k
  BY ONLY <1>2, <1>7, DivUnique, a \in Nat
<1> QED
  BY <1>8 DEF bc, k, m

LEMMA DigitsType ==
  ASSUME NEW b \in Nat \ {0}, NEW n \in Nat, NEW w \in Nat
  PROVE  /\ Digits(n, b, w) \in Seq(0 .. b - 1) /\ Len(Digits(n, b, w)) = w
         /\ \A i \in 1 .. w : Digits(n, b, w)[i] = (n \div Power(b)[w - i]) % b
<1> DEFINE d(i) == (n \div Power(b)[w - i]) % b
<1>1. ASSUME NEW i \in 1 .. w
      PROVE  d(i) \in 0 .. b - 1
  <2>1. Power(b)[w - i] \in Nat \ {0}
    <3>1. w - i \in Nat
      OBVIOUS
    <3> QED
      BY <3>1, Powers
  <2>2. n \div Power(b)[w - i] \in Nat
    BY <2>1, DivMod
  <2> QED
    BY <2>2, DivMod
<1> HIDE DEF d
<1>2. Digits(n, b, w) = [i \in 1 .. w |-> d(i)]
  BY DEF Digits, d
<1>3. Digits(n, b, w) \in [1 .. w -> 0 .. b - 1]
  BY <1>1, <1>2
<1>4. \A i \in 1 .. w : Digits(n, b, w)[i] = d(i)
  BY <1>2
<1> QED
  BY <1>3, <1>4 DEF d

(* A number that fits is read as it was written.                            *)
LEMMA RoundTrip ==
  ASSUME NEW b \in Nat \ {0}, NEW w \in Nat, NEW n \in Nat, n < Power(b)[w]
  PROVE  Number(Digits(n, b, w), b) = n
<1> DEFINE p == Power(b)
           d == Digits(n, b, w)
<1>1. /\ p[0] = 1 /\ n < p[w]
      /\ \A k \in Nat : p[k] \in Nat \ {0}
      /\ \A k \in Nat : p[k + 1] = b * p[k]
  BY Powers
<1> HIDE DEF p
<1>2. d \in Seq(Nat) /\ Len(d) = w /\ \A i \in 1 .. w : d[i] = (n \div p[w - i]) % b
  <2>1. 0 .. b - 1 \subseteq Nat
    OBVIOUS
  <2> QED
    BY <2>1, DigitsType, SeqMonotonic DEF p
<1> HIDE DEF d
<1>3. PICK f \in [0 .. w -> Nat] :
        /\ f[0] = 0 /\ \A i \in 1 .. w : f[i] = f[i - 1] * b + d[i]
        /\ Number(d, b) = f[w]
  BY <1>2, NumberSteps
<1> DEFINE T == {k \in Nat : k <= w => f[k] = n \div p[w - k]}
<1>4. 0 \in T
  <2>1. p[w] \in Nat \ {0} /\ n < p[w]
    BY ONLY <1>1, w \in Nat
  <2>2. n \div p[w] = 0
    <3> DEFINE m == p[w]
    <3>1. m \in Nat \ {0} /\ n \in 0 .. m - 1 /\ n = m * 0 + n /\ 0 \in Nat
      BY <2>1
    <3> HIDE DEF m
    <3>2. n \div m = 0
      BY ONLY <3>1, DivUnique, n \in Nat
    <3> QED
      BY <3>2 DEF m
  <2>3. w - 0 = w
    OBVIOUS
  <2> QED
    BY <1>3, <2>2, <2>3
<1>5. ASSUME NEW k \in Nat, k \in T
      PROVE  k + 1 \in T
  <2> SUFFICES ASSUME k + 1 <= w
               PROVE  f[k + 1] = n \div p[w - (k + 1)]
    OBVIOUS
  <2> DEFINE q == p[w - (k + 1)]
             m == n \div q
  <2>1. /\ w - (k + 1) \in Nat /\ (w - (k + 1)) + 1 = w - k /\ k <= w
        /\ k + 1 \in 1 .. w /\ (k + 1) - 1 = k
    OBVIOUS
  <2>2. q \in Nat \ {0} /\ p[w - k] = b * q
    BY <1>1, <2>1
  <2>3. f[k] = n \div (b * q)
    BY <1>5, <2>1, <2>2
  <2>4. d[k + 1] = m % b
    BY <1>2, <2>1
  <2>5. f[k + 1] = f[k] * b + d[k + 1]
    BY <1>3, <2>1
  <2> HIDE DEF q
  <2>6. m \in Nat
    BY <2>2, DivMod
  <2>7. f[k] = m \div b
    BY <2>2, <2>3, DivDiv
  <2> HIDE DEF m
  <2>8. m = b * (m \div b) + (m % b)
    BY <2>6, DivMod
  <2>9. f[k + 1] = m
    BY <2>4, <2>5, <2>6, <2>7, <2>8
  <2> QED
    BY <2>9 DEF m, q
<1>6. w \in T
  <2> HIDE DEF T
  <2> QED
    BY <1>4, <1>5, Induction
<1>7. f[w] = n
  <2>1. w <= w /\ w - w = 0 /\ p[0] = 1
    BY <1>1
  <2>2. n \div 1 = n
    OBVIOUS
  <2> QED
    BY <1>6, <2>1, <2>2
<1> QED
  BY <1>3, <1>7 DEF d
=============================================================================
