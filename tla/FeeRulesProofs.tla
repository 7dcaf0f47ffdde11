--------------------------- MODULE FeeRulesProofs ---------------------------
(***************************************************************************)
(* What a stay costs, for any rules, times and lengths of stay.  The cap   *)
(* holds whatever the free sections of the rules; the counts of ticks and  *)
(* the minutes charged are what they should be when the rules are in order *)
(* (InOrder): sections that are disjoint and lie within a day.             *)
(*                                                                         *)
(* The code adds up overlaps of intervals; the properties count ticks.     *)
(* The bridge is that a sum of the sizes of disjoint sets is the size of   *)
(* their union.  The sum is a fold over a set that takes one element after *)
(* the other; what it is follows by taking a smallest set for which it     *)
(* would not be so.                                                        *)
(***************************************************************************)
EXTENDS FeeRules, FiniteSetTheorems, WellFoundedInduction, TLAPS

-----------------------------------------------------------------------------
(* Sums over finite sets.                                                  *)

(* A family of subsets of a finite set has a smallest member: none that is *)
(* contained in it belongs to the family.                                  *)
LEMMA SmallestSubset ==
    ASSUME NEW S, IsFiniteSet(S), NEW B \in SUBSET (SUBSET S), B # {}
    PROVE  \E T \in B : \A U \in SUBSET T : U \in B => U = T
  <1>1. IsWellFoundedOn(StrictSubsetOrdering(S), SUBSET S)
    BY FS_StrictSubsetOrderingWellFounded, FS_FiniteSubsetsOfFinite, Zenon
  <1>2. PICK T \in B : \A U \in B : ~(<<U, T>> \in StrictSubsetOrdering(S))
    BY <1>1, WFMin, Zenon
  <1>3. ASSUME NEW U \in SUBSET T, U \in B PROVE U = T
    BY <1>2, <1>3 DEF StrictSubsetOrdering
  <1> QED BY <1>3

(* How the fold takes a set apart, and the function it defines.            *)
Any(s) == CHOOSE x \in s : TRUE
Rest(s) == s \ {Any(s)}
IsSum(h, f, S) ==
    h = [s \in SUBSET S |-> IF s = {} THEN 0 ELSE f[Any(s)] + h[Rest(s)]]
Summed(f, S) == CHOOSE h : IsSum(h, f, S)

(* The sum is the value, at the whole set, of the function that the fold   *)
(* defines by recursion.                                                   *)
LEMMA SumUnfolded ==
    ASSUME NEW f, NEW S
    PROVE  SumFunctionOnSet(f, S) = Summed(f, S)[S]
  BY DEF SumFunctionOnSet, FoldFunctionOnSet, MapThenFoldSet, IsSum, Summed, Any, Rest

(* A set that is not empty is the rest of it and one element more.         *)
LEMMA RestIs ==
    ASSUME NEW s, s # {}
    PROVE  /\ Any(s) \in s /\ Any(s) \notin Rest(s)
           /\ Rest(s) \subseteq s /\ Rest(s) # s
           /\ s = Rest(s) \cup {Any(s)}
  <1>1. Any(s) \in s
    BY DEF Any
  <1> QED BY <1>1 DEF Rest

(* One unfolding of the recursion.                                         *)
LEMMA SumStep ==
    ASSUME NEW f, NEW S, NEW h, IsSum(h, f, S), NEW s \in SUBSET S
    PROVE  h[s] = IF s = {} THEN 0 ELSE f[Any(s)] + h[Rest(s)]
  BY Zenon DEF IsSum

(* The recursion for a set and that for a subset agree on the subset.      *)
LEMMA SumUnique ==
    ASSUME NEW f, NEW S, IsFiniteSet(S), NEW T \in SUBSET S,
           NEW h, IsSum(h, f, S), NEW k, IsSum(k, f, T)
    PROVE  \A s \in SUBSET T : h[s] = k[s]
  <1> DEFINE B == {s \in SUBSET T : h[s] # k[s]}
  <1> SUFFICES ASSUME B # {} PROVE FALSE
    OBVIOUS
  <1>1. IsFiniteSet(T)
    BY FS_Subset
  <1>2. PICK s \in B : \A u \in SUBSET s : u \in B => u = s
    <2>1. B \in SUBSET (SUBSET T)
      OBVIOUS
    <2> HIDE DEF B
    <2> QED BY <1>1, <2>1, SmallestSubset
  <1>3. /\ h[s] = IF s = {} THEN 0 ELSE f[Any(s)] + h[Rest(s)]
        /\ k[s] = IF s = {} THEN 0 ELSE f[Any(s)] + k[Rest(s)]
    BY SumStep
  <1>4. s # {}
    BY <1>2, <1>3
  <1>5. h[Rest(s)] = k[Rest(s)]
    BY <1>2, <1>4, RestIs
  <1> QED BY <1>2, <1>3, <1>4, <1>5

(* There is a function that satisfies the recursion.                       *)
LEMMA SumExists ==
    ASSUME NEW f, NEW S, IsFiniteSet(S)
    PROVE  IsSum(Summed(f, S), f, S)
  <1> DEFINE B == {T \in SUBSET S : ~ \E h : IsSum(h, f, T)}
  <1> SUFFICES ASSUME B # {} PROVE FALSE
    BY Zenon DEF Summed
  <1>1. PICK T \in B : \A U \in SUBSET T : U \in B => U = T
    <2>1. B \in SUBSET (SUBSET S)
      OBVIOUS
    <2> HIDE DEF B
    <2> QED BY <2>1, SmallestSubset
  <1>2. IsFiniteSet(T)
    BY FS_Subset
  <1>3. ASSUME NEW U \in SUBSET T, U # T PROVE IsSum(Summed(f, U), f, U)
    <2>1. \E h : IsSum(h, f, U)
      BY <1>1, <1>3
    <2> QED BY <2>1, Zenon DEF Summed
  <1> DEFINE V(s) == Summed(f, s)[s]
             H == [s \in SUBSET T |-> IF s = {} THEN 0 ELSE f[Any(s)] + V(Rest(s))]
  <1>4. ASSUME NEW s \in SUBSET T, s # {} PROVE H[Rest(s)] = V(Rest(s))
    <2> DEFINE r == Rest(s)
    <2>1. r \in SUBSET T /\ r # T
      BY <1>4, RestIs
    <2>2. IsSum(Summed(f, r), f, r)
      BY <1>3, <2>1
    <2>3. V(r) = IF r = {} THEN 0 ELSE f[Any(r)] + Summed(f, r)[Rest(r)]
      <3> HIDE DEF r
      <3> QED BY <2>2, SumStep
    <2>4. H[r] = IF r = {} THEN 0 ELSE f[Any(r)] + V(Rest(r))
      BY <2>1
    <2>5. CASE r # {}
      <3>1. Rest(r) \in SUBSET r /\ Rest(r) \in SUBSET T /\ Rest(r) # T
        BY <2>1, <2>5, RestIs
      <3>2. IsSum(Summed(f, Rest(r)), f, Rest(r))
        BY <1>3, <3>1
      <3>3. IsFiniteSet(r)
        BY <1>2, <2>1, FS_Subset
      <3>4. Summed(f, r)[Rest(r)] = Summed(f, Rest(r))[Rest(r)]
        <4> HIDE DEF r
        <4> QED BY <2>2, <3>1, <3>2, <3>3, SumUnique
      <3> QED BY <2>3, <2>4, <3>4
    <2> QED BY <2>3, <2>4, <2>5
  <1>5. IsSum(H, f, T)
    BY <1>4 DEF IsSum
  <1> QED BY <1>1, <1>5

(* What the sum is: nothing, or one element and the sum of the rest.       *)
LEMMA SumIs ==
    ASSUME NEW f, NEW S, IsFiniteSet(S)
    PROVE  SumFunctionOnSet(f, S) =
             IF S = {} THEN 0 ELSE f[Any(S)] + SumFunctionOnSet(f, Rest(S))
  <1>1. IsSum(Summed(f, S), f, S)
    BY SumExists
  <1>2. Summed(f, S)[S] = IF S = {} THEN 0 ELSE f[Any(S)] + Summed(f, S)[Rest(S)]
    BY <1>1, SumStep
  <1>3. CASE S # {}
    <2>1. Rest(S) \in SUBSET S
      BY <1>3, RestIs
    <2>2. IsFiniteSet(Rest(S))
      BY <2>1, FS_Subset
    <2>3. IsSum(Summed(f, Rest(S)), f, Rest(S))
      BY <2>2, SumExists
    <2>4. Summed(f, S)[Rest(S)] = Summed(f, Rest(S))[Rest(S)]
      BY <1>1, <2>1, <2>3, SumUnique
    <2> QED BY <1>2, <2>4, SumUnfolded
  <1> QED BY <1>2, <1>3, SumUnfolded

(* The union of the sets F[q], q in Q.                                     *)
Parts(F, Q) == UNION {F[q] : q \in Q}

(* The sum of the sizes of disjoint finite sets is the size of their       *)
(* union.                                                                  *)
LEMMA SumOfParts ==
    ASSUME NEW Q, IsFiniteSet(Q), NEW F, NEW f,
           \A q \in Q : IsFiniteSet(F[q]) /\ f[q] = Cardinality(F[q]),
           \A q, r \in Q : q # r => F[q] \cap F[r] = {}
    PROVE  /\ IsFiniteSet(Parts(F, Q))
           /\ SumFunctionOnSet(f, Q) = Cardinality(Parts(F, Q))
  <1> DEFINE Holds(T) == /\ IsFiniteSet(Parts(F, T))
                         /\ SumFunctionOnSet(f, T) = Cardinality(Parts(F, T))
             B == {T \in SUBSET Q : ~Holds(T)}
  <1> SUFFICES ASSUME B # {} PROVE FALSE
    OBVIOUS
  <1>1. PICK T \in B : \A U \in SUBSET T : U \in B => U = T
    <2>1. B \in SUBSET (SUBSET Q)
      OBVIOUS
    <2> HIDE DEF B
    <2> QED BY <2>1, SmallestSubset
  <1>2. T \in SUBSET Q /\ ~Holds(T) /\ IsFiniteSet(T)
    BY FS_Subset
  <1>3. T # {}
    <2>1. SUFFICES ASSUME T = {} PROVE FALSE
      OBVIOUS
    <2>2. Parts(F, T) = {}
      BY <2>1 DEF Parts
    <2>3. SumFunctionOnSet(f, T) = 0
      BY <1>2, <2>1, SumIs
    <2> QED BY <1>2, <2>2, <2>3, FS_EmptySet
  <1> DEFINE a == Any(T)
             R == Rest(T)
  <1>4. /\ a \in T /\ a \notin R /\ R \subseteq T /\ R # T /\ T = R \cup {a}
    BY <1>3, RestIs
  <1>5. Holds(R)
    BY <1>1, <1>4
  <1>6. SumFunctionOnSet(f, T) = f[a] + SumFunctionOnSet(f, R)
    BY <1>2, <1>3, SumIs
  <1> HIDE DEF a, R
  <1>7. Parts(F, T) = F[a] \cup Parts(F, R)
    BY <1>4 DEF Parts
  <1>8. F[a] \cap Parts(F, R) = {}
    BY <1>2, <1>4 DEF Parts
  <1>9. IsFiniteSet(F[a]) /\ f[a] = Cardinality(F[a])
    BY <1>2, <1>4
  <1>10. /\ IsFiniteSet(Parts(F, T))
         /\ Cardinality(Parts(F, T)) = Cardinality(F[a]) + Cardinality(Parts(F, R)) - 0
    BY <1>5, <1>7, <1>8, <1>9, FS_Union, FS_EmptySet
  <1>11. Cardinality(F[a]) \in Nat /\ Cardinality(Parts(F, R)) \in Nat
    BY <1>5, <1>9, FS_CardinalityType
  <1>12. SumFunctionOnSet(f, T) = Cardinality(Parts(F, T))
    BY <1>5, <1>6, <1>9, <1>10, <1>11
  <1> QED BY <1>2, <1>10, <1>12

(* The sum of integers is one.                                             *)
LEMMA SumInteger ==
    ASSUME NEW Q, IsFiniteSet(Q), NEW f, \A q \in Q : f[q] \in Int
    PROVE  SumFunctionOnSet(f, Q) \in Int
  <1> DEFINE B == {T \in SUBSET Q : SumFunctionOnSet(f, T) \notin Int}
  <1> SUFFICES ASSUME B # {} PROVE FALSE
    OBVIOUS
  <1>1. PICK T \in B : \A U \in SUBSET T : U \in B => U = T
    <2>1. B \in SUBSET (SUBSET Q)
      OBVIOUS
    <2> HIDE DEF B
    <2> QED BY <2>1, SmallestSubset
  <1>2. T \in SUBSET Q /\ SumFunctionOnSet(f, T) \notin Int /\ IsFiniteSet(T)
    BY FS_Subset
  <1>3. SumFunctionOnSet(f, T) =
          IF T = {} THEN 0 ELSE f[Any(T)] + SumFunctionOnSet(f, Rest(T))
    BY <1>2, SumIs
  <1>4. T # {}
    BY <1>2, <1>3
  <1>5. Any(T) \in T /\ Rest(T) \subseteq T /\ Rest(T) # T
    BY <1>4, RestIs
  <1>6. SumFunctionOnSet(f, Rest(T)) \in Int
    BY <1>1, <1>5
  <1>7. f[Any(T)] \in Int
    BY <1>2, <1>5
  <1> QED BY <1>2, <1>3, <1>4, <1>6, <1>7

(* The sum of integers that are at most c, none of them negative perhaps.  *)
LEMMA SumBounded ==
    ASSUME NEW Q, IsFiniteSet(Q), NEW f, NEW c \in Nat,
           \A q \in Q : f[q] \in Int /\ f[q] <= c
    PROVE  /\ SumFunctionOnSet(f, Q) \in Int
           /\ SumFunctionOnSet(f, Q) <= Cardinality(Q) * c
           /\ (\A q \in Q : f[q] >= 0) => SumFunctionOnSet(f, Q) >= 0
  <1> DEFINE Positive == \A q \in Q : f[q] >= 0
             Holds(T) == /\ SumFunctionOnSet(f, T) \in Int
                         /\ SumFunctionOnSet(f, T) <= Cardinality(T) * c
                         /\ Positive => SumFunctionOnSet(f, T) >= 0
             B == {T \in SUBSET Q : ~Holds(T)}
  <1> SUFFICES ASSUME B # {} PROVE FALSE
    OBVIOUS
  <1>1. PICK T \in B : \A U \in SUBSET T : U \in B => U = T
    <2>1. B \in SUBSET (SUBSET Q)
      OBVIOUS
    <2> HIDE DEF B
    <2> QED BY <2>1, SmallestSubset
  <1>2. T \in SUBSET Q /\ ~Holds(T) /\ IsFiniteSet(T)
    BY FS_Subset
  <1>3. T # {}
    <2>1. SUFFICES ASSUME T = {} PROVE FALSE
      OBVIOUS
    <2>2. Cardinality(T) = 0
      BY <2>1, FS_EmptySet
    <2>3. SumFunctionOnSet(f, T) = 0
      BY <1>2, <2>1, SumIs
    <2>4. Cardinality(T) * c = 0
      BY <2>2
    <2> QED BY <1>2, <2>3, <2>4
  <1> DEFINE a == Any(T)
             R == Rest(T)
  <1>4. /\ a \in T /\ R \subseteq T /\ R # T
    BY <1>3, RestIs
  <1>5. Holds(R)
    BY <1>1, <1>4
  <1>6. SumFunctionOnSet(f, T) = f[a] + SumFunctionOnSet(f, R)
    BY <1>2, <1>3, SumIs
  <1>7. IsFiniteSet(R) /\ Cardinality(R) = Cardinality(T) - 1
    BY <1>2, <1>4, FS_RemoveElement DEF Rest
  <1> HIDE DEF a, R
  <1>8. Cardinality(T) \in Nat
    BY <1>2, FS_CardinalityType
  <1>9. (Cardinality(T) - 1) * c = Cardinality(T) * c - c
    BY <1>8
  <1>10. f[a] \in Int /\ f[a] <= c /\ (Positive => f[a] >= 0)
    BY <1>2, <1>4
  <1>11. Cardinality(T) * c \in Int
    BY <1>8
  <1> DEFINE n == Cardinality(T) * c
  <1>12. /\ SumFunctionOnSet(f, R) \in Int /\ SumFunctionOnSet(f, R) <= n - c
         /\ Positive => SumFunctionOnSet(f, R) >= 0
    BY <1>5, <1>7, <1>9
  <1>13. n \in Int
    BY <1>11
  <1> HIDE DEF n, Positive
  <1>14. /\ SumFunctionOnSet(f, T) \in Int /\ SumFunctionOnSet(f, T) <= n
         /\ Positive => SumFunctionOnSet(f, T) >= 0
    BY <1>6, <1>10, <1>12, <1>13
  <1> QED BY <1>2, <1>14 DEF n

-----------------------------------------------------------------------------
(* Division, days and ticks.                                               *)

(* Days and minutes have a length.                                         *)
LEMMA DayIs == Day \in Nat \ {0} /\ Minute \in Nat \ {0}
  BY FeeAssumption

(* What a quotient and a remainder are.                                    *)
LEMMA DivMod ==
    ASSUME NEW a \in Int, NEW b \in Nat \ {0}
    PROVE  /\ a \div b \in Int /\ a % b \in 0 .. b - 1
           /\ a = b * (a \div b) + (a % b)
  OBVIOUS

(* A quotient lies between the numbers whose multiples enclose a.          *)
LEMMA DivBounds ==
    ASSUME NEW a \in Int, NEW b \in Nat \ {0}, NEW q \in Int
    PROVE  /\ b * q <= a => q <= a \div b
           /\ a < b * q + b => a \div b <= q
  <1> DEFINE k == a \div b
             r == a % b
  <1>1. k \in Int /\ r \in Int /\ 0 <= r /\ r < b /\ a = b * k + r
    BY DivMod
  <1> HIDE DEF k, r
  <1>2. ASSUME b * q <= a PROVE q <= k
    <2> SUFFICES ASSUME k + 1 <= q PROVE FALSE
      BY <1>1
    <2>1. b * (k + 1) <= b * q
      BY <1>1
    <2>2. b * (k + 1) = b * k + b
      BY <1>1
    <2> QED BY <1>1, <1>2, <2>1, <2>2
  <1>3. ASSUME a < b * q + b PROVE k <= q
    <2> SUFFICES ASSUME q + 1 <= k PROVE FALSE
      BY <1>1
    <2>1. b * (q + 1) <= b * k
      BY <1>1
    <2>2. b * (q + 1) = b * q + b
      BY <1>1
    <2> QED BY <1>1, <1>3, <2>1, <2>2
  <1> QED BY <1>2, <1>3 DEF k

(* The midnights are Day ticks apart.                                      *)
LEMMA MidnightIs ==
    ASSUME NEW d \in Int
    PROVE  MidnightOf(d) \in Int /\ MidnightOf(d + 1) = MidnightOf(d) + Day
  BY DayIs DEF MidnightOf

(* The date and the time of day of a tick.                                 *)
LEMMA DateIs ==
    ASSUME NEW d \in Int, NEW t \in Int, MidnightOf(d) <= t, t < MidnightOf(d) + Day
    PROVE  Date(t) = d /\ TimeOfDay(t) = t - MidnightOf(d)
  <1>1. Day * d <= t /\ t < Day * d + Day
    BY DayIs DEF MidnightOf
  <1>2. d <= t \div Day /\ t \div Day <= d /\ t \div Day \in Int
    BY DayIs, DivBounds, DivMod, <1>1
  <1>3. t \div Day = d
    BY <1>2
  <1>4. t = Day * (t \div Day) + (t % Day) /\ t % Day \in 0 .. Day - 1
    BY DayIs, DivMod
  <1>5. t % Day = t - d * Day
    BY <1>3, <1>4, DayIs
  <1> QED BY <1>3, <1>5 DEF Date, TimeOfDay, MidnightOf

(* A tick lies between the midnights of its date.                          *)
LEMMA DateBounds ==
    ASSUME NEW t \in Nat
    PROVE  Date(t) \in Nat /\ MidnightOf(Date(t)) <= t /\ t < MidnightOf(Date(t)) + Day
  <1> DEFINE k == t \div Day
             r == t % Day
  <1>1. k \in Int /\ r \in Int /\ 0 <= r /\ r < Day /\ t = Day * k + r
    BY DayIs, DivMod
  <1>2. 0 <= k
    BY DayIs, DivBounds
  <1> HIDE DEF k, r
  <1>3. Day * k = k * Day
    BY DayIs, <1>1
  <1>4. Date(t) = k /\ MidnightOf(k) = k * Day
    BY DEF Date, MidnightOf, k
  <1> QED BY <1>1, <1>2, <1>3, <1>4, DayIs

(* The ticks of a period, and those of them from b to e.                   *)
Ticks(p) == p[1] .. p[2] - 1
Span(p, b, e) == {t \in Ticks(p) : b <= t /\ t < e}

(* How many ticks two intervals have in common: what Overlap says when     *)
(* none of them ends before it begins.                                     *)
Common(p, b, e) == Larger(0, Smaller(p[2], e) - Larger(p[1], b))
LEMMA OverlapIs ==
    ASSUME NEW p \in Int \X Int, p[1] <= p[2], NEW b \in Int, NEW e \in Int, b <= e
    PROVE  Overlap(p, <<b, e>>) = Common(p, b, e)
  <1>1. p[1] \in Int /\ p[2] \in Int
    OBVIOUS
  <1> QED BY <1>1 DEF Overlap, Intersects, Common, Larger, Smaller

LEMMA SpanIs ==
    ASSUME NEW p \in Int \X Int, NEW b \in Int, NEW e \in Int
    PROVE  IsFiniteSet(Span(p, b, e)) /\ Cardinality(Span(p, b, e)) = Common(p, b, e)
  <1> DEFINE l == Larger(p[1], b)
             u == Smaller(p[2], e) - 1
  <1>1. p[1] \in Int /\ p[2] \in Int
    OBVIOUS
  <1>2. l \in Int /\ u \in Int
    BY <1>1 DEF Larger, Smaller
  <1>3. Span(p, b, e) = l .. u
    BY <1>1 DEF Span, Ticks, Larger, Smaller
  <1>4. Common(p, b, e) = IF l > u THEN 0 ELSE u - l + 1
    BY <1>1 DEF Common, Larger, Smaller
  <1> HIDE DEF l, u
  <1>5. IsFiniteSet(l .. u) /\ Cardinality(l .. u) = IF l > u THEN 0 ELSE u - l + 1
    BY <1>2, FS_Interval
  <1> QED BY <1>3, <1>4, <1>5

(* The ticks of a period are finitely many.                                *)
LEMMA TicksFinite ==
    ASSUME NEW p \in Int \X Int, NEW S \in SUBSET Ticks(p)
    PROVE  IsFiniteSet(S) /\ Cardinality(S) \in Nat
  <1> DEFINE l == p[1]
             u == p[2] - 1
  <1>1. l \in Int /\ u \in Int /\ Ticks(p) = l .. u
    BY DEF Ticks
  <1> HIDE DEF l, u
  <1>2. IsFiniteSet(l .. u)
    BY <1>1, FS_Interval
  <1>3. IsFiniteSet(S)
    BY <1>1, <1>2, FS_Subset
  <1> QED BY <1>3, FS_CardinalityType

(* Two disjoint sets of ticks.                                             *)
LEMMA TwoParts ==
    ASSUME NEW A, NEW B, IsFiniteSet(A), IsFiniteSet(B), A \cap B = {}
    PROVE  /\ IsFiniteSet(A \cup B)
           /\ Cardinality(A \cup B) = Cardinality(A) + Cardinality(B)
  <1>1. Cardinality(A) \in Nat /\ Cardinality(B) \in Nat
    BY FS_CardinalityType
  <1>2. /\ IsFiniteSet(A \cup B)
        /\ Cardinality(A \cup B) = Cardinality(A) + Cardinality(B) - Cardinality({})
    BY FS_Union
  <1> QED BY <1>1, <1>2, FS_EmptySet

(* What is left of a finite set without a part of it.                      *)
LEMMA WithoutPart ==
    ASSUME NEW A, IsFiniteSet(A), NEW B \in SUBSET A
    PROVE  IsFiniteSet(A \ B) /\ Cardinality(A \ B) = Cardinality(A) - Cardinality(B)
  <1>1. A \cap B = B
    OBVIOUS
  <1> QED BY <1>1, FS_Difference

-----------------------------------------------------------------------------
(* The rule, and the ticks it tells apart.                                 *)

(* A rule in order, and what it says; its sections are finitely many.      *)
Proper(rule) == WellFormed(rule) /\ InOrder(rule)
LEMMA RuleIs ==
    ASSUME NEW rule, Proper(rule)
    PROVE  /\ rule.daylight_begin \in Nat /\ rule.night_begin \in Nat
           /\ rule.daylight_begin <= rule.night_begin /\ rule.night_begin <= Day
           /\ rule.free_time_length \in Nat
           /\ IsFiniteSet(rule.free_time_sections)
           /\ \A s \in rule.free_time_sections :
                /\ s = <<s[1], s[2]>> /\ s[1] \in Nat /\ s[2] \in Nat
                /\ s[1] < s[2] /\ s[2] <= Day
           /\ \A s, u \in rule.free_time_sections : s = u \/ s[2] <= u[1] \/ u[2] <= s[1]
  <1>1. \A s \in rule.free_time_sections :
          /\ s = <<s[1], s[2]>> /\ s[1] \in Nat /\ s[2] \in Nat
          /\ s[1] < s[2] /\ s[2] <= Day
    BY DEF Proper, WellFormed, InOrder
  <1> QED BY <1>1 DEF Proper, WellFormed, InOrder

(* Ticks in daylight, and in a free section, on one date.                  *)
InDaylight(t, date, rule) ==
    MidnightOf(date) + rule.daylight_begin <= t /\ t < MidnightOf(date) + rule.night_begin
InSection(t, date, s) == MidnightOf(date) + s[1] <= t /\ t < MidnightOf(date) + s[2]

(* The ticks of a period that are in daylight on the date, and the others. *)
Lit(p, date, rule) == {t \in Ticks(p) : InDaylight(t, date, rule)}
Unlit(p, date, rule) == {t \in Ticks(p) : ~InDaylight(t, date, rule)}

(* What one section takes of a set of ticks, and what all of them do.      *)
Taken(C, date, s) == {t \in C : InSection(t, date, s)}
FreeOf(C, date, rule) ==
    {t \in C : \E s \in rule.free_time_sections : InSection(t, date, s)}

(* FreeParts, case by case, counts the ticks of a free section: in         *)
(* daylight, and not.                                                      *)
LEMMA FreePartsAre ==
    ASSUME NEW rule, Proper(rule), NEW s \in rule.free_time_sections,
           NEW p \in Int \X Int, p[1] <= p[2], NEW date \in Int
    PROVE  /\ FreeParts(p, s, date, rule)["daylight"] =
                Cardinality(Taken(Lit(p, date, rule), date, s))
           /\ FreeParts(p, s, date, rule)["night"] =
                Cardinality(Taken(Unlit(p, date, rule), date, s))
  <1> DEFINE M == MidnightOf(date)
             day == rule.daylight_begin
             night == rule.night_begin
             b == s[1]
             e == s[2]
             Over(x, y) == Overlap(p, <<M + x, M + y>>)
             In(x, y) == Common(p, M + x, M + y)
  <1>1. /\ M \in Int /\ day \in Nat /\ night \in Nat /\ b \in Nat /\ e \in Nat
        /\ day <= night /\ b < e /\ p[1] \in Int /\ p[2] \in Int
    BY RuleIs, MidnightIs
  <1>2. /\ FreeParts(p, s, date, rule).daylight = In(Larger(b, day), Smaller(e, night))
        /\ FreeParts(p, s, date, rule).night = In(b, Smaller(e, day)) + In(Larger(b, night), e)
    <2> DEFINE F == FreeParts(p, s, date, rule)
    <2>1. F = CASE b < day /\ e <= day -> Part(0, Over(b, e))
                [] b < day /\ e > day /\ e > night -> Part(Over(day, night), Over(b, day) + Over(night, e))
                [] b < day /\ e > day /\ e <= night -> Part(Over(day, e), Over(b, day))
                [] b >= day /\ b < night /\ e <= night -> Part(Over(b, e), 0)
                [] b >= day /\ b < night /\ e > night -> Part(Over(b, night), Over(night, e))
                [] OTHER -> Part(0, Over(b, e))
      BY DEF FreeParts
    <2> HIDE DEF F, M, day, night, b, e
    <2>0. ASSUME NEW x \in Nat, NEW y \in Nat, x <= y PROVE Over(x, y) = In(x, y)
      BY <1>1, <2>0, OverlapIs
    <2> HIDE DEF Over
    <2>2. CASE b < day /\ e <= day
      <3>1. F = Part(0, In(b, e))
        BY <2>0, <2>1, <2>2, <1>1
      <3> QED BY <3>1, <2>2, <1>1 DEF Part, Common, Larger, Smaller, F
    <2>3. CASE b < day /\ e > day /\ e > night
      <3>1. F = Part(In(day, night), In(b, day) + In(night, e))
        BY <2>0, <2>1, <2>3, <1>1
      <3> QED BY <3>1, <2>3, <1>1 DEF Part, Common, Larger, Smaller, F
    <2>4. CASE b < day /\ e > day /\ e <= night
      <3>1. F = Part(In(day, e), In(b, day))
        BY <2>0, <2>1, <2>4, <1>1
      <3> QED BY <3>1, <2>4, <1>1 DEF Part, Common, Larger, Smaller, F
    <2>5. CASE b >= day /\ b < night /\ e <= night
      <3>1. F = Part(In(b, e), 0)
        BY <2>0, <2>1, <2>5, <1>1
      <3> QED BY <3>1, <2>5, <1>1 DEF Part, Common, Larger, Smaller, F
    <2>6. CASE b >= day /\ b < night /\ e > night
      <3>1. F = Part(In(b, night), In(night, e))
        BY <2>0, <2>1, <2>6, <1>1
      <3> QED BY <3>1, <2>6, <1>1 DEF Part, Common, Larger, Smaller, F
    <2>7. CASE b >= day /\ b >= night
      <3>1. F = Part(0, In(b, e))
        BY <2>0, <2>1, <2>7, <1>1
      <3> QED BY <3>1, <2>7, <1>1 DEF Part, Common, Larger, Smaller, F
    <2> QED BY <2>2, <2>3, <2>4, <2>5, <2>6, <2>7, <1>1
  <1> HIDE DEF M, day, night, b, e
  <1>3. Taken(Lit(p, date, rule), date, s)
          = Span(p, M + Larger(b, day), M + Smaller(e, night))
    BY <1>1 DEF Taken, Lit, Span, Ticks, InSection, InDaylight, Larger, Smaller, M, day, night, b, e
  <1>4. Taken(Unlit(p, date, rule), date, s)
          = Span(p, M + b, M + Smaller(e, day)) \cup Span(p, M + Larger(b, night), M + e)
    BY <1>1 DEF Taken, Unlit, Span, Ticks, InSection, InDaylight, Larger, Smaller, M, day, night, b, e
  <1>5. Span(p, M + b, M + Smaller(e, day)) \cap Span(p, M + Larger(b, night), M + e) = {}
    BY <1>1 DEF Span, Ticks, Larger, Smaller
  <1>6. /\ M + Larger(b, day) \in Int /\ M + Smaller(e, night) \in Int /\ M + b \in Int
        /\ M + Smaller(e, day) \in Int /\ M + Larger(b, night) \in Int /\ M + e \in Int
    BY <1>1 DEF Larger, Smaller
  <1>7. Cardinality(Span(p, M + Larger(b, day), M + Smaller(e, night)))
          = In(Larger(b, day), Smaller(e, night))
    BY <1>6, SpanIs
  <1>8. Cardinality(Span(p, M + b, M + Smaller(e, day)) \cup Span(p, M + Larger(b, night), M + e))
          = In(b, Smaller(e, day)) + In(Larger(b, night), e)
    <2>1. /\ IsFiniteSet(Span(p, M + b, M + Smaller(e, day)))
          /\ Cardinality(Span(p, M + b, M + Smaller(e, day))) = In(b, Smaller(e, day))
          /\ IsFiniteSet(Span(p, M + Larger(b, night), M + e))
          /\ Cardinality(Span(p, M + Larger(b, night), M + e)) = In(Larger(b, night), e)
      BY <1>6, SpanIs
    <2> HIDE DEF In
    <2> QED BY <1>5, <2>1, TwoParts
  <1> HIDE DEF In
  <1> QED BY <1>2, <1>3, <1>4, <1>7, <1>8

(* The sections of a rule do not overlap, so what is free of a set of      *)
(* ticks is the sum of what each section takes of it.                      *)
LEMMA FreeTaken ==
    ASSUME NEW rule, Proper(rule), NEW date \in Int,
           NEW C \in SUBSET Int, IsFiniteSet(C),
           NEW f, DOMAIN f = rule.free_time_sections,
           \A s \in rule.free_time_sections : f[s] = Cardinality(Taken(C, date, s))
    PROVE  SumFunction(f) = Cardinality(FreeOf(C, date, rule))
  <1> DEFINE Q == rule.free_time_sections
             F == [s \in Q |-> Taken(C, date, s)]
  <1>1. IsFiniteSet(Q) /\ MidnightOf(date) \in Int
    BY RuleIs, MidnightIs
  <1>2. \A s \in Q : F[s] \in SUBSET C
    BY DEF Taken
  <1>3. \A s \in Q : IsFiniteSet(F[s]) /\ f[s] = Cardinality(F[s])
    <2> HIDE DEF F
    <2>1. \A s \in Q : IsFiniteSet(F[s])
      BY <1>2, FS_Subset
    <2> QED BY <2>1 DEF F
  <1>4. ASSUME NEW s \in Q, NEW u \in Q, s # u PROVE F[s] \cap F[u] = {}
    <2>1. s[2] <= u[1] \/ u[2] <= s[1]
      BY <1>4, RuleIs
    <2>2. s[1] \in Nat /\ s[2] \in Nat /\ u[1] \in Nat /\ u[2] \in Nat
      BY RuleIs
    <2>3. Taken(C, date, s) \cap Taken(C, date, u) = {}
      <3>1. ASSUME NEW t \in C, InSection(t, date, s), InSection(t, date, u) PROVE FALSE
        BY <3>1, <2>1, <2>2, <1>1 DEF InSection
      <3> QED BY <3>1 DEF Taken
    <2> QED BY <2>3
  <1>5. Parts(F, Q) = FreeOf(C, date, rule)
    <2>1. ASSUME NEW t PROVE t \in Parts(F, Q) <=> \E s \in Q : t \in F[s]
      BY Zenon DEF Parts
    <2>2. ASSUME NEW t, NEW s \in Q PROVE t \in F[s] <=> t \in C /\ InSection(t, date, s)
      BY DEF Taken
    <2> HIDE DEF F
    <2> QED BY <2>1, <2>2 DEF FreeOf
  <1> HIDE DEF F
  <1>6. SumFunctionOnSet(f, Q) = Cardinality(Parts(F, Q))
    BY <1>1, <1>3, <1>4, SumOfParts
  <1> QED BY <1>5, <1>6 DEF SumFunction

(* The ticks of a period that are to be paid, in daylight or at night.     *)
ToPay(p, rule, daylight) ==
    {t \in Ticks(p) : ~IsFree(t, rule) /\ IsDaylight(t, rule) = daylight}

(* On one date a tick is in daylight, and free, as the time of day says.   *)
LEMMA OneDate ==
    ASSUME NEW rule, NEW date \in Int, NEW t \in Int,
           MidnightOf(date) <= t, t < MidnightOf(date) + Day,
           Proper(rule)
    PROVE  /\ IsDaylight(t, rule) <=> InDaylight(t, date, rule)
           /\ IsFree(t, rule) <=> \E s \in rule.free_time_sections : InSection(t, date, s)
  <1>1. TimeOfDay(t) = t - MidnightOf(date) /\ MidnightOf(date) \in Int
    BY DateIs, MidnightIs
  <1> DEFINE M == MidnightOf(date)
  <1>2. IsDaylight(t, rule) <=> InDaylight(t, date, rule)
    BY <1>1, RuleIs DEF IsDaylight, InDaylight
  <1>3. \A s \in rule.free_time_sections :
          (TimeOfDay(t) >= s[1] /\ TimeOfDay(t) < s[2]) <=> InSection(t, date, s)
    BY <1>1, RuleIs DEF InSection
  <1> QED BY <1>2, <1>3 DEF IsFree

(* Pattern 1: within one date, ValidTime1 counts the ticks to be paid.     *)
LEMMA ValidTime1Is ==
    ASSUME NEW rule, Proper(rule), NEW p \in Int \X Int, NEW date \in Int,
           p[1] <= p[2], MidnightOf(date) <= p[1], p[2] <= MidnightOf(date) + Day
    PROVE  /\ ValidTime1(p, date, rule).daylight = Cardinality(ToPay(p, rule, TRUE))
           /\ ValidTime1(p, date, rule).night = Cardinality(ToPay(p, rule, FALSE))
  <1> DEFINE M == MidnightOf(date)
             day == rule.daylight_begin
             night == rule.night_begin
             Q == rule.free_time_sections
             Over(x, y) == Overlap(p, <<M + x, M + y>>)
             In(x, y) == Common(p, M + x, M + y)
             f(part) == [s \in Q |-> FreeParts(p, s, date, rule)[part]]
             D == Lit(p, date, rule)
             N == Unlit(p, date, rule)
             Free(C) == FreeOf(C, date, rule)
  <1>1. /\ M \in Int /\ day \in Nat /\ night \in Nat /\ day <= night /\ night <= Day
        /\ p[1] \in Int /\ p[2] \in Int /\ Day \in Nat
    BY RuleIs, MidnightIs, DayIs
  <1>2. /\ D \in SUBSET Int /\ IsFiniteSet(D) /\ N \in SUBSET Int /\ IsFiniteSet(N)
    <2>1. D \in SUBSET Ticks(p) /\ N \in SUBSET Ticks(p)
      BY DEF Lit, Unlit
    <2>2. Ticks(p) \subseteq Int
      BY DEF Ticks
    <2> QED BY <2>1, <2>2, TicksFinite
  <1>3. SumFunction(f("daylight")) = Cardinality(Free(D))
    <2>1. ASSUME NEW s \in Q
          PROVE  f("daylight")[s] = Cardinality(Taken(D, date, s))
      BY FreePartsAre
    <2>2. DOMAIN f("daylight") = Q
      OBVIOUS
    <2> HIDE DEF f, D
    <2> QED BY <1>2, <2>1, <2>2, FreeTaken
  <1>4. SumFunction(f("night")) = Cardinality(Free(N))
    <2>1. ASSUME NEW s \in Q
          PROVE  f("night")[s] = Cardinality(Taken(N, date, s))
      BY FreePartsAre
    <2>2. DOMAIN f("night") = Q
      OBVIOUS
    <2> HIDE DEF f, N
    <2> QED BY <1>2, <2>1, <2>2, FreeTaken
  <1>5. Cardinality(D) = In(day, night)
    <2>1. D = Span(p, M + day, M + night)
      BY DEF Span, InDaylight, Lit
    <2> QED BY <1>1, <2>1, SpanIs
  <1>6. Cardinality(N) = In(0, day) + In(night, Day)
    <2>1. N = Span(p, M + 0, M + day) \cup Span(p, M + night, M + Day)
      BY <1>1 DEF Span, InDaylight, Ticks, Unlit
    <2>2. Span(p, M + 0, M + day) \cap Span(p, M + night, M + Day) = {}
      BY <1>1 DEF Span, Ticks
    <2>3. /\ IsFiniteSet(Span(p, M + 0, M + day))
          /\ Cardinality(Span(p, M + 0, M + day)) = In(0, day)
          /\ IsFiniteSet(Span(p, M + night, M + Day))
          /\ Cardinality(Span(p, M + night, M + Day)) = In(night, Day)
      BY <1>1, SpanIs
    <2> HIDE DEF N, In, M, day, night
    <2> QED BY <2>1, <2>2, <2>3, TwoParts
  <1>7. /\ Cardinality(D \ Free(D)) = Cardinality(D) - Cardinality(Free(D))
        /\ Cardinality(N \ Free(N)) = Cardinality(N) - Cardinality(Free(N))
    <2>1. Free(D) \in SUBSET D /\ Free(N) \in SUBSET N
      BY DEF FreeOf
    <2> QED BY <1>2, <2>1, WithoutPart
  <1>8. ToPay(p, rule, TRUE) = D \ Free(D) /\ ToPay(p, rule, FALSE) = N \ Free(N)
    <2>1. ASSUME NEW t \in Ticks(p)
          PROVE  /\ IsDaylight(t, rule) <=> InDaylight(t, date, rule)
                 /\ IsFree(t, rule) <=> \E s \in Q : InSection(t, date, s)
                 /\ IsDaylight(t, rule) \in BOOLEAN
      <3>1. t \in Int /\ M <= t /\ t < M + Day
        BY <1>1 DEF Ticks
      <3> QED BY <3>1, OneDate DEF IsDaylight
    <2> QED BY <2>1 DEF ToPay, Lit, Unlit, FreeOf
  <1>9. ValidTime1(p, date, rule) =
          Part(In(day, night) - SumFunction(f("daylight")),
               In(0, day) + In(night, Day) - SumFunction(f("night")))
    <2>1. ValidTime1(p, date, rule) =
            Part(Over(day, night) - SumFunction(f("daylight")),
                 Over(0, day) + Over(night, Day) - SumFunction(f("night")))
      BY DEF ValidTime1
    <2>2. Over(day, night) = In(day, night) /\ Over(0, day) = In(0, day)
          /\ Over(night, Day) = In(night, Day)
      <3> HIDE DEF M, day, night
      <3>1. ASSUME NEW x \in Nat, NEW y \in Nat, x <= y PROVE Over(x, y) = In(x, y)
        BY <1>1, <3>1, OverlapIs
      <3> HIDE DEF Over, In
      <3> QED BY <1>1, <3>1
    <2> HIDE DEF Over, In, f
    <2> QED BY <2>1, <2>2
  <1>10. /\ ValidTime1(p, date, rule).daylight = In(day, night) - SumFunction(f("daylight"))
         /\ ValidTime1(p, date, rule).night =
              In(0, day) + In(night, Day) - SumFunction(f("night"))
    <2> HIDE DEF f, In
    <2> QED BY <1>9 DEF Part
  <1>11. ValidTime1(p, date, rule).daylight = Cardinality(D \ Free(D))
    <2> HIDE DEF f, In, D, Free
    <2> QED BY <1>3, <1>5, <1>7, <1>10
  <1>12. ValidTime1(p, date, rule).night = Cardinality(N \ Free(N))
    <2>1. In(0, day) \in Int /\ In(night, Day) \in Int /\ Cardinality(Free(N)) \in Int
      <3>1. Free(N) \in SUBSET N
        BY DEF FreeOf
      <3>2. IsFiniteSet(Free(N))
        BY <1>2, <3>1, FS_Subset
      <3>3. Cardinality(Free(N)) \in Int
        BY <3>2, FS_CardinalityType
      <3> QED BY <1>1, <3>3 DEF Common, Larger, Smaller
    <2> HIDE DEF f, In, N, Free
    <2> QED BY <1>4, <1>6, <1>7, <1>10, <2>1
  <1> QED BY <1>8, <1>11, <1>12

-----------------------------------------------------------------------------
(* Pattern 0: sections of parked time.                                     *)

(* Finitely many periods without a common tick, and all their ticks.       *)
Apart(W) ==
    /\ IsFiniteSet(DOMAIN W)
    /\ \A w \in DOMAIN W : W[w] \in Int \X Int /\ W[w][1] <= W[w][2]
    /\ \A w, v \in DOMAIN W : w # v => Ticks(W[w]) \cap Ticks(W[v]) = {}
TicksOf(W) == {t \in Int : \E w \in DOMAIN W : t \in Ticks(W[w])}

(* Ticks are integers; a period has as many as it is long.                 *)
LEMMA TicksAre ==
    ASSUME NEW w \in Int \X Int
    PROVE  /\ Ticks(w) \subseteq Int /\ IsFiniteSet(Ticks(w))
           /\ w[1] <= w[2] => Cardinality(Ticks(w)) = w[2] - w[1]
  <1> DEFINE l == w[1]
             u == w[2] - 1
  <1>1. l \in Int /\ u \in Int /\ Ticks(w) = l .. u /\ w[2] = u + 1
    BY DEF Ticks
  <1> HIDE DEF u
  <1>2. IsFiniteSet(l .. u) /\ Cardinality(l .. u) = IF l > u THEN 0 ELSE u - l + 1
    BY <1>1, FS_Interval
  <1>3. ASSUME w[1] <= w[2] PROVE Cardinality(Ticks(w)) = w[2] - w[1]
    BY <1>1, <1>2, <1>3
  <1> QED BY <1>1, <1>2, <1>3

(* The lengths of such periods add up to the number of their ticks.        *)
LEMMA LengthsAre ==
    ASSUME NEW W, Apart(W)
    PROVE  /\ IsFiniteSet(TicksOf(W))
           /\ SumFunction([w \in DOMAIN W |-> W[w][2] - W[w][1]]) = Cardinality(TicksOf(W))
  <1> DEFINE D == DOMAIN W
             F == [w \in D |-> Ticks(W[w])]
             f == [w \in D |-> W[w][2] - W[w][1]]
  <1>1. \A w \in D : IsFiniteSet(F[w]) /\ f[w] = Cardinality(F[w])
    BY TicksAre DEF Apart
  <1>2. \A w, v \in D : w # v => F[w] \cap F[v] = {}
    BY DEF Apart
  <1>3. Parts(F, D) = TicksOf(W)
    <2>1. ASSUME NEW t PROVE t \in Parts(F, D) <=> \E w \in D : t \in F[w]
      BY Zenon DEF Parts
    <2>2. \A w \in D : F[w] = Ticks(W[w]) /\ Ticks(W[w]) \subseteq Int
      BY TicksAre DEF Apart
    <2> HIDE DEF F
    <2> QED BY <2>1, <2>2 DEF TicksOf
  <1>4. DOMAIN f = D /\ IsFiniteSet(D)
    BY DEF Apart
  <1> HIDE DEF F, f
  <1>5. /\ IsFiniteSet(Parts(F, D))
        /\ SumFunctionOnSet(f, D) = Cardinality(Parts(F, D))
    BY <1>1, <1>2, <1>4, SumOfParts
  <1>6. SumFunction(f) = Cardinality(TicksOf(W)) /\ IsFiniteSet(TicksOf(W))
    BY <1>3, <1>4, <1>5 DEF SumFunction
  <1> QED BY <1>6 DEF f

(* SubstrctFreeTimeSection counts the free ticks of one date.              *)
LEMMA FreeTimeIs ==
    ASSUME NEW W, Apart(W), NEW rule, Proper(rule), NEW date \in Int
    PROVE  FreeTime(W, date, rule) = Cardinality(FreeOf(TicksOf(W), date, rule))
  <1> DEFINE Q == rule.free_time_sections
             M == MidnightOf(date)
             P == Q \X DOMAIN W
             F == [g \in P |-> Span(W[g[2]], M + g[1][1], M + g[1][2])]
             f == [g \in P |-> Overlap(W[g[2]], <<M + g[1][1], M + g[1][2]>>)]
  <1>1. M \in Int /\ IsFiniteSet(Q) /\ IsFiniteSet(DOMAIN W)
    BY RuleIs, MidnightIs DEF Apart
  <1>2. IsFiniteSet(P)
    BY <1>1, FS_Product
  <1>3. ASSUME NEW g \in P
        PROVE  /\ g = <<g[1], g[2]>> /\ g[1] \in Q /\ g[2] \in DOMAIN W
               /\ W[g[2]] \in Int \X Int /\ W[g[2]][1] <= W[g[2]][2]
               /\ M + g[1][1] \in Int /\ M + g[1][2] \in Int /\ M + g[1][1] <= M + g[1][2]
    <2>1. g = <<g[1], g[2]>> /\ g[1] \in Q /\ g[2] \in DOMAIN W
      OBVIOUS
    <2>2. g[1][1] \in Nat /\ g[1][2] \in Nat /\ g[1][1] <= g[1][2]
      BY <2>1, RuleIs
    <2>3. W[g[2]] \in Int \X Int /\ W[g[2]][1] <= W[g[2]][2]
      BY <2>1 DEF Apart
    <2> QED BY <1>1, <2>1, <2>2, <2>3
  <1>4. \A g \in P : IsFiniteSet(F[g]) /\ f[g] = Cardinality(F[g])
    <2> HIDE DEF P, M
    <2>1. \A g \in P : f[g] = Common(W[g[2]], M + g[1][1], M + g[1][2])
      BY <1>3, OverlapIs
    <2>2. \A g \in P : /\ IsFiniteSet(F[g])
                      /\ Cardinality(F[g]) = Common(W[g[2]], M + g[1][1], M + g[1][2])
      BY <1>3, SpanIs
    <2> HIDE DEF f, F
    <2> QED BY <2>1, <2>2
  <1>5. ASSUME NEW g \in P, NEW h \in P, g # h PROVE F[g] \cap F[h] = {}
    <2>1. F[g] = Span(W[g[2]], M + g[1][1], M + g[1][2])
          /\ F[h] = Span(W[h[2]], M + h[1][1], M + h[1][2])
      OBVIOUS
    <2>2. CASE g[2] # h[2]
      <3>1. Ticks(W[g[2]]) \cap Ticks(W[h[2]]) = {}
        BY <1>3, <2>2 DEF Apart
      <3> HIDE DEF F, P, M
      <3> QED BY <2>1, <3>1 DEF Span
    <2>3. CASE g[2] = h[2]
      <3>1. g[1] # h[1]
        BY <1>3, <1>5, <2>3
      <3>2. g[1][2] <= h[1][1] \/ h[1][2] <= g[1][1]
        BY <1>3, <3>1, RuleIs
      <3>3. /\ g[1][1] \in Nat /\ g[1][2] \in Nat /\ h[1][1] \in Nat /\ h[1][2] \in Nat
        BY <1>3, RuleIs
      <3>4. Ticks(W[g[2]]) \subseteq Int /\ Ticks(W[h[2]]) \subseteq Int
        BY <1>3, TicksAre
      <3> HIDE DEF F, P, M
      <3>5. ASSUME NEW t \in Int, M + g[1][1] <= t, t < M + g[1][2],
                   M + h[1][1] <= t, t < M + h[1][2]
            PROVE  FALSE
        BY <1>1, <3>2, <3>3, <3>5
      <3> QED BY <2>1, <3>4, <3>5 DEF Span
    <2> QED BY <2>2, <2>3
  <1>6. Parts(F, P) = FreeOf(TicksOf(W), date, rule)
    <2>1. ASSUME NEW t PROVE t \in Parts(F, P) <=> \E g \in P : t \in F[g]
      BY Zenon DEF Parts
    <2>2. ASSUME NEW s \in Q, NEW w \in DOMAIN W
          PROVE  <<s, w>> \in P /\ F[<<s, w>>] = Span(W[w], M + s[1], M + s[2])
      OBVIOUS
    <2>3. \A g \in P : g = <<g[1], g[2]>> /\ g[1] \in Q /\ g[2] \in DOMAIN W
      BY <1>3
    <2>4. \A w \in DOMAIN W : Ticks(W[w]) \subseteq Int
      BY TicksAre DEF Apart
    <2> HIDE DEF F, P
    <2>5. ASSUME NEW t
          PROVE  (\E g \in P : t \in F[g]) <=>
                   \E s \in Q, w \in DOMAIN W : t \in Span(W[w], M + s[1], M + s[2])
      <3> DEFINE I(s, w) == Span(W[w], M + s[1], M + s[2])
      <3>1. \A s \in Q, w \in DOMAIN W : <<s, w>> \in P /\ F[<<s, w>>] = I(s, w)
        BY <2>2
      <3> HIDE DEF I, Q
      <3>2. \A g \in P : F[g] = I(g[1], g[2])
        BY <2>3, <3>1
      <3>3. (\E g \in P : t \in F[g]) <=> \E s \in Q, w \in DOMAIN W : t \in I(s, w)
        BY <2>3, <3>1, <3>2
      <3> QED BY <3>3 DEF I
    <2>6. ASSUME NEW t, NEW s \in Q, NEW w \in DOMAIN W
          PROVE  t \in Span(W[w], M + s[1], M + s[2]) <=> t \in Ticks(W[w]) /\ InSection(t, date, s)
      BY DEF Span, InSection
    <2>7. ASSUME NEW t
          PROVE  t \in FreeOf(TicksOf(W), date, rule) <=>
                   \E s \in Q, w \in DOMAIN W : t \in Ticks(W[w]) /\ InSection(t, date, s)
      BY <2>4 DEF FreeOf, TicksOf
    <2> QED BY <2>1, <2>5, <2>6, <2>7
  <1>7. FreeTime(W, date, rule) = SumFunction(f) /\ DOMAIN f = P
    BY DEF FreeTime
  <1> HIDE DEF F, f, P
  <1>8. SumFunctionOnSet(f, P) = Cardinality(Parts(F, P))
    BY <1>2, <1>4, <1>5, SumOfParts
  <1> QED BY <1>6, <1>7, <1>8 DEF SumFunction

(* Intervals that follow one another.                                      *)
Successive(sections) ==
    /\ IsFiniteSet(sections) /\ sections \subseteq Int \X Int
    /\ \A s \in sections : s[1] <= s[2]
    /\ \A s, u \in sections : s = u \/ s[2] <= u[1] \/ u[2] <= s[1]
Within(p, sections) == {t \in Ticks(p) : \E s \in sections : t \in Ticks(s)}

(* The sections of parked time are the ticks of the period in a section.   *)
LEMMA ParkedIs ==
    ASSUME NEW p \in Int \X Int, p[1] <= p[2], NEW sections, Successive(sections)
    PROVE  Apart(Parked(p, sections)) /\ TicksOf(Parked(p, sections)) = Within(p, sections)
  <1> DEFINE W == Parked(p, sections)
             Q == {s \in sections : Intersects(p, s)}
  <1>1. ASSUME NEW s \in sections
        PROVE  /\ p[1] \in Int /\ p[2] \in Int /\ s[1] \in Int /\ s[2] \in Int
               /\ Whole(p, s) \in Int \X Int
               /\ Ticks(Whole(p, s)) = Ticks(p) \cap Ticks(s)
               /\ Intersects(p, s) => Whole(p, s)[1] <= Whole(p, s)[2]
               /\ ~Intersects(p, s) => Ticks(p) \cap Ticks(s) = {}
    <2>1. p[1] \in Int /\ p[2] \in Int /\ s[1] \in Int /\ s[2] \in Int /\ s[1] <= s[2]
      BY DEF Successive
    <2> QED BY <2>1 DEF Whole, Ticks, Intersects, Larger, Smaller
  <1>2. DOMAIN W = Q /\ \A s \in Q : W[s] = Whole(p, s)
    BY DEF Parked
  <1>3. IsFiniteSet(Q)
    BY FS_Subset DEF Successive
  <1> HIDE DEF W
  <1>4. \A s \in Q : W[s] \in Int \X Int /\ W[s][1] <= W[s][2]
    BY <1>1, <1>2
  <1>5. ASSUME NEW s \in Q, NEW u \in Q, s # u PROVE Ticks(W[s]) \cap Ticks(W[u]) = {}
    <2>1. s[2] <= u[1] \/ u[2] <= s[1]
      BY <1>5 DEF Successive
    <2>2. Ticks(s) \cap Ticks(u) = {}
      BY <1>1, <2>1 DEF Ticks
    <2> QED BY <1>1, <1>2, <2>2
  <1>6. Apart(W)
    <2> HIDE DEF Q
    <2> QED BY <1>2, <1>3, <1>4, <1>5 DEF Apart
  <1>7. TicksOf(W) = Within(p, sections)
    <2>1. ASSUME NEW t
          PROVE  (\E s \in Q : t \in Ticks(W[s])) <=>
                   \E s \in sections : t \in Ticks(p) /\ t \in Ticks(s)
      BY <1>1, <1>2
    <2>2. Ticks(p) \subseteq Int
      BY TicksAre
    <2> HIDE DEF Q
    <2> QED BY <1>2, <2>1, <2>2 DEF TicksOf, Within
  <1> QED BY <1>6, <1>7 DEF W

(* ValidLength counts the ticks parked in the sections that are free on    *)
(* neither of the two dates.                                               *)
LEMMA ValidLengthIs ==
    ASSUME NEW p \in Int \X Int, p[1] <= p[2], NEW sections, Successive(sections),
           NEW rule, Proper(rule), NEW date \in Int
    PROVE  ValidLength(p, sections, date, rule) =
             Cardinality({t \in Within(p, sections) :
                            \A s \in rule.free_time_sections :
                              ~InSection(t, date, s) /\ ~InSection(t, date + 1, s)})
  <1> DEFINE W == Parked(p, sections)
             C == TicksOf(W)
             A == FreeOf(C, date, rule)
             B == FreeOf(C, date + 1, rule)
  <1>1. Apart(W) /\ C = Within(p, sections)
    BY ParkedIs
  <1>2. IsFiniteSet(C) /\ SumFunction([w \in DOMAIN W |-> W[w][2] - W[w][1]]) = Cardinality(C)
    BY <1>1, LengthsAre
  <1>3. FreeTime(W, date, rule) = Cardinality(A) /\ FreeTime(W, date + 1, rule) = Cardinality(B)
    BY <1>1, FreeTimeIs
  <1>4. A \in SUBSET C /\ B \in SUBSET C
    BY DEF FreeOf
  <1>5. IsFiniteSet(A) /\ IsFiniteSet(B)
    BY <1>2, <1>4, FS_Subset
  <1>6. A \cap B = {}
    <2> DEFINE M == MidnightOf(date)
    <2>1. M \in Int /\ MidnightOf(date + 1) = M + Day /\ Day \in Nat
      BY MidnightIs, DayIs
    <2>2. ASSUME NEW t \in Int, NEW s \in rule.free_time_sections,
                 NEW u \in rule.free_time_sections,
                 InSection(t, date, s), InSection(t, date + 1, u)
          PROVE  FALSE
      <3>1. s[2] \in Nat /\ s[2] <= Day /\ u[1] \in Nat
        BY RuleIs
      <3>2. t < M + s[2] /\ M + Day + u[1] <= t
        BY <2>1, <2>2 DEF InSection
      <3> QED BY <2>1, <3>1, <3>2
    <2>3. C \subseteq Int
      BY DEF TicksOf
    <2> HIDE DEF C
    <2> QED BY <2>2, <2>3 DEF FreeOf
  <1>7. A \cup B \in SUBSET C /\ Cardinality(A \cup B) = Cardinality(A) + Cardinality(B)
    BY <1>4, <1>5, <1>6, TwoParts
  <1>8. Cardinality(C \ (A \cup B)) = Cardinality(C) - Cardinality(A \cup B)
    BY <1>2, <1>7, WithoutPart
  <1>9. Cardinality(A) \in Nat /\ Cardinality(B) \in Nat /\ Cardinality(C) \in Nat
    BY <1>2, <1>5, FS_CardinalityType
  <1>10. ValidLength(p, sections, date, rule) = Cardinality(C) - Cardinality(A) - Cardinality(B)
    BY <1>2, <1>3 DEF ValidLength
  <1>11. C \ (A \cup B) = {t \in Within(p, sections) :
                            \A s \in rule.free_time_sections :
                              ~InSection(t, date, s) /\ ~InSection(t, date + 1, s)}
    BY <1>1 DEF FreeOf
  <1> HIDE DEF C, A, B
  <1>12. ValidLength(p, sections, date, rule) = Cardinality(C \ (A \cup B))
    BY <1>7, <1>8, <1>9, <1>10
  <1> QED BY <1>11, <1>12

(* On two dates running a tick is in daylight, and free, when it is so on  *)
(* one of them.                                                            *)
LEMMA TwoDates ==
    ASSUME NEW rule, Proper(rule), NEW date \in Int, NEW t \in Int,
           MidnightOf(date) <= t, t < MidnightOf(date) + 2 * Day
    PROVE  /\ IsDaylight(t, rule) <=>
                InDaylight(t, date, rule) \/ InDaylight(t, date + 1, rule)
           /\ IsFree(t, rule) <=>
                \E s \in rule.free_time_sections :
                  InSection(t, date, s) \/ InSection(t, date + 1, s)
  <1> DEFINE M == MidnightOf(date)
             Q == rule.free_time_sections
  <1>1. M \in Int /\ MidnightOf(date + 1) = M + Day /\ Day \in Nat \ {0}
    BY MidnightIs, DayIs
  <1>2. /\ rule.daylight_begin \in Nat /\ rule.night_begin \in Nat /\ rule.night_begin <= Day
        /\ \A s \in Q : s[1] \in Nat /\ s[2] \in Nat /\ s[2] <= Day
    BY RuleIs
  <1>3. CASE t < M + Day
    <2>1. /\ IsDaylight(t, rule) <=> InDaylight(t, date, rule)
          /\ IsFree(t, rule) <=> \E s \in Q : InSection(t, date, s)
      BY <1>3, OneDate
    <2>2. ~InDaylight(t, date + 1, rule)
      BY <1>1, <1>2, <1>3 DEF InDaylight
    <2>3. \A s \in Q : ~InSection(t, date + 1, s)
      BY <1>1, <1>2, <1>3 DEF InSection
    <2> QED BY <2>1, <2>2, <2>3
  <1>4. CASE t >= M + Day
    <2>1. date + 1 \in Int /\ MidnightOf(date + 1) <= t /\ t < MidnightOf(date + 1) + Day
      BY <1>1, <1>4
    <2>2. /\ IsDaylight(t, rule) <=> InDaylight(t, date + 1, rule)
          /\ IsFree(t, rule) <=> \E s \in Q : InSection(t, date + 1, s)
      BY <2>1, OneDate
    <2>3. ~InDaylight(t, date, rule)
      BY <1>1, <1>2, <1>4 DEF InDaylight
    <2>4. \A s \in Q : ~InSection(t, date, s)
      BY <1>1, <1>2, <1>4 DEF InSection
    <2> QED BY <2>2, <2>3, <2>4
  <1> QED BY <1>1, <1>3, <1>4

(* Two or three things are a finite set.                                   *)
LEMMA FewAreFinite ==
    ASSUME NEW x, NEW y, NEW z
    PROVE  IsFiniteSet({x, y}) /\ IsFiniteSet({x, y, z})
  <1>1. {x, y} = {x} \cup {y} /\ {x, y, z} = {x, y} \cup {z}
    OBVIOUS
  <1>2. IsFiniteSet({x})
    BY FS_Singleton
  <1>3. IsFiniteSet({x} \cup {y})
    BY <1>2, FS_AddElement
  <1>4. IsFiniteSet({x, y})
    BY <1>1, <1>3
  <1>5. IsFiniteSet({x, y} \cup {z})
    BY <1>4, FS_AddElement
  <1> QED BY <1>1, <1>4, <1>5

(* The daylight and night sections of two dates running follow one another *)
(* and tell daylight from night.                                           *)
LEMMA SectionsAre ==
    ASSUME NEW rule, Proper(rule), NEW date \in Int
    PROVE  /\ Successive(DaylightPeriods(date, rule)) /\ Successive(NightPeriods(date, rule))
           /\ \A t \in Int :
                MidnightOf(date) <= t /\ t < MidnightOf(date) + 2 * Day =>
                  LET lit == InDaylight(t, date, rule) \/ InDaylight(t, date + 1, rule) IN
                  /\ (\E s \in DaylightPeriods(date, rule) : t \in Ticks(s)) <=> lit
                  /\ (\E s \in NightPeriods(date, rule) : t \in Ticks(s)) <=> ~lit
  <1> DEFINE M == MidnightOf(date)
             day == rule.daylight_begin
             night == rule.night_begin
             d1 == <<M + day, M + night>>
             d2 == <<M + Day + day, M + Day + night>>
             n1 == <<M, M + day>>
             n2 == <<M + night, M + Day + day>>
             n3 == <<M + Day + night, M + 2 * Day>>
  <1>1. /\ M \in Int /\ MidnightOf(date + 1) = M + Day /\ Day \in Nat \ {0}
        /\ MidnightOf(date + 2) = M + 2 * Day
        /\ day \in Nat /\ night \in Nat /\ day <= night /\ night <= Day
    <2>1. MidnightOf((date + 1) + 1) = MidnightOf(date + 1) + Day /\ (date + 1) + 1 = date + 2
      BY MidnightIs
    <2> QED BY <2>1, MidnightIs, DayIs, RuleIs
  <1>2. DaylightPeriods(date, rule) = {d1, d2}
    BY <1>1 DEF DaylightPeriods
  <1>3. NightPeriods(date, rule) = {n1, n2, n3}
    BY <1>1 DEF NightPeriods
  <1> HIDE DEF M, day, night
  <1>4. Successive({d1, d2})
    <2>1. IsFiniteSet({d1, d2})
      BY FewAreFinite
    <2> QED BY <1>1, <2>1 DEF Successive
  <1>5. Successive({n1, n2, n3})
    <2>1. IsFiniteSet({n1, n2, n3})
      BY FewAreFinite
    <2>2. {n1, n2, n3} \subseteq Int \X Int
      BY <1>1
    <2>3. /\ n1[2] <= n2[1] /\ n1[2] <= n3[1] /\ n2[2] <= n3[1]
          /\ n1[1] <= n1[2] /\ n2[1] <= n2[2] /\ n3[1] <= n3[2]
      BY <1>1
    <2> HIDE DEF n1, n2, n3
    <2> QED BY <2>1, <2>2, <2>3 DEF Successive
  <1>6. ASSUME NEW t \in Int, M <= t, t < M + 2 * Day
        PROVE  LET lit == InDaylight(t, date, rule) \/ InDaylight(t, date + 1, rule) IN
               /\ t \in Ticks(d1) \/ t \in Ticks(d2) <=> lit
               /\ t \in Ticks(n1) \/ t \in Ticks(n2) \/ t \in Ticks(n3) <=> ~lit
    <2>1. /\ InDaylight(t, date, rule) <=> M + day <= t /\ t < M + night
          /\ InDaylight(t, date + 1, rule) <=> M + Day + day <= t /\ t < M + Day + night
      BY <1>1 DEF InDaylight, M, day, night
    <2>2. /\ t \in Ticks(d1) <=> M + day <= t /\ t < M + night
          /\ t \in Ticks(d2) <=> M + Day + day <= t /\ t < M + Day + night
          /\ t \in Ticks(n1) <=> M <= t /\ t < M + day
          /\ t \in Ticks(n2) <=> M + night <= t /\ t < M + Day + day
          /\ t \in Ticks(n3) <=> M + Day + night <= t /\ t < M + 2 * Day
      BY <1>1 DEF Ticks
    <2> QED BY <1>1, <1>6, <2>1, <2>2
  <1> HIDE DEF d1, d2, n1, n2, n3
  <1> QED BY <1>2, <1>3, <1>4, <1>5, <1>6 DEF M

(* Pattern 0: in a period of at most a day CalInvalidParkingTime counts    *)
(* the ticks to be paid.                                                   *)
LEMMA ValidTime0Is ==
    ASSUME NEW rule, Proper(rule), NEW b \in Nat, NEW e \in Int, b <= e, e <= b + Day
    PROVE  LET p == <<b, e>> IN
           /\ CalInvalidParkingTime(p, rule).daylight = Cardinality(ToPay(p, rule, TRUE))
           /\ CalInvalidParkingTime(p, rule).night = Cardinality(ToPay(p, rule, FALSE))
  <1> DEFINE p == <<b, e>>
             date == Date(b)
             M == MidnightOf(date)
             Q == rule.free_time_sections
             Unfree(sections) ==
               {t \in Within(p, sections) :
                  \A s \in Q : ~InSection(t, date, s) /\ ~InSection(t, date + 1, s)}
  <1>1. p \in Int \X Int /\ p[1] = b /\ p[2] = e /\ p[1] <= p[2]
    OBVIOUS
  <1>2. date \in Int /\ M \in Int /\ M <= b /\ b < M + Day /\ Day \in Nat
    BY DateBounds, MidnightIs, DayIs
  <1>3. ASSUME NEW t \in Ticks(p) PROVE t \in Int /\ M <= t /\ t < M + 2 * Day
    BY <1>2 DEF Ticks
  <1> HIDE DEF date, p
  <1>4. /\ ValidLength(p, DaylightPeriods(date, rule), date, rule) =
             Cardinality(Unfree(DaylightPeriods(date, rule)))
        /\ ValidLength(p, NightPeriods(date, rule), date, rule) =
             Cardinality(Unfree(NightPeriods(date, rule)))
    BY <1>1, <1>2, SectionsAre, ValidLengthIs
  <1>5. ASSUME NEW t \in Ticks(p)
        PROVE  /\ IsDaylight(t, rule) \in BOOLEAN
               /\ (\E s \in DaylightPeriods(date, rule) : t \in Ticks(s)) <=>
                    IsDaylight(t, rule)
               /\ (\E s \in NightPeriods(date, rule) : t \in Ticks(s)) <=>
                    ~IsDaylight(t, rule)
               /\ IsFree(t, rule) <=>
                    \E s \in Q : InSection(t, date, s) \/ InSection(t, date + 1, s)
    <2>1. t \in Int /\ M <= t /\ t < M + 2 * Day
      BY <1>3
    <2>2. IsDaylight(t, rule) \in BOOLEAN
      BY DEF IsDaylight
    <2>3. LET lit == InDaylight(t, date, rule) \/ InDaylight(t, date + 1, rule) IN
          /\ IsDaylight(t, rule) <=> lit
          /\ (\E s \in DaylightPeriods(date, rule) : t \in Ticks(s)) <=> lit
          /\ (\E s \in NightPeriods(date, rule) : t \in Ticks(s)) <=> ~lit
          /\ IsFree(t, rule) <=>
               \E s \in Q : InSection(t, date, s) \/ InSection(t, date + 1, s)
      BY <1>2, <2>1, TwoDates, SectionsAre
    <2> QED BY <2>2, <2>3
  <1>6. /\ Unfree(DaylightPeriods(date, rule)) = ToPay(p, rule, TRUE)
        /\ Unfree(NightPeriods(date, rule)) = ToPay(p, rule, FALSE)
    BY <1>5 DEF Within, ToPay
  <1>7. CalInvalidParkingTime(p, rule) =
          [daylight |-> ValidLength(p, DaylightPeriods(date, rule), date, rule),
           night |-> ValidLength(p, NightPeriods(date, rule), date, rule)]
    BY <1>1 DEF CalInvalidParkingTime, date
  <1> HIDE DEF Unfree
  <1>8. /\ CalInvalidParkingTime(p, rule).daylight = Cardinality(ToPay(p, rule, TRUE))
        /\ CalInvalidParkingTime(p, rule).night = Cardinality(ToPay(p, rule, FALSE))
    BY <1>4, <1>6, <1>7
  <1> QED BY <1>8 DEF p

-----------------------------------------------------------------------------
(* Minutes and fees.                                                       *)

(* The quotient of C++ and what is left of the number.                     *)
LEMMA QuotientIs ==
    ASSUME NEW a \in Int, NEW b \in Nat \ {0}
    PROVE  /\ Quotient(a, b) \in Int
           /\ a >= 0 => Quotient(a, b) = a \div b
           /\ a < 0 => Quotient(a, b) <= 0
           /\ a - b * Quotient(a, b) \in Int /\ a - b * Quotient(a, b) < b
           /\ a >= 0 => a - b * Quotient(a, b) >= 0
  <1>1. CASE a >= 0
    <2> DEFINE q == a \div b
    <2>1. q \in Int /\ a - b * q \in 0 .. b - 1
      BY DivMod
    <2>2. Quotient(a, b) = q
      BY <1>1 DEF Quotient
    <2> HIDE DEF q
    <2> QED BY <1>1, <2>1, <2>2 DEF q
  <1>2. CASE a < 0
    <2> DEFINE c == -a
               q == c \div b
    <2>1. c \in Int /\ b * 0 <= c
      BY <1>2
    <2>2. Quotient(a, b) = -q
      BY <1>2 DEF Quotient
    <2> HIDE DEF c
    <2>3. q \in Int /\ 0 <= q /\ b * q <= c
      BY <2>1, DivMod, DivBounds
    <2> HIDE DEF q
    <2>4. b * (-q) = -(b * q) /\ b * q \in Int
      BY <2>3
    <2>5. a = -c
      BY DEF c
    <2> QED BY <1>2, <2>1, <2>2, <2>3, <2>4, <2>5
  <1> QED BY <1>1, <1>2

(* Completing to a unit takes some minutes, less than a unit when the time *)
(* is not negative.                                                        *)
LEMMA CompleteTimeIs ==
    ASSUME NEW n \in Int, NEW unit \in Nat \ {0}
    PROVE  /\ CompleteTime(n, unit) \in Nat
           /\ n >= 0 => CompleteTime(n, unit) < unit
  <1> DEFINE mod == n - unit * Quotient(n, unit)
  <1>1. mod \in Int /\ mod < unit /\ (n >= 0 => mod >= 0)
    BY QuotientIs
  <1>2. CompleteTime(n, unit) = IF mod = 0 THEN 0 ELSE unit - mod
    BY DEF CompleteTime
  <1> HIDE DEF mod
  <1> QED BY <1>1, <1>2

(* A time in whole minutes.                                                *)
LEMMA MinutesAre ==
    ASSUME NEW n \in Nat
    PROVE  n \div Minute \in Nat
  <1>1. n \div Minute \in Int /\ 0 <= n \div Minute
    BY DayIs, DivMod, DivBounds
  <1> QED BY <1>1

(* Some minutes more, or less, are as many whole minutes, until nothing is *)
(* left.                                                                   *)
LEMMA MinutesMore ==
    ASSUME NEW n \in Int, NEW k \in Int
    PROVE  /\ n + k * Minute \in Int /\ Minutes(n, k) \in Int
           /\ n + k * Minute >= 0 =>
                Minutes(n, k) = n \div Minute + k /\ Minutes(n, k) >= 0
           /\ n + k * Minute < 0 => Minutes(n, k) <= 0 /\ n \div Minute + k <= 0
  <1> DEFINE q == n \div Minute
             r == n % Minute
             l == n + k * Minute
             m == q + k
  <1>1. /\ Minute \in Nat \ {0} /\ q \in Int /\ r \in Int /\ 0 <= r /\ r < Minute
        /\ n = Minute * q + r
    BY DayIs, DivMod
  <1>2. l \in Int /\ m \in Int
    BY <1>1
  <1>3. Minute * m = Minute * q + k * Minute
    BY <1>1
  <1>4. l = Minute * m + r
    BY <1>1, <1>3
  <1>5. Minutes(n, k) = Quotient(l, Minute)
    BY DEF Minutes
  <1> HIDE DEF l, m, q, r
  <1>6. Minute * m \in Int
    BY <1>1, <1>2
  <1>7. Minute * m <= l /\ l < Minute * m + Minute
    BY <1>1, <1>2, <1>4, <1>6
  <1>8. m <= l \div Minute /\ l \div Minute <= m /\ l \div Minute \in Int
    BY <1>1, <1>2, <1>7, DivBounds, DivMod
  <1>9. l \div Minute = m
    BY <1>2, <1>8
  <1>10. /\ Quotient(l, Minute) \in Int
         /\ l >= 0 => Quotient(l, Minute) = l \div Minute
         /\ l < 0 => Quotient(l, Minute) <= 0
    BY <1>1, <1>2, QuotientIs
  <1>11. ASSUME l < 0 PROVE m <= 0
    <2>1. l < Minute * 0 + Minute
      BY <1>1, <1>2, <1>11
    <2> QED BY <1>1, <1>2, <1>9, <2>1, DivBounds
  <1>12. ASSUME l >= 0 PROVE m >= 0
    <2>1. Minute * 0 <= l
      BY <1>1, <1>2, <1>12
    <2> QED BY <1>1, <1>2, <1>9, <2>1, DivBounds
  <1> QED BY <1>2, <1>5, <1>9, <1>10, <1>11, <1>12 DEF l, m, q

(* The units of a number of minutes.                                       *)
LEMMA UnitsAre ==
    ASSUME NEW n \in Int, NEW unit \in Nat \ {0}
    PROVE  Units(n, unit) \in Int /\ (n >= 0 => Units(n, unit) >= 0)
  <1> DEFINE a == n + unit - 1
  <1>1. a \in Int /\ (n >= 0 => unit * 0 <= a) /\ Units(n, unit) = a \div unit
    BY DEF Units
  <1> HIDE DEF a
  <1>2. a \div unit \in Int
    BY <1>1, DivMod
  <1>3. unit * 0 <= a => 0 <= a \div unit
    BY <1>1, DivBounds
  <1> QED BY <1>1, <1>2, <1>3

(* The product of two natural numbers is one.                              *)
LEMMA ProductIs ==
    ASSUME NEW a \in Nat, NEW b \in Nat
    PROVE  a * b \in Nat
  OBVIOUS

(* The fee of a period is a number and at most the cap.                    *)
LEMMA OneDayChargeIs ==
    ASSUME NEW fees \in Fees, NEW minutes,
           minutes.daylight \in Int, minutes.night \in Int
    PROVE  /\ CalOneDayCharge(minutes, fees) \in Int
           /\ CalOneDayCharge(minutes, fees) <= fees.max_fee
           /\ minutes.daylight >= 0 /\ minutes.night >= 0 => CalOneDayCharge(minutes, fees) >= 0
  <1> DEFINE u == Units(minutes.daylight, fees.day_fee_unit)
             w == Units(minutes.night, fees.night_fee_unit)
             a == u * fees.day_fee_rate
             b == w * fees.night_fee_rate
  <1>1. /\ fees.day_fee_unit \in Nat \ {0} /\ fees.night_fee_unit \in Nat \ {0}
        /\ fees.day_fee_rate \in Nat /\ fees.night_fee_rate \in Nat /\ fees.max_fee \in Nat
    BY DEF Fees
  <1>2. /\ u \in Int /\ w \in Int /\ (minutes.daylight >= 0 => u >= 0)
        /\ (minutes.night >= 0 => w >= 0)
    BY <1>1, UnitsAre
  <1>3. CalOneDayCharge(minutes, fees) = Smaller(fees.max_fee, a + b)
    BY DEF CalOneDayCharge
  <1> HIDE DEF u, w
  <1>4. /\ a \in Int /\ b \in Int /\ (u >= 0 => a >= 0) /\ (w >= 0 => b >= 0)
    BY <1>1, <1>2
  <1> HIDE DEF a, b
  <1> QED BY <1>1, <1>2, <1>3, <1>4 DEF Smaller

(* The minutes charged cover the valid time and exceed it by less than a   *)
(* unit.                                                                   *)
Covers(minutes, valid, fees) ==
    LET v == valid.daylight \div Minute + valid.night \div Minute
        m == minutes.daylight + minutes.night IN
    /\ minutes.daylight \in Nat /\ minutes.night \in Nat
    /\ v <= m /\ m < v + Larger(fees.day_fee_unit, fees.night_fee_unit)

(* A valid time, or minutes charged: numbers, perhaps negative.            *)
TimeType == [daylight : Int, night : Int]

(* Pattern 0: BorrowTime.                                                  *)
LEMMA BorrowTimeIs ==
    ASSUME NEW fees \in Fees, NEW time \in TimeType, NEW begin, NEW rule
    PROVE  /\ BorrowTime(time, begin, rule, fees) \in TimeType
           /\ time.daylight >= 0 /\ time.night >= 0 =>
                Covers(BorrowTime(time, begin, rule, fees), time, fees)
  <1> DEFINE D == time.daylight
             N == time.night
             d == D \div Minute
             n == N \div Minute
             u == fees.day_fee_unit
             w == fees.night_fee_unit
             kn == CompleteTime(Minutes(N, 0), w)
             kd == CompleteTime(Minutes(D, 0), u)
             an == Minutes(N, kn)
             ad == Minutes(D, kd)
             ld == Larger(0, Minutes(D, -kn))
             ln == Larger(0, Minutes(N, -kd))
             m == BorrowTime(time, begin, rule, fees)
  <1>1. /\ u \in Nat \ {0} /\ w \in Nat \ {0} /\ Minute \in Nat \ {0}
        /\ D \in Int /\ N \in Int
    BY DayIs DEF Fees, TimeType
  <1>2. \/ m = [night |-> an, daylight |-> ld]
        \/ m = [daylight |-> ad, night |-> ln]
    BY Zenon DEF BorrowTime
  <1> HIDE DEF D, N, u, w, m
  <1>3. d \in Int /\ n \in Int
    BY <1>1, DivMod
  <1>4. /\ Minutes(N, 0) \in Int /\ (N >= 0 => Minutes(N, 0) >= 0)
        /\ Minutes(D, 0) \in Int /\ (D >= 0 => Minutes(D, 0) >= 0)
    <2>1. 0 * Minute = 0 /\ N + 0 = N /\ D + 0 = D
      BY <1>1
    <2> QED BY <1>1, <2>1, MinutesMore
  <1>5. kn \in Nat /\ (N >= 0 => kn < w) /\ kd \in Nat /\ (D >= 0 => kd < u)
    BY <1>1, <1>4, CompleteTimeIs
  <1> HIDE DEF kn, kd
  <1>6. /\ an \in Int /\ (N >= 0 => an = n + kn /\ an >= 0)
        /\ ad \in Int /\ (D >= 0 => ad = d + kd /\ ad >= 0)
    <2>1. kn * Minute \in Nat /\ kd * Minute \in Nat
      BY <1>1, <1>5, ProductIs
    <2>2. (N >= 0 => N + kn * Minute >= 0) /\ (D >= 0 => D + kd * Minute >= 0)
      BY <1>1, <2>1
    <2>3. kn \in Int /\ kd \in Int
      BY <1>5
    <2>4. /\ an \in Int
          /\ N + kn * Minute >= 0 => an = n + kn /\ an >= 0
      BY <1>1, <2>3, MinutesMore
    <2>5. /\ ad \in Int
          /\ D + kd * Minute >= 0 => ad = d + kd /\ ad >= 0
      BY <1>1, <2>3, MinutesMore
    <2> HIDE DEF an, ad, n, d
    <2> QED BY <2>2, <2>4, <2>5
  <1>7. ASSUME NEW T \in Int, NEW k \in Nat
        PROVE  /\ Larger(0, Minutes(T, -k)) \in Nat
               /\ T \div Minute - k <= Larger(0, Minutes(T, -k))
               /\ T >= 0 => Larger(0, Minutes(T, -k)) <= T \div Minute
    <2> DEFINE x == Minutes(T, -k)
               q == T \div Minute
    <2>1. -k \in Int /\ q \in Int /\ q - k = q + (-k) /\ (T >= 0 => q >= 0)
      BY <1>1, MinutesAre, DivMod
    <2>2. /\ T + (-k) * Minute \in Int /\ x \in Int
          /\ T + (-k) * Minute >= 0 => x = q + (-k) /\ x >= 0
          /\ T + (-k) * Minute < 0 => x <= 0 /\ q + (-k) <= 0
      BY <2>1, MinutesMore
    <2> DEFINE y == T + (-k) * Minute
    <2> HIDE DEF x, q, y
    <2>3. y \in Int /\ x \in Int /\ (y >= 0 => x = q - k /\ x >= 0)
          /\ (y < 0 => x <= 0 /\ q - k <= 0)
      BY <2>1, <2>2 DEF y
    <2>4. /\ Larger(0, x) \in Nat /\ q - k <= Larger(0, x)
          /\ T >= 0 => Larger(0, x) <= q
      BY <2>1, <2>3 DEF Larger
    <2> QED BY <2>4 DEF x, q
  <1>8. /\ ld \in Nat /\ d - kn <= ld /\ (D >= 0 => ld <= d)
        /\ ln \in Nat /\ n - kd <= ln /\ (N >= 0 => ln <= n)
    BY <1>1, <1>5, <1>7
  <1> HIDE DEF an, ad, ld, ln, d, n
  <1>9. m \in TimeType
    BY <1>2, <1>6, <1>8 DEF TimeType
  <1>10. \/ m.night = an /\ m.daylight = ld
         \/ m.daylight = ad /\ m.night = ln
    BY <1>2
  <1>11. ASSUME D >= 0, N >= 0
         PROVE  /\ m.daylight \in Nat /\ m.night \in Nat /\ d + n <= m.daylight + m.night
                /\ m.daylight + m.night < d + n + Larger(u, w)
    <2>1. CASE m.night = an /\ m.daylight = ld
      BY <1>1, <1>3, <1>5, <1>6, <1>8, <1>11, <2>1 DEF Larger
    <2>2. CASE m.daylight = ad /\ m.night = ln
      BY <1>1, <1>3, <1>5, <1>6, <1>8, <1>11, <2>2 DEF Larger
    <2> QED BY <1>10, <2>1, <2>2
  <1>12. ASSUME D >= 0, N >= 0 PROVE Covers(m, time, fees)
    BY <1>11, <1>12 DEF Covers, d, n, D, N, u, w
  <1> QED BY <1>9, <1>12 DEF m, D, N

(* Pattern 1: Borrow1.                                                     *)
LEMMA Borrow1Is ==
    ASSUME NEW fees \in Fees, NEW time \in TimeType, borrowed \in Nat
    PROVE  /\ Borrow1(time, fees).minutes \in TimeType
           /\ Borrow1(time, fees).borrowed \in Nat
           /\ time.daylight >= 0 /\ time.night >= 0 =>
                Covers(Borrow1(time, fees).minutes, time, fees)
  <1> DEFINE D == time.daylight
             N == time.night
             d == D \div Minute
             n == N \div Minute
             u == fees.day_fee_unit
             w == fees.night_fee_unit
             lent == CompleteTime(Minutes(D, 0), u)
             ad == Minutes(D, lent)
             left == N - lent * Minute
             l == left \div Minute
             tomorrow == CompleteTime(Minutes(left, 0), w)
             an == Minutes(left, tomorrow)
             B == Borrow1(time, fees)
  <1>1. /\ u \in Nat \ {0} /\ w \in Nat \ {0} /\ Minute \in Nat \ {0}
        /\ D \in Int /\ N \in Int
    BY DayIs DEF Fees, TimeType
  <1>2. B = IF left < 0 THEN [minutes |-> Part(ad, 0), borrowed |-> borrowed]
            ELSE [minutes |-> Part(ad, an), borrowed |-> tomorrow]
    BY Zenon DEF Borrow1
  <1> HIDE DEF D, N, u, w, B
  <1>3. d \in Int /\ n \in Int
    BY <1>1, DivMod
  <1>4. Minutes(D, 0) \in Int /\ (D >= 0 => Minutes(D, 0) >= 0)
    <2>1. 0 * Minute = 0 /\ D + 0 = D
      BY <1>1
    <2> QED BY <1>1, <2>1, MinutesMore
  <1>5. lent \in Nat /\ (D >= 0 => lent < u)
    BY <1>1, <1>4, CompleteTimeIs
  <1> HIDE DEF lent
  <1>6. ad \in Int /\ (D >= 0 => ad = d + lent /\ ad >= 0)
    <2>1. lent * Minute \in Nat
      BY <1>1, <1>5, ProductIs
    <2>2. D >= 0 => D + lent * Minute >= 0
      BY <1>1, <2>1
    <2>3. lent \in Int
      BY <1>5
    <2>4. /\ ad \in Int
          /\ D + lent * Minute >= 0 => ad = d + lent /\ ad >= 0
      BY <1>1, <2>3, MinutesMore
    <2> HIDE DEF ad, d
    <2> QED BY <2>2, <2>4
  <1>7. /\ left \in Int /\ (left >= 0 => l = n - lent) /\ (left < 0 => n <= lent)
    <2>1. -lent \in Int /\ lent * Minute \in Int /\ (-lent) * Minute = -(lent * Minute)
      BY <1>1, <1>5
    <2>2. left = N + (-lent) * Minute
      BY <1>1, <2>1
    <2>3. /\ N + (-lent) * Minute \in Int
          /\ N + (-lent) * Minute >= 0 => Minutes(N, -lent) = n + (-lent)
          /\ N + (-lent) * Minute < 0 => n + (-lent) <= 0
      BY <1>1, <2>1, MinutesMore
    <2>4. Minutes(N, -lent) = Quotient(left, Minute)
      BY <2>2 DEF Minutes
    <2> HIDE DEF left, n
    <2>5. left \in Int
      BY <2>2, <2>3
    <2>6. left >= 0 => Quotient(left, Minute) = l
      BY <1>1, <2>5, QuotientIs
    <2>7. /\ left >= 0 => Minutes(N, -lent) = n + (-lent)
          /\ left < 0 => n + (-lent) <= 0
      BY <2>2, <2>3
    <2> HIDE DEF l
    <2> QED BY <1>3, <1>5, <2>4, <2>5, <2>6, <2>7 DEF n
  <1> HIDE DEF left
  <1>8. ASSUME left >= 0
        PROVE  tomorrow \in Nat /\ tomorrow < w /\ an = l + tomorrow /\ an >= 0 /\ an \in Int
    <2>1. 0 * Minute = 0 /\ left + 0 = left
      BY <1>1, <1>7
    <2>2. Minutes(left, 0) \in Int /\ Minutes(left, 0) >= 0
      BY <1>7, <1>8, <2>1, MinutesMore
    <2>3. tomorrow \in Nat /\ tomorrow < w
      BY <1>1, <2>2, CompleteTimeIs
    <2> HIDE DEF tomorrow
    <2>4. tomorrow * Minute \in Nat
      BY <1>1, <2>3, ProductIs
    <2>5. left + tomorrow * Minute >= 0
      BY <1>7, <1>8, <2>4
    <2> QED BY <1>7, <2>3, <2>5, MinutesMore
  <1> HIDE DEF tomorrow, an, ad, d, n, l
  <1>9. CASE left < 0
    <2>1. B = [minutes |-> Part(ad, 0), borrowed |-> borrowed]
      BY <1>2, <1>9
    <2>2. B.minutes = [daylight |-> ad, night |-> 0] /\ B.borrowed \in Nat
      BY <2>1 DEF Part
    <2>3. B.minutes \in TimeType
      BY <1>6, <2>2 DEF TimeType
    <2>4. B.minutes.daylight = ad /\ B.minutes.night = 0
      BY <2>2
    <2>5. ASSUME D >= 0, N >= 0 PROVE Covers(B.minutes, time, fees)
      <3>1. /\ B.minutes.daylight \in Nat /\ B.minutes.night \in Nat
            /\ d + n <= B.minutes.daylight + B.minutes.night
            /\ B.minutes.daylight + B.minutes.night < d + n + Larger(u, w)
        <4>1. n >= 0
          BY <1>1, <2>5, MinutesAre DEF n
        <4> QED BY <1>1, <1>3, <1>5, <1>6, <1>7, <1>9, <2>4, <2>5, <4>1 DEF Larger
      <3> QED BY <3>1 DEF Covers, d, n, D, N, u, w
    <2> QED BY <2>2, <2>3, <2>5 DEF B, D, N
  <1>10. CASE left >= 0
    <2>1. B = [minutes |-> Part(ad, an), borrowed |-> tomorrow]
      BY <1>2, <1>7, <1>10
    <2>2. B.minutes = [daylight |-> ad, night |-> an] /\ B.borrowed = tomorrow
      BY <2>1 DEF Part
    <2>3. B.minutes \in TimeType
      BY <1>6, <1>8, <1>10, <2>2 DEF TimeType
    <2>4. B.minutes.daylight = ad /\ B.minutes.night = an
      BY <2>2
    <2>5. ASSUME D >= 0, N >= 0 PROVE Covers(B.minutes, time, fees)
      <3>1. /\ B.minutes.daylight \in Nat /\ B.minutes.night \in Nat
            /\ d + n <= B.minutes.daylight + B.minutes.night
            /\ B.minutes.daylight + B.minutes.night < d + n + Larger(u, w)
        BY <1>1, <1>3, <1>5, <1>6, <1>7, <1>8, <1>10, <2>4, <2>5 DEF Larger
      <3> QED BY <3>1 DEF Covers, d, n, D, N, u, w
    <2> QED BY <1>8, <1>10, <2>2, <2>3, <2>5 DEF B, D, N
  <1> QED BY <1>7, <1>9, <1>10

-----------------------------------------------------------------------------
(* The stay, the rules of its table and their caps.                        *)
RulesOf(table) == {row.rule : row \in table}
CapOf(table, vehicle) == Max({0} \cup {row.rule.fees[vehicle].max_fee : row \in table})

(* The arguments of a call.                                                *)
LEMMA StayIs ==
    ASSUME stay \in Stays
    PROVE  /\ stay.enter \in Nat /\ stay.exit \in Nat /\ stay.enter <= stay.exit
           /\ stay.exit - stay.enter \in 0 .. MaxStay
           /\ stay.vehicle \in Vehicles /\ stay.table \in RuleTables
           /\ stay.discount \in 0 .. 100
  <1>1. PICK e \in Enters, length \in 0 .. MaxStay, p \in {0, 1}, m \in {0, 1},
             v \in Vehicles, d \in Discounts, table \in RuleTables :
          stay = [enter |-> e, exit |-> e + length, pattern |-> p, free_time_mode |-> m,
                  vehicle |-> v, discount |-> d, table |-> table]
    BY DEF Stays
  <1>2. e \in Nat /\ length \in Nat /\ d \in 0 .. 100 /\ MaxStay \in Nat
    BY FeeAssumption
  <1> QED BY <1>1, <1>2

(* A rule of a table is well formed and has fees for every vehicle; the    *)
(* rules of a table in order are in order.                                 *)
Ordered(table) == \A row \in table : InOrder(row.rule)
LEMMA RulesAre ==
    ASSUME NEW table \in RuleTables, NEW vehicle \in Vehicles, NEW rule \in RulesOf(table)
    PROVE  /\ WellFormed(rule) /\ rule.fees[vehicle] \in Fees
           /\ Ordered(table) => Proper(rule)
  <1>1. WellFormed(rule)
    BY FeeAssumption DEF RulesOf
  <1>2. Ordered(table) => InOrder(rule)
    BY DEF RulesOf, Ordered
  <1> QED BY <1>1, <1>2 DEF WellFormed, Proper

(* The rules the queries find are rules of the table.                      *)
LEMMA FoundAre ==
    ASSUME NEW table, NEW date
    PROVE  /\ QueryChargeRule(table, date) \subseteq RulesOf(table)
           /\ QueryMinPriorityRule(table) \subseteq RulesOf(table)
  BY DEF QueryChargeRule, QueryMinPriorityRule, Applicable, RulesOf

(* A finite set of integers that is not empty has a greatest one.          *)
LEMMA MaxIs ==
    ASSUME NEW S \in SUBSET Int, IsFiniteSet(S), S # {}
    PROVE  Max(S) \in S /\ \A y \in S : y <= Max(S)
  <1> DEFINE Greatest(T) == \E x \in T : \A y \in T : x >= y
             B == {T \in SUBSET S : T # {} /\ ~Greatest(T)}
  <1>1. Greatest(S)
    <2> SUFFICES ASSUME B # {} PROVE FALSE
      OBVIOUS
    <2>1. PICK T \in B : \A U \in SUBSET T : U \in B => U = T
      <3> DEFINE R == S
      <3>1. B \in SUBSET (SUBSET R)
        OBVIOUS
      <3>2. B # {} /\ IsFiniteSet(R)
        OBVIOUS
      <3> HIDE DEF B, R
      <3> QED BY <3>1, <3>2, SmallestSubset
    <2>2. T \in SUBSET S /\ T # {} /\ ~Greatest(T)
      OBVIOUS
    <2>3. PICK a \in T : TRUE
      BY <2>2
    <2>4. CASE T \ {a} = {}
      <3>1. \A y \in T : a >= y
        BY <2>2, <2>4
      <3> QED BY <2>2, <3>1
    <2>5. CASE T \ {a} # {}
      <3>1. Greatest(T \ {a})
        <4>1. T \ {a} \in SUBSET T /\ T \ {a} \in SUBSET S /\ T \ {a} # T
          BY <2>2
        <4> HIDE DEF Greatest
        <4> QED BY <2>1, <2>5, <4>1
      <3>2. PICK x \in T \ {a} : \A y \in T \ {a} : x >= y
        BY <3>1
      <3>3. x \in Int /\ a \in Int
        BY <2>2
      <3>4. CASE a >= x
        <4>1. \A y \in T : a >= y
          BY <2>2, <3>2, <3>3, <3>4
        <4> QED BY <2>2, <4>1
      <3>5. CASE x >= a
        <4>1. \A y \in T : x >= y
          BY <2>2, <3>2, <3>3, <3>5
        <4> QED BY <2>2, <4>1
      <3> QED BY <3>3, <3>4, <3>5
    <2> QED BY <2>4, <2>5
  <1>2. Max(S) \in S /\ \A y \in S : Max(S) >= y
    <2> HIDE DEF Greatest
    <2>1. \E x \in S : \A y \in S : x >= y
      BY <1>1 DEF Greatest
    <2> QED BY <2>1, Zenon DEF Max
  <1> QED BY <1>2

(* No rule of the table has a greater cap.                                 *)
LEMMA CapIs ==
    ASSUME NEW table \in RuleTables, NEW vehicle \in Vehicles
    PROVE  /\ CapOf(table, vehicle) \in Nat
           /\ \A rule \in RulesOf(table) : rule.fees[vehicle].max_fee <= CapOf(table, vehicle)
  <1> DEFINE C == {row.rule.fees[vehicle].max_fee : row \in table}
             f == [row \in table |-> row.rule.fees[vehicle].max_fee]
             S == {0} \cup C
  <1>1. \A row \in table : row.rule.fees[vehicle].max_fee \in Nat
    <2>1. \A row \in table : row.rule.fees[vehicle] \in Fees
      BY RulesAre DEF RulesOf
    <2> QED BY <2>1 DEF Fees
  <1>2. IsFiniteSet(C)
    <2>1. IsFiniteSet(table)
      BY FeeAssumption
    <2>2. f \in Surjection(table, C)
      BY DEF Surjection
    <2> HIDE DEF f, C
    <2> QED BY <2>1, <2>2, FS_Surjection
  <1>3. C \subseteq Nat
    BY <1>1
  <1>4. IsFiniteSet(S) /\ S \in SUBSET Int /\ S # {} /\ 0 \in S
    <2> HIDE DEF C
    <2>1. IsFiniteSet(C \cup {0}) /\ C \cup {0} = S
      BY <1>2, FS_AddElement
    <2> QED BY <1>3, <2>1
  <1>5. CapOf(table, vehicle) = Max(S)
    BY DEF CapOf
  <1>6. \A rule \in RulesOf(table) : rule.fees[vehicle].max_fee \in S
    BY DEF RulesOf
  <1> HIDE DEF S
  <1>7. Max(S) \in S /\ \A y \in S : y <= Max(S)
    BY <1>4, MaxIs
  <1>8. S \subseteq Nat
    BY <1>3 DEF S
  <1> HIDE DEF C
  <1> QED BY <1>5, <1>6, <1>7, <1>8

-----------------------------------------------------------------------------
(* The lines of a bill.                                                    *)
LineType(table) ==
    [period : Int \X Int, unbilled : Nat, from : Int, rule : SUBSET RulesOf(table),
     valid : TimeType, minutes : TimeType, fee : Int]

(* A line without a negative number, whose minutes cover its valid time    *)
(* whichever its rule: every line, when the rules are in order.            *)
Covered(d, vehicle) ==
    /\ d.fee >= 0 /\ d.valid.daylight >= 0 /\ d.valid.night >= 0
    /\ d.minutes.daylight >= 0 /\ d.minutes.night >= 0
    /\ \A rule \in d.rule : Covers(d.minutes, d.valid, rule.fees[vehicle])
Sound(d, table, vehicle) ==
    d \in LineType(table) /\ (Ordered(table) => Covered(d, vehicle))

(* The valid time of a line is what is to be paid of its period.           *)
Counted(valid, p, rule) ==
    /\ valid.daylight = Cardinality(ToPay(p, rule, TRUE))
    /\ valid.night = Cardinality(ToPay(p, rule, FALSE))
Exact(d, table) ==
    (Ordered(table) /\ d.from < d.period[2]) =>
      \A rule \in d.rule : Counted(d.valid, <<d.from, d.period[2]>>, rule)

(* What is counted is a number of ticks.                                   *)
LEMMA CountedIs ==
    ASSUME NEW p \in Int \X Int, NEW rule, NEW valid, Counted(valid, p, rule)
    PROVE  valid.daylight \in Nat /\ valid.night \in Nat
  <1>1. ToPay(p, rule, TRUE) \in SUBSET Ticks(p) /\ ToPay(p, rule, FALSE) \in SUBSET Ticks(p)
    BY DEF ToPay
  <1> QED BY <1>1, TicksFinite DEF Counted

(* A line for which no time is charged.                                    *)
LEMMA FreeDetailIs ==
    ASSUME NEW table \in RuleTables, NEW vehicle \in Vehicles, NEW period \in Int \X Int,
           NEW unbilled \in Nat, NEW found \in SUBSET RulesOf(table), NEW amount \in Nat,
           NEW d, \/ d = FreeDetail(period, unbilled, found) /\ amount = 0
                  \/ d = [FreeDetail(period, unbilled, found) EXCEPT !.fee = amount]
    PROVE  Sound(d, table, vehicle) /\ Exact(d, table) /\ d.fee = amount
  <1>1. FreeDetail(period, unbilled, found) =
          [period |-> period, unbilled |-> unbilled, from |-> period[2], rule |-> found,
           valid |-> NoTime, minutes |-> NoTime, fee |-> 0]
    BY DEF FreeDetail, Detail
  <1>2. d = [period |-> period, unbilled |-> unbilled, from |-> period[2], rule |-> found,
             valid |-> NoTime, minutes |-> NoTime, fee |-> amount]
    BY <1>1
  <1>3. NoTime \in TimeType /\ period[2] \in Int
    BY DEF NoTime, TimeType
  <1>4. ASSUME NEW rule \in found PROVE Covers(NoTime, NoTime, rule.fees[vehicle])
    <2>1. rule.fees[vehicle] \in Fees
      BY RulesAre
    <2> DEFINE u == rule.fees[vehicle].day_fee_unit
               w == rule.fees[vehicle].night_fee_unit
    <2>2. u \in Nat \ {0} /\ w \in Nat \ {0}
      BY <2>1 DEF Fees
    <2>3. 0 \div Minute = 0
      BY DayIs
    <2>4. 0 < Larger(u, w)
      BY <2>2 DEF Larger
    <2> HIDE DEF u, w
    <2>5. Larger(u, w) \in Int
      BY <2>2 DEF Larger
    <2> QED BY <2>3, <2>4, <2>5 DEF Covers, NoTime, u, w
  <1>5. d \in LineType(table)
    BY <1>2, <1>3 DEF LineType
  <1>6. /\ d.rule = found /\ d.minutes = NoTime /\ d.valid = NoTime /\ d.fee = amount
        /\ d.from = d.period[2]
    BY <1>2
  <1>7. Sound(d, table, vehicle)
    <2>1. d.valid.daylight = 0 /\ d.valid.night = 0 /\ d.minutes.daylight = 0 /\ d.minutes.night = 0
      BY <1>6 DEF NoTime
    <2>2. Covered(d, vehicle)
      BY <1>4, <1>6, <2>1 DEF Covered
    <2> QED BY <1>5, <2>2 DEF Sound
  <1>8. d.from \in Int
    BY <1>5 DEF LineType
  <1>9. Exact(d, table)
    BY <1>6, <1>8 DEF Exact
  <1> QED BY <1>6, <1>7, <1>9

LEMMA NothingIs ==
    ASSUME NEW table \in RuleTables, NEW vehicle \in Vehicles, NEW period \in Int \X Int,
           NEW found \in SUBSET RulesOf(table), NEW d, d = FreeDetail(period, 0, found)
    PROVE  Sound(d, table, vehicle) /\ Exact(d, table) /\ d.fee = 0
  <1>1. 0 \in Nat
    OBVIOUS
  <1> QED BY <1>1, FreeDetailIs

(* A line that is charged.                                                 *)
LEMMA ChargedIs ==
    ASSUME NEW table \in RuleTables, NEW vehicle \in Vehicles, NEW rule \in RulesOf(table),
           NEW period \in Int \X Int, NEW unbilled \in Nat, NEW begin \in Int,
           NEW valid \in TimeType, NEW minutes \in TimeType,
           Ordered(table) => /\ Covers(minutes, valid, rule.fees[vehicle])
                             /\ Counted(valid, <<begin, period[2]>>, rule),
           NEW d, d = Detail(period, unbilled, begin, {rule}, valid, minutes,
                             CalOneDayCharge(minutes, rule.fees[vehicle]))
    PROVE  Sound(d, table, vehicle) /\ Exact(d, table) /\ d.fee <= CapOf(table, vehicle)
  <1> DEFINE fees == rule.fees[vehicle]
             amount == CalOneDayCharge(minutes, fees)
  <1>1. fees \in Fees
    BY RulesAre
  <1>2. /\ amount \in Int /\ amount <= fees.max_fee
        /\ minutes.daylight >= 0 /\ minutes.night >= 0 => amount >= 0
    <2> HIDE DEF fees
    <2> QED BY <1>1, OneDayChargeIs DEF TimeType
  <1>3. fees.max_fee <= CapOf(table, vehicle) /\ CapOf(table, vehicle) \in Nat
    BY CapIs
  <1>4. fees.max_fee \in Nat
    BY <1>1 DEF Fees
  <1>5. amount <= CapOf(table, vehicle)
    <2> HIDE DEF amount, fees
    <2> QED BY <1>2, <1>3, <1>4
  <1>6. d = [period |-> period, unbilled |-> unbilled, from |-> begin, rule |-> {rule},
             valid |-> valid, minutes |-> minutes, fee |-> amount]
    BY DEF Detail
  <1> HIDE DEF amount
  <1>7. d \in LineType(table)
    BY <1>2, <1>6 DEF LineType
  <1>8. /\ d.rule = {rule} /\ d.valid = valid /\ d.minutes = minutes /\ d.from = begin
        /\ d.period = period /\ d.fee = amount
    BY <1>6
  <1>9. Sound(d, table, vehicle)
    <2>1. ASSUME Ordered(table) PROVE Covered(d, vehicle)
      <3>1. Covers(minutes, valid, fees) /\ Counted(valid, <<begin, period[2]>>, rule)
        BY <2>1
      <3>2. minutes.daylight >= 0 /\ minutes.night >= 0
        BY <3>1 DEF Covers
      <3>3. valid.daylight \in Nat /\ valid.night \in Nat
        <4> DEFINE p == <<begin, period[2]>>
        <4>1. p \in Int \X Int /\ Counted(valid, p, rule)
          BY <3>1
        <4> HIDE DEF p
        <4> QED BY <4>1, CountedIs
      <3>4. valid.daylight >= 0 /\ valid.night >= 0 /\ amount >= 0
        BY <1>2, <3>2, <3>3
      <3>5. \A r \in d.rule : Covers(d.minutes, d.valid, r.fees[vehicle])
        BY <1>8, <3>1, Zenon
      <3> HIDE DEF fees
      <3>6. /\ d.fee >= 0 /\ d.valid.daylight >= 0 /\ d.valid.night >= 0
            /\ d.minutes.daylight >= 0 /\ d.minutes.night >= 0
        BY <1>8, <3>2, <3>4
      <3> QED BY <3>5, <3>6, Zenon DEF Covered
    <2> QED BY <1>7, <2>1 DEF Sound
  <1>10. Exact(d, table)
    <2>1. ASSUME Ordered(table) PROVE Counted(valid, <<begin, period[2]>>, rule)
      BY <2>1
    <2> QED BY <1>8, <2>1 DEF Exact
  <1> QED BY <1>5, <1>8, <1>9, <1>10

(* Charging begins no earlier than the period.                             *)
LEMMA AfterFreeTimeIs ==
    ASSUME NEW begin \in Int, NEW rule, WellFormed(rule), NEW first
    PROVE  AfterFreeTime(begin, rule, first) \in Int /\ begin <= AfterFreeTime(begin, rule, first)
  <1>1. rule.free_time_length \in Nat /\ Minute \in Nat
    BY DayIs DEF WellFormed
  <1> DEFINE k == rule.free_time_length * Minute
  <1>2. k \in Nat
    BY <1>1, ProductIs
  <1> HIDE DEF k
  <1>3. AfterFreeTime(begin, rule, first) = begin + k
        \/ AfterFreeTime(begin, rule, first) = begin
    BY DEF AfterFreeTime, k
  <1> QED BY <1>2, <1>3

(* Whatever the sections are, a valid time is a number.                    *)
LEMMA OverlapInteger ==
    ASSUME NEW p \in Int \X Int, NEW b \in Int, NEW e \in Int
    PROVE  Overlap(p, <<b, e>>) \in Int
  <1>1. p[1] \in Int /\ p[2] \in Int
    OBVIOUS
  <1> QED BY <1>1 DEF Overlap, Larger, Smaller

LEMMA RuleInteger ==
    ASSUME NEW rule, WellFormed(rule), NEW date \in Int
    PROVE  /\ MidnightOf(date) \in Int /\ rule.daylight_begin \in Int /\ rule.night_begin \in Int
           /\ Day \in Int /\ IsFiniteSet(rule.free_time_sections)
           /\ \A s \in rule.free_time_sections : s[1] \in Int /\ s[2] \in Int
  <1>1. \A s \in rule.free_time_sections : s[1] \in Nat /\ s[2] \in Nat
    BY DEF WellFormed
  <1> QED BY <1>1, MidnightIs, DayIs DEF WellFormed

(* Pattern 1.                                                              *)
LEMMA ValidTime1Type ==
    ASSUME NEW rule, WellFormed(rule), NEW p \in Int \X Int, NEW date \in Int
    PROVE  ValidTime1(p, date, rule) \in TimeType
  <1> DEFINE M == MidnightOf(date)
             day == rule.daylight_begin
             night == rule.night_begin
             Q == rule.free_time_sections
             Over(x, y) == Overlap(p, <<M + x, M + y>>)
             f(part) == [s \in Q |-> FreeParts(p, s, date, rule)[part]]
  <1>1. /\ M \in Int /\ day \in Int /\ night \in Int /\ Day \in Int /\ IsFiniteSet(Q)
        /\ \A s \in Q : s[1] \in Int /\ s[2] \in Int
    BY RuleInteger
  <1>2. ASSUME NEW x \in Int, NEW y \in Int PROVE Over(x, y) \in Int
    <2> HIDE DEF M
    <2>1. M + x \in Int /\ M + y \in Int
      BY <1>1
    <2> QED BY <2>1, OverlapInteger
  <1>3. ASSUME NEW s \in Q
        PROVE  FreeParts(p, s, date, rule).daylight \in Int /\ FreeParts(p, s, date, rule).night \in Int
    <2> DEFINE b == s[1]
               e == s[2]
               F == FreeParts(p, s, date, rule)
    <2>1. F = CASE b < day /\ e <= day -> Part(0, Over(b, e))
                [] b < day /\ e > day /\ e > night ->
                     Part(Over(day, night), Over(b, day) + Over(night, e))
                [] b < day /\ e > day /\ e <= night -> Part(Over(day, e), Over(b, day))
                [] b >= day /\ b < night /\ e <= night -> Part(Over(b, e), 0)
                [] b >= day /\ b < night /\ e > night -> Part(Over(b, night), Over(night, e))
                [] OTHER -> Part(0, Over(b, e))
      BY DEF FreeParts
    <2>2. b \in Int /\ e \in Int
      BY <1>1
    <2>3. /\ Over(b, e) \in Int /\ Over(day, night) \in Int /\ Over(b, day) \in Int
          /\ Over(night, e) \in Int /\ Over(day, e) \in Int /\ Over(b, night) \in Int
      BY <1>1, <1>2, <2>2
    <2> HIDE DEF Over, M, day, night, b, e, F
    <2>4. \E x \in Int, y \in Int : F = Part(x, y)
      <3>1. CASE b < day /\ e <= day
        <4>1. F = Part(0, Over(b, e))
          BY <1>1, <2>1, <2>2, <3>1
        <4> QED BY <2>3, <4>1
      <3>2. CASE b < day /\ e > day /\ e > night
        <4>1. F = Part(Over(day, night), Over(b, day) + Over(night, e))
          BY <1>1, <2>1, <2>2, <3>2
        <4>2. Over(b, day) + Over(night, e) \in Int
          BY <2>3
        <4> QED BY <2>3, <4>1, <4>2
      <3>3. CASE b < day /\ e > day /\ e <= night
        <4>1. F = Part(Over(day, e), Over(b, day))
          BY <1>1, <2>1, <2>2, <3>3
        <4> QED BY <2>3, <4>1
      <3>4. CASE b >= day /\ b < night /\ e <= night
        <4>1. F = Part(Over(b, e), 0)
          BY <1>1, <2>1, <2>2, <3>4
        <4> QED BY <2>3, <4>1
      <3>5. CASE b >= day /\ b < night /\ e > night
        <4>1. F = Part(Over(b, night), Over(night, e))
          BY <1>1, <2>1, <2>2, <3>5
        <4> QED BY <2>3, <4>1
      <3>6. CASE b >= day /\ b >= night
        <4>1. ~(b < day) /\ ~(b < night)
          BY <1>1, <2>2, <3>6
        <4>2. F = Part(0, Over(b, e))
          BY <2>1, <4>1
        <4> QED BY <2>3, <4>2
      <3> QED BY <1>1, <2>2, <3>1, <3>2, <3>3, <3>4, <3>5, <3>6
    <2>5. F.daylight \in Int /\ F.night \in Int
      BY <2>4 DEF Part
    <2> QED BY <2>5 DEF F
  <1>4. SumFunction(f("daylight")) \in Int /\ SumFunction(f("night")) \in Int
    <2>1. \A s \in Q : f("daylight")[s] \in Int /\ f("night")[s] \in Int
      BY <1>3
    <2>2. DOMAIN f("daylight") = Q /\ DOMAIN f("night") = Q
      OBVIOUS
    <2> HIDE DEF f
    <2> QED BY <1>1, <2>1, <2>2, SumInteger DEF SumFunction
  <1>5. ValidTime1(p, date, rule) =
          Part(Over(day, night) - SumFunction(f("daylight")),
               Over(0, day) + Over(night, Day) - SumFunction(f("night")))
    BY DEF ValidTime1
  <1>6. Over(day, night) \in Int /\ Over(0, day) \in Int /\ Over(night, Day) \in Int
    BY <1>1, <1>2
  <1> HIDE DEF Over, f, M, day, night
  <1> QED BY <1>4, <1>5, <1>6 DEF Part, TimeType

(* Pattern 0.                                                              *)
LEMMA ValidLengthInteger ==
    ASSUME NEW rule, WellFormed(rule), NEW p \in Int \X Int, NEW date \in Int,
           NEW sections \in SUBSET (Int \X Int), IsFiniteSet(sections)
    PROVE  ValidLength(p, sections, date, rule) \in Int
  <1> DEFINE W == Parked(p, sections)
             D == DOMAIN W
             Q == rule.free_time_sections
             f == [s \in D |-> W[s][2] - W[s][1]]
  <1>1. D \in SUBSET sections /\ \A s \in D : W[s] = Whole(p, s)
    BY DEF Parked
  <1>2. IsFiniteSet(D)
    BY <1>1, FS_Subset
  <1>3. \A s \in D : W[s] \in Int \X Int
    <2>1. \A s \in D : p[1] \in Int /\ p[2] \in Int /\ s[1] \in Int /\ s[2] \in Int
      BY <1>1
    <2> QED BY <1>1, <2>1 DEF Whole, Larger, Smaller
  <1> HIDE DEF W
  <1>4. SumFunction(f) \in Int
    <2>1. (\A s \in D : f[s] \in Int) /\ DOMAIN f = D
      BY <1>3
    <2> HIDE DEF f
    <2> QED BY <1>2, <2>1, SumInteger DEF SumFunction
  <1>5. ASSUME NEW d \in Int PROVE FreeTime(W, d, rule) \in Int
    <2> DEFINE M == MidnightOf(d)
               P == Q \X D
               g == [h \in P |-> Overlap(W[h[2]], <<M + h[1][1], M + h[1][2]>>)]
    <2>1. /\ M \in Int /\ IsFiniteSet(Q) /\ \A s \in Q : s[1] \in Int /\ s[2] \in Int
      BY RuleInteger
    <2>2. IsFiniteSet(P)
      BY <1>2, <2>1, FS_Product
    <2>3. FreeTime(W, d, rule) = SumFunction(g) /\ DOMAIN g = P
      BY DEF FreeTime
    <2>4. ASSUME NEW h \in P PROVE g[h] \in Int
      <3>1. h[1] \in Q /\ h[2] \in D
        OBVIOUS
      <3> HIDE DEF M
      <3>2. M + h[1][1] \in Int /\ M + h[1][2] \in Int /\ W[h[2]] \in Int \X Int
        BY <1>3, <2>1, <3>1
      <3> QED BY <3>2, OverlapInteger
    <2> HIDE DEF g, P
    <2> QED BY <2>2, <2>3, <2>4, SumInteger DEF SumFunction
  <1>6. ValidLength(p, sections, date, rule) =
          SumFunction(f) - FreeTime(W, date, rule) - FreeTime(W, date + 1, rule)
    BY DEF ValidLength, W
  <1>7. FreeTime(W, date, rule) \in Int /\ FreeTime(W, date + 1, rule) \in Int
    BY <1>5
  <1> HIDE DEF f
  <1> QED BY <1>4, <1>6, <1>7

LEMMA ValidTime0Type ==
    ASSUME NEW rule, WellFormed(rule), NEW p \in Int \X Int, p[1] \in Nat
    PROVE  CalInvalidParkingTime(p, rule) \in TimeType
  <1> DEFINE date == Date(p[1])
             D == DaylightPeriods(date, rule)
             N == NightPeriods(date, rule)
  <1>1. date \in Int
    BY DateBounds
  <1>2. CalInvalidParkingTime(p, rule) =
          [daylight |-> ValidLength(p, D, date, rule), night |-> ValidLength(p, N, date, rule)]
    BY DEF CalInvalidParkingTime
  <1> HIDE DEF date
  <1>3. D \in SUBSET (Int \X Int) /\ IsFiniteSet(D)
        /\ N \in SUBSET (Int \X Int) /\ IsFiniteSet(N)
    <2> DEFINE M(k) == MidnightOf(date + k)
               day == rule.daylight_begin
               night == rule.night_begin
    <2>1. /\ MidnightOf(date) \in Int /\ M(1) \in Int /\ M(2) \in Int
          /\ day \in Int /\ night \in Int
      BY <1>1, RuleInteger, MidnightIs
    <2>2. D = {<<MidnightOf(date) + day, MidnightOf(date) + night>>, <<M(1) + day, M(1) + night>>}
      BY DEF DaylightPeriods
    <2>3. N = {<<MidnightOf(date), MidnightOf(date) + day>>,
               <<MidnightOf(date) + night, M(1) + day>>, <<M(1) + night, M(2)>>}
      BY DEF NightPeriods
    <2> HIDE DEF M, day, night, D, N
    <2>4. D \in SUBSET (Int \X Int) /\ N \in SUBSET (Int \X Int)
      BY <2>1, <2>2, <2>3
    <2>5. IsFiniteSet(D)
      BY <2>2, FewAreFinite
    <2>6. IsFiniteSet(N)
      BY <2>3, FewAreFinite
    <2> QED BY <2>4, <2>5, <2>6
  <1> HIDE DEF D, N
  <1>4. ValidLength(p, D, date, rule) \in Int /\ ValidLength(p, N, date, rule) \in Int
    BY <1>1, <1>3, ValidLengthInteger
  <1> QED BY <1>2, <1>4 DEF TimeType

(* A computed line of pattern 0.                                           *)
LEMMA CalChargeByTimeIs ==
    ASSUME stay \in Stays, NEW rule \in RulesOf(stay.table), NEW period \in Int \X Int,
           period[1] \in Nat, period[2] <= period[1] + Day, NEW first
    PROVE  LET d == CalChargeByTime(rule, period, first) IN
           /\ Sound(d, stay.table, stay.vehicle) /\ Exact(d, stay.table)
           /\ d.fee <= CapOf(stay.table, stay.vehicle)
  <1> DEFINE fees == rule.fees[stay.vehicle]
             begin == AfterFreeTime(period[1], rule, first)
             p == <<begin, period[2]>>
             valid == CalInvalidParkingTime(p, rule)
             minutes == BorrowTime(valid, begin, rule, fees)
             d == CalChargeByTime(rule, period, first)
  <1>1. /\ stay.table \in RuleTables /\ stay.vehicle \in Vehicles
        /\ WellFormed(rule) /\ fees \in Fees
        /\ Ordered(stay.table) => Proper(rule)
        /\ CapOf(stay.table, stay.vehicle) \in Nat
    BY StayIs, RulesAre, CapIs
  <1>2. begin \in Nat /\ period[1] <= begin /\ period[2] \in Int
    <2>1. begin \in Int /\ period[1] <= begin
      BY <1>1, AfterFreeTimeIs
    <2> HIDE DEF begin
    <2> QED BY <2>1
  <1>3. d = IF begin >= period[2] THEN FreeDetail(period, 0, {rule})
            ELSE Detail(period, 0, begin, {rule}, valid, minutes, CalOneDayCharge(minutes, fees))
    BY Zenon DEF CalChargeByTime
  <1>4. CASE begin >= period[2]
    <2>1. d = FreeDetail(period, 0, {rule})
      BY <1>3, <1>4
    <2> HIDE DEF d
    <2>2. {rule} \in SUBSET RulesOf(stay.table)
      OBVIOUS
    <2>3. Sound(d, stay.table, stay.vehicle) /\ Exact(d, stay.table) /\ d.fee = 0
      <3> DEFINE f == {rule}
      <3>1. d = FreeDetail(period, 0, f) /\ f \in SUBSET RulesOf(stay.table) /\ 0 \in Nat
        BY <2>1, <2>2
      <3>2. stay.table \in RuleTables /\ stay.vehicle \in Vehicles
        BY <1>1
      <3> HIDE DEF f
      <3> QED BY <3>1, <3>2, NothingIs
    <2> QED BY <1>1, <2>3 DEF d
  <1>5. CASE begin < period[2]
    <2> HIDE DEF begin
    <2>1. period[2] <= begin + Day
      BY <1>2, DayIs
    <2>2. p \in Int \X Int /\ p[1] \in Nat
      BY <1>2
    <2>3. ASSUME Ordered(stay.table) PROVE Counted(valid, p, rule)
      <3>1. begin <= period[2]
        BY <1>2, <1>5
      <3>2. Proper(rule)
        BY <1>1, <2>3
      <3> QED BY <1>2, <2>1, <3>1, <3>2, ValidTime0Is DEF Counted
    <2>4. valid \in TimeType
      <3> HIDE DEF p
      <3> QED BY <1>1, <2>2, ValidTime0Type
    <2> HIDE DEF valid
    <2>5. ASSUME Ordered(stay.table) PROVE valid.daylight >= 0 /\ valid.night >= 0
      <3>1. Counted(valid, p, rule)
        BY <2>3, <2>5
      <3> HIDE DEF p
      <3>2. valid.daylight \in Nat /\ valid.night \in Nat
        BY <2>2, <3>1, CountedIs
      <3> QED BY <3>2
    <2>6. minutes \in TimeType
      BY <1>1, <2>4, BorrowTimeIs
    <2>7. Ordered(stay.table) => Covers(minutes, valid, fees) /\ Counted(valid, p, rule)
      BY <1>1, <2>3, <2>4, <2>5, BorrowTimeIs
    <2> HIDE DEF minutes
    <2>8. d = Detail(period, 0, begin, {rule}, valid, minutes, CalOneDayCharge(minutes, fees))
      BY <1>2, <1>3, <1>5
    <2> HIDE DEF d
    <2>9. begin \in Int
      BY <1>2
    <2>10. /\ Sound(d, stay.table, stay.vehicle) /\ Exact(d, stay.table)
           /\ d.fee <= CapOf(stay.table, stay.vehicle)
      BY <1>1, <2>4, <2>6, <2>7, <2>8, <2>9, ChargedIs
    <2> QED BY <2>10 DEF d
  <1> QED BY <1>2, <1>4, <1>5

-----------------------------------------------------------------------------
(* The periods of a stay and the total of a bill.                          *)
Short(p) == p \in Int \X Int /\ p[1] \in Nat /\ p[2] <= p[1] + Day
OfOneDate(p) ==
    /\ p \in Int \X Int
    /\ \E date \in Int : MidnightOf(date) <= p[1] /\ p[2] <= MidnightOf(date) + Day

(* Pattern 0 cuts a stay into periods of at most a day.                    *)
LEMMA Divide0Is ==
    ASSUME NEW b \in Nat, NEW e \in Nat, b <= e
    PROVE  LET D == DivideTimeByDay0(b, e) IN
           /\ D \in Seq(Int \X Int) /\ Len(D) = (e - b + Day - 1) \div Day
           /\ \A i \in 1 .. Len(D) : Short(D[i])
  <1> DEFINE n == (e - b + Day - 1) \div Day
             D == DivideTimeByDay0(b, e)
  <1>1. Day \in Nat \ {0}
    BY DayIs
  <1>2. n \in Nat
    <2> DEFINE a == e - b + Day - 1
    <2>1. a \in Nat
      BY <1>1
    <2> HIDE DEF a
    <2>2. Day * 0 <= a
      BY <1>1, <2>1
    <2>3. a \in Int /\ 0 \in Int
      BY <2>1
    <2>4. a \div Day \in Int
      BY <1>1, <2>3, DivMod
    <2>5. 0 <= a \div Day
      BY <1>1, <2>2, <2>3, DivBounds
    <2> QED BY <2>4, <2>5 DEF a
  <1>3. D = [i \in 1 .. n |-> <<b + (i - 1) * Day, Smaller(e, b + i * Day)>>]
    BY DEF DivideTimeByDay0
  <1> HIDE DEF n, D
  <1>4. ASSUME NEW i \in 1 .. n
        PROVE  /\ D[i] = <<b + (i - 1) * Day, Smaller(e, b + i * Day)>>
               /\ D[i] \in Int \X Int /\ Short(D[i])
    <2> DEFINE k == (i - 1) * Day
               x == b + k
               y == Smaller(e, b + i * Day)
    <2>1. D[i] = <<x, y>>
      BY <1>3
    <2>2. k \in Nat
      <3>1. i - 1 \in Nat
        BY <1>2
      <3> QED BY <1>1, <3>1, ProductIs
    <2>3. i * Day = k + Day
      BY <1>1, <1>2
    <2> HIDE DEF k
    <2>4. x \in Nat /\ y \in Int /\ y <= x + Day
      BY <1>1, <2>2, <2>3 DEF Smaller
    <2> HIDE DEF x, y
    <2>5. D[i] \in Int \X Int /\ Short(D[i])
      BY <2>1, <2>4 DEF Short
    <2> QED BY <1>3, <2>5
  <1>5. D \in [1 .. n -> Int \X Int]
    BY <1>3, <1>4
  <1>6. D \in Seq(Int \X Int) /\ Len(D) = n
    BY <1>2, <1>5
  <1> QED BY <1>4, <1>6 DEF n, D

(* The last date pattern 1 charges.                                        *)
LastDate(b, e) == IF b < e THEN Date(e - 1) ELSE Date(e)

(* Pattern 1 cuts a stay into periods of one date each, one at least, and  *)
(* no fewer than pattern 0.                                                *)
LEMMA Divide1Is ==
    ASSUME NEW b \in Nat, NEW e \in Nat, b <= e
    PROVE  LET D == DivideTimeByDay1(b, e) IN
           /\ D \in Seq(Int \X Int) /\ Len(D) \in Nat \ {0}
           /\ \A i \in 1 .. Len(D) : OfOneDate(D[i])
           /\ Len(DivideTimeByDay0(b, e)) <= Len(D)
  <1> DEFINE first == Date(b)
             last == LastDate(b, e)
             n == last - first + 1
             D == DivideTimeByDay1(b, e)
             W(i) == Whole(<<b, e>>, <<MidnightOf(first + i - 1), MidnightOf(first + i)>>)
  <1>1. Day \in Nat \ {0}
    BY DayIs
  <1>2. /\ first \in Nat /\ Day * first <= b /\ b < Day * first + Day
    BY <1>1, DateBounds DEF MidnightOf
  <1>3. /\ last \in Nat /\ e - 1 < Day * last + Day /\ first <= last
    <2>1. CASE b < e
      <3>1. e - 1 \in Nat /\ last = Date(e - 1)
        BY <2>1 DEF LastDate
      <3>2. last \in Nat /\ e - 1 < Day * last + Day
        BY <1>1, <3>1, DateBounds DEF MidnightOf
      <3>3. Day * first <= e - 1
        BY <1>1, <1>2, <2>1
      <3>4. first <= (e - 1) \div Day
        <4> HIDE DEF first
        <4> QED BY <1>1, <1>2, <3>1, <3>3, DivBounds
      <3> QED BY <3>1, <3>2, <3>4 DEF Date
    <2>2. CASE b = e
      <3>1. last = first
        BY <2>2 DEF LastDate
      <3> HIDE DEF first, last
      <3> QED BY <1>1, <1>2, <2>2, <3>1
    <2> QED BY <2>1, <2>2
  <1>4. n \in Nat \ {0}
    <2> HIDE DEF first, last
    <2> QED BY <1>2, <1>3
  <1>5. D = [i \in 1 .. n |-> W(i)]
    BY Zenon DEF DivideTimeByDay1, LastDate
  <1> HIDE DEF first, last, D
  <1>6. ASSUME NEW i \in 1 .. n PROVE W(i) \in Int \X Int /\ OfOneDate(W(i))
    <2> DEFINE d == first + i - 1
               x == Larger(b, MidnightOf(d))
               y == Smaller(e, MidnightOf(d) + Day)
    <2>1. d \in Int /\ first + i = d + 1
      BY <1>2, <1>4
    <2>2. MidnightOf(d) \in Int /\ MidnightOf(first + i) = MidnightOf(d) + Day
      <3> HIDE DEF d
      <3> QED BY <2>1, MidnightIs
    <2> HIDE DEF d
    <2>3. W(i) = <<x, y>>
      BY <2>2 DEF Whole, d
    <2>4. x \in Int /\ y \in Int /\ MidnightOf(d) <= x /\ y <= MidnightOf(d) + Day
      BY <1>1, <2>2 DEF Larger, Smaller
    <2> HIDE DEF W, x, y
    <2> QED BY <2>1, <2>3, <2>4 DEF OfOneDate
  <1>7. D \in [1 .. n -> Int \X Int]
    <2> HIDE DEF W
    <2> QED BY <1>5, <1>6
  <1>8. D \in Seq(Int \X Int) /\ Len(D) = n
    <2> HIDE DEF n
    <2> QED BY <1>4, <1>7
  <1>9. \A i \in 1 .. n : OfOneDate(D[i])
    <2> HIDE DEF W
    <2> QED BY <1>5, <1>6
  <1>10. Len(DivideTimeByDay0(b, e)) <= n
    <2> DEFINE a == e - b + Day - 1
    <2>1. Len(DivideTimeByDay0(b, e)) = a \div Day
      BY Divide0Is
    <2>2. Day * n = Day * last - Day * first + Day
      BY <1>1, <1>2, <1>3
    <2>3. Day * last \in Int /\ Day * first \in Int
      BY <1>1, <1>2, <1>3
    <2>4. a \in Int
      BY <1>1
    <2>5. a < Day * n + Day
      <3> HIDE DEF n
      <3> QED BY <1>1, <1>2, <1>3, <2>2, <2>3
    <2>6. a \div Day <= n
      <3> HIDE DEF a, n
      <3> QED BY <1>1, <1>4, <2>4, <2>5, DivBounds
    <2> QED BY <2>1, <2>6
  <1> QED BY <1>4, <1>8, <1>9, <1>10 DEF D

(* A product grows with its factors.                                       *)
LEMMA ProductGrows ==
    ASSUME NEW a \in Int, NEW b \in Int, NEW c \in Nat, a <= b
    PROVE  a * c <= b * c
  OBVIOUS

(* The total of a bill whose lines cost at most c each.                    *)
LEMMA TotalIs ==
    ASSUME NEW S, NEW lines \in Seq(S), NEW c \in Nat,
           \A i \in 1 .. Len(lines) : lines[i].fee \in Int /\ lines[i].fee <= c
    PROVE  /\ Total(lines) \in Int /\ Total(lines) <= Len(lines) * c
           /\ (\A i \in 1 .. Len(lines) : lines[i].fee >= 0) => Total(lines) >= 0
  <1> DEFINE Q == 1 .. Len(lines)
             f == [i \in Q |-> lines[i].fee]
  <1>1. Len(lines) \in Nat /\ DOMAIN lines = Q
    OBVIOUS
  <1>2. IsFiniteSet(Q) /\ Cardinality(Q) = Len(lines)
    <2> DEFINE n == Len(lines)
    <2> HIDE DEF n
    <2>1. 1 \in Int /\ n \in Nat
      BY <1>1 DEF n
    <2>2. IsFiniteSet(1 .. n) /\ Cardinality(1 .. n) = IF 1 > n THEN 0 ELSE n - 1 + 1
      BY <2>1, FS_Interval
    <2>3. Cardinality(1 .. n) = n
      BY <2>1, <2>2
    <2> QED BY <2>2, <2>3 DEF n
  <1>3. Total(lines) = SumFunctionOnSet(f, Q)
    BY <1>1 DEF Total, SumFunction
  <1>4. \A i \in Q : f[i] \in Int /\ f[i] <= c
    OBVIOUS
  <1>5. (\A i \in 1 .. Len(lines) : lines[i].fee >= 0) => \A i \in Q : f[i] >= 0
    OBVIOUS
  <1> HIDE DEF f, Q
  <1>6. /\ SumFunctionOnSet(f, Q) \in Int /\ SumFunctionOnSet(f, Q) <= Cardinality(Q) * c
        /\ (\A i \in Q : f[i] >= 0) => SumFunctionOnSet(f, Q) >= 0
    BY <1>2, <1>4, SumBounded
  <1> QED BY <1>2, <1>3, <1>5, <1>6

-----------------------------------------------------------------------------
(* The invariant.                                                          *)
Cap == CapOf(stay.table, stay.vehicle)
DaysParked == Len(DivideTimeByDay1(stay.enter, stay.exit))

CallInv ==
    /\ stay \in Stays /\ bill_pc \in {"start", "pattern0", "pattern1", "done"}
    /\ borrowed \in Nat /\ first_day \in BOOLEAN
    /\ fee \in Int /\ (Ordered(stay.table) => fee >= 0)
    /\ bill_pc = "start" => details = <<>>

(* Every line covers its time; the computed ones count it.                 *)
LinesInv ==
    /\ details \in Seq(LineType(stay.table))
    /\ \A i \in 1 .. Len(details) : Sound(details[i], stay.table, stay.vehicle)
    /\ \A i \in 1 .. Len(details) :
         (stay.pattern = 1 \/ i \in {1, Len(details)}) => Exact(details[i], stay.table)

(* Pattern 0 has its periods and no line; pattern 1 has a line for every   *)
(* period it has visited.                                                  *)
Pattern0Inv ==
    bill_pc = "pattern0" =>
      /\ stay.pattern # 1 /\ details = <<>>
      /\ periods \in Seq(Int \X Int) /\ Len(periods) <= DaysParked
      /\ \A i \in 1 .. Len(periods) : Short(periods[i])
Pattern1Inv ==
    bill_pc = "pattern1" =>
      /\ stay.pattern = 1
      /\ periods \in Seq(Int \X Int) /\ Len(periods) + Len(details) = DaysParked
      /\ \A i \in 1 .. Len(periods) : OfOneDate(periods[i])
      /\ \A i \in 1 .. Len(details) : details[i].fee <= Cap

CappedInv == bill_pc = "done" => fee <= 100 * DaysParked * Cap

BillInv == CallInv /\ LinesInv /\ Pattern0Inv /\ Pattern1Inv /\ CappedInv

(* What the invariant says of the call.                                    *)
LEMMA CallIs ==
    ASSUME stay \in Stays
    PROVE  /\ stay.enter \in Nat /\ stay.exit \in Nat /\ stay.enter <= stay.exit
           /\ stay.table \in RuleTables /\ stay.vehicle \in Vehicles
           /\ stay.discount \in 0 .. 100 /\ <<stay.enter, stay.exit>> \in Int \X Int
           /\ Cap \in Nat /\ DaysParked \in Nat \ {0} /\ DaysParked * Cap \in Nat
           /\ EntryRule \subseteq RulesOf(stay.table)
           /\ LoopRule \subseteq RulesOf(stay.table)
  <1>1. /\ stay.enter \in Nat /\ stay.exit \in Nat /\ stay.enter <= stay.exit
        /\ stay.table \in RuleTables /\ stay.vehicle \in Vehicles
        /\ stay.discount \in 0 .. 100
    BY StayIs
  <1>2. Cap \in Nat
    BY <1>1, CapIs DEF Cap
  <1>3. DaysParked \in Nat \ {0}
    BY <1>1, Divide1Is DEF DaysParked
  <1>4. DaysParked * Cap \in Nat
    BY <1>2, <1>3, ProductIs
  <1> QED BY <1>1, <1>2, <1>3, <1>4, FoundAre DEF EntryRule, LoopRule

(* The call returns a bill.                                                *)
LEMMA ReturnKeeps ==
    ASSUME BillInv, UNCHANGED <<stay, borrowed, first_day>>,
           NEW lines \in Seq(LineType(stay.table)), NEW discount \in 0 .. 100,
           Return(lines, discount),
           \A i \in 1 .. Len(lines) : Sound(lines[i], stay.table, stay.vehicle),
           \A i \in 1 .. Len(lines) :
             (stay.pattern = 1 \/ i \in {1, Len(lines)}) => Exact(lines[i], stay.table),
           Total(lines) \in Int, Total(lines) <= DaysParked * Cap,
           Ordered(stay.table) => Total(lines) >= 0
    PROVE  BillInv'
  <1>1. stay \in Stays /\ borrowed \in Nat /\ first_day \in BOOLEAN
    BY DEF BillInv, CallInv
  <1>2. stay' = stay /\ borrowed' = borrowed /\ first_day' = first_day
    OBVIOUS
  <1>3. details' = lines /\ fee' = Total(lines) * discount /\ bill_pc' = "done"
    BY DEF Return
  <1>4. Cap' = Cap /\ DaysParked' = DaysParked
    BY <1>2 DEF Cap, DaysParked
  <1>5. /\ fee' \in Int /\ fee' <= 100 * DaysParked * Cap
        /\ Ordered(stay.table) => fee' >= 0
    <2> DEFINE t == Total(lines)
               m == DaysParked * Cap
    <2>1. t \in Int /\ m \in Nat /\ t <= m /\ discount \in Nat /\ discount <= 100
      BY <1>1, CallIs
    <2>2. Cap \in Nat /\ DaysParked \in Nat
      BY <1>1, CallIs
    <2>3. 100 * DaysParked * Cap = m * 100
      BY <2>2
    <2> HIDE DEF t, m
    <2>4. t * discount \in Int /\ (t >= 0 => t * discount >= 0)
      BY <2>1
    <2>5. t * discount <= m * discount /\ discount * m <= 100 * m
      BY <2>1, ProductGrows
    <2>6. discount * m = m * discount /\ m * discount \in Int
      BY <2>1
    <2>7. t * discount <= m * 100
      BY <2>1, <2>4, <2>5, <2>6
    <2> QED BY <1>3, <2>3, <2>4, <2>7 DEF t
  <1>6. CallInv'
    BY <1>1, <1>2, <1>3, <1>5 DEF CallInv
  <1>7. LinesInv'
    BY <1>2, <1>3 DEF LinesInv
  <1>8. Pattern0Inv' /\ Pattern1Inv'
    BY <1>3 DEF Pattern0Inv, Pattern1Inv
  <1>9. CappedInv'
    BY <1>4, <1>5 DEF CappedInv
  <1> QED BY <1>6, <1>7, <1>8, <1>9 DEF BillInv

(* A bill of one line.                                                     *)
LEMMA OneLineKeeps ==
    ASSUME BillInv, UNCHANGED <<stay, borrowed, first_day>>,
           NEW d, Sound(d, stay.table, stay.vehicle), Exact(d, stay.table),
           d.fee >= 0, d.fee <= DaysParked * Cap, Return(<<d>>, 100)
    PROVE  BillInv'
  <1> DEFINE lines == <<d>>
  <1>1. /\ d \in LineType(stay.table) /\ d.fee \in Int
        /\ Ordered(stay.table) => d.fee >= 0
    BY DEF Sound, LineType, Covered
  <1>2. lines \in Seq(LineType(stay.table)) /\ Len(lines) = 1 /\ lines[1] = d
    BY <1>1
  <1> HIDE DEF lines
  <1>3. Total(lines) \in Int /\ Total(lines) <= d.fee /\ Total(lines) >= 0
    <2> DEFINE c == d.fee
    <2> HIDE DEF c
    <2>1. c \in Nat
      BY <1>1 DEF c
    <2>2. \A i \in 1 .. Len(lines) : lines[i].fee \in Int /\ lines[i].fee <= c /\ lines[i].fee >= 0
      BY <1>1, <1>2 DEF c
    <2>3. Total(lines) \in Int /\ Total(lines) <= Len(lines) * c /\ Total(lines) >= 0
      BY <1>2, <2>1, <2>2, TotalIs
    <2>4. Len(lines) * c = c
      BY <1>2, <2>1
    <2> QED BY <2>3, <2>4 DEF c
  <1>4. DaysParked * Cap \in Nat
    BY CallIs DEF BillInv, CallInv
  <1>5. Total(lines) <= DaysParked * Cap
    <2> DEFINE m == DaysParked * Cap
    <2> HIDE DEF m
    <2>1. m \in Nat /\ d.fee <= m
      BY <1>4 DEF m
    <2>2. Total(lines) <= m
      BY <1>1, <1>3, <2>1
    <2> QED BY <2>2 DEF m
  <1>6. \A i \in 1 .. Len(lines) : lines[i] = d
    BY <1>2
  <1>7. Return(lines, 100) /\ 100 \in 0 .. 100
    BY DEF lines
  <1>8. \A i \in 1 .. Len(lines) : Sound(lines[i], stay.table, stay.vehicle) /\ Exact(lines[i], stay.table)
    BY <1>6
  <1> QED BY <1>2, <1>3, <1>5, <1>7, <1>8, ReturnKeeps

(* One iteration of pattern 1's loop.                                      *)
LEMMA LoopKeeps ==
    ASSUME BillInv, Looping, NEW d, Sound(d, stay.table, stay.vehicle), Exact(d, stay.table),
           d.fee <= Cap, details' = Append(details, d),
           borrowed' \in Nat, first_day' \in BOOLEAN
    PROVE  BillInv'
  <1>1. /\ stay' = stay /\ bill_pc' = bill_pc /\ fee' = fee /\ bill_pc = "pattern1"
        /\ periods # <<>> /\ periods' = Tail(periods)
    BY DEF Looping
  <1>2. Cap' = Cap /\ DaysParked' = DaysParked
    BY <1>1 DEF Cap, DaysParked
  <1>3. d \in LineType(stay.table)
    BY DEF Sound
  <1>4. CallInv'
    BY <1>1 DEF BillInv, CallInv
  <1>5. /\ details \in Seq(LineType(stay.table)) /\ Len(details) \in Nat
        /\ periods \in Seq(Int \X Int) /\ Len(periods) \in Nat
        /\ Len(periods) + Len(details) = DaysParked
    BY <1>1 DEF BillInv, LinesInv, Pattern1Inv
  <1>6. /\ details' \in Seq(LineType(stay.table)) /\ Len(details') = Len(details) + 1
        /\ \A i \in 1 .. Len(details) : details'[i] = details[i]
        /\ details'[Len(details) + 1] = d
    BY <1>3, <1>5
  <1>7. /\ periods' \in Seq(Int \X Int) /\ Len(periods') = Len(periods) - 1
        /\ \A i \in 1 .. Len(periods) - 1 : periods'[i] = periods[i + 1]
    BY <1>1, <1>5
  <1>8. ASSUME NEW i \in 1 .. Len(details')
        PROVE  details'[i] = d \/ (i \in 1 .. Len(details) /\ details'[i] = details[i])
    BY <1>5, <1>6
  <1>9. stay.pattern = 1
    BY <1>1 DEF BillInv, Pattern1Inv
  <1>10. LinesInv'
    <2>1. \A i \in 1 .. Len(details') : Sound(details'[i], stay.table, stay.vehicle)
      BY <1>8 DEF BillInv, LinesInv
    <2>2. \A i \in 1 .. Len(details') : Exact(details'[i], stay.table)
      BY <1>8, <1>9 DEF BillInv, LinesInv
    <2> QED BY <1>1, <1>6, <2>1, <2>2 DEF LinesInv
  <1>11. Pattern1Inv'
    <2>1. \A i \in 1 .. Len(details') : details'[i].fee <= Cap
      BY <1>1, <1>8 DEF BillInv, Pattern1Inv
    <2>2. \A i \in 1 .. Len(periods') : OfOneDate(periods'[i])
      <3>1. ASSUME NEW i \in 1 .. Len(periods')
            PROVE  i + 1 \in 1 .. Len(periods) /\ periods'[i] = periods[i + 1]
        BY <1>5, <1>7
      <3> QED BY <1>1, <3>1 DEF BillInv, Pattern1Inv
    <2>3. Len(periods') + Len(details') = DaysParked
      BY <1>5, <1>6, <1>7
    <2> QED BY <1>1, <1>2, <1>7, <1>9, <2>1, <2>2, <2>3 DEF Pattern1Inv
  <1>12. Pattern0Inv' /\ CappedInv'
    BY <1>1 DEF Pattern0Inv, CappedInv
  <1> QED BY <1>4, <1>10, <1>11, <1>12 DEF BillInv

(* One lemma for every action.                                             *)

(* A line for the whole stay.                                              *)
LEMMA WholeStay ==
    ASSUME stay \in Stays, NEW found \in SUBSET RulesOf(stay.table), NEW amount \in Nat,
           NEW d,
           \/ d = FreeDetail(<<stay.enter, stay.exit>>, 0, found) /\ amount = 0
           \/ d = [FreeDetail(<<stay.enter, stay.exit>>, 0, found) EXCEPT !.fee = amount]
    PROVE  Sound(d, stay.table, stay.vehicle) /\ Exact(d, stay.table) /\ d.fee = amount
  <1> DEFINE period == <<stay.enter, stay.exit>>
  <1>1. period \in Int \X Int /\ stay.table \in RuleTables /\ stay.vehicle \in Vehicles
    BY CallIs
  <1>2. \/ d = FreeDetail(period, 0, found) /\ amount = 0
        \/ d = [FreeDetail(period, 0, found) EXCEPT !.fee = amount]
    OBVIOUS
  <1> HIDE DEF period
  <1> QED BY <1>1, <1>2, FreeDetailIs

(* ChargeByTime: free, or the periods of the pattern.                      *)
LEMMA ChargeByTimeKeeps ==
    ASSUME BillInv, ChargeByTime
    PROVE  BillInv'
  <1>1. stay \in Stays /\ details = <<>> /\ bill_pc = "start"
    BY DEF BillInv, CallInv, ChargeByTime
  <1>2. UNCHANGED <<stay, borrowed, first_day>>
    BY DEF ChargeByTime
  <1>3. CASE /\ InFreeTime
             /\ Return(<<FreeDetail(<<stay.enter, stay.exit>>, 0, EntryRule)>>, 100)
    <2> DEFINE d == FreeDetail(<<stay.enter, stay.exit>>, 0, EntryRule)
    <2>1. Return(<<d>>, 100)
      BY <1>3
    <2>2. EntryRule \in SUBSET RulesOf(stay.table)
      BY <1>1, CallIs
    <2>3. d = FreeDetail(<<stay.enter, stay.exit>>, 0, EntryRule)
      OBVIOUS
    <2> HIDE DEF d
    <2>4. Sound(d, stay.table, stay.vehicle) /\ Exact(d, stay.table) /\ d.fee = 0
      BY <1>1, <2>2, <2>3, WholeStay
    <2>5. d.fee >= 0 /\ d.fee <= DaysParked * Cap
      BY <1>1, <2>4, CallIs
    <2> QED BY <1>2, <2>1, <2>4, <2>5, OneLineKeeps
  <1>4. ASSUME bill_pc' \in {"pattern0", "pattern1"}, UNCHANGED <<details, fee>>
        PROVE  /\ CallInv' /\ LinesInv' /\ CappedInv' /\ details' = <<>> /\ stay' = stay
               /\ DaysParked' = DaysParked
    <2>1. CallInv'
      BY <1>1, <1>2, <1>4 DEF BillInv, CallInv
    <2>2. LinesInv'
      BY <1>1, <1>2, <1>4 DEF BillInv, LinesInv
    <2> QED BY <1>1, <1>2, <1>4, <2>1, <2>2 DEF CappedInv, DaysParked
  <1>5. CASE /\ ~InFreeTime /\ stay.pattern # 1 /\ bill_pc' = "pattern0"
             /\ periods' = DivideTimeByDay0(stay.enter, stay.exit)
             /\ UNCHANGED <<details, fee>>
    <2> DEFINE D == DivideTimeByDay0(stay.enter, stay.exit)
    <2>1. D \in Seq(Int \X Int) /\ \A i \in 1 .. Len(D) : Short(D[i])
      BY <1>1, CallIs, Divide0Is
    <2>2. Len(D) <= DaysParked
      BY <1>1, CallIs, Divide1Is DEF DaysParked
    <2>3. periods' = D /\ bill_pc' = "pattern0"
      BY <1>5
    <2> HIDE DEF D
    <2>4. Pattern0Inv' /\ Pattern1Inv'
      BY <1>4, <1>5, <2>1, <2>2, <2>3 DEF Pattern0Inv, Pattern1Inv
    <2> QED BY <1>4, <1>5, <2>4 DEF BillInv
  <1>6. CASE /\ ~InFreeTime /\ stay.pattern = 1 /\ bill_pc' = "pattern1"
             /\ periods' = DivideTimeByDay1(stay.enter, stay.exit)
             /\ UNCHANGED <<details, fee>>
    <2> DEFINE D == DivideTimeByDay1(stay.enter, stay.exit)
    <2>1. D \in Seq(Int \X Int) /\ \A i \in 1 .. Len(D) : OfOneDate(D[i])
      BY <1>1, CallIs, Divide1Is
    <2>2. Len(D) = DaysParked /\ Len(D) \in Nat
      BY <1>1, CallIs DEF DaysParked
    <2>3. periods' = D /\ bill_pc' = "pattern1"
      BY <1>6
    <2> HIDE DEF D
    <2>4. Len(details') = 0 /\ 1 .. Len(details') = {}
      BY <1>4, <1>6
    <2>5. Pattern0Inv' /\ Pattern1Inv'
      BY <1>4, <1>6, <2>1, <2>2, <2>3, <2>4 DEF Pattern0Inv, Pattern1Inv
    <2> QED BY <1>4, <1>6, <2>5 DEF BillInv
  <1> QED BY <1>3, <1>5, <1>6 DEF ChargeByTime

(* CalChargeTooDays: the cap for every period.                             *)
LEMMA CalChargeTooDaysKeeps ==
    ASSUME BillInv, CalChargeTooDays
    PROVE  BillInv'
  <1> DEFINE found == QueryMinPriorityRule(stay.table)
             n == Len(periods)
             cap == TheRule(found).fees[stay.vehicle].max_fee
             amount == IF found = {} THEN 0 ELSE n * cap
             d == [FreeDetail(<<stay.enter, stay.exit>>, 0, found) EXCEPT !.fee = amount]
  <1>1. stay \in Stays
    BY DEF BillInv, CallInv
  <1>2. UNCHANGED <<stay, borrowed, first_day>> /\ Return(<<d>>, 100)
    BY DEF CalChargeTooDays
  <1>3. n \in Nat /\ n <= DaysParked
    <2>1. CASE bill_pc = "pattern0"
      BY <2>1 DEF BillInv, Pattern0Inv
    <2>2. CASE bill_pc = "pattern1"
      <3>1. periods \in Seq(Int \X Int) /\ n + Len(details) = DaysParked
        BY <2>2 DEF BillInv, Pattern1Inv
      <3>2. n \in Nat /\ Len(details) = 0
        BY <3>1 DEF CalChargeTooDays
      <3> QED BY <3>1, <3>2
    <2> QED BY <2>1, <2>2 DEF CalChargeTooDays
  <1>4. found \in SUBSET RulesOf(stay.table)
    BY FoundAre
  <1>5. /\ Cap \in Nat /\ DaysParked \in Nat /\ DaysParked * Cap \in Nat
        /\ stay.table \in RuleTables /\ stay.vehicle \in Vehicles
        /\ <<stay.enter, stay.exit>> \in Int \X Int
    BY <1>1, CallIs
  <1>6. amount \in Nat /\ amount <= DaysParked * Cap
    <2>1. CASE found = {}
      BY <1>5, <2>1
    <2>2. CASE found # {}
      <3>1. TheRule(found) \in found
        BY <2>2 DEF TheRule
      <3>2. TheRule(found) \in RulesOf(stay.table)
        BY <1>4, <3>1
      <3> HIDE DEF found
      <3>3. cap \in Nat
        <4>1. TheRule(found).fees[stay.vehicle] \in Fees
          BY <1>5, <3>2, RulesAre
        <4> QED BY <4>1 DEF Fees
      <3>4. cap <= Cap
        BY <1>5, <3>2, CapIs DEF Cap
      <3> HIDE DEF cap, n
      <3>5. n * cap \in Nat
        BY <1>3, <3>3, ProductIs
      <3>6. cap * n <= Cap * n /\ n * Cap <= DaysParked * Cap
        BY <1>3, <1>5, <3>3, <3>4, ProductGrows
      <3>7. cap * n = n * cap /\ Cap * n = n * Cap /\ n * Cap \in Int
        BY <1>3, <1>5, <3>3
      <3>8. amount = n * cap
        BY <2>2
      <3> QED BY <1>5, <3>5, <3>6, <3>7, <3>8
    <2> QED BY <2>1, <2>2
  <1> HIDE DEF amount
  <1>7. Sound(d, stay.table, stay.vehicle) /\ Exact(d, stay.table) /\ d.fee = amount
    <2>1. d = [FreeDetail(<<stay.enter, stay.exit>>, 0, found) EXCEPT !.fee = amount]
      OBVIOUS
    <2> HIDE DEF found, d
    <2> QED BY <1>1, <1>4, <1>6, <2>1, WholeStay
  <1> HIDE DEF d
  <1>8. d.fee >= 0 /\ d.fee <= DaysParked * Cap
    BY <1>6, <1>7
  <1> QED BY <1>2, <1>7, <1>8, OneLineKeeps

(* NoChargeBill: nothing to pay.                                           *)
LEMMA NoChargeBillKeeps ==
    ASSUME BillInv, NoChargeBill
    PROVE  BillInv'
  <1> DEFINE d == FreeDetail(<<stay.enter, stay.exit>>, 0, {})
  <1>1. stay \in Stays
    BY DEF BillInv, CallInv
  <1>2. UNCHANGED <<stay, borrowed, first_day>> /\ Return(<<d>>, 100)
    BY DEF NoChargeBill
  <1>3. Sound(d, stay.table, stay.vehicle) /\ Exact(d, stay.table) /\ d.fee = 0
    <2>1. d = FreeDetail(<<stay.enter, stay.exit>>, 0, {})
      OBVIOUS
    <2>2. {} \in SUBSET RulesOf(stay.table) /\ 0 \in Nat
      OBVIOUS
    <2> HIDE DEF d
    <2> QED BY <1>1, <2>1, <2>2, WholeStay
  <1> HIDE DEF d
  <1>4. d.fee >= 0 /\ d.fee <= DaysParked * Cap
    BY <1>1, <1>3, CallIs
  <1> QED BY <1>2, <1>3, <1>4, OneLineKeeps

(* ChargeByTime0: the first and the last period, and copies in between.    *)
LEMMA ChargeByTime0Keeps ==
    ASSUME BillInv, ChargeByTime0
    PROVE  BillInv'
  <1> DEFINE n == Len(periods)
  <1>1. stay \in Stays /\ UNCHANGED <<stay, borrowed, first_day>>
    BY DEF BillInv, CallInv, ChargeByTime0
  <1>2. /\ periods \in Seq(Int \X Int) /\ n \in Nat \ {0} /\ n <= DaysParked
        /\ stay.pattern # 1 /\ DOMAIN periods = 1 .. n
        /\ \A i \in 1 .. n : Short(periods[i])
    BY DEF BillInv, Pattern0Inv, ChargeByTime0
  <1>3. PICK rule \in EntryRule :
          LET first == CalChargeByTime(rule, periods[1], TRUE)
              Line(i) == IF i = 1 THEN first
                         ELSE IF i < Len(periods) THEN [first EXCEPT !.period = periods[i]]
                         ELSE CalChargeByTime(rule, periods[i], FALSE) IN
          Return([i \in DOMAIN periods |-> Line(i)], stay.discount)
    BY Zenon DEF ChargeByTime0
  <1> DEFINE first == CalChargeByTime(rule, periods[1], TRUE)
             Copy(i) == [first EXCEPT !.period = periods[i]]
             Last(i) == CalChargeByTime(rule, periods[i], FALSE)
             Line(i) == IF i = 1 THEN first ELSE IF i < n THEN Copy(i) ELSE Last(i)
             lines == [i \in 1 .. n |-> Line(i)]
             Good(d) == Sound(d, stay.table, stay.vehicle) /\ d.fee <= Cap
  <1>4. Return(lines, stay.discount)
    BY <1>2, <1>3, Zenon
  <1>5. rule \in RulesOf(stay.table) /\ stay.discount \in 0 .. 100
    BY <1>1, CallIs
  <1>6. ASSUME NEW i \in 1 .. n, NEW once
        PROVE  LET d == CalChargeByTime(rule, periods[i], once) IN
               Good(d) /\ Exact(d, stay.table)
    <2>1. periods[i] \in Int \X Int /\ periods[i][1] \in Nat
          /\ periods[i][2] <= periods[i][1] + Day
      BY <1>2 DEF Short
    <2> QED BY <1>1, <1>5, <2>1, CalChargeByTimeIs DEF Cap
  <1>7. Good(first) /\ Exact(first, stay.table)
    <2>1. 1 \in 1 .. n
      <3> HIDE DEF n
      <3> QED BY <1>2
    <2> QED BY <1>6, <2>1
  <1>8. \A i \in 1 .. n : Good(Last(i)) /\ Exact(Last(i), stay.table)
    BY <1>6
  <1> HIDE DEF first, Last
  <1>9. ASSUME NEW i \in 1 .. n PROVE Good(Copy(i))
    <2> DEFINE d == Copy(i)
    <2>1. first \in LineType(stay.table) /\ periods[i] \in Int \X Int
      BY <1>2, <1>7 DEF Sound, Short
    <2>2. d \in LineType(stay.table)
      BY <2>1 DEF LineType
    <2>3. /\ d.rule = first.rule /\ d.minutes = first.minutes
          /\ d.valid = first.valid /\ d.fee = first.fee
      BY <2>1 DEF LineType
    <2> HIDE DEF d
    <2>4. Good(d)
      BY <1>7, <2>2, <2>3 DEF Sound, Covered
    <2> QED BY <2>4 DEF d
  <1> HIDE DEF Copy
  <1>10. ASSUME NEW i \in 1 .. n
         PROVE  Good(Line(i)) /\ (i \in {1, n} => Exact(Line(i), stay.table))
    <2>1. n \in Nat /\ i \in Nat /\ 1 <= i /\ i <= n
      BY <1>2
    <2> HIDE DEF Good, n
    <2>2. CASE i = 1
      BY <1>7, <2>2
    <2>3. CASE i # 1 /\ i < n
      <3>1. Line(i) = Copy(i) /\ i \notin {1, n}
        BY <2>1, <2>3
      <3> QED BY <1>9, <3>1
    <2>4. CASE i # 1 /\ i = n
      <3>1. Line(i) = Last(i)
        BY <2>1, <2>4
      <3> QED BY <1>8, <3>1
    <2> QED BY <2>1, <2>2, <2>3, <2>4
  <1> HIDE DEF Line
  <1>11. /\ lines \in Seq(LineType(stay.table)) /\ Len(lines) = n
         /\ \A i \in 1 .. n : Good(lines[i]) /\ (i \in {1, n} => Exact(lines[i], stay.table))
    <2>1. \A i \in 1 .. n : lines[i] = Line(i) /\ Line(i) \in LineType(stay.table)
      BY <1>10 DEF Sound
    <2>2. lines \in [1 .. n -> LineType(stay.table)]
      BY <2>1
    <2>3. lines \in Seq(LineType(stay.table)) /\ Len(lines) = n
      <3> HIDE DEF n, lines
      <3> QED BY <1>2, <2>2
    <2> HIDE DEF Good
    <2> QED BY <1>10, <2>1, <2>3
  <1> HIDE DEF lines
  <1>12. /\ Total(lines) \in Int /\ Total(lines) <= DaysParked * Cap
         /\ Ordered(stay.table) => Total(lines) >= 0
    <2>1. Cap \in Nat /\ DaysParked \in Nat /\ DaysParked * Cap \in Nat
      BY <1>1, CallIs
    <2>2. \A i \in 1 .. Len(lines) : lines[i].fee \in Int /\ lines[i].fee <= Cap
      BY <1>11 DEF Sound, LineType
    <2>3. /\ Total(lines) \in Int /\ Total(lines) <= Len(lines) * Cap
          /\ (\A i \in 1 .. Len(lines) : lines[i].fee >= 0) => Total(lines) >= 0
      BY <1>11, <2>1, <2>2, TotalIs
    <2>5. Ordered(stay.table) => \A i \in 1 .. Len(lines) : lines[i].fee >= 0
      BY <1>11 DEF Sound, Covered
    <2>4. n * Cap <= DaysParked * Cap /\ n * Cap \in Nat
      <3> HIDE DEF n
      <3> QED BY <1>2, <2>1, ProductGrows, ProductIs
    <2> QED BY <1>11, <2>1, <2>3, <2>4, <2>5
  <1> HIDE DEF n
  <1>13. \A i \in 1 .. Len(lines) : Sound(lines[i], stay.table, stay.vehicle)
    BY <1>11
  <1>14. \A i \in 1 .. Len(lines) :
           (stay.pattern = 1 \/ i \in {1, Len(lines)}) => Exact(lines[i], stay.table)
    <2> HIDE DEF Good
    <2> QED BY <1>2, <1>11
  <1> QED BY <1>1, <1>4, <1>5, <1>11, <1>12, <1>13, <1>14, ReturnKeeps

(* What pattern 1's loop finds: the first of its periods.                  *)
LEMMA LoopIs ==
    ASSUME BillInv, Looping
    PROVE  /\ stay \in Stays /\ borrowed \in Nat /\ first_day \in BOOLEAN
           /\ OfOneDate(periods[1]) /\ periods[1] \in Int \X Int
           /\ LoopBegin \in Int /\ periods[1][1] <= LoopBegin
  <1>1. stay \in Stays /\ borrowed \in Nat /\ first_day \in BOOLEAN
    BY DEF BillInv, CallInv
  <1>2. OfOneDate(periods[1])
    <2>1. /\ periods \in Seq(Int \X Int) /\ periods # <<>>
          /\ \A i \in 1 .. Len(periods) : OfOneDate(periods[i])
      BY DEF BillInv, Pattern1Inv, Looping
    <2>2. 1 \in 1 .. Len(periods)
      BY <2>1
    <2> QED BY <2>1, <2>2
  <1>3. periods[1] \in Int \X Int /\ periods[1][1] \in Int
    BY <1>2 DEF OfOneDate
  <1>4. borrowed * Minute \in Nat
    BY <1>1, DayIs, ProductIs
  <1>5. LoopBegin = periods[1][1] + borrowed * Minute
    BY DEF LoopBegin
  <1> QED BY <1>1, <1>2, <1>3, <1>4, <1>5

(* A period that is not charged.                                           *)
LEMMA FreeLoopKeeps ==
    ASSUME BillInv, Looping, NEW found \in SUBSET RulesOf(stay.table),
           details' = Append(details, FreeDetail(periods[1], borrowed, found)),
           borrowed' = borrowed, first_day' \in BOOLEAN
    PROVE  BillInv'
  <1> DEFINE d == FreeDetail(periods[1], borrowed, found)
  <1>1. /\ stay \in Stays /\ borrowed \in Nat /\ periods[1] \in Int \X Int
    BY LoopIs
  <1>2. stay.table \in RuleTables /\ stay.vehicle \in Vehicles /\ Cap \in Nat
    BY <1>1, CallIs
  <1>3. d = FreeDetail(periods[1], borrowed, found) /\ details' = Append(details, d)
    OBVIOUS
  <1> HIDE DEF d
  <1>4. Sound(d, stay.table, stay.vehicle) /\ Exact(d, stay.table) /\ d.fee = 0
    <2> DEFINE period == periods[1]
               unbilled == borrowed
               table == stay.table
               vehicle == stay.vehicle
               amount == 0
    <2>1. \/ d = FreeDetail(period, unbilled, found) /\ amount = 0
          \/ d = [FreeDetail(period, unbilled, found) EXCEPT !.fee = amount]
      BY <1>3
    <2>2. /\ period \in Int \X Int /\ amount \in Nat /\ unbilled \in Nat
          /\ table \in RuleTables /\ vehicle \in Vehicles /\ found \in SUBSET RulesOf(table)
      BY <1>1, <1>2
    <2> HIDE DEF period, unbilled, table, vehicle, amount
    <2>3. Sound(d, table, vehicle) /\ Exact(d, table) /\ d.fee = amount
      BY <2>1, <2>2, FreeDetailIs
    <2> QED BY <2>3 DEF amount, table, vehicle
  <1>5. d.fee <= Cap /\ borrowed' \in Nat
    BY <1>1, <1>2, <1>4
  <1> QED BY <1>3, <1>4, <1>5, LoopKeeps

(* SkipPeriod: nothing is left of the period, or there is no rule.         *)
LEMMA SkipPeriodKeeps ==
    ASSUME BillInv, SkipPeriod
    PROVE  BillInv'
  <1>1. /\ Looping /\ details' = Append(details, FreeDetail(periods[1], borrowed, {}))
        /\ borrowed' = borrowed /\ first_day' = first_day
    BY DEF SkipPeriod
  <1>2. {} \in SUBSET RulesOf(stay.table)
    OBVIOUS
  <1>3. first_day' \in BOOLEAN
    BY <1>1, LoopIs
  <1> QED BY <1>1, <1>2, <1>3, FreeLoopKeeps

(* FreePeriod: the free time reaches to the end of the period.             *)
LEMMA FreePeriodKeeps ==
    ASSUME BillInv, FreePeriod
    PROVE  BillInv'
  <1>1. PICK rule \in LoopRule :
          details' = Append(details, FreeDetail(periods[1], borrowed, {rule}))
    BY DEF FreePeriod
  <1>2. Looping /\ borrowed' = borrowed /\ first_day' \in BOOLEAN
    BY DEF FreePeriod
  <1>3. {rule} \in SUBSET RulesOf(stay.table)
    <2>1. stay \in Stays
      BY <1>2, LoopIs
    <2> QED BY <2>1, CallIs
  <1> QED BY <1>1, <1>2, <1>3, FreeLoopKeeps

(* ChargePeriod: what is left of the date after the minutes paid already   *)
(* lies in that date.                                                      *)
LEMMA ChargePeriodKeeps ==
    ASSUME BillInv, ChargePeriod
    PROVE  BillInv'
  <1>1. PICK rule \in LoopRule :
          LET fees == rule.fees[stay.vehicle]
              begin == AfterFreeTime(LoopBegin, rule, first_day)
              valid == ValidTime1(<<begin, periods[1][2]>>, Date(LoopBegin), rule)
              charged == Borrow1(valid, fees) IN
          /\ begin < periods[1][2]
          /\ details' = Append(details,
                          Detail(periods[1], borrowed, begin, {rule}, valid,
                                 charged.minutes, CalOneDayCharge(charged.minutes, fees)))
          /\ borrowed' = charged.borrowed
    BY Zenon DEF ChargePeriod
  <1> DEFINE period == periods[1]
             fees == rule.fees[stay.vehicle]
             begin == AfterFreeTime(LoopBegin, rule, first_day)
             date == Date(LoopBegin)
             p == <<begin, period[2]>>
             valid == ValidTime1(p, date, rule)
             charged == Borrow1(valid, fees)
             minutes == charged.minutes
             d == Detail(period, borrowed, begin, {rule}, valid, minutes,
                         CalOneDayCharge(minutes, fees))
  <1>2. Looping /\ LoopBegin < period[2] /\ first_day' \in BOOLEAN
    BY DEF ChargePeriod
  <1>3. /\ details' = Append(details, d) /\ borrowed' = charged.borrowed
        /\ begin < period[2]
    BY <1>1, Zenon
  <1>4. /\ stay \in Stays /\ borrowed \in Nat /\ OfOneDate(period)
        /\ period \in Int \X Int /\ LoopBegin \in Int /\ period[1] <= LoopBegin
    BY <1>2, LoopIs
  <1>5. /\ stay.table \in RuleTables /\ stay.vehicle \in Vehicles
        /\ rule \in RulesOf(stay.table)
    BY <1>4, CallIs
  <1>6. WellFormed(rule) /\ fees \in Fees /\ (Ordered(stay.table) => Proper(rule))
    BY <1>5, RulesAre
  <1> HIDE DEF period, fees
  <1>7. begin \in Int /\ LoopBegin <= begin
    BY <1>4, <1>6, AfterFreeTimeIs
  <1> HIDE DEF begin
  <1>8. /\ date \in Int /\ MidnightOf(date) <= p[1] /\ p[2] <= MidnightOf(date) + Day
        /\ p \in Int \X Int /\ p[1] <= p[2]
    <2>1. PICK c \in Int : MidnightOf(c) <= period[1] /\ period[2] <= MidnightOf(c) + Day
      BY <1>4 DEF OfOneDate
    <2>2. MidnightOf(c) \in Int /\ Day \in Nat /\ period[1] \in Int /\ period[2] \in Int
      BY <1>4, MidnightIs, DayIs
    <2>3. MidnightOf(c) <= LoopBegin /\ LoopBegin < MidnightOf(c) + Day
      BY <1>2, <1>4, <2>1, <2>2
    <2>4. date = c
      BY <1>4, <2>3, DateIs
    <2>5. MidnightOf(c) <= begin
      BY <1>4, <1>7, <2>2, <2>3
    <2> QED BY <1>3, <1>7, <2>1, <2>2, <2>4, <2>5
  <1> HIDE DEF date
  <1>9. ASSUME Ordered(stay.table) PROVE Counted(valid, p, rule)
    <2> HIDE DEF p
    <2>1. Proper(rule)
      BY <1>6, <1>9
    <2> QED BY <1>8, <2>1, ValidTime1Is DEF Counted
  <1>10. valid \in TimeType
    <2> HIDE DEF p
    <2> QED BY <1>6, <1>8, ValidTime1Type
  <1> HIDE DEF valid
  <1>11. ASSUME Ordered(stay.table) PROVE valid.daylight >= 0 /\ valid.night >= 0
    <2>1. Counted(valid, p, rule)
      BY <1>9, <1>11
    <2> HIDE DEF p
    <2>2. valid.daylight \in Nat /\ valid.night \in Nat
      BY <1>8, <2>1, CountedIs
    <2> QED BY <2>2
  <1>12. minutes \in TimeType /\ charged.borrowed \in Nat
    BY <1>4, <1>6, <1>10, Borrow1Is
  <1>13. Ordered(stay.table) => Covers(minutes, valid, fees) /\ Counted(valid, p, rule)
    BY <1>4, <1>6, <1>9, <1>10, <1>11, Borrow1Is
  <1> HIDE DEF minutes
  <1>14. d = Detail(period, borrowed, begin, {rule}, valid, minutes,
                    CalOneDayCharge(minutes, rule.fees[stay.vehicle]))
    BY DEF fees
  <1> HIDE DEF d
  <1>15. Ordered(stay.table) => /\ Covers(minutes, valid, rule.fees[stay.vehicle])
                                /\ Counted(valid, <<begin, period[2]>>, rule)
    BY <1>13 DEF fees
  <1>16. /\ Sound(d, stay.table, stay.vehicle) /\ Exact(d, stay.table)
         /\ d.fee <= CapOf(stay.table, stay.vehicle)
    BY <1>4, <1>5, <1>7, <1>10, <1>12, <1>14, <1>15, ChargedIs
  <1>17. borrowed' \in Nat
    BY <1>3, <1>12
  <1> HIDE DEF charged
  <1> QED BY <1>2, <1>3, <1>16, <1>17, LoopKeeps DEF Cap

(* The loop has ended.                                                     *)
LEMMA ChargeByTime1ReturnsKeeps ==
    ASSUME BillInv, ChargeByTime1Returns
    PROVE  BillInv'
  <1>1. /\ stay \in Stays /\ UNCHANGED <<stay, borrowed, first_day>>
        /\ Return(details, stay.discount) /\ bill_pc = "pattern1" /\ periods = <<>>
    BY DEF BillInv, CallInv, ChargeByTime1Returns
  <1>2. /\ details \in Seq(LineType(stay.table)) /\ Len(details) \in Nat
        /\ \A i \in 1 .. Len(details) : Sound(details[i], stay.table, stay.vehicle)
        /\ \A i \in 1 .. Len(details) :
             (stay.pattern = 1 \/ i \in {1, Len(details)}) => Exact(details[i], stay.table)
    BY DEF BillInv, LinesInv
  <1>3. /\ Len(periods) + Len(details) = DaysParked
        /\ \A i \in 1 .. Len(details) : details[i].fee <= Cap
    BY <1>1 DEF BillInv, Pattern1Inv
  <1>4. Len(details) = DaysParked
    BY <1>1, <1>2, <1>3
  <1>5. stay.discount \in 0 .. 100 /\ Cap \in Nat
    BY <1>1, CallIs
  <1>6. \A i \in 1 .. Len(details) : details[i].fee \in Int /\ details[i].fee <= Cap
    BY <1>2, <1>3 DEF Sound, LineType
  <1>7. /\ Total(details) \in Int /\ Total(details) <= Len(details) * Cap
        /\ (\A i \in 1 .. Len(details) : details[i].fee >= 0) => Total(details) >= 0
    BY <1>2, <1>5, <1>6, TotalIs
  <1>8. Ordered(stay.table) => \A i \in 1 .. Len(details) : details[i].fee >= 0
    BY <1>2 DEF Sound, Covered
  <1> QED BY <1>1, <1>2, <1>4, <1>5, <1>7, <1>8, ReturnKeeps

-----------------------------------------------------------------------------
(* The theorems.                                                           *)

(* The invariant holds when the call begins.                               *)
LEMMA BillInvInit ==
    ASSUME BillInit
    PROVE  BillInv
  <1>1. CallInv
    BY DEF BillInit, CallInv
  <1>2. LinesInv
    <2>1. details = <<>>
      BY DEF BillInit
    <2> QED BY <2>1 DEF LinesInv
  <1>3. Pattern0Inv /\ Pattern1Inv /\ CappedInv
    BY DEF BillInit, Pattern0Inv, Pattern1Inv, CappedInv
  <1> QED BY <1>1, <1>2, <1>3 DEF BillInv

(* Every step keeps it.                                                    *)
LEMMA BillInvNext ==
    ASSUME BillInv, [BillNext]_bill_vars
    PROVE  BillInv'
  <1>1. CASE UNCHANGED bill_vars
    <2>1. /\ stay' = stay /\ bill_pc' = bill_pc /\ periods' = periods /\ borrowed' = borrowed
          /\ first_day' = first_day /\ details' = details /\ fee' = fee
      BY <1>1 DEF bill_vars
    <2>2. CallInv' /\ LinesInv'
      BY <2>1 DEF BillInv, CallInv, LinesInv
    <2>3. Cap' = Cap /\ DaysParked' = DaysParked
      BY <2>1 DEF Cap, DaysParked
    <2>4. Pattern0Inv' /\ Pattern1Inv' /\ CappedInv'
      BY <2>1, <2>3 DEF BillInv, Pattern0Inv, Pattern1Inv, CappedInv
    <2> QED BY <2>2, <2>4 DEF BillInv
  <1>2. CASE ChargeByTime
    BY <1>2, ChargeByTimeKeeps
  <1>3. CASE CalChargeTooDays
    BY <1>3, CalChargeTooDaysKeeps
  <1>4. CASE NoChargeBill
    BY <1>4, NoChargeBillKeeps
  <1>5. CASE ChargeByTime0
    BY <1>5, ChargeByTime0Keeps
  <1>6. CASE SkipPeriod
    BY <1>6, SkipPeriodKeeps
  <1>7. CASE FreePeriod
    BY <1>7, FreePeriodKeeps
  <1>8. CASE ChargePeriod
    BY <1>8, ChargePeriodKeeps
  <1>9. CASE ChargeByTime1Returns
    BY <1>9, ChargeByTime1ReturnsKeeps
  <1> QED BY <1>1, <1>2, <1>3, <1>4, <1>5, <1>6, <1>7, <1>8, <1>9 DEF BillNext

(* The invariant holds throughout every call of ChargeByTime.              *)
THEOREM BillInvariant == BillSpec => []BillInv
  <1>1. BillInit => BillInv
    BY BillInvInit
  <1>2. BillInv /\ [BillNext]_bill_vars => BillInv'
    BY BillInvNext
  <1> QED BY <1>1, <1>2, PTL DEF BillSpec

(* The lines of the bill, one by one.                                      *)
LEMMA LinesAre ==
    ASSUME BillInv, NEW i \in DOMAIN details
    PROVE  /\ i \in 1 .. Len(details) /\ details[i] \in LineType(stay.table)
           /\ Sound(details[i], stay.table, stay.vehicle)
  BY DEF BillInv, LinesInv

(* Every variable of a call of ChargeByTime has its type, whatever the     *)
(* rules; when they are in order no minutes and no amount are negative.    *)
THEOREM TypeCorrect == BillSpec => []TypeOK
  <1>1. ASSUME BillInv PROVE TypeOK
    <2>1. ASSUME NEW d \in Lines
          PROVE  /\ d.fee \in Int /\ d.unbilled \in Nat
                 /\ d.valid \in TimeType /\ d.minutes \in TimeType
                 /\ Ordered(stay.table) => Covered(d, stay.vehicle)
      <3>1. d \in LineType(stay.table) /\ Sound(d, stay.table, stay.vehicle)
        BY <1>1, LinesAre DEF Lines
      <3> QED BY <3>1 DEF LineType, Sound
    <2>2. stay \in Stays
      BY <1>1 DEF BillInv, CallInv
    <2>3. stay.exit - stay.enter \in 0 .. MaxStay
      BY <2>2, StayIs
    <2>4. Orderly <=> Ordered(stay.table)
      BY DEF Orderly, Ordered
    <2>5. /\ bill_pc \in {"start", "pattern0", "pattern1", "done"}
          /\ borrowed \in Nat /\ first_day \in BOOLEAN /\ fee \in Int
          /\ Ordered(stay.table) => fee >= 0
      BY <1>1 DEF BillInv, CallInv
    <2>6. ASSUME Orderly
          PROVE  \A d \in Lines : /\ d.fee >= 0
                                  /\ d.valid.daylight >= 0 /\ d.valid.night >= 0
                                  /\ d.minutes.daylight >= 0 /\ d.minutes.night >= 0
      BY <2>1, <2>4, <2>6 DEF Covered
    <2>7. \A d \in Lines : /\ d.fee \in Int /\ d.unbilled \in Nat
                          /\ d.valid \in [daylight : Int, night : Int]
                          /\ d.minutes \in [daylight : Int, night : Int]
      BY <2>1 DEF TimeType
    <2> QED BY <2>3, <2>4, <2>5, <2>6, <2>7 DEF TypeOK
  <1> QED BY <1>1, BillInvariant, PTL

(* When the rules are in order, ValidTime1 (pattern 1) and                 *)
(* CalInvalidParkingTime (pattern 0) count exactly the ticks parked        *)
(* outside the free sections, in daylight and at night, wherever the stay  *)
(* lies: for any disjoint sections within a day.                           *)
THEOREM TimeIsExact == BillSpec => []ValidTimeExact
  <1>1. ASSUME BillInv PROVE ValidTimeExact
    <2> SUFFICES ASSUME Orderly, NEW i \in DOMAIN details, details[i] \in Charged,
                        stay.pattern = 1 \/ i \in {1, Len(details)},
                        NEW rule \in details[i].rule
                 PROVE  /\ details[i].valid.daylight =
                             Cardinality(ValidTicks(details[i], rule, TRUE))
                        /\ details[i].valid.night =
                             Cardinality(ValidTicks(details[i], rule, FALSE))
      BY DEF ValidTimeExact
    <2> DEFINE d == details[i]
               p == <<d.from, d.period[2]>>
    <2>1. i \in 1 .. Len(details)
      BY <1>1, LinesAre
    <2>2. Exact(d, stay.table)
      BY <1>1, <2>1 DEF BillInv, LinesInv
    <2>3. d.from < d.period[2] /\ Ordered(stay.table)
      BY DEF Charged, Orderly, Ordered
    <2> HIDE DEF d
    <2>4. Counted(d.valid, p, rule)
      BY <2>2, <2>3 DEF Exact, d
    <2>5. /\ ValidTicks(d, rule, TRUE) = ToPay(p, rule, TRUE)
          /\ ValidTicks(d, rule, FALSE) = ToPay(p, rule, FALSE)
      BY DEF ValidTicks, ToPay, Ticks
    <2> QED BY <2>4, <2>5 DEF Counted, d
  <1> QED BY <1>1, BillInvariant, PTL

(* BorrowTime and Borrow1: when the rules are in order the minutes charged *)
(* cover the valid ones and exceed them by less than a fee unit.           *)
THEOREM MinutesCover == BillSpec => []ChargedCoversValid
  <1>1. ASSUME BillInv PROVE ChargedCoversValid
    <2>1. ASSUME Orderly, NEW d \in Charged, NEW rule \in d.rule
          PROVE  Covers(d.minutes, d.valid, rule.fees[stay.vehicle])
      <3>1. Sound(d, stay.table, stay.vehicle) /\ Ordered(stay.table)
        BY <1>1, <2>1, LinesAre DEF Charged, Lines, Orderly, Ordered
      <3> QED BY <3>1 DEF Sound, Covered
    <2> QED BY <2>1 DEF ChargedCoversValid, Covers
  <1> QED BY <1>1, BillInvariant, PTL

(* Whichever the path through ChargeByTime and whatever the sections of    *)
(* the rules, the stay costs at most the cap of a rule of the table for    *)
(* every day parked.                                                       *)
THEOREM FeeIsCapped == BillSpec => []CappedPerDay
  <1>1. ASSUME BillInv PROVE CappedPerDay
    BY <1>1 DEF BillInv, CappedInv, CappedPerDay, DaysParked, Cap, CapOf
  <1> QED BY <1>1, BillInvariant, PTL
=============================================================================
