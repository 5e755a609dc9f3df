---------------------------- MODULE VotingProofs ----------------------------
(****************************************************************************)
(* The arithmetic of Finish, for any finite number of people and any scores *)
(* an int holds, and the invariants of a Voting object for any people,      *)
(* names, votes and clock.                                                  *)
(*                                                                          *)
(* The loops of Finish are folds, so what is said of them rests on          *)
(* induction over finite sets.  It is stated here with the set of those for *)
(* which a fact holds in place of a predicate, and derived from the         *)
(* well-foundedness of the natural numbers; and a recursive function over   *)
(* the subsets of a finite set is shown to exist before anything is said of *)
(* its values.                                                              *)
(*                                                                          *)
(* Of the Voting, type correctness comes first; ClosedIsBlank and           *)
(* TimestampsAgree are inductive relative to it, and SaidOnceStays needs    *)
(* ClosedIsBlank: a /stop that resets everybody can only be one of an open  *)
(* voting because a closed one holds no vote.                               *)
(****************************************************************************)
EXTENDS Voting, TLAPS, FiniteSetTheorems, WellFoundedInduction

----------------------------------------------------------------------------
\* Induction.

\* A set of numbers that is not empty has a least one.
LEMMA Minimum ==
  ASSUME NEW T \in SUBSET Nat, T # {}
  PROVE  \E n \in T : \A m \in T : n <= m
<1>1. IsWellFoundedOn(OpToRel(<, Nat), Nat)
  BY NatLessThanWellFounded
<1>2. PICK n \in T : \A m \in T : ~(<<m, n>> \in OpToRel(<, Nat))
  BY <1>1, WFMin
<1>3. \A m \in T : ~(m < n)
  BY <1>2 DEF OpToRel
<1> QED BY <1>3

\* A set of numbers that holds 0 and with each number the next holds them all.
LEMMA NumberInduction ==
  ASSUME NEW P, 0 \in P, \A n \in Nat : n \in P => n + 1 \in P
  PROVE  Nat \subseteq P
<1> SUFFICES ASSUME Nat \ P # {} PROVE FALSE
  OBVIOUS
<1>1. PICK n \in Nat \ P : \A m \in Nat \ P : n <= m
  BY Minimum
<1>2. n # 0 /\ n - 1 \in Nat /\ n - 1 \notin Nat \ P
  BY <1>1
<1>3. (n - 1) + 1 \in P
  BY <1>2
<1> QED BY <1>1, <1>3

\* A set that holds {} and, with what is left of a finite set without some
\* element, that finite set, holds every subset of S.
LEMMA SubsetInduction ==
  ASSUME NEW S, IsFiniteSet(S), NEW P, {} \in P,
         \A s \in SUBSET S : s # {} => \E x \in s : s \ {x} \in P => s \in P
  PROVE  \A s \in SUBSET S : s \in P
<1> DEFINE bad == {s \in SUBSET S : s \notin P}
           sizes == {Cardinality(s) : s \in bad}
<1> SUFFICES ASSUME bad # {} PROVE FALSE
  OBVIOUS
<1>1. \A s \in SUBSET S : IsFiniteSet(s) /\ Cardinality(s) \in Nat
  BY FS_Subset, FS_CardinalityType
<1>2. sizes \in SUBSET Nat /\ sizes # {}
  BY <1>1
<1>3. PICK n \in sizes : \A m \in sizes : n <= m
  BY <1>2, Minimum
<1>4. PICK s \in bad : Cardinality(s) = n
  BY <1>3
<1>5. PICK x \in s : s \ {x} \in P => s \in P
  BY <1>4
<1>6. s \ {x} \in bad
  BY <1>4, <1>5
<1>7. Cardinality(s \ {x}) = n - 1
  BY <1>1, <1>4, FS_RemoveElement
<1>8. n \in Nat /\ n - 1 \in sizes
  BY <1>2, <1>6, <1>7
<1> QED BY <1>3, <1>8

\* A function over the subsets of S is base of {} and follows from its value for
\* one picked element less.
Follows(f, S, base, pick, step) ==
  \A s \in SUBSET S :
    f[s] = IF s = {} THEN base ELSE step[<<pick[s], f[s \ {pick[s]}]>>]

\* When S is finite there is such a function.
LEMMA RecursionOverSubsets ==
  ASSUME NEW S, IsFiniteSet(S), NEW T, NEW base \in T,
         NEW pick, \A s \in SUBSET S : s # {} => pick[s] \in s,
         NEW step \in [S \X T -> T]
  PROVE  \E f \in [SUBSET S -> T] : Follows(f, S, base, pick, step)
<1> DEFINE Next1(f, s) == IF s = {} THEN base ELSE step[<<pick[s], f[s \ {pick[s]}]>>]
           Upto(f, n) == \A s \in SUBSET S : Cardinality(s) <= n => f[s] = Next1(f, s)
           P == {n \in Nat : \E f \in [SUBSET S -> T] : Upto(f, n)}
<1>1. \A s \in SUBSET S : IsFiniteSet(s) /\ Cardinality(s) \in Nat
  BY FS_Subset, FS_CardinalityType
<1>2. \A s \in SUBSET S : s # {} =>
        s \ {pick[s]} \in SUBSET S /\ Cardinality(s \ {pick[s]}) = Cardinality(s) - 1
  BY <1>1, FS_RemoveElement
<1>3. 0 \in P
  <2> DEFINE f == [s \in SUBSET S |-> base]
  <2>1. \A s \in SUBSET S : Cardinality(s) <= 0 => s = {}
    BY <1>1, FS_EmptySet
  <2>2. Upto(f, 0)
    BY <2>1
  <2>3. f \in [SUBSET S -> T]
    OBVIOUS
  <2> HIDE DEF f, Upto
  <2> QED BY <2>2, <2>3
<1>4. ASSUME NEW n \in Nat, n \in P PROVE n + 1 \in P
  <2>1. PICK f \in [SUBSET S -> T] : Upto(f, n)
    BY <1>4
  <2> DEFINE g == [s \in SUBSET S |-> IF Cardinality(s) <= n THEN f[s] ELSE Next1(f, s)]
  <2>2. g \in [SUBSET S -> T]
    <3>1. \A s \in SUBSET S : s # {} => step[<<pick[s], f[s \ {pick[s]}]>>] \in T
      BY <1>2
    <3> QED BY <3>1
  <2>3. ASSUME NEW s \in SUBSET S, Cardinality(s) <= n + 1 PROVE g[s] = Next1(f, s)
    BY <2>1, <2>3
  <2>4. ASSUME NEW s \in SUBSET S, Cardinality(s) <= n + 1, s # {}
        PROVE  g[s \ {pick[s]}] = f[s \ {pick[s]}]
    <3>1. Cardinality(s \ {pick[s]}) <= n
      BY <1>1, <1>2, <2>4
    <3> QED BY <1>2, <2>4, <3>1
  <2>5. Upto(g, n + 1)
    <3> HIDE DEF g
    <3> QED BY <2>3, <2>4
  <2> HIDE DEF g, Upto
  <2> QED BY <2>2, <2>5
<1>5. Cardinality(S) \in P
  <2> HIDE DEF P
  <2> QED BY <1>1, <1>3, <1>4, NumberInduction
<1>6. PICK f \in [SUBSET S -> T] : Upto(f, Cardinality(S))
  BY <1>5
<1>7. \A s \in SUBSET S : Cardinality(s) <= Cardinality(S)
  BY FS_Subset
<1> QED BY <1>6, <1>7 DEF Follows

----------------------------------------------------------------------------
\* The highest and the lowest of finitely many numbers.

\* Max and Min are what their names say.
LEMMA Extremes ==
  ASSUME NEW S \in SUBSET Int, IsFiniteSet(S), S # {}
  PROVE  /\ Max(S) \in S /\ \A n \in S : Max(S) >= n
         /\ Min(S) \in S /\ \A n \in S : Min(S) <= n
<1> DEFINE P == {s \in SUBSET S :
                   s # {} => /\ \E m \in s : \A n \in s : m >= n
                             /\ \E m \in s : \A n \in s : m <= n}
<1>1. {} \in P
  OBVIOUS
<1>2. ASSUME NEW s \in SUBSET S, s # {} PROVE \E x \in s : s \ {x} \in P => s \in P
  <2>1. PICK x \in s : TRUE
    BY <1>2
  <2> SUFFICES ASSUME s \ {x} \in P PROVE s \in P
    OBVIOUS
  <2>2. CASE s \ {x} = {}
    <3>1. s = {x}
      BY <2>1, <2>2
    <3> QED BY <3>1
  <2>3. CASE s \ {x} # {}
    <3>1. PICK m \in s \ {x} : \A n \in s \ {x} : m >= n
      BY <2>3
    <3>2. PICK l \in s \ {x} : \A n \in s \ {x} : l <= n
      BY <2>3
    <3>3. \E h \in s : \A n \in s : h >= n
      <4>1. CASE m >= x
        BY <3>1, <4>1
      <4>2. CASE x >= m
        BY <2>1, <3>1, <4>2
      <4> QED BY <2>1, <3>1, <4>1, <4>2
    <3>4. \E h \in s : \A n \in s : h <= n
      <4>1. CASE l <= x
        BY <3>2, <4>1
      <4>2. CASE x <= l
        BY <2>1, <3>2, <4>2
      <4> QED BY <2>1, <3>2, <4>1, <4>2
    <3> QED BY <3>3, <3>4
  <2> QED BY <2>2, <2>3
<1>3. S \in P
  <2> HIDE DEF P
  <2> QED BY <1>1, <1>2, SubsetInduction
<1> QED BY <1>3 DEF Max, Min

----------------------------------------------------------------------------
\* int arithmetic.

\* A result that an int holds is the one computed, and every result is an int.
LEMMA WrapFacts ==
  /\ \A n \in Int : Wrap(n) \in GoInt
  /\ \A n \in GoInt : Wrap(n) = n
<1>1. ASSUME NEW n \in Int PROVE Wrap(n) \in GoInt
  <2>1. (n + HalfRange) % (2 * HalfRange) \in 0 .. 2 * HalfRange - 1
    BY HalfRangeAssumption
  <2> QED BY <2>1, HalfRangeAssumption DEF Wrap, GoInt
<1>2. ASSUME NEW n \in GoInt PROVE Wrap(n) = n
  <2>1. n + HalfRange \in 0 .. 2 * HalfRange - 1
    BY HalfRangeAssumption DEF GoInt
  <2>2. (n + HalfRange) % (2 * HalfRange) = n + HalfRange
    BY <2>1, HalfRangeAssumption
  <2> QED BY <2>2, HalfRangeAssumption DEF Wrap, GoInt
<1> QED BY <1>1, <1>2

\* The difference of two ints, the first not the lower one, comes out right or
\* negative: negative exactly when an int does not hold it.
LEMMA SpreadFacts ==
  ASSUME NEW high \in GoInt, NEW low \in GoInt, high >= low
  PROVE  Wrap(high - low) = IF high - low < HalfRange
                            THEN high - low ELSE high - low - 2 * HalfRange
<1> DEFINE d == high - low
<1>1. d \in 0 .. 2 * HalfRange - 1
  BY HalfRangeAssumption DEF GoInt
<1>2. CASE d < HalfRange
  <2>1. d \in GoInt
    BY <1>1, <1>2, HalfRangeAssumption DEF GoInt
  <2> QED BY <1>2, <2>1, WrapFacts
<1>3. CASE d >= HalfRange
  <2> DEFINE e == d - HalfRange
  <2>1. e \in 0 .. 2 * HalfRange - 1
    BY <1>1, <1>3, HalfRangeAssumption
  <2>2. d + HalfRange = e + 2 * HalfRange
    BY <1>1, HalfRangeAssumption
  <2>3. (e + 2 * HalfRange) % (2 * HalfRange) = e
    BY <2>1, HalfRangeAssumption
  <2>4. Wrap(d) = e - HalfRange
    BY <2>2, <2>3 DEF Wrap
  <2> QED BY <1>1, <1>3, <2>4, HalfRangeAssumption
<1> QED BY <1>1, <1>2, <1>3, HalfRangeAssumption

----------------------------------------------------------------------------
\* The sum of the scores is taken one person after another: sum gives the sum
\* over each subset of them.
Sums(D, votes, sum) ==
  /\ VoteSum(votes) = sum[D]
  /\ sum[{}] = 0
  /\ \A s \in SUBSET D : s # {} =>
       \E id \in s : sum[s] = Wrap(sum[s \ {id}] + votes[id])

LEMMA SumStepByStep ==
  ASSUME NEW D, IsFiniteSet(D), NEW votes \in [D -> GoInt]
  PROVE  \E sum \in [SUBSET D -> GoInt] : Sums(D, votes, sum)
<1> DEFINE F(g) == [s \in SUBSET D |->
                      IF s = {} THEN 0
                      ELSE Wrap(g[s \ {CHOOSE x \in s : TRUE}] + votes[CHOOSE x \in s : TRUE])]
           iter == CHOOSE g : g = F(g)
           pick == [s \in SUBSET D |-> CHOOSE x \in s : TRUE]
           step == [p \in D \X GoInt |-> Wrap(p[2] + votes[p[1]])]
<1>1. \A s \in SUBSET D : s # {} => pick[s] \in s
  OBVIOUS
<1>2. 0 \in GoInt
  BY HalfRangeAssumption DEF GoInt
<1>3. \A m, n \in GoInt : m + n \in Int
  BY HalfRangeAssumption DEF GoInt
<1>4. step \in [D \X GoInt -> GoInt]
  BY <1>3, WrapFacts
<1>5. PICK f \in [SUBSET D -> GoInt] : Follows(f, D, 0, pick, step)
  <2> HIDE DEF pick, step
  <2> QED BY <1>1, <1>2, <1>4, RecursionOverSubsets
<1>6. f = F(f)
  <2>1. \A s \in SUBSET D : s # {} => <<pick[s], f[s \ {pick[s]}]>> \in D \X GoInt
    BY <1>1
  <2>2. \A s \in SUBSET D : s # {} =>
          step[<<pick[s], f[s \ {pick[s]}]>>] = Wrap(f[s \ {pick[s]}] + votes[pick[s]])
    BY <2>1
  <2>3. \A s \in SUBSET D : f[s] = F(f)[s]
    BY <1>5, <2>2 DEF Follows
  <2> QED BY <2>3
<1>7. iter = F(iter)
  <2> HIDE DEF F
  <2> QED BY <1>6, Zenon
<1>8. VoteSum(votes) = iter[D]
  BY DEF VoteSum, FoldFunction, FoldFunctionOnSet, MapThenFoldSet
<1> HIDE DEF iter
<1>9. /\ iter[{}] = 0
      /\ \A s \in SUBSET D : s # {} => iter[s] = Wrap(iter[s \ {pick[s]}] + votes[pick[s]])
  BY <1>7
<1>10. \A s \in SUBSET D : iter[s] \in GoInt
  <2> DEFINE P == {s \in SUBSET D : iter[s] \in GoInt}
  <2>1. {} \in P
    BY <1>2, <1>9
  <2>2. ASSUME NEW s \in SUBSET D, s # {} PROVE \E x \in s : s \ {x} \in P => s \in P
    <3>1. pick[s] \in s
      BY <1>1, <2>2
    <3>2. ASSUME s \ {pick[s]} \in P PROVE s \in P
      <4>1. iter[s \ {pick[s]}] \in GoInt /\ votes[pick[s]] \in GoInt
        BY <3>1, <3>2
      <4>2. iter[s \ {pick[s]}] + votes[pick[s]] \in Int
        BY <1>3, <4>1
      <4>3. iter[s] = Wrap(iter[s \ {pick[s]}] + votes[pick[s]])
        BY <1>9, <2>2
      <4>4. iter[s] \in GoInt
        BY <4>2, <4>3, WrapFacts
      <4> QED BY <4>4
    <3> QED BY <3>1, <3>2
  <2>3. \A s \in SUBSET D : s \in P
    <3> HIDE DEF P
    <3> QED BY <2>1, <2>2, SubsetInduction
  <2> QED BY <2>3
<1>11. iter \in [SUBSET D -> GoInt]
  BY <1>7, <1>10
<1> HIDE DEF pick
<1>12. \A s \in SUBSET D : s # {} =>
         \E id \in s : iter[s] = Wrap(iter[s \ {id}] + votes[id])
  BY <1>1, <1>9
<1> QED BY <1>8, <1>9, <1>11, <1>12 DEF Sums

\* The highest of the scores that most people gave, among the scores in keys.
Mode(scores, keys, best) ==
  /\ best.score \in keys
  /\ best.count = Cardinality(scores[best.score])
  /\ \A k \in keys : \/ Cardinality(scores[k]) < best.count
                     \/ Cardinality(scores[k]) = best.count /\ k <= best.score

\* The loop of Finish picks it.
LEMMA PickScoreIsMode ==
  ASSUME NEW K \in SUBSET Int, IsFiniteSet(K), K # {},
         NEW scores, DOMAIN scores = K, \A k \in K : IsFiniteSet(scores[k])
  PROVE  \E best \in [score : Int, count : Nat] :
           Mode(scores, K, best) /\ PickScore(scores) = best.score
<1> DEFINE T == [score : Int, count : Nat]
           base == [score |-> 0, count |-> 0]
           Better(k, b) == IF Cardinality(scores[k]) >= b.count
                           THEN [score |-> k, count |-> Cardinality(scores[k])] ELSE b
           F(g) == [s \in SUBSET K |->
                      IF s = {} THEN base ELSE Better(Max(s), g[s \ {Max(s)}])]
           iter == CHOOSE g : g = F(g)
           pick == [s \in SUBSET K |-> Max(s)]
           step == [p \in K \X T |-> Better(p[1], p[2])]
<1>1. \A s \in SUBSET K : s # {} => Max(s) \in s /\ \A n \in s : Max(s) >= n
  <2> SUFFICES ASSUME NEW s \in SUBSET K, s # {}
               PROVE  Max(s) \in s /\ \A n \in s : Max(s) >= n
    OBVIOUS
  <2>1. s \in SUBSET Int /\ IsFiniteSet(s)
    BY FS_Subset
  <2> QED BY <2>1, Extremes
<1>2. \A k \in K : Cardinality(scores[k]) \in Nat
  BY FS_CardinalityType
<1>3. \A k \in K, b \in T : Better(k, b) \in T
  BY <1>2
<1>4. step \in [K \X T -> T]
  <2> HIDE DEF Better, T
  <2> QED BY <1>3
<1>5. PICK f \in [SUBSET K -> T] : Follows(f, K, base, pick, step)
  <2>1. base \in T
    OBVIOUS
  <2>2. \A s \in SUBSET K : s # {} => pick[s] \in s
    BY <1>1
  <2> HIDE DEF pick, step, base, T
  <2> QED BY <1>4, <2>1, <2>2, RecursionOverSubsets
<1>6. f = F(f)
  <2> HIDE DEF Better, T, base
  <2>1. \A s \in SUBSET K : s # {} => <<Max(s), f[s \ {Max(s)}]>> \in K \X T
    BY <1>1
  <2>2. \A s \in SUBSET K : f[s] = F(f)[s]
    BY <1>5, <2>1 DEF Follows
  <2> QED BY <2>2
<1>7. iter = F(iter)
  <2> HIDE DEF F
  <2> QED BY <1>6, Zenon
<1>8. PickScore(scores) = iter[K].score
  BY DEF PickScore, MapThenFoldSet
<1> HIDE DEF iter
<1>9. /\ iter[{}] = base
      /\ \A s \in SUBSET K : s # {} => iter[s] = Better(Max(s), iter[s \ {Max(s)}])
  <2> HIDE DEF Better, base
  <2> QED BY <1>7
<1> DEFINE P == {s \in SUBSET K : iter[s] \in T /\ IF s = {} THEN iter[s] = base
                                                   ELSE Mode(scores, s, iter[s])}
<1>10. {} \in P
  BY <1>9
<1>11. ASSUME NEW s \in SUBSET K, s # {} PROVE \E x \in s : s \ {x} \in P => s \in P
  <2> DEFINE m == Max(s)
             r == s \ {m}
             c == Cardinality(scores[m])
             b == iter[r]
  <2>1. m \in s /\ (\A n \in s : m >= n) /\ iter[s] = Better(m, b)
    BY <1>1, <1>9, <1>11
  <2> HIDE DEF m
  <2> SUFFICES ASSUME r \in P PROVE s \in P
    BY <2>1
  <2>2. m \in Int /\ c \in Nat /\ b \in T
    BY <1>2, <2>1
  <2>3. iter[s] \in T
    BY <1>3, <2>1, <2>2
  <2>4. CASE r = {}
    <3>1. s = {m} /\ b = base
      BY <2>1, <2>4
    <3>2. iter[s] = [score |-> m, count |-> c]
      BY <2>1, <2>2, <3>1
    <3>3. Mode(scores, s, iter[s])
      BY <2>2, <3>1, <3>2 DEF Mode
    <3> QED BY <1>11, <2>3, <3>3
  <2>5. CASE r # {}
    <3>1. Mode(scores, r, b)
      BY <2>5
    <3>2. CASE c >= b.count
      <4>1. iter[s] = [score |-> m, count |-> c]
        BY <2>1, <3>2
      <4>2. ASSUME NEW k \in s
            PROVE  \/ Cardinality(scores[k]) < c
                   \/ Cardinality(scores[k]) = c /\ k <= m
        <5>1. CASE k = m
          BY <2>2, <5>1
        <5>2. CASE k # m
          <6>1. /\ k \in r /\ k \in Int /\ Cardinality(scores[k]) \in Nat /\ m >= k
                /\ \/ Cardinality(scores[k]) < b.count
                   \/ Cardinality(scores[k]) = b.count /\ k <= b.score
            BY <1>2, <2>1, <3>1, <5>2 DEF Mode
          <6>2. b.count \in Nat
            BY <2>2
          <6> QED BY <2>2, <3>2, <6>1, <6>2
        <5> QED BY <5>1, <5>2
      <4>3. Mode(scores, s, iter[s])
        <5>1. iter[s].score = m /\ iter[s].count = c
          BY <4>1
        <5> QED BY <2>1, <4>2, <5>1 DEF Mode
      <4> QED BY <1>11, <2>3, <4>3
    <3>3. CASE ~(c >= b.count)
      <4>1. iter[s] = b
        BY <2>1, <3>3
      <4>2. Mode(scores, s, iter[s])
        <5>1. c < b.count
          BY <2>2, <3>3
        <5>2. \A k \in s : k = m \/ k \in r
          BY <2>1
        <5> QED BY <2>1, <3>1, <4>1, <5>1, <5>2 DEF Mode
      <4> QED BY <1>11, <2>3, <4>2
    <3> QED BY <3>2, <3>3
  <2> QED BY <2>4, <2>5
<1>12. K \in P
  <2> HIDE DEF P
  <2>1. \A s \in SUBSET K : s # {} => \E x \in s : s \ {x} \in P => s \in P
    BY <1>11
  <2>2. \A s \in SUBSET K : s \in P
    <3> HIDE DEF F, T, base, Better
    <3> QED BY ONLY IsFiniteSet(K), <1>10, <2>1, SubsetInduction, Zenon
  <2>3. K \in SUBSET K
    OBVIOUS
  <2> QED BY <2>2, <2>3, Zenon
<1> QED BY <1>8, <1>12

----------------------------------------------------------------------------
\* What Finish is given: the scores held by finitely many people.

\* The scoreboard files everybody under the score they hold.
LEMMA ScoreboardFacts ==
  ASSUME NEW D, IsFiniteSet(D), D # {}, NEW votes \in [D -> GoInt]
  PROVE  /\ DOMAIN Scores(votes) = Range(votes)
         /\ Range(votes) \in SUBSET Int /\ Range(votes) \subseteq GoInt
         /\ IsFiniteSet(Range(votes)) /\ Range(votes) # {}
         /\ \A id \in D : votes[id] \in Range(votes)
         /\ \A s \in Range(votes) : \E id \in D : votes[id] = s
         /\ \A s \in Range(votes) : /\ Scores(votes)[s] = {id \in D : votes[id] = s}
                                    /\ IsFiniteSet(Scores(votes)[s])
<1>1. Range(votes) = {votes[id] : id \in D}
  BY DEF Range
<1>2. GoInt \subseteq Int
  BY HalfRangeAssumption DEF GoInt
<1>3. votes \in Surjection(D, Range(votes))
  BY <1>1 DEF Surjection
<1>4. IsFiniteSet(Range(votes))
  BY <1>3, FS_Surjection
<1>5. ASSUME NEW s \in Range(votes)
      PROVE  /\ Scores(votes)[s] = {id \in D : votes[id] = s}
             /\ IsFiniteSet(Scores(votes)[s])
  <2>1. Scores(votes)[s] = {id \in D : votes[id] = s}
    BY DEF Scores
  <2>2. {id \in D : votes[id] = s} \subseteq D
    OBVIOUS
  <2> QED BY <2>1, <2>2, FS_Subset
<1>6. DOMAIN Scores(votes) = Range(votes)
  BY DEF Scores
<1>7. /\ Range(votes) # {} /\ Range(votes) \subseteq GoInt
      /\ \A id \in D : votes[id] \in Range(votes)
      /\ \A s \in Range(votes) : \E id \in D : votes[id] = s
  BY <1>1
<1>8. Range(votes) \in SUBSET Int
  BY <1>2, <1>7
<1> QED BY <1>4, <1>5, <1>6, <1>7, <1>8

\* The loop over the scoreboard picks a score that someone gave, and that nobody
\* else's was given more often than.
LEMMA FinalScoreIsMode ==
  ASSUME NEW D, IsFiniteSet(D), D # {}, NEW votes \in [D -> GoInt]
  PROVE  HighestMode(votes, PickScore(Scores(votes)))
<1>1. PICK best \in [score : Int, count : Nat] :
        Mode(Scores(votes), Range(votes), best) /\ PickScore(Scores(votes)) = best.score
  BY ScoreboardFacts, PickScoreIsMode
<1>2. \A s \in Range(votes) : Cardinality(Scores(votes)[s]) = Holders(votes, s)
  <2> SUFFICES ASSUME NEW s \in Range(votes)
               PROVE  Cardinality(Scores(votes)[s]) = Holders(votes, s)
    OBVIOUS
  <2>1. Scores(votes)[s] = {id \in D : votes[id] = s}
    BY ScoreboardFacts
  <2>2. DOMAIN votes = D
    OBVIOUS
  <2> QED BY <2>1, <2>2 DEF Holders
<1>3. best.score \in Range(votes) /\ best.count = Holders(votes, best.score)
  BY <1>1, <1>2 DEF Mode
<1>4. ASSUME NEW id \in D
      PROVE  \/ Holders(votes, votes[id]) < best.count
             \/ Holders(votes, votes[id]) = best.count /\ votes[id] <= best.score
  <2>1. votes[id] \in Range(votes)
    BY ScoreboardFacts
  <2> QED BY <1>1, <1>2, <2>1 DEF Mode
<1>5. \E id \in D : votes[id] = best.score
  BY <1>3, ScoreboardFacts
<1> QED BY <1>1, <1>3, <1>4, <1>5 DEF HighestMode

\* Finish announces a final score only when the highest and the lowest score are
\* less than 3 apart, or more than an int holds.
LEMMA SpreadOfFinal ==
  ASSUME NEW D, IsFiniteSet(D), D # {}, NEW votes \in [D -> GoInt],
         SpreadBelow3(Scores(votes))
  PROVE  LET spread == Max(Range(votes)) - Min(Range(votes))
         IN  spread < 3 \/ spread >= HalfRange
<1> DEFINE high == Max(Range(votes))
           low == Min(Range(votes))
<1>1. /\ high \in Range(votes) /\ low \in Range(votes)
      /\ \A n \in Range(votes) : high >= n
  BY ScoreboardFacts, Extremes
<1>2. high \in GoInt /\ low \in GoInt /\ high >= low
  BY <1>1, ScoreboardFacts
<1>3. Wrap(high - low) < 3
  BY ScoreboardFacts DEF SpreadBelow3
<1> HIDE DEF high, low
<1>4. Wrap(high - low) = IF high - low < HalfRange
                         THEN high - low ELSE high - low - 2 * HalfRange
  BY <1>2, SpreadFacts
<1>5. high - low < 3 \/ high - low >= HalfRange
  <2>1. high - low \in Int
    BY <1>2, HalfRangeAssumption DEF GoInt
  <2> QED BY <1>3, <1>4, <2>1, HalfRangeAssumption
<1> QED BY <1>5 DEF high, low

\* c numbers between low and high have that sum.
Between(c, low, high, sum) == c * low <= sum /\ sum <= c * high

\* An int holds the sum of c numbers up to high.
SumIsInt(c, high) == c * high < HalfRange

\* One number more.
LEMMA OneMore ==
  ASSUME NEW c \in Nat, NEW low \in Nat, NEW high \in Nat,
         NEW sum \in Int, NEW n \in Int,
         Between(c, low, high, sum), low <= n, n <= high
  PROVE  Between(c + 1, low, high, sum + n)
<1>1. (c + 1) * low = c * low + low /\ (c + 1) * high = c * high + high
  OBVIOUS
<1>2. c * low \in Nat /\ c * high \in Nat
  OBVIOUS
<1> DEFINE a == c * low
           b == c * high
<1>3. a \in Nat /\ b \in Nat /\ a <= sum /\ sum <= b
  BY <1>2 DEF Between
<1>4. (c + 1) * low = a + low /\ (c + 1) * high = b + high
  BY <1>1
<1> HIDE DEF a, b
<1>5. a + low <= sum + n /\ sum + n <= b + high
  BY <1>3
<1> QED BY <1>4, <1>5 DEF Between

\* A sum of no more than c of them is an int too.
LEMMA FewerAreInt ==
  ASSUME NEW m \in Nat, NEW c \in Nat, m <= c, NEW low \in Nat, NEW high \in Nat,
         SumIsInt(c, high), NEW sum \in Int, Between(m, low, high, sum)
  PROVE  sum \in GoInt
<1>1. PICK k \in Nat : c = m + k
  <2>1. c - m \in Nat /\ c = m + (c - m)
    OBVIOUS
  <2> QED BY <2>1
<1>2. (m + k) * high = m * high + k * high
  OBVIOUS
<1>3. m * low \in Nat /\ m * high \in Nat /\ k * high \in Nat
  OBVIOUS
<1> DEFINE a == m * low
           b == m * high
           d == k * high
<1>4. a \in Nat /\ b \in Nat /\ d \in Nat /\ a <= sum /\ sum <= b /\ b + d < HalfRange
  BY <1>1, <1>2, <1>3 DEF Between, SumIsInt
<1> HIDE DEF a, b, d
<1> QED BY <1>4, HalfRangeAssumption DEF GoInt

\* The sum of scores that are 0 or between low and high, few and small enough
\* for an int, lies between the extremes taken as often as there are votes.
LEMMA SumBounds ==
  ASSUME NEW D, IsFiniteSet(D), NEW votes \in [D -> GoInt],
         NEW low \in Nat, NEW high \in Nat,
         \A id \in D : votes[id] >= 0 /\ votes[id] <= high,
         \A id \in Voted(votes) : low <= votes[id],
         SumIsInt(Cardinality(D), high)
  PROVE  Between(Cardinality(Voted(votes)), low, high, VoteSum(votes))
<1>1. PICK sum \in [SUBSET D -> GoInt] : Sums(D, votes, sum)
  BY SumStepByStep
<1> DEFINE V == Voted(votes)
           n(s) == Cardinality(s \cap V)
           P == {s \in SUBSET D : Between(n(s), low, high, sum[s])}
<1>2. V \subseteq D /\ \A id \in D : votes[id] \in Int /\ (id \notin V => votes[id] = 0)
  BY HalfRangeAssumption DEF Voted, GoInt
<1>3. ASSUME NEW s \in SUBSET D
      PROVE  n(s) \in Nat /\ n(s) <= Cardinality(D) /\ IsFiniteSet(s \cap V)
  BY FS_Subset, FS_CardinalityType
<1>4. {} \in P
  <2>1. n({}) = 0 /\ sum[{}] = 0
    BY <1>1, FS_EmptySet DEF Sums
  <2>2. 0 * low = 0 /\ 0 * high = 0
    OBVIOUS
  <2> QED BY <2>1, <2>2 DEF Between
<1>5. ASSUME NEW s \in SUBSET D, s # {} PROVE \E x \in s : s \ {x} \in P => s \in P
  <2>1. PICK id \in s : sum[s] = Wrap(sum[s \ {id}] + votes[id])
    BY <1>1, <1>5 DEF Sums
  <2> DEFINE r == s \ {id}
  <2> SUFFICES ASSUME r \in P PROVE s \in P
    OBVIOUS
  <2>2. Between(n(r), low, high, sum[r])
    OBVIOUS
  <2>3. sum[r] \in GoInt /\ sum[r] \in Int
    <3>1. sum[r] \in GoInt
      OBVIOUS
    <3> QED BY <3>1, HalfRangeAssumption DEF GoInt
  <2>4. CASE id \in V
    <3>1. n(s) = n(r) + 1
      <4>1. r \cap V = (s \cap V) \ {id} /\ id \in s \cap V
        BY <2>4
      <4>2. Cardinality((s \cap V) \ {id}) = Cardinality(s \cap V) - 1
        BY <1>3, <4>1, FS_RemoveElement
      <4>3. n(r) = n(s) - 1 /\ n(s) \in Nat
        BY <1>3, <4>1, <4>2
      <4> HIDE DEF n
      <4> QED BY <4>3
    <3>2. n(r) \in Nat /\ n(s) \in Nat /\ n(s) <= Cardinality(D)
      BY <1>3
    <3>3. votes[id] \in Int /\ low <= votes[id] /\ votes[id] <= high
      BY <1>2, <2>4
    <3>4. Between(n(s), low, high, sum[r] + votes[id])
      <4> HIDE DEF n, r
      <4> QED BY <2>2, <2>3, <3>1, <3>2, <3>3, OneMore
    <3>5. sum[r] + votes[id] \in GoInt
      <4>1. Cardinality(D) \in Nat /\ sum[r] + votes[id] \in Int
        BY <2>3, <3>3, FS_CardinalityType
      <4> HIDE DEF n, r
      <4> QED BY <3>2, <3>4, <4>1, FewerAreInt
    <3>6. sum[s] = sum[r] + votes[id]
      BY <2>1, <3>5, WrapFacts
    <3> QED BY <3>4, <3>6
  <2>5. CASE id \notin V
    <3>1. n(s) = n(r)
      <4>1. s \cap V = r \cap V
        BY <2>5
      <4> QED BY <4>1
    <3>2. sum[r] + votes[id] = sum[r]
      BY <1>2, <2>3, <2>5
    <3>3. sum[s] = sum[r]
      BY <2>1, <2>3, <3>2, WrapFacts
    <3> QED BY <2>2, <3>1, <3>3
  <2> QED BY <2>4, <2>5
<1>6. D \in P
  <2>1. \A s \in SUBSET D : s \in P
    <3> HIDE DEF P
    <3> QED BY ONLY IsFiniteSet(D), <1>4, <1>5, SubsetInduction, Zenon
  <2> HIDE DEF P
  <2> QED BY <2>1
<1>7. D \cap V = V
  BY <1>2
<1>8. Between(n(D), low, high, sum[D])
  BY <1>6
<1> QED BY <1>1, <1>7, <1>8 DEF Sums

\* The average of Finish: scores of 0 do not count, and when an int holds the sum
\* it lies between the lowest and the highest of the others.
LEMMA SumOfVoters ==
  ASSUME NEW D, IsFiniteSet(D), NEW votes \in [D -> GoInt], Voted(votes) # {},
         \A id \in D : votes[id] >= 0,
         SumIsInt(Cardinality(D), Max(Range(votes)))
  PROVE  LET given == {votes[id] : id \in Voted(votes)}
         IN  Between(Cardinality(Voted(votes)), Min(given), Max(given), VoteSum(votes))
<1> DEFINE given == {votes[id] : id \in Voted(votes)}
           low == Min(given)
           high == Max(given)
<1>1. Voted(votes) \subseteq D /\ \A id \in D : votes[id] \in Int
  BY HalfRangeAssumption DEF Voted, GoInt
<1>2. given \in SUBSET Int /\ given \subseteq Range(votes) /\ given # {}
  <2>1. given \in SUBSET Int
    BY <1>1
  <2>2. given \subseteq Range(votes)
    BY <1>1 DEF Range
  <2> QED BY <2>1, <2>2
<1>3. IsFiniteSet(Range(votes)) /\ IsFiniteSet(given) /\ D # {}
  <2>1. D # {}
    BY <1>1
  <2>2. IsFiniteSet(Range(votes))
    BY <2>1, ScoreboardFacts
  <2> HIDE DEF given
  <2> QED BY <1>2, <2>1, <2>2, FS_Subset
<1>4. /\ high \in given /\ \A n \in given : high >= n
      /\ low \in given /\ \A n \in given : low <= n
  <2> HIDE DEF given
  <2> QED BY <1>2, <1>3, Extremes
<1> HIDE DEF low, high
<1>5. low \in Nat /\ high \in Nat /\ \A n \in given : n > 0 /\ n \in Int
  <2>1. \A n \in given : n > 0 /\ n \in Int
    BY <1>1 DEF Voted
  <2> QED BY <1>4, <2>1
<1>6. \A id \in D : votes[id] >= 0 /\ votes[id] <= high
  <2> SUFFICES ASSUME NEW id \in D PROVE votes[id] <= high
    OBVIOUS
  <2>1. CASE id \in Voted(votes)
    BY <1>1, <1>4, <1>5, <2>1
  <2>2. CASE id \notin Voted(votes)
    BY <1>1, <1>5, <2>2 DEF Voted
  <2> QED BY <2>1, <2>2
<1>7. \A id \in Voted(votes) : low <= votes[id]
  BY <1>4
<1>8. Max(Range(votes)) = high
  <2>1. /\ Max(Range(votes)) \in Range(votes)
        /\ \A n \in Range(votes) : Max(Range(votes)) >= n
    BY <1>3, ScoreboardFacts, Extremes
  <2>2. PICK id \in D : votes[id] = Max(Range(votes))
    BY <2>1, <1>3, ScoreboardFacts
  <2>3. high \in Range(votes)
    BY <1>2, <1>4
  <2>4. Max(Range(votes)) <= high /\ Max(Range(votes)) \in Int
    BY <1>1, <1>6, <2>2
  <2> QED BY <1>5, <2>1, <2>3, <2>4
<1>9. Between(Cardinality(Voted(votes)), low, high, VoteSum(votes))
  BY <1>5, <1>6, <1>7, <1>8, SumBounds
<1> QED BY <1>9 DEF low, high

----------------------------------------------------------------------------
\* A person who has just joined, or was reset, is a Person.
LEMMA NewPersonType == \A name \in Names : NewPerson(name) \in Person
  BY HalfRangeAssumption DEF NewPerson, Person, GoInt

\* The ids, the records and the two timestamps stay in their types, and the
\* timestamps never run ahead of the clock.
LEMMA TypeInit == VotingInit => VotingTypeOK
<1>1. SUFFICES ASSUME VotingInit PROVE VotingTypeOK
  OBVIOUS
<1>2. DOMAIN people = {}
  BY <1>1 DEF VotingInit
<1>3. people \in [Joined -> Person]
  BY <1>1, <1>2 DEF VotingInit, Joined
<1> QED BY <1>1, <1>2, <1>3, VotingAssumption DEF VotingInit, VotingTypeOK, Joined

\* Every method of a Voting keeps the types.
LEMMA TypeStep == VotingTypeOK /\ [VotingNext]_votingVars => VotingTypeOK'
<1> SUFFICES ASSUME VotingTypeOK, [VotingNext]_votingVars PROVE VotingTypeOK'
  OBVIOUS
<1> USE DEF VotingTypeOK, Joined
<1>1. ASSUME NEW id \in Ids, NEW name \in Names, AddPerson(id, name)
      PROVE  VotingTypeOK'
  BY <1>1, NewPersonType DEF AddPerson
<1>2. ASSUME NEW id \in Ids, RemovePerson(id) PROVE VotingTypeOK'
  BY <1>2 DEF RemovePerson
<1>3. ASSUME NEW id \in Ids, Skipped(id) PROVE VotingTypeOK'
  <2>1. CASE UNCHANGED votingVars
    BY <2>1 DEF votingVars
  <2>2. CASE ~UNCHANGED votingVars
    <3>1. /\ id \in Joined
          /\ people' = [people EXCEPT ![id].skipped = TRUE]
          /\ updatedAt' = now /\ createdAt' = createdAt /\ now' = now
      BY <1>3, <2>2 DEF Skipped
    <3>2. [people[id] EXCEPT !.skipped = TRUE] \in Person
      BY <3>1 DEF Person
    <3>3. people' = [people EXCEPT ![id] = [people[id] EXCEPT !.skipped = TRUE]]
      BY <3>1
    <3> QED BY <3>1, <3>2, <3>3
  <2> QED BY <2>1, <2>2
<1>4. ASSUME NEW id \in Ids, Ready(id) PROVE VotingTypeOK'
  BY <1>4 DEF Ready, Person
<1>5. ASSUME NEW id \in Ids, AskedForRecap(id) PROVE VotingTypeOK'
  BY <1>5 DEF AskedForRecap, Person
<1>6. ASSUME NEW id \in Ids, NEW vote \in GoInt, AddVote(id, vote)
      PROVE  VotingTypeOK'
  BY <1>6 DEF AddVote, votingVars, Person
<1>7. CASE NewVoting
  BY <1>7 DEF NewVoting
<1>8. CASE Finish
  <2>1. CASE UNCHANGED votingVars
    BY <2>1 DEF votingVars
  <2>2. CASE ~UNCHANGED votingVars
    <3>1. /\ people' = [id \in Joined |-> NewPerson(people[id].name)]
          /\ createdAt' = 0 /\ updatedAt' = 0 /\ now' = now
      BY <1>8, <2>2 DEF Finish, Reset
    <3>2. \A id \in Joined : people[id].name \in Names
      BY DEF Person
    <3> QED BY <3>1, <3>2, NewPersonType
  <2> QED BY <2>1, <2>2
<1>9. CASE ClockTick
  BY <1>9, VotingAssumption DEF ClockTick, voting
<1>10. CASE UNCHANGED votingVars
  BY <1>10 DEF votingVars
<1> QED BY <1>1, <1>2, <1>3, <1>4, <1>5, <1>6, <1>7, <1>8, <1>9, <1>10 DEF VotingNext

\* The types hold for ever.
THEOREM VotingTypeCorrect == VotingSpec => []VotingTypeOK
  BY TypeInit, TypeStep, PTL DEF VotingSpec

----------------------------------------------------------------------------
\* The inductive invariant of the safety theorems.
VotingInv == VotingTypeOK /\ ClosedIsBlank /\ TimestampsAgree

LEMMA InvInit == VotingInit => VotingInv
  BY TypeInit DEF VotingInit, VotingInv, ClosedIsBlank, TimestampsAgree, IsStarted, VotingTypeOK

LEMMA InvStep == VotingInv /\ [VotingNext]_votingVars => VotingInv'
<1> SUFFICES ASSUME VotingInv, [VotingNext]_votingVars PROVE VotingInv'
  OBVIOUS
<1>0. VotingTypeOK'
  BY TypeStep DEF VotingInv
<1> USE DEF VotingInv, VotingTypeOK, ClosedIsBlank, TimestampsAgree, IsStarted, Joined
<1>1. ASSUME NEW id \in Ids, NEW name \in Names, AddPerson(id, name)
      PROVE  ClosedIsBlank' /\ TimestampsAgree'
  BY <1>1 DEF AddPerson, NewPerson
<1>2. ASSUME NEW id \in Ids, RemovePerson(id) PROVE ClosedIsBlank' /\ TimestampsAgree'
  BY <1>2 DEF RemovePerson
<1>3. ASSUME NEW id \in Ids, Skipped(id) PROVE ClosedIsBlank' /\ TimestampsAgree'
  BY <1>3 DEF Skipped, votingVars
<1>4. ASSUME NEW id \in Ids, Ready(id) PROVE ClosedIsBlank' /\ TimestampsAgree'
  BY <1>4 DEF Ready, Person
<1>5. ASSUME NEW id \in Ids, AskedForRecap(id) PROVE ClosedIsBlank' /\ TimestampsAgree'
  BY <1>5 DEF AskedForRecap, Person
<1>6. ASSUME NEW id \in Ids, NEW vote \in GoInt, AddVote(id, vote)
      PROVE  ClosedIsBlank' /\ TimestampsAgree'
  BY <1>6 DEF AddVote, votingVars
<1>7. CASE NewVoting
  BY <1>0, <1>7 DEF NewVoting
<1>8. CASE Finish
  <2>1. CASE UNCHANGED votingVars
    BY <1>0, <2>1 DEF votingVars
  <2>2. CASE ~UNCHANGED votingVars
    <3>1. /\ people' = [id \in Joined |-> NewPerson(people[id].name)]
          /\ createdAt' = 0 /\ updatedAt' = 0
      BY <1>8, <2>2 DEF Finish, Reset
    <3>2. \A id \in DOMAIN people' : people'[id].score = 0 /\ people'[id].skipped = FALSE
      BY <3>1 DEF NewPerson
    <3> QED BY <1>0, <3>1, <3>2
  <2> QED BY <2>1, <2>2
<1>9. CASE ClockTick
  <2>1. people' = people /\ createdAt' = createdAt /\ updatedAt' = updatedAt
    BY <1>9 DEF ClockTick, voting
  <2> QED BY <1>0, <2>1
<1>10. CASE UNCHANGED votingVars
  BY <1>0, <1>10 DEF votingVars
<1> QED BY <1>0, <1>1, <1>2, <1>3, <1>4, <1>5, <1>6, <1>7, <1>8, <1>9, <1>10 DEF VotingNext

\* A closed voting holds no vote and no skip mark: nothing carries over into
\* the next one.
THEOREM ClosedVotingIsBlank == VotingSpec => []ClosedIsBlank
  BY InvInit, InvStep, PTL DEF VotingSpec, VotingInv

\* The two timestamps are both 0 or in order.
THEOREM TimestampsStayInOrder == VotingSpec => []TimestampsAgree
  BY InvInit, InvStep, PTL DEF VotingSpec, VotingInv

----------------------------------------------------------------------------
\* What SaidOnceStays says of one person in one step.
Stays(id) ==
  LET p == people[id]
      q == people'[id]
  IN  /\ q.name = p.name
      /\ p.skipped => q.skipped
      /\ p.ready => q.ready
      /\ p.recap => q.recap
      /\ q.score # p.score => updatedAt' = now

StaysOrFinished(id) == (IsStarted /\ ~IsStarted') \/ Stays(id)

\* No method takes back what a person said, except the /stop of an open voting.
LEMMA StaysStep ==
  ASSUME VotingInv, [VotingNext]_votingVars, NEW p \in Joined \cap DOMAIN people'
  PROVE  StaysOrFinished(p)
<1> USE DEF VotingInv, VotingTypeOK, Joined, StaysOrFinished, Stays
<1>1. ASSUME NEW id \in Ids, NEW name \in Names, AddPerson(id, name)
      PROVE  Stays(p)
  BY <1>1 DEF AddPerson
<1>2. ASSUME NEW id \in Ids, RemovePerson(id) PROVE Stays(p)
  BY <1>2 DEF RemovePerson
<1>3. ASSUME NEW id \in Ids, Skipped(id) PROVE Stays(p)
  BY <1>3 DEF Skipped, votingVars, Person
<1>4. ASSUME NEW id \in Ids, Ready(id) PROVE Stays(p)
  BY <1>4 DEF Ready, Person
<1>5. ASSUME NEW id \in Ids, AskedForRecap(id) PROVE Stays(p)
  BY <1>5 DEF AskedForRecap, Person
<1>6. ASSUME NEW id \in Ids, NEW vote \in GoInt, AddVote(id, vote) PROVE Stays(p)
  BY <1>6 DEF AddVote, votingVars, Person
<1>7. CASE NewVoting
  BY <1>7 DEF NewVoting
<1>8. CASE Finish
  <2>1. CASE Voted(ScoreOf) = {}
    BY <1>8, <2>1 DEF Finish, votingVars
  <2>2. CASE Voted(ScoreOf) # {}
    <3>1. PICK v \in Joined : people[v].score > 0
      BY <2>2 DEF Voted, ScoreOf
    <3>2. IsStarted
      BY <3>1 DEF ClosedIsBlank
    <3>3. ~IsStarted'
      BY <1>8, <2>2 DEF Finish, Reset, IsStarted
    <3> QED BY <3>2, <3>3
  <2> QED BY <2>1, <2>2
<1>9. CASE ClockTick
  BY <1>9 DEF ClockTick, voting
<1>10. CASE UNCHANGED votingVars
  BY <1>10 DEF votingVars
<1> QED BY <1>1, <1>2, <1>3, <1>4, <1>5, <1>6, <1>7, <1>8, <1>9, <1>10 DEF VotingNext

\* What a person said stands until that person leaves or the open voting is
\* finished.
THEOREM WhatIsSaidStays == VotingSpec => SaidOnceStays
<1>1. VotingInv /\ [VotingNext]_votingVars =>
        [\A id \in Joined \cap DOMAIN people' :
           LET p == people[id]
               q == people'[id]
           IN  \/ IsStarted /\ ~IsStarted'
               \/ /\ q.name = p.name
                  /\ p.skipped => q.skipped
                  /\ p.ready => q.ready
                  /\ p.recap => q.recap
                  /\ q.score # p.score => updatedAt' = now]_votingVars
  BY StaysStep DEF StaysOrFinished, Stays
<1> QED BY <1>1, InvInit, InvStep, PTL DEF VotingSpec, SaidOnceStays
==============================================================================
