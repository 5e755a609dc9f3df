-------------------------------- MODULE Tally --------------------------------
(****************************************************************************)
(* The arithmetic of Voting.Finish (pkg/estimation/voting.go): from the     *)
(* score each joined person holds to the scoreboard, the average and the    *)
(* final score.  Everything here is a pure operator; the Voting module      *)
(* applies it when a voting is finished.                                    *)
(*                                                                          *)
(* A score of 0 is how the code represents "has not voted": a person who    *)
(* joined, skipped or was reset holds 0 and is in the scoreboard all the    *)
(* same.  Names are abstracted to the ids of the people who bear them, and  *)
(* the average, a float32 quotient in the code, to its two operands.        *)
(****************************************************************************)
EXTENDS Integers, FiniteSets, SequencesExt

CONSTANT HalfRange  \* Go's int holds -HalfRange .. HalfRange - 1 (2^63 on amd64)

ASSUME HalfRangeAssumption == HalfRange \in Nat \ {0}

GoInt == -HalfRange .. HalfRange - 1

\* Two's complement wrap-around of an int result.
Wrap(n) == ((n + HalfRange) % (2 * HalfRange)) - HalfRange

----------------------------------------------------------------------------

\* The people who count as having voted; Status and Finish both test Score > 0.
Voted(score) == {id \in DOMAIN score : score[id] > 0}

\* VotingResult.Scores: each score held by someone, with the people holding it.
Scores(score) ==
  [s \in Range(score) |-> {id \in DOMAIN score : score[id] = s}]

VoteSum(score) == FoldFunction(LAMBDA s, sum : Wrap(sum + s), 0, score)

\* keys[len(keys)-1] - keys[0] < 3, computed on ints.
SpreadBelow3(scores) == Wrap(Max(DOMAIN scores) - Min(DOMAIN scores)) < 3

\* The loop over the keys, which sort.Ints has put in ascending order: the last
\* key taken is the highest.  A later (higher) key wins a tie.
PickScoreTieLow(scores) ==
  MapThenFoldSet(LAMBDA k, best : IF Cardinality(scores[k]) > best.count
                                  THEN [score |-> k, count |-> Cardinality(scores[k])]
                                  ELSE best,
                 [score |-> 0, count |-> 0],
                 LAMBDA k : k, LAMBDA keys : Max(keys), DOMAIN scores).score

PickScore(scores) ==
  MapThenFoldSet(LAMBDA k, best : IF Cardinality(scores[k]) >= best.count
                                  THEN [score |-> k, count |-> Cardinality(scores[k])]
                                  ELSE best,
                 [score |-> 0, count |-> 0],
                 LAMBDA k : k, LAMBDA keys : Max(keys), DOMAIN scores).score

\* A result of Finish; sum and voted are the operands of AvgScore.
Result(scores, sum, voted, final) ==
  [scores |-> scores, sum |-> sum, voted |-> voted, final |-> final]

\* What Finish returns when nobody voted: only the title is set.
NoResult == Result(<<>>, 0, 0, 0)

\* Mutants of FinishResult: the spread is not looked at; the average is over
\* everyone who joined.
FinishResultAlwaysFinal(score) ==
  IF Voted(score) = {} THEN NoResult
  ELSE LET scores == Scores(score)
       IN  Result(scores, VoteSum(score), Cardinality(Voted(score)), PickScore(scores))

FinishResultAvgOfAll(score) ==
  IF Voted(score) = {} THEN NoResult
  ELSE LET scores == Scores(score)
       IN  Result(scores, VoteSum(score), Cardinality(DOMAIN score),
                  IF SpreadBelow3(scores) THEN PickScore(scores) ELSE 0)

\* Voting.Finish up to the call of Reset.
FinishResult(score) ==
  IF Voted(score) = {} THEN NoResult
  ELSE LET scores == Scores(score)
       IN  Result(scores, VoteSum(score), Cardinality(Voted(score)),
                  IF SpreadBelow3(scores) THEN PickScore(scores) ELSE 0)

----------------------------------------------------------------------------
\* What a final score is supposed to be: a score that somebody gave, that no
\* other (the 0 of the non-voters included) was given more often than, and the
\* highest of the equally frequent ones.
Holders(score, s) == Cardinality({id \in DOMAIN score : score[id] = s})

HighestMode(score, final) ==
  /\ \E id \in DOMAIN score : score[id] = final
  /\ \A id \in DOMAIN score :
       \/ Holders(score, score[id]) < Holders(score, final)
       \/ Holders(score, score[id]) = Holders(score, final) /\ score[id] <= final
==============================================================================
