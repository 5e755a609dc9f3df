------------------------------- MODULE MCTally -------------------------------
(****************************************************************************)
(* Finish evaluated on every assignment of scores to a few people, some of  *)
(* whom have skipped, against reference definitions of its result.          *)
(****************************************************************************)
EXTENDS Tally

CONSTANTS People, VoteRange  \* who joined; the scores they may hold

ASSUME MCTallyAssumption == IsFiniteSet(People) /\ VoteRange \subseteq GoInt

\* Small votes, a negative one among them, and both ends of a scaled-down int.
Votes == {-HalfRange, -1, 0, 1, 2, 3, 5, HalfRange - 1}

VARIABLES score,    \* what each person holds when Finish is called
          skipped,  \* who typed "skip" and holds no vote
          result    \* what Finish returned

vars == <<score, skipped, result>>

Init ==
  /\ score \in [People -> VoteRange]
  /\ skipped \in SUBSET {id \in People : score[id] = 0}
  /\ result = NoResult

Next ==
  /\ result' = FinishResult(score)
  /\ UNCHANGED <<score, skipped>>

Spec == Init /\ [][Next]_vars

----------------------------------------------------------------------------
\* Reference for the loop of Finish: the announced final score is one that
\* somebody gave, no other score (0 of the non-voters included) was given more
\* often, and among the equally frequent ones it is the highest.
FinalIsHighestMode == result.final # 0 => HighestMode(score, result.final)

\* The message that goes with a final score, "Voting is finished because SP
\* difference is less than 3" (messages.go), is true: every two joined people
\* are within 2 points of each other, or so far apart that an int does not hold
\* the difference, which then comes out negative.
FinalMeansCloseVotes ==
  result.final > 0 =>
    LET spread == Max(Range(score)) - Min(Range(score))
    IN  spread < 3 \/ spread >= HalfRange

\* The average that StoppedMessage prints is that of the people who voted:
\* it lies between the lowest and the highest positive score, as long as nobody
\* typed a negative number, which the sum has and the count has not, or one so
\* high that the sum of all is no int.
AverageOfVoters ==
  LET votes == {score[id] : id \in Voted(score)}
  IN  result.voted # 0 /\ (\A id \in People : score[id] >= 0)
        /\ Cardinality(People) * Max(Range(score)) < HalfRange =>
        /\ result.voted * Min(votes) <= result.sum
        /\ result.sum <= result.voted * Max(votes)

\* "type "skip" to indicate that you are not joining estimation" (the greeting,
\* messages.go): the final score is the one the others alone would get.
SkippersDoNotDecide ==
  result # NoResult =>
    result.final = FinishResult(Restrict(score, People \ skipped)).final
==============================================================================
