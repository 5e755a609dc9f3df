----------------------------- MODULE TallyProofs -----------------------------
(****************************************************************************)
(* What Finish returns agrees with the reference definitions of MCTally,    *)
(* for any finite number of people and any scores an int holds.  The        *)
(* lemmas about the loops are those of VotingProofs.                        *)
(****************************************************************************)
EXTENDS MCTally, VotingProofs

----------------------------------------------------------------------------
\* The invariant: what Finish returned is the result for the scores people hold.
TallyInv ==
  /\ score \in [People -> GoInt]
  /\ result \in {NoResult, FinishResult(score)}

\* Finish is applied to the scores people hold and leaves them to be compared with.
LEMMA TallyInvariant == Spec => []TallyInv
<1>1. Init => TallyInv
  BY MCTallyAssumption DEF Init, TallyInv
<1>2. TallyInv /\ [Next]_vars => TallyInv'
  BY DEF TallyInv, Next, vars
<1> QED BY <1>1, <1>2, PTL DEF Spec

\* What a result with voters in it is.
LEMMA ResultFacts ==
  ASSUME TallyInv, result # NoResult
  PROVE  /\ People # {} /\ IsFiniteSet(People) /\ score \in [People -> GoInt]
         /\ Voted(score) # {}
         /\ result.sum = VoteSum(score)
         /\ result.voted = Cardinality(Voted(score))
         /\ result.final = IF SpreadBelow3(Scores(score)) THEN PickScore(Scores(score))
                           ELSE 0
<1>1. Voted(score) # {} /\ result = FinishResult(score)
  BY DEF TallyInv, FinishResult
<1>2. People # {}
  BY <1>1 DEF TallyInv, Voted
<1> QED BY <1>1, <1>2, MCTallyAssumption DEF TallyInv, FinishResult, Result

\* The loop of Finish (voting.go) picks the score that most people gave, and the
\* highest of the equally frequent ones, for any number of people and any scores.
THEOREM FinalScoreCorrect == Spec => []FinalIsHighestMode
<1>1. TallyInv => FinalIsHighestMode
  <2> SUFFICES ASSUME TallyInv, result.final # 0 PROVE HighestMode(score, result.final)
    BY DEF FinalIsHighestMode
  <2>1. result # NoResult
    BY DEF NoResult, Result
  <2>2. result.final = PickScore(Scores(score))
    BY <2>1, ResultFacts
  <2> QED BY <2>1, <2>2, ResultFacts, FinalScoreIsMode
<1> QED BY <1>1, TallyInvariant, PTL

\* "Voting is finished because SP difference is less than 3" (messages.go) is said
\* only when it is, or when the difference is more than an int holds.
THEOREM CloseVotesCorrect == Spec => []FinalMeansCloseVotes
<1>1. TallyInv => FinalMeansCloseVotes
  <2> SUFFICES ASSUME TallyInv, result.final > 0
               PROVE  LET spread == Max(Range(score)) - Min(Range(score))
                      IN  spread < 3 \/ spread >= HalfRange
    BY DEF FinalMeansCloseVotes
  <2>1. result # NoResult
    BY DEF NoResult, Result
  <2>2. SpreadBelow3(Scores(score))
    BY <2>1, ResultFacts
  <2> QED BY <2>1, <2>2, ResultFacts, SpreadOfFinal
<1> QED BY <1>1, TallyInvariant, PTL

\* The average that StoppedMessage prints is one of the people who voted, those
\* who did not left out, unless a negative score or an overflow is in the sum.
THEOREM AverageCorrect == Spec => []AverageOfVoters
<1>1. TallyInv => AverageOfVoters
  <2> DEFINE votes == {score[id] : id \in Voted(score)}
  <2> SUFFICES ASSUME TallyInv, result.voted # 0, \A id \in People : score[id] >= 0,
                      SumIsInt(Cardinality(People), Max(Range(score)))
               PROVE  Between(result.voted, Min(votes), Max(votes), result.sum)
    BY DEF AverageOfVoters, Between, SumIsInt
  <2>1. result # NoResult
    BY DEF NoResult, Result
  <2> QED BY <2>1, ResultFacts, SumOfVoters
<1> QED BY <1>1, TallyInvariant, PTL
==============================================================================
