-------------------------- MODULE CommandLoopProofs --------------------------
(****************************************************************************)
(* The command goroutine, for any people, names, numbers and clock: it      *)
(* touches the voting through its methods only, so what VotingProofs shows  *)
(* of a Voting holds of the one in the goroutine; no vote or skip escapes   *)
(* the status reports; what is announced is true when it gets out; and a    *)
(* final score is the one most people held.                                 *)
(*                                                                          *)
(* NoLostUpdate alone is not inductive.  A report ends by setting           *)
(* lastUpdate to a clock that has moved while the send was blocked, which   *)
(* is harmless only because nothing can be unreported at that moment: the   *)
(* goroutine takes no command while it sends.  Hence ReportCoversAll.  For  *)
(* the same reason nothing that was counted can change before the count is  *)
(* delivered, however long a send is blocked.                               *)
(****************************************************************************)
EXTENDS CommandLoop, VotingProofs, SequenceTheorems

\* Whatever Atoi returns is an int.
LEMMA TextIsInt == \A text \in Texts : text.est \in GoInt
  BY HalfRangeAssumption, CommandLoopAssumption DEF Texts, Text, GoInt

\* Every step of the goroutine is a method call on the voting, the clock, or
\* leaves the voting alone.
LEMMA StepIsMethod == [Next]_vars => [VotingNext]_votingVars
<1> SUFFICES ASSUME [Next]_vars PROVE [VotingNext]_votingVars
  OBVIOUS
<1> USE DEF VotingNext
<1>1. ASSUME NEW id \in Ids, NEW name \in Names, RosterAdd(id, name)
      PROVE  VotingNext
  BY <1>1 DEF RosterAdd
<1>2. ASSUME NEW id \in Ids, RosterRemove(id) PROVE VotingNext
  BY <1>2 DEF RosterRemove
<1>3. ASSUME NEW id \in Ids, ChatSkip(id) PROVE VotingNext
  BY <1>3 DEF ChatSkip
<1>4. ASSUME NEW id \in Ids, ChatUnknown(id) PROVE UNCHANGED votingVars
  BY <1>4 DEF ChatUnknown
<1>5. ASSUME NEW id \in Ids, ChatReady(id) PROVE VotingNext
  BY <1>5 DEF ChatReady
<1>6. ASSUME NEW id \in Ids, ChatRecap(id) PROVE VotingNext
  BY <1>6 DEF ChatRecap
<1>7. ASSUME NEW id \in Ids, NEW text \in Texts, ChatVote(id, text) PROVE VotingNext
  BY <1>7, TextIsInt DEF ChatVote
<1>8. CASE ChatStart
  BY <1>8 DEF ChatStart
<1>9. CASE ChatStop
  BY <1>9 DEF ChatStop
<1>10. CASE TimerStatus
  BY <1>10 DEF TimerStatus
<1>11. CASE Deliver
  BY <1>11 DEF Deliver
<1>12. CASE SecondPasses
  BY <1>12 DEF SecondPasses
<1>13. CASE UNCHANGED vars
  BY <1>13 DEF vars
<1> QED
  BY <1>1, <1>2, <1>3, <1>4, <1>5, <1>6, <1>7, <1>8, <1>9, <1>10, <1>11, <1>12, <1>13
  DEF Next, Command

\* The command goroutine implements a Voting: it changes the object through the
\* exported methods only, one at a time.
THEOREM LoopImplementsVoting == Spec => VotingSpec
<1>1. Init => VotingInit
  BY DEF Init
<1> QED BY <1>1, StepIsMethod, PTL DEF Spec, VotingSpec

----------------------------------------------------------------------------
\* While a status report waits to be sent there is nothing else to report.
ReportCoversAll == pc = "reporting" => ~unreported

ReportInv ==
  /\ lastUpdate \in 1..now
  /\ unreported \in BOOLEAN
  /\ ReportCoversAll
  /\ NoLostUpdate

LEMMA ReportInit == Init => ReportInv
<1> SUFFICES ASSUME Init PROVE ReportInv
  OBVIOUS
<1>1. lastUpdate \in 1..now
  BY DEF Init, VotingInit
<1>2. unreported = FALSE
  BY DEF Init
<1> QED BY <1>1, <1>2 DEF ReportInv, ReportCoversAll, NoLostUpdate

LEMMA ReportStep == VotingTypeOK /\ ReportInv /\ [Next]_vars => ReportInv'
<1> SUFFICES ASSUME VotingTypeOK, ReportInv, [Next]_vars PROVE ReportInv'
  OBVIOUS
<1> USE DEF VotingTypeOK, ReportInv, ReportCoversAll, NoLostUpdate, HasUpdates, IsStarted
<1>r. ASSUME NEW msgs, Reply(msgs)
      PROVE  lastUpdate' = lastUpdate /\ pc' \in {"idle", "replying"}
  BY <1>r DEF Reply
<1>f. ASSUME unreported' = FALSE, lastUpdate' \in 1..now'
      PROVE  ReportInv'
  BY <1>f
<1>1. ASSUME NEW id \in Ids, NEW name \in Names, RosterAdd(id, name)
      PROVE  ReportInv'
  <2>1. lastUpdate' = lastUpdate /\ pc' # "reporting" /\ unreported' = unreported
    BY <1>1, <1>r DEF RosterAdd, NoReply
  <2>2. createdAt' = createdAt /\ updatedAt' = updatedAt /\ now' = now
    BY <1>1 DEF RosterAdd, AddPerson
  <2> QED BY <2>1, <2>2
<1>2. ASSUME NEW id \in Ids, RosterRemove(id) PROVE ReportInv'
  BY <1>2, <1>r DEF RosterRemove, RemovePerson, NoReply
<1>3. ASSUME NEW id \in Ids, ChatSkip(id) PROVE ReportInv'
  <2>1. lastUpdate' = lastUpdate /\ pc' # "reporting"
    BY <1>3, <1>r DEF ChatSkip, NoReply
  <2>2. unreported' = (unreported \/ (IsStarted /\ id \in Joined)) /\ Skipped(id)
    BY <1>3 DEF ChatSkip
  <2> QED BY <2>1, <2>2 DEF Skipped, votingVars
<1>4. ASSUME NEW id \in Ids, ChatUnknown(id) PROVE ReportInv'
  BY <1>4, <1>r DEF ChatUnknown, votingVars
<1>5. ASSUME NEW id \in Ids, ChatReady(id) PROVE ReportInv'
  BY <1>5, <1>r DEF ChatReady, Ready
<1>6. ASSUME NEW id \in Ids, ChatRecap(id) PROVE ReportInv'
  BY <1>6, <1>r DEF ChatRecap, AskedForRecap
<1>7. ASSUME NEW id \in Ids, NEW text \in Texts, ChatVote(id, text) PROVE ReportInv'
  <2>1. lastUpdate' = lastUpdate /\ pc' # "reporting"
    BY <1>7, <1>r DEF ChatVote, NoReply
  <2>2. unreported' = (unreported \/ (IsStarted /\ id \in Joined)) /\ AddVote(id, text.est)
    BY <1>7 DEF ChatVote
  <2> QED BY <2>1, <2>2 DEF AddVote, votingVars
<1>8. CASE ChatStart
  BY <1>8, <1>r DEF ChatStart, NewVoting
<1>9. CASE ChatStop
  <2>1. lastUpdate' = lastUpdate /\ pc' # "reporting"
    BY <1>9, <1>r DEF ChatStop
  <2>2. unreported' = (unreported /\ createdAt' > 0) /\ Finish
    BY <1>9 DEF ChatStop
  <2>3. CASE createdAt' = 0 /\ now' = now
    <3>1. ~(createdAt' > 0)
      BY <2>3
    <3>2. unreported' = FALSE
      BY <2>2, <3>1, Zenon
    <3> QED BY <1>f, <2>1, <2>3, <3>2
  <2>4. CASE UNCHANGED votingVars
    BY <2>1, <2>2, <2>4 DEF votingVars
  <2> QED BY <2>2, <2>3, <2>4 DEF Finish, Reset
<1>10. CASE TimerStatus
  <2>1. createdAt' = createdAt /\ updatedAt' = updatedAt /\ now' = now
    BY <1>10 DEF TimerStatus, votingVars
  <2>2. CASE unreported' = FALSE /\ lastUpdate' \in {lastUpdate, now}
    <3>1. lastUpdate' \in 1..now'
      BY <2>1, <2>2
    <3> QED BY <1>f, <2>2, <3>1, Zenon
  <2>3. CASE UNCHANGED <<outbox, pc, lastUpdate, unreported>>
    BY <2>1, <2>3
  <2> QED BY <1>10, <2>2, <2>3 DEF TimerStatus
<1>11. CASE Deliver
  BY <1>11 DEF Deliver, votingVars
<1>12. CASE SecondPasses
  BY <1>12 DEF SecondPasses, ClockTick, voting, loopVars
<1>13. CASE UNCHANGED vars
  BY <1>13 DEF vars, votingVars, loopVars
<1> QED
  BY <1>1, <1>2, <1>3, <1>4, <1>5, <1>6, <1>7, <1>8, <1>9, <1>10, <1>11, <1>12, <1>13
  DEF Next, Command

\* Until a report has counted a vote or a skip, the next tick finds updates to
\* report, however the seconds fall and however long a send is blocked.
THEOREM NoUpdateIsLost == Spec => []NoLostUpdate
<1>1. Spec => []VotingTypeOK
  BY LoopImplementsVoting, VotingTypeCorrect, PTL
<1> QED BY <1>1, ReportInit, ReportStep, PTL DEF Spec, ReportInv

----------------------------------------------------------------------------
\* A reply agrees with the state of the voting.
Fits(m, started, status, ready, recap, joined, voted) ==
  /\ m.to \in Ids \cup {Everyone}
  /\ m.kind = "status" => started /\ m.n = status
  /\ m.kind = "ready" => m.n = ready
  /\ m.kind = "recap" => m.n = recap
  /\ m.kind = "started" => started
  /\ m.kind = "greeting" => started /\ m.to \in joined
  /\ m.kind = "stopped" => ~started \/ voted = {}
  /\ m.kind \in {"estimated", "final"} => ~started

Voters == Voted(ScoreOf)

OutboxFits ==
  \A i \in DOMAIN outbox :
    Fits(outbox[i], IsStarted, Status, ReadyCount, RecapCount, Joined, Voters)

AnnouncementInv ==
  /\ IsFiniteSet(Joined)
  /\ pc \in {"idle", "replying", "reporting"}
  /\ pc = "idle" <=> outbox = <<>>
  /\ outbox \in Seq({outbox[i] : i \in DOMAIN outbox})
  /\ OutboxFits

\* What blocking in the sends of some replies establishes.
LEMMA ReplyFacts ==
  ASSUME NEW msgs, NEW S, msgs \in Seq(S), Reply(msgs)
  PROVE  /\ outbox' = msgs
         /\ pc' \in {"idle", "replying", "reporting"}
         /\ pc' = "idle" <=> outbox' = <<>>
         /\ outbox' \in Seq({outbox'[i] : i \in DOMAIN outbox'})
<1>1. outbox' = msgs
  BY DEF Reply
<1>2. msgs \in Seq({msgs[i] : i \in DOMAIN msgs})
  OBVIOUS
<1> QED BY <1>1, <1>2 DEF Reply

LEMMA NoReplyFacts ==
  ASSUME NoReply
  PROVE  /\ outbox' = <<>> /\ pc' = "idle" /\ OutboxFits'
         /\ outbox' \in Seq({outbox'[i] : i \in DOMAIN outbox'})
<1>1. outbox' = <<>> /\ pc' = "idle"
  BY DEF NoReply, Reply
<1> QED BY <1>1 DEF OutboxFits

\* A single reply.
LEMMA OneReplyFacts ==
  ASSUME NEW m, Reply(<<m>>), Fits(m, IsStarted', Status', ReadyCount', RecapCount', Joined', Voters')
  PROVE  /\ pc' \in {"idle", "replying", "reporting"}
         /\ pc' = "idle" <=> outbox' = <<>>
         /\ outbox' \in Seq({outbox'[i] : i \in DOMAIN outbox'})
         /\ OutboxFits'
<1>1. outbox' = <<m>>
  BY DEF Reply
<1>2. DOMAIN <<m>> = {1} /\ <<m>>[1] = m /\ <<m>> \in Seq({m}) /\ <<m>> # <<>>
  OBVIOUS
<1>3. OutboxFits'
  BY <1>1, <1>2 DEF OutboxFits
<1> QED BY <1>2, <1>3, ReplyFacts

\* Nobody joins or leaves except one at a time, so the joined stay finitely many.
LEMMA JoinedStaysFinite ==
  IsFiniteSet(Joined) /\ [VotingNext]_votingVars => IsFiniteSet(Joined')
<1> SUFFICES ASSUME IsFiniteSet(Joined), [VotingNext]_votingVars
             PROVE  IsFiniteSet(Joined')
  OBVIOUS
<1> USE DEF Joined
<1>1. ASSUME NEW id \in Ids, NEW name \in Names, AddPerson(id, name)
      PROVE  IsFiniteSet(Joined')
  <2>1. Joined' = Joined \/ Joined' = Joined \cup {id}
    BY <1>1 DEF AddPerson
  <2> QED BY <2>1, FS_AddElement
<1>2. ASSUME NEW id \in Ids, RemovePerson(id) PROVE IsFiniteSet(Joined')
  <2>1. Joined' = Joined \ {id}
    BY <1>2 DEF RemovePerson
  <2> QED BY <2>1, FS_RemoveElement
<1>3. CASE Joined' = Joined
  BY <1>3
<1>4. ASSUME NEW id \in Ids, Skipped(id) \/ Ready(id) \/ AskedForRecap(id)
      PROVE  Joined' = Joined
  BY <1>4 DEF Skipped, Ready, AskedForRecap, votingVars
<1>5. ASSUME NEW id \in Ids, NEW vote \in GoInt, AddVote(id, vote)
      PROVE  Joined' = Joined
  BY <1>5 DEF AddVote, votingVars
<1>6. CASE NewVoting \/ ClockTick \/ UNCHANGED votingVars
  BY <1>6 DEF NewVoting, ClockTick, voting, votingVars
<1>7. CASE Finish
  BY <1>7 DEF Finish, Reset, votingVars
<1> QED BY <1>1, <1>2, <1>3, <1>4, <1>5, <1>6, <1>7 DEF VotingNext

\* /ready counts one person more, namely the author.
LEMMA OneMoreReady ==
  ASSUME VotingTypeOK, IsFiniteSet(Joined), NEW id, CanReady(id), Ready(id)
  PROVE  ReadyCount' = ReadyCount + 1
<1> DEFINE before == {i \in Joined : people[i].ready}
<1>1. people \in [Joined -> Person] /\ id \in Joined /\ ~people[id].ready
  BY DEF VotingTypeOK, CanReady
<1>2. people' = [people EXCEPT ![id].ready = TRUE]
  BY DEF Ready
<1>3. \A i \in Joined : people'[i].ready = IF i = id THEN TRUE ELSE people[i].ready
  BY <1>1, <1>2, Zenon DEF Person
<1>4. Joined' = Joined
  BY <1>1, <1>2 DEF Joined
<1>5. {i \in Joined' : people'[i].ready} = before \cup {id} /\ id \notin before
  BY <1>1, <1>3, <1>4
<1>6. IsFiniteSet(before)
  BY FS_Subset
<1>7. Cardinality(before \cup {id}) = Cardinality(before) + 1
  BY <1>5, <1>6, FS_AddElement
<1> QED BY <1>5, <1>7 DEF ReadyCount

\* /recap likewise.
LEMMA OneMoreRecap ==
  ASSUME VotingTypeOK, IsFiniteSet(Joined), NEW id, CanAskForRecap(id), AskedForRecap(id)
  PROVE  RecapCount' = RecapCount + 1
<1> DEFINE before == {i \in Joined : people[i].recap}
<1>1. people \in [Joined -> Person] /\ id \in Joined /\ ~people[id].recap
  BY DEF VotingTypeOK, CanAskForRecap
<1>2. people' = [people EXCEPT ![id].recap = TRUE]
  BY DEF AskedForRecap
<1>3. \A i \in Joined : people'[i].recap = IF i = id THEN TRUE ELSE people[i].recap
  BY <1>1, <1>2, Zenon DEF Person
<1>4. Joined' = Joined
  BY <1>1, <1>2 DEF Joined
<1>5. {i \in Joined' : people'[i].recap} = before \cup {id} /\ id \notin before
  BY <1>1, <1>3, <1>4
<1>6. IsFiniteSet(before)
  BY FS_Subset
<1>7. Cardinality(before \cup {id}) = Cardinality(before) + 1
  BY <1>5, <1>6, FS_AddElement
<1> QED BY <1>5, <1>7 DEF RecapCount

----------------------------------------------------------------------------
LEMMA AnnouncementInit == Init => AnnouncementInv
<1> SUFFICES ASSUME Init PROVE AnnouncementInv
  OBVIOUS
<1>1. outbox = <<>> /\ pc = "idle" /\ Joined = {}
  BY DEF Init, VotingInit, Joined
<1>2. IsFiniteSet(Joined)
  BY <1>1, FS_EmptySet
<1> QED BY <1>1, <1>2 DEF AnnouncementInv, OutboxFits

\* Steps that say nothing.
LEMMA SilentSteps ==
  ASSUME IsFiniteSet(Joined'), NoReply
  PROVE  AnnouncementInv'
BY NoReplyFacts DEF AnnouncementInv

\* /start greets the people of the old voting, who are those of the new one.
LEMMA StartStep ==
  ASSUME VotingTypeOK, IsFiniteSet(Joined), IsFiniteSet(Joined'), ChatStart
  PROVE  AnnouncementInv'
<1>1. Joined' = Joined /\ Joined \subseteq Ids /\ IsStarted'
  BY DEF ChatStart, NewVoting, VotingTypeOK, Joined, IsStarted
<1>2. PICK order \in SetToSeqs(Joined) : Reply(StartReplies(order))
  BY DEF ChatStart
<1> DEFINE k == Cardinality(Joined)
           head == <<Public("started", 0)>>
           greetings == [i \in DOMAIN order |-> Say(order[i], "greeting", 0)]
           S == {Public("started", 0)} \cup {Say(id, "greeting", 0) : id \in Joined}
<1>3. k \in Nat
  BY FS_CardinalityType
<1>4. order \in [1..k -> Joined]
  BY <1>2 DEF SetToSeqs
<1>5. greetings \in [1..k -> S]
  BY <1>4
<1>6. greetings \in Seq(S)
  BY <1>3, <1>5
<1>7. head \in Seq(S)
  OBVIOUS
<1>8. StartReplies(order) = head \o greetings
  BY DEF StartReplies
<1>9. StartReplies(order) \in Seq(S)
  <2> HIDE DEF head, greetings, S
  <2> QED BY <1>6, <1>7, <1>8, ConcatProperties, Zenon
<1>10. \A m \in S : Fits(m, IsStarted', Status', ReadyCount', RecapCount', Joined', Voters')
  BY <1>1 DEF Fits, Public, Say
<1> HIDE DEF S
<1>11. outbox' = StartReplies(order)
  BY <1>2 DEF Reply
<1>12. \A i \in DOMAIN outbox' : outbox'[i] \in S
  BY <1>9, <1>11
<1>13. OutboxFits'
  BY <1>10, <1>12 DEF OutboxFits
<1> QED BY <1>2, <1>9, <1>13, ReplyFacts DEF AnnouncementInv

\* What /stop may say.
StopSays(result) ==
  {Public("stopped", 0), Public("scoreboard", 0)}
    \cup IF result.final > 0 THEN {Public("estimated", 0), Public("final", result.final)} ELSE {}

LEMMA StopMessages ==
  ASSUME NEW result
  PROVE  FinishedVotingMessages(result) \in Seq(StopSays(result))
<1> DEFINE S == StopSays(result)
           first == <<Public("stopped", 0)>>
           rest == IF result.final > 0
                   THEN <<Public("estimated", 0), Public("final", result.final)>>
                   ELSE <<Public("scoreboard", 0)>>
<1>1. first \in Seq(S)
  BY DEF StopSays
<1>2. rest \in Seq(S)
  <2>1. CASE result.final > 0
    <3>1. Public("estimated", 0) \in S /\ Public("final", result.final) \in S
      BY <2>1 DEF StopSays
    <3>2. rest = <<Public("estimated", 0), Public("final", result.final)>>
      BY <2>1
    <3> HIDE DEF S, rest
    <3> QED BY <3>1, <3>2
  <2>2. CASE ~(result.final > 0)
    BY <2>2 DEF StopSays
  <2> QED BY <2>1, <2>2
<1>3. FinishedVotingMessages(result) = first \o rest
  BY DEF FinishedVotingMessages
<1> HIDE DEF first, rest, S
<1>4. FinishedVotingMessages(result) \in Seq(S)
  BY <1>1, <1>2, <1>3, ConcatProperties, Zenon
<1> QED BY <1>4 DEF S

\* /stop announces a final score only when somebody voted, and then it closes
\* the voting.
LEMMA StopStep ==
  ASSUME IsFiniteSet(Joined'), ChatStop
  PROVE  AnnouncementInv'
<1> DEFINE result == FinishResult(ScoreOf)
           msgs == FinishedVotingMessages(result)
           S == StopSays(result)
<1>1. /\ result.final > 0 => ~IsStarted'
      /\ ~IsStarted' \/ Voters' = {}
  <2>1. CASE Voters = {}
    <3>1. Voters' = Voters
      BY <2>1 DEF ChatStop, Finish, votingVars, Voters, ScoreOf, Joined
    <3>2. ~(result.final > 0)
      BY <2>1 DEF FinishResult, NoResult, Result, Voters
    <3> QED BY <2>1, <3>1, <3>2
  <2>2. CASE Voters # {}
    <3>1. createdAt' = 0
      BY <2>2 DEF ChatStop, Finish, Reset, Voters
    <3> QED BY <3>1 DEF IsStarted
  <2> QED BY <2>1, <2>2
<1>2. Reply(msgs)
  BY DEF ChatStop
<1> HIDE DEF result
<1>3. msgs \in Seq(S)
  BY StopMessages
<1>4. \A m \in S : Fits(m, IsStarted', Status', ReadyCount', RecapCount', Joined', Voters')
  BY <1>1 DEF Fits, StopSays, Public, Say
<1> HIDE DEF S, msgs
<1>5. \A i \in DOMAIN outbox' : outbox'[i] \in S
  BY <1>2, <1>3 DEF Reply
<1>6. OutboxFits'
  BY <1>4, <1>5 DEF OutboxFits
<1> QED BY <1>2, <1>3, <1>6, ReplyFacts DEF AnnouncementInv

\* The first of the replies is received; the others still agree.
LEMMA DeliverStep ==
  ASSUME IsFiniteSet(Joined'), AnnouncementInv, Deliver
  PROVE  AnnouncementInv'
<1> DEFINE S == {outbox[i] : i \in DOMAIN outbox}
<1>1. \A m \in S : Fits(m, IsStarted, Status, ReadyCount, RecapCount, Joined, Voters)
  BY DEF AnnouncementInv, OutboxFits
<1>2. /\ IsStarted' = IsStarted /\ Status' = Status /\ Joined' = Joined
      /\ ReadyCount' = ReadyCount /\ RecapCount' = RecapCount /\ Voters' = Voters
  BY DEF Voters, Deliver, votingVars, IsStarted, Status, ScoreOf, ReadyCount, RecapCount, Joined
<1>3. outbox \in Seq(S) /\ outbox # <<>>
  BY DEF AnnouncementInv, Deliver
<1> HIDE DEF S
<1>4. Tail(outbox) \in Seq(S)
  BY <1>3, HeadTailProperties
<1>5. outbox' \in Seq(S)
  BY <1>4 DEF Deliver
<1>6. \A i \in DOMAIN outbox' : outbox'[i] \in S
  BY <1>5
<1>7. OutboxFits'
  BY <1>1, <1>2, <1>6 DEF OutboxFits
<1>8. outbox' \in Seq({outbox'[i] : i \in DOMAIN outbox'})
  BY <1>5
<1>9. pc' \in {"idle", "replying", "reporting"} /\ (pc' = "idle" <=> outbox' = <<>>)
  BY DEF Deliver, AnnouncementInv
<1> QED BY <1>7, <1>8, <1>9 DEF AnnouncementInv

\* What the replies still waiting say is about the voting as it is.
LEMMA NothingChanges ==
  ASSUME AnnouncementInv, UNCHANGED <<people, createdAt, outbox, pc>>
  PROVE  AnnouncementInv'
<1>1. /\ IsStarted' = IsStarted /\ Status' = Status /\ Joined' = Joined
      /\ ReadyCount' = ReadyCount /\ RecapCount' = RecapCount /\ Voters' = Voters
  BY DEF Voters, IsStarted, Status, ScoreOf, ReadyCount, RecapCount, Joined
<1>2. OutboxFits'
  BY <1>1 DEF AnnouncementInv, OutboxFits
<1> QED BY <1>1, <1>2 DEF AnnouncementInv

\* A status is computed of an open voting.
LEMMA StatusStep ==
  ASSUME IsFiniteSet(Joined'), AnnouncementInv, TimerStatus
  PROVE  AnnouncementInv'
<1>1. UNCHANGED <<people, createdAt>>
  BY DEF TimerStatus, votingVars
<1>2. CASE UNCHANGED <<outbox, pc>>
  BY <1>1, <1>2, NothingChanges
<1>3. CASE ~UNCHANGED <<outbox, pc>>
  <2>1. /\ IsStarted
        /\ outbox' = StatusMessages(Status)
        /\ pc' \in {"idle", "reporting"}
        /\ pc' = "idle" <=> outbox' = <<>>
    BY <1>3 DEF TimerStatus
  <2>2. IsStarted' /\ Status' = Status
    BY <1>1, <2>1 DEF IsStarted, Status, ScoreOf, Joined
  <2>3. Fits(Public("status", Status), IsStarted', Status', ReadyCount', RecapCount', Joined', Voters')
    BY <2>2 DEF Fits, Public, Say
  <2>4. outbox' = <<>> \/ outbox' = <<Public("status", Status)>>
    BY <2>1 DEF StatusMessages
  <2>5. OutboxFits' /\ outbox' \in Seq({outbox'[i] : i \in DOMAIN outbox'})
    <3>1. CASE outbox' = <<>>
      BY <3>1 DEF OutboxFits
    <3>2. ASSUME NEW m, outbox' = <<m>>,
                 Fits(m, IsStarted', Status', ReadyCount', RecapCount', Joined', Voters')
          PROVE  OutboxFits' /\ outbox' \in Seq({outbox'[i] : i \in DOMAIN outbox'})
      <4>1. DOMAIN <<m>> = {1} /\ <<m>>[1] = m /\ <<m>> \in Seq({m})
        OBVIOUS
      <4> QED BY <3>2, <4>1 DEF OutboxFits
    <3> QED BY <2>3, <2>4, <3>1, <3>2
  <2> QED BY <2>1, <2>5 DEF AnnouncementInv
<1> QED BY <1>2, <1>3

LEMMA AnnouncementStep ==
  VotingTypeOK /\ AnnouncementInv /\ [Next]_vars => AnnouncementInv'
<1> SUFFICES ASSUME VotingTypeOK, AnnouncementInv, [Next]_vars
             PROVE  AnnouncementInv'
  OBVIOUS
<1>fin. IsFiniteSet(Joined) /\ IsFiniteSet(Joined')
  BY StepIsMethod, JoinedStaysFinite DEF AnnouncementInv
<1>one. ASSUME NEW m, Reply(<<m>>),
               Fits(m, IsStarted', Status', ReadyCount', RecapCount', Joined', Voters')
        PROVE  AnnouncementInv'
  BY <1>fin, <1>one, OneReplyFacts DEF AnnouncementInv
<1>none. NoReply => AnnouncementInv'
  BY <1>fin, SilentSteps
<1>1. ASSUME NEW id \in Ids, NEW name \in Names, RosterAdd(id, name)
      PROVE  AnnouncementInv'
  BY <1>1, <1>none DEF RosterAdd
<1>2. ASSUME NEW id \in Ids, RosterRemove(id) PROVE AnnouncementInv'
  BY <1>2, <1>none DEF RosterRemove
<1>3. ASSUME NEW id \in Ids, ChatSkip(id) PROVE AnnouncementInv'
  BY <1>3, <1>none DEF ChatSkip
<1>4. ASSUME NEW id \in Ids, ChatUnknown(id) PROVE AnnouncementInv'
  <2>1. Fits(UnknownCommand(id), IsStarted', Status', ReadyCount', RecapCount', Joined', Voters')
    BY DEF Fits, UnknownCommand, Say
  <2> QED BY <1>4, <1>one, <2>1 DEF ChatUnknown
<1>5. ASSUME NEW id \in Ids, ChatReady(id) PROVE AnnouncementInv'
  <2>1. CASE CanReady(id)
    <3>1. ReadyCount' = ReadyCount + 1
      BY <1>5, <1>fin, <2>1, OneMoreReady DEF ChatReady
    <3>2. Fits(Public("ready", ReadyCount + 1),
               IsStarted', Status', ReadyCount', RecapCount', Joined', Voters')
      BY <3>1 DEF Fits, Public, Say
    <3>3. Reply(<<Public("ready", ReadyCount + 1)>>)
      BY <1>5, <2>1 DEF ChatReady
    <3> QED BY <1>one, <3>2, <3>3
  <2>2. CASE ~CanReady(id)
    BY <1>5, <1>none, <2>2 DEF ChatReady, NoReply
  <2> QED BY <2>1, <2>2
<1>6. ASSUME NEW id \in Ids, ChatRecap(id) PROVE AnnouncementInv'
  <2>1. CASE CanAskForRecap(id)
    <3>1. RecapCount' = RecapCount + 1
      BY <1>6, <1>fin, <2>1, OneMoreRecap DEF ChatRecap
    <3>2. Fits(Public("recap", RecapCount + 1),
               IsStarted', Status', ReadyCount', RecapCount', Joined', Voters')
      BY <3>1 DEF Fits, Public, Say
    <3>3. Reply(<<Public("recap", RecapCount + 1)>>)
      BY <1>6, <2>1 DEF ChatRecap
    <3> QED BY <1>one, <3>2, <3>3
  <2>2. CASE ~CanAskForRecap(id)
    BY <1>6, <1>none, <2>2 DEF ChatRecap, NoReply
  <2> QED BY <2>1, <2>2
<1>7. ASSUME NEW id \in Ids, NEW text \in Texts, ChatVote(id, text)
      PROVE  AnnouncementInv'
  BY <1>7, <1>none DEF ChatVote
<1>8. CASE ChatStart
  BY <1>8, <1>fin, StartStep
<1>9. CASE ChatStop
  BY <1>9, <1>fin, StopStep
<1>10. CASE TimerStatus
  BY <1>10, <1>fin, StatusStep
<1>11. CASE Deliver
  BY <1>11, <1>fin, DeliverStep
<1>12. CASE SecondPasses \/ UNCHANGED vars
  BY <1>12, NothingChanges
  DEF SecondPasses, ClockTick, voting, loopVars, vars, votingVars
<1> QED
  BY <1>1, <1>2, <1>3, <1>4, <1>5, <1>6, <1>7, <1>8, <1>9, <1>10, <1>11, <1>12
  DEF Next, Command

LEMMA AnnouncementFacts == AnnouncementInv => AnnouncedIsTrue
BY DEF AnnouncementInv, OutboxFits, Fits, Voters, AnnouncedIsTrue

\* What is announced is true when it gets out, for any number of people.
THEOREM AnnouncementsAreTrue == Spec => []AnnouncedIsTrue
<1>1. Spec => []VotingTypeOK
  BY LoopImplementsVoting, VotingTypeCorrect, PTL
<1> QED
  BY <1>1, AnnouncementInit, AnnouncementStep, AnnouncementFacts, PTL DEF Spec

LEMMA TypeFacts == VotingTypeOK /\ ReportInv /\ AnnouncementInv => TypeOK
BY DEF ReportInv, AnnouncementInv, OutboxFits, Fits, TypeOK

\* The local variables of the goroutine keep their types: in particular it is
\* idle exactly when it has nothing left to send.
THEOREM LoopTypeCorrect == Spec => []TypeOK
<1>1. Spec => []VotingTypeOK
  BY LoopImplementsVoting, VotingTypeCorrect, PTL
<1>2. Spec => []ReportInv
  BY <1>1, ReportInit, ReportStep, PTL DEF Spec
<1>3. Spec => []AnnouncementInv
  BY <1>1, AnnouncementInit, AnnouncementStep, PTL DEF Spec
<1> QED BY <1>1, <1>2, <1>3, TypeFacts, PTL

----------------------------------------------------------------------------
\* Only /stop announces a final score.
LEMMA OnlyStopIsFinal ==
  ASSUME VotingTypeOK, AnnouncementInv, [Next]_vars, pc = "idle", ~ChatStop
  PROVE  \A i \in DOMAIN outbox' : outbox'[i].kind # "final"
<1>idle. outbox = <<>>
  BY DEF AnnouncementInv
<1>none. ASSUME NoReply PROVE \A i \in DOMAIN outbox' : outbox'[i].kind # "final"
  BY <1>none DEF NoReply, Reply
<1>one. ASSUME NEW m, Reply(<<m>>), m.kind # "final"
        PROVE  \A i \in DOMAIN outbox' : outbox'[i].kind # "final"
  BY <1>one DEF Reply
<1>1. ASSUME NEW id \in Ids, NEW name \in Names, RosterAdd(id, name) PROVE NoReply
  BY <1>1 DEF RosterAdd
<1>2. ASSUME NEW id \in Ids, RosterRemove(id) \/ ChatSkip(id) PROVE NoReply
  BY <1>2 DEF RosterRemove, ChatSkip
<1>3. ASSUME NEW id \in Ids, NEW text \in Texts, ChatVote(id, text) PROVE NoReply
  BY <1>3 DEF ChatVote
<1>4. ASSUME NEW id \in Ids, ChatUnknown(id)
      PROVE  \A i \in DOMAIN outbox' : outbox'[i].kind # "final"
  <2>1. UnknownCommand(id).kind # "final"
    BY DEF UnknownCommand, Say
  <2> QED BY <1>4, <1>one, <2>1 DEF ChatUnknown
<1>5. ASSUME NEW id \in Ids, ChatReady(id) \/ ChatRecap(id)
      PROVE  \A i \in DOMAIN outbox' : outbox'[i].kind # "final"
  <2>1. \/ NoReply
        \/ Reply(<<Public("ready", ReadyCount + 1)>>)
        \/ Reply(<<Public("recap", RecapCount + 1)>>)
    <3>1. CASE ChatReady(id)
      BY <3>1 DEF ChatReady, NoReply
    <3>2. CASE ChatRecap(id)
      BY <3>2 DEF ChatRecap, NoReply
    <3> QED BY <1>5, <3>1, <3>2
  <2>2. /\ Public("ready", ReadyCount + 1).kind # "final"
        /\ Public("recap", RecapCount + 1).kind # "final"
    BY DEF Public, Say
  <2> QED BY <1>none, <1>one, <2>1, <2>2
<1>6. CASE ChatStart
  <2>1. AnnouncementInv' /\ IsStarted'
    <3>1. IsStarted'
      BY <1>6 DEF ChatStart, NewVoting, VotingTypeOK, IsStarted
    <3> QED BY <3>1, AnnouncementStep
  <2> QED BY <2>1 DEF AnnouncementInv, OutboxFits, Fits
<1>7. CASE TimerStatus
  <2>1. outbox' = outbox \/ outbox' = <<>> \/ outbox' = <<Public("status", Status)>>
    BY <1>7 DEF TimerStatus, StatusMessages
  <2>2. Public("status", Status).kind # "final"
    BY DEF Public, Say
  <2> QED BY <1>idle, <2>1, <2>2
<1>8. CASE Deliver
  BY <1>8, <1>idle DEF Deliver
<1>9. CASE SecondPasses \/ UNCHANGED vars
  BY <1>9, <1>idle DEF SecondPasses, loopVars, vars
<1> QED
  BY <1>none, <1>1, <1>2, <1>3, <1>4, <1>5, <1>6, <1>7, <1>8, <1>9 DEF Next, Command

\* The score it announces is the one Finish has computed from the votes.
LEMMA StopIsFinal ==
  ASSUME VotingTypeOK, IsFiniteSet(Joined), ChatStop,
         NEW i \in DOMAIN outbox', outbox'[i].kind = "final"
  PROVE  outbox'[i].n > 0 /\ HighestMode(ScoreOf, outbox'[i].n)
<1> DEFINE result == FinishResult(ScoreOf)
<1>1. outbox'[i] \in StopSays(result)
  <2>1. outbox' = FinishedVotingMessages(result)
    BY DEF ChatStop, Reply
  <2>2. FinishedVotingMessages(result) \in Seq(StopSays(result))
    BY StopMessages
  <2> HIDE DEF result
  <2> QED BY <2>1, <2>2
<1>2. outbox'[i].n = result.final /\ result.final > 0
  <2> HIDE DEF result
  <2> QED BY <1>1 DEF StopSays, Public, Say
<1>3. Voted(ScoreOf) # {} /\ result.final = PickScore(Scores(ScoreOf))
  BY <1>2 DEF FinishResult, NoResult, Result
<1>4. Joined # {} /\ ScoreOf \in [Joined -> GoInt]
  BY <1>3 DEF Voted, ScoreOf, VotingTypeOK, Person
<1>5. HighestMode(ScoreOf, PickScore(Scores(ScoreOf)))
  BY <1>4, FinalScoreIsMode
<1> QED BY <1>2, <1>3, <1>5

\* Who reads "Final score" (messages.go) reads the score most people held when /stop was
\* received, although the votes are gone by then; nothing else announces one.
THEOREM FinalScoreIsTheirs == Spec => FinalIsTheirs
<1>1. VotingTypeOK /\ AnnouncementInv /\ [Next]_vars =>
        [pc = "idle" =>
           \A i \in DOMAIN outbox' :
             outbox'[i].kind = "final" =>
               outbox'[i].n > 0 /\ HighestMode(ScoreOf, outbox'[i].n)]_vars
  BY OnlyStopIsFinal, StopIsFinal DEF AnnouncementInv
<1>2. Spec => []VotingTypeOK
  BY LoopImplementsVoting, VotingTypeCorrect, PTL
<1>3. Spec => []AnnouncementInv
  BY <1>2, AnnouncementInit, AnnouncementStep, PTL DEF Spec
<1> QED BY <1>1, <1>2, <1>3, PTL DEF Spec, FinalIsTheirs
==============================================================================
