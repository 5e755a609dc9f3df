----------------------------- MODULE CommandLoop -----------------------------
(****************************************************************************)
(* The command goroutine of main.go: it takes one Data at a time from the   *)
(* commands channel, applies it to the voting and sends the replies, one by *)
(* one, on the messages channel.                                            *)
(*                                                                          *)
(* Both channels are unbuffered.  Taking a command and updating the voting  *)
(* is one step, since nothing else touches either; each blocked send is a   *)
(* step of its own, so the clock can move while the goroutine waits for the *)
(* receiver.  Chat texts are abstracted to what the goroutine tells apart,  *)
(* replies to their kind and the numbers they carry.                        *)
(****************************************************************************)
EXTENDS Voting

CONSTANTS Estimates,  \* the numbers people type, a subset of GoInt
          Everyone    \* EVERYONE_CHAT_ID, the destination of a public message

ASSUME CommandLoopAssumption == Estimates \subseteq GoInt /\ Everyone \notin Ids

VARIABLES lastUpdate,  \* local variable of the goroutine
          pc,          \* "idle", or which kind of send it is blocked in
          outbox,      \* replies still to be sent for the current command
          unreported   \* history: a vote or skip was accepted since the last
                       \* status report

loopVars == <<lastUpdate, pc, outbox, unreported>>
vars == <<votingVars, loopVars>>

----------------------------------------------------------------------------
\* Replies (messages.go).  A public message goes to Everyone.
Say(to, kind, n) == [to |-> to, kind |-> kind, n |-> n]
Public(kind, n) == Say(Everyone, kind, n)

UnknownCommand(id) == Say(id, "unknown", 0)

\* StartMessages, then a greeting whispered to each joined person in the order
\* of a map iteration.
StartReplies(order) ==
  <<Public("started", 0)>> \o [i \in DOMAIN order |-> Say(order[i], "greeting", 0)]

\* FinishedVotingMessages: the score, or the scoreboard when there is none.
FinishedVotingMessages(result) ==
  <<Public("stopped", 0)>>
    \o IF result.final > 0
       THEN <<Public("estimated", 0), Public("final", result.final)>>
       ELSE <<Public("scoreboard", 0)>>

\* StatusMessage is empty when nobody voted and nobody skipped; in the mutant it
\* says so.
StatusMessagesAlways(status) == <<Public("status", status)>>

StatusMessages(status) ==
  IF status.voted > 0 \/ status.skipped > 0 THEN <<Public("status", status)>> ELSE <<>>

\* A chat text that is neither a command nor "skip": whether strconv.Atoi
\* accepts it, and the number Atoi returns, 0 for a text that is not a number
\* and the nearest int for one out of range.
Text(ok, est) == [ok |-> ok, est |-> est]

Texts == {Text(TRUE, est) : est \in Estimates}
           \cup {Text(FALSE, est) : est \in {0, HalfRange - 1, -HalfRange}}

----------------------------------------------------------------------------
Init ==
  /\ VotingInit
  /\ lastUpdate = now
  /\ pc = "idle"
  /\ outbox = <<>>
  /\ unreported = FALSE

\* Block in the sends of msgs, if there are any.
Reply(msgs) ==
  /\ outbox' = msgs
  /\ pc' = IF msgs = <<>> THEN "idle" ELSE "replying"
  /\ UNCHANGED lastUpdate

NoReply == Reply(<<>>)

\* "zoom:add" and "zoom:remove"; the error of AddPerson is dropped.  The mutant
\* greets whoever comes late.
RosterAddGreets(id, name) ==
  /\ pc = "idle"
  /\ AddPerson(id, name)
  /\ Reply(IF IsStarted THEN <<Say(id, "greeting", 0)>> ELSE <<>>)
  /\ UNCHANGED unreported

RosterAdd(id, name) ==
  /\ pc = "idle"
  /\ AddPerson(id, name)
  /\ NoReply
  /\ UNCHANGED unreported

RosterRemove(id) ==
  /\ pc = "idle"
  /\ RemovePerson(id)
  /\ NoReply
  /\ UNCHANGED unreported

\* "timer:status": lastUpdate is refreshed after the status has been sent, and
\* only if there were updates.  The mutant refreshes it to the next second, so
\* as not to report this one twice.
TimerStatusNextSecond ==
  /\ pc = "idle"
  /\ \/ /\ IsStarted /\ HasUpdates(lastUpdate)
        /\ outbox' = StatusMessages(Status)
        /\ pc' = IF outbox' = <<>> THEN "idle" ELSE "reporting"
        /\ lastUpdate' = now + 1
        /\ unreported' = FALSE
     \/ /\ ~(IsStarted /\ HasUpdates(lastUpdate))
        /\ UNCHANGED <<outbox, pc, lastUpdate, unreported>>
  /\ UNCHANGED votingVars

TimerStatus ==
  /\ pc = "idle"
  /\ \/ /\ IsStarted /\ HasUpdates(lastUpdate)
        /\ outbox' = StatusMessages(Status)
        /\ \/ outbox' # <<>> /\ pc' = "reporting" /\ UNCHANGED lastUpdate
           \/ outbox' = <<>> /\ pc' = "idle" /\ lastUpdate' = now
        /\ unreported' = FALSE
     \/ /\ ~(IsStarted /\ HasUpdates(lastUpdate))
        /\ UNCHANGED <<outbox, pc, lastUpdate, unreported>>
  /\ UNCHANGED votingVars

\* A chat message without the prefix: "skip", or anything else as a score.  The
\* error of Atoi is logged and the number it returned is used all the same.
ChatSkip(id) ==
  /\ pc = "idle"
  /\ Skipped(id)
  /\ NoReply
  /\ unreported' = (unreported \/ (IsStarted /\ id \in Joined))

ChatVote(id, text) ==
  /\ pc = "idle"
  /\ AddVote(id, text.est)
  /\ NoReply
  /\ unreported' = (unreported \/ (IsStarted /\ id \in Joined))

\* "/" alone, or a word that is no command.
ChatUnknown(id) ==
  /\ pc = "idle"
  /\ Reply(<<UnknownCommand(id)>>)
  /\ UNCHANGED <<votingVars, unreported>>

\* The mutant opens the new voting without the people of the old one.
ChatStartAlone ==
  /\ pc = "idle"
  /\ createdAt' = now /\ updatedAt' = now
  /\ people' = <<>>
  /\ UNCHANGED now
  /\ Reply(StartReplies(<<>>))
  /\ UNCHANGED unreported

ChatStart ==
  /\ pc = "idle"
  /\ NewVoting
  /\ \E order \in SetToSeqs(Joined) : Reply(StartReplies(order))
  /\ UNCHANGED unreported

ChatStop ==
  /\ pc = "idle"
  /\ Finish
  /\ Reply(FinishedVotingMessages(FinishResult(ScoreOf)))
  /\ unreported' = (unreported /\ createdAt' > 0)

\* /ready and /recap announce the count that includes the author; a repeated
\* one is an error and is not answered.  The mutant announces the count
\* computed before the author was added.
ChatReadyStale(id) ==
  /\ pc = "idle"
  /\ Ready(id)
  /\ Reply(IF CanReady(id) THEN <<Public("ready", ReadyCount)>> ELSE <<>>)
  /\ UNCHANGED unreported

ChatReady(id) ==
  /\ pc = "idle"
  /\ Ready(id)
  /\ Reply(IF CanReady(id) THEN <<Public("ready", ReadyCount + 1)>> ELSE <<>>)
  /\ UNCHANGED unreported

ChatRecap(id) ==
  /\ pc = "idle"
  /\ AskedForRecap(id)
  /\ Reply(IF CanAskForRecap(id) THEN <<Public("recap", RecapCount + 1)>> ELSE <<>>)
  /\ UNCHANGED unreported

\* The main goroutine receives the next reply.
Deliver ==
  /\ outbox # <<>>
  /\ outbox' = Tail(outbox)
  /\ pc' = IF outbox' = <<>> THEN "idle" ELSE pc
  /\ lastUpdate' = IF pc = "reporting" THEN now ELSE lastUpdate
  /\ UNCHANGED <<votingVars, unreported>>

SecondPasses == ClockTick /\ UNCHANGED loopVars

Command ==
  \/ \E id \in Ids, name \in Names : RosterAdd(id, name)
  \/ \E id \in Ids : \/ RosterRemove(id) \/ ChatSkip(id) \/ ChatUnknown(id)
                     \/ ChatReady(id) \/ ChatRecap(id)
  \/ \E id \in Ids, text \in Texts : ChatVote(id, text)
  \/ ChatStart
  \/ ChatStop

Next == Command \/ TimerStatus \/ Deliver \/ SecondPasses

Spec == Init /\ [][Next]_vars

\* Main keeps receiving and the ticker keeps ticking; what happens when main
\* does not receive is the subject of the Goroutines module.
FairSpec == Spec /\ WF_vars(Deliver) /\ SF_vars(TimerStatus)

----------------------------------------------------------------------------
TypeOK ==
  /\ VotingTypeOK
  /\ lastUpdate \in 1..now
  /\ pc \in {"idle", "replying", "reporting"}
  /\ pc = "idle" <=> outbox = <<>>
  /\ \A i \in DOMAIN outbox : outbox[i].to \in Ids \cup {Everyone}
  /\ unreported \in BOOLEAN

\* No vote or skip is lost to the one-second timestamps: until a status report
\* has counted it, the next tick of the ticker will find updates to report,
\* however the seconds fall between the vote and the previous report.
NoLostUpdate == unreported => IsStarted /\ HasUpdates(lastUpdate)

\* What is announced is still true when the announcement gets out: the counts
\* are those of the people who are in the voting at that moment, however long
\* the goroutine was blocked in the send.  "Voting stopped" is true with an
\* exception: nobody has voted.
AnnouncedIsTrue ==
  \A i \in DOMAIN outbox :
    LET m == outbox[i]
    IN  /\ m.kind = "status" => IsStarted /\ m.n = Status
        /\ m.kind = "ready" => m.n = ReadyCount
        /\ m.kind = "recap" => m.n = RecapCount
        /\ m.kind = "started" => IsStarted
        /\ m.kind = "greeting" => IsStarted /\ m.to \in Joined
        /\ m.kind = "stopped" => ~IsStarted \/ Voted(ScoreOf) = {}
        /\ m.kind \in {"estimated", "final"} => ~IsStarted

\* A final score is announced in answer to a command only, and it is the score
\* that most people held when the command was taken: /stop resets the votes
\* before the announcement gets out, and the announcement is about those before.
FinalIsTheirs ==
  [][pc = "idle" =>
       \A i \in DOMAIN outbox' :
         outbox'[i].kind = "final" =>
           outbox'[i].n > 0 /\ HighestMode(ScoreOf, outbox'[i].n)]_vars

\* A vote is reported, or the voting is closed, provided main keeps receiving.
EveryVoteReported == unreported ~> ~unreported

\* "Voting stopped" (StoppedMessage) is said of a voting that takes no more
\* votes.
StoppedMeansClosed ==
  outbox # <<>> /\ Head(outbox).kind = "stopped" => ~IsStarted

\* A text that is not a number is not a vote ("can't convert message to
\* integer" in main.go): it leaves the author's vote as it was.
OnlyNumbersVote ==
  [][\A id \in Ids : (\E text \in Texts : ~text.ok /\ ChatVote(id, text))
       => UNCHANGED people]_vars
==============================================================================
