------------------------------ MODULE BotProofs ------------------------------
(****************************************************************************)
(* The bot as a whole does what its parts promise, for any number of people *)
(* and anything they type: its command goroutine is that of CommandLoop,    *)
(* its channels are those of Goroutines, and main never sends a message     *)
(* without the session's JoinInfo.                                          *)
(****************************************************************************)
EXTENDS Bot, CommandLoopProofs

RosterCommands == Additions \cup Removals

MaxReplies == 3 + Cardinality(Ids)

\* There are people, and finitely many.
LEMMA IdsFacts == Cardinality(Ids) \in Nat \ {0}
BY BotAssumption, FS_CardinalityType, FS_EmptySet

\* A roster frame is a sequence of commands, at least one and at most MaxBatch.
LEMMA BatchSize ==
  ASSUME NEW f \in RosterFrames
  PROVE  f \in Seq(RosterCommands) /\ Len(f) \in 1..MaxBatch
<1>1. PICK n \in 0..MaxBatch : f \in [1..n -> RosterCommands]
  BY DEF RosterFrames, RosterCommands, BoundedSeq, SeqOf
<1>2. f \in Seq(RosterCommands) /\ Len(f) = n
  BY <1>1, BotAssumption
<1>3. f # <<>>
  BY DEF RosterFrames
<1>4. Len(f) # 0
  BY <1>2, <1>3, EmptySeq
<1> QED BY <1>2, <1>4, BotAssumption

----------------------------------------------------------------------------
\* The switch of the command goroutine, for the commands that are sent to it.
LEMMA HandleIsCommand ==
  ASSUME NEW c \in RosterCommands \cup Chats, Handle(c)
  PROVE  Command
<1>1. CASE c.key = "zoom:add"
  <2>1. c.id \in Ids /\ c.name \in Names
    BY <1>1, BotAssumption DEF RosterCommands, Additions, Removals, Chats, Joins, Leaves, Chat, Number
  <2> QED BY <1>1, <2>1 DEF Handle, Command
<1>2. CASE c.key = "number"
  <2>1. c.id \in Ids /\ c.text \in Texts
    BY <1>2, BotAssumption DEF RosterCommands, Additions, Removals, Chats, Joins, Leaves, Chat, Number
  <2> QED BY <1>2, <2>1 DEF Handle, Command
<1>3. CASE c.key \notin {"zoom:add", "number"}
  <2>1. c.id \in Ids
    BY DEF RosterCommands, Additions, Removals, Chats, Joins, Leaves, Chat, Number
  <2> QED BY <1>3, <2>1 DEF Handle, Command
<1> QED BY <1>1, <1>2, <1>3

\* A roster command has no reply.
LEMMA RosterHasNoReply ==
  ASSUME NEW c \in RosterCommands, Handle(c)
  PROVE  outbox' = <<>>
<1>1. c.key \in {"zoom:add", "zoom:remove"}
  BY DEF RosterCommands, Additions, Removals, Joins, Leaves
<1>2. RosterAdd(c.id, c.name) \/ RosterRemove(c.id)
  BY <1>1 DEF Handle
<1> QED BY <1>2 DEF RosterAdd, RosterRemove, NoReply, Reply

\* No command has more than MaxReplies replies.
LEMMA RepliesBounded ==
  ASSUME VotingTypeOK, NEW c \in RosterCommands \cup Chats, Handle(c)
  PROVE  Len(outbox') \in 0..MaxReplies
<1>b. {0, 1, 2, 3} \subseteq 0..MaxReplies
      /\ \A k \in 0..Cardinality(Ids) : 1 + k \in 0..MaxReplies
  BY IdsFacts DEF MaxReplies
<1>1. IsFiniteSet(Joined) /\ Cardinality(Joined) \in 0..Cardinality(Ids)
  <2>1. Joined \in SUBSET Ids
    BY DEF VotingTypeOK
  <2>2. IsFiniteSet(Joined) /\ Cardinality(Joined) <= Cardinality(Ids)
    BY <2>1, BotAssumption, FS_Subset
  <2> QED BY <2>2, FS_CardinalityType, IdsFacts
<1>2. ASSUME NEW m, Reply(<<m>>) PROVE Len(outbox') = 1
  <2>1. outbox' = <<m>>
    BY <1>2 DEF Reply
  <2> QED BY <2>1
<1>3. NoReply => Len(outbox') = 0
  BY DEF NoReply, Reply
<1>4. CASE ChatStart
  <2>1. PICK order \in SetToSeqs(Joined) : Reply(StartReplies(order))
    BY <1>4 DEF ChatStart
  <2> DEFINE k == Cardinality(Joined)
             S == {Public("started", 0)} \cup {Say(id, "greeting", 0) : id \in Joined}
             head == <<Public("started", 0)>>
             greetings == [i \in DOMAIN order |-> Say(order[i], "greeting", 0)]
  <2>2. order \in [1..k -> Joined]
    BY <2>1 DEF SetToSeqs
  <2>3. greetings \in Seq(S) /\ Len(greetings) = k
    BY <1>1, <2>2
  <2>4. head \in Seq(S) /\ Len(head) = 1
    OBVIOUS
  <2>5. outbox' = head \o greetings
    BY <2>1 DEF Reply, StartReplies
  <2> HIDE DEF S, head, greetings
  <2>6. Len(head \o greetings) = Len(head) + Len(greetings)
    BY <2>3, <2>4, ConcatProperties, Zenon
  <2>7. Len(outbox') = 1 + k
    BY <2>3, <2>4, <2>5, <2>6
  <2> QED BY <1>1, <1>b, <2>7
<1>5. CASE ChatStop
  <2> DEFINE msgs == FinishedVotingMessages(FinishResult(ScoreOf))
  <2>1. Len(msgs) \in {2, 3}
    BY DEF FinishedVotingMessages
  <2>2. outbox' = msgs
    BY <1>5 DEF ChatStop, Reply
  <2> HIDE DEF msgs
  <2> QED BY <1>b, <2>1, <2>2
<1>6. CASE RosterAdd(c.id, c.name) \/ RosterRemove(c.id) \/ ChatSkip(c.id) \/ ChatVote(c.id, c.text)
  BY <1>3, <1>6, <1>b DEF RosterAdd, RosterRemove, ChatSkip, ChatVote
<1>7. CASE ChatUnknown(c.id)
  <2>1. Reply(<<UnknownCommand(c.id)>>)
    BY <1>7 DEF ChatUnknown
  <2>2. Len(outbox') = 1
    BY <1>2, <2>1
  <2> QED BY <1>b, <2>2
<1>8. CASE ChatReady(c.id)
  <2>1. Reply(<<Public("ready", ReadyCount + 1)>>) \/ NoReply
    BY <1>8 DEF ChatReady, NoReply
  <2>2. Len(outbox') = 1 \/ Len(outbox') = 0
    BY <1>2, <1>3, <2>1
  <2> QED BY <1>b, <2>2
<1>9. CASE ChatRecap(c.id)
  <2>1. Reply(<<Public("recap", RecapCount + 1)>>) \/ NoReply
    BY <1>9 DEF ChatRecap, NoReply
  <2>2. Len(outbox') = 1 \/ Len(outbox') = 0
    BY <1>2, <1>3, <2>1
  <2> QED BY <1>b, <2>2
<1> QED BY <1>4, <1>5, <1>6, <1>7, <1>8, <1>9 DEF Handle

----------------------------------------------------------------------------
\* Before the reader has stored the session's JoinInfo it has read no frame
\* that causes a command, so nobody has joined and nothing is to be said.
NothingBeforeJoin ==
  joinInfo # "stored" => queue = <<>> /\ outbox = <<>> /\ Joined = {}

BotInv ==
  /\ VotingTypeOK
  /\ AnnouncementInv
  /\ queue \in Seq(IF frame = "roster" THEN RosterCommands ELSE Chats)
  /\ reader = "send" <=> queue # <<>>
  /\ ended => outbox = <<>>
  /\ NothingBeforeJoin
  /\ ~nameless

\* Every step of the bot is a step of its command goroutine, or leaves that
\* alone.
LEMMA StepIsLoopStep == BotInv /\ [BotNext]_botVars => [Next]_vars
<1> SUFFICES ASSUME BotInv, [BotNext]_botVars PROVE [Next]_vars
  OBVIOUS
<1>1. CASE ReaderSends
  <2>1. queue # <<>>
    BY <1>1 DEF ReaderSends, BotInv
  <2>2. Head(queue) \in RosterCommands \cup Chats
    BY <2>1 DEF BotInv
  <2> QED BY <1>1, <2>2, HandleIsCommand DEF ReaderSends, Next
<1>2. CASE MainSendsTimer
  BY <1>2 DEF MainSendsTimer, Next
<1>3. CASE MainForwards
  BY <1>3 DEF MainForwards, Next
<1>4. CASE Second
  BY <1>4 DEF Second, Next
<1>5. CASE StoreJoinInfo \/ ReadFrame \/ HandlerEnds \/ UNCHANGED botVars
  BY <1>5 DEF StoreJoinInfo, ReadFrame, HandlerEnds, botVars
<1>6. CASE ReadFails \/ MainTakesTick \/ MainDone \/ MainInterrupt \/ ListenDone
           \/ ListenInterrupt \/ GoesOn \/ Ticker \/ Interrupt
  BY <1>6 DEF ReadFails, MainTakesTick, MainDone, MainInterrupt, ListenDone,
              ListenInterrupt, GoesOn, Ticker, Interrupt, Apart
<1> QED BY <1>1, <1>2, <1>3, <1>4, <1>5, <1>6 DEF BotNext

\* The invariant holds on start-up ...
LEMMA BotInvInit == BotInit => BotInv
<1> SUFFICES ASSUME BotInit PROVE BotInv
  OBVIOUS
<1>1. VotingTypeOK /\ AnnouncementInv
  BY TypeInit, AnnouncementInit DEF BotInit, Init
<1>2. outbox = <<>> /\ Joined = {}
  BY DEF BotInit, Init, VotingInit, Joined
<1> QED BY <1>1, <1>2 DEF BotInit, BotInv, NothingBeforeJoin, G!Init

\* What the goroutines do apart from the voting leaves the invariant alone; the
\* reader only goes from reading to its end.
LEMMA ApartKeepsInv ==
  ASSUME BotInv, Apart, frame' = frame,
         reader' = reader \/ (reader = "read" /\ reader' = "dead")
  PROVE  BotInv'
<1>1. VotingTypeOK' /\ AnnouncementInv'
  <2>1. UNCHANGED vars
    BY DEF Apart
  <2>2. [Next]_vars /\ [VotingNext]_votingVars
    BY <2>1, StepIsMethod
  <2> QED BY <2>2, TypeStep, AnnouncementStep DEF BotInv
<1>2. Joined' = Joined /\ UNCHANGED <<outbox, queue, ended, joinInfo, nameless>>
  BY DEF Apart, vars, votingVars, loopVars, Joined
<1>3. reader' = "send" <=> queue' # <<>>
  BY <1>2 DEF BotInv
<1> QED BY <1>1, <1>2, <1>3 DEF BotInv, NothingBeforeJoin

\* A status report of a voting that nobody has joined is empty.
LEMMA NobodyNoStatus ==
  ASSUME Joined = {}, outbox = <<>>, TimerStatus
  PROVE  outbox' = <<>> /\ Joined' = {}
<1>1. Joined' = {}
  BY DEF TimerStatus, votingVars, Joined
<1>2. Voted(ScoreOf) = {} /\ {id \in Joined : people[id].skipped} = {}
  BY DEF Voted, ScoreOf
<1>3. Status = [voted |-> 0, skipped |-> 0]
  BY <1>2, FS_EmptySet DEF Status
<1>4. StatusMessages(Status) = <<>>
  BY <1>3 DEF StatusMessages
<1> QED BY <1>1, <1>4 DEF TimerStatus

\* ... and after every step.
LEMMA BotInvStep == BotInv /\ [BotNext]_botVars => BotInv'
<1> SUFFICES ASSUME BotInv, [BotNext]_botVars PROVE BotInv'
  OBVIOUS
<1>v. VotingTypeOK' /\ AnnouncementInv'
  BY StepIsLoopStep, StepIsMethod, TypeStep, AnnouncementStep DEF BotInv
<1>n. /\ queue \in Seq(IF frame = "roster" THEN RosterCommands ELSE Chats)
      /\ reader = "send" <=> queue # <<>>
      /\ ended => outbox = <<>>
      /\ joinInfo # "stored" => queue = <<>> /\ outbox = <<>> /\ Joined = {}
      /\ ~nameless
  BY DEF BotInv, NothingBeforeJoin
<1>1. CASE StoreJoinInfo
  <2>1. UNCHANGED <<queue, frame, reader, ended, outbox, nameless>> /\ Joined' = Joined
    BY <1>1 DEF StoreJoinInfo, vars, votingVars, loopVars, Joined
  <2>2. joinInfo # "stored"
    BY <1>1 DEF StoreJoinInfo
  <2> QED BY <1>v, <1>n, <2>1, <2>2 DEF BotInv, NothingBeforeJoin
<1>2. CASE ReadFrame
  <2>1. /\ UNCHANGED <<ended, outbox, nameless>>
        /\ joinInfo' = "stored" /\ reader' = "send"
    BY <1>2 DEF ReadFrame, vars, loopVars, restVars
  <2>2. /\ queue' \in Seq(IF frame' = "roster" THEN RosterCommands ELSE Chats)
        /\ queue' # <<>>
    <3>1. CASE frame' = "roster"
      <4>1. queue' \in RosterFrames
        BY <1>2, <3>1 DEF ReadFrame
      <4>2. queue' \in Seq(RosterCommands) /\ queue' # <<>>
        BY <4>1, BatchSize DEF RosterFrames
      <4> QED BY <3>1, <4>2
    <3>2. CASE frame' # "roster"
      <4>1. PICK c \in Chats : queue' = <<c>>
        BY <1>2, <3>2 DEF ReadFrame
      <4> QED BY <3>2, <4>1
    <3> QED BY <3>1, <3>2
  <2> QED BY <1>v, <1>n, <2>1, <2>2 DEF BotInv, NothingBeforeJoin
<1>3. CASE ReaderSends
  <2>1. /\ ~ended /\ queue # <<>> /\ queue' = Tail(queue)
        /\ reader' = IF queue' = <<>> THEN "read" ELSE "send"
        /\ UNCHANGED <<nameless, frame, joinInfo, ended>>
    BY <1>3, <1>n DEF ReaderSends, restVars
  <2>2. queue' \in Seq(IF frame' = "roster" THEN RosterCommands ELSE Chats)
    BY <1>n, <2>1
  <2>3. reader' = "send" <=> queue' # <<>>
    BY <2>1
  <2> QED BY <1>v, <1>n, <2>1, <2>2, <2>3 DEF BotInv, NothingBeforeJoin
<1>4. CASE MainSendsTimer
  <2>1. /\ ~ended /\ TimerStatus
        /\ UNCHANGED <<queue, nameless, reader, frame, joinInfo, ended>>
    BY <1>4 DEF MainSendsTimer, restVars
  <2> QED BY <1>v, <1>n, <2>1, NobodyNoStatus DEF BotInv, NothingBeforeJoin
<1>5. CASE MainForwards
  <2>1. /\ outbox # <<>>
        /\ nameless' = (nameless \/ joinInfo # "stored")
        /\ UNCHANGED <<queue, reader, frame, joinInfo, ended>>
    BY <1>5 DEF MainForwards, Deliver, restVars
  <2> QED BY <1>v, <1>n, <2>1 DEF BotInv, NothingBeforeJoin
<1>6. CASE HandlerEnds
  <2>1. /\ pc = "idle"
        /\ UNCHANGED <<queue, frame, reader, outbox, joinInfo, nameless>> /\ Joined' = Joined
    BY <1>6 DEF HandlerEnds, vars, votingVars, loopVars, Joined
  <2>2. outbox' = <<>>
    BY <2>1 DEF BotInv, AnnouncementInv
  <2> QED BY <1>v, <1>n, <2>1, <2>2 DEF BotInv, NothingBeforeJoin
<1>7. CASE Second \/ UNCHANGED botVars
  <2>1. UNCHANGED <<queue, frame, reader, ended, outbox, joinInfo, nameless>> /\ Joined' = Joined
    BY <1>7 DEF Second, SecondPasses, ClockTick, voting, loopVars, restVars, botVars,
                vars, votingVars, Joined
  <2> QED BY <1>v, <1>n, <2>1 DEF BotInv, NothingBeforeJoin
<1>8. CASE ReadFails
  BY <1>8, ApartKeepsInv DEF ReadFails, G!ReadFails
<1>9. CASE MainTakesTick \/ MainDone \/ MainInterrupt \/ ListenDone \/ ListenInterrupt
           \/ GoesOn \/ Ticker \/ Interrupt
  <2>1. Apart /\ UNCHANGED <<reader, frame>>
    BY <1>9 DEF MainTakesTick, MainDone, MainInterrupt, ListenDone, ListenInterrupt,
                GoesOn, Ticker, Interrupt, G!MainTakesTick, G!MainDone, G!MainInterrupt,
                G!ListenDone, G!ListenInterrupt, G!Ticker, G!Interrupt,
                G!ListenRegisters, G!ListenClosed, G!ReaderPanics, G!HandlerPanics,
                G!CloseCommands, G!CloseMessages, G!Exit, G!Ends, G!readerVars
  <2> QED BY <2>1, ApartKeepsInv
<1> QED BY <1>1, <1>2, <1>3, <1>4, <1>5, <1>6, <1>7, <1>8, <1>9 DEF BotNext

\* Hence for ever.
LEMMA AlwaysBotInv == BotSpec => []BotInv
BY BotInvInit, BotInvStep, PTL DEF BotSpec

\* Whatever makes main send a message goes back to a frame the reader read after
\* it had stored JoinInfo, so no message goes out without a ZoomID.
THEOREM MainKnowsJoinInfo == BotSpec => []JoinInfoIsStored
BY AlwaysBotInv, PTL DEF BotInv, JoinInfoIsStored

\* The goroutine inside the bot is the one of CommandLoop, so what is proved of
\* that holds of the running bot.
THEOREM BotImplementsLoop == BotSpec => Spec
<1>1. BotInit => Init
  BY DEF BotInit
<1> QED BY <1>1, StepIsLoopStep, AlwaysBotInv, PTL DEF BotSpec, Spec

----------------------------------------------------------------------------
\* Refinement: one lemma for each action that is more than an action of
\* Goroutines with the voting left alone.
\* Reading a frame queues as many commands as Goroutines says.
LEMMA ReadFrameIsRead == ReadFrame => G!ReadFrame
<1> SUFFICES ASSUME ReadFrame PROVE G!ReadFrame
  OBVIOUS
<1>1. \/ frame' = "roster" /\ Len(queue') \in 1..MaxBatch
      \/ frame' = "chat" /\ Len(queue') = 1
  <2>1. CASE frame' = "roster"
    <3>1. queue' \in RosterFrames
      BY <2>1 DEF ReadFrame
    <3> QED BY <2>1, <3>1, BatchSize
  <2>2. CASE frame' # "roster"
    <3>1. PICK c \in Chats : frame' = "chat" /\ queue' = <<c>>
      BY <2>2 DEF ReadFrame
    <3> QED BY <3>1
  <2> QED BY <2>1, <2>2
<1>2. UNCHANGED <<outbox, ended>>
  BY DEF ReadFrame, vars, loopVars, restVars
<1> QED
  BY <1>1, <1>2 DEF ReadFrame, restVars, listenVars, mainVars, G!ReadFrame,
     G!Running, G!listenVars, G!handlerVars, G!mainVars

\* The command goroutine waits for a command, and takes one with n replies.
LEMMA TakesReplies ==
  ASSUME BotInv, BotInv', ~ended, UNCHANGED ended, pc = "idle"
  PROVE  G!HandlerTakes(Len(outbox'))
<1>1. outbox = <<>>
  BY DEF BotInv, AnnouncementInv
<1>2. outbox' = <<>> <=> Len(outbox') = 0
  <2>1. outbox' \in Seq({outbox'[i] : i \in DOMAIN outbox'})
    BY DEF BotInv, AnnouncementInv
  <2> QED BY <2>1
<1> QED BY <1>1, <1>2 DEF G!HandlerTakes

\* What is left after the head is one shorter.
LEMMA TailFacts ==
  ASSUME NEW S, NEW s \in Seq(S), s # <<>>
  PROVE  /\ Len(Tail(s)) = Len(s) - 1
         /\ Tail(s) = <<>> <=> Len(s) = 1
<1>1. Tail(s) \in Seq(S) /\ Len(Tail(s)) = Len(s) - 1
  BY HeadTailProperties
<1>2. \A t \in Seq(S) : t = <<>> <=> Len(t) = 0
  BY EmptySeq
<1>3. Len(s) \in Nat
  BY LenProperties
<1>4. Tail(s) = <<>> <=> Len(Tail(s)) = 0
  BY <1>1, <1>2, Zenon
<1>5. Len(Tail(s)) = 0 <=> Len(s) = 1
  BY <1>1, <1>3
<1> QED BY <1>1, <1>4, <1>5, Zenon

\* Sending a command, which causes as many replies as its kind of frame may.
LEMMA CommandIsSent ==
  ASSUME BotInv, BotInv', ReaderSends
  PROVE  G!ReaderSends
<1>1. /\ queue \in Seq(IF frame = "roster" THEN RosterCommands ELSE Chats)
      /\ queue # <<>> /\ queue' = Tail(queue)
  BY DEF ReaderSends, BotInv
<1>2. /\ Len(queue') = Len(queue) - 1
      /\ queue' = <<>> <=> Len(queue) = 1
  BY <1>1, TailFacts
<1>3. Head(queue) \in RosterCommands \cup Chats
  BY <1>1
<1>4. pc = "idle"
  BY <1>3, HandleIsCommand DEF ReaderSends, Command, RosterAdd, RosterRemove, ChatSkip,
     ChatUnknown, ChatReady, ChatRecap, ChatVote, ChatStart, ChatStop
<1>5. Len(outbox') \in IF frame = "roster" THEN {0} ELSE 0..MaxReplies
  <2>1. CASE frame = "roster"
    <3>1. Head(queue) \in RosterCommands
      BY <1>1, <2>1
    <3>2. outbox' = <<>>
      BY <3>1, RosterHasNoReply DEF ReaderSends
    <3> QED BY <2>1, <3>2
  <2>2. CASE frame # "roster"
    BY <1>3, <2>2, RepliesBounded DEF ReaderSends, BotInv
  <2> QED BY <2>1, <2>2
<1>6. G!HandlerTakes(Len(outbox'))
  BY <1>4, TakesReplies DEF ReaderSends, restVars
<1>7. reader' = IF Len(queue) = 1 THEN "read" ELSE "send"
  BY <1>2 DEF ReaderSends
<1> QED
  BY <1>2, <1>5, <1>6, <1>7
  DEF ReaderSends, restVars, listenVars, mainVars, MaxReplies, G!ReaderSends, G!Running,
      G!CommandsClosed, G!listenVars, G!mainVars

\* Sending the timer command, which has one reply or none.
LEMMA TimerIsSent ==
  ASSUME BotInv, BotInv', MainSendsTimer
  PROVE  G!MainSendsTimer
<1>1. pc = "idle" /\ outbox = <<>>
  BY DEF MainSendsTimer, TimerStatus, BotInv, AnnouncementInv
<1>2. outbox' = <<>> \/ outbox' = <<Public("status", Status)>>
  BY <1>1 DEF MainSendsTimer, TimerStatus, StatusMessages
<1>3. Len(outbox') \in 0..1
  BY <1>2
<1>4. G!HandlerTakes(Len(outbox'))
  BY <1>1, TakesReplies DEF MainSendsTimer, restVars
<1> QED
  BY <1>3, <1>4 DEF MainSendsTimer, restVars, listenVars, G!MainSendsTimer, G!Running,
     G!readerVars, G!listenVars

\* Forwarding a reply.
LEMMA ReplyIsForwarded ==
  ASSUME BotInv, MainForwards
  PROVE  G!MainForwards
<1>1. outbox # <<>> /\ outbox' = Tail(outbox) /\ ~ended /\ ~ended'
  BY DEF MainForwards, Deliver, BotInv, restVars
<1>2. outbox \in Seq({outbox[i] : i \in DOMAIN outbox})
  BY DEF BotInv, AnnouncementInv
<1>3. Len(outbox') = Len(outbox) - 1 /\ (outbox' = <<>> <=> Len(outbox) = 1)
  BY <1>1, <1>2, TailFacts
<1> QED
  BY <1>1, <1>3 DEF MainForwards, restVars, listenVars, mainVars, G!MainForwards, G!Running,
     G!readerVars, G!listenVars, G!mainVars

\* The end of the command goroutine.
LEMMA EndIsEnd ==
  ASSUME BotInv, HandlerEnds
  PROVE  G!HandlerEnds
<1>1. outbox = <<>> /\ UNCHANGED outbox
  BY DEF HandlerEnds, BotInv, AnnouncementInv, vars, loopVars
<1> QED
  BY <1>1 DEF HandlerEnds, listenVars, mainVars, G!HandlerEnds, G!Running,
     G!CommandsClosed, G!readerVars, G!listenVars, G!mainVars

\* Seen from outside, the bot does nothing but what Goroutines lets it do: no
\* command causes more replies, in other places or at other times, and a roster
\* frame causes none.
THEOREM BotImplementsGoroutines == BotSpec => ImplementsGoroutines
<1>1. BotInit => G!Init
  BY DEF BotInit
<1>2. BotInv /\ BotInv' /\ [BotNext]_botVars => [G!Next]_(G!vars)
  <2> SUFFICES ASSUME BotInv, BotInv', [BotNext]_botVars PROVE [G!Next]_(G!vars)
    OBVIOUS
  <2>1. CASE ReadFrame
    BY <2>1, ReadFrameIsRead DEF G!Next
  <2>2. CASE ReaderSends
    BY <2>2, CommandIsSent DEF G!Next
  <2>3. CASE MainSendsTimer
    BY <2>3, TimerIsSent DEF G!Next
  <2>4. CASE MainForwards
    BY <2>4, ReplyIsForwarded DEF G!Next
  <2>5. CASE HandlerEnds
    BY <2>5, EndIsEnd DEF G!Next
  <2>6. CASE StoreJoinInfo \/ Second \/ UNCHANGED botVars
    BY <2>6 DEF StoreJoinInfo, Second, SecondPasses, botVars, vars, loopVars, restVars,
       listenVars, mainVars, G!vars, G!readerVars, G!listenVars, G!handlerVars, G!mainVars
  <2>7. CASE ReadFails \/ MainTakesTick \/ MainDone \/ MainInterrupt \/ ListenDone
             \/ ListenInterrupt \/ GoesOn \/ Ticker \/ Interrupt
    BY <2>7 DEF ReadFails, MainTakesTick, MainDone, MainInterrupt, ListenDone,
       ListenInterrupt, GoesOn, Ticker, Interrupt, G!Next
  <2> QED BY <2>1, <2>2, <2>3, <2>4, <2>5, <2>6, <2>7 DEF BotNext
<1> QED BY <1>1, <1>2, AlwaysBotInv, PTL DEF BotSpec, ImplementsGoroutines, G!Spec

----------------------------------------------------------------------------
\* What follows for the running bot from the parts it implements.

\* The voting and the command goroutine keep, inside the bot, what CommandLoop and
\* Voting promise: no vote or skip is lost to a report, what is announced is true
\* when it gets out, a final score is the one most people held, a closed
\* voting is blank and nothing said is taken back.
THEOREM BotKeepsPromises ==
  BotSpec => /\ [](ClosedIsBlank /\ TimestampsAgree /\ NoLostUpdate /\ AnnouncedIsTrue)
             /\ SaidOnceStays /\ FinalIsTheirs
<1>1. BotSpec => Spec /\ VotingSpec
  BY BotImplementsLoop, LoopImplementsVoting
<1>2. VotingSpec => []ClosedIsBlank /\ []TimestampsAgree /\ SaidOnceStays
  BY ClosedVotingIsBlank, TimestampsStayInOrder, WhatIsSaidStays
<1>3. Spec => []NoLostUpdate /\ []AnnouncedIsTrue /\ FinalIsTheirs
  BY NoUpdateIsLost, AnnouncementsAreTrue, FinalScoreIsTheirs
<1> QED BY <1>1, <1>2, <1>3, PTL

\* The theorems of GoroutinesProofs, under the mapping of G.
GP == INSTANCE GoroutinesProofs WITH
        MaxReplies <- 3 + Cardinality(Ids),
        handler <- IF ended THEN "ended" ELSE IF outbox = <<>> THEN "recv" ELSE "emit",
        replies <- Len(outbox),
        left <- Len(queue)

\* G and GP are two names for the same module.
LEMMA SameGoroutines ==
  /\ G!Init <=> GP!Init
  /\ [G!Next]_(G!vars) <=> [GP!Next]_(GP!vars)
<1> USE DEF G!Running, GP!Running, G!Ends, GP!Ends, G!HandlerTakes, GP!HandlerTakes,
            G!CommandsClosed, GP!CommandsClosed, G!MessagesClosed, GP!MessagesClosed,
            G!readerVars, G!listenVars, G!handlerVars, G!mainVars,
            GP!readerVars, GP!listenVars, GP!handlerVars, GP!mainVars
<1>1. G!Init <=> GP!Init
  BY DEF G!Init, GP!Init
<1>2. G!vars = GP!vars
  BY DEF G!vars, GP!vars
<1>3. G!ReadFrame <=> GP!ReadFrame
  BY DEF G!ReadFrame, GP!ReadFrame
<1>4. (G!ReadFails <=> GP!ReadFails) /\ (G!ReaderPanics <=> GP!ReaderPanics)
  BY DEF G!ReadFails, GP!ReadFails, G!ReaderPanics, GP!ReaderPanics
<1>5. G!ReaderSends <=> GP!ReaderSends
  BY DEF G!ReaderSends, GP!ReaderSends
<1>6. /\ G!ListenRegisters <=> GP!ListenRegisters
      /\ G!ListenDone <=> GP!ListenDone
      /\ G!ListenInterrupt <=> GP!ListenInterrupt
      /\ G!ListenClosed <=> GP!ListenClosed
  BY DEF G!ListenRegisters, GP!ListenRegisters, G!ListenDone, GP!ListenDone,
         G!ListenInterrupt, GP!ListenInterrupt, G!ListenClosed, GP!ListenClosed
<1>7. (G!HandlerEnds <=> GP!HandlerEnds) /\ (G!HandlerPanics <=> GP!HandlerPanics)
  BY DEF G!HandlerEnds, GP!HandlerEnds, G!HandlerPanics, GP!HandlerPanics
<1>8. (G!MainForwards <=> GP!MainForwards) /\ (G!MainTakesTick <=> GP!MainTakesTick)
  BY DEF G!MainForwards, GP!MainForwards, G!MainTakesTick, GP!MainTakesTick
<1>9. G!MainSendsTimer <=> GP!MainSendsTimer
  BY DEF G!MainSendsTimer, GP!MainSendsTimer
<1>10. (G!MainDone <=> GP!MainDone) /\ (G!MainInterrupt <=> GP!MainInterrupt)
  BY DEF G!MainDone, GP!MainDone, G!MainInterrupt, GP!MainInterrupt
<1>11. /\ G!CloseCommands <=> GP!CloseCommands
       /\ G!CloseMessages <=> GP!CloseMessages
       /\ G!Exit <=> GP!Exit
  BY DEF G!CloseCommands, GP!CloseCommands, G!CloseMessages, GP!CloseMessages, G!Exit, GP!Exit
<1>12. (G!Ticker <=> GP!Ticker) /\ (G!Interrupt <=> GP!Interrupt)
  BY DEF G!Ticker, GP!Ticker, G!Interrupt, GP!Interrupt
<1>13. G!Next <=> GP!Next
  BY <1>3, <1>4, <1>5, <1>6, <1>7, <1>8, <1>9, <1>10, <1>11, <1>12, Zenon DEF G!Next, GP!Next
<1>14. UNCHANGED G!vars <=> UNCHANGED GP!vars
  BY DEF G!vars, GP!vars
<1> QED BY <1>1, <1>13, <1>14

\* With real frames, commands and replies: a lost connection makes no reader panic,
\* and once main and the command goroutine wait for each other nothing but a
\* log.Fatal gets them apart.
THEOREM BotEndsAsGoroutines == BotSpec => []G!QuietDisconnect /\ G!WaitIsForGood
<1>1. GP!GoroutinesAssumption
  BY IdsFacts, BotAssumption DEF GP!GoroutinesAssumption
<1>2. GP!Spec => []GP!QuietDisconnect /\ GP!WaitIsForGood
  BY <1>1, GP!DisconnectIsQuiet, GP!CircularWaitIsForGood
<1>3. BotSpec => GP!Spec
  BY BotImplementsGoroutines, SameGoroutines, PTL DEF ImplementsGoroutines, G!Spec, GP!Spec
<1>4. GP!QuietDisconnect => G!QuietDisconnect
  BY DEF GP!QuietDisconnect, G!QuietDisconnect
<1>5. [GP!CircularWait => GP!CircularWait' /\ status' \in {"running", "fatal"}]_(GP!vars)
        => [G!CircularWait => G!CircularWait' /\ status' \in {"running", "fatal"}]_(G!vars)
  BY SameGoroutines DEF GP!CircularWait, G!CircularWait, G!vars, GP!vars, G!readerVars,
     G!listenVars, G!handlerVars, G!mainVars, GP!readerVars, GP!listenVars,
     GP!handlerVars, GP!mainVars
<1> QED BY <1>2, <1>3, <1>4, <1>5, PTL DEF GP!WaitIsForGood, G!WaitIsForGood
==============================================================================
