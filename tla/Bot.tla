--------------------------------- MODULE Bot ---------------------------------
(****************************************************************************)
(* The running bot as a whole: the reader (websocket.go) with real frames,  *)
(* the command goroutine with its voting, in every detail of CommandLoop,   *)
(* and main forwarding its replies and sending the timer command (main.go). *)
(* Goroutines, which only counts commands and replies, is what this module  *)
(* implements; the steps in which only Listen, the channels or the end of   *)
(* the process matter are taken from there.                                 *)
(*                                                                          *)
(* session.JoinInfo is stored by the reader and read by main whenever it    *)
(* sends a chat message, without synchronisation (websocket.go, requests.go)*)
(* A store is two steps, so that a read can fall in between.  Zoom is taken *)
(* to answer the join once, before anything else.  The bot's own entry in   *)
(* roster frames is the subject of Roster.                                  *)
(****************************************************************************)
EXTENDS CommandLoop

CONSTANTS Words,    \* what people type besides numbers; a bound, for TLC
          MaxBatch  \* most entries of a roster frame; a bound, for TLC

ASSUME BotAssumption ==
  /\ MaxBatch \in Nat \ {0}
  /\ Words \subseteq {"skip", "unknown", "start", "stop", "ready", "recap"}
  /\ IsFiniteSet(Ids) /\ Ids # {}

VARIABLES queue,     \* the commands of the frame last read, still to be sent
          ended,     \* the command goroutine has returned
          joinInfo,  \* "none", "storing" or "stored"
          nameless,  \* history: main sent a chat message without a good JoinInfo
          reader, frame, listen, sigListen, closeSent,  \* as in Goroutines
          main, cause, tick, sigMain, status

G == INSTANCE Goroutines WITH
       MaxReplies <- 3 + Cardinality(Ids),
       handler <- IF ended THEN "ended" ELSE IF outbox = <<>> THEN "recv" ELSE "emit",
       replies <- Len(outbox),
       left <- Len(queue)

listenVars == <<listen, sigListen, closeSent>>
mainVars == <<main, cause, tick, sigMain>>
restVars == <<listenVars, joinInfo, ended, status>>
botVars == <<vars, queue, ended, joinInfo, nameless, reader, frame, listenVars, mainVars, status>>

----------------------------------------------------------------------------
\* Data values that the reader sends.
Joins(id, name) == [key |-> "zoom:add", id |-> id, name |-> name]
Leaves(id) == [key |-> "zoom:remove", id |-> id]
Chat(word, id) == [key |-> word, id |-> id]
Number(id, text) == [key |-> "number", id |-> id, text |-> text]

Chats ==
  {Chat(word, id) : word \in Words, id \in Ids}
    \cup {Number(id, text) : id \in Ids, text \in Texts}

Additions == {Joins(id, name) : id \in Ids, name \in Names}
Removals == {Leaves(id) : id \in Ids}

\* The commands of a roster frame: whatever entries it adds, each with its own
\* name, and then whatever it removes, in any order and any number of times.
RosterFrames ==
  {f \in BoundedSeq(Additions \cup Removals, MaxBatch) :
     /\ f # <<>>
     /\ \A i, j \in DOMAIN f : i < j /\ f[i] \in Removals => f[j] \in Removals}

\* The switch of the command goroutine.
Handle(c) ==
  \/ c.key = "zoom:add" /\ RosterAdd(c.id, c.name)
  \/ c.key = "zoom:remove" /\ RosterRemove(c.id)
  \/ c.key = "skip" /\ ChatSkip(c.id)
  \/ c.key = "number" /\ ChatVote(c.id, c.text)
  \/ c.key = "unknown" /\ ChatUnknown(c.id)
  \/ c.key = "start" /\ ChatStart
  \/ c.key = "stop" /\ ChatStop
  \/ c.key = "ready" /\ ChatReady(c.id)
  \/ c.key = "recap" /\ ChatRecap(c.id)

----------------------------------------------------------------------------
BotInit ==
  /\ Init
  /\ queue = <<>>
  /\ ended = FALSE
  /\ joinInfo = "none"
  /\ nameless = FALSE
  /\ G!Init

\* The reader.  The join response fills session.JoinInfo and is no command.
StoreJoinInfo ==
  /\ G!Running /\ reader = "read"
  /\ \/ joinInfo = "none" /\ joinInfo' = "storing"
     \/ joinInfo = "storing" /\ joinInfo' = "stored"
  /\ UNCHANGED <<vars, queue, ended, nameless, reader, frame, listenVars, mainVars, status>>

ReadFrame ==
  /\ G!Running /\ reader = "read" /\ joinInfo = "stored"
  /\ \/ frame' = "roster" /\ queue' \in RosterFrames
     \/ frame' = "chat" /\ queue' \in {<<c>> : c \in Chats}
  /\ reader' = "send"
  /\ UNCHANGED <<vars, nameless, restVars, mainVars>>

\* The command goroutine receives from the reader.
ReaderSends ==
  /\ G!Running /\ reader = "send" /\ ~G!CommandsClosed /\ ~ended
  /\ Handle(Head(queue))
  /\ queue' = Tail(queue)
  /\ reader' = IF queue' = <<>> THEN "read" ELSE "send"
  /\ UNCHANGED <<nameless, frame, restVars, mainVars>>

\* ... and from main.  The mutant does not wait for a command goroutine that is
\* busy: it drops the timer command.
MainSendsTimerOrNot ==
  /\ G!Running /\ main = "timer"
  /\ \/ ~ended /\ TimerStatus
     \/ pc # "idle" /\ UNCHANGED vars
  /\ main' = "select"
  /\ UNCHANGED <<queue, nameless, reader, frame, restVars, cause, tick, sigMain>>

MainSendsTimer ==
  /\ G!Running /\ main = "timer" /\ ~ended
  /\ TimerStatus
  /\ main' = "select"
  /\ UNCHANGED <<queue, nameless, reader, frame, restVars, cause, tick, sigMain>>

\* Main receives a reply and sends it as a chat message, with the ZoomID of the
\* session's JoinInfo.
MainForwards ==
  /\ G!Running /\ main = "select"
  /\ Deliver
  /\ nameless' = (nameless \/ joinInfo # "stored")
  /\ UNCHANGED <<queue, reader, frame, restVars, mainVars>>

HandlerEnds ==
  /\ G!Running /\ ~ended /\ pc = "idle" /\ G!CommandsClosed
  /\ ended' = TRUE
  /\ UNCHANGED <<vars, queue, joinInfo, nameless, reader, frame, listenVars, mainVars, status>>

\* Nobody else touches the voting, the queue and the session.
Apart == UNCHANGED <<vars, queue, ended, joinInfo, nameless>>

ReadFails == joinInfo # "storing" /\ Apart /\ G!ReadFails
MainTakesTick == Apart /\ G!MainTakesTick
MainDone == Apart /\ G!MainDone
MainInterrupt == Apart /\ G!MainInterrupt
ListenDone == Apart /\ G!ListenDone
ListenInterrupt == Apart /\ G!ListenInterrupt
Ticker == Apart /\ G!Ticker

\* What the goroutines do alone and always can.
GoesOn ==
  /\ Apart
  /\ \/ G!ListenRegisters \/ G!ListenClosed
     \/ G!ReaderPanics \/ G!HandlerPanics
     \/ G!CloseCommands \/ G!CloseMessages \/ G!Exit

\* One Ctrl-C; a second one is left to Goroutines.
Interrupt ==
  /\ ~sigMain /\ ~sigListen /\ ~closeSent /\ cause # "interrupt"
  /\ Apart
  /\ G!Interrupt

Second ==
  /\ G!Running
  /\ SecondPasses
  /\ UNCHANGED <<queue, nameless, reader, frame, restVars, mainVars>>

BotNext ==
  \/ StoreJoinInfo \/ ReadFrame \/ ReadFails \/ ReaderSends
  \/ MainForwards \/ MainTakesTick \/ MainSendsTimer \/ MainDone \/ MainInterrupt
  \/ ListenDone \/ ListenInterrupt \/ HandlerEnds \/ GoesOn
  \/ Ticker \/ Interrupt \/ Second

BotSpec == BotInit /\ [][BotNext]_botVars

\* Of the fairness in Goroutines, what main's loop and the sends on commands
\* have; and the ticker ticks.
BotFairSpec ==
  /\ BotSpec
  /\ SF_botVars(ReaderSends) /\ SF_botVars(MainSendsTimer)
  /\ SF_botVars(MainForwards) /\ SF_botVars(MainTakesTick)
  /\ WF_botVars(Ticker)

----------------------------------------------------------------------------
\* Seen from outside, the bot does nothing but what Goroutines lets it do: no
\* command causes more replies, in other places or at other times.
ImplementsGoroutines == G!Spec

\* Main never reads session.JoinInfo before or while the reader stores it, though
\* no lock keeps it from doing so: whatever makes main send a message goes back,
\* over two channels, to a frame the reader read later.
JoinInfoIsStored == ~nameless

Stopping == main \in {"leaving", "closed", "over"} \/ ~G!Running

\* A vote that was accepted is reported, or the voting is closed: what
\* CommandLoop assumes of main and the ticker is what they do, unless the bot is
\* shutting down or main and the command goroutine wait for each other for good.
VoteIsReported == <>[]G!CircularWait \/ (unreported ~> ~unreported \/ Stopping)
==============================================================================
