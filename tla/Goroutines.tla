----------------------------- MODULE Goroutines -----------------------------
(****************************************************************************)
(* The four goroutines of the running bot and the channels between them,    *)
(* from the moment the websocket is open to the end of the process:         *)
(*                                                                          *)
(*   reader   reads frames, sends commands (websocket.go, started by Listen)*)
(*   listen   Listen's own loop: the reader's end, and Ctrl-C               *)
(*   handler  the command goroutine of main.go, CommandLoop in detail       *)
(*   main     MakeConnection's loop and the two close calls after it        *)
(*                                                                          *)
(* The channels commands and messages are unbuffered: a send and its        *)
(* receive are one step, possible only when the receiver is waiting.  A     *)
(* chat or timer command is abstracted to the number of replies it causes.  *)
(* Writing to the websocket is taken to return; keepalives, which change    *)
(* nothing here, and frames that cause no command are left out.             *)
(****************************************************************************)
EXTENDS Naturals

CONSTANTS MaxBatch,   \* most people one roster frame adds and removes
          MaxReplies  \* most replies to one command

\* /stop is answered with up to three messages.
ASSUME GoroutinesAssumption == MaxBatch \in Nat \ {0} /\ MaxReplies \in Nat /\ MaxReplies >= 3

VARIABLES reader,     \* "read", "send" or "dead"
          frame,      \* kind of the frame last decoded, "roster" or "chat"
          left,       \* commands of that frame still to be sent
          listen,     \* "starting", "select", "closing" or "returned"
          handler,    \* "recv", "emit" or "ended"
          replies,    \* replies the handler has yet to send
          main,       \* "select", "timer", "leaving", "closed" or "over"
          cause,      \* why main left its loop: "none", "done" or "interrupt"
          tick,       \* the ticker's channel holds a tick (its buffer is 1)
          sigMain,    \* a signal waits for main, and for listen (buffers of 1)
          sigListen,
          closeSent,  \* the websocket close message has been written
          status      \* "running", or how the process ended

readerVars == <<reader, frame, left>>
listenVars == <<listen, sigListen, closeSent>>
handlerVars == <<handler, replies>>
mainVars == <<main, cause, tick, sigMain>>
vars == <<readerVars, listenVars, handlerVars, mainVars, status>>

Running == status = "running"

\* close(commands) and close(messages) have been executed.
CommandsClosed == main \in {"closed", "over"}
MessagesClosed == main = "over"

----------------------------------------------------------------------------
\* The ticker and the signal are older than the websocket (MakeConnection): a
\* tick, and a Ctrl-C pressed in the handshake, may be waiting already.
Init ==
  /\ reader = "read"
  /\ frame = "roster"
  /\ left = 0
  /\ listen = "starting"
  /\ handler = "recv"
  /\ replies = 0
  /\ main = "select"
  /\ cause = "none"
  /\ tick \in BOOLEAN
  /\ sigMain \in BOOLEAN
  /\ sigListen = FALSE
  /\ closeSent = FALSE
  /\ status = "running"

\* The process ends; a panic or log.Fatal takes every goroutine with it.
Ends(how) ==
  /\ status' = how
  /\ UNCHANGED <<readerVars, listenVars, handlerVars, mainVars>>

\* The handler is waiting and takes a command that causes n replies.
HandlerTakes(n) ==
  /\ handler = "recv"
  /\ replies' = n
  /\ handler' = IF n = 0 THEN "recv" ELSE "emit"

----------------------------------------------------------------------------
\* The reader goroutine.
ReadFrame ==
  /\ Running /\ reader = "read"
  /\ \/ frame' = "roster" /\ left' \in 1..MaxBatch
     \/ frame' = "chat" /\ left' = 1
  /\ reader' = "send"
  /\ UNCHANGED <<listenVars, handlerVars, mainVars, status>>

\* The connection fails or is closed, a frame is not JSON, or the body of the
\* join response is not what it should be: the goroutine returns.
ReadFails ==
  /\ Running /\ reader = "read"
  /\ reader' = "dead"
  /\ UNCHANGED <<frame, left, listenVars, handlerVars, mainVars, status>>

\* command <- Data: a roster change has no reply, a chat message up to
\* MaxReplies of them.
ReaderSends ==
  /\ Running /\ reader = "send" /\ ~CommandsClosed
  /\ \E n \in IF frame = "roster" THEN {0} ELSE 0..MaxReplies : HandlerTakes(n)
  /\ left' = left - 1
  /\ reader' = IF left = 1 THEN "read" ELSE "send"
  /\ UNCHANGED <<frame, listenVars, mainVars, status>>

\* Sending on a closed channel, and so does a send blocked when it is closed.
ReaderPanics ==
  /\ Running /\ reader = "send" /\ CommandsClosed
  /\ Ends("readerPanic")

----------------------------------------------------------------------------
\* Listen.
ListenRegisters ==
  /\ Running /\ listen = "starting"
  /\ listen' = "select"
  /\ UNCHANGED <<readerVars, sigListen, closeSent, handlerVars, mainVars, status>>

\* case <-done: the reader has returned; so does Listen, and main's done is closed.
ListenDone ==
  /\ Running /\ listen = "select" /\ reader = "dead"
  /\ listen' = "returned"
  /\ UNCHANGED <<readerVars, sigListen, closeSent, handlerVars, mainVars, status>>

\* The mutant does not wait for the reader after the close message.
ListenInterruptNoWait ==
  /\ Running /\ listen = "select" /\ sigListen
  /\ \/ /\ listen' = "returned"
        /\ closeSent' = TRUE
        /\ sigListen' = FALSE
        /\ UNCHANGED <<readerVars, handlerVars, mainVars, status>>
     \/ Ends("fatal")

\* case <-interrupt: the close message is written, or the error of writing it
\* is returned and ends the process in log.Fatal.
ListenInterrupt ==
  /\ Running /\ listen = "select" /\ sigListen
  /\ \/ /\ listen' = "closing"
        /\ closeSent' = TRUE
        /\ sigListen' = FALSE
        /\ UNCHANGED <<readerVars, handlerVars, mainVars, status>>
     \/ Ends("fatal")

\* <-done after the close message.
ListenClosed ==
  /\ Running /\ listen = "closing" /\ reader = "dead"
  /\ listen' = "returned"
  /\ UNCHANGED <<readerVars, sigListen, closeSent, handlerVars, mainVars, status>>

----------------------------------------------------------------------------
\* The handler: range over commands ends, messages <- panics.  What it receives
\* and sends is in the actions of its partner.
HandlerEnds ==
  /\ Running /\ handler = "recv" /\ CommandsClosed
  /\ handler' = "ended"
  /\ UNCHANGED <<readerVars, listenVars, replies, mainVars, status>>

HandlerPanics ==
  /\ Running /\ handler = "emit" /\ MessagesClosed
  /\ Ends("handlerPanic")

----------------------------------------------------------------------------
\* Main.  Its select takes any branch that is ready.

\* Mutants: the last reply is not counted off; replies wait until the reader has
\* nothing to send.
MainForwardsStays ==
  /\ Running /\ main = "select" /\ handler = "emit"
  /\ replies' = replies - 1
  /\ UNCHANGED <<handler, readerVars, listenVars, mainVars, status>>

MainForwardsLast ==
  /\ Running /\ main = "select" /\ handler = "emit" /\ reader # "send"
  /\ replies' = replies - 1
  /\ handler' = IF replies = 1 THEN "recv" ELSE "emit"
  /\ UNCHANGED <<readerVars, listenVars, mainVars, status>>

\* case data := <-action, with the chat message sent.
MainForwards ==
  /\ Running /\ main = "select" /\ handler = "emit"
  /\ replies' = replies - 1
  /\ handler' = IF replies = 1 THEN "recv" ELSE "emit"
  /\ UNCHANGED <<readerVars, listenVars, mainVars, status>>

\* case <-votingStatusTicket.C, up to the send of the timer command ...
MainTakesTick ==
  /\ Running /\ main = "select" /\ tick
  /\ tick' = FALSE
  /\ main' = "timer"
  /\ UNCHANGED <<readerVars, listenVars, handlerVars, cause, sigMain, status>>

\* ... and that send; a status report is at most one reply.  The mutant gives
\* up when the handler is not waiting.
MainSendsTimerOrNot ==
  /\ Running /\ main = "timer"
  /\ \/ \E n \in 0..1 : HandlerTakes(n)
     \/ handler # "recv" /\ UNCHANGED handlerVars
  /\ main' = "select"
  /\ UNCHANGED <<readerVars, listenVars, cause, tick, sigMain, status>>

MainSendsTimer ==
  /\ Running /\ main = "timer"
  /\ \E n \in 0..1 : HandlerTakes(n)
  /\ main' = "select"
  /\ UNCHANGED <<readerVars, listenVars, cause, tick, sigMain, status>>

\* case <-done and case <-interrupt return from MakeConnection.  The mutants
\* break, which leaves the select and not the loop.
MainDoneBreaks ==
  /\ Running /\ main = "select" /\ listen = "returned"
  /\ UNCHANGED vars

MainDone ==
  /\ Running /\ main = "select" /\ listen = "returned"
  /\ main' = "leaving"
  /\ cause' = "done"
  /\ UNCHANGED <<readerVars, listenVars, handlerVars, tick, sigMain, status>>

MainInterruptBreaks ==
  /\ Running /\ main = "select" /\ sigMain
  /\ sigMain' = FALSE
  /\ UNCHANGED <<readerVars, listenVars, handlerVars, main, cause, tick, status>>

MainInterrupt ==
  /\ Running /\ main = "select" /\ sigMain
  /\ sigMain' = FALSE
  /\ main' = "leaving"
  /\ cause' = "interrupt"
  /\ UNCHANGED <<readerVars, listenVars, handlerVars, tick, status>>

CloseCommands ==
  /\ Running /\ main = "leaving"
  /\ main' = "closed"
  /\ UNCHANGED <<readerVars, listenVars, handlerVars, cause, tick, sigMain, status>>

CloseMessages ==
  /\ Running /\ main = "closed"
  /\ main' = "over"
  /\ UNCHANGED <<readerVars, listenVars, handlerVars, cause, tick, sigMain, status>>

\* main returns, and with it the process.
Exit == Running /\ main = "over" /\ Ends("exited")

----------------------------------------------------------------------------
\* Outside: the ticker, stopped when main leaves its loop, and Ctrl-C, which
\* reaches the channels registered so far.
Ticker ==
  /\ Running /\ main \in {"select", "timer"} /\ ~tick
  /\ tick' = TRUE
  /\ UNCHANGED <<readerVars, listenVars, handlerVars, main, cause, sigMain, status>>

Interrupt ==
  /\ Running
  /\ sigMain' = TRUE
  /\ sigListen' = (sigListen \/ listen # "starting")
  /\ UNCHANGED <<readerVars, listen, closeSent, handlerVars, main, cause, tick, status>>

Next ==
  \/ ReadFrame \/ ReadFails \/ ReaderSends \/ ReaderPanics
  \/ ListenRegisters \/ ListenDone \/ ListenInterrupt \/ ListenClosed
  \/ HandlerEnds \/ HandlerPanics
  \/ MainForwards \/ MainTakesTick \/ MainSendsTimer \/ MainDone \/ MainInterrupt
  \/ CloseCommands \/ CloseMessages \/ Exit
  \/ Ticker \/ Interrupt

Spec == Init /\ [][Next]_vars

\* A goroutine that can run does.  Go's select chooses at random among the
\* ready branches, and blocked senders queue up in order, hence SF for those.
\* Nothing is assumed of the ticker, the server and Ctrl-C.
Fairness ==
  /\ SF_vars(ReaderSends) /\ SF_vars(MainSendsTimer)
  /\ SF_vars(MainForwards) /\ SF_vars(MainTakesTick)
  /\ SF_vars(MainDone) /\ SF_vars(MainInterrupt)
  /\ SF_vars(ListenDone) /\ SF_vars(ListenInterrupt)
  /\ WF_vars(ListenRegisters) /\ WF_vars(ListenClosed)
  /\ WF_vars(ReaderPanics) /\ WF_vars(HandlerPanics) /\ WF_vars(HandlerEnds)
  /\ WF_vars(CloseCommands) /\ WF_vars(CloseMessages) /\ WF_vars(Exit)

FairSpec == Spec /\ Fairness

----------------------------------------------------------------------------
PlacesOK ==
  /\ reader \in {"read", "send", "dead"}
  /\ frame \in {"roster", "chat"}
  /\ listen \in {"starting", "select", "closing", "returned"}
  /\ handler \in {"recv", "emit", "ended"}
  /\ main \in {"select", "timer", "leaving", "closed", "over"}
  /\ cause \in {"none", "done", "interrupt"}
  /\ status \in {"running", "exited", "fatal", "readerPanic", "handlerPanic"}

CountsOK ==
  /\ IF reader = "send" THEN left \in 1..MaxBatch ELSE left = 0
  /\ IF handler = "emit" THEN replies \in 1..MaxReplies ELSE replies = 0

FlagsOK == tick \in BOOLEAN /\ sigMain \in BOOLEAN /\ sigListen \in BOOLEAN /\ closeSent \in BOOLEAN

TypeOK == PlacesOK /\ CountsOK /\ FlagsOK

\* Main waits for the handler to take the timer command, the handler for main
\* to take a reply.
CircularWait == main = "timer" /\ handler = "emit"

\* Once main and the handler wait for each other nothing the reader, Listen,
\* the ticker or Ctrl-C does gets them apart; only a log.Fatal ends the process.
\* (The send in the ticker's branch of MakeConnection's select.)
WaitIsForGood ==
  [][CircularWait => CircularWait' /\ status' \in {"running", "fatal"}]_vars

\* When main leaves because the connection is gone, nobody can send on commands
\* any more, so that close(commands) makes no goroutine panic: Listen signals
\* done only after the reader has returned.
QuietDisconnect ==
  cause = "done" => reader = "dead" /\ listen = "returned" /\ status # "readerPanic"

\* A reply reaches main or the process ends, unless there is a circular wait.
\* In particular a backlog of commands or of ticks does not starve replies.
ReplyForwarded == handler = "emit" ~> handler # "emit" \/ ~Running \/ CircularWait

\* The bot does not outlive its connection, or a Ctrl-C, with the same exception.
DisconnectEnds == reader = "dead" ~> ~Running \/ CircularWait

InterruptEnds == sigMain ~> ~Running \/ CircularWait

----------------------------------------------------------------------------
\* What the comments promise and the code does not keep.

\* "create the output channel that sends results back to the main function"
\* (main.go): every result gets there, or the process ends.
EveryReplyArrives == handler = "emit" ~> handler # "emit" \/ ~Running

\* "Cleanly close the connection by sending a close message" (Listen): an
\* interrupted bot has done so when its process returns from main.
CleanClose == status = "exited" /\ cause = "interrupt" => closeSent
==============================================================================
