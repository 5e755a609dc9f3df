-------------------------- MODULE GoroutinesProofs --------------------------
(****************************************************************************)
(* The four goroutines for frames and answers of any size.                  *)
(*                                                                          *)
(* QuietDisconnect is not inductive: it speaks of the moment after main has *)
(* left its loop, and holds because of what had to happen before, Listen's  *)
(* return, which in turn waits for the reader's.  EndsInOrder adds the two  *)
(* links of that chain.  WaitIsForGood needs only the types.                *)
(****************************************************************************)
EXTENDS Goroutines, TLAPS

LEMMA TypeInit == Init => TypeOK
  BY GoroutinesAssumption DEF Init, TypeOK, PlacesOK, CountsOK, FlagsOK

LEMMA PlacesStep == PlacesOK /\ [Next]_vars => PlacesOK'
<1> SUFFICES ASSUME PlacesOK, [Next]_vars PROVE PlacesOK'
  OBVIOUS
<1> USE DEF PlacesOK, readerVars, listenVars, handlerVars, mainVars
<1>1. CASE ReadFrame
  BY <1>1 DEF ReadFrame
<1>2. CASE ReadFails
  BY <1>2 DEF ReadFails
<1>3. CASE ReaderSends
  BY <1>3 DEF ReaderSends, HandlerTakes, CommandsClosed
<1>4. CASE ReaderPanics
  BY <1>4 DEF ReaderPanics, Ends
<1>5. CASE ListenRegisters
  BY <1>5 DEF ListenRegisters
<1>6. CASE ListenDone
  BY <1>6 DEF ListenDone
<1>7. CASE ListenInterrupt
  BY <1>7 DEF ListenInterrupt, Ends
<1>8. CASE ListenClosed
  BY <1>8 DEF ListenClosed
<1>9. CASE HandlerEnds
  BY <1>9 DEF HandlerEnds
<1>10. CASE HandlerPanics
  BY <1>10 DEF HandlerPanics, Ends
<1>11. CASE MainForwards
  BY <1>11 DEF MainForwards
<1>12. CASE MainTakesTick
  BY <1>12 DEF MainTakesTick
<1>13. CASE MainSendsTimer
  BY <1>13 DEF MainSendsTimer, HandlerTakes
<1>14. CASE MainDone
  BY <1>14 DEF MainDone
<1>15. CASE MainInterrupt
  BY <1>15 DEF MainInterrupt
<1>16. CASE CloseCommands
  BY <1>16 DEF CloseCommands
<1>17. CASE CloseMessages
  BY <1>17 DEF CloseMessages
<1>18. CASE Exit
  BY <1>18 DEF Exit, Ends
<1>19. CASE Ticker
  BY <1>19 DEF Ticker
<1>20. CASE Interrupt
  BY <1>20 DEF Interrupt
<1>21. CASE UNCHANGED vars
  BY <1>21 DEF vars
<1> QED
  BY <1>1, <1>2, <1>3, <1>4, <1>5, <1>6, <1>7,
     <1>8, <1>9, <1>10, <1>11, <1>12, <1>13, <1>14,
     <1>15, <1>16, <1>17, <1>18, <1>19, <1>20, <1>21
  DEF Next

LEMMA CountsStep == PlacesOK /\ CountsOK /\ [Next]_vars => CountsOK'
<1> SUFFICES ASSUME PlacesOK, CountsOK, [Next]_vars PROVE CountsOK'
  OBVIOUS
<1> USE GoroutinesAssumption DEF PlacesOK, CountsOK, readerVars, listenVars, handlerVars, mainVars
<1>t. ASSUME NEW n \in 0..MaxReplies, HandlerTakes(n)
      PROVE  IF handler' = "emit" THEN replies' \in 1..MaxReplies ELSE replies' = 0
  BY <1>t DEF HandlerTakes
<1>1. CASE ReadFrame
  <2>1. left' \in 1..MaxBatch
    BY <1>1 DEF ReadFrame
  <2>2. reader' = "send" /\ UNCHANGED handlerVars
    BY <1>1 DEF ReadFrame
  <2> QED BY <2>1, <2>2
<1>2. CASE ReadFails
  BY <1>2 DEF ReadFails
<1>3. CASE ReaderSends
  <2>1. left \in 1..MaxBatch /\ left' = left - 1
    BY <1>3 DEF ReaderSends
  <2>2. reader' = IF left = 1 THEN "read" ELSE "send"
    BY <1>3 DEF ReaderSends
  <2>3. IF reader' = "send" THEN left' \in 1..MaxBatch ELSE left' = 0
    BY <2>1, <2>2
  <2>4. PICK n \in 0..MaxReplies : HandlerTakes(n)
    BY <1>3 DEF ReaderSends
  <2> QED BY <1>t, <2>3, <2>4
<1>4. CASE ReaderPanics
  BY <1>4 DEF ReaderPanics, Ends
<1>5. CASE ListenRegisters
  BY <1>5 DEF ListenRegisters
<1>6. CASE ListenDone
  BY <1>6 DEF ListenDone
<1>7. CASE ListenInterrupt
  BY <1>7 DEF ListenInterrupt, Ends
<1>8. CASE ListenClosed
  BY <1>8 DEF ListenClosed
<1>9. CASE HandlerEnds
  BY <1>9 DEF HandlerEnds
<1>10. CASE HandlerPanics
  BY <1>10 DEF HandlerPanics, Ends
<1>11. CASE MainForwards
  <2>1. replies \in 1..MaxReplies /\ replies' = replies - 1
    BY <1>11 DEF MainForwards
  <2>2. handler' = IF replies = 1 THEN "recv" ELSE "emit"
    BY <1>11 DEF MainForwards
  <2>3. IF handler' = "emit" THEN replies' \in 1..MaxReplies ELSE replies' = 0
    BY <2>1, <2>2
  <2>4. UNCHANGED readerVars
    BY <1>11 DEF MainForwards
  <2> QED BY <2>3, <2>4
<1>12. CASE MainTakesTick
  BY <1>12 DEF MainTakesTick
<1>13. CASE MainSendsTimer
  <2>1. PICK n \in 0..1 : HandlerTakes(n)
    BY <1>13 DEF MainSendsTimer
  <2>2. UNCHANGED readerVars
    BY <1>13 DEF MainSendsTimer
  <2> QED BY <1>t, <2>1, <2>2
<1>14. CASE MainDone
  BY <1>14 DEF MainDone
<1>15. CASE MainInterrupt
  BY <1>15 DEF MainInterrupt
<1>16. CASE CloseCommands
  BY <1>16 DEF CloseCommands
<1>17. CASE CloseMessages
  BY <1>17 DEF CloseMessages
<1>18. CASE Exit
  BY <1>18 DEF Exit, Ends
<1>19. CASE Ticker
  BY <1>19 DEF Ticker
<1>20. CASE Interrupt
  BY <1>20 DEF Interrupt
<1>21. CASE UNCHANGED vars
  BY <1>21 DEF vars
<1> QED
  BY <1>1, <1>2, <1>3, <1>4, <1>5, <1>6, <1>7,
     <1>8, <1>9, <1>10, <1>11, <1>12, <1>13, <1>14,
     <1>15, <1>16, <1>17, <1>18, <1>19, <1>20, <1>21
  DEF Next

LEMMA FlagsStep == FlagsOK /\ [Next]_vars => FlagsOK'
<1> SUFFICES ASSUME FlagsOK, [Next]_vars PROVE FlagsOK'
  OBVIOUS
<1> USE DEF FlagsOK, readerVars, listenVars, handlerVars, mainVars
<1>1. CASE ReadFrame
  BY <1>1 DEF ReadFrame
<1>2. CASE ReadFails
  BY <1>2 DEF ReadFails
<1>3. CASE ReaderSends
  BY <1>3 DEF ReaderSends
<1>4. CASE ReaderPanics
  BY <1>4 DEF ReaderPanics, Ends
<1>5. CASE ListenRegisters
  BY <1>5 DEF ListenRegisters
<1>6. CASE ListenDone
  BY <1>6 DEF ListenDone
<1>7. CASE ListenInterrupt
  BY <1>7 DEF ListenInterrupt, Ends
<1>8. CASE ListenClosed
  BY <1>8 DEF ListenClosed
<1>9. CASE HandlerEnds
  BY <1>9 DEF HandlerEnds
<1>10. CASE HandlerPanics
  BY <1>10 DEF HandlerPanics, Ends
<1>11. CASE MainForwards
  BY <1>11 DEF MainForwards
<1>12. CASE MainTakesTick
  BY <1>12 DEF MainTakesTick
<1>13. CASE MainSendsTimer
  BY <1>13 DEF MainSendsTimer
<1>14. CASE MainDone
  BY <1>14 DEF MainDone
<1>15. CASE MainInterrupt
  BY <1>15 DEF MainInterrupt
<1>16. CASE CloseCommands
  BY <1>16 DEF CloseCommands
<1>17. CASE CloseMessages
  BY <1>17 DEF CloseMessages
<1>18. CASE Exit
  BY <1>18 DEF Exit, Ends
<1>19. CASE Ticker
  BY <1>19 DEF Ticker
<1>20. CASE Interrupt
  BY <1>20 DEF Interrupt
<1>21. CASE UNCHANGED vars
  BY <1>21 DEF vars
<1> QED
  BY <1>1, <1>2, <1>3, <1>4, <1>5, <1>6, <1>7,
     <1>8, <1>9, <1>10, <1>11, <1>12, <1>13, <1>14,
     <1>15, <1>16, <1>17, <1>18, <1>19, <1>20, <1>21
  DEF Next

LEMMA TypeStep == TypeOK /\ [Next]_vars => TypeOK'
  BY PlacesStep, CountsStep, FlagsStep DEF TypeOK


\* Every variable stays in its type; a frame has commands left exactly while
\* the reader sends, and replies are due exactly while the handler emits.
THEOREM TypeCorrect == Spec => []TypeOK
  BY TypeInit, TypeStep, PTL DEF Spec

----------------------------------------------------------------------------
\* Listen returns after the reader; main is done after Listen.
EndsInOrder ==
  /\ listen = "returned" => reader = "dead"
  /\ cause = "done" => listen = "returned"
  /\ cause = "none" <=> main \in {"select", "timer"}
  /\ status = "readerPanic" => reader = "send"

LEMMA OrderInit == Init => EndsInOrder
  BY DEF Init, EndsInOrder

LEMMA OrderStep == TypeOK /\ EndsInOrder /\ [Next]_vars => EndsInOrder'
<1> SUFFICES ASSUME TypeOK, EndsInOrder, [Next]_vars PROVE EndsInOrder'
  OBVIOUS
<1> USE DEF TypeOK, PlacesOK, CountsOK, EndsInOrder, Running, readerVars, listenVars, handlerVars, mainVars
<1>1. CASE ReadFrame
  BY <1>1 DEF ReadFrame
<1>2. CASE ReadFails
  BY <1>2 DEF ReadFails
<1>3. CASE ReaderSends
  BY <1>3 DEF ReaderSends
<1>4. CASE ReaderPanics
  BY <1>4 DEF ReaderPanics, Ends, CommandsClosed
<1>5. CASE ListenRegisters
  BY <1>5 DEF ListenRegisters
<1>6. CASE ListenDone
  BY <1>6 DEF ListenDone
<1>7. CASE ListenInterrupt
  BY <1>7 DEF ListenInterrupt, Ends
<1>8. CASE ListenClosed
  BY <1>8 DEF ListenClosed
<1>9. CASE HandlerEnds
  BY <1>9 DEF HandlerEnds
<1>10. CASE HandlerPanics
  BY <1>10 DEF HandlerPanics, Ends
<1>11. CASE MainForwards
  BY <1>11 DEF MainForwards
<1>12. CASE MainTakesTick
  BY <1>12 DEF MainTakesTick
<1>13. CASE MainSendsTimer
  BY <1>13 DEF MainSendsTimer
<1>14. CASE MainDone
  BY <1>14 DEF MainDone
<1>15. CASE MainInterrupt
  BY <1>15 DEF MainInterrupt
<1>16. CASE CloseCommands
  BY <1>16 DEF CloseCommands
<1>17. CASE CloseMessages
  BY <1>17 DEF CloseMessages
<1>18. CASE Exit
  BY <1>18 DEF Exit, Ends
<1>19. CASE Ticker
  BY <1>19 DEF Ticker
<1>20. CASE Interrupt
  BY <1>20 DEF Interrupt
<1>21. CASE UNCHANGED vars
  BY <1>21 DEF vars
<1> QED
  BY <1>1, <1>2, <1>3, <1>4, <1>5, <1>6, <1>7,
     <1>8, <1>9, <1>10, <1>11, <1>12, <1>13, <1>14,
     <1>15, <1>16, <1>17, <1>18, <1>19, <1>20, <1>21
  DEF Next

\* No goroutine panics on close(commands) when the connection ended by itself.
THEOREM DisconnectIsQuiet == Spec => []QuietDisconnect
<1>1. EndsInOrder => QuietDisconnect
  BY DEF EndsInOrder, QuietDisconnect
<1> QED BY <1>1, TypeInit, TypeStep, OrderInit, OrderStep, PTL DEF Spec

----------------------------------------------------------------------------
LEMMA WaitStep ==
  TypeOK /\ [Next]_vars =>
    (CircularWait => CircularWait' /\ status' \in {"running", "fatal"}) \/ UNCHANGED vars
<1> SUFFICES ASSUME TypeOK, [Next]_vars, CircularWait, ~UNCHANGED vars
             PROVE  CircularWait' /\ status' \in {"running", "fatal"}
  OBVIOUS
<1> USE DEF TypeOK, PlacesOK, CountsOK, CircularWait, Running, readerVars, listenVars, handlerVars, mainVars
<1>1. CASE ReadFrame
  BY <1>1 DEF ReadFrame
<1>2. CASE ReadFails
  BY <1>2 DEF ReadFails
<1>3. CASE ReaderSends
  BY <1>3 DEF ReaderSends, HandlerTakes, CommandsClosed
<1>4. CASE ReaderPanics
  BY <1>4 DEF ReaderPanics, Ends, CommandsClosed
<1>5. CASE ListenRegisters
  BY <1>5 DEF ListenRegisters
<1>6. CASE ListenDone
  BY <1>6 DEF ListenDone
<1>7. CASE ListenInterrupt
  BY <1>7 DEF ListenInterrupt, Ends
<1>8. CASE ListenClosed
  BY <1>8 DEF ListenClosed
<1>9. CASE HandlerEnds
  BY <1>9 DEF HandlerEnds
<1>10. CASE HandlerPanics
  BY <1>10 DEF HandlerPanics, Ends, MessagesClosed
<1>11. CASE MainForwards
  BY <1>11 DEF MainForwards
<1>12. CASE MainTakesTick
  BY <1>12 DEF MainTakesTick
<1>13. CASE MainSendsTimer
  BY <1>13 DEF MainSendsTimer, HandlerTakes
<1>14. CASE MainDone
  BY <1>14 DEF MainDone
<1>15. CASE MainInterrupt
  BY <1>15 DEF MainInterrupt
<1>16. CASE CloseCommands
  BY <1>16 DEF CloseCommands
<1>17. CASE CloseMessages
  BY <1>17 DEF CloseMessages
<1>18. CASE Exit
  BY <1>18 DEF Exit, Ends
<1>19. CASE Ticker
  BY <1>19 DEF Ticker
<1>20. CASE Interrupt
  BY <1>20 DEF Interrupt
<1> QED
  BY <1>1, <1>2, <1>3, <1>4, <1>5, <1>6, <1>7,
     <1>8, <1>9, <1>10, <1>11, <1>12, <1>13, <1>14,
     <1>15, <1>16, <1>17, <1>18, <1>19, <1>20
  DEF Next

\* Main and the handler, once they wait for each other, do so until the process
\* ends, and only log.Fatal ends it.
THEOREM CircularWaitIsForGood == Spec => WaitIsForGood
<1>1. TypeOK /\ [Next]_vars =>
        [CircularWait => CircularWait' /\ status' \in {"running", "fatal"}]_vars
  BY WaitStep
<1> QED BY <1>1, TypeInit, TypeStep, PTL DEF Spec, WaitIsForGood
==============================================================================
