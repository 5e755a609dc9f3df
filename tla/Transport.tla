------------------------------ MODULE Transport ------------------------------
(****************************************************************************)
(* Writing to the one websocket connection: ZoomSession.SendMessage         *)
(* (message.go), called by main for chat messages and by Listen for the     *)
(* keepalive, and the close message that Listen writes itself when it is    *)
(* interrupted (websocket.go).                                              *)
(*                                                                          *)
(* SendMessage holds the session's mutex from the increment of the sequence *)
(* number to the end of the write.  A write is two steps, its beginning and *)
(* its end, so that two of them can overlap.  Its error is ignored by every *)
(* caller of SendMessage.  Bodies are left out: the two kinds that are sent *)
(* always marshal.                                                          *)
(****************************************************************************)
EXTENDS Naturals, Sequences, FiniteSets

CONSTANTS Senders,    \* goroutines that call SendMessage
          Listen,     \* the one of them that also writes the close message
          SeqModulus, \* sendSequenceNumber is a uint32: 2^32
          MaxCalls,   \* bound on calls of SendMessage, for TLC
          Nobody      \* the mutex is free

ASSUME TransportAssumption ==
  /\ Listen \in Senders /\ Nobody \notin Senders
  /\ SeqModulus \in Nat \ {0} /\ MaxCalls \in Nat

VARIABLES pc,        \* per goroutine: "idle", "lock", "number", "marshalled",
                     \* "writing", and for Listen "closing", "waiting"
          mutex,     \* who holds session.mutex
          seq,       \* session.sendSequenceNumber
          number,    \* per goroutine: the number in the message it builds
          wire,      \* sequence numbers written, in order
          calls,     \* calls of SendMessage so far
          closeSent, \* the close message has been written
          status     \* "running", "fatal" or "panic"

session == <<mutex, seq, number>>
vars == <<pc, session, wire, calls, closeSent, status>>

Running == status = "running"

\* Inside a write of the connection, and in SendMessage after the increment.
Writing == {p \in Senders : pc[p] \in {"writing", "closing"}}
InFlight == \E p \in Senders : pc[p] \in {"marshalled", "writing"}

\* Increment of a uint32, and its inverse.
Succ(n) == IF n = SeqModulus - 1 THEN 0 ELSE n + 1
Pred(n) == IF n = 0 THEN SeqModulus - 1 ELSE n - 1

----------------------------------------------------------------------------
\* The connection is up and may have carried many messages already.
Init ==
  /\ pc = [p \in Senders |-> "idle"]
  /\ mutex = Nobody
  /\ seq \in {0, SeqModulus - 1}
  /\ number = [p \in Senders |-> 0]
  /\ wire = <<>>
  /\ calls = 0
  /\ closeSent = FALSE
  /\ status = "running"

Go(p, from, to) == Running /\ pc[p] = from /\ pc' = [pc EXCEPT ![p] = to]

\* A reply or a keepalive tick is taken and SendMessage is called.
Call(p) ==
  /\ calls < MaxCalls
  /\ Go(p, "idle", "lock")
  /\ calls' = calls + 1
  /\ UNCHANGED <<session, wire, closeSent, status>>

\* The mutant has no mutex.
LockNot(p) == Go(p, "lock", "number") /\ UNCHANGED <<session, wire, calls, closeSent, status>>

Lock(p) ==
  /\ mutex = Nobody
  /\ Go(p, "lock", "number")
  /\ mutex' = p
  /\ UNCHANGED <<seq, number, wire, calls, closeSent, status>>

\* Mutants: the number is counted in an int; the mutex protects the increment only.
NumberWide(p) ==
  /\ Go(p, "number", "marshalled")
  /\ seq' = seq + 1
  /\ number' = [number EXCEPT ![p] = seq']
  /\ UNCHANGED <<mutex, wire, calls, closeSent, status>>

NumberUnlocks(p) ==
  /\ Go(p, "number", "marshalled")
  /\ seq' = Succ(seq)
  /\ number' = [number EXCEPT ![p] = seq']
  /\ mutex' = Nobody
  /\ UNCHANGED <<wire, calls, closeSent, status>>

Number(p) ==
  /\ Go(p, "number", "marshalled")
  /\ seq' = Succ(seq)
  /\ number' = [number EXCEPT ![p] = seq']
  /\ UNCHANGED <<mutex, wire, calls, closeSent, status>>

BeginWrite(p) ==
  /\ Go(p, "marshalled", "writing")
  /\ UNCHANGED <<session, wire, calls, closeSent, status>>

\* The mutant unlocks on success only.
EndWriteKeepsLock(p) ==
  /\ Go(p, "writing", "idle")
  /\ \/ ~closeSent /\ wire' = Append(wire, number[p]) /\ mutex' = Nobody
     \/ UNCHANGED <<wire, mutex>>
  /\ UNCHANGED <<seq, number, calls, closeSent, status>>

\* The write succeeds or fails and the deferred Unlock runs.  After a close
\* message the connection takes no more of them.
EndWrite(p) ==
  /\ Go(p, "writing", "idle")
  /\ \/ ~closeSent /\ wire' = Append(wire, number[p])
     \/ UNCHANGED wire
  /\ mutex' = Nobody
  /\ UNCHANGED <<seq, number, calls, closeSent, status>>

\* Listen on Ctrl-C: WriteMessage(CloseMessage) without the mutex, then <-done
\* or, on an error, the log.Fatal of its caller.
BeginClose == Go(Listen, "idle", "closing") /\ UNCHANGED <<session, wire, calls, closeSent, status>>

EndClose ==
  /\ Go(Listen, "closing", "waiting")
  /\ closeSent' = TRUE
  /\ UNCHANGED <<session, wire, calls, status>>

Ends(how) == Running /\ status' = how /\ UNCHANGED <<pc, session, wire, calls, closeSent>>

CloseFails == pc[Listen] = "closing" /\ Ends("fatal")

\* The connection notices overlapping writes, if it does, with a panic.
ConcurrentWrite == Cardinality(Writing) > 1 /\ Ends("panic")

Next ==
  \/ \E p \in Senders : Call(p) \/ Lock(p) \/ Number(p) \/ BeginWrite(p) \/ EndWrite(p)
  \/ BeginClose \/ EndClose \/ CloseFails \/ ConcurrentWrite

Spec == Init /\ [][Next]_vars

\* Goroutines run on and writes end; a mutex does not pass over a waiter for
\* ever (sync.Mutex hands over to one that starves).
FairSpec ==
  /\ Spec
  /\ \A p \in Senders : /\ SF_vars(Lock(p)) /\ WF_vars(Number(p))
                        /\ WF_vars(BeginWrite(p)) /\ WF_vars(EndWrite(p))

----------------------------------------------------------------------------
Places == {"idle", "lock", "number", "marshalled", "writing", "closing", "waiting"}

TypeOK ==
  /\ pc \in [Senders -> Places]
  /\ mutex \in Senders \cup {Nobody}
  /\ seq \in 0..SeqModulus - 1
  /\ number \in [Senders -> 0..SeqModulus - 1]
  /\ wire \in Seq(0..SeqModulus - 1)
  /\ calls \in 0..MaxCalls
  /\ closeSent \in BOOLEAN
  /\ status \in {"running", "fatal", "panic"}

\* "the send sequence number shouldn't be written to simultaneously"
\* (SendMessage): seen from outside, numbering and writing a message is one step,
\* whoever sends.  The numbers go out in the order in which they were taken,
\* wrapping around, a message that fails leaves the gap of its own number only,
\* and nothing follows the close message.  A message in flight has its number
\* and has not happened yet.
W == INSTANCE Wire WITH last <- IF InFlight THEN Pred(seq) ELSE seq,
                        log <- wire,
                        open <- ~closeSent

ImplementsWire == W!WireSpec

\* "gorilla/websocket only allows for 1 sender at a time" (SendMessage), and
\* calls of SendMessage never overlap: overlapping writes, and the panic they may
\* cause, take the close message, which Listen writes without the mutex.
OnlyCloseOverlaps ==
  Cardinality(Writing) > 1 \/ status = "panic" => pc[Listen] = "closing"

\* A call of SendMessage returns, whatever becomes of the other goroutine's, or
\* the process ends: a failed write does not keep the mutex.
SendReturns == \A p \in Senders : pc[p] = "lock" ~> pc[p] = "idle" \/ ~Running
==============================================================================
