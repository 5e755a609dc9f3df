--------------------------- MODULE TransportProofs ---------------------------
(****************************************************************************)
(* For any number of senders, messages and sequence numbers: SendMessage is *)
(* atomic as seen from the connection (Transport implements Wire), and only *)
(* the close message can overlap another write.                             *)
(****************************************************************************)
EXTENDS Transport, FiniteSetTheorems, TLAPS

\* The lock protects everything from the increment to the end of the write.
Mutex == \A p \in Senders : pc[p] \in {"number", "marshalled", "writing"} => mutex = p

\* A message in flight has the last number taken.
Numbered == \A p \in Senders : pc[p] \in {"marshalled", "writing"} => number[p] = seq

\* Nobody but Listen closes, and it does so once.
Closing ==
  /\ \A p \in Senders : pc[p] \in {"closing", "waiting"} => p = Listen
  /\ closeSent => pc[Listen] = "waiting"

\* A panic found Listen closing, and stops everything there.
Panicked == status = "panic" => pc[Listen] = "closing"

Inv == TypeOK /\ Mutex /\ Numbered /\ Closing /\ Panicked

USE TransportAssumption DEF Places, Running, Go, Ends, session

----------------------------------------------------------------------------
LEMMA InitInv == Init => Inv
  <1> SUFFICES ASSUME Init PROVE Inv
    OBVIOUS
  <1>1. TypeOK
    <2>1. wire \in Seq(0..SeqModulus - 1)
      BY DEF Init
    <2>2. 0 \in 0..SeqModulus - 1 /\ SeqModulus - 1 \in 0..SeqModulus - 1 /\ 0 \in 0..MaxCalls
      OBVIOUS
    <2> QED
      BY <2>1, <2>2 DEF Init, TypeOK
  <1>2. Mutex /\ Numbered /\ Closing /\ Panicked
    BY DEF Init, Mutex, Numbered, Closing, Panicked
  <1> QED
    BY <1>1, <1>2 DEF Inv

\* The types of the protocol's state.
LEMMA NextTypes == TypeOK /\ [Next]_vars => TypeOK'
  <1> SUFFICES ASSUME TypeOK, [Next]_vars PROVE TypeOK'
    OBVIOUS
  <1> USE DEF TypeOK
  <1>1. ASSUME NEW p \in Senders, Call(p) PROVE TypeOK'
    BY <1>1 DEF Call
  <1>2. ASSUME NEW p \in Senders, Lock(p) PROVE TypeOK'
    BY <1>2 DEF Lock
  <1>3. ASSUME NEW p \in Senders, Number(p) PROVE TypeOK'
    BY <1>3 DEF Number, Succ
  <1>4. ASSUME NEW p \in Senders, BeginWrite(p) PROVE TypeOK'
    BY <1>4 DEF BeginWrite
  <1>5. ASSUME NEW p \in Senders, EndWrite(p) PROVE TypeOK'
    <2>1. wire' \in Seq(0..SeqModulus - 1)
      <3>1. number[p] \in 0..SeqModulus - 1
        OBVIOUS
      <3>2. Append(wire, number[p]) \in Seq(0..SeqModulus - 1)
        BY <3>1
      <3> QED
        BY <3>2, <1>5 DEF EndWrite
    <2> QED
      BY <1>5, <2>1 DEF EndWrite
  <1>6. CASE BeginClose
    BY <1>6 DEF BeginClose
  <1>7. CASE EndClose
    BY <1>7 DEF EndClose
  <1>8. CASE CloseFails \/ ConcurrentWrite
    BY <1>8 DEF CloseFails, ConcurrentWrite
  <1>9. CASE UNCHANGED vars
    BY <1>9 DEF vars
  <1> HIDE DEF TypeOK
  <1> QED
    BY <1>1, <1>2, <1>3, <1>4, <1>5, <1>6, <1>7, <1>8, <1>9 DEF Next

\* The mutex and the numbers: Lock is the only way in, EndWrite the only way out.
LEMMA NextMutex == Inv /\ [Next]_vars => Mutex' /\ Numbered'
  <1> SUFFICES ASSUME Inv, [Next]_vars PROVE Mutex' /\ Numbered'
    OBVIOUS
  <1> USE DEF Inv, TypeOK, Mutex, Numbered
  <1>1. ASSUME NEW p \in Senders, Call(p) PROVE Mutex' /\ Numbered'
    BY <1>1 DEF Call
  <1>2. ASSUME NEW p \in Senders, Lock(p) PROVE Mutex' /\ Numbered'
    BY <1>2 DEF Lock
  <1>3. ASSUME NEW p \in Senders, Number(p) PROVE Mutex' /\ Numbered'
    <2>1. Mutex'
      BY <1>3 DEF Number
    <2>2. \A q \in Senders \ {p} : pc[q] \notin {"marshalled", "writing"}
      BY <1>3 DEF Number
    <2>3. number'[p] = seq' /\ \A q \in Senders \ {p} : pc'[q] = pc[q]
      BY <1>3 DEF Number
    <2> QED
      BY <2>1, <2>2, <2>3
  <1>4. ASSUME NEW p \in Senders, BeginWrite(p) PROVE Mutex' /\ Numbered'
    BY <1>4 DEF BeginWrite
  <1>5. ASSUME NEW p \in Senders, EndWrite(p) PROVE Mutex' /\ Numbered'
    BY <1>5 DEF EndWrite
  <1>6. CASE BeginClose
    BY <1>6 DEF BeginClose
  <1>7. CASE EndClose
    BY <1>7 DEF EndClose
  <1>8. CASE CloseFails \/ ConcurrentWrite
    BY <1>8 DEF CloseFails, ConcurrentWrite
  <1>9. CASE UNCHANGED vars
    BY <1>9 DEF vars
  <1> QED
    BY <1>1, <1>2, <1>3, <1>4, <1>5, <1>6, <1>7, <1>8, <1>9 DEF Next

\* Outside the close message only the holder of the mutex writes.
LEMMA OneWriter == Inv /\ pc[Listen] # "closing" => ~(Cardinality(Writing) > 1)
  <1> SUFFICES ASSUME Inv, pc[Listen] # "closing" PROVE ~(Cardinality(Writing) > 1)
    OBVIOUS
  <1>1. Writing \subseteq {mutex}
    BY DEF Inv, Mutex, Closing, Writing
  <1>2. IsFiniteSet({mutex}) /\ Cardinality({mutex}) = 1
    BY FS_Singleton
  <1>3. Cardinality(Writing) \in Nat /\ Cardinality(Writing) <= 1
    BY <1>1, <1>2, FS_Subset, FS_CardinalityType
  <1> QED
    BY <1>3

\* The close message, and the panic it may end in.
LEMMA NextClosing == Inv /\ [Next]_vars => Closing' /\ Panicked'
  <1> SUFFICES ASSUME Inv, [Next]_vars PROVE Closing' /\ Panicked'
    OBVIOUS
  <1> USE DEF Closing, Panicked
  <1>1. ASSUME NEW p \in Senders, Call(p) \/ Lock(p) \/ Number(p) \/ BeginWrite(p) \/ EndWrite(p)
        PROVE Closing' /\ Panicked'
    BY <1>1 DEF Inv, TypeOK, Call, Lock, Number, BeginWrite, EndWrite
  <1>2. CASE BeginClose
    BY <1>2 DEF Inv, TypeOK, BeginClose
  <1>3. CASE EndClose
    BY <1>3 DEF Inv, TypeOK, EndClose
  <1>4. CASE CloseFails
    BY <1>4 DEF Inv, CloseFails
  <1>5. CASE ConcurrentWrite
    <2>1. pc[Listen] = "closing"
      BY <1>5, OneWriter DEF ConcurrentWrite
    <2>2. UNCHANGED <<pc, closeSent>>
      BY <1>5 DEF ConcurrentWrite
    <2> QED
      BY <2>1, <2>2 DEF Inv
  <1>6. CASE UNCHANGED vars
    BY <1>6 DEF Inv, vars
  <1> QED
    BY <1>1, <1>2, <1>3, <1>4, <1>5, <1>6 DEF Next

LEMMA NextInv == Inv /\ [Next]_vars => Inv'
  BY NextTypes, NextMutex, NextClosing DEF Inv

LEMMA AlwaysInv == Spec => []Inv
  BY InitInv, NextInv, PTL DEF Spec

----------------------------------------------------------------------------
\* The state of SendMessage, its callers and the connection keeps its types; in
\* particular the sequence number stays a uint32.
THEOREM TypeCorrect == Spec => []TypeOK
  BY AlwaysInv, PTL DEF Inv

\* Only the close message, which Listen writes without the mutex, can overlap
\* another write or make the connection panic.
THEOREM OnlyTheCloseOverlaps == Spec => []OnlyCloseOverlaps
  <1>1. Inv => OnlyCloseOverlaps
    BY OneWriter DEF OnlyCloseOverlaps, Inv, Panicked
  <1> QED
    BY <1>1, AlwaysInv, PTL

----------------------------------------------------------------------------
\* Refinement.  Numbering a message changes nothing that Wire sees; the end of
\* the write is Wire's step.
LEMMA SuccPred == \A n \in 0..SeqModulus - 1 : Pred(Succ(n)) = n /\ Succ(Pred(n)) = n
  BY DEF Succ, Pred

Last == IF InFlight THEN Pred(seq) ELSE seq

LEMMA NumberIsSilent ==
  ASSUME Inv, NEW p \in Senders, Number(p)
  PROVE  Last' = Last
  <1>1. ~InFlight
    BY DEF Inv, Mutex, InFlight, Number
  <1>2. InFlight'
    BY DEF InFlight, Number, Inv, TypeOK
  <1>3. seq' = Succ(seq) /\ seq \in 0..SeqModulus - 1
    BY DEF Number, Inv, TypeOK
  <1> QED
    BY <1>1, <1>2, <1>3, SuccPred DEF Last

LEMMA EndWriteIsNext ==
  ASSUME Inv, NEW p \in Senders, EndWrite(p)
  PROVE  Last' = Succ(Last) /\ number[p] = Last'
  <1>1. InFlight
    BY DEF InFlight, EndWrite
  <1>2. ~InFlight'
    BY DEF Inv, TypeOK, Mutex, InFlight, EndWrite
  <1>3. seq' = seq /\ seq \in 0..SeqModulus - 1 /\ number[p] = seq
    BY DEF EndWrite, Inv, TypeOK, Numbered
  <1> QED
    BY <1>1, <1>2, <1>3, SuccPred DEF Last

\* The other steps move nobody into or out of flight.
LEMMA OthersAreSilent ==
  ASSUME Inv, NEW p \in Senders,
         Call(p) \/ Lock(p) \/ BeginWrite(p)
  PROVE  Last' = Last /\ UNCHANGED <<wire, closeSent>>
  <1>1. UNCHANGED <<seq, wire, closeSent>>
    BY DEF Call, Lock, BeginWrite
  <1>2. InFlight' <=> InFlight
    BY DEF InFlight, Call, Lock, BeginWrite, Inv, TypeOK
  <1> QED
    BY <1>1, <1>2 DEF Last

LEMMA CloseIsSilent ==
  ASSUME Inv, BeginClose \/ EndClose \/ CloseFails \/ ConcurrentWrite \/ UNCHANGED vars
  PROVE  Last' = Last /\ UNCHANGED wire
  <1>1. UNCHANGED <<seq, wire>>
    BY DEF BeginClose, EndClose, CloseFails, ConcurrentWrite, vars
  <1>2. InFlight' <=> InFlight
    BY DEF InFlight, BeginClose, EndClose, CloseFails, ConcurrentWrite, vars, Inv, TypeOK
  <1> QED
    BY <1>1, <1>2 DEF Last

\* SendMessage with its mutex implements Wire: one message at a time gets the
\* next number and is written or dropped, and nothing follows the close message.
THEOREM TransportImplementsWire == Spec => ImplementsWire
  <1> USE DEF W!wireVars, Last
  <1>1. Init => W!WireInit
    BY DEF Init, W!WireInit, InFlight
  <1>2. Inv /\ [Next]_vars => [W!WireNext]_(W!wireVars)
    <2> SUFFICES ASSUME Inv, [Next]_vars PROVE [W!WireNext]_(W!wireVars)
      OBVIOUS
    <2>1. ASSUME NEW p \in Senders, Call(p) \/ Lock(p) \/ BeginWrite(p) PROVE UNCHANGED W!wireVars
      BY <2>1, OthersAreSilent
    <2>2. ASSUME NEW p \in Senders, Number(p) PROVE UNCHANGED W!wireVars
      BY <2>2, NumberIsSilent DEF Number
    <2>3. ASSUME NEW p \in Senders, EndWrite(p) PROVE W!WireNext
      <3>1. Last' = Succ(Last) /\ number[p] = Last' /\ UNCHANGED closeSent
        BY <2>3, EndWriteIsNext DEF EndWrite
      <3>2. CASE ~closeSent /\ wire' = Append(wire, number[p])
        BY <3>1, <3>2 DEF W!WireNext, W!Write, W!Succ, Succ
      <3>3. CASE UNCHANGED wire
        BY <3>1, <3>3 DEF W!WireNext, W!Drop, W!Succ, Succ
      <3> QED
        BY <2>3, <3>2, <3>3 DEF EndWrite
    <2>4. CASE EndClose
      BY <2>4, CloseIsSilent DEF EndClose, Inv, Closing, W!WireNext, W!Close
    <2>5. CASE BeginClose \/ CloseFails \/ ConcurrentWrite \/ UNCHANGED vars
      BY <2>5, CloseIsSilent DEF BeginClose, CloseFails, ConcurrentWrite, vars
    <2> QED
      BY <2>1, <2>2, <2>3, <2>4, <2>5 DEF Next
  <1> QED
    BY <1>1, <1>2, AlwaysInv, PTL DEF Spec, ImplementsWire, W!WireSpec
==============================================================================
