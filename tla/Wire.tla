-------------------------------- MODULE Wire ---------------------------------
(****************************************************************************)
(* What ZoomSession.SendMessage (message.go) promises its callers and Zoom, *)
(* in one step per message: it takes the next sequence number, and it is    *)
(* written or dropped.  Once the connection is closed nothing is written.   *)
(* Transport implements this with a mutex and several steps per message.    *)
(****************************************************************************)
EXTENDS Naturals, Sequences

CONSTANT SeqModulus  \* a uint32's 2^32, as in Transport

VARIABLES last,  \* the number of the last message, written or dropped
          log,   \* the numbers written, in order
          open   \* no close message yet

wireVars == <<last, log, open>>

\* The successor of a uint32.
Succ(n) == IF n = SeqModulus - 1 THEN 0 ELSE n + 1

WireInit == last \in 0..SeqModulus - 1 /\ log = <<>> /\ open = TRUE

Write == open /\ last' = Succ(last) /\ log' = Append(log, last') /\ UNCHANGED open
Drop == last' = Succ(last) /\ UNCHANGED <<log, open>>
Close == open /\ open' = FALSE /\ UNCHANGED <<last, log>>

WireNext == Write \/ Drop \/ Close

WireSpec == WireInit /\ [][WireNext]_wireVars
==============================================================================
