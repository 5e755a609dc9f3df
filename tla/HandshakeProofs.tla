--------------------------- MODULE HandshakeProofs ---------------------------
(****************************************************************************)
(* Theorems about Handshake, for any hosts and payloads of any length.      *)
(****************************************************************************)
EXTENDS Handshake, SequenceTheorems, TLAPS

----------------------------------------------------------------------------
\* The Max of a set of integers is its element that none exceeds.
LEMMA MaxIs ==
  ASSUME NEW S \in SUBSET Int, NEW m \in S, \A i \in S : i <= m
  PROVE  Max(S) = m
<1>1. \A x \in S : (\A y \in S : x >= y) => x = m
  OBVIOUS
<1>2. \A y \in S : m >= y
  OBVIOUS
<1> QED BY <1>1, <1>2 DEF Max

\* GetStringInBetweenTwoString undoes the JSONP wrapping, whatever ")" the
\* payload has (util/string.go: first start, last end).
LEMMA JsonpUnwraps ==
  ASSUME NEW a \in Answers, a.jsonp
  PROVE  Between(Body(a)) = a.payload
<1> DEFINE p == a.payload
           b == <<"callback">> \o p \o <<"close">>
<1>1. PICK n \in 0..MaxPayload : p \in [1..n -> {"text", "close"}]
  BY DEF Answers, Payloads
<1>2. n \in Nat
  BY <1>1, HandshakeAssumption
<1>3. p \in Seq({"text", "close"}) /\ Len(p) = n
  BY <1>1, <1>2
<1>4. /\ b \in Seq({"text", "close", "callback"})
      /\ Len(b) = n + 2
      /\ b[1] = "callback"
      /\ b[n + 2] = "close"
      /\ \A i \in 1..n : b[i + 1] = p[i]
  <2> DEFINE T == {"text", "close", "callback"}
             q == <<"callback">> \o p
             e == <<"close">>
  <2>1. p \in Seq(T)
    BY <1>1, <1>2
  <2>2. q \in Seq(T) /\ Len(q) = n + 1 /\ q[1] = "callback" /\ \A i \in 1..n : q[i + 1] = p[i]
    BY <2>1, <1>2, <1>3
  <2>3. e \in Seq(T) /\ Len(e) = 1 /\ e[1] = "close"
    OBVIOUS
  <2> HIDE DEF q, e, T
  <2>4. /\ q \o e \in Seq(T) /\ Len(q \o e) = Len(q) + Len(e)
        /\ \A i \in 1..Len(q) + Len(e) :
             (q \o e)[i] = IF i <= Len(q) THEN q[i] ELSE e[i - Len(q)]
    <3>1. q \in Seq(T) /\ e \in Seq(T)
      BY <2>2, <2>3
    <3> QED BY <3>1, ConcatProperties, Zenon
  <2>5. b = q \o e
    BY DEF q, e
  <2>6. \A i \in 1..n : i + 1 \in 1..(n + 1)
    BY <1>2
  <2>7. (q \o e)[n + 2] = "close"
    BY <2>2, <2>3, <2>4, <1>2
  <2>8. (q \o e)[1] = "callback" /\ Len(q \o e) = n + 2
    BY <2>2, <2>3, <2>4, <1>2
  <2>9. \A i \in 1..n : (q \o e)[i + 1] = p[i]
    BY <2>2, <2>3, <2>4, <2>6, <1>2
  <2> HIDE DEF b
  <2> QED BY <2>4, <2>5, <2>7, <2>8, <2>9 DEF T
<1>5. DOMAIN b = 1..(n + 2)
  BY <1>2, <1>4
<1> DEFINE starts == {i \in DOMAIN b : b[i] = "callback"}
           ends == {i \in DOMAIN b : b[i] = "close" /\ i > Min(starts)}
<1>6. starts = {1}
  <2>1. \A i \in 2..(n + 1) : b[i] = p[i - 1] /\ p[i - 1] \in {"text", "close"}
    BY <1>1, <1>2, <1>4
  <2> HIDE DEF b
  <2> QED BY <1>2, <1>4, <1>5, <2>1
<1> HIDE DEF b
<1>7. Min(starts) = 1
  BY <1>6 DEF Min
<1>8. n + 2 \in ends /\ \A i \in ends : i \in Int /\ i <= n + 2
  BY <1>2, <1>4, <1>5, <1>7
<1>9. Max(ends) = n + 2
  <2> HIDE DEF ends
  <2> QED BY <1>8, MaxIs
<1>10. SubSeq(b, 2, n + 1) = p
  <2>1. /\ SubSeq(b, 2, n + 1) \in Seq({"text", "close", "callback"})
        /\ Len(SubSeq(b, 2, n + 1)) = n
        /\ \A i \in 1..n : SubSeq(b, 2, n + 1)[i] = b[i + 1]
    BY <1>2, <1>4
  <2> DEFINE r == SubSeq(b, 2, n + 1)
  <2>2. DOMAIN r = 1..n /\ DOMAIN p = 1..n
    BY <1>1, <1>2, <2>1
  <2>3. \A i \in 1..n : r[i] = p[i]
    BY <1>4, <2>1
  <2> QED BY <1>1, <2>1, <2>2, <2>3
<1>11. Body(a) = b
  BY DEF Body, b
<1>12. Between(b) = SubSeq(b, 2, n + 1)
  <2>1. starts # {} /\ ends # {}
    BY <1>6, <1>8
  <2>2. Between(b) = SubSeq(b, Min(starts) + 1, Max(ends) - 1)
    BY <2>1 DEF Between
  <2> HIDE DEF starts, ends
  <2> QED BY <1>2, <1>7, <1>9, <2>2
<1> QED BY <1>10, <1>11, <1>12

----------------------------------------------------------------------------
\* The state before the answer is in the type of answers.
LEMMA NoAnswerIsOne == NoAnswer \in Answers
<1>1. <<>> \in [1..0 -> {"text", "close"}]
  OBVIOUS
<1>2. <<>> \in Payloads
  BY <1>1, HandshakeAssumption DEF Payloads
<1>3. NoAnswer \in [payload : Payloads, jsonp : BOOLEAN, fields : [Fields -> Shapes], rwc : SUBSET Hosts]
  BY <1>2 DEF NoAnswer, Shapes, Fields, Special
<1> QED BY <1>3 DEF Answers, NoAnswer, Fields, Special

\* The methods by shape.
LEMMA UnmarshalJSONOf ==
  /\ UnmarshalJSON["absent"] = "ok" /\ UnmarshalJSON["quoted"] = "ok"
  /\ UnmarshalJSON["bad"] = "bad field" /\ UnmarshalJSON["bare"] = "stack overflow"
BY DEF UnmarshalJSON

\* What the actions that follow the ping rely on.
NothingPinged == stage \in {"start", "info"} => ping = <<NoHost, Token(NoHost)>>

HandshakeInv == TypeOK /\ NothingPinged /\ RefusedNeverDials

\* It holds at the start ...
LEMMA InitHandshake == Init => HandshakeInv
BY NoAnswerIsOne
DEF Init, HandshakeInv, NothingPinged, TypeOK, RefusedNeverDials, Dialled, Pongs

\* ... and every step of the handshake keeps it.
LEMMA NextHandshake == HandshakeInv /\ [Next]_vars => HandshakeInv'
<1> SUFFICES ASSUME HandshakeInv, [Next]_vars
             PROVE  HandshakeInv'
  OBVIOUS
<1> USE DEF HandshakeInv, NothingPinged, TypeOK, RefusedNeverDials, Dialled, Over, Goes
<1>1. CASE NewZoomSession
  BY <1>1 DEF NewZoomSession
<1>2. CASE GetMeetingInfoData
  <2>1. /\ stage' \in {"ping", "over"}
        /\ stage' = "over" <=> cause' # "none"
        /\ answer' \in Answers
        /\ dial' \in Pongs
        /\ signal' => pressed'
    <3>1. Faults(answer') \subseteq {"bad field", "stack overflow"}
      <4>1. /\ answer' \in Answers
            /\ answer'.fields \in [Fields -> Shapes]
        BY <1>2 DEF GetMeetingInfoData, Answers
      <4>2. \A f \in Fields : UnmarshalJSON[answer'.fields[f]] \in {"ok", "bad field", "stack overflow"}
        BY <4>1, UnmarshalJSONOf DEF Shapes
      <4> QED BY <4>2 DEF Faults, Fields
    <3> QED BY <1>2, <3>1 DEF GetMeetingInfoData
  <2>2. ping' \in {<<host, Token(host)>> : host \in answer'.rwc \cup {NoHost}}
    <3>1. CASE UNCHANGED ping
      BY <1>2, <3>1 DEF GetMeetingInfoData
    <3>2. CASE ping' \in PingServers(answer'.rwc)
      BY <3>2 DEF PingServers
    <3> QED BY <1>2, <3>1, <3>2 DEF GetMeetingInfoData
  <2>3. ~Dialled' /\ NothingPinged'
    BY <2>1
  <2> HIDE DEF Dialled, NothingPinged
  <2> QED BY <2>1, <2>2, <2>3
<1>3. CASE HttpFails
  BY <1>3 DEF HttpFails
<1>4. CASE PingAnswered
  BY <1>4 DEF PingAnswered
<1>5. CASE DialAnswered
  BY <1>5 DEF DialAnswered
<1>6. CASE Interrupt
  BY <1>6 DEF Interrupt
<1>7. CASE UNCHANGED vars
  BY <1>7 DEF vars
<1> QED BY <1>1, <1>2, <1>3, <1>4, <1>5, <1>6, <1>7 DEF Next

\* Where every field is in order the decoding finds no fault.
LEMMA SoundHasNoFault ==
  ASSUME NEW a, Sound(a)
  PROVE  Faults(a) = {}
<1>1. \A f \in Fields : UnmarshalJSON[a.fields[f]] = "ok"
  BY UnmarshalJSONOf DEF Sound
<1> QED BY <1>1 DEF Faults, Fields

\* An answer that is rejected deserved it.
LEMMA NextAccepts == TypeOK /\ GoodAnswerAccepted /\ [Next]_vars => GoodAnswerAccepted'
<1> SUFFICES ASSUME TypeOK, GoodAnswerAccepted, [Next]_vars
             PROVE  GoodAnswerAccepted'
  OBVIOUS
<1>1. CASE GetMeetingInfoData
  <2> DEFINE a == answer'
  <2> SUFFICES ASSUME a.jsonp, a.payload # <<>>, Sound(a)
               PROVE  cause' \notin {"no JSON", "bad field", "stack overflow"}
    BY DEF GoodAnswerAccepted
  <2>1. a \in Answers
    BY <1>1 DEF GetMeetingInfoData
  <2>2. IsJson(a)
    BY <2>1, JsonpUnwraps DEF IsJson
  <2>3. stage = "info" /\ UNCHANGED cause
    BY <1>1, <2>2, SoundHasNoFault DEF GetMeetingInfoData, Goes
  <2>4. cause = "none"
    BY <2>3 DEF TypeOK
  <2> QED BY <2>3, <2>4
<1>2. CASE ~GetMeetingInfoData
  <2>1. answer' = answer
    BY <1>2 DEF Next, vars, NewZoomSession, HttpFails, PingAnswered, DialAnswered, Interrupt
  <2>2. cause' = cause \/ cause' \in {"arguments", "http", "no pong", "no hosts", "dial"}
    BY <1>2 DEF Next, vars, NewZoomSession, HttpFails, PingAnswered, DialAnswered, Interrupt,
                Over, Goes
  <2> QED BY <2>1, <2>2 DEF GoodAnswerAccepted, Sound
<1> QED BY <1>1, <1>2

----------------------------------------------------------------------------
\* HandshakeInv is an invariant of the handshake.
THEOREM HandshakeInvHolds == Spec => []HandshakeInv
<1>1. HandshakeInv /\ [Next]_vars => HandshakeInv'
  BY NextHandshake
<1> QED BY InitHandshake, <1>1, PTL DEF Spec

\* The handshake's state keeps its types: in particular what is pinged is always
\* one of the hosts Zoom named, with its own token, or nothing
\* (getRwgPingServer).
THEOREM TypeCorrect == Spec => []TypeOK
<1>1. HandshakeInv => TypeOK
  BY DEF HandshakeInv
<1> QED BY HandshakeInvHolds, <1>1, PTL

\* A refused join is never dialled (websocket.go: the check after the ping).
THEOREM RefusedIsNotDialled == Spec => []RefusedNeverDials
<1>1. HandshakeInv => RefusedNeverDials
  BY DEF HandshakeInv
<1> QED BY HandshakeInvHolds, <1>1, PTL

\* A sound JSONP answer is accepted whatever its length and its texts
\* (GetStringInBetweenTwoString in GetMeetingInfoData).
THEOREM GoodAnswersPass == Spec => []GoodAnswerAccepted
<1>1. Init => GoodAnswerAccepted
  BY DEF Init, GoodAnswerAccepted
<1>2. TypeOK /\ GoodAnswerAccepted /\ [Next]_vars => GoodAnswerAccepted'
  BY NextAccepts
<1> QED BY TypeCorrect, <1>1, <1>2, PTL DEF Spec
==============================================================================
