------------------------------ MODULE Handshake ------------------------------
(****************************************************************************)
(* From the start of MakeConnection (main.go) to an open websocket: the     *)
(* session (session.go), the meeting info fetched from Zoom as JSONP and    *)
(* decoded (info.go, models.go), the ping of one of the meeting's hosts,    *)
(* and the dial (websocket.go).                                             *)
(*                                                                          *)
(* The code is a straight line; a step here ends where it waits for the     *)
(* other side, or with log.Fatal.  Zoom may send anything.  main registers  *)
(* for Ctrl-C first and looks at it only in the loop that follows: this     *)
(* module ends where the websocket is open, and Goroutines begins there,    *)
(* with the signal that is pending then.                                    *)
(*                                                                          *)
(* Left out: the parameters that are copied from one request to the next    *)
(* without being looked at, the cookies, and waiting rooms, since main asks *)
(* for none.                                                                *)
(****************************************************************************)
EXTENDS Naturals, Sequences, FiniteSets, FiniteSetsExt

CONSTANTS Hosts,      \* the meeting servers Zoom may name
          NoHost,     \* the empty string
          MaxPayload  \* bound on the length of a payload, for TLC

ASSUME HandshakeAssumption == NoHost \notin Hosts /\ MaxPayload \in Nat

VARIABLES stage,    \* "start", "info", "ping", "dialling", "open" or "over"
          cause,    \* why it is over, "none" before
          answer,   \* what Zoom answered to the info request, if it did
          ping,     \* the host pinged and the token sent to it
          dial,     \* the host dialled and whether an rwcAuth is sent to it
          signal,   \* main's interrupt channel (its buffer is 1)
          pressed   \* history: Ctrl-C was pressed

vars == <<stage, cause, answer, ping, dial, signal, pressed>>

----------------------------------------------------------------------------
\* The info answer.  Of its payload, the tokens that JSONP extraction looks at:
\* a ")" is as likely there, say in the meeting's topic, as any text.
Payloads == UNION {[1..n -> {"text", "close"}] : n \in 0..MaxPayload}

\* The three fields that are JSON in a JSON string, decoded by an UnmarshalJSON
\* of their own, and what can be in them: nothing, a good string, null or a
\* string that is not JSON, or a bare object, array or number.  The others are
\* good or of the wrong type.
Special == {"encryptedRWC", "meetingOptions", "call_out_country_json"}
Fields == Special \cup {"others"}
Shapes == {"absent", "quoted", "bad", "bare"}

\* What the three methods make of each shape.  What is no string is decoded as
\* it is, by json.Unmarshal, which calls the same method again.
UnmarshalJSON ==
  [absent |-> "ok", quoted |-> "ok", bad |-> "bad field", bare |-> "stack overflow"]

\* Either JSONP or something else, such as an error page.  encryptedRWC maps
\* hosts to tokens; a refused join has none.
Answers ==
  {a \in [payload : Payloads, jsonp : BOOLEAN, fields : [Fields -> Shapes], rwc : SUBSET Hosts] :
     /\ a.rwc # {} => a.fields["encryptedRWC"] = "quoted"
     /\ a.fields["others"] \in {"absent", "bad"}}

NoAnswer == [payload |-> <<>>, jsonp |-> FALSE, fields |-> [f \in Fields |-> "absent"], rwc |-> {}]

Body(a) == IF a.jsonp THEN <<"callback">> \o a.payload \o <<"close">> ELSE a.payload

\* GetStringInBetweenTwoString: from the first start to the last end after it,
\* or nothing.  The mutant stops at the first end.
BetweenFirst(body) ==
  LET starts == {i \in DOMAIN body : body[i] = "callback"}
      ends == {i \in DOMAIN body : body[i] = "close" /\ i > Min(starts)}
  IN  IF starts = {} \/ ends = {} THEN <<>> ELSE SubSeq(body, Min(starts) + 1, Min(ends) - 1)

Between(body) ==
  LET starts == {i \in DOMAIN body : body[i] = "callback"}
      ends == {i \in DOMAIN body : body[i] = "close" /\ i > Min(starts)}
  IN  IF starts = {} \/ ends = {} THEN <<>> ELSE SubSeq(body, Min(starts) + 1, Max(ends) - 1)

\* json.Unmarshal needs the whole payload, and an empty one is no JSON.
IsJson(a) == Between(Body(a)) = a.payload /\ a.payload # <<>>

\* The special fields are decoded in the order of the payload, up to the first
\* faulty one; an error in another field is returned when all have been.
Faults(a) ==
  LET first == {UnmarshalJSON[a.fields[f]] : f \in Special} \ {"ok"}
  IN  IF first # {} THEN first ELSE {UnmarshalJSON[a.fields["others"]]} \ {"ok"}

\* A token is known by the host it is for.
Token(host) == <<"token", host>>

\* RwgInfo as decoded from the pong: any host, or none, and an rwcAuth or none.
Pongs == [rwg : Hosts \cup {NoHost}, rwcAuth : {"some", "none"}]

\* getRwgPingServer: any one host of the map with its token, or two empty
\* strings.  The mutant ends up with the host and the token of different rounds.
PingServersMixed(rwc) ==
  IF rwc = {} THEN {<<NoHost, Token(NoHost)>>} ELSE {<<h, Token(i)>> : h, i \in rwc}

PingServers(rwc) ==
  IF rwc = {} THEN {<<NoHost, Token(NoHost)>>} ELSE {<<h, Token(h)>> : h \in rwc}

----------------------------------------------------------------------------
Init ==
  /\ stage = "start"
  /\ cause = "none"
  /\ answer = NoAnswer
  /\ ping = <<NoHost, Token(NoHost)>>
  /\ dial = [rwg |-> NoHost, rwcAuth |-> "none"]
  /\ signal = FALSE
  /\ pressed = FALSE

\* log.Fatal, a crash, or the return from main.
Over(why) == stage' = "over" /\ cause' = why

Goes(next) == stage' = next /\ UNCHANGED cause

\* NewZoomSession refuses an empty argument; the hardware id and the proxy are
\* constants that parse.  Then the info request is sent.
NewZoomSession ==
  /\ stage = "start"
  /\ Goes("info") \/ Over("arguments")
  /\ UNCHANGED <<answer, ping, dial, signal, pressed>>

\* GetMeetingInfoData, then getRwgPingServer and the ping request.
GetMeetingInfoData ==
  /\ stage = "info"
  /\ answer' \in Answers
  /\ \/ ~IsJson(answer') /\ Over("no JSON") /\ UNCHANGED ping
     \/ /\ IsJson(answer')
        /\ \E fault \in Faults(answer') : Over(fault)
        /\ UNCHANGED ping
     \/ /\ IsJson(answer') /\ Faults(answer') = {}
        /\ Goes("ping")
        /\ ping' \in PingServers(answer'.rwc)
  /\ UNCHANGED <<dial, signal, pressed>>

\* The http client gives up after 35 seconds at the latest, at once if the url
\* has no host.  In the mutant it has no Timeout.
HttpFailsWithoutTimeout ==
  /\ \/ stage = "info"
     \/ stage = "ping" /\ ping[1] = NoHost
  /\ Over("http")
  /\ UNCHANGED <<answer, ping, dial, signal, pressed>>

HttpFails ==
  /\ stage \in {"info", "ping"}
  /\ Over("http")
  /\ UNCHANGED <<answer, ping, dial, signal, pressed>>

\* The mutant pings some default when there is no host, which nobody notices.
PingAnsweredAnyway ==
  /\ stage = "ping"
  /\ \/ Over("no pong") /\ UNCHANGED dial
     \/ Goes("dialling") /\ dial' \in Pongs
  /\ UNCHANGED <<answer, ping, signal, pressed>>

\* getRwgPingData decodes whatever comes, whatever its HTTP status; then
\* GetWebsocketUrl, which checks only now that there are hosts, and
\* MakeWebsocketConnection up to the dial.  Nobody looks at the pong: any host
\* it names is dialled, or none, with the rwcAuth in it, or none.
PingAnswered ==
  /\ stage = "ping" /\ ping[1] # NoHost
  /\ \/ Over("no pong") /\ UNCHANGED dial
     \/ IF answer.rwc = {}
        THEN Over("no hosts") /\ UNCHANGED dial
        ELSE Goes("dialling") /\ dial' \in Pongs
  /\ UNCHANGED <<answer, ping, signal, pressed>>

\* The Dialer has no timeout: this need not happen.
DialAnswered ==
  /\ stage = "dialling"
  /\ Goes("open") \/ Over("dial")
  /\ UNCHANGED <<answer, ping, dial, signal, pressed>>

\* Ctrl-C during the handshake.  In the mutant the channel has no buffer.
Shaking == stage \notin {"open", "over"}

InterruptUnbuffered ==
  /\ Shaking
  /\ pressed' = TRUE
  /\ UNCHANGED <<stage, cause, answer, ping, dial, signal>>

Interrupt ==
  /\ Shaking
  /\ pressed' = TRUE
  /\ signal' = TRUE
  /\ UNCHANGED <<stage, cause, answer, ping, dial>>

Next ==
  \/ NewZoomSession \/ GetMeetingInfoData \/ HttpFails \/ PingAnswered \/ DialAnswered
  \/ Interrupt

Spec == Init /\ [][Next]_vars

\* The code runs on and the http client keeps its timeout; nothing is assumed
\* of Zoom.
FairSpec == Spec /\ WF_vars(NewZoomSession) /\ WF_vars(HttpFails)

----------------------------------------------------------------------------
TypeOK ==
  /\ stage \in {"start", "info", "ping", "dialling", "open", "over"}
  /\ stage = "over" <=> cause # "none"
  /\ answer \in Answers
  /\ ping \in {<<host, Token(host)>> : host \in answer.rwc \cup {NoHost}}
  /\ dial \in Pongs
  /\ signal => pressed

Dialled == stage \in {"dialling", "open"}

\* A join that Zoom refused, with no hosts in its answer, never gets as far as
\* the dial, though GetWebsocketUrl pings before it checks (websocket.go) and
\* nobody looks at the status of the answer.
RefusedNeverDials == Dialled => answer.rwc # {}

\* A good answer, as far as its fields go.
Sound(a) == \A f \in Fields : a.fields[f] \in {"absent", "quoted"}

\* An answer in JSONP whose fields are in order is not rejected, whatever its
\* texts contain (GetStringInBetweenTwoString, on an answer with ")" in it).
GoodAnswerAccepted ==
  cause \in {"no JSON", "bad field", "stack overflow"} =>
    ~(answer.jsonp /\ answer.payload # <<>> /\ Sound(answer))

\* The handshake comes to an end, whatever Zoom does, unless the dial is never
\* answered: the requests time out (NewZoomSession) and the dial does not.
HandshakeEnds == <>[](stage = "dialling") \/ <>(stage \in {"open", "over"})

\* Ctrl-C during the handshake is not lost (MakeConnection's interrupt channel
\* has a buffer): with the same exception the process ends by itself, or the
\* signal is there for the select of main's loop when that begins.  What the
\* loop makes of it is InterruptEnds of Goroutines.
InterruptKept ==
  <>[](stage = "dialling") \/ (pressed ~> (stage = "over" \/ (stage = "open" /\ signal)))

==============================================================================
