------------------------------- MODULE Roster -------------------------------
(****************************************************************************)
(* Who is in the voting, against who is in the meeting.  Zoom tells the bot *)
(* about joins and leaves in roster frames; the reader goroutine of Listen  *)
(* (websocket.go) turns each into commands, one by one, and the command     *)
(* goroutine applies them to the Voting.  Chat messages come over the same  *)
(* connection.                                                              *)
(*                                                                          *)
(* Zoom is external: it sends what changed since its last roster frame,     *)
(* and may name again somebody it has announced.  A participant's name does *)
(* not change, since Listen ignores the "update" part of a roster frame.    *)
(* Every chat message here is a vote, and the voting is open throughout:    *)
(* opening and closing it is the subject of CommandLoop.                    *)
(****************************************************************************)
EXTENDS Voting

CONSTANTS Me,        \* the bot's own user id
          NoId,      \* 0, the UserID of a JoinInfo not yet received
          NameOf,    \* the name of each participant
          Vote,      \* the number typed
          MaxWire,   \* bounds, for TLC: frames on their way ...
          MaxFrames  \* ... and frames sent

ASSUME RosterAssumption ==
  /\ Me \in Ids /\ NoId \notin Ids /\ NameOf \in [Ids -> Names] /\ Vote \in GoInt
  /\ NameOf[Me] \notin Blacklist
  /\ MaxWire \in Nat \ {0} /\ MaxFrames \in Nat \ {0}

VARIABLES meeting,    \* ids in the meeting
          told,       \* ids announced and not yet taken back by Zoom
          wire,       \* frames on their way to the bot
          sent,       \* number of frames sent
          userID,     \* session.JoinInfo.UserID
          toAdd,      \* additions of the current frame still to be sent on
          toRemove,   \* removals likewise
          reading,    \* the reader goroutine has not returned
          lost,       \* history: a roster frame could not be decoded
          uncounted   \* history: votes of people who may vote were refused

zoomVars == <<meeting, told, wire, sent>>
readerVars == <<userID, toAdd, toRemove, reading, lost, uncounted>>
vars == <<votingVars, zoomVars, readerVars>>

Frame(kind, add, remove, from) ==
  [kind |-> kind, add |-> add, remove |-> remove, from |-> from]

JoinFrame == Frame("join", {}, {}, NoId)

MayVote == {id \in Ids \ {Me} : NameOf[id] \notin Blacklist}

----------------------------------------------------------------------------
\* The bot has just entered the meeting; Zoom answers its join first.
Init ==
  /\ VotingInit
  /\ meeting = {Me}
  /\ told = {}
  /\ wire = <<JoinFrame>>
  /\ sent = 1
  /\ userID = NoId
  /\ toAdd = {}
  /\ toRemove = {}
  /\ reading = TRUE
  /\ lost = FALSE
  /\ uncounted = {}

----------------------------------------------------------------------------
\* Zoom and the participants.
Enter(id) ==
  /\ id \notin meeting
  /\ meeting' = meeting \cup {id}
  /\ UNCHANGED <<votingVars, told, wire, sent, readerVars>>

Leave(id) ==
  /\ id \in meeting \ {Me}
  /\ meeting' = meeting \ {id}
  /\ UNCHANGED <<votingVars, told, wire, sent, readerVars>>

Send(frame) ==
  /\ Len(wire) < MaxWire /\ sent < MaxFrames
  /\ wire' = Append(wire, frame)
  /\ sent' = sent + 1

\* A roster frame, which may turn out not to decode.
SendRoster ==
  /\ \E again \in SUBSET (told \cap meeting), kind \in {"roster", "unreadable"} :
       LET add == (meeting \ told) \cup again
       IN  /\ add # {} \/ told \ meeting # {}
           /\ Send(Frame(kind, add, told \ meeting, NoId))
  /\ told' = meeting
  /\ UNCHANGED <<votingVars, meeting, readerVars>>

SendChat(id) ==
  /\ id \in (told \cap meeting) \ {Me}
  /\ Send(Frame("chat", {}, {}, id))
  /\ UNCHANGED <<votingVars, meeting, told, readerVars>>

----------------------------------------------------------------------------
\* The reader takes the next frame when it is done with the last one.
Takes(kind) ==
  /\ reading /\ toAdd = {} /\ toRemove = {}
  /\ wire # <<>> /\ Head(wire).kind = kind
  /\ wire' = Tail(wire)
  /\ UNCHANGED <<meeting, told, sent>>

\* A join response that does not decode ends the reader.
ReadJoin ==
  /\ Takes("join")
  /\ \/ userID' = Me /\ UNCHANGED reading
     \/ reading' = FALSE /\ UNCHANGED userID
  /\ UNCHANGED <<votingVars, toAdd, toRemove, lost, uncounted>>

\* The mutant looks at the additions only.
ReadRosterAdds ==
  /\ Takes("roster")
  /\ toAdd' = Head(wire).add
  /\ UNCHANGED <<votingVars, toRemove, userID, reading, lost, uncounted>>

ReadRoster ==
  /\ Takes("roster")
  /\ toAdd' = Head(wire).add
  /\ toRemove' = Head(wire).remove
  /\ UNCHANGED <<votingVars, userID, reading, lost, uncounted>>

\* GetMessageBody fails: the frame is dropped.
ReadBadRoster ==
  /\ Takes("unreadable")
  /\ lost' = TRUE
  /\ UNCHANGED <<votingVars, userID, toAdd, toRemove, reading, uncounted>>

\* A chat command, received and applied: AddVote refuses whoever has not joined.
ChatApplied(id) ==
  /\ AddVote(id, Vote)
  /\ uncounted' = IF id \in MayVote \ Joined THEN uncounted \cup {id} ELSE uncounted
  /\ UNCHANGED <<userID, toAdd, toRemove, reading, lost>>

\* The mutant hands a chat message on while the roster frame before it is still
\* being worked off.
ReadChatEarly ==
  /\ reading
  /\ wire # <<>> /\ Head(wire).kind = "chat"
  /\ wire' = Tail(wire)
  /\ UNCHANGED <<meeting, told, sent>>
  /\ ChatApplied(Head(wire).from)

ReadChat ==
  /\ Takes("chat")
  /\ ChatApplied(Head(wire).from)

\* "zoom:add", for everybody but the bot itself; the mutant adds it too.
SendAddAll(id) ==
  /\ id \in toAdd
  /\ toAdd' = toAdd \ {id}
  /\ AddPerson(id, NameOf[id])
  /\ UNCHANGED <<zoomVars, userID, toRemove, reading, lost, uncounted>>

SendAdd(id) ==
  /\ id \in toAdd
  /\ toAdd' = toAdd \ {id}
  /\ IF id # userID THEN AddPerson(id, NameOf[id]) ELSE UNCHANGED votingVars
  /\ UNCHANGED <<zoomVars, userID, toRemove, reading, lost, uncounted>>

\* "zoom:remove", after all the additions of the frame.
SendRemove(id) ==
  /\ toAdd = {} /\ id \in toRemove
  /\ toRemove' = toRemove \ {id}
  /\ RemovePerson(id)
  /\ UNCHANGED <<zoomVars, userID, toAdd, reading, lost, uncounted>>

Next ==
  \/ \E id \in Ids : Enter(id) \/ Leave(id) \/ SendChat(id)
  \/ SendRoster
  \/ ReadJoin \/ ReadRoster \/ ReadBadRoster \/ ReadChat
  \/ \E id \in Ids : SendAdd(id) \/ SendRemove(id)

Spec == Init /\ [][Next]_vars

----------------------------------------------------------------------------
TypeOK ==
  /\ VotingTypeOK
  /\ meeting \subseteq Ids /\ told \subseteq Ids
  /\ userID \in {Me, NoId}
  /\ toAdd \subseteq Ids /\ toRemove \subseteq Ids
  /\ reading \in BOOLEAN /\ lost \in BOOLEAN /\ uncounted \subseteq Ids
  /\ sent \in 0..MaxFrames /\ Len(wire) <= MaxWire

\* When every frame has been worked off, and none was lost, the voting has
\* exactly those whom Zoom has announced and who may vote.
RosterFollowsMeeting ==
  wire = <<>> /\ toAdd = {} /\ toRemove = {} /\ ~lost => Joined = told \cap MayVote

\* "don't add ourself" (Listen), provided Zoom answers the join first.
BotStaysOut == Me \notin Joined

\* Whoever has been announced and may vote is in the voting by the time a vote
\* of theirs is read, also when they left meanwhile: unless a roster frame was
\* lost no such vote is refused.
VotesAreCounted == ~lost => uncounted = {}

\* The vote of a member changes only in a step that reads a chat message of that
\* member: neither a roster frame that announces them again, nor one about
\* others, wipes it.
OnlyOwnChatVotes ==
  [][\A id \in Joined \cap DOMAIN people' :
       people'[id].score # people[id].score =>
         /\ wire # <<>> /\ Head(wire).kind = "chat" /\ Head(wire).from = id
         /\ wire' = Tail(wire)]_vars
==============================================================================
