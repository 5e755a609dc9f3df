---------------------------- MODULE RosterProofs -----------------------------
(****************************************************************************)
(* Theorems about Roster: the voting's roster is a faithful replica of      *)
(* Zoom's, for any number of people and frames, and changes a vote only by  *)
(* the voter's own message.                                                 *)
(****************************************************************************)
EXTENDS Roster, VotingProofs

----------------------------------------------------------------------------
\* The frames on their way, and no frame both adds and removes somebody.
Frames == [kind : {"join", "roster", "unreadable", "chat"},
           add : SUBSET Ids, remove : SUBSET Ids, from : Ids \cup {NoId}]

FramesOK ==
  /\ wire \in Seq(Frames)
  /\ \A i \in 1..Len(wire) :
       /\ wire[i].add \cap wire[i].remove = {}
       /\ wire[i].kind \in {"join", "chat"} => wire[i].add \cup wire[i].remove = {}

\* Until the join response has been read it is the first frame, and nothing has
\* been done.
JoinFirst ==
  userID = NoId =>
    /\ toAdd = {} /\ toRemove = {} /\ Joined = {}
    /\ reading => wire # <<>> /\ wire[1].kind = "join"

\* Who will be in the voting when the current frame has been worked off.
Soon(id) == id \in (Joined \cup toAdd) \ toRemove

Adds(w, i, id) == id \in w[i].add
Removes(w, i, id) == id \in w[i].remove

\* Whoever is named on the way is told of as the last frame that names them has
\* it; about the others Zoom and the voting agree.
WireToldOK ==
  \A id \in MayVote :
    /\ \A i \in 1..Len(wire) :
         /\ Adds(wire, i, id) /\ (\A j \in i + 1..Len(wire) : ~Removes(wire, j, id)) => id \in told
         /\ Removes(wire, i, id) /\ (\A j \in i + 1..Len(wire) : ~Adds(wire, j, id)) => id \notin told
    /\ (\A i \in 1..Len(wire) : ~Adds(wire, i, id) /\ ~Removes(wire, i, id)) => (id \in told <=> Soon(id))

\* When a chat message is read, its author will be in the voting.
ChatsOK ==
  \A i \in 1..Len(wire) :
    LET id == wire[i].from
    IN  wire[i].kind = "chat" /\ id \in MayVote =>
          /\ \A j \in 1..i - 1 : Removes(wire, j, id) => \E k \in j + 1..i - 1 : Adds(wire, k, id)
          /\ (\A j \in 1..i - 1 : ~Adds(wire, j, id)) => Soon(id)

RosterInv ==
  /\ FramesOK
  /\ meeting \subseteq Ids /\ told \subseteq Ids
  /\ userID \in {Me, NoId}
  /\ toAdd \subseteq Ids /\ toAdd \cap toRemove = {}
  /\ JoinFirst
  /\ Joined \subseteq MayVote
  /\ ~lost => WireToldOK /\ ChatsOK /\ uncounted = {}

----------------------------------------------------------------------------
\* What the methods of Voting do to the set of those who joined.
LEMMA JoinedAfter ==
  ASSUME NEW id, NEW name
  PROVE  /\ AddPerson(id, name) =>
               Joined' = IF name \notin Blacklist THEN Joined \cup {id} ELSE Joined
         /\ RemovePerson(id) => Joined' = Joined \ {id}
         /\ AddVote(id, Vote) => Joined' = Joined
         /\ UNCHANGED votingVars => Joined' = Joined
<1>1. AddPerson(id, name) =>
        Joined' = IF name \notin Blacklist THEN Joined \cup {id} ELSE Joined
  BY DEF AddPerson, Joined
<1>2. RemovePerson(id) => Joined' = Joined \ {id}
  BY DEF RemovePerson, Joined
<1>3. AddVote(id, Vote) => Joined' = Joined
  BY DEF AddVote, Joined, votingVars
<1>4. UNCHANGED votingVars => Joined' = Joined
  BY DEF votingVars, Joined
<1> QED BY <1>1, <1>2, <1>3, <1>4

\* The queue of frames after the reader takes one, and after Zoom sends one.
LEMMA TakesFacts ==
  ASSUME FramesOK, NEW kind, Takes(kind)
  PROVE  /\ wire # <<>> /\ wire[1].kind = kind /\ wire[1] \in Frames
         /\ Head(wire) = wire[1]
         /\ wire' \in Seq(Frames)
         /\ Len(wire) \in Nat /\ Len(wire') = Len(wire) - 1
         /\ \A i \in 1..Len(wire') : i + 1 \in 1..Len(wire) /\ wire'[i] = wire[i + 1]
         /\ toAdd = {} /\ toRemove = {} /\ UNCHANGED <<told, meeting>> /\ FramesOK'
<1>1. wire \in Seq(Frames) /\ wire # <<>> /\ wire' = Tail(wire)
  BY DEF Takes, FramesOK
<1>2. /\ wire[1] \in Frames /\ Head(wire) = wire[1]
      /\ wire' \in Seq(Frames)
      /\ Len(wire) \in Nat /\ Len(wire') = Len(wire) - 1
      /\ \A i \in 1..Len(wire') : i + 1 \in 1..Len(wire) /\ wire'[i] = wire[i + 1]
  BY <1>1
<1>3. FramesOK'
  BY <1>2 DEF FramesOK
<1> QED BY <1>1, <1>2, <1>3 DEF Takes

LEMMA SendFacts ==
  ASSUME FramesOK, NEW f \in Frames, Send(f),
         f.add \cap f.remove = {},
         f.kind \in {"join", "chat"} => f.add \cup f.remove = {}
  PROVE  /\ Len(wire) \in Nat /\ Len(wire') = Len(wire) + 1
         /\ \A i \in 1..Len(wire) : wire'[i] = wire[i]
         /\ wire'[Len(wire) + 1] = f
         /\ FramesOK'
<1>1. wire \in Seq(Frames) /\ wire' = Append(wire, f)
  BY DEF Send, FramesOK
<1>2. /\ Len(wire) \in Nat /\ Len(wire') = Len(wire) + 1
      /\ \A i \in 1..Len(wire) : wire'[i] = wire[i]
      /\ wire'[Len(wire) + 1] = f
      /\ wire' \in Seq(Frames)
  BY <1>1
<1>3. \A i \in 1..Len(wire') : i \in 1..Len(wire) \/ i = Len(wire) + 1
  BY <1>2
<1>4. FramesOK'
  BY <1>2, <1>3 DEF FramesOK
<1> QED BY <1>2, <1>4

----------------------------------------------------------------------------
\* When a frame has been taken, and Soon has followed it, the rest of the frames
\* stand in the same relation to the voting as all of them did before.
LEMMA TakeKeepsTold ==
  ASSUME FramesOK, WireToldOK, wire # <<>>,
         Len(wire) \in Nat, Len(wire') = Len(wire) - 1,
         \A i \in 1..Len(wire') : i + 1 \in 1..Len(wire) /\ wire'[i] = wire[i + 1],
         told' = told,
         \A id \in MayVote : Soon(id)' <=> Adds(wire, 1, id) \/ (Soon(id) /\ ~Removes(wire, 1, id))
  PROVE  WireToldOK'
<1> SUFFICES ASSUME NEW id \in MayVote
             PROVE  /\ \A i \in 1..Len(wire') :
                         /\ Adds(wire', i, id) /\ (\A j \in i + 1..Len(wire') : ~Removes(wire', j, id)) => id \in told'
                         /\ Removes(wire', i, id) /\ (\A j \in i + 1..Len(wire') : ~Adds(wire', j, id)) => id \notin told'
                    /\ (\A i \in 1..Len(wire') : ~Adds(wire', i, id) /\ ~Removes(wire', i, id))
                          => (id \in told' <=> Soon(id)')
  BY DEF WireToldOK, MayVote, Adds, Removes
<1>0. Len(wire) >= 1 /\ 1 \in 1..Len(wire)
  BY DEF FramesOK
<1>2. ASSUME NEW j \in 2..Len(wire)
      PROVE  j - 1 \in 1..Len(wire') /\ wire'[j - 1] = wire[j]
  <2>1. j - 1 \in 1..Len(wire') /\ (j - 1) + 1 = j
    BY <1>0
  <2> QED BY <2>1
<1>3. ASSUME NEW i \in 1..Len(wire')
      PROVE  /\ Adds(wire', i, id) /\ (\A j \in i + 1..Len(wire') : ~Removes(wire', j, id)) => id \in told'
             /\ Removes(wire', i, id) /\ (\A j \in i + 1..Len(wire') : ~Adds(wire', j, id)) => id \notin told'
  <2>1. /\ Adds(wire, i + 1, id) /\ (\A j \in (i + 1) + 1..Len(wire) : ~Removes(wire, j, id)) => id \in told
        /\ Removes(wire, i + 1, id) /\ (\A j \in (i + 1) + 1..Len(wire) : ~Adds(wire, j, id)) => id \notin told
    BY DEF WireToldOK
  <2>2. \A j \in (i + 1) + 1..Len(wire) : j \in 2..Len(wire) /\ j - 1 \in i + 1..Len(wire')
    BY <1>0
  <2>3. \A j \in (i + 1) + 1..Len(wire) : /\ Adds(wire', j - 1, id) <=> Adds(wire, j, id)
                                          /\ Removes(wire', j - 1, id) <=> Removes(wire, j, id)
    BY <1>2, <2>2 DEF Adds, Removes
  <2>4. ASSUME \A j \in i + 1..Len(wire') : ~Removes(wire', j, id)
        PROVE  \A j \in (i + 1) + 1..Len(wire) : ~Removes(wire, j, id)
    BY <2>2, <2>3, <2>4 DEF Removes
  <2>5. ASSUME \A j \in i + 1..Len(wire') : ~Adds(wire', j, id)
        PROVE  \A j \in (i + 1) + 1..Len(wire) : ~Adds(wire, j, id)
    BY <2>2, <2>3, <2>5 DEF Adds
  <2>6. wire'[i] = wire[i + 1]
    OBVIOUS
  <2>7. ASSUME Adds(wire', i, id), \A j \in i + 1..Len(wire') : ~Removes(wire', j, id)
        PROVE  id \in told'
    <3>1. Adds(wire, i + 1, id)
      BY <2>6, <2>7 DEF Adds
    <3> QED BY <2>1, <2>4, <2>7, <3>1
  <2>8. ASSUME Removes(wire', i, id), \A j \in i + 1..Len(wire') : ~Adds(wire', j, id)
        PROVE  id \notin told'
    <3>1. Removes(wire, i + 1, id)
      BY <2>6, <2>8 DEF Removes
    <3> QED BY <2>1, <2>5, <2>8, <3>1
  <2> QED BY <2>7, <2>8
<1>4. ASSUME \A i \in 1..Len(wire') : ~Adds(wire', i, id) /\ ~Removes(wire', i, id)
      PROVE  id \in told' <=> Soon(id)'
  <2>1. ASSUME NEW j \in 2..Len(wire)
        PROVE  ~Adds(wire, j, id) /\ ~Removes(wire, j, id)
    <3>1. j - 1 \in 1..Len(wire')
      BY <1>2
    <3>2. ~Adds(wire', j - 1, id) /\ ~Removes(wire', j - 1, id)
      BY <1>4, <3>1
    <3>3. wire'[j - 1] = wire[j]
      BY <1>2
    <3> QED BY <3>2, <3>3 DEF Adds, Removes
  <2>2. ~(Adds(wire, 1, id) /\ Removes(wire, 1, id))
    BY <1>0 DEF FramesOK, Adds, Removes
  <2>3. \A j \in 1..Len(wire) : j = 1 \/ j \in 2..Len(wire)
    BY <1>0
  <2>4. \A j \in 1 + 1..Len(wire) : j \in 2..Len(wire)
    BY <1>0
  <2>5. CASE Adds(wire, 1, id)
    <3>1. id \in told
      BY <1>0, <2>1, <2>4, <2>5 DEF WireToldOK
    <3> QED BY <2>5, <3>1
  <2>6. CASE Removes(wire, 1, id)
    <3>1. id \notin told
      BY <1>0, <2>1, <2>4, <2>6 DEF WireToldOK
    <3> QED BY <2>2, <2>6, <3>1
  <2>7. CASE ~Adds(wire, 1, id) /\ ~Removes(wire, 1, id)
    <3>1. id \in told <=> Soon(id)
      BY <2>1, <2>3, <2>7 DEF WireToldOK
    <3> QED BY <2>7, <3>1
  <2> QED BY <2>5, <2>6, <2>7
<1> QED BY <1>3, <1>4

LEMMA TakeKeepsChats ==
  ASSUME FramesOK, ChatsOK, wire # <<>>,
         Len(wire) \in Nat, Len(wire') = Len(wire) - 1,
         \A i \in 1..Len(wire') : i + 1 \in 1..Len(wire) /\ wire'[i] = wire[i + 1],
         \A id \in MayVote : Soon(id)' <=> Adds(wire, 1, id) \/ (Soon(id) /\ ~Removes(wire, 1, id))
  PROVE  ChatsOK'
<1> SUFFICES ASSUME NEW i \in 1..Len(wire'), NEW id \in MayVote,
                    wire'[i].kind = "chat", id = wire'[i].from
             PROVE  /\ \A j \in 1..i - 1 : Removes(wire', j, id) => \E k \in j + 1..i - 1 : Adds(wire', k, id)
                    /\ (\A j \in 1..i - 1 : ~Adds(wire', j, id)) => Soon(id)'
  BY DEF ChatsOK, MayVote, Adds, Removes
<1>0. Len(wire) >= 1 /\ 1 \in 1..Len(wire)
  BY DEF FramesOK
<1>1. \A j \in 1..i - 1 : /\ Adds(wire', j, id) <=> Adds(wire, j + 1, id)
                          /\ Removes(wire', j, id) <=> Removes(wire, j + 1, id)
  BY <1>0 DEF Adds, Removes
<1>2. \A j \in 2..i : /\ j - 1 \in 1..i - 1 /\ (j - 1) + 1 = j
                      /\ Adds(wire', j - 1, id) <=> Adds(wire, j, id)
  BY <1>0, <1>1
<1>3. /\ \A j \in 1..(i + 1) - 1 : Removes(wire, j, id) => \E k \in j + 1..(i + 1) - 1 : Adds(wire, k, id)
      /\ (\A j \in 1..(i + 1) - 1 : ~Adds(wire, j, id)) => Soon(id)
  BY DEF ChatsOK
<1>4. (i + 1) - 1 = i
  OBVIOUS
<1>5. ASSUME NEW j \in 1..i - 1, Removes(wire', j, id)
      PROVE  \E k \in j + 1..i - 1 : Adds(wire', k, id)
  <2>1. j + 1 \in 1..i /\ Removes(wire, j + 1, id)
    BY <1>1, <1>5
  <2>2. PICK k \in (j + 1) + 1..i : Adds(wire, k, id)
    BY <1>3, <1>4, <2>1
  <2>3. k \in 2..i /\ k - 1 \in j + 1..i - 1
    OBVIOUS
  <2> QED BY <1>2, <2>2, <2>3
<1>6. ASSUME \A j \in 1..i - 1 : ~Adds(wire', j, id)
      PROVE  Soon(id)'
  <2>1. \A j \in 2..i : ~Adds(wire, j, id)
    BY <1>2, <1>6
  <2>2. \A j \in 1..i : j = 1 \/ j \in 2..i
    OBVIOUS
  <2>3. ~Adds(wire, 1, id) => Soon(id)
    BY <1>3, <1>4, <2>1, <2>2
  <2>4. ~Adds(wire, 1, id) => ~Removes(wire, 1, id)
    <3>1. \A k \in 1 + 1..i : k \in 2..i
      OBVIOUS
    <3>2. 1 \in 1..i
      OBVIOUS
    <3> QED BY <1>3, <1>4, <2>1, <3>1, <3>2
  <2> QED BY <2>3, <2>4
<1> QED BY <1>5, <1>6
\* A step that leaves the frames and what Zoom has told alone, and nobody's
\* place in the voting changed, keeps both relations.
LEMMA WorkKeeps ==
  ASSUME UNCHANGED <<wire, told>>, \A id \in MayVote : Soon(id)' <=> Soon(id)
  PROVE  (WireToldOK => WireToldOK') /\ (ChatsOK => ChatsOK')
<1>1. WireToldOK => WireToldOK'
  BY DEF WireToldOK, MayVote, Adds, Removes
<1>2. ChatsOK => ChatsOK'
  BY DEF ChatsOK, MayVote, Adds, Removes
<1> QED BY <1>1, <1>2

----------------------------------------------------------------------------
\* The reader takes a frame.
LEMMA ReadKeeps ==
  ASSUME RosterInv, ReadJoin \/ ReadRoster \/ ReadBadRoster \/ ReadChat
  PROVE  RosterInv'
<1> USE DEF RosterInv
<1>1. ASSUME ReadJoin PROVE RosterInv'
  <2>1. Takes("join") /\ UNCHANGED <<toAdd, toRemove, lost, uncounted>>
    BY <1>1 DEF ReadJoin
  <2>2. Joined' = Joined
    BY <1>1, JoinedAfter DEF ReadJoin
  <2>3. FramesOK /\ meeting' = meeting /\ told' = told
    BY <2>1 DEF Takes
  <2>4. FramesOK' /\ wire # <<>> /\ wire[1].kind = "join" /\ 1 \in 1..Len(wire)
    BY <2>1, <2>3, TakesFacts
  <2>5. \A id \in MayVote : Soon(id)' <=> Adds(wire, 1, id) \/ (Soon(id) /\ ~Removes(wire, 1, id))
    BY <2>1, <2>2, <2>4 DEF FramesOK, Soon, Adds, Removes
  <2>6. WireToldOK => WireToldOK'
    BY <2>1, <2>3, <2>5, TakesFacts, TakeKeepsTold
  <2>7. ChatsOK => ChatsOK'
    BY <2>1, <2>3, <2>5, TakesFacts, TakeKeepsChats
  <2>8. userID' \in {Me, NoId} /\ JoinFirst'
    BY <1>1, <2>1, <2>2, RosterAssumption DEF ReadJoin, JoinFirst
  <2>9. Joined' \subseteq MayVote'
    BY <2>2 DEF MayVote
  <2> QED BY <2>1, <2>3, <2>4, <2>6, <2>7, <2>8, <2>9
\* The other frames come after the join response.
<1>2. ASSUME NEW kind \in {"roster", "unreadable", "chat"}, Takes(kind)
      PROVE  userID = Me
  <2>1. wire[1].kind = kind
    BY <1>2, TakesFacts
  <2> QED BY <1>2, <2>1 DEF JoinFirst, Takes
<1>3. ASSUME ReadRoster PROVE RosterInv'
  <2>1. /\ Takes("roster") /\ UNCHANGED <<userID, lost, uncounted>>
        /\ toAdd' = Head(wire).add /\ toRemove' = Head(wire).remove
    BY <1>3 DEF ReadRoster
  <2>2. Joined' = Joined
    BY <1>3, JoinedAfter DEF ReadRoster
  <2>3. FramesOK /\ meeting' = meeting /\ told' = told
    BY <2>1 DEF Takes
  <2>4. /\ FramesOK' /\ wire # <<>> /\ 1 \in 1..Len(wire) /\ wire[1] \in Frames
        /\ Head(wire) = wire[1] /\ toAdd = {} /\ toRemove = {}
    BY <2>1, <2>3, TakesFacts
  <2>5. toAdd' = wire[1].add /\ toRemove' = wire[1].remove
    BY <2>1, <2>4
  <2>6. toAdd' \subseteq Ids /\ toAdd' \cap toRemove' = {}
    BY <2>3, <2>4, <2>5 DEF Frames, FramesOK
  <2>7. \A id \in MayVote : Soon(id)' <=> Adds(wire, 1, id) \/ (Soon(id) /\ ~Removes(wire, 1, id))
    BY <2>2, <2>4, <2>5, <2>6 DEF Soon, Adds, Removes
  <2>8. WireToldOK => WireToldOK'
    BY <2>1, <2>3, <2>7, TakesFacts, TakeKeepsTold
  <2>9. ChatsOK => ChatsOK'
    BY <2>1, <2>3, <2>7, TakesFacts, TakeKeepsChats
  <2>10. JoinFirst'
    BY <1>2, <2>1, RosterAssumption DEF JoinFirst
  <2>11. Joined' \subseteq MayVote'
    BY <2>2 DEF MayVote
  <2> QED BY <2>1, <2>3, <2>4, <2>6, <2>8, <2>9, <2>10, <2>11
<1>4. ASSUME ReadBadRoster PROVE RosterInv'
  <2>1. Takes("unreadable") /\ lost' /\ UNCHANGED <<userID, toAdd, toRemove>>
    BY <1>4 DEF ReadBadRoster
  <2>2. Joined' = Joined
    BY <1>4, JoinedAfter DEF ReadBadRoster
  <2>3. FramesOK /\ meeting' = meeting /\ told' = told
    BY <2>1 DEF Takes
  <2>4. FramesOK'
    BY <2>1, <2>3, TakesFacts
  <2>5. JoinFirst'
    BY <1>2, <2>1, RosterAssumption DEF JoinFirst
  <2>6. Joined' \subseteq MayVote'
    BY <2>2 DEF MayVote
  <2> QED BY <2>1, <2>3, <2>4, <2>5, <2>6
<1>5. ASSUME ReadChat PROVE RosterInv'
  <2> DEFINE from == Head(wire).from
  <2>1. Takes("chat") /\ ChatApplied(from)
    BY <1>5 DEF ReadChat
  <2>2. Joined' = Joined /\ UNCHANGED <<userID, toAdd, toRemove, reading, lost>>
    BY <2>1, JoinedAfter DEF ChatApplied
  <2>3. FramesOK /\ meeting' = meeting /\ told' = told
    BY <2>1 DEF Takes
  <2>4. /\ FramesOK' /\ wire # <<>> /\ 1 \in 1..Len(wire) /\ from = wire[1].from
        /\ toAdd = {} /\ toRemove = {} /\ wire[1].kind = "chat"
    BY <2>1, <2>3, TakesFacts
  <2>5. \A id \in MayVote : Soon(id)' <=> Adds(wire, 1, id) \/ (Soon(id) /\ ~Removes(wire, 1, id))
    BY <2>2, <2>3, <2>4 DEF FramesOK, Soon, Adds, Removes
  <2>6. WireToldOK => WireToldOK'
    BY <2>1, <2>3, <2>5, TakesFacts, TakeKeepsTold
  <2>7. ChatsOK => ChatsOK'
    BY <2>1, <2>3, <2>5, TakesFacts, TakeKeepsChats
  <2>8. JoinFirst'
    BY <1>2, <2>1, <2>2, RosterAssumption DEF JoinFirst
  <2>9. Joined' \subseteq MayVote'
    BY <2>2 DEF MayVote
  <2>10. ASSUME ChatsOK PROVE uncounted' = uncounted
    <3>1. from \in MayVote => Soon(from)
      BY <2>4, <2>10 DEF ChatsOK
    <3> QED BY <2>1, <2>4, <3>1 DEF ChatApplied, Soon
  <2> QED BY <2>2, <2>3, <2>4, <2>6, <2>7, <2>8, <2>9, <2>10
<1> QED BY <1>1, <1>3, <1>4, <1>5

\* The reader works off the current frame.
LEMMA WorkOffKeeps ==
  ASSUME RosterInv, NEW id \in Ids, SendAdd(id) \/ SendRemove(id)
  PROVE  RosterInv'
<1> USE DEF RosterInv
<1>1. UNCHANGED <<wire, meeting, told, userID, lost, uncounted>>
  BY DEF SendAdd, SendRemove, zoomVars
<1>2. FramesOK'
  BY <1>1 DEF FramesOK
<1>3. userID = Me
  BY DEF JoinFirst, SendAdd, SendRemove
<1>4. JoinFirst'
  BY <1>1, <1>3, RosterAssumption DEF JoinFirst
<1>5. ASSUME SendAdd(id)
      PROVE  /\ Joined' \subseteq MayVote
             /\ toAdd' \subseteq Ids /\ toAdd' \cap toRemove' = {}
             /\ \A p \in MayVote : Soon(p)' <=> Soon(p)
  <2>1. id \in toAdd /\ toAdd' = toAdd \ {id} /\ toRemove' = toRemove
    BY <1>5 DEF SendAdd
  <2>2. Joined' = IF id \in MayVote THEN Joined \cup {id} ELSE Joined
    BY <1>3, <1>5, JoinedAfter DEF SendAdd, MayVote
  <2> QED BY <2>1, <2>2 DEF Soon
<1>6. ASSUME SendRemove(id)
      PROVE  /\ Joined' \subseteq MayVote
             /\ toAdd' \subseteq Ids /\ toAdd' \cap toRemove' = {}
             /\ \A p \in MayVote : Soon(p)' <=> Soon(p)
  <2>1. id \in toRemove /\ toAdd' = toAdd /\ toRemove' = toRemove \ {id}
    BY <1>6 DEF SendRemove
  <2>2. Joined' = Joined \ {id}
    BY <1>6, JoinedAfter DEF SendRemove
  <2> QED BY <2>1, <2>2 DEF Soon
<1>7. /\ Joined' \subseteq MayVote
      /\ toAdd' \subseteq Ids /\ toAdd' \cap toRemove' = {}
      /\ \A p \in MayVote : Soon(p)' <=> Soon(p)
  BY <1>5, <1>6
<1>8. MayVote' = MayVote
  BY DEF MayVote
<1>9. (WireToldOK => WireToldOK') /\ (ChatsOK => ChatsOK')
  BY <1>1, <1>7, WorkKeeps
<1> QED BY <1>1, <1>2, <1>4, <1>7, <1>8, <1>9
----------------------------------------------------------------------------
\* Zoom sends what has changed since its last roster frame.
LEMMA SendRosterKeeps ==
  ASSUME RosterInv, SendRoster
  PROVE  RosterInv'
<1> USE DEF RosterInv
<1>1. PICK again \in SUBSET (told \cap meeting), kind \in {"roster", "unreadable"} :
        LET add == (meeting \ told) \cup again
        IN  Send(Frame(kind, add, told \ meeting, NoId))
  BY DEF SendRoster
<1> DEFINE f == Frame(kind, (meeting \ told) \cup again, told \ meeting, NoId)
<1>2. /\ told' = meeting /\ meeting' = meeting /\ meeting \subseteq Ids /\ told \subseteq Ids
      /\ UNCHANGED <<people, userID, toAdd, toRemove, reading, lost, uncounted>>
  BY DEF SendRoster, votingVars, readerVars
<1>3. /\ f \in Frames /\ f.add = (meeting \ told) \cup again /\ f.remove = told \ meeting
      /\ f.kind = kind
  BY <1>2 DEF Frames, Frame
<1>4. FramesOK
  OBVIOUS
<1>5. Send(f)
  BY <1>1
<1>6. /\ Len(wire) \in Nat /\ Len(wire') = Len(wire) + 1
      /\ \A i \in 1..Len(wire) : wire'[i] = wire[i]
      /\ wire'[Len(wire) + 1] = f
      /\ FramesOK'
  <2>1. f.add \cap f.remove = {} /\ ~(f.kind \in {"join", "chat"})
    BY <1>3
  <2> HIDE DEF f
  <2> QED BY <1>3, <1>4, <1>5, <2>1, SendFacts
<1>0. Len(wire) \in Nat
  BY <1>6
<1> HIDE DEF f, RosterInv
<1>7. \A id : Soon(id)' <=> Soon(id)
  BY <1>2 DEF Soon, Joined
<1>8. ASSUME WireToldOK PROVE WireToldOK'
  <2> SUFFICES ASSUME NEW id \in MayVote
               PROVE  /\ \A i \in 1..Len(wire) + 1 :
                           /\ Adds(wire', i, id) /\ (\A j \in i + 1..Len(wire) + 1 : ~Removes(wire', j, id)) => id \in told'
                           /\ Removes(wire', i, id) /\ (\A j \in i + 1..Len(wire) + 1 : ~Adds(wire', j, id)) => id \notin told'
                      /\ (\A i \in 1..Len(wire) + 1 : ~Adds(wire', i, id) /\ ~Removes(wire', i, id))
                            => (id \in told' <=> Soon(id)')
    BY <1>6 DEF WireToldOK, MayVote, Adds, Removes
  <2>1. /\ Adds(wire', Len(wire) + 1, id) <=> id \in (meeting \ told) \cup again
        /\ Removes(wire', Len(wire) + 1, id) <=> id \in told \ meeting
    BY <1>3, <1>6 DEF Adds, Removes
  <2>2. ASSUME NEW i \in 1..Len(wire)
        PROVE  /\ Adds(wire', i, id) <=> Adds(wire, i, id)
               /\ Removes(wire', i, id) <=> Removes(wire, i, id)
    BY <1>6 DEF Adds, Removes
  <2>3. ASSUME NEW i \in 1..Len(wire), Adds(wire', i, id), \A j \in i + 1..Len(wire) + 1 : ~Removes(wire', j, id)
        PROVE  id \in told'
    <3>1. Len(wire) + 1 \in i + 1..Len(wire) + 1 /\ \A j \in i + 1..Len(wire) : j \in 1..Len(wire) /\ j \in i + 1..Len(wire) + 1
      BY <1>0
    <3>2. \A j \in i + 1..Len(wire) : ~Removes(wire, j, id)
      BY <2>2, <2>3, <3>1
    <3>3. Adds(wire, i, id)
      BY <2>2, <2>3
    <3>4. id \in told
      BY <1>8, <3>2, <3>3 DEF WireToldOK
    <3> QED BY <1>2, <2>1, <2>3, <3>1, <3>4
  <2>4. ASSUME NEW i \in 1..Len(wire), Removes(wire', i, id), \A j \in i + 1..Len(wire) + 1 : ~Adds(wire', j, id)
        PROVE  id \notin told'
    <3>1. Len(wire) + 1 \in i + 1..Len(wire) + 1 /\ \A j \in i + 1..Len(wire) : j \in 1..Len(wire) /\ j \in i + 1..Len(wire) + 1
      BY <1>0
    <3>2. \A j \in i + 1..Len(wire) : ~Adds(wire, j, id)
      BY <2>2, <2>4, <3>1
    <3>3. Removes(wire, i, id)
      BY <2>2, <2>4
    <3>4. id \notin told
      BY <1>8, <3>2, <3>3 DEF WireToldOK
    <3> QED BY <1>2, <2>1, <2>4, <3>1, <3>4
  <2>5. /\ Adds(wire', Len(wire) + 1, id) => id \in told'
        /\ Removes(wire', Len(wire) + 1, id) => id \notin told'
    BY <1>2, <2>1
  <2>6. ASSUME \A i \in 1..Len(wire) + 1 : ~Adds(wire', i, id) /\ ~Removes(wire', i, id)
        PROVE  id \in told' <=> Soon(id)'
    <3>1. Len(wire) + 1 \in 1..Len(wire) + 1 /\ \A i \in 1..Len(wire) : i \in 1..Len(wire) + 1
      BY <1>0
    <3>2. \A i \in 1..Len(wire) : ~Adds(wire, i, id) /\ ~Removes(wire, i, id)
      BY <2>2, <2>6, <3>1
    <3>3. id \in told <=> Soon(id)
      BY <1>8, <3>2 DEF WireToldOK
    <3>4. id \notin (meeting \ told) \cup again /\ id \notin told \ meeting
      BY <2>1, <2>6, <3>1
    <3> QED BY <1>2, <1>7, <3>3, <3>4
  <2>7. \A i \in 1..Len(wire) + 1 : i \in 1..Len(wire) \/ i = Len(wire) + 1
    BY <1>0
  <2> QED BY <2>3, <2>4, <2>5, <2>6, <2>7
<1>9. ASSUME ChatsOK PROVE ChatsOK'
  <2> SUFFICES ASSUME NEW i \in 1..Len(wire) + 1, NEW id \in MayVote,
                      wire'[i].kind = "chat", id = wire'[i].from
               PROVE  /\ \A j \in 1..i - 1 : Removes(wire', j, id) => \E k \in j + 1..i - 1 : Adds(wire', k, id)
                      /\ (\A j \in 1..i - 1 : ~Adds(wire', j, id)) => Soon(id)'
    BY <1>6 DEF ChatsOK, MayVote, Adds, Removes
  <2>1. i \in 1..Len(wire)
    <3>1. i # Len(wire) + 1
      BY <1>3, <1>6
    <3> QED BY <1>0, <3>1
  <2>2. /\ \A j \in 1..i - 1 : Removes(wire, j, id) => \E k \in j + 1..i - 1 : Adds(wire, k, id)
        /\ (\A j \in 1..i - 1 : ~Adds(wire, j, id)) => Soon(id)
    BY <1>6, <1>9, <2>1 DEF ChatsOK
  <2>3. \A j \in 1..i - 1 : j \in 1..Len(wire) /\ \A k \in j + 1..i - 1 : k \in 1..Len(wire)
    BY <1>0, <2>1
  <2>4. ASSUME NEW j \in 1..i - 1, Removes(wire', j, id)
        PROVE  \E k \in j + 1..i - 1 : Adds(wire', k, id)
    <3>1. Removes(wire, j, id)
      BY <1>6, <2>3, <2>4 DEF Removes
    <3>2. PICK k \in j + 1..i - 1 : Adds(wire, k, id)
      BY <2>2, <3>1
    <3> QED BY <1>6, <2>3, <3>2 DEF Adds
  <2>5. ASSUME \A j \in 1..i - 1 : ~Adds(wire', j, id)
        PROVE  Soon(id)'
    <3>1. \A j \in 1..i - 1 : ~Adds(wire, j, id)
      BY <1>6, <2>3, <2>5 DEF Adds
    <3> QED BY <1>7, <2>2, <3>1
  <2> QED BY <2>4, <2>5
<1>10. JoinFirst'
  <2>1. wire # <<>> => 1 \in 1..Len(wire)
    BY <1>4 DEF FramesOK
  <2>2. wire' # <<>>
    BY <1>6, <1>0
  <2>3. wire # <<>> /\ wire[1].kind = "join" => wire'[1].kind = "join"
    BY <1>6, <2>1
  <2> QED BY <1>2, <2>2, <2>3 DEF JoinFirst, Joined, RosterInv
<1>11. Joined' \subseteq MayVote'
  BY <1>2 DEF Joined, MayVote, RosterInv
<1> QED BY <1>2, <1>6, <1>8, <1>9, <1>10, <1>11 DEF RosterInv
\* A participant writes in the chat.
LEMMA SendChatKeeps ==
  ASSUME RosterInv, NEW author \in Ids, SendChat(author)
  PROVE  RosterInv'
<1> DEFINE f == Frame("chat", {}, {}, author)
<1>1. /\ Send(f) /\ author \in told
      /\ UNCHANGED <<people, meeting, told, userID, toAdd, toRemove, reading, lost, uncounted>>
  BY DEF SendChat, votingVars, readerVars
<1>2. f \in Frames /\ f.add = {} /\ f.remove = {} /\ f.kind = "chat" /\ f.from = author
  BY DEF Frames, Frame
<1> HIDE DEF f
<1>3. FramesOK
  BY DEF RosterInv
<1>4. /\ Len(wire) \in Nat /\ Len(wire') = Len(wire) + 1
      /\ \A i \in 1..Len(wire) : wire'[i] = wire[i]
      /\ wire'[Len(wire) + 1] = f
      /\ FramesOK'
  BY <1>1, <1>2, <1>3, SendFacts
<1>0. Len(wire) \in Nat
  BY <1>4
<1>5. \A id : Soon(id)' <=> Soon(id)
  BY <1>1 DEF Soon, Joined
\* The new frame changes nobody's place.
<1>6. ASSUME NEW id
      PROVE  ~Adds(wire', Len(wire) + 1, id) /\ ~Removes(wire', Len(wire) + 1, id)
  BY <1>2, <1>4 DEF Adds, Removes
<1>7. ASSUME NEW id, NEW i \in 1..Len(wire)
      PROVE  /\ Adds(wire', i, id) <=> Adds(wire, i, id)
             /\ Removes(wire', i, id) <=> Removes(wire, i, id)
  BY <1>4 DEF Adds, Removes
<1>8. ASSUME WireToldOK PROVE WireToldOK'
  <2> SUFFICES ASSUME NEW id \in MayVote
               PROVE  /\ \A i \in 1..Len(wire) + 1 :
                           /\ Adds(wire', i, id) /\ (\A j \in i + 1..Len(wire) + 1 : ~Removes(wire', j, id)) => id \in told'
                           /\ Removes(wire', i, id) /\ (\A j \in i + 1..Len(wire) + 1 : ~Adds(wire', j, id)) => id \notin told'
                      /\ (\A i \in 1..Len(wire) + 1 : ~Adds(wire', i, id) /\ ~Removes(wire', i, id))
                            => (id \in told' <=> Soon(id)')
    BY <1>4 DEF WireToldOK, MayVote, Adds, Removes
  <2>1. ASSUME NEW i \in 1..Len(wire)
        PROVE  \A j \in i + 1..Len(wire) : j \in 1..Len(wire) /\ j \in i + 1..Len(wire) + 1
    BY <1>0
  <2>2. ASSUME NEW i \in 1..Len(wire), Adds(wire', i, id), \A j \in i + 1..Len(wire) + 1 : ~Removes(wire', j, id)
        PROVE  id \in told'
    <3>1. \A j \in i + 1..Len(wire) : ~Removes(wire, j, id)
      BY <1>7, <2>1, <2>2
    <3>2. Adds(wire, i, id)
      BY <1>7, <2>2
    <3> QED BY <1>1, <1>8, <3>1, <3>2 DEF WireToldOK
  <2>3. ASSUME NEW i \in 1..Len(wire), Removes(wire', i, id), \A j \in i + 1..Len(wire) + 1 : ~Adds(wire', j, id)
        PROVE  id \notin told'
    <3>1. \A j \in i + 1..Len(wire) : ~Adds(wire, j, id)
      BY <1>7, <2>1, <2>3
    <3>2. Removes(wire, i, id)
      BY <1>7, <2>3
    <3> QED BY <1>1, <1>8, <3>1, <3>2 DEF WireToldOK
  <2>4. ASSUME \A i \in 1..Len(wire) + 1 : ~Adds(wire', i, id) /\ ~Removes(wire', i, id)
        PROVE  id \in told' <=> Soon(id)'
    <3>1. \A i \in 1..Len(wire) : i \in 1..Len(wire) + 1
      BY <1>0
    <3>2. \A i \in 1..Len(wire) : ~Adds(wire, i, id) /\ ~Removes(wire, i, id)
      BY <1>7, <2>4, <3>1
    <3>3. id \in told <=> Soon(id)
      BY <1>8, <3>2 DEF WireToldOK
    <3> QED BY <1>1, <1>5, <3>3
  <2>5. \A i \in 1..Len(wire) + 1 : i \in 1..Len(wire) \/ i = Len(wire) + 1
    BY <1>0
  <2> QED BY <1>6, <2>2, <2>3, <2>4, <2>5
<1>9. ASSUME WireToldOK, ChatsOK PROVE ChatsOK'
  <2> SUFFICES ASSUME NEW i \in 1..Len(wire) + 1, NEW id \in MayVote,
                      wire'[i].kind = "chat", id = wire'[i].from
               PROVE  /\ \A j \in 1..i - 1 : Removes(wire', j, id) => \E k \in j + 1..i - 1 : Adds(wire', k, id)
                      /\ (\A j \in 1..i - 1 : ~Adds(wire', j, id)) => Soon(id)'
    BY <1>4 DEF ChatsOK, MayVote, Adds, Removes
  <2>1. \A j \in 1..i - 1 : j \in 1..Len(wire) /\ \A k \in j + 1..i - 1 : k \in 1..Len(wire)
    BY <1>0
  <2>2. /\ \A j \in 1..i - 1 : Removes(wire, j, id) => \E k \in j + 1..i - 1 : Adds(wire, k, id)
        /\ (\A j \in 1..i - 1 : ~Adds(wire, j, id)) => Soon(id)
    <3>1. CASE i \in 1..Len(wire)
      BY <1>4, <1>9, <3>1 DEF ChatsOK
    <3>2. CASE i = Len(wire) + 1
      <4>1. id = author /\ id \in told
        BY <1>1, <1>2, <1>4, <3>2
      <4>2. i - 1 = Len(wire)
        BY <1>0, <3>2
      <4>3. ASSUME NEW j \in 1..Len(wire), Removes(wire, j, id)
            PROVE  \E k \in j + 1..Len(wire) : Adds(wire, k, id)
        BY <1>9, <4>1, <4>3 DEF WireToldOK
      <4>4. ASSUME \A j \in 1..Len(wire) : ~Adds(wire, j, id)
            PROVE  Soon(id)
        <5>1. \A j \in 1..Len(wire) : \A k \in j + 1..Len(wire) : k \in 1..Len(wire)
          BY <1>0
        <5>2. \A j \in 1..Len(wire) : ~Removes(wire, j, id)
          BY <4>3, <4>4, <5>1
        <5> QED BY <1>9, <4>1, <4>4, <5>2 DEF WireToldOK
      <4> QED BY <4>2, <4>3, <4>4
    <3> QED BY <1>0, <3>1, <3>2
  <2>3. ASSUME NEW j \in 1..i - 1, Removes(wire', j, id)
        PROVE  \E k \in j + 1..i - 1 : Adds(wire', k, id)
    <3>1. Removes(wire, j, id)
      BY <1>7, <2>1, <2>3
    <3>2. PICK k \in j + 1..i - 1 : Adds(wire, k, id)
      BY <2>2, <3>1
    <3> QED BY <1>7, <2>1, <3>2
  <2>4. ASSUME \A j \in 1..i - 1 : ~Adds(wire', j, id)
        PROVE  Soon(id)'
    <3>1. \A j \in 1..i - 1 : ~Adds(wire, j, id)
      BY <1>7, <2>1, <2>4
    <3> QED BY <1>5, <2>2, <3>1
  <2> QED BY <2>3, <2>4
<1>10. JoinFirst'
  <2>1. wire # <<>> => 1 \in 1..Len(wire)
    BY <1>3 DEF FramesOK
  <2>2. wire' # <<>>
    BY <1>4, <1>0
  <2>3. wire # <<>> /\ wire[1].kind = "join" => wire'[1].kind = "join"
    BY <1>4, <2>1
  <2> QED BY <1>1, <2>2, <2>3 DEF JoinFirst, Joined, RosterInv
<1>11. Joined' \subseteq MayVote'
  BY <1>1 DEF Joined, MayVote, RosterInv
<1> QED BY <1>1, <1>4, <1>8, <1>9, <1>10, <1>11 DEF RosterInv

----------------------------------------------------------------------------
LEMMA RosterInvInit == Init => RosterInv
<1> SUFFICES ASSUME Init PROVE RosterInv
  OBVIOUS
<1>1. /\ wire = <<JoinFrame>> /\ Joined = {} /\ told = {} /\ toAdd = {} /\ toRemove = {}
      /\ meeting = {Me} /\ userID = NoId /\ uncounted = {}
  BY DEF Init, VotingInit, Joined
<1>2. /\ JoinFrame \in Frames /\ JoinFrame.add = {} /\ JoinFrame.remove = {}
      /\ JoinFrame.kind = "join"
  BY DEF JoinFrame, Frame, Frames
<1>3. Len(wire) = 1 /\ wire[1] = JoinFrame /\ wire \in Seq(Frames) /\ wire # <<>>
  BY <1>1, <1>2
<1>4. FramesOK
  BY <1>2, <1>3 DEF FramesOK
<1>5. WireToldOK
  BY <1>1, <1>2, <1>3 DEF WireToldOK, Soon, Adds, Removes
<1>6. ChatsOK
  BY <1>2, <1>3 DEF ChatsOK
<1>7. JoinFirst
  BY <1>1, <1>2, <1>3 DEF JoinFirst
<1> QED BY <1>1, <1>4, <1>5, <1>6, <1>7, RosterAssumption DEF RosterInv

LEMMA RosterInvStep == RosterInv /\ [Next]_vars => RosterInv'
<1> SUFFICES ASSUME RosterInv, [Next]_vars PROVE RosterInv'
  OBVIOUS
<1>1. ASSUME NEW id \in Ids, Enter(id) \/ Leave(id) PROVE RosterInv'
  <2>1. /\ UNCHANGED <<people, told, wire, userID, toAdd, toRemove, reading, lost, uncounted>>
        /\ meeting' \subseteq Ids
    BY <1>1 DEF Enter, Leave, votingVars, readerVars, RosterInv
  <2>2. \A p \in MayVote : Soon(p)' <=> Soon(p)
    BY <2>1 DEF Soon, Joined
  <2>3. (WireToldOK => WireToldOK') /\ (ChatsOK => ChatsOK')
    BY <2>1, <2>2, WorkKeeps
  <2>4. FramesOK' /\ JoinFirst' /\ Joined' \subseteq MayVote'
    BY <2>1 DEF FramesOK, JoinFirst, Joined, MayVote, RosterInv
  <2> QED BY <2>1, <2>3, <2>4 DEF RosterInv
<1>2. CASE UNCHANGED vars
  <2>1. UNCHANGED <<people, meeting, told, wire, userID, toAdd, toRemove, reading, lost, uncounted>>
    BY <1>2 DEF vars, votingVars, zoomVars, readerVars
  <2>2. \A p \in MayVote : Soon(p)' <=> Soon(p)
    BY <2>1 DEF Soon, Joined
  <2>3. (WireToldOK => WireToldOK') /\ (ChatsOK => ChatsOK')
    BY <2>1, <2>2, WorkKeeps
  <2>4. FramesOK' /\ JoinFirst' /\ Joined' \subseteq MayVote'
    BY <2>1 DEF FramesOK, JoinFirst, Joined, MayVote, RosterInv
  <2> QED BY <2>1, <2>3, <2>4 DEF RosterInv
<1> QED BY <1>1, <1>2, ReadKeeps, WorkOffKeeps, SendRosterKeeps, SendChatKeeps DEF Next

----------------------------------------------------------------------------
\* Every reachable state satisfies the invariant.
THEOREM RosterStaysInStep == Spec => []RosterInv
  BY RosterInvInit, RosterInvStep, PTL DEF Spec

\* When every frame has been worked off, and none was lost, the voting has
\* exactly those whom Zoom has announced and who may vote.
THEOREM RosterIsFollowed == Spec => []RosterFollowsMeeting
<1>1. RosterInv => RosterFollowsMeeting
  <2> SUFFICES ASSUME RosterInv, wire = <<>>, toAdd = {}, toRemove = {}, ~lost
               PROVE  Joined = told \cap MayVote
    BY DEF RosterFollowsMeeting
  <2>1. \A id \in MayVote : id \in told <=> id \in Joined
    BY DEF RosterInv, WireToldOK, Soon
  <2> QED BY <2>1 DEF RosterInv
<1> QED BY <1>1, RosterStaysInStep, PTL

\* The bot never votes.
THEOREM BotNeverVotes == Spec => []BotStaysOut
<1>1. RosterInv => BotStaysOut
  BY DEF RosterInv, MayVote, BotStaysOut
<1> QED BY <1>1, RosterStaysInStep, PTL

\* A vote of somebody announced is never refused, however late it is read.
THEOREM NoVoteIsRefused == Spec => []VotesAreCounted
<1>1. RosterInv => VotesAreCounted
  BY DEF RosterInv, VotesAreCounted
<1> QED BY <1>1, RosterStaysInStep, PTL
----------------------------------------------------------------------------
\* Types and bounds.  The variables of the Voting change by its methods only.
LEMMA VotingKeepsType ==
  ASSUME VotingTypeOK, NEW id \in Ids,
         \/ UNCHANGED votingVars
         \/ AddPerson(id, NameOf[id]) \/ RemovePerson(id) \/ AddVote(id, Vote)
  PROVE  VotingTypeOK'
<1>1. NameOf[id] \in Names /\ Vote \in GoInt
  BY RosterAssumption
<1>2. [VotingNext]_votingVars
  BY <1>1 DEF VotingNext
<1> QED BY <1>2, TypeStep

RosterTypeInv == TypeOK /\ RosterInv

LEMMA RosterTypeInit == Init => TypeOK
<1> SUFFICES ASSUME Init PROVE TypeOK
  OBVIOUS
<1>1. VotingTypeOK
  BY TypeInit DEF Init
<1>2. wire = <<JoinFrame>> /\ sent = 1
  BY DEF Init
<1>3. Len(wire) = 1
  BY <1>2
<1>4. Len(wire) <= MaxWire /\ sent \in 0..MaxFrames
  BY <1>2, <1>3, RosterAssumption
<1>5. meeting \subseteq Ids /\ told \subseteq Ids /\ uncounted \subseteq Ids
  BY RosterAssumption DEF Init
<1> QED BY <1>1, <1>4, <1>5 DEF Init, TypeOK

LEMMA RosterTypeStep == RosterTypeInv /\ [Next]_vars => TypeOK'
<1> SUFFICES ASSUME TypeOK, RosterInv, [Next]_vars PROVE TypeOK'
  BY DEF RosterTypeInv
<1>0. /\ VotingTypeOK /\ meeting \subseteq Ids /\ told \subseteq Ids
      /\ userID \in {Me, NoId} /\ toAdd \subseteq Ids /\ toRemove \subseteq Ids
      /\ reading \in BOOLEAN /\ lost \in BOOLEAN /\ uncounted \subseteq Ids
      /\ sent \in 0..MaxFrames /\ Len(wire) <= MaxWire /\ FramesOK
  BY DEF TypeOK, RosterInv
<1>1. ASSUME NEW id \in Ids, Enter(id) \/ Leave(id) PROVE TypeOK'
  <2>1. VotingTypeOK'
    BY <1>0, <1>1, VotingKeepsType DEF Enter, Leave
  <2> QED BY <1>0, <1>1, <2>1 DEF Enter, Leave, TypeOK, readerVars
<1>2. ASSUME NEW frame, Send(frame)
      PROVE  sent' \in 0..MaxFrames /\ Len(wire') <= MaxWire
  <2>1. wire \in Seq(Frames) /\ Len(wire) < MaxWire /\ sent < MaxFrames
    BY <1>0, <1>2 DEF FramesOK, Send
  <2>2. Len(wire') = Len(wire) + 1
    BY <1>2, <2>1 DEF Send
  <2>3. Len(wire) \in Nat /\ MaxWire \in Nat /\ MaxFrames \in Nat
    BY <2>1, RosterAssumption
  <2> QED BY <1>0, <1>2, <2>1, <2>2, <2>3 DEF Send
<1>3. ASSUME NEW id \in Ids, SendChat(id) PROVE TypeOK'
  <2>1. VotingTypeOK'
    BY <1>0, <1>3, VotingKeepsType DEF SendChat
  <2>2. sent' \in 0..MaxFrames /\ Len(wire') <= MaxWire
    BY <1>2, <1>3 DEF SendChat
  <2> QED BY <1>0, <1>3, <2>1, <2>2 DEF SendChat, TypeOK, readerVars
<1>4. ASSUME SendRoster PROVE TypeOK'
  <2>1. VotingTypeOK'
    BY <1>0, <1>4, VotingKeepsType, RosterAssumption DEF SendRoster
  <2>2. sent' \in 0..MaxFrames /\ Len(wire') <= MaxWire
    BY <1>2, <1>4 DEF SendRoster
  <2> QED BY <1>0, <1>4, <2>1, <2>2 DEF SendRoster, TypeOK, readerVars
<1>5. ASSUME NEW kind, Takes(kind)
      PROVE  Len(wire') <= MaxWire /\ Head(wire) \in Frames
  <2>1. Len(wire') = Len(wire) - 1 /\ Len(wire) \in Nat /\ Head(wire) \in Frames
    BY <1>0, <1>5, TakesFacts
  <2> QED BY <1>0, <2>1, RosterAssumption
<1>6. ASSUME ReadJoin PROVE TypeOK'
  <2>1. VotingTypeOK'
    BY <1>0, <1>6, VotingKeepsType, RosterAssumption DEF ReadJoin
  <2> QED BY <1>0, <1>5, <1>6, <2>1 DEF ReadJoin, Takes, TypeOK
<1>7. ASSUME ReadRoster PROVE TypeOK'
  <2>1. VotingTypeOK'
    BY <1>0, <1>7, VotingKeepsType, RosterAssumption DEF ReadRoster
  <2>2. Head(wire).add \subseteq Ids /\ Head(wire).remove \subseteq Ids
    BY <1>5, <1>7 DEF ReadRoster, Frames
  <2> QED BY <1>0, <1>5, <1>7, <2>1, <2>2 DEF ReadRoster, Takes, TypeOK
<1>8. ASSUME ReadBadRoster PROVE TypeOK'
  <2>1. VotingTypeOK'
    BY <1>0, <1>8, VotingKeepsType, RosterAssumption DEF ReadBadRoster
  <2> QED BY <1>0, <1>5, <1>8, <2>1 DEF ReadBadRoster, Takes, TypeOK
<1>9. ASSUME ReadChat PROVE TypeOK'
  <2> DEFINE from == Head(wire).from
  <2>1. Takes("chat") /\ ChatApplied(from)
    BY <1>9 DEF ReadChat
  <2>2. VotingTypeOK'
    <3>1. CASE from \in Ids
      BY <1>0, <2>1, <3>1, VotingKeepsType DEF ChatApplied
    <3>2. CASE from \notin Ids
      <4>1. Joined \subseteq Ids
        BY <1>0 DEF VotingTypeOK
      <4>2. UNCHANGED votingVars
        BY <2>1, <3>2, <4>1 DEF ChatApplied, AddVote
      <4> QED BY <1>0, <4>2, VotingKeepsType, RosterAssumption
    <3> QED BY <3>1, <3>2
  <2>3. uncounted' \subseteq Ids
    BY <1>0, <2>1 DEF ChatApplied, MayVote
  <2> QED BY <1>0, <1>5, <2>1, <2>2, <2>3 DEF ChatApplied, Takes, TypeOK
<1>10. ASSUME NEW id \in Ids, SendAdd(id) PROVE TypeOK'
  <2>1. VotingTypeOK'
    BY <1>0, <1>10, VotingKeepsType DEF SendAdd
  <2> QED BY <1>0, <1>10, <2>1 DEF SendAdd, TypeOK, zoomVars
<1>11. ASSUME NEW id \in Ids, SendRemove(id) PROVE TypeOK'
  <2>1. VotingTypeOK'
    BY <1>0, <1>11, VotingKeepsType DEF SendRemove
  <2> QED BY <1>0, <1>11, <2>1 DEF SendRemove, TypeOK, zoomVars
<1>12. CASE UNCHANGED vars
  <2>1. VotingTypeOK'
    BY <1>0, <1>12, VotingKeepsType, RosterAssumption DEF vars
  <2> QED BY <1>0, <1>12, <2>1 DEF vars, zoomVars, readerVars, TypeOK
<1> QED BY <1>1, <1>3, <1>4, <1>6, <1>7, <1>8, <1>9, <1>10, <1>11, <1>12 DEF Next

\* Every variable keeps its type, and the frames stay within their bounds.
THEOREM RosterTypeCorrect == Spec => []TypeOK
<1>1. Init => RosterTypeInv
  BY RosterTypeInit, RosterInvInit DEF RosterTypeInv
<1>2. RosterTypeInv /\ [Next]_vars => RosterTypeInv'
  BY RosterTypeStep, RosterInvStep DEF RosterTypeInv
<1>3. RosterTypeInv => TypeOK
  BY DEF RosterTypeInv
<1> QED BY <1>1, <1>2, <1>3, PTL DEF Spec

----------------------------------------------------------------------------
\* What a frame does to the voting: a method call, and only reading a chat message
\* calls AddVote.
LEMMA StepIsMethod ==
  ASSUME [Next]_vars
  PROVE  \/ UNCHANGED votingVars
         \/ \E id \in Ids : AddPerson(id, NameOf[id]) \/ RemovePerson(id)
         \/ /\ wire # <<>> /\ Head(wire).kind = "chat" /\ wire' = Tail(wire)
            /\ AddVote(Head(wire).from, Vote)
<1>1. CASE UNCHANGED votingVars
  BY <1>1
<1>2. CASE ReadChat
  BY <1>2 DEF ReadChat, Takes, ChatApplied
<1>3. ASSUME NEW id \in Ids, SendAdd(id) PROVE UNCHANGED votingVars \/ AddPerson(id, NameOf[id])
  BY <1>3 DEF SendAdd
<1>4. ASSUME NEW id \in Ids, SendRemove(id) PROVE RemovePerson(id)
  BY <1>4 DEF SendRemove
<1>5. ASSUME NEW id \in Ids, Enter(id) \/ Leave(id) \/ SendChat(id) PROVE UNCHANGED votingVars
  BY <1>5 DEF Enter, Leave, SendChat
<1>6. ASSUME SendRoster \/ ReadJoin \/ ReadRoster \/ ReadBadRoster PROVE UNCHANGED votingVars
  BY <1>6 DEF SendRoster, ReadJoin, ReadRoster, ReadBadRoster
<1>7. CASE UNCHANGED vars
  BY <1>7 DEF vars
<1> QED BY <1>1, <1>2, <1>3, <1>4, <1>5, <1>6, <1>7 DEF Next

\* Whatever frames arrive, the voting changes through its methods only, so what
\* VotingProofs shows of a Voting holds of this one.
THEOREM RosterUsesVoting == Spec => VotingSpec
<1>1. Init => VotingInit
  BY DEF Init
<1>2. RosterTypeInv /\ [Next]_vars => [VotingNext]_votingVars
  <2> SUFFICES ASSUME TypeOK, [Next]_vars PROVE [VotingNext]_votingVars
    BY DEF RosterTypeInv
  <2>1. \A id \in Ids : NameOf[id] \in Names
    BY RosterAssumption
  <2>2. \A id : AddVote(id, Vote) => UNCHANGED votingVars \/ id \in Ids
    BY DEF AddVote, TypeOK, VotingTypeOK
  <2> QED BY <2>1, <2>2, StepIsMethod, RosterAssumption DEF VotingNext
<1>3. Spec => []RosterTypeInv
  BY RosterTypeInit, RosterInvInit, RosterTypeStep, RosterInvStep, PTL DEF Spec, RosterTypeInv
<1> QED BY <1>1, <1>2, <1>3, PTL DEF Spec, VotingSpec

\* The vote of a member changes only in a step that reads a chat message of that
\* member, whatever roster frames arrive again or in between.
THEOREM OnlyOwnMessageVotes == Spec => OnlyOwnChatVotes
<1>1. TypeOK /\ [Next]_vars =>
        [\A id \in Joined \cap DOMAIN people' :
           people'[id].score # people[id].score =>
             /\ wire # <<>> /\ Head(wire).kind = "chat" /\ Head(wire).from = id
             /\ wire' = Tail(wire)]_vars
  <2> SUFFICES ASSUME TypeOK, [Next]_vars, NEW id \in Joined \cap DOMAIN people',
                      people'[id].score # people[id].score
               PROVE  /\ wire # <<>> /\ Head(wire).kind = "chat" /\ Head(wire).from = id
                      /\ wire' = Tail(wire)
    OBVIOUS
  <2>1. CASE UNCHANGED votingVars
    BY <2>1 DEF votingVars
  <2>2. ASSUME NEW other \in Ids, AddPerson(other, NameOf[other]) \/ RemovePerson(other)
        PROVE  FALSE
    BY <2>2 DEF AddPerson, RemovePerson, Joined
  <2>3. ASSUME NEW author, AddVote(author, Vote), author # id PROVE FALSE
    BY <2>3 DEF AddVote, votingVars, Joined, TypeOK, VotingTypeOK
  <2> QED BY <2>1, <2>2, <2>3, StepIsMethod
<1> QED BY <1>1, RosterTypeCorrect, PTL DEF Spec, OnlyOwnChatVotes
==============================================================================
