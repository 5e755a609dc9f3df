------------------------------- MODULE Voting -------------------------------
(****************************************************************************)
(* One estimation.Voting object (pkg/estimation/voting.go, types.go): the   *)
(* people who joined, what each of them said, and when the voting was       *)
(* opened and last voted on.                                                *)
(*                                                                          *)
(* Each exported method is one action.  The object is only touched by the   *)
(* command goroutine of main.go, so a method is atomic.  A method that      *)
(* returns an error leaves the object alone; main.go logs or drops the      *)
(* error.  Titles and log lines are left out.                               *)
(****************************************************************************)
EXTENDS Tally

CONSTANTS Ids,        \* the user ids Zoom assigns to participants
          Names,      \* display names
          Blacklist,  \* BLACKLIST_VOTING_NAMES
          MaxTime     \* bound on the clock, for TLC

ASSUME VotingAssumption == Blacklist \subseteq Names /\ MaxTime \in Nat \ {0}

VARIABLES people,     \* v.peopleJoined: a map from id to Person
          createdAt,  \* v.CreatedAt: 0, or when the voting was opened
          updatedAt,  \* v.UpdatedAt: 0, or when it was opened or last voted on
          now         \* time.Now().Unix(), taken to be monotonic

voting == <<people, createdAt, updatedAt>>
votingVars == <<people, createdAt, updatedAt, now>>

Person == [name : Names, score : GoInt, skipped : BOOLEAN,
           ready : BOOLEAN, recap : BOOLEAN]

NewPerson(name) == [name |-> name, score |-> 0, skipped |-> FALSE,
                    ready |-> FALSE, recap |-> FALSE]

Joined == DOMAIN people

IsStarted == createdAt > 0

\* HasUpdates compares whole seconds, hence >=; the mutant misses a vote of the
\* same second.
HasUpdatesStrict(since) == updatedAt > since

HasUpdates(since) == updatedAt >= since

\* The score map Finish and Status range over.
ScoreOf == [id \in Joined |-> people[id].score]

\* Status: how many voted and how many skipped; one person may be in both.
Status == [voted |-> Cardinality(Voted(ScoreOf)),
           skipped |-> Cardinality({id \in Joined : people[id].skipped})]

ReadyCount == Cardinality({id \in Joined : people[id].ready})
RecapCount == Cardinality({id \in Joined : people[id].recap})

----------------------------------------------------------------------------
\* main.go creates the first voting on start-up, with nobody in it.
VotingInit ==
  /\ now = 1
  /\ people = <<>>
  /\ createdAt = now
  /\ updatedAt = now

\* The mutant sets the creation time only.
NewVotingKeepUpdate ==
  /\ createdAt' = now
  /\ UNCHANGED <<people, updatedAt, now>>

\* NewVoting(args, voting.ListPeople()): a new object opened now, with a copy
\* of every Person record of the old one.
NewVoting ==
  /\ createdAt' = now
  /\ updatedAt' = now
  /\ UNCHANGED <<people, now>>

\* The mutant forgets the alreadyJoined test.
AddPersonOverwrite(id, name) ==
  /\ people' = IF name \notin Blacklist
               THEN [i \in Joined \cup {id} |->
                       IF i = id THEN NewPerson(name) ELSE people[i]]
               ELSE people
  /\ UNCHANGED <<createdAt, updatedAt, now>>

AddPerson(id, name) ==
  /\ people' = IF name \notin Blacklist /\ id \notin Joined
               THEN [i \in Joined \cup {id} |->
                       IF i = id THEN NewPerson(name) ELSE people[i]]
               ELSE people
  /\ UNCHANGED <<createdAt, updatedAt, now>>

RemovePerson(id) ==
  /\ people' = [i \in Joined \ {id} |-> people[i]]
  /\ UNCHANGED <<createdAt, updatedAt, now>>

\* Mutants: a vote is accepted whether or not a voting is open; the time of the
\* last vote is forgotten, or taken in milliseconds.
AddVoteMillis(id, vote) ==
  \/ /\ IsStarted
     /\ id \in Joined
     /\ people' = [people EXCEPT ![id].score = vote]
     /\ updatedAt' = 1000 * now
     /\ UNCHANGED <<createdAt, now>>
  \/ /\ ~(IsStarted /\ id \in Joined)
     /\ UNCHANGED votingVars

AddVoteAnyTime(id, vote) ==
  \/ /\ id \in Joined
     /\ people' = [people EXCEPT ![id].score = vote]
     /\ updatedAt' = now
     /\ UNCHANGED <<createdAt, now>>
  \/ /\ id \notin Joined
     /\ UNCHANGED votingVars

AddVoteUntimed(id, vote) ==
  \/ /\ IsStarted
     /\ id \in Joined
     /\ people' = [people EXCEPT ![id].score = vote]
     /\ UNCHANGED <<createdAt, updatedAt, now>>
  \/ /\ ~(IsStarted /\ id \in Joined)
     /\ UNCHANGED votingVars

AddVote(id, vote) ==
  \/ /\ IsStarted
     /\ id \in Joined
     /\ people' = [people EXCEPT ![id].score = vote]
     /\ updatedAt' = now
     /\ UNCHANGED <<createdAt, now>>
  \/ /\ ~(IsStarted /\ id \in Joined)
     /\ UNCHANGED votingVars

Skipped(id) ==
  \/ /\ IsStarted
     /\ id \in Joined
     /\ people' = [people EXCEPT ![id].skipped = TRUE]
     /\ updatedAt' = now
     /\ UNCHANGED <<createdAt, now>>
  \/ /\ ~(IsStarted /\ id \in Joined)
     /\ UNCHANGED votingVars

\* Ready and AskedForRecap succeed once per person, open voting or not.
CanReady(id) == id \in Joined /\ ~people[id].ready

Ready(id) ==
  /\ people' = IF CanReady(id) THEN [people EXCEPT ![id].ready = TRUE] ELSE people
  /\ UNCHANGED <<createdAt, updatedAt, now>>

CanAskForRecap(id) == id \in Joined /\ ~people[id].recap

AskedForRecap(id) ==
  /\ people' = IF CanAskForRecap(id) THEN [people EXCEPT ![id].recap = TRUE] ELSE people
  /\ UNCHANGED <<createdAt, updatedAt, now>>

\* Everybody who joined is a newcomer again and the voting is closed.
Reset ==
  /\ people' = [id \in Joined |-> NewPerson(people[id].name)]
  /\ createdAt' = 0
  /\ updatedAt' = 0
  /\ UNCHANGED now

\* Finish returns early when nobody voted; otherwise it ends with v.Reset().
Finish == IF Voted(ScoreOf) = {} THEN UNCHANGED votingVars ELSE Reset

\* A second passes.
ClockTick ==
  /\ now < MaxTime
  /\ now' = now + 1
  /\ UNCHANGED voting

VotingNext ==
  \/ \E id \in Ids, name \in Names : AddPerson(id, name)
  \/ \E id \in Ids : RemovePerson(id) \/ Skipped(id) \/ Ready(id) \/ AskedForRecap(id)
  \/ \E id \in Ids, vote \in GoInt : AddVote(id, vote)
  \/ NewVoting
  \/ Finish
  \/ ClockTick

VotingSpec == VotingInit /\ [][VotingNext]_votingVars

----------------------------------------------------------------------------
VotingTypeOK ==
  /\ Joined \subseteq Ids
  /\ people \in [Joined -> Person]
  /\ createdAt \in 0..now
  /\ updatedAt \in 0..now
  /\ now \in 1..MaxTime

\* A voting that is not open carries nothing over into the next one: no score
\* and no skip mark is left from before, and none can be recorded until it is
\* opened (the IsStarted guards of AddVote and Skipped, and Reset).
ClosedIsBlank ==
  ~IsStarted => \A id \in Joined : people[id].score = 0 /\ ~people[id].skipped

\* The two timestamps move together: either both are 0 or the last update is
\* not before the opening.  HasUpdates depends on it.
TimestampsAgree ==
  IF IsStarted THEN createdAt <= updatedAt ELSE updatedAt = 0

\* What a person said stands until that person leaves or the open voting is
\* finished: a repeated roster entry, another person's message, /start and a
\* /stop of a closed voting all leave it alone, and a score changes only
\* together with the time of the last vote.
SaidOnceStays ==
  [][\A id \in Joined \cap DOMAIN people' :
       LET p == people[id]
           q == people'[id]
       IN  \/ IsStarted /\ ~IsStarted'
           \/ /\ q.name = p.name
              /\ p.skipped => q.skipped
              /\ p.ready => q.ready
              /\ p.recap => q.recap
              /\ q.score # p.score => updatedAt' = now]_votingVars
==============================================================================
