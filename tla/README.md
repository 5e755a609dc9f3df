# TLA+ models of estimation-bot

estimation-bot joins a Zoom meeting as a participant, reads the chat and runs
story-point votings in it. This directory holds a formal model of the program
(its concurrency, its command handling, and the voting itself), the TLC
configurations that check it on small instances, and TLAPS proofs of the most
important properties for every instance. Line numbers are those of the Go
sources beside it.

## 1. The system

| Part | Source | State | Operations |
| --- | --- | --- | --- |
| Voting | `pkg/estimation/voting.go`, `types.go` | people who joined (score, skipped, ready, recap), two timestamps | the methods of `Voting` |
| Command goroutine | `main.go:41-152`, `pkg/estimation/messages.go` | the voting, `lastUpdate` | one per command: roster, timer, vote, skip, start, stop, ready, recap, unknown |
| Main loop | `main.go:162-229`, `main.go:154-160` | ticker, Ctrl-C channel, `done` | forward a reply, send the timer command, leave, close the channels |
| Listen and its reader | `pkg/zoom/websocket.go:101-198` | `JoinInfo`, `done`, Ctrl-C channel | read and dispatch frames, keepalive, close |
| Sender | `pkg/zoom/message.go:83-106`, `requests.go:5-16` | mutex, sequence number | `SendMessage` |
| Decoder | `pkg/zoom/message.go:11-81`, `message_types.go`, `constant.go` | none | `GetMessageBody` |
| Session roster | `pkg/zoom/requests.go:18-51` | `peopleJoined` | never called by the program |
| Handshake | `pkg/zoom/session.go`, `info.go`, `http.go`, `websocket.go:23-99` | session fields | info request, ping, dial at start-up, each failure fatal |
| JSON models | `pkg/zoom/models.go` | none | three `UnmarshalJSON` |
| String helpers | `internal/util/string.go` | none | pure |

How they interact. Four goroutines run once the websocket is open. The reader
turns frames into `Data` values and sends them on `commands`; main adds a timer
command every two seconds. The command goroutine takes one command at a time,
applies it to the voting and sends the replies on `messages`; main takes them
and writes them to the websocket. Both channels are unbuffered. When the
connection ends the reader closes an inner `done`, `Listen` returns and closes
main's `done`, main closes `commands` and `messages` and returns, which ends the
process. Ctrl-C is delivered to main and to `Listen` separately.

What is hard. Main is the receiver of one unbuffered channel and a sender of the
other (circular wait); the channels are closed with senders still alive; the
close message bypasses the mutex of the other writers; `JoinInfo` is written by one
goroutine and read by another without a lock; at start-up Zoom may answer anything,
or never, while Ctrl-C waits in a channel nobody reads yet; timestamps have a
resolution of one second and decide what is reported; the roster the voting
works with is a replica of Zoom's, kept by frames that may be dropped; and the
arithmetic of `Finish` has edge cases every chat message can reach. The list
with lines is `hazards` in `PROJECT.json`.

What makes each part correct. Voting: a closed one is blank, nothing said is
lost, the result follows from the votes. Command
goroutine: every vote is reported, every announcement is true. Goroutines: every
reply arrives, the process ends when it should and does not panic. Sender: seen from
outside a message is one step, and no send is stuck. Roster: the voting follows
the meeting and the bot does not vote. Handshake: only a meeting that admits the bot
is dialled, a good answer is understood, the start ends and keeps a Ctrl-C. The whole: its parts do to each other what the models of each say.

## 2. The modules

| Module | Models | EXTENDS |
| --- | --- | --- |
| `Tally` | the arithmetic of `Finish`, pure operators | |
| `Voting` | one `Voting` object, one action per method | `Tally` |
| `CommandLoop` | the command goroutine and its replies | `Voting` |
| `Goroutines` | the four goroutines, channels, signals, end of the process | |
| `Bot` | reader, command goroutine and main composed, with real frames and replies | `CommandLoop`, an instance of `Goroutines` |
| `Wire` | what `SendMessage` promises, one step per message | |
| `Transport` | `SendMessage`, its callers, the close message | an instance of `Wire` |
| `Roster` | meeting, frames, the reader's dispatch, the voting's roster | `Voting` |
| `Handshake` | from `NewZoomSession` to the open websocket | |
| `VotingProofs`, `TallyProofs`, `CommandLoopProofs`, `GoroutinesProofs`, `TransportProofs`, `RosterProofs`, `HandshakeProofs`, `BotProofs` | theorems | the above, TLAPS |
| `MCTally`, `MCCommandLoop`, `MCBot`, `MCTransport`, `MCRoster`, `MCHandshake` | instances for TLC | the above |

Refinements tie them together: `CommandLoop` and `Roster` implement `VotingSpec`, `Bot`
implements `CommandLoop` and `Goroutines`, `Transport` implements `Wire`. All of them
are proved; those of `CommandLoop`, `Bot` (`Goroutines`) and `Transport` are checked too.

**Tally.** An operator per step of `Finish`. A score of 0 is "not voted", as in
the code. Go's `int` is `-HalfRange .. HalfRange-1` with wrap-around. The average,
a `float32` quotient, is kept as its two operands. `MCTally` applies `FinishResult`
to every assignment of scores to people, some of whom have skipped; both ends of
`int` are among the scores, and the properties say where they except an overflow.

**Voting.** `people` is `peopleJoined`, `createdAt` and `updatedAt` the Unix
timestamps (0 after `Reset`), `now` the clock. The methods are atomic because only
the command goroutine holds the object. A method that returns an error leaves the
object alone and the error is only logged. `VotingSpec` is the abstract promise of
the component: any method at any time.

**CommandLoop.** Taking a command and updating the voting is one step; every
reply is then a step of its own (`Deliver`), since the send blocks and the clock can
move. `outbox` holds the replies still to be sent, `pc` tells a status report from
other replies because `lastUpdate` is assigned after the send. A chat text is what
`strconv.Atoi` makes of it: accepted or not, and the number returned. `unreported`
is a history variable. `CommandLoop` implements `VotingSpec`, checked and
proved.

**Goroutines.** The place each goroutine is at, with a send and its receive as one
step. Commands are abstracted to the number of replies they cause, nondeterministic
up to `MaxReplies`, frames to the number of commands, up to `MaxBatch`. `select` is a
choice of any branch that is ready. A send on a closed channel, `log.Fatal` and the
return from `main` end the process (`status`). The command goroutine of this module
is an abstraction of `CommandLoop`: one receive, then some sends.

**Bot.** `CommandLoop` with its commands coming out of frames and its replies going to
main. `queue` holds what the reader has still to send of the current frame: for a roster
frame any entries, each added one with its own name, additions before removals and
repetitions included. The steps that concern only `Listen`, the channels or the end of
the process are those of `Goroutines`, to which everything else is mapped: `left` is the
length of the queue, `replies` that of the outbox, `handler` the place of the command
goroutine. A store of `JoinInfo` is two steps, so that main's unsynchronised read could
fall in between. That the join response precedes every other frame, a guard of
`ReadFrame`, is assumed of Zoom and not in the source; without it main could read
`JoinInfo` early.

**Wire, Transport.** `SendMessage` in five steps (call, lock, number, begin and end of
the write) for any goroutines, one of them `Listen`; a failing write; the close
message without the lock. Overlapping writes may be noticed by gorilla/websocket,
which panics, or not. In `Wire` a message takes the next number and is written or
dropped in one step; under the mapping a message in flight has not happened yet,
which is why `last` is the number before `seq` while there is one.

**Roster.** Zoom and the participants are external: people enter and leave, Zoom
sends what changed since its last roster frame and may announce somebody again.
The reader works off one frame at a time, additions before removals. Assumed of
Zoom, and not visible in the source: the join response precedes every roster frame,
a participant's id is never the one of another. Renames are not modelled because
`Listen` ignores them.

**Handshake.** A step ends where the code waits for the other side, or with
`log.Fatal`. Zoom may answer the info request with anything: JSONP or an error page,
each of the three fields that are JSON in a string good, absent, faulty or a bare
value, any hosts or none. What matters of a payload to the JSONP extraction is where
closing parentheses are. The pong is dialled unchecked, as in the code: any host or
none, with an `rwcAuth` or without. The module ends where the websocket is open;
`Goroutines` begins there, with the Ctrl-C and the tick that may be pending by then
(both channels are older than the handshake, `main.go:167-171`). Cookies and parameters that are
copied along are left out; so is the waiting room, for which main never asks.

## 3. What is checked

Bounds are the constants of each `.cfg`. Properties are stated and explained in
the modules.

| Run | Question | Instance |
| --- | --- | --- |
| `Tally_rules` | Is the final score the highest most frequent one, announced only for close scores, and is the average the voters'? | 4 people, scores -1,0,1,2,3,5 and both ends of an 8-bit `int`: enough for every tie, for spreads of 2, 3 and more, and for overflow |
| `CommandLoop_correct` | Is a closed voting blank, and nothing that was said lost? Is every vote due for a report and reported in the end, every announcement true when it gets out (but for the "Voting stopped" below), a final score the one most people held, the voting used through its methods only? | 2 people, a number, 3 texts that are none (votes of 0 and of both ends of a 4-bit int), 3 seconds: before, during and after a report |
| `Goroutines_correct` | Does a lost connection shut down quietly? Do replies arrive and does the process end? Is the circular wait final? | frames of up to 2 commands, up to 3 replies; one more of either adds only repetitions of a send; a tick and a Ctrl-C pending at the start or not |
| `Bot_correct` | Do the composed goroutines do what `Goroutines` lets them? Is `JoinInfo` stored before main reads it? Is a vote reported through the real channels and ticker? | one voter, the number 1 and texts that are none (4 values of `int`), `/start`, `/stop`, roster frames of up to 2 entries, 2 seconds: several people are the subject of `CommandLoop_correct` |
| `Transport_correct` | Is a message one step, seen from outside? Do messages not overlap, is any send stuck? | 2 senders, 4 calls, numbers wrap at 3, starting at 0 or at the largest |
| `Roster_correct` | Does the voting follow the meeting, without the bot, refusing no member's vote and changing none but by the member's own message? | bot, engineer, manager, 6 frames: join, enter, vote, leave, return, vote |
| `Handshake_correct` | Is a refused join never dialled, does a good answer pass? Does the start end, and keep a Ctrl-C for main's loop? | 2 hosts (a host pinged with the token of another needs two), payloads of up to 2 tokens: none, one and two closing parentheses |

Deadlock checking is off where the model may stop: the process ends
(`Goroutines`, `Bot`, `Transport`, `Handshake`), the bound on frames is used up (`Roster`).

**Fairness.** `CommandLoop`: main receives (weak fairness of `Deliver`) and the ticker
ticks; a tick is taken although other commands compete for the goroutine, since
blocked senders of a Go channel queue up (strong fairness of `TimerStatus`).
`Goroutines`: strong fairness for the branches of `select`, which Go picks at random,
and for sends on a channel with two senders; weak fairness for everything a
goroutine does alone. Nothing is assumed of the server, the ticker and Ctrl-C: the
connection may stay silent for ever. `Bot`: that part of it which concerns main's loop
and the sends on `commands`; and the ticker ticks, which is all `CommandLoop` assumed
of its surroundings: `VoteIsReported` is `EveryVoteReported` with main and the ticker in
place of the assumption, and it holds except for the circular wait. `Handshake`: the
code runs on and the requests time out (`session.go:54`); the dial has no timeout and
none is assumed, and nothing is assumed of main's loop: `InterruptKept` ends where that
begins, and from there `InterruptEnds` of `Goroutines`, with a signal pending at the
start, says what becomes of a Ctrl-C: the process ends, except in the circular wait. `Transport`: `sync.Mutex` hands over to a starving
waiter (strong fairness of `Lock`), and writes end.

### Where the code does not do what it says

Each is a run that TLC refutes; the quotation is in `findings`.

| Run | What happens |
| --- | --- |
| `Goroutines_replies` | main takes a tick while the command goroutine is about to send a reply: both wait for ever (`main.go:220`). Ctrl-C does not help either, main no longer selects. |
| `Goroutines_cleanclose` | on Ctrl-C the process can end before the close message is written |
| `CommandLoop_stop` | `/stop` without votes says "Voting stopped", and the voting goes on |
| `CommandLoop_text` | text that is not a number becomes a vote of 0 and replaces a vote given before |
| `Tally_skip` | somebody who skipped counts as a 0 |

More are plain in the text of the models, or are exceptions stated in the properties,
and have no run of their own:

* the first voting is open from the start of the process (`VotingInit`, `main.go:42`), so
  votes count before any `/start`;
* `Listen`'s wait after the close message, "with timeout" in its comment, has none
  (`ListenClosed`, `websocket.go:194`);
* the close message can overlap a chat message, against "1 sender at a time" (the
  exception in `OnlyCloseOverlaps`, `websocket.go:190`, `message.go:84`);
* scores so far apart that their difference overflows are announced as differing by
  less than 3 (the exception in `FinalMeansCloseVotes`, `voting.go:156`);
* `/start` on an open voting takes its scores and skip marks over into the new one
  (`NewVoting`, `voting.go:33`): `ClosedIsBlank` is about votings that were stopped, and
  `SaidOnceStays` takes the carry-over as right, since no document tells;
* a bare JSON object or number where Zoom sends a quoted one makes `UnmarshalJSON` call
  itself until the stack overflows, instead of falling back after "Try string first"
  (`UnmarshalJSON`, `models.go:122`); `GoodAnswerAccepted` is about quoted values;
* the pong is not looked at: an empty `rwg` or `rwcAuth` is dialled (`PingAnswered`,
  `info.go:127`, `websocket.go:37`);
* the cookie filter says 'skip "cred"' and keeps it (`info.go:83-84`), the headers copied
  for the ping are not sent (`info.go:109-121`), and a meeting number of blanks passes the
  check for emptiness (`session.go:37-45`): data the models leave out.

## 4. What is proved

For all values of the constants, under their named assumptions only
(`HalfRangeAssumption`, `MCTallyAssumption`, `VotingAssumption`, `CommandLoopAssumption`,
`GoroutinesAssumption`, `TransportAssumption`, `RosterAssumption`,
`HandshakeAssumption`, `BotAssumption`: finitely many ids, and the words people type
are those the switch of the command goroutine knows).

* **`VotingProofs`**, first part: the arithmetic of `Finish`, for any finite number of
  people and any scores an `int` holds. Its loops are folds, so this is induction over
  finite sets. The library's induction theorems take a predicate, which the provers
  cannot instantiate; here the *set* of those for which a fact holds takes its place
  (`NumberInduction`, `SubsetInduction`, from the well-foundedness of the numbers), and
  the recursive function behind a fold is shown to exist before anything is said of its
  values (`RecursionOverSubsets`). `PickScoreIsMode`: after each key the loop holds the
  highest of the most frequent scores so far. `SumBounds`: no partial sum overflows if
  the number of people times the highest score is an `int`. `SpreadFacts`: the
  difference of two ints comes out below 3 only if it is below 3 or is too large for an
  int.
* **`TallyProofs`**: from these the three properties of `Tally_rules`. The invariant is
  that the result is that of the scores held (`TallyInv`). A score of 0 is
  excepted in `FinalScoreCorrect` because it is how the program says "no final score".
* **`VotingProofs`**, second part: `VotingTypeOK`; the invariant `VotingInv`, types with
  `ClosedIsBlank` and `TimestampsAgree`, is inductive as it stands. `SaidOnceStays` is an
  action property proved from it: the only step that takes something back is
  `Finish` with a voter, and a voter means, by `ClosedIsBlank`, an open voting.
* **`CommandLoopProofs`**: every step of the goroutine is a step of `VotingSpec` or
  leaves the voting alone, hence `Spec => VotingSpec` and all of the above holds of the
  running bot's voting. `NoLostUpdate` is not inductive: a report ends by setting
  `lastUpdate` to a clock that has moved on. `ReportInv` adds `ReportCoversAll`, that
  nothing is unreported while a report is being sent.
  `AnnouncedIsTrue`: the invariant (`AnnouncementInv`) says of every reply in the outbox
  that it agrees with the voting; what it needs besides is that the people who joined are
  finitely many, for the counts, and that the goroutine is idle exactly when the outbox
  is empty, so that no command can come between a count and its delivery. `FinalIsTheirs`
  is about a step: of all commands only `/stop` announces a final score
  (`OnlyStopIsFinal`), it is the one `Finish` picks of the votes it then resets
  (`StopIsFinal`), and by the first part of `VotingProofs` that is the mode. `TypeOK`
  follows from the invariants together.
* **`GoroutinesProofs`**: types; `QuietDisconnect` from `EndsInOrder`, the chain
  reader, `Listen`, main; `WaitIsForGood`, that no action but `ListenInterrupt`'s
  failure changes anything of the circular wait.
* **`TransportProofs`**: types; that whoever is between lock and unlock holds the mutex
  and has the number `seq`, which gives `OnlyCloseOverlaps` and, with the mapping of
  section 2, that `Transport` implements `Wire`, for any senders and any modulus.
* **`RosterProofs`**: types; `RosterInv`, the relation between Zoom's list, the frames on
  their way and the voting. For each person the last frame naming them decides whether
  Zoom has announced them, and about those no frame names Zoom and the voting agree
  (`WireToldOK`); before each chat message its author is in, or a frame before it adds
  them and none after that removes them (`ChatsOK`); nothing happens before the join
  response (`JoinFirst`). `RosterFollowsMeeting`, `BotStaysOut` and `VotesAreCounted` follow.
  Every step is a method of `Voting` or leaves it alone (`RosterUsesVoting`), and the
  methods a roster frame calls keep the score of whoever stays (`OnlyOwnChatVotes`).
* **`HandshakeProofs`**: types; that the JSONP extraction returns exactly the payload,
  whatever parentheses are in it (`JsonpUnwraps`), so `GoodAnswerAccepted`;
  `RefusedNeverDials`, for which `HandshakeInv` adds that nothing is pinged before the
  info answer.
* **`BotProofs`**: `Bot` implements `Goroutines` for any finite number of people and any
  bound on the size of roster frames: a command has at most `3 + Cardinality(Ids)` replies
  (`RepliesBounded`) and a roster command none. Its
  goroutine takes only steps of `CommandLoop`, hence what `VotingProofs` and
  `CommandLoopProofs` show holds of the running bot (`BotKeepsPromises`), as do
  `QuietDisconnect` and `WaitIsForGood` of the instance of `Goroutines` inside it
  (`BotEndsAsGoroutines`). `BotInv` adds `NothingBeforeJoin`, that the queue,
  the outbox and the voting are empty until `JoinInfo` is stored; the case to argue is
  the timer, which has nothing to report of a voting nobody joined. `JoinInfoIsStored`
  follows.

Every invariant and action property of a passing run is proved. Only model-checked:
the properties with fairness, since liveness is out of the prover's reach
(`EveryVoteReported`; `ReplyForwarded`, `DisconnectEnds`, `InterruptEnds`;
`SendReturns`; `HandshakeEnds`, `InterruptKept`; `VoteIsReported`).

## 5. Not modelled

The session's own roster and `SendPrivateMessageToEveryone` (`requests.go:18-51`), which
nothing calls; the wording of messages, voting titles, HTTP headers, cookies and query
strings; the table of message types, of which `Listen` acts on three entries and
which otherwise is data; `StringInSlice`, `CopyMap` and the helpers of wording. The
waiting room parameter is always false. The author id of a chat command is the
frame's `destNodeID` (`websocket.go:165`); what Zoom puts there is not visible in the
source, so `CommandLoop` lets commands come from any id, joined or not, and `Roster`
takes it to be the sender's. A frame that is the JSON value `null` makes the reader
dereference nil (`websocket.go:119`); the models' frames are objects. The clock is
monotonic; time set back is not modelled.

## 6. Plan

Done: all modules of section 2, and the proofs of section 4, the refinements
included. What is left, should the code move that way:

1. `SessionRoster`, if `requests.go:18-51` is ever called: the swap with the last element
   against a set, and its slice shared with the caller.
2. The bot's own entry and the roster's faults inside `Bot`, at the price of a larger
   state space.
