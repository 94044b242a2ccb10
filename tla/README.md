# Verification of the coin collector game

TLA+ models of a two-process multiplayer game in C++: a server that owns the
game state and runs at 60 ticks a second, and clients that predict their own
player, draw the others a little late, and talk to the server over TCP through
buffers that delay every packet by 200 ms on purpose. The modules are
translated from the code under `src/`; `PROJECT.json` names for every
definition the lines it stands for, for every run what it checks, and for every
property a small change of the code that breaks it.

## 1. The system

| Component | State | Operations | Correct when |
|---|---|---|---|
| `GameCommon`, `Shared` | none | `applyInput`, `clampPosition`, `checkCollision`, `lerp` | both sides compute the same position; no player leaves the world |
| `LatencyBuffer` | queue of items with release times, latency | `push`, `popReady`, `setLatency`, `clear` | a delay line: no item early, lost, doubled or overtaken |
| `ServerNetwork` | `players_`, `nextPlayerId_`, `outgoingBuffer_`, sockets | `acceptNewClients`, `receiveFromClients`, `sendToClients`, `getPlayers`, `shutdown` | each client gets its id and then every world state in order; who left disappears; who comes gets in |
| `ServerPlayer` | `state_`, `receiveBuffer_`, `inputBuffer_`, `lastProcessedSeq_` | `processPackets`, `popInput` | each input exactly once, in order |
| `GameServer` | `players_` (raw pointers), `coins_`, `currentTick_` | `run`, `gameLoop`: update, fetch list, inputs, collisions, broadcast | a tick works on players that exist; a coin is one point |
| `ServerMain` | `g_running` | signal handler | the process ends on the signal, and only then |
| `ClientNetwork` | two latency buffers, `connected_`, id, receive buffer | `connect`, `update`, `send`, `popWorldState`, `disconnect` | packets keep their order; a lost connection is noticed |
| `PredictionEngine` | `history_`, `nextSequenceId_` | `applyInput`, `reconcile` | the history is what the server has still to confirm; corrections lead to the server's position |
| `InterpolationEngine` | snapshots per player | `addSnapshot`, `getInterpolatedState`, `removePlayer`, `clear` | remote players move forward only, as recently as the delay allows |
| `GameClient` | local and remote players, coins, last tick | `connect`, `run` | its parts are fed in the order the server means |
| `GameProtocol`, `ByteBuffer` | read and write position | serialise, deserialise | what is read is what was written |
| `ClientMain` | none | `connect()`, then `run()` | a client without an id ends |
| `Renderer` | window | drawing | output only |

**How they interact.** Server and client are one thread each. The server's loop
measures the time since the last frame, caps it at 0.25 s, and runs that many
ticks; a tick accepts one connection, reads each socket once (1024 bytes),
writes what its outgoing buffer releases, fetches the list of players, applies
at most one input of each, collides players with coins, and in every third tick
queues a world state for everybody. The client's loop has the same shape: a tick
predicts and sends one input, reads its socket, takes at most one world state,
reconciles its own player, adds snapshots of the others and computes what to
draw. Between them are the kernel's queues and three latency buffers: one per
player for inputs and one for everything that goes out on the server, and two
in the client. There is no shared memory, lock or callback; everything hard
comes from what the other process does between two steps of a tick.

**What is hard.** Two counters that look alike (tick and input sequence id) and
run at different rates; world states that arrive after further inputs were
predicted; clients that join or leave between any two phases of a tick, with
their packets still in a queue; raw pointers into a list that another phase
erases from; connections and descriptors at their limit; counters that wrap at
2^32, which is not a multiple of the broadcast period; bursts after a process
was held up. `PROJECT.json` lists them as hazards, each at its line.

## 2. Modules

| Module | Models | Extends / instances |
|---|---|---|
| `GameCommon` | the rules both sides run, on integer coordinates | |
| `DelayLine` | what a latency buffer promises, without time | |
| `LatencyBuffer` | the buffer with its clock; implements `DelayLine` | `DelayLine` |
| `TcpLinks` | listen queue and connections (external) | |
| `GameServer` | `GameServer`, `ServerNetwork`, `ServerPlayer`, `ServerMain` | `GameCommon`, `TcpLinks` |
| `ServerSession` | the server and its clients; the properties of the server | `GameServer` |
| `GameClient` | `GameClient`, `ClientNetwork` and `ClientMain` as one process, with the server; implements the client of `ServerSession` | `GameServer`, `ServerSession` |
| `Protocol` | `GameProtocol` and `ByteBuffer`: messages as bytes | |
| `PacketStream` | one direction of a connection as bytes, and the framing of both readers; implements a queue of packets | `DelayLine` |
| `Prediction` | `PredictionEngine` with one client's view of the server | `GameCommon` |
| `Interpolation` | `InterpolationEngine` in the client's loop | |
| `LatencyBufferProofs`, `ServerProofs`, `ProtocolProofs`, `PredictionProofs`, `InterpolationProofs`, `ClientProofs` | theorems | the module they are about, TLAPS; `ClientProofs` also `ServerProofs` |
| `PacketStreamProofs` | theorems about any packets, and about `Protocol`'s messages as packets | `MCStream`, TLAPS |
| `SharedProofs` | theorems about the rules, lemmas on queues and on what `sendToClients` picks | `GameCommon`, TLAPS |
| `MCServer`, `MCClient`, `MCStream`, `MCPrediction`, `MCInterpolation` | instances for TLC; `MCStream` puts `Protocol`'s messages on a `PacketStream` | `MCStream`: `PacketStream`, `ProtocolProofs` |

**`LatencyBuffer`.** `buffer` is `buffer_` with a release time per item and
`latency` is `latencyMs_`; `now` is the steady clock. Push, PopReady, SetLatency
and Clear are the four methods, whole. popReady looks at the front only, so
after `setLatency` a ready item can wait behind one that was pushed under a
longer latency; `ReadyItemIsFound` says that this is the only way. The program itself
never calls `setLatency`: what is shown of it is shown of the class.

**`GameServer`.** `phase` is the place of the server's thread in
`run`/`gameLoop`/`update`, `cursor` the loop over the players, and each phase is
an action, so that clients act between any two of them and between the `recv`
calls of two players. A latency buffer is a sequence whose head may be released
at any moment: `DelayLine`, which `LatencyBuffer` is proved to implement. A
packet is a record. Sockets are counted in `descriptors`, because
`receiveFromClients` erases a player without closing its socket
(`EraseDisconnected`). The second write to a connection the client has closed
ends the process (`KilledBySigpipe`). Clients act as the server can tell:
`ServerSession` adds Connect, SendInput, ReadPacket and Quit.

**`TcpLinks`.** A member of `Clients` is one connection; a player who comes back
is another one. Nothing is lost or reordered while both ends live; a close
may discard what was in flight.

**`PacketStream`.** `stream` holds every byte the sender's kernel has taken;
what the reader has (`received`) and what it has erased from `receiveBuffer_`
(`processed`) are positions in it. A send takes what there is room for and the
rest of the packet is gone, because its result is ignored; a recv returns any
portion; `processPackets` is a loop whose passes are steps. Server and client
have the same loop. `accepted` and `handled` record what was sent and found.

**`Protocol`.** Writing a number is its least significant bytes, so that one
that is too large loses what does not fit; a read past the end gives 0 and
consumes nothing. `ReadByClient` and `ReadByServer` are what the two
`processPackets` make of a packet.

**`GameClient`.** A record per client is the process: `stage` is where `main`
is (`connect`'s wait, `run`, over), `step` the place within `update` and the tick.
The server's actions are those of `GameServer`, so the two threads interleave
freely. When the server's process ends, its kernel sends an end of file, or a
reset if inputs were left unread (`EndOfFileArrives`, `ResetArrives`, external);
`receive` ends the connection on the former and takes the latter for silence;
the first send after it fails, the next one kills the client.

**`Prediction`.** The history, the replay and the comparison of `reconcile` are
operators; ProcessInput and ReceiveWorldState are the client's two uses of the
engine. The server is what `ServerSession` shows one client: at most one input
per tick, in order, a world state in every third tick, in order. A world state holds
a tick and a position; the protocol has no field for the sequence id that the comment
of `reconcile` asks for, and `AckArgument` is the tick, as in `GameClient::run`. Five
history variables, which no guard reads and no engine value depends on, keep what the
client cannot know: `covered` and `heard` (the last input that each world state under
way, and the newest one read, includes), `told` (the newest input that some number
handed over has acknowledged), `truth` (where all inputs so far lead from the spawn) and
`wrapped`. A client has its id only after the server's first ticks, so a counter at 0
means that it has wrapped.

**`Interpolation`.** A snapshot's state is the number of the world state it
comes from, a drawn position a fraction between two such numbers; the clock
counts ticks. Time passes between any two steps, a held-up loop owes a frame of
up to `FRAME_CAP` ticks, and each of its ticks may pop a world state.

## 3. Runs

| Run | Question | Instance |
|---|---|---|
| `latency_buffer` | Is the buffer a delay line whatever `setLatency` does? | 3 items, latencies 0-3, 4 ticks |
| `server_inputs` | Are inputs applied once, in order, at last, with the client's result? Are clients welcomed, departures noticed, signals obeyed? | 1 client, 3 inputs of two kinds, recv batches of 2, frames of 1 or 2 ticks, fairness |
| `server_pair` | Do welcomes and world states reach each client once and in order, and no tick use an erased player? | 2 clients, frames of 1 or 2 ticks, counter wrapping at 4 |
| `server_coins` | Is every taken coin one point of one player? | 2 players, 2 coins, 2 spots, 3 ticks |
| `packet_stream` | Does the reader find the packets and messages that were sent, however the bytes are cut? | either direction, 3 sends, a byte of 13 values |
| `client` | Does the client stay itself, show broadcasts in order, notice a lost connection, and is it the client of `ServerSession`? | 1 client, 2 inputs, 2 polls, 6 ticks |
| `prediction` | With the tick as acknowledgement: is the history right, is an input ever replayed twice, how far off can a correction be, and does the client end where the server has it? | 3 inputs, history of 2, 5 spawn positions, counter wrapping at 7 from any start |
| `interpolation` | Is the buffer long enough, what is drawn current, and the motion of players in the game forward only? | 2 remote players, 8 world states, 7 ticks |
| `server_descriptors` | violated: `RoomIsUsed` | 1 descriptor, 2 clients |
| `server_sigpipe` | violated: `StopsOnlyOnSignal` | 1 client |
| `prediction_mismatch` | violated: `MismatchIsCorrected` | 3 inputs, history of 4, a wider strip, counter wrapping at 4 |
| `prediction_tick` | violated: `UnprocessedIsKept` | 3 inputs, history of 4, counter wrapping at 7 |

**Why the bounds are enough.**

- Distances: the world is a strip one player high with room to run into both
  walls within a behaviour; a step is one unit. The proofs hold for any world.
- `TICK_MOD` stands for 2^32. Where broadcasts matter it is 4 or 7, which leave
  the remainder 1 modulo 3 just as 2^32 does, so that the wrap shortens the
  period in the same way. Where only inputs matter it is 2, which keeps the
  number of states small and broadcasts frequent. In `server_pair` the counter
  wraps again and again; `MaxTick` ends a behaviour only in `server_coins`.
  In `prediction` it is 7, more than the ids of 3 inputs, so that between two wraps
  the tick passes every id, as it does in the program.
- `RECV_BATCH`: 2 of 3 inputs in `server_inputs`, so that a backlog takes several
  reads; 1 or 2 elsewhere. Frames of up to two ticks there (`FRAME_CAP`) let the
  signal, a departure or a backlog fall into the middle of a frame.
- `MaxQueued` and `MaxFlight` limit what waits in the outgoing buffer after a send
  and what a client has not read. A full bound holds back the server's send
  phase until the client reads or the buffer releases; one delayed packet and two
  in flight are enough for a welcome behind a world state, a world state behind a
  welcome and two world states in a row.
- In `packet_stream` a byte has 13 values and a word 2 bytes, so that a world state
  with 13 players, one more than a byte can count, is small enough to enumerate;
  `PlayersInCrowd = BYTE` keeps the relation of the real numbers (256 players).
  The room for 180 bytes holds the largest packet and part of another, so that
  sends are cut in the header, in the payload and altogether. `Portions` of 11 and
  100 bytes cut packets in the header and in the payload and bunch them; the
  proofs hold for any portions. Three sends are a packet before, one with, and
  one after a cut.
- In `client` two polls stand for 100: the wait ends with the id at the first or
  the last, or not at all. Two inputs can both be queued when the connection
  resets, which takes one to fail and one to kill. The counter wraps at 4 within
  the 6 ticks, and two broadcasts fit into the latency buffer (`MaxHeld`).
- `HISTORY_CAP = 2` with three inputs lets the history overflow; the runs of the
  two findings use 4, so that nothing they show comes from the overflow.
- In `interpolation` the buffer holds 6 where the code's holds 60, with a delay of
  2 ticks (6) and frames of up to 2 ticks (15). The assumption
  `BUFFER_CAP >= 2 * FRAME_CAP + INTERPOLATION_DELAY` holds of the code (60 >= 36)
  and is tight: with 5 instead of 6 TLC finds a burst that cuts the buffer too
  short. Eight world states overflow a buffer of 6.

**Symmetry** is used only in runs without liveness properties, on sets whose
members no definition distinguishes: clients have ids by their order of arrival,
not by name.

**Deadlock** is not checked where the system stops of itself: the server after
the signal, behaviours whose inputs or ticks are used up by a bound.

**Fairness.** The server's thread is always scheduled again (weak fairness of its
step); so is a client, which reads its socket in every tick. An input whose
latency has passed stays ready, and the server asks for it in every tick, but
`phase` comes and goes, so its release is strongly fair (`InputReleased`,
`TickWithInput`); so is that of a world state in the client (`ShowWorldState`). An
end of file or a reset arrives once the server's process has ended
(`NewsArrives`). The stream's reader asks its socket in every tick (`Reader`).
Nobody has to connect, send, quit or raise the signal.
`SignalStops` needs no more than the loop: a frame owes finitely many ticks.

## 4. Findings

- **`prediction_tick`**: `GameClient::run` passes `worldState.tick` where
  `reconcile` documents `lastProcessedSeq`. When the server's tick is ahead of the
  client's sequence ids, which it is for every client that joins late, inputs
  that the server has not applied are thrown away and not replayed.
  What the program keeps to all the same is what the run `prediction` checks, with
  the tick. `NothingReplayedTwice`: until the counter wraps, the tick errs on
  one side only. `CorrectionIsClose` bounds the harm: a correction is off by at most
  one step for each input replayed too many or too few. `ErrorNeverGrows` tells
  which world states can do harm at all, those that leave the wrong number of
  inputs. `EventuallyAgrees`: it is over once the player pauses.
- **`prediction_mismatch`**: `reconcile` removes the acknowledged entries first and
  then looks for the acknowledged one, so that the server's past position is
  compared with the current prediction. A prediction that is wrong can look right,
  and a right one wrong, even if the entries left are just the inputs the world state
  lacks. That much of a history is left by a tick that is no larger than the ids, as
  after the wrap; the run shows a world state with tick 0.
- **`server_descriptors`**: sockets of players that left stay open; after as many
  departures as the process has descriptors nobody gets in.
- **`server_sigpipe`**: a client that closes between two packets of one send phase
  kills the server.

Noted without a run:

- Before the delay reaches a remote player's first snapshot the newest state is drawn,
  so that the player jumps back once; `NeverBackwards` begins after that.
- A player who left is drawn for ever: "Remove all snapshots for a player (when they
  disconnect)" says the comment of `removePlayer` (`src/client/Interpolation.hpp:115-117`),
  which has no caller. `NeverBackwards` asks nothing of players who are no longer in
  the game.
- The comment at `src/include/NetTypes.hpp:25` gives the header 6 bytes; the code writes
  and reads 7, and so does `Protocol`.

## 5. Proofs

All theorems hold for every value of the constants that satisfies the named
assumptions of the modules (`WorldAssumption`, `ServerAssumption`,
`SessionAssumption`, `ClientAssumption`, `LatencyAssumption`, `StreamAssumption`,
`PredictionAssumption`, `InterpolationAssumption`): naturals where the code has
unsigned numbers, a world at least as large as a player, spawn positions inside it,
a snapshot buffer that holds two capped frames and the delay, a byte that can tell the
kinds of packet apart (`Sizes`, `CrowdAssumption`). Every safety property of a passing
run is the subject of a theorem.

- **The rules** (`SharedProofs`). `StaysInWorld`: `applyInput` leaves a player in the
  world. `SameInputContracts`: one input never takes two positions further apart along
  an axis, which is why replaying inputs from a corrected position cannot make an
  error worse.
- **The buffer.** `TypeCorrect`, `DelayRespected`, `OrderKept`, `FrontSuffices`,
  `Conservation`, and `Refinement`: it implements `DelayLine`. The invariant adds to
  the properties that items are numbered in the order of the queue and that every
  release time is the push time plus the latency of that moment.
- **The server's players.** `TypesKept`, `NoDangling`, `OrderOfInputs` and
  `PositionAgreement` (in `ServerProofs`). Neither of the last two is inductive; the
  invariant is `IInv`, the conjunction of
  - `StateTypeOK`, and `TickOwed`: a tick under way is one the frame still owes, so
    `due` never goes below zero;
  - `Places`: no client is twice in `players_` or in the listen queue, those in the
    queue have no id and those in the list have one. Without it accepting a
    connection could reset a player in the middle of its inputs;
  - `Fresh`: nothing was sent, buffered or applied for a client without an id, so
    a player starts with the empty history its client starts with;
  - `InputsInOrder` itself: applied, buffered and unread inputs are consecutive;
  - `AllChained` and `Agreed`: each input leads on from where the one before it led,
    and a player is where its last applied input led, or at its spawn.

  `NoDangling` is inductive by itself.
- **The server's messages.** `AllTypes`, `WelcomeComesFirst` and `SnapshotsComplete`.
  The invariant is `MailInv`: `IInv`, the types of all messages, and for every client
  - `MailOf`, if it is connected: of its stream (the socket, then what the outgoing
    buffer holds for it) it has one welcome or has read it, and the world states are
    an unbroken run of broadcasts from the one it read last to the last one queued;
  - `Pending`, whether it is or not: the outgoing buffer by itself is such a run for any
    id. Without it nothing would be known of what a client finds that is accepted
    while broadcasts wait.

  The step that needs most is `sendToClients`: it moves a prefix of the outgoing buffer
  to every socket, and each stream stays what it was. `AddressedTo` recurses over
  the batch; `ForPlayer` is the same as a function of the id, and what the proofs need
  of it (its type, an append, a concatenation) is in `SharedProofs`. Instead of
  induction those lemmas take the least position at which the claim would fail (`Least`,
  from the well-founded order of the naturals).

  `ReadInOrder` says it of what a client reads next, which still holds when the server
  has stopped and `Attached` is empty: `Underway` is the part of `MailOf` that
  survives a closed connection.
- **The coins.** `CoinsAreCredited`. Scores and appearances are sums over sets, which
  the property states as the cardinality of a set with one pair for each point
  (`Tally`), so that a coin taken adds one pair on either side. `Account` adds that
  both sets are finite and that a client that was never accepted has no points,
  because accepting it resets its score.
- **The stream.** `StreamTypes`, `Framing` and `StreamIsQueue` (in
  `PacketStreamProofs`). The invariant says that the ends of the accepted packets
  ascend to the end of the stream; that the bytes between two ends are the packet,
  or its beginning if it was cut; and that, up to the first cut, the reader's position
  is the end of the packet it handled last. With the size in the header of a whole
  packet the reader's next packet is then the sender's. `StreamIsQueue` is what
  allows `TcpLinks` and `GameServer` to count packets.
- **The protocol.** `MessageIsRead` (in `ProtocolProofs`), for any number of players
  and coins, any width of a word and any values that fit. `Laid` says that the fields
  of a message lie one after another, each at the place where the widths before it end
  (`Places`); a reader that knows the first widths then gets the first values, which is
  how it learns the counts that tell it the rest. Writing, reading and joining recurse
  over data; in place of induction over them the lemmas show, by the least place at
  which it could fail, that their equations have one solution.
  `MessagesAreRead` (in `PacketStreamProofs`) is `MessagesRead`: by `Framing` the packet the
  reader found is the one that was sent, and `MessageIsRead` says what it means.
  `MessageIsFramed` is about the sizes: the places where the fields of a world state end
  add up to the number `serializeWorldState` computes for its header (`LengthOfWorld`, by the
  widths of one player and of one coin, `WidthsAre`). `MessagesAreFramed` takes that to the
  stream: what `StreamAssumption` asks of the packets holds of every message whose
  size fits two bytes.
- **The client.** `ClientTypes`, `OwnPlayer` and `ClientIsSession` (in
  `ClientProofs`). The invariant `IInv` is `TypeOK` and
  - `Places`: whoever is in a list of players has an id, whoever waits in the listen
    queue has none and waits once, and a client that has not connected is in neither;
  - `Mail`: what is on its way to a client is for it, so that the id in a welcome is its
    own;
  - `Identity`: a client knows its own id or none, runs only with it, queues inputs only
    while it runs, and has no snapshot of itself;
  - `Numbering`: until something is lost to a reset, what was sent and what waits in
    the buffer are the predicted inputs, in order.

  `ClientIsSession` maps each step of the client to one of `ServerSession` or to none;
  a packet taken from the outgoing buffer is `SendInput` because of `Numbering`. The
  theorems about `ServerSession` therefore hold of the server that plays with this
  client: `ClientProofs` instantiates `ServerProofs` (`Proven`), proves its assumptions
  from the client's, and carries them over. `PositionsAgree` is `PositionAgreement` for
  the composed system; `PromisesKept` and `CreditsAgree` say the same of the order of
  inputs, the list of players, the welcome, the broadcasts and the coins.
  `ShowsInOrder` needs `ReadInOrder`: with it `Showing` is inductive, which says that the
  world states in the client's latency buffer are the broadcasts between the one shown
  last and the one read last. `LossIsFinal` rests on `Noticed`: who has noticed a loss
  is past the reading phase of `update`.
- **Prediction.** `PredictionTypes`, `HistoryStaysUnacknowledged`,
  `NothingIsReplayedTwice`, `CorrectionStaysClose` and `ErrorDoesNotGrow` are about the
  program as it is: the number handed over is the tick, and nothing is assumed of how it
  relates to the sequence ids. The invariants are
  - `Numbers`: the history begins after `told`, or as far back as the cap allows.
    It is enough for `HistoryStaysUnacknowledged`: a smaller number than one before drops
    nothing, one beyond the newest id drops all there is and nothing made later;
  - `Tracked`: the history ends with the newest id, is numbered without a gap, and
    holds the same inputs as the queue before the server where the two overlap; world
    states include more and more, none more than the server has processed (`Queued`, over
    `sent`, the world states paired with `covered`); the queued inputs take the server's
    player to `truth`, and so does every world state under way, by the inputs after the
    newest one it includes;
  - `Behind`: until the counter wraps, the server has processed fewer inputs than it has
    counted ticks, and a world state includes no more than its tick. Without the
    first part a tick could process an input beyond its own number; the second
    is `NothingIsReplayedTwice` for what is under way.

  `reconcile` filters the history, and on a sorted one that is to drop entries at its
  front. `Replay` is a recursive function; `SharedProofs`' `Least` again shows that its
  equations have one solution, so that inputs can be taken from either end. An input
  moves both positions alike and `SameInputContracts` does the rest of
  `ErrorDoesNotGrow`; a world state that leaves as many entries as it lacks inputs leaves
  those very inputs (`SameCut`), so it leaves the prediction alone or puts it at `truth`.
  For `CorrectionStaysClose`, what is replayed and what leads to `truth` are two queues
  of inputs that end alike, one longer than the other: one input moves a player by no more
  than `Stride`, and the same inputs contract, so that the ends are a step apart for each
  entry more. If the prediction is kept, it is close to the world state's position: the
  entries left are all newer than the number passed, so the search for that number finds
  none and the error is measured from the prediction itself.
- **Interpolation.** `InterpolationTypes`, `BuffersReachBack`, `ShownStaysCurrent` and
  `NobodyMovesBack`. A buffer cut too short is a matter of pace: `Paced` says of every
  snapshot that those received since, with the ticks that can still take one before
  time passes, are no more than the time since and two capped frames. A buffer that
  overflows has then had its oldest snapshot for longer than the delay, by
  `InterpolationAssumption`. `NobodyMovesBack` compares two draws: the later one lies in the
  same pair of snapshots, further on, or in a later pair; it says nothing of a player who has left. Products of fractions are
  ordered by lemmas of their own, because the solver does not multiply.

**Only model-checked.** Liveness, which the prover does not reach: `InputsApplied`,
`WelcomeArrives`, `DepartedLeaves`, `SignalStops`, `EventuallyReleased`,
`WholeIsProcessed`, `NoticesShutdown`, `EventuallyAgrees`; and so the fairness of
`GameClient`: the refinement is of `Session!Spec`.

## 6. Not modelled

- The game after a packet was cut: the reader then takes bytes from the middle of
  a packet for a header, and what it makes of them depends on every byte.
- The hello that `connect` queues is only in the byte stream: the server ignores it,
  and the client does not look for an effect.
- A two-byte payload size overflows at 2730 players; the one-byte count is wrong
  from 256 on. No run has more players than one above a byte.
- A packet that `send` refuses as a whole because the socket is full
  (`src/server/ServerNetwork.cpp:188`): `GameServer` takes every send for complete, and what is
  said of welcomes and broadcasts holds apart from that. `PacketStream` has such sends.
- `removePlayer` and `clear` of the engines, which the program never calls, and the
  coins and scores the client copies for drawing.
- Floating point: positions are integers. The threshold comparison and the walls
  keep their meaning; rounding does not appear. Velocity is written and never read.
- Time on the server: the models say what happens in which order, not how long a
  backlog of inputs lasts.
- Socket set-up, logging, drawing and argument parsing.

## 7. Plan

1. A bound on the delay of a backlog, with a clock both loops share.
2. The player who left and is drawn for ever, as a run of its own.
