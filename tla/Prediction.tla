----------------------------- MODULE Prediction -----------------------------
(***************************************************************************)
(* PredictionEngine (client/Prediction.hpp) in the loop it is written for: *)
(* one client that predicts and sends its inputs, a server that applies    *)
(* them in order, and world states that come back late but in order.  The  *)
(* server here is GameServer seen by one of its clients: at most one input *)
(* per tick (ProcessInputs, InputsInOrder) and a world state every third   *)
(* tick (BroadcastAndEndTick, NoSnapshotMissing).                          *)
(*                                                                         *)
(* reconcile() documents its second parameter as the last sequence id the  *)
(* server processed.  A world state does not carry that id, and            *)
(* GameClient::run passes the server's tick, which counts other things     *)
(* from another start.  The history variables keep what the client cannot  *)
(* know, so that the properties can say what this does to the prediction.  *)
(***************************************************************************)
EXTENDS GameCommon, Sequences

CONSTANTS
  Inputs,           \* the InputStates of the keyboard
  Start,            \* position of localPlayer_ before the first world state
  SpawnPositions,   \* where the server can have put the player
  HISTORY_CAP,      \* 120 in the code
  THRESHOLD,        \* RECONCILIATION_THRESHOLD, in the unit of positions
  TICK_MOD,         \* 2^32 in the code: ticks are uint32_t
  MaxInputs,        \* bound: inputs in a behaviour
  MaxPending        \* bound: world states on their way

ASSUME PredictionAssumption ==
  /\ Inputs \subseteq InputState
  /\ Start \in Reachable /\ SpawnPositions \subseteq Reachable
  /\ HISTORY_CAP \in Nat \ {0} /\ THRESHOLD \in Nat /\ TICK_MOD \in Nat \ {0}
  /\ MaxInputs \in Nat /\ MaxPending \in Nat

VARIABLES
  history,          \* history_: [sequenceId, input, predicted], oldest first
  nextSequenceId,   \* nextSequenceId_
  localPlayer,      \* position of GameClient::localPlayer_
  unprocessed,      \* inputs the server has not applied: [seq, input]
  lastProcessed,    \* the server's lastProcessedSeq_ for this player
  serverPlayer,     \* the server's position for this player
  currentTick,      \* the server's currentTick_
  pending,          \* world states on their way, as far as this player goes
  covered,          \* history: for each of pending, its lastProcessed
  heard,            \* history: lastProcessed of the newest world state read
  told,             \* history: newest input dropped as acknowledged
  truth,            \* history: where all inputs so far lead from the spawn
  wrapped           \* history: currentTick has been 0 since the client joined

engineVars == <<history, nextSequenceId, localPlayer>>
netVars == <<unprocessed, lastProcessed, serverPlayer, currentTick, pending>>
ghostVars == <<covered, heard, told, truth, wrapped>>
vars == <<engineVars, netVars, ghostVars>>

\* The server may have been running for any time when the client joins; its
\* first tick is over when the client has its id, so a 0 comes from a wrap.
Init ==
  /\ history = <<>> /\ nextSequenceId = 1 /\ localPlayer = Start
  /\ unprocessed = <<>> /\ lastProcessed = 0
  /\ serverPlayer \in SpawnPositions
  /\ currentTick \in 0 .. TICK_MOD - 1
  /\ pending = <<>>
  /\ covered = <<>> /\ heard = 0 /\ told = 0
  /\ truth = serverPlayer /\ wrapped = (currentTick = 0)

(***************************************************************************)
(* Slips the properties must catch; no behaviour uses them.                *)
(***************************************************************************)
TrimmedToCapLessOne(entries) ==
  IF Len(entries) >= HISTORY_CAP THEN Tail(entries) ELSE entries

UnacknowledgedAndLast(entries, n) ==
  SelectSeq(entries, LAMBDA e : e.sequenceId >= n)

ReplayWithoutFirst(position, entries) ==
  LET after[i \in 1 .. Len(entries)] ==
        IF i = 1 THEN position ELSE ApplyInput(after[i - 1], entries[i].input)
  IN  after[Len(entries)]

PredictUnclamped(position, input) ==
  LET d == Displacement(input)
  IN  [x |-> position.x + d.x, y |-> position.y + d.y]

-----------------------------------------------------------------------------
(* The engine.                                                             *)

Predict(position, input) == ApplyInput(position, input)

Trimmed(entries) ==
  IF Len(entries) > HISTORY_CAP THEN Tail(entries) ELSE entries

\* history_ after popping its front while that is at most sequence id n.
Unacknowledged(entries, n) ==
  LET newer == {i \in DOMAIN entries : entries[i].sequenceId > n}
      first == CHOOSE i \in newer : \A j \in newer : i <= j
  IN  IF newer = {} THEN <<>> ELSE SubSeq(entries, first, Len(entries))

\* after[i] is the position after the first i entries.
Replay(position, entries) ==
  LET after[i \in 0 .. Len(entries)] ==
        IF i = 0 THEN position ELSE ApplyInput(after[i - 1], entries[i].input)
  IN  after[Len(entries)]

\* The position the error is measured from: the prediction made for input n,
\* or the current position if that entry is not in the history.
PredictedFor(entries, n) ==
  IF \E i \in DOMAIN entries : entries[i].sequenceId = n
    THEN entries[CHOOSE i \in DOMAIN entries :
                   entries[i].sequenceId = n].predicted
    ELSE localPlayer

FarApart(a, b) == DistanceSquared(a, b) > THRESHOLD * THRESHOLD

\* A slip: an empty history is no reason of its own to take the server's state.
ReconciledIfFar(kept, position, n) ==
  IF FarApart(PredictedFor(kept, n), position) THEN Replay(position, kept)
                                               ELSE localPlayer

\* The position reconcile() leaves in currentPlayer, given the entries it
\* keeps and the state and sequence id it was called with.
Reconciled(kept, position, n) ==
  IF kept = <<>> THEN position
  ELSE IF FarApart(PredictedFor(kept, n), position)
    THEN Replay(position, kept)
    ELSE localPlayer

-----------------------------------------------------------------------------
(* The client: GameClient::processInput and the world state part of run(). *)

ProcessInput ==
  /\ nextSequenceId <= MaxInputs
  /\ \E input \in Inputs :
       /\ localPlayer' = Predict(localPlayer, input)
       /\ history' = Trimmed(Append(history,
            [sequenceId |-> nextSequenceId, input |-> input,
             predicted |-> localPlayer']))
       /\ unprocessed' = Append(unprocessed,
            [seq |-> nextSequenceId, input |-> input])
       /\ truth' = ApplyInput(truth, input)
  /\ nextSequenceId' = nextSequenceId + 1
  /\ UNCHANGED <<lastProcessed, serverPlayer, currentTick, pending,
                 covered, heard, told, wrapped>>

\* The number the client hands to reconcile() as lastProcessedSeq.
AckArgument(world) == world.tick

\* The newest input that is acknowledged when n is handed over.
ToldBy(n) ==
  IF n >= nextSequenceId THEN nextSequenceId - 1
  ELSE IF n > told THEN n ELSE told

ReceiveWorldState ==
  /\ pending # <<>>
  /\ LET world == Head(pending)
         n     == AckArgument(world)
     IN  /\ history' = Unacknowledged(history, n)
         /\ localPlayer' = Reconciled(history', world.position, n)
         /\ told' = ToldBy(n)
  /\ pending' = Tail(pending)
  /\ heard' = Head(covered) /\ covered' = Tail(covered)
  /\ UNCHANGED <<nextSequenceId, unprocessed, lastProcessed, serverPlayer,
                 currentTick, truth, wrapped>>

-----------------------------------------------------------------------------
(* The server: one tick, with or without an input that is ready.           *)

\* The end of a tick: a world state goes out in every third one.
EndTick ==
  /\ IF currentTick % 3 = 0
       THEN /\ Len(pending) < MaxPending
            /\ pending' = Append(pending, [tick     |-> currentTick,
                                           position |-> serverPlayer'])
            /\ covered' = Append(covered, lastProcessed')
       ELSE UNCHANGED <<pending, covered>>
  /\ currentTick' = (currentTick + 1) % TICK_MOD
  /\ wrapped' = (wrapped \/ currentTick' = 0)
  /\ UNCHANGED <<engineVars, heard, told, truth>>

TickWithInput ==
  /\ unprocessed # <<>>
  /\ serverPlayer' = ApplyInput(serverPlayer, Head(unprocessed).input)
  /\ lastProcessed' = Head(unprocessed).seq
  /\ unprocessed' = Tail(unprocessed)
  /\ EndTick

TickWithoutInput ==
  /\ UNCHANGED <<serverPlayer, lastProcessed, unprocessed>>
  /\ EndTick

ServerTick == TickWithInput \/ TickWithoutInput

Next == ProcessInput \/ ReceiveWorldState \/ ServerTick

Spec == Init /\ [][Next]_vars

\* Both loops keep running, and an input that has waited long enough is ready
\* in every later tick.  The player need not press anything.
FairSpec ==
  /\ Spec
  /\ WF_vars(ReceiveWorldState) /\ WF_vars(ServerTick)
  /\ SF_vars(TickWithInput)

-----------------------------------------------------------------------------
HistoryEntry == [sequenceId : Nat \ {0}, input : Inputs, predicted : Reachable]

World == [tick : 0 .. TICK_MOD - 1, position : Reachable]

TypeOK ==
  /\ history \in Seq(HistoryEntry)
  /\ nextSequenceId \in Nat \ {0}
  /\ localPlayer \in Reachable
  /\ unprocessed \in Seq([seq : Nat \ {0}, input : Inputs])
  /\ lastProcessed \in Nat /\ serverPlayer \in Reachable
  /\ currentTick \in 0 .. TICK_MOD - 1
  /\ pending \in Seq(World)
  /\ covered \in Seq(Nat) /\ Len(covered) = Len(pending)
  /\ heard \in Nat /\ told \in Nat
  /\ truth \in Reachable /\ wrapped \in BOOLEAN

\* The history holds exactly the inputs newer than every number handed to
\* reconcile() since they were made, without a gap, or the newest HISTORY_CAP
\* of them: a late world state, or a tick that wrapped, brings nothing back
\* and drops nothing more.
HistoryIsUnacknowledged ==
  LET newest == nextSequenceId - 1
      before == IF newest - told > HISTORY_CAP THEN newest - HISTORY_CAP
                                               ELSE told
  IN  /\ Len(history) = newest - before
      /\ \A i \in DOMAIN history : history[i].sequenceId = before + i

\* An input the server has not applied yet is still there to be replayed,
\* as long as it is one of the newest HISTORY_CAP.
UnprocessedIsKept ==
  \A i \in DOMAIN unprocessed :
    unprocessed[i].seq >= nextSequenceId - HISTORY_CAP =>
      \E j \in DOMAIN history : history[j].sequenceId = unprocessed[i].seq

\* The tick errs on one side only.  The server applies at most one input per
\* tick and started counting before the client did, so until its counter
\* wraps no entry is left that the world state already includes: the client
\* never applies an input twice.
NothingReplayedTwice ==
  [][ReceiveWorldState /\ ~wrapped =>
       \A i \in DOMAIN history' : history'[i].sequenceId > heard']_vars

Abs(n) == IF n < 0 THEN -n ELSE n

\* How far the prediction is from where the server will be once it has
\* applied every input sent so far.
Error == Abs(localPlayer.x - truth.x) + Abs(localPlayer.y - truth.y)

\* Inputs the client has sent that the newest world state read lacks.
Ahead == nextSequenceId - 1 - heard

\* Neither a new input nor a world state, however late, takes the prediction
\* further from the server than it was, unless the world state leaves more or
\* fewer entries than the inputs it lacks.
ErrorNeverGrows ==
  [][(ReceiveWorldState => Len(history') = Ahead') => Error' <= Error]_vars

\* The prediction is no further than this from the truth along either axis.
Within(distance) ==
  /\ Abs(localPlayer.x - truth.x) <= distance
  /\ Abs(localPlayer.y - truth.y) <= distance

Stride == IF DIAG_STEP > AXIS_STEP THEN DIAG_STEP ELSE AXIS_STEP

\* Where reconcile() replays k inputs while m are ahead of the world state, it
\* is off by the difference at most, so not at all if the two are the same;
\* and a prediction that it keeps is no worse than its threshold and the m
\* inputs allow.
CorrectionIsClose ==
  [][ReceiveWorldState =>
       \/ Within(Stride * Abs(Len(history) - Ahead))'
       \/ localPlayer' = localPlayer /\ Within(THRESHOLD + Stride * Ahead)']_vars

\* A prediction that is off by more than the threshold is corrected by the
\* next world state, at least by one that leaves just the inputs it lacks.
MismatchIsCorrected ==
  [][ReceiveWorldState /\ Len(history') = Ahead' =>
       ~FarApart(localPlayer', truth')]_vars

\* Once the player stops sending (the window loses the focus), the client
\* ends up exactly where the server has it, and stays there: at last the tick
\* passes every id, and each world state is taken as it is.
EventuallyAgrees == <>[](Error = 0)

=============================================================================
