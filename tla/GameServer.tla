----------------------------- MODULE GameServer -----------------------------
(***************************************************************************)
(* The server process: GameServer, ServerNetwork and ServerPlayer.  One    *)
(* thread runs the frame loop; a frame runs `due' ticks, and every tick    *)
(* goes through the phases below in the order gameLoop() calls them.       *)
(* Clients and the network move between any two phases, and between the    *)
(* recv calls of two players.                                              *)
(*                                                                         *)
(* A latency buffer is the delay line of DelayLine.tla: a sequence whose   *)
(* head may be released at any moment.  A packet is a message: the framing *)
(* of the byte stream, and a send that the kernel cuts short, are left     *)
(* out.  The packets a client sends other than inputs are dropped by       *)
(* ServerPlayer::processPackets without effect and are left out too.       *)
(***************************************************************************)
EXTENDS GameCommon, TcpLinks, FiniteSets

CONSTANTS
  Coins,              \* 0 .. MAX_COINS - 1
  Inputs,             \* the InputStates clients send
  SpawnPositions,     \* where acceptNewClients can put a player
  CoinPositions,      \* what randomCoinPosition can return
  FRAME_CAP,          \* ticks of the longest frame, 15 in the code
  TICK_MOD,           \* 2^32 in the code: currentTick_ is a uint32_t
  RECV_BATCH,         \* packets in the 1024 bytes of one recv
  DescriptorLimit,    \* client sockets the process may hold open
  MaxTick,            \* bound: ticks before the counter stops (or no bound)
  MaxQueued,          \* bound: packets the outgoing buffer still delays
  MaxFlight           \* bound: packets on the way to one client

ASSUME ServerAssumption ==
  /\ FRAME_CAP \in Nat \ {0}
  /\ TICK_MOD \in Nat \ {0}
  /\ RECV_BATCH \in Nat \ {0}
  /\ DescriptorLimit \in Nat
  /\ MaxTick \in Nat /\ MaxQueued \in Nat /\ MaxFlight \in Nat
  /\ Inputs \subseteq InputState /\ IsFiniteSet(Coins)
  /\ SpawnPositions \subseteq Reachable
  /\ CoinPositions \subseteq Vec2

VARIABLES
  phase,          \* where the server's thread is
  cursor,         \* position of the loop over the players
  due,            \* ticks this frame still has to run
  running,        \* g_running
  currentTick,    \* currentTick_
  nextPlayerId,   \* nextPlayerId_
  players,        \* ServerNetwork::players_, as the clients they belong to
  gamePlayers,    \* GameServer::players_, raw pointers into players
  pid,            \* pid[c]: state_.id of c's ServerPlayer, 0 before
  pstate,         \* pstate[c]: state_.position and state_.score
  inbuf,          \* inbuf[c]: inputBuffer_
  lastSeq,        \* lastSeq[c]: lastProcessedSeq_
  outgoing,       \* outgoingBuffer_
  coins,          \* coins_: [position, appearance]
  descriptors     \* client sockets the process holds open

loopVars == <<due, running, currentTick>>                     \* run()
netVars == <<nextPlayerId, players, outgoing, descriptors>>   \* ServerNetwork
playerVars == <<pid, pstate, inbuf, lastSeq>>                 \* ServerPlayer
gameVars == <<gamePlayers, coins>>                            \* GameServer

serverVars == <<phase, cursor, loopVars, netVars, playerVars, gameVars>>

Members(list) == {list[i] : i \in DOMAIN list}

Welcome(id) == [kind |-> "welcome", id |-> id]
WorldState(tick, ids) == [kind |-> "world", tick |-> tick, ids |-> ids]

\* The default Vec2: a player's position until it spawns.
Origin == [x |-> 0, y |-> 0]

\* appearance counts the places a coin has had, this one included.
SpawnCoins ==
  coins \in [Coins -> [position : CoinPositions, appearance : {1}]]

\* start(): the socket listens and nobody is connected.
InitServer ==
  /\ phase = "frame" /\ cursor = 0 /\ due = 0
  /\ running = TRUE
  /\ currentTick = 0
  /\ nextPlayerId = 1
  /\ players = <<>> /\ gamePlayers = <<>>
  /\ pid = [c \in Clients |-> 0]
  /\ pstate = [c \in Clients |-> [position |-> Origin, score |-> 0]]
  /\ inbuf = [c \in Clients |-> <<>>]
  /\ lastSeq = [c \in Clients |-> 0]
  /\ outgoing = <<>>
  /\ SpawnCoins
  /\ descriptors = 0

(***************************************************************************)
(* Slips the properties must catch, each a stand-in for the definition it  *)
(* precedes in name; no behaviour of the specification uses them.          *)
(***************************************************************************)
FrameIgnoresSignal ==
  /\ phase = "frame"
  /\ due' \in 1 .. FRAME_CAP
  /\ currentTick + due' <= MaxTick
  /\ phase' = "accept"
  /\ UNCHANGED <<cursor, running, currentTick, netVars, playerVars, gameVars,
                 linkVars>>

CanAcceptBelowLimit == backlog # <<>> /\ descriptors + 1 < DescriptorLimit

UnreadDropped(queue, n) == <<>>

AddressedToAll(c, batch) == batch

GetPlayersOnce ==
  /\ phase = "list"
  /\ gamePlayers' = IF gamePlayers = <<>> THEN players ELSE gamePlayers
  /\ phase' = "inputs"
  /\ UNCHANGED <<cursor, loopVars, netVars, playerVars, coins, linkVars>>

PoppableIfTwo(c) == Len(inbuf[c]) > 1

MovedByNewest(c) ==
  ApplyInput(pstate[c].position, inbuf[c][Len(inbuf[c])].input)

PointsPerTick(hits) == IF hits = {} THEN 0 ELSE 1

BroadcastDueAtFrameEnd(t) == t % 3 = 0 /\ due = 1

TickWithoutWrap(t) == t + 1

-----------------------------------------------------------------------------
(* The frame loop.                                                         *)

\* One pass of while (running): frameTime is capped, so that a frame owes at
\* most FRAME_CAP ticks however long the process was held up.
Frame ==
  /\ phase = "frame" /\ running
  /\ due' \in 1 .. FRAME_CAP
  /\ currentTick + due' <= MaxTick
  /\ phase' = "accept"
  /\ UNCHANGED <<cursor, running, currentTick, netVars, playerVars, gameVars,
                 linkVars>>

\* The loop ends and stop() drops the players and the listening socket.
Stop ==
  /\ phase = "frame" /\ ~running
  /\ phase' = "stopped"
  /\ players' = <<>>
  /\ UNCHANGED <<cursor, loopVars, nextPlayerId, outgoing, descriptors,
                 playerVars, gameVars, linkVars>>

\* SIGINT or SIGTERM: the handler only clears the flag.
Signal ==
  /\ running /\ phase \notin {"stopped", "dead"}
  /\ running' = FALSE
  /\ UNCHANGED <<phase, cursor, due, currentTick, netVars, playerVars,
                 gameVars, linkVars>>

-----------------------------------------------------------------------------
(* ServerNetwork::update(): accept, receive, send.                         *)

\* accept() fails, and the connection stays queued, when the process is out
\* of descriptors.
CanAccept == backlog # <<>> /\ descriptors < DescriptorLimit

\* At most one connection per tick.
AcceptNewClients ==
  /\ phase = "accept"
  /\ phase' = "receive" /\ cursor' = 1
  /\ IF CanAccept
       THEN LET c == Head(backlog) IN
         /\ backlog' = Tail(backlog)
         /\ descriptors' = descriptors + 1
         /\ nextPlayerId' = nextPlayerId + 1
         /\ pid' = [pid EXCEPT ![c] = nextPlayerId]
         /\ \E p \in SpawnPositions :
              pstate' = [pstate EXCEPT ![c] = [position |-> p, score |-> 0]]
         /\ players' = Append(players, c)
         /\ outgoing' = Append(outgoing, Welcome(nextPlayerId))
       ELSE UNCHANGED <<backlog, netVars, pid, pstate>>
  /\ UNCHANGED <<loopVars, inbuf, lastSeq, gameVars, link, toServer,
                 toClient>>

\* What one recv leaves in the socket.
Unread(queue, n) == SubSeq(queue, n + 1, Len(queue))

\* Every input goes into the player's latency buffer.
ProcessPackets(buffer, packets) == buffer \o packets

\* recv returned packets.
ReceivePackets ==
  /\ phase = "receive" /\ cursor \in DOMAIN players
  /\ LET c == players[cursor]
         n == IF Len(toServer[c]) < RECV_BATCH
                THEN Len(toServer[c]) ELSE RECV_BATCH
     IN  /\ n > 0
         /\ inbuf' = [inbuf EXCEPT
              ![c] = ProcessPackets(@, SubSeq(toServer[c], 1, n))]
         /\ toServer' = [toServer EXCEPT ![c] = Unread(@, n)]
  /\ cursor' = cursor + 1
  /\ UNCHANGED <<phase, loopVars, netVars, pid, pstate, lastSeq, gameVars,
                 link, backlog, toClient>>

\* recv returned 0 or an error: the player is erased, with the inputs its
\* buffer still held.  Its socket is not closed: the descriptor stays taken.
EraseDisconnected ==
  /\ phase = "receive" /\ cursor \in DOMAIN players
  /\ LET c == players[cursor] IN
       /\ link[c] = "closed"
       /\ inbuf' = [inbuf EXCEPT ![c] = <<>>]
  /\ players' = [i \in 1 .. Len(players) - 1 |->
                   IF i < cursor THEN players[i] ELSE players[i + 1]]
  /\ UNCHANGED <<phase, cursor, loopVars, nextPlayerId, outgoing, descriptors,
                 pid, pstate, lastSeq, gameVars, linkVars>>

\* recv would block.
ReceiveNothing ==
  /\ phase = "receive" /\ cursor \in DOMAIN players
  /\ LET c == players[cursor] IN link[c] = "open" /\ toServer[c] = <<>>
  /\ cursor' = cursor + 1
  /\ UNCHANGED <<phase, loopVars, netVars, playerVars, gameVars, linkVars>>

ReceiveDone ==
  /\ phase = "receive" /\ cursor \notin DOMAIN players
  /\ phase' = "send"
  /\ UNCHANGED <<cursor, loopVars, netVars, playerVars, gameVars, linkVars>>

Wanted(c, m) == m.kind = "world" \/ m.id = pid[c]

\* The packets of a batch that sendToClients writes to client c's socket:
\* every broadcast, and the welcome with c's id.  (SelectSeq, written out: no
\* library states facts about it that a proof could use.)
AddressedTo(c, batch) ==
  LET kept[i \in 0 .. Len(batch)] ==
        IF i = 0 THEN <<>>
        ELSE IF Wanted(c, batch[i]) THEN Append(kept[i - 1], batch[i])
        ELSE kept[i - 1]
  IN  kept[Len(batch)]

\* popReady releases some prefix of the outgoing buffer, and each packet is
\* written to the players it is for.  Writing to a connection the client has
\* closed loses the packet.
SendToClients ==
  /\ phase = "send"
  /\ \E k \in 0 .. Len(outgoing) :
       LET batch == SubSeq(outgoing, 1, k)
           open  == {c \in Members(players) : link[c] = "open"}
       IN  /\ Len(outgoing) - k <= MaxQueued
           /\ \A c \in open :
                Len(toClient[c]) + Len(AddressedTo(c, batch)) <= MaxFlight
           /\ outgoing' = SubSeq(outgoing, k + 1, Len(outgoing))
           /\ toClient' = [c \in Clients |->
                IF c \in open THEN toClient[c] \o AddressedTo(c, batch)
                              ELSE toClient[c]]
  /\ phase' = "list"
  /\ UNCHANGED <<cursor, loopVars, nextPlayerId, players, descriptors,
                 playerVars, gameVars, link, backlog, toServer>>

\* The first write to a closed connection is answered by a reset, and the
\* second raises SIGPIPE, which nothing handles: the process is killed.
KilledBySigpipe ==
  /\ phase = "send"
  /\ \E c \in Members(players) :
       link[c] = "closed" /\ Len(AddressedTo(c, outgoing)) >= 2
  /\ phase' = "dead"
  /\ UNCHANGED <<cursor, loopVars, netVars, playerVars, gameVars, linkVars>>

-----------------------------------------------------------------------------
(* The game part of gameLoop().                                            *)

GetPlayers ==
  /\ phase = "list"
  /\ gamePlayers' = players
  /\ phase' = "inputs"
  /\ UNCHANGED <<cursor, loopVars, netVars, playerVars, coins, linkVars>>

\* popInput can succeed for c, if the oldest input has been held long enough.
Poppable(c) == inbuf[c] # <<>>

Moved(c) == ApplyInput(pstate[c].position, Head(inbuf[c]).input)

\* One popInput per player and tick; it succeeds for the players in ready.
ProcessInputs ==
  /\ phase = "inputs"
  /\ \E ready \in SUBSET {c \in Members(gamePlayers) : Poppable(c)} :
       /\ pstate' = [c \in Clients |->
            IF c \in ready THEN [pstate[c] EXCEPT !.position = Moved(c)]
                           ELSE pstate[c]]
       /\ lastSeq' = [c \in Clients |->
            IF c \in ready THEN Head(inbuf[c]).seq ELSE lastSeq[c]]
       /\ inbuf' = [c \in Clients |->
            IF c \in ready THEN Tail(inbuf[c]) ELSE inbuf[c]]
  /\ phase' = "collide" /\ cursor' = 1
  /\ UNCHANGED <<loopVars, netVars, pid, gameVars, linkVars>>

Points(hits) == Cardinality(hits)

\* One pass of the outer loop of checkCollisions: the player takes every
\* coin it touches, and each of them reappears somewhere at once.
CheckCollisions ==
  /\ phase = "collide" /\ cursor \in DOMAIN gamePlayers
  /\ LET c    == gamePlayers[cursor]
         hits == {k \in Coins :
                    CheckCollision(pstate[c].position, coins[k].position)}
     IN  /\ pstate' = [pstate EXCEPT ![c].score = @ + Points(hits)]
         /\ \E place \in [hits -> CoinPositions] :
              coins' = [k \in Coins |->
                IF k \in hits
                  THEN [position   |-> place[k],
                        appearance |-> coins[k].appearance + 1]
                  ELSE coins[k]]
  /\ cursor' = cursor + 1
  /\ UNCHANGED <<phase, loopVars, netVars, pid, inbuf, lastSeq, gamePlayers,
                 linkVars>>

BroadcastDue(t) == t % 3 = 0

NextTick(t) == (t + 1) % TICK_MOD

BroadcastWorldState ==
  outgoing' = Append(outgoing, WorldState(currentTick,
                                 {pid[c] : c \in Members(gamePlayers)}))

\* The end of gameLoop() and of the inner loop of run(): a broadcast in
\* every third tick, then the next tick of this frame or the next frame.
BroadcastAndEndTick ==
  /\ phase = "collide" /\ cursor \notin DOMAIN gamePlayers
  /\ IF BroadcastDue(currentTick) THEN BroadcastWorldState
                                  ELSE UNCHANGED outgoing
  /\ due' = due - 1
  /\ currentTick' = NextTick(currentTick)
  /\ phase' = IF due > 1 THEN "accept" ELSE "frame"
  /\ UNCHANGED <<cursor, running, nextPlayerId, players, descriptors,
                 playerVars, gameVars, linkVars>>

-----------------------------------------------------------------------------
ReceiveFromClients ==
  ReceivePackets \/ EraseDisconnected \/ ReceiveNothing \/ ReceiveDone

\* What the server's own thread does when it is scheduled.
ServerStep ==
  \/ Frame \/ Stop
  \/ AcceptNewClients \/ ReceiveFromClients \/ SendToClients
  \/ GetPlayers \/ ProcessInputs \/ CheckCollisions \/ BroadcastAndEndTick

=============================================================================
