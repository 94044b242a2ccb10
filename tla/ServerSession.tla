--------------------------- MODULE ServerSession ----------------------------
(***************************************************************************)
(* A server and the clients that connect to it.  Of a client only what the *)
(* server can tell is kept: it connects, waits for its welcome before it   *)
(* sends inputs numbered from 1, reads what arrives, and quits at any      *)
(* moment (GameClient and ClientNetwork; their own state is not here).     *)
(***************************************************************************)
EXTENDS GameServer

CONSTANT MaxInputs      \* bound: inputs of one client

ASSUME SessionAssumption == MaxInputs \in Nat

VARIABLES
  assigned,   \* assigned[c]: assignedPlayerId_, 0 before the welcome
  seen,       \* seen[c]: tick of the last world state c read, or NoTick
  sent        \* sent[c]: c's inputs that reached the server's socket, each
              \* with the position they lead to from c's spawn

clientVars == <<assigned, seen, sent>>

vars == <<serverVars, linkVars, clientVars>>

NoTick == -1

Init ==
  /\ InitServer /\ InitLinks
  /\ assigned = [c \in Clients |-> 0]
  /\ seen = [c \in Clients |-> NoTick]
  /\ sent = [c \in Clients |-> <<>>]

Down == phase \in {"stopped", "dead"}

-----------------------------------------------------------------------------
Connect(c) ==
  /\ ~Down
  /\ OpenLink(c)
  /\ UNCHANGED <<serverVars, clientVars>>

\* GameClient::run starts after connect() has seen the id, and every tick
\* with the focus predicts one input and sends it.
SendInput(c) ==
  /\ assigned[c] # 0
  /\ Len(sent[c]) < MaxInputs
  /\ \E input \in Inputs :
       LET n     == Len(sent[c])
           start == IF n = 0 THEN pstate[c].position ELSE sent[c][n].leadsTo
       IN  /\ PutToServer(c, [seq |-> n + 1, input |-> input])
           /\ sent' = [sent EXCEPT ![c] = Append(@,
                [input |-> input, leadsTo |-> ApplyInput(start, input)])]
  /\ UNCHANGED <<serverVars, assigned, seen>>

\* ClientNetwork::processPackets takes the next packet.
ReadPacket(c) ==
  /\ TakeFromServer(c)
  /\ LET m == Head(toClient[c]) IN
       IF m.kind = "welcome"
         THEN assigned' = [assigned EXCEPT ![c] = m.id] /\ UNCHANGED seen
         ELSE seen' = [seen EXCEPT ![c] = m.tick] /\ UNCHANGED assigned
  /\ UNCHANGED <<serverVars, sent>>

\* The window is closed, the process is killed, or no welcome came in time.
Quit(c) ==
  /\ CloseLink(c)
  /\ UNCHANGED <<serverVars, clientVars>>

ClientStep(c) == Connect(c) \/ SendInput(c) \/ ReadPacket(c) \/ Quit(c)

Server == (ServerStep \/ KilledBySigpipe \/ Signal) /\ UNCHANGED clientVars

Next == Server \/ \E c \in Clients : ClientStep(c)

Spec == Init /\ [][Next]_vars

\* An input leaves its latency buffer in this step.
InputReleased(c) ==
  ProcessInputs /\ inbuf'[c] # inbuf[c] /\ UNCHANGED clientVars

\* The operating system keeps scheduling the server's thread; an input that
\* has waited its 200 ms is ready in every later tick; a client that runs
\* reads its socket in every tick.  Nobody has to connect, send or quit.
FairSpec ==
  /\ Spec
  /\ WF_vars(ServerStep /\ UNCHANGED clientVars)
  /\ \A c \in Clients : SF_vars(InputReleased(c)) /\ WF_vars(ReadPacket(c))

-----------------------------------------------------------------------------
InputPacket == [seq : Nat \ {0}, input : Inputs]

SentInput == [input : Inputs, leadsTo : Reachable]

PlayerState == [position : Reachable \cup {Origin}, score : Nat]

CoinState == [position : CoinPositions, appearance : Nat]

Ids == 1 .. nextPlayerId - 1

Message ==
  [kind : {"welcome"}, id : Ids]
    \cup [kind : {"world"}, tick : 0 .. TICK_MOD - 1, ids : SUBSET Ids]

Phases == {"frame", "accept", "receive", "send", "list", "inputs", "collide",
           "stopped", "dead"}

GameTypesOK ==
  /\ phase \in Phases /\ cursor \in Nat
  /\ due \in 0 .. FRAME_CAP /\ running \in BOOLEAN
  /\ currentTick \in 0 .. TICK_MOD - 1
  /\ gamePlayers \in Seq(Clients)
  /\ coins \in [Coins -> CoinState]

PlayerTypesOK ==
  /\ nextPlayerId \in Nat \ {0} /\ descriptors \in Nat
  /\ players \in Seq(Clients)
  /\ pid \in [Clients -> 0 .. nextPlayerId - 1]
  /\ pstate \in [Clients -> PlayerState]
  /\ inbuf \in [Clients -> Seq(InputPacket)]
  /\ lastSeq \in [Clients -> Nat]

LinkTypesOK ==
  /\ link \in [Clients -> {"idle", "open", "closed"}]
  /\ backlog \in Seq(Clients)
  /\ toServer \in [Clients -> Seq(InputPacket)]
  /\ sent \in [Clients -> Seq(SentInput)]

StateTypeOK == GameTypesOK /\ PlayerTypesOK /\ LinkTypesOK

MessagesTypeOK ==
  /\ outgoing \in Seq(Message)
  /\ toClient \in [Clients -> Seq(Message)]
  /\ assigned \in [Clients -> 0 .. nextPlayerId - 1]
  /\ seen \in [Clients -> {NoTick} \cup 0 .. TICK_MOD - 1]

TypeOK == StateTypeOK /\ MessagesTypeOK

\* The packets of queue are the inputs after the first n, without a gap.
Continues(queue, n, inputs) ==
  \A i \in DOMAIN queue :
    queue[i].seq = n + i /\ queue[i].input = inputs[n + i].input

\* Client c's inputs are applied up to lastSeq, then buffered, then unread.
InOrder(c) ==
  LET buffered == lastSeq[c] + Len(inbuf[c])
  IN  /\ Continues(inbuf[c], lastSeq[c], sent[c])
      /\ Continues(toServer[c], buffered, sent[c])
      /\ buffered + Len(toServer[c]) = Len(sent[c])

\* Every input a connected client sent is in exactly one place, in order:
\* applied, in the player's latency buffer, or in the socket.  The server
\* skips none, repeats none and reorders none, whatever recv batches it sees
\* and whenever the buffer lets go.
InputsInOrder == \A c \in Members(players) : InOrder(c)

\* The position the server holds for a player is the one its client computes
\* by applying the acknowledged inputs, and nothing else, from the spawn: the
\* agreement on which prediction and reconciliation rest.
AuthoritativePosition ==
  \A c \in Members(players) :
    lastSeq[c] > 0 => pstate[c].position = sent[c][lastSeq[c]].leadsTo

\* The packets on their way to a connected client, next one first.
Stream(c) == toClient[c] \o AddressedTo(c, outgoing)

Attached == {c \in Members(players) : link[c] = "open"}

\* Once a client knows id, no welcome is in s.  Until then there is one, with
\* its id, and no world state before it lists that id.
OneWelcome(s, known, id) ==
  LET welcomes == {i \in DOMAIN s : s[i].kind = "welcome"}
  IN  IF known # 0
        THEN known = id /\ welcomes = {}
        ELSE \E w \in DOMAIN s :
               /\ welcomes = {w} /\ s[w].id = id
               /\ \A i \in 1 .. w - 1 : id \notin s[i].ids

\* A client gets one welcome, with its own id, and gets it before any world
\* state that lists that id: it never takes its own player for a remote one.
WelcomeFirst ==
  \A c \in Attached : OneWelcome(Stream(c), assigned[c], pid[c])

\* The tick broadcast after tick t.  2^32 is not a multiple of 3: the counter
\* wraps one tick after its last broadcast and 0 is broadcast again.
NextBroadcast(t) == IF t + 3 < TICK_MOD THEN t + 3 ELSE 0

\* The tick of the next broadcast when the counter is at t.
BroadcastFrom(t) ==
  LET tick == t + ((3 - (t % 3)) % 3)
  IN  IF tick < TICK_MOD THEN tick ELSE 0

Worlds(s) == {i \in DOMAIN s : s[i].kind = "world"}

\* Of two world states with none between them the second is the next broadcast.
Unbroken(s) ==
  \A i, j \in Worlds(s) :
    i < j /\ (\A k \in Worlds(s) : k <= i \/ j <= k)
      => s[j].tick = NextBroadcast(s[i].tick)

\* The first world state in s is the broadcast after tick, or else tick is
\* the last one there was before the counter came to now.
Follows(s, tick, now) ==
  IF Worlds(s) = {} THEN NextBroadcast(tick) = BroadcastFrom(now)
  ELSE \A i \in Worlds(s) :
         (\A k \in Worlds(s) : i <= k) => s[i].tick = NextBroadcast(tick)

\* The last world state in s is the last there was.
UpToDate(s, now) ==
  \A i \in Worlds(s) :
    (\A k \in Worlds(s) : k <= i)
      => NextBroadcast(s[i].tick) = BroadcastFrom(now)

\* From its first world state on, a client gets every later one, in order:
\* none is skipped, repeated or overtaken, up to the last one broadcast.
NoSnapshotMissing ==
  \A c \in Attached :
    /\ Unbroken(Stream(c)) /\ UpToDate(Stream(c), currentTick)
    /\ seen[c] # NoTick => Follows(Stream(c), seen[c], currentTick)

\* While a tick works through GameServer::players_, every pointer in it is to
\* a ServerPlayer that still exists, in the order of the owning list.
NoDanglingPlayer ==
  phase \in {"inputs", "collide"} => gamePlayers = players

\* One member for every unit f counts: its cardinality is the sum of f.
Tally(f) == UNION {{x} \X (1 .. f[x]) : x \in DOMAIN f}

\* The points all players ever got, and the places taken from all coins.
PointsScored == Tally([c \in Clients |-> pstate[c].score])
PlacesTaken  == Tally([k \in Coins |-> coins[k].appearance - 1])

\* Every place a coin has been taken from was credited to exactly one player,
\* for one point, even when several touch it in one tick.
CoinCreditedOnce == Cardinality(PointsScored) = Cardinality(PlacesTaken)

-----------------------------------------------------------------------------
\* A client that connects learns its id, unless it leaves or the server does.
WelcomeArrives ==
  \A c \in Clients :
    (link[c] = "open") ~> (assigned[c] # 0 \/ link[c] = "closed" \/ Down)

\* Every input that reaches the server is applied, unless the client leaves
\* or the server stops.
InputsApplied ==
  \A c \in Clients, n \in 1 .. MaxInputs :
    (Len(sent[c]) >= n) ~> (lastSeq[c] >= n \/ link[c] = "closed" \/ Down)

\* A client that left disappears from the game.
DepartedLeaves ==
  \A c \in Clients :
    (link[c] = "closed" /\ c \in Members(players))
      ~> (c \notin Members(gamePlayers) \/ Down)

\* The signal ends the process.
SignalStops == ~running ~> Down

\* The process ends because somebody asked it to, by a signal.
StopsOnlyOnSignal == Down => ~running

\* c waits for its welcome although fewer clients than DescriptorLimit are
\* playing.
WaitsWithRoom(c) ==
  /\ link[c] = "open" /\ pid[c] = 0
  /\ Cardinality({d \in Clients : link[d] = "open" /\ pid[d] # 0})
       < DescriptorLimit

\* A client that connects while the server has room is let in.
RoomIsUsed ==
  \A c \in Clients : WaitsWithRoom(c) ~> (~WaitsWithRoom(c) \/ Down)

=============================================================================
