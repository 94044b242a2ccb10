---------------------------- MODULE ClientProofs ----------------------------
(***************************************************************************)
(* The client of GameClient keeps its types, never takes its own player    *)
(* for somebody else's, neither reads nor sends once it has noticed that   *)
(* the connection is lost, shows the broadcasts in order, and is to the    *)
(* server the client of ServerSession, for any number of clients,          *)
(* attempts, inputs and world states held.                                 *)
(***************************************************************************)
EXTENDS GameClient, SharedProofs

-----------------------------------------------------------------------------
(* The inductive invariant.                                                *)

Ids == 1 .. nextPlayerId - 1

Messages == [kind : {"welcome"}, id : Ids] \cup WorldStates

\* Who has an id, and where connections and players are kept.
Places ==
  /\ nextPlayerId \in Nat \ {0}
  /\ currentTick \in 0 .. TICK_MOD - 1
  /\ pid \in [Clients -> 0 .. nextPlayerId - 1]
  /\ link \in [Clients -> {"idle", "open", "closed"}]
  /\ players \in Seq(Clients) /\ gamePlayers \in Seq(Clients)
  /\ backlog \in Seq(Clients)
  /\ \A i \in DOMAIN players : pid[players[i]] # 0
  /\ \A i \in DOMAIN gamePlayers : pid[gamePlayers[i]] # 0
  /\ \A i \in DOMAIN backlog : pid[backlog[i]] = 0
  /\ \A i, j \in DOMAIN backlog : backlog[i] = backlog[j] => i = j
  /\ \A c \in Clients : link[c] = "idle" =>
       pid[c] = 0 /\ \A i \in DOMAIN backlog : backlog[i] # c

\* What is on its way to a client is for that client.
Mail ==
  /\ outgoing \in Seq(Messages)
  /\ toClient \in [Clients -> Seq(Messages)]
  /\ \A c \in Clients : \A i \in DOMAIN toClient[c] : Wanted(c, toClient[c][i])
  /\ \A c \in Clients : pid[c] = 0 => toClient[c] = <<>>

\* A client knows its own id or none.
Identity ==
  \A c \in Clients :
    /\ assigned[c] \in {0, pid[c]}
    /\ client[c].stage = "running" =>
         assigned[c] # 0 /\ client[c].myId = pid[c]
    /\ client[c].step = "input" \/ client[c].outbox # <<>> =>
         client[c].stage = "running"
    /\ pid[c] \notin client[c].remotes

\* As long as nothing was lost to a reset, what was sent and what waits are
\* the predicted inputs, in order.
Numbering ==
  /\ sent = [c \in Clients |-> sent[c]]
  /\ \A c \in Clients :
       /\ \E S : sent[c] \in Seq(S)
       /\ client[c].stage # "over" /\ wire[c] \in {"up", "eof"} =>
            /\ client[c].predicted = Len(sent[c]) + Len(client[c].outbox)
            /\ \A i \in DOMAIN client[c].outbox :
                 client[c].outbox[i].seq = Len(sent[c]) + i

IInv == TypeOK /\ Places /\ Mail /\ Identity /\ Numbering

-----------------------------------------------------------------------------
(* The initial state.                                                      *)

\* A client that has not started and a server without players satisfy IInv.
LEMMA InitIInv == Init => IInv
<1> SUFFICES ASSUME Init PROVE IInv
  OBVIOUS
<1> USE ClientAssumption, ServerAssumption DEF Init, InitServer, InitLinks
<1>0. nextPlayerId = 1 /\ 1 .. nextPlayerId - 1 = {} /\ 0 \in 0 .. nextPlayerId - 1
  OBVIOUS
<1>1. Fresh \in Process
  <2>1. 0 \in 0 .. MAX_ATTEMPTS - 1 /\ 0 \in 0 .. MaxInputs
    OBVIOUS
  <2>2. <<>> \in Seq([seq : 1 .. MaxInputs, input : Inputs]) /\ <<>> \in Seq(WorldStates)
    OBVIOUS
  <2> QED
    BY <1>0, <2>1, <2>2 DEF Fresh, Process
<1>2. TypeOK
  BY <1>0, <1>1 DEF TypeOK
<1>3. Places
  BY <1>0 DEF Places
<1>4. Mail
  BY <1>0 DEF Mail
<1>5. Identity
  BY <1>0 DEF Identity, Fresh
<1>6. Numbering
  <2>1. \A c \in Clients : sent[c] \in Seq({})
    OBVIOUS
  <2> QED
    BY <2>1 DEF Numbering, Fresh
<1> QED
  BY <1>2, <1>3, <1>4, <1>5, <1>6 DEF IInv


-----------------------------------------------------------------------------
(* The server's steps.                                                     *)

processes == <<client, wire, assigned, sent>>
places == <<nextPlayerId, currentTick, pid, link, players, gamePlayers, backlog>>

\* More ids can only mean more values.
LEMMA MoreIds ==
  ASSUME nextPlayerId \in Nat \ {0}, nextPlayerId' \in Nat \ {0},
         nextPlayerId <= nextPlayerId'
  PROVE  /\ Ids \subseteq Ids' /\ WorldStates \subseteq WorldStates'
         /\ Messages \subseteq Messages' /\ Process \subseteq Process'
         /\ 0 .. nextPlayerId - 1 \subseteq 0 .. nextPlayerId' - 1
<1>1. Ids \subseteq Ids' /\ 0 .. nextPlayerId - 1 \subseteq 0 .. nextPlayerId' - 1
  <2>1. \A n, m \in Nat : n <= m =>
          1 .. n - 1 \subseteq 1 .. m - 1 /\ 0 .. n - 1 \subseteq 0 .. m - 1
    OBVIOUS
  <2> QED
    BY <2>1 DEF Ids
<1>2. WorldStates \subseteq WorldStates'
  <2>1. SUBSET (1 .. nextPlayerId - 1) \subseteq SUBSET (1 .. nextPlayerId' - 1)
    BY <1>1 DEF Ids
  <2>2. (0 .. TICK_MOD - 1)' = 0 .. TICK_MOD - 1
    OBVIOUS
  <2> QED
    BY <2>1, <2>2 DEF WorldStates
<1>3. Messages \subseteq Messages'
  BY <1>1, <1>2 DEF Messages
<1>4. Seq(WorldStates) \subseteq Seq(WorldStates')
  BY <1>2
<1>5. SUBSET (1 .. nextPlayerId - 1) \subseteq SUBSET (1 .. nextPlayerId' - 1)
  BY <1>1 DEF Ids
<1>6. Process \subseteq Process'
  <2> HIDE DEF WorldStates
  <2> QED
    BY <1>1, <1>4, <1>5 DEF Process
<1> QED
  BY <1>1, <1>2, <1>3, <1>6

\* As long as the ids do not change, nor do the sets of values.
LEMMA SameIds ==
  ASSUME UNCHANGED nextPlayerId
  PROVE  /\ Ids' = Ids /\ WorldStates' = WorldStates
         /\ Messages' = Messages /\ Process' = Process
  BY DEF Ids, WorldStates, Messages, Process

\* New ids disturb no value the clients already have.
LEMMA TypesStay ==
  ASSUME TypeOK, UNCHANGED processes,
         nextPlayerId \in Nat \ {0}, nextPlayerId' \in Nat \ {0},
         nextPlayerId <= nextPlayerId'
  PROVE  TypeOK'
<1>1. /\ client' = client /\ wire' = wire /\ assigned' = assigned
      /\ Process \subseteq Process'
      /\ 0 .. nextPlayerId - 1 \subseteq 0 .. nextPlayerId' - 1
  BY MoreIds DEF processes
<1>2. client' \in [Clients -> Process'] /\ assigned' \in [Clients -> 0 .. nextPlayerId' - 1]
  <2> HIDE DEF Process
  <2> QED
    BY <1>1 DEF TypeOK
<1> QED
  BY <1>1, <1>2 DEF TypeOK

\* The parts of IInv that speak of variables a step leaves alone.
LEMMA NumberingStays ==
  ASSUME Numbering, UNCHANGED processes
  PROVE  Numbering'
  BY DEF Numbering, processes

LEMMA IdentityStays ==
  ASSUME Identity, UNCHANGED <<processes, pid>>
  PROVE  Identity'
  BY DEF Identity, processes

LEMMA PlacesStay ==
  ASSUME Places, UNCHANGED places
  PROVE  Places'
  BY DEF Places, places

LEMMA MailStays ==
  ASSUME Mail, UNCHANGED <<nextPlayerId, pid, outgoing, toClient>>
  PROVE  Mail'
  BY SameIds DEF Mail, Wanted

\* The steps that move no player, id or packet to a client.
LEMMA QuietStep ==
  ASSUME IInv, UNCHANGED <<processes, places, outgoing, toClient>>
  PROVE  IInv'
<1>1. UNCHANGED places /\ UNCHANGED processes /\ UNCHANGED <<nextPlayerId, pid, outgoing, toClient>>
  BY DEF places
<1>2. nextPlayerId \in Nat \ {0} /\ nextPlayerId <= nextPlayerId'
  BY <1>1 DEF IInv, Places
<1>3. TypeOK'
  BY <1>1, <1>2, TypesStay DEF IInv
<1>4. Numbering' /\ Identity' /\ Places' /\ Mail'
  BY <1>1, NumberingStays, IdentityStays, PlacesStay, MailStays DEF IInv
<1> QED
  BY <1>3, <1>4 DEF IInv

\* The steps of the server that no definition of IInv sees.
LEMMA QuietServerStep ==
  ASSUME IInv, UNCHANGED clientVars,
         \/ Frame \/ Signal \/ KilledBySigpipe
         \/ ReceivePackets \/ ReceiveNothing \/ ReceiveDone
         \/ ProcessInputs \/ CheckCollisions
  PROVE  IInv'
<1>1. UNCHANGED <<processes, places, outgoing, toClient>>
  BY DEF processes, places, clientVars, procVars, Frame, Signal,
         KilledBySigpipe, ReceivePackets, ReceiveNothing, ReceiveDone,
         ProcessInputs, CheckCollisions, loopVars, netVars, playerVars,
         gameVars, linkVars
<1> QED
  BY <1>1, QuietStep

\* A connection leaves the listen queue and its client gets a new id.
LEMMA AcceptStep ==
  ASSUME IInv, AcceptNewClients, UNCHANGED clientVars
  PROVE  IInv'
<1>1. CASE ~CanAccept
  BY <1>1, QuietStep DEF AcceptNewClients, processes, places, clientVars,
     procVars, loopVars, netVars, gameVars
<1>2. CASE CanAccept
  <2> DEFINE c == Head(backlog)
  <2>1. /\ backlog \in Seq(Clients) /\ backlog # <<>>
        /\ nextPlayerId \in Nat \ {0} /\ pid \in [Clients -> 0 .. nextPlayerId - 1]
    BY <1>2 DEF CanAccept, IInv, Places
  <2>2. /\ c \in Clients /\ c = backlog[1] /\ 1 \in DOMAIN backlog
        /\ Tail(backlog) \in Seq(Clients) /\ Len(Tail(backlog)) = Len(backlog) - 1
        /\ \A i \in DOMAIN Tail(backlog) :
             /\ Tail(backlog)[i] = backlog[i + 1]
             /\ i \in Nat \ {0} /\ i + 1 \in DOMAIN backlog
    <3>1. Len(backlog) \in Nat \ {0} /\ DOMAIN backlog = 1 .. Len(backlog)
      BY <2>1
    <3>2. /\ Tail(backlog) \in Seq(Clients) /\ Len(Tail(backlog)) = Len(backlog) - 1
          /\ DOMAIN Tail(backlog) = 1 .. Len(backlog) - 1
      BY <2>1, <3>1, HeadTailProperties
    <3>3. \A i \in 1 .. Len(backlog) - 1 :
            Tail(backlog)[i] = backlog[i + 1] /\ i + 1 \in 1 .. Len(backlog)
      BY <2>1, <3>1
    <3> QED
      BY <2>1, <3>1, <3>2, <3>3
  <2>3. pid[c] = 0 /\ link[c] # "idle" /\ toClient[c] = <<>> /\ assigned[c] = 0
    BY SMTT(40), <2>2 DEF IInv, Places, Mail, Identity
  <2> HIDE DEF c
  <2>4. /\ backlog' = Tail(backlog)
        /\ nextPlayerId' = nextPlayerId + 1
        /\ pid' = [pid EXCEPT ![c] = nextPlayerId]
        /\ players' = Append(players, c)
        /\ outgoing' = Append(outgoing, Welcome(nextPlayerId))
        /\ UNCHANGED <<processes, gamePlayers, currentTick, link, toClient>>
    BY <1>2 DEF AcceptNewClients, c, processes, clientVars, procVars, loopVars, gameVars
  <2>5. /\ nextPlayerId' \in Nat \ {0} /\ nextPlayerId <= nextPlayerId'
        /\ nextPlayerId \in Ids' /\ 0 .. nextPlayerId - 1 \subseteq 0 .. nextPlayerId' - 1
    BY <2>1, <2>4 DEF Ids
  <2>6. TypeOK'
    BY <2>1, <2>4, <2>5, TypesStay DEF IInv
  <2>7. Places'
    <3>1. pid' \in [Clients -> 0 .. nextPlayerId' - 1]
      BY <2>1, <2>2, <2>4, <2>5
    <3>2. \A i \in DOMAIN players' : pid'[players'[i]] # 0
      BY SMTT(40), <2>1, <2>2, <2>4 DEF IInv, Places
    <3>3. \A i \in DOMAIN gamePlayers' : pid'[gamePlayers'[i]] # 0
      BY <2>1, <2>4 DEF IInv, Places
    <3>4. ASSUME NEW i \in DOMAIN backlog'
          PROVE  backlog'[i] # c /\ pid'[backlog'[i]] = 0
      <4>1. /\ backlog'[i] = backlog[i + 1] /\ i \in Nat \ {0}
            /\ i + 1 \in DOMAIN backlog
        BY <2>2, <2>4
      <4>2. i + 1 # 1
        BY <4>1
      <4>3. backlog'[i] # c
        BY <2>2, <4>1, <4>2 DEF IInv, Places
      <4>4. backlog'[i] \in Clients
        BY <2>1, <4>1
      <4>5. pid[backlog[i + 1]] = 0
        BY <4>1 DEF IInv, Places
      <4> QED
        BY <2>1, <2>4, <4>1, <4>3, <4>4, <4>5
    <3>5. \A i, j \in DOMAIN backlog' : backlog'[i] = backlog'[j] => i = j
      BY SMTT(40), <2>2, <2>4 DEF IInv, Places
    <3>6. \A d \in Clients : link'[d] = "idle" =>
            pid'[d] = 0 /\ \A i \in DOMAIN backlog' : backlog'[i] # d
      BY <2>1, <2>2, <2>3, <2>4 DEF IInv, Places
    <3>7. players' \in Seq(Clients)
      BY <2>2, <2>4 DEF IInv, Places
    <3> QED
      BY <2>2, <2>4, <2>5, <3>1, <3>2, <3>3, <3>4, <3>5, <3>6, <3>7 DEF IInv, Places
  <2>8. Mail'
    <3>1. Messages \subseteq Messages'
      BY <2>1, <2>5, MoreIds
    <3>2. Welcome(nextPlayerId) \in Messages'
      BY <2>5 DEF Welcome, Messages
    <3>3. outgoing' \in Seq(Messages')
      <4> HIDE DEF Messages
      <4>1. outgoing \in Seq(Messages')
        BY <3>1 DEF IInv, Mail
      <4> QED
        BY <2>4, <3>2, <4>1
    <3>4. toClient' \in [Clients -> Seq(Messages')]
      <4> HIDE DEF Messages
      <4> QED
        BY <2>4, <3>1 DEF IInv, Mail
    <3>5. ASSUME NEW d \in Clients, NEW i \in DOMAIN toClient'[d]
          PROVE  Wanted(d, toClient[d][i])'
      <4>1. d # c
        BY <2>3, <2>4
      <4>2. pid'[d] = pid[d] /\ toClient'[d] = toClient[d]
        BY <2>1, <2>4, <4>1
      <4>3. Wanted(d, toClient[d][i])
        BY <4>2 DEF IInv, Mail
      <4> QED
        BY <4>2, <4>3 DEF Wanted
    <3>6. ASSUME NEW d \in Clients, pid'[d] = 0
          PROVE  toClient'[d] = <<>>
      BY <2>1, <2>3, <2>4, <3>6 DEF IInv, Mail
    <3> QED
      BY <3>3, <3>4, <3>5, <3>6 DEF Mail
  <2>9. Identity'
    <3> SUFFICES ASSUME NEW d \in Clients
                 PROVE  /\ assigned'[d] \in {0, pid'[d]}
                        /\ client'[d].stage = "running" =>
                             assigned'[d] # 0 /\ client'[d].myId = pid'[d]
                        /\ client'[d].step = "input" \/ client'[d].outbox # <<>>
                             => client'[d].stage = "running"
                        /\ pid'[d] \notin client'[d].remotes
      BY DEF Identity
    <3>1. client' = client /\ assigned' = assigned
      BY <2>4 DEF processes
    <3>2. CASE d # c
      <4>1. pid'[d] = pid[d]
        BY <2>1, <2>4, <3>2
      <4> QED
        BY <3>1, <4>1 DEF IInv, Identity
    <3>3. CASE d = c
      <4>1. client[d].remotes \in SUBSET (1 .. nextPlayerId - 1)
        BY DEF IInv, TypeOK, Process
      <4>2. nextPlayerId \notin client[d].remotes
        BY <2>1, <4>1
      <4>3. pid'[d] = nextPlayerId
        BY <2>1, <2>4, <3>3
      <4> QED
        BY <2>3, <3>1, <3>3, <4>2, <4>3 DEF IInv, Identity
    <3> QED
      BY <3>2, <3>3
  <2>10. Numbering'
    BY <2>4, NumberingStays DEF IInv
  <2> QED
    BY <2>6, <2>7, <2>8, <2>9, <2>10 DEF IInv
<1> QED
  BY <1>1, <1>2

\* The list of players gets shorter, or is copied.
LEMMA ListStep ==
  ASSUME IInv, UNCHANGED clientVars, Stop \/ EraseDisconnected \/ GetPlayers
  PROVE  IInv'
<1>1. /\ UNCHANGED <<processes, nextPlayerId, currentTick, pid, link, backlog,
                    outgoing, toClient>>
      /\ players' \in Seq(Clients) /\ gamePlayers' \in Seq(Clients)
      /\ \A i \in DOMAIN players' : pid[players'[i]] # 0
      /\ \A i \in DOMAIN gamePlayers' : pid[gamePlayers'[i]] # 0
  <2>1. CASE Stop
    BY <2>1 DEF Stop, processes, clientVars, procVars, loopVars, playerVars,
       gameVars, linkVars, IInv, Places
  <2>2. CASE EraseDisconnected
    <3>1. UNCHANGED <<processes, nextPlayerId, currentTick, pid, link, backlog,
                      outgoing, toClient, gamePlayers>>
      BY <2>2 DEF EraseDisconnected, processes, clientVars, procVars, loopVars,
         gameVars, linkVars
    <3>2. /\ players \in Seq(Clients) /\ cursor \in DOMAIN players
          /\ players' = [i \in 1 .. Len(players) - 1 |->
                           IF i < cursor THEN players[i] ELSE players[i + 1]]
      BY <2>2 DEF EraseDisconnected, IInv, Places
    <3>3. \A i \in 1 .. Len(players) - 1 :
            i \in DOMAIN players /\ i + 1 \in DOMAIN players
      BY <3>2
    <3>4. Len(players) - 1 \in Nat
      BY <3>2
    <3>5. \A i \in 1 .. Len(players) - 1 :
            players'[i] \in Clients /\ pid[players'[i]] # 0
      BY <3>2, <3>3 DEF IInv, Places
    <3>6. players' \in Seq(Clients)
      <4>1. players' = [i \in 1 .. Len(players) - 1 |-> players'[i]]
        BY <3>2
      <4> QED
        BY <3>4, <3>5, <4>1, IsASeq
    <3> QED
      BY <3>1, <3>2, <3>5, <3>6 DEF IInv, Places
  <2>3. CASE GetPlayers
    BY <2>3 DEF GetPlayers, processes, clientVars, procVars, loopVars,
       netVars, playerVars, linkVars, IInv, Places
  <2> QED
    BY <2>1, <2>2, <2>3
<1>2. nextPlayerId \in Nat \ {0} /\ nextPlayerId <= nextPlayerId'
  BY <1>1 DEF IInv, Places
<1>3. TypeOK' /\ Numbering' /\ Identity' /\ Mail'
  BY <1>1, <1>2, TypesStay, NumberingStays, IdentityStays, MailStays DEF IInv
<1>4. Places'
  BY <1>1 DEF IInv, Places
<1> QED
  BY <1>3, <1>4 DEF IInv

\* Of every batch sendToClients writes a client packets that are for it, and
\* no other: broadcasts, and the welcome with its own id.
LEMMA AddressedToType ==
  ASSUME NEW c, NEW S, NEW batch \in Seq(S)
  PROVE  AddressedTo(c, batch) \in Seq({m \in S : Wanted(c, m)})
<1>1. AddressedTo(c, batch) = ForPlayer(pid[c], batch)
  BY DEF AddressedTo, Wanted, ForPlayer, WantedBy
<1>2. {m \in S : Wanted(c, m)} = {m \in S : WantedBy(pid[c], m)}
  BY DEF Wanted, WantedBy
<1> QED
  BY <1>1, <1>2, ForPlayerType

\* Every packet goes to the clients it is for.
LEMMA SendStep ==
  ASSUME IInv, SendToClients, UNCHANGED clientVars
  PROVE  IInv'
<1>1. UNCHANGED <<processes, places>>
  BY DEF SendToClients, processes, places, clientVars, procVars, loopVars,
         playerVars, gameVars
<1>2. UNCHANGED places /\ UNCHANGED processes /\ UNCHANGED <<nextPlayerId, pid>>
  BY <1>1 DEF places
<1>3. nextPlayerId \in Nat \ {0} /\ nextPlayerId <= nextPlayerId'
  BY <1>2 DEF IInv, Places
<1>4. TypeOK' /\ Numbering' /\ Identity' /\ Places'
  BY <1>2, <1>3, TypesStay, NumberingStays, IdentityStays, PlacesStay DEF IInv
<1>5. Messages' = Messages
  BY <1>2, SameIds
<1>6. PICK k \in 0 .. Len(outgoing) :
        /\ outgoing' = SubSeq(outgoing, k + 1, Len(outgoing))
        /\ toClient' = [c \in Clients |->
             IF c \in {d \in Members(players) : link[d] = "open"}
               THEN toClient[c] \o AddressedTo(c, SubSeq(outgoing, 1, k))
               ELSE toClient[c]]
  BY DEF SendToClients
<1> DEFINE batch == SubSeq(outgoing, 1, k)
<1>7. batch \in Seq(Messages) /\ outgoing' \in Seq(Messages)
  <2> HIDE DEF Messages
  <2>1. outgoing \in Seq(Messages)
    BY DEF IInv, Mail
  <2> QED
    BY <1>6, <2>1
<1> HIDE DEF batch
<1>8. ASSUME NEW c \in Clients
      PROVE  /\ toClient'[c] \in Seq(Messages)
             /\ \A i \in DOMAIN toClient'[c] : Wanted(c, toClient'[c][i])
             /\ pid[c] = 0 => toClient'[c] = <<>>
  <2>1. /\ toClient[c] \in Seq(Messages)
        /\ \A i \in DOMAIN toClient[c] : Wanted(c, toClient[c][i])
        /\ pid[c] = 0 => toClient[c] = <<>>
    BY DEF IInv, Mail
  <2>2. CASE toClient'[c] = toClient[c]
    BY <2>1, <2>2
  <2>3. CASE c \in Members(players) /\ toClient'[c] = toClient[c] \o AddressedTo(c, batch)
    <3> DEFINE T == {m \in Messages : Wanted(c, m)}
    <3>1. AddressedTo(c, batch) \in Seq(T)
      BY <1>7, AddressedToType
    <3>2. toClient[c] \in Seq(T)
      <4>1. \A i \in 1 .. Len(toClient[c]) : toClient[c][i] \in T
        <5> HIDE DEF Messages
        <5> QED
          BY <2>1
      <4> HIDE DEF T
      <4> QED
        BY <2>1, <4>1
    <3>3. toClient'[c] \in Seq(T)
      <4> HIDE DEF T
      <4> QED
        BY <2>3, <3>1, <3>2
    <3>4. \A i \in DOMAIN toClient'[c] : toClient'[c][i] \in T
      <4> HIDE DEF T
      <4> QED
        BY <3>3
    <3>5. toClient'[c] \in Seq(Messages)
      <4> HIDE DEF Messages
      <4> QED
        BY <3>3
    <3>6. pid[c] # 0
      BY <2>3 DEF Members, IInv, Places
    <3> QED
      BY <3>4, <3>5, <3>6
  <2> QED
    BY <1>6, <2>2, <2>3 DEF batch
<1>9. Mail'
  <2>1. toClient' = [c \in Clients |-> toClient'[c]]
    BY <1>6
  <2>2. toClient' \in [Clients -> Seq(Messages')]
    <3> HIDE DEF Messages
    <3> QED
      BY <1>5, <1>8, <2>1
  <2> QED
    BY <1>2, <1>5, <1>7, <1>8, <2>2 DEF Mail, Wanted
<1> QED
  BY <1>4, <1>9 DEF IInv

\* A broadcast names players that have an id.
LEMMA EndOfTickStep ==
  ASSUME IInv, BroadcastAndEndTick, UNCHANGED clientVars
  PROVE  IInv'
<1>1. /\ UNCHANGED <<processes, nextPlayerId, pid, link, players, gamePlayers,
                     backlog, toClient>>
      /\ currentTick' = NextTick(currentTick)
      /\ outgoing' = outgoing
           \/ outgoing' = Append(outgoing, WorldState(currentTick,
                                   {pid[c] : c \in Members(gamePlayers)}))
  BY DEF BroadcastAndEndTick, BroadcastWorldState, processes, clientVars,
         procVars, playerVars, gameVars, linkVars
<1>2. nextPlayerId \in Nat \ {0} /\ nextPlayerId <= nextPlayerId'
  BY <1>1 DEF IInv, Places
<1>3. TypeOK' /\ Numbering' /\ Identity'
  BY <1>1, <1>2, TypesStay, NumberingStays, IdentityStays DEF IInv
<1>4. currentTick \in 0 .. TICK_MOD - 1 /\ currentTick' \in 0 .. TICK_MOD - 1
  BY <1>1, ServerAssumption DEF NextTick, IInv, Places
<1>5. Places'
  BY <1>1, <1>4 DEF IInv, Places
<1>6. Messages' = Messages
  BY <1>1, SameIds
<1>7. WorldState(currentTick, {pid[c] : c \in Members(gamePlayers)}) \in Messages
  <2>1. \A c \in Members(gamePlayers) : pid[c] \in 1 .. nextPlayerId - 1
    <3> SUFFICES ASSUME NEW i \in DOMAIN gamePlayers
                 PROVE  pid[gamePlayers[i]] \in 1 .. nextPlayerId - 1
      BY DEF Members
    <3>1. gamePlayers[i] \in Clients /\ pid[gamePlayers[i]] # 0
      BY DEF IInv, Places
    <3> QED
      BY <3>1, <1>2 DEF IInv, Places
  <2> DEFINE ids == {pid[c] : c \in Members(gamePlayers)}
  <2>2. ids \in SUBSET (1 .. nextPlayerId - 1)
    BY <2>1
  <2> HIDE DEF ids
  <2>3. WorldState(currentTick, ids) \in Messages
    BY <1>4, <2>2 DEF WorldState, WorldStates, Messages
  <2> QED
    BY <2>3 DEF ids
<1>8. outgoing' \in Seq(Messages)
  <2> HIDE DEF Messages
  <2> QED
    BY <1>1, <1>7 DEF IInv, Mail
<1>9. Mail'
  BY <1>1, <1>6, <1>8 DEF IInv, Mail, Wanted
<1> QED
  BY <1>3, <1>5, <1>9 DEF IInv

\* Nothing the server does disturbs a client.
LEMMA ServerKeepsIInv ==
  ASSUME IInv, Server
  PROVE  IInv'
  BY QuietServerStep, AcceptStep, ListStep, SendStep, EndOfTickStep
     DEF Server, ServerStep, ReceiveFromClients

-----------------------------------------------------------------------------
(* The clients' steps.                                                     *)

\* A step of client c that gives it the record p, and leaves the server, the
\* packets to other clients and the other clients alone.
LEMMA OwnTypes ==
  ASSUME IInv, NEW c \in Clients, NEW p, p \in Process,
         client' = [client EXCEPT ![c] = p], UNCHANGED serverVars,
         wire' \in [Clients -> {"up", "eof", "error", "broken"}],
         assigned' \in [Clients -> 0 .. nextPlayerId - 1]
  PROVE  TypeOK'
<1>1. UNCHANGED nextPlayerId /\ Process' = Process
  BY SameIds DEF serverVars, netVars
<1> HIDE DEF Process
<1>2. client' \in [Clients -> Process]
  BY DEF IInv, TypeOK
<1> QED
  BY <1>1, <1>2 DEF TypeOK

LEMMA OwnIdentity ==
  ASSUME IInv, NEW c \in Clients, NEW p,
         client' = [client EXCEPT ![c] = p], UNCHANGED serverVars,
         \A d \in Clients : d # c => assigned'[d] = assigned[d],
         assigned'[c] \in {0, pid[c]},
         p.stage = "running" => assigned'[c] # 0 /\ p.myId = pid[c],
         p.step = "input" \/ p.outbox # <<>> => p.stage = "running",
         pid[c] \notin p.remotes
  PROVE  Identity'
<1>1. pid' = pid
  BY DEF serverVars, playerVars
<1>2. client'[c] = p /\ \A d \in Clients : d # c => client'[d] = client[d]
  BY DEF IInv, TypeOK
<1> QED
  BY <1>1, <1>2 DEF IInv, Identity

LEMMA OwnNumbering ==
  ASSUME IInv, NEW c \in Clients, NEW p,
         client' = [client EXCEPT ![c] = p],
         \A d \in Clients : d # c => wire'[d] = wire[d],
         UNCHANGED sent,
         p.stage # "over" /\ wire'[c] \in {"up", "eof"} =>
           /\ p.predicted = Len(sent[c]) + Len(p.outbox)
           /\ \A i \in DOMAIN p.outbox : p.outbox[i].seq = Len(sent[c]) + i
  PROVE  Numbering'
<1>1. client'[c] = p /\ \A d \in Clients : d # c => client'[d] = client[d]
  BY DEF IInv, TypeOK
<1>2. sent' = sent
  OBVIOUS
<1>3. ASSUME NEW d \in Clients, client'[d].stage # "over", wire'[d] \in {"up", "eof"}
      PROVE  /\ client'[d].predicted = Len(sent'[d]) + Len(client'[d].outbox)
             /\ \A i \in DOMAIN client'[d].outbox :
                  client'[d].outbox[i].seq = Len(sent'[d]) + i
  <2>1. CASE d = c
    BY <1>1, <1>2, <1>3, <2>1
  <2>2. CASE d # c
    <3>1. client'[d] = client[d] /\ wire'[d] = wire[d]
      BY <1>1, <2>2
    <3> QED
      BY <1>2, <1>3, <3>1 DEF IInv, Numbering
  <2> QED
    BY <2>1, <2>2
<1> QED
  BY <1>2, <1>3 DEF IInv, Numbering

\* The client's end of its connection moves: a packet is taken or put, or the
\* connection closes.
LEMMA OwnLink ==
  ASSUME IInv, NEW c \in Clients, UNCHANGED serverVars,
         link' = link \/ link' = [link EXCEPT ![c] = "closed"],
         UNCHANGED backlog,
         \/ toClient' = toClient
         \/ toClient[c] # <<>> /\ toClient' = [toClient EXCEPT ![c] = Tail(@)]
         \/ toClient' = [toClient EXCEPT ![c] = <<>>]
  PROVE  Places' /\ Mail'
<1>1. UNCHANGED <<nextPlayerId, currentTick, pid, players, gamePlayers,
                  backlog, outgoing>>
  BY DEF serverVars, loopVars, netVars, playerVars, gameVars
<1>2. Messages' = Messages
  BY <1>1, SameIds
<1>3. Places'
  <2>1. /\ link' \in [Clients -> {"idle", "open", "closed"}]
        /\ \A d \in Clients : link'[d] = "idle" => link[d] = "idle"
    BY DEF IInv, Places
  <2> QED
    BY <1>1, <2>1 DEF IInv, Places
<1>4. Mail'
  <2>1. ASSUME NEW d \in Clients
        PROVE  /\ toClient'[d] \in Seq(Messages)
               /\ \A i \in DOMAIN toClient'[d] : Wanted(d, toClient'[d][i])
               /\ pid[d] = 0 => toClient'[d] = <<>>
    <3>1. /\ toClient[d] \in Seq(Messages)
          /\ \A i \in DOMAIN toClient[d] : Wanted(d, toClient[d][i])
          /\ pid[d] = 0 => toClient[d] = <<>>
      BY DEF IInv, Mail
    <3>2. toClient \in [Clients -> Seq(Messages)]
      BY DEF IInv, Mail
    <3> HIDE DEF Messages
    <3>3. CASE toClient'[d] = toClient[d]
      BY <3>1, <3>3
    <3>4. CASE toClient'[d] = <<>>
      BY <3>4
    <3>5. CASE toClient[d] # <<>> /\ toClient'[d] = Tail(toClient[d])
      <4>1. /\ toClient'[d] \in Seq(Messages)
            /\ \A i \in 1 .. Len(toClient'[d]) : toClient'[d][i] = toClient[d][i + 1]
            /\ Len(toClient'[d]) = Len(toClient[d]) - 1
        BY <3>1, <3>5, HeadTailProperties
      <4>2. /\ Len(toClient[d]) \in Nat /\ Len(toClient'[d]) \in Nat
            /\ DOMAIN toClient[d] = 1 .. Len(toClient[d])
            /\ DOMAIN toClient'[d] = 1 .. Len(toClient'[d])
        BY <3>1, <4>1
      <4>3. \A i \in DOMAIN toClient'[d] : i + 1 \in DOMAIN toClient[d]
        BY <4>1, <4>2
      <4> QED
        BY <3>1, <3>5, <4>1, <4>2, <4>3
    <3> QED
      BY <3>2, <3>3, <3>4, <3>5
  <2>2. toClient' = [d \in Clients |-> toClient'[d]]
    BY DEF IInv, Mail
  <2>3. toClient' \in [Clients -> Seq(Messages')]
    <3> HIDE DEF Messages
    <3> QED
      BY <1>2, <2>1, <2>2
  <2>4. outgoing' \in Seq(Messages')
    <3> HIDE DEF Messages
    <3> QED
      BY <1>1, <1>2 DEF IInv, Mail
  <2> QED
    BY <1>1, <2>1, <2>3, <2>4 DEF Mail, Wanted
<1> QED
  BY <1>3, <1>4

\* The record p goes with what else is known of client c.
Fits(c, p) ==
  /\ p.stage = "running" => assigned[c] # 0 /\ p.myId = pid[c]
  /\ p.step = "input" \/ p.outbox # <<>> => p.stage = "running"
  /\ pid[c] \notin p.remotes
  /\ p.stage # "over" /\ wire[c] \in {"up", "eof"} =>
       /\ p.predicted = Len(sent[c]) + Len(p.outbox)
       /\ \A i \in DOMAIN p.outbox : p.outbox[i].seq = Len(sent[c]) + i

WireOf(c) ==
  /\ wire' \in [Clients -> {"up", "eof", "error", "broken"}]
  /\ \A d \in Clients : d # c => wire'[d] = wire[d]
  /\ wire'[c] \in {"up", "eof"} => wire[c] \in {"up", "eof"}

\* A step in which the client touches no socket.
LEMMA OwnStep ==
  ASSUME IInv, NEW c \in Clients, NEW p, p \in Process, Fits(c, p),
         client' = [client EXCEPT ![c] = p], WireOf(c),
         UNCHANGED <<serverVars, linkVars, assigned, sent>>
  PROVE  IInv'
<1>1. TypeOK'
  <2>1. assigned' \in [Clients -> 0 .. nextPlayerId - 1]
    BY DEF IInv, TypeOK
  <2> HIDE DEF Process
  <2> QED
    BY <2>1, OwnTypes DEF WireOf
<1>2. Identity'
  <2>1. assigned' = assigned /\ assigned[c] \in {0, pid[c]}
    BY DEF IInv, Identity
  <2> QED
    BY <2>1, OwnIdentity DEF Fits
<1>3. Numbering'
  BY OwnNumbering DEF Fits, WireOf
<1>4. Places' /\ Mail'
  BY OwnLink DEF linkVars
<1> QED
  BY <1>1, <1>2, <1>3, <1>4 DEF IInv

\* The fields of a client that is running or not.
LEMMA FieldTypes ==
  ASSUME IInv, NEW c \in Clients
  PROVE  /\ client[c] \in Process
         /\ client[c] = [client[c] EXCEPT !.stage = @]
         /\ client[c].stage \in {"off", "joining", "running", "over"}
         /\ client[c].step \in {"recv", "parse", "send", "show", "input"}
         /\ client[c].attempts \in 0 .. MAX_ATTEMPTS - 1
         /\ client[c].connected \in BOOLEAN
         /\ client[c].myId \in 0 .. nextPlayerId - 1
         /\ client[c].predicted \in 0 .. MaxInputs
         /\ client[c].outbox \in Seq([seq : 1 .. MaxInputs, input : Inputs])
         /\ client[c].incoming \in Seq(WorldStates)
         /\ client[c].shown \in {NoTick} \cup 0 .. TICK_MOD - 1
         /\ client[c].remotes \in SUBSET (1 .. nextPlayerId - 1)
<1>1. client[c] \in Process
  BY DEF IInv, TypeOK
<1> HIDE DEF WorldStates
<1> QED
  BY <1>1 DEF Process

\* What IInv says of one client.
LEMMA OneClient ==
  ASSUME IInv, NEW c \in Clients
  PROVE  /\ client \in [Clients -> Process] /\ client[c] \in Process
         /\ wire \in [Clients -> {"up", "eof", "error", "broken"}]
         /\ assigned \in [Clients -> 0 .. nextPlayerId - 1]
         /\ assigned[c] \in {0, pid[c]}
         /\ Fits(c, client[c])
<1> HIDE DEF Process
<1> QED
  BY DEF IInv, TypeOK, Identity, Numbering, Fits

\* Fits looks at some fields only.
LEMMA StillFits ==
  ASSUME NEW c, NEW p, NEW q, Fits(c, p),
         p.stage = q.stage, p.myId = q.myId, p.outbox = q.outbox,
         p.remotes = q.remotes, p.predicted = q.predicted,
         q.step = "input" => q.stage = "running"
  PROVE  Fits(c, q)
  BY DEF Fits

\* Most steps of a client learn nothing of the server's end.
LEMMA SameWire ==
  ASSUME IInv, NEW c \in Clients, UNCHANGED wire
  PROVE  WireOf(c)
  BY DEF IInv, TypeOK, WireOf

LEMMA NewsStep ==
  ASSUME IInv, NEW c \in Clients, NewsArrives(c)
  PROVE  IInv'
<1>1. UNCHANGED <<serverVars, linkVars, client, assigned, sent>>
  BY DEF NewsArrives, EndOfFileArrives, ResetArrives
<1>2. WireOf(c)
  BY OneClient DEF NewsArrives, EndOfFileArrives, ResetArrives, WireOf
<1>3. client' = [client EXCEPT ![c] = client[c]]
  BY <1>1, OneClient
<1>4. client[c] \in Process
  BY FieldTypes
<1> HIDE DEF Process
<1> QED
  BY <1>1, <1>2, <1>3, <1>4, OneClient, OwnStep

LEMMA PollStep ==
  ASSUME IInv, NEW c \in Clients, PollAgain(c)
  PROVE  IInv'
<1> DEFINE p == [client[c] EXCEPT !.attempts = @ + 1,
                                  !.step = IF Receives(c) THEN "recv" ELSE "show"]
<1>1. /\ client' = [client EXCEPT ![c] = p]
      /\ UNCHANGED <<serverVars, linkVars, wire, assigned, sent>>
      /\ client[c].attempts + 1 # MAX_ATTEMPTS /\ client[c].stage = "joining"
  BY OneClient DEF PollAgain, LastAttempt
<1>2. p \in Process
  <2> HIDE DEF WorldStates
  <2>1. client[c].attempts + 1 \in 0 .. MAX_ATTEMPTS - 1
    <3>1. client[c].attempts \in 0 .. MAX_ATTEMPTS - 1
      BY FieldTypes
    <3>2. MAX_ATTEMPTS \in Nat \ {0}
      BY ClientAssumption
    <3> QED
      BY <1>1, <3>1, <3>2
  <2>2. (IF Receives(c) THEN "recv" ELSE "show")
          \in {"recv", "parse", "send", "show", "input"}
    OBVIOUS
  <2>3. client[c] \in Process
    BY FieldTypes
  <2> QED
    BY <2>1, <2>2, <2>3 DEF Process
<1>3. Fits(c, p)
  <2>1. /\ p.stage = client[c].stage /\ p.myId = client[c].myId
        /\ p.outbox = client[c].outbox /\ p.remotes = client[c].remotes
        /\ p.predicted = client[c].predicted /\ p.step # "input"
    BY FieldTypes DEF Process
  <2> HIDE DEF p
  <2> QED
    BY <2>1, OneClient, StillFits
<1>4. WireOf(c)
  BY <1>1, SameWire
<1> HIDE DEF p, Process
<1> QED
  BY <1>1, <1>2, <1>3, <1>4, OwnStep

\* A step in which the loop goes on and nothing else of the client matters.
LEMMA LoopGoesOn ==
  ASSUME IInv, NEW c \in Clients, NEW p, p \in Process, WireOf(c),
         client' = [client EXCEPT ![c] = p],
         UNCHANGED <<serverVars, linkVars, assigned, sent>>,
         p.stage = client[c].stage, p.myId = client[c].myId,
         p.outbox = client[c].outbox, p.remotes = client[c].remotes,
         p.predicted = client[c].predicted,
         p.step = "input" => p.stage = "running"
  PROVE  IInv'
<1>1. Fits(c, p)
  BY OneClient, StillFits
<1> HIDE DEF Process
<1> QED
  BY <1>1, OwnStep

LEMMA LoopStep ==
  ASSUME IInv, NEW c \in Clients,
         TickWithoutInput(c) \/ ReadLater(c) \/ ReadNothing(c) \/ ShowNothing(c)
  PROVE  IInv'
<1> HIDE DEF WorldStates
<1> DEFINE GoesOn(p) ==
      /\ p \in Process
      /\ p.stage = client[c].stage /\ p.myId = client[c].myId
      /\ p.outbox = client[c].outbox /\ p.remotes = client[c].remotes
      /\ p.predicted = client[c].predicted
      /\ p.step = "input" => p.stage = "running"
<1>1. \E p : client' = [client EXCEPT ![c] = p] /\ GoesOn(p)
  <2>1. CASE TickWithoutInput(c)
    <3> DEFINE p == [client[c] EXCEPT !.step = IF Receives(c) THEN "recv" ELSE "show"]
    <3>1. client' = [client EXCEPT ![c] = p]
      BY <2>1 DEF TickWithoutInput
    <3>2. GoesOn(p)
      <4>1. (IF Receives(c) THEN "recv" ELSE "show")
              \in {"recv", "parse", "send", "show", "input"}
        OBVIOUS
      <4>2. p \in Process
        BY ZenonT(40), <4>1, FieldTypes DEF Process
      <4>3. /\ p.stage = client[c].stage /\ p.myId = client[c].myId
            /\ p.outbox = client[c].outbox /\ p.remotes = client[c].remotes
            /\ p.predicted = client[c].predicted
            /\ p.step # "input"
        BY FieldTypes DEF Process
      <4> QED
        BY <4>2, <4>3
    <3> HIDE DEF p, GoesOn
    <3> QED
      BY <3>1, <3>2
  <2>2. CASE ReadLater(c)
    <3> DEFINE p == [client[c] EXCEPT !.step = "send"]
    <3>1. client' = [client EXCEPT ![c] = p]
      BY <2>2 DEF ReadLater
    <3>2. GoesOn(p)
      <4>1. p \in Process
        BY <3>1, FieldTypes DEF Process
      <4> QED
        BY <3>1, <4>1, FieldTypes DEF Process
    <3> HIDE DEF p, GoesOn
    <3> QED
      BY <3>1, <3>2
  <2>3. CASE ReadNothing(c)
    <3> DEFINE p == [client[c] EXCEPT !.step = "send", !.connected = RecvFails(c)]
    <3>1. client' = [client EXCEPT ![c] = p]
      BY <2>3 DEF ReadNothing
    <3>2. GoesOn(p)
      <4>1. RecvFails(c) \in BOOLEAN
        BY DEF RecvFails
      <4>2. p \in Process
        BY ZenonT(40), <4>1, FieldTypes DEF Process
      <4> QED
        BY <4>2, FieldTypes DEF Process
    <3> HIDE DEF p, GoesOn
    <3> QED
      BY <3>1, <3>2
  <2>4. CASE ShowNothing(c)
    <3> DEFINE p == [client[c] EXCEPT !.step = "input"]
    <3>1. client' = [client EXCEPT ![c] = p] /\ client[c].stage = "running"
      BY <2>4 DEF ShowNothing
    <3>2. GoesOn(p)
      <4>1. p \in Process
        BY <3>1, FieldTypes DEF Process
      <4> QED
        BY <3>1, <4>1, FieldTypes DEF Process
    <3> HIDE DEF p, GoesOn
    <3> QED
      BY <3>1, <3>2
  <2> QED
    BY <2>1, <2>2, <2>3, <2>4
<1>2. WireOf(c)
  <2>1. CASE ReadNothing(c)
    BY <2>1, OneClient DEF ReadNothing, WireOf
  <2>2. CASE ~ReadNothing(c)
    BY <2>2, SameWire DEF TickWithoutInput, ReadLater, ShowNothing
  <2> QED
    BY <2>1, <2>2
<1>3. UNCHANGED <<serverVars, linkVars, assigned, sent>>
  BY DEF TickWithoutInput, ReadLater, ReadNothing, ShowNothing
<1>4. PICK p : client' = [client EXCEPT ![c] = p] /\ GoesOn(p)
  BY <1>1
<1> HIDE DEF Process
<1> QED
  BY <1>2, <1>3, <1>4, LoopGoesOn

\* The wait of connect() ends with the id the welcome brought.
LEMMA FindIdStep ==
  ASSUME IInv, NEW c \in Clients, FindId(c)
  PROVE  IInv'
<1> DEFINE p == [client[c] EXCEPT !.stage = "running", !.step = "input",
                                  !.myId = assigned[c]]
<1>1. /\ client' = [client EXCEPT ![c] = p]
      /\ UNCHANGED <<serverVars, linkVars, wire, assigned, sent>>
      /\ assigned[c] # 0 /\ client[c].stage = "joining"
  BY OneClient DEF FindId, HasId
<1>2. assigned[c] \in 0 .. nextPlayerId - 1 /\ assigned[c] = pid[c]
  BY <1>1, OneClient
<1>3. p \in Process
  <2> HIDE DEF WorldStates
  <2> QED
    BY ZenonT(40), <1>2, FieldTypes DEF Process
<1>4. /\ p.stage = "running" /\ p.myId = assigned[c] /\ p.outbox = client[c].outbox
      /\ p.remotes = client[c].remotes /\ p.predicted = client[c].predicted
  BY FieldTypes DEF Process
<1>5. WireOf(c)
  BY <1>1, SameWire
<1> HIDE DEF p, Process
<1>6. Fits(c, p)
  <2>1. Fits(c, client[c])
    BY OneClient
  <2> QED
    BY <1>1, <1>2, <1>4, <2>1 DEF Fits
<1> QED
  BY <1>1, <1>3, <1>5, <1>6, OwnStep

\* An input is predicted: it gets the next number and waits last.
LEMMA InputStep ==
  ASSUME IInv, NEW c \in Clients, TickWithInput(c)
  PROVE  IInv'
<1>1. /\ client[c].step = "input" /\ client[c].predicted < MaxInputs
      /\ UNCHANGED <<serverVars, linkVars, wire, assigned, sent>>
  BY DEF TickWithInput, At
<1>2. PICK input \in Inputs :
        client' = [client EXCEPT
          ![c] = [client[c] EXCEPT
            !.predicted = @ + 1,
            !.outbox = Append(@, [seq |-> NextSequenceId(c), input |-> input]),
            !.step = IF Receives(c) THEN "recv" ELSE "show"]]
  BY Zenon DEF TickWithInput
<1> DEFINE packet == [seq |-> NextSequenceId(c), input |-> input]
           queue  == Append(client[c].outbox, packet)
           p == [client[c] EXCEPT
                  !.predicted = @ + 1, !.outbox = queue,
                  !.step = IF Receives(c) THEN "recv" ELSE "show"]
<1>3. /\ client[c].predicted \in 0 .. MaxInputs
      /\ client[c].predicted + 1 \in 1 .. MaxInputs
      /\ NextSequenceId(c) = client[c].predicted + 1
  <2>1. client[c].predicted \in 0 .. MaxInputs /\ MaxInputs \in Nat
    BY FieldTypes, ClientAssumption
  <2> QED
    BY <1>1, <2>1 DEF NextSequenceId
<1> DEFINE Packets == [seq : 1 .. MaxInputs, input : Inputs]
<1>4. client[c].outbox \in Seq(Packets) /\ packet \in Packets
  BY <1>3, FieldTypes
<1>5. /\ queue \in Seq(Packets) /\ queue # <<>>
      /\ Len(queue) = Len(client[c].outbox) + 1
      /\ Len(client[c].outbox) \in Nat
      /\ DOMAIN queue = 1 .. Len(client[c].outbox) + 1
      /\ \A i \in 1 .. Len(client[c].outbox) : queue[i] = client[c].outbox[i]
      /\ queue[Len(client[c].outbox) + 1] = packet
  <2> HIDE DEF Packets, packet
  <2> QED
    BY <1>4
<1>6. p \in Process
  <2> HIDE DEF WorldStates, queue
  <2>1. client[c].predicted + 1 \in 0 .. MaxInputs
    BY <1>3
  <2>2. queue \in Seq([seq : 1 .. MaxInputs, input : Inputs])
    BY <1>5
  <2>3. (IF Receives(c) THEN "recv" ELSE "show")
          \in {"recv", "parse", "send", "show", "input"}
    OBVIOUS
  <2>4. client[c] \in Process
    BY FieldTypes
  <2> QED
    BY <2>1, <2>2, <2>3, <2>4 DEF Process
<1>7. /\ p.stage = client[c].stage /\ p.myId = client[c].myId
      /\ p.outbox = queue /\ p.remotes = client[c].remotes
      /\ p.predicted = client[c].predicted + 1
      /\ p.step # "input"
  <2> HIDE DEF queue
  <2> QED
    BY FieldTypes DEF Process
<1>8. client' = [client EXCEPT ![c] = p]
  BY <1>2
<1>9. packet.seq = client[c].predicted + 1
  BY <1>3
<1>10. WireOf(c)
  BY <1>1, SameWire
<1> HIDE DEF p, queue, packet, Packets, Process
<1>11. client[c].stage = "running"
  BY <1>1, OneClient DEF Fits
<1>12. Fits(c, p)
  <2>1. /\ assigned[c] # 0 /\ p.myId = pid[c] /\ pid[c] \notin p.remotes
    BY <1>7, <1>11, OneClient DEF Fits
  <2>2. ASSUME wire[c] \in {"up", "eof"}
        PROVE  /\ p.predicted = Len(sent[c]) + Len(p.outbox)
               /\ \A i \in DOMAIN p.outbox : p.outbox[i].seq = Len(sent[c]) + i
    <3>1. /\ client[c].predicted = Len(sent[c]) + Len(client[c].outbox)
          /\ \A i \in DOMAIN client[c].outbox :
               client[c].outbox[i].seq = Len(sent[c]) + i
      BY <1>11, <2>2, OneClient DEF Fits
    <3>2. PICK n \in Nat : n = Len(client[c].outbox)
      BY <1>5
    <3>3. DOMAIN client[c].outbox = 1 .. n
      BY <1>4, <3>2
    <3>4. PICK k \in Nat : k = Len(sent[c])
      <4>1. PICK S : sent[c] \in Seq(S)
        BY DEF IInv, Numbering
      <4> QED
        BY <4>1
    <3>5. Len(p.outbox) = n + 1 /\ DOMAIN p.outbox = 1 .. n + 1
      BY <1>5, <1>7, <3>2
    <3>6. PICK m \in Nat : m = client[c].predicted
      BY <1>3
    <3>7. m = k + n
      BY <3>1, <3>2, <3>4, <3>6
    <3>8. p.predicted = Len(sent[c]) + Len(p.outbox)
      <4>1. m + 1 = k + (n + 1)
        BY <3>7
      <4>2. p.predicted = m + 1 /\ Len(p.outbox) = n + 1
        BY <1>7, <3>5, <3>6
      <4>3. k = Len(sent[c])
        BY <3>4
      <4> QED
        BY <4>1, <4>2, <4>3
    <3>9. ASSUME NEW i \in DOMAIN p.outbox
          PROVE  p.outbox[i].seq = Len(sent[c]) + i
      <4>1. CASE i \in 1 .. n
        <5>1. p.outbox[i] = client[c].outbox[i] /\ i \in DOMAIN client[c].outbox
          <6>1. i \in 1 .. Len(client[c].outbox)
            BY <3>2, <4>1
          <6>2. queue[i] = client[c].outbox[i]
            BY <1>5, <6>1
          <6> QED
            BY <1>7, <3>3, <4>1, <6>2
        <5>2. client[c].outbox[i].seq = Len(sent[c]) + i
          BY <3>1, <5>1
        <5> QED
          BY <5>1, <5>2
      <4>2. CASE i = n + 1
        <5>1. p.outbox[i].seq = client[c].predicted + 1
          BY <1>5, <1>7, <1>9, <3>2, <4>2
        <5>2. client[c].predicted + 1 = Len(sent[c]) + i
          <6>1. m + 1 = k + (n + 1)
            BY <3>7
          <6> QED
            BY <3>4, <3>6, <4>2, <6>1
        <5> QED
          BY <5>1, <5>2
      <4> QED
        BY <3>5, <4>1, <4>2
    <3> QED
      BY <3>8, <3>9
  <2> QED
    BY <1>7, <1>11, <2>1, <2>2 DEF Fits
<1> QED
  BY <1>1, <1>6, <1>8, <1>10, <1>12, OwnStep

\* The own player of a world state is kept out of the others.
LEMMA ShowStep ==
  ASSUME IInv, NEW c \in Clients, ShowWorldState(c)
  PROVE  IInv'
<1> DEFINE world == Head(client[c].incoming)
           rest  == Tail(client[c].incoming)
           p == [client[c] EXCEPT
                  !.step = "input", !.incoming = rest, !.shown = world.tick,
                  !.remotes = @ \cup (world.ids \ {client[c].myId})]
<1>1. /\ client' = [client EXCEPT ![c] = p]
      /\ UNCHANGED <<serverVars, linkVars, wire, assigned, sent>>
      /\ client[c].stage = "running" /\ client[c].incoming # <<>>
  BY DEF ShowWorldState, OldestHeld
<1>2. world \in WorldStates /\ rest \in Seq(WorldStates)
  <2> HIDE DEF WorldStates
  <2>1. client[c].incoming \in Seq(WorldStates)
    BY FieldTypes
  <2> QED
    BY <1>1, <2>1, HeadTailProperties
<1>3. world.tick \in 0 .. TICK_MOD - 1 /\ world.ids \in SUBSET (1 .. nextPlayerId - 1)
  <2> HIDE DEF world
  <2> QED
    BY <1>2 DEF WorldStates
<1> HIDE DEF world, rest
<1>4. client[c].remotes \cup (world.ids \ {client[c].myId})
        \in SUBSET (1 .. nextPlayerId - 1)
  BY <1>3, FieldTypes
<1>5. p \in Process
  <2> HIDE DEF WorldStates
  <2>1. world.tick \in {NoTick} \cup 0 .. TICK_MOD - 1
    BY <1>3
  <2>2. client[c] \in Process
    BY FieldTypes
  <2> QED
    BY <1>2, <1>4, <2>1, <2>2 DEF Process
<1>6. /\ p.stage = client[c].stage /\ p.myId = client[c].myId
      /\ p.outbox = client[c].outbox /\ p.predicted = client[c].predicted
      /\ p.remotes = client[c].remotes \cup (world.ids \ {client[c].myId})
  BY FieldTypes DEF Process
<1>7. WireOf(c)
  BY <1>1, SameWire
<1> HIDE DEF p, Process
<1>8. Fits(c, p)
  <2>1. Fits(c, client[c])
    BY OneClient
  <2>2. client[c].myId = pid[c]
    BY <1>1, <2>1 DEF Fits
  <2>3. pid[c] \notin p.remotes
    BY <1>6, <2>1, <2>2 DEF Fits
  <2> QED
    BY <1>1, <1>6, <2>1, <2>3 DEF Fits
<1> QED
  BY <1>1, <1>5, <1>7, <1>8, OwnStep

\* The client connects.
LEMMA StartStep ==
  ASSUME IInv, NEW c \in Clients, Start(c)
  PROVE  IInv'
<1> HIDE DEF WorldStates
<1> DEFINE p == [client[c] EXCEPT !.stage = "joining", !.connected = TRUE]
<1>1. /\ client' = [client EXCEPT ![c] = p]
      /\ UNCHANGED <<serverVars, wire, assigned, sent, toClient>>
      /\ link[c] = "idle" /\ link' = [link EXCEPT ![c] = "open"]
      /\ backlog' = Append(backlog, c) /\ client[c].stage = "off"
  BY DEF Start, OpenLink
<1>2. p \in Process
  BY FieldTypes DEF Process
<1>3. /\ p.stage = "joining" /\ p.step = client[c].step /\ p.outbox = client[c].outbox
      /\ p.remotes = client[c].remotes /\ p.predicted = client[c].predicted
  BY FieldTypes DEF Process
<1> HIDE DEF p, Process
<1>4. Fits(c, client[c]) /\ assigned[c] \in {0, pid[c]}
      /\ assigned \in [Clients -> 0 .. nextPlayerId - 1]
  BY OneClient
<1>5. WireOf(c)
  BY <1>1, SameWire
<1>6. TypeOK'
  BY <1>1, <1>2, <1>4, <1>5, OwnTypes DEF WireOf
<1>7. Identity'
  <2>1. p.step # "input" /\ p.outbox = <<>>
    BY <1>1, <1>3, <1>4 DEF Fits
  <2> QED
    BY <1>1, <1>3, <1>4, <2>1, OwnIdentity DEF Fits
<1>8. Numbering'
  BY <1>1, <1>3, <1>4, <1>5, OwnNumbering DEF Fits, WireOf
<1>9. UNCHANGED <<nextPlayerId, currentTick, pid, players, gamePlayers, outgoing>>
  BY <1>1 DEF serverVars, loopVars, netVars, playerVars, gameVars
<1>10. Places'
  <2>1. backlog \in Seq(Clients) /\ link \in [Clients -> {"idle", "open", "closed"}]
    BY DEF IInv, Places
  <2>2. /\ backlog' \in Seq(Clients)
        /\ DOMAIN backlog' = DOMAIN backlog \cup {Len(backlog) + 1}
        /\ \A i \in DOMAIN backlog : backlog'[i] = backlog[i]
        /\ backlog'[Len(backlog) + 1] = c
    <3>1. /\ Len(backlog) \in Nat /\ DOMAIN backlog = 1 .. Len(backlog)
          /\ DOMAIN backlog' = 1 .. Len(backlog) + 1
      BY <1>1, <2>1
    <3> QED
      BY <1>1, <2>1, <3>1
  <2>3. pid[c] = 0 /\ \A i \in DOMAIN backlog : backlog[i] # c
    BY <1>1 DEF IInv, Places
  <2>4. \A i \in DOMAIN backlog' : pid'[backlog'[i]] = 0
    BY <1>9, <2>2, <2>3 DEF IInv, Places
  <2>5. \A i, j \in DOMAIN backlog' : backlog'[i] = backlog'[j] => i = j
    BY <2>2, <2>3 DEF IInv, Places
  <2>6. /\ link' \in [Clients -> {"idle", "open", "closed"}]
        /\ \A d \in Clients : link'[d] = "idle" => d # c /\ link[d] = "idle"
    BY <1>1, <2>1
  <2>7. \A d \in Clients : link'[d] = "idle" =>
          pid'[d] = 0 /\ \A i \in DOMAIN backlog' : backlog'[i] # d
    BY <1>9, <2>2, <2>6 DEF IInv, Places
  <2> QED
    BY <1>9, <2>2, <2>4, <2>5, <2>6, <2>7 DEF IInv, Places
<1>11. Mail'
  BY <1>1, <1>9, MailStays DEF IInv
<1> QED
  BY <1>6, <1>7, <1>8, <1>10, <1>11 DEF IInv

\* The process is gone.
LEMMA EndStep ==
  ASSUME IInv, NEW c \in Clients, Ends(c),
         UNCHANGED <<serverVars, wire, assigned, sent>>
  PROVE  IInv'
<1> DEFINE p == [Fresh EXCEPT !.stage = "over"]
<1>1. client' = [client EXCEPT ![c] = p]
  BY DEF Ends
<1>2. /\ nextPlayerId \in Nat \ {0} /\ pid[c] \in Nat
      /\ WorldStates = WorldStates
  BY DEF IInv, Places
<1>3. p \in Process
  <2> HIDE DEF WorldStates
  <2>1. 0 \in 0 .. MAX_ATTEMPTS - 1 /\ 0 \in 0 .. MaxInputs
    BY ClientAssumption
  <2>2. <<>> \in Seq([seq : 1 .. MaxInputs, input : Inputs]) /\ <<>> \in Seq(WorldStates)
    OBVIOUS
  <2>3. 0 \in 0 .. nextPlayerId - 1
    BY <1>2
  <2> QED
    BY <2>1, <2>2, <2>3 DEF Fresh, Process
<1>4. p.stage = "over" /\ p.step # "input" /\ p.outbox = <<>> /\ p.remotes = {}
  BY DEF Fresh
<1> HIDE DEF p, Process
<1>5. TypeOK'
  BY <1>1, <1>3, OneClient, OwnTypes
<1>6. Identity'
  BY <1>1, <1>4, OneClient, OwnIdentity
<1>7. Numbering'
  BY <1>1, <1>4, OwnNumbering
<1>8. Places' /\ Mail'
  BY OwnLink DEF Ends, CloseLink
<1> QED
  BY <1>5, <1>6, <1>7, <1>8 DEF IInv

\* A packet was parsed: an id is the client's own.
LEMMA ReadStep ==
  ASSUME IInv, NEW c \in Clients, ReadPacket(c)
  PROVE  IInv'
<1> HIDE DEF WorldStates
<1> DEFINE m == Head(toClient[c])
<1>1. /\ client[c].stage \in {"joining", "running"}
      /\ link[c] = "open" /\ toClient[c] # <<>>
      /\ toClient' = [toClient EXCEPT ![c] = Tail(@)]
      /\ UNCHANGED <<serverVars, wire, sent, link, backlog>>
  BY DEF ReadPacket, At, TakeFromServer
<1>2. toClient[c] \in Seq(Messages) /\ 1 \in DOMAIN toClient[c] /\ m = toClient[c][1]
  <2>1. toClient[c] \in Seq(Messages)
    BY DEF IInv, Mail
  <2> HIDE DEF Messages
  <2> QED
    BY <1>1, <2>1
<1>3. m \in Messages /\ Wanted(c, m) /\ pid[c] # 0
  <2> HIDE DEF Messages
  <2>1. m \in Messages
    BY <1>2
  <2>2. Wanted(c, toClient[c][1])
    BY <1>2 DEF IInv, Mail
  <2> QED
    BY <1>1, <1>2, <2>1, <2>2 DEF IInv, Mail
<1>4. PICK p :
        /\ p \in Process /\ client' = [client EXCEPT ![c] = p]
        /\ p.stage = client[c].stage /\ p.myId = client[c].myId
        /\ p.outbox = client[c].outbox /\ p.remotes = client[c].remotes
        /\ p.predicted = client[c].predicted /\ p.step = "parse"
  <2>1. CASE m.kind = "welcome"
    <3> DEFINE p == [client[c] EXCEPT !.step = "parse"]
    <3>1. client' = [client EXCEPT ![c] = p]
      BY <2>1 DEF ReadPacket
    <3>2. p \in Process
      BY FieldTypes DEF Process
    <3>3. /\ p.stage = client[c].stage /\ p.myId = client[c].myId
          /\ p.outbox = client[c].outbox /\ p.remotes = client[c].remotes
          /\ p.predicted = client[c].predicted /\ p.step = "parse"
      BY FieldTypes DEF Process
    <3> HIDE DEF p, Process
    <3> QED
      BY <3>1, <3>2, <3>3
  <2>2. CASE m.kind # "welcome"
    <3> DEFINE held == Append(client[c].incoming, m)
               p == [client[c] EXCEPT !.step = "parse", !.incoming = held]
    <3>1. client' = [client EXCEPT ![c] = p]
      BY <2>2 DEF ReadPacket
    <3>2. held \in Seq(WorldStates)
      <4>1. m \in WorldStates
        BY <1>3, <2>2 DEF Messages
      <4>2. client[c].incoming \in Seq(WorldStates)
        BY FieldTypes
      <4> HIDE DEF m
      <4> QED
        BY <4>1, <4>2
    <3> HIDE DEF held
    <3>3. p \in Process
      BY ZenonT(40), <3>2, FieldTypes DEF Process
    <3>4. /\ p.stage = client[c].stage /\ p.myId = client[c].myId
          /\ p.outbox = client[c].outbox /\ p.remotes = client[c].remotes
          /\ p.predicted = client[c].predicted /\ p.step = "parse"
      BY FieldTypes DEF Process
    <3> HIDE DEF p, Process
    <3> QED
      BY <3>1, <3>3, <3>4
  <2> QED
    BY <2>1, <2>2
<1>5. /\ assigned' = assigned \/ assigned' = [assigned EXCEPT ![c] = pid[c]]
      /\ pid[c] \in 0 .. nextPlayerId - 1
  <2>1. CASE m.kind = "welcome"
    <3>1. m.id = pid[c] /\ assigned' = [assigned EXCEPT ![c] = m.id]
      BY <1>3, <2>1 DEF Wanted, ReadPacket
    <3> QED
      BY <3>1 DEF IInv, Places
  <2>2. CASE m.kind # "welcome"
    BY <2>2 DEF ReadPacket, IInv, Places
  <2> QED
    BY <2>1, <2>2
<1> HIDE DEF m, Process
<1>6. /\ assigned \in [Clients -> 0 .. nextPlayerId - 1]
      /\ assigned[c] \in {0, pid[c]} /\ Fits(c, client[c])
  BY OneClient
<1>7. /\ assigned' \in [Clients -> 0 .. nextPlayerId - 1]
      /\ \A d \in Clients : d # c => assigned'[d] = assigned[d]
      /\ assigned'[c] \in {assigned[c], pid[c]}
  BY <1>5, <1>6
<1>8. TypeOK'
  BY <1>1, <1>4, <1>7, OneClient, OwnTypes
<1>9. Identity'
  <2>1. p.stage = "running" => assigned'[c] # 0 /\ p.myId = pid[c]
    BY <1>3, <1>4, <1>6, <1>7 DEF Fits
  <2>2. p.step = "input" \/ p.outbox # <<>> => p.stage = "running"
    BY <1>4, <1>6 DEF Fits
  <2>3. assigned'[c] \in {0, pid[c]} /\ pid[c] \notin p.remotes
    BY <1>4, <1>6, <1>7 DEF Fits
  <2> QED
    BY <1>1, <1>4, <1>7, <2>1, <2>2, <2>3, OwnIdentity
<1>10. Numbering'
  BY <1>1, <1>4, <1>6, OwnNumbering DEF Fits
<1>11. Places' /\ Mail'
  BY <1>1, OwnLink
<1> QED
  BY <1>8, <1>9, <1>10, <1>11 DEF IInv

\* The length of a queue that is not empty.
LEMMA OneLess == \A k \in Nat \ {0} : k - 1 \in Nat /\ k = (k - 1) + 1
OBVIOUS

\* What is left when the oldest packet of a queue has gone.
LEMMA QueueTail ==
  ASSUME NEW S, NEW queue \in Seq(S), queue # <<>>
  PROVE  \E n \in Nat :
           /\ Len(queue) = n + 1 /\ DOMAIN queue = 1 .. n + 1
           /\ Head(queue) = queue[1] /\ Head(queue) \in S
           /\ Tail(queue) \in Seq(S)
           /\ Len(Tail(queue)) = n /\ DOMAIN Tail(queue) = 1 .. n
           /\ \A i \in 1 .. n : Tail(queue)[i] = queue[i + 1]
<1>1. /\ Len(queue) \in Nat \ {0} /\ DOMAIN queue = 1 .. Len(queue)
      /\ Head(queue) = queue[1] /\ Head(queue) \in S
  OBVIOUS
<1>2. /\ Tail(queue) \in Seq(S) /\ Len(Tail(queue)) = Len(queue) - 1
      /\ \A i \in 1 .. Len(queue) - 1 : Tail(queue)[i] = queue[i + 1]
  BY HeadTailProperties
<1>3. PICK n \in Nat : n = Len(queue) - 1
  BY <1>1, OneLess, Zenon
<1>4. Len(queue) = n + 1
  BY <1>1, <1>3, OneLess, Zenon
<1>5. Len(Tail(queue)) = n
  BY <1>2, <1>3
<1>6. DOMAIN Tail(queue) = 1 .. n
  BY <1>2, <1>5, LenProperties, Zenon
<1>7. \A i \in 1 .. n : Tail(queue)[i] = queue[i + 1]
  BY <1>2, <1>3
<1>8. DOMAIN queue = 1 .. n + 1
  BY <1>1, <1>4
<1> QED
  BY <1>1, <1>2, <1>4, <1>5, <1>6, <1>7, <1>8

\* The oldest packet goes to the socket, or is lost to the reset.
LEMMA OutboxStep ==
  ASSUME IInv, NEW c \in Clients, SendReady(c) \/ SendReset(c)
  PROVE  IInv'
<1> HIDE DEF WorldStates
<1> DEFINE rest == Tail(client[c].outbox)
           p == [client[c] EXCEPT !.outbox = rest, !.step = "send"]
<1>1. /\ client' = [client EXCEPT ![c] = p]
      /\ UNCHANGED <<serverVars, assigned, link, backlog, toClient>>
      /\ client[c].outbox # <<>>
  BY DEF SendReady, SendReset, PutToServer, linkVars
<1>2. PICK n \in Nat :
        /\ Len(client[c].outbox) = n + 1
        /\ DOMAIN client[c].outbox = 1 .. n + 1
        /\ rest \in Seq([seq : 1 .. MaxInputs, input : Inputs])
        /\ Len(rest) = n /\ DOMAIN rest = 1 .. n
        /\ \A i \in 1 .. n : rest[i] = client[c].outbox[i + 1]
  <2> DEFINE Packets == [seq : 1 .. MaxInputs, input : Inputs]
  <2>1. client[c].outbox \in Seq(Packets)
    BY FieldTypes
  <2> HIDE DEF Packets
  <2>2. \E n \in Nat :
          /\ Len(client[c].outbox) = n + 1
          /\ DOMAIN client[c].outbox = 1 .. n + 1
          /\ rest \in Seq(Packets) /\ Len(rest) = n /\ DOMAIN rest = 1 .. n
          /\ \A i \in 1 .. n : rest[i] = client[c].outbox[i + 1]
    BY <1>1, <2>1, QueueTail
  <2> HIDE DEF rest
  <2> QED
    BY <2>2 DEF Packets
<1> HIDE DEF rest
<1>3. p \in Process
  <2>1. client[c] \in Process
    BY FieldTypes
  <2> QED
    BY <1>2, <2>1 DEF Process
<1>4. /\ p.stage = client[c].stage /\ p.myId = client[c].myId
      /\ p.outbox = rest /\ p.remotes = client[c].remotes
      /\ p.predicted = client[c].predicted /\ p.step = "send"
  BY FieldTypes DEF Process
<1> HIDE DEF p, Process
<1>5. /\ assigned \in [Clients -> 0 .. nextPlayerId - 1]
      /\ assigned[c] \in {0, pid[c]} /\ Fits(c, client[c])
  BY OneClient
<1>6. /\ wire' \in [Clients -> {"up", "eof", "error", "broken"}]
      /\ \A d \in Clients : d # c => wire'[d] = wire[d]
      /\ SendReset(c) => wire'[c] = "broken"
      /\ SendReady(c) => wire' = wire /\ wire[c] \in {"up", "eof"}
  <2>1. CASE SendReady(c)
    <3>1. wire' = wire /\ wire[c] \in {"up", "eof"}
      BY <2>1 DEF SendReady
    <3>2. ~SendReset(c)
      BY <3>1 DEF SendReset
    <3> QED
      BY <3>1, <3>2, OneClient
  <2>2. CASE SendReset(c)
    <3>1. wire' = [wire EXCEPT ![c] = "broken"] /\ wire[c] = "error"
      BY <2>2 DEF SendReset
    <3>2. ~SendReady(c)
      BY <3>1 DEF SendReady
    <3> QED
      BY <3>1, <3>2, OneClient
  <2> QED
    BY <2>1, <2>2
<1>7. TypeOK'
  BY <1>1, <1>3, <1>5, <1>6, OwnTypes
<1>8. Identity'
  BY <1>1, <1>4, <1>5, OwnIdentity DEF Fits
<1>9. Numbering'
  <2>1. CASE SendReset(c)
    <3>1. UNCHANGED sent
      BY <2>1 DEF SendReset
    <3> QED
      BY <1>1, <1>6, <2>1, <3>1, OwnNumbering
  <2>2. CASE SendReady(c)
    <3>1. PICK e : sent' = [sent EXCEPT ![c] = Append(@, e)]
      BY <2>2 DEF SendReady
    <3>2. sent = [d \in Clients |-> sent[d]]
      BY DEF IInv, Numbering
    <3>3. /\ sent'[c] = Append(sent[c], e)
          /\ \A d \in Clients : d # c => sent'[d] = sent[d]
          /\ sent' = [d \in Clients |-> sent'[d]]
      BY <3>1, <3>2
    <3>4. PICK S : sent[c] \in Seq(S)
      BY DEF IInv, Numbering
    <3>5. PICK k \in Nat : k = Len(sent[c])
      BY <3>4
    <3>6. sent'[c] \in Seq(S \cup {e}) /\ Len(sent'[c]) = k + 1
      <4>1. sent[c] \in Seq(S \cup {e})
        BY <3>4
      <4> QED
        BY <3>3, <3>5, <4>1
    <3>7. ASSUME NEW d \in Clients
          PROVE  \E T : sent'[d] \in Seq(T)
      <4>1. CASE d = c
        BY <3>6, <4>1
      <4>2. CASE d # c
        BY <3>3, <4>2 DEF IInv, Numbering
      <4> QED
        BY <4>1, <4>2
    <3>8. client'[c] = p /\ \A d \in Clients : d # c => client'[d] = client[d]
      BY <1>1 DEF IInv, TypeOK
    <3>9. ASSUME NEW d \in Clients, client'[d].stage # "over", wire'[d] \in {"up", "eof"}
          PROVE  /\ client'[d].predicted = Len(sent'[d]) + Len(client'[d].outbox)
                 /\ \A i \in DOMAIN client'[d].outbox :
                      client'[d].outbox[i].seq = Len(sent'[d]) + i
      <4>1. CASE d # c
        <5>1. /\ client'[d] = client[d] /\ sent'[d] = sent[d] /\ wire'[d] = wire[d]
          BY <1>6, <3>3, <3>8, <4>1
        <5> QED
          BY <3>9, <5>1 DEF IInv, Numbering
      <4>2. CASE d = c
        <5>1. client[c].stage # "over" /\ wire[c] \in {"up", "eof"}
          BY <1>4, <1>6, <2>2, <3>8, <3>9, <4>2
        <5>2. /\ client[c].predicted = Len(sent[c]) + Len(client[c].outbox)
              /\ \A i \in DOMAIN client[c].outbox :
                   client[c].outbox[i].seq = Len(sent[c]) + i
          BY <1>5, <5>1 DEF Fits
        <5>3. p.predicted = (k + 1) + n
          <6>1. p.predicted = k + (n + 1)
            BY <1>2, <1>4, <3>5, <5>2
          <6> QED
            BY <6>1
        <5>4. ASSUME NEW i \in 1 .. n
              PROVE  rest[i].seq = (k + 1) + i
          <6>1. i \in Nat /\ i + 1 \in 1 .. n + 1
            OBVIOUS
          <6>2. client[c].outbox[i + 1].seq = k + (i + 1)
            BY <1>2, <3>5, <5>2, <6>1
          <6>3. k + (i + 1) = (k + 1) + i
            BY <6>1
          <6> QED
            BY <1>2, <6>2, <6>3
        <5> QED
          BY <1>2, <1>4, <3>6, <3>8, <4>2, <5>3, <5>4
      <4> QED
        BY <4>1, <4>2
    <3> QED
      BY <3>3, <3>7, <3>9 DEF Numbering
  <2> QED
    BY <2>1, <2>2
<1>10. Places' /\ Mail'
  BY <1>1, OwnLink
<1> QED
  BY <1>7, <1>8, <1>9, <1>10 DEF IInv

-----------------------------------------------------------------------------
(* The invariant, and what follows from it.                                *)

\* Every step keeps the invariant.
LEMMA NextKeepsIInv ==
  ASSUME IInv, [Next]_vars
  PROVE  IInv'
<1>1. CASE Server
  BY <1>1, ServerKeepsIInv
<1>2. ASSUME NEW c \in Clients, Start(c) \/ Exit(c) \/ ClientLoop(c) \/ NewsArrives(c)
      PROVE  IInv'
  <2>1. CASE Start(c)
    BY <2>1, StartStep
  <2>2. CASE Exit(c) \/ GiveUp(c) \/ ClientKilledBySigpipe(c)
    BY <2>2, EndStep DEF Exit, GiveUp, ClientKilledBySigpipe
  <2>3. CASE ReadPacket(c)
    BY <2>3, ReadStep
  <2>4. CASE SendReady(c) \/ SendReset(c)
    BY <2>4, OutboxStep
  <2>5. CASE FindId(c) \/ PollAgain(c)
    BY <2>5, FindIdStep, PollStep
  <2>6. CASE TickWithoutInput(c) \/ ReadLater(c) \/ ReadNothing(c) \/ ShowNothing(c)
    BY <2>6, LoopStep
  <2>7. CASE TickWithInput(c) \/ ShowWorldState(c)
    BY <2>7, InputStep, ShowStep
  <2>8. CASE NewsArrives(c)
    BY <2>8, NewsStep
  <2> QED
    BY <1>2, <2>1, <2>2, <2>3, <2>4, <2>5, <2>6, <2>7, <2>8 DEF ClientLoop
<1>3. CASE UNCHANGED vars
  <2>1. UNCHANGED <<processes, places, outgoing, toClient>>
    BY <1>3 DEF vars, processes, places, clientVars, procVars, serverVars,
       loopVars, netVars, playerVars, gameVars, linkVars
  <2> QED
    BY <2>1, QuietStep
<1> QED
  BY <1>1, <1>2, <1>3 DEF Next

\* The invariant holds of every behaviour: ids, mail and numbering of every
\* client fit together, whatever the interleaving with the server's loop.
THEOREM ClientInvariant == Spec => []IInv
BY InitIInv, NextKeepsIInv, PTL DEF Spec

\* The client keeps its types: it never polls past the last attempt, holds no
\* id the server has not given out, and numbers no input past its bound.
THEOREM ClientTypes == Spec => []TypeOK
<1>1. IInv => TypeOK
  BY DEF IInv
<1> QED
  BY <1>1, ClientInvariant, PTL

\* Whatever broadcasts it has read, and whenever its welcome came, a client
\* hands no snapshot of its own player to the interpolation engine.
THEOREM OwnPlayer == Spec => []OwnPlayerIsLocal
<1>1. IInv => OwnPlayerIsLocal
  BY DEF IInv, Identity, OwnPlayerIsLocal
<1> QED
  BY <1>1, ClientInvariant, PTL

-----------------------------------------------------------------------------
(* A connection that is lost.                                              *)

\* A step of client c.
StepOf(c) == Start(c) \/ Exit(c) \/ ClientLoop(c) \/ NewsArrives(c)

\* Who has noticed that the connection is lost is past reading.
Noticed ==
  /\ seen = [c \in Clients |-> seen[c]]
  /\ \A c \in Clients :
       client[c].stage \in {"joining", "running"} /\ ~client[c].connected
         => client[c].step \in {"send", "show", "input"}

\* The clients do not touch each other.
LEMMA OthersStay ==
  ASSUME IInv, Noticed, NEW c \in Clients, StepOf(c)
  PROVE  /\ \A d \in Clients : d # c =>
              /\ client'[d] = client[d] /\ assigned'[d] = assigned[d]
              /\ seen'[d] = seen[d] /\ sent'[d] = sent[d]
         /\ seen' = [d \in Clients |-> seen'[d]]
<1>1. /\ client \in [Clients -> Process]
      /\ assigned \in [Clients -> 0 .. nextPlayerId - 1]
      /\ sent = [d \in Clients |-> sent[d]] /\ seen = [d \in Clients |-> seen[d]]
  BY OneClient DEF IInv, Numbering, Noticed
<1> HIDE DEF Process
<1>2. CASE ReadPacket(c)
  <2>1. UNCHANGED sent /\ DOMAIN client = Clients
    BY <1>1, <1>2 DEF ReadPacket
  <2>2. \/ assigned' = [assigned EXCEPT ![c] = Head(toClient[c]).id] /\ UNCHANGED seen
        \/ seen' = [seen EXCEPT ![c] = Head(toClient[c]).tick] /\ UNCHANGED assigned
    BY <1>2 DEF ReadPacket
  <2>3. \E p : client' = [client EXCEPT ![c] = p]
    BY <1>2, Zenon DEF ReadPacket
  <2> QED
    BY <1>1, <2>1, <2>2, <2>3
<1>3. CASE ~ReadPacket(c)
  <2>1. UNCHANGED <<assigned, seen>>
    BY <1>3, Zenon DEF StepOf, Start, Exit, ClientLoop, NewsArrives, FindId,
       PollAgain, GiveUp, ReadLater, ReadNothing, SendReady, SendReset,
       ClientKilledBySigpipe, TickWithInput, TickWithoutInput,
       ShowWorldState, ShowNothing, EndOfFileArrives, ResetArrives
  <2>2. UNCHANGED sent \/ \E s : sent' = [sent EXCEPT ![c] = s]
    BY <1>3, Zenon DEF StepOf, Start, Exit, ClientLoop, NewsArrives, FindId,
       PollAgain, GiveUp, ReadLater, ReadNothing, SendReady, SendReset,
       ClientKilledBySigpipe, TickWithInput, TickWithoutInput,
       ShowWorldState, ShowNothing, EndOfFileArrives, ResetArrives
  <2>3. UNCHANGED client \/ \E p : client' = [client EXCEPT ![c] = p]
    BY <1>3, Zenon DEF StepOf, Start, Exit, Ends, ClientLoop, NewsArrives,
       FindId, PollAgain, GiveUp, ReadLater, ReadNothing, SendReady,
       SendReset, ClientKilledBySigpipe, TickWithInput, TickWithoutInput,
       ShowWorldState, ShowNothing, EndOfFileArrives, ResetArrives
  <2> QED
    BY <1>1, <2>1, <2>2, <2>3
<1> QED
  BY <1>2, <1>3

\* What a step of client c may do when the connection is lost.
StaysLost(c) ==
  client[c].stage \in {"joining", "running"} /\ ~client[c].connected
    => \/ client'[c].stage = "over"
       \/ /\ ~client'[c].connected
          /\ UNCHANGED <<assigned[c], seen[c]>>
          /\ client[c].step # "send" => client'[c].step # "send" /\ UNCHANGED sent[c]

\* After a step of client c: it may have noticed the loss in this very step.
LEMMA LossIsNoticed ==
  ASSUME IInv, Noticed, NEW c \in Clients, StepOf(c)
  PROVE  /\ StaysLost(c)
         /\ client'[c].stage \in {"joining", "running"} /\ ~client'[c].connected
              => client'[c].step \in {"send", "show", "input"}
<1>1. /\ client \in [Clients -> Process] /\ client[c] \in Process
      /\ client[c].connected \in BOOLEAN
      /\ client[c].stage \in {"off", "joining", "running", "over"}
      /\ client[c].step \in {"recv", "parse", "send", "show", "input"}
  BY OneClient, FieldTypes
<1>2. client[c].stage \in {"joining", "running"} /\ ~client[c].connected
        => client[c].step \in {"send", "show", "input"}
  BY DEF Noticed
<1> HIDE DEF WorldStates
<1>3. CASE Start(c)
  BY <1>1, <1>3 DEF Start, Process, StaysLost
<1>4. CASE Exit(c) \/ GiveUp(c) \/ ClientKilledBySigpipe(c)
  <2>1. client' = [client EXCEPT ![c] = [Fresh EXCEPT !.stage = "over"]]
    BY <1>4 DEF Exit, GiveUp, ClientKilledBySigpipe, Ends
  <2> QED
    BY <1>1, <2>1 DEF Fresh, StaysLost
<1>5. CASE FindId(c) \/ PollAgain(c) \/ TickWithInput(c) \/ TickWithoutInput(c)
           \/ ShowWorldState(c) \/ ShowNothing(c)
  <2>1. UNCHANGED <<assigned, seen, sent>>
    BY <1>5, Zenon DEF FindId, PollAgain, TickWithInput, TickWithoutInput,
       ShowWorldState, ShowNothing
  <2>2. CASE FindId(c) \/ ShowWorldState(c) \/ ShowNothing(c)
    <3>1. client'[c].step = "input" /\ client'[c].connected = client[c].connected
      BY <1>1, <2>2 DEF FindId, ShowWorldState, ShowNothing, Process
    <3> QED
      BY <1>1, <2>1, <3>1 DEF StaysLost
  <2>3. CASE PollAgain(c) \/ TickWithInput(c) \/ TickWithoutInput(c)
    <3>1. /\ client'[c].step = IF Receives(c) THEN "recv" ELSE "show"
          /\ client'[c].connected = client[c].connected
      <4> DEFINE s == IF Receives(c) THEN "recv" ELSE "show"
      <4>1. CASE PollAgain(c)
        <5>1. \E n : client' = [client EXCEPT ![c].attempts = n, ![c].step = s]
          BY <4>1, Zenon DEF PollAgain
        <5> HIDE DEF s
        <5>2. client'[c].step = s /\ client'[c].connected = client[c].connected
          BY <1>1, <5>1 DEF Process
        <5> QED
          BY <5>2 DEF s
      <4>2. CASE TickWithInput(c)
        <5>1. \E n, q : client' = [client EXCEPT ![c].predicted = n, ![c].outbox = q,
                                                 ![c].step = s]
          BY <4>2, Zenon DEF TickWithInput
        <5> HIDE DEF s
        <5>2. client'[c].step = s /\ client'[c].connected = client[c].connected
          BY <1>1, <5>1 DEF Process
        <5> QED
          BY <5>2 DEF s
      <4>3. CASE TickWithoutInput(c)
        <5>1. client' = [client EXCEPT ![c].step = s]
          BY <4>3 DEF TickWithoutInput
        <5> HIDE DEF s
        <5>2. client'[c].step = s /\ client'[c].connected = client[c].connected
          BY <1>1, <5>1 DEF Process
        <5> QED
          BY <5>2 DEF s
      <4> QED
        BY <2>3, <4>1, <4>2, <4>3
    <3> QED
      BY <1>1, <2>1, <3>1 DEF Receives, StaysLost
  <2> QED
    BY <1>5, <2>2, <2>3
<1>6. CASE ReadPacket(c) \/ ReadLater(c) \/ ReadNothing(c)
  <2>1. client[c].stage \in {"joining", "running"} /\ client[c].step \in {"recv", "parse"}
    BY <1>6 DEF ReadPacket, ReadLater, ReadNothing, At
  <2>2. client[c].connected
    BY <1>2, <2>1
  <2>3. CASE ReadPacket(c) \/ ReadLater(c)
    <3>1. client'[c].connected = client[c].connected
      BY <1>1, <2>3 DEF ReadPacket, ReadLater, Process
    <3> QED
      BY <2>2, <3>1 DEF StaysLost
  <2>4. CASE ReadNothing(c)
    BY <1>1, <2>2, <2>4 DEF ReadNothing, Process, StaysLost
  <2> QED
    BY <1>6, <2>3, <2>4
<1>7. CASE SendReady(c) \/ SendReset(c)
  <2>1. /\ client[c].stage \in {"joining", "running"} /\ client[c].step \in {"parse", "send"}
        /\ UNCHANGED <<assigned, seen>>
    BY <1>7 DEF SendReady, SendReset, Sending, At
  <2>2. client'[c].step = "send" /\ client'[c].connected = client[c].connected
    BY <1>1, <1>7 DEF SendReady, SendReset, Process
  <2> QED
    BY <1>2, <2>1, <2>2 DEF StaysLost
<1>8. CASE NewsArrives(c)
  BY <1>2, <1>8 DEF NewsArrives, EndOfFileArrives, ResetArrives, StaysLost
<1> QED
  BY <1>3, <1>4, <1>5, <1>6, <1>7, <1>8 DEF StepOf, ClientLoop

\* In every step each client that has lost its connection keeps to that.
LEMMA NextStaysLost ==
  ASSUME IInv, Noticed, [Next]_vars
  PROVE  Noticed' /\ \A c \in Clients : StaysLost(c)
<1>1. CASE UNCHANGED <<client, assigned, seen, sent>>
  BY <1>1 DEF Noticed, StaysLost
<1>2. ASSUME NEW c \in Clients, StepOf(c)
      PROVE  Noticed' /\ \A d \in Clients : StaysLost(d)
  <2>1. /\ \A d \in Clients : d # c =>
             /\ client'[d] = client[d] /\ assigned'[d] = assigned[d]
             /\ seen'[d] = seen[d] /\ sent'[d] = sent[d]
        /\ seen' = [d \in Clients |-> seen'[d]]
    BY <1>2, OthersStay
  <2>2. /\ StaysLost(c)
        /\ client'[c].stage \in {"joining", "running"} /\ ~client'[c].connected
              => client'[c].step \in {"send", "show", "input"}
    BY <1>2, LossIsNoticed
  <2>3. \A d \in Clients : d # c => StaysLost(d)
    BY <2>1 DEF StaysLost
  <2>4. Noticed'
    BY <2>1, <2>2 DEF Noticed
  <2> QED
    BY <2>2, <2>3, <2>4
<1>3. Server => UNCHANGED <<client, assigned, seen, sent>>
  BY DEF Server, clientVars, procVars
<1>4. UNCHANGED vars => UNCHANGED <<client, assigned, seen, sent>>
  BY DEF vars, clientVars, procVars
<1> QED
  BY <1>1, <1>2, <1>3, <1>4 DEF Next, StepOf

\* After the update that noticed the loss a client neither reads nor sends: it
\* goes on predicting, and what it queues is never written.
THEOREM LossIsFinal == Spec => LostIsFinal
<1>1. Init => Noticed
  BY DEF Init, Noticed, Fresh
<1>2. IInv /\ Noticed /\ [Next]_vars => Noticed'
  BY NextStaysLost
<1>3. IInv /\ Noticed /\ [Next]_vars =>
        [\A c \in Clients :
           client[c].stage \in {"joining", "running"} /\ ~client[c].connected
             => \/ client'[c].stage = "over"
                \/ /\ ~client'[c].connected
                   /\ UNCHANGED <<assigned[c], seen[c]>>
                   /\ client[c].step # "send" =>
                        client'[c].step # "send" /\ UNCHANGED sent[c]]_vars
  BY NextStaysLost DEF StaysLost
<1> QED
  BY <1>1, <1>2, <1>3, ClientInvariant, PTL DEF Spec, LostIsFinal

-----------------------------------------------------------------------------
(* Every step of the client is one of ServerSession, or none of it.        *)

\* The session's part of the state.
sessionVars == <<serverVars, linkVars, assigned, seen, sent>>

\* ServerSession sees the same variables under its own names.
LEMMA SessionVars == UNCHANGED sessionVars => UNCHANGED Session!vars
BY DEF sessionVars, Session!vars, Session!serverVars, Session!linkVars,
   Session!clientVars, serverVars, linkVars, Session!loopVars,
   Session!netVars, Session!playerVars, Session!gameVars, loopVars, netVars,
   playerVars, gameVars

\* Both start in the same state.
LEMMA SameInit == Init => Session!Init
BY DEF Init, InitServer, InitLinks, Session!Init, Session!InitServer,
   Session!InitLinks, NoTick, Session!NoTick, SpawnCoins, Session!SpawnCoins,
   Origin, Session!Origin

\* The server's actions are those of ServerSession, definition by definition.
LEMMA SameLoop ==
  /\ (Frame => Session!Frame) /\ (Stop => Session!Stop)
  /\ (Signal => Session!Signal) /\ (GetPlayers => Session!GetPlayers)
  /\ (ReceiveNothing => Session!ReceiveNothing)
  /\ (ReceiveDone => Session!ReceiveDone)
BY DEF Frame, Session!Frame, Stop, Session!Stop, Signal, Session!Signal,
   GetPlayers, Session!GetPlayers, ReceiveNothing,
   Session!ReceiveNothing, ReceiveDone, Session!ReceiveDone,
   loopVars, Session!loopVars, netVars, Session!netVars, playerVars,
   Session!playerVars, gameVars, Session!gameVars, linkVars,
   Session!linkVars

LEMMA SameReceive ==
  /\ (AcceptNewClients => Session!AcceptNewClients)
  /\ (ReceivePackets => Session!ReceivePackets)
  /\ (EraseDisconnected => Session!EraseDisconnected)
BY Zenon DEF AcceptNewClients, Session!AcceptNewClients, ReceivePackets,
   Session!ReceivePackets, EraseDisconnected,
   Session!EraseDisconnected, CanAccept, Session!CanAccept, Welcome,
   Session!Welcome, Unread, Session!Unread, ProcessPackets,
   Session!ProcessPackets, loopVars, Session!loopVars, netVars,
   Session!netVars, playerVars, Session!playerVars, gameVars,
   Session!gameVars, linkVars, Session!linkVars

LEMMA SameSend ==
  /\ (SendToClients => Session!SendToClients)
  /\ (KilledBySigpipe => Session!KilledBySigpipe)
BY Zenon DEF SendToClients, Session!SendToClients, KilledBySigpipe,
   Session!KilledBySigpipe, Members, Session!Members, AddressedTo,
   Session!AddressedTo, Wanted, Session!Wanted, loopVars,
   Session!loopVars, netVars, Session!netVars, playerVars,
   Session!playerVars, gameVars, Session!gameVars, linkVars,
   Session!linkVars

LEMMA SameInputs == ProcessInputs => Session!ProcessInputs
BY Zenon DEF ProcessInputs, Session!ProcessInputs, Members, Session!Members,
   Poppable, Session!Poppable, Moved, Session!Moved, ApplyInput,
   Session!ApplyInput, ClampPosition, Session!ClampPosition,
   ClampAxis, Session!ClampAxis, Displacement, Session!Displacement,
   Direction, Session!Direction, loopVars, Session!loopVars, netVars,
   Session!netVars, playerVars, Session!playerVars, gameVars,
   Session!gameVars, linkVars, Session!linkVars

LEMMA SameCollisions == CheckCollisions => Session!CheckCollisions
BY Zenon DEF CheckCollisions, Session!CheckCollisions, loopVars,
   Session!loopVars, netVars, Session!netVars, playerVars,
   Session!playerVars, gameVars, Session!gameVars, linkVars,
   Session!linkVars, Points, Session!Points, Cardinality,
   Session!Cardinality, CheckCollision, DistanceSquared,
   Session!CheckCollision, Session!DistanceSquared

LEMMA SameEndOfTick == BroadcastAndEndTick => Session!BroadcastAndEndTick
BY DEF BroadcastAndEndTick, Session!BroadcastAndEndTick,
   BroadcastWorldState, Session!BroadcastWorldState, BroadcastDue,
   Session!BroadcastDue, NextTick, Session!NextTick, WorldState,
   Session!WorldState, Members, Session!Members, loopVars,
   Session!loopVars, netVars, Session!netVars, playerVars,
   Session!playerVars, gameVars, Session!gameVars, linkVars,
   Session!linkVars

\* The server of one is the server of the other.
LEMMA SameServer == Server => Session!Server
<1> SUFFICES ASSUME Server PROVE Session!Server
  OBVIOUS
<1>1. ServerStep \/ KilledBySigpipe \/ Signal
      => Session!ServerStep \/ Session!KilledBySigpipe \/ Session!Signal
  BY SameLoop, SameReceive, SameSend, SameInputs, SameCollisions, SameEndOfTick
     DEF ServerStep, ReceiveFromClients, Session!ServerStep,
         Session!ReceiveFromClients
<1> QED
  BY <1>1 DEF Server, clientVars, Session!Server, Session!clientVars

\* Connecting, reading and leaving are the steps of ServerSession's client.
LEMMA SameConnection ==
  ASSUME NEW c \in Clients
  PROVE  /\ (Start(c) => Session!Connect(c))
         /\ (ReadPacket(c) => Session!ReadPacket(c))
         /\ (Exit(c) \/ GiveUp(c) \/ ClientKilledBySigpipe(c) => Session!Quit(c))
<1>1. Start(c) => Session!Connect(c)
  BY Zenon DEF Start, OpenLink, Down, Session!Connect, Session!OpenLink,
     Session!Down, serverVars, loopVars, netVars, playerVars, gameVars,
     Session!serverVars, Session!loopVars, Session!netVars,
     Session!playerVars, Session!gameVars, Session!clientVars
<1>2. ReadPacket(c) => Session!ReadPacket(c)
  <2> SUFFICES ASSUME ReadPacket(c) PROVE Session!ReadPacket(c)
    OBVIOUS
  <2> DEFINE m == Head(toClient[c])
  <2>1. TakeFromServer(c) /\ UNCHANGED <<serverVars, sent>>
    BY DEF ReadPacket
  <2>2. IF m.kind = "welcome"
          THEN assigned' = [assigned EXCEPT ![c] = m.id] /\ UNCHANGED seen
          ELSE seen' = [seen EXCEPT ![c] = m.tick] /\ UNCHANGED assigned
    BY Zenon DEF ReadPacket
  <2> QED
    BY <2>1, <2>2 DEF TakeFromServer, Session!ReadPacket,
       Session!TakeFromServer, serverVars, loopVars, netVars, playerVars,
       gameVars, Session!serverVars, Session!loopVars, Session!netVars,
       Session!playerVars, Session!gameVars
<1>3. Exit(c) \/ GiveUp(c) \/ ClientKilledBySigpipe(c) => Session!Quit(c)
  BY DEF Exit, GiveUp, ClientKilledBySigpipe, Ends, CloseLink, Session!Quit,
     Session!CloseLink, serverVars, loopVars, netVars, playerVars, gameVars,
     Session!serverVars, Session!loopVars, Session!netVars,
     Session!playerVars, Session!gameVars, Session!clientVars
<1> QED
  BY <1>1, <1>2, <1>3

\* What is sent is the next input of a client that has its id.
LEMMA SameInput ==
  ASSUME IInv, NEW c \in Clients, SendReady(c)
  PROVE  Session!SendInput(c)
<1> DEFINE packet == Head(client[c].outbox)
<1>1. /\ client[c].outbox # <<>> /\ client[c].stage \in {"joining", "running"}
      /\ wire[c] \in {"up", "eof"} /\ PutToServer(c, packet)
      /\ sent' = [sent EXCEPT ![c] = Append(@,
           [input |-> packet.input, leadsTo |-> LeadsTo(c, packet.input)])]
      /\ UNCHANGED <<serverVars, assigned, seen>>
  BY DEF SendReady, Sending, At
<1>2. PICK n \in Nat :
        /\ Len(client[c].outbox) = n + 1 /\ DOMAIN client[c].outbox = 1 .. n + 1
        /\ packet = client[c].outbox[1]
        /\ packet \in [seq : 1 .. MaxInputs, input : Inputs]
  <2> DEFINE Packets == [seq : 1 .. MaxInputs, input : Inputs]
  <2>1. client[c].outbox \in Seq(Packets)
    BY FieldTypes
  <2> HIDE DEF Packets
  <2>2. \E n \in Nat :
          /\ Len(client[c].outbox) = n + 1 /\ DOMAIN client[c].outbox = 1 .. n + 1
          /\ packet = client[c].outbox[1] /\ packet \in Packets
    BY <1>1, <2>1, QueueTail
  <2> HIDE DEF packet
  <2> QED
    BY <2>2 DEF Packets
<1>3. Fits(c, client[c])
  BY OneClient
<1>4. assigned[c] # 0
  BY <1>1, <1>3 DEF Fits
<1>5. PICK k \in Nat : k = Len(sent[c])
  <2>1. PICK S : sent[c] \in Seq(S)
    BY DEF IInv, Numbering
  <2> QED
    BY <2>1
<1>6. k < MaxInputs /\ packet.seq = k + 1
  <2>1. /\ client[c].predicted = k + (n + 1)
        /\ \A i \in 1 .. n + 1 : client[c].outbox[i].seq = k + i
    BY <1>1, <1>2, <1>3, <1>5 DEF Fits
  <2>2. client[c].predicted \in 0 .. MaxInputs /\ MaxInputs \in Nat
    BY FieldTypes, ClientAssumption
  <2>3. k < MaxInputs
    BY <2>1, <2>2
  <2>4. 1 \in 1 .. n + 1
    OBVIOUS
  <2> QED
    BY <1>2, <2>1, <2>3, <2>4
<1>7. packet.input \in Inputs /\ packet = [seq |-> k + 1, input |-> packet.input]
  BY <1>2, <1>6
<1> HIDE DEF packet
<1> DEFINE input == packet.input
           start == IF Len(sent[c]) = 0 THEN pstate[c].position
                                        ELSE sent[c][Len(sent[c])].leadsTo
<1>8. LeadsTo(c, input) = Session!ApplyInput(start, input)
  BY Zenon DEF LeadsTo, ApplyInput, Session!ApplyInput, ClampPosition,
     ClampAxis, Displacement, Direction, Session!ClampPosition,
     Session!ClampAxis, Session!Displacement, Session!Direction
<1>9. Session!PutToServer(c, [seq |-> Len(sent[c]) + 1, input |-> input])
  BY <1>1, <1>5, <1>7 DEF PutToServer, Session!PutToServer
<1>10. sent' = [sent EXCEPT ![c] = Append(@,
          [input |-> input, leadsTo |-> Session!ApplyInput(start, input)])]
  BY <1>1, <1>8, Zenon
<1>11. UNCHANGED <<Session!serverVars, assigned, seen>>
  BY <1>1 DEF serverVars, loopVars, netVars, playerVars, gameVars,
     Session!serverVars, Session!loopVars, Session!netVars,
     Session!playerVars, Session!gameVars
<1>12. Len(sent[c]) < MaxInputs
  BY <1>5, <1>6
<1> QED
  BY <1>4, <1>7, <1>9, <1>10, <1>11, <1>12, Zenon DEF Session!SendInput

\* A step of the client is one of ServerSession's client or invisible to it.
LEMMA NextIsSession ==
  ASSUME IInv, [Next]_vars
  PROVE  [Session!Next]_(Session!vars)
<1>1. CASE Server
  BY <1>1, SameServer DEF Session!Next
<1>2. CASE UNCHANGED sessionVars
  BY <1>2, SessionVars
<1>3. ASSUME NEW c \in Clients, Start(c) \/ Exit(c) \/ ClientLoop(c) \/ NewsArrives(c)
      PROVE  Session!ClientStep(c) \/ UNCHANGED sessionVars
  <2>1. CASE Start(c) \/ ReadPacket(c) \/ Exit(c) \/ GiveUp(c) \/ ClientKilledBySigpipe(c)
    BY <2>1, SameConnection DEF Session!ClientStep
  <2>2. CASE SendReady(c)
    BY <2>2, SameInput DEF Session!ClientStep
  <2>3. CASE \/ FindId(c) \/ PollAgain(c) \/ ReadLater(c) \/ ReadNothing(c)
             \/ SendReset(c) \/ TickWithInput(c) \/ TickWithoutInput(c)
             \/ ShowWorldState(c) \/ ShowNothing(c) \/ NewsArrives(c)
    BY <2>3, Zenon DEF FindId, PollAgain, ReadLater, ReadNothing, SendReset,
       TickWithInput, TickWithoutInput, ShowWorldState, ShowNothing,
       NewsArrives, EndOfFileArrives, ResetArrives, sessionVars
  <2> QED
    BY <1>3, <2>1, <2>2, <2>3 DEF ClientLoop
<1>4. UNCHANGED vars => UNCHANGED sessionVars
  BY DEF vars, sessionVars, clientVars
<1>5. (\E c \in Clients : Session!ClientStep(c)) => Session!Next
  BY DEF Session!Next
<1> QED
  BY <1>1, <1>2, <1>3, <1>4, <1>5 DEF Next

\* To the server the client is the one ServerSession describes: it sends
\* nothing before its welcome, numbers its inputs from 1 without a gap as long
\* as the connection holds, and reads whatever arrives.
THEOREM ClientIsSession == Spec => IsSession
BY SameInit, ClientInvariant, NextIsSession, PTL DEF Spec, IsSession, Session!Spec

-----------------------------------------------------------------------------
(* What is proved of ServerSession holds of this client's session.         *)

\* ServerSession as ServerProofs has it: the same definitions once more.
Proven == INSTANCE ServerProofs

LEMMA ProvenInit == Session!Init => Proven!Init
BY DEF Session!Init, Session!InitServer, Session!InitLinks, Proven!Init,
   Proven!InitServer, Proven!InitLinks, Session!NoTick, Proven!NoTick,
   Session!SpawnCoins, Proven!SpawnCoins, Session!Origin, Proven!Origin

LEMMA ProvenLoop ==
  /\ (Session!Frame => Proven!Frame) /\ (Session!Stop => Proven!Stop)
  /\ (Session!Signal => Proven!Signal) /\ (Session!GetPlayers => Proven!GetPlayers)
  /\ (Session!ReceiveNothing => Proven!ReceiveNothing)
  /\ (Session!ReceiveDone => Proven!ReceiveDone)
BY DEF Session!Frame, Proven!Frame, Session!Stop, Proven!Stop, Session!Signal,
   Proven!Signal, Session!GetPlayers, Proven!GetPlayers,
   Session!ReceiveNothing, Proven!ReceiveNothing, Session!ReceiveDone,
   Proven!ReceiveDone, Session!loopVars, Proven!loopVars, Session!netVars,
   Proven!netVars, Session!playerVars, Proven!playerVars, Session!gameVars,
   Proven!gameVars, Session!linkVars, Proven!linkVars

LEMMA ProvenReceive ==
  /\ (Session!AcceptNewClients => Proven!AcceptNewClients)
  /\ (Session!ReceivePackets => Proven!ReceivePackets)
  /\ (Session!EraseDisconnected => Proven!EraseDisconnected)
BY Zenon DEF Session!AcceptNewClients, Proven!AcceptNewClients,
   Session!ReceivePackets, Proven!ReceivePackets, Session!EraseDisconnected,
   Proven!EraseDisconnected, Session!CanAccept, Proven!CanAccept,
   Session!Welcome, Proven!Welcome, Session!Unread, Proven!Unread,
   Session!ProcessPackets, Proven!ProcessPackets, Session!loopVars,
   Proven!loopVars, Session!netVars, Proven!netVars, Session!playerVars,
   Proven!playerVars, Session!gameVars, Proven!gameVars, Session!linkVars,
   Proven!linkVars

LEMMA ProvenSend ==
  /\ (Session!SendToClients => Proven!SendToClients)
  /\ (Session!KilledBySigpipe => Proven!KilledBySigpipe)
BY Zenon DEF Session!SendToClients, Proven!SendToClients,
   Session!KilledBySigpipe, Proven!KilledBySigpipe, Session!Members,
   Proven!Members, Session!AddressedTo, Proven!AddressedTo, Session!Wanted,
   Proven!Wanted, Session!loopVars, Proven!loopVars, Session!netVars,
   Proven!netVars, Session!playerVars, Proven!playerVars, Session!gameVars,
   Proven!gameVars, Session!linkVars, Proven!linkVars

LEMMA ProvenInputs == Session!ProcessInputs => Proven!ProcessInputs
BY Zenon DEF Session!ProcessInputs, Proven!ProcessInputs, Session!Members,
   Proven!Members, Session!Poppable, Proven!Poppable, Session!Moved,
   Proven!Moved, Session!ApplyInput, Proven!ApplyInput, Session!ClampPosition,
   Proven!ClampPosition, Session!ClampAxis, Proven!ClampAxis,
   Session!Displacement, Proven!Displacement, Session!Direction,
   Proven!Direction, Session!loopVars, Proven!loopVars, Session!netVars,
   Proven!netVars, Session!playerVars, Proven!playerVars, Session!gameVars,
   Proven!gameVars, Session!linkVars, Proven!linkVars

LEMMA ProvenCollisions == Session!CheckCollisions => Proven!CheckCollisions
BY Zenon DEF Session!CheckCollisions, Proven!CheckCollisions,
   Session!loopVars, Proven!loopVars, Session!netVars, Proven!netVars,
   Session!playerVars, Proven!playerVars, Session!gameVars, Proven!gameVars,
   Session!linkVars, Proven!linkVars, Session!Points, Proven!Points,
   Session!Cardinality, Proven!Cardinality, Session!CheckCollision,
   Session!DistanceSquared, Proven!CheckCollision, Proven!DistanceSquared

LEMMA ProvenEndOfTick == Session!BroadcastAndEndTick => Proven!BroadcastAndEndTick
BY DEF Session!BroadcastAndEndTick, Proven!BroadcastAndEndTick,
   Session!BroadcastWorldState, Proven!BroadcastWorldState,
   Session!BroadcastDue, Proven!BroadcastDue, Session!NextTick,
   Proven!NextTick, Session!WorldState, Proven!WorldState, Session!Members,
   Proven!Members, Session!loopVars, Proven!loopVars, Session!netVars,
   Proven!netVars, Session!playerVars, Proven!playerVars, Session!gameVars,
   Proven!gameVars, Session!linkVars, Proven!linkVars

LEMMA ProvenServer == Session!Server => Proven!Server
<1>1. Session!ServerStep \/ Session!KilledBySigpipe \/ Session!Signal
      => Proven!ServerStep \/ Proven!KilledBySigpipe \/ Proven!Signal
  BY ProvenLoop, ProvenReceive, ProvenSend, ProvenInputs, ProvenCollisions,
     ProvenEndOfTick
     DEF Session!ServerStep, Session!ReceiveFromClients, Proven!ServerStep,
         Proven!ReceiveFromClients
<1> QED
  BY <1>1 DEF Session!Server, Session!clientVars, Proven!Server,
     Proven!clientVars

LEMMA ProvenClient ==
  ASSUME NEW c
  PROVE  Session!ClientStep(c) => Proven!ClientStep(c)
<1>1. Session!Connect(c) => Proven!Connect(c)
  BY Zenon DEF Session!serverVars, Proven!serverVars, Session!loopVars,
     Proven!loopVars, Session!netVars, Proven!netVars, Session!playerVars,
     Proven!playerVars, Session!gameVars, Proven!gameVars, Session!linkVars,
     Proven!linkVars, Session!clientVars, Proven!clientVars, Session!Connect,
     Proven!Connect, Session!Down, Proven!Down, Session!OpenLink,
     Proven!OpenLink
<1>2. Session!SendInput(c) => Proven!SendInput(c)
  BY Zenon DEF Session!serverVars, Proven!serverVars, Session!loopVars,
     Proven!loopVars, Session!netVars, Proven!netVars, Session!playerVars,
     Proven!playerVars, Session!gameVars, Proven!gameVars, Session!linkVars,
     Proven!linkVars, Session!clientVars, Proven!clientVars,
     Session!SendInput, Proven!SendInput, Session!PutToServer,
     Proven!PutToServer, Session!ApplyInput, Proven!ApplyInput,
     Session!ClampPosition, Proven!ClampPosition, Session!ClampAxis,
     Proven!ClampAxis, Session!Displacement, Proven!Displacement,
     Session!Direction, Proven!Direction
<1>3. Session!ReadPacket(c) => Proven!ReadPacket(c)
  BY Zenon DEF Session!serverVars, Proven!serverVars, Session!loopVars,
     Proven!loopVars, Session!netVars, Proven!netVars, Session!playerVars,
     Proven!playerVars, Session!gameVars, Proven!gameVars, Session!linkVars,
     Proven!linkVars, Session!clientVars, Proven!clientVars,
     Session!ReadPacket, Proven!ReadPacket, Session!TakeFromServer,
     Proven!TakeFromServer
<1>4. Session!Quit(c) => Proven!Quit(c)
  BY Zenon DEF Session!serverVars, Proven!serverVars, Session!loopVars,
     Proven!loopVars, Session!netVars, Proven!netVars, Session!playerVars,
     Proven!playerVars, Session!gameVars, Proven!gameVars, Session!linkVars,
     Proven!linkVars, Session!clientVars, Proven!clientVars, Session!Quit,
     Proven!Quit, Session!CloseLink, Proven!CloseLink
<1> QED
  BY <1>1, <1>2, <1>3, <1>4 DEF Session!ClientStep, Proven!ClientStep

LEMMA ProvenStep ==
  [Session!Next]_(Session!vars) => [Proven!Next]_(Proven!vars)
<1>1. Session!Next => Proven!Next
  BY ProvenServer, ProvenClient DEF Session!Next, Proven!Next
<1>2. UNCHANGED Session!vars => UNCHANGED Proven!vars
  BY DEF Session!serverVars, Proven!serverVars, Session!loopVars,
     Proven!loopVars, Session!netVars, Proven!netVars, Session!playerVars,
     Proven!playerVars, Session!gameVars, Proven!gameVars, Session!linkVars,
     Proven!linkVars, Session!clientVars, Proven!clientVars, Session!vars,
     Proven!vars
<1> QED
  BY <1>1, <1>2

LEMMA SessionIsProven == Session!Spec => Proven!Spec
BY ProvenInit, ProvenStep, PTL DEF Session!Spec, Proven!Spec

\* A packet that waits for a client that has read a world state is a welcome
\* or the world state broadcast next.
NextIsRead ==
  \A c \in Clients :
    toClient[c] # <<>> /\ seen[c] # NoTick =>
      \/ Head(toClient[c]).kind = "welcome"
      \/ Head(toClient[c]).tick = NextBroadcast(seen[c])

\* What ServerProofs assumes of the constants is assumed here.
LEMMA ProvenAssumptions ==
  /\ MaxInputs \in Nat
  /\ /\ FRAME_CAP \in Nat \ {0}
     /\ TICK_MOD \in Nat \ {0}
     /\ RECV_BATCH \in Nat \ {0}
     /\ DescriptorLimit \in Nat
     /\ MaxTick \in Nat /\ MaxQueued \in Nat /\ MaxFlight \in Nat
     /\ Inputs \subseteq Proven!InputState /\ Proven!IsFiniteSet(Coins)
     /\ SpawnPositions \subseteq Proven!Reachable
     /\ CoinPositions \subseteq Proven!Vec2
  /\ /\ WORLD_WIDTH \in Nat /\ WORLD_HEIGHT \in Nat
     /\ PLAYER_RADIUS \in Nat /\ COIN_RADIUS \in Nat
     /\ AXIS_STEP \in Nat /\ DIAG_STEP \in Nat
     /\ 2 * PLAYER_RADIUS <= WORLD_WIDTH
     /\ 2 * PLAYER_RADIUS <= WORLD_HEIGHT
BY ClientAssumption, ServerAssumption, WorldAssumption
   DEF InputState, Proven!InputState, IsFiniteSet, Proven!IsFiniteSet,
       Reachable, Proven!Reachable, Vec2, Proven!Vec2

\* The theorem ReadInOrder, for this client.
LEMMA ReadsInOrder == Spec => []NextIsRead
<1>1. Proven!NextIsRead => NextIsRead
  BY Zenon DEF Proven!NextIsRead, NextIsRead, Proven!NoTick, NoTick,
     Proven!NextBroadcast, NextBroadcast
<1>2. Proven!Spec => []Proven!NextIsRead
  BY ProvenAssumptions, Proven!ReadInOrder, PTL
<1> QED
  BY <1>1, <1>2, ClientIsSession, SessionIsProven, PTL DEF IsSession

\* The position the server holds for a player is the one its acknowledged
\* inputs lead to, also when they come from the client of GameClient, with its
\* latency buffer and its loop.
THEOREM PositionsAgree == Spec => []Session!AuthoritativePosition
<1>1. Proven!AuthoritativePosition => Session!AuthoritativePosition
  BY Zenon DEF Proven!AuthoritativePosition, Session!AuthoritativePosition,
     Proven!Members, Session!Members
<1>2. Proven!Spec => []Proven!AuthoritativePosition
  BY ProvenAssumptions, Proven!PositionAgreement, PTL
<1> QED
  BY <1>1, <1>2, ClientIsSession, SessionIsProven, PTL DEF IsSession

\* What else ServerSession promises to its clients it promises to this one:
\* inputs are applied in order and once, the pointers of a tick stay good, a
\* welcome comes first and alone, and no world state is missing after it.
THEOREM PromisesKept ==
  Spec => [](/\ Session!InputsInOrder /\ Session!NoDanglingPlayer
             /\ Session!WelcomeFirst /\ Session!NoSnapshotMissing)
<1>1. Proven!InputsInOrder => Session!InputsInOrder
  BY Zenon DEF Proven!InputsInOrder, Session!InputsInOrder, Proven!Members,
     Session!Members, Proven!InOrder, Session!InOrder, Proven!Continues,
     Session!Continues
<1>2. Proven!NoDanglingPlayer => Session!NoDanglingPlayer
  BY Zenon DEF Proven!NoDanglingPlayer, Session!NoDanglingPlayer
<1>3. /\ \A s, known, id :
           Proven!OneWelcome(s, known, id) = Session!OneWelcome(s, known, id)
      /\ \A s : Proven!Unbroken(s) = Session!Unbroken(s)
      /\ \A s, now : Proven!UpToDate(s, now) = Session!UpToDate(s, now)
      /\ \A s, tick, now :
           Proven!Follows(s, tick, now) = Session!Follows(s, tick, now)
  BY Zenon DEF Proven!OneWelcome, Session!OneWelcome, Proven!Unbroken,
     Session!Unbroken, Proven!UpToDate, Session!UpToDate, Proven!Follows,
     Session!Follows, Proven!Worlds, Session!Worlds, Proven!NextBroadcast,
     Session!NextBroadcast, Proven!BroadcastFrom, Session!BroadcastFrom
<1>4. Proven!WelcomeFirst => Session!WelcomeFirst
  BY Zenon, <1>3 DEF Proven!WelcomeFirst, Session!WelcomeFirst,
     Proven!Attached, Session!Attached, Proven!Members, Session!Members,
     Proven!Stream, Session!Stream, Proven!AddressedTo, Session!AddressedTo,
     Proven!Wanted, Session!Wanted
<1>5. Proven!NoSnapshotMissing => Session!NoSnapshotMissing
  BY Zenon, <1>3 DEF Proven!NoSnapshotMissing, Session!NoSnapshotMissing,
     Proven!Attached, Session!Attached, Proven!Members, Session!Members,
     Proven!Stream, Session!Stream, Proven!AddressedTo, Session!AddressedTo,
     Proven!Wanted, Session!Wanted, Proven!NoTick, Session!NoTick
<1>6. /\ Proven!Spec => []Proven!InputsInOrder
      /\ Proven!Spec => []Proven!NoDanglingPlayer
      /\ Proven!Spec => []Proven!WelcomeFirst
      /\ Proven!Spec => []Proven!NoSnapshotMissing
  BY ProvenAssumptions, Proven!OrderOfInputs, Proven!NoDangling,
     Proven!WelcomeComesFirst, Proven!SnapshotsComplete, PTL
<1> QED
  BY <1>1, <1>2, <1>4, <1>5, <1>6, ClientIsSession, SessionIsProven, PTL
     DEF IsSession

\* Each place a coin was taken from is a point of one player.
THEOREM CreditsAgree == Spec => []Session!CoinCreditedOnce
<1>1. Proven!CoinCreditedOnce => Session!CoinCreditedOnce
  BY Zenon DEF Proven!CoinCreditedOnce, Session!CoinCreditedOnce,
     Proven!PointsScored, Session!PointsScored, Proven!PlacesTaken,
     Session!PlacesTaken, Proven!Tally, Session!Tally, Proven!Cardinality,
     Session!Cardinality
<1>2. Proven!Spec => []Proven!CoinCreditedOnce
  BY ProvenAssumptions, Proven!CoinsAreCredited, PTL
<1> QED
  BY <1>1, <1>2, ClientIsSession, SessionIsProven, PTL DEF IsSession

-----------------------------------------------------------------------------
(* World states take effect in the order of the broadcasts.                *)

\* The world states held come one after the other, after the one shown and up
\* to the one read last.
InTurn(held, shown, last) ==
  /\ \A i \in DOMAIN held :
       i + 1 \in DOMAIN held => held[i + 1].tick = NextBroadcast(held[i].tick)
  /\ held = <<>> => last = shown
  /\ held # <<>> =>
       /\ last = held[Len(held)].tick
       /\ shown # NoTick => held[1].tick = NextBroadcast(shown)

Showing ==
  \A c \in Clients :
    client[c].stage # "over" => InTurn(client[c].incoming, client[c].shown, seen[c])

\* A world state goes into the latency buffer.
LEMMA InTurnHeld ==
  ASSUME NEW S, NEW held \in Seq(S), NEW m \in S, NEW shown, NEW last,
         \A x \in S : x.tick # NoTick,
         InTurn(held, shown, last), last # NoTick => m.tick = NextBroadcast(last)
  PROVE  InTurn(Append(held, m), shown, m.tick)
<1> DEFINE n == Len(held)
           longer == Append(held, m)
<1>1. /\ n \in Nat /\ DOMAIN held = 1 .. n
      /\ DOMAIN longer = 1 .. n + 1 /\ Len(longer) = n + 1
      /\ \A i \in 1 .. n : longer[i] = held[i] /\ held[i] \in S
      /\ longer[n + 1] = m /\ longer # <<>> /\ (n = 0 <=> held = <<>>)
  BY AppendProperties
<1> HIDE DEF longer, n
<1>2. ASSUME held # <<>> PROVE m.tick = NextBroadcast(held[n].tick)
  <2>1. last = held[n].tick /\ n \in 1 .. n
    BY <1>1, <1>2 DEF InTurn, n
  <2>2. last # NoTick
    BY <1>1, <2>1
  <2> QED
    BY <2>1, <2>2
<1>3. ASSUME NEW i \in 1 .. n + 1, i + 1 \in 1 .. n + 1
      PROVE  longer[i + 1].tick = NextBroadcast(longer[i].tick)
  <2>1. i \in 1 .. n
    BY <1>1, <1>3
  <2>2. CASE i + 1 \in 1 .. n
    BY <1>1, <2>1, <2>2 DEF InTurn
  <2>3. CASE i + 1 \notin 1 .. n
    <3>1. i = n /\ held # <<>>
      BY <1>1, <1>3, <2>1, <2>3
    <3> QED
      BY <1>1, <1>2, <2>1, <3>1
  <2> QED
    BY <2>2, <2>3
<1>4. ASSUME shown # NoTick PROVE longer[1].tick = NextBroadcast(shown)
  <2>1. CASE held = <<>>
    <3>1. last = shown /\ longer[1] = m
      BY <1>1, <2>1 DEF InTurn
    <3> QED
      BY <1>4, <3>1
  <2>2. CASE held # <<>>
    <3>1. 1 \in 1 .. n
      BY <1>1, <2>2
    <3> QED
      BY <1>1, <1>4, <2>2, <3>1 DEF InTurn
  <2> QED
    BY <2>1, <2>2
<1> QED
  BY <1>1, <1>3, <1>4 DEF InTurn, longer

\* The oldest world state held is shown.
LEMMA InTurnShown ==
  ASSUME NEW S, NEW held \in Seq(S), held # <<>>, NEW shown, NEW last,
         InTurn(held, shown, last)
  PROVE  /\ InTurn(Tail(held), Head(held).tick, last)
         /\ shown # NoTick => Head(held).tick = NextBroadcast(shown)
<1> DEFINE rest == Tail(held)
<1>1. PICK n \in Nat :
        /\ Len(held) = n + 1 /\ DOMAIN held = 1 .. n + 1
        /\ Head(held) = held[1] /\ rest \in Seq(S)
        /\ Len(rest) = n /\ DOMAIN rest = 1 .. n
        /\ \A i \in 1 .. n : rest[i] = held[i + 1]
  BY QueueTail
<1> HIDE DEF rest
<1>2. Head(held) = held[1] /\ (n = 0 <=> rest = <<>>)
  BY <1>1
<1>3. /\ \A i \in 1 .. n + 1 :
           i + 1 \in 1 .. n + 1 => held[i + 1].tick = NextBroadcast(held[i].tick)
      /\ last = held[n + 1].tick
      /\ shown # NoTick => held[1].tick = NextBroadcast(shown)
  BY <1>1 DEF InTurn
<1>4. ASSUME NEW i \in 1 .. n, i + 1 \in 1 .. n
      PROVE  rest[i + 1].tick = NextBroadcast(rest[i].tick)
  <2>1. i + 1 \in 1 .. n + 1 /\ (i + 1) + 1 \in 1 .. n + 1
    BY <1>4
  <2>2. held[(i + 1) + 1].tick = NextBroadcast(held[i + 1].tick)
    BY <1>3, <2>1
  <2> QED
    BY <1>1, <1>4, <2>2
<1>5. ASSUME rest = <<>> PROVE last = held[1].tick
  <2>1. n + 1 = 1
    BY <1>2, <1>5
  <2> QED
    BY <1>3, <2>1
<1>6. ASSUME rest # <<>>
      PROVE  last = rest[n].tick /\ rest[1].tick = NextBroadcast(held[1].tick)
  <2>1. n \in 1 .. n /\ 1 \in 1 .. n /\ 1 \in 1 .. n + 1 /\ 1 + 1 \in 1 .. n + 1
    BY <1>2, <1>6
  <2>2. rest[n] = held[n + 1] /\ rest[1] = held[1 + 1]
    BY <1>1, <2>1
  <2>3. held[1 + 1].tick = NextBroadcast(held[1].tick)
    BY <1>3, <2>1
  <2> QED
    BY <1>3, <2>2, <2>3
<1> QED
  BY <1>1, <1>2, <1>3, <1>4, <1>5, <1>6 DEF InTurn, rest

\* The steps that neither add to the world states held nor show one.
StaysHeld(c) ==
  \/ Start(c) \/ FindId(c) \/ PollAgain(c) \/ ReadLater(c) \/ ReadNothing(c)
  \/ SendReady(c) \/ SendReset(c) \/ TickWithInput(c) \/ TickWithoutInput(c)
  \/ ShowNothing(c) \/ NewsArrives(c)

LEMMA HeldStays ==
  ASSUME IInv, NEW c \in Clients, StaysHeld(c)
  PROVE  /\ UNCHANGED <<client[c].incoming, client[c].shown, seen>>
         /\ client[c].stage = "over" => client'[c].stage = "over"
<1>1. client \in [Clients -> Process] /\ client[c] \in Process
  BY OneClient
<1> HIDE DEF WorldStates
<1>2. UNCHANGED seen
  BY Zenon DEF StaysHeld, Start, FindId, PollAgain, ReadLater, ReadNothing,
     SendReady, SendReset, TickWithInput, TickWithoutInput, ShowNothing,
     NewsArrives, EndOfFileArrives, ResetArrives
<1>3. CASE NewsArrives(c)
  BY <1>2, <1>3 DEF NewsArrives, EndOfFileArrives, ResetArrives
<1>4. CASE StaysHeld(c) /\ ~NewsArrives(c)
  <2> DEFINE Held == /\ client'[c].incoming = client[c].incoming
                     /\ client'[c].shown = client[c].shown
  <2>1. CASE Start(c)
    <3>1. client[c].stage # "over"
      BY <2>1 DEF Start, At, Sending
    <3>2. \E x, y : client' = [client EXCEPT ![c].stage = x, ![c].connected = y]
      BY <2>1, Zenon DEF Start
    <3>3. Held
      BY <1>1, <3>2 DEF Process
    <3> QED
      BY <1>2, <3>1, <3>3
  <2>2. CASE FindId(c)
    <3>1. client[c].stage # "over"
      BY <2>2 DEF FindId, At, Sending
    <3>2. \E x, y, z : client' = [client EXCEPT ![c].stage = x, ![c].step = y, ![c].myId = z]
      BY <2>2, Zenon DEF FindId
    <3>3. Held
      BY <1>1, <3>2 DEF Process
    <3> QED
      BY <1>2, <3>1, <3>3
  <2>3. CASE PollAgain(c)
    <3>1. client[c].stage # "over"
      BY <2>3 DEF PollAgain, At, Sending
    <3>2. \E x, y : client' = [client EXCEPT ![c].attempts = x, ![c].step = y]
      BY <2>3, Zenon DEF PollAgain
    <3>3. Held
      BY <1>1, <3>2 DEF Process
    <3> QED
      BY <1>2, <3>1, <3>3
  <2>4. CASE ReadLater(c) \/ TickWithoutInput(c) \/ ShowNothing(c)
    <3>1. client[c].stage # "over"
      BY <2>4 DEF ReadLater, TickWithoutInput, ShowNothing, At, Sending
    <3>2. \E x : client' = [client EXCEPT ![c].step = x]
      BY <2>4, Zenon DEF ReadLater, TickWithoutInput, ShowNothing
    <3>3. Held
      BY <1>1, <3>2 DEF Process
    <3> QED
      BY <1>2, <3>1, <3>3
  <2>5. CASE ReadNothing(c)
    <3>1. client[c].stage # "over"
      BY <2>5 DEF ReadNothing, At, Sending
    <3>2. \E x, y : client' = [client EXCEPT ![c].step = x, ![c].connected = y]
      BY <2>5, Zenon DEF ReadNothing
    <3>3. Held
      BY <1>1, <3>2 DEF Process
    <3> QED
      BY <1>2, <3>1, <3>3
  <2>6. CASE SendReady(c) \/ SendReset(c)
    <3>1. client[c].stage # "over"
      BY <2>6 DEF SendReady, SendReset, At, Sending
    <3>2. \E x, y : client' = [client EXCEPT ![c].outbox = x, ![c].step = y]
      BY <2>6, Zenon DEF SendReady, SendReset
    <3>3. Held
      BY <1>1, <3>2 DEF Process
    <3> QED
      BY <1>2, <3>1, <3>3
  <2>7. CASE TickWithInput(c)
    <3>1. client[c].stage # "over"
      BY <2>7 DEF TickWithInput, At, Sending
    <3>2. \E x, y, z : client' = [client EXCEPT ![c].predicted = x, ![c].outbox = y, ![c].step = z]
      BY <2>7, Zenon DEF TickWithInput
    <3>3. Held
      BY <1>1, <3>2 DEF Process
    <3> QED
      BY <1>2, <3>1, <3>3
  <2> QED
    BY <1>4, <2>1, <2>2, <2>3, <2>4, <2>5, <2>6, <2>7 DEF StaysHeld
<1> QED
  BY <1>3, <1>4

\* What a step of client c does to the world states it holds.
LEMMA ShowingStep ==
  ASSUME IInv, Noticed, NextIsRead, Showing, NEW c \in Clients, StepOf(c)
  PROVE  /\ client'[c].stage # "over" =>
              InTurn(client'[c].incoming, client'[c].shown, seen'[c])
         /\ ShowWorldState(c) /\ client[c].shown # NoTick =>
              client'[c].shown = NextBroadcast(client[c].shown)
<1> DEFINE held == client[c].incoming
           shown == client[c].shown
           last == seen[c]
<1>1. /\ client \in [Clients -> Process] /\ client[c] \in Process
      /\ held \in Seq(WorldStates) /\ seen = [d \in Clients |-> seen[d]]
  BY OneClient, FieldTypes DEF Noticed
<1>2. client[c].stage # "over" => InTurn(held, shown, last)
  BY DEF Showing
<1>3. \A x \in WorldStates : x.tick # NoTick
  BY ServerAssumption DEF WorldStates, NoTick
<1> HIDE DEF WorldStates
<1>4. CASE /\ UNCHANGED <<client[c].incoming, client[c].shown, seen>>
           /\ client[c].stage = "over" => client'[c].stage = "over"
           /\ ~ShowWorldState(c)
  BY <1>2, <1>4
<1>5. CASE Exit(c) \/ GiveUp(c) \/ ClientKilledBySigpipe(c)
  <2>1. /\ client' = [client EXCEPT ![c] = [Fresh EXCEPT !.stage = "over"]]
        /\ link[c] = "open" /\ link' = [link EXCEPT ![c] = "closed"]
    BY <1>5 DEF Exit, GiveUp, ClientKilledBySigpipe, Ends, CloseLink
  <2>2. client'[c].stage = "over"
    BY <1>1, <2>1 DEF Fresh
  <2>3. ~ShowWorldState(c)
    <3>1. link'[c] # link[c]
      BY <2>1 DEF IInv, Places
    <3> QED
      BY <3>1 DEF ShowWorldState, linkVars
  <2> QED
    BY <2>2, <2>3
<1>6. CASE ReadPacket(c) /\ ~ShowWorldState(c)
  <2> DEFINE m == Head(toClient[c])
  <2>1. /\ client[c].stage \in {"joining", "running"} /\ toClient[c] # <<>>
    BY <1>6 DEF ReadPacket, At, TakeFromServer
  <2>2. m \in Messages
    <3>1. toClient[c] \in Seq(Messages)
      BY DEF IInv, Mail
    <3> QED
      BY <2>1, <3>1
  <2>4. CASE m.kind = "welcome"
    <3>1. /\ UNCHANGED seen
          /\ client' = [client EXCEPT ![c].step = "parse"]
      BY <1>6, <2>4 DEF ReadPacket
    <3>2. client'[c].incoming = held /\ client'[c].shown = shown
      BY <1>1, <3>1 DEF Process
    <3> QED
      BY <1>2, <1>6, <2>1, <3>1, <3>2
  <2>5. CASE m.kind # "welcome"
    <3>1. /\ seen' = [seen EXCEPT ![c] = m.tick]
          /\ client' = [client EXCEPT ![c].step = "parse", ![c].incoming = Append(@, m)]
      BY <1>6, <2>5 DEF ReadPacket
    <3>2. m \in WorldStates
      BY <2>2, <2>5 DEF Messages
    <3>3. last # NoTick => m.tick = NextBroadcast(last)
      BY <2>1, <2>5 DEF NextIsRead
    <3> HIDE DEF m
    <3>4. /\ client'[c].incoming = Append(held, m) /\ client'[c].shown = shown
          /\ seen'[c] = m.tick
      BY <1>1, <3>1 DEF Process
    <3> HIDE DEF held, shown, last
    <3>5. InTurn(Append(held, m), shown, m.tick)
      BY <1>1, <1>2, <1>3, <2>1, <3>2, <3>3, InTurnHeld
    <3> QED
      BY <1>6, <3>4, <3>5
  <2> QED
    BY <2>4, <2>5
<1>7. CASE ShowWorldState(c)
  <2>1. /\ held # <<>> /\ client[c].stage = "running" /\ UNCHANGED seen
        /\ \E r : client' = [client EXCEPT ![c].step = "input",
               ![c].incoming = Tail(@), ![c].shown = OldestHeld(c).tick,
               ![c].remotes = r]
    BY <1>7, Zenon DEF ShowWorldState
  <2>2. client'[c].incoming = Tail(held) /\ client'[c].shown = Head(held).tick
    BY <1>1, <2>1 DEF Process, OldestHeld
  <2> HIDE DEF held, shown, last
  <2>3. /\ InTurn(Tail(held), Head(held).tick, last)
        /\ shown # NoTick => Head(held).tick = NextBroadcast(shown)
    BY <1>1, <1>2, <2>1, InTurnShown
  <2> QED
    BY <2>1, <2>2, <2>3 DEF shown, last
<1>8. CASE StaysHeld(c) /\ ~ShowWorldState(c)
  BY <1>4, <1>8, HeldStays
<1> QED
  BY <1>5, <1>6, <1>7, <1>8 DEF StepOf, ClientLoop, StaysHeld

LEMMA ShowingLater ==
  Showing' <=>
    \A c \in Clients :
      client'[c].stage # "over" =>
        InTurn(client'[c].incoming, client'[c].shown, seen'[c])
BY DEF Showing, InTurn, NextBroadcast

LEMMA NextShowing ==
  ASSUME IInv, Noticed, NextIsRead, Showing, [Next]_vars
  PROVE  /\ Showing'
         /\ \A c \in Clients :
              ShowWorldState(c) /\ client[c].shown # NoTick =>
                client'[c].shown = NextBroadcast(client[c].shown)
<1>1. ASSUME NEW c \in Clients, StepOf(c)
      PROVE  Showing'
  <2>1. \A d \in Clients : d # c => client'[d] = client[d] /\ seen'[d] = seen[d]
    BY <1>1, OthersStay
  <2>2. client'[c].stage # "over" =>
          InTurn(client'[c].incoming, client'[c].shown, seen'[c])
    BY <1>1, ShowingStep
  <2> QED
    BY <2>1, <2>2, ShowingLater DEF Showing
<1>2. ASSUME UNCHANGED <<client, seen>>
      PROVE  Showing'
  BY <1>2, ShowingLater DEF Showing
<1>3. (Server \/ UNCHANGED vars) => UNCHANGED <<client, seen>>
  BY DEF Server, vars, clientVars, procVars
<1>4. ASSUME NEW c \in Clients, ShowWorldState(c), client[c].shown # NoTick
      PROVE  client'[c].shown = NextBroadcast(client[c].shown)
  BY <1>4, ShowingStep DEF StepOf, ClientLoop
<1> QED
  BY <1>1, <1>2, <1>3, <1>4 DEF Next, StepOf

\* A client shows the world states in the order in which the server broadcast
\* them and leaves none out, whatever the recv calls and the latency buffers
\* on both sides bunch together, over the wrap of the counter too.
THEOREM ShowsInOrder == Spec => ShownInOrder
<1>1. Init => Noticed /\ Showing
  BY DEF Init, Noticed, Showing, InTurn, Fresh
<1>2. IInv /\ Noticed /\ [Next]_vars => Noticed'
  BY NextStaysLost
<1>3. IInv /\ Noticed /\ NextIsRead /\ Showing /\ [Next]_vars => Showing'
  BY NextShowing
<1>4. IInv /\ Noticed /\ NextIsRead /\ Showing /\ [Next]_vars =>
        [\A c \in Clients :
           ShowWorldState(c) /\ client[c].shown # NoTick
             => client'[c].shown = NextBroadcast(client[c].shown)]_vars
  BY NextShowing
<1> QED
  BY <1>1, <1>2, <1>3, <1>4, ClientInvariant, ReadsInOrder, PTL
     DEF Spec, ShownInOrder

=============================================================================
