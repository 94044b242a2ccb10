---------------------------- MODULE ServerProofs ----------------------------
(***************************************************************************)
(* ServerSession for any set of clients, inputs and coins, any world and   *)
(* every bound.  First type correctness, with what everything rests on: on *)
(* packet queues, on ticks and broadcasts, and on what is known of the     *)
(* world states in a stream.  Then safety: no tick uses a player that has  *)
(* been erased; the inputs of a client are applied once each in the order  *)
(* they were sent, and take its player where the client computes they do;  *)
(* a client reads its welcome, once, and then every broadcast in order;    *)
(* and every place a coin is taken from is one point of one player.        *)
(***************************************************************************)
EXTENDS ServerSession, SharedProofs, FiniteSetTheorems

-----------------------------------------------------------------------------
(* Queues of packets.                                                      *)

LEMMA FirstPackets ==
  ASSUME NEW S, NEW q \in Seq(S), NEW n \in 1 .. Len(q)
  PROVE  /\ SubSeq(q, 1, n) \in Seq(S)
         /\ Len(SubSeq(q, 1, n)) = n
         /\ \A i \in 1 .. n : SubSeq(q, 1, n)[i] = q[i]
<1>1. Len(q) \in Nat /\ n \in Nat /\ n <= Len(q)
  OBVIOUS
<1>2. n - 1 + 1 = n /\ \A i \in 1 .. n : 1 + i - 1 = i
  BY <1>1
<1> QED
  BY <1>1, <1>2, PartOfQueue

LEMMA LaterPackets ==
  ASSUME NEW S, NEW q \in Seq(S), NEW n \in 1 .. Len(q)
  PROVE  /\ SubSeq(q, n + 1, Len(q)) \in Seq(S)
         /\ Len(SubSeq(q, n + 1, Len(q))) = Len(q) - n
         /\ \A i \in 1 .. Len(q) - n : SubSeq(q, n + 1, Len(q))[i] = q[n + i]
<1>1. Len(q) \in Nat /\ n \in Nat /\ n <= Len(q)
  OBVIOUS
<1>2. n + 1 \in Nat \ {0} /\ n + 1 <= Len(q) + 1 /\ Len(q) <= Len(q)
  BY <1>1
<1>3. /\ SubSeq(q, n + 1, Len(q)) \in Seq(S)
      /\ Len(SubSeq(q, n + 1, Len(q))) = Len(q) - (n + 1) + 1
      /\ \A i \in 1 .. Len(q) - (n + 1) + 1 :
           SubSeq(q, n + 1, Len(q))[i] = q[n + 1 + i - 1]
  BY <1>1, <1>2, PartOfQueue
<1>4. \A i \in 1 .. Len(q) - (n + 1) + 1 : n + 1 + i - 1 = n + i
  BY <1>1
<1>5. Len(q) - (n + 1) + 1 = Len(q) - n
  BY <1>1
<1> QED
  BY <1>3, <1>4, <1>5

\* popReady takes the next input.
LEMMA ContinuesTail ==
  ASSUME NEW q \in Seq(InputPacket), NEW n \in Nat, NEW s,
         Continues(q, n, s), q # <<>>
  PROVE  /\ Head(q).seq = n + 1 /\ Head(q).input = s[n + 1].input
         /\ Tail(q) \in Seq(InputPacket) /\ Len(Tail(q)) = Len(q) - 1
         /\ Continues(Tail(q), n + 1, s)
<1>1. /\ Len(q) \in Nat \ {0} /\ DOMAIN q = 1 .. Len(q) /\ Head(q) = q[1]
      /\ Tail(q) \in Seq(InputPacket)
      /\ Len(Tail(q)) = Len(q) - 1
      /\ DOMAIN Tail(q) = 1 .. Len(q) - 1
      /\ \A i \in 1 .. Len(q) - 1 : Tail(q)[i] = q[i + 1]
  BY HeadTailProperties
<1>2. ASSUME NEW i \in DOMAIN Tail(q)
      PROVE  /\ Tail(q)[i].seq = n + 1 + i
             /\ Tail(q)[i].input = s[n + 1 + i].input
  <2>1. i + 1 \in DOMAIN q /\ n + (i + 1) = n + 1 + i /\ Tail(q)[i] = q[i + 1]
    BY <1>1
  <2>2. q[i + 1].seq = n + (i + 1) /\ q[i + 1].input = s[n + (i + 1)].input
    BY <2>1 DEF Continues
  <2> QED
    BY <2>1, <2>2
<1> QED
  BY <1>1, <1>2 DEF Continues

\* A packet with the next number goes to the end of the queue.
LEMMA ContinuesAppend ==
  ASSUME NEW q \in Seq(InputPacket), NEW n \in Nat, NEW s \in Seq(SentInput),
         Continues(q, n, s), n + Len(q) = Len(s),
         NEW e \in InputPacket, NEW x \in SentInput,
         e.seq = Len(s) + 1, e.input = x.input
  PROVE  Continues(Append(q, e), n, Append(s, x))
<1>1. /\ Len(q) \in Nat /\ DOMAIN q = 1 .. Len(q) /\ Len(s) \in Nat
      /\ DOMAIN Append(q, e) = 1 .. Len(q) + 1
      /\ \A i \in 1 .. Len(q) : Append(q, e)[i] = q[i]
      /\ Append(q, e)[Len(q) + 1] = e
  BY AppendProperties
<1>2. /\ \A i \in 1 .. Len(s) : Append(s, x)[i] = s[i]
      /\ Append(s, x)[Len(s) + 1] = x
  BY AppendProperties
<1>3. ASSUME NEW i \in DOMAIN Append(q, e)
      PROVE  /\ Append(q, e)[i].seq = n + i
             /\ Append(q, e)[i].input = Append(s, x)[n + i].input
  <2>1. CASE i \in 1 .. Len(q)
    <3>1. n + i \in 1 .. Len(s)
      BY <1>1, <2>1
    <3>2. q[i].seq = n + i /\ q[i].input = s[n + i].input
      BY <1>1, <2>1 DEF Continues
    <3> QED
      BY <1>1, <1>2, <2>1, <3>1, <3>2
  <2>2. CASE i = Len(q) + 1
    <3>1. n + i = Len(s) + 1
      BY SMTT(40), <1>1, <2>2
    <3> QED
      BY <1>1, <1>2, <2>2, <3>1
  <2> QED
    BY <1>1, <2>1, <2>2
<1> QED
  BY <1>3 DEF Continues

\* A later input does not matter to the packets before it.
LEMMA ContinuesLonger ==
  ASSUME NEW q \in Seq(InputPacket), NEW n \in Nat, NEW s \in Seq(SentInput),
         Continues(q, n, s), n + Len(q) <= Len(s), NEW x \in SentInput
  PROVE  Continues(q, n, Append(s, x))
<1>1. /\ Len(q) \in Nat /\ DOMAIN q = 1 .. Len(q) /\ Len(s) \in Nat
      /\ \A i \in 1 .. Len(s) : Append(s, x)[i] = s[i]
  BY AppendProperties
<1>2. \A i \in DOMAIN q : n + i \in 1 .. Len(s)
  BY <1>1
<1> QED
  BY <1>1, <1>2 DEF Continues

\* A recv takes the first n packets, a, of the socket and leaves b.
Splits(q, n, a, b) == a = SubSeq(q, 1, n) /\ b = SubSeq(q, n + 1, Len(q))

\* Buffer u and socket q hold the inputs after the last one applied.
Ordered(u, q, last, s) ==
  /\ Continues(u, last, s) /\ Continues(q, last + Len(u), s)
  /\ last + Len(u) + Len(q) = Len(s)

\* What a recv takes goes to the end of the buffer.
LEMMA OrderedReceived ==
  ASSUME NEW u \in Seq(InputPacket), NEW q \in Seq(InputPacket),
         NEW last \in Nat, NEW s, NEW n \in 1 .. Len(q), NEW a, NEW b,
         Ordered(u, q, last, s), Splits(q, n, a, b)
  PROVE  Ordered(u \o a, b, last, s)
<1>0. Continues(u, last, s) /\ Continues(q, last + Len(u), s)
  BY DEF Ordered
<1>1. /\ Len(q) \in Nat /\ Len(u) \in Nat /\ n \in Nat /\ n <= Len(q)
      /\ DOMAIN q = 1 .. Len(q) /\ DOMAIN u = 1 .. Len(u)
  OBVIOUS
<1>2. /\ a \in Seq(InputPacket) /\ Len(a) = n
      /\ \A i \in 1 .. n : a[i] = q[i]
  <2>1. a = SubSeq(q, 1, n)
    BY DEF Splits
  <2>2. /\ SubSeq(q, 1, n) \in Seq(InputPacket) /\ Len(SubSeq(q, 1, n)) = n
        /\ \A i \in 1 .. n : SubSeq(q, 1, n)[i] = q[i]
    BY FirstPackets
  <2> QED
    BY <2>1, <2>2
<1>3. /\ b \in Seq(InputPacket) /\ Len(b) = Len(q) - n
      /\ \A i \in 1 .. Len(q) - n : b[i] = q[n + i]
  <2>1. b = SubSeq(q, n + 1, Len(q))
    BY DEF Splits
  <2>2. /\ SubSeq(q, n + 1, Len(q)) \in Seq(InputPacket)
        /\ Len(SubSeq(q, n + 1, Len(q))) = Len(q) - n
        /\ \A i \in 1 .. Len(q) - n : SubSeq(q, n + 1, Len(q))[i] = q[n + i]
    BY LaterPackets
  <2> QED
    BY <2>1, <2>2
<1>4. /\ Len(u \o a) = Len(u) + n /\ DOMAIN (u \o a) = 1 .. Len(u) + n
      /\ \A i \in 1 .. Len(u) : (u \o a)[i] = u[i]
      /\ \A i \in 1 .. n : (u \o a)[Len(u) + i] = a[i]
  <2>1. a \in Seq(InputPacket) /\ Len(a) = n
    BY <1>2
  <2>2. /\ u \o a \in Seq(InputPacket) /\ Len(u \o a) = Len(u) + Len(a)
        /\ \A i \in 1 .. Len(u) + Len(a) :
             (u \o a)[i] = IF i <= Len(u) THEN u[i] ELSE a[i - Len(u)]
    BY <2>1, ConcatProperties
  <2>3. /\ Len(u \o a) = Len(u) + n /\ DOMAIN (u \o a) = 1 .. Len(u) + n
        /\ \A i \in 1 .. Len(u) + n :
             (u \o a)[i] = IF i <= Len(u) THEN u[i] ELSE a[i - Len(u)]
    BY <2>1, <2>2
  <2>4. ASSUME NEW i \in 1 .. n PROVE (u \o a)[Len(u) + i] = a[i]
    <3>1. /\ Len(u) + i \in 1 .. Len(u) + n /\ ~(Len(u) + i <= Len(u))
          /\ Len(u) + i - Len(u) = i
      BY <1>1
    <3> QED
      BY <2>3, <3>1
  <2> QED
    BY <1>1, <2>3, <2>4
<1>5. ASSUME NEW i \in DOMAIN (u \o a)
      PROVE  /\ (u \o a)[i].seq = last + i
             /\ (u \o a)[i].input = s[last + i].input
  <2>1. CASE i \in 1 .. Len(u)
    BY <1>1, <1>4, <2>1, <1>0 DEF Continues
  <2>2. CASE i \notin 1 .. Len(u)
    <3>1. PICK j \in 1 .. n : i = Len(u) + j
      <4>1. i - Len(u) \in 1 .. n /\ i = Len(u) + (i - Len(u))
        BY <1>1, <1>4, <2>2
      <4> QED
        BY <4>1
    <3>2. (u \o a)[i] = q[j] /\ j \in DOMAIN q /\ last + Len(u) + j = last + i
      BY <1>1, <1>2, <1>4, <3>1
    <3>3. q[j].seq = last + Len(u) + j /\ q[j].input = s[last + Len(u) + j].input
      BY <3>2, <1>0 DEF Continues
    <3> QED
      BY <3>2, <3>3
  <2> QED
    BY <2>1, <2>2
<1>6. ASSUME NEW i \in DOMAIN b
      PROVE  /\ b[i].seq = last + Len(u \o a) + i
             /\ b[i].input = s[last + Len(u \o a) + i].input
  <2>1. i \in 1 .. Len(q) - n
    BY <1>1, <1>3
  <2>2. /\ n + i \in DOMAIN q
        /\ last + Len(u) + (n + i) = last + Len(u \o a) + i
    BY <1>1, <1>4, <2>1
  <2>3. /\ q[n + i].seq = last + Len(u) + (n + i)
        /\ q[n + i].input = s[last + Len(u) + (n + i)].input
    BY <2>2, <1>0 DEF Continues
  <2> QED
    BY <1>3, <2>1, <2>2, <2>3
<1>7. Continues(u \o a, last, s) /\ Continues(b, last + Len(u \o a), s)
  BY <1>5, <1>6 DEF Continues
<1>8. last + Len(u \o a) + Len(b) = last + Len(u) + Len(q)
  BY <1>1, <1>3, <1>4
<1> QED
  BY <1>0, <1>7, <1>8 DEF Ordered

-----------------------------------------------------------------------------
(* Types.                                                                  *)

LEMMA PlayerStateFields ==
  ASSUME NEW p \in PlayerState
  PROVE  /\ p.position \in Vec2 /\ p.position \in Reachable \cup {Origin}
         /\ p.score \in Nat
<1>1. Origin \in Vec2
  BY DEF Origin, Vec2
<1>2. Reachable \subseteq Vec2
  BY WorldAssumption DEF Reachable, Vec2
<1> QED
  BY <1>1, <1>2 DEF PlayerState

LEMMA PlayerStateIntro ==
  ASSUME NEW p \in Reachable \cup {Origin}, NEW n \in Nat
  PROVE  [position |-> p, score |-> n] \in PlayerState
BY DEF PlayerState

\* applyInput keeps a player state a player state.
LEMMA MovedType ==
  ASSUME NEW p \in PlayerState, NEW e \in InputPacket
  PROVE  [p EXCEPT !.position = ApplyInput(p.position, e.input)] \in PlayerState
<1>1. e.input \in InputState
  BY ServerAssumption DEF InputPacket
<1>2. ApplyInput(p.position, e.input) \in Reachable
  BY <1>1, PlayerStateFields, StaysInWorld
<1> QED
  BY <1>2 DEF PlayerState

LEMMA InitTypes == Init => StateTypeOK
<1> SUFFICES ASSUME Init PROVE StateTypeOK
  OBVIOUS
<1>1. [position |-> Origin, score |-> 0] \in PlayerState
  BY PlayerStateIntro
<1>2. coins \in [Coins -> CoinState]
  BY DEF Init, InitServer, SpawnCoins, CoinState
<1> QED
  BY <1>1, <1>2, ServerAssumption
     DEF Init, InitServer, InitLinks, StateTypeOK, GameTypesOK,
         PlayerTypesOK, LinkTypesOK, Phases

\* Removing one element from a list, as vector::erase does.
LEMMA EraseType ==
  ASSUME NEW S, NEW s \in Seq(S), NEW k \in DOMAIN s
  PROVE  [i \in 1 .. Len(s) - 1 |-> IF i < k THEN s[i] ELSE s[i + 1]] \in Seq(S)
<1>1. Len(s) \in Nat /\ k \in 1 .. Len(s) /\ Len(s) - 1 \in Nat
  OBVIOUS
<1>2. \A i \in 1 .. Len(s) - 1 : (IF i < k THEN s[i] ELSE s[i + 1]) \in S
  BY <1>1
<1>3. [i \in 1 .. Len(s) - 1 |-> IF i < k THEN s[i] ELSE s[i + 1]]
        \in [1 .. Len(s) - 1 -> S]
  BY <1>2
<1> QED
  BY <1>1, <1>3, SeqDef

-----------------------------------------------------------------------------
(* Types, action by action.                                                *)

LEMMA FrameTypes ==
  ASSUME StateTypeOK, Frame \/ Stop \/ Signal, UNCHANGED clientVars
  PROVE  StateTypeOK'
<1>1. CASE Frame
  <2>1. GameTypesOK'
    BY <1>1 DEF Frame, StateTypeOK, GameTypesOK, Phases, gameVars
  <2> QED
    BY <1>1, <2>1 DEF Frame, StateTypeOK, PlayerTypesOK, LinkTypesOK,
      netVars, playerVars, linkVars, clientVars
<1>2. CASE Stop
  <2>1. GameTypesOK'
    BY <1>2 DEF Stop, StateTypeOK, GameTypesOK, Phases, gameVars, loopVars
  <2> QED
    BY <1>2, <2>1 DEF Stop, StateTypeOK, PlayerTypesOK, LinkTypesOK,
      playerVars, linkVars, clientVars
<1>3. CASE Signal
  <2>1. GameTypesOK'
    BY <1>3 DEF Signal, StateTypeOK, GameTypesOK, Phases, gameVars
  <2> QED
    BY <1>3, <2>1 DEF Signal, StateTypeOK, PlayerTypesOK, LinkTypesOK,
      netVars, playerVars, linkVars, clientVars
<1> QED
  BY <1>1, <1>2, <1>3

LEMMA AcceptTypes ==
  ASSUME StateTypeOK, AcceptNewClients, UNCHANGED clientVars
  PROVE  StateTypeOK'
<1>1. CASE CanAccept
  <2> DEFINE c == Head(backlog)
  <2>1. c \in Clients /\ Tail(backlog) \in Seq(Clients)
    <3>1. backlog \in Seq(Clients) /\ backlog # <<>>
      BY <1>1 DEF StateTypeOK, LinkTypesOK, CanAccept
    <3> QED
      BY <3>1, HeadTailProperties
  <2>2. /\ phase' = "receive" /\ cursor' = 1
        /\ backlog' = Tail(backlog)
        /\ descriptors' = descriptors + 1
        /\ nextPlayerId' = nextPlayerId + 1
        /\ pid' = [pid EXCEPT ![c] = nextPlayerId]
        /\ players' = Append(players, c)
        /\ UNCHANGED <<loopVars, inbuf, lastSeq, gameVars, link, toServer>>
    BY <1>1 DEF AcceptNewClients
  <2>3. PICK p \in SpawnPositions :
          pstate' = [pstate EXCEPT ![c] = [position |-> p, score |-> 0]]
    BY <1>1 DEF AcceptNewClients
  <2>4. [position |-> p, score |-> 0] \in PlayerState
    BY ServerAssumption, PlayerStateIntro
  <2> HIDE DEF c
  <2>5. GameTypesOK'
    BY <2>2 DEF StateTypeOK, GameTypesOK, loopVars, gameVars, Phases
  <2>6. LinkTypesOK'
    BY <2>1, <2>2 DEF StateTypeOK, LinkTypesOK, clientVars
  <2>7. pstate' \in [Clients -> PlayerState]
    BY <2>1, <2>3, <2>4 DEF StateTypeOK, PlayerTypesOK
  <2>8. pid' \in [Clients -> 0 .. nextPlayerId' - 1]
    BY <2>1, <2>2 DEF StateTypeOK, PlayerTypesOK
  <2>9. players' \in Seq(Clients) /\ nextPlayerId' \in Nat \ {0}
    BY <2>1, <2>2 DEF StateTypeOK, PlayerTypesOK
  <2> QED
    BY <2>2, <2>5, <2>6, <2>7, <2>8, <2>9 DEF StateTypeOK, PlayerTypesOK
<1>2. CASE ~CanAccept
  <2>1. /\ phase' = "receive" /\ cursor' = 1
        /\ UNCHANGED <<loopVars, inbuf, lastSeq, gameVars, link, toServer,
                       backlog, netVars, pid, pstate>>
    BY <1>2 DEF AcceptNewClients
  <2>2. GameTypesOK'
    BY <2>1 DEF StateTypeOK, GameTypesOK, Phases, loopVars, gameVars
  <2> QED
    BY <2>1, <2>2 DEF StateTypeOK, PlayerTypesOK, LinkTypesOK, netVars,
      clientVars
<1> QED
  BY <1>1, <1>2

\* The player whose socket this pass of the loop reads.
LEMMA AtCursor ==
  ASSUME StateTypeOK, cursor \in DOMAIN players
  PROVE  /\ players[cursor] \in Clients
         /\ inbuf[players[cursor]] \in Seq(InputPacket)
         /\ toServer[players[cursor]] \in Seq(InputPacket)
<1>1. players[cursor] \in Clients
  BY DEF StateTypeOK, PlayerTypesOK
<1> QED
  BY <1>1 DEF StateTypeOK, PlayerTypesOK, LinkTypesOK

\* What a recv does: it moves the first n packets of one socket.
LEMMA ReceiveMoves ==
  ASSUME StateTypeOK, ReceivePackets
  PROVE  LET c == players[cursor] IN
         /\ cursor \in DOMAIN players
         /\ \E n \in 1 .. Len(toServer[c]) :
              /\ inbuf' = [inbuf EXCEPT
                   ![c] = inbuf[c] \o SubSeq(toServer[c], 1, n)]
              /\ toServer' = [toServer EXCEPT
                   ![c] = SubSeq(toServer[c], n + 1, Len(toServer[c]))]
<1> DEFINE c == players[cursor]
           n == IF Len(toServer[c]) < RECV_BATCH
                  THEN Len(toServer[c]) ELSE RECV_BATCH
<1>1. cursor \in DOMAIN players /\ n > 0
  BY DEF ReceivePackets
<1>2. Len(toServer[c]) \in Nat
  BY <1>1, AtCursor
<1>3. n \in 1 .. Len(toServer[c])
  BY <1>1, <1>2, ServerAssumption
<1>4. /\ inbuf' = [inbuf EXCEPT
           ![c] = inbuf[c] \o SubSeq(toServer[c], 1, n)]
      /\ toServer' = [toServer EXCEPT
           ![c] = SubSeq(toServer[c], n + 1, Len(toServer[c]))]
  BY DEF ReceivePackets, ProcessPackets, Unread
<1> HIDE DEF n
<1>5. \E m \in 1 .. Len(toServer[c]) :
        /\ inbuf' = [inbuf EXCEPT
             ![c] = inbuf[c] \o SubSeq(toServer[c], 1, m)]
        /\ toServer' = [toServer EXCEPT
             ![c] = SubSeq(toServer[c], m + 1, Len(toServer[c]))]
  <2> WITNESS n \in 1 .. Len(toServer[c])
  <2> QED
    BY <1>4
<1> QED
  BY <1>1, <1>5

LEMMA ReceiveTypes ==
  ASSUME StateTypeOK, ReceivePackets, UNCHANGED clientVars
  PROVE  StateTypeOK'
<1> DEFINE c == players[cursor]
<1>1. PICK n \in 1 .. Len(toServer[c]) :
        /\ inbuf' = [inbuf EXCEPT
             ![c] = inbuf[c] \o SubSeq(toServer[c], 1, n)]
        /\ toServer' = [toServer EXCEPT
             ![c] = SubSeq(toServer[c], n + 1, Len(toServer[c]))]
  BY ReceiveMoves
<1>2. /\ c \in Clients
      /\ inbuf[c] \in Seq(InputPacket) /\ toServer[c] \in Seq(InputPacket)
  BY ReceiveMoves, AtCursor
<1>3. /\ SubSeq(toServer[c], 1, n) \in Seq(InputPacket)
      /\ SubSeq(toServer[c], n + 1, Len(toServer[c])) \in Seq(InputPacket)
  BY <1>2, FirstPackets, LaterPackets
<1>4. inbuf[c] \o SubSeq(toServer[c], 1, n) \in Seq(InputPacket)
  BY <1>2, <1>3, ConcatProperties
<1>5. /\ cursor' = cursor + 1
      /\ UNCHANGED <<phase, loopVars, netVars, pid, pstate, lastSeq,
                     gameVars, link, backlog>>
  BY DEF ReceivePackets
<1> HIDE DEF c
<1>6. inbuf' \in [Clients -> Seq(InputPacket)]
  BY <1>1, <1>2, <1>4 DEF StateTypeOK, PlayerTypesOK
<1>7. toServer' \in [Clients -> Seq(InputPacket)]
  BY <1>1, <1>2, <1>3 DEF StateTypeOK, LinkTypesOK
<1> QED
  BY <1>5, <1>6, <1>7 DEF StateTypeOK, GameTypesOK, PlayerTypesOK,
    LinkTypesOK, loopVars, netVars, gameVars, clientVars

LEMMA EraseTypes ==
  ASSUME StateTypeOK, EraseDisconnected, UNCHANGED clientVars
  PROVE  StateTypeOK'
<1> DEFINE c == players[cursor]
           left == [i \in 1 .. Len(players) - 1 |->
                      IF i < cursor THEN players[i] ELSE players[i + 1]]
<1>1. /\ cursor \in DOMAIN players
      /\ inbuf' = [inbuf EXCEPT ![c] = <<>>]
      /\ players' = left
      /\ UNCHANGED <<phase, cursor, loopVars, nextPlayerId, descriptors,
                     pid, pstate, lastSeq, gameVars, linkVars>>
  BY DEF EraseDisconnected
<1>2. left \in Seq(Clients)
  BY <1>1, EraseType DEF StateTypeOK, PlayerTypesOK
<1>3. c \in Clients /\ <<>> \in Seq(InputPacket)
  BY <1>1, AtCursor
<1> HIDE DEF c, left
<1>4. inbuf' \in [Clients -> Seq(InputPacket)]
  BY <1>1, <1>3 DEF StateTypeOK, PlayerTypesOK
<1> QED
  BY <1>1, <1>2, <1>4 DEF StateTypeOK, GameTypesOK, PlayerTypesOK,
    LinkTypesOK, loopVars, gameVars, linkVars, clientVars

LEMMA PassTypes ==
  ASSUME StateTypeOK, UNCHANGED clientVars,
         ReceiveNothing \/ ReceiveDone \/ SendToClients \/ KilledBySigpipe
           \/ GetPlayers
  PROVE  StateTypeOK'
<1>1. UNCHANGED <<loopVars, nextPlayerId, players, descriptors, playerVars,
                  coins, link, backlog, toServer>>
  <2>1. CASE ReceiveNothing \/ ReceiveDone
    BY <2>1 DEF ReceiveNothing, ReceiveDone, netVars, gameVars, linkVars
  <2>2. CASE SendToClients
    BY <2>2 DEF SendToClients, gameVars
  <2>3. CASE KilledBySigpipe
    BY <2>3 DEF KilledBySigpipe, netVars, gameVars, linkVars
  <2>4. CASE GetPlayers
    BY <2>4 DEF GetPlayers, netVars, linkVars
  <2> QED
    BY <2>1, <2>2, <2>3, <2>4
<1>2. phase' \in Phases /\ cursor' \in Nat
  <2>1. phase \in Phases /\ cursor \in Nat
    BY DEF StateTypeOK, GameTypesOK
  <2>2. CASE ReceiveNothing
    BY <2>1, <2>2 DEF ReceiveNothing
  <2>3. CASE ReceiveDone
    BY <2>1, <2>3 DEF ReceiveDone, Phases
  <2>4. CASE SendToClients
    BY <2>1, <2>4 DEF SendToClients, Phases
  <2>5. CASE KilledBySigpipe
    BY <2>1, <2>5 DEF KilledBySigpipe, Phases
  <2>6. CASE GetPlayers
    BY <2>1, <2>6 DEF GetPlayers, Phases
  <2> QED
    BY <2>2, <2>3, <2>4, <2>5, <2>6
<1>3. gamePlayers' \in Seq(Clients)
  BY DEF ReceiveNothing, ReceiveDone, SendToClients, KilledBySigpipe,
    GetPlayers, StateTypeOK, GameTypesOK, PlayerTypesOK, gameVars
<1> QED
  BY <1>1, <1>2, <1>3 DEF StateTypeOK, GameTypesOK, PlayerTypesOK,
    LinkTypesOK, loopVars, playerVars, clientVars

\* What popInput does for the players in ready.
LEMMA PopTypes ==
  ASSUME StateTypeOK, NEW c \in Clients, inbuf[c] # <<>>
  PROVE  /\ inbuf[c] \in Seq(InputPacket)
         /\ Head(inbuf[c]) \in InputPacket
         /\ Tail(inbuf[c]) \in Seq(InputPacket)
         /\ [pstate[c] EXCEPT !.position = Moved(c)] \in PlayerState
<1>1. inbuf[c] \in Seq(InputPacket) /\ pstate[c] \in PlayerState
  BY DEF StateTypeOK, PlayerTypesOK
<1>2. Head(inbuf[c]) \in InputPacket /\ Tail(inbuf[c]) \in Seq(InputPacket)
  BY <1>1, HeadTailProperties
<1> QED
  BY <1>1, <1>2, MovedType DEF Moved

LEMMA ProcessTypes ==
  ASSUME StateTypeOK, ProcessInputs, UNCHANGED clientVars
  PROVE  StateTypeOK'
<1>1. PICK ready \in SUBSET {c \in Members(gamePlayers) : Poppable(c)} :
        /\ pstate' = [c \in Clients |->
             IF c \in ready THEN [pstate[c] EXCEPT !.position = Moved(c)]
                            ELSE pstate[c]]
        /\ lastSeq' = [c \in Clients |->
             IF c \in ready THEN Head(inbuf[c]).seq ELSE lastSeq[c]]
        /\ inbuf' = [c \in Clients |->
             IF c \in ready THEN Tail(inbuf[c]) ELSE inbuf[c]]
  BY DEF ProcessInputs
<1>2. \A c \in ready : inbuf[c] # <<>>
  BY <1>1 DEF Poppable
<1>3. /\ \A c \in Clients : pstate[c] \in PlayerState
      /\ \A c \in Clients : lastSeq[c] \in Nat
      /\ \A c \in Clients : inbuf[c] \in Seq(InputPacket)
  BY DEF StateTypeOK, PlayerTypesOK
<1>4. \A e \in InputPacket : e.seq \in Nat
  BY DEF InputPacket
<1>5. \A c \in Clients :
        (IF c \in ready THEN [pstate[c] EXCEPT !.position = Moved(c)]
                        ELSE pstate[c]) \in PlayerState
  BY <1>2, <1>3, PopTypes
<1>6. \A c \in Clients :
        (IF c \in ready THEN Head(inbuf[c]).seq ELSE lastSeq[c]) \in Nat
  BY <1>2, <1>3, <1>4, PopTypes
<1>7. \A c \in Clients :
        (IF c \in ready THEN Tail(inbuf[c]) ELSE inbuf[c]) \in Seq(InputPacket)
  BY <1>2, <1>3, PopTypes
<1>8. /\ pstate' \in [Clients -> PlayerState]
      /\ lastSeq' \in [Clients -> Nat]
      /\ inbuf' \in [Clients -> Seq(InputPacket)]
  BY <1>1, <1>5, <1>6, <1>7
<1>9. /\ phase' = "collide" /\ cursor' = 1
      /\ UNCHANGED <<loopVars, netVars, pid, gameVars, linkVars>>
  BY DEF ProcessInputs
<1>10. GameTypesOK'
  BY <1>9 DEF StateTypeOK, GameTypesOK, Phases, loopVars, gameVars
<1> QED
  BY <1>8, <1>9, <1>10 DEF StateTypeOK, PlayerTypesOK, LinkTypesOK, netVars,
    linkVars, clientVars

LEMMA ScoredType ==
  ASSUME NEW p \in PlayerState, NEW n \in Nat
  PROVE  [p EXCEPT !.score = p.score + n] \in PlayerState
BY DEF PlayerState

LEMMA PointsType ==
  ASSUME NEW hits \in SUBSET Coins
  PROVE  Points(hits) \in Nat
<1>1. IsFiniteSet(Coins)
  BY ServerAssumption
<1>2. IsFiniteSet(hits)
  BY <1>1, FS_Subset
<1>3. Cardinality(hits) \in Nat
  BY <1>2, FS_CardinalityType
<1> QED
  BY <1>3 DEF Points

\* What a pass of checkCollisions does to the players.
LEMMA CollisionScores ==
  ASSUME StateTypeOK, CheckCollisions
  PROVE  \E c \in Clients, n \in Nat :
           pstate' = [pstate EXCEPT
             ![c] = [pstate[c] EXCEPT !.score = pstate[c].score + n]]
<1> DEFINE c    == gamePlayers[cursor]
           hits == {k \in Coins :
                      CheckCollision(pstate[c].position, coins[k].position)}
           n    == Points(hits)
<1>1. c \in Clients
  BY DEF CheckCollisions, StateTypeOK, GameTypesOK
<1>2. n \in Nat
  <2>1. hits \in SUBSET Coins
    OBVIOUS
  <2> HIDE DEF hits
  <2> QED
    BY <2>1, PointsType
<1>3. pstate' = [pstate EXCEPT
        ![c] = [pstate[c] EXCEPT !.score = pstate[c].score + n]]
  BY Zenon DEF CheckCollisions
<1> HIDE DEF c, n
<1> WITNESS c \in Clients, n \in Nat
<1> QED
  BY Zenon, <1>3

LEMMA CollideTypes ==
  ASSUME StateTypeOK, CheckCollisions, UNCHANGED clientVars
  PROVE  StateTypeOK'
<1>1. pstate' \in [Clients -> PlayerState]
  <2>1. PICK c \in Clients, n \in Nat :
          pstate' = [pstate EXCEPT
            ![c] = [pstate[c] EXCEPT !.score = pstate[c].score + n]]
    BY CollisionScores
  <2>2. pstate \in [Clients -> PlayerState]
    BY DEF StateTypeOK, PlayerTypesOK
  <2>3. [pstate[c] EXCEPT !.score = pstate[c].score + n] \in PlayerState
    BY <2>2, ScoredType
  <2> QED
    BY <2>1, <2>2, <2>3
<1>2. coins' \in [Coins -> CoinState]
  <2> DEFINE hits == {k \in Coins :
                        CheckCollision(pstate[gamePlayers[cursor]].position,
                                       coins[k].position)}
  <2>1. PICK place \in [hits -> CoinPositions] :
          coins' = [k \in Coins |->
            IF k \in hits
              THEN [position   |-> place[k],
                    appearance |-> coins[k].appearance + 1]
              ELSE coins[k]]
    BY DEF CheckCollisions
  <2> HIDE DEF hits
  <2>2. \A k \in hits : place[k] \in CoinPositions
    BY <2>1
  <2>3. \A k \in Coins : coins[k] \in CoinState
    BY DEF StateTypeOK, GameTypesOK
  <2>4. \A k \in Coins : coins'[k] \in CoinState
    BY <2>1, <2>2, <2>3 DEF CoinState
  <2> QED
    BY <2>1, <2>4
<1>3. /\ cursor' = cursor + 1
      /\ UNCHANGED <<phase, loopVars, netVars, pid, inbuf, lastSeq,
                     gamePlayers, linkVars>>
  BY DEF CheckCollisions
<1> QED
  BY <1>1, <1>2, <1>3 DEF StateTypeOK, GameTypesOK, PlayerTypesOK,
    LinkTypesOK, loopVars, netVars, linkVars, clientVars

LEMMA BroadcastTypes ==
  ASSUME StateTypeOK, BroadcastAndEndTick, due > 0, UNCHANGED clientVars
  PROVE  StateTypeOK'
<1>1. currentTick' \in 0 .. TICK_MOD - 1
  BY ServerAssumption DEF BroadcastAndEndTick, NextTick, StateTypeOK,
    GameTypesOK
<1>2. due' \in 0 .. FRAME_CAP
  BY ServerAssumption DEF BroadcastAndEndTick, StateTypeOK, GameTypesOK
<1>3. /\ phase' \in Phases
      /\ UNCHANGED <<cursor, running, nextPlayerId, players, descriptors,
                     playerVars, gameVars, linkVars>>
  BY DEF BroadcastAndEndTick, Phases
<1> QED
  BY <1>1, <1>2, <1>3 DEF StateTypeOK, GameTypesOK, PlayerTypesOK,
    LinkTypesOK, playerVars, gameVars, linkVars, clientVars

\* While a tick is under way the frame owes at least this one.
TickOwed == phase \in Phases \ {"frame", "stopped", "dead"} => due > 0

LEMMA TickOwedKept ==
  ASSUME StateTypeOK, TickOwed, Next
  PROVE  TickOwed'
<1>1. phase \in Phases /\ due \in Nat
  BY ServerAssumption DEF StateTypeOK, GameTypesOK
<1>2. CASE Frame \/ Stop \/ Signal
  BY <1>1, <1>2 DEF Frame, Stop, Signal, TickOwed, Phases, loopVars
<1>3. CASE BroadcastAndEndTick
  BY <1>1, <1>3 DEF BroadcastAndEndTick, TickOwed, Phases
<1>4. CASE AcceptNewClients \/ SendToClients \/ KilledBySigpipe
             \/ GetPlayers \/ ProcessInputs
  <2>1. UNCHANGED loopVars /\ phase \in {"accept", "send", "list", "inputs"}
    BY <1>4 DEF AcceptNewClients, SendToClients, KilledBySigpipe, GetPlayers,
      ProcessInputs
  <2> QED
    BY <1>1, <2>1 DEF TickOwed, Phases, loopVars
<1>5. CASE ReceiveFromClients \/ CheckCollisions
  <2>1. UNCHANGED loopVars /\ phase \in {"receive", "collide"}
    BY <1>5 DEF ReceiveFromClients, ReceivePackets, EraseDisconnected,
      ReceiveNothing, ReceiveDone, CheckCollisions
  <2> QED
    BY <1>1, <2>1 DEF TickOwed, Phases, loopVars
<1>6. ASSUME NEW c \in Clients, ClientStep(c) PROVE TickOwed'
  <2>1. UNCHANGED serverVars
    BY <1>6 DEF ClientStep, Connect, SendInput, ReadPacket, Quit
  <2> QED
    BY <2>1 DEF serverVars, loopVars, TickOwed, Phases
<1> QED
  BY <1>2, <1>3, <1>4, <1>5, <1>6 DEF Next, Server, ServerStep

LEMMA ClientTypes ==
  ASSUME StateTypeOK, NEW c \in Clients, ClientStep(c)
  PROVE  StateTypeOK'
<1>0. link \in [Clients -> {"idle", "open", "closed"}]
  BY DEF StateTypeOK, LinkTypesOK
<1>1. CASE Connect(c)
  <2>1. /\ link' = [link EXCEPT ![c] = "open"]
        /\ backlog' = Append(backlog, c)
        /\ UNCHANGED <<toServer, sent, serverVars>>
    BY <1>1 DEF Connect, OpenLink, clientVars
  <2>2. link' \in [Clients -> {"idle", "open", "closed"}]
    BY <1>0, <2>1
  <2> QED
    BY <2>1, <2>2 DEF StateTypeOK, GameTypesOK, PlayerTypesOK, LinkTypesOK,
      serverVars, loopVars, netVars, playerVars, gameVars
<1>2. CASE SendInput(c)
  <2>1. PICK input \in Inputs :
          LET n     == Len(sent[c])
              start == IF n = 0 THEN pstate[c].position ELSE sent[c][n].leadsTo
          IN  /\ PutToServer(c, [seq |-> n + 1, input |-> input])
              /\ sent' = [sent EXCEPT ![c] = Append(sent[c],
                   [input |-> input, leadsTo |-> ApplyInput(start, input)])]
    BY <1>2 DEF SendInput
  <2> DEFINE n      == Len(sent[c])
             start  == IF n = 0 THEN pstate[c].position
                                ELSE sent[c][n].leadsTo
             packet == [seq |-> n + 1, input |-> input]
             entry  == [input |-> input, leadsTo |-> ApplyInput(start, input)]
  <2>2. /\ sent[c] \in Seq(SentInput) /\ pstate[c] \in PlayerState
        /\ toServer[c] \in Seq(InputPacket)
    BY DEF StateTypeOK, PlayerTypesOK, LinkTypesOK
  <2>3. n \in Nat /\ start \in Vec2
    <3>1. n \in Nat /\ pstate[c].position \in Vec2
      BY <2>2, PlayerStateFields
    <3>2. Reachable \subseteq Vec2
      BY WorldAssumption DEF Reachable, Vec2
    <3>3. ASSUME n # 0 PROVE sent[c][n].leadsTo \in Reachable
      <4>1. sent[c][n] \in SentInput
        BY <2>2, <3>1, <3>3
      <4> QED
        BY <4>1 DEF SentInput
    <3> QED
      BY <3>1, <3>2, <3>3
  <2>4. packet \in InputPacket
    BY <2>3 DEF InputPacket
  <2>5. entry \in SentInput
    <3>1. input \in InputState
      BY ServerAssumption
    <3>2. ApplyInput(start, input) \in Reachable
      BY <2>3, <3>1, StaysInWorld
    <3> QED
      BY <3>2 DEF SentInput
  <2>6. /\ toServer' = [toServer EXCEPT ![c] = Append(toServer[c], packet)]
        /\ sent' = [sent EXCEPT ![c] = Append(sent[c], entry)]
        /\ UNCHANGED <<link, backlog>>
    BY <2>1 DEF PutToServer
  <2> HIDE DEF packet, entry
  <2>7. Append(toServer[c], packet) \in Seq(InputPacket)
    BY <2>2, <2>4, AppendProperties
  <2>8. Append(sent[c], entry) \in Seq(SentInput)
    BY <2>2, <2>5, AppendProperties
  <2>9. LinkTypesOK'
    BY <2>6, <2>7, <2>8 DEF StateTypeOK, LinkTypesOK
  <2> QED
    BY <1>2, <2>9 DEF SendInput, StateTypeOK, GameTypesOK, PlayerTypesOK,
      serverVars, loopVars, netVars, playerVars, gameVars
<1>3. CASE ReadPacket(c)
  BY <1>3 DEF ReadPacket, TakeFromServer, StateTypeOK, GameTypesOK,
    PlayerTypesOK, LinkTypesOK, serverVars, loopVars, netVars, playerVars,
    gameVars
<1>4. CASE Quit(c)
  <2>1. /\ link' = [link EXCEPT ![c] = "closed"]
        /\ UNCHANGED <<backlog, toServer, sent, serverVars>>
    BY <1>4 DEF Quit, CloseLink, clientVars
  <2>2. link' \in [Clients -> {"idle", "open", "closed"}]
    BY <1>0, <2>1
  <2> QED
    BY <2>1, <2>2 DEF StateTypeOK, GameTypesOK, PlayerTypesOK, LinkTypesOK,
      serverVars, loopVars, netVars, playerVars, gameVars
<1> QED
  BY <1>1, <1>2, <1>3, <1>4 DEF ClientStep

\* Every step of the server and of a client keeps the types.
LEMMA NextTypes ==
  ASSUME StateTypeOK, TickOwed, Next
  PROVE  StateTypeOK'
<1>1. CASE Server
  <2>1. CASE BroadcastAndEndTick
    <3>1. due > 0
      BY <2>1 DEF BroadcastAndEndTick, TickOwed, Phases
    <3> QED
      BY <1>1, <2>1, <3>1, BroadcastTypes DEF Server
  <2>2. CASE ~BroadcastAndEndTick
    BY <1>1, <2>2, FrameTypes, AcceptTypes, ReceiveTypes, EraseTypes,
       PassTypes, ProcessTypes, CollideTypes
       DEF Server, ServerStep, ReceiveFromClients
  <2> QED
    BY <2>1, <2>2
<1>2. ASSUME NEW c \in Clients, ClientStep(c) PROVE StateTypeOK'
  BY <1>2, ClientTypes
<1> QED
  BY <1>1, <1>2 DEF Next

LEMMA IdleTypes ==
  ASSUME StateTypeOK, UNCHANGED vars
  PROVE  StateTypeOK'
BY DEF vars, serverVars, loopVars, netVars, playerVars, gameVars, linkVars,
  clientVars, StateTypeOK, GameTypesOK, PlayerTypesOK, LinkTypesOK

\* The variables of the server, the sockets and the inputs sent keep their
\* types: a player that has spawned never leaves the world, its id is one the
\* server has given out, and every packet in a queue is a numbered input.
THEOREM TypesKept == Spec => []StateTypeOK
<1>1. Init => StateTypeOK /\ TickOwed
  BY InitTypes DEF Init, InitServer, TickOwed
<1>2. StateTypeOK /\ TickOwed /\ [Next]_vars => (StateTypeOK /\ TickOwed)'
  <2>1. ASSUME StateTypeOK, TickOwed, UNCHANGED vars
        PROVE  StateTypeOK' /\ TickOwed'
    BY <2>1, IdleTypes DEF vars, serverVars, loopVars, TickOwed
  <2> QED
    BY <2>1, NextTypes, TickOwedKept
<1> QED
  BY <1>1, <1>2, PTL DEF Spec

-----------------------------------------------------------------------------
(* The packets on their way to a client: what happens to the order of the  *)
(* broadcasts when one is added, read, or left in the outgoing buffer.     *)

\* A broadcast in every third tick, over the wrap of the counter.
LEMMA TickArithmetic ==
  ASSUME NEW t \in 0 .. TICK_MOD - 1
  PROVE  /\ NextTick(t) \in 0 .. TICK_MOD - 1
         /\ BroadcastDue(t) =>
              /\ BroadcastFrom(t) = t
              /\ NextBroadcast(t) = BroadcastFrom(NextTick(t))
         /\ ~BroadcastDue(t) => BroadcastFrom(NextTick(t)) = BroadcastFrom(t)
<1>1. TICK_MOD \in Nat \ {0} /\ t \in Nat
  BY ServerAssumption
<1>2. CASE t + 1 = TICK_MOD
  <2>1. NextTick(t) = 0
    BY <1>1, <1>2 DEF NextTick
  <2> QED
    BY <1>1, <1>2, <2>1 DEF BroadcastDue, BroadcastFrom, NextBroadcast
<1>3. CASE t + 1 < TICK_MOD
  <2>1. NextTick(t) = t + 1
    BY <1>1, <1>3 DEF NextTick
  <2>2. t % 3 \in 0 .. 2 /\ (t + 1) % 3 = IF t % 3 = 2 THEN 0 ELSE (t % 3) + 1
    BY <1>1
  <2> QED
    BY <1>1, <1>3, <2>1, <2>2 DEF BroadcastDue, BroadcastFrom, NextBroadcast
<1> QED
  BY <1>1, <1>2, <1>3

\* What is known of a stream s of which the client has read up to seen.
Snapshots(s, last, now) ==
  /\ Unbroken(s) /\ UpToDate(s, now)
  /\ last # NoTick => Follows(s, last, now)

LEMMA WorldsAppend ==
  ASSUME NEW S, NEW s \in Seq(S), NEW m \in S
  PROVE  /\ Append(s, m) \in Seq(S) /\ Len(s) \in Nat
         /\ Worlds(s) \subseteq 1 .. Len(s)
         /\ \A i \in 1 .. Len(s) : Append(s, m)[i] = s[i]
         /\ Append(s, m)[Len(s) + 1] = m
         /\ Worlds(Append(s, m)) = IF m.kind = "world"
                                     THEN Worlds(s) \cup {Len(s) + 1}
                                     ELSE Worlds(s)
<1>1. /\ Append(s, m) \in Seq(S) /\ Len(s) \in Nat /\ DOMAIN s = 1 .. Len(s)
      /\ DOMAIN Append(s, m) = 1 .. Len(s) + 1
      /\ \A i \in 1 .. Len(s) : Append(s, m)[i] = s[i]
      /\ Append(s, m)[Len(s) + 1] = m
  BY AppendProperties
<1>2. ASSUME NEW i
      PROVE  i \in Worlds(Append(s, m))
               <=> i \in (IF m.kind = "world" THEN Worlds(s) \cup {Len(s) + 1}
                                              ELSE Worlds(s))
  BY <1>1 DEF Worlds
<1> QED
  BY <1>1, <1>2 DEF Worlds

\* The broadcast of a tick goes to the end.
LEMMA SnapshotsBroadcast ==
  ASSUME NEW S, NEW s \in Seq(S), NEW m \in S, NEW last,
         NEW t \in 0 .. TICK_MOD - 1, BroadcastDue(t),
         m.kind = "world", m.tick = t, Snapshots(s, last, t)
  PROVE  Snapshots(Append(s, m), last, NextTick(t))
<1> DEFINE u == Append(s, m)
           n == Len(s)
<1>1. /\ n \in Nat /\ Worlds(s) \subseteq 1 .. n
      /\ \A i \in 1 .. n : u[i] = s[i]
      /\ u[n + 1] = m /\ Worlds(u) = Worlds(s) \cup {n + 1}
  BY WorldsAppend
<1>2. /\ BroadcastFrom(t) = t
      /\ NextBroadcast(t) = BroadcastFrom(NextTick(t))
  BY TickArithmetic
<1> HIDE DEF u, n
<1>3. Unbroken(u)
  <2> SUFFICES ASSUME NEW i \in Worlds(u), NEW j \in Worlds(u), i < j,
                      \A k \in Worlds(u) : k <= i \/ j <= k
               PROVE  u[j].tick = NextBroadcast(u[i].tick)
    BY DEF Unbroken
  <2>1. i \in Worlds(s) /\ u[i] = s[i] /\ \A k \in Worlds(s) : k <= i \/ j <= k
    BY <1>1
  <2>2. CASE j \in Worlds(s)
    <3>1. u[j] = s[j]
      BY <1>1, <2>2
    <3> QED
      BY <2>1, <2>2, <3>1 DEF Snapshots, Unbroken
  <2>3. CASE j = n + 1
    <3>1. \A k \in Worlds(s) : k <= i
      BY <1>1, <2>1, <2>3
    <3>2. NextBroadcast(s[i].tick) = t
      BY <1>2, <2>1, <3>1 DEF Snapshots, UpToDate
    <3> QED
      BY <1>1, <2>1, <2>3, <3>2
  <2> QED
    BY <1>1, <2>2, <2>3
<1>4. UpToDate(u, NextTick(t))
  <2> SUFFICES ASSUME NEW i \in Worlds(u), \A k \in Worlds(u) : k <= i
               PROVE  NextBroadcast(u[i].tick) = BroadcastFrom(NextTick(t))
    BY DEF UpToDate
  <2>1. n + 1 \in Worlds(u) /\ i \in 1 .. n + 1
    BY <1>1
  <2>2. n + 1 <= i
    BY <2>1
  <2>3. i = n + 1
    BY <1>1, <2>1, <2>2
  <2> QED
    BY <1>1, <1>2, <2>3
<1>5. ASSUME last # NoTick PROVE Follows(u, last, NextTick(t))
  <2>1. Follows(s, last, t)
    BY <1>5 DEF Snapshots
  <2> SUFFICES ASSUME NEW i \in Worlds(u), \A k \in Worlds(u) : i <= k
               PROVE  u[i].tick = NextBroadcast(last)
    BY <1>1 DEF Follows
  <2>2. CASE Worlds(s) = {}
    BY <1>1, <1>2, <2>1, <2>2 DEF Follows
  <2>3. CASE Worlds(s) # {}
    <3>1. i \in Worlds(s)
      BY <1>1, <2>3
    <3> QED
      BY <1>1, <2>1, <2>3, <3>1 DEF Follows
  <2> QED
    BY <2>2, <2>3
<1> QED
  BY <1>3, <1>4, <1>5 DEF Snapshots, u

\* A tick without a broadcast.
LEMMA SnapshotsQuiet ==
  ASSUME NEW s, NEW last, NEW t \in 0 .. TICK_MOD - 1, ~BroadcastDue(t),
         Snapshots(s, last, t)
  PROVE  Snapshots(s, last, NextTick(t))
BY TickArithmetic DEF Snapshots, UpToDate, Follows

\* A welcome goes to the end.
LEMMA SnapshotsWelcome ==
  ASSUME NEW S, NEW s \in Seq(S), NEW m \in S, NEW last, NEW now,
         m.kind # "world", Snapshots(s, last, now)
  PROVE  Snapshots(Append(s, m), last, now)
<1> DEFINE u == Append(s, m)
<1>1. /\ Worlds(s) \subseteq 1 .. Len(s) /\ Worlds(u) = Worlds(s)
      /\ \A i \in 1 .. Len(s) : u[i] = s[i]
  BY WorldsAppend
<1>2. \A i \in Worlds(s) : u[i] = s[i]
  BY <1>1
<1> HIDE DEF u
<1>3. Unbroken(u)
  BY <1>1, <1>2 DEF Snapshots, Unbroken
<1>4. UpToDate(u, now)
  BY <1>1, <1>2 DEF Snapshots, UpToDate
<1>5. ASSUME last # NoTick PROVE Follows(u, last, now)
  BY <1>1, <1>2, <1>5 DEF Snapshots, Follows
<1> QED
  BY <1>3, <1>4, <1>5 DEF Snapshots, u

\* After its first n packets s has the world states of b.
EndsLike(s, n, b) ==
  /\ \A i \in Worlds(b) :
       i \in Nat \ {0} /\ n + i \in Worlds(s) /\ s[n + i] = b[i]
  /\ \A k \in Worlds(s) : k \in Nat /\ (k <= n \/ k - n \in Worlds(b))

LEMMA WorldsConcat ==
  ASSUME NEW S, NEW a \in Seq(S), NEW b \in Seq(S)
  PROVE  Len(a) \in Nat /\ EndsLike(a \o b, Len(a), b)
<1> DEFINE u == a \o b
<1>1. /\ Len(a) \in Nat /\ Len(b) \in Nat
      /\ DOMAIN a = 1 .. Len(a) /\ DOMAIN b = 1 .. Len(b)
      /\ DOMAIN u = 1 .. Len(a) + Len(b)
      /\ \A i \in 1 .. Len(a) + Len(b) :
           u[i] = IF i <= Len(a) THEN a[i] ELSE b[i - Len(a)]
  <2>1. /\ u \in Seq(S) /\ Len(u) = Len(a) + Len(b)
        /\ \A i \in 1 .. Len(a) + Len(b) :
             u[i] = IF i <= Len(a) THEN a[i] ELSE b[i - Len(a)]
    BY ConcatProperties
  <2> HIDE DEF u
  <2> QED
    BY <2>1
<1> HIDE DEF u
<1>2. ASSUME NEW i \in Worlds(b)
      PROVE  /\ i \in Nat \ {0} /\ Len(a) + i \in Worlds(u)
             /\ u[Len(a) + i] = b[i]
  <2>1. i \in 1 .. Len(b) /\ b[i].kind = "world"
    BY <1>1 DEF Worlds
  <2>2. /\ Len(a) + i \in 1 .. Len(a) + Len(b) /\ ~(Len(a) + i <= Len(a))
        /\ Len(a) + i - Len(a) = i
    BY <1>1, <2>1
  <2>3. u[Len(a) + i] = b[Len(a) + i - Len(a)]
    BY <1>1, <2>1, <2>2
  <2> QED
    BY <1>1, <2>1, <2>2, <2>3 DEF Worlds
<1>3. ASSUME NEW k \in Worlds(u)
      PROVE  k \in Nat /\ (k <= Len(a) \/ k - Len(a) \in Worlds(b))
  <2>1. k \in 1 .. Len(a) + Len(b) /\ u[k].kind = "world"
    BY <1>1 DEF Worlds
  <2>2. CASE ~(k <= Len(a))
    <3>1. u[k] = b[k - Len(a)] /\ k - Len(a) \in 1 .. Len(b)
      BY <1>1, <2>1, <2>2
    <3> QED
      BY <1>1, <2>1, <3>1 DEF Worlds
  <2> QED
    BY <1>1, <2>1, <2>2
<1> QED
  BY <1>1, <1>2, <1>3 DEF u, EndsLike

\* The end of a stream is a stream.
LEMMA SnapshotsSuffix ==
  ASSUME NEW S, NEW a \in Seq(S), NEW b \in Seq(S), NEW now,
         Snapshots(a \o b, NoTick, now)
  PROVE  Snapshots(b, NoTick, now)
<1> DEFINE s == a \o b
           n == Len(a)
<1>1. /\ n \in Nat
      /\ \A i \in Worlds(b) :
           i \in Nat \ {0} /\ n + i \in Worlds(s) /\ s[n + i] = b[i]
      /\ \A k \in Worlds(s) : k \in Nat /\ (k <= n \/ k - n \in Worlds(b))
  BY WorldsConcat DEF EndsLike
<1>2. Unbroken(s) /\ UpToDate(s, now)
  BY DEF Snapshots
<1> HIDE DEF s, n
<1>3. Unbroken(b)
  <2> SUFFICES ASSUME NEW i \in Worlds(b), NEW j \in Worlds(b), i < j,
                      \A k \in Worlds(b) : k <= i \/ j <= k
               PROVE  b[j].tick = NextBroadcast(b[i].tick)
    BY DEF Unbroken
  <2>1. /\ n + i \in Worlds(s) /\ n + j \in Worlds(s) /\ n + i < n + j
        /\ s[n + i] = b[i] /\ s[n + j] = b[j]
    BY <1>1
  <2>2. ASSUME NEW k \in Worlds(s) PROVE k <= n + i \/ n + j <= k
    <3>1. /\ k \in Nat /\ i \in Nat /\ j \in Nat
          /\ k <= n \/ k - n \in Worlds(b)
      BY <1>1
    <3>2. CASE k - n \in Worlds(b)
      <4>1. k - n <= i \/ j <= k - n
        BY <3>2
      <4> QED
        BY <1>1, <3>1, <4>1
    <3> QED
      BY <1>1, <3>1, <3>2
  <2> QED
    BY <1>2, <2>1, <2>2 DEF Unbroken
<1>4. UpToDate(b, now)
  <2> SUFFICES ASSUME NEW i \in Worlds(b), \A k \in Worlds(b) : k <= i
               PROVE  NextBroadcast(b[i].tick) = BroadcastFrom(now)
    BY DEF UpToDate
  <2>1. /\ n + i \in Worlds(s) /\ s[n + i] = b[i]
        /\ \A k \in Worlds(s) : k <= n + i
    BY <1>1
  <2> QED
    BY <1>2, <2>1 DEF UpToDate
<1> QED
  BY <1>3, <1>4 DEF Snapshots

\* The client reads the next packet.
LEMMA SnapshotsRead ==
  ASSUME NEW S, NEW h \in S, NEW b \in Seq(S), NEW last, NEW now,
         Snapshots(<<h>> \o b, last, now)
  PROVE  Snapshots(b, IF h.kind = "world" THEN h.tick ELSE last, now)
<1> DEFINE a == <<h>>
           s == a \o b
<1>1. a \in Seq(S) /\ Len(a) = 1 /\ a[1] = h
  OBVIOUS
<1>2. /\ \A i \in Worlds(b) :
           i \in Nat \ {0} /\ 1 + i \in Worlds(s) /\ s[1 + i] = b[i]
      /\ \A k \in Worlds(s) : k \in Nat /\ (k <= 1 \/ k - 1 \in Worlds(b))
  <2> HIDE DEF a
  <2>1. EndsLike(s, 1, b)
    BY <1>1, WorldsConcat
  <2> QED
    BY <2>1 DEF EndsLike
<1>3. s[1] = h /\ (1 \in Worlds(s) <=> h.kind = "world") /\ 0 \notin Worlds(s)
  <2> HIDE DEF a
  <2>1. /\ s \in Seq(S) /\ Len(s) = Len(a) + Len(b) /\ Len(b) \in Nat
        /\ s[1] = IF 1 <= Len(a) THEN a[1] ELSE b[1 - Len(a)]
    BY <1>1, ConcatProperties
  <2>2. DOMAIN s = 1 .. 1 + Len(b) /\ 1 \in DOMAIN s /\ 0 \notin DOMAIN s
    BY <1>1, <2>1
  <2> QED
    BY <1>1, <2>1, <2>2 DEF Worlds
<1>4. Snapshots(b, NoTick, now)
  <2>1. Snapshots(s, NoTick, now)
    BY DEF Snapshots
  <2> HIDE DEF a
  <2> QED
    BY <1>1, <2>1, SnapshotsSuffix
<1>5. Unbroken(s) /\ UpToDate(s, now) /\ (last # NoTick => Follows(s, last, now))
  BY DEF Snapshots
<1> HIDE DEF s
<1>6. CASE h.kind = "world"
  <2>1. CASE Worlds(b) = {}
    <3>1. 1 \in Worlds(s) /\ \A k \in Worlds(s) : k <= 1
      BY <1>2, <1>3, <1>6, <2>1
    <3>2. NextBroadcast(h.tick) = BroadcastFrom(now)
      BY <1>3, <1>5, <3>1 DEF UpToDate
    <3> QED
      BY <1>4, <1>6, <2>1, <3>2 DEF Snapshots, Follows
  <2>2. CASE Worlds(b) # {}
    <3>1. ASSUME NEW i \in Worlds(b), \A k \in Worlds(b) : i <= k
          PROVE  b[i].tick = NextBroadcast(h.tick)
      <4>1. /\ 1 \in Worlds(s) /\ 1 + i \in Worlds(s) /\ 1 < 1 + i
            /\ s[1 + i] = b[i]
        BY <1>2, <1>3, <1>6
      <4>2. \A k \in Worlds(s) : k <= 1 \/ 1 + i <= k
        BY <1>2, <3>1
      <4> QED
        BY <1>3, <1>5, <4>1, <4>2 DEF Unbroken
    <3> QED
      BY <1>4, <1>6, <2>2, <3>1 DEF Snapshots, Follows
  <2> QED
    BY <2>1, <2>2
<1>7. CASE h.kind # "world"
  <2>1. ASSUME last # NoTick PROVE Follows(b, last, now)
    <3>1. Follows(s, last, now)
      BY <1>5, <2>1
    <3>2. CASE Worlds(b) = {}
      <4>1. Worlds(s) = {}
        BY <1>2, <1>3, <1>7, <3>2
      <4> QED
        BY <3>1, <3>2, <4>1 DEF Follows
    <3>3. CASE Worlds(b) # {}
      <4>1. ASSUME NEW i \in Worlds(b), \A k \in Worlds(b) : i <= k
            PROVE  b[i].tick = NextBroadcast(last)
        <5>1. 1 + i \in Worlds(s) /\ s[1 + i] = b[i]
          BY <1>2
        <5>2. \A k \in Worlds(s) : 1 + i <= k
          BY <1>2, <1>3, <1>7, <4>1
        <5> QED
          BY <3>1, <5>1, <5>2 DEF Follows
      <4> QED
        BY <3>3, <4>1 DEF Follows
    <3> QED
      BY <3>2, <3>3
  <2> QED
    BY <1>4, <1>7, <2>1 DEF Snapshots
<1> QED
  BY <1>6, <1>7

-----------------------------------------------------------------------------
(* The welcome among them.                                                 *)

LEMMA BehindFirst ==
  ASSUME NEW S, NEW h \in S, NEW b \in Seq(S), NEW s, s = <<h>> \o b
  PROVE  /\ s \in Seq(S) /\ Len(b) \in Nat /\ DOMAIN b = 1 .. Len(b)
         /\ DOMAIN s = 1 .. Len(b) + 1 /\ s[1] = h
         /\ \A i \in 1 .. Len(b) : s[i + 1] = b[i]
<1> DEFINE a == <<h>>
<1>1. a \in Seq(S) /\ Len(a) = 1 /\ a[1] = h /\ Len(b) \in Nat
  OBVIOUS
<1> HIDE DEF a
<1>2. /\ s \in Seq(S) /\ Len(s) = Len(a) + Len(b)
      /\ \A i \in 1 .. Len(a) + Len(b) :
           s[i] = IF i <= Len(a) THEN a[i] ELSE b[i - Len(a)]
  BY <1>1, ConcatProperties DEF a
<1>3. \A i \in 1 .. Len(b) : s[i + 1] = b[i]
  <2> SUFFICES ASSUME NEW i \in 1 .. Len(b) PROVE s[i + 1] = b[i]
    OBVIOUS
  <2>1. /\ i + 1 \in 1 .. Len(a) + Len(b) /\ ~(i + 1 <= Len(a))
        /\ i + 1 - Len(a) = i
    BY <1>1
  <2> QED
    BY <1>2, <2>1
<1> QED
  BY <1>1, <1>2, <1>3

\* A broadcast goes to the end.
LEMMA OneWelcomeBroadcast ==
  ASSUME NEW S, NEW s \in Seq(S), NEW m \in S, NEW known, NEW id,
         m.kind = "world", OneWelcome(s, known, id)
  PROVE  OneWelcome(Append(s, m), known, id)
<1> DEFINE u == Append(s, m)
           welcomes == {i \in DOMAIN s : s[i].kind = "welcome"}
<1>1. /\ Len(s) \in Nat /\ DOMAIN s = 1 .. Len(s)
      /\ DOMAIN u = 1 .. Len(s) + 1
      /\ \A i \in 1 .. Len(s) : u[i] = s[i]
      /\ u[Len(s) + 1] = m
  BY AppendProperties
<1>2. {i \in DOMAIN u : u[i].kind = "welcome"} = welcomes
  BY <1>1
<1>3. CASE known # 0
  BY <1>2, <1>3 DEF OneWelcome
<1>4. CASE known = 0
  <2>1. PICK w \in DOMAIN s :
          /\ welcomes = {w} /\ s[w].id = id
          /\ \A i \in 1 .. w - 1 : id \notin s[i].ids
    BY <1>4 DEF OneWelcome
  <2>2. /\ w \in DOMAIN u /\ u[w].id = id
        /\ \A i \in 1 .. w - 1 : id \notin u[i].ids
    BY <1>1, <2>1
  <2> QED
    BY <1>2, <1>4, <2>1, <2>2 DEF OneWelcome
<1> QED
  BY <1>3, <1>4

\* The welcome goes to the end of a stream that does not mention its id.
LEMMA OneWelcomeNew ==
  ASSUME NEW S, NEW s \in Seq(S), NEW m \in S, m.kind = "welcome",
         \A i \in DOMAIN s : s[i].kind # "welcome" /\ m.id \notin s[i].ids
  PROVE  OneWelcome(Append(s, m), 0, m.id)
<1> DEFINE u == Append(s, m)
           n == Len(s) + 1
<1>1. /\ Len(s) \in Nat /\ DOMAIN s = 1 .. Len(s)
      /\ DOMAIN u = 1 .. n
      /\ \A i \in 1 .. Len(s) : u[i] = s[i]
      /\ u[n] = m
  BY AppendProperties
<1>2. n \in DOMAIN u /\ {i \in DOMAIN u : u[i].kind = "welcome"} = {n}
  BY <1>1
<1>3. \A i \in 1 .. n - 1 : m.id \notin u[i].ids
  BY <1>1
<1> QED
  BY <1>1, <1>2, <1>3 DEF OneWelcome

\* The client reads the next packet, which may be the welcome.
LEMMA OneWelcomeRead ==
  ASSUME NEW S, NEW h \in S, NEW b \in Seq(S), NEW known, NEW id, id # 0,
         OneWelcome(<<h>> \o b, known, id)
  PROVE  OneWelcome(b, IF h.kind = "welcome" THEN h.id ELSE known, id)
<1> DEFINE s == <<h>> \o b
           in(q) == {i \in DOMAIN q : q[i].kind = "welcome"}
<1>1. /\ Len(b) \in Nat /\ DOMAIN b = 1 .. Len(b)
      /\ DOMAIN s = 1 .. Len(b) + 1 /\ s[1] = h
      /\ \A i \in 1 .. Len(b) : s[i + 1] = b[i]
  BY BehindFirst
<1> HIDE DEF s
<1>2. /\ 1 \in in(s) <=> h.kind = "welcome"
      /\ \A i \in in(b) : i \in 1 .. Len(b) /\ i + 1 \in in(s)
      /\ \A k \in in(s) : k \in 1 .. Len(b) + 1 /\ (k = 1 \/ k - 1 \in in(b))
  <2>1. \A k \in 1 .. Len(b) + 1 :
          k = 1 \/ (k - 1 \in 1 .. Len(b) /\ s[k] = b[k - 1])
    <3> SUFFICES ASSUME NEW k \in 1 .. Len(b) + 1, k # 1
                 PROVE  k - 1 \in 1 .. Len(b) /\ s[k] = b[k - 1]
      OBVIOUS
    <3>1. k - 1 \in 1 .. Len(b) /\ (k - 1) + 1 = k
      BY <1>1
    <3> QED
      BY <1>1, <3>1
  <2> QED
    BY <1>1, <2>1
<1> HIDE DEF in
<1>3. CASE known # 0
  <2>1. known = id /\ in(s) = {}
    BY <1>3 DEF OneWelcome, in, s
  <2>2. in(b) = {} /\ h.kind # "welcome"
    BY <1>2, <2>1
  <2> QED
    BY <1>3, <2>1, <2>2 DEF OneWelcome, in
<1>4. CASE known = 0
  <2>1. PICK w \in DOMAIN s :
          /\ in(s) = {w} /\ s[w].id = id
          /\ \A i \in 1 .. w - 1 : id \notin s[i].ids
    BY <1>4 DEF OneWelcome, in, s
  <2>2. CASE w = 1
    <3>1. h.kind = "welcome" /\ h.id = id
      BY <1>1, <1>2, <2>1, <2>2
    <3>2. in(b) = {}
      <4>1. ASSUME NEW i \in in(b) PROVE FALSE
        <5>1. i \in 1 .. Len(b) /\ i + 1 = 1
          BY <1>2, <2>1, <2>2
        <5> QED
          BY <1>1, <5>1
      <4> QED
        BY <4>1
    <3> QED
      BY <3>1, <3>2 DEF OneWelcome, in
  <2>3. CASE w # 1
    <3>1. /\ h.kind # "welcome" /\ w \in 1 .. Len(b) + 1
          /\ w - 1 \in in(b) /\ w - 1 \in 1 .. Len(b) /\ (w - 1) + 1 = w
      BY <1>1, <1>2, <2>1, <2>3
    <3>2. in(b) = {w - 1}
      <4>1. ASSUME NEW i \in in(b) PROVE i = w - 1
        <5>1. i \in 1 .. Len(b) /\ i + 1 = w
          BY <1>2, <2>1
        <5> QED
          BY <1>1, <3>1, <5>1
      <4> QED
        BY <3>1, <4>1
    <3>3. b[w - 1].id = id
      BY <1>1, <2>1, <3>1
    <3>4. ASSUME NEW i \in 1 .. (w - 1) - 1 PROVE id \notin b[i].ids
      <4>1. i \in 1 .. Len(b) /\ i + 1 \in 1 .. w - 1
        BY <1>1, <3>1
      <4> QED
        BY <1>1, <2>1, <4>1
    <3>5. w - 1 \in DOMAIN b
      BY <1>1, <3>1
    <3> QED
      BY <1>4, <3>1, <3>2, <3>3, <3>4, <3>5 DEF OneWelcome, in
  <2> QED
    BY <2>2, <2>3
<1> QED
  BY <1>3, <1>4

-----------------------------------------------------------------------------
(* The owning list and the list a tick works on.                           *)

LEMMA DanglingStep ==
  ASSUME NoDanglingPlayer, [Next]_vars
  PROVE  NoDanglingPlayer'
<1>1. CASE Frame \/ Stop \/ Signal
  BY <1>1 DEF Frame, Stop, Signal, NoDanglingPlayer, gameVars, netVars
<1>2. CASE AcceptNewClients \/ ReceiveDone \/ SendToClients
             \/ KilledBySigpipe \/ BroadcastAndEndTick
  <2>1. phase' \in {"receive", "send", "list", "dead", "accept", "frame"}
    BY <1>2 DEF AcceptNewClients, ReceiveDone, SendToClients,
      KilledBySigpipe, BroadcastAndEndTick
  <2> QED
    BY <2>1 DEF NoDanglingPlayer
<1>3. CASE ReceivePackets \/ EraseDisconnected \/ ReceiveNothing
  <2>1. phase' = "receive"
    BY <1>3 DEF ReceivePackets, EraseDisconnected, ReceiveNothing
  <2> QED
    BY <2>1 DEF NoDanglingPlayer
<1>4. CASE GetPlayers
  BY <1>4 DEF GetPlayers, netVars, NoDanglingPlayer
<1>5. CASE ProcessInputs \/ CheckCollisions
  <2>1. /\ phase \in {"inputs", "collide"}
        /\ UNCHANGED <<players, gamePlayers>>
    BY <1>5 DEF ProcessInputs, CheckCollisions, netVars, gameVars
  <2> QED
    BY <2>1 DEF NoDanglingPlayer
<1>6. ASSUME NEW c \in Clients, ClientStep(c) PROVE NoDanglingPlayer'
  <2>1. UNCHANGED serverVars
    BY <1>6 DEF ClientStep, Connect, SendInput, ReadPacket, Quit
  <2> QED
    BY <2>1 DEF serverVars, netVars, gameVars, NoDanglingPlayer
<1>7. CASE UNCHANGED vars
  BY <1>7 DEF vars, serverVars, netVars, gameVars, NoDanglingPlayer
<1> QED
  BY <1>1, <1>2, <1>3, <1>4, <1>5, <1>6, <1>7
     DEF Next, Server, ServerStep, ReceiveFromClients

\* GameServer::players_ holds raw pointers into the list that
\* receiveFromClients erases from: no tick ever follows one to a player that
\* is gone.
THEOREM NoDangling == Spec => []NoDanglingPlayer
<1>1. Init => NoDanglingPlayer
  BY DEF Init, InitServer, NoDanglingPlayer
<1>2. NoDanglingPlayer /\ [Next]_vars => NoDanglingPlayer'
  BY DanglingStep
<1> QED
  BY <1>1, <1>2, PTL DEF Spec

-----------------------------------------------------------------------------
(* Lists without repetition.                                               *)

Distinct(list) == \A i, j \in DOMAIN list : list[i] = list[j] => i = j

LEMMA DistinctAppend ==
  ASSUME NEW S, NEW s \in Seq(S), NEW e \in S, Distinct(s), e \notin Members(s)
  PROVE  Distinct(Append(s, e)) /\ Members(Append(s, e)) = Members(s) \cup {e}
<1>1. /\ Len(s) \in Nat /\ DOMAIN s = 1 .. Len(s)
      /\ DOMAIN Append(s, e) = 1 .. Len(s) + 1
      /\ \A i \in 1 .. Len(s) : Append(s, e)[i] = s[i]
      /\ Append(s, e)[Len(s) + 1] = e
  BY AppendProperties
<1>2. \A i \in 1 .. Len(s) : s[i] # e
  BY <1>1 DEF Members
<1>3. Distinct(Append(s, e))
  BY <1>1, <1>2 DEF Distinct
<1>4. ASSUME NEW x PROVE x \in Members(Append(s, e)) <=> x \in Members(s) \cup {e}
  BY <1>1 DEF Members
<1> QED
  BY <1>3, <1>4

LEMMA DistinctTail ==
  ASSUME NEW S, NEW s \in Seq(S), s # <<>>, Distinct(s)
  PROVE  /\ Distinct(Tail(s)) /\ Members(Tail(s)) \subseteq Members(s)
         /\ Head(s) \in Members(s) /\ Head(s) \notin Members(Tail(s))
<1>1. /\ Len(s) \in Nat \ {0} /\ DOMAIN s = 1 .. Len(s) /\ Head(s) = s[1]
      /\ DOMAIN Tail(s) = 1 .. Len(s) - 1
      /\ \A i \in 1 .. Len(s) - 1 : Tail(s)[i] = s[i + 1]
  BY HeadTailProperties
<1>2. \A i \in DOMAIN Tail(s) : i + 1 \in DOMAIN s /\ i + 1 # 1
  BY <1>1
<1>3. 1 \in DOMAIN s
  BY <1>1
<1>4. Distinct(Tail(s))
  BY <1>1, <1>2 DEF Distinct
<1>5. Members(Tail(s)) \subseteq Members(s) /\ Head(s) \in Members(s)
  BY <1>1, <1>2, <1>3 DEF Members
<1>6. Head(s) \notin Members(Tail(s))
  BY <1>1, <1>2, <1>3 DEF Members, Distinct
<1> QED
  BY <1>4, <1>5, <1>6

LEMMA DistinctErase ==
  ASSUME NEW S, NEW s \in Seq(S), NEW k \in DOMAIN s, Distinct(s), NEW t,
         t = [i \in 1 .. Len(s) - 1 |-> IF i < k THEN s[i] ELSE s[i + 1]]
  PROVE  Distinct(t) /\ Members(t) \subseteq Members(s) \ {s[k]}
<1>1. /\ Len(s) \in Nat /\ k \in 1 .. Len(s) /\ DOMAIN s = 1 .. Len(s)
      /\ DOMAIN t = 1 .. Len(s) - 1
  OBVIOUS
<1> DEFINE at(i) == IF i < k THEN i ELSE i + 1
<1>2. \A i \in DOMAIN t : at(i) \in DOMAIN s /\ at(i) # k /\ t[i] = s[at(i)]
  BY <1>1
<1>3. \A i, j \in DOMAIN t : at(i) = at(j) => i = j
  BY <1>1
<1> HIDE DEF at
<1>4. Distinct(t)
  BY <1>2, <1>3 DEF Distinct
<1>5. Members(t) \subseteq Members(s) \ {s[k]}
  BY <1>2 DEF Members, Distinct
<1> QED
  BY <1>4, <1>5

-----------------------------------------------------------------------------
(* Who is where: a client is idle, in the listen queue, or has an id, and  *)
(* nothing has passed between the server and a client without an id.       *)

Places ==
  /\ Distinct(players) /\ Distinct(backlog)
  /\ \A c \in Members(players) : pid[c] # 0
  /\ \A c \in Members(backlog) : pid[c] = 0 /\ link[c] # "idle"
  /\ \A c \in Clients : link[c] = "idle" => pid[c] = 0

Unheard(c) ==
  /\ inbuf[c] = <<>> /\ lastSeq[c] = 0 /\ toServer[c] = <<>>
  /\ sent[c] = <<>> /\ toClient[c] = <<>> /\ assigned[c] = 0

Fresh ==
  /\ DOMAIN toClient = Clients /\ DOMAIN assigned = Clients
  /\ \A c \in Clients : pid[c] = 0 => Unheard(c)

\* The types the lemmas below need, one variable at a time.
LEMMA Domains ==
  ASSUME StateTypeOK
  PROVE  /\ players \in Seq(Clients) /\ backlog \in Seq(Clients)
         /\ DOMAIN pid = Clients /\ DOMAIN link = Clients
         /\ DOMAIN inbuf = Clients /\ DOMAIN lastSeq = Clients
         /\ DOMAIN toServer = Clients /\ DOMAIN sent = Clients
         /\ DOMAIN pstate = Clients
         /\ Members(players) \subseteq Clients
         /\ Members(backlog) \subseteq Clients
         /\ nextPlayerId # 0
<1>1. /\ players \in Seq(Clients) /\ backlog \in Seq(Clients)
      /\ DOMAIN pid = Clients /\ DOMAIN link = Clients
      /\ DOMAIN inbuf = Clients /\ DOMAIN lastSeq = Clients
      /\ DOMAIN toServer = Clients /\ DOMAIN sent = Clients
      /\ DOMAIN pstate = Clients
      /\ nextPlayerId # 0
  BY DEF StateTypeOK, PlayerTypesOK, LinkTypesOK
<1>2. ASSUME NEW s \in Seq(Clients) PROVE Members(s) \subseteq Clients
  BY DEF Members
<1> QED
  BY <1>1, <1>2

\* A connection that accept() takes from the queue.
LEMMA Accepted ==
  ASSUME StateTypeOK, Places, AcceptNewClients, CanAccept
  PROVE  LET c == Head(backlog) IN
         /\ c \in Clients /\ pid[c] = 0 /\ link[c] # "idle"
         /\ c \notin Members(players)
         /\ pid' = [pid EXCEPT ![c] = nextPlayerId]
         /\ Members(players') = Members(players) \cup {c}
         /\ Distinct(players') /\ Distinct(backlog')
         /\ Members(backlog') \subseteq Members(backlog) \ {c}
         /\ \E p \in SpawnPositions :
              pstate' = [pstate EXCEPT ![c] = [position |-> p, score |-> 0]]
<1> DEFINE c == Head(backlog)
<1>1. backlog \in Seq(Clients) /\ backlog # <<>> /\ players \in Seq(Clients)
  BY Domains DEF CanAccept
<1>2. /\ Distinct(Tail(backlog)) /\ Members(Tail(backlog)) \subseteq Members(backlog)
      /\ c \in Members(backlog) /\ c \notin Members(Tail(backlog))
  BY <1>1, DistinctTail DEF Places
<1>3. c \in Clients /\ pid[c] = 0 /\ link[c] # "idle" /\ c \notin Members(players)
  BY <1>2, Domains DEF Places
<1>4. /\ backlog' = Tail(backlog) /\ players' = Append(players, c)
      /\ pid' = [pid EXCEPT ![c] = nextPlayerId]
      /\ \E p \in SpawnPositions :
           pstate' = [pstate EXCEPT ![c] = [position |-> p, score |-> 0]]
  BY DEF AcceptNewClients
<1> HIDE DEF c
<1>5. /\ Distinct(Append(players, c))
      /\ Members(Append(players, c)) = Members(players) \cup {c}
  BY <1>1, <1>3, DistinctAppend DEF Places
<1>6. Members(backlog') \subseteq Members(backlog) \ {c}
  BY <1>2, <1>4
<1> QED
  BY <1>2, <1>3, <1>4, <1>5, <1>6 DEF c

\* A player that receiveFromClients erases.
LEMMA Erased ==
  ASSUME StateTypeOK, Places, EraseDisconnected
  PROVE  /\ cursor \in DOMAIN players /\ players[cursor] \in Clients
         /\ Distinct(players')
         /\ Members(players') \subseteq Members(players) \ {players[cursor]}
         /\ inbuf' = [inbuf EXCEPT ![players[cursor]] = <<>>]
<1>1. /\ cursor \in DOMAIN players
      /\ players' = [i \in 1 .. Len(players) - 1 |->
                       IF i < cursor THEN players[i] ELSE players[i + 1]]
      /\ inbuf' = [inbuf EXCEPT ![players[cursor]] = <<>>]
  BY DEF EraseDisconnected
<1>2. players \in Seq(Clients) /\ players[cursor] \in Clients
  BY <1>1, Domains, AtCursor
<1> QED
  BY <1>1, <1>2, DistinctErase DEF Places

\* The steps that leave the lists, the ids and the links alone.
LEMMA QuietStep ==
  ASSUME Frame \/ Signal \/ ReceivePackets \/ ReceiveNothing \/ ReceiveDone
           \/ SendToClients \/ KilledBySigpipe \/ GetPlayers \/ ProcessInputs
           \/ CheckCollisions \/ BroadcastAndEndTick
  PROVE  UNCHANGED <<players, backlog, pid, link>>
<1>1. CASE Frame \/ Signal \/ ReceiveNothing \/ ReceiveDone \/ KilledBySigpipe
  BY <1>1 DEF Frame, Signal, ReceiveNothing, ReceiveDone, KilledBySigpipe,
    netVars, playerVars, linkVars
<1>2. CASE ReceivePackets
  BY <1>2 DEF ReceivePackets, netVars
<1>3. CASE SendToClients
  BY <1>3 DEF SendToClients, playerVars
<1>4. CASE GetPlayers
  BY <1>4 DEF GetPlayers, netVars, playerVars, linkVars
<1>5. CASE ProcessInputs
  BY <1>5 DEF ProcessInputs, netVars, linkVars
<1>6. CASE CheckCollisions
  BY <1>6 DEF CheckCollisions, netVars, linkVars
<1>7. CASE BroadcastAndEndTick
  BY <1>7 DEF BroadcastAndEndTick, playerVars, linkVars
<1> QED
  BY <1>1, <1>2, <1>3, <1>4, <1>5, <1>6, <1>7

LEMMA PlacesKept ==
  ASSUME StateTypeOK, Places, Next
  PROVE  Places'
<1>1. CASE UNCHANGED <<players, backlog, pid, link>>
  BY <1>1 DEF Places, Distinct, Members
<1>2. CASE Stop
  <2>1. players' = <<>> /\ UNCHANGED <<backlog, pid, link>>
    BY <1>2 DEF Stop, playerVars, linkVars
  <2>2. Distinct(players') /\ Members(players') = {}
    BY <2>1 DEF Distinct, Members
  <2> QED
    BY <2>1, <2>2 DEF Places, Distinct, Members
<1>3. CASE AcceptNewClients
  <2>1. CASE CanAccept
    <3> DEFINE c == Head(backlog)
    <3>1. /\ c \in Clients /\ pid[c] = 0 /\ link[c] # "idle"
          /\ pid' = [pid EXCEPT ![c] = nextPlayerId]
          /\ Members(players') = Members(players) \cup {c}
          /\ Distinct(players') /\ Distinct(backlog')
          /\ Members(backlog') \subseteq Members(backlog) \ {c}
      BY <1>3, <2>1, Accepted
    <3>2. link' = link
      BY <1>3 DEF AcceptNewClients
    <3> HIDE DEF c
    <3>3. pid'[c] # 0 /\ \A d \in Clients \ {c} : pid'[d] = pid[d]
      BY <3>1, Domains
    <3>4. \A d \in Members(players') : pid'[d] # 0
      BY <3>1, <3>3, Domains DEF Places
    <3>5. \A d \in Members(backlog') : pid'[d] = 0 /\ link'[d] # "idle"
      BY <3>1, <3>2, <3>3, Domains DEF Places
    <3>6. \A d \in Clients : link'[d] = "idle" => pid'[d] = 0
      BY <3>1, <3>2, <3>3 DEF Places
    <3> QED
      BY <3>1, <3>4, <3>5, <3>6 DEF Places
  <2>2. CASE ~CanAccept
    BY <1>1, <1>3, <2>2 DEF AcceptNewClients, netVars
  <2> QED
    BY <2>1, <2>2
<1>4. CASE EraseDisconnected
  <2>1. /\ Distinct(players') /\ Members(players') \subseteq Members(players)
        /\ UNCHANGED <<backlog, pid, link>>
    BY <1>4, Erased DEF EraseDisconnected, linkVars
  <2> QED
    BY <2>1 DEF Places, Distinct, Members
<1>5. ASSUME NEW c \in Clients, Connect(c) PROVE Places'
  <2>1. /\ link[c] = "idle" /\ link' = [link EXCEPT ![c] = "open"]
        /\ backlog' = Append(backlog, c) /\ UNCHANGED <<players, pid>>
    BY <1>5 DEF Connect, OpenLink, serverVars, netVars, playerVars
  <2>2. c \notin Members(backlog) /\ pid[c] = 0
    BY <2>1 DEF Places
  <2>3. /\ Distinct(backlog')
        /\ Members(backlog') = Members(backlog) \cup {c}
    BY <2>1, <2>2, Domains, DistinctAppend DEF Places
  <2>4. \A d \in Members(backlog') : pid[d] = 0 /\ link'[d] # "idle"
    BY <2>1, <2>2, <2>3, Domains DEF Places
  <2>5. \A d \in Clients : link'[d] = "idle" => pid[d] = 0
    BY <2>1, Domains DEF Places
  <2>6. Distinct(players') /\ \A d \in Members(players') : pid'[d] # 0
    BY <2>1 DEF Places, Distinct, Members
  <2> QED
    BY <2>1, <2>3, <2>4, <2>5, <2>6 DEF Places
<1>6. ASSUME NEW c \in Clients, Quit(c) PROVE Places'
  <2>1. /\ link[c] = "open" /\ link' = [link EXCEPT ![c] = "closed"]
        /\ UNCHANGED <<players, backlog, pid>>
    BY <1>6 DEF Quit, CloseLink, serverVars, netVars, playerVars
  <2>2. \A d \in Clients : link'[d] = "idle" <=> link[d] = "idle"
    BY <2>1, Domains
  <2>3. \A d \in Members(backlog') : pid'[d] = 0 /\ link'[d] # "idle"
    <3>1. Members(backlog') = Members(backlog)
      BY <2>1 DEF Members
    <3> QED
      BY <2>1, <2>2, <3>1, Domains DEF Places
  <2>4. /\ Distinct(players') /\ Distinct(backlog')
        /\ \A d \in Members(players') : pid'[d] # 0
    BY <2>1 DEF Places, Distinct, Members
  <2> QED
    BY <2>1, <2>2, <2>3, <2>4 DEF Places
<1>7. ASSUME NEW c \in Clients, SendInput(c) \/ ReadPacket(c) PROVE Places'
  <2>1. UNCHANGED <<players, backlog, pid, link>>
    BY <1>7 DEF SendInput, ReadPacket, PutToServer, TakeFromServer,
      serverVars, netVars, playerVars
  <2> QED
    BY <1>1, <2>1
<1> QED
  BY <1>1, <1>2, <1>3, <1>4, <1>5, <1>6, <1>7, QuietStep
     DEF Next, Server, ServerStep, ReceiveFromClients, ClientStep

\* The steps that leave every player and every socket alone.
LEMMA IdleStep ==
  ASSUME Frame \/ Stop \/ Signal \/ ReceiveNothing \/ ReceiveDone
           \/ KilledBySigpipe \/ GetPlayers \/ BroadcastAndEndTick
  PROVE  UNCHANGED <<pid, pstate, inbuf, lastSeq, link, backlog, toServer,
                     toClient>>
<1>1. UNCHANGED <<playerVars, linkVars>>
  BY DEF Frame, Stop, Signal, ReceiveNothing, ReceiveDone, KilledBySigpipe,
    GetPlayers, BroadcastAndEndTick
<1> QED
  BY <1>1 DEF playerVars, linkVars

LEMMA FreshKept ==
  ASSUME StateTypeOK, Places, Fresh, Next
  PROVE  Fresh'
<1>1. CASE UNCHANGED <<pid, inbuf, lastSeq, toServer, sent, toClient,
                       assigned>>
  BY <1>1 DEF Fresh, Unheard
<1>2. CASE AcceptNewClients /\ UNCHANGED clientVars
  <2>1. UNCHANGED <<inbuf, lastSeq, toServer, sent, toClient, assigned>>
    BY <1>2 DEF AcceptNewClients, clientVars
  <2>2. ASSUME NEW d \in Clients, pid'[d] = 0 PROVE pid[d] = 0
    <3>1. CASE CanAccept
      BY <1>2, <2>2, <3>1, Accepted, Domains
    <3>2. CASE ~CanAccept
      BY <1>2, <2>2, <3>2 DEF AcceptNewClients
    <3> QED
      BY <3>1, <3>2
  <2> QED
    BY <2>1, <2>2 DEF Fresh, Unheard
<1>3. CASE ReceivePackets /\ UNCHANGED clientVars
  <2> DEFINE c == players[cursor]
  <2>1. PICK n \in 1 .. Len(toServer[c]) :
          /\ inbuf' = [inbuf EXCEPT
               ![c] = inbuf[c] \o SubSeq(toServer[c], 1, n)]
          /\ toServer' = [toServer EXCEPT
               ![c] = SubSeq(toServer[c], n + 1, Len(toServer[c]))]
    BY <1>3, ReceiveMoves
  <2>2. c \in Members(players)
    BY <1>3, ReceiveMoves DEF Members
  <2>3. UNCHANGED <<pid, lastSeq, sent, toClient, assigned>>
    BY <1>3 DEF ReceivePackets, clientVars
  <2> HIDE DEF c
  <2>4. \A d \in Clients \ {c} : inbuf'[d] = inbuf[d] /\ toServer'[d] = toServer[d]
    BY <2>1, Domains
  <2>5. pid[c] # 0
    BY <2>2 DEF Places
  <2> QED
    BY <2>3, <2>4, <2>5 DEF Fresh, Unheard
<1>4. CASE EraseDisconnected /\ UNCHANGED clientVars
  <2>1. UNCHANGED <<pid, lastSeq, toServer, sent, toClient, assigned>>
    BY <1>4 DEF EraseDisconnected, linkVars, clientVars
  <2>2. \A d \in Clients : inbuf'[d] = inbuf[d] \/ inbuf'[d] = <<>>
    BY <1>4, Erased, Domains
  <2> QED
    BY <2>1, <2>2 DEF Fresh, Unheard
<1>5. CASE SendToClients /\ UNCHANGED clientVars
  <2>1. UNCHANGED <<pid, inbuf, lastSeq, toServer, sent, assigned>>
    BY <1>5 DEF SendToClients, playerVars, clientVars
  <2>2. PICK k \in 0 .. Len(outgoing) :
          LET batch == SubSeq(outgoing, 1, k)
              open  == {c \in Members(players) : link[c] = "open"}
          IN  toClient' = [c \in Clients |->
                IF c \in open THEN toClient[c] \o AddressedTo(c, batch)
                              ELSE toClient[c]]
    BY <1>5 DEF SendToClients
  <2>3. \A d \in Clients : pid[d] = 0 => toClient'[d] = toClient[d]
    BY <2>2 DEF Places
  <2>4. DOMAIN toClient' = Clients
    BY <2>2
  <2> QED
    BY <2>1, <2>3, <2>4 DEF Fresh, Unheard
<1>6. CASE ProcessInputs /\ UNCHANGED clientVars
  <2>1. UNCHANGED <<pid, toServer, sent, toClient, assigned>>
    BY <1>6 DEF ProcessInputs, linkVars, clientVars
  <2>2. PICK ready \in SUBSET {c \in Members(gamePlayers) : Poppable(c)} :
          /\ lastSeq' = [c \in Clients |->
               IF c \in ready THEN Head(inbuf[c]).seq ELSE lastSeq[c]]
          /\ inbuf' = [c \in Clients |->
               IF c \in ready THEN Tail(inbuf[c]) ELSE inbuf[c]]
    BY <1>6 DEF ProcessInputs
  <2>3. \A d \in ready : inbuf[d] # <<>>
    BY <2>2 DEF Poppable
  <2>4. \A d \in Clients : inbuf[d] = <<>> => inbuf'[d] = <<>> /\ lastSeq'[d] = lastSeq[d]
    BY <2>2, <2>3
  <2> QED
    BY <2>1, <2>4 DEF Fresh, Unheard
<1>7. CASE CheckCollisions /\ UNCHANGED clientVars
  BY <1>1, <1>7 DEF CheckCollisions, linkVars, clientVars
<1>8. ASSUME NEW c \in Clients, Connect(c) PROVE Fresh'
  BY <1>1, <1>8 DEF Connect, OpenLink, serverVars, playerVars, clientVars
<1>9. ASSUME NEW c \in Clients, SendInput(c) PROVE Fresh'
  <2>1. pid[c] # 0
    BY <1>9 DEF SendInput, Fresh, Unheard
  <2>2. UNCHANGED <<pid, inbuf, lastSeq, toClient, assigned>>
    BY <1>9 DEF SendInput, PutToServer, serverVars, playerVars
  <2>3. /\ \E e : toServer' = [toServer EXCEPT ![c] = e]
        /\ \E e : sent' = [sent EXCEPT ![c] = e]
    BY <1>9 DEF SendInput, PutToServer
  <2>4. \A d \in Clients \ {c} : toServer'[d] = toServer[d] /\ sent'[d] = sent[d]
    BY <2>3, Domains
  <2> QED
    BY <2>1, <2>2, <2>4 DEF Fresh, Unheard
<1>10. ASSUME NEW c \in Clients, ReadPacket(c) PROVE Fresh'
  <2>1. pid[c] # 0
    BY <1>10 DEF ReadPacket, TakeFromServer, Fresh, Unheard
  <2>2. UNCHANGED <<pid, inbuf, lastSeq, toServer, sent>>
    BY <1>10 DEF ReadPacket, TakeFromServer, serverVars, playerVars
  <2>3. /\ toClient' = [toClient EXCEPT ![c] = Tail(toClient[c])]
        /\ \/ assigned' = [assigned EXCEPT ![c] = Head(toClient[c]).id]
           \/ assigned' = assigned
    BY <1>10 DEF ReadPacket, TakeFromServer
  <2>4. /\ DOMAIN toClient' = Clients /\ DOMAIN assigned' = Clients
        /\ \A d \in Clients \ {c} :
             toClient'[d] = toClient[d] /\ assigned'[d] = assigned[d]
    BY <2>3 DEF Fresh
  <2> QED
    BY <2>1, <2>2, <2>4 DEF Fresh, Unheard
<1>11. ASSUME NEW c \in Clients, Quit(c) PROVE Fresh'
  <2>1. /\ UNCHANGED <<pid, inbuf, lastSeq, toServer, sent, assigned>>
        /\ toClient' = [toClient EXCEPT ![c] = <<>>]
    BY <1>11 DEF Quit, CloseLink, serverVars, playerVars, clientVars
  <2>2. /\ DOMAIN toClient' = Clients
        /\ \A d \in Clients : toClient'[d] = toClient[d] \/ toClient'[d] = <<>>
    BY <2>1 DEF Fresh
  <2> QED
    BY <2>1, <2>2 DEF Fresh, Unheard
<1>12. CASE UNCHANGED clientVars
            /\ (Frame \/ Stop \/ Signal \/ ReceiveNothing \/ ReceiveDone
                  \/ KilledBySigpipe \/ GetPlayers \/ BroadcastAndEndTick)
  BY <1>1, <1>12, IdleStep DEF clientVars
<1> QED
  BY <1>2, <1>3, <1>4, <1>5, <1>6, <1>7, <1>8, <1>9, <1>10, <1>11, <1>12
     DEF Next, Server, ServerStep, ReceiveFromClients, ClientStep

-----------------------------------------------------------------------------
(* The inputs of a client.                                                 *)

LEMMA Queues ==
  ASSUME StateTypeOK, NEW c \in Clients
  PROVE  /\ inbuf[c] \in Seq(InputPacket) /\ toServer[c] \in Seq(InputPacket)
         /\ sent[c] \in Seq(SentInput) /\ lastSeq[c] \in Nat
         /\ pstate[c] \in PlayerState
BY DEF StateTypeOK, PlayerTypesOK, LinkTypesOK

\* An input that a client sends, and where it expects to be after it.
LEMMA Sent ==
  ASSUME StateTypeOK, NEW c \in Clients, SendInput(c)
  PROVE  \E e \in InputPacket, x \in SentInput :
           /\ e.seq = Len(sent[c]) + 1 /\ e.input = x.input
           /\ x.leadsTo = ApplyInput(IF Len(sent[c]) = 0
                                       THEN pstate[c].position
                                       ELSE sent[c][Len(sent[c])].leadsTo,
                                     x.input)
           /\ toServer' = [toServer EXCEPT ![c] = Append(toServer[c], e)]
           /\ sent' = [sent EXCEPT ![c] = Append(sent[c], x)]
           /\ UNCHANGED <<players, pstate, inbuf, lastSeq>>
<1> DEFINE n == Len(sent[c])
           start == IF n = 0 THEN pstate[c].position
                             ELSE sent[c][n].leadsTo
<1>1. PICK input \in Inputs :
        /\ PutToServer(c, [seq |-> n + 1, input |-> input])
        /\ sent' = [sent EXCEPT ![c] = Append(sent[c],
             [input |-> input, leadsTo |-> ApplyInput(start, input)])]
  BY DEF SendInput
<1> DEFINE e == [seq |-> n + 1, input |-> input]
           x == [input |-> input, leadsTo |-> ApplyInput(start, input)]
<1>2. sent[c] \in Seq(SentInput) /\ pstate[c].position \in Vec2
  BY Queues, PlayerStateFields
<1>3. start \in Vec2
  <2>1. Reachable \subseteq Vec2
    BY WorldAssumption DEF Reachable, Vec2
  <2>2. ASSUME n # 0 PROVE sent[c][n].leadsTo \in Reachable
    <3>1. sent[c][n] \in SentInput
      BY <1>2, <2>2
    <3> QED
      BY <3>1 DEF SentInput
  <2> QED
    BY <1>2, <2>1, <2>2
<1>4. e \in InputPacket
  BY <1>2 DEF InputPacket
<1>5. x \in SentInput
  <2>1. ApplyInput(start, input) \in Reachable
    BY <1>3, ServerAssumption, StaysInWorld
  <2> QED
    BY <2>1 DEF SentInput
<1>6. e.seq = n + 1 /\ e.input = x.input /\ x.leadsTo = ApplyInput(start, x.input)
  OBVIOUS
<1>7. toServer' = [toServer EXCEPT ![c] = Append(toServer[c], e)]
  BY <1>1 DEF PutToServer
<1>8. sent' = [sent EXCEPT ![c] = Append(sent[c], x)]
  BY <1>1
<1>9. UNCHANGED <<players, pstate, inbuf, lastSeq>>
  BY DEF SendInput, serverVars, netVars, playerVars
<1> HIDE DEF e, x
<1> WITNESS e \in InputPacket, x \in SentInput
<1> QED
  BY <1>6, <1>7, <1>8, <1>9

\* popInput takes the input after the last one applied.
LEMMA Popped ==
  ASSUME StateTypeOK, NEW c \in Clients, InOrder(c), inbuf[c] # <<>>
  PROVE  /\ Head(inbuf[c]).seq = lastSeq[c] + 1
         /\ Head(inbuf[c]).input = sent[c][lastSeq[c] + 1].input
         /\ lastSeq[c] + 1 \in 1 .. Len(sent[c])
         /\ Continues(Tail(inbuf[c]), lastSeq[c] + 1, sent[c])
         /\ lastSeq[c] + 1 + Len(Tail(inbuf[c])) = lastSeq[c] + Len(inbuf[c])
<1>1. /\ inbuf[c] \in Seq(InputPacket) /\ lastSeq[c] \in Nat
      /\ toServer[c] \in Seq(InputPacket) /\ sent[c] \in Seq(SentInput)
  BY Queues
<1>2. /\ Continues(inbuf[c], lastSeq[c], sent[c])
      /\ lastSeq[c] + Len(inbuf[c]) + Len(toServer[c]) = Len(sent[c])
  BY DEF InOrder
<1>3. /\ Head(inbuf[c]).seq = lastSeq[c] + 1
      /\ Head(inbuf[c]).input = sent[c][lastSeq[c] + 1].input
      /\ Len(Tail(inbuf[c])) = Len(inbuf[c]) - 1
      /\ Continues(Tail(inbuf[c]), lastSeq[c] + 1, sent[c])
  BY <1>1, <1>2, ContinuesTail
<1>4. /\ Len(inbuf[c]) \in Nat \ {0} /\ Len(toServer[c]) \in Nat
      /\ Len(sent[c]) \in Nat
  BY <1>1
<1>5. lastSeq[c] + 1 \in 1 .. Len(sent[c])
  BY <1>1, <1>2, <1>4
<1>6. lastSeq[c] + 1 + Len(Tail(inbuf[c])) = lastSeq[c] + Len(inbuf[c])
  <2> DEFINE m == Len(Tail(inbuf[c]))
  <2>1. m = Len(inbuf[c]) - 1
    BY <1>3
  <2> HIDE DEF m
  <2> QED
    BY <1>1, <1>4, <2>1 DEF m
<1> QED
  BY <1>3, <1>5, <1>6

LEMMA InOrderKept ==
  ASSUME StateTypeOK, Places, Fresh, InputsInOrder, Next
  PROVE  InputsInOrder'
<1>1. CASE /\ Members(players') \subseteq Members(players)
           /\ \A c \in Members(players') :
                /\ inbuf'[c] = inbuf[c] /\ lastSeq'[c] = lastSeq[c]
                /\ toServer'[c] = toServer[c] /\ sent'[c] = sent[c]
  BY <1>1 DEF InputsInOrder, InOrder
<1>2. CASE UNCHANGED <<players, inbuf, lastSeq, toServer, sent>>
  BY <1>2 DEF InputsInOrder, InOrder, Members
<1>3. CASE AcceptNewClients /\ UNCHANGED clientVars
  <2>1. UNCHANGED <<inbuf, lastSeq, toServer, sent>>
    BY <1>3 DEF AcceptNewClients, clientVars
  <2>2. CASE CanAccept
    <3> DEFINE c == Head(backlog)
    <3>1. /\ c \in Clients /\ pid[c] = 0
          /\ Members(players') = Members(players) \cup {c}
      BY <1>3, <2>2, Accepted
    <3> HIDE DEF c
    <3>2. Unheard(c)
      BY <3>1 DEF Fresh
    <3>3. InOrder(c)
      BY <3>2 DEF Unheard, InOrder, Continues
    <3> QED
      BY <2>1, <3>1, <3>3 DEF InputsInOrder, InOrder
  <2>3. CASE ~CanAccept
    BY <1>2, <1>3, <2>1, <2>3 DEF AcceptNewClients, netVars
  <2> QED
    BY <2>2, <2>3
<1>4. CASE ReceivePackets /\ UNCHANGED clientVars
  <2>1. PICK c \in Clients : c = players[cursor] /\ c \in Members(players)
    BY <1>4, ReceiveMoves, AtCursor DEF Members
  <2>2. PICK n \in 1 .. Len(toServer[c]) :
          /\ inbuf' = [inbuf EXCEPT
               ![c] = inbuf[c] \o SubSeq(toServer[c], 1, n)]
          /\ toServer' = [toServer EXCEPT
               ![c] = SubSeq(toServer[c], n + 1, Len(toServer[c]))]
    BY <1>4, <2>1, ReceiveMoves
  <2>3. UNCHANGED <<players, lastSeq, sent>>
    BY <1>4 DEF ReceivePackets, netVars, clientVars
  <2>4. /\ inbuf'[c] = inbuf[c] \o SubSeq(toServer[c], 1, n)
        /\ toServer'[c] = SubSeq(toServer[c], n + 1, Len(toServer[c]))
        /\ \A d \in Clients \ {c} :
             inbuf'[d] = inbuf[d] /\ toServer'[d] = toServer[d]
    BY <2>2, Domains
  <2>5. /\ inbuf[c] \in Seq(InputPacket) /\ toServer[c] \in Seq(InputPacket)
        /\ lastSeq[c] \in Nat
    BY Queues
  <2>6. Ordered(inbuf[c], toServer[c], lastSeq[c], sent[c])
    BY <2>1 DEF InputsInOrder, InOrder, Ordered
  <2>7. Ordered(inbuf'[c], toServer'[c], lastSeq[c], sent[c])
    <3> DEFINE a == SubSeq(toServer[c], 1, n)
               b == toServer'[c]
    <3>1. Splits(toServer[c], n, a, b) /\ inbuf'[c] = inbuf[c] \o a
      BY <2>4 DEF Splits
    <3> HIDE DEF a, b
    <3>2. Ordered(inbuf[c] \o a, b, lastSeq[c], sent[c])
      BY <2>5, <2>6, <3>1, OrderedReceived
    <3> QED
      BY <3>1, <3>2 DEF b
  <2>8. InOrder(c)'
    BY <2>3, <2>7 DEF InOrder, Ordered
  <2>9. \A d \in Members(players) \ {c} : InOrder(d)'
    BY <2>3, <2>4, Domains DEF InputsInOrder, InOrder
  <2> QED
    BY <2>3, <2>8, <2>9 DEF InputsInOrder, Members
<1>5. CASE EraseDisconnected /\ UNCHANGED clientVars
  <2>1. UNCHANGED <<lastSeq, toServer, sent>>
    BY <1>5 DEF EraseDisconnected, linkVars, clientVars
  <2>2. /\ Members(players') \subseteq Members(players) \ {players[cursor]}
        /\ inbuf' = [inbuf EXCEPT ![players[cursor]] = <<>>]
    BY <1>5, Erased
  <2>3. \A d \in Members(players') : inbuf'[d] = inbuf[d]
    BY <2>2, Domains
  <2> QED
    BY <1>1, <2>1, <2>2, <2>3
<1>6. CASE ProcessInputs /\ UNCHANGED clientVars
  <2>1. UNCHANGED <<players, toServer, sent>>
    BY <1>6 DEF ProcessInputs, netVars, linkVars, clientVars
  <2>2. PICK ready \in SUBSET {c \in Members(gamePlayers) : Poppable(c)} :
          /\ lastSeq' = [c \in Clients |->
               IF c \in ready THEN Head(inbuf[c]).seq ELSE lastSeq[c]]
          /\ inbuf' = [c \in Clients |->
               IF c \in ready THEN Tail(inbuf[c]) ELSE inbuf[c]]
    BY <1>6 DEF ProcessInputs
  <2>3. ASSUME NEW c \in Members(players) PROVE InOrder(c)'
    <3>1. c \in Clients /\ InOrder(c)
      BY <2>3, Domains DEF InputsInOrder
    <3>2. CASE c \in ready
      <4>1. inbuf[c] # <<>>
        BY <2>2, <3>2 DEF Poppable
      <4>2. /\ lastSeq'[c] = lastSeq[c] + 1 /\ inbuf'[c] = Tail(inbuf[c])
            /\ Continues(inbuf'[c], lastSeq'[c], sent[c])
            /\ lastSeq'[c] + Len(inbuf'[c]) = lastSeq[c] + Len(inbuf[c])
        BY <2>2, <3>1, <3>2, <4>1, Popped
      <4> QED
        BY <2>1, <3>1, <4>2 DEF InOrder
    <3>3. CASE c \notin ready
      <4>1. lastSeq'[c] = lastSeq[c] /\ inbuf'[c] = inbuf[c]
        BY <2>2, <3>1, <3>3
      <4> QED
        BY <2>1, <3>1, <4>1 DEF InOrder
    <3> QED
      BY <3>2, <3>3
  <2> QED
    BY <2>1, <2>3 DEF InputsInOrder, Members
<1>7. ASSUME NEW c \in Clients, SendInput(c) PROVE InputsInOrder'
  <2>1. PICK e \in InputPacket, x \in SentInput :
          /\ e.seq = Len(sent[c]) + 1 /\ e.input = x.input
          /\ toServer' = [toServer EXCEPT ![c] = Append(toServer[c], e)]
          /\ sent' = [sent EXCEPT ![c] = Append(sent[c], x)]
          /\ UNCHANGED <<players, inbuf, lastSeq>>
    BY <1>7, Sent
  <2>2. /\ toServer'[c] = Append(toServer[c], e) /\ sent'[c] = Append(sent[c], x)
        /\ \A d \in Clients \ {c} :
             toServer'[d] = toServer[d] /\ sent'[d] = sent[d]
    BY <2>1, Domains
  <2>3. ASSUME InOrder(c) PROVE InOrder(c)'
    <3> DEFINE k == lastSeq[c] + Len(inbuf[c])
    <3>1. /\ inbuf[c] \in Seq(InputPacket) /\ lastSeq[c] \in Nat
          /\ toServer[c] \in Seq(InputPacket) /\ sent[c] \in Seq(SentInput)
      BY Queues
    <3>2. /\ Continues(inbuf[c], lastSeq[c], sent[c])
          /\ Continues(toServer[c], k, sent[c])
          /\ k + Len(toServer[c]) = Len(sent[c])
      BY <2>3 DEF InOrder
    <3>3. k \in Nat /\ Len(toServer[c]) \in Nat /\ k <= Len(sent[c])
      BY <3>1, <3>2
    <3>4. Continues(inbuf[c], lastSeq[c], sent'[c])
      BY <2>2, <3>1, <3>2, <3>3, ContinuesLonger
    <3> HIDE DEF k
    <3>5. Continues(toServer'[c], k, sent'[c])
      <4>1. e.seq = Len(sent[c]) + 1 /\ e.input = x.input
        BY <2>1
      <4>2. Continues(Append(toServer[c], e), k, Append(sent[c], x))
        BY <3>1, <3>2, <3>3, <4>1, ContinuesAppend
      <4> QED
        BY <2>2, <4>2
    <3>6. k + Len(toServer'[c]) = Len(sent'[c])
      <4>1. Len(Append(toServer[c], e)) = Len(toServer[c]) + 1
        BY <3>1, AppendProperties
      <4>2. Len(Append(sent[c], x)) = Len(sent[c]) + 1
        BY <3>1, AppendProperties
      <4>3. k + (Len(toServer[c]) + 1) = (k + Len(toServer[c])) + 1
        BY <3>3
      <4> QED
        BY <2>2, <3>2, <4>1, <4>2, <4>3
    <3> QED
      BY <2>1, <3>4, <3>5, <3>6 DEF InOrder, k
  <2>4. \A d \in Members(players) \ {c} : InOrder(d)'
    BY <2>1, <2>2, Domains DEF InputsInOrder, InOrder
  <2> QED
    BY <2>1, <2>3, <2>4 DEF InputsInOrder, Members
<1>8. ASSUME NEW c \in Clients, Connect(c) \/ ReadPacket(c) \/ Quit(c)
      PROVE  InputsInOrder'
  <2>1. UNCHANGED <<players, inbuf, lastSeq, toServer, sent>>
    BY <1>8 DEF Connect, OpenLink, ReadPacket, TakeFromServer, Quit,
      CloseLink, serverVars, netVars, playerVars, clientVars
  <2> QED
    BY <1>2, <2>1
<1>9. CASE /\ SendToClients \/ CheckCollisions
           /\ UNCHANGED clientVars
  BY <1>2, <1>9 DEF SendToClients, CheckCollisions, playerVars, netVars,
    linkVars, clientVars
<1>10. CASE Stop /\ UNCHANGED clientVars
  <2>1. players' = <<>>
    BY <1>10 DEF Stop
  <2> QED
    BY <2>1 DEF InputsInOrder, Members
<1>11. CASE /\ Frame \/ Signal \/ ReceiveNothing \/ ReceiveDone
                 \/ KilledBySigpipe \/ GetPlayers \/ BroadcastAndEndTick
            /\ UNCHANGED clientVars
  BY <1>2, <1>11, IdleStep, QuietStep DEF clientVars
<1> QED
  BY <1>3, <1>4, <1>5, <1>6, <1>7, <1>8, <1>9, <1>10, <1>11
     DEF Next, Server, ServerStep, ReceiveFromClients, ClientStep

-----------------------------------------------------------------------------
(* Where the inputs of a client take its player.                           *)

\* Each input leads on from where the one before it led.
Chained(s) ==
  \A n \in 1 .. Len(s) - 1 :
    s[n + 1].leadsTo = ApplyInput(s[n].leadsTo, s[n + 1].input)

AllChained == \A c \in Clients : Chained(sent[c])

\* A player whose first input has not been applied is where it starts from.
AtStart(c) ==
  lastSeq[c] = 0 /\ Len(sent[c]) > 0 =>
    sent[c][1].leadsTo = ApplyInput(pstate[c].position, sent[c][1].input)

AtLast(c) == lastSeq[c] > 0 => pstate[c].position = sent[c][lastSeq[c]].leadsTo

Agreed == \A c \in Members(players) : AtStart(c) /\ AtLast(c)

LEMMA AllChainedKept ==
  ASSUME StateTypeOK, AllChained, Next
  PROVE  AllChained'
<1>1. CASE UNCHANGED sent
  BY <1>1 DEF AllChained, Chained
<1>2. ASSUME NEW c \in Clients, SendInput(c) PROVE AllChained'
  <2>1. PICK x \in SentInput :
          /\ x.leadsTo = ApplyInput(IF Len(sent[c]) = 0
                                      THEN pstate[c].position
                                      ELSE sent[c][Len(sent[c])].leadsTo,
                                    x.input)
          /\ sent' = [sent EXCEPT ![c] = Append(sent[c], x)]
    BY <1>2, Sent
  <2>2. /\ sent'[c] = Append(sent[c], x)
        /\ \A d \in Clients \ {c} : sent'[d] = sent[d]
    BY <2>1, Domains
  <2>3. sent[c] \in Seq(SentInput) /\ Chained(sent[c])
    BY Queues DEF AllChained
  <2>4. Chained(Append(sent[c], x))
    <3> DEFINE s == sent[c]
               t == Append(s, x)
    <3>1. /\ Len(s) \in Nat /\ Len(t) = Len(s) + 1 /\ t[Len(s) + 1] = x
          /\ \A i \in 1 .. Len(s) : t[i] = s[i]
      BY <2>3, AppendProperties
    <3>2. ASSUME NEW n \in 1 .. Len(t) - 1
          PROVE  t[n + 1].leadsTo = ApplyInput(t[n].leadsTo, t[n + 1].input)
      <4>1. CASE n = Len(s)
        <5>1. t[n + 1] = x /\ t[n] = s[Len(s)] /\ Len(s) # 0
          BY <3>1, <3>2, <4>1
        <5>2. x.leadsTo = ApplyInput(s[Len(s)].leadsTo, x.input)
          BY <2>1, <5>1
        <5> QED
          BY <5>1, <5>2
      <4>2. CASE n # Len(s)
        <5>1. n \in 1 .. Len(s) - 1 /\ n + 1 \in 1 .. Len(s) /\ n \in 1 .. Len(s)
          BY <3>1, <3>2, <4>2
        <5> QED
          BY <2>3, <3>1, <5>1 DEF Chained
      <4> QED
        BY <4>1, <4>2
    <3> QED
      BY <3>2 DEF Chained
  <2> QED
    BY <2>2, <2>4 DEF AllChained, Chained
<1>3. ASSUME Server \/ \E c \in Clients : Connect(c) \/ ReadPacket(c) \/ Quit(c)
      PROVE  UNCHANGED sent
  BY <1>3 DEF Server, Connect, ReadPacket, Quit, clientVars
<1> QED
  BY <1>1, <1>2, <1>3 DEF Next, ClientStep

\* The input that popInput releases takes a player where its client expects.
LEMMA PopAgrees ==
  ASSUME StateTypeOK, NEW c \in Clients, InOrder(c), Chained(sent[c]),
         AtStart(c), AtLast(c), inbuf[c] # <<>>
  PROVE  Moved(c) = sent[c][lastSeq[c] + 1].leadsTo
<1>1. /\ Head(inbuf[c]).input = sent[c][lastSeq[c] + 1].input
      /\ lastSeq[c] + 1 \in 1 .. Len(sent[c])
  BY Popped
<1>2. lastSeq[c] \in Nat /\ sent[c] \in Seq(SentInput)
  BY Queues
<1>3. Moved(c) = ApplyInput(pstate[c].position, sent[c][lastSeq[c] + 1].input)
  BY <1>1 DEF Moved
<1>4. CASE lastSeq[c] = 0
  BY <1>1, <1>2, <1>3, <1>4 DEF AtStart
<1>5. CASE lastSeq[c] > 0
  <2>1. lastSeq[c] \in 1 .. Len(sent[c]) - 1
    BY <1>1, <1>2, <1>5
  <2> QED
    BY <1>3, <1>5, <2>1 DEF AtLast, Chained
<1> QED
  BY <1>2, <1>4, <1>5

LEMMA AgreedKept ==
  ASSUME StateTypeOK, Places, Fresh, InputsInOrder, AllChained, Agreed, Next
  PROVE  Agreed'
<1>1. CASE /\ Members(players') \subseteq Members(players)
           /\ UNCHANGED <<lastSeq, sent>>
           /\ \A c \in Members(players') :
                pstate'[c].position = pstate[c].position
  BY <1>1 DEF Agreed, AtStart, AtLast
<1>2. CASE UNCHANGED <<players, lastSeq, sent, pstate>>
  BY <1>2 DEF Agreed, AtStart, AtLast, Members
<1>3. CASE AcceptNewClients /\ UNCHANGED clientVars
  <2>1. UNCHANGED <<lastSeq, sent>>
    BY <1>3 DEF AcceptNewClients, clientVars
  <2>2. CASE CanAccept
    <3>1. PICK c \in Clients :
            /\ pid[c] = 0 /\ Members(players') = Members(players) \cup {c}
            /\ \E p \in SpawnPositions :
                 pstate' = [pstate EXCEPT ![c] = [position |-> p, score |-> 0]]
      BY <1>3, <2>2, Accepted
    <3>2. sent[c] = <<>> /\ lastSeq[c] = 0
      BY <3>1 DEF Fresh, Unheard
    <3>3. AtStart(c)' /\ AtLast(c)'
      BY <2>1, <3>2 DEF AtStart, AtLast
    <3>4. \A d \in Clients \ {c} : pstate'[d] = pstate[d]
      BY <3>1, Domains
    <3>5. \A d \in Members(players) \ {c} : AtStart(d)' /\ AtLast(d)'
      BY <2>1, <3>4, Domains DEF Agreed, AtStart, AtLast
    <3> QED
      BY <3>1, <3>3, <3>5 DEF Agreed
  <2>3. CASE ~CanAccept
    BY <1>2, <1>3, <2>1, <2>3 DEF AcceptNewClients, netVars
  <2> QED
    BY <2>2, <2>3
<1>4. CASE ReceivePackets /\ UNCHANGED clientVars
  BY <1>2, <1>4 DEF ReceivePackets, netVars, clientVars
<1>5. CASE EraseDisconnected /\ UNCHANGED clientVars
  <2>1. UNCHANGED <<lastSeq, sent, pstate>>
    BY <1>5 DEF EraseDisconnected, clientVars
  <2>2. Members(players') \subseteq Members(players)
    BY <1>5, Erased
  <2> QED
    BY <1>1, <2>1, <2>2
<1>6. CASE ProcessInputs /\ UNCHANGED clientVars
  <2>1. UNCHANGED <<players, sent>>
    BY <1>6 DEF ProcessInputs, netVars, clientVars
  <2>2. PICK ready \in SUBSET {c \in Members(gamePlayers) : Poppable(c)} :
          /\ pstate' = [c \in Clients |->
               IF c \in ready THEN [pstate[c] EXCEPT !.position = Moved(c)]
                              ELSE pstate[c]]
          /\ lastSeq' = [c \in Clients |->
               IF c \in ready THEN Head(inbuf[c]).seq ELSE lastSeq[c]]
    BY <1>6 DEF ProcessInputs
  <2>3. ASSUME NEW c \in Members(players) PROVE (AtStart(c) /\ AtLast(c))'
    <3>1. /\ c \in Clients /\ InOrder(c) /\ Chained(sent[c])
          /\ AtStart(c) /\ AtLast(c)
      BY <2>3, Domains DEF InputsInOrder, AllChained, Agreed
    <3>2. CASE c \in ready
      <4>1. inbuf[c] # <<>>
        BY <2>2, <3>2 DEF Poppable
      <4>2. lastSeq'[c] = lastSeq[c] + 1 /\ lastSeq[c] \in Nat
        BY <2>2, <3>1, <3>2, <4>1, Popped, Queues
      <4>3. pstate'[c] = [pstate[c] EXCEPT !.position = Moved(c)]
        BY <2>2, <3>1, <3>2
      <4>4. pstate'[c].position = Moved(c)
        <5>1. pstate[c] \in PlayerState
          BY <3>1, Queues
        <5>2. ASSUME NEW p \in PlayerState, NEW v
              PROVE  [p EXCEPT !.position = v].position = v
          BY DEF PlayerState
        <5> QED
          BY <4>3, <5>1, <5>2
      <4>5. pstate'[c].position = sent'[c][lastSeq'[c]].leadsTo
        BY <2>1, <3>1, <4>1, <4>2, <4>4, PopAgrees
      <4> QED
        BY <4>2, <4>5 DEF AtStart, AtLast
    <3>3. CASE c \notin ready
      <4>1. lastSeq'[c] = lastSeq[c] /\ pstate'[c] = pstate[c]
        BY <2>2, <3>1, <3>3
      <4> QED
        BY <2>1, <3>1, <4>1 DEF AtStart, AtLast
    <3> QED
      BY <3>2, <3>3
  <2> QED
    BY <2>1, <2>3 DEF Agreed, Members
<1>7. CASE CheckCollisions /\ UNCHANGED clientVars
  <2>1. UNCHANGED <<players, lastSeq, sent>>
    BY <1>7 DEF CheckCollisions, netVars, clientVars
  <2>2. PICK c \in Clients, n \in Nat :
          pstate' = [pstate EXCEPT
            ![c] = [pstate[c] EXCEPT !.score = pstate[c].score + n]]
    BY <1>7, CollisionScores
  <2>3. \A d \in Clients : pstate'[d].position = pstate[d].position
    <3>1. pstate \in [Clients -> PlayerState]
      BY DEF StateTypeOK, PlayerTypesOK
    <3>2. ASSUME NEW p \in PlayerState, NEW v
          PROVE  [p EXCEPT !.score = v].position = p.position
      BY DEF PlayerState
    <3>3. /\ pstate'[c] = [pstate[c] EXCEPT !.score = pstate[c].score + n]
          /\ \A d \in Clients \ {c} : pstate'[d] = pstate[d]
      BY <2>2, <3>1
    <3>4. pstate[c] \in PlayerState
      BY <3>1
    <3>5. pstate'[c].position = pstate[c].position
      BY <3>2, <3>3, <3>4
    <3> QED
      BY <3>3, <3>5
  <2> QED
    BY <1>1, <2>1, <2>3, Domains DEF Members
<1>8. ASSUME NEW c \in Clients, SendInput(c) PROVE Agreed'
  <2>1. PICK x \in SentInput :
          /\ x.leadsTo = ApplyInput(IF Len(sent[c]) = 0
                                      THEN pstate[c].position
                                      ELSE sent[c][Len(sent[c])].leadsTo,
                                    x.input)
          /\ sent' = [sent EXCEPT ![c] = Append(sent[c], x)]
          /\ UNCHANGED <<players, pstate, lastSeq>>
    BY <1>8, Sent
  <2>2. /\ sent'[c] = Append(sent[c], x)
        /\ \A d \in Clients \ {c} : sent'[d] = sent[d]
    BY <2>1, Domains
  <2>3. ASSUME c \in Members(players) PROVE (AtStart(c) /\ AtLast(c))'
    <3>1. InOrder(c) /\ AtStart(c) /\ AtLast(c)
      BY <2>3 DEF InputsInOrder, Agreed
    <3>2. /\ sent[c] \in Seq(SentInput) /\ lastSeq[c] \in Nat
          /\ inbuf[c] \in Seq(InputPacket) /\ toServer[c] \in Seq(InputPacket)
      BY Queues
    <3>3. /\ Len(sent[c]) \in Nat /\ sent'[c][Len(sent[c]) + 1] = x
          /\ \A i \in 1 .. Len(sent[c]) : sent'[c][i] = sent[c][i]
      BY <2>2, <3>2, AppendProperties
    <3>4. lastSeq[c] <= Len(sent[c])
      <4>1. lastSeq[c] + Len(inbuf[c]) + Len(toServer[c]) = Len(sent[c])
        BY <3>1 DEF InOrder
      <4>2. Len(inbuf[c]) \in Nat /\ Len(toServer[c]) \in Nat
        BY <3>2
      <4> QED
        BY <3>2, <4>1, <4>2
    <3>5. AtLast(c)'
      <4>1. ASSUME lastSeq[c] > 0 PROVE lastSeq[c] \in 1 .. Len(sent[c])
        BY <3>2, <3>3, <3>4, <4>1
      <4> QED
        BY <2>1, <3>1, <3>3, <4>1 DEF AtLast
    <3>6. AtStart(c)'
      <4>1. CASE Len(sent[c]) = 0
        BY <2>1, <3>3, <4>1 DEF AtStart
      <4>2. CASE Len(sent[c]) > 0
        <5>1. sent'[c][1] = sent[c][1]
          BY <3>3, <4>2
        <5> QED
          BY <2>1, <3>1, <4>2, <5>1 DEF AtStart
      <4> QED
        BY <3>3, <4>1, <4>2
    <3> QED
      BY <3>5, <3>6
  <2>4. \A d \in Members(players) \ {c} : (AtStart(d) /\ AtLast(d))'
    BY <2>1, <2>2, Domains DEF Agreed, AtStart, AtLast
  <2> QED
    BY <2>1, <2>3, <2>4 DEF Agreed, Members
<1>9. ASSUME NEW c \in Clients, Connect(c) \/ ReadPacket(c) \/ Quit(c)
      PROVE  Agreed'
  <2>1. UNCHANGED <<players, lastSeq, sent, pstate>>
    BY <1>9 DEF Connect, ReadPacket, Quit, serverVars, netVars, playerVars,
      clientVars
  <2> QED
    BY <1>2, <2>1
<1>10. CASE SendToClients /\ UNCHANGED clientVars
  BY <1>2, <1>10 DEF SendToClients, playerVars, clientVars
<1>11. CASE Stop /\ UNCHANGED clientVars
  <2>1. players' = <<>>
    BY <1>11 DEF Stop
  <2> QED
    BY <2>1 DEF Agreed, Members
<1>12. CASE /\ Frame \/ Signal \/ ReceiveNothing \/ ReceiveDone
                 \/ KilledBySigpipe \/ GetPlayers \/ BroadcastAndEndTick
            /\ UNCHANGED clientVars
  BY <1>2, <1>12, IdleStep, QuietStep DEF clientVars
<1> QED
  BY <1>3, <1>4, <1>5, <1>6, <1>7, <1>8, <1>9, <1>10, <1>11, <1>12
     DEF Next, Server, ServerStep, ReceiveFromClients, ClientStep

-----------------------------------------------------------------------------
(* The inductive invariant.                                                *)

IInv ==
  /\ StateTypeOK /\ TickOwed /\ Places /\ Fresh
  /\ InputsInOrder /\ AllChained /\ Agreed

LEMMA InitIInv == Init => IInv
<1> SUFFICES ASSUME Init PROVE IInv
  OBVIOUS
<1>1. /\ players = <<>> /\ backlog = <<>> /\ phase = "frame"
      /\ pid = [c \in Clients |-> 0] /\ sent = [c \in Clients |-> <<>>]
      /\ inbuf = [c \in Clients |-> <<>>] /\ lastSeq = [c \in Clients |-> 0]
      /\ toServer = [c \in Clients |-> <<>>]
      /\ toClient = [c \in Clients |-> <<>>]
      /\ assigned = [c \in Clients |-> 0]
  BY DEF Init, InitServer, InitLinks
<1>2. TickOwed
  BY <1>1 DEF TickOwed
<1>3. Places
  BY <1>1 DEF Places, Distinct, Members
<1>4. Fresh
  BY <1>1 DEF Fresh, Unheard
<1>5. InputsInOrder /\ Agreed
  BY <1>1 DEF InputsInOrder, Agreed, Members
<1>6. AllChained
  BY <1>1 DEF AllChained, Chained
<1> QED
  BY <1>2, <1>3, <1>4, <1>5, <1>6, InitTypes DEF IInv

LEMMA NextIInv == IInv /\ [Next]_vars => IInv'
<1>1. ASSUME IInv, Next PROVE IInv'
  BY <1>1, NextTypes, TickOwedKept, PlacesKept, FreshKept, InOrderKept,
     AllChainedKept, AgreedKept DEF IInv
<1>2. ASSUME IInv, UNCHANGED vars PROVE IInv'
  <2>1. UNCHANGED <<phase, due, players, backlog, pid, pstate, link, inbuf,
                    lastSeq, toServer, sent, toClient, assigned>>
    BY <1>2 DEF vars, serverVars, loopVars, netVars, playerVars, linkVars,
      clientVars
  <2>2. (StateTypeOK /\ TickOwed)'
    BY <1>2, <2>1, IdleTypes DEF IInv, TickOwed
  <2>3. (Places /\ Fresh)'
    BY <1>2, <2>1 DEF IInv, Places, Distinct, Members, Fresh, Unheard
  <2>4. (InputsInOrder /\ AllChained /\ Agreed)'
    BY <1>2, <2>1 DEF IInv, InputsInOrder, InOrder, Continues, Members,
      AllChained, Chained, Agreed, AtStart, AtLast
  <2> QED
    BY <2>2, <2>3, <2>4 DEF IInv
<1> QED
  BY <1>1, <1>2

\* Every input of a connected client is applied once, in the order it was
\* sent: receiveFromClients, the latency buffer and popInput lose none,
\* repeat none and reorder none.
THEOREM OrderOfInputs == Spec => []InputsInOrder
<1>1. IInv => InputsInOrder
  BY DEF IInv
<1> QED
  BY <1>1, InitIInv, NextIInv, PTL DEF Spec

\* The position the server broadcasts for a player is the one its client
\* computed for the acknowledged input.
THEOREM PositionAgreement == Spec => []AuthoritativePosition
<1>1. IInv => AuthoritativePosition
  BY DEF IInv, Agreed, AtLast, AuthoritativePosition
<1> QED
  BY <1>1, InitIInv, NextIInv, PTL DEF Spec

-----------------------------------------------------------------------------
(* The packets the server sends.                                           *)

\* The messages that mention only ids below n.
MessageUpTo(n) ==
  [kind : {"welcome"}, id : 1 .. n - 1]
    \cup [kind : {"world"}, tick : 0 .. TICK_MOD - 1, ids : SUBSET (1 .. n - 1)]

LEMMA MessageIsUpTo ==
  Message = MessageUpTo(nextPlayerId) /\ Message' = MessageUpTo(nextPlayerId')
BY DEF Message, Ids, MessageUpTo

LEMMA MessageFields ==
  ASSUME NEW n \in Nat, NEW m \in MessageUpTo(n)
  PROVE  \/ m.kind = "welcome" /\ m.id \in 1 .. n - 1
         \/ /\ m.kind = "world" /\ m.tick \in 0 .. TICK_MOD - 1
            /\ m.ids \in SUBSET (1 .. n - 1)
BY DEF MessageUpTo

LEMMA NewBroadcast ==
  ASSUME NEW n, NEW t \in 0 .. TICK_MOD - 1, NEW ids \in SUBSET (1 .. n - 1)
  PROVE  /\ WorldState(t, ids) \in MessageUpTo(n)
         /\ WorldState(t, ids).kind = "world" /\ WorldState(t, ids).tick = t
BY DEF MessageUpTo, WorldState

LEMMA NewWelcome ==
  ASSUME NEW n \in Nat \ {0}
  PROVE  /\ MessageUpTo(n) \subseteq MessageUpTo(n + 1)
         /\ Welcome(n) \in MessageUpTo(n + 1)
         /\ Welcome(n).kind = "welcome" /\ Welcome(n).id = n
<1>1. 1 .. n - 1 \subseteq 1 .. (n + 1) - 1 /\ n \in 1 .. (n + 1) - 1
  OBVIOUS
<1>2. SUBSET (1 .. n - 1) \subseteq SUBSET (1 .. (n + 1) - 1)
  BY <1>1
<1>3. MessageUpTo(n) \subseteq MessageUpTo(n + 1)
  <2> SUFFICES ASSUME NEW m \in MessageUpTo(n) PROVE m \in MessageUpTo(n + 1)
    OBVIOUS
  <2>1. CASE m \in [kind : {"welcome"}, id : 1 .. n - 1]
    BY <1>1, <2>1 DEF MessageUpTo
  <2>2. CASE m \in [kind : {"world"}, tick : 0 .. TICK_MOD - 1,
                    ids : SUBSET (1 .. n - 1)]
    BY <1>2, <2>2 DEF MessageUpTo
  <2> QED
    BY <2>1, <2>2 DEF MessageUpTo
<1> QED
  BY <1>1, <1>3 DEF MessageUpTo, Welcome

\* What sendToClients writes to c depends only on c's id.
LEMMA AddressedToIsForPlayer ==
  ASSUME NEW c, NEW S, NEW batch \in Seq(S)
  PROVE  /\ AddressedTo(c, batch) = ForPlayer(pid[c], batch)
         /\ AddressedTo(c, batch) \in Seq(S)
<1>1. AddressedTo(c, batch) = ForPlayer(pid[c], batch)
  BY DEF AddressedTo, Wanted, ForPlayer, WantedBy
<1> DEFINE T == {m \in S : WantedBy(pid[c], m)}
<1>2. ForPlayer(pid[c], batch) \in Seq(T) /\ T \subseteq S
  BY ForPlayerType
<1> HIDE DEF T
<1>3. ForPlayer(pid[c], batch) \in Seq(S)
  BY <1>2, SeqMonotonic
<1> QED
  BY <1>1, <1>3

MessagesUnchanged ==
  UNCHANGED <<nextPlayerId, outgoing, toClient, assigned, seen>>

LEMMA MessagesStay ==
  ASSUME MessagesTypeOK, MessagesUnchanged
  PROVE  MessagesTypeOK'
BY MessageIsUpTo DEF MessagesTypeOK, MessagesUnchanged

\* The steps that neither accept, send, broadcast, read nor quit.
SilentServer ==
  \/ Frame \/ Stop \/ Signal
  \/ AcceptNewClients /\ ~CanAccept
  \/ ReceiveFromClients \/ KilledBySigpipe
  \/ GetPlayers \/ ProcessInputs \/ CheckCollisions

Silent ==
  \/ SilentServer /\ UNCHANGED clientVars
  \/ \E c \in Clients : Connect(c) \/ SendInput(c)

LEMMA SilentStep ==
  ASSUME Silent
  PROVE  MessagesUnchanged /\ UNCHANGED <<pid, currentTick>>
<1>1. CASE /\ Frame \/ Stop \/ Signal \/ KilledBySigpipe \/ GetPlayers
           /\ UNCHANGED clientVars
  BY <1>1 DEF Frame, Stop, Signal, KilledBySigpipe, GetPlayers, netVars,
    loopVars, playerVars, linkVars, clientVars, MessagesUnchanged
<1>2. CASE ReceiveFromClients /\ UNCHANGED clientVars
  BY <1>2 DEF ReceiveFromClients, ReceivePackets, EraseDisconnected,
    ReceiveNothing, ReceiveDone, netVars, loopVars, playerVars, linkVars,
    clientVars, MessagesUnchanged
<1>3. CASE /\ ProcessInputs \/ CheckCollisions
           /\ UNCHANGED clientVars
  BY <1>3 DEF ProcessInputs, CheckCollisions, netVars, loopVars, linkVars,
    clientVars, MessagesUnchanged
<1>4. CASE AcceptNewClients /\ ~CanAccept /\ UNCHANGED clientVars
  BY <1>4 DEF AcceptNewClients, netVars, loopVars, clientVars,
    MessagesUnchanged
<1>5. ASSUME NEW c \in Clients, Connect(c) \/ SendInput(c)
      PROVE  MessagesUnchanged /\ UNCHANGED <<pid, currentTick>>
  BY <1>5 DEF Connect, OpenLink, SendInput, PutToServer, serverVars, netVars,
    loopVars, playerVars, clientVars, MessagesUnchanged
<1> QED
  BY <1>1, <1>2, <1>3, <1>4, <1>5 DEF Silent, SilentServer

\* What sendToClients does to the outgoing buffer and to the sockets.
LEMMA SendMoves ==
  ASSUME SendToClients
  PROVE  \E k \in 0 .. Len(outgoing) :
           /\ outgoing' = SubSeq(outgoing, k + 1, Len(outgoing))
           /\ toClient' = [c \in Clients |->
                IF c \in {d \in Members(players) : link[d] = "open"}
                  THEN toClient[c] \o AddressedTo(c, SubSeq(outgoing, 1, k))
                  ELSE toClient[c]]
BY DEF SendToClients

\* The ids a broadcast lists are ids the server has given out.
LEMMA ListedIds ==
  ASSUME StateTypeOK, Places, NoDanglingPlayer, phase = "collide"
  PROVE  {pid[c] : c \in Members(gamePlayers)} \in SUBSET (1 .. nextPlayerId - 1)
<1>1. gamePlayers = players
  BY DEF NoDanglingPlayer
<1>2. \A c \in Members(players) : pid[c] # 0 /\ c \in Clients
  BY Domains DEF Places
<1>3. \A c \in Clients : pid[c] \in 0 .. nextPlayerId - 1
  BY DEF StateTypeOK, PlayerTypesOK
<1>4. nextPlayerId \in Nat
  BY DEF StateTypeOK, PlayerTypesOK
<1> QED
  BY <1>1, <1>2, <1>3, <1>4

\* The broadcast of a tick.
LEMMA BroadcastSends ==
  ASSUME StateTypeOK, Places, NoDanglingPlayer, BroadcastAndEndTick
  PROVE  /\ currentTick \in 0 .. TICK_MOD - 1
         /\ currentTick' = NextTick(currentTick)
         /\ UNCHANGED <<nextPlayerId, players, pid, link, toClient>>
         /\ ~BroadcastDue(currentTick) => outgoing' = outgoing
         /\ BroadcastDue(currentTick) =>
              \E m \in MessageUpTo(nextPlayerId) :
                /\ m.kind = "world" /\ m.tick = currentTick
                /\ outgoing' = Append(outgoing, m)
<1> DEFINE ids == {pid[c] : c \in Members(gamePlayers)}
           m   == WorldState(currentTick, ids)
<1>1. phase = "collide"
  BY DEF BroadcastAndEndTick
<1>2. ids \in SUBSET (1 .. nextPlayerId - 1)
  BY <1>1, ListedIds
<1>3. currentTick \in 0 .. TICK_MOD - 1 /\ nextPlayerId \in Nat \ {0}
  BY DEF StateTypeOK, GameTypesOK, PlayerTypesOK
<1>4. ASSUME BroadcastDue(currentTick) PROVE outgoing' = Append(outgoing, m)
  BY <1>4 DEF BroadcastAndEndTick, BroadcastWorldState
<1> HIDE DEF ids
<1>5. /\ m \in MessageUpTo(nextPlayerId)
      /\ m.kind = "world" /\ m.tick = currentTick
  BY <1>2, <1>3, NewBroadcast
<1> HIDE DEF m
<1>6. /\ currentTick' = NextTick(currentTick)
      /\ UNCHANGED <<nextPlayerId, players, pid, link, toClient>>
      /\ ~BroadcastDue(currentTick) => outgoing' = outgoing
  BY DEF BroadcastAndEndTick, playerVars, linkVars
<1> QED
  BY <1>3, <1>4, <1>5, <1>6

LEMMA MessagesKept ==
  ASSUME StateTypeOK, MessagesTypeOK, Places, NoDanglingPlayer, Next
  PROVE  MessagesTypeOK'
<1> DEFINE n == nextPlayerId
<1>1. /\ outgoing \in Seq(MessageUpTo(n))
      /\ toClient \in [Clients -> Seq(MessageUpTo(n))]
      /\ assigned \in [Clients -> 0 .. n - 1]
      /\ seen \in [Clients -> {NoTick} \cup 0 .. TICK_MOD - 1]
      /\ n \in Nat \ {0}
  BY MessageIsUpTo DEF MessagesTypeOK, StateTypeOK, PlayerTypesOK
<1>2. ASSUME outgoing' \in Seq(MessageUpTo(n')),
             toClient' \in [Clients -> Seq(MessageUpTo(n'))],
             assigned' \in [Clients -> 0 .. n' - 1],
             seen' \in [Clients -> {NoTick} \cup 0 .. TICK_MOD - 1]
      PROVE  MessagesTypeOK'
  BY <1>2, MessageIsUpTo DEF MessagesTypeOK
<1>3. CASE AcceptNewClients /\ CanAccept /\ UNCHANGED clientVars
  <2>1. /\ outgoing' = Append(outgoing, Welcome(n)) /\ n' = n + 1
        /\ UNCHANGED <<toClient, assigned, seen>>
    BY <1>3 DEF AcceptNewClients, clientVars
  <2>2. /\ MessageUpTo(n) \subseteq MessageUpTo(n + 1)
        /\ Welcome(n) \in MessageUpTo(n + 1)
    BY <1>1, NewWelcome
  <2>3. Seq(MessageUpTo(n)) \subseteq Seq(MessageUpTo(n + 1))
    BY <2>2, SeqMonotonic
  <2>4. outgoing' \in Seq(MessageUpTo(n'))
    BY <1>1, <2>1, <2>2, <2>3, AppendProperties
  <2>5. toClient' \in [Clients -> Seq(MessageUpTo(n'))]
    BY <1>1, <2>1, <2>3
  <2>6. assigned' \in [Clients -> 0 .. n' - 1]
    BY <1>1, <2>1
  <2> QED
    BY <1>1, <1>2, <2>1, <2>4, <2>5, <2>6
<1>4. CASE SendToClients /\ UNCHANGED clientVars
  <2>1. PICK k \in 0 .. Len(outgoing) :
          /\ outgoing' = SubSeq(outgoing, k + 1, Len(outgoing))
          /\ toClient' = [c \in Clients |->
               IF c \in {d \in Members(players) : link[d] = "open"}
                 THEN toClient[c] \o AddressedTo(c, SubSeq(outgoing, 1, k))
                 ELSE toClient[c]]
    BY <1>4, SendMoves
  <2>2. /\ SubSeq(outgoing, 1, k) \in Seq(MessageUpTo(n))
        /\ outgoing' \in Seq(MessageUpTo(n))
    BY <1>1, <2>1, CutQueue
  <2>3. \A c \in Clients :
          AddressedTo(c, SubSeq(outgoing, 1, k)) \in Seq(MessageUpTo(n))
    BY <2>2, AddressedToIsForPlayer
  <2>4. \A c \in Clients :
          toClient[c] \o AddressedTo(c, SubSeq(outgoing, 1, k))
            \in Seq(MessageUpTo(n))
    BY <1>1, <2>3, ConcatProperties
  <2>5. toClient' \in [Clients -> Seq(MessageUpTo(n))]
    BY <1>1, <2>1, <2>4
  <2>6. UNCHANGED <<nextPlayerId, assigned, seen>>
    BY <1>4 DEF SendToClients, clientVars
  <2> QED
    BY <1>1, <1>2, <2>2, <2>5, <2>6
<1>5. CASE BroadcastAndEndTick /\ UNCHANGED clientVars
  <2>1. UNCHANGED <<nextPlayerId, toClient, assigned, seen>>
    BY <1>5, BroadcastSends DEF clientVars
  <2>2. outgoing' \in Seq(MessageUpTo(n))
    <3>1. CASE BroadcastDue(currentTick)
      <4>1. PICK m \in MessageUpTo(n) : outgoing' = Append(outgoing, m)
        BY <1>5, <3>1, BroadcastSends
      <4> QED
        BY <1>1, <4>1, AppendProperties
    <3>2. CASE ~BroadcastDue(currentTick)
      BY <1>1, <1>5, <3>2, BroadcastSends
    <3> QED
      BY <3>1, <3>2
  <2> QED
    BY <1>1, <1>2, <2>1, <2>2
<1>6. ASSUME NEW c \in Clients, ReadPacket(c) PROVE MessagesTypeOK'
  <2> DEFINE m == Head(toClient[c])
  <2>1. toClient[c] # <<>> /\ toClient' = [toClient EXCEPT ![c] = Tail(toClient[c])]
    BY <1>6 DEF ReadPacket, TakeFromServer
  <2>2. m \in MessageUpTo(n) /\ Tail(toClient[c]) \in Seq(MessageUpTo(n))
    BY <1>1, <2>1, HeadTailProperties
  <2>3. toClient' \in [Clients -> Seq(MessageUpTo(n))]
    BY <1>1, <2>1, <2>2
  <2>4. UNCHANGED <<nextPlayerId, outgoing>>
    BY <1>6 DEF ReadPacket, serverVars, netVars
  <2>5. IF m.kind = "welcome"
          THEN assigned' = [assigned EXCEPT ![c] = m.id] /\ UNCHANGED seen
          ELSE seen' = [seen EXCEPT ![c] = m.tick] /\ UNCHANGED assigned
    BY <1>6 DEF ReadPacket
  <2> HIDE DEF m
  <2>6. \/ m.kind = "welcome" /\ m.id \in 1 .. n - 1
        \/ m.kind = "world" /\ m.tick \in 0 .. TICK_MOD - 1
    BY <1>1, <2>2, MessageFields
  <2>7. /\ assigned' \in [Clients -> 0 .. n - 1]
        /\ seen' \in [Clients -> {NoTick} \cup 0 .. TICK_MOD - 1]
    <3>1. CASE m.kind = "welcome" /\ m.id \in 1 .. n - 1
      <4>1. m.id \in 0 .. n - 1
        BY <3>1
      <4> QED
        BY <1>1, <2>5, <3>1, <4>1
    <3>2. CASE m.kind = "world" /\ m.tick \in 0 .. TICK_MOD - 1
      BY <1>1, <2>5, <3>2
    <3> QED
      BY <2>6, <3>1, <3>2
  <2> QED
    BY <1>1, <1>2, <2>3, <2>4, <2>7
<1>7. ASSUME NEW c \in Clients, Quit(c) PROVE MessagesTypeOK'
  <2>1. /\ toClient' = [toClient EXCEPT ![c] = <<>>]
        /\ UNCHANGED <<nextPlayerId, outgoing, assigned, seen>>
    BY <1>7 DEF Quit, CloseLink, serverVars, netVars, clientVars
  <2>2. toClient' \in [Clients -> Seq(MessageUpTo(n))]
    BY <1>1, <2>1
  <2> QED
    BY <1>1, <1>2, <2>1, <2>2
<1> QED
  BY <1>3, <1>4, <1>5, <1>6, <1>7, SilentStep, MessagesStay
     DEF Next, Server, ServerStep, ClientStep, Silent, SilentServer

-----------------------------------------------------------------------------
(* What is on its way to a client, from step to step.                      *)

LEMMA StreamIs ==
  ASSUME NEW c
  PROVE  /\ Stream(c) = toClient[c] \o ForPlayer(pid[c], outgoing)
         /\ Stream(c)' = toClient'[c] \o ForPlayer(pid'[c], outgoing')
BY DEF Stream, AddressedTo, Wanted, ForPlayer, WantedBy

MailOf(c) ==
  /\ OneWelcome(Stream(c), assigned[c], pid[c])
  /\ Snapshots(Stream(c), seen[c], currentTick)

\* Whoever connects next, the broadcasts that still wait are in order, and a
\* client without an id has read none.
Pending ==
  /\ \A id \in Nat : Snapshots(ForPlayer(id, outgoing), NoTick, currentTick)
  /\ \A c \in Clients : pid[c] = 0 => seen[c] = NoTick

Mail == Pending /\ \A c \in Attached : MailOf(c)

LEMMA Packets ==
  ASSUME MessagesTypeOK, StateTypeOK
  PROVE  /\ outgoing \in Seq(Message)
         /\ toClient \in [Clients -> Seq(Message)]
         /\ DOMAIN assigned = Clients /\ DOMAIN seen = Clients
         /\ nextPlayerId \in Nat \ {0}
         /\ \A c \in Clients : pid[c] \in Nat /\ pid[c] < nextPlayerId
BY DEF MessagesTypeOK, StateTypeOK, PlayerTypesOK

LEMMA AttachedClients ==
  ASSUME StateTypeOK, Places
  PROVE  Attached \subseteq Clients /\ \A c \in Attached : pid[c] # 0
BY Domains DEF Attached, Places

LEMMA MailLater ==
  ASSUME NEW c
  PROVE  MailOf(c)' <=> /\ OneWelcome(Stream(c)', assigned'[c], pid'[c])
                       /\ Snapshots(Stream(c)', seen'[c], currentTick')
BY DEF MailOf, OneWelcome, Snapshots, Unbroken, UpToDate, Follows, Worlds

LEMMA PendingLater ==
  Pending' <=>
    /\ \A id \in Nat : Snapshots(ForPlayer(id, outgoing'), NoTick, currentTick')
    /\ \A c \in Clients : pid'[c] = 0 => seen'[c] = NoTick
BY DEF Pending, Snapshots, Unbroken, UpToDate, Follows, Worlds

LEMMA SameMail ==
  ASSUME NEW c, Stream(c)' = Stream(c), assigned'[c] = assigned[c],
         seen'[c] = seen[c], pid'[c] = pid[c], currentTick' = currentTick,
         MailOf(c)
  PROVE  MailOf(c)'
BY MailLater DEF MailOf

LEMMA SamePending ==
  ASSUME Pending, UNCHANGED <<pid, outgoing, seen, currentTick>>
  PROVE  Pending'
BY PendingLater DEF Pending

\* Nobody is attached by a step that does not accept.
LEMMA AttachedShrinks ==
  ASSUME StateTypeOK, Places, Silent
  PROVE  Attached' \subseteq Attached
<1>1. CASE UNCHANGED <<players, link>>
  BY <1>1 DEF Attached, Members
<1>2. CASE Stop
  <2>1. players' = <<>>
    BY <1>2 DEF Stop
  <2> QED
    BY <2>1 DEF Attached, Members
<1>3. CASE EraseDisconnected
  <2>1. Members(players') \subseteq Members(players) /\ link' = link
    BY <1>3, Erased DEF EraseDisconnected, linkVars
  <2> QED
    BY <2>1 DEF Attached
<1>4. CASE AcceptNewClients /\ ~CanAccept
  BY <1>1, <1>4 DEF AcceptNewClients, netVars
<1>5. ASSUME NEW c \in Clients, Connect(c) PROVE Attached' \subseteq Attached
  <2>1. /\ link[c] = "idle" /\ link' = [link EXCEPT ![c] = "open"]
        /\ players' = players
    BY <1>5 DEF Connect, OpenLink, serverVars, netVars
  <2>2. c \notin Members(players)
    BY <2>1 DEF Places
  <2>3. \A d \in Members(players) : link'[d] = link[d]
    BY <2>1, <2>2, Domains
  <2> QED
    BY <2>1, <2>3 DEF Attached
<1>6. ASSUME NEW c \in Clients, SendInput(c) PROVE Attached' \subseteq Attached
  <2>1. UNCHANGED <<players, link>>
    BY <1>6 DEF SendInput, PutToServer, serverVars, netVars
  <2> QED
    BY <1>1, <2>1
<1> QED
  BY <1>1, <1>2, <1>3, <1>4, <1>5, <1>6, QuietStep
     DEF ReceiveFromClients, Silent, SilentServer

LEMMA SilentMail ==
  ASSUME StateTypeOK, Places, Mail, Silent
  PROVE  Mail'
<1>1. UNCHANGED <<outgoing, toClient, assigned, seen, pid, currentTick>>
  BY SilentStep DEF MessagesUnchanged
<1>2. Attached' \subseteq Attached
  BY AttachedShrinks
<1>3. \A c \in Attached : Stream(c)' = Stream(c)
  BY <1>1, StreamIs
<1>4. \A c \in Attached' : MailOf(c)'
  BY <1>1, <1>2, <1>3, SameMail DEF Mail
<1> QED
  BY <1>1, <1>4, SamePending DEF Mail

LEMMA QuitMail ==
  ASSUME StateTypeOK, Places, Mail, NEW c \in Clients, Quit(c)
  PROVE  Mail'
<1>1. /\ link' = [link EXCEPT ![c] = "closed"]
      /\ toClient' = [toClient EXCEPT ![c] = <<>>]
      /\ UNCHANGED <<players, pid, outgoing, assigned, seen, currentTick>>
  BY DEF Quit, CloseLink, serverVars, loopVars, netVars, playerVars, clientVars
<1>2. Attached' \subseteq Attached /\ c \notin Attached'
  BY <1>1, Domains DEF Attached
<1>3. \A d \in Attached' : toClient'[d] = toClient[d]
  BY <1>1, <1>2
<1>4. \A d \in Attached' : Stream(d)' = Stream(d)
  BY <1>1, <1>3, StreamIs
<1>5. \A d \in Attached' : MailOf(d)'
  BY <1>1, <1>2, <1>4, SameMail DEF Mail
<1> QED
  BY <1>1, <1>5, SamePending DEF Mail

\* What leaves the outgoing buffer for c arrives in c's socket.
LEMMA SendMail ==
  ASSUME StateTypeOK, MessagesTypeOK, Places, Mail, SendToClients,
         UNCHANGED clientVars
  PROVE  Mail'
<1>1. PICK k \in 0 .. Len(outgoing) :
        /\ outgoing' = SubSeq(outgoing, k + 1, Len(outgoing))
        /\ toClient' = [c \in Clients |->
             IF c \in {d \in Members(players) : link[d] = "open"}
               THEN toClient[c] \o AddressedTo(c, SubSeq(outgoing, 1, k))
               ELSE toClient[c]]
  BY SendMoves
<1>2. UNCHANGED <<players, link, pid, currentTick, assigned, seen>>
  BY DEF SendToClients, playerVars, loopVars, clientVars
<1> DEFINE batch == SubSeq(outgoing, 1, k)
<1>3. /\ batch \in Seq(Message) /\ outgoing' \in Seq(Message)
      /\ outgoing = batch \o outgoing'
  BY <1>1, Packets, CutQueue
<1>4. ASSUME NEW id
      PROVE  /\ ForPlayer(id, outgoing)
                  = ForPlayer(id, batch) \o ForPlayer(id, outgoing')
             /\ ForPlayer(id, batch) \in Seq(Message)
             /\ ForPlayer(id, outgoing') \in Seq(Message)
  <2> HIDE DEF batch
  <2>1. ForPlayer(id, batch \o outgoing')
          = ForPlayer(id, batch) \o ForPlayer(id, outgoing')
    BY <1>3, ForPlayerConcat
  <2> DEFINE T == {m \in Message : WantedBy(id, m)}
  <2>2. ForPlayer(id, batch) \in Seq(T) /\ ForPlayer(id, outgoing') \in Seq(T)
    BY <1>3, ForPlayerType
  <2>3. T \subseteq Message
    OBVIOUS
  <2> HIDE DEF T
  <2>4. Seq(T) \subseteq Seq(Message)
    BY <2>3, SeqMonotonic
  <2> QED
    BY <1>3, <2>1, <2>2, <2>4
<1>5. Attached' = Attached
  BY <1>2 DEF Attached, Members
<1>6. ASSUME NEW c \in Attached PROVE Stream(c)' = Stream(c)
  <2>1. toClient'[c] = toClient[c] \o ForPlayer(pid[c], batch)
    <3>1. c \in Clients /\ c \in {d \in Members(players) : link[d] = "open"}
      BY <1>6, AttachedClients DEF Attached
    <3>2. AddressedTo(c, batch) = ForPlayer(pid[c], batch)
      BY <1>3, AddressedToIsForPlayer
    <3> QED
      BY <1>1, <3>1, <3>2
  <2>2. toClient[c] \in Seq(Message)
    BY <1>6, Packets, AttachedClients
  <2> DEFINE x == toClient[c]
             y == ForPlayer(pid[c], batch)
             z == ForPlayer(pid[c], outgoing')
  <2> HIDE DEF batch
  <2>3. x \in Seq(Message) /\ y \in Seq(Message) /\ z \in Seq(Message)
    BY <1>4, <2>2
  <2>4. (x \o y) \o z = x \o (y \o z)
    <3> HIDE DEF x, y, z
    <3> QED
      BY SMTT(40), <2>3, ConcatAssociative
  <2> QED
    BY <1>2, <1>4, <2>1, <2>4, StreamIs
<1>7. \A c \in Attached' : MailOf(c)'
  BY <1>2, <1>5, <1>6, SameMail DEF Mail
<1>8. Pending'
  <2> HIDE DEF batch
  <2>1. ASSUME NEW id \in Nat
        PROVE  Snapshots(ForPlayer(id, outgoing'), NoTick, currentTick)
    <3>1. Snapshots(ForPlayer(id, batch) \o ForPlayer(id, outgoing'), NoTick,
                    currentTick)
      BY <1>4 DEF Mail, Pending
    <3> QED
      BY <1>4, <3>1, SnapshotsSuffix
  <2> QED
    BY <1>2, <2>1, PendingLater DEF Mail, Pending
<1> QED
  BY <1>7, <1>8 DEF Mail

\* The broadcast of a tick goes to everyone's end, or there is none.
LEMMA BroadcastMail ==
  ASSUME StateTypeOK, MessagesTypeOK, Places, NoDanglingPlayer, Mail,
         BroadcastAndEndTick, UNCHANGED clientVars
  PROVE  Mail'
<1> DEFINE t == currentTick
<1>1. /\ t \in 0 .. TICK_MOD - 1 /\ t' = NextTick(t)
      /\ UNCHANGED <<players, pid, link, toClient, assigned, seen>>
  BY BroadcastSends DEF clientVars
<1>2. Attached' = Attached
  BY <1>1 DEF Attached, Members
<1>3. CASE BroadcastDue(t)
  <2>1. PICK m \in Message :
          /\ m.kind = "world" /\ m.tick = t
          /\ outgoing' = Append(outgoing, m)
    BY <1>3, BroadcastSends, MessageIsUpTo
  <2>2. ASSUME NEW id
        PROVE  /\ ForPlayer(id, outgoing') = Append(ForPlayer(id, outgoing), m)
               /\ ForPlayer(id, outgoing) \in Seq(Message)
    <3>1. WantedBy(id, m)
      BY <2>1 DEF WantedBy
    <3>2. ForPlayer(id, outgoing') = Append(ForPlayer(id, outgoing), m)
      BY <2>1, <3>1, Packets, ForPlayerAppend
    <3> DEFINE T == {n \in Message : WantedBy(id, n)}
    <3>3. ForPlayer(id, outgoing) \in Seq(T)
      BY Packets, ForPlayerType
    <3>4. T \subseteq Message
      OBVIOUS
    <3> HIDE DEF T
    <3> QED
      BY <3>2, <3>3, <3>4, SeqMonotonic
  <2>3. ASSUME NEW c \in Attached PROVE MailOf(c)'
    <3> DEFINE x == toClient[c]
               y == ForPlayer(pid[c], outgoing)
    <3>1. x \in Seq(Message) /\ y \in Seq(Message)
      BY <2>2, <2>3, Packets, AttachedClients
    <3>2. Stream(c) = x \o y /\ Stream(c)' = x \o Append(y, m)
      BY <1>1, <2>2, StreamIs
    <3> HIDE DEF x, y
    <3>3. x \o Append(y, m) = Append(x \o y, m) /\ x \o y \in Seq(Message)
      BY <2>1, <3>1
    <3>4. OneWelcome(Stream(c)', assigned[c], pid[c])
      BY <2>1, <2>3, <3>2, <3>3, OneWelcomeBroadcast DEF Mail, MailOf
    <3>5. Snapshots(Stream(c)', seen[c], NextTick(t))
      BY <1>1, <1>3, <2>1, <2>3, <3>2, <3>3, SnapshotsBroadcast
         DEF Mail, MailOf
    <3> QED
      BY <1>1, <3>4, <3>5, MailLater
  <2>4. \A id \in Nat :
          Snapshots(ForPlayer(id, outgoing'), NoTick, NextTick(t))
    <3> SUFFICES ASSUME NEW id \in Nat
                 PROVE  Snapshots(ForPlayer(id, outgoing'), NoTick, NextTick(t))
      OBVIOUS
    <3>1. Snapshots(ForPlayer(id, outgoing), NoTick, t)
      BY DEF Mail, Pending
    <3> QED
      BY <1>1, <1>3, <2>1, <2>2, <3>1, SnapshotsBroadcast
  <2>5. Pending'
    BY <1>1, <2>4, PendingLater DEF Mail, Pending
  <2> QED
    BY <1>2, <2>3, <2>5 DEF Mail
<1>4. CASE ~BroadcastDue(t)
  <2>1. outgoing' = outgoing
    BY <1>4, BroadcastSends
  <2>2. ASSUME NEW c \in Attached PROVE MailOf(c)'
    <3>1. Stream(c)' = Stream(c)
      BY <1>1, <2>1, StreamIs
    <3>2. OneWelcome(Stream(c)', assigned[c], pid[c])
      BY <2>2, <3>1 DEF Mail, MailOf
    <3>3. Snapshots(Stream(c)', seen[c], NextTick(t))
      BY <1>1, <1>4, <2>2, <3>1, SnapshotsQuiet DEF Mail, MailOf
    <3> QED
      BY <1>1, <3>2, <3>3, MailLater
  <2>3. \A id \in Nat :
          Snapshots(ForPlayer(id, outgoing), NoTick, NextTick(t))
    BY <1>1, <1>4, SnapshotsQuiet DEF Mail, Pending
  <2>4. Pending'
    BY <1>1, <2>1, <2>3, PendingLater DEF Mail, Pending
  <2> QED
    BY <1>2, <2>2, <2>4 DEF Mail
<1> QED
  BY <1>3, <1>4

\* A client reads the first packet of its stream.
LEMMA ReadMail ==
  ASSUME StateTypeOK, MessagesTypeOK, Places, Fresh, Mail,
         NEW c \in Clients, ReadPacket(c)
  PROVE  Mail'
<1> DEFINE h == Head(toClient[c])
           b == Tail(toClient[c])
           y == ForPlayer(pid[c], outgoing)
<1>1. /\ toClient[c] # <<>>
      /\ toClient' = [toClient EXCEPT ![c] = b]
      /\ UNCHANGED <<link, players, pid, outgoing, currentTick>>
  BY DEF ReadPacket, TakeFromServer, serverVars, netVars, playerVars, loopVars
<1>2. IF h.kind = "welcome"
        THEN assigned' = [assigned EXCEPT ![c] = h.id] /\ UNCHANGED seen
        ELSE seen' = [seen EXCEPT ![c] = h.tick] /\ UNCHANGED assigned
  BY DEF ReadPacket
<1>3. /\ toClient[c] \in Seq(Message) /\ h \in Message /\ b \in Seq(Message)
      /\ toClient[c] = <<h>> \o b
  BY <1>1, Packets, HeadTailProperties, ConcatProperties
<1>4. y \in Seq(Message)
  <2> DEFINE T == {m \in Message : WantedBy(pid[c], m)}
  <2>1. y \in Seq(T)
    BY Packets, ForPlayerType
  <2>2. T \subseteq Message
    OBVIOUS
  <2> HIDE DEF T, y
  <2> QED
    BY <2>1, <2>2, SeqMonotonic
<1>5. Stream(c) = <<h>> \o (b \o y) /\ Stream(c)' = b \o y
  <2>1. Stream(c) = (<<h>> \o b) \o y /\ Stream(c)' = b \o y
    BY <1>1, <1>3, Packets, StreamIs
  <2>2. <<h>> \in Seq(Message)
    BY <1>3
  <2> HIDE DEF h, b, y
  <2>3. (<<h>> \o b) \o y = <<h>> \o (b \o y)
    BY <1>3, <1>4, <2>2, ConcatAssociative
  <2> QED
    BY <2>1, <2>3
<1>6. b \o y \in Seq(Message)
  BY <1>3, <1>4, ConcatProperties
<1>7. h.kind = "welcome" \/ h.kind = "world"
  BY <1>3 DEF Message
<1> HIDE DEF h, b, y
<1>8. /\ assigned'[c] = IF h.kind = "welcome" THEN h.id ELSE assigned[c]
      /\ seen'[c] = IF h.kind = "world" THEN h.tick ELSE seen[c]
      /\ \A d \in Clients \ {c} :
           assigned'[d] = assigned[d] /\ seen'[d] = seen[d]
  BY <1>2, <1>7, Packets
<1>9. Attached' = Attached
  BY <1>1 DEF Attached, Members
<1>10. ASSUME c \in Attached PROVE MailOf(c)'
  <2>1. /\ OneWelcome(<<h>> \o (b \o y), assigned[c], pid[c])
        /\ Snapshots(<<h>> \o (b \o y), seen[c], currentTick)
        /\ pid[c] # 0
    BY <1>5, <1>10, AttachedClients DEF Mail, MailOf
  <2>2. /\ OneWelcome(b \o y, assigned'[c], pid[c])
        /\ Snapshots(b \o y, seen'[c], currentTick)
    BY <1>3, <1>6, <1>8, <2>1, OneWelcomeRead, SnapshotsRead
  <2> QED
    BY <1>1, <1>5, <2>2, MailLater
<1>11. ASSUME NEW d \in Attached \ {c} PROVE MailOf(d)'
  <2>1. toClient'[d] = toClient[d] /\ d \in Clients
    BY <1>1, <1>11, Packets, AttachedClients
  <2>2. Stream(d)' = Stream(d)
    BY <1>1, <2>1, StreamIs
  <2> QED
    BY <1>1, <1>8, <1>11, <2>1, <2>2, SameMail DEF Mail
<1>12. Pending'
  <2>1. pid[c] # 0
    BY <1>1 DEF Fresh, Unheard
  <2>2. \A d \in Clients : pid'[d] = 0 => seen'[d] = NoTick
    BY <1>1, <1>8, <2>1 DEF Mail, Pending
  <2> QED
    BY <1>1, <2>2, PendingLater DEF Mail, Pending
<1> QED
  BY <1>9, <1>10, <1>11, <1>12 DEF Mail

\* A new client's stream is what the outgoing buffer holds for everyone, and
\* then its welcome.  No other client is sent that.
LEMMA AcceptMail ==
  ASSUME StateTypeOK, MessagesTypeOK, Places, Fresh, Mail,
         AcceptNewClients, CanAccept, UNCHANGED clientVars
  PROVE  Mail'
<1> DEFINE n == nextPlayerId
           m == Welcome(n)
           q == ForPlayer(n, outgoing)
           S == MessageUpTo(n + 1)
<1>1. PICK c \in Clients :
        /\ pid[c] = 0 /\ pid' = [pid EXCEPT ![c] = n]
        /\ Members(players') = Members(players) \cup {c}
  BY Accepted
<1>2. /\ outgoing' = Append(outgoing, m)
      /\ UNCHANGED <<toClient, link, currentTick, assigned, seen>>
  BY DEF AcceptNewClients, loopVars, clientVars
<1>3. /\ n \in Nat \ {0} /\ outgoing \in Seq(MessageUpTo(n))
      /\ \A d \in Clients : pid[d] \in Nat /\ pid[d] < n
  BY Packets, MessageIsUpTo
<1>4. /\ MessageUpTo(n) \subseteq S /\ m \in S
      /\ m.kind = "welcome" /\ m.id = n
  BY <1>3, NewWelcome
<1>5. outgoing \in Seq(S)
  BY <1>3, <1>4, SeqMonotonic
<1>6. Attached' \subseteq Attached \cup {c}
  BY <1>1, <1>2 DEF Attached
<1>7. pid'[c] = n /\ \A d \in Clients \ {c} : pid'[d] = pid[d]
  BY <1>1, Domains
<1> HIDE DEF m, S
<1>8. ASSUME NEW id
      PROVE  ForPlayer(id, outgoing')
               = IF id = n THEN Append(ForPlayer(id, outgoing), m)
                           ELSE ForPlayer(id, outgoing)
  <2>1. WantedBy(id, m) <=> id = n
    BY <1>4 DEF WantedBy
  <2> QED
    BY <1>2, <1>4, <1>5, <2>1, ForPlayerAppend
<1>9. q \in Seq(S) /\ \A i \in DOMAIN q : q[i].kind # "welcome" /\ n \notin q[i].ids
  <2> DEFINE T == {x \in MessageUpTo(n) : WantedBy(n, x)}
  <2>1. q \in Seq(T)
    BY <1>3, ForPlayerType
  <2>2. T \subseteq S
    BY <1>4
  <2>3. \A x \in T : x.kind # "welcome" /\ n \notin x.ids
    <3> SUFFICES ASSUME NEW x \in T PROVE x.kind # "welcome" /\ n \notin x.ids
      OBVIOUS
    <3>1. x \in MessageUpTo(n) /\ WantedBy(n, x)
      OBVIOUS
    <3>2. n \notin 1 .. n - 1
      BY <1>3
    <3>3. \/ x.kind = "welcome" /\ x.id \in 1 .. n - 1
          \/ x.kind = "world" /\ x.ids \in SUBSET (1 .. n - 1)
      BY <1>3, <3>1, MessageFields
    <3> QED
      BY <3>1, <3>2, <3>3 DEF WantedBy
  <2> HIDE DEF T, q
  <2>4. q \in Seq(S)
    BY <2>1, <2>2, SeqMonotonic
  <2>5. \A i \in DOMAIN q : q[i] \in T
    BY <2>1
  <2> QED
    BY <2>3, <2>4, <2>5
<1>10. Snapshots(q, NoTick, currentTick)
  BY <1>3 DEF Mail, Pending
<1>11. Stream(c)' = Append(q, m)
  <2>1. toClient[c] = <<>>
    BY <1>1 DEF Fresh, Unheard
  <2>2. Stream(c)' = <<>> \o Append(q, m)
    BY <1>2, <1>7, <1>8, <2>1, StreamIs
  <2>3. Append(q, m) \in Seq(S)
    BY <1>4, <1>9, AppendProperties
  <2> HIDE DEF q
  <2> QED
    BY <2>2, <2>3, ConcatEmptySeq
<1> HIDE DEF q
<1>12. MailOf(c)'
  <2>1. assigned'[c] = 0 /\ seen'[c] = NoTick
    BY <1>1, <1>2 DEF Fresh, Unheard, Mail, Pending
  <2>2. OneWelcome(Append(q, m), 0, n)
    BY <1>4, <1>9, OneWelcomeNew
  <2>3. Snapshots(Append(q, m), NoTick, currentTick)
    <3>1. m.kind # "world"
      BY <1>4
    <3> QED
      BY <1>4, <1>9, <1>10, <3>1, SnapshotsWelcome
  <2> QED
    BY <1>2, <1>7, <1>11, <2>1, <2>2, <2>3, MailLater
<1>13. ASSUME NEW d \in Attached' \ {c} PROVE MailOf(d)'
  <2>1. d \in Attached /\ d \in Clients /\ pid'[d] = pid[d] /\ pid[d] # n
    BY <1>3, <1>6, <1>7, <1>13, AttachedClients
  <2>2. Stream(d)' = Stream(d)
    BY <1>2, <1>8, <2>1, StreamIs
  <2> QED
    BY <1>2, <2>1, <2>2, SameMail DEF Mail
<1>14. Pending'
  <2>1. ASSUME NEW id \in Nat
        PROVE  Snapshots(ForPlayer(id, outgoing'), NoTick, currentTick)
    <3>1. CASE id = n
      <4>1. m.kind # "world"
        BY <1>4
      <4>2. ForPlayer(id, outgoing') = Append(q, m)
        BY <1>8, <3>1 DEF q
      <4> QED
        BY <1>4, <1>9, <1>10, <4>1, <4>2, SnapshotsWelcome
    <3>2. CASE id # n
      BY <1>8, <3>2 DEF Mail, Pending
    <3> QED
      BY <3>1, <3>2
  <2>2. \A d \in Clients : pid'[d] = 0 => seen'[d] = NoTick
    BY <1>2, <1>3, <1>7 DEF Mail, Pending
  <2> QED
    BY <1>2, <2>1, <2>2, PendingLater
<1> QED
  BY <1>6, <1>12, <1>13, <1>14 DEF Mail

-----------------------------------------------------------------------------
(* The inductive invariant of the messages.                                *)

MailInv == IInv /\ NoDanglingPlayer /\ MessagesTypeOK /\ Mail

LEMMA InitMail == Init => MailInv
<1> SUFFICES ASSUME Init PROVE MailInv
  OBVIOUS
<1>1. /\ players = <<>> /\ outgoing = <<>> /\ phase = "frame"
      /\ toClient = [c \in Clients |-> <<>>]
      /\ assigned = [c \in Clients |-> 0] /\ seen = [c \in Clients |-> NoTick]
      /\ nextPlayerId = 1
  BY DEF Init, InitServer, InitLinks
<1>2. NoDanglingPlayer
  BY <1>1 DEF NoDanglingPlayer
<1>3. MessagesTypeOK
  BY <1>1 DEF MessagesTypeOK
<1>4. Attached = {}
  BY <1>1 DEF Attached, Members
<1>5. Pending
  <2>1. Snapshots(<<>>, NoTick, currentTick)
    BY DEF Snapshots, Unbroken, UpToDate, Worlds
  <2> QED
    BY <1>1, <2>1, ForPlayerEmpty DEF Pending
<1> QED
  BY <1>2, <1>3, <1>4, <1>5, InitIInv DEF MailInv, Mail

LEMMA NextMail == MailInv /\ [Next]_vars => MailInv'
<1>1. ASSUME MailInv, Next PROVE MailInv'
  <2>1. IInv' /\ NoDanglingPlayer'
    BY <1>1, NextIInv, DanglingStep DEF MailInv
  <2>2. MessagesTypeOK'
    BY <1>1, MessagesKept DEF MailInv, IInv
  <2>3. Mail'
    BY <1>1, SilentMail, QuitMail, SendMail, BroadcastMail, ReadMail,
       AcceptMail
       DEF MailInv, IInv, Next, Server, ServerStep, ClientStep, Silent,
           SilentServer
  <2> QED
    BY <2>1, <2>2, <2>3 DEF MailInv
<1>2. ASSUME MailInv, UNCHANGED vars PROVE MailInv'
  <2>1. IInv' /\ NoDanglingPlayer'
    BY <1>2, NextIInv, DanglingStep DEF MailInv
  <2>2. /\ MessagesUnchanged
        /\ UNCHANGED <<pid, players, link, currentTick>>
    BY <1>2 DEF vars, serverVars, loopVars, netVars, playerVars, linkVars,
      clientVars, MessagesUnchanged
  <2>3. Attached' = Attached
    BY <2>2 DEF Attached, Members
  <2>4. \A c \in Attached : Stream(c)' = Stream(c)
    BY <2>2, StreamIs DEF MessagesUnchanged
  <2>5. \A c \in Attached : MailOf(c)'
    BY <1>2, <2>2, <2>4, SameMail DEF MailInv, Mail, MessagesUnchanged
  <2> QED
    BY <1>2, <2>1, <2>2, <2>3, <2>5, MessagesStay, SamePending
       DEF MailInv, Mail, MessagesUnchanged
<1> QED
  BY <1>1, <1>2

\* Every variable keeps its type: a packet to a client is a welcome with an id
\* the server has given out, or a world state of a tick that lists such ids.
THEOREM AllTypes == Spec => []TypeOK
<1>1. MailInv => TypeOK
  BY DEF MailInv, IInv, TypeOK
<1> QED
  BY <1>1, InitMail, NextMail, PTL DEF Spec

\* The welcome of a client reaches it once, with its own id, and before any
\* world state that lists it: acceptNewClients puts it into the same buffer as
\* the broadcasts, and nothing overtakes there.
THEOREM WelcomeComesFirst == Spec => []WelcomeFirst
<1>1. MailInv => WelcomeFirst
  BY DEF MailInv, Mail, MailOf, WelcomeFirst
<1> QED
  BY <1>1, InitMail, NextMail, PTL DEF Spec

\* From the first world state it reads, a client gets every later one, in the
\* order of the ticks, over the wrap of the counter and however the outgoing
\* buffer, the sends and the reads portion them.
THEOREM SnapshotsComplete == Spec => []NoSnapshotMissing
<1>1. MailInv => NoSnapshotMissing
  BY DEF MailInv, Mail, MailOf, Snapshots, NoSnapshotMissing
<1> QED
  BY <1>1, InitMail, NextMail, PTL DEF Spec

-----------------------------------------------------------------------------
(* What a client reads next, also when the server has stopped.             *)

\* The packets s of a socket whose reader has got up to the tick last.
Continuing(s, last) ==
  /\ Unbroken(s)
  /\ last # NoTick =>
       \A i \in Worlds(s) :
         (\A k \in Worlds(s) : i <= k) => s[i].tick = NextBroadcast(last)

Underway == \A c \in Clients : Continuing(toClient[c], seen[c])

\* What has arrived is the beginning of the stream.
LEMMA ContinuingPart ==
  ASSUME NEW S, NEW a \in Seq(S), NEW b \in Seq(S), NEW last, NEW now,
         Snapshots(a \o b, last, now)
  PROVE  Continuing(a, last)
<1> DEFINE s == a \o b
           n == Len(a)
<1>1. /\ n \in Nat /\ Len(b) \in Nat /\ DOMAIN a = 1 .. n
      /\ DOMAIN s = 1 .. n + Len(b)
      /\ \A i \in 1 .. n + Len(b) : i <= n => s[i] = a[i]
  <2>1. /\ s \in Seq(S) /\ Len(s) = n + Len(b)
        /\ \A i \in 1 .. n + Len(b) : s[i] = IF i <= n THEN a[i] ELSE b[i - n]
    BY ConcatProperties
  <2> HIDE DEF s
  <2> QED
    BY <2>1
<1>2. Unbroken(s) /\ (last # NoTick => Follows(s, last, now))
  BY DEF Snapshots
<1> HIDE DEF s, n
<1>3. \A i \in 1 .. n : i \in 1 .. n + Len(b) /\ i <= n
  BY <1>1
<1>4. \A i \in Worlds(a) : i \in Nat /\ i <= n /\ i \in Worlds(s) /\ s[i] = a[i]
  BY <1>1, <1>3 DEF Worlds
<1>5. \A k \in Worlds(s) : k \in Nat /\ (k \in Worlds(a) \/ n < k)
  <2> SUFFICES ASSUME NEW k \in Worlds(s)
               PROVE  k \in Nat /\ (k \in Worlds(a) \/ n < k)
    OBVIOUS
  <2>1. k \in 1 .. n + Len(b) /\ s[k].kind = "world"
    BY <1>1 DEF Worlds
  <2>2. CASE k <= n
    BY <1>1, <2>1, <2>2 DEF Worlds
  <2> QED
    BY <1>1, <2>1, <2>2
<1>6. Unbroken(a)
  <2> SUFFICES ASSUME NEW i \in Worlds(a), NEW j \in Worlds(a), i < j,
                      \A k \in Worlds(a) : k <= i \/ j <= k
               PROVE  a[j].tick = NextBroadcast(a[i].tick)
    BY DEF Unbroken
  <2>1. \A k \in Worlds(s) : k <= i \/ j <= k
    BY <1>1, <1>4, <1>5
  <2> QED
    BY <1>2, <1>4, <2>1 DEF Unbroken
<1>7. ASSUME last # NoTick, NEW i \in Worlds(a), \A k \in Worlds(a) : i <= k
      PROVE  a[i].tick = NextBroadcast(last)
  <2>1. \A k \in Worlds(s) : i <= k
    BY <1>1, <1>4, <1>5, <1>7
  <2> QED
    BY <1>2, <1>4, <1>7, <2>1 DEF Follows
<1> QED
  BY <1>6, <1>7 DEF Continuing

\* The next packet is read.
LEMMA ContinuingRead ==
  ASSUME NEW S, NEW h \in S, NEW b \in Seq(S), NEW last,
         Continuing(<<h>> \o b, last)
  PROVE  /\ Continuing(b, IF h.kind = "world" THEN h.tick ELSE last)
         /\ h.kind = "world" /\ last # NoTick => h.tick = NextBroadcast(last)
<1> DEFINE a == <<h>>
           s == a \o b
<1>1. a \in Seq(S) /\ Len(a) = 1 /\ a[1] = h
  OBVIOUS
<1>2. /\ \A i \in Worlds(b) :
           i \in Nat \ {0} /\ 1 + i \in Worlds(s) /\ s[1 + i] = b[i]
      /\ \A k \in Worlds(s) : k \in Nat /\ (k <= 1 \/ k - 1 \in Worlds(b))
  <2> HIDE DEF a
  <2>1. EndsLike(s, 1, b)
    BY <1>1, WorldsConcat
  <2> QED
    BY <2>1 DEF EndsLike
<1>3. s[1] = h /\ (1 \in Worlds(s) <=> h.kind = "world") /\ 0 \notin Worlds(s)
  <2> HIDE DEF a
  <2>1. /\ s \in Seq(S) /\ Len(s) = Len(a) + Len(b) /\ Len(b) \in Nat
        /\ s[1] = IF 1 <= Len(a) THEN a[1] ELSE b[1 - Len(a)]
    BY <1>1, ConcatProperties
  <2>2. DOMAIN s = 1 .. 1 + Len(b) /\ 1 \in DOMAIN s /\ 0 \notin DOMAIN s
    BY <1>1, <2>1
  <2> QED
    BY <1>1, <2>1, <2>2 DEF Worlds
<1>4. Unbroken(s)
  BY DEF Continuing
<1>5. ASSUME last # NoTick, NEW i \in Worlds(s), \A k \in Worlds(s) : i <= k
      PROVE  s[i].tick = NextBroadcast(last)
  BY <1>5 DEF Continuing
<1> HIDE DEF s
<1>6. \A k \in Worlds(s) : k \in Nat \ {0}
  BY <1>2, <1>3
<1>7. Unbroken(b)
  <2> SUFFICES ASSUME NEW i \in Worlds(b), NEW j \in Worlds(b), i < j,
                      \A k \in Worlds(b) : k <= i \/ j <= k
               PROVE  b[j].tick = NextBroadcast(b[i].tick)
    BY DEF Unbroken
  <2>1. /\ 1 + i \in Worlds(s) /\ 1 + j \in Worlds(s) /\ 1 + i < 1 + j
        /\ s[1 + i] = b[i] /\ s[1 + j] = b[j]
    BY <1>2
  <2>2. ASSUME NEW k \in Worlds(s) PROVE k <= 1 + i \/ 1 + j <= k
    <3>1. k \in Nat /\ i \in Nat /\ j \in Nat /\ (k <= 1 \/ k - 1 \in Worlds(b))
      BY <1>2
    <3>2. CASE k - 1 \in Worlds(b)
      <4>1. k - 1 <= i \/ j <= k - 1
        BY <3>2
      <4> QED
        BY <3>1, <4>1
    <3> QED
      BY <3>1, <3>2
  <2> QED
    BY <1>4, <2>1, <2>2 DEF Unbroken
<1>8. CASE h.kind = "world"
  <2>1. last # NoTick => h.tick = NextBroadcast(last)
    BY <1>3, <1>5, <1>6, <1>8
  <2>2. ASSUME NEW i \in Worlds(b), \A k \in Worlds(b) : i <= k
        PROVE  b[i].tick = NextBroadcast(h.tick)
    <3>1. /\ 1 \in Worlds(s) /\ 1 + i \in Worlds(s) /\ 1 < 1 + i
          /\ s[1 + i] = b[i]
      BY <1>2, <1>3, <1>8
    <3>2. \A k \in Worlds(s) : k <= 1 \/ 1 + i <= k
      BY <1>2, <2>2
    <3> QED
      BY <1>3, <1>4, <3>1, <3>2 DEF Unbroken
  <2> QED
    BY <1>7, <1>8, <2>1, <2>2 DEF Continuing
<1>9. CASE h.kind # "world"
  <2>1. ASSUME last # NoTick, NEW i \in Worlds(b), \A k \in Worlds(b) : i <= k
        PROVE  b[i].tick = NextBroadcast(last)
    <3>1. 1 + i \in Worlds(s) /\ s[1 + i] = b[i]
      BY <1>2
    <3>2. \A k \in Worlds(s) : 1 + i <= k
      BY <1>2, <1>3, <1>9, <2>1
    <3> QED
      BY <1>5, <2>1, <3>1, <3>2
  <2> QED
    BY <1>7, <1>9, <2>1 DEF Continuing
<1> QED
  BY <1>8, <1>9

LEMMA UnderwayLater ==
  Underway' <=> \A c \in Clients : Continuing(toClient'[c], seen'[c])
BY DEF Underway, Continuing, Unbroken, Worlds

LEMMA SameUnderway ==
  ASSUME Underway, UNCHANGED <<toClient, seen>>
  PROVE  Underway'
BY UnderwayLater DEF Underway

LEMMA NothingContinues ==
  ASSUME NEW last
  PROVE  Continuing(<<>>, last)
BY DEF Continuing, Unbroken, Worlds

\* What arrives is what comes next, by the invariant after the step.
LEMMA SendUnderway ==
  ASSUME StateTypeOK, MessagesTypeOK, MessagesTypeOK', StateTypeOK', Underway,
         Mail', SendToClients, UNCHANGED clientVars
  PROVE  Underway'
<1>1. PICK k \in 0 .. Len(outgoing) :
        toClient' = [c \in Clients |->
          IF c \in {d \in Members(players) : link[d] = "open"}
            THEN toClient[c] \o AddressedTo(c, SubSeq(outgoing, 1, k))
            ELSE toClient[c]]
  BY SendMoves
<1>2. UNCHANGED <<players, link, seen>>
  BY DEF SendToClients, clientVars
<1> SUFFICES ASSUME NEW c \in Clients PROVE Continuing(toClient'[c], seen'[c])
  BY UnderwayLater
<1>3. CASE c \in Attached
  <2> DEFINE rest == ForPlayer(pid'[c], outgoing')
  <2>1. c \in Attached'
    BY <1>2, <1>3 DEF Attached, Members
  <2>2. Snapshots(toClient'[c] \o rest, seen'[c], currentTick')
    BY <2>1, StreamIs, MailLater DEF Mail
  <2>3. toClient'[c] \in Seq(Message') /\ rest \in Seq(Message')
    <3>1. toClient' \in [Clients -> Seq(Message')] /\ outgoing' \in Seq(Message')
      BY DEF MessagesTypeOK
    <3> DEFINE T == {m \in Message' : WantedBy(pid'[c], m)}
    <3>2. rest \in Seq(T)
      BY <3>1, ForPlayerType
    <3>3. T \subseteq Message'
      OBVIOUS
    <3> HIDE DEF T, rest
    <3> QED
      BY <3>1, <3>2, <3>3, SeqMonotonic
  <2> HIDE DEF rest
  <2> QED
    BY <2>2, <2>3, ContinuingPart
<1>4. CASE c \notin Attached
  BY <1>1, <1>2, <1>4 DEF Attached, Underway
<1> QED
  BY <1>3, <1>4

LEMMA ReadUnderway ==
  ASSUME MessagesTypeOK, Underway, NEW c \in Clients, ReadPacket(c)
  PROVE  Underway'
<1> DEFINE h == Head(toClient[c])
           b == Tail(toClient[c])
<1>1. /\ toClient[c] # <<>> /\ toClient' = [toClient EXCEPT ![c] = b]
      /\ toClient \in [Clients -> Seq(Message)] /\ DOMAIN seen = Clients
  BY DEF ReadPacket, TakeFromServer, MessagesTypeOK
<1>2. /\ h \in Message /\ b \in Seq(Message) /\ toClient[c] = <<h>> \o b
  BY <1>1, HeadTailProperties, ConcatProperties
<1>3. h.kind = "welcome" \/ h.kind = "world"
  BY <1>2 DEF Message
<1>4. IF h.kind = "welcome" THEN UNCHANGED seen
                            ELSE seen' = [seen EXCEPT ![c] = h.tick]
  BY DEF ReadPacket
<1> HIDE DEF h, b
<1>5. /\ seen'[c] = IF h.kind = "world" THEN h.tick ELSE seen[c]
      /\ \A d \in Clients \ {c} : seen'[d] = seen[d] /\ toClient'[d] = toClient[d]
      /\ toClient'[c] = b
  BY <1>1, <1>3, <1>4
<1>6. Continuing(<<h>> \o b, seen[c])
  BY <1>2 DEF Underway
<1>7. Continuing(b, seen'[c])
  BY <1>2, <1>5, <1>6, ContinuingRead
<1> QED
  BY <1>5, <1>7, UnderwayLater DEF Underway

LEMMA QuitUnderway ==
  ASSUME MessagesTypeOK, Underway, NEW c \in Clients, Quit(c)
  PROVE  Underway'
<1>1. toClient' = [toClient EXCEPT ![c] = <<>>] /\ seen' = seen
  BY DEF Quit, CloseLink, clientVars
<1>2. \A d \in Clients : toClient'[d] = toClient[d] \/ toClient'[d] = <<>>
  BY <1>1 DEF MessagesTypeOK
<1> QED
  BY <1>1, <1>2, NothingContinues, UnderwayLater DEF Underway

LEMMA NextUnderway ==
  ASSUME MailInv, Underway, [Next]_vars
  PROVE  Underway'
<1>1. MailInv'
  BY NextMail
<1>2. CASE Silent \/ UNCHANGED vars
  BY <1>2, SilentStep, SameUnderway DEF MessagesUnchanged, vars, linkVars, clientVars
<1>3. CASE /\ (AcceptNewClients /\ CanAccept) \/ BroadcastAndEndTick
           /\ UNCHANGED clientVars
  BY <1>3, SameUnderway DEF AcceptNewClients, BroadcastAndEndTick, linkVars, clientVars
<1>4. CASE SendToClients /\ UNCHANGED clientVars
  BY <1>1, <1>4, SendUnderway DEF MailInv, IInv
<1>5. ASSUME NEW c \in Clients, ReadPacket(c) \/ Quit(c)
      PROVE  Underway'
  BY <1>5, ReadUnderway, QuitUnderway DEF MailInv
<1> QED
  BY <1>2, <1>3, <1>4, <1>5
     DEF Next, Server, ServerStep, ClientStep, Silent, SilentServer

\* The packet a client reads next is its welcome or, once it has read a world
\* state, the one broadcast after that.
NextIsRead ==
  \A c \in Clients :
    toClient[c] # <<>> /\ seen[c] # NoTick =>
      \/ Head(toClient[c]).kind = "welcome"
      \/ Head(toClient[c]).tick = NextBroadcast(seen[c])

\* Clients read the world states in the order of the ticks and skip none,
\* those too that were still in the socket when the server stopped.
THEOREM ReadInOrder == Spec => []NextIsRead
<1>1. Init => Underway
  BY NothingContinues DEF Init, InitLinks, Underway
<1>2. MailInv /\ Underway /\ [Next]_vars => Underway'
  BY NextUnderway
<1>3. MailInv /\ Underway => NextIsRead
  <2> SUFFICES ASSUME MailInv, Underway, NEW c \in Clients,
                      toClient[c] # <<>>, seen[c] # NoTick
               PROVE  \/ Head(toClient[c]).kind = "welcome"
                      \/ Head(toClient[c]).tick = NextBroadcast(seen[c])
    BY DEF NextIsRead
  <2> DEFINE h == Head(toClient[c])
             b == Tail(toClient[c])
  <2>1. toClient[c] \in Seq(Message)
    BY DEF MailInv, MessagesTypeOK
  <2>2. h \in Message /\ b \in Seq(Message) /\ toClient[c] = <<h>> \o b
    BY <2>1, HeadTailProperties, ConcatProperties
  <2>3. h.kind = "welcome" \/ h.kind = "world"
    BY <2>2 DEF Message
  <2> HIDE DEF h, b
  <2>4. Continuing(<<h>> \o b, seen[c])
    BY <2>2 DEF Underway
  <2> QED
    BY <2>2, <2>3, <2>4, ContinuingRead DEF h
<1> QED
  BY <1>1, <1>2, <1>3, InitMail, NextMail, PTL DEF Spec

-----------------------------------------------------------------------------
(* Points and places.                                                      *)

LEMMA TallyMembers ==
  ASSUME NEW f
  PROVE  \A m : m \in Tally(f) <=>
           \E x \in DOMAIN f : \E i \in 1 .. f[x] : m = <<x, i>>
BY DEF Tally

\* Units that were not there before.
LEMMA TallyAdds ==
  ASSUME NEW f, NEW g, NEW more,
         IsFiniteSet(Tally(f)), IsFiniteSet(more),
         Tally(g) = Tally(f) \cup more, Tally(f) \cap more = {}
  PROVE  /\ IsFiniteSet(Tally(g))
         /\ Cardinality(Tally(g)) = Cardinality(Tally(f)) + Cardinality(more)
<1>1. /\ IsFiniteSet(Tally(f) \cup more)
      /\ Cardinality(Tally(f) \cup more)
           = Cardinality(Tally(f)) + Cardinality(more)
               - Cardinality(Tally(f) \cap more)
  BY FS_Union
<1>2. Cardinality(Tally(f) \cap more) = 0
  BY FS_EmptySet
<1>3. Cardinality(Tally(f)) \in Nat /\ Cardinality(more) \in Nat
  BY FS_CardinalityType
<1> DEFINE a == Cardinality(Tally(f))
           b == Cardinality(more)
<1>4. Cardinality(Tally(g)) = a + b - 0
  BY <1>1, <1>2
<1>5. a \in Nat /\ b \in Nat
  BY <1>3
<1> HIDE DEF a, b
<1>6. a + b - 0 = a + b
  BY <1>5
<1>7. Cardinality(Tally(g)) = a + b
  BY <1>4, <1>6
<1> QED
  BY <1>1, <1>7 DEF a, b

LEMMA IntervalAbove ==
  ASSUME NEW a \in Nat, NEW n \in Nat
  PROVE  /\ IsFiniteSet(a + 1 .. a + n)
         /\ Cardinality(a + 1 .. a + n) = n
<1> DEFINE low == a + 1
           high == a + n
<1>1. low \in Int /\ high \in Int
  OBVIOUS
<1>2. (IF low > high THEN 0 ELSE high - low + 1) = n
  OBVIOUS
<1> HIDE DEF low, high
<1>3. /\ IsFiniteSet(low .. high)
      /\ Cardinality(low .. high) = IF low > high THEN 0 ELSE high - low + 1
  BY <1>1, FS_Interval
<1> QED
  BY <1>2, <1>3 DEF low, high

\* n units more for one.
LEMMA TallyOne ==
  ASSUME NEW S, NEW f \in [S -> Nat], NEW g \in [S -> Nat],
         NEW x \in S, NEW n \in Nat,
         g[x] = f[x] + n, \A y \in S \ {x} : g[y] = f[y],
         IsFiniteSet(Tally(f))
  PROVE  /\ IsFiniteSet(Tally(g))
         /\ Cardinality(Tally(g)) = Cardinality(Tally(f)) + n
<1> DEFINE ticks == f[x] + 1 .. f[x] + n
           more == {x} \X ticks
<1>1. f[x] \in Nat /\ f[x] + 1 \in Int /\ f[x] + n \in Int
  OBVIOUS
<1>2. IsFiniteSet(ticks) /\ Cardinality(ticks) = n
  BY <1>1, IntervalAbove
<1>3. IsFiniteSet(more) /\ Cardinality(more) = n
  <2>1. IsFiniteSet({x}) /\ Cardinality({x}) = 1
    BY FS_Singleton
  <2> HIDE DEF ticks
  <2>2. IsFiniteSet(more) /\ Cardinality(more) = 1 * Cardinality(ticks)
    BY <1>2, <2>1, FS_Product
  <2>3. 1 * n = n
    OBVIOUS
  <2> QED
    BY <1>2, <2>2, <2>3
<1>4. \A m : m \in more <=> \E i \in ticks : m = <<x, i>>
  OBVIOUS
<1>5. \A i \in Int : i \in 1 .. g[x] <=> i \in 1 .. f[x] \/ i \in ticks
  <2> DEFINE a == f[x]
             b == g[x]
  <2>1. a \in Nat /\ b = a + n
    BY <1>1
  <2> HIDE DEF a, b
  <2>2. \A i \in Int : i \in 1 .. b <=> i \in 1 .. a \/ i \in a + 1 .. a + n
    BY <2>1
  <2> QED
    BY <2>2 DEF a, b
<1>6. \A i \in 1 .. f[x] : i \notin ticks
  <2> DEFINE a == f[x]
  <2>1. a \in Nat
    BY <1>1
  <2> HIDE DEF a
  <2>2. \A i \in 1 .. a : i \notin a + 1 .. a + n
    BY <2>1
  <2> QED
    BY <2>2 DEF a
<1>7. DOMAIN f = S /\ DOMAIN g = S
  OBVIOUS
<1>8. ticks \subseteq Int /\ 1 .. f[x] \subseteq Int /\ 1 .. g[x] \subseteq Int
  BY <1>1
<1> HIDE DEF ticks, more
<1>9. Tally(f) \cap more = {}
  <2> SUFFICES ASSUME NEW m, m \in Tally(f), m \in more PROVE FALSE
    OBVIOUS
  <2>1. PICK y \in S : \E i \in 1 .. f[y] : m = <<y, i>>
    BY <1>7, TallyMembers
  <2>2. PICK i \in 1 .. f[y] : m = <<y, i>>
    BY <2>1
  <2>3. PICK j \in ticks : m = <<x, j>>
    BY <1>4
  <2>4. y = x /\ i = j
    BY <2>2, <2>3
  <2> QED
    BY <1>6, <2>4
<1>10. Tally(g) = Tally(f) \cup more
  <2>1. ASSUME NEW m, m \in Tally(g) PROVE m \in Tally(f) \cup more
    <3>1. PICK y \in S : \E i \in 1 .. g[y] : m = <<y, i>>
      BY <1>7, <2>1, TallyMembers
    <3>2. PICK i \in 1 .. g[y] : m = <<y, i>>
      BY <3>1
    <3>3. CASE y = x
      <4>1. i \in 1 .. f[x] \/ i \in ticks
        BY <1>5, <1>8, <3>3
      <4> QED
        BY <1>4, <1>7, <3>2, <3>3, <4>1, TallyMembers
    <3>4. CASE y # x
      <4>1. i \in 1 .. f[y]
        BY <3>4
      <4> QED
        BY <1>7, <3>2, <4>1, TallyMembers
    <3> QED
      BY <3>3, <3>4
  <2>2. ASSUME NEW m, m \in Tally(f) PROVE m \in Tally(g)
    <3>1. PICK y \in S : \E i \in 1 .. f[y] : m = <<y, i>>
      BY <1>7, <2>2, TallyMembers
    <3>2. PICK i \in 1 .. f[y] : m = <<y, i>>
      BY <3>1
    <3>3. i \in 1 .. g[y]
      BY <1>5, <1>8
    <3> QED
      BY <1>7, <3>2, <3>3, TallyMembers
  <2>3. ASSUME NEW m, m \in more PROVE m \in Tally(g)
    <3>1. PICK i \in ticks : m = <<x, i>>
      BY <1>4, <2>3
    <3>2. i \in 1 .. g[x]
      BY <1>5, <1>8
    <3> QED
      BY <1>7, <3>1, <3>2, TallyMembers
  <2> QED
    BY <2>1, <2>2, <2>3
<1>11. /\ IsFiniteSet(Tally(g))
       /\ Cardinality(Tally(g)) = Cardinality(Tally(f)) + Cardinality(more)
  BY <1>3, <1>9, <1>10, TallyAdds
<1> QED
  BY <1>3, <1>11

\* One unit more for each of some.
LEMMA TallyMany ==
  ASSUME NEW S, NEW f \in [S -> Nat], NEW g \in [S -> Nat],
         NEW hits \in SUBSET S, IsFiniteSet(hits),
         \A x \in hits : g[x] = f[x] + 1,
         \A x \in S \ hits : g[x] = f[x],
         IsFiniteSet(Tally(f))
  PROVE  /\ IsFiniteSet(Tally(g))
         /\ Cardinality(Tally(g)) = Cardinality(Tally(f)) + Cardinality(hits)
<1> DEFINE more == {<<x, f[x] + 1>> : x \in hits}
           pair == [x \in hits |-> <<x, f[x] + 1>>]
<1>1. \A m : m \in more <=> \E x \in hits : m = <<x, f[x] + 1>>
  OBVIOUS
<1>2. IsFiniteSet(more) /\ Cardinality(more) = Cardinality(hits)
  <2>1. pair \in [hits -> more]
    BY <1>1
  <2>2. \A x, y \in hits : pair[x] = pair[y] => x = y
    OBVIOUS
  <2>3. \A m \in more : \E x \in hits : pair[x] = m
    OBVIOUS
  <2> HIDE DEF pair, more
  <2>4. IsInjective(pair)
    BY <2>1, <2>2 DEF IsInjective
  <2>6. pair \in Bijection(hits, more)
    BY <2>1, <2>3, <2>4 DEF Bijection, Injection, Surjection
  <2>5. ExistsBijection(hits, more)
    BY <2>6 DEF ExistsBijection
  <2> QED
    BY <2>5, FS_Bijection
<1>3. DOMAIN f = S /\ DOMAIN g = S
  OBVIOUS
<1>4. \A x \in S : f[x] \in Nat
  OBVIOUS
<1>5. \A n \in Nat : /\ n + 1 \notin 1 .. n /\ n + 1 \in 1 .. n + 1
                     /\ \A i \in 1 .. n : i \in 1 .. n + 1
                     /\ \A i \in 1 .. n + 1 : i \in 1 .. n \/ i = n + 1
  OBVIOUS
<1> HIDE DEF more
<1>6. Tally(f) \cap more = {}
  <2> SUFFICES ASSUME NEW m, m \in Tally(f), m \in more PROVE FALSE
    OBVIOUS
  <2>1. PICK y \in S : \E i \in 1 .. f[y] : m = <<y, i>>
    BY <1>3, TallyMembers
  <2>2. PICK i \in 1 .. f[y] : m = <<y, i>>
    BY <2>1
  <2>3. PICK x \in hits : m = <<x, f[x] + 1>>
    BY <1>1
  <2>4. y = x /\ i = f[y] + 1
    BY <2>2, <2>3
  <2>5. f[y] + 1 \in 1 .. f[y]
    BY <2>4
  <2> HIDE DEF pair
  <2> QED
    BY <1>4, <1>5, <2>5
<1>7. Tally(g) = Tally(f) \cup more
  <2>1. ASSUME NEW m, m \in Tally(g) PROVE m \in Tally(f) \cup more
    <3>1. PICK y \in S : \E i \in 1 .. g[y] : m = <<y, i>>
      BY <1>3, <2>1, TallyMembers
    <3>2. PICK i \in 1 .. g[y] : m = <<y, i>>
      BY <3>1
    <3>3. CASE i \in 1 .. f[y]
      BY <1>3, <3>2, <3>3, TallyMembers
    <3>4. CASE i \notin 1 .. f[y]
      <4>1. y \in hits
        BY <3>4
      <4>2. i \in 1 .. f[y] + 1 /\ f[y] \in Nat
        BY <1>4, <4>1
      <4>3. i = f[y] + 1
        BY <1>5, <3>4, <4>2
      <4> QED
        BY <1>1, <3>2, <4>1, <4>3
    <3> QED
      BY <3>3, <3>4
  <2>2. ASSUME NEW m, m \in Tally(f) PROVE m \in Tally(g)
    <3>1. PICK y \in S : \E i \in 1 .. f[y] : m = <<y, i>>
      BY <1>3, <2>2, TallyMembers
    <3>2. PICK i \in 1 .. f[y] : m = <<y, i>>
      BY <3>1
    <3>3. i \in 1 .. g[y]
      <4>1. CASE y \in hits
        <5>1. g[y] = f[y] + 1 /\ f[y] \in Nat
          BY <1>4, <4>1
        <5> QED
          BY <1>5, <5>1
      <4>2. CASE y \notin hits
        BY <4>2
      <4> QED
        BY <4>1, <4>2
    <3> QED
      BY <1>3, <3>2, <3>3, TallyMembers
  <2>3. ASSUME NEW m, m \in more PROVE m \in Tally(g)
    <3>1. PICK x \in hits : m = <<x, f[x] + 1>>
      BY <1>1, <2>3
    <3>2. g[x] = f[x] + 1 /\ f[x] \in Nat /\ x \in S
      BY <1>4
    <3>3. f[x] + 1 \in 1 .. g[x]
      BY <1>5, <3>2
    <3> QED
      BY <1>3, <3>1, <3>2, <3>3, TallyMembers
  <2> QED
    BY <2>1, <2>2, <2>3
<1>8. /\ IsFiniteSet(Tally(g))
      /\ Cardinality(Tally(g)) = Cardinality(Tally(f)) + Cardinality(more)
  BY <1>2, <1>6, <1>7, TallyAdds
<1> QED
  BY <1>2, <1>8

LEMMA TallyNothing ==
  ASSUME NEW S, NEW f, f = [x \in S |-> 0]
  PROVE  IsFiniteSet(Tally(f)) /\ Cardinality(Tally(f)) = 0
<1>1. \A x \in DOMAIN f : \A i \in 1 .. f[x] : FALSE
  <2>1. \A i \in 1 .. 0 : FALSE
    OBVIOUS
  <2> QED
    BY <2>1
<1>2. Tally(f) = {}
  BY <1>1, TallyMembers
<1> QED
  BY <1>2, FS_EmptySet

\* A client that was never accepted has no points to lose when it is.
Account ==
  /\ IsFiniteSet(PointsScored) /\ IsFiniteSet(PlacesTaken) /\ CoinCreditedOnce
  /\ \A c \in Clients : pid[c] = 0 => pstate[c].score = 0
  /\ \A k \in Coins : coins[k].appearance >= 1

LEMMA InitAccount == Init => Account
<1> SUFFICES ASSUME Init PROVE Account
  OBVIOUS
<1>1. /\ pstate = [c \in Clients |-> [position |-> Origin, score |-> 0]]
      /\ coins \in [Coins -> [position : CoinPositions, appearance : {1}]]
  BY DEF Init, InitServer, SpawnCoins
<1>2. \A c \in Clients : pstate[c].score = 0
  BY <1>1
<1>3. \A k \in Coins : coins[k].appearance = 1
  BY <1>1
<1>4. IsFiniteSet(PointsScored) /\ Cardinality(PointsScored) = 0
  <2>1. [c \in Clients |-> pstate[c].score] = [c \in Clients |-> 0]
    BY <1>2
  <2> QED
    BY <2>1, TallyNothing DEF PointsScored
<1>5. IsFiniteSet(PlacesTaken) /\ Cardinality(PlacesTaken) = 0
  <2>1. \A k \in Coins : coins[k].appearance - 1 = 0
    BY <1>3
  <2>2. [k \in Coins |-> coins[k].appearance - 1] = [k \in Coins |-> 0]
    BY <2>1
  <2> QED
    BY <2>2, TallyNothing DEF PlacesTaken
<1> QED
  BY <1>2, <1>3, <1>4, <1>5 DEF Account, CoinCreditedOnce

\* What it takes not to touch the account.
LEMMA AccountStays ==
  ASSUME Account, UNCHANGED coins,
         \A c \in Clients : pstate'[c].score = pstate[c].score,
         \A c \in Clients : pid'[c] = 0 => pid[c] = 0
  PROVE  Account'
<1>1. [c \in Clients |-> pstate'[c].score] = [c \in Clients |-> pstate[c].score]
  OBVIOUS
<1>2. PointsScored' = PointsScored
  BY <1>1 DEF PointsScored, Tally
<1>3. PlacesTaken' = PlacesTaken
  BY DEF PlacesTaken, Tally
<1> QED
  BY <1>2, <1>3 DEF Account, CoinCreditedOnce

LEMMA QuietAccount ==
  ASSUME Frame \/ Stop \/ Signal \/ ReceiveFromClients \/ SendToClients
           \/ KilledBySigpipe \/ GetPlayers \/ BroadcastAndEndTick
           \/ UNCHANGED serverVars
  PROVE  UNCHANGED <<coins, pstate, pid>>
<1>1. CASE Frame \/ Stop \/ Signal \/ KilledBySigpipe \/ BroadcastAndEndTick
  BY <1>1 DEF Frame, Stop, Signal, KilledBySigpipe, BroadcastAndEndTick,
    playerVars, gameVars
<1>2. CASE ReceiveFromClients
  BY <1>2 DEF ReceiveFromClients, ReceivePackets, EraseDisconnected,
    ReceiveNothing, ReceiveDone, playerVars, gameVars
<1>3. CASE SendToClients \/ GetPlayers
  BY <1>3 DEF SendToClients, GetPlayers, playerVars, gameVars
<1>4. CASE UNCHANGED serverVars
  BY <1>4 DEF serverVars, playerVars, gameVars
<1> QED
  BY <1>1, <1>2, <1>3, <1>4

LEMMA AcceptAccount ==
  ASSUME StateTypeOK, Places, Account, AcceptNewClients
  PROVE  Account'
<1>1. UNCHANGED coins
  BY DEF AcceptNewClients, gameVars
<1>2. CASE CanAccept
  <2> DEFINE c == Head(backlog)
  <2>1. /\ c \in Clients /\ pid[c] = 0
        /\ pid' = [pid EXCEPT ![c] = nextPlayerId]
        /\ \E p \in SpawnPositions :
             pstate' = [pstate EXCEPT ![c] = [position |-> p, score |-> 0]]
    BY <1>2, Accepted
  <2> HIDE DEF c
  <2>2. DOMAIN pstate = Clients /\ DOMAIN pid = Clients /\ nextPlayerId # 0
    BY Domains
  <2>3. PICK p \in SpawnPositions :
          pstate' = [pstate EXCEPT ![c] = [position |-> p, score |-> 0]]
    BY <2>1
  <2>4. \A d \in Clients : pstate'[d].score = pstate[d].score
    BY <2>1, <2>2, <2>3 DEF Account
  <2>5. \A d \in Clients : pid'[d] = 0 => pid[d] = 0
    BY <2>1, <2>2
  <2> QED
    BY <1>1, <2>4, <2>5, AccountStays
<1>3. CASE ~ CanAccept
  <2>1. UNCHANGED <<pid, pstate>>
    BY <1>3 DEF AcceptNewClients
  <2> QED
    BY <1>1, <2>1, AccountStays
<1> QED
  BY <1>2, <1>3

LEMMA ProcessAccount ==
  ASSUME StateTypeOK, Account, ProcessInputs
  PROVE  Account'
<1>1. UNCHANGED <<coins, pid>>
  BY DEF ProcessInputs, gameVars
<1>2. PICK ready \in SUBSET {c \in Members(gamePlayers) : Poppable(c)} :
        pstate' = [c \in Clients |->
          IF c \in ready THEN [pstate[c] EXCEPT !.position = Moved(c)]
                         ELSE pstate[c]]
  BY DEF ProcessInputs
<1>3. ASSUME NEW c \in Clients PROVE pstate'[c].score = pstate[c].score
  <2>1. pstate[c] \in PlayerState
    BY DEF StateTypeOK, PlayerTypesOK
  <2>2. [pstate[c] EXCEPT !.position = Moved(c)].score = pstate[c].score
    BY <2>1 DEF PlayerState
  <2> QED
    BY <1>2, <2>2
<1> QED
  BY <1>1, <1>3, AccountStays

\* Each coin that is hit is one point: the hits are counted once, by the
\* player whose turn it is.
LEMMA CollideAccount ==
  ASSUME StateTypeOK, Places, NoDanglingPlayer, Account, CheckCollisions
  PROVE  Account'
<1> DEFINE c    == gamePlayers[cursor]
           hits == {k \in Coins :
                      CheckCollision(pstate[c].position, coins[k].position)}
           n    == Cardinality(hits)
           f    == [d \in Clients |-> pstate[d].score]
           g    == [d \in Clients |-> pstate'[d].score]
           a    == [k \in Coins |-> coins[k].appearance - 1]
           b    == [k \in Coins |-> coins'[k].appearance - 1]
<1>1. /\ phase = "collide" /\ cursor \in DOMAIN gamePlayers
      /\ pstate' = [pstate EXCEPT
           ![c] = [pstate[c] EXCEPT !.score = pstate[c].score + n]]
      /\ UNCHANGED pid
  BY Zenon DEF CheckCollisions, Points
<1>2. PICK place \in [hits -> CoinPositions] :
        coins' = [k \in Coins |->
          IF k \in hits
            THEN [position   |-> place[k],
                  appearance |-> coins[k].appearance + 1]
            ELSE coins[k]]
  BY DEF CheckCollisions
<1>3. c \in Clients /\ pid[c] # 0
  <2>1. gamePlayers = players
    BY <1>1 DEF NoDanglingPlayer
  <2>2. c \in Members(players)
    BY <1>1, <2>1 DEF Members
  <2> QED
    BY <2>2, Domains DEF Places
<1>4. /\ hits \in SUBSET Coins /\ IsFiniteSet(hits) /\ n \in Nat
  <2>1. hits \in SUBSET Coins /\ IsFiniteSet(Coins)
    BY ServerAssumption
  <2> HIDE DEF hits
  <2>2. IsFiniteSet(hits)
    BY <2>1, FS_Subset
  <2> QED
    BY <2>1, <2>2, FS_CardinalityType
<1>5. /\ \A d \in Clients : pstate[d] \in PlayerState /\ pstate[d].score \in Nat
      /\ DOMAIN pstate = Clients
  BY DEF StateTypeOK, PlayerTypesOK, PlayerState
<1>6. \A k \in Coins : coins[k].appearance \in Nat /\ coins[k].appearance >= 1
  BY DEF StateTypeOK, GameTypesOK, CoinState, Account
<1> HIDE DEF c, hits, n
<1>7. \A s \in PlayerState : [s EXCEPT !.score = s.score + n].score = s.score + n
  BY DEF PlayerState
<1>8. /\ pstate'[c].score = pstate[c].score + n
      /\ \A d \in Clients \ {c} : pstate'[d] = pstate[d]
  BY <1>1, <1>3, <1>5, <1>7
<1>9. /\ \A k \in hits : coins'[k].appearance = coins[k].appearance + 1
      /\ \A k \in Coins \ hits : coins'[k] = coins[k]
  BY <1>2, <1>4
<1>10. /\ f \in [Clients -> Nat] /\ g \in [Clients -> Nat]
       /\ g[c] = f[c] + n /\ \A d \in Clients \ {c} : g[d] = f[d]
  <2>1. pstate[c].score + n \in Nat
    BY <1>3, <1>4, <1>5
  <2>2. \A d \in Clients : pstate'[d].score \in Nat
    BY <1>5, <1>8, <2>1
  <2> QED
    BY <1>3, <1>5, <1>8, <2>2
<1>11. \A m \in Nat : m >= 1 => m - 1 \in Nat /\ m + 1 - 1 = m - 1 + 1
                              /\ m + 1 >= 1 /\ m + 1 \in Nat
  OBVIOUS
<1>12. /\ a \in [Coins -> Nat] /\ b \in [Coins -> Nat]
       /\ \A k \in hits : b[k] = a[k] + 1
       /\ \A k \in Coins \ hits : b[k] = a[k]
  <2>1. \A k \in Coins : coins'[k].appearance \in Nat
                         /\ coins'[k].appearance >= 1
    BY <1>4, <1>6, <1>9, <1>11
  <2>2. \A k \in Coins : /\ coins[k].appearance - 1 \in Nat
                         /\ coins'[k].appearance - 1 \in Nat
    BY <1>6, <1>11, <2>1
  <2>3. \A k \in hits : coins'[k].appearance - 1 = coins[k].appearance - 1 + 1
    BY <1>4, <1>6, <1>9, <1>11
  <2> QED
    BY <1>4, <1>9, <2>2, <2>3
<1>13. /\ PointsScored = Tally(f) /\ PointsScored' = Tally(g)
       /\ PlacesTaken = Tally(a) /\ PlacesTaken' = Tally(b)
  BY DEF PointsScored, PlacesTaken, Tally
<1> HIDE DEF f, g, a, b
<1>14. IsFiniteSet(Tally(f)) /\ IsFiniteSet(Tally(a))
       /\ Cardinality(Tally(f)) = Cardinality(Tally(a))
  BY <1>13 DEF Account, CoinCreditedOnce
<1>15. /\ IsFiniteSet(Tally(g))
       /\ Cardinality(Tally(g)) = Cardinality(Tally(f)) + n
  BY <1>3, <1>4, <1>10, <1>14, TallyOne
<1>16. /\ IsFiniteSet(Tally(b))
       /\ Cardinality(Tally(b)) = Cardinality(Tally(a)) + n
  <2>1. /\ IsFiniteSet(Tally(b))
        /\ Cardinality(Tally(b)) = Cardinality(Tally(a)) + Cardinality(hits)
    BY <1>4, <1>12, <1>14, TallyMany
  <2> QED
    BY <2>1 DEF n
<1>17. IsFiniteSet(PointsScored)' /\ IsFiniteSet(PlacesTaken)'
       /\ CoinCreditedOnce'
  BY <1>13, <1>14, <1>15, <1>16 DEF CoinCreditedOnce
<1>18. \A d \in Clients : pid'[d] = 0 => pstate'[d].score = 0
  BY <1>1, <1>3, <1>8 DEF Account
<1>19. \A k \in Coins : coins'[k].appearance >= 1
  BY <1>4, <1>6, <1>9, <1>11
<1> QED
  BY <1>17, <1>18, <1>19 DEF Account

AccountInv == IInv /\ NoDanglingPlayer /\ Account

LEMMA NextAccount == AccountInv /\ [Next]_vars => AccountInv'
<1> SUFFICES ASSUME AccountInv, [Next]_vars PROVE AccountInv'
  OBVIOUS
<1>1. IInv' /\ NoDanglingPlayer'
  BY NextIInv, DanglingStep DEF AccountInv
<1>2. StateTypeOK /\ Places /\ NoDanglingPlayer /\ Account
  BY DEF AccountInv, IInv
<1>3. Account'
  <2>1. CASE AcceptNewClients
    BY <1>2, <2>1, AcceptAccount
  <2>2. CASE ProcessInputs
    BY <1>2, <2>2, ProcessAccount
  <2>3. CASE CheckCollisions
    BY <1>2, <2>3, CollideAccount
  <2>4. CASE Frame \/ Stop \/ Signal \/ ReceiveFromClients \/ SendToClients
               \/ KilledBySigpipe \/ GetPlayers \/ BroadcastAndEndTick
               \/ UNCHANGED serverVars
    <3>1. UNCHANGED <<coins, pstate, pid>>
      BY <2>4, QuietAccount
    <3> QED
      BY <1>2, <3>1, AccountStays
  <2>5. ASSUME NEW c \in Clients, ClientStep(c) PROVE UNCHANGED serverVars
    BY <2>5 DEF ClientStep, Connect, SendInput, ReadPacket, Quit
  <2>6. CASE UNCHANGED vars
    BY <2>4, <2>6 DEF vars
  <2> QED
    BY <2>1, <2>2, <2>3, <2>4, <2>5, <2>6 DEF Next, Server, ServerStep
<1> QED
  BY <1>1, <1>3 DEF AccountInv

\* The points of all players are the places all coins were taken from,
\* whoever touches what in which tick, leaves or is erased: checkCollisions
\* credits no coin twice and takes none for nothing.
THEOREM CoinsAreCredited == Spec => []CoinCreditedOnce
<1>1. Init => AccountInv
  BY InitIInv, InitAccount DEF AccountInv, NoDanglingPlayer, Init, InitServer
<1>2. AccountInv => CoinCreditedOnce
  BY DEF AccountInv, Account
<1> QED
  BY <1>1, <1>2, NextAccount, PTL DEF Spec

=============================================================================
