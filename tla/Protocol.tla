------------------------------ MODULE Protocol ------------------------------
(***************************************************************************)
(* GameProtocol over ByteBuffer: how a message becomes bytes and what the  *)
(* other side makes of them.  A number is written least significant byte   *)
(* first in a field of a fixed width, and one that is too large loses what *)
(* does not fit.  A read past the end gives 0 and consumes nothing.  The   *)
(* bits of a float are a word like any other.                              *)
(*                                                                         *)
(* A player travels as six words, a coin as three words and a bool.  The   *)
(* kinds of packet nobody sends (event, ping, pong) are left out.          *)
(***************************************************************************)
EXTENDS Integers, SequencesExt

CONSTANTS
  BYTE,       \* values of a byte, 256 in the code
  WORD        \* bytes of a uint32_t or a float, 4 in the code; at least 1

Handshake == 1
Input == 2
World == 3

\* A byte can name every kind of packet.
Sizes == BYTE \in Nat /\ BYTE > World /\ WORD \in Nat \ {0}

-----------------------------------------------------------------------------
(* ByteBuffer.                                                             *)

\* What is left of a value when its first i bytes are written.
Shifted(value, i) ==
  LET rest[k \in 0 .. i] == IF k = 0 THEN value ELSE rest[k - 1] \div BYTE
  IN  rest[i]

Write(width, value) == [i \in 1 .. width |-> Shifted(value, i - 1) % BYTE]

Fits(width, value) == value \in Nat /\ Shifted(value, width) = 0

WriteAll(widths, values) ==
  FlattenSeq([i \in DOMAIN values |-> Write(widths[i], values[i])])

\* Slip, never used by the specification.
NumberBigEndian(bytes) ==
  LET upper[i \in 0 .. Len(bytes)] ==
        IF i = 0 THEN 0 ELSE bytes[i] + BYTE * upper[i - 1]
  IN  upper[Len(bytes)]

\* The last byte is the most significant one.
Number(bytes) ==
  LET n == Len(bytes)
      upper[i \in 0 .. n] ==
        IF i = 0 THEN 0 ELSE bytes[n - i + 1] + BYTE * upper[i - 1]
  IN  upper[n]

\* The values of consecutive reads; readPos[i] is where the i-th begins.
ReadAll(bytes, widths) ==
  LET fits(p, i) == p + widths[i] <= Len(bytes)
      readPos[i \in 1 .. Len(widths) + 1] ==
        IF i = 1 THEN 0
        ELSE LET p == readPos[i - 1]
             IN  IF fits(p, i - 1) THEN p + widths[i - 1] ELSE p
  IN  [i \in 1 .. Len(widths) |->
         LET p == readPos[i]
         IN  IF fits(p, i) THEN Number(SubSeq(bytes, p + 1, p + widths[i]))
                           ELSE 0]

-----------------------------------------------------------------------------
(* GameProtocol.                                                           *)

HeaderFields == <<1, WORD, 2>>
KeyFields    == <<1, 1, 1, 1>>
PlayerFields == [i \in 1 .. 6 |-> WORD]
CoinFields   == <<WORD, WORD, WORD, 1>>
HeaderSize   == WORD + 3

Times(n, fields) == FlattenSeq([i \in 1 .. n |-> fields])

WorldFields(n, m) ==
  <<WORD, 1>> \o Times(n, PlayerFields) \o <<1>> \o Times(m, CoinFields)

Header(type, seq, size) == WriteAll(HeaderFields, <<type, seq, size>>)

WorldSize(n, m) == WORD + 1 + n * 6 * WORD + 1 + m * (3 * WORD + 1)

WorldValues(tick, players, coins) ==
  <<tick, Len(players)>> \o FlattenSeq(players)
    \o <<Len(coins)>> \o FlattenSeq(coins)

SerializeWorldState(tick, players, coins) ==
  LET n == Len(players)
      m == Len(coins)
  IN  Header(World, tick, WorldSize(n, m))
        \o WriteAll(WorldFields(n, m), WorldValues(tick, players, coins))

\* What is sent: bools are 0 or 1, floats the word their bits are.
Message ==
  [kind : {"hello"}]
    \cup [kind : {"welcome"}, id : Nat]
    \cup [kind : {"input"}, seq : Nat, keys : [1 .. 4 -> {0, 1}]]
    \cup [kind : {"world"}, tick : Nat, players : Seq([1 .. 6 -> Nat]),
          coins : Seq([1 .. 4 -> Nat])]

\* Every field of the message has room for its value.
Expressible(msg) ==
  CASE msg.kind = "hello"   -> TRUE
    [] msg.kind = "welcome" -> Fits(WORD, msg.id)
    [] msg.kind = "input"   -> Fits(WORD, msg.seq)
    [] msg.kind = "world"   ->
         LET widths == WorldFields(Len(msg.players), Len(msg.coins))
             values == WorldValues(msg.tick, msg.players, msg.coins)
         IN  \A i \in DOMAIN values : Fits(widths[i], values[i])

Serialize(msg) ==
  CASE msg.kind = "hello"   -> Header(Handshake, 0, 0)
    [] msg.kind = "welcome" -> Header(Handshake, 0, WORD) \o Write(WORD, msg.id)
    [] msg.kind = "input"   -> Header(Input, msg.seq, 4)
                                 \o WriteAll(KeyFields, msg.keys)
    [] msg.kind = "world"   ->
         SerializeWorldState(msg.tick, msg.players, msg.coins)

\* The counts come out of the payload, and say how much more to read.
DeserializeWorldState(payload) ==
  LET n    == ReadAll(payload, <<WORD, 1>>)[2]
      m    == ReadAll(payload, WorldFields(n, 0))[3 + 6 * n]
      read == ReadAll(payload, WorldFields(n, m))
  IN  [kind    |-> "world",
       tick    |-> read[1],
       players |-> [i \in 1 .. n |-> SubSeq(read, 6 * i - 3, 6 * i + 2)],
       coins   |-> [i \in 1 .. m |->
                      SubSeq(read, 6 * n + 4 * i, 6 * n + 4 * i + 3)]]

DeserializeHeader(packet) == ReadAll(SubSeq(packet, 1, HeaderSize), HeaderFields)

Payload(packet) == SubSeq(packet, HeaderSize + 1, Len(packet))

\* ClientNetwork::processPackets acts on these messages of a packet, in order.
ReadByClient(packet) ==
  LET type == DeserializeHeader(packet)[1]
  IN  CASE type = Handshake ->
             <<[kind |-> "welcome", id |-> ReadAll(Payload(packet), <<WORD>>)[1]]>>
        [] type = World -> <<DeserializeWorldState(Payload(packet))>>
        [] OTHER -> <<>>

\* ServerPlayer::processPackets drops whatever is not an input.
ReadByServer(packet) ==
  LET header == DeserializeHeader(packet)
      keys   == ReadAll(Payload(packet), KeyFields)
  IN  IF header[1] = Input
        THEN <<[kind |-> "input", seq |-> header[2],
                keys |-> [i \in 1 .. 4 |-> IF keys[i] # 0 THEN 1 ELSE 0]]>>
        ELSE <<>>

=============================================================================
