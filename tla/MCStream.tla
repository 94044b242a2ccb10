------------------------------ MODULE MCStream ------------------------------
(***************************************************************************)
(* PacketStream carrying the messages of Protocol.  A byte has BYTE values *)
(* and a word WORD bytes; a crowd is one player more than a byte can count.*)
(***************************************************************************)
EXTENDS PacketStream

CONSTANTS WORD, PlayersInCrowd

\* Protocol, with the theorems about it.
P == INSTANCE ProtocolProofs

ASSUME CrowdAssumption ==
  P!Sizes /\ PlayersInCrowd \in Nat /\ HEADER = P!HeaderSize

Player(id) == <<id, 3, 2, 0, 0, 1>>
Coin(id) == <<id, 1, 2, 1>>

WorldOf(n, m) ==
  [kind    |-> "world", tick |-> 3,
   players |-> [i \in 1 .. n |-> Player(i % BYTE)],
   coins   |-> [i \in 1 .. m |-> Coin(i)]]

ToServer ==
  {[kind |-> "hello"]}
    \cup [kind : {"input"}, seq : {1, 14}, keys : {<<0, 1, 0, 1>>}]

ToClient ==
  {[kind |-> "welcome", id |-> 1], WorldOf(1, 2),
   WorldOf(PlayersInCrowd, 1)}

Encoding == [m \in ToServer \cup ToClient |-> P!Serialize(m)]

BothWays == {{Encoding[m] : m \in ToServer}, {Encoding[m] : m \in ToClient}}

\* The reader takes every message as it was meant, unless it is a world state
\* with more players than its count can say, or holds another value its field
\* has no room for; the messages around such a one are read right all the same.
\* The server ignores the hello.
MessagesRead ==
  LET n == Len(handled)
  IN  (n \in DOMAIN accepted /\ WholeUpTo(n)) =>
        \A m \in DOMAIN Encoding :
          (Encoding[m] = accepted[n].packet /\ P!Expressible(m)) =>
            IF m \in ToServer
              THEN P!ReadByServer(handled[n]) = IF m.kind = "hello" THEN <<>>
                                                ELSE <<m>>
              ELSE P!ReadByClient(handled[n]) = <<m>>

=============================================================================
