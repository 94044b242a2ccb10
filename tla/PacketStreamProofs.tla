------------------------- MODULE PacketStreamProofs -------------------------
(***************************************************************************)
(* Framing for any packets, any portions of recv and any capacity of the   *)
(* kernel: until a send is cut short the byte stream is a queue of whole   *)
(* packets, and a cut spoils nothing that was sent before it.  With what   *)
(* ProtocolProofs shows of the encoding, the other side takes the messages *)
(* that were meant.                                                        *)
(***************************************************************************)
EXTENDS MCStream, SequenceTheorems, TLAPS

Byte == 0 .. BYTE - 1

\* What is in the kernel's queues fits there.
Fits == Len(stream) - received <= CAPACITY

\* Every accepted packet left some of its bytes, right after the one before.
Ends ==
  /\ End(Len(accepted)) = Len(stream)
  /\ \A i \in 1 .. Len(accepted) :
       End(i - 1) < End(i) /\ End(i) <= End(i - 1) + Len(accepted[i].packet)

Contents ==
  \A i \in 1 .. Len(accepted) : \A k \in 1 .. End(i) - End(i - 1) :
    stream[End(i - 1) + k] = accepted[i].packet[k]

\* With whole packets the reader finds no more of them than there are, and
\* stands at the end of one.
NotAhead == WholeUpTo(Len(accepted)) => Len(handled) <= Len(accepted)

InStep ==
  Len(handled) <= Len(accepted) /\ WholeUpTo(Len(handled))
    => processed = End(Len(handled))

IInv ==
  /\ TypeOK /\ Fits
  /\ Ends /\ Contents
  /\ NotAhead /\ InStep /\ FramingKept

-----------------------------------------------------------------------------
LEMMA PacketsAreWellFormed ==
  ASSUME packets \in Directions, NEW packet \in packets
  PROVE  /\ packet \in Seq(Byte)
         /\ Len(packet) \in Nat /\ Len(packet) >= HEADER /\ Len(packet) >= 2
         /\ SizeAt(packet, 0) = Len(packet) - HEADER
<1>1. WellFormed(packet)
  BY StreamAssumption
<1>2. packet \in Seq(Byte) /\ Len(packet) >= HEADER
      /\ SizeAt(packet, 0) = Len(packet) - HEADER
  BY <1>1 DEF WellFormed, Byte
<1>3. Len(packet) \in Nat
  BY <1>2, LenProperties
<1> QED
  BY <1>2, <1>3, StreamAssumption

LEMMA LengthsAreNat ==
  ASSUME TypeOK
  PROVE  /\ Len(stream) \in Nat /\ Len(accepted) \in Nat /\ Len(handled) \in Nat
         /\ DOMAIN accepted = 1 .. Len(accepted)
         /\ DOMAIN handled = 1 .. Len(handled)
         /\ received \in Nat /\ received <= Len(stream)
         /\ processed \in Nat /\ processed <= received
<1>1. Len(stream) \in Nat
  BY LenProperties DEF TypeOK
<1>2. Len(accepted) \in Nat /\ DOMAIN accepted = 1 .. Len(accepted)
  BY LenProperties DEF TypeOK
<1>3. Len(handled) \in Nat /\ DOMAIN handled = 1 .. Len(handled)
  BY LenProperties DEF TypeOK
<1> QED
  BY <1>1, <1>2, <1>3 DEF TypeOK

LEMMA AcceptedSend ==
  ASSUME TypeOK, NEW i \in 1 .. Len(accepted)
  PROVE  /\ accepted[i] \in [packet : packets, end : 1 .. Len(stream)]
         /\ accepted[i].packet \in packets
<1> DEFINE S == [packet : packets, end : 1 .. Len(stream)]
<1>1. accepted \in Seq(S)
  BY DEF TypeOK
<1> HIDE DEF S
<1>2. accepted[i] \in S
  BY <1>1, ElementOfSeq
<1> QED
  BY <1>2 DEF S

LEMMA EndIsNat ==
  ASSUME TypeOK, NEW n \in 0 .. Len(accepted)
  PROVE  End(n) \in Nat /\ End(n) <= Len(stream)
<1>0. Len(stream) \in Nat /\ Len(accepted) \in Nat
  BY LengthsAreNat
<1>1. CASE n = 0
  BY <1>0, <1>1 DEF End
<1>2. CASE n # 0
  <2>1. accepted[n] \in [packet : packets, end : 1 .. Len(stream)]
    BY <1>0, <1>2, AcceptedSend
  <2> QED
    BY <1>0, <1>2, <2>1 DEF End
<1> QED
  BY <1>1, <1>2

-----------------------------------------------------------------------------
(* A send puts the first bytes of a packet at the end of the stream.       *)

LEMMA SendWrites ==
  ASSUME TypeOK, Fits, NEW packet \in packets, Send(packet)
  PROVE  /\ Taken(packet) \in Nat /\ Taken(packet) <= Len(packet)
         /\ Len(stream) + Taken(packet) - received <= CAPACITY
         /\ stream' \in Seq(Byte)
         /\ Len(stream') = Len(stream) + Taken(packet)
         /\ \A i \in 1 .. Len(stream) : stream'[i] = stream[i]
         /\ \A k \in 1 .. Taken(packet) : stream'[Len(stream) + k] = packet[k]
<1> DEFINE t == Taken(packet)
           part == SubSeq(packet, 1, t)
<1>1. /\ packet \in Seq(Byte) /\ Len(packet) \in Nat
      /\ Len(stream) \in Nat /\ received \in Nat /\ CAPACITY \in Nat
      /\ stream \in Seq(Byte)
  BY PacketsAreWellFormed, LengthsAreNat, StreamAssumption DEF TypeOK, Byte
<1>2. t \in Nat /\ t <= Len(packet) /\ Len(stream) + t - received <= CAPACITY
  BY <1>1 DEF Taken, Smaller, Fits
<1>3. \A i \in 1 .. t : packet[i] \in Byte
  BY <1>1, <1>2, ElementOfSeq
<1> HIDE DEF t
<1>4. /\ part \in Seq(Byte) /\ Len(part) = t
      /\ \A k \in 1 .. t : part[k] = packet[k]
  <2>1. /\ part \in Seq(Byte)
        /\ Len(part) = IF 1 <= t THEN t - 1 + 1 ELSE 0
        /\ \A k \in 1 .. t - 1 + 1 : part[k] = packet[1 + k - 1]
    BY <1>2, <1>3, SubSeqProperties, 1 \in Int, t \in Int
  <2> QED
    BY <1>2, <2>1
<1>5. stream' = stream \o part
  BY DEF Send, t
<1> HIDE DEF part
<1>6. /\ stream' \in Seq(Byte)
      /\ Len(stream') = Len(stream) + t
      /\ \A i \in 1 .. Len(stream) + t : stream'[i] =
           IF i <= Len(stream) THEN stream[i] ELSE part[i - Len(stream)]
  BY <1>1, <1>4, <1>5, ConcatProperties
<1>7. \A i \in 1 .. Len(stream) : stream'[i] = stream[i]
  BY <1>1, <1>2, <1>6
<1>8. \A k \in 1 .. t : stream'[Len(stream) + k] = packet[k]
  <2> SUFFICES ASSUME NEW k \in 1 .. t
               PROVE  stream'[Len(stream) + k] = packet[k]
    OBVIOUS
  <2>1. /\ Len(stream) + k \in 1 .. Len(stream) + t
        /\ ~(Len(stream) + k <= Len(stream))
        /\ Len(stream) + k - Len(stream) = k
    BY <1>1, <1>2
  <2> QED
    BY <2>1, <1>4, <1>6
<1> QED
  BY <1>2, <1>6, <1>7, <1>8 DEF t

\* A send of which the kernel takes nothing changes nothing.
LEMMA SendOfNothing ==
  ASSUME TypeOK, Fits, NEW packet \in packets, Send(packet), Taken(packet) = 0
  PROVE  UNCHANGED vars
<1>1. stream \in Seq(Byte) /\ Len(stream) \in Nat
  BY LengthsAreNat DEF TypeOK, Byte
<1>2. /\ stream' \in Seq(Byte) /\ Len(stream') = Len(stream)
      /\ \A i \in 1 .. Len(stream) : stream'[i] = stream[i]
  BY <1>1, SendWrites
<1>3. stream' = stream
  BY <1>1, <1>2, SeqEqual
<1> QED
  BY <1>3 DEF Send, vars

\* What a send that leaves something does to the history of sends.
LEMMA SendAccepts ==
  ASSUME TypeOK, Fits, NEW packet \in packets, Send(packet), Taken(packet) # 0
  PROVE  LET m == Len(accepted)
         IN  /\ accepted' = Append(accepted,
                              [packet |-> packet, end |-> Len(stream')])
             /\ Len(accepted') = m + 1
             /\ DOMAIN accepted' = 1 .. m + 1
             /\ \A i \in 1 .. m : accepted'[i] = accepted[i]
             /\ accepted'[m + 1] = [packet |-> packet, end |-> Len(stream')]
             /\ \A i \in 0 .. m : End(i)' = End(i)
             /\ End(Len(accepted))' = Len(stream')
             /\ \A i \in 1 .. m : Whole(i)' = Whole(i)
             /\ \A n \in 0 .. m : WholeUpTo(n)' = WholeUpTo(n)
<1> DEFINE m == Len(accepted)
           new == [packet |-> packet, end |-> Len(stream')]
<1>1. accepted' = Append(accepted, new)
  BY DEF Send
<1>2. m \in Nat /\ DOMAIN accepted = 1 .. m
  BY LengthsAreNat
<1> DEFINE S == [packet : packets, end : 1 .. Len(stream)]
           T == [packet : packets, end : Nat \cup {Len(stream')}]
<1>3. accepted \in Seq(T)
  <2>1. S \subseteq T
    BY LengthsAreNat
  <2>2. accepted \in Seq(S)
    BY DEF TypeOK
  <2> HIDE DEF S, T
  <2> QED
    BY <2>1, <2>2, SeqMonotonic
<1>4. new \in T
  OBVIOUS
<1> HIDE DEF S, T
<1> HIDE DEF new
<1>5. /\ Len(accepted') = m + 1
      /\ \A i \in 1 .. m : accepted'[i] = accepted[i]
      /\ accepted'[m + 1] = new
  BY <1>1, <1>2, <1>3, <1>4, AppendProperties
<1>6. DOMAIN accepted' = 1 .. m + 1
  BY <1>1, <1>3, <1>4, <1>5, AppendProperties, LenProperties
<1>7. \A i \in 0 .. m : End(i)' = End(i)
  BY <1>2, <1>5 DEF End
<1>8. End(Len(accepted))' = Len(stream')
  BY <1>2, <1>5 DEF End, new
<1>9. \A i \in 1 .. m : Whole(i)' = Whole(i)
  <2> SUFFICES ASSUME NEW i \in 1 .. m PROVE Whole(i)' = Whole(i)
    OBVIOUS
  <2>1. i \in 0 .. m /\ i - 1 \in 0 .. m
    BY <1>2
  <2>2. End(i)' = End(i) /\ End(i - 1)' = End(i - 1) /\ accepted'[i] = accepted[i]
    BY <2>1, <1>5, <1>7
  <2> QED
    BY <2>2 DEF Whole
<1>10. \A n \in 0 .. m : WholeUpTo(n)' = WholeUpTo(n)
  <2> SUFFICES ASSUME NEW n \in 0 .. m PROVE WholeUpTo(n)' = WholeUpTo(n)
    OBVIOUS
  <2>1. \A i \in 1 .. n : Whole(i)' = Whole(i)
    BY <1>2, <1>9
  <2> QED
    BY <2>1 DEF WholeUpTo
<1> QED
  BY <1>1, <1>5, <1>6, <1>7, <1>8, <1>9, <1>10 DEF new

LEMMA SendKeepsTypes ==
  ASSUME IInv, NEW packet \in packets, Send(packet), Taken(packet) # 0
  PROVE  TypeOK' /\ Fits'
<1> USE DEF IInv
<1>1. /\ stream' \in Seq(Byte)
      /\ Len(stream') = Len(stream) + Taken(packet)
      /\ Taken(packet) \in Nat
      /\ Len(stream) + Taken(packet) - received <= CAPACITY
  BY SendWrites
<1>2. Len(stream) \in Nat /\ received \in Nat
  BY LengthsAreNat
<1>3. Len(stream') \in Nat /\ Len(stream') >= Len(stream) /\ Len(stream') > 0
  BY <1>1, <1>2
<1>4. /\ packets' = packets /\ received' = received /\ processed' = processed
      /\ processing' = processing /\ handled' = handled
  BY DEF Send
<1> DEFINE S == [packet : packets, end : 1 .. Len(stream)]
           T == [packet : packets, end : 1 .. Len(stream')]
           new == [packet |-> packet, end |-> Len(stream')]
<1>5. accepted' \in Seq(T)
  <2>1. S \subseteq T
    BY <1>2, <1>3
  <2>2. accepted \in Seq(S)
    BY DEF TypeOK
  <2>3. new \in T
    BY <1>3
  <2>4. accepted' = Append(accepted, new)
    BY SendAccepts
  <2> HIDE DEF S, T, new
  <2>5. accepted \in Seq(T)
    BY <2>1, <2>2, SeqMonotonic
  <2> QED
    BY <2>3, <2>4, <2>5, AppendProperties
<1>6. TypeOK'
  <2>1. received' \in 0 .. Len(stream') /\ processed' \in 0 .. received'
    BY <1>2, <1>3, <1>4 DEF TypeOK
  <2>2. stream' \in Seq(0 .. BYTE - 1)
    BY <1>1 DEF Byte
  <2> QED
    BY <1>4, <1>5, <2>1, <2>2 DEF TypeOK
<1>7. Fits'
  BY <1>1, <1>2, <1>4 DEF Fits
<1> QED
  BY <1>6, <1>7

LEMMA SendKeepsContents ==
  ASSUME IInv, NEW packet \in packets, Send(packet), Taken(packet) # 0
  PROVE  Ends' /\ Contents'
<1> DEFINE m == Len(accepted)
           t == Taken(packet)
<1>1. /\ t \in Nat /\ t > 0 /\ t <= Len(packet)
      /\ Len(stream') = Len(stream) + t
      /\ \A i \in 1 .. Len(stream) : stream'[i] = stream[i]
      /\ \A k \in 1 .. t : stream'[Len(stream) + k] = packet[k]
  BY SendWrites DEF IInv
<1>2. /\ m \in Nat /\ Len(stream) \in Nat /\ Len(packet) \in Nat
      /\ End(m) = Len(stream)
  BY LengthsAreNat, PacketsAreWellFormed DEF IInv, Ends, TypeOK
<1>3. /\ Len(accepted') = m + 1
      /\ \A i \in 1 .. m : accepted'[i] = accepted[i]
      /\ accepted'[m + 1].packet = packet
      /\ \A i \in 0 .. m : End(i)' = End(i)
      /\ End(Len(accepted))' = Len(stream')
  <2>1. accepted'[m + 1] = [packet |-> packet, end |-> Len(stream')]
    BY SendAccepts DEF IInv
  <2>2. /\ Len(accepted') = m + 1
        /\ \A i \in 1 .. m : accepted'[i] = accepted[i]
        /\ \A i \in 0 .. m : End(i)' = End(i)
        /\ End(Len(accepted))' = Len(stream')
    BY SendAccepts DEF IInv
  <2> QED
    BY <2>1, <2>2
<1>4. \A i \in 0 .. m : End(i) \in Nat /\ End(i) <= Len(stream)
  BY EndIsNat DEF IInv
<1> HIDE DEF m, t
\* The new packet is number m + 1, from Len(stream) on.
<1>5. ASSUME NEW i \in 1 .. m + 1
      PROVE  \/ /\ i \in 1 .. m
                /\ End(i)' = End(i) /\ End(i - 1)' = End(i - 1)
                /\ accepted'[i] = accepted[i]
             \/ /\ i = m + 1
                /\ End(i)' = Len(stream) + t /\ End(i - 1)' = Len(stream)
                /\ accepted'[i].packet = packet
  <2>1. CASE i \in 1 .. m
    <3>1. i \in 0 .. m /\ i - 1 \in 0 .. m
      BY <1>2, <2>1
    <3> QED
      BY <1>3, <2>1, <3>1
  <2>2. CASE i = m + 1
    <3>1. i = Len(accepted') /\ i - 1 = m /\ m \in 0 .. m
      BY <1>2, <1>3, <2>2
    <3>2. End(i - 1)' = Len(stream)
      BY <1>2, <1>3, <3>1
    <3>3. End(i)' = Len(stream')
      BY <1>3, <3>1
    <3> QED
      BY <1>1, <1>3, <2>2, <3>2, <3>3
  <2> QED
    BY <1>2, <2>1, <2>2
<1>6. Ends'
  <2>1. ASSUME NEW i \in 1 .. m + 1
        PROVE  /\ End(i - 1)' < End(i)'
               /\ End(i)' <= End(i - 1)' + Len(accepted'[i].packet)
    <3>1. CASE i \in 1 .. m
      <4>1. End(i - 1) < End(i) /\ End(i) <= End(i - 1) + Len(accepted[i].packet)
        BY <3>1 DEF IInv, Ends, m
      <4> QED
        BY <1>2, <1>5, <3>1, <4>1
    <3>2. CASE i = m + 1
      BY SMTT(40), <1>1, <1>2, <1>5, <3>2
    <3> QED
      BY <1>2, <3>1, <3>2
  <2> QED
    BY <1>3, <2>1 DEF Ends
<1>7. Contents'
  <2>1. ASSUME NEW i \in 1 .. m + 1, NEW k \in 1 .. End(i)' - End(i - 1)'
        PROVE  stream'[End(i - 1)' + k] = accepted'[i].packet[k]
    <3>1. CASE i \in 1 .. m
      <4>1. /\ k \in 1 .. End(i) - End(i - 1)
            /\ End(i - 1)' = End(i - 1) /\ accepted'[i] = accepted[i]
        BY <1>2, <1>5, <2>1, <3>1
      <4>2. stream[End(i - 1) + k] = accepted[i].packet[k]
        BY <3>1, <4>1 DEF IInv, Contents, m
      <4>3. End(i - 1) \in Nat /\ End(i) \in Nat /\ End(i) <= Len(stream)
        <5>1. i - 1 \in 0 .. m /\ i \in 0 .. m
          BY <1>2, <3>1
        <5> QED
          BY <1>4, <5>1
      <4>4. End(i - 1) + k \in 1 .. Len(stream)
        BY <1>2, <4>1, <4>3
      <4> QED
        BY <1>1, <4>1, <4>2, <4>4
    <3>2. CASE i = m + 1
      <4>1. End(i - 1)' = Len(stream) /\ accepted'[i].packet = packet
            /\ k \in 1 .. t
        BY <1>1, <1>2, <1>5, <2>1, <3>2
      <4> QED
        BY <1>1, <4>1
    <3> QED
      BY <1>2, <3>1, <3>2
  <2> QED
    BY <1>3, <2>1 DEF Contents
<1> QED
  BY <1>6, <1>7

LEMMA SendKeepsFraming ==
  ASSUME IInv, NEW packet \in packets, Send(packet), Taken(packet) # 0
  PROVE  NotAhead' /\ InStep' /\ FramingKept'
<1>m. PICK m \in Nat : m = Len(accepted)
  BY LengthsAreNat DEF IInv
<1>n. PICK n \in Nat : n = Len(handled)
  BY LengthsAreNat DEF IInv
<1>1. DOMAIN handled = 1 .. n /\ handled' = handled /\ processed' = processed
  BY <1>n, LengthsAreNat DEF IInv, Send
<1>2. /\ Len(accepted') = m + 1
      /\ \A i \in 1 .. m : accepted'[i] = accepted[i]
      /\ \A i \in 0 .. m : End(i)' = End(i)
      /\ \A i \in 0 .. m : WholeUpTo(i)' = WholeUpTo(i)
  BY <1>m, SendAccepts DEF IInv
\* Whole up to m + 1 or beyond is whole up to m.
<1>3. ASSUME NEW i \in Nat, i > m, WholeUpTo(i)' PROVE n <= m
  <2>1. WholeUpTo(m)'
    BY <1>1, <1>3 DEF WholeUpTo
  <2>2. WholeUpTo(m)
    BY <1>1, <1>2, <2>1
  <2> QED
    BY <1>m, <1>n, <2>2 DEF IInv, NotAhead
<1>4. NotAhead'
  <2> SUFFICES ASSUME WholeUpTo(Len(accepted))'
               PROVE  Len(handled)' <= Len(accepted)'
    BY DEF NotAhead
  <2>1. WholeUpTo(m + 1)'
    BY <1>2 DEF WholeUpTo
  <2>2. n <= m
    BY <1>3, <2>1, m + 1 \in Nat, m + 1 > m
  <2> QED
    BY <1>n, <1>1, <1>2, <2>2
<1>5. InStep'
  <2> SUFFICES ASSUME n <= m + 1, WholeUpTo(n)'
               PROVE  processed = End(n)'
    BY <1>n, <1>1, <1>2 DEF InStep, WholeUpTo, End
  <2>1. n <= m
    BY <1>1, <1>3
  <2>2. n \in 0 .. m
    BY <1>1, <2>1
  <2>3. WholeUpTo(n) /\ End(n)' = End(n)
    BY <1>2, <2>2
  <2> QED
    BY <1>m, <1>n, <2>1, <2>3 DEF IInv, InStep
<1>6. FramingKept'
  <2> SUFFICES ASSUME NEW i \in 1 .. n, i <= m + 1, WholeUpTo(i)'
               PROVE  handled[i] = accepted'[i].packet
    BY <1>1, <1>2 DEF FramingKept
  <2>1. i <= m
    BY <1>1, <1>3
  <2>2. i \in 0 .. m /\ i \in 1 .. m
    BY <1>1, <2>1
  <2>3. WholeUpTo(i) /\ accepted'[i] = accepted[i]
    BY <1>2, <2>2
  <2> QED
    BY <1>m, <1>1, <2>1, <2>3 DEF IInv, FramingKept
<1> QED
  BY <1>4, <1>5, <1>6

-----------------------------------------------------------------------------
(* The reader.                                                             *)

LEMMA SizeIsNat ==
  ASSUME TypeOK, Complete(processed)
  PROVE  /\ TotalSize(processed) \in Nat
         /\ processed + TotalSize(processed) <= received
<1>1. /\ Len(stream) \in Nat /\ received \in Nat /\ processed \in Nat
      /\ received <= Len(stream) /\ HEADER \in Nat \ {0, 1} /\ BYTE \in Nat
  BY LengthsAreNat, StreamAssumption
<1>2. stream \in Seq(Byte)
  BY DEF TypeOK, Byte
<1>3. /\ processed + HEADER - 1 \in 1 .. Len(stream)
      /\ processed + HEADER \in 1 .. Len(stream)
  BY <1>1 DEF Complete
<1>4. /\ stream[processed + HEADER - 1] \in Byte
      /\ stream[processed + HEADER] \in Byte
  BY <1>2, <1>3, ElementOfSeq
<1>5. /\ stream[processed + HEADER - 1] \in Nat
      /\ stream[processed + HEADER] \in Nat
  BY <1>1, <1>4 DEF Byte
<1>6. BYTE * stream[processed + HEADER] \in Nat
  BY <1>1, <1>5
<1>7. TotalSize(processed) \in Nat
  <2> DEFINE low == stream[processed + HEADER - 1]
             high == BYTE * stream[processed + HEADER]
  <2>1. TotalSize(processed) = HEADER + (low + high)
    BY DEF TotalSize, SizeAt
  <2>2. low \in Nat /\ high \in Nat
    BY <1>5, <1>6
  <2> HIDE DEF low, high
  <2> QED
    BY <1>1, <2>1, <2>2
<1>8. processed + TotalSize(processed) <= received
  BY <1>1, <1>7 DEF Complete
<1> QED
  BY <1>7, <1>8

LEMMA PortionIsBytes ==
  ASSUME TypeOK, ProcessPacket
  PROVE  LET size == TotalSize(processed)
         IN  /\ processed' = processed + size
             /\ SubSeq(stream, processed + 1, processed') \in Seq(Byte)
             /\ Len(SubSeq(stream, processed + 1, processed')) = size
             /\ \A k \in 1 .. size :
                  SubSeq(stream, processed + 1, processed')[k]
                    = stream[processed + k]
<1> DEFINE size == TotalSize(processed)
<1>1. processed' = processed + size /\ Complete(processed)
  BY DEF ProcessPacket
<1>2. /\ size \in Nat /\ processed + size <= received
      /\ processed \in Nat /\ received \in Nat /\ Len(stream) \in Nat
      /\ received <= Len(stream)
  BY <1>1, SizeIsNat, LengthsAreNat
<1>3. stream \in Seq(Byte)
  BY DEF TypeOK, Byte
<1> HIDE DEF size
<1> DEFINE first == processed + 1
           last == processed + size
           part == SubSeq(stream, first, last)
<1>4. /\ first \in Int /\ last \in Int
      /\ \A i \in first .. last : stream[i] \in Byte
  BY <1>2, <1>3, ElementOfSeq
<1> HIDE DEF first, last
<1>5. /\ part \in Seq(Byte)
      /\ Len(part) = IF first <= last THEN last - first + 1 ELSE 0
      /\ \A i \in 1 .. last - first + 1 : part[i] = stream[first + i - 1]
  BY <1>4, SubSeqProperties
<1> HIDE DEF part
<1>6. Len(part) = size
  BY <1>2, <1>5 DEF first, last
<1>7. \A k \in 1 .. size : part[k] = stream[processed + k]
  <2> SUFFICES ASSUME NEW k \in 1 .. size PROVE part[k] = stream[processed + k]
    OBVIOUS
  <2>1. k \in 1 .. last - first + 1 /\ first + k - 1 = processed + k
    BY <1>2 DEF first, last
  <2> QED
    BY <2>1, <1>5
<1> QED
  BY <1>1, <1>5, <1>6, <1>7 DEF part, size, first, last

\* While everything was taken whole, a complete packet is one that was sent.
LEMMA PacketWasSent ==
  ASSUME IInv, Complete(processed), WholeUpTo(Len(accepted))
  PROVE  Len(handled) < Len(accepted)
<1>1. Len(handled) <= Len(accepted)
  BY DEF IInv, NotAhead
<1>2. /\ Len(handled) \in Nat /\ Len(accepted) \in Nat /\ Len(stream) \in Nat
      /\ received \in Nat /\ processed \in Nat /\ received <= Len(stream)
      /\ HEADER \in Nat \ {0, 1}
  BY LengthsAreNat, StreamAssumption DEF IInv
<1>3. ASSUME Len(handled) = Len(accepted) PROVE FALSE
  <2>1. processed = End(Len(handled))
    BY <1>1, <1>3 DEF IInv, InStep
  <2>2. processed = Len(stream)
    BY <1>3, <2>1 DEF IInv, Ends
  <2> QED
    BY <1>2, <2>2 DEF Complete
<1> QED
  BY <1>1, <1>2, <1>3

\* The packet the reader finds after whole packets is the next one sent.
LEMMA NextPacketIsFound ==
  ASSUME IInv, ProcessPacket, NEW n \in Nat, n = Len(handled),
         n < Len(accepted), WholeUpTo(n + 1)
  PROVE  /\ processed' = End(n + 1)
         /\ SubSeq(stream, processed + 1, processed') = accepted[n + 1].packet
<1> DEFINE packet == accepted[n + 1].packet
           size == TotalSize(processed)
           part == SubSeq(stream, processed + 1, processed')
<1>1. Len(accepted) \in Nat /\ n + 1 \in 1 .. Len(accepted) /\ n + 1 - 1 = n
  BY LengthsAreNat DEF IInv
<1>2. WholeUpTo(n)
  BY <1>1 DEF WholeUpTo
<1>3. processed = End(n) /\ processed \in Nat
  BY <1>1, <1>2, LengthsAreNat DEF IInv, InStep
<1>4. End(n + 1) = End(n) + Len(packet)
  <2>1. Whole(n + 1)
    BY <1>1 DEF WholeUpTo
  <2> QED
    BY <2>1, <1>1 DEF Whole
<1>5. /\ packet \in Seq(Byte) /\ Len(packet) \in Nat /\ Len(packet) >= HEADER
      /\ SizeAt(packet, 0) = Len(packet) - HEADER
  <2>1. packet \in packets
    BY <1>1, AcceptedSend DEF IInv
  <2>2. packets \in Directions
    BY DEF IInv, TypeOK
  <2> HIDE DEF packet
  <2> QED
    BY <2>1, <2>2, PacketsAreWellFormed
<1>6. \A k \in 1 .. Len(packet) : stream[processed + k] = packet[k]
  <2>1. \A k \in 1 .. End(n + 1) - End(n) : stream[End(n) + k] = packet[k]
    BY <1>1 DEF IInv, Contents
  <2>2. End(n + 1) - End(n) = Len(packet)
    BY <1>3, <1>4, <1>5
  <2> QED
    BY <1>3, <2>1, <2>2
<1>7. HEADER \in Nat \ {0, 1}
  BY StreamAssumption
<1>8. size = Len(packet)
  <2>1. HEADER - 1 \in 1 .. Len(packet) /\ HEADER \in 1 .. Len(packet)
    BY <1>5, <1>7
  <2>2. /\ stream[processed + (HEADER - 1)] = packet[HEADER - 1]
        /\ stream[processed + HEADER] = packet[HEADER]
    BY <1>6, <2>1
  <2>3. processed + HEADER - 1 = processed + (HEADER - 1)
        /\ 0 + HEADER - 1 = HEADER - 1 /\ 0 + HEADER = HEADER
    BY <1>3, <1>7
  <2>4. SizeAt(stream, processed) = SizeAt(packet, 0)
    BY <2>2, <2>3 DEF SizeAt
  <2> QED
    BY <1>5, <1>7, <2>4 DEF TotalSize
<1>9. /\ processed' = processed + size
      /\ part \in Seq(Byte) /\ Len(part) = size
      /\ \A k \in 1 .. size : part[k] = stream[processed + k]
  BY PortionIsBytes DEF IInv
<1>10. processed' = End(n + 1)
  BY <1>3, <1>4, <1>8, <1>9
<1> HIDE DEF packet, size, part
<1>11. part = packet
  BY <1>5, <1>6, <1>8, <1>9, SeqEqual
<1> QED
  BY <1>10, <1>11 DEF part, packet

LEMMA ProcessKeepsInvariant ==
  ASSUME IInv, ProcessPacket
  PROVE  IInv'
<1>m. PICK m \in Nat : m = Len(accepted)
  BY LengthsAreNat DEF IInv
<1>n. PICK n \in Nat : n = Len(handled)
  BY LengthsAreNat DEF IInv
<1>0. /\ packets' = packets /\ stream' = stream /\ received' = received
      /\ processing' = processing /\ accepted' = accepted
  BY DEF ProcessPacket
<1> DEFINE part == SubSeq(stream, processed + 1, processed')
<1>1. part \in Seq(Byte) /\ handled' = Append(handled, part)
  BY PortionIsBytes DEF IInv, ProcessPacket
<1>2. handled \in Seq(Seq(Byte)) /\ DOMAIN handled = 1 .. n
  BY <1>n, LengthsAreNat DEF IInv, TypeOK, Byte
<1>3. Complete(processed)
  BY DEF ProcessPacket
<1>4. processed' \in 0 .. received
  <2>1. /\ TotalSize(processed) \in Nat
        /\ processed + TotalSize(processed) <= received
        /\ processed \in Nat /\ received \in Nat
    BY <1>3, SizeIsNat, LengthsAreNat DEF IInv
  <2> QED
    BY <2>1 DEF ProcessPacket
<1>5. WholeUpTo(m) => n < m
  BY <1>m, <1>n, <1>3, PacketWasSent
<1>6. n < m /\ WholeUpTo(n + 1) =>
        processed' = End(n + 1) /\ part = accepted[n + 1].packet
  BY <1>m, <1>n, NextPacketIsFound
<1> HIDE DEF part
<1>7. /\ handled' \in Seq(Seq(Byte)) /\ Len(handled') = n + 1
      /\ \A i \in 1 .. n : handled'[i] = handled[i]
      /\ handled'[n + 1] = part
  BY <1>n, <1>1, <1>2, AppendProperties
<1>8. DOMAIN handled' = 1 .. n + 1
  BY <1>7, LenProperties
<1>9. TypeOK'
  BY <1>0, <1>4, <1>7 DEF IInv, TypeOK, Byte
<1>10. Fits' /\ Ends' /\ Contents'
  BY <1>0 DEF IInv, Fits, Ends, Contents, End
<1>11. \A i \in Nat : WholeUpTo(i)' = WholeUpTo(i) /\ End(i)' = End(i)
  BY <1>0 DEF WholeUpTo, Whole, End
<1>12. NotAhead'
  <2> SUFFICES ASSUME WholeUpTo(m) PROVE n + 1 <= m
    BY <1>m, <1>0, <1>7 DEF NotAhead, WholeUpTo, Whole, End
  <2> QED
    BY <1>5
<1>13. InStep'
  <2> SUFFICES ASSUME n + 1 <= m, WholeUpTo(n + 1) PROVE processed' = End(n + 1)
    BY <1>m, <1>0, <1>7 DEF InStep, WholeUpTo, Whole, End
  <2> QED
    BY <1>6
<1>14. FramingKept'
  <2> SUFFICES ASSUME NEW i \in 1 .. n + 1, i <= m, WholeUpTo(i)
               PROVE  handled'[i] = accepted[i].packet
    BY <1>m, <1>0, <1>8 DEF FramingKept, WholeUpTo, Whole, End
  <2>1. CASE i \in 1 .. n
    BY <1>m, <1>2, <1>7, <2>1 DEF IInv, FramingKept
  <2>2. CASE i = n + 1
    BY <1>6, <1>7, <2>2
  <2> QED
    BY <2>1, <2>2
<1> QED
  BY <1>9, <1>10, <1>12, <1>13, <1>14 DEF IInv

LEMMA ReceiveKeepsInvariant ==
  ASSUME IInv, Receive
  PROVE  IInv'
<1>1. PICK n \in Portions :
        received' = received + Smaller(n, Len(stream) - received)
  BY DEF Receive
<1>2. /\ n \in Nat \ {0} /\ CAPACITY \in Nat /\ Len(stream) \in Nat
      /\ received \in Nat /\ processed \in Nat
      /\ received <= Len(stream) /\ processed <= received
  BY StreamAssumption, LengthsAreNat DEF IInv
<1>3. received' \in received .. Len(stream)
  BY <1>1, <1>2 DEF Smaller
<1>4. /\ packets' = packets /\ stream' = stream /\ processed' = processed
      /\ processing' = TRUE /\ accepted' = accepted /\ handled' = handled
  BY DEF Receive
<1>5. TypeOK'
  <2>1. received' \in 0 .. Len(stream) /\ processed \in 0 .. received'
    BY <1>2, <1>3
  <2> QED
    BY <1>4, <2>1 DEF IInv, TypeOK
<1>6. Fits'
  BY <1>2, <1>3, <1>4 DEF IInv, Fits
<1>7. Ends' /\ Contents' /\ NotAhead' /\ InStep' /\ FramingKept'
  BY <1>4 DEF IInv, Ends, Contents, NotAhead, InStep, FramingKept, WholeUpTo,
     Whole, End
<1> QED
  BY <1>5, <1>6, <1>7 DEF IInv

LEMMA NothingMovedKeepsInvariant ==
  ASSUME IInv, processing' \in BOOLEAN,
         UNCHANGED <<packets, stream, received, processed, accepted, handled>>
  PROVE  IInv'
BY DEF IInv, TypeOK, Fits, Ends, Contents, NotAhead, InStep, FramingKept,
   WholeUpTo, Whole, End

LEMMA SendKeepsInvariant ==
  ASSUME IInv, NEW packet \in packets, Send(packet)
  PROVE  IInv'
<1>1. CASE Taken(packet) = 0
  <2>1. UNCHANGED vars
    BY <1>1, SendOfNothing DEF IInv
  <2>2. processing' \in BOOLEAN
    BY <2>1 DEF vars, IInv, TypeOK
  <2> QED
    BY <2>1, <2>2, NothingMovedKeepsInvariant DEF vars
<1>2. CASE Taken(packet) # 0
  BY <1>2, SendKeepsTypes, SendKeepsContents, SendKeepsFraming DEF IInv
<1> QED
  BY <1>1, <1>2

LEMMA InitInvariant == Init => IInv
<1> SUFFICES ASSUME Init PROVE IInv
  OBVIOUS
<1>1. /\ stream = <<>> /\ accepted = <<>> /\ handled = <<>>
      /\ received = 0 /\ processed = 0 /\ processing = FALSE
      /\ packets \in Directions
  BY DEF Init
<1>2. Len(stream) = 0 /\ Len(accepted) = 0 /\ Len(handled) = 0
      /\ DOMAIN handled = {}
  BY <1>1
<1>3. TypeOK
  <2>1. received \in 0 .. Len(stream) /\ processed \in 0 .. received
    BY <1>1, <1>2
  <2>2. \A S : <<>> \in Seq(S)
    BY EmptySeq
  <2> QED
    BY <1>1, <2>1, <2>2 DEF TypeOK
<1>4. End(0) = 0
  BY DEF End
<1>5. Fits /\ Ends /\ Contents /\ NotAhead /\ InStep /\ FramingKept
  BY <1>1, <1>2, <1>4, StreamAssumption
     DEF Fits, Ends, Contents, NotAhead, InStep, FramingKept
<1> QED
  BY <1>3, <1>5 DEF IInv

LEMMA NextInvariant == IInv /\ [Next]_vars => IInv'
<1> SUFFICES ASSUME IInv, [Next]_vars PROVE IInv'
  OBVIOUS
<1>1. ASSUME NEW packet \in packets, Send(packet) PROVE IInv'
  BY <1>1, SendKeepsInvariant
<1>2. CASE Receive
  BY <1>2, ReceiveKeepsInvariant
<1>3. CASE ProcessPacket
  BY <1>3, ProcessKeepsInvariant
<1>4. CASE ProcessingDone
  BY <1>4, NothingMovedKeepsInvariant DEF ProcessingDone
<1>5. CASE UNCHANGED vars
  <2>1. processing' \in BOOLEAN
    BY <1>5 DEF vars, IInv, TypeOK
  <2> QED
    BY <1>5, <2>1, NothingMovedKeepsInvariant DEF vars
<1> QED
  BY <1>1, <1>2, <1>3, <1>4, <1>5 DEF Next, Reader

LEMMA Invariance == Spec => []IInv
  BY InitInvariant, NextInvariant, PTL DEF Spec

\* The positions stay in order and every byte is a byte, whatever garbage is
\* read as a header after a cut: processPackets never erases more than it has.
THEOREM StreamTypes == Spec => []TypeOK
<1>1. IInv => TypeOK
  BY DEF IInv
<1> QED
  BY <1>1, Invariance, PTL

\* Until the kernel cuts a packet, processPackets finds exactly the packets
\* that were sent, in order, for any portions of recv and any packets.
THEOREM Framing == Spec => []FramingKept
<1>1. IInv => FramingKept
  BY DEF IInv
<1> QED
  BY <1>1, Invariance, PTL

-----------------------------------------------------------------------------
(* The stream as a queue of packets.                                       *)

LEMMA WaitingIsSeq ==
  ASSUME TypeOK, Len(handled) <= Len(accepted)
  PROVE  /\ Waiting \in Seq(packets)
         /\ Len(Waiting) = Len(accepted) - Len(handled)
         /\ \A i \in 1 .. Len(accepted) - Len(handled) :
              Waiting[i] = accepted[Len(handled) + i].packet
<1>1. Len(accepted) \in Nat /\ Len(handled) \in Nat
  BY LengthsAreNat
<1>2. \A i \in 1 .. Len(accepted) - Len(handled) :
        accepted[Len(handled) + i].packet \in packets
  <2> SUFFICES ASSUME NEW i \in 1 .. Len(accepted) - Len(handled)
               PROVE  accepted[Len(handled) + i].packet \in packets
    OBVIOUS
  <2>1. Len(handled) + i \in 1 .. Len(accepted)
    BY <1>1
  <2> QED
    BY <2>1, AcceptedSend
<1>3. PICK k \in Nat : k = Len(accepted) - Len(handled)
  BY <1>1
<1>4. Waiting = [i \in 1 .. k |-> accepted[Len(handled) + i].packet]
  BY <1>3 DEF Waiting
<1>5. Waiting \in [1 .. k -> packets]
  BY <1>2, <1>3, <1>4
<1>6. Waiting \in Seq(packets) /\ Len(Waiting) = k
  BY <1>5
<1> QED
  BY <1>3, <1>4, <1>6

LEMMA QueueStep ==
  IInv /\ [Next]_vars
    => [WholeUpTo(Len(accepted))' => [Queue!Next]_(Queue!lineVars)]_vars
<1> SUFFICES ASSUME IInv, Next, WholeUpTo(Len(accepted))'
             PROVE  [Queue!Next]_(Queue!lineVars)
  OBVIOUS
<1> USE DEF Queue!lineVars
<1>0. IInv'
  BY NextInvariant
<1>m. PICK m \in Nat : m = Len(accepted)
  BY LengthsAreNat DEF IInv
<1>n. PICK n \in Nat : n = Len(handled)
  BY LengthsAreNat DEF IInv
<1>1. ASSUME NEW packet \in packets, Send(packet), Taken(packet) = 0
      PROVE  UNCHANGED <<Waiting, handled>>
  <2>1. UNCHANGED vars
    BY <1>1, SendOfNothing DEF IInv
  <2> QED
    BY <2>1 DEF vars, Waiting
<1>2. ASSUME NEW packet \in packets, Send(packet), Taken(packet) # 0
      PROVE  Queue!Enter(packet)
  <2>1. /\ Len(accepted') = m + 1
        /\ \A i \in 1 .. m : accepted'[i] = accepted[i]
        /\ accepted'[m + 1] = [packet |-> packet, end |-> Len(stream')]
        /\ WholeUpTo(m)' = WholeUpTo(m)
    BY <1>m, <1>2, SendAccepts DEF IInv
  <2>2. handled' = handled /\ packets' = packets
    BY <1>2 DEF Send
  <2>3. WholeUpTo(m)
    <3>1. WholeUpTo(m + 1)'
      BY <2>1 DEF WholeUpTo
    <3>2. WholeUpTo(m)'
      BY <3>1 DEF WholeUpTo
    <3> QED
      BY <2>1, <3>2
  <2>4. n <= m
    BY <1>m, <1>n, <2>3 DEF IInv, NotAhead
  <2>5. /\ Waiting \in Seq(packets) /\ Len(Waiting) = m - n
        /\ \A i \in 1 .. m - n : Waiting[i] = accepted[n + i].packet
    BY <1>m, <1>n, <2>4, WaitingIsSeq DEF IInv
  <2>6. Waiting' = [i \in 1 .. m + 1 - n |-> accepted'[n + i].packet]
    BY <1>n, <2>1, <2>2 DEF Waiting
  <2>7. /\ Append(Waiting, packet) \in Seq(packets)
        /\ Len(Append(Waiting, packet)) = m - n + 1
        /\ \A i \in 1 .. m - n : Append(Waiting, packet)[i] = Waiting[i]
        /\ Append(Waiting, packet)[m - n + 1] = packet
    BY <2>5, AppendProperties
  <2>8. PICK k \in Nat : k = m - n
    BY <2>4
  <2>9. /\ Waiting' \in Seq(packets) /\ Len(Waiting') = k + 1
        /\ \A i \in 1 .. k + 1 : Waiting'[i] = Append(Waiting, packet)[i]
    <3>1. \A i \in 1 .. k + 1 :
            accepted'[n + i].packet = Append(Waiting, packet)[i]
      <4> SUFFICES ASSUME NEW i \in 1 .. k + 1
                   PROVE accepted'[n + i].packet = Append(Waiting, packet)[i]
        OBVIOUS
      <4>1. CASE i \in 1 .. k
        <5>1. n + i \in 1 .. m /\ i \in 1 .. m - n
          BY <2>8, <4>1
        <5>2. accepted'[n + i] = accepted[n + i]
          BY <2>1, <5>1
        <5>3. Append(Waiting, packet)[i] = accepted[n + i].packet
          BY <2>5, <2>7, <5>1
        <5> QED
          BY <5>2, <5>3
      <4>2. CASE i = k + 1
        <5>1. n + i = m + 1 /\ i = m - n + 1
          BY <2>8, <4>2
        <5>2. accepted'[n + i].packet = packet
          BY <2>1, <5>1
        <5>3. Append(Waiting, packet)[i] = packet
          BY <2>7, <5>1
        <5> QED
          BY <5>2, <5>3
      <4>3. i \in 1 .. k \/ i = k + 1
        BY k \in Nat, i \in 1 .. k + 1
      <4> QED
        BY <4>1, <4>2, <4>3
    <3>2. Waiting' = [i \in 1 .. k + 1 |-> accepted'[n + i].packet]
      <4>1. m + 1 - n = k + 1
        BY <2>8
      <4> QED
        BY <2>6, <4>1
    <3>3. \A i \in 1 .. k + 1 : Append(Waiting, packet)[i] \in packets
      BY <2>7, <2>8, ElementOfSeq
    <3>4. Waiting' \in [1 .. k + 1 -> packets]
      BY <3>1, <3>2, <3>3
    <3>5. Waiting' \in Seq(packets) /\ Len(Waiting') = k + 1
      BY <3>4, k + 1 \in Nat
    <3> QED
      BY <3>1, <3>2, <3>5
  <2>10. Waiting' = Append(Waiting, packet)
    BY <2>7, <2>8, <2>9, SeqEqual
  <2> QED
    BY <2>2, <2>10 DEF Queue!Enter
<1>3. CASE Receive \/ ProcessingDone
  BY <1>3 DEF Receive, ProcessingDone, Waiting
<1>4. CASE ProcessPacket
  <2>1. /\ accepted' = accepted /\ stream' = stream /\ packets' = packets
        /\ Complete(processed)
        /\ handled' = Append(handled, SubSeq(stream, processed + 1, processed'))
    BY <1>4 DEF ProcessPacket
  <2>2. WholeUpTo(m)
    BY <1>m, <2>1 DEF WholeUpTo, Whole, End
  <2>3. n < m
    BY <1>m, <1>n, <2>1, <2>2, PacketWasSent
  <2>4. WholeUpTo(n + 1)
    BY <2>2, <2>3 DEF WholeUpTo
  <2>5. SubSeq(stream, processed + 1, processed') = accepted[n + 1].packet
    BY <1>m, <1>n, <1>4, <2>3, <2>4, NextPacketIsFound
  <2>6. /\ Waiting \in Seq(packets) /\ Len(Waiting) = m - n
        /\ \A i \in 1 .. m - n : Waiting[i] = accepted[n + i].packet
    BY <1>m, <1>n, <2>3, WaitingIsSeq DEF IInv
  <2>7. Waiting # <<>> /\ Head(Waiting) = accepted[n + 1].packet
    <3>1. m - n > 0 /\ 1 \in 1 .. m - n
      BY <2>3
    <3> QED
      BY <2>6, <3>1
  <2>8. handled' = Append(handled, Head(Waiting))
    BY <2>1, <2>5, <2>7
  <2>9. Len(handled') = n + 1
    <3>1. handled \in Seq(Seq(Byte))
      BY DEF IInv, TypeOK, Byte
    <3>2. SubSeq(stream, processed + 1, processed') \in Seq(Byte)
      BY <1>4, PortionIsBytes DEF IInv
    <3> QED
      BY <1>n, <2>1, <3>1, <3>2, AppendProperties
  <2>10. PICK k \in Nat : k = m - n - 1
    BY <2>3
  <2>11. /\ Tail(Waiting) \in Seq(packets) /\ Len(Tail(Waiting)) = k
         /\ \A i \in 1 .. k : Tail(Waiting)[i] = Waiting[i + 1]
    <3>1. Len(Waiting) - 1 = k
      BY <2>6, <2>10
    <3> QED
      BY <2>6, <2>7, <3>1, HeadTailProperties
  <2>12. /\ Waiting' \in Seq(packets) /\ Len(Waiting') = k
         /\ \A i \in 1 .. k : Waiting'[i] = accepted[n + 1 + i].packet
    <3>1. Waiting' = [i \in 1 .. k |-> accepted[n + 1 + i].packet]
      <4>1. Len(accepted') - Len(handled') = k
        BY <1>m, <2>1, <2>9, <2>10
      <4> QED
        BY <2>1, <2>9, <4>1 DEF Waiting
    <3>2. \A i \in 1 .. k : accepted[n + 1 + i].packet \in packets
      <4> SUFFICES ASSUME NEW i \in 1 .. k
                   PROVE  accepted[n + 1 + i].packet \in packets
        OBVIOUS
      <4>1. n + 1 + i \in 1 .. Len(accepted)
        BY <1>m, <2>10
      <4> QED
        BY <4>1, AcceptedSend DEF IInv
    <3>3. Waiting' \in [1 .. k -> packets]
      BY <3>1, <3>2
    <3>4. Waiting' \in Seq(packets) /\ Len(Waiting') = k
      BY <3>3
    <3> QED
      BY <3>1, <3>4
  <2>13. \A i \in 1 .. k : Waiting'[i] = Tail(Waiting)[i]
    <3> SUFFICES ASSUME NEW i \in 1 .. k PROVE Waiting'[i] = Tail(Waiting)[i]
      OBVIOUS
    <3>1. i + 1 \in 1 .. m - n /\ n + (i + 1) = n + 1 + i
      BY <2>10
    <3>2. Waiting[i + 1] = accepted[n + (i + 1)].packet
      BY <2>6, <3>1
    <3> QED
      BY <2>11, <2>12, <3>1, <3>2
  <2>14. Waiting' = Tail(Waiting)
    BY <2>11, <2>12, <2>13, SeqEqual
  <2> QED
    BY <2>7, <2>8, <2>14 DEF Queue!Next, Queue!Leave
<1> QED
  <2>1. ASSUME NEW packet \in packets, Send(packet)
        PROVE  [Queue!Next]_(Queue!lineVars)
    <3>1. CASE Taken(packet) = 0
      BY <1>1, <2>1, <3>1
    <3>2. CASE Taken(packet) # 0
      <4>1. packet \in UNION Directions
        BY DEF IInv, TypeOK
      <4> QED
        BY <1>2, <2>1, <3>2, <4>1 DEF Queue!Next
    <3> QED
      BY <3>1, <3>2
  <2>2. CASE Receive \/ ProcessingDone
    BY <1>3, <2>2 DEF Receive, ProcessingDone, Waiting
  <2> QED
    BY <1>4, <2>1, <2>2 DEF Next, Reader

LEMMA QueueInit == Init => Queue!Init
<1> SUFFICES ASSUME Init PROVE Queue!Init
  OBVIOUS
<1>1. accepted = <<>> /\ handled = <<>>
  BY DEF Init
<1>2. Len(accepted) - Len(handled) = 0
  BY <1>1
<1>3. 1 .. 0 = {}
  OBVIOUS
<1>4. Waiting = <<>>
  BY <1>2, <1>3 DEF Waiting
<1> QED
  BY <1>1, <1>4 DEF Queue!Init

\* Until a packet is cut the byte stream implements the queue of packets that
\* TcpLinks and GameServer take it for.
THEOREM StreamIsQueue == Spec => IsPacketQueue
<1>1. Init => Queue!Init
  BY QueueInit
<1>2. IInv /\ [Next]_vars
        => [WholeUpTo(Len(accepted))' => [Queue!Next]_(Queue!lineVars)]_vars
  BY QueueStep
<1> QED
  BY <1>1, <1>2, Invariance, PTL DEF Spec, IsPacketQueue

-----------------------------------------------------------------------------
(* The messages in the packets.                                            *)

LEMMA WorldsAreMessages ==
  ASSUME NEW n \in Nat, NEW m \in Nat
  PROVE  WorldOf(n, m) \in P!Message /\ WorldOf(n, m).kind = "world"
<1>1. [i \in 1 .. n |-> Player(i % BYTE)] \in Seq([1 .. 6 -> Nat])
  <2>1. \A i \in 1 .. n : Player(i % BYTE) \in [1 .. 6 -> Nat]
    <3> SUFFICES ASSUME NEW i \in 1 .. n PROVE Player(i % BYTE) \in [1 .. 6 -> Nat]
      OBVIOUS
    <3>1. PICK id \in Nat : id = i % BYTE
      BY StreamAssumption
    <3> QED
      BY <3>1 DEF Player
  <2> QED
    BY <2>1
<1>2. [i \in 1 .. m |-> Coin(i)] \in Seq([1 .. 4 -> Nat])
  <2>1. \A i \in 1 .. m : Coin(i) \in [1 .. 4 -> Nat]
    BY DEF Coin
  <2> QED
    BY <2>1
<1> QED
  BY <1>1, <1>2 DEF WorldOf, P!Message

LEMMA SentAreMessages ==
  /\ \A m \in ToServer : m \in P!Message /\ m.kind \in {"hello", "input"}
  /\ \A m \in ToClient : m \in P!Message /\ m.kind \in {"welcome", "world"}
<1>1. ASSUME NEW m \in ToServer
      PROVE  m \in P!Message /\ m.kind \in {"hello", "input"}
  <2>1. CASE m = [kind |-> "hello"]
    BY <2>1 DEF P!Message
  <2>2. CASE m \in [kind : {"input"}, seq : {1, 14}, keys : {<<0, 1, 0, 1>>}]
    <3>1. <<0, 1, 0, 1>> \in [1 .. 4 -> {0, 1}]
      OBVIOUS
    <3>2. m \in [kind : {"input"}, seq : Nat, keys : [1 .. 4 -> {0, 1}]]
      BY <2>2, <3>1
    <3> QED
      BY <3>2 DEF P!Message
  <2> QED
    BY <2>1, <2>2 DEF ToServer
<1>2. ASSUME NEW m \in ToClient
      PROVE  m \in P!Message /\ m.kind \in {"welcome", "world"}
  <2>1. CASE m = [kind |-> "welcome", id |-> 1]
    BY <2>1 DEF P!Message
  <2>2. CASE m = WorldOf(1, 2)
    BY <2>2, WorldsAreMessages
  <2>3. CASE m = WorldOf(PlayersInCrowd, 1)
    BY <2>3, WorldsAreMessages, CrowdAssumption
  <2> QED
    BY <2>1, <2>2, <2>3 DEF ToClient
<1> QED
  BY <1>1, <1>2

LEMMA LastIsRead == IInv => MessagesRead
<1> SUFFICES ASSUME IInv, NEW n, n = Len(handled), n \in DOMAIN accepted,
                    WholeUpTo(n), NEW m \in DOMAIN Encoding,
                    Encoding[m] = accepted[n].packet, P!Expressible(m)
             PROVE  IF m \in ToServer
                      THEN P!ReadByServer(handled[n]) =
                             IF m.kind = "hello" THEN <<>> ELSE <<m>>
                      ELSE P!ReadByClient(handled[n]) = <<m>>
  BY DEF MessagesRead
<1>1. handled[n] = accepted[n].packet
  BY LengthsAreNat DEF IInv, FramingKept
<1>2. m \in ToServer \cup ToClient /\ Encoding[m] = P!Serialize(m)
  BY DEF Encoding
<1>3. handled[n] = P!Serialize(m)
  BY <1>1, <1>2
<1>4. /\ m.kind \in {"welcome", "world"}
           => P!ReadByClient(P!Serialize(m)) = <<m>>
      /\ m.kind = "input" => P!ReadByServer(P!Serialize(m)) = <<m>>
      /\ m.kind = "hello" => P!ReadByServer(P!Serialize(m)) = <<>>
  <2>1. m \in P!Message /\ P!Sizes /\ P!Expressible(m)
    BY <1>2, SentAreMessages, CrowdAssumption
  <2> QED
    BY <2>1, P!MessageIsRead
<1> QED
  BY <1>2, <1>3, <1>4, SentAreMessages

\* Through a byte stream in any portions the reader takes every message whose
\* fields have room for it as it was meant, for any size of a byte, a word and
\* a crowd, as long as the kernel takes the packets whole.
THEOREM MessagesAreRead == Spec => []MessagesRead
BY LastIsRead, Invariance, PTL

\* What the protocol writes is what StreamAssumption asks of a packet, as long as
\* the size of the message fits two bytes: readers that cut the stream by the
\* sizes in the headers cut it where one message ends and the next begins.
THEOREM MessagesAreFramed ==
  ASSUME NEW m \in DOMAIN Encoding, P!Fits(2, Len(Encoding[m]) - HEADER)
  PROVE  WellFormed(Encoding[m])
<1>1. m \in ToServer \cup ToClient /\ Encoding[m] = P!Serialize(m)
  BY DEF Encoding
<1>2. P!IsFramed(Encoding[m])
  <2>1. m \in P!Message /\ P!Sizes
    BY <1>1, SentAreMessages, CrowdAssumption
  <2> QED
    BY <1>1, <2>1, P!MessageIsFramed
<1>3. HEADER = P!HeaderSize /\ 0 + HEADER - 1 = HEADER - 1 /\ 0 + HEADER = HEADER
  BY CrowdAssumption, StreamAssumption
<1>4. /\ Encoding[m] \in Seq(0 .. BYTE - 1) /\ Len(Encoding[m]) >= HEADER
      /\ Encoding[m][HEADER - 1] + BYTE * Encoding[m][HEADER]
           = Len(Encoding[m]) - HEADER
  BY <1>2, <1>3 DEF P!IsFramed, P!Bytes
<1> QED
  BY <1>3, <1>4 DEF WellFormed, SizeAt

=============================================================================
