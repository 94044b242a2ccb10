---------------------------- MODULE PacketStream ----------------------------
(***************************************************************************)
(* One direction of a connection as the bytes it is: packets are written   *)
(* to a non-blocking socket that may take part of one or nothing, the      *)
(* kernel delivers the bytes in any portions, and the reader cuts them     *)
(* into packets again by the size each header holds (sendToClients,        *)
(* receiveFromClients with ServerPlayer::processPackets, and the same in   *)
(* ClientNetwork).                                                         *)
(*                                                                         *)
(* The bytes are kept in one sequence; the kernel's queue and the reader's *)
(* receiveBuffer_ are the parts of it between two positions.               *)
(***************************************************************************)
EXTENDS Integers, Sequences

CONSTANTS
  Directions,  \* for either direction, the packets that are sent on it
  BYTE,        \* values of a byte, 256 in the code
  HEADER,      \* bytes of a header, 7 in the code
  CAPACITY,    \* bytes the two kernels hold for one direction
  Portions,    \* what one recv returns when more has arrived: in the code any
               \* number up to 1024 in the server and 4096 in the client
  MaxSends     \* bound: packets of which the kernel takes something

\* The packet size as the last two bytes of the header at position p say it.
SizeAt(bytes, p) == bytes[p + HEADER - 1] + BYTE * bytes[p + HEADER]

\* What the protocol writes: a header whose size is that of the payload.
WellFormed(packet) ==
  /\ packet \in Seq(0 .. BYTE - 1)
  /\ Len(packet) >= HEADER
  /\ SizeAt(packet, 0) = Len(packet) - HEADER

ASSUME StreamAssumption ==
  /\ BYTE \in Nat \ {0, 1}
  /\ HEADER \in Nat \ {0, 1}
  /\ CAPACITY \in Nat /\ MaxSends \in Nat
  /\ Portions \subseteq Nat \ {0} /\ Portions # {}
  /\ \A packets \in Directions : \A packet \in packets : WellFormed(packet)

VARIABLES
  packets,     \* the direction this stream carries
  stream,      \* the bytes the kernel has taken from the sender
  received,    \* how many of them the reader has
  processed,   \* how many of those are erased from its receiveBuffer_
  processing,  \* the reader is in processPackets
  accepted,    \* history: the sends that left bytes in the stream
  handled      \* history: the packets the reader found, with their headers

vars == <<packets, stream, received, processed, processing, accepted, handled>>

Init ==
  /\ packets \in Directions
  /\ stream = <<>> /\ received = 0 /\ processed = 0
  /\ processing = FALSE
  /\ accepted = <<>> /\ handled = <<>>

-----------------------------------------------------------------------------
(* Slips, never used by the specification.                                 *)

TotalSizeOfPayload(p) == SizeAt(stream, p)

CompleteByHeader(p) == received - p >= HEADER

CompleteWithMore(p) ==
  /\ received - p > HEADER
  /\ received - p > HEADER + SizeAt(stream, p)

-----------------------------------------------------------------------------
Smaller(a, b) == IF a < b THEN a ELSE b

\* What the kernel has room for.
Taken(packet) == Smaller(Len(packet), CAPACITY - (Len(stream) - received))

\* The result of send is ignored: the rest of the packet is gone.
Send(packet) ==
  /\ Len(accepted) < MaxSends
  /\ stream' = stream \o SubSeq(packet, 1, Taken(packet))
  /\ accepted' = IF Taken(packet) = 0 THEN accepted
                 ELSE Append(accepted, [packet |-> packet,
                                        end    |-> Len(stream')])
  /\ UNCHANGED <<packets, received, processed, processing, handled>>

\* One recv, and what it returned goes to the end of receiveBuffer_.
Receive ==
  /\ ~processing /\ received < Len(stream)
  /\ \E n \in Portions :
       received' = received + Smaller(n, Len(stream) - received)
  /\ processing' = TRUE
  /\ UNCHANGED <<packets, stream, processed, accepted, handled>>

TotalSize(p) == HEADER + SizeAt(stream, p)

\* receiveBuffer_ begins at p and holds a header and all the header announces.
Complete(p) ==
  /\ received - p >= HEADER
  /\ received - p >= TotalSize(p)

ProcessPacket ==
  /\ processing /\ Complete(processed)
  /\ processed' = processed + TotalSize(processed)
  /\ handled' = Append(handled, SubSeq(stream, processed + 1, processed'))
  /\ UNCHANGED <<packets, stream, received, processing, accepted>>

ProcessingDone ==
  /\ processing /\ ~Complete(processed)
  /\ processing' = FALSE
  /\ UNCHANGED <<packets, stream, received, processed, accepted, handled>>

Reader == Receive \/ ProcessPacket \/ ProcessingDone

Next == (\E packet \in packets : Send(packet)) \/ Reader

Spec == Init /\ [][Next]_vars

\* The reading process asks its socket in every tick.
FairSpec == Spec /\ WF_vars(Reader)

-----------------------------------------------------------------------------
\* Where the n-th packet ends in the stream.
End(n) == IF n = 0 THEN 0 ELSE accepted[n].end

\* The kernel took all of the i-th packet, or of the first n.
Whole(i) == End(i) = End(i - 1) + Len(accepted[i].packet)
WholeUpTo(n) == \A i \in 1 .. n : Whole(i)

TypeOK ==
  /\ packets \in Directions
  /\ stream \in Seq(0 .. BYTE - 1)
  /\ received \in 0 .. Len(stream) /\ processed \in 0 .. received
  /\ processing \in BOOLEAN
  /\ accepted \in Seq([packet : packets, end : 1 .. Len(stream)])
  /\ handled \in Seq(Seq(0 .. BYTE - 1))

\* As long as the kernel took packets whole, the reader finds exactly those
\* packets, in order, however recv portions the bytes; a later cut does not
\* reach back.
FramingKept ==
  \A i \in DOMAIN handled :
    i <= Len(accepted) /\ WholeUpTo(i) => handled[i] = accepted[i].packet

\* The packets on their way, oldest first, as a delay line holds them.
Waiting ==
  [i \in 1 .. Len(accepted) - Len(handled) |->
     accepted[Len(handled) + i].packet]

Queue == INSTANCE DelayLine
  WITH Data <- UNION Directions, line <- Waiting, delivered <- handled

\* Until a packet is cut the stream is a queue of packets: every step puts one
\* at the end, takes the front one, or neither.
IsPacketQueue ==
  Queue!Init /\ [][WholeUpTo(Len(accepted))' => [Queue!Next]_Queue!lineVars]_vars

\* A packet that was taken whole, after others that were, is processed.
WholeIsProcessed ==
  \A n \in 1 .. MaxSends :
    (Len(accepted) >= n /\ WholeUpTo(n)) ~> (Len(handled) >= n)

=============================================================================
