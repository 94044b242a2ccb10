--------------------------- MODULE LatencyBuffer ----------------------------
(***************************************************************************)
(* LatencyBuffer<T> of include/LagSimulator.hpp: the queue that holds      *)
(* every packet of server and client for SIMULATED_LATENCY_MS.  Each       *)
(* member function holds mutex_ for its whole body, so it is one action;   *)
(* the clock moves between calls, by any amount.                           *)
(*                                                                         *)
(* An item is the number of the push that brought it, so two items are     *)
(* never equal.  pushed, out and cleared are history: what was pushed and  *)
(* under which latency, what popReady returned and when, what clear()      *)
(* dropped.                                                                *)
(***************************************************************************)
EXTENDS Naturals, Sequences

CONSTANTS
  InitialLatency,   \* latencyMs of the constructor
  Latencies,        \* the values setLatency is called with
  MaxPush,          \* bound: pushes in a behaviour
  MaxTime           \* bound: last instant of the clock

ASSUME LatencyAssumption ==
  /\ InitialLatency \in Nat
  /\ Latencies \subseteq Nat
  /\ MaxPush \in Nat
  /\ MaxTime \in Nat

VARIABLES
  buffer,     \* buffer_: [data, releaseTime], front first
  latency,    \* latency_
  now,        \* steady_clock::now()
  pushed,     \* history: [at, latency] of every push
  out,        \* history: [data, at] of every successful popReady
  cleared     \* history: the items clear() dropped

vars == <<buffer, latency, now, pushed, out, cleared>>

Init ==
  /\ buffer = <<>>
  /\ latency = InitialLatency
  /\ now = 0
  /\ pushed = <<>>
  /\ out = <<>>
  /\ cleared = {}

Ready(item) == item.releaseTime <= now

(***************************************************************************)
(* Slips the properties below must catch.  No behaviour of Spec uses them: *)
(* each stands in for the action it is named after.                        *)
(***************************************************************************)
PushSubtractsLatency ==
  /\ Len(pushed) < MaxPush
  /\ now + latency <= MaxTime
  /\ pushed' = Append(pushed, [at |-> now, latency |-> latency])
  /\ buffer' = Append(buffer, [data        |-> Len(pushed) + 1,
                               releaseTime |-> now - latency])
  /\ UNCHANGED <<latency, now, out, cleared>>

PushAtFront ==
  /\ Len(pushed) < MaxPush
  /\ now + latency <= MaxTime
  /\ pushed' = Append(pushed, [at |-> now, latency |-> latency])
  /\ buffer' = <<[data        |-> Len(pushed) + 1,
                  releaseTime |-> now + latency]>> \o buffer
  /\ UNCHANGED <<latency, now, out, cleared>>

PopUnready ==
  /\ buffer # <<>>
  /\ out' = Append(out, [data |-> Head(buffer).data, at |-> now])
  /\ buffer' = Tail(buffer)
  /\ UNCHANGED <<latency, now, pushed, cleared>>

PopKeepsFront ==
  /\ buffer # <<>>
  /\ Ready(Head(buffer))
  /\ out' = Append(out, [data |-> Head(buffer).data, at |-> now])
  /\ UNCHANGED <<buffer, latency, now, pushed, cleared>>

PopKeepsLast ==
  /\ Len(buffer) > 1
  /\ Ready(Head(buffer))
  /\ out' = Append(out, [data |-> Head(buffer).data, at |-> now])
  /\ buffer' = Tail(buffer)
  /\ UNCHANGED <<latency, now, pushed, cleared>>

PopReturnsNewest ==
  /\ buffer # <<>>
  /\ Ready(Head(buffer))
  /\ out' = Append(out, [data |-> buffer[Len(buffer)].data, at |-> now])
  /\ buffer' = <<>>
  /\ UNCHANGED <<latency, now, pushed, cleared>>

-----------------------------------------------------------------------------
Push ==
  /\ Len(pushed) < MaxPush
  /\ now + latency <= MaxTime
  /\ pushed' = Append(pushed, [at |-> now, latency |-> latency])
  /\ buffer' = Append(buffer, [data        |-> Len(pushed) + 1,
                               releaseTime |-> now + latency])
  /\ UNCHANGED <<latency, now, out, cleared>>

\* popReady returning true; returning false changes nothing.
PopReady ==
  /\ buffer # <<>>
  /\ Ready(Head(buffer))
  /\ out' = Append(out, [data |-> Head(buffer).data, at |-> now])
  /\ buffer' = Tail(buffer)
  /\ UNCHANGED <<latency, now, pushed, cleared>>

SetLatency ==
  /\ latency' \in Latencies
  /\ UNCHANGED <<buffer, now, pushed, out, cleared>>

Held == {buffer[i].data : i \in DOMAIN buffer}

Clear ==
  /\ buffer' = <<>>
  /\ cleared' = cleared \cup Held
  /\ UNCHANGED <<latency, now, pushed, out>>

Tick ==
  /\ now' \in (now + 1) .. MaxTime
  /\ UNCHANGED <<buffer, latency, pushed, out, cleared>>

Next == Push \/ PopReady \/ SetLatency \/ Clear \/ Tick

Spec == Init /\ [][Next]_vars

\* Time advances, and the owner calls popReady in every tick of its loop
\* (ServerNetwork::sendToClients, GameServer::processInputs,
\* ClientNetwork::update, GameClient::run).
FairSpec == Spec /\ WF_vars(PopReady) /\ WF_vars(Tick)

-----------------------------------------------------------------------------
Item == [data : 1 .. Len(pushed), releaseTime : Nat]

Popped == [data : 1 .. Len(pushed), at : Nat]

TypeOK ==
  /\ buffer \in Seq(Item)
  /\ latency \in Nat
  /\ now \in 0 .. MaxTime
  /\ pushed \in Seq([at : Nat, latency : Nat])
  /\ out \in Seq(Popped)
  /\ cleared \subseteq 1 .. Len(pushed)

\* No item comes out before the latency in force when it was pushed has
\* passed, whatever setLatency was called with in between.
NeverEarly ==
  \A k \in DOMAIN out :
    LET item == pushed[out[k].data] IN out[k].at >= item.at + item.latency

Delivered == {out[k].data : k \in DOMAIN out}

\* Items come out in the order they were pushed, none twice, and what is
\* still inside is younger than everything that came out and in order.
PushOrder ==
  /\ \A i, j \in DOMAIN out : i < j => out[i].data < out[j].data
  /\ \A i, j \in DOMAIN buffer : i < j => buffer[i].data < buffer[j].data
  /\ \A i \in DOMAIN out, j \in DOMAIN buffer : out[i].data < buffer[j].data

\* Every push is accounted for once: inside, returned by popReady, or
\* dropped by clear().
NothingLost ==
  /\ Held \cup Delivered \cup cleared = 1 .. Len(pushed)
  /\ cleared \cap (Held \cup Delivered) = {}

\* An item whose release time has passed is hidden from popReady, which looks
\* at the front only, by nothing but items pushed under a longer latency: by
\* none while setLatency is not called.
ReadyItemIsFound ==
  \A i \in DOMAIN buffer, j \in DOMAIN buffer :
    j < i /\ Ready(buffer[i]) =>
      \/ Ready(buffer[j])
      \/ pushed[buffer[j].data].latency > pushed[buffer[i].data].latency

\* An item that is pushed leaves again.
EventuallyReleased ==
  \A k \in 1 .. MaxPush : (k \in Held) ~> (k \notin Held)

-----------------------------------------------------------------------------
\* Without its clock the buffer is a delay line.
DL == INSTANCE DelayLine WITH
        Data      <- 1 .. MaxPush,
        line      <- [i \in DOMAIN buffer |-> buffer[i].data],
        delivered <- [k \in DOMAIN out |-> out[k].data]

\* The buffer never reorders, duplicates or invents an item.
IsDelayLine == DL!Spec

=============================================================================
