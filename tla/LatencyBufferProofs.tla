------------------------ MODULE LatencyBufferProofs -------------------------
(***************************************************************************)
(* Proofs about LatencyBuffer, for every latency, every sequence of calls  *)
(* and every bound.                                                        *)
(***************************************************************************)
EXTENDS LatencyBuffer, SequenceTheorems, TLAPS

-----------------------------------------------------------------------------
(* Types.                                                                  *)

LEMMA InitTypeOK == Init => TypeOK
BY LatencyAssumption DEF Init, TypeOK, Item, Popped

\* Every member function keeps the types.
LEMMA NextTypeOK == TypeOK /\ [Next]_vars => TypeOK'
<1> SUFFICES ASSUME TypeOK, [Next]_vars PROVE TypeOK'
  OBVIOUS
<1> USE LatencyAssumption
<1>1. CASE Push
  <2>1. /\ Len(pushed') = Len(pushed) + 1
        /\ pushed' \in Seq([at : Nat, latency : Nat])
    BY <1>1 DEF Push, TypeOK
  <2>2. Item \subseteq Item' /\ buffer \in Seq(Item')
    <3>1. Item \subseteq Item'
      BY <2>1 DEF TypeOK, Item
    <3> QED
      BY <3>1, SeqMonotonic DEF TypeOK
  <2>3. buffer' \in Seq(Item')
    <3>1. [data |-> Len(pushed) + 1, releaseTime |-> now + latency] \in Item'
      BY <2>1 DEF TypeOK, Item
    <3> QED
      BY <1>1, <2>2, <3>1 DEF Push
  <2>4. out \in Seq(Popped')
    <3>1. Popped \subseteq Popped'
      BY <2>1 DEF TypeOK, Popped
    <3> QED
      BY <3>1, SeqMonotonic DEF TypeOK
  <2> QED
    BY <1>1, <2>1, <2>3, <2>4 DEF Push, TypeOK
<1>2. CASE PopReady
  <2>1. /\ UNCHANGED <<latency, now, pushed, cleared>>
        /\ Item' = Item /\ Popped' = Popped
    BY <1>2 DEF PopReady, Item, Popped
  <2>2. Head(buffer) \in Item /\ Tail(buffer) \in Seq(Item)
    BY <1>2, HeadTailProperties DEF PopReady, TypeOK
  <2>3. [data |-> Head(buffer).data, at |-> now] \in Popped
    <3>1. now \in Nat
      BY DEF TypeOK
    <3>2. Head(buffer).data \in 1 .. Len(pushed)
      BY <2>2 DEF Item
    <3> QED
      BY <3>1, <3>2 DEF Popped
  <2>4. out' \in Seq(Popped)
    BY <1>2, <2>3 DEF PopReady, TypeOK
  <2> QED
    BY <1>2, <2>1, <2>2, <2>4 DEF PopReady, TypeOK
<1>3. CASE SetLatency
  BY <1>3 DEF SetLatency, TypeOK, Item, Popped
<1>4. CASE Clear
  <2>1. /\ UNCHANGED <<latency, now, pushed, out>>
        /\ Item' = Item /\ Popped' = Popped
    BY <1>4 DEF Clear, Item, Popped
  <2>2. Held \subseteq 1 .. Len(pushed)
    <3>1. \A i \in DOMAIN buffer : buffer[i] \in Item
      BY DEF TypeOK
    <3> QED
      BY <3>1 DEF Held, Item
  <2>3. buffer' \in Seq(Item)
    BY <1>4 DEF Clear
  <2> QED
    BY <1>4, <2>1, <2>2, <2>3 DEF Clear, TypeOK
<1>5. CASE Tick
  BY <1>5 DEF Tick, TypeOK, Item, Popped
<1>6. CASE UNCHANGED vars
  BY <1>6 DEF vars, TypeOK, Item, Popped
<1> QED
  BY <1>1, <1>2, <1>3, <1>4, <1>5, <1>6 DEF Next

\* push, popReady, setLatency and clear keep every field in its type.
THEOREM TypeCorrect == Spec => []TypeOK
<1>1. Init => TypeOK
  BY InitTypeOK
<1>2. TypeOK /\ [Next]_vars => TypeOK'
  BY NextTypeOK
<1> QED
  BY <1>1, <1>2, PTL DEF Spec

-----------------------------------------------------------------------------
(* Time.                                                                   *)

\* The release time of an item is the one its push gave it.
ReleaseAsPushed ==
  \A i \in DOMAIN buffer :
    LET push == pushed[buffer[i].data]
    IN  buffer[i].releaseTime = push.at + push.latency

\* NeverEarly with what makes it inductive: setLatency must not reach the
\* items that wait.
TimeInv == TypeOK /\ ReleaseAsPushed /\ NeverEarly

LEMMA InitTimeInv == Init => TimeInv
BY InitTypeOK DEF Init, TimeInv, ReleaseAsPushed, NeverEarly

LEMMA NextTimeInv == TimeInv /\ [Next]_vars => TimeInv'
<1> SUFFICES ASSUME TimeInv, [Next]_vars PROVE TimeInv'
  OBVIOUS
<1>1. TypeOK /\ ReleaseAsPushed /\ NeverEarly /\ TypeOK'
  BY NextTypeOK DEF TimeInv
<1>2. ASSUME NEW i \in DOMAIN buffer
      PROVE  buffer[i].data \in 1 .. Len(pushed) /\ buffer[i].releaseTime \in Nat
  <2>1. buffer[i] \in Item
    BY <1>1 DEF TypeOK
  <2> QED
    BY <2>1 DEF Item
<1>3. ASSUME NEW k \in DOMAIN out
      PROVE  out[k].data \in 1 .. Len(pushed)
  <2>1. out[k] \in Popped
    BY <1>1 DEF TypeOK
  <2> QED
    BY <2>1 DEF Popped
<1>4. CASE Push
  <2> DEFINE item == [data        |-> Len(pushed) + 1,
                      releaseTime |-> now + latency]
  <2>1. \A k \in 1 .. Len(pushed) : pushed'[k] = pushed[k]
    BY <1>1, <1>4 DEF Push, TypeOK
  <2>2. pushed'[Len(pushed) + 1] = [at |-> now, latency |-> latency]
    BY <1>1, <1>4 DEF Push, TypeOK
  <2>3. ReleaseAsPushed'
    <3> SUFFICES ASSUME NEW i \in DOMAIN buffer'
                 PROVE  LET push == pushed'[buffer'[i].data]
                        IN  buffer'[i].releaseTime = push.at + push.latency
      BY DEF ReleaseAsPushed
    <3>1. /\ DOMAIN buffer' = 1 .. Len(buffer) + 1
          /\ DOMAIN buffer = 1 .. Len(buffer)
          /\ Len(buffer) \in Nat
      BY <1>1, <1>4 DEF Push, TypeOK
    <3>2. CASE i \in DOMAIN buffer
      <4>1. buffer'[i] = buffer[i]
        BY <1>1, <1>4, <3>1, <3>2 DEF Push, TypeOK
      <4> QED
        BY <1>1, <1>2, <2>1, <3>2, <4>1 DEF ReleaseAsPushed
    <3>3. CASE i = Len(buffer) + 1
      <4>1. buffer'[i] = item
        BY <1>1, <1>4, <3>1, <3>3 DEF Push, TypeOK
      <4> QED
        BY <2>2, <4>1
    <3> QED
      BY <3>1, <3>2, <3>3
  <2>4. NeverEarly'
    BY <1>1, <1>3, <1>4, <2>1 DEF Push, NeverEarly
  <2> QED
    BY <1>1, <2>3, <2>4 DEF TimeInv
<1>5. CASE PopReady
  <2>1. /\ DOMAIN buffer = 1 .. Len(buffer) /\ Len(buffer) \in Nat \ {0}
        /\ DOMAIN buffer' = 1 .. Len(buffer) - 1
        /\ \A i \in DOMAIN buffer' : buffer'[i] = buffer[i + 1]
        /\ Head(buffer) = buffer[1]
        /\ pushed' = pushed
    BY <1>1, <1>5 DEF PopReady, TypeOK
  <2>2. ReleaseAsPushed'
    BY <1>1, <2>1 DEF ReleaseAsPushed
  <2>3. NeverEarly'
    <3> SUFFICES ASSUME NEW k \in DOMAIN out'
                 PROVE  LET push == pushed[out'[k].data]
                        IN  out'[k].at >= push.at + push.latency
      BY <2>1 DEF NeverEarly
    <3>1. /\ DOMAIN out = 1 .. Len(out) /\ Len(out) \in Nat
          /\ DOMAIN out' = 1 .. Len(out) + 1
      BY <1>1, <1>5 DEF PopReady, TypeOK
    <3>2. CASE k \in DOMAIN out
      <4>1. out'[k] = out[k]
        BY <1>1, <1>5, <3>1, <3>2 DEF PopReady, TypeOK
      <4> QED
        BY <1>1, <3>2, <4>1 DEF NeverEarly
    <3>3. CASE k = Len(out) + 1
      <4>1. out'[k] = [data |-> buffer[1].data, at |-> now]
        BY <1>1, <1>5, <2>1, <3>1, <3>3 DEF PopReady, TypeOK
      <4>2. buffer[1].releaseTime <= now
        BY <1>5, <2>1 DEF PopReady, Ready
      <4>3. buffer[1].releaseTime
              = pushed[buffer[1].data].at + pushed[buffer[1].data].latency
        BY <1>1, <2>1 DEF ReleaseAsPushed
      <4>4. buffer[1].releaseTime \in Nat
        BY <1>2, <2>1
      <4>5. now \in Nat
        BY <1>1, LatencyAssumption DEF TypeOK
      <4> QED
        BY <4>1, <4>2, <4>3, <4>4, <4>5
    <3> QED
      BY <3>1, <3>2, <3>3
  <2> QED
    BY <1>1, <2>2, <2>3 DEF TimeInv
<1>6. CASE SetLatency
  BY <1>1, <1>6 DEF SetLatency, TimeInv, ReleaseAsPushed, NeverEarly
<1>7. CASE Clear
  BY <1>1, <1>7 DEF Clear, TimeInv, ReleaseAsPushed, NeverEarly
<1>8. CASE Tick
  BY <1>1, <1>8 DEF Tick, TimeInv, ReleaseAsPushed, NeverEarly
<1>9. CASE UNCHANGED vars
  BY <1>1, <1>9 DEF vars, TimeInv, ReleaseAsPushed, NeverEarly
<1> QED
  BY <1>4, <1>5, <1>6, <1>7, <1>8, <1>9 DEF Next

\* No item leaves before the latency it was pushed under has passed, however
\* setLatency is used.
THEOREM DelayRespected == Spec => []NeverEarly
<1>1. Init => TimeInv
  BY InitTimeInv
<1>2. TimeInv /\ [Next]_vars => TimeInv'
  BY NextTimeInv
<1>3. TimeInv => NeverEarly
  BY DEF TimeInv
<1> QED
  BY <1>1, <1>2, <1>3, PTL DEF Spec

-----------------------------------------------------------------------------
(* Order.  PushOrder is inductive with the types: a new item is numbered   *)
(* above everything there is, and only the front ever leaves.              *)

LEMMA NextPushOrder == TypeOK /\ PushOrder /\ [Next]_vars => PushOrder'
<1> SUFFICES ASSUME TypeOK, PushOrder, [Next]_vars PROVE PushOrder'
  OBVIOUS
<1>1. /\ Len(buffer) \in Nat /\ DOMAIN buffer = 1 .. Len(buffer)
      /\ Len(out) \in Nat /\ DOMAIN out = 1 .. Len(out)
      /\ Len(pushed) \in Nat
  BY DEF TypeOK
<1>2. ASSUME NEW i \in DOMAIN buffer PROVE buffer[i].data \in 1 .. Len(pushed)
  <2>1. buffer[i] \in Item
    BY DEF TypeOK
  <2> QED
    BY <2>1 DEF Item
<1>3. ASSUME NEW k \in DOMAIN out PROVE out[k].data \in 1 .. Len(pushed)
  <2>1. out[k] \in Popped
    BY DEF TypeOK
  <2> QED
    BY <2>1 DEF Popped
<1>4. CASE Push
  <2>1. /\ out' = out
        /\ DOMAIN buffer' = 1 .. Len(buffer) + 1
        /\ \A i \in DOMAIN buffer : buffer'[i] = buffer[i]
        /\ buffer'[Len(buffer) + 1].data = Len(pushed) + 1
    BY <1>1, <1>4 DEF Push, TypeOK
  <2>2. ASSUME NEW i \in DOMAIN buffer', NEW j \in DOMAIN buffer', i < j
        PROVE  buffer'[i].data < buffer'[j].data
    <3>1. i \in DOMAIN buffer
      BY <1>1, <2>1, <2>2
    <3>2. CASE j \in DOMAIN buffer
      BY <2>1, <2>2, <3>1, <3>2 DEF PushOrder
    <3>3. CASE j = Len(buffer) + 1
      BY <1>1, <1>2, <2>1, <3>1, <3>3
    <3> QED
      BY <1>1, <2>1, <3>2, <3>3
  <2>3. ASSUME NEW i \in DOMAIN out', NEW j \in DOMAIN buffer'
        PROVE  out'[i].data < buffer'[j].data
    <3>1. CASE j \in DOMAIN buffer
      BY <2>1, <3>1 DEF PushOrder
    <3>2. CASE j = Len(buffer) + 1
      BY <1>1, <1>3, <2>1, <3>2
    <3> QED
      BY <1>1, <2>1, <3>1, <3>2
  <2> QED
    BY <2>1, <2>2, <2>3 DEF PushOrder
<1>5. CASE PopReady
  <2>1. /\ Len(buffer) > 0
        /\ DOMAIN buffer' = 1 .. Len(buffer) - 1
        /\ \A i \in DOMAIN buffer' : buffer'[i] = buffer[i + 1]
    BY <1>1, <1>5 DEF PopReady, TypeOK
  <2>2. /\ DOMAIN out' = 1 .. Len(out) + 1
        /\ \A k \in DOMAIN out : out'[k] = out[k]
        /\ out'[Len(out) + 1].data = buffer[1].data
    BY <1>1, <1>5 DEF PopReady, TypeOK
  <2>3. ASSUME NEW i \in DOMAIN buffer', NEW j \in DOMAIN buffer', i < j
        PROVE  buffer'[i].data < buffer'[j].data
    BY <1>1, <2>1, <2>3 DEF PushOrder
  <2>4. ASSUME NEW i \in DOMAIN out', NEW j \in DOMAIN out', i < j
        PROVE  out'[i].data < out'[j].data
    <3>1. i \in DOMAIN out
      BY <1>1, <2>2, <2>4
    <3>2. CASE j \in DOMAIN out
      BY <2>2, <2>4, <3>1, <3>2 DEF PushOrder
    <3>3. CASE j = Len(out) + 1
      BY <1>1, <2>1, <2>2, <3>1, <3>3 DEF PushOrder
    <3> QED
      BY <1>1, <2>2, <3>2, <3>3
  <2>5. ASSUME NEW i \in DOMAIN out', NEW j \in DOMAIN buffer'
        PROVE  out'[i].data < buffer'[j].data
    <3>1. CASE i \in DOMAIN out
      BY <1>1, <2>1, <2>2, <3>1 DEF PushOrder
    <3>2. CASE i = Len(out) + 1
      BY <1>1, <2>1, <2>2, <3>2 DEF PushOrder
    <3> QED
      BY <1>1, <2>2, <3>1, <3>2
  <2> QED
    BY <2>3, <2>4, <2>5 DEF PushOrder
<1>6. CASE SetLatency
  BY <1>6 DEF SetLatency, PushOrder
<1>7. CASE Clear
  BY <1>7 DEF Clear, PushOrder
<1>8. CASE Tick
  BY <1>8 DEF Tick, PushOrder
<1>9. CASE UNCHANGED vars
  BY <1>9 DEF vars, PushOrder
<1> QED
  BY <1>4, <1>5, <1>6, <1>7, <1>8, <1>9 DEF Next

\* Items leave in push order and none leaves twice.
THEOREM OrderKept == Spec => []PushOrder
<1>1. Init => PushOrder
  BY DEF Init, PushOrder
<1>2. TypeOK /\ PushOrder /\ [Next]_vars => PushOrder'
  BY NextPushOrder
<1> QED
  BY <1>1, <1>2, TypeCorrect, PTL DEF Spec

-----------------------------------------------------------------------------
(* What the front hides.                                                   *)

\* Pushes are recorded in the order of the clock.
PushTimes ==
  /\ \A k \in DOMAIN pushed : pushed[k].at <= now
  /\ \A k, l \in DOMAIN pushed : k < l => pushed[k].at <= pushed[l].at

\* The history of pushes and the clock, field by field.
LEMMA PushedTypes ==
  ASSUME TypeOK
  PROVE  /\ Len(pushed) \in Nat /\ DOMAIN pushed = 1 .. Len(pushed)
         /\ \A k \in DOMAIN pushed :
              pushed[k].at \in Nat /\ pushed[k].latency \in Nat
         /\ now \in Nat
<1> DEFINE Entry == [at : Nat, latency : Nat]
<1>1. pushed \in Seq(Entry)
  BY DEF TypeOK
<1>2. \A e \in Entry : e.at \in Nat /\ e.latency \in Nat
  OBVIOUS
<1>3. now \in Nat
  BY LatencyAssumption DEF TypeOK
<1> HIDE DEF Entry
<1> QED
  BY <1>1, <1>2, <1>3

LEMMA NextPushTimes == TypeOK /\ PushTimes /\ [Next]_vars => PushTimes'
<1> SUFFICES ASSUME TypeOK, PushTimes, [Next]_vars PROVE PushTimes'
  OBVIOUS
<1>1. /\ Len(pushed) \in Nat /\ DOMAIN pushed = 1 .. Len(pushed)
      /\ \A k \in DOMAIN pushed : pushed[k].at \in Nat
      /\ now \in Nat
  BY PushedTypes
<1>2. CASE Push
  <2>1. /\ now' = now
        /\ DOMAIN pushed' = 1 .. Len(pushed) + 1
        /\ \A k \in DOMAIN pushed : pushed'[k] = pushed[k]
        /\ pushed'[Len(pushed) + 1].at = now
    BY <1>1, <1>2 DEF Push, TypeOK
  <2> QED
    BY <1>1, <2>1 DEF PushTimes
<1>3. CASE Tick
  <2>1. pushed' = pushed /\ now' \in Nat /\ now' > now
    BY <1>1, <1>3, LatencyAssumption DEF Tick
  <2> QED
    BY <1>1, <2>1 DEF PushTimes
<1>4. CASE PopReady \/ SetLatency \/ Clear \/ UNCHANGED vars
  BY <1>4 DEF PopReady, SetLatency, Clear, vars, PushTimes
<1> QED
  BY <1>2, <1>3, <1>4 DEF Next

\* Testing the front alone misses a ready item only behind one that was
\* pushed under a longer latency.
THEOREM FrontSuffices == Spec => []ReadyItemIsFound
<1>1. Init => TimeInv /\ PushOrder /\ PushTimes
  BY InitTimeInv DEF Init, PushOrder, PushTimes
<1>2. TimeInv /\ PushOrder /\ PushTimes /\ [Next]_vars
        => (TimeInv /\ PushOrder /\ PushTimes)'
  BY NextTimeInv, NextPushOrder, NextPushTimes DEF TimeInv
<1>3. TimeInv /\ PushOrder /\ PushTimes => ReadyItemIsFound
  <2> SUFFICES ASSUME TimeInv, PushOrder, PushTimes,
                      NEW i \in DOMAIN buffer, NEW j \in DOMAIN buffer,
                      j < i, Ready(buffer[i]),
                      ~(pushed[buffer[j].data].latency
                          > pushed[buffer[i].data].latency)
               PROVE  Ready(buffer[j])
    BY DEF ReadyItemIsFound
  <2>1. /\ buffer[i].data \in 1 .. Len(pushed)
        /\ buffer[j].data \in 1 .. Len(pushed)
    <3>1. buffer[i] \in Item /\ buffer[j] \in Item
      BY DEF TimeInv, TypeOK
    <3> QED
      BY <3>1 DEF Item
  <2>2. /\ now \in Nat
        /\ \A k \in 1 .. Len(pushed) :
             pushed[k].at \in Nat /\ pushed[k].latency \in Nat
        /\ DOMAIN pushed = 1 .. Len(pushed)
    BY PushedTypes DEF TimeInv
  <2>3. buffer[j].data < buffer[i].data
    BY DEF PushOrder
  <2>4. pushed[buffer[j].data].at <= pushed[buffer[i].data].at
    BY <2>1, <2>2, <2>3 DEF PushTimes
  <2>5. /\ buffer[i].releaseTime
             = pushed[buffer[i].data].at + pushed[buffer[i].data].latency
        /\ buffer[j].releaseTime
             = pushed[buffer[j].data].at + pushed[buffer[j].data].latency
    BY DEF TimeInv, ReleaseAsPushed
  <2> QED
    BY SMTT(40), <2>1, <2>2, <2>4, <2>5 DEF Ready
<1> QED
  BY <1>1, <1>2, <1>3, PTL DEF Spec

-----------------------------------------------------------------------------
(* Conservation.                                                           *)

LEMMA NextNothingLost ==
  TypeOK /\ PushOrder /\ NothingLost /\ [Next]_vars => NothingLost'
<1> SUFFICES ASSUME TypeOK, PushOrder, NothingLost, [Next]_vars
             PROVE  NothingLost'
  OBVIOUS
<1>1. /\ Len(buffer) \in Nat /\ DOMAIN buffer = 1 .. Len(buffer)
      /\ Len(out) \in Nat /\ DOMAIN out = 1 .. Len(out)
      /\ Len(pushed) \in Nat
      /\ cleared \subseteq 1 .. Len(pushed)
  BY DEF TypeOK
<1>2. CASE Push
  <2>1. /\ out' = out /\ cleared' = cleared
        /\ Len(pushed') = Len(pushed) + 1
        /\ DOMAIN buffer' = 1 .. Len(buffer) + 1
        /\ \A i \in DOMAIN buffer : buffer'[i] = buffer[i]
        /\ buffer'[Len(buffer) + 1].data = Len(pushed) + 1
    BY <1>1, <1>2 DEF Push, TypeOK
  <2>2. Held' = Held \cup {Len(pushed) + 1}
    BY <1>1, <2>1 DEF Held
  <2>3. Delivered' = Delivered
    BY <2>1 DEF Delivered
  <2>4. 1 .. Len(pushed') = 1 .. Len(pushed) \cup {Len(pushed) + 1}
    BY <1>1, <2>1
  <2>5. Len(pushed) + 1 \notin 1 .. Len(pushed)
    BY <1>1
  <2> QED
    BY <1>1, <2>1, <2>2, <2>3, <2>4, <2>5 DEF NothingLost
<1>3. CASE PopReady
  <2>1. /\ Len(buffer) > 0
        /\ pushed' = pushed /\ cleared' = cleared
        /\ DOMAIN buffer' = 1 .. Len(buffer) - 1
        /\ \A i \in DOMAIN buffer' : buffer'[i] = buffer[i + 1]
    BY <1>1, <1>3 DEF PopReady, TypeOK
  <2>2. /\ DOMAIN out' = 1 .. Len(out) + 1
        /\ \A k \in DOMAIN out : out'[k] = out[k]
        /\ out'[Len(out) + 1].data = buffer[1].data
    BY <1>1, <1>3 DEF PopReady, TypeOK
  <2>3. Delivered' = Delivered \cup {buffer[1].data}
    BY <1>1, <2>2 DEF Delivered
  <2>4. Held = Held' \cup {buffer[1].data}
    <3>1. Held' \cup {buffer[1].data} \subseteq Held
      BY <1>1, <2>1 DEF Held
    <3>2. ASSUME NEW i \in DOMAIN buffer, i # 1
          PROVE  buffer[i].data \in Held'
      <4>1. i - 1 \in DOMAIN buffer' /\ buffer'[i - 1] = buffer[i]
        BY <1>1, <2>1, <3>2
      <4> QED
        BY <4>1 DEF Held
    <3> QED
      BY <3>1, <3>2 DEF Held
  <2> QED
    BY <2>1, <2>3, <2>4 DEF NothingLost
<1>4. CASE Clear
  <2>1. Held' = {} /\ Delivered' = Delivered /\ pushed' = pushed
    BY <1>4 DEF Clear, Held, Delivered
  <2>2. Held \cap Delivered = {}
    <3> SUFFICES ASSUME NEW i \in DOMAIN buffer, NEW k \in DOMAIN out,
                        buffer[i].data = out[k].data
                 PROVE  FALSE
      BY DEF Held, Delivered
    <3>1. out[k].data \in 1 .. Len(pushed)
      <4>1. out[k] \in Popped
        BY DEF TypeOK
      <4> QED
        BY <4>1 DEF Popped
    <3>2. out[k].data < buffer[i].data
      BY DEF PushOrder
    <3> QED
      BY <1>1, <3>1, <3>2
  <2> QED
    BY <1>4, <2>1, <2>2 DEF Clear, NothingLost
<1>5. CASE SetLatency \/ Tick \/ UNCHANGED vars
  BY <1>5 DEF SetLatency, Tick, vars, NothingLost, Held, Delivered
<1> QED
  BY <1>2, <1>3, <1>4, <1>5 DEF Next

\* Every push is inside, returned or cleared, and what clear() dropped never
\* comes out.
THEOREM Conservation == Spec => []NothingLost
<1>1. Init => TypeOK /\ PushOrder /\ NothingLost
  BY InitTypeOK DEF Init, PushOrder, NothingLost, Held, Delivered
<1>2. TypeOK /\ PushOrder /\ NothingLost /\ [Next]_vars
        => (TypeOK /\ PushOrder /\ NothingLost)'
  BY NextTypeOK, NextPushOrder, NextNothingLost
<1> QED
  BY <1>1, <1>2, PTL DEF Spec

-----------------------------------------------------------------------------
(* Refinement: without its clock the buffer is a delay line.               *)

\* The items of a sequence of records, as the refinement maps them.
DataOf(s) == [i \in DOMAIN s |-> s[i].data]

LEMMA DataOfIsSeq ==
  ASSUME NEW S, NEW s \in Seq(S)
  PROVE  /\ DataOf(s) \in Seq({e.data : e \in S})
         /\ Len(DataOf(s)) = Len(s)
         /\ DOMAIN DataOf(s) = DOMAIN s
<1>1. Len(s) \in Nat /\ DOMAIN s = 1 .. Len(s) /\ \A i \in 1 .. Len(s) : s[i] \in S
  OBVIOUS
<1>2. DataOf(s) \in [1 .. Len(s) -> {e.data : e \in S}]
  BY <1>1 DEF DataOf
<1>3. DataOf(s) \in Seq({e.data : e \in S})
  BY <1>1, <1>2, SeqDef
<1> QED
  BY <1>1, <1>2, <1>3

LEMMA DataOfAppend ==
  ASSUME NEW S, NEW s \in Seq(S), NEW e \in S
  PROVE  DataOf(Append(s, e)) = Append(DataOf(s), e.data)
<1> DEFINE D == {x.data : x \in S}
<1>1. DataOf(s) \in Seq(D) /\ Len(DataOf(s)) = Len(s)
  BY DataOfIsSeq
<1>2. e.data \in D
  OBVIOUS
<1>3. Append(s, e) \in Seq(S) /\ Len(Append(s, e)) = Len(s) + 1
  BY AppendProperties
<1>4. /\ DataOf(Append(s, e)) \in Seq(D)
      /\ Len(DataOf(Append(s, e))) = Len(s) + 1
  BY <1>3, DataOfIsSeq
<1>5. /\ Append(DataOf(s), e.data) \in Seq(D)
      /\ Len(Append(DataOf(s), e.data)) = Len(s) + 1
  BY <1>1, <1>2, AppendProperties
<1>6. ASSUME NEW i \in 1 .. Len(s) + 1
      PROVE  DataOf(Append(s, e))[i] = Append(DataOf(s), e.data)[i]
  BY <1>1, <1>2, <1>3, LenProperties DEF DataOf
<1> HIDE DEF D
<1> QED
  BY <1>4, <1>5, <1>6, SeqEqual

LEMMA DataOfTail ==
  ASSUME NEW S, NEW s \in Seq(S), s # <<>>
  PROVE  /\ DataOf(s) # <<>>
         /\ Head(DataOf(s)) = Head(s).data
         /\ DataOf(Tail(s)) = Tail(DataOf(s))
<1> DEFINE D == {x.data : x \in S}
<1>1. /\ DataOf(s) \in Seq(D) /\ Len(DataOf(s)) = Len(s)
      /\ Len(s) \in Nat \ {0} /\ DOMAIN s = 1 .. Len(s)
  BY DataOfIsSeq, EmptySeq
<1>2. DataOf(s) # <<>> /\ Head(DataOf(s)) = Head(s).data
  BY <1>1 DEF DataOf
<1>3. Tail(s) \in Seq(S) /\ Len(Tail(s)) = Len(s) - 1
  BY HeadTailProperties
<1>4. DataOf(Tail(s)) \in Seq(D) /\ Len(DataOf(Tail(s))) = Len(s) - 1
  BY <1>3, DataOfIsSeq
<1>5. Tail(DataOf(s)) \in Seq(D) /\ Len(Tail(DataOf(s))) = Len(s) - 1
  BY <1>1, <1>2, HeadTailProperties
<1>6. ASSUME NEW i \in 1 .. Len(s) - 1
      PROVE  DataOf(Tail(s))[i] = Tail(DataOf(s))[i]
  BY <1>1, <1>2, <1>3 DEF DataOf
<1>7. DataOf(Tail(s)) = Tail(DataOf(s))
  <2> HIDE DEF D
  <2> QED
    BY <1>4, <1>5, <1>6, SeqEqual
<1> QED
  BY <1>2, <1>7

LEMMA InitRefines == Init => DL!Init
BY DEF Init, DL!Init

\* push is Enter, popReady is Leave, clear is Discard; the clock and
\* setLatency are stuttering steps.
LEMMA NextRefines == TypeOK /\ [Next]_vars => [DL!Next]_DL!lineVars
<1> SUFFICES ASSUME TypeOK, [Next]_vars PROVE [DL!Next]_DL!lineVars
  OBVIOUS
<1>1. buffer \in Seq(Item) /\ out \in Seq(Popped) /\ Len(pushed) \in Nat
  BY DEF TypeOK
<1>2. CASE Push
  <2> DEFINE d == Len(pushed) + 1
             item == [data |-> d, releaseTime |-> now + latency]
             Any == Item \cup {item}
  <2>1. d \in 1 .. MaxPush
    BY <1>1, <1>2, LatencyAssumption DEF Push
  <2>2. buffer \in Seq(Any) /\ item \in Any
    BY <1>1, SeqMonotonic
  <2>3. DataOf(buffer') = Append(DataOf(buffer), d)
    <3> HIDE DEF Any
    <3>1. DataOf(Append(buffer, item)) = Append(DataOf(buffer), item.data)
      BY <2>2, DataOfAppend
    <3> QED
      BY <1>2, <3>1 DEF Push
  <2>4. \E e \in 1 .. MaxPush :
          /\ DataOf(buffer') = Append(DataOf(buffer), e)
          /\ DataOf(out') = DataOf(out)
    BY <1>2, <2>1, <2>3 DEF Push
  <2> QED
    BY <2>4 DEF DL!Next, DL!Enter, DataOf
<1>3. CASE PopReady
  <2>1. /\ DataOf(buffer) # <<>>
        /\ Head(DataOf(buffer)) = Head(buffer).data
        /\ DataOf(buffer') = Tail(DataOf(buffer))
    BY <1>1, <1>3, DataOfTail DEF PopReady
  <2> DEFINE item == [data |-> Head(buffer).data, at |-> now]
             Any == Popped \cup {item}
  <2>2. out \in Seq(Any) /\ item \in Any
    BY <1>1, SeqMonotonic
  <2>3. DataOf(out') = Append(DataOf(out), Head(buffer).data)
    <3> HIDE DEF Any
    <3>1. DataOf(Append(out, item)) = Append(DataOf(out), item.data)
      BY <2>2, DataOfAppend
    <3> QED
      BY <1>3, <3>1 DEF PopReady
  <2>4. DL!Leave
    BY <2>1, <2>3 DEF DL!Leave, DataOf
  <2> QED
    BY <2>4 DEF DL!Next
<1>4. CASE Clear
  BY <1>4 DEF Clear, DL!Next, DL!Discard
<1>5. CASE SetLatency \/ Tick \/ UNCHANGED vars
  BY <1>5 DEF SetLatency, Tick, vars, DL!lineVars
<1> QED
  BY <1>2, <1>3, <1>4, <1>5 DEF Next

\* The latency buffer implements the delay line the other modules assume.
THEOREM Refinement == Spec => IsDelayLine
<1>1. Init => DL!Init
  BY InitRefines
<1>2. TypeOK /\ [Next]_vars => [DL!Next]_DL!lineVars
  BY NextRefines
<1> QED
  BY <1>1, <1>2, TypeCorrect, PTL DEF Spec, IsDelayLine, DL!Spec

=============================================================================
