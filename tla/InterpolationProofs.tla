------------------------- MODULE InterpolationProofs -------------------------
(***************************************************************************)
(* Interpolation for every delay, frame cap and buffer that is long enough *)
(* for the two, and for any number of players: the buffers reach back as   *)
(* far as the delay, what is drawn is as recent as the delay allows, and   *)
(* nobody the delay has reached moves back.                                *)
(***************************************************************************)
EXTENDS Interpolation, SharedProofs

-----------------------------------------------------------------------------
(* One player's buffer.  first is when its first snapshot came, t the time *)
(* now, work the ticks the loop may still run before time passes.          *)

Consecutive(s) ==
  \A i \in 1 .. Len(s) : s[i].tick = s[1].tick + (i - 1)

InTime(s) ==
  \A i, j \in 1 .. Len(s) : i <= j => s[i].timestamp <= s[j].timestamp

\* The oldest is the first that came or older than the delay.
ReachesBack(s, first, t) ==
  /\ first \in Nat /\ first <= s[1].timestamp
  /\ s[1].timestamp = first \/ s[1].timestamp <= t - INTERPOLATION_DELAY

IsBuffer(s, first, t) ==
  /\ s \in Seq(Snapshot)
  /\ Len(s) \in 1 .. BUFFER_CAP
  /\ Consecutive(s) /\ InTime(s)
  /\ \A i \in 1 .. Len(s) : s[i].timestamp <= t
  /\ ReachesBack(s, first, t)

\* No more snapshots since the i-th than ticks to take them in.
Paced(s, t, work) ==
  \A i \in 1 .. Len(s) :
    Len(s) - i + 1 + work <= t - s[i].timestamp + 2 * FRAME_CAP

LEMMA Constants ==
  /\ INTERPOLATION_DELAY \in Nat /\ FRAME_CAP \in Nat /\ FRAME_CAP >= 1
  /\ BUFFER_CAP \in Nat /\ BUFFER_CAP >= 2 * FRAME_CAP + INTERPOLATION_DELAY
  /\ BUFFER_CAP >= 2
BY InterpolationAssumption

LEMMA SnapshotFields ==
  ASSUME NEW s \in Seq(Snapshot)
  PROVE  /\ Len(s) \in Nat
         /\ \A i \in 1 .. Len(s) :
              s[i] \in Snapshot /\ s[i].timestamp \in Nat /\ s[i].tick \in Nat
              /\ s[i].tick >= 1
<1>1. \A e \in Snapshot : e.timestamp \in Nat /\ e.tick \in Nat /\ e.tick >= 1
  BY DEF Snapshot
<1>2. \A i \in 1 .. Len(s) : s[i] \in Snapshot
  BY ElementOfSeq
<1> QED
  BY <1>1, <1>2

\* A snapshot is added at the end, and at most one drops out at the front.
Grows(s, new, e, k) ==
  /\ k \in {0, 1} /\ (k = 1 => Len(s) = BUFFER_CAP)
  /\ new \in Seq(Snapshot)
  /\ Len(new) = Len(s) + 1 - k /\ Len(new) \in 1 .. BUFFER_CAP
  /\ \A i \in 1 .. Len(new) - 1 : new[i] = s[i + k]
  /\ new[Len(new)] = e

LEMMA AddGrows ==
  ASSUME NEW s \in Seq(Snapshot), Len(s) <= BUFFER_CAP, NEW e \in Snapshot
  PROVE  \E k \in {0, 1} : Grows(s, Trimmed(Append(s, e)), e, k)
<1> DEFINE longer == Append(s, e)
           new == Trimmed(longer)
<1>1. /\ longer \in Seq(Snapshot) /\ Len(longer) = Len(s) + 1
      /\ \A i \in 1 .. Len(s) : longer[i] = s[i]
      /\ longer[Len(s) + 1] = e /\ Len(s) \in Nat
  BY AppendProperties
<1> HIDE DEF longer
<1>2. CASE Len(longer) > BUFFER_CAP
  <2>1. Len(s) = BUFFER_CAP /\ longer # <<>>
    BY <1>1, <1>2, Constants
  <2>2. new = Tail(longer)
    BY <1>2 DEF Trimmed
  <2>3. /\ new \in Seq(Snapshot) /\ Len(new) = Len(longer) - 1
        /\ \A i \in 1 .. Len(longer) - 1 : new[i] = longer[i + 1]
    BY <1>1, <2>1, <2>2, HeadTailProperties
  <2> HIDE DEF new
  <2>4. Len(new) = Len(s) + 1 - 1 /\ Len(new) \in 1 .. BUFFER_CAP
    BY <1>1, <2>1, <2>3, Constants
  <2>5. ASSUME NEW i \in 1 .. Len(new) - 1 PROVE new[i] = s[i + 1]
    <3>1. i \in 1 .. Len(longer) - 1 /\ i + 1 \in 1 .. Len(s)
      BY <1>1, <2>3
    <3> QED
      BY <1>1, <2>3, <3>1
  <2>6. new[Len(new)] = e
    <3>1. Len(new) \in 1 .. Len(longer) - 1 /\ Len(new) + 1 = Len(s) + 1
      BY <1>1, <2>3, <2>4
    <3> QED
      BY <1>1, <2>3, <3>1
  <2>7. Grows(s, new, e, 1)
    BY <2>1, <2>3, <2>4, <2>5, <2>6 DEF Grows
  <2> QED
    BY <2>7 DEF new, longer
<1>3. CASE ~ (Len(longer) > BUFFER_CAP)
  <2>1. new = longer
    BY <1>3 DEF Trimmed
  <2>2. Grows(s, new, e, 0)
    <3>1. Len(new) = Len(s) + 1 - 0 /\ Len(new) \in 1 .. BUFFER_CAP
      BY <1>1, <1>3, <2>1, Constants
    <3>2. ASSUME NEW i \in 1 .. Len(new) - 1 PROVE new[i] = s[i + 0]
      BY <1>1, <2>1
    <3>3. new[Len(new)] = e
      BY <1>1, <2>1
    <3> QED
      BY <1>1, <2>1, <3>1, <3>2, <3>3 DEF Grows
  <2> QED
    BY <2>2 DEF longer
<1> QED
  BY <1>2, <1>3

\* A world state of now, the next in number, keeps a buffer a buffer.  The
\* one that drops out is not missed: that many snapshots take longer than
\* the delay to come.
LEMMA BufferGrows ==
  ASSUME NEW s, NEW new, NEW k, NEW t \in Nat, NEW e \in Snapshot, NEW first,
         IsBuffer(s, first, t), Grows(s, new, e, k),
         e.timestamp = t, e.tick = s[Len(s)].tick + 1,
         NEW work \in Nat, work >= 1,
         work <= 2 * FRAME_CAP, Paced(s, t, work)
  PROVE  IsBuffer(new, first, t) /\ Paced(new, t, work - 1)
<1>1. /\ s \in Seq(Snapshot) /\ Len(s) \in 1 .. BUFFER_CAP
      /\ \A i \in 1 .. Len(s) : s[i].tick = s[1].tick + (i - 1)
      /\ \A i, j \in 1 .. Len(s) : i <= j => s[i].timestamp <= s[j].timestamp
      /\ \A i \in 1 .. Len(s) : s[i].timestamp <= t
      /\ first \in Nat /\ first <= s[1].timestamp
      /\ s[1].timestamp = first \/ s[1].timestamp <= t - INTERPOLATION_DELAY
  BY DEF IsBuffer, Consecutive, InTime, ReachesBack
<1>2. /\ Len(s) \in Nat
      /\ \A i \in 1 .. Len(s) : s[i].timestamp \in Nat /\ s[i].tick \in Nat
  BY <1>1, SnapshotFields
<1>3. /\ k \in {0, 1} /\ (k = 1 => Len(s) = BUFFER_CAP)
      /\ new \in Seq(Snapshot)
      /\ Len(new) = Len(s) + 1 - k /\ Len(new) \in 1 .. BUFFER_CAP
      /\ \A i \in 1 .. Len(new) - 1 : new[i] = s[i + k]
      /\ new[Len(new)] = e
  BY DEF Grows
<1>4. /\ k \in Nat /\ Len(new) \in Nat /\ BUFFER_CAP \in Nat
      /\ BUFFER_CAP >= 2 /\ FRAME_CAP \in Nat /\ INTERPOLATION_DELAY \in Nat
      /\ BUFFER_CAP >= 2 * FRAME_CAP + INTERPOLATION_DELAY
  BY <1>1, <1>2, <1>3, Constants
<1>5. \A i \in 1 .. Len(new) - 1 : i + k \in 1 .. Len(s)
  BY <1>2, <1>3, <1>4
<1>6. Len(new) - 1 >= 1
  BY <1>1, <1>2, <1>3, <1>4
<1>7. 1 \in 1 .. Len(new) - 1 /\ new[1] = s[1 + k] /\ 1 + k \in 1 .. Len(s)
      /\ 1 \in 1 .. Len(s) /\ Len(s) \in 1 .. Len(s)
  BY <1>1, <1>2, <1>3, <1>4, <1>5, <1>6
<1>8. Consecutive(new)
  <2> SUFFICES ASSUME NEW i \in 1 .. Len(new)
               PROVE  new[i].tick = new[1].tick + (i - 1)
    BY DEF Consecutive
  <2>1. new[1].tick = s[1].tick + k
    <3>1. s[1 + k].tick = s[1].tick + (1 + k - 1)
      BY <1>1, <1>2, <1>4, <1>7
    <3>2. 1 + k - 1 = k
      BY <1>4
    <3> QED
      BY <1>7, <3>1, <3>2
  <2>2. CASE i = Len(new)
    <3>1. s[Len(s)].tick = s[1].tick + (Len(s) - 1)
      BY <1>1, <1>7
    <3>2. new[i].tick = s[1].tick + (Len(s) - 1) + 1
      BY <1>3, <2>2, <3>1
    <3>3. s[1].tick \in Nat /\ i - 1 = Len(s) - k
      BY <1>2, <1>3, <1>4, <1>7, <2>2
    <3>4. s[1].tick \in Nat /\ Len(s) \in Nat /\ k \in Nat
      BY <1>2, <1>4, <3>3
    <3>5. s[1].tick + (Len(s) - 1) + 1 = s[1].tick + k + (Len(s) - k)
      <4> DEFINE a == s[1].tick
                 b == Len(s)
      <4>1. a \in Nat /\ b \in Nat
        BY <3>4
      <4> HIDE DEF a, b
      <4>2. a + (b - 1) + 1 = a + k + (b - k)
        BY <4>1, <3>4
      <4> QED
        BY <4>2 DEF a, b
    <3> QED
      BY <2>1, <3>2, <3>3, <3>5
  <2>3. CASE i # Len(new)
    <3>1. i \in 1 .. Len(new) - 1
      BY <1>4, <2>3
    <3>2. i + k \in 1 .. Len(s) /\ new[i] = s[i + k]
      BY <1>3, <1>5, <3>1
    <3>3. new[i].tick = s[1].tick + (i + k - 1)
      <4>1. s[i + k].tick = s[1].tick + ((i + k) - 1)
        BY <1>1, <3>2
      <4>2. (i + k) - 1 = i + k - 1
        BY <1>4, <3>1
      <4> QED
        BY <3>2, <4>1, <4>2
    <3>4. s[1].tick + (i + k - 1) = s[1].tick + k + (i - 1)
      <4> DEFINE a == s[1].tick
      <4>1. a \in Nat /\ i \in Nat /\ k \in Nat
        BY <1>2, <1>4, <1>7
      <4> HIDE DEF a
      <4>2. a + (i + k - 1) = a + k + (i - 1)
        BY <4>1
      <4> QED
        BY <4>2 DEF a
    <3> QED
      BY <2>1, <3>3, <3>4
  <2> QED
    BY <2>2, <2>3
<1>9. \A i \in 1 .. Len(new) : new[i].timestamp <= t
  <2> SUFFICES ASSUME NEW i \in 1 .. Len(new) PROVE new[i].timestamp <= t
    OBVIOUS
  <2>1. CASE i = Len(new)
    BY <1>3, <2>1
  <2>2. CASE i # Len(new)
    <3>1. i \in 1 .. Len(new) - 1
      BY <1>4, <2>2
    <3> QED
      BY <1>1, <1>3, <1>5, <3>1
  <2> QED
    BY <2>1, <2>2
<1>10. InTime(new)
  <2> SUFFICES ASSUME NEW i \in 1 .. Len(new), NEW j \in 1 .. Len(new), i <= j
               PROVE  new[i].timestamp <= new[j].timestamp
    BY DEF InTime
  <2>1. CASE j = Len(new)
    BY <1>3, <1>9, <2>1
  <2>2. CASE j # Len(new)
    <3>1. i \in 1 .. Len(new) - 1 /\ j \in 1 .. Len(new) - 1
      BY <1>4, <2>2
    <3>2. /\ i + k \in 1 .. Len(s) /\ j + k \in 1 .. Len(s) /\ i + k <= j + k
          /\ new[i] = s[i + k] /\ new[j] = s[j + k]
      BY SMTT(40), <1>3, <1>4, <1>5, <3>1
    <3> QED
      BY <1>1, <3>2
  <2> QED
    BY <2>1, <2>2
<1>11. Paced(new, t, work - 1)
  <2> SUFFICES ASSUME NEW i \in 1 .. Len(new)
               PROVE  Len(new) - i + 1 + (work - 1)
                        <= t - new[i].timestamp + 2 * FRAME_CAP
    BY DEF Paced
  <2>1. CASE i = Len(new)
    <3>1. new[i].timestamp = t
      BY <1>3, <2>1
    <3> QED
      BY <1>4, <2>1, <3>1
  <2>2. CASE i # Len(new)
    <3>1. i \in 1 .. Len(new) - 1
      BY <1>4, <2>2
    <3>2. i + k \in 1 .. Len(s) /\ new[i] = s[i + k]
      BY <1>3, <1>5, <3>1
    <3>3. Len(s) - (i + k) + 1 + work
            <= t - s[i + k].timestamp + 2 * FRAME_CAP
      BY <3>2 DEF Paced
    <3> QED
      BY <1>2, <1>3, <1>4, <3>1, <3>2, <3>3
  <2> QED
    BY <2>1, <2>2
<1>12. ReachesBack(new, first, t)
  <2>1. first <= new[1].timestamp
    <3>1. s[1].timestamp <= s[1 + k].timestamp
      BY <1>1, <1>4, <1>7
    <3> QED
      BY SMTT(40), <1>1, <1>2, <1>7, <3>1
  <2>2. CASE k = 0
    <3>1. new[1] = s[1]
      BY <1>7, <2>2
    <3> QED
      BY <1>1, <2>1, <3>1 DEF ReachesBack
  <2>3. CASE k = 1
    <3>1. Len(new) = BUFFER_CAP
      BY <1>3, <1>4, <2>3
    <3>2. Len(new) - 1 + 1 + (work - 1) <= t - new[1].timestamp + 2 * FRAME_CAP
      <4>1. 1 \in 1 .. Len(new)
        BY <1>4, <1>6
      <4> QED
        BY <1>11, <4>1 DEF Paced
    <3>3. new[1].timestamp \in Nat
      BY <1>2, <1>7
    <3>4. new[1].timestamp <= t - INTERPOLATION_DELAY
      BY SMTT(40), <1>4, <3>1, <3>2, <3>3
    <3> QED
      BY <1>1, <2>1, <3>4 DEF ReachesBack
  <2> QED
    BY <1>3, <2>2, <2>3
<1> QED
  BY <1>3, <1>8, <1>9, <1>10, <1>11, <1>12 DEF IsBuffer

\* A player's first snapshot.
LEMMA BufferBegins ==
  ASSUME NEW t \in Nat, NEW e \in Snapshot, e.timestamp = t,
         NEW work \in Nat, work >= 1, work <= 2 * FRAME_CAP
  PROVE  /\ Trimmed(Append(<<>>, e)) = <<e>>
         /\ IsBuffer(<<e>>, t, t) /\ Paced(<<e>>, t, work - 1)
<1>1. <<e>> \in Seq(Snapshot) /\ Len(<<e>>) = 1 /\ <<e>>[1] = e
      /\ Append(<<>>, e) = <<e>>
  OBVIOUS
<1>2. Trimmed(Append(<<>>, e)) = <<e>>
  BY <1>1, Constants DEF Trimmed
<1> DEFINE new == <<e>>
<1> HIDE DEF new
<1>3. new \in Seq(Snapshot) /\ Len(new) = 1 /\ new[1] = e
  BY <1>1 DEF new
<1>4. e.tick \in Nat
  BY DEF Snapshot
<1>5. IsBuffer(new, t, t)
  <2>1. 1 \in 1 .. BUFFER_CAP
    BY Constants
  <2>2. Consecutive(new) /\ InTime(new) /\ ReachesBack(new, t, t)
    BY <1>3, <1>4 DEF Consecutive, InTime, ReachesBack
  <2>3. \A i \in 1 .. Len(new) : new[i].timestamp <= t
    BY <1>3
  <2> QED
    BY <1>3, <2>1, <2>2, <2>3 DEF IsBuffer
<1>6. Paced(new, t, work - 1)
  BY <1>3, Constants DEF Paced
<1> QED
  BY <1>2, <1>5, <1>6 DEF new

\* Time passes over a buffer.
LEMMA BufferAges ==
  ASSUME NEW s, NEW first, NEW t \in Nat, NEW work \in Int, NEW later \in Int,
         IsBuffer(s, first, t), Paced(s, t, work), later <= work + 1
  PROVE  IsBuffer(s, first, t + 1) /\ Paced(s, t + 1, later)
<1>1. /\ s \in Seq(Snapshot) /\ Len(s) \in Nat /\ 1 \in 1 .. Len(s)
      /\ \A i \in 1 .. Len(s) : s[i].timestamp \in Nat
      /\ \A i \in 1 .. Len(s) : s[i].timestamp <= t
  BY SnapshotFields DEF IsBuffer
<1>2. \A i \in 1 .. Len(s) : s[i].timestamp <= t + 1
  BY <1>1
<1>3. ReachesBack(s, first, t + 1)
  <2>1. ReachesBack(s, first, t)
    BY DEF IsBuffer
  <2> QED
    BY <1>1, <2>1, Constants DEF ReachesBack
<1>4. Paced(s, t + 1, later)
  <2> SUFFICES ASSUME NEW i \in 1 .. Len(s)
               PROVE  Len(s) - i + 1 + later
                        <= (t + 1) - s[i].timestamp + 2 * FRAME_CAP
    BY Zenon DEF Paced
  <2>1. Len(s) - i + 1 + work <= t - s[i].timestamp + 2 * FRAME_CAP
    BY Zenon DEF Paced
  <2>2. s[i].timestamp \in Nat /\ FRAME_CAP \in Nat
    BY <1>1, Constants
  <2> QED
    BY SMTT(40), <1>1, <2>1, <2>2
<1> QED
  BY <1>2, <1>3, <1>4 DEF IsBuffer

\* A tick that had no world state is lost to the pace.
LEMMA PaceSlows ==
  ASSUME NEW s \in Seq(Snapshot), NEW t \in Nat,
         NEW work \in Int, NEW less \in Int, Paced(s, t, work), less <= work
  PROVE  Paced(s, t, less)
<1> SUFFICES ASSUME NEW i \in 1 .. Len(s)
             PROVE  Len(s) - i + 1 + less
                      <= t - s[i].timestamp + 2 * FRAME_CAP
  BY DEF Paced
<1>1. Len(s) - i + 1 + work <= t - s[i].timestamp + 2 * FRAME_CAP
  BY DEF Paced
<1>2. Len(s) \in Nat /\ s[i].timestamp \in Nat
  BY SnapshotFields
<1> QED
  BY <1>1, <1>2, Constants

-----------------------------------------------------------------------------
(* Fractions.                                                              *)

LEMMA TimesMonotone ==
  ASSUME NEW a \in Int, NEW b \in Int, NEW c \in Nat, a <= b
  PROVE  a * c <= b * c
OBVIOUS

\* A fraction of the way from a to a + 1 is between them.
LEMMA OnTheWay ==
  ASSUME NEW a \in Nat, NEW d \in Nat, NEW f \in 0 .. d, NEW c \in Nat
  PROVE  /\ a * d + f \in Nat
         /\ c <= a => a * d + f >= c * d
         /\ a + 1 <= c => a * d + f <= c * d
         /\ a <= c /\ f = 0 => a * d + f <= c * d
<1>1. a * d \in Nat /\ c * d \in Nat /\ f \in Nat /\ f <= d
  OBVIOUS
<1>2. (a + 1) * d = a * d + d
  OBVIOUS
<1>3. c <= a => c * d <= a * d
  BY TimesMonotone
<1>4. a <= c => a * d <= c * d
  BY TimesMonotone
<1>5. a + 1 <= c => (a + 1) * d <= c * d
  BY TimesMonotone
<1> QED
  BY <1>1, <1>2, <1>3, <1>4, <1>5

AtMost(position, tick) == position.num <= tick * position.den

\* One fraction is at most a number that another is at least.
LEMMA InBetween ==
  ASSUME NEW n1 \in Nat, NEW d1 \in Nat, NEW n2 \in Nat, NEW d2 \in Nat,
         NEW c \in Nat, n1 <= c * d1, n2 >= c * d2
  PROVE  n2 * d1 >= n1 * d2
<1>1. c * d1 \in Nat /\ c * d2 \in Nat
  OBVIOUS
<1>2. n1 * d2 <= (c * d1) * d2
  BY <1>1, TimesMonotone
<1>3. (c * d2) * d1 <= n2 * d1
  BY <1>1, TimesMonotone
<1>4. (c * d1) * d2 = (c * d2) * d1
  OBVIOUS
<1>5. /\ n1 * d2 \in Nat /\ n2 * d1 \in Nat /\ (c * d1) * d2 \in Nat
  BY <1>1
<1> QED
  BY <1>2, <1>3, <1>4, <1>5

-----------------------------------------------------------------------------
(* What is drawn from a buffer at a time.                                  *)

Pair(s, i, time) ==
  s[i].timestamp <= time /\ s[i + 1].timestamp >= time

\* The newest snapshot, when no two neighbours are around the time.
DrawnLatest(shown, s, time) ==
  /\ \A j \in 1 .. Len(s) - 1 : ~ Pair(s, j, time)
  /\ shown.position.num = s[Len(s)].tick /\ shown.position.den = 1
  /\ shown.score = s[Len(s)].tick

\* On the way from the i-th to the next, the first two around the time.
DrawnBetween(shown, s, time, i) ==
  /\ Pair(s, i, time) /\ \A j \in 1 .. i - 1 : ~ Pair(s, j, time)
  /\ shown.score = s[i + 1].tick
  /\ LET diff == s[i + 1].timestamp - s[i].timestamp
     IN  IF diff > 0
           THEN /\ shown.position.den = diff
                /\ shown.position.num
                     = s[i].tick * diff + (time - s[i].timestamp)
           ELSE shown.position.den = 1 /\ shown.position.num = s[i].tick

IsDrawn(shown, s, time) ==
  /\ shown \in Shown /\ shown.time = time
  /\ \/ DrawnLatest(shown, s, time)
     \/ \E i \in 1 .. Len(s) - 1 : DrawnBetween(shown, s, time, i)

LEMMA ShownFields ==
  ASSUME NEW shown \in Shown
  PROVE  /\ shown.position.num \in Nat /\ shown.position.den \in Nat
         /\ shown.position.den >= 1
         /\ shown.score \in Nat /\ shown.time \in Int
BY DEF Shown

LEMMA ShownIntro ==
  ASSUME NEW n \in Nat, NEW d \in Nat, d >= 1, NEW score \in Nat, score >= 1,
         NEW time \in Int
  PROVE  [position |-> [num |-> n, den |-> d], score |-> score,
          time |-> time] \in Shown
BY DEF Shown

\* What a buffer says of two of its snapshots.
LEMMA BufferOrder ==
  ASSUME NEW s, NEW first, NEW t \in Nat, IsBuffer(s, first, t)
  PROVE  /\ s \in Seq(Snapshot) /\ Len(s) \in Nat /\ Len(s) >= 1
         /\ 1 \in 1 .. Len(s) /\ Len(s) \in 1 .. Len(s)
         /\ \A i \in 1 .. Len(s) :
              /\ s[i].timestamp \in Nat /\ s[i].timestamp <= t
              /\ s[i].tick \in Nat /\ s[i].tick >= 1
         /\ \A i, j \in 1 .. Len(s) : i <= j =>
              s[i].timestamp <= s[j].timestamp /\ s[i].tick <= s[j].tick
         /\ \A i, j \in 1 .. Len(s) : i < j => s[i].tick + 1 <= s[j].tick
         /\ \A i \in 1 .. Len(s) - 1 : s[i + 1].tick = s[i].tick + 1
<1>1. /\ s \in Seq(Snapshot) /\ Len(s) \in Nat /\ Len(s) >= 1
      /\ 1 \in 1 .. Len(s) /\ Len(s) \in 1 .. Len(s)
  BY Constants DEF IsBuffer
<1>2. \A i \in 1 .. Len(s) :
        /\ s[i].timestamp \in Nat /\ s[i].timestamp <= t
        /\ s[i].tick \in Nat /\ s[i].tick >= 1
  BY <1>1, SnapshotFields DEF IsBuffer
<1>3. \A i \in 1 .. Len(s) : s[i].tick = s[1].tick + (i - 1)
  BY DEF IsBuffer, Consecutive
<1> DEFINE a == s[1].tick
<1>4. a \in Nat
  BY <1>1, <1>2
<1>5. \A i \in 1 .. Len(s) : s[i].tick = a + (i - 1)
  BY <1>3
<1> HIDE DEF a
<1>6. \A i, j \in 1 .. Len(s) : i <= j => s[i].tick <= s[j].tick
  BY <1>1, <1>4, <1>5
<1>7. \A i, j \in 1 .. Len(s) : i < j => s[i].tick + 1 <= s[j].tick
  BY <1>1, <1>4, <1>5
<1>8. ASSUME NEW i \in 1 .. Len(s) - 1
      PROVE  s[i + 1].tick = s[i].tick + 1
  <2>1. i \in 1 .. Len(s) /\ i + 1 \in 1 .. Len(s)
    BY <1>1
  <2>2. s[i].tick = a + (i - 1) /\ s[i + 1].tick = a + ((i + 1) - 1)
    BY <1>5, <2>1
  <2> QED
    BY <1>4, <2>1, <2>2
<1>9. \A i, j \in 1 .. Len(s) : i <= j => s[i].timestamp <= s[j].timestamp
  BY DEF IsBuffer, InTime
<1> QED
  BY <1>1, <1>2, <1>6, <1>7, <1>8, <1>9

LEMMA InterpolatedIsDrawn ==
  ASSUME NEW s, NEW first, now \in Nat, IsBuffer(s, first, now)
  PROVE  IsDrawn(InterpolatedState(s), s, now - INTERPOLATION_DELAY)
<1> DEFINE time == now - INTERPOLATION_DELAY
           pairs == Surrounding(s, time)
           shown == InterpolatedState(s)
<1>1. /\ Len(s) \in Nat /\ Len(s) >= 1 /\ Len(s) \in 1 .. Len(s)
      /\ \A i \in 1 .. Len(s) :
           /\ s[i].timestamp \in Nat /\ s[i].tick \in Nat /\ s[i].tick >= 1
      /\ \A i \in 1 .. Len(s) - 1 : s[i + 1].tick = s[i].tick + 1
  BY BufferOrder
<1>2. time \in Int
  BY Constants
<1>3. pairs = {i \in 1 .. Len(s) - 1 : Pair(s, i, time)}
  BY DEF Surrounding, Pair
<1>4. CASE pairs = {}
  <2> DEFINE n == s[Len(s)].tick
  <2>1. n \in Nat /\ n >= 1
    BY <1>1
  <2>2. shown = [position |-> Lerp(n, n, <<0, 1>>), score |-> n, time |-> time]
    BY <1>4 DEF InterpolatedState, OutsideRange
  <2>3. Lerp(n, n, <<0, 1>>) = [num |-> n * 1 + (n - n) * 0, den |-> 1]
    BY DEF Lerp
  <2>4. n * 1 + (n - n) * 0 = n
    BY <2>1
  <2> HIDE DEF n, shown
  <2>5. shown = [position |-> [num |-> n, den |-> 1], score |-> n,
                 time |-> time]
    BY <2>2, <2>3, <2>4
  <2>6. shown \in Shown
    BY <1>2, <2>1, <2>5, ShownIntro
  <2>7. \A j \in 1 .. Len(s) - 1 : ~ Pair(s, j, time)
    BY <1>3, <1>4
  <2>8. DrawnLatest(shown, s, time)
    BY <2>5, <2>7 DEF DrawnLatest, n
  <2> QED
    BY <2>5, <2>6, <2>8 DEF IsDrawn, shown
<1>5. CASE pairs # {}
  <2> DEFINE i == CHOOSE i \in pairs : \A j \in pairs : i <= j
             a == s[i].tick
             b == s[i + 1].tick
             diff == s[i + 1].timestamp - s[i].timestamp
             f == Fraction(s[i], s[i + 1], time)
  <2>1. pairs \subseteq Nat
    BY <1>1, <1>3
  <2>2. i \in pairs /\ \A j \in pairs : i <= j
    BY <1>5, <2>1, Least
  <2>3. shown = [position |-> Lerp(a, b, f), score |-> b, time |-> time]
    BY <1>5 DEF InterpolatedState
  <2> HIDE DEF i, shown
  <2>4. /\ i \in 1 .. Len(s) - 1 /\ i \in 1 .. Len(s) /\ i + 1 \in 1 .. Len(s)
        /\ Pair(s, i, time)
    BY <1>1, <1>3, <2>2
  <2>5. \A j \in 1 .. i - 1 : ~ Pair(s, j, time)
    <3> SUFFICES ASSUME NEW j \in 1 .. i - 1, Pair(s, j, time) PROVE FALSE
      OBVIOUS
    <3>1. j \in 1 .. Len(s) - 1
      BY <1>1, <2>4
    <3>2. j \in pairs
      BY <1>3, <3>1
    <3> HIDE DEF pairs
    <3>3. i <= j
      BY <2>2, <3>2
    <3> QED
      BY <2>4, <3>3
  <2>6. a \in Nat /\ a >= 1 /\ b = a + 1 /\ diff \in Int
        /\ s[i].timestamp \in Nat
    BY <1>1, <2>4
  <2>7. CASE diff > 0
    <3> DEFINE g == time - s[i].timestamp
    <3>1. f = <<g, diff>>
      BY <2>7 DEF Fraction
    <3>2. g \in 0 .. diff
      BY <1>1, <1>2, <2>4, <2>6 DEF Pair
    <3>3. Lerp(a, b, f) = [num |-> a * diff + (b - a) * g, den |-> diff]
      BY <3>1 DEF Lerp
    <3> HIDE DEF g, a, b, diff, f
    <3>4. a * diff + (b - a) * g = a * diff + g
      BY <2>6, <3>2
    <3>5. a * diff + g \in Nat /\ diff \in Nat /\ diff >= 1
      BY <2>6, <2>7, <3>2, OnTheWay
    <3>6. shown = [position |-> [num |-> a * diff + g, den |-> diff],
                   score |-> b, time |-> time]
      BY <2>3, <3>3, <3>4
    <3>7. shown \in Shown
      BY <1>2, <2>6, <3>5, <3>6, ShownIntro
    <3>8. DrawnBetween(shown, s, time, i)
      BY <2>4, <2>5, <2>7, <3>6 DEF DrawnBetween, a, b, diff, g
    <3> QED
      BY <2>4, <3>6, <3>7, <3>8 DEF IsDrawn, shown
  <2>8. CASE ~ (diff > 0)
    <3>1. f = <<0, 1>>
      BY <2>8 DEF Fraction
    <3>2. Lerp(a, b, f) = [num |-> a * 1 + (b - a) * 0, den |-> 1]
      BY <3>1 DEF Lerp
    <3> HIDE DEF a, b, f, diff
    <3>3. a * 1 + (b - a) * 0 = a
      BY <2>6
    <3>4. shown = [position |-> [num |-> a, den |-> 1], score |-> b,
                   time |-> time]
      BY <2>3, <3>2, <3>3
    <3>5. shown \in Shown
      BY <1>2, <2>6, <3>4, ShownIntro
    <3>6. DrawnBetween(shown, s, time, i)
      BY <2>4, <2>5, <2>8, <3>4 DEF DrawnBetween, a, b, diff
    <3> QED
      BY <2>4, <3>4, <3>5, <3>6 DEF IsDrawn, shown
  <2> QED
    BY <2>7, <2>8
<1> QED
  BY <1>4, <1>5

-----------------------------------------------------------------------------
(* What is shown, against the buffer since.                                *)

\* What was older than the delay then has been passed.
Passed(shown, s) ==
  \A i \in 1 .. Len(s) :
    s[i].timestamp < shown.time =>
      AtLeast(shown.position, s[i].tick) /\ shown.score >= s[i].tick

\* Nothing newer than the newest is shown.
Within(shown, s) ==
  AtMost(shown.position, s[Len(s)].tick) /\ shown.score <= s[Len(s)].tick

\* What is to come is ahead of what is shown: the snapshots, and the rest of
\* the way between two of them.
Ahead(shown, s) ==
  /\ \A i \in 1 .. Len(s) :
       s[i].timestamp >= shown.time => AtMost(shown.position, s[i].tick)
  /\ \A i \in 2 .. Len(s) :
       s[i].timestamp >= shown.time => shown.score <= s[i].tick
  /\ \A i \in 1 .. Len(s) - 1 :
       LET diff == s[i + 1].timestamp - s[i].timestamp
       IN  Pair(s, i, shown.time) /\ diff > 0 =>
             shown.position.num * diff
               <= (s[i].tick * diff + (shown.time - s[i].timestamp))
                    * shown.position.den

IsShown(shown, s, first) ==
  /\ shown \in Shown /\ Len(s) >= 2
  /\ Passed(shown, s) /\ Within(shown, s)
  /\ shown.time >= first => Ahead(shown, s)

\* The bounds of a drawn position by the pair it is drawn between.
LEMMA BetweenBounds ==
  ASSUME NEW s, NEW first, NEW t \in Nat, IsBuffer(s, first, t),
         NEW shown \in Shown, NEW time \in Int,
         NEW i \in 1 .. Len(s) - 1, DrawnBetween(shown, s, time, i),
         NEW c \in Nat
  PROVE  /\ c <= s[i].tick => AtLeast(shown.position, c)
         /\ s[i + 1].tick <= c => AtMost(shown.position, c)
         /\ s[i].tick <= c /\ s[i].timestamp = time => AtMost(shown.position, c)
<1> DEFINE a == s[i].tick
           diff == s[i + 1].timestamp - s[i].timestamp
           f == time - s[i].timestamp
           n == shown.position.num
           d == shown.position.den
<1>1. /\ Len(s) \in Nat
      /\ \A j \in 1 .. Len(s) : s[j].timestamp \in Nat /\ s[j].tick \in Nat
      /\ \A j \in 1 .. Len(s) - 1 : s[j + 1].tick = s[j].tick + 1
  BY BufferOrder
<1>2. i \in 1 .. Len(s) /\ i + 1 \in 1 .. Len(s)
  BY <1>1
<1>3. /\ a \in Nat /\ s[i + 1].tick = a + 1
      /\ s[i].timestamp \in Nat /\ s[i + 1].timestamp \in Nat
  BY <1>1, <1>2
<1>4. f \in 0 .. diff /\ diff \in Nat
  <2>1. s[i].timestamp <= time /\ time <= s[i + 1].timestamp
    <3>1. Pair(s, i, time)
      BY Zenon DEF DrawnBetween
    <3> QED
      BY <1>3, <3>1 DEF Pair
  <2>2. \A x, y, z \in Int : x <= y /\ y <= z =>
          y - x \in 0 .. z - x /\ z - x \in Nat
    OBVIOUS
  <2> QED
    BY SMTT(40), <1>3, <2>1, <2>2
<1>5. /\ diff > 0 => d = diff /\ n = a * diff + f
      /\ ~ (diff > 0) => d = 1 /\ n = a
  BY DEF DrawnBetween
<1>6. s[i].timestamp = time => f = 0
  BY <1>3
<1> HIDE DEF a, f, diff
<1>7. /\ c <= a => n >= c * d
      /\ a + 1 <= c => n <= c * d
      /\ a <= c /\ f = 0 => n <= c * d
  <2>1. CASE diff > 0
    <3>1. d = diff /\ n = a * diff + f
      BY <1>5, <2>1
    <3>2. /\ c <= a => a * diff + f >= c * diff
          /\ a + 1 <= c => a * diff + f <= c * diff
          /\ a <= c /\ f = 0 => a * diff + f <= c * diff
      BY <1>3, <1>4, OnTheWay
    <3> HIDE DEF n, d
    <3> QED
      BY <3>1, <3>2
  <2>2. CASE ~ (diff > 0)
    <3>1. d = 1 /\ n = a /\ c * 1 = c
      BY <1>5, <2>2
    <3> HIDE DEF n, d
    <3> QED
      BY <1>3, <3>1
  <2> QED
    BY <2>1, <2>2
<1> QED
  BY <1>3, <1>6, <1>7 DEF AtLeast, AtMost, a

\* The bounds of the newest, drawn as it is.
LEMMA LatestBounds ==
  ASSUME NEW s, NEW shown, NEW time, DrawnLatest(shown, s, time),
         NEW c \in Nat, s[Len(s)].tick \in Nat
  PROVE  /\ c <= s[Len(s)].tick => AtLeast(shown.position, c)
         /\ s[Len(s)].tick <= c => AtMost(shown.position, c)
<1> DEFINE a == s[Len(s)].tick
<1>1. shown.position.num = a /\ shown.position.den = 1 /\ c * 1 = c
  BY DEF DrawnLatest
<1> HIDE DEF a
<1> QED
  BY <1>1 DEF AtLeast, AtMost, a

\* If the buffer begins before the time and no two neighbours are around it,
\* then it ends before the time too.
LEMMA NoPairIsPast ==
  ASSUME NEW s, NEW first, NEW t \in Nat, IsBuffer(s, first, t),
         NEW time \in Int, Len(s) >= 2, s[1].timestamp <= time,
         \A j \in 1 .. Len(s) - 1 : ~ Pair(s, j, time)
  PROVE  \A i \in 1 .. Len(s) : s[i].timestamp < time
<1> DEFINE Bad == {i \in 1 .. Len(s) : ~ (s[i].timestamp < time)}
<1>1. /\ Len(s) \in Nat
      /\ \A i \in 1 .. Len(s) : s[i].timestamp \in Nat
      /\ \A i, j \in 1 .. Len(s) : i <= j => s[i].timestamp <= s[j].timestamp
  BY BufferOrder
<1>2. SUFFICES ASSUME Bad # {} PROVE FALSE
  OBVIOUS
<1>3. PICK i \in Bad : \A j \in Bad : i <= j
  <2>1. Bad \subseteq Nat
    BY <1>1
  <2> QED
    BY <1>2, <2>1, Least
<1>4. i \in 1 .. Len(s) /\ s[i].timestamp >= time
  BY <1>1
<1>5. CASE i = 1
  <2>1. 1 \in 1 .. Len(s) - 1 /\ 2 \in 1 .. Len(s) /\ 1 \in 1 .. Len(s)
    BY <1>1
  <2>2. s[1].timestamp <= s[2].timestamp
    BY <1>1, <2>1
  <2>3. s[1 + 1].timestamp >= time
    BY <1>1, <1>4, <1>5, <2>1, <2>2
  <2>4. Pair(s, 1, time)
    BY <2>3 DEF Pair
  <2> QED
    BY <2>1, <2>4
<1>6. CASE i # 1
  <2>1. i - 1 \in 1 .. Len(s) - 1 /\ i - 1 \in 1 .. Len(s) /\ (i - 1) + 1 = i
    BY <1>1, <1>4, <1>6
  <2>2. s[i - 1].timestamp < time
    <3>1. i - 1 \notin Bad
      BY <1>3, <2>1
    <3> QED
      BY <2>1, <3>1
  <2>3. Pair(s, i - 1, time)
    BY <1>1, <1>4, <2>1, <2>2 DEF Pair
  <2> QED
    BY <2>1, <2>3
<1> QED
  BY <1>5, <1>6

\* A fraction of at most c is at most any fraction on the way up from c.
LEMMA UpFrom ==
  ASSUME NEW n \in Nat, NEW d \in Nat, NEW c \in Nat, NEW diff \in Nat,
         NEW g \in Nat, n <= c * d
  PROVE  n * diff <= (c * diff + g) * d
<1>1. c * d \in Nat /\ c * diff \in Nat
  OBVIOUS
<1>2. n * diff <= (c * d) * diff
  BY <1>1, TimesMonotone
<1>3. (c * diff) * d <= (c * diff + g) * d
  <2>1. c * diff <= c * diff + g /\ c * diff + g \in Nat
    BY <1>1
  <2> QED
    BY <1>1, <2>1, TimesMonotone
<1>4. (c * d) * diff = (c * diff) * d
  OBVIOUS
<1>5. /\ n * diff \in Nat /\ (c * diff) * d \in Nat
      /\ (c * diff + g) * d \in Nat
  BY <1>1
<1> QED
  BY <1>2, <1>3, <1>4, <1>5

\* What is drawn now is what should be shown now.
LEMMA DrawnIsShown ==
  ASSUME NEW s, NEW first, NEW t \in Nat, IsBuffer(s, first, t),
         Len(s) >= 2, NEW shown,
         IsDrawn(shown, s, t - INTERPOLATION_DELAY)
  PROVE  IsShown(shown, s, first)
<1> DEFINE time == t - INTERPOLATION_DELAY
<1>1. /\ Len(s) \in Nat /\ Len(s) \in 1 .. Len(s) /\ 1 \in 1 .. Len(s)
      /\ \A i \in 1 .. Len(s) : s[i].timestamp \in Nat /\ s[i].tick \in Nat
      /\ \A i, j \in 1 .. Len(s) : i <= j =>
           s[i].timestamp <= s[j].timestamp /\ s[i].tick <= s[j].tick
      /\ \A i, j \in 1 .. Len(s) : i < j => s[i].tick + 1 <= s[j].tick
      /\ \A i \in 1 .. Len(s) - 1 : s[i + 1].tick = s[i].tick + 1
  BY BufferOrder
<1>2. /\ shown \in Shown /\ shown.time = time /\ time \in Int
      /\ \/ DrawnLatest(shown, s, time)
         \/ \E i \in 1 .. Len(s) - 1 : DrawnBetween(shown, s, time, i)
  BY Constants DEF IsDrawn
<1>3. time >= first => s[1].timestamp <= time
  BY DEF IsBuffer, ReachesBack
<1>4. /\ shown.position.num \in Nat /\ shown.position.den \in Nat
      /\ shown.score \in Nat
  BY <1>2, ShownFields
<1> HIDE DEF time
<1>5. CASE DrawnLatest(shown, s, time)
  <2>1. /\ \A j \in 1 .. Len(s) - 1 : ~ Pair(s, j, time)
        /\ shown.score = s[Len(s)].tick
    BY <1>5 DEF DrawnLatest
  <2>2. Passed(shown, s)
    <3> SUFFICES ASSUME NEW i \in 1 .. Len(s)
                 PROVE  /\ AtLeast(shown.position, s[i].tick)
                        /\ shown.score >= s[i].tick
      BY DEF Passed
    <3>1. s[i].tick <= s[Len(s)].tick /\ s[i].tick \in Nat
          /\ s[Len(s)].tick \in Nat
      BY <1>1
    <3> QED
      BY <1>5, <2>1, <3>1, LatestBounds
  <2>3. Within(shown, s)
    <3>1. s[Len(s)].tick <= s[Len(s)].tick /\ s[Len(s)].tick \in Nat
      BY <1>1
    <3> QED
      BY <1>5, <2>1, <3>1, LatestBounds DEF Within
  <2>4. ASSUME time >= first PROVE Ahead(shown, s)
    <3>1. s[1].timestamp <= time
      BY <1>3, <2>4
    <3>2. \A i \in 1 .. Len(s) : s[i].timestamp < time
      BY <1>2, <2>1, <3>1, NoPairIsPast
    <3>3. \A i \in 1 .. Len(s) : ~ (s[i].timestamp >= time)
      BY <1>1, <1>2, <3>2
    <3>4. \A i \in 2 .. Len(s) : i \in 1 .. Len(s)
      BY <1>1
    <3> QED
      BY <1>2, <2>1, <3>3, <3>4 DEF Ahead
  <2> QED
    BY <1>2, <2>2, <2>3, <2>4 DEF IsShown
<1>6. ASSUME NEW i \in 1 .. Len(s) - 1, DrawnBetween(shown, s, time, i)
      PROVE  IsShown(shown, s, first)
  <2>1. /\ s[i].timestamp <= time /\ s[i + 1].timestamp >= time
        /\ \A j \in 1 .. i - 1 : ~ Pair(s, j, time)
        /\ shown.score = s[i + 1].tick
    BY <1>6 DEF DrawnBetween, Pair
  <2>2. /\ i \in 1 .. Len(s) /\ i + 1 \in 1 .. Len(s)
        /\ s[i].timestamp \in Nat /\ s[i + 1].timestamp \in Nat
        /\ s[i].tick \in Nat /\ s[i + 1].tick \in Nat
        /\ s[i + 1].tick = s[i].tick + 1
    BY <1>1
  <2>3. \A c \in Nat :
          /\ c <= s[i].tick => AtLeast(shown.position, c)
          /\ s[i + 1].tick <= c => AtMost(shown.position, c)
          /\ s[i].tick <= c /\ s[i].timestamp = time
               => AtMost(shown.position, c)
    BY <1>2, <1>6, BetweenBounds
  <2>4. Passed(shown, s)
    <3> SUFFICES ASSUME NEW j \in 1 .. Len(s), s[j].timestamp < time
                 PROVE  /\ AtLeast(shown.position, s[j].tick)
                        /\ shown.score >= s[j].tick
      BY <1>2 DEF Passed
    <3>1. j <= i
      <4> SUFFICES ASSUME ~ (j <= i) PROVE FALSE
        OBVIOUS
      <4>1. i + 1 <= j
        BY <2>2
      <4>2. s[i + 1].timestamp <= s[j].timestamp
        BY <1>1, <2>2, <4>1
      <4>3. s[j].timestamp \in Nat
        BY <1>1
      <4> QED
        BY <1>2, <2>1, <2>2, <4>2, <4>3
    <3>2. s[j].tick \in Nat /\ s[j].tick <= s[i].tick
      BY <1>1, <2>2, <3>1
    <3>3. s[j].tick <= s[i + 1].tick
      BY <2>2, <3>2
    <3> QED
      BY <2>1, <2>2, <2>3, <3>2, <3>3
  <2>5. Within(shown, s)
    <3>1. s[i + 1].tick <= s[Len(s)].tick /\ s[Len(s)].tick \in Nat
      BY <1>1, <2>2
    <3> QED
      BY <2>1, <2>3, <3>1 DEF Within
  <2>6. Ahead(shown, s)
    <3>1. ASSUME NEW j \in 1 .. Len(s), s[j].timestamp >= time
          PROVE  AtMost(shown.position, s[j].tick)
      <4>1. s[j].tick \in Nat /\ s[j].timestamp \in Nat
        BY <1>1
      <4>2. CASE j > i
        <5>1. i + 1 <= j
          BY <2>2, <4>2
        <5>2. s[i + 1].tick <= s[j].tick
          BY <1>1, <2>2, <5>1
        <5> QED
          BY <2>3, <4>1, <5>2
      <4>3. CASE j = i
        <5>1. s[i].timestamp = time
          BY <1>2, <2>1, <2>2, <3>1, <4>3
        <5> QED
          BY <2>3, <4>1, <4>3, <5>1
      <4>4. CASE j < i
        <5>1. j \in 1 .. i - 1 /\ j + 1 \in 1 .. Len(s) /\ j <= j + 1
              /\ j <= i
          BY <2>2, <4>4
        <5>2. s[j].timestamp <= s[i].timestamp
              /\ s[j].timestamp <= s[j + 1].timestamp
              /\ s[j + 1].timestamp \in Nat
          BY <1>1, <2>2, <5>1
        <5>3. s[j].timestamp <= time
          BY SMTT(40), <1>2, <2>1, <2>2, <4>1, <5>2
        <5>4. s[j + 1].timestamp >= time
          BY <1>2, <3>1, <4>1, <5>2
        <5>5. Pair(s, j, time)
          BY <5>3, <5>4 DEF Pair
        <5> QED
          BY <2>1, <5>1, <5>5
      <4> QED
        BY <2>2, <4>2, <4>3, <4>4
    <3>2. ASSUME NEW j \in 2 .. Len(s), s[j].timestamp >= time
          PROVE  shown.score <= s[j].tick
      <4>1. CASE i + 1 <= j
        <5>1. j \in 1 .. Len(s)
          BY <1>1
        <5> QED
          BY <1>1, <2>1, <2>2, <4>1, <5>1
      <4>2. CASE ~ (i + 1 <= j)
        <5>1. j - 1 \in 1 .. i - 1 /\ j - 1 \in 1 .. Len(s) /\ j - 1 <= i
              /\ (j - 1) + 1 = j
          BY <1>1, <2>2, <4>2
        <5>2. s[j - 1].timestamp <= s[i].timestamp
              /\ s[j - 1].timestamp \in Nat
          BY <1>1, <2>2, <5>1
        <5>3. Pair(s, j - 1, time)
          BY SMTT(40), <1>2, <2>1, <2>2, <3>2, <5>1, <5>2 DEF Pair
        <5> QED
          BY <2>1, <5>1, <5>3
      <4> QED
        BY <4>1, <4>2
    <3>3. ASSUME NEW j \in 1 .. Len(s) - 1, Pair(s, j, time),
                 s[j + 1].timestamp - s[j].timestamp > 0
          PROVE  shown.position.num * (s[j + 1].timestamp - s[j].timestamp)
                   <= (s[j].tick * (s[j + 1].timestamp - s[j].timestamp)
                         + (time - s[j].timestamp)) * shown.position.den
      <4> DEFINE diff == s[j + 1].timestamp - s[j].timestamp
                 g == time - s[j].timestamp
                 c == s[j].tick
      <4>1. j \in 1 .. Len(s) /\ j + 1 \in 1 .. Len(s)
        BY <1>1
      <4>2. /\ s[j].timestamp \in Nat /\ s[j + 1].timestamp \in Nat
            /\ c \in Nat
        BY <1>1, <4>1
      <4>3. g \in Nat /\ diff \in Nat
        BY SMTT(40), <1>2, <3>3, <4>2 DEF Pair
      <4>4. i <= j
        BY <2>1, <2>2, <3>3
      <4>5. CASE j = i
        <5>1. /\ shown.position.den = diff
              /\ shown.position.num = c * diff + g
          BY <1>6, <3>3, <4>5 DEF DrawnBetween
        <5> HIDE DEF diff, g, c
        <5>2. c * diff + g \in Nat
          BY <4>2, <4>3
        <5>3. shown.position.num * diff
                <= (c * diff + g) * shown.position.den
          BY <1>4, <4>3, <5>1, <5>2
        <5> QED
          BY <5>3 DEF diff, g, c
      <4>6. CASE j # i
        <5>1. i + 1 <= j
          BY <2>2, <4>1, <4>4, <4>6
        <5>2. s[i + 1].tick <= c
          BY <1>1, <2>2, <4>1, <5>1
        <5>3. shown.position.num <= c * shown.position.den
          BY <2>3, <4>2, <5>2 DEF AtMost
        <5> HIDE DEF diff, g, c
        <5>4. shown.position.num * diff
                <= (c * diff + g) * shown.position.den
          BY <1>4, <4>2, <4>3, <5>3, UpFrom
        <5> QED
          BY <5>4 DEF diff, g, c
      <4> QED
        BY <4>5, <4>6
    <3> QED
      BY <1>2, <3>1, <3>2, <3>3 DEF Ahead
  <2> QED
    BY <1>2, <2>4, <2>5, <2>6 DEF IsShown
<1> QED
  BY <1>2, <1>5, <1>6

\* A later snapshot, and the loss of the oldest, change none of it.
LEMMA ShownStays ==
  ASSUME NEW s, NEW new, NEW e \in Snapshot, NEW k, NEW first,
         NEW t \in Nat, IsBuffer(s, first, t), Grows(s, new, e, k),
         e.timestamp = t, e.tick = s[Len(s)].tick + 1,
         NEW shown, IsShown(shown, s, first), shown.time <= t
  PROVE  IsShown(shown, new, first)
<1>1. /\ Len(s) \in Nat /\ Len(s) \in 1 .. Len(s)
      /\ \A i \in 1 .. Len(s) : s[i].timestamp \in Nat /\ s[i].tick \in Nat
  BY BufferOrder
<1>2. /\ shown \in Shown /\ Len(s) >= 2
      /\ Passed(shown, s) /\ Within(shown, s)
      /\ shown.time >= first => Ahead(shown, s)
  BY DEF IsShown
<1>3. /\ shown.position.num \in Nat /\ shown.position.den \in Nat
      /\ shown.score \in Nat /\ shown.time \in Int
  BY <1>2, ShownFields
<1>4. /\ k \in {0, 1} /\ k \in Nat /\ (k = 1 => Len(s) = BUFFER_CAP)
      /\ Len(new) = Len(s) + 1 - k /\ Len(new) \in Nat
      /\ \A i \in 1 .. Len(new) - 1 : new[i] = s[i + k]
      /\ new[Len(new)] = e
  BY <1>1 DEF Grows
<1>5. Len(new) >= 2
  BY <1>1, <1>2, <1>4, Constants
<1>6. \A i \in 1 .. Len(new) - 1 : i + k \in 1 .. Len(s)
  BY <1>1, <1>4
<1> DEFINE c == s[Len(s)].tick
<1>7. c \in Nat /\ e.tick = c + 1
  BY <1>1
<1>8. /\ shown.position.num <= c * shown.position.den
      /\ shown.score <= c
  BY <1>2 DEF Within, AtMost
<1> HIDE DEF c
<1>9. AtMost(shown.position, e.tick) /\ shown.score <= e.tick
  <2>1. c * shown.position.den <= (c + 1) * shown.position.den
    BY <1>3, <1>7, TimesMonotone
  <2>2. /\ c * shown.position.den \in Nat
        /\ (c + 1) * shown.position.den \in Nat
    BY <1>3, <1>7
  <2>3. shown.position.num <= (c + 1) * shown.position.den
    BY <1>3, <1>8, <2>1, <2>2
  <2> QED
    BY <1>3, <1>7, <1>8, <2>3 DEF AtMost
<1>10. Within(shown, new)
  BY <1>4, <1>9 DEF Within
<1>11. Passed(shown, new)
  <2> SUFFICES ASSUME NEW i \in 1 .. Len(new), new[i].timestamp < shown.time
               PROVE  /\ AtLeast(shown.position, new[i].tick)
                      /\ shown.score >= new[i].tick
    BY DEF Passed
  <2>1. i # Len(new)
    BY <1>3, <1>4
  <2>2. i \in 1 .. Len(new) - 1
    BY <1>4, <2>1
  <2>3. i + k \in 1 .. Len(s) /\ new[i] = s[i + k]
    BY <1>4, <1>6, <2>2
  <2> QED
    BY <1>2, <2>3 DEF Passed
<1>12. ASSUME shown.time >= first PROVE Ahead(shown, new)
  <2>0. Ahead(shown, s)
    BY <1>2, <1>12
  <2>1. ASSUME NEW i \in 1 .. Len(new), new[i].timestamp >= shown.time
        PROVE  AtMost(shown.position, new[i].tick)
    <3>1. CASE i = Len(new)
      BY <1>4, <1>9, <3>1
    <3>2. CASE i # Len(new)
      <4>1. i \in 1 .. Len(new) - 1
        BY <1>4, <3>2
      <4>2. i + k \in 1 .. Len(s) /\ new[i] = s[i + k]
        BY <1>4, <1>6, <4>1
      <4> QED
        BY <2>0, <2>1, <4>2 DEF Ahead
    <3> QED
      BY <3>1, <3>2
  <2>2. ASSUME NEW i \in 2 .. Len(new), new[i].timestamp >= shown.time
        PROVE  shown.score <= new[i].tick
    <3>1. CASE i = Len(new)
      BY <1>4, <1>9, <3>1
    <3>2. CASE i # Len(new)
      <4>1. i \in 1 .. Len(new) - 1
        BY <1>4, <3>2
      <4>2. i + k \in 1 .. Len(s) /\ new[i] = s[i + k]
        BY <1>4, <1>6, <4>1
      <4>3. i + k \in 2 .. Len(s)
        BY <1>1, <1>4, <4>2
      <4> QED
        BY <2>0, <2>2, <4>2, <4>3 DEF Ahead
    <3> QED
      BY <3>1, <3>2
  <2>3. ASSUME NEW i \in 1 .. Len(new) - 1, Pair(new, i, shown.time),
               new[i + 1].timestamp - new[i].timestamp > 0
        PROVE  shown.position.num * (new[i + 1].timestamp - new[i].timestamp)
                 <= (new[i].tick * (new[i + 1].timestamp - new[i].timestamp)
                       + (shown.time - new[i].timestamp)) * shown.position.den
    <3>0. i + k \in 1 .. Len(s) /\ new[i] = s[i + k]
      BY <1>4, <1>6
    <3>1. CASE i + 1 = Len(new)
      <4> DEFINE diff == new[i + 1].timestamp - new[i].timestamp
                 g == shown.time - new[i].timestamp
      <4>1. i + k = Len(s) /\ new[i].tick = c /\ new[i + 1] = e
        <5>1. i + k = Len(s)
          BY <1>1, <1>4, <3>1
        <5> QED
          BY <1>4, <3>0, <3>1, <5>1 DEF c
      <4>2. new[i].timestamp \in Nat /\ new[i + 1].timestamp \in Nat
        BY <1>1, <3>0, <4>1
      <4>3. diff \in Nat /\ g \in Nat
        BY SMTT(40), <1>3, <2>3, <4>2 DEF Pair
      <4> HIDE DEF diff, g
      <4>4. shown.position.num * diff
              <= (c * diff + g) * shown.position.den
        BY <1>3, <1>7, <1>8, <4>3, UpFrom
      <4> QED
        BY <4>1, <4>4 DEF diff, g
    <3>2. CASE i + 1 # Len(new)
      <4>1. i + 1 \in 1 .. Len(new) - 1 /\ (i + 1) + k = (i + k) + 1
        BY <1>4, <3>2
      <4>2. new[i + 1] = s[(i + k) + 1] /\ (i + k) + 1 \in 1 .. Len(s)
        BY <1>4, <1>6, <4>1
      <4> DEFINE j == i + k
      <4>3. /\ j \in 1 .. Len(s) - 1 /\ new[i] = s[j] /\ new[i + 1] = s[j + 1]
        BY <1>1, <3>0, <4>2
      <4> HIDE DEF j
      <4>4. Pair(s, j, shown.time)
        BY <2>3, <4>3 DEF Pair
      <4>5. s[j + 1].timestamp - s[j].timestamp > 0
        BY <2>3, <4>3
      <4>6. shown.position.num * (s[j + 1].timestamp - s[j].timestamp)
              <= (s[j].tick * (s[j + 1].timestamp - s[j].timestamp)
                    + (shown.time - s[j].timestamp)) * shown.position.den
        BY <2>0, <4>3, <4>4, <4>5 DEF Ahead
      <4> QED
        BY <4>3, <4>6
    <3> QED
      BY <3>1, <3>2
  <2> QED
    BY <2>1, <2>2, <2>3 DEF Ahead
<1> QED
  BY <1>2, <1>5, <1>10, <1>11, <1>12 DEF IsShown

\* What is drawn later, from the same buffer, is no further back.
LEMMA DrawnIsNotBack ==
  ASSUME NEW s, NEW first, NEW t \in Nat, IsBuffer(s, first, t),
         NEW old, IsShown(old, s, first), old.time >= first,
         old.time <= t - INTERPOLATION_DELAY,
         NEW shown, IsDrawn(shown, s, t - INTERPOLATION_DELAY)
  PROVE  /\ shown.position.num * old.position.den
              >= old.position.num * shown.position.den
         /\ shown.score >= old.score
<1> DEFINE time == t - INTERPOLATION_DELAY
<1>1. /\ Len(s) \in Nat /\ Len(s) \in 1 .. Len(s) /\ 1 \in 1 .. Len(s)
      /\ \A i \in 1 .. Len(s) : s[i].timestamp \in Nat /\ s[i].tick \in Nat
      /\ \A i, j \in 1 .. Len(s) : i <= j =>
           s[i].timestamp <= s[j].timestamp /\ s[i].tick <= s[j].tick
  BY BufferOrder
<1>2. /\ shown \in Shown /\ time \in Int /\ old.time <= time
      /\ \/ DrawnLatest(shown, s, time)
         \/ \E i \in 1 .. Len(s) - 1 : DrawnBetween(shown, s, time, i)
  BY Constants DEF IsDrawn
<1>3. old \in Shown /\ Within(old, s) /\ Ahead(old, s)
  BY DEF IsShown
<1>4. /\ shown.position.num \in Nat /\ shown.position.den \in Nat
      /\ shown.score \in Nat
      /\ old.position.num \in Nat /\ old.position.den \in Nat
      /\ old.score \in Nat /\ old.time \in Int
  BY <1>2, <1>3, ShownFields
<1>5. ASSUME NEW c \in Nat, AtMost(old.position, c), AtLeast(shown.position, c)
      PROVE  shown.position.num * old.position.den
               >= old.position.num * shown.position.den
  BY <1>4, <1>5, InBetween DEF AtMost, AtLeast
<1> HIDE DEF time
<1>6. CASE DrawnLatest(shown, s, time)
  <2> DEFINE c == s[Len(s)].tick
  <2>1. c \in Nat /\ c <= c /\ shown.score = c
    BY <1>1, <1>6 DEF DrawnLatest
  <2>2. AtMost(old.position, c) /\ old.score <= c
    BY <1>3 DEF Within
  <2>3. AtLeast(shown.position, c)
    BY <1>6, <2>1, LatestBounds
  <2> HIDE DEF c
  <2> QED
    BY <1>4, <1>5, <2>1, <2>2, <2>3
<1>7. ASSUME NEW i \in 1 .. Len(s) - 1, DrawnBetween(shown, s, time, i)
      PROVE  /\ shown.position.num * old.position.den
                  >= old.position.num * shown.position.den
             /\ shown.score >= old.score
  <2>1. /\ s[i].timestamp <= time /\ s[i + 1].timestamp >= time
        /\ shown.score = s[i + 1].tick
    BY <1>7 DEF DrawnBetween, Pair
  <2>2. /\ i \in 1 .. Len(s) /\ i + 1 \in 1 .. Len(s) /\ i + 1 \in 2 .. Len(s)
        /\ s[i].timestamp \in Nat /\ s[i + 1].timestamp \in Nat
        /\ s[i].tick \in Nat /\ s[i + 1].tick \in Nat
    BY <1>1
  <2>3. s[i + 1].timestamp >= old.time
    BY <1>2, <1>4, <2>1, <2>2
  <2>4. shown.score >= old.score
    BY <1>3, <1>4, <2>1, <2>2, <2>3 DEF Ahead
  <2>5. CASE s[i].timestamp >= old.time
    <3>1. AtMost(old.position, s[i].tick)
      BY <1>3, <2>2, <2>5 DEF Ahead
    <3>2. AtLeast(shown.position, s[i].tick)
      <4>1. s[i].tick \in Nat /\ s[i].tick <= s[i].tick
        BY <2>2
      <4>2. \A c \in Nat : c <= s[i].tick => AtLeast(shown.position, c)
        BY <1>2, <1>7, BetweenBounds
      <4> QED
        BY <4>1, <4>2
    <3> QED
      BY <1>5, <2>2, <2>4, <3>1, <3>2
  <2>6. CASE ~ (s[i].timestamp >= old.time)
    <3> DEFINE diff == s[i + 1].timestamp - s[i].timestamp
               g == time - s[i].timestamp
               f == old.time - s[i].timestamp
               c == s[i].tick
               n == old.position.num
               d == old.position.den
    <3>1. diff > 0 /\ diff \in Nat
      <4>1. \A x, y, z \in Int : ~ (x >= y) /\ z >= y => z - x > 0
        OBVIOUS
      <4>2. \A x \in Int : x > 0 => x \in Nat
        OBVIOUS
      <4>3. \A x, y \in Nat : x - y \in Int
        OBVIOUS
      <4>4. /\ s[i].timestamp \in Int /\ s[i + 1].timestamp \in Int
            /\ old.time \in Int
        BY <1>4, <2>2
      <4>5. diff > 0
        BY <2>3, <2>6, <4>1, <4>4
      <4>6. diff \in Int
        BY <2>2, <4>3
      <4> QED
        BY <4>2, <4>5, <4>6
    <3>2. Pair(s, i, old.time)
      BY SMTT(40), <1>4, <2>2, <2>3, <2>6 DEF Pair
    <3>3. n * diff <= (c * diff + f) * d
      BY <1>3, <3>1, <3>2 DEF Ahead
    <3>4. shown.position.den = diff /\ shown.position.num = c * diff + g
      BY <1>7, <3>1 DEF DrawnBetween
    <3>5. f \in Nat /\ g \in Nat /\ f <= g
      <4>1. \A a, b, x \in Int : x <= a /\ a <= b =>
              a - x \in Nat /\ b - x \in Nat /\ a - x <= b - x
        OBVIOUS
      <4>2. /\ old.time \in Int /\ time \in Int /\ s[i].timestamp \in Int
            /\ s[i].timestamp <= old.time /\ old.time <= time
        BY SMTT(40), <1>2, <1>4, <2>2, <2>6
      <4> QED
        BY <4>1, <4>2
    <3>6. c \in Nat /\ n \in Nat /\ d \in Nat
      BY <1>4, <2>2
    <3> HIDE DEF diff, g, f, c, n, d
    <3>7. c * diff + f <= c * diff + g /\ c * diff + f \in Nat
          /\ c * diff + g \in Nat
      BY <3>1, <3>5, <3>6
    <3>8. (c * diff + f) * d <= (c * diff + g) * d
      BY <3>6, <3>7, TimesMonotone
    <3>9. n * diff <= (c * diff + g) * d
      <4>1. /\ n * diff \in Nat /\ (c * diff + f) * d \in Nat
            /\ (c * diff + g) * d \in Nat
        BY <3>1, <3>6, <3>7
      <4> QED
        BY <3>3, <3>8, <4>1
    <3>10. shown.position.num * d >= n * shown.position.den
      <4>1. n * diff \in Nat /\ (c * diff + g) * d \in Nat
        BY <3>1, <3>6, <3>7
      <4> QED
        BY <3>4, <3>9, <4>1
    <3> QED
      BY <2>4, <3>10 DEF n, d
  <2> QED
    BY <2>5, <2>6
<1> QED
  BY <1>2, <1>6, <1>7

-----------------------------------------------------------------------------
(* The invariant.                                                          *)

\* Ticks that can still take a world state before time passes.
Work == owed - (IF popped THEN 1 ELSE 0) + elapsed

Loop ==
  /\ now \in Nat /\ worldStates \in Nat
  /\ elapsed \in 0 .. FRAME_CAP /\ owed \in 0 .. FRAME_CAP
  /\ popped \in BOOLEAN /\ (popped => owed > 0)
  /\ inGame \in [Players -> {"absent", "playing", "left"}]
  /\ arrived \in [Players -> Nat \cup {NotYet}]
  /\ DOMAIN snapshots \subseteq Players
  /\ DOMAIN remotePlayers \subseteq DOMAIN snapshots
  /\ \A p \in Players : p \notin DOMAIN snapshots => arrived[p] = NotYet

\* A player that is in the game is in every world state.
GoodBuffer(s, first, t, work, status, n) ==
  /\ IsBuffer(s, first, t) /\ Paced(s, t, work)
  /\ status # "absent"
  /\ status = "playing" => s[Len(s)].tick = n

Buffered ==
  \A p \in DOMAIN snapshots :
    GoodBuffer(snapshots[p], arrived[p], now, Work, inGame[p], worldStates)

GoodShown(shown, s, first, t) ==
  IsShown(shown, s, first) /\ shown.time <= t - INTERPOLATION_DELAY

Drawn ==
  \A p \in DOMAIN remotePlayers :
    GoodShown(remotePlayers[p], snapshots[p], arrived[p], now)

Inv == Loop /\ Buffered /\ Drawn

LEMMA LoopNumbers ==
  ASSUME Loop
  PROVE  /\ now \in Nat /\ worldStates \in Nat
         /\ elapsed \in Nat /\ elapsed <= FRAME_CAP
         /\ owed \in Nat /\ owed <= FRAME_CAP
         /\ FRAME_CAP \in Nat /\ FRAME_CAP >= 1
<1>1. /\ now \in Nat /\ worldStates \in Nat
      /\ elapsed \in 0 .. FRAME_CAP /\ owed \in 0 .. FRAME_CAP
  BY DEF Loop
<1>2. FRAME_CAP \in Nat /\ FRAME_CAP >= 1
  BY Constants
<1> QED
  BY <1>1, <1>2

LEMMA WorkBounds ==
  ASSUME Loop
  PROVE  /\ Work \in Nat /\ Work <= 2 * FRAME_CAP
         /\ owed > 0 /\ ~ popped => Work >= 1
<1>1. /\ elapsed \in 0 .. FRAME_CAP /\ owed \in 0 .. FRAME_CAP
      /\ popped \in BOOLEAN /\ (popped => owed > 0) /\ FRAME_CAP \in Nat
  BY Constants DEF Loop
<1>2. CASE popped
  <2>1. Work = owed - 1 + elapsed /\ owed > 0
    BY <1>1, <1>2 DEF Work
  <2> QED
    BY <1>1, <1>2, <2>1
<1>3. CASE ~ popped
  <2>1. Work = owed - 0 + elapsed
    BY <1>3 DEF Work
  <2> QED
    BY <1>1, <2>1
<1> QED
  BY <1>2, <1>3

LEMMA InvInit == Init => Inv
<1> SUFFICES ASSUME Init PROVE Inv
  OBVIOUS
<1>1. DOMAIN snapshots = {} /\ DOMAIN remotePlayers = {}
  <2>1. <<>> \in Seq({}) /\ Len(<<>>) = 0
    OBVIOUS
  <2>2. DOMAIN <<>> = 1 .. Len(<<>>)
    BY <2>1
  <2>3. DOMAIN <<>> = {}
    BY <2>1, <2>2
  <2> QED
    BY <2>3 DEF Init
<1>2. Loop
  <2>1. /\ now = 0 /\ worldStates = 0 /\ elapsed = 0 /\ owed = 0
        /\ popped = FALSE
        /\ inGame = [p \in Players |-> "absent"]
        /\ arrived = [p \in Players |-> NotYet]
    BY DEF Init
  <2>2. 0 \in 0 .. FRAME_CAP
    BY Constants
  <2> QED
    BY <1>1, <2>1, <2>2 DEF Loop
<1> QED
  BY <1>1, <1>2 DEF Inv, Buffered, Drawn

LEMMA InvClock ==
  ASSUME Inv, Clock
  PROVE  Inv'
<1>1. /\ now' = now + 1
      /\ elapsed' = IF elapsed < FRAME_CAP THEN elapsed + 1 ELSE elapsed
      /\ UNCHANGED <<owed, popped, snapshots, remotePlayers, worldStates,
                     inGame, arrived>>
  BY DEF Clock
<1>2. Loop
  BY DEF Inv
<1>6. /\ now \in Nat /\ elapsed \in Nat /\ elapsed <= FRAME_CAP
      /\ owed \in Nat /\ FRAME_CAP \in Nat
  BY <1>2, LoopNumbers
<1>3. /\ elapsed' \in 0 .. FRAME_CAP /\ elapsed' \in Nat
      /\ elapsed' <= elapsed + 1
  <2>1. (elapsed' = elapsed + 1 /\ elapsed < FRAME_CAP) \/ elapsed' = elapsed
    BY <1>1
  <2> QED
    BY <1>6, <2>1
<1>4. Loop'
  <2>1. now' \in Nat
    BY <1>1, <1>6
  <2> QED
    BY <1>1, <1>2, <1>3, <2>1 DEF Loop
<1>5. /\ Work \in Int /\ Work' \in Int /\ Work' <= Work + 1
  <2>1. \A a, b, c, d \in Int :
          d <= c + 1 => /\ a - b + c \in Int /\ a - b + d \in Int
                        /\ a - b + d <= a - b + c + 1
    OBVIOUS
  <2>2. /\ owed \in Int /\ elapsed \in Int /\ elapsed' \in Int
        /\ elapsed' <= elapsed + 1
    BY <1>3, <1>6
  <2>3. CASE popped
    <3>1. Work = owed - 1 + elapsed /\ Work' = owed - 1 + elapsed'
      BY <1>1, <2>3 DEF Work
    <3>2. 1 \in Int
      OBVIOUS
    <3> QED
      BY <2>1, <2>2, <3>1, <3>2
  <2>4. CASE ~ popped
    <3>1. Work = owed - 0 + elapsed /\ Work' = owed - 0 + elapsed'
      BY <1>1, <2>4 DEF Work
    <3>2. 0 \in Int
      OBVIOUS
    <3> QED
      BY <2>1, <2>2, <3>1, <3>2
  <2> QED
    BY <2>3, <2>4
<1>7. Buffered'
  <2> SUFFICES ASSUME NEW p \in DOMAIN snapshots
               PROVE  GoodBuffer(snapshots[p], arrived[p], now + 1, Work',
                                 inGame[p], worldStates)
    BY <1>1 DEF Buffered
  <2>1. GoodBuffer(snapshots[p], arrived[p], now, Work, inGame[p], worldStates)
    BY DEF Inv, Buffered
  <2> DEFINE w == Work
             v == Work'
             s == snapshots[p]
             first == arrived[p]
  <2>3. /\ IsBuffer(s, first, now) /\ Paced(s, now, w)
        /\ w \in Int /\ v \in Int /\ v <= w + 1
    BY <1>5, <2>1 DEF GoodBuffer
  <2> HIDE DEF w, v, s, first
  <2>4. IsBuffer(s, first, now + 1) /\ Paced(s, now + 1, v)
    BY <1>6, <2>3, BufferAges
  <2>2. IsBuffer(snapshots[p], arrived[p], now + 1)
        /\ Paced(snapshots[p], now + 1, Work')
    BY <2>4 DEF w, v, s, first
  <2> QED
    BY <2>1, <2>2 DEF GoodBuffer
<1>8. Drawn'
  <2> SUFFICES ASSUME NEW p \in DOMAIN remotePlayers
               PROVE  GoodShown(remotePlayers[p], snapshots[p], arrived[p],
                                now + 1)
    BY <1>1 DEF Drawn
  <2>1. GoodShown(remotePlayers[p], snapshots[p], arrived[p], now)
    BY DEF Inv, Drawn
  <2>2. remotePlayers[p].time \in Int
    BY <2>1, ShownFields DEF GoodShown, IsShown
  <2> QED
    BY <1>6, <2>1, <2>2, Constants DEF GoodShown
<1> QED
  BY <1>4, <1>7, <1>8 DEF Inv

LEMMA InvBeginFrame ==
  ASSUME Inv, BeginFrame
  PROVE  Inv'
<1>1. /\ owed = 0 /\ owed' = elapsed /\ elapsed' = 0
      /\ UNCHANGED <<now, popped, snapshots, remotePlayers, worldStates,
                     inGame, arrived>>
  BY DEF BeginFrame
<1>2. Loop
  BY DEF Inv
<1>n. elapsed \in Nat /\ elapsed <= FRAME_CAP /\ FRAME_CAP \in Nat
  BY <1>2, LoopNumbers
<1>3. ~ popped
  <2> SUFFICES ASSUME popped PROVE FALSE
    OBVIOUS
  <2>1. owed > 0
    BY <1>2 DEF Loop
  <2> QED
    BY <1>1, <2>1
<1>4. Loop'
  <2>1. owed' \in 0 .. FRAME_CAP /\ elapsed' \in 0 .. FRAME_CAP
    BY <1>1, <1>n
  <2> QED
    BY <1>1, <1>2, <1>3, <2>1 DEF Loop
<1>5. Work' = Work
  <2>1. Work = 0 - 0 + elapsed /\ Work' = elapsed - 0 + 0
    BY <1>1, <1>3 DEF Work
  <2> QED
    BY <1>n, <2>1
<1>6. Buffered'
  BY <1>1, <1>5 DEF Inv, Buffered
<1>7. Drawn'
  BY <1>1 DEF Inv, Drawn
<1> QED
  BY <1>4, <1>6, <1>7 DEF Inv

LEMMA InvJoin ==
  ASSUME Inv, NEW p \in Players, Join(p)
  PROVE  Inv'
<1>1. /\ inGame[p] = "absent"
      /\ inGame' = [inGame EXCEPT ![p] = "playing"]
      /\ UNCHANGED <<now, elapsed, owed, popped, snapshots, remotePlayers,
                     worldStates, arrived>>
  BY DEF Join, loopVars
<1>2. Loop'
  BY <1>1 DEF Inv, Loop
<1>3. Work' = Work
  BY <1>1 DEF Work
<1>4. Buffered'
  <2> SUFFICES ASSUME NEW q \in DOMAIN snapshots
               PROVE  GoodBuffer(snapshots[q], arrived[q], now, Work,
                                 inGame'[q], worldStates)
    BY <1>1, <1>3 DEF Buffered
  <2>1. GoodBuffer(snapshots[q], arrived[q], now, Work, inGame[q], worldStates)
    BY DEF Inv, Buffered
  <2>2. q # p
    BY <1>1, <2>1 DEF GoodBuffer
  <2>3. inGame'[q] = inGame[q]
    BY <1>1, <2>2 DEF Inv, Loop
  <2> QED
    BY <2>1, <2>3
<1>5. Drawn'
  BY <1>1 DEF Inv, Drawn
<1> QED
  BY <1>2, <1>4, <1>5 DEF Inv

LEMMA InvLeave ==
  ASSUME Inv, NEW p \in Players, Leave(p)
  PROVE  Inv'
<1>1. /\ inGame' = [inGame EXCEPT ![p] = "left"]
      /\ UNCHANGED <<now, elapsed, owed, popped, snapshots, remotePlayers,
                     worldStates, arrived>>
  BY DEF Leave, loopVars
<1>2. Loop'
  BY <1>1 DEF Inv, Loop
<1>3. Work' = Work
  BY <1>1 DEF Work
<1>4. Buffered'
  <2> SUFFICES ASSUME NEW q \in DOMAIN snapshots
               PROVE  GoodBuffer(snapshots[q], arrived[q], now, Work,
                                 inGame'[q], worldStates)
    BY <1>1, <1>3 DEF Buffered
  <2>1. GoodBuffer(snapshots[q], arrived[q], now, Work, inGame[q], worldStates)
    BY DEF Inv, Buffered
  <2>2. inGame'[q] = inGame[q] \/ inGame'[q] = "left"
    BY <1>1 DEF Inv, Loop
  <2>3. CASE inGame'[q] = inGame[q]
    BY <2>1, <2>3
  <2>4. CASE inGame'[q] = "left"
    BY <2>1, <2>4 DEF GoodBuffer
  <2> QED
    BY <2>2, <2>3, <2>4
<1>5. Drawn'
  BY <1>1 DEF Inv, Drawn
<1> QED
  BY <1>2, <1>4, <1>5 DEF Inv

\* Work done by a tick.
LEMMA WorkTaken ==
  ASSUME Loop, owed > 0, ~ popped, owed' = owed, elapsed' = elapsed, popped'
  PROVE  Work' = Work - 1
<1>1. owed \in Nat /\ elapsed \in Nat
  BY LoopNumbers
<1>2. Work = owed - 0 + elapsed /\ Work' = owed - 1 + elapsed
  BY DEF Work
<1>3. \A a, b \in Nat : a - 1 + b = a - 0 + b - 1
  OBVIOUS
<1> QED
  BY <1>1, <1>2, <1>3

\* A world state, for a player already known.
LEMMA BufferTakes ==
  ASSUME Inv, ReceiveWorldState, NEW p \in DOMAIN snapshots,
         inGame[p] = "playing"
  PROVE  /\ GoodBuffer(AddSnapshot(p, worldStates + 1), arrived[p], now,
                       Work - 1, inGame[p], worldStates + 1)
         /\ \A shown : GoodShown(shown, snapshots[p], arrived[p], now) =>
              GoodShown(shown, AddSnapshot(p, worldStates + 1), arrived[p],
                        now)
<1> DEFINE s == snapshots[p]
           e == [timestamp |-> now, tick |-> worldStates + 1]
           new == AddSnapshot(p, worldStates + 1)
           work == Work
<1>1. Loop /\ owed > 0 /\ ~ popped
  BY DEF Inv, ReceiveWorldState
<1>2. now \in Nat /\ worldStates \in Nat
  BY <1>1, LoopNumbers
<1>3. work \in Nat /\ work <= 2 * FRAME_CAP /\ work >= 1
  BY <1>1, WorkBounds
<1>4. GoodBuffer(s, arrived[p], now, work, inGame[p], worldStates)
  BY DEF Inv, Buffered
<1>5. /\ IsBuffer(s, arrived[p], now) /\ Paced(s, now, work)
      /\ inGame[p] # "absent" /\ s[Len(s)].tick = worldStates
  BY <1>4 DEF GoodBuffer
<1>6. /\ e \in Snapshot /\ e.timestamp = now /\ e.tick = worldStates + 1
  <2>1. worldStates + 1 \in Nat \ {0}
    BY <1>2
  <2> QED
    BY <1>2, <2>1 DEF Snapshot
<1>7. new = Trimmed(Append(s, e))
  BY DEF AddSnapshot, Buffer
<1>8. s \in Seq(Snapshot) /\ Len(s) <= BUFFER_CAP
  <2>1. s \in Seq(Snapshot) /\ Len(s) \in 1 .. BUFFER_CAP
    BY <1>5 DEF IsBuffer
  <2> QED
    BY <2>1, Constants
<1> HIDE DEF s, e, new, work
<1>9. PICK k \in {0, 1} : Grows(s, new, e, k)
  BY <1>6, <1>7, <1>8, AddGrows
<1>10. e.tick = s[Len(s)].tick + 1
  BY <1>5, <1>6
<1>11. IsBuffer(new, arrived[p], now) /\ Paced(new, now, work - 1)
  BY <1>2, <1>3, <1>5, <1>6, <1>9, <1>10, BufferGrows
<1>12. new[Len(new)].tick = worldStates + 1
  BY <1>6, <1>9 DEF Grows
<1>13. GoodBuffer(new, arrived[p], now, work - 1, inGame[p], worldStates + 1)
  BY <1>5, <1>11, <1>12 DEF GoodBuffer
<1>14. ASSUME NEW shown, GoodShown(shown, s, arrived[p], now)
       PROVE  GoodShown(shown, new, arrived[p], now)
  <2>1. /\ IsShown(shown, s, arrived[p])
        /\ shown.time <= now - INTERPOLATION_DELAY
    BY <1>14 DEF GoodShown
  <2>2. shown.time \in Int
    BY <2>1, ShownFields DEF IsShown
  <2>3. shown.time <= now
    BY <1>2, <2>1, <2>2, Constants
  <2>4. IsShown(shown, new, arrived[p])
    BY <1>2, <1>5, <1>6, <1>9, <1>10, <2>1, <2>3, ShownStays
  <2> QED
    BY <2>1, <2>4 DEF GoodShown
<1> QED
  BY <1>13, <1>14 DEF s, new, work

\* A player's first world state.
LEMMA BufferStarts ==
  ASSUME Inv, ReceiveWorldState, NEW p \in Players, p \notin DOMAIN snapshots,
         inGame[p] = "playing"
  PROVE  GoodBuffer(AddSnapshot(p, worldStates + 1), now, now, Work - 1,
                    inGame[p], worldStates + 1)
<1> DEFINE e == [timestamp |-> now, tick |-> worldStates + 1]
           new == AddSnapshot(p, worldStates + 1)
           work == Work
<1>1. Loop /\ owed > 0 /\ ~ popped
  BY DEF Inv, ReceiveWorldState
<1>2. now \in Nat /\ worldStates \in Nat
  BY <1>1, LoopNumbers
<1>3. work \in Nat /\ work <= 2 * FRAME_CAP /\ work >= 1
  BY <1>1, WorkBounds
<1>4. e \in Snapshot /\ e.timestamp = now /\ e.tick = worldStates + 1
  <2>1. worldStates + 1 \in Nat \ {0}
    BY <1>2
  <2> QED
    BY <1>2, <2>1 DEF Snapshot
<1>5. new = Trimmed(Append(<<>>, e))
  BY DEF AddSnapshot, Buffer
<1> HIDE DEF e, new, work
<1>6. /\ Trimmed(Append(<<>>, e)) = <<e>>
      /\ IsBuffer(<<e>>, now, now) /\ Paced(<<e>>, now, work - 1)
  BY <1>2, <1>3, <1>4, BufferBegins
<1>7. <<e>>[Len(<<e>>)].tick = worldStates + 1
  BY <1>4
<1>8. new = <<e>>
  BY <1>5, <1>6
<1>9. IsBuffer(new, now, now) /\ Paced(new, now, work - 1)
      /\ new[Len(new)].tick = worldStates + 1
  BY <1>6, <1>7, <1>8
<1> QED
  BY <1>9 DEF GoodBuffer, new, work

LEMMA InvReceiveWorldState ==
  ASSUME Inv, ReceiveWorldState
  PROVE  Inv'
<1> DEFINE listed == {p \in Players : inGame[p] = "playing"}
<1>1. /\ owed > 0 /\ ~ popped /\ popped'
      /\ popped' \in BOOLEAN
      /\ worldStates' = worldStates + 1
      /\ snapshots' = [p \in DOMAIN snapshots \cup listed |->
           IF p \in listed THEN AddSnapshot(p, worldStates')
                           ELSE snapshots[p]]
      /\ arrived' = [p \in Players |->
           IF p \in listed /\ arrived[p] = NotYet THEN now ELSE arrived[p]]
      /\ UNCHANGED <<now, elapsed, owed, remotePlayers, inGame>>
  BY DEF ReceiveWorldState
<1>2. Loop
  BY DEF Inv
<1>3. /\ now \in Nat /\ worldStates \in Nat /\ Work \in Nat
  BY <1>2, LoopNumbers, WorkBounds
<1>4. Work' = Work - 1
  BY <1>1, <1>2, WorkTaken
<1>5. /\ DOMAIN snapshots' = DOMAIN snapshots \cup listed
      /\ DOMAIN snapshots \subseteq Players
      /\ DOMAIN snapshots' \subseteq Players
      /\ DOMAIN remotePlayers \subseteq DOMAIN snapshots
  BY <1>1, <1>2 DEF Loop
<1>6. ASSUME NEW p \in DOMAIN snapshots
      PROVE  arrived[p] # NotYet /\ arrived'[p] = arrived[p]
  <2>1. GoodBuffer(snapshots[p], arrived[p], now, Work, inGame[p], worldStates)
    BY DEF Inv, Buffered
  <2>2. arrived[p] \in Nat
    BY <2>1 DEF GoodBuffer, IsBuffer, ReachesBack
  <2>3. arrived[p] # NotYet
    BY <2>2 DEF NotYet
  <2> QED
    BY <1>1, <1>5, <2>3
<1>7. Loop'
  <2>1. worldStates' \in Nat
    BY <1>1, <1>3
  <2>2. arrived' \in [Players -> Nat \cup {NotYet}]
    BY <1>1, <1>2, <1>3 DEF Loop
  <2>3. ASSUME NEW p \in Players, p \notin DOMAIN snapshots'
        PROVE  arrived'[p] = NotYet
    <3>1. p \notin DOMAIN snapshots /\ p \notin listed
      BY <1>5, <2>3
    <3> QED
      BY <1>1, <1>2, <3>1 DEF Loop
  <2>4. DOMAIN remotePlayers' \subseteq DOMAIN snapshots'
    BY <1>1, <1>5
  <2> QED
    BY <1>1, <1>2, <1>5, <2>1, <2>2, <2>3, <2>4 DEF Loop
<1>8. ASSUME NEW p \in DOMAIN snapshots
      PROVE  /\ GoodBuffer(snapshots'[p], arrived'[p], now, Work - 1,
                           inGame[p], worldStates + 1)
             /\ \A shown : GoodShown(shown, snapshots[p], arrived[p], now) =>
                  GoodShown(shown, snapshots'[p], arrived'[p], now)
  <2>1. arrived'[p] = arrived[p]
    BY <1>6
  <2>2. CASE p \in listed
    <3>1. snapshots'[p] = AddSnapshot(p, worldStates + 1)
      BY <1>1, <2>2
    <3> QED
      BY <2>1, <2>2, <3>1, BufferTakes
  <2>3. CASE p \notin listed
    <3>1. snapshots'[p] = snapshots[p]
      BY <1>1, <2>3
    <3>2. inGame[p] # "playing"
      BY <1>5, <2>3
    <3> DEFINE w == Work
    <3>3. GoodBuffer(snapshots[p], arrived[p], now, w, inGame[p], worldStates)
      BY DEF Inv, Buffered
    <3>4. w \in Nat
      BY <1>3
    <3> HIDE DEF w
    <3>5. snapshots[p] \in Seq(Snapshot) /\ Paced(snapshots[p], now, w)
      BY <3>3 DEF GoodBuffer, IsBuffer
    <3>6. w \in Int /\ w - 1 \in Int /\ w - 1 <= w
      BY <3>4
    <3>7. Paced(snapshots[p], now, w - 1)
      BY <1>3, <3>5, <3>6, PaceSlows
    <3>8. GoodBuffer(snapshots[p], arrived[p], now, w - 1, inGame[p],
                     worldStates + 1)
      BY <3>2, <3>3, <3>7 DEF GoodBuffer
    <3> QED
      BY <2>1, <3>1, <3>8 DEF w
  <2> QED
    BY <2>2, <2>3
<1>9. Buffered'
  <2> SUFFICES ASSUME NEW p \in DOMAIN snapshots'
               PROVE  GoodBuffer(snapshots'[p], arrived'[p], now, Work - 1,
                                 inGame[p], worldStates + 1)
    BY <1>1, <1>4 DEF Buffered
  <2>1. CASE p \in DOMAIN snapshots
    BY <1>8, <2>1
  <2>2. CASE p \notin DOMAIN snapshots
    <3>1. p \in listed /\ p \in Players /\ inGame[p] = "playing"
      BY <1>5, <2>2
    <3>2. arrived[p] = NotYet
      BY <1>2, <2>2, <3>1 DEF Loop
    <3>3. arrived'[p] = now /\ snapshots'[p] = AddSnapshot(p, worldStates + 1)
      BY <1>1, <3>1, <3>2
    <3> QED
      BY <2>2, <3>1, <3>3, BufferStarts
  <2> QED
    BY <2>1, <2>2
<1>10. Drawn'
  <2> SUFFICES ASSUME NEW p \in DOMAIN remotePlayers
               PROVE  GoodShown(remotePlayers[p], snapshots'[p], arrived'[p],
                                now)
    BY <1>1 DEF Drawn
  <2>1. GoodShown(remotePlayers[p], snapshots[p], arrived[p], now)
    BY DEF Inv, Drawn
  <2> QED
    BY <1>5, <1>8, <2>1
<1> QED
  BY <1>7, <1>9, <1>10 DEF Inv

LEMMA InvUpdateInterpolation ==
  ASSUME Inv, UpdateInterpolation
  PROVE  Inv'
<1>1. /\ owed > 0 /\ owed' = owed - 1 /\ popped' = FALSE
      /\ remotePlayers' =
           [p \in {q \in DOMAIN snapshots : Len(snapshots[q]) >= 2} |->
              InterpolatedState(snapshots[p])]
      /\ UNCHANGED <<now, elapsed, snapshots, worldStates, inGame, arrived>>
  BY DEF UpdateInterpolation
<1>2. Loop
  BY DEF Inv
<1>3. /\ now \in Nat /\ elapsed \in Nat /\ owed \in Nat
      /\ owed <= FRAME_CAP /\ FRAME_CAP \in Nat
  BY <1>2, LoopNumbers
<1>4. DOMAIN remotePlayers' \subseteq DOMAIN snapshots
  BY <1>1
<1>5. Loop'
  <2>1. owed' \in 0 .. FRAME_CAP
    BY <1>1, <1>3
  <2> QED
    BY <1>1, <1>2, <1>4, <2>1 DEF Loop
<1>6. Work \in Int /\ Work' \in Int /\ Work' <= Work
  <2>1. Work' = owed - 1 - 0 + elapsed
    BY <1>1 DEF Work
  <2>2. Work = owed - 1 + elapsed \/ Work = owed - 0 + elapsed
    BY DEF Work
  <2>3. \A a, b \in Nat :
          /\ a - 1 - 0 + b \in Int /\ a - 1 + b \in Int /\ a - 0 + b \in Int
          /\ a - 1 - 0 + b <= a - 1 + b /\ a - 1 - 0 + b <= a - 0 + b
    OBVIOUS
  <2> QED
    BY <1>3, <2>1, <2>2, <2>3
<1>7. Buffered'
  <2> SUFFICES ASSUME NEW p \in DOMAIN snapshots
               PROVE  GoodBuffer(snapshots[p], arrived[p], now, Work',
                                 inGame[p], worldStates)
    BY <1>1 DEF Buffered
  <2> DEFINE w == Work
             v == Work'
  <2>1. GoodBuffer(snapshots[p], arrived[p], now, w, inGame[p], worldStates)
    BY DEF Inv, Buffered
  <2>2. w \in Int /\ v \in Int /\ v <= w
    BY <1>6
  <2> HIDE DEF w, v
  <2>3. snapshots[p] \in Seq(Snapshot) /\ Paced(snapshots[p], now, w)
    BY <2>1 DEF GoodBuffer, IsBuffer
  <2>4. Paced(snapshots[p], now, v)
    BY <1>3, <2>2, <2>3, PaceSlows
  <2>5. GoodBuffer(snapshots[p], arrived[p], now, v, inGame[p], worldStates)
    BY <2>1, <2>4 DEF GoodBuffer
  <2> QED
    BY <2>5 DEF v
<1>8. Drawn'
  <2> SUFFICES ASSUME NEW p \in DOMAIN snapshots, Len(snapshots[p]) >= 2
               PROVE  GoodShown(InterpolatedState(snapshots[p]), snapshots[p],
                                arrived[p], now)
    BY <1>1 DEF Drawn
  <2> DEFINE s == snapshots[p]
             shown == InterpolatedState(s)
  <2>1. IsBuffer(s, arrived[p], now)
    BY DEF Inv, Buffered, GoodBuffer
  <2>2. IsDrawn(shown, s, now - INTERPOLATION_DELAY)
    BY <1>3, <2>1, InterpolatedIsDrawn
  <2> HIDE DEF s, shown
  <2>3. Len(s) >= 2
    BY DEF s
  <2>4. IsShown(shown, s, arrived[p])
    BY <1>3, <2>1, <2>2, <2>3, DrawnIsShown
  <2>5. shown.time = now - INTERPOLATION_DELAY
    BY <2>2 DEF IsDrawn
  <2>6. shown.time <= now - INTERPOLATION_DELAY
    BY <1>3, <2>5, Constants
  <2> QED
    BY <2>4, <2>6 DEF GoodShown, s, shown
<1> QED
  BY <1>5, <1>7, <1>8 DEF Inv

LEMMA InvNext ==
  ASSUME Inv, [Next]_vars
  PROVE  Inv'
<1>1. CASE UNCHANGED vars
  BY <1>1 DEF vars, loopVars, Inv, Loop, Buffered, Drawn, Work
<1>2. CASE Next
  BY <1>2, InvClock, InvBeginFrame, InvReceiveWorldState,
     InvUpdateInterpolation, InvJoin, InvLeave DEF Next
<1> QED
  BY <1>1, <1>2

LEMMA Invariant == Spec => []Inv
<1>1. Init => Inv
  BY InvInit
<1>2. Inv /\ [Next]_vars => Inv'
  BY InvNext
<1> QED
  BY <1>1, <1>2, PTL DEF Spec

-----------------------------------------------------------------------------
(* What follows.                                                           *)

\* Every buffer holds snapshots, everything drawn is a state of a player with
\* a buffer, and a frame owes at most FRAME_CAP ticks.
THEOREM InterpolationTypes == Spec => []TypeOK
<1>1. Inv => TypeOK
  <2> SUFFICES ASSUME Inv PROVE TypeOK
    OBVIOUS
  <2>1. ASSUME NEW p \in DOMAIN snapshots
        PROVE  snapshots[p] \in Seq(Snapshot)
    BY DEF Inv, Buffered, GoodBuffer, IsBuffer
  <2>2. ASSUME NEW p \in DOMAIN remotePlayers
        PROVE  remotePlayers[p] \in Shown
    BY DEF Inv, Drawn, GoodShown, IsShown
  <2> QED
    BY <2>1, <2>2 DEF Inv, Loop, TypeOK
<1> QED
  BY <1>1, Invariant, PTL

\* Whatever the frames and however the world states bunch, a buffer of a
\* second never drops a snapshot that rendering INTERPOLATION_DELAY behind
\* could still ask for.
THEOREM BuffersReachBack == Spec => []BufferReachesBack
<1>1. Inv => BufferReachesBack
  <2> SUFFICES ASSUME Inv, NEW p \in DOMAIN snapshots
               PROVE  LET s == snapshots[p]
                      IN  /\ Len(s) \in 1 .. BUFFER_CAP
                          /\ \A i \in 1 .. Len(s) - 1 :
                               /\ s[i + 1].tick = s[i].tick + 1
                               /\ s[i].timestamp <= s[i + 1].timestamp
                          /\ s[1].timestamp = arrived[p]
                               \/ s[1].timestamp <= now - INTERPOLATION_DELAY
    BY DEF BufferReachesBack
  <2> DEFINE s == snapshots[p]
  <2>1. IsBuffer(s, arrived[p], now)
    BY DEF Inv, Buffered, GoodBuffer
  <2>2. now \in Nat
    BY LoopNumbers DEF Inv
  <2> HIDE DEF s
  <2>3. /\ Len(s) \in 1 .. BUFFER_CAP
        /\ s[1].timestamp = arrived[p]
             \/ s[1].timestamp <= now - INTERPOLATION_DELAY
    BY <2>1 DEF IsBuffer, ReachesBack
  <2>4. ASSUME NEW i \in 1 .. Len(s) - 1
        PROVE  /\ s[i + 1].tick = s[i].tick + 1
               /\ s[i].timestamp <= s[i + 1].timestamp
    <3>1. Len(s) \in Nat
      BY <2>1, <2>2, BufferOrder
    <3>2. i \in 1 .. Len(s) /\ i + 1 \in 1 .. Len(s) /\ i <= i + 1
      BY <3>1
    <3> QED
      BY <2>1, <2>2, <3>2, BufferOrder
  <2>5. /\ Len(s) \in 1 .. BUFFER_CAP
        /\ \A i \in 1 .. Len(s) - 1 :
             /\ s[i + 1].tick = s[i].tick + 1
             /\ s[i].timestamp <= s[i + 1].timestamp
        /\ s[1].timestamp = arrived[p]
             \/ s[1].timestamp <= now - INTERPOLATION_DELAY
    BY <2>3, <2>4
  <2> QED
    BY <2>5 DEF s
<1> QED
  BY <1>1, Invariant, PTL

\* Nothing drawn is older than a snapshot the delay had passed when it was
\* drawn, nor newer than the newest one received: getInterpolatedState shows
\* no player later than it has to and never extrapolates.
THEOREM ShownStaysCurrent == Spec => []ShownIsCurrent
<1>1. Inv => ShownIsCurrent
  <2> SUFFICES ASSUME Inv, NEW p \in DOMAIN remotePlayers
               PROVE  Passed(remotePlayers[p], snapshots[p])
                      /\ Within(remotePlayers[p], snapshots[p])
    BY DEF ShownIsCurrent, Passed, Within, AtMost
  <2> QED
    BY DEF Inv, Drawn, GoodShown, IsShown
<1> QED
  BY <1>1, Invariant, PTL

LEMMA DrawsForward ==
  ASSUME Inv, UpdateInterpolation, NEW p \in DOMAIN remotePlayers, Settled(p)
  PROVE  /\ p \in DOMAIN remotePlayers'
         /\ remotePlayers'[p].position.num * remotePlayers[p].position.den
              >= remotePlayers[p].position.num * remotePlayers'[p].position.den
         /\ remotePlayers'[p].score >= remotePlayers[p].score
<1> DEFINE s == snapshots[p]
           old == remotePlayers[p]
           shown == InterpolatedState(s)
<1>1. remotePlayers' =
        [q \in {r \in DOMAIN snapshots : Len(snapshots[r]) >= 2} |->
           InterpolatedState(snapshots[q])]
  BY DEF UpdateInterpolation
<1>2. p \in DOMAIN snapshots
  BY DEF Inv, Loop
<1>3. IsBuffer(s, arrived[p], now)
  BY <1>2 DEF Inv, Buffered, GoodBuffer
<1>4. /\ IsShown(old, s, arrived[p])
      /\ old.time <= now - INTERPOLATION_DELAY
  BY DEF Inv, Drawn, GoodShown
<1>5. Len(s) >= 2
  BY <1>4 DEF IsShown
<1>6. p \in DOMAIN remotePlayers' /\ remotePlayers'[p] = shown
  BY <1>1, <1>2, <1>5
<1>7. now \in Nat
  BY LoopNumbers DEF Inv
<1>8. IsDrawn(shown, s, now - INTERPOLATION_DELAY)
  BY <1>3, <1>7, InterpolatedIsDrawn
<1>9. old.time >= arrived[p]
  BY DEF Settled
<1> HIDE DEF s, old, shown
<1>10. /\ shown.position.num * old.position.den
            >= old.position.num * shown.position.den
       /\ shown.score >= old.score
  BY <1>3, <1>4, <1>7, <1>8, <1>9, DrawnIsNotBack
<1> QED
  BY <1>6, <1>10 DEF old

\* Once the delay has reached a player's first snapshot, and as long as it is
\* in the game, no step of the client draws it further back than before, and
\* none takes it off the screen, however irregularly the world states come.
THEOREM NobodyMovesBack == Spec => NeverBackwards
<1> DEFINE Step ==
      \A p \in DOMAIN remotePlayers :
        Settled(p) /\ inGame'[p] = "playing" =>
          /\ p \in DOMAIN remotePlayers'
          /\ LET old == remotePlayers[p]
                 new == remotePlayers'[p]
             IN  /\ new.position.num * old.position.den
                      >= old.position.num * new.position.den
                 /\ new.score >= old.score
<1>1. Inv /\ [Next]_vars => [Step]_vars
  <2> SUFFICES ASSUME Inv, Next, NEW p \in DOMAIN remotePlayers, Settled(p)
               PROVE  /\ p \in DOMAIN remotePlayers'
                      /\ remotePlayers'[p].position.num
                             * remotePlayers[p].position.den
                           >= remotePlayers[p].position.num
                                * remotePlayers'[p].position.den
                      /\ remotePlayers'[p].score >= remotePlayers[p].score
    BY DEF Step
  <2>1. CASE UpdateInterpolation
    BY <2>1, DrawsForward
  <2>2. CASE UNCHANGED remotePlayers
    <3> DEFINE n == remotePlayers[p].position.num
               d == remotePlayers[p].position.den
               score == remotePlayers[p].score
    <3>1. n \in Nat /\ d \in Nat /\ score \in Nat
      BY ShownFields DEF Inv, Drawn, GoodShown, IsShown
    <3> HIDE DEF n, d, score
    <3>2. n * d \in Nat
      BY <3>1
    <3> DEFINE m == n * d
    <3>3. m \in Nat
      BY <3>2
    <3> HIDE DEF m
    <3>4. m >= m /\ score >= score
      BY <3>1, <3>3
    <3>5. n * d >= n * d /\ score >= score
      BY <3>4 DEF m
    <3> QED
      BY <2>2, <3>5 DEF n, d, score
  <2> QED
    BY <2>1, <2>2
       DEF Next, Clock, BeginFrame, ReceiveWorldState, Join, Leave
<1> QED
  BY <1>1, Invariant, PTL DEF Spec, NeverBackwards, Step

=============================================================================
