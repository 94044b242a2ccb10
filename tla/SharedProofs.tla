---------------------------- MODULE SharedProofs ----------------------------
(***************************************************************************)
(* What several proofs rest on: the rules of the game, for every world,    *)
(* radius and speed; the least member of a set of naturals; and what       *)
(* sendToClients picks from a batch, for every batch and client.           *)
(***************************************************************************)
EXTENDS GameCommon, SequenceTheorems, WellFoundedInduction, TLAPS

-----------------------------------------------------------------------------
(* The rules.                                                              *)

\* Both assignments of clampPosition together put a coordinate in the world.
LEMMA ClampAxisBounds ==
  ASSUME NEW v \in Int, NEW size \in Nat, 2 * PLAYER_RADIUS <= size
  PROVE  ClampAxis(v, size) \in PLAYER_RADIUS .. (size - PLAYER_RADIUS)
BY WorldAssumption DEF ClampAxis

\* A key moves the player by an integer along each axis.
LEMMA DisplacementType ==
  ASSUME NEW input \in InputState
  PROVE  Displacement(input).x \in Int /\ Displacement(input).y \in Int
<1>1. /\ Direction(input.right, input.left) \in {-1, 0, 1}
      /\ Direction(input.down, input.up) \in {-1, 0, 1}
  BY DEF Direction
<1> QED
  BY <1>1, WorldAssumption DEF Displacement

\* applyInput leaves the player inside the world, wherever it was before and
\* whichever keys are down.
THEOREM StaysInWorld ==
  ASSUME NEW pos \in Vec2, NEW input \in InputState
  PROVE  ApplyInput(pos, input) \in Reachable
<1> DEFINE d == Displacement(input)
<1>1. d.x \in Int /\ d.y \in Int
  BY DisplacementType
<1>2. pos.x + d.x \in Int /\ pos.y + d.y \in Int
  BY <1>1 DEF Vec2
<1>3. /\ ClampAxis(pos.x + d.x, WORLD_WIDTH)
           \in PLAYER_RADIUS .. (WORLD_WIDTH - PLAYER_RADIUS)
      /\ ClampAxis(pos.y + d.y, WORLD_HEIGHT)
           \in PLAYER_RADIUS .. (WORLD_HEIGHT - PLAYER_RADIUS)
  BY <1>2, ClampAxisBounds, WorldAssumption
<1> HIDE DEF d
<1> QED
  BY <1>3 DEF ApplyInput, ClampPosition, Reachable, d

AbsDiff(a, b) == IF a < b THEN b - a ELSE a - b

LEMMA ClampAxisContracts ==
  ASSUME NEW v \in Int, NEW w \in Int, NEW size \in Nat,
         2 * PLAYER_RADIUS <= size
  PROVE  AbsDiff(ClampAxis(v, size), ClampAxis(w, size)) <= AbsDiff(v, w)
BY WorldAssumption DEF ClampAxis, AbsDiff

\* The same keys never take two positions further apart along an axis, walls
\* included: a prediction that starts off wrong does not get worse by moving.
THEOREM SameInputContracts ==
  ASSUME NEW p \in Vec2, NEW q \in Vec2, NEW input \in InputState
  PROVE  /\ AbsDiff(ApplyInput(p, input).x, ApplyInput(q, input).x)
              <= AbsDiff(p.x, q.x)
         /\ AbsDiff(ApplyInput(p, input).y, ApplyInput(q, input).y)
              <= AbsDiff(p.y, q.y)
<1> DEFINE d == Displacement(input)
<1>1. d.x \in Int /\ d.y \in Int
  BY DisplacementType
<1>2. p.x \in Int /\ p.y \in Int /\ q.x \in Int /\ q.y \in Int
  BY DEF Vec2
<1>3. /\ ApplyInput(p, input).x = ClampAxis(p.x + d.x, WORLD_WIDTH)
      /\ ApplyInput(p, input).y = ClampAxis(p.y + d.y, WORLD_HEIGHT)
      /\ ApplyInput(q, input).x = ClampAxis(q.x + d.x, WORLD_WIDTH)
      /\ ApplyInput(q, input).y = ClampAxis(q.y + d.y, WORLD_HEIGHT)
  BY DEF ApplyInput, ClampPosition
<1> HIDE DEF d
<1>4. /\ AbsDiff(p.x + d.x, q.x + d.x) = AbsDiff(p.x, q.x)
      /\ AbsDiff(p.y + d.y, q.y + d.y) = AbsDiff(p.y, q.y)
  BY <1>1, <1>2 DEF AbsDiff
<1>5. AbsDiff(ClampAxis(p.x + d.x, WORLD_WIDTH),
              ClampAxis(q.x + d.x, WORLD_WIDTH))
        <= AbsDiff(p.x + d.x, q.x + d.x)
  BY <1>1, <1>2, ClampAxisContracts, WorldAssumption
<1>6. AbsDiff(ClampAxis(p.y + d.y, WORLD_HEIGHT),
              ClampAxis(q.y + d.y, WORLD_HEIGHT))
        <= AbsDiff(p.y + d.y, q.y + d.y)
  BY <1>1, <1>2, ClampAxisContracts, WorldAssumption
<1> QED
  BY <1>3, <1>4, <1>5, <1>6

-----------------------------------------------------------------------------
(* The least member of a set of naturals.                                  *)

Below == {ss \in Nat \X Nat : ss[1] < ss[2]}

\* What replaces induction: a set of counterexamples has a least one.
LEMMA Least ==
  ASSUME NEW T, T \subseteq Nat, T # {}
  PROVE  \E x \in T : \A y \in T : x <= y
<1>1. IsWellFoundedOn(Below, Nat)
  BY NatLessThanWellFounded DEF OpToRel, Below
<1>2. PICK x \in T : \A y \in T : ~ (<<y, x>> \in Below)
  BY <1>1, WFMin
<1>3. ASSUME NEW y \in T PROVE x <= y
  <2>1. x \in Nat /\ y \in Nat
    OBVIOUS
  <2>2. ~(y < x)
    BY <1>2, <2>1 DEF Below
  <2> QED
    BY <2>1, <2>2
<1> QED
  BY <1>3

-----------------------------------------------------------------------------
(* Queues, cut in two.                                                     *)

LEMMA PartOfQueue ==
  ASSUME NEW S, NEW q \in Seq(S), NEW m \in Nat \ {0}, NEW k \in Nat,
         m <= k + 1, k <= Len(q)
  PROVE  /\ SubSeq(q, m, k) \in Seq(S)
         /\ Len(SubSeq(q, m, k)) = k - m + 1
         /\ \A i \in 1 .. k - m + 1 : SubSeq(q, m, k)[i] = q[m + i - 1]
<1>1. \A i \in m .. k : q[i] \in S
  BY ElementOfSeq
<1>2. k - m + 1 \in Nat /\ (IF m <= k THEN k - m + 1 ELSE 0) = k - m + 1
  OBVIOUS
<1> QED
  BY SMTT(40), <1>1, <1>2, SubSeqProperties

\* The first k packets and the others are the queue.
LEMMA CutQueue ==
  ASSUME NEW S, NEW q \in Seq(S), NEW k \in 0 .. Len(q)
  PROVE  /\ SubSeq(q, 1, k) \in Seq(S) /\ Len(SubSeq(q, 1, k)) = k
         /\ \A i \in 1 .. k : SubSeq(q, 1, k)[i] = q[i]
         /\ SubSeq(q, k + 1, Len(q)) \in Seq(S)
         /\ q = SubSeq(q, 1, k) \o SubSeq(q, k + 1, Len(q))
<1>1. Len(q) \in Nat /\ k \in Nat /\ k <= Len(q) /\ k - 1 + 1 = k
  OBVIOUS
<1>2. /\ SubSeq(q, 1, k) \in Seq(S) /\ Len(SubSeq(q, 1, k)) = k
      /\ \A i \in 1 .. k : SubSeq(q, 1, k)[i] = q[i]
  <2>1. \A i \in 1 .. k : 1 + i - 1 = i
    OBVIOUS
  <2> QED
    BY <1>1, <2>1, PartOfQueue
<1>3. SubSeq(q, k + 1, Len(q)) \in Seq(S)
  BY <1>1, PartOfQueue
<1>4. SubSeq(q, 1, k) \o SubSeq(q, k + 1, Len(q)) = SubSeq(q, 1, Len(q))
  <2>1. /\ 1 \in 1 .. Len(q) + 1 /\ k \in 1 - 1 .. Len(q)
        /\ Len(q) \in k .. Len(q)
    BY <1>1
  <2> QED
    BY <2>1, ConcatAdjacentSubSeq
<1> QED
  BY <1>2, <1>3, <1>4, SubSeqFull

\* A queue is its first k packets, the next one, and the others.
LEMMA NextOfQueue ==
  ASSUME NEW S, NEW q \in Seq(S), NEW k \in 1 .. Len(q)
  PROVE  SubSeq(q, 1, k) = Append(SubSeq(q, 1, k - 1), q[k])
<1>1. Len(q) \in Nat /\ k - 1 \in 0 .. Len(q) /\ 1 \in 1 .. Len(q)
      /\ k \in 1 .. Len(q) /\ q[k] \in S
  BY ElementOfSeq
<1>2. SubSeq(q, 1, k) = SubSeq(q, 1, k - 1) \o <<q[k]>>
  BY <1>1, SubSeqRecursiveSecond
<1>3. SubSeq(q, 1, k - 1) \in Seq(S)
  BY <1>1, CutQueue
<1> QED
  BY <1>1, <1>2, <1>3, AppendIsConcat

-----------------------------------------------------------------------------
(* AddressedTo as a function of the client's id: the recursion it defines  *)
(* has exactly one solution, and so distributes over the batch.            *)

WantedBy(id, m) == m.kind = "world" \/ m.id = id

ForPlayer(id, batch) ==
  LET kept[i \in 0 .. Len(batch)] ==
        IF i = 0 THEN <<>>
        ELSE IF WantedBy(id, batch[i]) THEN Append(kept[i - 1], batch[i])
        ELSE kept[i - 1]
  IN  kept[Len(batch)]

KeptAt(id, batch, before, i) ==
  IF i = 0 THEN <<>>
  ELSE IF WantedBy(id, batch[i]) THEN Append(before, batch[i])
  ELSE before

IsKept(id, batch, F, n) ==
  F = [i \in 0 .. n |-> KeptAt(id, batch, F[i - 1], i)]

\* The equations of the recursion have a solution.
LEMMA KeptExists ==
  ASSUME NEW id, NEW batch, NEW N \in Nat
  PROVE  \E F : IsKept(id, batch, F, N)
<1> DEFINE Bad == {n \in Nat : ~ \E F : IsKept(id, batch, F, n)}
<1>1. SUFFICES ASSUME Bad # {} PROVE FALSE
  OBVIOUS
<1>2. PICK n \in Bad : \A m \in Bad : n <= m
  BY <1>1, Least
<1>3. n \in Nat
  OBVIOUS
<1>4. CASE n = 0
  <2> DEFINE F == [i \in 0 .. 0 |-> <<>>]
  <2>1. IsKept(id, batch, F, 0)
    BY DEF IsKept, KeptAt
  <2> QED
    BY <1>4, <2>1
<1>5. CASE n # 0
  <2>1. n - 1 \in Nat /\ n - 1 \notin Bad
    BY <1>2, <1>3, <1>5
  <2>2. PICK F : IsKept(id, batch, F, n - 1)
    BY <2>1
  <2> DEFINE G == [i \in 0 .. n |-> IF i < n THEN F[i]
                                    ELSE KeptAt(id, batch, F[n - 1], n)]
  <2>3. ASSUME NEW i \in 0 .. n
        PROVE  G[i] = KeptAt(id, batch, G[i - 1], i)
    <3>1. CASE i = n
      <4>1. G[n - 1] = F[n - 1]
        BY <1>3, <2>1
      <4> QED
        BY <3>1, <4>1, <1>3
    <3>2. CASE i = 0
      <4>1. G[0] = F[0] /\ F[0] = <<>>
        BY <2>1, <2>2 DEF IsKept, KeptAt
      <4> QED
        BY <3>2, <4>1 DEF KeptAt
    <3>3. CASE i # 0 /\ i # n
      <4>1. i \in 1 .. n - 1 /\ i - 1 \in 0 .. n - 1
        BY <3>3, <1>3
      <4>2. G[i] = F[i] /\ G[i - 1] = F[i - 1]
        BY <4>1, <1>3
      <4>3. F[i] = KeptAt(id, batch, F[i - 1], i)
        BY <4>1, <2>2 DEF IsKept
      <4> QED
        BY <4>2, <4>3
    <3> QED
      BY <3>1, <3>2, <3>3
  <2>4. IsKept(id, batch, G, n)
    <3>1. G = [i \in 0 .. n |-> G[i]]
      OBVIOUS
    <3> HIDE DEF G
    <3> QED
      BY <2>3, <3>1 DEF IsKept
  <2> QED
    BY <2>4
<1> QED
  BY <1>4, <1>5

Kept(id, batch) == CHOOSE F : IsKept(id, batch, F, Len(batch))

\* ForPlayer is its last value, and it satisfies the equations.
LEMMA KeptEquations ==
  ASSUME NEW id, NEW S, NEW batch \in Seq(S)
  PROVE  /\ ForPlayer(id, batch) = Kept(id, batch)[Len(batch)]
         /\ \A i \in 0 .. Len(batch) :
              Kept(id, batch)[i]
                = KeptAt(id, batch, Kept(id, batch)[i - 1], i)
<1>1. Len(batch) \in Nat
  OBVIOUS
<1>2. IsKept(id, batch, Kept(id, batch), Len(batch))
  BY <1>1, KeptExists DEF Kept
<1>3. ForPlayer(id, batch) = Kept(id, batch)[Len(batch)]
  BY DEF ForPlayer, Kept, IsKept, KeptAt
<1> QED
  BY <1>2, <1>3 DEF IsKept

\* Batches that begin alike are kept alike up to there.
LEMMA KeptAgree ==
  ASSUME NEW id, NEW S, NEW a \in Seq(S), NEW b \in Seq(S),
         NEW n \in Nat, n <= Len(a), n <= Len(b),
         \A i \in 1 .. n : a[i] = b[i]
  PROVE  Kept(id, a)[n] = Kept(id, b)[n]
<1> DEFINE F == Kept(id, a)
           G == Kept(id, b)
           Bad == {i \in 0 .. n : F[i] # G[i]}
<1>1. /\ Len(a) \in Nat /\ Len(b) \in Nat
      /\ \A i \in 0 .. n : F[i] = KeptAt(id, a, F[i - 1], i)
      /\ \A i \in 0 .. n : G[i] = KeptAt(id, b, G[i - 1], i)
  BY KeptEquations
<1> HIDE DEF F, G
<1>2. ASSUME Bad # {} PROVE FALSE
  <2>0. Bad \subseteq Nat
    OBVIOUS
  <2>1. PICK k \in Bad : \A m \in Bad : k <= m
    BY <1>2, <2>0, Least
  <2>2. k \in 0 .. n /\ F[k] # G[k]
    OBVIOUS
  <2>3. k # 0
    BY <1>1, <2>2 DEF KeptAt
  <2>4. k \in 1 .. n /\ k - 1 \in 0 .. n /\ k - 1 \notin Bad
    BY <2>1, <2>2, <2>3
  <2>5. F[k - 1] = G[k - 1] /\ a[k] = b[k]
    BY <2>4
  <2> QED
    BY <1>1, <2>2, <2>5 DEF KeptAt
<1> QED
  BY <1>2 DEF F, G

LEMMA ForPlayerEmpty ==
  ASSUME NEW id
  PROVE  ForPlayer(id, <<>>) = <<>>
<1> DEFINE F == Kept(id, <<>>)
<1>1. <<>> \in Seq({}) /\ Len(<<>>) = 0 /\ 0 \in 0 .. 0
  OBVIOUS
<1>2. ForPlayer(id, <<>>) = F[Len(<<>>)]
  BY <1>1, KeptEquations
<1>3. \A i \in 0 .. Len(<<>>) : F[i] = KeptAt(id, <<>>, F[i - 1], i)
  BY <1>1, KeptEquations
<1> HIDE DEF F
<1>4. F[0] = KeptAt(id, <<>>, F[0 - 1], 0)
  BY <1>1, <1>3
<1>5. KeptAt(id, <<>>, F[0 - 1], 0) = <<>>
  BY DEF KeptAt
<1> QED
  BY <1>1, <1>2, <1>4, <1>5

\* One packet more in the batch is at most one packet more to send.
LEMMA ForPlayerAppend ==
  ASSUME NEW id, NEW S, NEW batch \in Seq(S), NEW m \in S
  PROVE  ForPlayer(id, Append(batch, m))
           = IF WantedBy(id, m) THEN Append(ForPlayer(id, batch), m)
                                ELSE ForPlayer(id, batch)
<1> DEFINE n == Len(batch)
           longer == Append(batch, m)
<1>1. /\ n \in Nat /\ longer \in Seq(S) /\ Len(longer) = n + 1
      /\ \A i \in 1 .. n : longer[i] = batch[i]
      /\ longer[n + 1] = m
  BY AppendProperties
<1> HIDE DEF longer
<1>2. Kept(id, longer)[n] = Kept(id, batch)[n]
  <2>1. n <= Len(longer) /\ n <= Len(batch)
    BY <1>1
  <2> QED
    BY <1>1, <2>1, KeptAgree
<1>3. /\ ForPlayer(id, batch) = Kept(id, batch)[n]
      /\ ForPlayer(id, longer) = Kept(id, longer)[n + 1]
      /\ Kept(id, longer)[n + 1]
           = KeptAt(id, longer, Kept(id, longer)[n + 1 - 1], n + 1)
  <2>1. n + 1 \in 0 .. Len(longer)
    BY <1>1
  <2>2. ForPlayer(id, longer) = Kept(id, longer)[Len(longer)]
    BY <1>1, KeptEquations
  <2>3. \A i \in 0 .. Len(longer) :
          Kept(id, longer)[i] = KeptAt(id, longer, Kept(id, longer)[i - 1], i)
    BY <1>1, KeptEquations
  <2> QED
    BY <1>1, <2>1, <2>2, <2>3, KeptEquations
<1>4. n + 1 - 1 = n /\ n + 1 # 0
  BY <1>1
<1> QED
  BY <1>1, <1>2, <1>3, <1>4 DEF KeptAt, longer

\* What is kept are packets of the batch, and wanted.
LEMMA ForPlayerType ==
  ASSUME NEW id, NEW S, NEW batch \in Seq(S)
  PROVE  ForPlayer(id, batch) \in Seq({m \in S : WantedBy(id, m)})
<1> DEFINE T == {m \in S : WantedBy(id, m)}
           F == Kept(id, batch)
           N == Len(batch)
           Bad == {n \in 0 .. N : F[n] \notin Seq(T)}
<1>1. N \in Nat /\ \A i \in 1 .. N : batch[i] \in S
  OBVIOUS
<1>2. \A i \in 0 .. N : F[i] = KeptAt(id, batch, F[i - 1], i)
  BY KeptEquations
<1>3. \A i \in 1 .. N : WantedBy(id, batch[i]) => batch[i] \in T
  BY <1>1
<1>4. ForPlayer(id, batch) = F[N]
  BY KeptEquations
<1> HIDE DEF F, N, T
<1>5. ASSUME Bad # {} PROVE FALSE
  <2>0. Bad \subseteq Nat
    BY <1>1
  <2>1. PICK n \in Bad : \A m \in Bad : n <= m
    BY <1>5, <2>0, Least
  <2>2. n \in 0 .. N /\ F[n] \notin Seq(T)
    OBVIOUS
  <2>3. n # 0
    <3>1. <<>> \in Seq(T)
      OBVIOUS
    <3> QED
      BY <1>2, <2>2, <3>1 DEF KeptAt
  <2>4. n \in 1 .. N /\ n - 1 \in 0 .. N /\ n - 1 \notin Bad
    BY <1>1, <2>1, <2>2, <2>3
  <2>5. F[n - 1] \in Seq(T)
    BY <2>4
  <2>6. WantedBy(id, batch[n]) => Append(F[n - 1], batch[n]) \in Seq(T)
    BY <1>3, <2>4, <2>5
  <2> QED
    BY <1>2, <2>2, <2>3, <2>5, <2>6 DEF KeptAt
<1>6. F[N] \in Seq(T)
  BY <1>5, <1>1
<1> QED
  BY <1>4, <1>6 DEF T

\* Sending a batch in two parts is sending it.
LEMMA ForPlayerConcat ==
  ASSUME NEW id, NEW S, NEW a \in Seq(S), NEW b \in Seq(S)
  PROVE  ForPlayer(id, a \o b) = ForPlayer(id, a) \o ForPlayer(id, b)
<1> DEFINE first(n) == SubSeq(b, 1, n)
           Holds(n) == ForPlayer(id, a \o first(n))
                         = ForPlayer(id, a) \o ForPlayer(id, first(n))
           Bad == {n \in 0 .. Len(b) : ~ Holds(n)}
<1>1. Len(b) \in Nat
  OBVIOUS
<1>2. ForPlayer(id, a) \in Seq(S)
  <2> DEFINE T == {m \in S : WantedBy(id, m)}
  <2>1. ForPlayer(id, a) \in Seq(T)
    BY ForPlayerType
  <2> HIDE DEF T
  <2>2. T \subseteq S
    BY DEF T
  <2> QED
    BY <2>1, <2>2, SeqMonotonic
<1>3. \A n \in 0 .. Len(b) : first(n) \in Seq(S)
  BY CutQueue
<1>4. \A n \in 0 .. Len(b) : ForPlayer(id, first(n)) \in Seq(S)
  <2> SUFFICES ASSUME NEW n \in 0 .. Len(b)
               PROVE  ForPlayer(id, first(n)) \in Seq(S)
    OBVIOUS
  <2> DEFINE T == {m \in S : WantedBy(id, m)}
  <2>1. first(n) \in Seq(S)
    BY <1>3
  <2>2. ForPlayer(id, first(n)) \in Seq(T)
    BY <2>1, ForPlayerType
  <2> HIDE DEF T
  <2>3. T \subseteq S
    BY DEF T
  <2> QED
    BY <2>2, <2>3, SeqMonotonic
<1>5. Holds(0)
  <2>1. first(0) = <<>>
    BY SubSeqEmpty
  <2>2. a \o <<>> = a /\ ForPlayer(id, a) \o <<>> = ForPlayer(id, a)
    BY <1>2, ConcatEmptySeq
  <2> QED
    BY <2>1, <2>2, ForPlayerEmpty
<1>6. ASSUME NEW n \in 1 .. Len(b), Holds(n - 1) PROVE Holds(n)
  <2> DEFINE u == first(n - 1)
             m == b[n]
  <2>1. n - 1 \in 0 .. Len(b) /\ u \in Seq(S) /\ m \in S
    BY <1>1, <1>3
  <2>2. first(n) = Append(u, m)
    BY NextOfQueue
  <2>3. ForPlayer(id, u) \in Seq(S)
    BY <1>4, <2>1
  <2>4. ForPlayer(id, a \o u) = ForPlayer(id, a) \o ForPlayer(id, u)
    BY <1>6
  <2> HIDE DEF u, m, first
  <2>5. a \o Append(u, m) = Append(a \o u, m) /\ a \o u \in Seq(S)
    BY <2>1
  <2>6. ForPlayer(id, a) \o Append(ForPlayer(id, u), m)
          = Append(ForPlayer(id, a) \o ForPlayer(id, u), m)
    BY <1>2, <2>1, <2>3
  <2>7. /\ ForPlayer(id, Append(a \o u, m))
             = IF WantedBy(id, m) THEN Append(ForPlayer(id, a \o u), m)
                                  ELSE ForPlayer(id, a \o u)
        /\ ForPlayer(id, Append(u, m))
             = IF WantedBy(id, m) THEN Append(ForPlayer(id, u), m)
                                  ELSE ForPlayer(id, u)
    BY <2>1, <2>5, ForPlayerAppend
  <2> QED
    BY <2>2, <2>4, <2>5, <2>6, <2>7
<1>7. Holds(Len(b))
  <2> HIDE DEF Holds
  <2>1. ASSUME Bad # {} PROVE FALSE
    <3>0. Bad \subseteq Nat
      BY <1>1
    <3>1. PICK n \in Bad : \A m \in Bad : n <= m
      BY <2>1, <3>0, Least
    <3>2. n \in 0 .. Len(b) /\ ~Holds(n)
      OBVIOUS
    <3>3. n \in 1 .. Len(b)
      BY <1>1, <1>5, <3>2
    <3>4. n - 1 \in 0 .. Len(b) /\ n - 1 \notin Bad
      BY <1>1, <3>1, <3>3
    <3> QED
      BY <1>6, <3>2, <3>3, <3>4
  <2> QED
    BY <1>1, <2>1
<1> QED
  BY <1>7, SubSeqFull

=============================================================================
