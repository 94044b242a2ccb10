--------------------------- MODULE PredictionProofs ---------------------------
(***************************************************************************)
(* Prediction for every world, cap, threshold and bound: what the history  *)
(* holds although reconcile() is handed the server's tick, that no input   *)
(* is replayed twice, and when a world state can take the prediction       *)
(* further from the server.                                                *)
(***************************************************************************)
EXTENDS Prediction, SharedProofs

-----------------------------------------------------------------------------
(* Replay: the recursion it defines has exactly one solution, so it takes  *)
(* the entries one at a time from either end.                              *)

PositionAt(position, entries, before, i) ==
  IF i = 0 THEN position ELSE ApplyInput(before, entries[i].input)

ArePositions(position, entries, F, n) ==
  F = [i \in 0 .. n |-> PositionAt(position, entries, F[i - 1], i)]

\* The equations of the recursion have a solution.
LEMMA PositionsExist ==
  ASSUME NEW position, NEW entries, NEW N \in Nat
  PROVE  \E F : ArePositions(position, entries, F, N)
<1> DEFINE Bad == {n \in Nat : ~ \E F : ArePositions(position, entries, F, n)}
<1>1. SUFFICES ASSUME Bad # {} PROVE FALSE
  OBVIOUS
<1>2. PICK n \in Bad : \A m \in Bad : n <= m
  BY <1>1, Least
<1>3. n \in Nat
  OBVIOUS
<1>4. CASE n = 0
  <2> DEFINE F == [i \in 0 .. 0 |-> position]
  <2>1. ArePositions(position, entries, F, 0)
    BY DEF ArePositions, PositionAt
  <2> QED
    BY <1>4, <2>1
<1>5. CASE n # 0
  <2>1. n - 1 \in Nat /\ n - 1 \notin Bad
    BY <1>2, <1>3, <1>5
  <2>2. PICK F : ArePositions(position, entries, F, n - 1)
    BY <2>1
  <2> DEFINE G == [i \in 0 .. n |->
                     IF i < n THEN F[i]
                     ELSE PositionAt(position, entries, F[n - 1], n)]
  <2>3. ASSUME NEW i \in 0 .. n
        PROVE  G[i] = PositionAt(position, entries, G[i - 1], i)
    <3>1. CASE i = n
      <4>1. G[n - 1] = F[n - 1]
        BY <1>3, <2>1
      <4> QED
        BY <3>1, <4>1, <1>3
    <3>2. CASE i = 0
      <4>1. G[0] = F[0] /\ F[0] = position
        BY <2>1, <2>2 DEF ArePositions, PositionAt
      <4> QED
        BY <3>2, <4>1 DEF PositionAt
    <3>3. CASE i # 0 /\ i # n
      <4>1. i \in 1 .. n - 1 /\ i - 1 \in 0 .. n - 1
        BY <3>3, <1>3
      <4>2. G[i] = F[i] /\ G[i - 1] = F[i - 1]
        BY <4>1, <1>3
      <4>3. F[i] = PositionAt(position, entries, F[i - 1], i)
        BY <4>1, <2>2 DEF ArePositions
      <4> QED
        BY <4>2, <4>3
    <3> QED
      BY <3>1, <3>2, <3>3
  <2>4. ArePositions(position, entries, G, n)
    <3>1. G = [i \in 0 .. n |-> G[i]]
      OBVIOUS
    <3> HIDE DEF G
    <3> QED
      BY <2>3, <3>1 DEF ArePositions
  <2> QED
    BY <2>4
<1> QED
  BY <1>4, <1>5

Positions(position, entries) ==
  CHOOSE F : ArePositions(position, entries, F, Len(entries))

\* Replay is their last value, and they satisfy the equations.
LEMMA PositionsEquations ==
  ASSUME NEW position, NEW S, NEW entries \in Seq(S)
  PROVE  /\ Replay(position, entries)
              = Positions(position, entries)[Len(entries)]
         /\ \A i \in 0 .. Len(entries) :
              Positions(position, entries)[i]
                = PositionAt(position, entries,
                             Positions(position, entries)[i - 1], i)
<1>1. Len(entries) \in Nat
  OBVIOUS
<1>2. ArePositions(position, entries, Positions(position, entries),
                   Len(entries))
  BY <1>1, PositionsExist DEF Positions
<1>3. Replay(position, entries) = Positions(position, entries)[Len(entries)]
  BY DEF Replay, Positions, ArePositions, PositionAt
<1> QED
  BY <1>2, <1>3 DEF ArePositions

\* Entries that begin with the same inputs lead to the same positions.
LEMMA PositionsAgree ==
  ASSUME NEW position, NEW S, NEW a \in Seq(S), NEW T, NEW b \in Seq(T),
         NEW n \in Nat, n <= Len(a), n <= Len(b),
         \A i \in 1 .. n : a[i].input = b[i].input
  PROVE  Positions(position, a)[n] = Positions(position, b)[n]
<1> DEFINE F == Positions(position, a)
           G == Positions(position, b)
           Bad == {i \in 0 .. n : F[i] # G[i]}
<1>1. /\ Len(a) \in Nat /\ Len(b) \in Nat
      /\ \A i \in 0 .. n : F[i] = PositionAt(position, a, F[i - 1], i)
      /\ \A i \in 0 .. n : G[i] = PositionAt(position, b, G[i - 1], i)
  BY PositionsEquations
<1> HIDE DEF F, G
<1>2. ASSUME Bad # {} PROVE FALSE
  <2>0. Bad \subseteq Nat
    OBVIOUS
  <2>1. PICK k \in Bad : \A m \in Bad : k <= m
    BY <1>2, <2>0, Least
  <2>2. k \in 0 .. n /\ F[k] # G[k]
    OBVIOUS
  <2>3. k # 0
    BY <1>1, <2>2 DEF PositionAt
  <2>4. k \in 1 .. n /\ k - 1 \in 0 .. n /\ k - 1 \notin Bad
    BY <2>1, <2>2, <2>3
  <2>5. F[k - 1] = G[k - 1] /\ a[k].input = b[k].input
    BY <2>4
  <2> QED
    BY <1>1, <2>2, <2>5 DEF PositionAt
<1> QED
  BY <1>2 DEF F, G

LEMMA ReplayEmpty ==
  ASSUME NEW position
  PROVE  Replay(position, <<>>) = position
<1> DEFINE F == Positions(position, <<>>)
<1>1. <<>> \in Seq({}) /\ Len(<<>>) = 0 /\ 0 \in 0 .. 0
  OBVIOUS
<1>2. Replay(position, <<>>) = F[Len(<<>>)]
  BY <1>1, PositionsEquations
<1>3. \A i \in 0 .. Len(<<>>) :
        F[i] = PositionAt(position, <<>>, F[i - 1], i)
  BY <1>1, PositionsEquations
<1> HIDE DEF F
<1>4. F[0] = PositionAt(position, <<>>, F[0 - 1], 0)
  BY <1>1, <1>3
<1>5. PositionAt(position, <<>>, F[0 - 1], 0) = position
  BY DEF PositionAt
<1> QED
  BY <1>1, <1>2, <1>4, <1>5

\* One input more is applied last.
LEMMA ReplayAppend ==
  ASSUME NEW position, NEW S, NEW entries \in Seq(S), NEW e \in S
  PROVE  Replay(position, Append(entries, e))
           = ApplyInput(Replay(position, entries), e.input)
<1> DEFINE n == Len(entries)
           longer == Append(entries, e)
<1>1. /\ n \in Nat /\ longer \in Seq(S) /\ Len(longer) = n + 1
      /\ \A i \in 1 .. n : longer[i] = entries[i]
      /\ longer[n + 1] = e
  BY AppendProperties
<1> HIDE DEF longer
<1>2. Positions(position, longer)[n] = Positions(position, entries)[n]
  <2>1. n <= Len(longer) /\ n <= Len(entries)
    BY <1>1
  <2>2. \A i \in 1 .. n : longer[i].input = entries[i].input
    BY <1>1
  <2> QED
    BY <1>1, <2>1, <2>2, PositionsAgree
<1>3. /\ Replay(position, entries) = Positions(position, entries)[n]
      /\ Replay(position, longer) = Positions(position, longer)[n + 1]
      /\ Positions(position, longer)[n + 1]
           = PositionAt(position, longer,
                        Positions(position, longer)[n + 1 - 1], n + 1)
  <2>1. n + 1 \in 0 .. Len(longer)
    BY <1>1
  <2>2. Replay(position, longer) = Positions(position, longer)[Len(longer)]
    BY <1>1, PositionsEquations
  <2>3. \A i \in 0 .. Len(longer) :
          Positions(position, longer)[i]
            = PositionAt(position, longer, Positions(position, longer)[i - 1],
                         i)
    BY <1>1, PositionsEquations
  <2> QED
    BY <1>1, <2>1, <2>2, <2>3, PositionsEquations
<1>4. n + 1 - 1 = n /\ n + 1 # 0
  BY <1>1
<1> QED
  BY <1>1, <1>2, <1>3, <1>4 DEF PositionAt, longer

\* The first input can be applied ahead of the others.
LEMMA ReplayTail ==
  ASSUME NEW position, NEW S, NEW entries \in Seq(S), entries # <<>>
  PROVE  Replay(position, entries)
           = Replay(ApplyInput(position, Head(entries).input), Tail(entries))
<1> DEFINE rest == Tail(entries)
           moved == ApplyInput(position, Head(entries).input)
           F == Positions(position, entries)
           G == Positions(moved, rest)
           n == Len(rest)
           Bad == {i \in 0 .. n : F[i + 1] # G[i]}
<1>1. /\ rest \in Seq(S) /\ n \in Nat /\ Len(entries) = n + 1
      /\ \A i \in 1 .. n : rest[i] = entries[i + 1]
      /\ Head(entries) = entries[1]
  BY HeadTailProperties
<1>2. /\ \A i \in 0 .. n + 1 : F[i] = PositionAt(position, entries, F[i - 1], i)
      /\ Replay(position, entries) = F[n + 1]
  BY <1>1, PositionsEquations
<1>3. /\ \A i \in 0 .. n : G[i] = PositionAt(moved, rest, G[i - 1], i)
      /\ Replay(moved, rest) = G[n]
  BY ZenonT(40), <1>1, PositionsEquations
<1>4. moved = ApplyInput(position, entries[1].input)
  BY <1>1
<1> HIDE DEF F, G, n, rest, moved
<1>5. F[1] = moved /\ G[0] = moved
  <2>1. 0 \in 0 .. n + 1 /\ 1 \in 0 .. n + 1 /\ 0 \in 0 .. n
    BY <1>1
  <2>2. F[0] = position
    BY <1>2, <2>1 DEF PositionAt
  <2>3. F[1] = PositionAt(position, entries, F[1 - 1], 1)
    BY <1>2, <2>1
  <2>4. G[0] = moved
    BY <1>3, <2>1 DEF PositionAt
  <2> QED
    BY <1>4, <2>2, <2>3, <2>4 DEF PositionAt
<1>6. ASSUME Bad # {} PROVE FALSE
  <2>0. Bad \subseteq Nat
    BY <1>1
  <2>1. PICK k \in Bad : \A m \in Bad : k <= m
    BY <1>6, <2>0, Least
  <2>2. k \in 0 .. n /\ F[k + 1] # G[k]
    OBVIOUS
  <2>3. k # 0
    BY <1>5, <2>2
  <2>4. k \in 1 .. n /\ k - 1 \in 0 .. n /\ k - 1 \notin Bad
    BY <1>1, <2>1, <2>2, <2>3
  <2>5. F[k] = G[k - 1] /\ rest[k] = entries[k + 1]
    BY <1>1, <2>4
  <2>6. F[k + 1] = ApplyInput(F[k], entries[k + 1].input)
    <3>1. k + 1 \in 0 .. n + 1 /\ k + 1 # 0 /\ k + 1 - 1 = k
      BY <1>1, <2>4
    <3> QED
      BY <1>2, <3>1 DEF PositionAt
  <2>7. G[k] = ApplyInput(G[k - 1], rest[k].input)
    BY <1>1, <1>3, <2>2, <2>3 DEF PositionAt
  <2> QED
    BY <2>2, <2>5, <2>6, <2>7
<1>7. F[n + 1] = G[n]
  BY <1>1, <1>6
<1> QED
  BY <1>2, <1>3, <1>7 DEF rest, moved

LEMMA ReachableIsVec2 == Reachable \subseteq Vec2
BY WorldAssumption DEF Reachable, Vec2

\* A replay ends inside the world.
LEMMA ReplayType ==
  ASSUME NEW position \in Reachable, NEW S, NEW entries \in Seq(S),
         \A e \in S : e.input \in InputState
  PROVE  Replay(position, entries) \in Reachable
<1> DEFINE F == Positions(position, entries)
           n == Len(entries)
           Bad == {i \in 0 .. n : F[i] \notin Reachable}
<1>1. /\ n \in Nat /\ \A i \in 1 .. n : entries[i].input \in InputState
      /\ \A i \in 0 .. n : F[i] = PositionAt(position, entries, F[i - 1], i)
      /\ Replay(position, entries) = F[n]
  BY PositionsEquations
<1> HIDE DEF F, n
<1>2. ASSUME Bad # {} PROVE FALSE
  <2>0. Bad \subseteq Nat
    BY <1>1
  <2>1. PICK k \in Bad : \A m \in Bad : k <= m
    BY <1>2, <2>0, Least
  <2>2. k \in 0 .. n /\ F[k] \notin Reachable
    OBVIOUS
  <2>3. k # 0
    BY <1>1, <2>2 DEF PositionAt
  <2>4. k \in 1 .. n /\ k - 1 \in 0 .. n /\ k - 1 \notin Bad
    BY <1>1, <2>1, <2>2, <2>3
  <2>5. F[k - 1] \in Reachable /\ entries[k].input \in InputState
    BY <1>1, <2>4
  <2>6. F[k] = ApplyInput(F[k - 1], entries[k].input)
    BY <1>1, <2>2, <2>3 DEF PositionAt
  <2>7. ApplyInput(F[k - 1], entries[k].input) \in Reachable
    BY <2>5, ReachableIsVec2, StaysInWorld
  <2> QED
    BY <2>2, <2>6, <2>7
<1> QED
  BY <1>1, <1>2

-----------------------------------------------------------------------------
(* How far one input, a replay and two replays can come apart.             *)

\* No further apart than far along either axis.
Near(p, q, far) ==
  AbsDiff(p.x, q.x) <= far /\ AbsDiff(p.y, q.y) <= far

Far(n) == Stride * n

LEMMA FarSteps ==
  ASSUME NEW n \in Nat
  PROVE  /\ Stride \in Nat /\ Far(n) \in Nat /\ Far(0) = 0
         /\ Far(n + 1) = Far(n) + Stride
<1>1. Stride \in Nat
  BY WorldAssumption DEF Stride
<1> HIDE DEF Stride
<1> QED
  BY <1>1 DEF Far

LEMMA NearSame ==
  ASSUME NEW p \in Reachable, NEW far \in Nat
  PROVE  Near(p, p, far)
<1>1. p.x \in Int /\ p.y \in Int
  BY ReachableIsVec2 DEF Vec2
<1> QED
  BY <1>1 DEF Near, AbsDiff

LEMMA NearReversed ==
  ASSUME NEW p \in Reachable, NEW q \in Reachable, NEW far \in Nat,
         Near(p, q, far)
  PROVE  Near(q, p, far)
<1>1. p.x \in Int /\ p.y \in Int /\ q.x \in Int /\ q.y \in Int
  BY ReachableIsVec2 DEF Vec2
<1> QED
  BY <1>1 DEF Near, AbsDiff

LEMMA NearTriangle ==
  ASSUME NEW p \in Reachable, NEW q \in Reachable, NEW r \in Reachable,
         NEW a \in Nat, NEW b \in Nat, Near(p, q, a), Near(q, r, b)
  PROVE  Near(p, r, a + b)
<1>1. /\ p.x \in Int /\ p.y \in Int /\ q.x \in Int /\ q.y \in Int
      /\ r.x \in Int /\ r.y \in Int
  BY ReachableIsVec2 DEF Vec2
<1> QED
  BY <1>1 DEF Near, AbsDiff

LEMMA ClampAxisMoves ==
  ASSUME NEW v \in Int, NEW d \in Int, NEW far \in Nat, NEW size \in Nat,
         2 * PLAYER_RADIUS <= size,
         PLAYER_RADIUS <= v, v <= size - PLAYER_RADIUS,
         - far <= d, d <= far
  PROVE  AbsDiff(ClampAxis(v + d, size), v) <= far
BY WorldAssumption DEF ClampAxis, AbsDiff

\* One input moves a player that is in the world by a step at most.
LEMMA InputStrides ==
  ASSUME NEW p \in Reachable, NEW input \in InputState
  PROVE  Near(ApplyInput(p, input), p, Stride)
<1> DEFINE d == Displacement(input)
<1>1. /\ Direction(input.right, input.left) \in {-1, 0, 1}
      /\ Direction(input.down, input.up) \in {-1, 0, 1}
  BY DEF Direction
<1>2. /\ d.x \in Int /\ - Stride <= d.x /\ d.x <= Stride
      /\ d.y \in Int /\ - Stride <= d.y /\ d.y <= Stride
  BY <1>1, WorldAssumption DEF Displacement, Stride
<1>3. Stride \in Nat
  BY WorldAssumption DEF Stride
<1> HIDE DEF d
<1>4. /\ p.x \in Int /\ PLAYER_RADIUS <= p.x
      /\ p.x <= WORLD_WIDTH - PLAYER_RADIUS
      /\ p.y \in Int /\ PLAYER_RADIUS <= p.y
      /\ p.y <= WORLD_HEIGHT - PLAYER_RADIUS
  BY WorldAssumption DEF Reachable
<1>5. /\ AbsDiff(ClampAxis(p.x + d.x, WORLD_WIDTH), p.x) <= Stride
      /\ AbsDiff(ClampAxis(p.y + d.y, WORLD_HEIGHT), p.y) <= Stride
  BY <1>2, <1>3, <1>4, ClampAxisMoves, WorldAssumption
<1>6. /\ ApplyInput(p, input).x = ClampAxis(p.x + d.x, WORLD_WIDTH)
      /\ ApplyInput(p, input).y = ClampAxis(p.y + d.y, WORLD_HEIGHT)
  BY DEF ApplyInput, ClampPosition, d
<1> QED
  BY <1>5, <1>6 DEF Near

LEMMA SameInputNear ==
  ASSUME NEW p \in Reachable, NEW q \in Reachable, NEW input \in InputState,
         NEW far \in Nat, Near(p, q, far)
  PROVE  Near(ApplyInput(p, input), ApplyInput(q, input), far)
<1>1. /\ AbsDiff(ApplyInput(p, input).x, ApplyInput(q, input).x)
           <= AbsDiff(p.x, q.x)
      /\ AbsDiff(ApplyInput(p, input).y, ApplyInput(q, input).y)
           <= AbsDiff(p.y, q.y)
  BY ReachableIsVec2, SameInputContracts
<1>2. ApplyInput(p, input) \in Reachable /\ ApplyInput(q, input) \in Reachable
  BY ReachableIsVec2, StaysInWorld
<1>3. /\ AbsDiff(ApplyInput(p, input).x, ApplyInput(q, input).x) \in Int
      /\ AbsDiff(ApplyInput(p, input).y, ApplyInput(q, input).y) \in Int
      /\ AbsDiff(p.x, q.x) \in Int /\ AbsDiff(p.y, q.y) \in Int
  <2>1. /\ p.x \in Int /\ p.y \in Int /\ q.x \in Int /\ q.y \in Int
        /\ ApplyInput(p, input).x \in Int /\ ApplyInput(p, input).y \in Int
        /\ ApplyInput(q, input).x \in Int /\ ApplyInput(q, input).y \in Int
    BY <1>2, ReachableIsVec2 DEF Vec2
  <2> QED
    BY <2>1 DEF AbsDiff
<1> QED
  BY <1>1, <1>3 DEF Near

\* After i entries the player is at most i steps away.
LEMMA PositionsStride ==
  ASSUME NEW position \in Reachable, NEW S, NEW entries \in Seq(S),
         \A e \in S : e.input \in InputState, NEW i \in 0 .. Len(entries)
  PROVE  /\ Positions(position, entries)[i] \in Reachable
         /\ Near(Positions(position, entries)[i], position, Far(i))
<1> DEFINE F == Positions(position, entries)
           n == Len(entries)
           Bad == {j \in 0 .. n : ~ (/\ F[j] \in Reachable
                                     /\ Near(F[j], position, Far(j)))}
<1>1. /\ n \in Nat /\ \A j \in 1 .. n : entries[j].input \in InputState
      /\ \A j \in 0 .. n : F[j] = PositionAt(position, entries, F[j - 1], j)
  BY PositionsEquations
<1> HIDE DEF F, n
<1>2. ASSUME Bad # {} PROVE FALSE
  <2>0. Bad \subseteq Nat
    OBVIOUS
  <2>1. PICK k \in Bad : \A m \in Bad : k <= m
    BY <1>2, <2>0, Least
  <2>2. /\ k \in 0 .. n
        /\ ~ (F[k] \in Reachable /\ Near(F[k], position, Far(k)))
    OBVIOUS
  <2>3. k # 0
    <3>1. ASSUME k = 0 PROVE FALSE
      <4>1. F[0] = position
        BY <1>1, <2>2, <3>1 DEF PositionAt
      <4>2. Near(position, position, Far(0))
        BY NearSame, FarSteps
      <4> QED
        BY <2>2, <3>1, <4>1, <4>2
    <3> QED
      BY <3>1
  <2>4. k \in 1 .. n /\ k - 1 \in 0 .. n /\ k - 1 \notin Bad /\ k - 1 \in Nat
    BY <1>1, <2>1, <2>2, <2>3
  <2>5. /\ F[k - 1] \in Reachable /\ Near(F[k - 1], position, Far(k - 1))
        /\ entries[k].input \in InputState
    BY <1>1, <2>4
  <2>6. F[k] = ApplyInput(F[k - 1], entries[k].input)
    BY <1>1, <2>2, <2>3 DEF PositionAt
  <2>7. F[k] \in Reachable
    BY <2>5, <2>6, ReachableIsVec2, StaysInWorld
  <2>8. Near(F[k], F[k - 1], Stride)
    BY <2>5, <2>6, InputStrides
  <2>9. PICK j \in Nat : j = k - 1 /\ k = j + 1
    BY <2>4
  <2>10. Far(j) \in Nat /\ Stride \in Nat /\ Stride + Far(j) = Far(k)
    <3>1. Far(j) \in Nat /\ Stride \in Nat /\ Far(j + 1) = Far(j) + Stride
      BY FarSteps
    <3> HIDE DEF Far
    <3> QED
      BY <2>9, <3>1
  <2>11. Near(F[k], position, Stride + Far(j))
    BY <2>5, <2>7, <2>8, <2>9, <2>10, NearTriangle
  <2> QED
    BY <2>2, <2>7, <2>10, <2>11
<1>3. i \in 0 .. n
  BY DEF n
<1> QED
  BY <1>2, <1>3 DEF F

LEMMA ReplayStrides ==
  ASSUME NEW position \in Reachable, NEW S, NEW entries \in Seq(S),
         \A e \in S : e.input \in InputState
  PROVE  Near(Replay(position, entries), position, Far(Len(entries)))
<1>1. Len(entries) \in 0 .. Len(entries)
  OBVIOUS
<1>2. Replay(position, entries) = Positions(position, entries)[Len(entries)]
  BY PositionsEquations
<1>3. Near(Positions(position, entries)[Len(entries)], position,
           Far(Len(entries)))
  BY <1>1, PositionsStride
<1> QED
  BY <1>2, <1>3

\* The same inputs from two positions end no further apart than these are.
LEMMA ReplayContracts ==
  ASSUME NEW p \in Reachable, NEW q \in Reachable, NEW far \in Nat,
         Near(p, q, far), NEW S, NEW a \in Seq(S), NEW T, NEW b \in Seq(T),
         \A e \in S : e.input \in InputState,
         \A e \in T : e.input \in InputState,
         Len(a) = Len(b), \A i \in 1 .. Len(a) : a[i].input = b[i].input
  PROVE  Near(Replay(p, a), Replay(q, b), far)
<1> DEFINE F == Positions(p, a)
           G == Positions(q, b)
           n == Len(a)
           Bad == {j \in 0 .. n : ~ Near(F[j], G[j], far)}
<1>1. /\ n \in Nat /\ \A j \in 1 .. n : a[j].input \in InputState
      /\ \A j \in 0 .. n : F[j] = PositionAt(p, a, F[j - 1], j)
      /\ \A j \in 0 .. n : G[j] = PositionAt(q, b, G[j - 1], j)
      /\ Replay(p, a) = F[n] /\ Replay(q, b) = G[n]
  BY PositionsEquations
<1>2. \A j \in 0 .. n : F[j] \in Reachable
  BY PositionsStride
<1>3. \A j \in 0 .. n : G[j] \in Reachable
  <2>1. n = Len(b)
    OBVIOUS
  <2> HIDE DEF n
  <2> QED
    BY <2>1, PositionsStride
<1>4. \A j \in 1 .. n : a[j].input = b[j].input
  OBVIOUS
<1> HIDE DEF F, G, n
<1>5. ASSUME Bad # {} PROVE FALSE
  <2>0. Bad \subseteq Nat
    OBVIOUS
  <2>1. PICK k \in Bad : \A m \in Bad : k <= m
    BY <1>5, <2>0, Least
  <2>2. k \in 0 .. n /\ ~ Near(F[k], G[k], far)
    OBVIOUS
  <2>3. k # 0
    BY <1>1, <2>2 DEF PositionAt
  <2>4. k \in 1 .. n /\ k - 1 \in 0 .. n /\ k - 1 \notin Bad
    BY <1>1, <2>1, <2>2, <2>3
  <2>5. /\ F[k - 1] \in Reachable /\ G[k - 1] \in Reachable
        /\ Near(F[k - 1], G[k - 1], far)
        /\ a[k].input \in InputState /\ a[k].input = b[k].input
    BY <1>1, <1>2, <1>3, <1>4, <2>4
  <2>6. /\ F[k] = ApplyInput(F[k - 1], a[k].input)
        /\ G[k] = ApplyInput(G[k - 1], a[k].input)
    BY <1>1, <2>2, <2>3, <2>5 DEF PositionAt
  <2> QED
    BY <2>2, <2>5, <2>6, SameInputNear
<1>6. Near(F[n], G[n], far)
  BY <1>1, <1>5
<1> QED
  BY <1>1, <1>6

-----------------------------------------------------------------------------
(* The parts of a step, and what they keep.                                *)

LEMMA TrimmedIs ==
  ASSUME NEW S, NEW entries \in Seq(S)
  PROVE  /\ Trimmed(entries) \in Seq(S)
         /\ IF Len(entries) > HISTORY_CAP
              THEN /\ Len(Trimmed(entries)) = Len(entries) - 1
                   /\ \A i \in 1 .. Len(entries) - 1 :
                        Trimmed(entries)[i] = entries[i + 1]
              ELSE Trimmed(entries) = entries
<1>1. CASE Len(entries) > HISTORY_CAP
  <2>1. entries # <<>>
    BY <1>1, PredictionAssumption
  <2> QED
    BY <1>1, <2>1, HeadTailProperties DEF Trimmed
<1>2. CASE ~ (Len(entries) > HISTORY_CAP)
  BY <1>2 DEF Trimmed
<1> QED
  BY <1>1, <1>2

\* What reconcile pops are the entries in front of the first newer one.
LEMMA UnacknowledgedFrom ==
  ASSUME NEW S, NEW entries \in Seq(S), NEW n,
         NEW first \in 1 .. Len(entries), entries[first].sequenceId > n,
         \A i \in 1 .. first - 1 : ~ (entries[i].sequenceId > n)
  PROVE  Unacknowledged(entries, n) = SubSeq(entries, first, Len(entries))
<1> DEFINE newer == {i \in DOMAIN entries : entries[i].sequenceId > n}
           least == CHOOSE i \in newer : \A j \in newer : i <= j
<1>1. DOMAIN entries = 1 .. Len(entries) /\ Len(entries) \in Nat
  OBVIOUS
<1>2. first \in newer
  BY <1>1
<1>3. \A j \in newer : j \in 1 .. Len(entries) /\ first <= j
  BY <1>1
<1>4. least \in newer /\ \A j \in newer : least <= j
  BY <1>2, <1>3
<1>5. least = first
  BY <1>2, <1>3, <1>4
<1>6. newer # {}
  BY <1>2
<1> QED
  BY <1>5, <1>6 DEF Unacknowledged

LEMMA UnacknowledgedNone ==
  ASSUME NEW S, NEW entries \in Seq(S), NEW n,
         \A i \in 1 .. Len(entries) : ~ (entries[i].sequenceId > n)
  PROVE  Unacknowledged(entries, n) = <<>>
<1>1. DOMAIN entries = 1 .. Len(entries)
  OBVIOUS
<1> QED
  BY <1>1 DEF Unacknowledged

\* Whatever number it is called with, reconcile leaves a suffix.
LEMMA UnacknowledgedType ==
  ASSUME NEW S, NEW entries \in Seq(S), NEW n
  PROVE  Unacknowledged(entries, n) \in Seq(S)
<1> DEFINE newer == {i \in DOMAIN entries : entries[i].sequenceId > n}
<1>1. DOMAIN entries = 1 .. Len(entries) /\ Len(entries) \in Nat
  OBVIOUS
<1>2. CASE newer = {}
  <2>1. Unacknowledged(entries, n) = <<>>
    BY <1>2 DEF Unacknowledged
  <2> QED
    BY <2>1
<1>3. CASE newer # {}
  <2>1. newer \subseteq Nat
    BY <1>1
  <2>2. PICK first \in newer : \A j \in newer : first <= j
    BY <1>3, <2>1, Least
  <2>3. /\ first \in 1 .. Len(entries) /\ entries[first].sequenceId > n
        /\ \A i \in 1 .. first - 1 : ~ (entries[i].sequenceId > n)
    BY <1>1, <2>1, <2>2
  <2>4. Unacknowledged(entries, n) = SubSeq(entries, first, Len(entries))
    BY <2>3, UnacknowledgedFrom
  <2> QED
    BY <1>1, <2>3, <2>4, PartOfQueue
<1> QED
  BY <1>2, <1>3

LEMMA ReconciledType ==
  ASSUME NEW kept \in Seq(HistoryEntry), NEW position \in Reachable, NEW n,
         localPlayer \in Reachable
  PROVE  Reconciled(kept, position, n) \in Reachable
<1>1. \A e \in HistoryEntry : e.input \in InputState
  BY PredictionAssumption DEF HistoryEntry
<1>2. Replay(position, kept) \in Reachable
  BY <1>1, ReplayType
<1> QED
  BY <1>2 DEF Reconciled

\* An input moves the client's player inside the world, and so the truth.
LEMMA InputMoves ==
  ASSUME NEW position \in Reachable, NEW input \in Inputs
  PROVE  ApplyInput(position, input) \in Reachable
BY ReachableIsVec2, StaysInWorld, PredictionAssumption

-----------------------------------------------------------------------------
(* Types.                                                                  *)

PendingInput == [seq : Nat \ {0}, input : Inputs]

\* What a tick appends to the pending world states, if anything.
LEMMA EndTickIs ==
  ASSUME EndTick
  PROVE  /\ \/ /\ pending' = Append(pending, [tick     |-> currentTick,
                                              position |-> serverPlayer'])
               /\ covered' = Append(covered, lastProcessed')
            \/ pending' = pending /\ covered' = covered
         /\ currentTick' = (currentTick + 1) % TICK_MOD
         /\ wrapped' = (wrapped \/ currentTick' = 0)
         /\ UNCHANGED <<history, nextSequenceId, localPlayer, heard, told,
                        truth>>
BY DEF EndTick, engineVars

LEMMA TypeInit == Init => TypeOK
<1> SUFFICES ASSUME Init PROVE TypeOK
  OBVIOUS
<1>1. Start \in Reachable /\ SpawnPositions \subseteq Reachable
  BY PredictionAssumption
<1>2. <<>> \in Seq(HistoryEntry) /\ <<>> \in Seq(PendingInput)
      /\ <<>> \in Seq(World) /\ <<>> \in Seq(Nat)
  OBVIOUS
<1> QED
  BY <1>1, <1>2 DEF Init, TypeOK, PendingInput

LEMMA TypeProcessInput ==
  ASSUME TypeOK, ProcessInput
  PROVE  TypeOK'
<1>1. PICK input \in Inputs :
        /\ localPlayer' = ApplyInput(localPlayer, input)
        /\ history' = Trimmed(Append(history,
             [sequenceId |-> nextSequenceId, input |-> input,
              predicted |-> localPlayer']))
        /\ unprocessed' = Append(unprocessed,
             [seq |-> nextSequenceId, input |-> input])
        /\ truth' = ApplyInput(truth, input)
  BY DEF ProcessInput, Predict
<1>2. /\ nextSequenceId' = nextSequenceId + 1
      /\ UNCHANGED <<lastProcessed, serverPlayer, currentTick, pending,
                     covered, heard, told, wrapped>>
  BY DEF ProcessInput
<1>3. localPlayer' \in Reachable /\ truth' \in Reachable
  BY <1>1, InputMoves DEF TypeOK
<1>4. history' \in Seq(HistoryEntry)
  <2> DEFINE e == [sequenceId |-> nextSequenceId, input |-> input,
                   predicted |-> localPlayer']
  <2>1. e \in HistoryEntry
    BY <1>3 DEF HistoryEntry, TypeOK
  <2> HIDE DEF e
  <2>2. Append(history, e) \in Seq(HistoryEntry)
    BY <2>1 DEF TypeOK
  <2>3. Trimmed(Append(history, e)) \in Seq(HistoryEntry)
    BY <2>2, TrimmedIs
  <2> QED
    BY <1>1, <2>3 DEF e
<1>5. unprocessed' \in Seq(PendingInput)
  <2> DEFINE u == [seq |-> nextSequenceId, input |-> input]
  <2>1. u \in PendingInput
    BY DEF PendingInput, TypeOK
  <2>2. unprocessed \in Seq(PendingInput)
    BY DEF PendingInput, TypeOK
  <2> HIDE DEF u
  <2>3. Append(unprocessed, u) \in Seq(PendingInput)
    BY <2>1, <2>2
  <2> QED
    BY <1>1, <2>3 DEF u
<1>6. nextSequenceId' \in Nat \ {0}
  BY <1>2 DEF TypeOK
<1> QED
  BY <1>2, <1>3, <1>4, <1>5, <1>6 DEF TypeOK, PendingInput

LEMMA WorldFields ==
  ASSUME NEW w \in World
  PROVE  /\ w.tick \in 0 .. TICK_MOD - 1
         /\ w.position \in Reachable
BY DEF World

\* The number handed over, and what it acknowledges.
LEMMA AckIsNat ==
  ASSUME NEW w \in World
  PROVE  AckArgument(w) \in Nat
<1>1. w.tick \in 0 .. TICK_MOD - 1 /\ TICK_MOD \in Nat
  BY WorldFields, PredictionAssumption
<1> QED
  BY <1>1 DEF AckArgument

LEMMA ToldIsNat ==
  ASSUME TypeOK, NEW n \in Nat
  PROVE  ToldBy(n) \in Nat
BY DEF ToldBy, TypeOK

LEMMA TypeReceiveWorldState ==
  ASSUME TypeOK, ReceiveWorldState
  PROVE  TypeOK'
<1> DEFINE world == Head(pending)
           n == AckArgument(world)
<1>1. /\ pending # <<>>
      /\ history' = Unacknowledged(history, n)
      /\ localPlayer' = Reconciled(history', world.position, n)
      /\ told' = ToldBy(n)
      /\ pending' = Tail(pending)
      /\ heard' = Head(covered) /\ covered' = Tail(covered)
      /\ UNCHANGED <<nextSequenceId, unprocessed, lastProcessed, serverPlayer,
                     currentTick, truth, wrapped>>
  BY DEF ReceiveWorldState
<1>2. /\ world \in World /\ pending' \in Seq(World)
      /\ Len(pending') = Len(pending) - 1
  BY <1>1, HeadTailProperties DEF TypeOK
<1>3. world.position \in Reachable /\ n \in Nat
  BY <1>2, WorldFields, AckIsNat
<1>4. /\ heard' \in Nat /\ covered' \in Seq(Nat)
      /\ Len(covered') = Len(covered) - 1
  <2>1. covered \in Seq(Nat) /\ covered # <<>>
    BY <1>1, EmptySeq DEF TypeOK
  <2> QED
    BY <1>1, <2>1, HeadTailProperties
<1> HIDE DEF world, n
<1>5. told' \in Nat
  BY <1>1, <1>3, ToldIsNat
<1>6. history' \in Seq(HistoryEntry)
  BY <1>1, UnacknowledgedType DEF TypeOK
<1>7. localPlayer' \in Reachable
  BY <1>1, <1>3, <1>6, ReconciledType DEF TypeOK
<1> QED
  BY <1>1, <1>2, <1>4, <1>5, <1>6, <1>7 DEF TypeOK

LEMMA TypeServerTick ==
  ASSUME TypeOK, ServerTick
  PROVE  TypeOK'
<1>1. /\ serverPlayer' \in Reachable /\ lastProcessed' \in Nat
      /\ unprocessed' \in Seq(PendingInput)
  <2>0. unprocessed \in Seq(PendingInput)
    BY DEF TypeOK, PendingInput
  <2>1. CASE TickWithInput
    <3>1. /\ unprocessed # <<>>
          /\ serverPlayer' = ApplyInput(serverPlayer, Head(unprocessed).input)
          /\ lastProcessed' = Head(unprocessed).seq
          /\ unprocessed' = Tail(unprocessed)
      BY <2>1 DEF TickWithInput
    <3>2. Head(unprocessed) \in PendingInput
      BY <2>0, <3>1
    <3>3. Head(unprocessed).input \in Inputs
          /\ Head(unprocessed).seq \in Nat
      BY <3>2 DEF PendingInput
    <3>4. serverPlayer' \in Reachable
      BY <3>1, <3>3, InputMoves DEF TypeOK
    <3> QED
      BY <2>0, <3>1, <3>3, <3>4
  <2>2. CASE TickWithoutInput
    BY <2>0, <2>2 DEF TickWithoutInput, TypeOK
  <2> QED
    BY <2>1, <2>2 DEF ServerTick
<1>2. EndTick
  BY DEF ServerTick, TickWithInput, TickWithoutInput
<1>3. /\ pending' \in Seq(World) /\ covered' \in Seq(Nat)
      /\ Len(covered') = Len(pending')
  <2> DEFINE w == [tick |-> currentTick, position |-> serverPlayer']
  <2>1. w \in World
    BY <1>1 DEF World, TypeOK
  <2>2. \/ pending' = Append(pending, w)
           /\ covered' = Append(covered, lastProcessed')
        \/ pending' = pending /\ covered' = covered
    BY <1>2, EndTickIs
  <2> HIDE DEF w
  <2>3. /\ pending \in Seq(World) /\ covered \in Seq(Nat)
        /\ Len(covered) = Len(pending)
    BY DEF TypeOK
  <2>4. /\ Append(pending, w) \in Seq(World)
        /\ Len(Append(pending, w)) = Len(pending) + 1
    BY <2>1, <2>3, AppendProperties
  <2>5. /\ Append(covered, lastProcessed') \in Seq(Nat)
        /\ Len(Append(covered, lastProcessed')) = Len(covered) + 1
    BY <1>1, <2>3, AppendProperties
  <2> QED
    BY <2>2, <2>3, <2>4, <2>5
<1>4. currentTick' \in 0 .. TICK_MOD - 1
  <2>1. currentTick + 1 \in Nat /\ TICK_MOD \in Nat \ {0}
    BY PredictionAssumption DEF TypeOK
  <2> QED
    BY <1>2, <2>1, EndTickIs
<1>5. UNCHANGED <<history, nextSequenceId, localPlayer, heard, told, truth>>
  BY <1>2, EndTickIs
<1>6. wrapped' \in BOOLEAN
  BY <1>2, EndTickIs
<1> QED
  BY <1>1, <1>3, <1>4, <1>5, <1>6 DEF TypeOK, PendingInput

LEMMA TypeNext ==
  ASSUME TypeOK, [Next]_vars
  PROVE  TypeOK'
<1>1. CASE UNCHANGED vars
  BY <1>1 DEF TypeOK, vars, engineVars, netVars, ghostVars
<1> QED
  BY <1>1, TypeProcessInput, TypeReceiveWorldState, TypeServerTick DEF Next

\* The client's player, the server's and every position on its way between
\* them stay inside the world.
THEOREM PredictionTypes == Spec => []TypeOK
<1>1. TypeOK /\ [Next]_vars => TypeOK'
  BY TypeNext
<1> QED
  BY <1>1, TypeInit, PTL DEF Spec

-----------------------------------------------------------------------------
(* The last m entries.                                                     *)

LastOf(entries, m) == SubSeq(entries, Len(entries) - m + 1, Len(entries))

LEMMA LastOfIs ==
  ASSUME NEW S, NEW entries \in Seq(S), NEW m \in 0 .. Len(entries)
  PROVE  /\ LastOf(entries, m) \in Seq(S) /\ Len(LastOf(entries, m)) = m
         /\ \A i \in 1 .. m :
              LastOf(entries, m)[i] = entries[Len(entries) - m + i]
<1> DEFINE first == Len(entries) - m + 1
<1>1. /\ Len(entries) \in Nat /\ first \in Nat \ {0}
      /\ first <= Len(entries) + 1 /\ Len(entries) <= Len(entries)
      /\ Len(entries) - first + 1 = m
  OBVIOUS
<1>2. \A i \in 1 .. m : first + i - 1 = Len(entries) - m + i
  BY <1>1
<1> QED
  BY SMTT(40), <1>1, <1>2, PartOfQueue DEF LastOf

LEMMA LastOfEnds ==
  ASSUME NEW S, NEW entries \in Seq(S), NEW m \in 0 .. Len(entries),
         NEW j \in Nat, j < m
  PROVE  LastOf(entries, m)[Len(LastOf(entries, m)) - j]
           = entries[Len(entries) - j]
<1>1. /\ Len(LastOf(entries, m)) = m
      /\ \A i \in 1 .. m :
           LastOf(entries, m)[i] = entries[Len(entries) - m + i]
  BY LastOfIs
<1>2. /\ m - j \in 1 .. m /\ Len(entries) - m + (m - j) = Len(entries) - j
  OBVIOUS
<1> QED
  BY <1>1, <1>2

\* The last k entries are replayed from where the others lead.
LEMMA ReplaySplit ==
  ASSUME NEW position, NEW S, NEW entries \in Seq(S),
         NEW k \in Nat, NEW d \in Nat, Len(entries) = d + k
  PROVE  Replay(position, entries)
           = Replay(Positions(position, entries)[d], LastOf(entries, k))
<1> DEFINE F == Positions(position, entries)
           rest == LastOf(entries, k)
           G == Positions(F[d], rest)
           Bad == {i \in 0 .. k : F[d + i] # G[i]}
<1>1. k \in 0 .. Len(entries) /\ Len(entries) - k = d
  OBVIOUS
<1>2. /\ rest \in Seq(S) /\ Len(rest) = k
      /\ \A i \in 1 .. k : rest[i] = entries[d + i]
  BY <1>1, LastOfIs
<1>3. /\ \A i \in 0 .. d + k :
           F[i] = PositionAt(position, entries, F[i - 1], i)
      /\ Replay(position, entries) = F[d + k]
  BY PositionsEquations
<1> HIDE DEF rest
<1>4. /\ \A i \in 0 .. k : G[i] = PositionAt(F[d], rest, G[i - 1], i)
      /\ Replay(F[d], rest) = G[k]
  <2> HIDE DEF F
  <2> QED
    BY ZenonT(40), <1>2, PositionsEquations
<1> HIDE DEF F, G
<1>5. ASSUME Bad # {} PROVE FALSE
  <2>0. Bad \subseteq Nat
    OBVIOUS
  <2>1. PICK i \in Bad : \A m \in Bad : i <= m
    BY <1>5, <2>0, Least
  <2>2. i \in 0 .. k /\ F[d + i] # G[i]
    OBVIOUS
  <2>3. i # 0
    <3>1. G[0] = F[d] /\ d + 0 = d
      BY <1>4 DEF PositionAt
    <3> QED
      BY <2>2, <3>1
  <2>4. i \in 1 .. k /\ i - 1 \in 0 .. k /\ i - 1 \notin Bad
    BY <2>1, <2>2, <2>3
  <2>5. F[d + (i - 1)] = G[i - 1] /\ rest[i] = entries[d + i]
    BY <1>2, <2>4
  <2>6. d + i \in 0 .. d + k /\ d + i # 0 /\ d + i - 1 = d + (i - 1)
    BY <2>4
  <2>7. F[d + i] = ApplyInput(F[d + (i - 1)], entries[d + i].input)
    BY <1>3, <2>6 DEF PositionAt
  <2>8. G[i] = ApplyInput(G[i - 1], rest[i].input)
    BY <1>4, <2>2, <2>3 DEF PositionAt
  <2> QED
    BY <2>2, <2>5, <2>7, <2>8
<1>6. F[d + k] = G[k]
  BY <1>5
<1> QED
  BY <1>3, <1>4, <1>6 DEF F, rest

-----------------------------------------------------------------------------
(* Which inputs are where.  next is the sequence id after the newest.      *)

\* How many entries the history then holds.
Held(next, since) ==
  IF next - 1 - since > HISTORY_CAP THEN HISTORY_CAP ELSE next - 1 - since

\* The entries are numbered up to the newest.
Ascending(entries, next) ==
  \A i \in 1 .. Len(entries) :
    entries[i].sequenceId = next - 1 - Len(entries) + i

\* The history is the newest entries, those after since.
IsHistory(entries, next, since) ==
  Len(entries) = Held(next, since) /\ Ascending(entries, next)

\* The server has exactly the inputs after the last one it processed.
IsQueue(inputs, next, last) ==
  /\ Len(inputs) = next - 1 - last
  /\ \A i \in 1 .. Len(inputs) : inputs[i].seq = last + i

\* What the history holds, whichever numbers were handed over.
Numbers ==
  /\ told <= nextSequenceId - 1
  /\ IsHistory(history, nextSequenceId, told)

\* The world states on their way, with the input each of them includes.
Including == [position : Reachable, lastProcessed : Nat]

sent == [k \in 1 .. Len(pending) |->
           [position |-> pending[k].position, lastProcessed |-> covered[k]]]

\* They include more and more, and nothing the server has not processed.
\* since is what the client has heard of, last where the server has got to.
InOrder(worlds, since, last) ==
  /\ since <= last
  /\ \A k \in 1 .. Len(worlds) :
       since <= worlds[k].lastProcessed /\ worlds[k].lastProcessed <= last
  /\ \A j, k \in 1 .. Len(worlds) :
       j <= k => worlds[j].lastProcessed <= worlds[k].lastProcessed

Queued ==
  /\ IsQueue(unprocessed, nextSequenceId, lastProcessed)
  /\ InOrder(sent, heard, lastProcessed)

LEMMA AscendingGrows ==
  ASSUME NEW entries \in Seq(HistoryEntry), NEW next \in Nat \ {0},
         NEW e \in HistoryEntry, e.sequenceId = next,
         Ascending(entries, next)
  PROVE  Ascending(Trimmed(Append(entries, e)), next + 1)
<1> DEFINE longer == Append(entries, e)
           short == Trimmed(longer)
<1>1. /\ longer \in Seq(HistoryEntry) /\ Len(longer) = Len(entries) + 1
      /\ \A i \in 1 .. Len(entries) : longer[i] = entries[i]
      /\ longer[Len(entries) + 1] = e
      /\ Len(entries) \in Nat
  BY AppendProperties
<1> HIDE DEF longer
<1>2. /\ IF Len(longer) > HISTORY_CAP
           THEN /\ Len(short) = Len(longer) - 1
                /\ \A i \in 1 .. Len(longer) - 1 : short[i] = longer[i + 1]
           ELSE short = longer
  BY <1>1, TrimmedIs
<1> HIDE DEF short
<1>3. \A i \in 1 .. Len(longer) :
        longer[i].sequenceId = next - Len(longer) + i
  <2> SUFFICES ASSUME NEW i \in 1 .. Len(longer)
               PROVE  longer[i].sequenceId = next - Len(longer) + i
    OBVIOUS
  <2>1. CASE i = Len(entries) + 1
    BY <1>1, <2>1
  <2>2. CASE i # Len(entries) + 1
    <3>1. i \in 1 .. Len(entries)
      BY <1>1, <2>2
    <3>2. longer[i].sequenceId = next - 1 - Len(entries) + i
      BY <1>1, <3>1 DEF Ascending
    <3> QED
      BY <1>1, <3>1, <3>2
  <2> QED
    BY <2>1, <2>2
<1>4. ASSUME NEW i \in 1 .. Len(short)
      PROVE  short[i].sequenceId = next + 1 - 1 - Len(short) + i
  <2>1. CASE Len(longer) > HISTORY_CAP
    <3>1. /\ Len(short) = Len(longer) - 1 /\ i \in 1 .. Len(longer) - 1
          /\ i + 1 \in 1 .. Len(longer)
      BY <1>1, <1>2, <2>1
    <3>2. short[i] = longer[i + 1]
      BY <1>2, <2>1, <3>1
    <3>3. longer[i + 1].sequenceId = next - Len(longer) + (i + 1)
      BY <1>3, <3>1
    <3> QED
      BY <1>1, <3>1, <3>2, <3>3
  <2>2. CASE ~ (Len(longer) > HISTORY_CAP)
    <3>1. short = longer /\ i \in 1 .. Len(longer)
      BY <1>2, <2>2
    <3> QED
      BY SMTT(40), <1>1, <1>3, <3>1
  <2> QED
    BY <2>1, <2>2
<1>5. Ascending(short, next + 1)
  BY <1>4 DEF Ascending
<1> QED
  BY <1>5 DEF short, longer

LEMMA HistoryGrows ==
  ASSUME NEW entries \in Seq(HistoryEntry), NEW next \in Nat \ {0},
         NEW since \in Nat, since <= next - 1,
         NEW e \in HistoryEntry, e.sequenceId = next,
         IsHistory(entries, next, since)
  PROVE  IsHistory(Trimmed(Append(entries, e)), next + 1, since)
<1> DEFINE longer == Append(entries, e)
           short == Trimmed(longer)
<1>1. /\ longer \in Seq(HistoryEntry) /\ Len(longer) = Len(entries) + 1
      /\ Len(entries) \in Nat /\ HISTORY_CAP \in Nat \ {0}
  BY AppendProperties, PredictionAssumption
<1>2. Len(entries) = Held(next, since) /\ Ascending(entries, next)
  BY DEF IsHistory
<1>3. Ascending(short, next + 1)
  BY <1>2, AscendingGrows
<1> HIDE DEF longer
<1>4. IF Len(longer) > HISTORY_CAP THEN Len(short) = Len(longer) - 1
                                   ELSE short = longer
  BY <1>1, TrimmedIs
<1> HIDE DEF short
<1>5. Len(short) = Held(next + 1, since)
  <2>1. CASE Len(longer) > HISTORY_CAP
    BY <1>1, <1>2, <1>4, <2>1 DEF Held
  <2>2. CASE ~ (Len(longer) > HISTORY_CAP)
    BY <1>1, <1>2, <1>4, <2>2 DEF Held
  <2> QED
    BY <2>1, <2>2
<1>6. IsHistory(short, next + 1, since)
  BY <1>3, <1>5 DEF IsHistory
<1> QED
  BY <1>6 DEF short, longer

\* Whatever number it is called with, reconcile keeps the entries after it.
LEMMA AscendingShrinks ==
  ASSUME NEW entries \in Seq(HistoryEntry), NEW next \in Nat, NEW n \in Nat,
         Ascending(entries, next)
  PROVE  /\ \E m \in 0 .. Len(entries) :
              Unacknowledged(entries, n) = LastOf(entries, m)
         /\ Ascending(Unacknowledged(entries, n), next)
         /\ \A i \in 1 .. Len(Unacknowledged(entries, n)) :
              Unacknowledged(entries, n)[i].sequenceId > n
<1> DEFINE part == Unacknowledged(entries, n)
           newer == {i \in 1 .. Len(entries) : entries[i].sequenceId > n}
<1>1. /\ Len(entries) \in Nat
      /\ \A i \in 1 .. Len(entries) :
           entries[i].sequenceId = next - 1 - Len(entries) + i
  BY DEF Ascending
<1>2. CASE newer = {}
  <2>1. part = <<>>
    BY <1>2, UnacknowledgedNone
  <2>2. 0 \in 0 .. Len(entries)
    BY <1>1
  <2>3. LastOf(entries, 0) \in Seq(HistoryEntry) /\ Len(LastOf(entries, 0)) = 0
    BY <2>2, LastOfIs
  <2>4. part = LastOf(entries, 0)
    BY <2>1, <2>3, EmptySeq
  <2> QED
    BY <2>1, <2>2, <2>4 DEF Ascending
<1>3. CASE newer # {}
  <2>1. newer \subseteq Nat
    BY <1>1
  <2>2. PICK first \in newer : \A j \in newer : first <= j
    BY <1>3, <2>1, Least
  <2>3. /\ first \in 1 .. Len(entries) /\ entries[first].sequenceId > n
        /\ \A i \in 1 .. first - 1 : ~ (entries[i].sequenceId > n)
    BY <1>1, <2>1, <2>2
  <2>4. part = SubSeq(entries, first, Len(entries))
    BY <2>3, UnacknowledgedFrom
  <2>5. PICK m \in 0 .. Len(entries) : first = Len(entries) - m + 1
    <3>1. /\ Len(entries) - first + 1 \in 0 .. Len(entries)
          /\ first = Len(entries) - (Len(entries) - first + 1) + 1
      BY <1>1, <2>3
    <3> QED
      BY <3>1
  <2>6. part = LastOf(entries, m)
    BY <2>4, <2>5 DEF LastOf
  <2> HIDE DEF part
  <2>7. /\ Len(part) = m
        /\ \A i \in 1 .. m : part[i] = entries[Len(entries) - m + i]
    BY <2>6, LastOfIs
  <2>8. ASSUME NEW i \in 1 .. m
        PROVE  /\ part[i].sequenceId = next - 1 - m + i
               /\ part[i].sequenceId > n
    <3>1. Len(entries) - m + i \in 1 .. Len(entries)
      BY <1>1
    <3>2. entries[Len(entries) - m + i].sequenceId
            = next - 1 - Len(entries) + (Len(entries) - m + i)
      BY <1>1, <3>1
    <3>3. next - 1 - Len(entries) + (Len(entries) - m + i) = next - 1 - m + i
      BY <1>1
    <3>4. next - 1 - Len(entries) + first > n
      BY <1>1, <2>3
    <3>5. next - 1 - m + i > n
      BY <1>1, <2>5, <3>4
    <3> QED
      BY <2>7, <3>2, <3>3, <3>5
  <2>9. /\ \A i \in 1 .. Len(part) :
             /\ part[i].sequenceId = next - 1 - Len(part) + i
             /\ part[i].sequenceId > n
    BY <2>7, <2>8
  <2> QED
    BY <2>6, <2>9 DEF Ascending, part
<1> QED
  BY <1>2, <1>3

\* reconcile with the id it asks for keeps the entries after it, all of them.
LEMMA HistoryShrinks ==
  ASSUME NEW entries \in Seq(HistoryEntry), NEW next \in Nat \ {0},
         NEW since \in Nat, NEW n \in Nat, since <= n, n <= next - 1,
         IsHistory(entries, next, since)
  PROVE  /\ Held(next, n) \in 0 .. Len(entries)
         /\ Unacknowledged(entries, n) = LastOf(entries, Held(next, n))
         /\ IsHistory(Unacknowledged(entries, n), next, n)
<1> DEFINE m == Held(next, n)
           part == Unacknowledged(entries, n)
<1>1. /\ Len(entries) \in Nat /\ HISTORY_CAP \in Nat \ {0}
      /\ Len(entries) = Held(next, since)
      /\ \A i \in 1 .. Len(entries) :
           entries[i].sequenceId = next - 1 - Len(entries) + i
  BY PredictionAssumption DEF IsHistory, Ascending
<1>2. /\ m \in 0 .. Len(entries)
      /\ m = next - 1 - n \/ (m = HISTORY_CAP /\ m = Len(entries)
                                /\ m < next - 1 - n)
  BY <1>1 DEF Held
<1> HIDE DEF m
<1>3. part = LastOf(entries, m)
  <2>1. CASE m = 0
    <3>1. m = next - 1 - n
      BY <1>1, <1>2, <2>1
    <3>2. ASSUME NEW i \in 1 .. Len(entries)
          PROVE  ~ (entries[i].sequenceId > n)
      <4>1. entries[i].sequenceId = next - 1 - Len(entries) + i
        BY <1>1
      <4> QED
        BY <1>1, <2>1, <3>1, <4>1
    <3>3. part = <<>>
      BY <3>2, UnacknowledgedNone
    <3>4. LastOf(entries, 0) = <<>>
      <4>1. 0 \in 0 .. Len(entries)
        BY <1>1
      <4>2. LastOf(entries, 0) \in Seq(HistoryEntry)
            /\ Len(LastOf(entries, 0)) = 0
        BY <4>1, LastOfIs
      <4> QED
        BY <4>2, EmptySeq
    <3> QED
      BY <2>1, <3>3, <3>4
  <2>2. CASE m # 0
    <3> DEFINE first == Len(entries) - m + 1
    <3>1. first \in 1 .. Len(entries)
      BY <1>1, <1>2, <2>2
    <3>2. entries[first].sequenceId > n
      <4>1. entries[first].sequenceId = next - 1 - Len(entries) + first
        BY <1>1, <3>1
      <4>2. next - 1 - Len(entries) + first = next - m
        BY <1>1, <1>2
      <4> HIDE DEF first
      <4> QED
        BY <1>1, <1>2, <4>1, <4>2
    <3>3. ASSUME NEW i \in 1 .. first - 1
          PROVE  ~ (entries[i].sequenceId > n)
      <4>1. /\ i \in 1 .. Len(entries) /\ i <= Len(entries) - m
            /\ m # Len(entries)
        BY SMTT(40), <1>1, <1>2, <3>1
      <4>2. entries[i].sequenceId = next - 1 - Len(entries) + i
        BY <1>1, <4>1
      <4>3. m = next - 1 - n
        BY <1>2, <4>1
      <4> QED
        BY <1>1, <1>2, <4>1, <4>2, <4>3
    <3>4. part = SubSeq(entries, first, Len(entries))
      BY <3>1, <3>2, <3>3, UnacknowledgedFrom
    <3> QED
      BY <3>4 DEF LastOf
  <2> QED
    BY <2>1, <2>2
<1>4. IsHistory(part, next, n)
  <2> HIDE DEF part
  <2>1. /\ Len(part) = m
        /\ \A i \in 1 .. m : part[i] = entries[Len(entries) - m + i]
    BY <1>2, <1>3, LastOfIs
  <2>2. ASSUME NEW i \in 1 .. Len(part)
        PROVE  part[i].sequenceId = next - 1 - Len(part) + i
    <3>1. Len(entries) - m + i \in 1 .. Len(entries)
      BY <1>1, <1>2, <2>1
    <3>2. entries[Len(entries) - m + i].sequenceId
            = next - 1 - Len(entries) + (Len(entries) - m + i)
      BY <1>1, <3>1
    <3>3. next - 1 - Len(entries) + (Len(entries) - m + i) = next - 1 - m + i
      BY <1>1, <1>2, <2>1
    <3> QED
      BY <2>1, <3>2, <3>3
  <2> QED
    BY <2>1, <2>2 DEF IsHistory, Ascending, m
<1> QED
  BY <1>2, <1>3, <1>4 DEF m

LEMMA NumbersInit == Init => Numbers
<1> SUFFICES ASSUME Init PROVE Numbers
  OBVIOUS
<1>1. history = <<>> /\ nextSequenceId = 1 /\ told = 0
  BY DEF Init
<1> QED
  BY <1>1, PredictionAssumption DEF Numbers, IsHistory, Ascending, Held

LEMMA SentIs ==
  ASSUME TypeOK
  PROVE  /\ sent \in Seq(Including) /\ Len(sent) = Len(pending)
         /\ \A k \in 1 .. Len(pending) :
              /\ sent[k].position = pending[k].position
              /\ sent[k].lastProcessed = covered[k]
<1>1. /\ pending \in Seq(World) /\ covered \in Seq(Nat)
      /\ Len(covered) = Len(pending) /\ Len(pending) \in Nat
  BY DEF TypeOK
<1>2. ASSUME NEW k \in 1 .. Len(pending)
      PROVE  [position |-> pending[k].position, lastProcessed |-> covered[k]]
               \in Including
  BY <1>1, WorldFields DEF Including
<1>3. sent \in Seq(Including) /\ Len(sent) = Len(pending)
  BY <1>1, <1>2 DEF sent
<1> QED
  BY <1>3 DEF sent

LEMMA QueuedInit == Init => Queued
<1> SUFFICES ASSUME Init PROVE Queued
  OBVIOUS
<1>1. /\ nextSequenceId = 1 /\ unprocessed = <<>>
      /\ lastProcessed = 0 /\ pending = <<>> /\ heard = 0
  BY DEF Init
<1>2. IsQueue(unprocessed, nextSequenceId, lastProcessed)
  BY <1>1 DEF IsQueue
<1>3. Len(sent) = 0
  BY <1>1, TypeInit, SentIs
<1>4. InOrder(sent, heard, lastProcessed)
  BY <1>1, <1>3 DEF InOrder
<1> QED
  BY <1>2, <1>4 DEF Queued

\* The client has not heard of more than the server processed, and the server
\* has not processed more than there is.
LEMMA QueuedBound ==
  ASSUME TypeOK, Queued
  PROVE  /\ heard <= lastProcessed /\ lastProcessed <= nextSequenceId - 1
         /\ Len(unprocessed) = nextSequenceId - 1 - lastProcessed
<1>1. /\ nextSequenceId \in Nat /\ lastProcessed \in Nat /\ heard \in Nat
      /\ Len(unprocessed) \in Nat
  BY DEF TypeOK
<1>2. Len(unprocessed) = nextSequenceId - 1 - lastProcessed
      /\ heard <= lastProcessed
  BY DEF Queued, IsQueue, InOrder
<1> QED
  BY <1>1, <1>2

\* The history and the sequence of entries a new input adds to.
LEMMA ProcessInputIs ==
  ASSUME TypeOK, ProcessInput
  PROVE  \E e \in HistoryEntry, u \in PendingInput :
           /\ e.input = u.input /\ e.input \in Inputs
           /\ e.sequenceId = nextSequenceId /\ u.seq = nextSequenceId
           /\ localPlayer' = ApplyInput(localPlayer, e.input)
           /\ truth' = ApplyInput(truth, e.input)
           /\ history' = Trimmed(Append(history, e))
           /\ unprocessed' = Append(unprocessed, u)
           /\ nextSequenceId' = nextSequenceId + 1
           /\ UNCHANGED <<lastProcessed, serverPlayer, currentTick, pending,
                          covered, heard, told, wrapped>>
<1>1. PICK input \in Inputs :
        /\ localPlayer' = ApplyInput(localPlayer, input)
        /\ history' = Trimmed(Append(history,
             [sequenceId |-> nextSequenceId, input |-> input,
              predicted |-> localPlayer']))
        /\ unprocessed' = Append(unprocessed,
             [seq |-> nextSequenceId, input |-> input])
        /\ truth' = ApplyInput(truth, input)
  BY DEF ProcessInput, Predict
<1>2. /\ nextSequenceId' = nextSequenceId + 1
      /\ UNCHANGED <<lastProcessed, serverPlayer, currentTick, pending,
                     covered, heard, told, wrapped>>
  BY DEF ProcessInput
<1> DEFINE e == [sequenceId |-> nextSequenceId, input |-> input,
                 predicted |-> localPlayer']
           u == [seq |-> nextSequenceId, input |-> input]
<1>3. e \in HistoryEntry /\ u \in PendingInput
  <2>1. localPlayer' \in Reachable
    BY <1>1, InputMoves DEF TypeOK
  <2> QED
    BY <2>1 DEF HistoryEntry, PendingInput, TypeOK
<1>4. /\ e.input = input /\ u.input = input
      /\ e.sequenceId = nextSequenceId /\ u.seq = nextSequenceId
  OBVIOUS
<1>5. /\ history' = Trimmed(Append(history, e))
      /\ unprocessed' = Append(unprocessed, u)
  BY <1>1
<1> HIDE DEF e, u
<1> QED
  BY <1>1, <1>2, <1>3, <1>4, <1>5

LEMMA QueuedProcessInput ==
  ASSUME TypeOK, Queued, ProcessInput
  PROVE  Queued'
<1>1. PICK e \in HistoryEntry, u \in PendingInput :
        /\ u.seq = nextSequenceId
        /\ unprocessed' = Append(unprocessed, u)
        /\ nextSequenceId' = nextSequenceId + 1
        /\ UNCHANGED <<lastProcessed, pending, covered, heard>>
  BY ProcessInputIs
<1>2. /\ nextSequenceId \in Nat \ {0} /\ lastProcessed \in Nat
      /\ unprocessed \in Seq(PendingInput)
  BY DEF TypeOK, PendingInput
<1>3. Len(unprocessed) = nextSequenceId - 1 - lastProcessed
  BY QueuedBound
<1>4. IsQueue(unprocessed, nextSequenceId, lastProcessed)'
  <2>1. /\ Len(unprocessed') = Len(unprocessed) + 1
        /\ \A i \in 1 .. Len(unprocessed) : unprocessed'[i] = unprocessed[i]
        /\ unprocessed'[Len(unprocessed) + 1] = u
    BY <1>1, <1>2, AppendProperties
  <2>2. \A i \in 1 .. Len(unprocessed) : unprocessed[i].seq = lastProcessed + i
    BY DEF Queued, IsQueue
  <2>3. Len(unprocessed') = nextSequenceId' - 1 - lastProcessed'
    BY <1>1, <1>2, <1>3, <2>1
  <2>4. ASSUME NEW i \in 1 .. Len(unprocessed')
        PROVE  unprocessed'[i].seq = lastProcessed' + i
    <3>1. CASE i = Len(unprocessed) + 1
      BY <1>1, <1>2, <1>3, <2>1, <3>1
    <3>2. CASE i # Len(unprocessed) + 1
      <4>1. i \in 1 .. Len(unprocessed)
        BY <1>2, <2>1, <3>2
      <4> QED
        BY <1>1, <2>1, <2>2, <4>1
    <3> QED
      BY <3>1, <3>2
  <2> QED
    BY <2>3, <2>4 DEF IsQueue
<1>5. InOrder(sent, heard, lastProcessed)'
  <2>1. sent' = sent
    BY <1>1 DEF sent
  <2> QED
    BY <1>1, <2>1 DEF Queued, InOrder
<1> QED
  BY <1>4, <1>5 DEF Queued

LEMMA NumbersProcessInput ==
  ASSUME TypeOK, Numbers, ProcessInput
  PROVE  Numbers'
<1>1. PICK e \in HistoryEntry, u \in PendingInput :
        /\ e.sequenceId = nextSequenceId
        /\ history' = Trimmed(Append(history, e))
        /\ nextSequenceId' = nextSequenceId + 1
        /\ told' = told
  BY ProcessInputIs
<1>2. /\ nextSequenceId \in Nat \ {0} /\ told \in Nat
      /\ history \in Seq(HistoryEntry)
  BY DEF TypeOK
<1>3. told <= nextSequenceId - 1 /\ IsHistory(history, nextSequenceId, told)
  BY DEF Numbers
<1>4. IsHistory(Trimmed(Append(history, e)), nextSequenceId + 1, told)
  BY <1>1, <1>2, <1>3, HistoryGrows
<1>5. IsHistory(history', nextSequenceId', told')
  BY <1>1, <1>4
<1>6. told' <= nextSequenceId' - 1
  BY <1>1, <1>2, <1>3
<1> QED
  BY <1>5, <1>6 DEF Numbers, IsHistory, Ascending, Held

\* The oldest world state, what it includes and the number it is taken to
\* acknowledge.
LEMMA ReceiveIs ==
  ASSUME TypeOK, TypeOK', ReceiveWorldState
  PROVE  \E world \in Including, n \in Nat :
           /\ Len(sent) # 0 /\ world = sent[1]
           /\ n = pending[1].tick /\ world.lastProcessed = covered[1]
           /\ history' = Unacknowledged(history, n)
           /\ localPlayer' = Reconciled(history', world.position, n)
           /\ told' = ToldBy(n)
           /\ heard' = world.lastProcessed
           /\ sent' \in Seq(Including) /\ Len(sent') = Len(sent) - 1
           /\ \A k \in 1 .. Len(sent') : sent'[k] = sent[k + 1]
           /\ UNCHANGED <<nextSequenceId, unprocessed, lastProcessed,
                          serverPlayer, currentTick, truth, wrapped>>
<1> DEFINE n == AckArgument(Head(pending))
<1>1. /\ pending # <<>>
      /\ history' = Unacknowledged(history, n)
      /\ localPlayer' = Reconciled(history', Head(pending).position, n)
      /\ told' = ToldBy(n)
      /\ pending' = Tail(pending)
      /\ heard' = Head(covered) /\ covered' = Tail(covered)
      /\ UNCHANGED <<nextSequenceId, unprocessed, lastProcessed, serverPlayer,
                     currentTick, truth, wrapped>>
  BY DEF ReceiveWorldState
<1>2. /\ pending \in Seq(World) /\ covered \in Seq(Nat)
      /\ Len(covered) = Len(pending) /\ covered # <<>>
  BY <1>1, EmptySeq DEF TypeOK
<1>3. /\ Head(pending) \in World /\ Head(pending) = pending[1]
      /\ Len(pending) # 0
      /\ Len(pending') = Len(pending) - 1
      /\ \A k \in 1 .. Len(pending') : pending'[k] = pending[k + 1]
  BY <1>1, <1>2, HeadTailProperties, EmptySeq
<1>4. /\ Head(covered) = covered[1]
      /\ Len(covered') = Len(covered) - 1
      /\ \A k \in 1 .. Len(covered') : covered'[k] = covered[k + 1]
  BY <1>1, <1>2, HeadTailProperties
<1>5. n \in Nat /\ n = pending[1].tick
  BY <1>3, AckIsNat DEF AckArgument
<1> HIDE DEF n
<1>6. /\ sent \in Seq(Including) /\ Len(sent) = Len(pending)
      /\ \A k \in 1 .. Len(pending) :
           /\ sent[k].position = pending[k].position
           /\ sent[k].lastProcessed = covered[k]
  BY SentIs
<1>7. 1 \in 1 .. Len(pending) /\ Len(pending) \in Nat
  BY <1>2, <1>3
<1>8. /\ sent[1] \in Including
      /\ sent[1].position = Head(pending).position
      /\ sent[1].lastProcessed = Head(covered)
  BY <1>3, <1>4, <1>6, <1>7
<1>9. sent' = [k \in 1 .. Len(pending') |->
                 [position |-> pending'[k].position,
                  lastProcessed |-> covered'[k]]]
  BY DEF sent
<1>10. sent' \in Seq(Including) /\ Len(sent') = Len(pending) - 1
  <2>1. /\ pending' \in Seq(World) /\ covered' \in Seq(Nat)
        /\ Len(covered') = Len(pending') /\ Len(pending') \in Nat
    BY DEF TypeOK
  <2>2. ASSUME NEW k \in 1 .. Len(pending')
        PROVE  [position |-> pending'[k].position, lastProcessed |-> covered'[k]]
                 \in Including
    BY <2>1, WorldFields DEF Including
  <2> QED
    BY <1>3, <1>9, <2>1, <2>2
<1>11. ASSUME NEW k \in 1 .. Len(sent') PROVE sent'[k] = sent[k + 1]
  <2>1. /\ k \in 1 .. Len(pending') /\ k \in 1 .. Len(covered')
        /\ k + 1 \in 1 .. Len(pending)
    BY <1>2, <1>3, <1>4, <1>7, <1>10
  <2>2. sent[k + 1] = [position |-> pending[k + 1].position,
                       lastProcessed |-> covered[k + 1]]
    BY <2>1 DEF sent
  <2>3. sent'[k] = [position |-> pending'[k].position,
                    lastProcessed |-> covered'[k]]
    BY <1>9, <2>1
  <2> QED
    BY <1>3, <1>4, <2>1, <2>2, <2>3
<1> QED
  BY <1>1, <1>3, <1>4, <1>5, <1>6, <1>8, <1>10, <1>11

LEMMA QueuedReceiveWorldState ==
  ASSUME TypeOK, TypeOK', Queued, ReceiveWorldState
  PROVE  Queued'
<1>1. PICK world \in Including, n \in Nat :
        /\ Len(sent) # 0 /\ world = sent[1]
        /\ heard' = world.lastProcessed
        /\ sent' \in Seq(Including) /\ Len(sent') = Len(sent) - 1
        /\ \A k \in 1 .. Len(sent') : sent'[k] = sent[k + 1]
        /\ UNCHANGED <<nextSequenceId, unprocessed, lastProcessed>>
  BY ReceiveIs
<1>2. sent \in Seq(Including) /\ Len(sent) \in Nat /\ Len(sent') \in Nat
  BY <1>1, SentIs
<1>3. IsQueue(unprocessed, nextSequenceId, lastProcessed)'
  BY <1>1 DEF Queued, IsQueue
<1>4. /\ \A k \in 1 .. Len(sent) : sent[k].lastProcessed <= lastProcessed
      /\ \A j, k \in 1 .. Len(sent) :
           j <= k => sent[j].lastProcessed <= sent[k].lastProcessed
  BY DEF Queued, InOrder
<1>5. /\ 1 \in 1 .. Len(sent)
      /\ \A k \in 1 .. Len(sent') : k + 1 \in 1 .. Len(sent) /\ 1 <= k + 1
  BY <1>1, <1>2
<1>6. heard' <= lastProcessed'
  BY <1>1, <1>4, <1>5
<1>7. \A k \in 1 .. Len(sent') :
        /\ heard' <= sent'[k].lastProcessed
        /\ sent'[k].lastProcessed <= lastProcessed'
  BY <1>1, <1>4, <1>5
<1>8. ASSUME NEW j \in 1 .. Len(sent'), NEW k \in 1 .. Len(sent'), j <= k
      PROVE  sent'[j].lastProcessed <= sent'[k].lastProcessed
  <2>1. j + 1 \in 1 .. Len(sent) /\ k + 1 \in 1 .. Len(sent)
        /\ j + 1 <= k + 1
    BY <1>2, <1>5, <1>8
  <2> QED
    BY <1>1, <1>4, <2>1
<1>9. InOrder(sent, heard, lastProcessed)'
  BY <1>6, <1>7, <1>8 DEF InOrder
<1> QED
  BY <1>3, <1>9 DEF Queued

\* A number larger than every id, or no larger than the last one that was
\* handed over, keeps what the number it is counted as would keep.
LEMMA SameCut ==
  ASSUME TypeOK, Numbers, NEW n \in Nat
  PROVE  Unacknowledged(history, n) = Unacknowledged(history, ToldBy(n))
<1>1. /\ nextSequenceId \in Nat \ {0} /\ told \in Nat
      /\ Len(history) \in Nat /\ DOMAIN history = 1 .. Len(history)
      /\ told <= nextSequenceId - 1 /\ HISTORY_CAP \in Nat
  BY PredictionAssumption DEF TypeOK, Numbers
<1>2. PICK m \in Nat : m = ToldBy(n)
  BY ToldIsNat
<1>3. ASSUME NEW i \in 1 .. Len(history)
      PROVE  history[i].sequenceId > n <=> history[i].sequenceId > m
  <2>1. /\ history[i].sequenceId = nextSequenceId - 1 - Len(history) + i
        /\ Len(history) <= nextSequenceId - 1 - told
    BY <1>1 DEF Numbers, IsHistory, Ascending, Held
  <2>2. PICK s \in Nat : /\ s = history[i].sequenceId
                         /\ told < s /\ s <= nextSequenceId - 1
    <3>1. nextSequenceId - 1 - Len(history) + i \in Nat
      BY <1>1, <2>1
    <3>2. /\ told < nextSequenceId - 1 - Len(history) + i
          /\ nextSequenceId - 1 - Len(history) + i <= nextSequenceId - 1
      BY <1>1, <2>1
    <3> QED
      BY <2>1, <3>1, <3>2
  <2>3. s > n <=> s > m
    BY <1>1, <1>2, <2>2 DEF ToldBy
  <2> QED
    BY <2>2, <2>3
<1>4. {i \in DOMAIN history : history[i].sequenceId > n}
        = {i \in DOMAIN history : history[i].sequenceId > m}
  <2>1. \A i \in DOMAIN history :
          history[i].sequenceId > n <=> history[i].sequenceId > m
    BY ONLY DOMAIN history = 1 .. Len(history), <1>1, <1>3
  <2> QED
    BY Zenon, <2>1
<1>5. Unacknowledged(history, n) = Unacknowledged(history, m)
  <2> DEFINE Cut(newer) ==
               IF newer = {} THEN <<>>
               ELSE SubSeq(history,
                           CHOOSE i \in newer : \A j \in newer : i <= j,
                           Len(history))
  <2>1. /\ Unacknowledged(history, n)
             = Cut({i \in DOMAIN history : history[i].sequenceId > n})
        /\ Unacknowledged(history, m)
             = Cut({i \in DOMAIN history : history[i].sequenceId > m})
    BY DEF Unacknowledged
  <2> HIDE DEF Cut
  <2> QED
    BY <1>4, <2>1
<1> QED
  BY <1>2, <1>5

LEMMA NumbersReceiveWorldState ==
  ASSUME TypeOK, TypeOK', Numbers, ReceiveWorldState
  PROVE  Numbers'
<1>1. PICK world \in Including, n \in Nat :
        /\ history' = Unacknowledged(history, n)
        /\ told' = ToldBy(n) /\ nextSequenceId' = nextSequenceId
  BY ReceiveIs
<1>2. /\ nextSequenceId \in Nat \ {0} /\ told \in Nat
      /\ history \in Seq(HistoryEntry)
  BY DEF TypeOK
<1>3. told <= nextSequenceId - 1 /\ IsHistory(history, nextSequenceId, told)
  BY DEF Numbers
<1>4. PICK m \in Nat : /\ m = ToldBy(n)
                       /\ told <= m /\ m <= nextSequenceId - 1
  <2>1. ToldBy(n) \in Nat
    BY ToldIsNat
  <2>2. told <= ToldBy(n) /\ ToldBy(n) <= nextSequenceId - 1
    BY <1>2, <1>3 DEF ToldBy
  <2> QED
    BY <2>1, <2>2
<1>5. history' = Unacknowledged(history, m)
  BY <1>1, <1>4, SameCut
<1>6. IsHistory(history', nextSequenceId', told')
  BY <1>1, <1>2, <1>3, <1>4, <1>5, HistoryShrinks
<1>7. told' <= nextSequenceId' - 1
  BY <1>1, <1>4
<1> QED
  BY <1>6, <1>7 DEF Numbers, IsHistory, Ascending, Held

\* Where a tick leaves the server and the queue of inputs.
LEMMA ServerTickIs ==
  ASSUME TypeOK, Queued, ServerTick
  PROVE  /\ EndTick
         /\ lastProcessed' \in Nat /\ lastProcessed <= lastProcessed'
         /\ lastProcessed' <= lastProcessed + 1
         /\ serverPlayer' \in Reachable
         /\ unprocessed' \in Seq(PendingInput)
         /\ IsQueue(unprocessed', nextSequenceId, lastProcessed')
         /\ Replay(serverPlayer', unprocessed')
              = Replay(serverPlayer, unprocessed)
         /\ Len(unprocessed') \in {Len(unprocessed), Len(unprocessed) - 1}
         /\ \A j \in Nat : j < Len(unprocessed') =>
              unprocessed'[Len(unprocessed') - j]
                = unprocessed[Len(unprocessed) - j]
<1>1. /\ unprocessed \in Seq(PendingInput) /\ lastProcessed \in Nat
      /\ serverPlayer \in Reachable /\ Len(unprocessed) \in Nat
  BY DEF TypeOK, PendingInput
<1>2. /\ EndTick
      /\ serverPlayer' \in Reachable /\ lastProcessed' \in Nat
      /\ unprocessed' \in Seq(PendingInput)
  <2>1. serverPlayer' \in Reachable /\ lastProcessed' \in Nat
        /\ unprocessed' \in Seq(PendingInput)
    BY TypeServerTick DEF TypeOK, PendingInput
  <2> QED
    BY <2>1 DEF ServerTick, TickWithInput, TickWithoutInput
<1>3. /\ Len(unprocessed) = nextSequenceId - 1 - lastProcessed
      /\ \A i \in 1 .. Len(unprocessed) :
           unprocessed[i].seq = lastProcessed + i
  BY DEF Queued, IsQueue
<1>4. CASE TickWithInput
  <2>1. /\ unprocessed # <<>>
        /\ serverPlayer' = ApplyInput(serverPlayer, Head(unprocessed).input)
        /\ lastProcessed' = Head(unprocessed).seq
        /\ unprocessed' = Tail(unprocessed)
    BY <1>4 DEF TickWithInput
  <2>2. /\ Len(unprocessed') = Len(unprocessed) - 1 /\ Len(unprocessed) # 0
        /\ \A i \in 1 .. Len(unprocessed) - 1 :
             unprocessed'[i] = unprocessed[i + 1]
        /\ Head(unprocessed) = unprocessed[1]
    BY <1>1, <2>1, HeadTailProperties, EmptySeq
  <2>3. lastProcessed' = lastProcessed + 1
    <3>1. 1 \in 1 .. Len(unprocessed)
      BY <1>1, <2>2
    <3> QED
      BY <1>3, <2>1, <2>2, <3>1
  <2>4. IsQueue(unprocessed', nextSequenceId, lastProcessed')
    <3>1. Len(unprocessed') = nextSequenceId - 1 - lastProcessed'
      BY <1>1, <1>3, <2>2, <2>3 DEF TypeOK
    <3>2. ASSUME NEW i \in 1 .. Len(unprocessed')
          PROVE  unprocessed'[i].seq = lastProcessed' + i
      <4>1. i \in 1 .. Len(unprocessed) - 1 /\ i + 1 \in 1 .. Len(unprocessed)
        BY <1>1, <2>2
      <4>2. unprocessed'[i].seq = lastProcessed + (i + 1)
        BY <1>3, <2>2, <4>1
      <4> QED
        BY <1>1, <2>3, <4>1, <4>2
    <3> QED
      BY <3>1, <3>2 DEF IsQueue
  <2>5. Replay(serverPlayer', unprocessed') = Replay(serverPlayer, unprocessed)
    BY <1>1, <2>1, ReplayTail
  <2>6. ASSUME NEW j \in Nat, j < Len(unprocessed')
        PROVE  unprocessed'[Len(unprocessed') - j]
                 = unprocessed[Len(unprocessed) - j]
    <3>1. /\ Len(unprocessed') - j \in 1 .. Len(unprocessed) - 1
          /\ Len(unprocessed') - j + 1 = Len(unprocessed) - j
      BY <1>1, <2>2, <2>6
    <3> QED
      BY <2>2, <3>1
  <2> QED
    BY <1>1, <1>2, <2>2, <2>3, <2>4, <2>5, <2>6
<1>5. CASE TickWithoutInput
  <2>1. UNCHANGED <<serverPlayer, lastProcessed, unprocessed>>
    BY <1>5 DEF TickWithoutInput
  <2>2. IsQueue(unprocessed, nextSequenceId, lastProcessed)
    BY DEF Queued
  <2> QED
    BY <1>1, <1>2, <2>1, <2>2
<1> QED
  BY <1>4, <1>5 DEF ServerTick

\* What a tick adds to the world states on their way.
LEMMA TickSends ==
  ASSUME TypeOK, TypeOK', ServerTick
  PROVE  \E w \in Including :
           /\ w.position = serverPlayer' /\ w.lastProcessed = lastProcessed'
           /\ sent' = Append(sent, w) \/ sent' = sent
<1>1. EndTick
  BY DEF ServerTick, TickWithInput, TickWithoutInput
<1> DEFINE v == [tick |-> currentTick, position |-> serverPlayer']
           w == [position |-> serverPlayer', lastProcessed |-> lastProcessed']
<1>2. /\ w \in Including /\ w.position = serverPlayer'
      /\ w.lastProcessed = lastProcessed'
  BY DEF Including, TypeOK
<1>3. v \in World /\ v.position = serverPlayer' /\ lastProcessed' \in Nat
  BY DEF World, TypeOK
<1>4. \/ pending' = Append(pending, v) /\ covered' = Append(covered, lastProcessed')
      \/ pending' = pending /\ covered' = covered
  BY <1>1, EndTickIs
<1>5. w = [position |-> v.position, lastProcessed |-> lastProcessed']
  OBVIOUS
<1> HIDE DEF v, w
<1>6. CASE pending' = pending /\ covered' = covered
  <2>1. sent' = sent
    BY <1>6 DEF sent
  <2> QED
    BY <1>2, <2>1
<1>7. CASE /\ pending' = Append(pending, v)
           /\ covered' = Append(covered, lastProcessed')
  <2>1. /\ pending \in Seq(World) /\ covered \in Seq(Nat)
        /\ Len(covered) = Len(pending) /\ Len(pending) \in Nat
    BY DEF TypeOK
  <2>2. /\ Len(pending') = Len(pending) + 1
        /\ \A k \in 1 .. Len(pending) : pending'[k] = pending[k]
        /\ pending'[Len(pending) + 1] = v
    BY <1>3, <1>7, <2>1, AppendProperties
  <2>3. /\ \A k \in 1 .. Len(covered) : covered'[k] = covered[k]
        /\ covered'[Len(covered) + 1] = lastProcessed'
    BY <1>3, <1>7, <2>1, AppendProperties
  <2>4. /\ sent \in Seq(Including) /\ Len(sent) = Len(pending)
    BY SentIs
  <2>5. /\ Append(sent, w) \in Seq(Including)
        /\ Len(Append(sent, w)) = Len(pending) + 1
        /\ \A k \in 1 .. Len(sent) : Append(sent, w)[k] = sent[k]
        /\ Append(sent, w)[Len(sent) + 1] = w
    BY <1>2, <2>4, AppendProperties
  <2>6. sent' = [k \in 1 .. Len(pending) + 1 |->
                   [position |-> pending'[k].position,
                    lastProcessed |-> covered'[k]]]
    BY <2>2 DEF sent
  <2>7. ASSUME NEW k \in 1 .. Len(pending) + 1
        PROVE  Append(sent, w)[k] = [position |-> pending'[k].position,
                                     lastProcessed |-> covered'[k]]
    <3>1. CASE k = Len(pending) + 1
      BY <1>5, <2>1, <2>2, <2>3, <2>4, <2>5, <3>1
    <3>2. CASE k # Len(pending) + 1
      <4>1. k \in 1 .. Len(pending)
        BY <2>1, <3>2
      <4>2. sent[k] = [position |-> pending[k].position,
                       lastProcessed |-> covered[k]]
        BY <4>1 DEF sent
      <4> QED
        BY <2>1, <2>2, <2>3, <2>4, <2>5, <4>1, <4>2
    <3> QED
      BY <3>1, <3>2
  <2> DEFINE longer == Append(sent, w)
  <2>8. longer = [k \in 1 .. Len(pending) + 1 |-> longer[k]]
    <3>1. longer \in Seq(Including) /\ Len(longer) = Len(pending) + 1
      BY <2>5
    <3> HIDE DEF longer
    <3> QED
      BY <3>1
  <2>9. sent' = longer
    <3>1. \A k \in 1 .. Len(pending) + 1 :
            longer[k] = [position |-> pending'[k].position,
                         lastProcessed |-> covered'[k]]
      BY <2>7
    <3> HIDE DEF longer
    <3> QED
      BY <2>6, <2>8, <3>1
  <2> QED
    BY <1>2, <2>9
<1> QED
  BY <1>4, <1>6, <1>7

LEMMA QueuedServerTick ==
  ASSUME TypeOK, TypeOK', Queued, ServerTick
  PROVE  Queued'
<1>1. /\ EndTick
      /\ lastProcessed' \in Nat /\ lastProcessed <= lastProcessed'
      /\ serverPlayer' \in Reachable
      /\ IsQueue(unprocessed', nextSequenceId, lastProcessed')
  BY ServerTickIs
<1>2. UNCHANGED <<history, nextSequenceId, heard>>
  BY <1>1, EndTickIs
<1>3. IsQueue(unprocessed, nextSequenceId, lastProcessed)'
  <2>1. IsQueue(unprocessed', nextSequenceId', lastProcessed')
    BY <1>1, <1>2
  <2> QED
    BY <2>1 DEF IsQueue
<1>4. InOrder(sent, heard, lastProcessed)'
  <2>1. /\ sent \in Seq(Including) /\ lastProcessed \in Nat /\ heard \in Nat
        /\ Len(sent) \in Nat
        /\ \A k \in 1 .. Len(sent) : sent[k].lastProcessed \in Nat
    <3>1. sent \in Seq(Including) /\ lastProcessed \in Nat /\ heard \in Nat
      BY SentIs DEF TypeOK
    <3>2. \A k \in 1 .. Len(sent) : sent[k] \in Including
      BY ONLY <3>1
    <3> QED
      BY <3>1, <3>2 DEF Including
  <2>2. /\ heard <= lastProcessed
        /\ \A k \in 1 .. Len(sent) :
             heard <= sent[k].lastProcessed
             /\ sent[k].lastProcessed <= lastProcessed
        /\ \A j, k \in 1 .. Len(sent) :
             j <= k => sent[j].lastProcessed <= sent[k].lastProcessed
    BY DEF Queued, InOrder
  <2>3. \A k \in 1 .. Len(sent) : sent[k].lastProcessed <= lastProcessed'
    BY <1>1, <2>1, <2>2
  <2>4. heard <= lastProcessed'
    BY <1>1, <2>1, <2>2
  <2>5. PICK w \in Including :
          /\ w.lastProcessed = lastProcessed'
          /\ sent' = Append(sent, w) \/ sent' = sent
    BY TickSends
  <2>7. CASE sent' = sent
    BY <1>2, <2>2, <2>3, <2>4, <2>7 DEF InOrder
  <2>8. CASE sent' = Append(sent, w)
    <3>1. /\ Len(sent') = Len(sent) + 1
          /\ \A k \in 1 .. Len(sent) : sent'[k] = sent[k]
          /\ sent'[Len(sent) + 1] = w
      BY <2>1, <2>8, AppendProperties
    <3>2. ASSUME NEW k \in 1 .. Len(sent')
          PROVE  /\ heard <= sent'[k].lastProcessed
                 /\ sent'[k].lastProcessed <= lastProcessed'
      <4>1. CASE k = Len(sent) + 1
        BY <1>1, <2>4, <2>5, <3>1, <4>1
      <4>2. CASE k # Len(sent) + 1
        <5>1. k \in 1 .. Len(sent)
          BY <2>1, <3>1, <4>2
        <5> QED
          BY <2>2, <2>3, <3>1, <5>1
      <4> QED
        BY <4>1, <4>2
    <3>3. ASSUME NEW j \in 1 .. Len(sent'), NEW k \in 1 .. Len(sent'),
                 j <= k
          PROVE  sent'[j].lastProcessed <= sent'[k].lastProcessed
      <4>1. CASE k = Len(sent) + 1
        BY <2>5, <3>1, <3>2, <4>1
      <4>2. CASE k # Len(sent) + 1
        <5>1. k \in 1 .. Len(sent) /\ j \in 1 .. Len(sent)
          BY <2>1, <3>1, <3>3, <4>2
        <5> QED
          BY <2>2, <3>1, <3>3, <5>1
      <4> QED
        BY <4>1, <4>2
    <3> QED
      BY <1>2, <2>4, <3>2, <3>3 DEF InOrder
  <2> QED
    BY <2>5, <2>7, <2>8
<1> QED
  BY <1>3, <1>4 DEF Queued

LEMMA NumbersServerTick ==
  ASSUME TypeOK, Numbers, ServerTick
  PROVE  Numbers'
<1>1. EndTick
  BY DEF ServerTick, TickWithInput, TickWithoutInput
<1>2. UNCHANGED <<history, nextSequenceId, told>>
  BY <1>1, EndTickIs
<1> QED
  BY <1>2 DEF Numbers, IsHistory, Ascending, Held

LEMMA NumbersNext ==
  ASSUME TypeOK, TypeOK', Numbers, [Next]_vars
  PROVE  Numbers'
<1>1. CASE UNCHANGED vars
  BY <1>1 DEF Numbers, IsHistory, Ascending, Held, vars, engineVars, netVars,
              ghostVars
<1> QED
  BY <1>1, NumbersProcessInput, NumbersReceiveWorldState, NumbersServerTick
     DEF Next

LEMMA HistoryFromNumbers ==
  ASSUME TypeOK, Numbers
  PROVE  HistoryIsUnacknowledged
<1> DEFINE newest == nextSequenceId - 1
           before == IF newest - told > HISTORY_CAP THEN newest - HISTORY_CAP
                                                    ELSE told
<1>1. /\ nextSequenceId \in Nat /\ told \in Nat /\ HISTORY_CAP \in Nat
      /\ DOMAIN history = 1 .. Len(history) /\ Len(history) \in Nat
  BY PredictionAssumption DEF TypeOK
<1>2. /\ Len(history) = Held(nextSequenceId, told)
      /\ \A i \in 1 .. Len(history) :
           history[i].sequenceId = nextSequenceId - 1 - Len(history) + i
  BY DEF Numbers, IsHistory, Ascending
<1>3. /\ Len(history) = newest - before
      /\ nextSequenceId - 1 - Len(history) = before
  BY <1>1, <1>2 DEF Held
<1> HIDE DEF before
<1>4. \A i \in DOMAIN history : history[i].sequenceId = before + i
  BY <1>1, <1>2, <1>3
<1> QED
  BY <1>3, <1>4 DEF HistoryIsUnacknowledged, before

\* With the tick for a sequence id, and whatever order inputs, ticks and late
\* world states come in, the history is the inputs newer than every number
\* handed over since they were made, in order and without a gap, or the newest
\* HISTORY_CAP of them: a smaller number brings nothing back, a tick beyond
\* the newest id spoils nothing that is made later.
THEOREM HistoryStaysUnacknowledged == Spec => []HistoryIsUnacknowledged
<1>1. Init => TypeOK /\ Numbers
  BY TypeInit, NumbersInit
<1>2. TypeOK /\ Numbers /\ [Next]_vars => (TypeOK /\ Numbers)'
  BY TypeNext, NumbersNext
<1>3. TypeOK /\ Numbers => HistoryIsUnacknowledged
  BY HistoryFromNumbers
<1> QED
  BY <1>1, <1>2, <1>3, PTL DEF Spec

-----------------------------------------------------------------------------
(* Where the inputs lead.                                                  *)

\* Two queues end with the same inputs, as far as both go.
Mirrors(entries, inputs) ==
  \A j \in Nat : j < Len(entries) /\ j < Len(inputs) =>
    entries[Len(entries) - j].input = inputs[Len(inputs) - j].input

\* The inputs after the last that world includes lead from its position to
\* goal, and the entries end with them.
Follows(entries, next, goal, world) ==
  \E since \in Seq(PendingInput) :
    /\ Len(since) = next - 1 - world.lastProcessed
    /\ goal = Replay(world.position, since)
    /\ Mirrors(entries, since)

Tracked ==
  /\ Ascending(history, nextSequenceId) /\ Queued
  /\ Mirrors(history, unprocessed)
  /\ truth = Replay(serverPlayer, unprocessed)
  /\ \A k \in 1 .. Len(sent) :
       Follows(history, nextSequenceId, truth, sent[k])

LEMMA MirrorsReversed ==
  ASSUME NEW a, NEW b, Mirrors(a, b)
  PROVE  Mirrors(b, a)
BY DEF Mirrors

LEMMA MirrorsEnd ==
  ASSUME NEW entries \in Seq(HistoryEntry), NEW inputs,
         NEW m \in 0 .. Len(entries), Mirrors(entries, inputs)
  PROVE  Mirrors(LastOf(entries, m), inputs)
<1>1. Len(LastOf(entries, m)) = m /\ Len(entries) \in Nat
  BY LastOfIs
<1> SUFFICES ASSUME NEW j \in Nat, j < m, j < Len(inputs)
             PROVE  LastOf(entries, m)[Len(LastOf(entries, m)) - j].input
                      = inputs[Len(inputs) - j].input
  BY <1>1 DEF Mirrors
<1>2. LastOf(entries, m)[Len(LastOf(entries, m)) - j]
        = entries[Len(entries) - j]
  BY LastOfEnds
<1>3. j < Len(entries)
  BY <1>1
<1>4. entries[Len(entries) - j].input = inputs[Len(inputs) - j].input
  BY <1>3 DEF Mirrors
<1> QED
  BY <1>2, <1>4

\* The same input at the end of both.
LEMMA MirrorsGrow ==
  ASSUME NEW entries \in Seq(HistoryEntry), NEW inputs \in Seq(PendingInput),
         NEW e \in HistoryEntry, NEW u \in PendingInput, e.input = u.input,
         Mirrors(entries, inputs)
  PROVE  Mirrors(Trimmed(Append(entries, e)), Append(inputs, u))
<1> DEFINE longer == Append(entries, e)
           part == Trimmed(longer)
           more == Append(inputs, u)
<1>1. /\ longer \in Seq(HistoryEntry) /\ Len(longer) = Len(entries) + 1
      /\ \A i \in 1 .. Len(entries) : longer[i] = entries[i]
      /\ longer[Len(entries) + 1] = e
      /\ Len(entries) \in Nat /\ Len(inputs) \in Nat
  BY AppendProperties
<1>2. /\ Len(more) = Len(inputs) + 1
      /\ \A i \in 1 .. Len(inputs) : more[i] = inputs[i]
      /\ more[Len(inputs) + 1] = u
  BY AppendProperties
<1> HIDE DEF longer, more
<1>3. \A j \in Nat : j < Len(part) =>
        j < Len(longer) /\ part[Len(part) - j] = longer[Len(longer) - j]
  <2>1. CASE Len(longer) > HISTORY_CAP
    <3>1. /\ Len(part) = Len(longer) - 1
          /\ \A i \in 1 .. Len(longer) - 1 : part[i] = longer[i + 1]
      BY <1>1, <2>1, TrimmedIs
    <3> HIDE DEF part
    <3>2. ASSUME NEW j \in Nat, j < Len(part)
          PROVE  j < Len(longer) /\ part[Len(part) - j] = longer[Len(longer) - j]
      <4>1. /\ Len(part) - j \in 1 .. Len(longer) - 1
            /\ Len(part) - j + 1 = Len(longer) - j
            /\ j < Len(longer)
        BY <1>1, <3>1, <3>2
      <4> QED
        BY <3>1, <4>1
    <3> QED
      BY <3>2
  <2>2. CASE ~ (Len(longer) > HISTORY_CAP)
    <3>1. part = longer
      BY <1>1, <2>2, TrimmedIs
    <3> QED
      BY <3>1
  <2> QED
    BY <2>1, <2>2
<1> HIDE DEF part
<1> SUFFICES ASSUME NEW j \in Nat, j < Len(part), j < Len(more)
             PROVE  part[Len(part) - j].input = more[Len(more) - j].input
  BY DEF Mirrors, part, longer, more
<1>4. part[Len(part) - j] = longer[Len(longer) - j] /\ j < Len(longer)
  BY <1>3
<1>5. CASE j = 0
  <2>1. Len(longer) - j = Len(entries) + 1 /\ Len(more) - j = Len(inputs) + 1
    BY <1>1, <1>2, <1>5
  <2> QED
    BY <1>1, <1>2, <1>4, <2>1
<1>6. CASE j # 0
  <2>1. /\ j - 1 \in Nat /\ j - 1 < Len(entries) /\ j - 1 < Len(inputs)
        /\ Len(longer) - j = Len(entries) - (j - 1)
        /\ Len(more) - j = Len(inputs) - (j - 1)
        /\ Len(entries) - (j - 1) \in 1 .. Len(entries)
        /\ Len(inputs) - (j - 1) \in 1 .. Len(inputs)
    BY <1>1, <1>2, <1>4, <1>6
  <2>2. entries[Len(entries) - (j - 1)].input
          = inputs[Len(inputs) - (j - 1)].input
    BY <2>1 DEF Mirrors
  <2>3. longer[Len(longer) - j] = entries[Len(entries) - (j - 1)]
    BY <1>1, <2>1
  <2>4. more[Len(more) - j] = inputs[Len(inputs) - (j - 1)]
    BY <1>2, <2>1
  <2> QED
    BY <1>4, <2>2, <2>3, <2>4
<1> QED
  BY <1>5, <1>6

\* Queues that end alike lead no further apart than the one that is longer
\* has steps to spare.
LEMMA ReplaysNear ==
  ASSUME NEW p \in Reachable, NEW S, NEW a \in Seq(S), NEW T, NEW b \in Seq(T),
         \A e \in S : e.input \in InputState,
         \A e \in T : e.input \in InputState,
         Mirrors(a, b), Len(a) <= Len(b)
  PROVE  Near(Replay(p, a), Replay(p, b), Far(Len(b) - Len(a)))
<1>1. PICK k \in Nat, d \in Nat : k = Len(a) /\ Len(b) = d + k
  <2>1. /\ Len(a) \in Nat /\ Len(b) - Len(a) \in Nat
        /\ Len(b) = Len(b) - Len(a) + Len(a)
    OBVIOUS
  <2> QED
    BY <2>1
<1> DEFINE q == Positions(p, b)[d]
           rest == LastOf(b, k)
<1>2. k \in 0 .. Len(b) /\ d \in 0 .. Len(b) /\ Len(b) - k = d
  BY <1>1
<1>3. q \in Reachable /\ Near(q, p, Far(d))
  BY <1>2, PositionsStride
<1>4. Far(d) \in Nat
  BY FarSteps
<1>5. Near(p, q, Far(d))
  BY <1>3, <1>4, NearReversed
<1>6. /\ rest \in Seq(T) /\ Len(rest) = k
      /\ \A i \in 1 .. k : rest[i] = b[d + i]
  BY <1>2, LastOfIs
<1>7. Replay(p, b) = Replay(q, rest)
  BY <1>1, ReplaySplit
<1> HIDE DEF q, rest
<1>8. ASSUME NEW i \in 1 .. Len(a) PROVE a[i].input = rest[i].input
  <2>1. /\ k - i \in Nat /\ k - i < Len(a) /\ k - i < Len(b)
        /\ Len(a) - (k - i) = i /\ Len(b) - (k - i) = d + i
    BY <1>1
  <2>2. a[Len(a) - (k - i)].input = b[Len(b) - (k - i)].input
    BY <2>1 DEF Mirrors
  <2> QED
    BY <1>1, <1>6, <2>1, <2>2
<1>9. Near(Replay(p, a), Replay(q, rest), Far(d))
  BY <1>1, <1>3, <1>4, <1>5, <1>6, <1>8, ReplayContracts
<1>10. Len(b) - Len(a) = d
  BY <1>1
<1> QED
  BY <1>7, <1>9, <1>10

LEMMA InputsAreStates ==
  /\ \A e \in HistoryEntry : e.input \in InputState
  /\ \A e \in PendingInput : e.input \in InputState
BY PredictionAssumption DEF HistoryEntry, PendingInput

LEMMA ReplaysApart ==
  ASSUME NEW p \in Reachable, NEW a \in Seq(HistoryEntry),
         NEW b \in Seq(PendingInput), Mirrors(a, b)
  PROVE  Near(Replay(p, a), Replay(p, b), Far(Abs(Len(a) - Len(b))))
<1>1. /\ Len(a) \in Nat /\ Len(b) \in Nat
      /\ Replay(p, a) \in Reachable /\ Replay(p, b) \in Reachable
  BY InputsAreStates, ReplayType
<1>2. CASE Len(a) <= Len(b)
  <2>1. Abs(Len(a) - Len(b)) = Len(b) - Len(a)
    BY <1>1, <1>2 DEF Abs
  <2>2. Near(Replay(p, a), Replay(p, b), Far(Len(b) - Len(a)))
    BY <1>2, InputsAreStates, ReplaysNear
  <2> QED
    BY <2>1, <2>2
<1>3. CASE Len(b) <= Len(a)
  <2>1. Abs(Len(a) - Len(b)) = Len(a) - Len(b)
    BY <1>1, <1>3 DEF Abs
  <2>2. Near(Replay(p, b), Replay(p, a), Far(Len(a) - Len(b)))
    BY <1>3, InputsAreStates, MirrorsReversed, ReplaysNear
  <2>3. Len(a) - Len(b) \in Nat
    BY <1>1, <1>3
  <2>4. Far(Len(a) - Len(b)) \in Nat
    BY <2>3, FarSteps
  <2> QED
    BY <1>1, <2>1, <2>2, <2>4, NearReversed
<1> QED
  BY <1>1, <1>2, <1>3

LEMMA TrackedInit == Init => Tracked
<1> SUFFICES ASSUME Init PROVE Tracked
  OBVIOUS
<1>1. /\ history = <<>> /\ unprocessed = <<>> /\ pending = <<>>
      /\ truth = serverPlayer
  BY DEF Init
<1>2. truth = Replay(serverPlayer, unprocessed)
  BY <1>1, ReplayEmpty
<1>3. Numbers /\ Queued
  BY NumbersInit, QueuedInit
<1>4. Len(sent) = 0
  BY <1>1, TypeInit, SentIs
<1> QED
  BY <1>1, <1>2, <1>3, <1>4 DEF Tracked, Mirrors, Numbers, IsHistory

LEMMA TrackedProcessInput ==
  ASSUME TypeOK, Tracked, ProcessInput
  PROVE  Tracked'
<1>1. PICK e \in HistoryEntry, u \in PendingInput :
        /\ e.input = u.input /\ e.sequenceId = nextSequenceId
        /\ truth' = ApplyInput(truth, e.input)
        /\ history' = Trimmed(Append(history, e))
        /\ unprocessed' = Append(unprocessed, u)
        /\ nextSequenceId' = nextSequenceId + 1
        /\ UNCHANGED <<serverPlayer, pending, covered>>
  BY ProcessInputIs
<1>2. /\ nextSequenceId \in Nat \ {0} /\ history \in Seq(HistoryEntry)
      /\ unprocessed \in Seq(PendingInput)
  BY DEF TypeOK, PendingInput
<1>s. sent' = sent /\ sent \in Seq(Including)
  BY <1>1, SentIs DEF sent
<1>3. Ascending(history', nextSequenceId')
  BY <1>1, <1>2, AscendingGrows DEF Tracked
<1>4. Queued'
  BY QueuedProcessInput DEF Tracked
<1>5. Mirrors(history', unprocessed')
  BY <1>1, <1>2, MirrorsGrow DEF Tracked
<1>6. truth' = Replay(serverPlayer', unprocessed')
  <2>1. truth = Replay(serverPlayer, unprocessed)
    BY DEF Tracked
  <2>2. Replay(serverPlayer, Append(unprocessed, u))
          = ApplyInput(Replay(serverPlayer, unprocessed), u.input)
    BY <1>2, ReplayAppend
  <2> QED
    BY <1>1, <2>1, <2>2
<1>7. ASSUME NEW k \in 1 .. Len(sent)
      PROVE  Follows(history', nextSequenceId', truth', sent[k])
  <2>1. sent[k] \in Including /\ sent[k].lastProcessed \in Nat
    <3>1. sent[k] \in Including
      BY ONLY <1>s
    <3> QED
      BY <3>1 DEF Including
  <2>2. Follows(history, nextSequenceId, truth, sent[k])
    BY DEF Tracked
  <2>3. PICK since \in Seq(PendingInput) :
          /\ Len(since) = nextSequenceId - 1 - sent[k].lastProcessed
          /\ truth = Replay(sent[k].position, since)
          /\ Mirrors(history, since)
    BY <2>2 DEF Follows
  <2> DEFINE more == Append(since, u)
  <2>4. more \in Seq(PendingInput) /\ Len(more) = Len(since) + 1
    BY AppendProperties
  <2>5. Mirrors(history', more)
    BY <1>1, <1>2, <2>3, MirrorsGrow
  <2>6. truth' = Replay(sent[k].position, more)
    <3>1. Replay(sent[k].position, more)
            = ApplyInput(Replay(sent[k].position, since), u.input)
      BY ReplayAppend
    <3> QED
      BY <1>1, <2>3, <3>1
  <2> HIDE DEF more
  <2>7. Len(more) = nextSequenceId' - 1 - sent[k].lastProcessed
    BY <1>1, <1>2, <2>1, <2>3, <2>4
  <2> QED
    BY <2>4, <2>5, <2>6, <2>7 DEF Follows
<1>8. \A k \in 1 .. Len(sent') :
        Follows(history', nextSequenceId', truth', sent'[k])
  BY <1>s, <1>7
<1> QED
  BY <1>3, <1>4, <1>5, <1>6, <1>8 DEF Tracked, Ascending, Mirrors, Follows

LEMMA TrackedReceiveWorldState ==
  ASSUME TypeOK, TypeOK', Tracked, ReceiveWorldState
  PROVE  Tracked'
<1>1. PICK world \in Including, n \in Nat :
        /\ history' = Unacknowledged(history, n)
        /\ sent' \in Seq(Including) /\ Len(sent') = Len(sent) - 1
        /\ \A k \in 1 .. Len(sent') : sent'[k] = sent[k + 1]
        /\ UNCHANGED <<nextSequenceId, unprocessed, serverPlayer, truth>>
  BY ReceiveIs DEF Tracked
<1>2. /\ nextSequenceId \in Nat \ {0} /\ history \in Seq(HistoryEntry)
      /\ Len(sent) \in Nat
  BY SentIs DEF TypeOK
<1>3. Ascending(history, nextSequenceId)
  BY DEF Tracked
<1>4. Ascending(history', nextSequenceId')
  BY <1>1, <1>2, <1>3, AscendingShrinks
<1>5. PICK m \in 0 .. Len(history) : history' = LastOf(history, m)
  BY <1>1, <1>2, <1>3, AscendingShrinks
<1>6. Queued'
  BY QueuedReceiveWorldState DEF Tracked
<1>7. Mirrors(history', unprocessed')
  <2>1. Mirrors(history, unprocessed)
    BY DEF Tracked
  <2> QED
    BY <1>1, <1>2, <1>5, <2>1, MirrorsEnd
<1>8. truth' = Replay(serverPlayer', unprocessed')
  BY <1>1 DEF Tracked
<1>9. ASSUME NEW k \in 1 .. Len(sent')
      PROVE  Follows(history', nextSequenceId', truth', sent'[k])
  <2>1. k + 1 \in 1 .. Len(sent) /\ sent'[k] = sent[k + 1]
    BY <1>1, <1>2
  <2>2. Follows(history, nextSequenceId, truth, sent[k + 1])
    BY <2>1 DEF Tracked
  <2>3. PICK since \in Seq(PendingInput) :
          /\ Len(since) = nextSequenceId - 1 - sent[k + 1].lastProcessed
          /\ truth = Replay(sent[k + 1].position, since)
          /\ Mirrors(history, since)
    BY <2>2 DEF Follows
  <2>4. Mirrors(history', since)
    BY <1>2, <1>5, <2>3, MirrorsEnd
  <2> QED
    BY <1>1, <2>1, <2>3, <2>4 DEF Follows
<1> QED
  BY <1>4, <1>6, <1>7, <1>8, <1>9 DEF Tracked, Ascending, Mirrors, Follows

LEMMA TrackedServerTick ==
  ASSUME TypeOK, TypeOK', Tracked, ServerTick
  PROVE  Tracked'
<1>1. /\ EndTick
      /\ lastProcessed' \in Nat
      /\ serverPlayer' \in Reachable
      /\ unprocessed' \in Seq(PendingInput)
      /\ IsQueue(unprocessed', nextSequenceId, lastProcessed')
      /\ Replay(serverPlayer', unprocessed') = Replay(serverPlayer, unprocessed)
      /\ Len(unprocessed') \in {Len(unprocessed), Len(unprocessed) - 1}
      /\ \A j \in Nat : j < Len(unprocessed') =>
           unprocessed'[Len(unprocessed') - j]
             = unprocessed[Len(unprocessed) - j]
  BY ServerTickIs DEF Tracked
<1>2. UNCHANGED <<history, nextSequenceId, truth>>
  BY <1>1, EndTickIs
<1>3. /\ sent \in Seq(Including) /\ Len(sent) \in Nat
      /\ Len(history) \in Nat /\ Len(unprocessed) \in Nat
  BY SentIs DEF TypeOK
<1>4. Mirrors(history', unprocessed')
  <2> SUFFICES ASSUME NEW j \in Nat, j < Len(history), j < Len(unprocessed')
               PROVE  history[Len(history) - j].input
                        = unprocessed'[Len(unprocessed') - j].input
    BY <1>2 DEF Mirrors
  <2>1. j < Len(unprocessed)
    BY <1>1, <1>3
  <2>2. history[Len(history) - j].input
          = unprocessed[Len(unprocessed) - j].input
    BY <2>1 DEF Tracked, Mirrors
  <2> QED
    BY <1>1, <2>2
<1>5. truth' = Replay(serverPlayer', unprocessed')
  BY <1>1, <1>2 DEF Tracked
<1>6. Ascending(history', nextSequenceId') /\ Queued'
  BY <1>2, QueuedServerTick DEF Tracked
<1>7. PICK w \in Including :
        /\ w.position = serverPlayer' /\ w.lastProcessed = lastProcessed'
        /\ sent' = Append(sent, w) \/ sent' = sent
  BY TickSends
<1>9. Follows(history', nextSequenceId', truth', w)
  <2>1. Len(unprocessed') = nextSequenceId - 1 - lastProcessed'
    BY <1>1 DEF IsQueue
  <2> QED
    BY <1>1, <1>2, <1>4, <1>5, <1>7, <2>1 DEF Follows
<1>10. ASSUME NEW k \in 1 .. Len(sent)
       PROVE  Follows(history', nextSequenceId', truth', sent[k])
  BY <1>2 DEF Tracked
<1>11. \A k \in 1 .. Len(sent') :
         Follows(history', nextSequenceId', truth', sent'[k])
  <2>1. CASE sent' = sent
    BY <1>10, <2>1
  <2>2. CASE sent' = Append(sent, w)
    <3>1. /\ Len(sent') = Len(sent) + 1
          /\ \A k \in 1 .. Len(sent) : sent'[k] = sent[k]
          /\ sent'[Len(sent) + 1] = w
      BY <1>3, <1>7, <2>2, AppendProperties
    <3> SUFFICES ASSUME NEW k \in 1 .. Len(sent')
                 PROVE  Follows(history', nextSequenceId', truth', sent'[k])
      OBVIOUS
    <3>2. k \in 1 .. Len(sent) \/ k = Len(sent) + 1
      BY <1>3, <3>1
    <3> QED
      BY <1>9, <1>10, <3>1, <3>2
  <2> QED
    BY <1>7, <2>1, <2>2
<1> QED
  BY <1>4, <1>5, <1>6, <1>11 DEF Tracked, Ascending, Mirrors, Follows

LEMMA TrackedNext ==
  ASSUME TypeOK, TypeOK', Tracked, [Next]_vars
  PROVE  Tracked'
<1>1. CASE UNCHANGED vars
  <2>1. sent' = sent
    BY <1>1 DEF sent, vars, netVars, ghostVars
  <2> QED
    BY <1>1, <2>1 DEF Tracked, Ascending, Queued, IsQueue, InOrder, Mirrors,
                      Follows, vars, engineVars, netVars, ghostVars
<1> QED
  BY <1>1, TrackedProcessInput, TrackedReceiveWorldState, TrackedServerTick
     DEF Next

-----------------------------------------------------------------------------
(* Nothing is replayed twice.                                              *)

\* Until it wraps, the tick is ahead of the inputs that were applied.
Behind ==
  ~ wrapped =>
    /\ lastProcessed < currentTick
    /\ \A k \in 1 .. Len(pending) : covered[k] <= pending[k].tick

LEMMA BehindInit == Init => Behind
<1> SUFFICES ASSUME Init PROVE Behind
  OBVIOUS
<1>1. /\ pending = <<>> /\ lastProcessed = 0 /\ wrapped = (currentTick = 0)
      /\ currentTick \in 0 .. TICK_MOD - 1 /\ TICK_MOD \in Nat
  BY PredictionAssumption DEF Init
<1>2. ~ wrapped => currentTick # 0
  BY Zenon, <1>1
<1>3. currentTick # 0 => 0 < currentTick
  BY <1>1
<1>4. Len(pending) = 0
  BY <1>1
<1>5. \A k \in 1 .. Len(pending) : FALSE
  BY <1>4
<1> QED
  BY <1>1, <1>2, <1>3, <1>5 DEF Behind

LEMMA TickWraps ==
  ASSUME NEW M \in Nat \ {0}, NEW t \in 0 .. M - 1, (t + 1) % M # 0
  PROVE  (t + 1) % M = t + 1
<1>1. t + 1 < M \/ t + 1 = M
  OBVIOUS
<1> QED
  BY <1>1

LEMMA BehindServerTick ==
  ASSUME TypeOK, TypeOK', Queued, Behind, ServerTick
  PROVE  Behind'
<1> SUFFICES ASSUME ~ wrapped'
             PROVE  /\ lastProcessed' < currentTick'
                    /\ \A k \in 1 .. Len(pending') :
                         covered'[k] <= pending'[k].tick
  BY DEF Behind
<1>1. EndTick /\ lastProcessed' <= lastProcessed + 1
  BY ServerTickIs
<1>2. ~ wrapped /\ currentTick' # 0 /\ currentTick' = (currentTick + 1) % TICK_MOD
  BY <1>1, EndTickIs
<1>3. /\ currentTick \in 0 .. TICK_MOD - 1 /\ TICK_MOD \in Nat \ {0}
      /\ lastProcessed \in Nat /\ lastProcessed' \in Nat
      /\ pending \in Seq(World) /\ covered \in Seq(Nat)
      /\ Len(covered) = Len(pending) /\ Len(pending) \in Nat
  BY PredictionAssumption DEF TypeOK
<1>4. currentTick' = currentTick + 1
  BY <1>2, <1>3, TickWraps
<1>5. /\ lastProcessed < currentTick
      /\ \A k \in 1 .. Len(pending) : covered[k] <= pending[k].tick
  BY <1>2 DEF Behind
<1>6. lastProcessed' <= currentTick /\ lastProcessed' < currentTick'
  BY <1>1, <1>3, <1>4, <1>5
<1> DEFINE v == [tick |-> currentTick, position |-> serverPlayer']
<1>7. v \in World /\ v.tick = currentTick
  BY DEF World, TypeOK
<1>8. \/ pending' = Append(pending, v) /\ covered' = Append(covered, lastProcessed')
      \/ pending' = pending /\ covered' = covered
  BY <1>1, EndTickIs
<1> HIDE DEF v
<1>9. CASE pending' = pending /\ covered' = covered
  BY <1>5, <1>6, <1>9
<1>10. CASE /\ pending' = Append(pending, v)
            /\ covered' = Append(covered, lastProcessed')
  <2>1. /\ Len(pending') = Len(pending) + 1
        /\ \A k \in 1 .. Len(pending) : pending'[k] = pending[k]
        /\ pending'[Len(pending) + 1] = v
    BY <1>3, <1>7, <1>10, AppendProperties
  <2>2. /\ \A k \in 1 .. Len(covered) : covered'[k] = covered[k]
        /\ covered'[Len(covered) + 1] = lastProcessed'
    BY <1>3, <1>10, AppendProperties
  <2>3. ASSUME NEW k \in 1 .. Len(pending')
        PROVE  covered'[k] <= pending'[k].tick
    <3>1. CASE k = Len(pending) + 1
      BY <1>3, <1>6, <1>7, <2>1, <2>2, <3>1
    <3>2. CASE k # Len(pending) + 1
      <4>1. k \in 1 .. Len(pending)
        BY <1>3, <2>1, <3>2
      <4> QED
        BY <1>3, <1>5, <2>1, <2>2, <4>1
    <3> QED
      BY <3>1, <3>2
  <2> QED
    BY <1>6, <2>3
<1> QED
  BY <1>8, <1>9, <1>10

LEMMA BehindReceiveWorldState ==
  ASSUME TypeOK, Behind, ReceiveWorldState
  PROVE  Behind'
<1>1. /\ pending # <<>> /\ pending' = Tail(pending) /\ covered' = Tail(covered)
      /\ UNCHANGED <<lastProcessed, currentTick, wrapped>>
  BY DEF ReceiveWorldState
<1>2. /\ pending \in Seq(World) /\ covered \in Seq(Nat)
      /\ Len(covered) = Len(pending) /\ covered # <<>> /\ Len(pending) \in Nat
  BY <1>1, EmptySeq DEF TypeOK
<1>3. /\ Len(pending') = Len(pending) - 1
      /\ \A k \in 1 .. Len(pending') : pending'[k] = pending[k + 1]
  BY <1>1, <1>2, HeadTailProperties
<1>4. /\ Len(covered') = Len(covered) - 1
      /\ \A k \in 1 .. Len(covered') : covered'[k] = covered[k + 1]
  BY <1>1, <1>2, HeadTailProperties
<1>5. \A k \in 1 .. Len(pending') :
        k + 1 \in 1 .. Len(pending) /\ k \in 1 .. Len(covered')
  BY <1>2, <1>3, <1>4
<1> QED
  BY <1>1, <1>3, <1>4, <1>5 DEF Behind

LEMMA BehindNext ==
  ASSUME TypeOK, TypeOK', Queued, Behind, [Next]_vars
  PROVE  Behind'
<1>1. CASE UNCHANGED vars
  BY <1>1 DEF Behind, vars, netVars, ghostVars
<1>2. CASE ProcessInput
  <2>1. UNCHANGED <<lastProcessed, currentTick, pending, covered, wrapped>>
    BY <1>2, ProcessInputIs
  <2> QED
    BY <2>1 DEF Behind
<1> QED
  BY <1>1, <1>2, BehindReceiveWorldState, BehindServerTick DEF Next

LEMMA ReplayedIsNew ==
  ASSUME TypeOK, TypeOK', Tracked, Behind, ReceiveWorldState, ~ wrapped
  PROVE  \A i \in DOMAIN history' : history'[i].sequenceId > heard'
<1>1. PICK world \in Including, n \in Nat :
        /\ Len(sent) # 0 /\ n = pending[1].tick
        /\ world.lastProcessed = covered[1]
        /\ history' = Unacknowledged(history, n)
        /\ heard' = world.lastProcessed
  BY ReceiveIs DEF Tracked
<1>2. /\ nextSequenceId \in Nat /\ history \in Seq(HistoryEntry)
      /\ history' \in Seq(HistoryEntry) /\ heard' \in Nat
      /\ Len(pending) \in Nat /\ Len(sent) = Len(pending)
      /\ DOMAIN history' = 1 .. Len(history')
  BY SentIs DEF TypeOK
<1>3. heard' <= n
  BY <1>1, <1>2 DEF Behind
<1>4. \A i \in 1 .. Len(history') : history'[i].sequenceId > n
  BY <1>1, <1>2, AscendingShrinks DEF Tracked
<1> SUFFICES ASSUME NEW i \in 1 .. Len(history')
             PROVE  history'[i].sequenceId > heard'
  BY <1>2
<1>5. PICK h \in Nat, s \in Nat : h = heard' /\ s = history'[i].sequenceId
  <2>1. history'[i] \in HistoryEntry
    BY <1>2
  <2> QED
    BY <1>2, <2>1 DEF HistoryEntry
<1>6. s > n /\ h <= n
  BY <1>3, <1>4, <1>5
<1>7. s > h
  BY <1>6
<1> QED
  BY <1>5, <1>7

\* The tick errs on one side only: until it wraps, no world state leaves an
\* entry in the history that its position already includes, so no input is
\* applied twice.  The server applies one input per tick at most and counted
\* before the client did; a server that applied two would break this.
THEOREM NothingIsReplayedTwice == Spec => NothingReplayedTwice
<1> DEFINE Inv == TypeOK /\ Tracked /\ Behind
           Step == ReceiveWorldState /\ ~wrapped =>
                     \A i \in DOMAIN history' : history'[i].sequenceId > heard'
<1>1. Init => Inv
  BY TypeInit, TrackedInit, BehindInit
<1>2. Inv /\ [Next]_vars => Inv'
  BY TypeNext, TrackedNext, BehindNext DEF Tracked
<1>3. Inv /\ Inv' /\ [Next]_vars => [Step]_vars
  BY ReplayedIsNew
<1> HIDE DEF Inv
<1> QED
  BY <1>1, <1>2, <1>3, PTL DEF Spec, NothingReplayedTwice

-----------------------------------------------------------------------------
(* A world state, whatever it is taken to acknowledge.                     *)

LEMMA SquareBound ==
  ASSUME NEW d \in Int, NEW e \in Int, NEW t \in Nat, d * d + e * e <= t * t
  PROVE  d <= t
<1>1. SUFFICES ASSUME d > t PROVE FALSE
  OBVIOUS
<1>2. PICK r \in Nat : d = t + 1 + r
  <2>1. d - t - 1 \in Nat /\ d = t + 1 + (d - t - 1)
    BY <1>1
  <2> QED
    BY <2>1
<1>3. d * d = t * t + (2 * (t * (1 + r)) + (1 + r) * (1 + r))
  BY <1>2
<1>4. t * (1 + r) \in Nat /\ (1 + r) * (1 + r) \in Nat /\ (1 + r) * (1 + r) > 0
  <2>1. (1 + r) * (1 + r) = 1 + (2 * r + r * r) /\ r * r \in Nat
    OBVIOUS
  <2>2. t * (1 + r) = t + t * r /\ t * r \in Nat
    OBVIOUS
  <2> QED
    BY <2>1, <2>2
<1>5. e * e \in Int /\ e * e >= 0 /\ t * t \in Int /\ d * d \in Int
  OBVIOUS
<1> QED
  BY <1>3, <1>4, <1>5

LEMMA CloseIsNear ==
  ASSUME NEW p \in Reachable, NEW q \in Reachable, ~ FarApart(p, q)
  PROVE  Near(p, q, THRESHOLD)
<1>1. /\ p.x \in Int /\ p.y \in Int /\ q.x \in Int /\ q.y \in Int
      /\ THRESHOLD \in Nat
  BY ReachableIsVec2, PredictionAssumption DEF Vec2
<1>2. PICK dx \in Int, dy \in Int : dx = p.x - q.x /\ dy = p.y - q.y
  BY <1>1
<1>3. dx * dx + dy * dy <= THRESHOLD * THRESHOLD
  <2>1. ~ (dx * dx + dy * dy > THRESHOLD * THRESHOLD)
    BY <1>2 DEF FarApart, DistanceSquared
  <2>2. dx * dx + dy * dy \in Int /\ THRESHOLD * THRESHOLD \in Int
    BY <1>1
  <2> QED
    BY <2>1, <2>2
<1>4. /\ dy * dy + dx * dx <= THRESHOLD * THRESHOLD
      /\ (- dx) * (- dx) + dy * dy <= THRESHOLD * THRESHOLD
      /\ (- dy) * (- dy) + dx * dx <= THRESHOLD * THRESHOLD
  BY <1>1, <1>3
<1>5. - dx \in Int /\ - dy \in Int
  OBVIOUS
<1>6. dx <= THRESHOLD /\ - dx <= THRESHOLD
  BY <1>1, <1>3, <1>4, <1>5, SquareBound
<1>7. dy <= THRESHOLD /\ - dy <= THRESHOLD
  BY <1>1, <1>3, <1>4, <1>5, SquareBound
<1> QED
  BY <1>1, <1>2, <1>6, <1>7 DEF Near, AbsDiff

LEMMA NearIsWithin ==
  ASSUME NEW p \in Reachable, NEW q \in Reachable, NEW far \in Nat,
         Near(p, q, far)
  PROVE  Abs(p.x - q.x) <= far /\ Abs(p.y - q.y) <= far
<1>1. p.x \in Int /\ p.y \in Int /\ q.x \in Int /\ q.y \in Int
  BY ReachableIsVec2 DEF Vec2
<1> QED
  BY <1>1 DEF Near, AbsDiff, Abs

LEMMA CorrectedNear ==
  ASSUME TypeOK, Tracked, TypeOK', ReceiveWorldState
  PROVE  \/ Near(localPlayer', truth', Far(Abs(Len(history') - Ahead')))
         \/ /\ localPlayer' = localPlayer
            /\ Ahead' \in Nat
            /\ Near(localPlayer', truth', THRESHOLD + Far(Ahead'))
<1>1. PICK world \in Including, n \in Nat :
        /\ Len(sent) # 0 /\ world = sent[1]
        /\ history' = Unacknowledged(history, n)
        /\ localPlayer' = Reconciled(history', world.position, n)
        /\ heard' = world.lastProcessed
        /\ UNCHANGED <<nextSequenceId, truth>>
  BY ReceiveIs DEF Tracked
<1>2. /\ nextSequenceId \in Nat \ {0} /\ history \in Seq(HistoryEntry)
      /\ Len(sent) \in Nat /\ world.position \in Reachable
      /\ localPlayer \in Reachable /\ truth \in Reachable
      /\ localPlayer' \in Reachable /\ history' \in Seq(HistoryEntry)
      /\ THRESHOLD \in Nat
  BY SentIs, PredictionAssumption DEF TypeOK, Including
<1>3. 1 \in 1 .. Len(sent)
  BY <1>1, <1>2
<1>4. Follows(history, nextSequenceId, truth, world)
  BY <1>1, <1>3 DEF Tracked
<1>5. PICK since \in Seq(PendingInput) :
        /\ Len(since) = nextSequenceId - 1 - world.lastProcessed
        /\ truth = Replay(world.position, since)
        /\ Mirrors(history, since)
  BY <1>4 DEF Follows
<1>6. Ahead' = Len(since) /\ Len(since) \in Nat
  BY <1>1, <1>5 DEF Ahead
<1>7. Ascending(history, nextSequenceId)
  BY DEF Tracked
<1>8. PICK m \in 0 .. Len(history) : history' = LastOf(history, m)
  BY <1>1, <1>2, <1>7, AscendingShrinks
<1>9. Mirrors(history', since)
  BY <1>2, <1>5, <1>8, MirrorsEnd
<1>10. Near(Replay(world.position, history'), truth,
            Far(Abs(Len(history') - Len(since))))
  BY <1>2, <1>5, <1>9, ReplaysApart
<1>11. PredictedFor(history', n) = localPlayer
  <2>1. \A i \in 1 .. Len(history') : history'[i].sequenceId > n
    BY <1>1, <1>2, <1>7, AscendingShrinks
  <2>2. DOMAIN history' = 1 .. Len(history')
    BY <1>2
  <2>3. \A i \in 1 .. Len(history') : history'[i].sequenceId # n
    <3> SUFFICES ASSUME NEW i \in 1 .. Len(history'),
                        history'[i].sequenceId = n
                 PROVE  FALSE
      OBVIOUS
    <3>1. history'[i].sequenceId > n
      BY <2>1
    <3> QED
      BY <3>1
  <2> QED
    BY <2>2, <2>3 DEF PredictedFor
<1>12. CASE history' = <<>>
  <2>1. localPlayer' = world.position
    BY <1>1, <1>12 DEF Reconciled
  <2>2. Replay(world.position, history') = world.position
    BY <1>12, ReplayEmpty
  <2> QED
    BY <1>1, <1>6, <1>10, <2>1, <2>2
<1>13. CASE history' # <<>> /\ FarApart(localPlayer, world.position)
  <2>1. localPlayer' = Replay(world.position, history')
    BY <1>1, <1>11, <1>13 DEF Reconciled
  <2> QED
    BY <1>1, <1>6, <1>10, <2>1
<1>14. CASE history' # <<>> /\ ~ FarApart(localPlayer, world.position)
  <2>1. localPlayer' = localPlayer
    BY <1>1, <1>11, <1>14 DEF Reconciled
  <2>2. Near(localPlayer, world.position, THRESHOLD)
    BY <1>2, <1>14, CloseIsNear
  <2>3. Near(truth, world.position, Far(Len(since)))
    BY <1>2, <1>5, InputsAreStates, ReplayStrides
  <2>4. Far(Len(since)) \in Nat
    BY <1>6, FarSteps
  <2>5. Near(world.position, truth, Far(Len(since)))
    BY <1>2, <2>3, <2>4, NearReversed
  <2>6. Near(localPlayer, truth, THRESHOLD + Far(Len(since)))
    BY <1>2, <2>2, <2>4, <2>5, NearTriangle
  <2> QED
    BY <1>1, <1>6, <2>1, <2>6
<1> QED
  BY <1>12, <1>13, <1>14

LEMMA CorrectedIsClose ==
  ASSUME TypeOK, Tracked, TypeOK', ReceiveWorldState
  PROVE  \/ Within(Stride * Abs(Len(history) - Ahead))'
         \/ localPlayer' = localPlayer /\ Within(THRESHOLD + Stride * Ahead)'
<1>1. /\ localPlayer' \in Reachable /\ truth' \in Reachable
      /\ Len(history') \in Nat /\ Ahead' \in Int /\ THRESHOLD \in Nat
  BY PredictionAssumption DEF TypeOK, Ahead
<1>2. Abs(Len(history') - Ahead') \in Nat
  BY <1>1 DEF Abs
<1>3. CASE Near(localPlayer', truth', Far(Abs(Len(history') - Ahead')))
  <2>1. Far(Abs(Len(history') - Ahead')) \in Nat
    BY <1>2, FarSteps
  <2>2. /\ Abs(localPlayer'.x - truth'.x) <= Far(Abs(Len(history') - Ahead'))
        /\ Abs(localPlayer'.y - truth'.y) <= Far(Abs(Len(history') - Ahead'))
    BY <1>1, <1>3, <2>1, NearIsWithin
  <2> QED
    BY <2>2 DEF Within, Far, Stride
<1>4. CASE /\ localPlayer' = localPlayer
           /\ Ahead' \in Nat
           /\ Near(localPlayer', truth', THRESHOLD + Far(Ahead'))
  <2>1. THRESHOLD + Far(Ahead') \in Nat
    <3>1. PICK m \in Nat : m = Ahead'
      BY <1>4
    <3>2. Far(m) \in Nat
      BY FarSteps
    <3> QED
      BY <1>1, <3>1, <3>2
  <2>2. /\ Abs(localPlayer'.x - truth'.x) <= THRESHOLD + Far(Ahead')
        /\ Abs(localPlayer'.y - truth'.y) <= THRESHOLD + Far(Ahead')
    BY <1>1, <1>4, <2>1, NearIsWithin
  <2> QED
    BY <1>4, <2>2 DEF Within, Far, Stride
<1> QED
  BY <1>3, <1>4, CorrectedNear

\* After a world state, whatever its tick made of the history, the prediction
\* is off by a step at most for every entry too many or too few that was
\* replayed, or it was kept, and is off by no more than the threshold and the
\* inputs on their way allow.
THEOREM CorrectionStaysClose == Spec => CorrectionIsClose
<1> DEFINE Inv == TypeOK /\ Tracked
           Step == ReceiveWorldState =>
                     \/ Within(Stride * Abs(Len(history) - Ahead))'
                     \/ /\ localPlayer' = localPlayer
                        /\ Within(THRESHOLD + Stride * Ahead)'
<1>1. Init => Inv
  BY TypeInit, TrackedInit
<1>2. Inv /\ [Next]_vars => Inv'
  BY TypeNext, TrackedNext
<1>3. Inv /\ Inv' /\ [Next]_vars => [Step]_vars
  BY CorrectedIsClose
<1> HIDE DEF Inv
<1> QED
  BY <1>1, <1>2, <1>3, PTL DEF Spec, CorrectionIsClose

-----------------------------------------------------------------------------
(* The error.                                                              *)

Apart(a, b) == Abs(a.x - b.x) + Abs(a.y - b.y)

LEMMA ApartType ==
  ASSUME NEW a \in Reachable, NEW b \in Reachable
  PROVE  /\ Apart(a, b) \in Nat
         /\ Apart(a, b) = AbsDiff(a.x, b.x) + AbsDiff(a.y, b.y)
         /\ Apart(a, a) = 0
<1>1. a.x \in Int /\ a.y \in Int /\ b.x \in Int /\ b.y \in Int
  BY ReachableIsVec2 DEF Vec2
<1> QED
  BY <1>1 DEF Apart, Abs, AbsDiff

LEMMA ErrorIs ==
  /\ Error = Apart(localPlayer, truth)
  /\ Error' = Apart(localPlayer', truth')
BY DEF Error, Apart

LEMMA ErrorProcessInput ==
  ASSUME TypeOK, TypeOK', ProcessInput
  PROVE  Error' <= Error
<1>1. PICK e \in HistoryEntry, u \in PendingInput :
        /\ e.input = u.input /\ e.input \in Inputs
        /\ localPlayer' = ApplyInput(localPlayer, e.input)
        /\ truth' = ApplyInput(truth, e.input)
  BY ProcessInputIs
<1>2. /\ localPlayer \in Reachable /\ truth \in Reachable
      /\ localPlayer' \in Reachable /\ truth' \in Reachable
      /\ e.input \in InputState
  BY <1>1, PredictionAssumption DEF TypeOK
<1>3. /\ AbsDiff(localPlayer'.x, truth'.x) <= AbsDiff(localPlayer.x, truth.x)
      /\ AbsDiff(localPlayer'.y, truth'.y) <= AbsDiff(localPlayer.y, truth.y)
  BY <1>1, <1>2, ReachableIsVec2, SameInputContracts
<1>4. /\ AbsDiff(localPlayer'.x, truth'.x) \in Int
      /\ AbsDiff(localPlayer.x, truth.x) \in Int
      /\ AbsDiff(localPlayer'.y, truth'.y) \in Int
      /\ AbsDiff(localPlayer.y, truth.y) \in Int
  <2>1. /\ localPlayer.x \in Int /\ localPlayer.y \in Int
        /\ truth.x \in Int /\ truth.y \in Int
        /\ localPlayer'.x \in Int /\ localPlayer'.y \in Int
        /\ truth'.x \in Int /\ truth'.y \in Int
    BY <1>2, ReachableIsVec2 DEF Vec2
  <2> QED
    BY <2>1 DEF AbsDiff
<1>5. /\ Error = AbsDiff(localPlayer.x, truth.x) + AbsDiff(localPlayer.y, truth.y)
      /\ Error' = AbsDiff(localPlayer'.x, truth'.x)
                    + AbsDiff(localPlayer'.y, truth'.y)
  BY <1>2, ApartType, ErrorIs
<1> QED
  BY <1>3, <1>4, <1>5

LEMMA ErrorReceiveWorldState ==
  ASSUME TypeOK, Tracked, TypeOK', ReceiveWorldState, Len(history') = Ahead'
  PROVE  Error' <= Error
<1>1. /\ localPlayer \in Reachable /\ truth \in Reachable
      /\ localPlayer' \in Reachable /\ truth' \in Reachable
      /\ Len(history') \in Nat
  BY DEF TypeOK
<1>2. truth' = truth
  BY DEF ReceiveWorldState
<1>3. Apart(localPlayer, truth) \in Nat /\ Apart(localPlayer', truth') \in Nat
  BY <1>1, ApartType
<1>4. Len(history') = Ahead' /\ Ahead' \in Int
  BY <1>1
<1>5. CASE Near(localPlayer', truth', Far(Abs(Len(history') - Ahead')))
  <2>1. Abs(Len(history') - Ahead') = 0
    <3>1. PICK m \in Int : m = Len(history') /\ m = Ahead'
      BY <1>4
    <3>2. Abs(m - m) = 0
      BY DEF Abs
    <3> QED
      BY <3>1, <3>2
  <2>2. Near(localPlayer', truth', 0)
    <3>1. Far(0) = 0
      BY FarSteps
    <3> QED
      BY <1>5, <2>1, <3>1
  <2>3. /\ localPlayer'.x \in Int /\ localPlayer'.y \in Int
        /\ truth'.x \in Int /\ truth'.y \in Int
    BY <1>1, ReachableIsVec2 DEF Vec2
  <2>4. Apart(localPlayer', truth') = 0
    BY <2>2, <2>3 DEF Near, AbsDiff, Apart, Abs
  <2> QED
    BY <1>3, <2>4, ErrorIs
<1>6. CASE localPlayer' = localPlayer
  BY <1>2, <1>3, <1>6, ErrorIs
<1> QED
  BY <1>5, <1>6, CorrectedNear

\* Neither a new input nor a world state, however late, takes the prediction
\* further from where the server will be, as long as the world state leaves
\* the history with just the inputs it lacks: only entries that the tick drops
\* too early, or that are left too long, can do harm.
THEOREM ErrorDoesNotGrow == Spec => ErrorNeverGrows
<1> DEFINE Inv == TypeOK /\ Tracked
           Leaves == ReceiveWorldState => Len(history') = Ahead'
<1>1. Init => Inv
  BY TypeInit, TrackedInit
<1>2. Inv /\ [Next]_vars => Inv'
  BY TypeNext, TrackedNext
<1>3. ASSUME Inv, Inv', [Next]_vars
      PROVE  [Leaves => Error' <= Error]_vars
  <2> SUFFICES ASSUME Next, Leaves PROVE Error' <= Error
    BY <1>3
  <2>1. CASE ProcessInput
    BY <1>3, <2>1, ErrorProcessInput
  <2>2. CASE ReceiveWorldState
    BY <1>3, <2>2, ErrorReceiveWorldState
  <2>3. CASE ServerTick
    <3>1. EndTick
      BY <2>3 DEF ServerTick, TickWithInput, TickWithoutInput
    <3>2. UNCHANGED <<localPlayer, truth>>
      BY <3>1, EndTickIs
    <3>3. Apart(localPlayer, truth) \in Nat
      BY <1>3, ApartType DEF TypeOK
    <3> QED
      BY <3>2, <3>3, ErrorIs
  <2> QED
    BY <2>1, <2>2, <2>3 DEF Next
<1>4. Spec => []Inv
  BY <1>1, <1>2, PTL DEF Spec
<1> HIDE DEF Inv
<1>5. Inv /\ Inv' /\ [Next]_vars => [Leaves => Error' <= Error]_vars
  BY <1>3
<1> QED
  BY <1>4, <1>5, PTL DEF Spec, ErrorNeverGrows

=============================================================================
