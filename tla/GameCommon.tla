----------------------------- MODULE GameCommon -----------------------------
(***************************************************************************)
(* The rules that server and client both run: include/GameCommon.hpp with  *)
(* the constants and value types of include/Shared.hpp.                    *)
(*                                                                         *)
(* Positions are integers in a unit the configuration chooses.  One tick   *)
(* of MAX_PLAYER_SPEED * FIXED_DT moves a player AXIS_STEP along an axis,  *)
(* and DIAG_STEP along each axis when two perpendicular keys are down,     *)
(* because the acceleration is normalised first.  The velocity field is    *)
(* left out: applyInput overwrites it and nothing reads it.                *)
(***************************************************************************)
EXTENDS Integers

CONSTANTS
  WORLD_WIDTH, WORLD_HEIGHT,
  PLAYER_RADIUS, COIN_RADIUS,
  AXIS_STEP,     \* distance of one tick along an axis
  DIAG_STEP      \* distance of one tick along each axis of a diagonal

ASSUME WorldAssumption ==
  /\ WORLD_WIDTH \in Nat /\ WORLD_HEIGHT \in Nat
  /\ PLAYER_RADIUS \in Nat /\ COIN_RADIUS \in Nat
  /\ AXIS_STEP \in Nat /\ DIAG_STEP \in Nat
  /\ 2 * PLAYER_RADIUS <= WORLD_WIDTH
  /\ 2 * PLAYER_RADIUS <= WORLD_HEIGHT

Vec2 == [x : Int, y : Int]

InputState == [up : BOOLEAN, down : BOOLEAN, left : BOOLEAN, right : BOOLEAN]

NoInput == [up |-> FALSE, down |-> FALSE, left |-> FALSE, right |-> FALSE]

\* A pair of opposite keys as a direction: both or neither cancel out.
Direction(forward, backward) ==
  IF forward = backward THEN 0 ELSE IF forward THEN 1 ELSE -1

\* The displacement of one tick, after normalisation of the acceleration.
Displacement(input) ==
  LET dx   == Direction(input.right, input.left)
      dy   == Direction(input.down, input.up)
      step == IF dx # 0 /\ dy # 0 THEN DIAG_STEP ELSE AXIS_STEP
  IN  [x |-> dx * step, y |-> dy * step]

\* The two assignments clampPosition makes to one coordinate, in order.
ClampAxis(v, size) ==
  LET low == IF v < PLAYER_RADIUS THEN PLAYER_RADIUS ELSE v
  IN  IF low > size - PLAYER_RADIUS THEN size - PLAYER_RADIUS ELSE low

ClampPosition(pos) ==
  [x |-> ClampAxis(pos.x, WORLD_WIDTH), y |-> ClampAxis(pos.y, WORLD_HEIGHT)]

ApplyInput(pos, input) ==
  LET d == Displacement(input)
  IN  ClampPosition([x |-> pos.x + d.x, y |-> pos.y + d.y])

\* Vec2::lengthSquared of a - b.
DistanceSquared(a, b) ==
  LET dx == a.x - b.x
      dy == a.y - b.y
  IN  dx * dx + dy * dy

CheckCollision(playerPos, coinPos) ==
  LET radiusSum == PLAYER_RADIUS + COIN_RADIUS
  IN  DistanceSquared(playerPos, coinPos) < radiusSum * radiusSum

\* The positions clampPosition can leave a player in.
Reachable ==
  [x : PLAYER_RADIUS .. (WORLD_WIDTH - PLAYER_RADIUS),
   y : PLAYER_RADIUS .. (WORLD_HEIGHT - PLAYER_RADIUS)]

=============================================================================
