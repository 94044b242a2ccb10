--------------------------- MODULE Interpolation ---------------------------
(***************************************************************************)
(* InterpolationEngine (client/Interpolation.hpp) in the loop that feeds   *)
(* and asks it: GameClient::run pops at most one world state per tick, adds *)
(* a snapshot for every remote player it lists, and then computes what is  *)
(* drawn.  Time passes, world states come late or in bursts, players join  *)
(* and leave at any moment.                                                *)
(*                                                                         *)
(* The clock counts ticks of FIXED_DT.  A snapshot's state is abstracted   *)
(* to the world state it comes from, by number, and an interpolated state  *)
(* to a fraction between two such numbers: lerp takes the same fraction of *)
(* the way between the two positions.                                      *)
(***************************************************************************)
EXTENDS Integers, Sequences

CONSTANTS
  Players,               \* PlayerIDs of remote players; an id is used once
  BUFFER_CAP,            \* 60 in the code
  INTERPOLATION_DELAY,   \* INTERPOLATION_DELAY_MS: 6 ticks in the code
  FRAME_CAP,             \* ticks of the longest frame, 15 in the code
  MaxClock,              \* bound: time a behaviour takes
  MaxWorldStates         \* bound: world states in a behaviour

\* A second of snapshots is more than can arrive within the delay: one per tick
\* of that time, and the ticks of a full frame owed at its start and of the
\* time waited until then.
ASSUME InterpolationAssumption ==
  /\ INTERPOLATION_DELAY \in Nat /\ FRAME_CAP \in Nat \ {0}
  /\ BUFFER_CAP \in Nat /\ BUFFER_CAP >= 2 * FRAME_CAP + INTERPOLATION_DELAY
  /\ MaxClock \in Nat /\ MaxWorldStates \in Nat

VARIABLES
  now,             \* steady_clock, in ticks
  elapsed,         \* ticks since the last frame began, FRAME_CAP at most
  owed,            \* ticks this frame still has to run
  popped,          \* this tick has had its world state
  snapshots,       \* snapshots_: [timestamp, tick] by player, oldest first
  remotePlayers,   \* remotePlayers_: what is drawn, by player
  worldStates,     \* world states so far
  inGame,          \* inGame[p]: "absent", "playing" or "left"
  arrived          \* history: arrived[p] is the time of p's first snapshot

loopVars == <<elapsed, owed, popped>>
vars == <<now, loopVars, snapshots, remotePlayers, worldStates, inGame,
          arrived>>

NotYet == -1

Init ==
  /\ now = 0 /\ elapsed = 0 /\ owed = 0 /\ popped = FALSE
  /\ snapshots = <<>> /\ remotePlayers = <<>>
  /\ worldStates = 0
  /\ inGame = [p \in Players |-> "absent"]
  /\ arrived = [p \in Players |-> NotYet]

(***************************************************************************)
(* Slips the properties must catch; no behaviour uses them.                *)
(***************************************************************************)
TrimmedToOne(buffer) == SubSeq(buffer, Len(buffer), Len(buffer))

FractionFromAfter(before, after, time) ==
  LET diff == after.timestamp - before.timestamp
  IN  IF diff > 0 THEN <<after.timestamp - time, diff>> ELSE <<0, 1>>

OutsideRangeOldest(buffer) == buffer[1]

ClockUncapped ==
  /\ now < MaxClock
  /\ now' = now + 1 /\ elapsed' = elapsed + 1
  /\ UNCHANGED <<owed, popped, snapshots, remotePlayers, worldStates, inGame,
                 arrived>>

-----------------------------------------------------------------------------
(* The engine.                                                             *)

\* At most one snapshot too many, the oldest.
Trimmed(buffer) == IF Len(buffer) > BUFFER_CAP THEN Tail(buffer) ELSE buffer

Buffer(p) == IF p \in DOMAIN snapshots THEN snapshots[p] ELSE <<>>

AddSnapshot(p, tick) ==
  Trimmed(Append(Buffer(p), [timestamp |-> now, tick |-> tick]))

\* The pairs of neighbours around the render time, by the older one.
Surrounding(buffer, time) ==
  {i \in 1 .. Len(buffer) - 1 :
     buffer[i].timestamp <= time /\ buffer[i + 1].timestamp >= time}

\* alpha, as a fraction.  The pair surrounds the time, so the code's clamp to
\* [0, 1] changes nothing.
Fraction(before, after, time) ==
  LET diff == after.timestamp - before.timestamp
  IN  IF diff > 0 THEN <<time - before.timestamp, diff>> ELSE <<0, 1>>

\* What is shown when the render time is outside the buffer.
OutsideRange(buffer) == buffer[Len(buffer)]

\* The position at `fraction' of the way from one world state to a later one.
Lerp(a, b, fraction) ==
  [num |-> a * fraction[2] + (b - a) * fraction[1], den |-> fraction[2]]

InterpolatedState(buffer) ==
  LET time  == now - INTERPOLATION_DELAY
      pairs == Surrounding(buffer, time)
  IN  IF pairs = {}
        THEN LET latest == OutsideRange(buffer)
             IN  [position |-> Lerp(latest.tick, latest.tick, <<0, 1>>),
                  score |-> latest.tick, time |-> time]
        ELSE LET i == CHOOSE i \in pairs : \A j \in pairs : i <= j
                 before == buffer[i]
                 after  == buffer[i + 1]
             IN  [position |-> Lerp(before.tick, after.tick,
                                    Fraction(before, after, time)),
                  score |-> after.tick, time |-> time]

-----------------------------------------------------------------------------
(* The client's loop.                                                      *)

\* frameTime is the time since the last frame, capped.
BeginFrame ==
  /\ owed = 0 /\ elapsed > 0
  /\ owed' = elapsed /\ elapsed' = 0
  /\ UNCHANGED <<now, popped, snapshots, remotePlayers, worldStates, inGame,
                 arrived>>

\* popWorldState returned a world state: a snapshot for everyone it lists.
ReceiveWorldState ==
  /\ owed > 0 /\ ~popped
  /\ worldStates < MaxWorldStates
  /\ worldStates' = worldStates + 1
  /\ LET listed == {p \in Players : inGame[p] = "playing"}
     IN  /\ snapshots' = [p \in DOMAIN snapshots \cup listed |->
              IF p \in listed THEN AddSnapshot(p, worldStates')
                              ELSE snapshots[p]]
         /\ arrived' = [p \in Players |->
              IF p \in listed /\ arrived[p] = NotYet THEN now ELSE arrived[p]]
  /\ popped' = TRUE
  /\ UNCHANGED <<now, elapsed, owed, remotePlayers, inGame>>

\* updateInterpolation() ends every tick.  It asks for every player the
\* engine ever had a snapshot of: nothing calls removePlayer().
UpdateInterpolation ==
  /\ owed > 0
  /\ remotePlayers' =
       [p \in {q \in DOMAIN snapshots : Len(snapshots[q]) >= 2} |->
          InterpolatedState(snapshots[p])]
  /\ owed' = owed - 1 /\ popped' = FALSE
  /\ UNCHANGED <<now, elapsed, snapshots, worldStates, inGame, arrived>>

-----------------------------------------------------------------------------
(* The clock, and who is in the world states.                              *)

Clock ==
  /\ now < MaxClock
  /\ now' = now + 1
  /\ elapsed' = IF elapsed < FRAME_CAP THEN elapsed + 1 ELSE elapsed
  /\ UNCHANGED <<owed, popped, snapshots, remotePlayers, worldStates, inGame,
                 arrived>>

Join(p) ==
  /\ inGame[p] = "absent"
  /\ inGame' = [inGame EXCEPT ![p] = "playing"]
  /\ UNCHANGED <<now, loopVars, snapshots, remotePlayers, worldStates,
                 arrived>>

Leave(p) ==
  /\ inGame[p] = "playing"
  /\ inGame' = [inGame EXCEPT ![p] = "left"]
  /\ UNCHANGED <<now, loopVars, snapshots, remotePlayers, worldStates,
                 arrived>>

Next ==
  \/ Clock \/ BeginFrame \/ ReceiveWorldState \/ UpdateInterpolation
  \/ \E p \in Players : Join(p) \/ Leave(p)

Spec == Init /\ [][Next]_vars

-----------------------------------------------------------------------------
Snapshot == [timestamp : Nat, tick : Nat \ {0}]

Shown == [position : [num : Nat, den : Nat \ {0}], score : Nat \ {0},
          time : Int]

TypeOK ==
  /\ now \in Nat /\ worldStates \in Nat
  /\ elapsed \in 0 .. FRAME_CAP /\ owed \in 0 .. FRAME_CAP
  /\ popped \in BOOLEAN
  /\ DOMAIN snapshots \subseteq Players
  /\ \A p \in DOMAIN snapshots : snapshots[p] \in Seq(Snapshot)
  /\ DOMAIN remotePlayers \subseteq DOMAIN snapshots
  /\ \A p \in DOMAIN remotePlayers : remotePlayers[p] \in Shown
  /\ inGame \in [Players -> {"absent", "playing", "left"}]
  /\ arrived \in [Players -> Nat \cup {NotYet}]

\* The position shown as a moment between the world states, compared with a
\* world state's number.
AtLeast(position, tick) == position.num >= tick * position.den

\* The snapshots in a buffer are the newest ones p got, in the order of the
\* world states and of time, and the delay never reaches back behind the
\* oldest unless nothing older was ever received: trimming costs nothing.
BufferReachesBack ==
  \A p \in DOMAIN snapshots :
    LET s == snapshots[p]
    IN  /\ Len(s) \in 1 .. BUFFER_CAP
        /\ \A i \in 1 .. Len(s) - 1 :
             /\ s[i + 1].tick = s[i].tick + 1
             /\ s[i].timestamp <= s[i + 1].timestamp
        /\ s[1].timestamp = arrived[p]
             \/ s[1].timestamp <= now - INTERPOLATION_DELAY

\* What is drawn is never older than a snapshot that was already older than
\* the delay when it was drawn, nor newer than the newest: the engine does
\* not extrapolate, and shows no player later than it has to.
ShownIsCurrent ==
  \A p \in DOMAIN remotePlayers :
    LET s     == snapshots[p]
        shown == remotePlayers[p]
    IN  /\ \A i \in DOMAIN s :
             s[i].timestamp < shown.time =>
               AtLeast(shown.position, s[i].tick) /\ shown.score >= s[i].tick
        /\ shown.position.num <= s[Len(s)].tick * shown.position.den
        /\ shown.score <= s[Len(s)].tick

\* The render time had reached p's first snapshot when p was last drawn.
Settled(p) == remotePlayers[p].time >= arrived[p]

\* From then on and as long as it is in the game a remote player never moves
\* back, however irregularly the world states arrive, and stays on the screen.
\* Of a player who has left nothing is asked: removePlayer() is there to remove
\* its snapshots, but has no caller.
NeverBackwards ==
  [][\A p \in DOMAIN remotePlayers :
       Settled(p) /\ inGame'[p] = "playing" =>
         /\ p \in DOMAIN remotePlayers'
         /\ LET old == remotePlayers[p]
                new == remotePlayers'[p]
            IN  /\ new.position.num * old.position.den
                     >= old.position.num * new.position.den
                /\ new.score >= old.score]_vars

=============================================================================
