----------------------------- MODULE DelayLine ------------------------------
(***************************************************************************)
(* What LatencyBuffer (include/LagSimulator.hpp) promises to the code that *)
(* pushes into it on one side and pops on the other, with time left out:   *)
(* items leave in the order they entered, each at most once, at a moment   *)
(* the caller does not control; clear() throws away what is inside.        *)
(*                                                                         *)
(* GameServer is written against this specification: its latency buffers   *)
(* are sequences whose head may leave at any step.                         *)
(***************************************************************************)
EXTENDS Naturals, Sequences

CONSTANT Data

VARIABLES
  line,       \* items inside, oldest first
  delivered   \* items that left through popReady, oldest first

lineVars == <<line, delivered>>

Init ==
  /\ line = <<>>
  /\ delivered = <<>>

Enter(d) ==
  /\ line' = Append(line, d)
  /\ UNCHANGED delivered

Leave ==
  /\ line # <<>>
  /\ line' = Tail(line)
  /\ delivered' = Append(delivered, Head(line))

Discard ==
  /\ line' = <<>>
  /\ UNCHANGED delivered

Next == (\E d \in Data : Enter(d)) \/ Leave \/ Discard

Spec == Init /\ [][Next]_lineVars

=============================================================================
