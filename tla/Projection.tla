----------------------------- MODULE Projection -----------------------------
(***************************************************************************)
(* What the hub promises about a Runtime it shows                           *)
(* (docs/ARCHITECTURE.md: "store latest snapshot and sequence"): the stored *)
(* snapshot and the stored events trail the Runtime, and never go back.     *)
(***************************************************************************)
EXTENDS Integers

VARIABLES
  native,     \* the sequence of the Runtime's last event
  shown,      \* the sequence of the stored snapshot, -1 before the first
  recorded    \* the sequences of the stored events

vars == <<native, shown, recorded>>

Init == native = 0 /\ shown = -1 /\ recorded = {}

Happen == native' = native + 1 /\ UNCHANGED <<shown, recorded>>

Follow == shown' \in shown + 1 .. native /\ UNCHANGED <<native, recorded>>

Record ==
  /\ \E first \in 1 .. native, last \in 1 .. native : recorded' = recorded \cup first .. last
  /\ UNCHANGED <<native, shown>>

Next == Happen \/ Follow \/ Record

Spec == Init /\ [][Next]_vars
=============================================================================
