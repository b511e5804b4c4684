-------------------------- MODULE CommandableProperty --------------------------
(***************************************************************************)
(* What wiretest/peer.py promises of a commandable object (the description *)
(* of SimulatedServer, "commandable"): a value written at priority p fills *)
(* slot p of its priority array, a NULL empties it, and the Present_Value  *)
(* is that of the first filled slot or, when none is, Relinquish_Default - *)
(* each write in one step.                                                 *)
(***************************************************************************)
EXTENDS Integers

CONSTANTS
  Values,             \* what may be written, NULL apart
  Relinquish_Default,
  Null                \* an empty slot

VARIABLES priority_array, present_value

commandVars == <<priority_array, present_value>>

Priorities == 1..16

Filled(slots) == {p \in Priorities : slots[p] # Null}

Winning(slots) ==
  IF Filled(slots) = {} THEN Relinquish_Default
  ELSE slots[CHOOSE p \in Filled(slots) : \A q \in Filled(slots) : p <= q]

Init ==
  /\ priority_array = [p \in Priorities |-> Null]
  /\ present_value = Relinquish_Default

Command(p, value) ==
  /\ priority_array' = [priority_array EXCEPT ![p] = value]
  /\ present_value' = Winning(priority_array')

Next == \E p \in Priorities, value \in Values \union {Null} : Command(p, value)

Spec == Init /\ [][Next]_commandVars
=============================================================================
