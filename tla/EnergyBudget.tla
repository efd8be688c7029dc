---------------------------- MODULE EnergyBudget ----------------------------
(***************************************************************************)
(* What the economy promises about the world as a whole: matter is neither *)
(* made nor lost, and energy enters only through vents and leaves only by  *)
(* dissipation and actuation.                                              *)
(***************************************************************************)
EXTENDS Integers

VARIABLES matter,       \* mass of all nodes together
          reserves,     \* energy of all nodes together
          vented,       \* energy the environment has given
          spent         \* energy dissipated or spent on actuation

vars == <<matter, reserves, vented, spent>>

Init == vented = 0 /\ spent = 0

Next ==
  /\ matter' = matter
  /\ vented' >= vented
  /\ spent' >= spent
  /\ reserves' - reserves = (vented' - vented) - (spent' - spent)

Spec == Init /\ [][Next]_vars
=============================================================================
