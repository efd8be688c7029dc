---------------------------- MODULE MCPerception ----------------------------
EXTENDS Perception

\* Both sides of a cell's edge and of the origin, and one place off the axis.
MCPlaces == {<<-4, 0>>, <<-1, 0>>, <<0, 0>>, <<2, 0>>, <<1, 2>>}

MCArrangements ==
  {places \in [Bodies -> MCPlaces \cup {Away}] :
     /\ places[1] = <<-1, 0>> /\ places[2] \in {<<2, 0>>, <<-4, 0>>}
     /\ places[3] # places[4] /\ places[3] # Away}

\* Masks with bits in every chunk.
MCTagsOf == <<5, 6, 9, 14>>

MCRadius == <<3, 4>>

\* A slope that differs from field to field and from place to place.
MCSlope(f, place) == <<1 + f + 2 * place.angle, place.out + place.from[1] + 3 * place.from[2]>>

Action(force, torque, clamp, freq, phase1) ==
  [force |-> force, torque |-> torque, clamp |-> clamp, freq |-> freq, phase |-> phase1]

MCAnswers ==
  {Action(3, -3, 2, 40, 9), Action(NonFinite, NonFinite, NonFinite, NonFinite, NonFinite),
   Action(6, 1, 2, -40, -1)}
=============================================================================
