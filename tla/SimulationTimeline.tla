------------------------ MODULE SimulationTimeline ------------------------
(***************************************************************************)
(* What a session promises about the simulation, whatever the host does    *)
(* around it: it moves by whole steps and draws, it may be started afresh, *)
(* and it may be put back to a saved point, from which the next thing that *)
(* happens is a step.  Presenting a frame, redrawing one and refusing a    *)
(* state move nothing.                                                     *)
(***************************************************************************)
EXTENDS Naturals

CONSTANTS Contents,     \* the programs there are
          Launch        \* the program the session was started with

VARIABLES line,         \* [content, n, d, end, wait]: where the simulation is
          fresh,        \* it was put back and has not stepped since
          point         \* the points that were saved

tvars == <<line, fresh, point>>

Origin(c) == [content |-> c, n |-> 0, d |-> 0, end |-> 0, wait |-> FALSE]

Init == line = Origin(Launch) /\ fresh = FALSE /\ point = {}

Start ==
  /\ \E c \in Contents, e \in {0, 1} : line' = [Origin(c) EXCEPT !.end = e]
  /\ fresh' = FALSE /\ UNCHANGED point

Step ==
  /\ \E e \in 0..2, w \in BOOLEAN :
       line' = [line EXCEPT !.n = @ + 1, !.d = 0, !.end = e, !.wait = w]
  /\ fresh' = FALSE /\ UNCHANGED point

\* Draw events run program code too: they change the simulation, so a restored one must not see
\* any before its next step.
Draw ==
  /\ ~fresh
  /\ \E e \in 0..2 : line' = [line EXCEPT !.d = IF @ = 2 THEN 2 ELSE @ + 1, !.end = e]
  /\ UNCHANGED <<fresh, point>>

Save == point' = {line} /\ UNCHANGED <<line, fresh>>

Restore == line' \in point /\ fresh' = TRUE /\ UNCHANGED point

Next == Start \/ Step \/ Draw \/ Save \/ Restore

Spec == Init /\ [][Next]_tvars
=============================================================================
