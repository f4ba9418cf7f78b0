---------------------------- MODULE BandDispatch ----------------------------
(***************************************************************************)
(* What a split renderer pass is promised, without threads: a handover     *)
(* opens with a number of bands, every band runs exactly once and in any   *)
(* order, the handover closes when all of them have run, and nothing runs  *)
(* once the renderer is torn down.                                         *)
(***************************************************************************)
EXTENDS Integers

CONSTANT MaxBands

VARIABLES phase,    \* "idle", "open" or "closed"
          todo      \* the bands of the open handover that have not run yet

vars == <<phase, todo>>

Init == phase = "idle" /\ todo = {}

\* The caller hands n bands over.
Begin(n) ==
  /\ phase = "idle"
  /\ phase' = "open"
  /\ todo' = 0..(n - 1)

\* Some thread runs one band that nobody has run.
Run(b) ==
  /\ phase = "open"
  /\ b \in todo
  /\ todo' = todo \ {b}
  /\ UNCHANGED phase

\* The call returns to the pass.
End ==
  /\ phase = "open"
  /\ todo = {}
  /\ phase' = "idle"
  /\ UNCHANGED todo

\* Renderer teardown.
Close ==
  /\ phase = "idle"
  /\ phase' = "closed"
  /\ UNCHANGED todo

Next ==
  \/ \E n \in 2..MaxBands : Begin(n)
  \/ \E b \in 0..(MaxBands - 1) : Run(b)
  \/ End
  \/ Close

Safe == Init /\ [][Next]_vars
Spec == Safe /\ WF_vars(\E b \in todo : Run(b)) /\ WF_vars(End)
=============================================================================
