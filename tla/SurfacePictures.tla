--------------------------- MODULE SurfacePictures ---------------------------
(***************************************************************************)
(* What drawing on surfaces promises a program: every canvas holds a       *)
(* picture, every call acts at once, and every pixel of a source is looked *)
(* at.  Nothing is deferred, nothing is known in advance.                  *)
(***************************************************************************)
EXTENDS Naturals, Sequences, SequencesExt

CONSTANTS Pixel, Clear, Solid

VARIABLES picture,   \* what each canvas shows: a function from its pixels
          bound      \* the canvases drawn to, the current one last

Here == Last(bound)

Fill(c) == /\ picture' = [picture EXCEPT ![Here] = [p \in Pixel |-> c]]
           /\ UNCHANGED bound

Put(p, c) == /\ picture' = [picture EXCEPT ![Here][p] = c]
             /\ UNCHANGED bound

\* A clear pixel of the source leaves the pixel below it.
Over(below, above) ==
  [p \in Pixel |-> IF above[p] = Clear THEN below[p] ELSE above[p]]

Draw(s) == /\ picture' = [picture EXCEPT ![Here] = Over(@, picture[s])]
           /\ UNCHANGED bound

Copy(d, s, part) ==
  /\ picture' = [picture EXCEPT ![d] =
       [p \in Pixel |-> IF p \in part THEN picture[s][p] ELSE @[p]]]
  /\ UNCHANGED bound

\* A resized canvas keeps a part of its picture and is clear elsewhere.
Resize(d, kept) ==
  /\ picture' = [picture EXCEPT ![d] =
       [p \in Pixel |-> IF p \in kept THEN @[p] ELSE Clear]]
  /\ UNCHANGED bound

\* A canvas that comes or goes is clear.
Blank(d) == Resize(d, {})

\* Binding, unbinding and new passes choose canvases and draw nothing.
Choose == UNCHANGED picture
=============================================================================
