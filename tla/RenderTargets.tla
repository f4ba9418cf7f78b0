---------------------------- MODULE RenderTargets ----------------------------
(***************************************************************************)
(* Surfaces and the stack of render targets                                *)
(* (video/renderer/gml_render_surfaces.c).  The target borrows the pixels  *)
(* of a surface, a fill of the whole target waits until something is drawn *)
(* on it, and flags say of a surface that it is known to be empty or       *)
(* opaque, so that drawing it can be skipped or become a copy.             *)
(*                                                                         *)
(* A pixel is Clear (no alpha) or Solid (full alpha).  A program draws     *)
(* between the engine's passes (phase "step") and within them ("pass").    *)
(***************************************************************************)
EXTENDS Integers, Sequences, SequencesExt

CONSTANTS
  Id,       \* surfaces a program may create (GML_MAX_SURFACES)
  Pixel,    \* the pixels of every surface
  Plane,    \* pixels that surface 0 has, had or will have
  Depth,    \* GML_SURFACE_STACK
  Clear, Solid, None,
  Programs, \* bound: sets of surfaces a program uses together
  Habits    \* what the program does that the code gets wrong, see the guards

Screen == "screen"
Freed == "freed"                        \* pixels given back while a target refers to them
Buffer == {Screen, Freed} \union Plane \union Id
Application == "application"            \* surface 0
NoSurfaceId == "none"                   \* target -1, the pass itself
Name == {Application} \union Id
ASSUME TargetsAssumption ==
  /\ Clear # Solid /\ None \notin {Clear, Solid} /\ Depth \in Nat
  /\ Id \intersect Plane = {}
  /\ {Screen, Freed, Application, NoSurfaceId} \intersect (Id \union Plane) = {}
  /\ Programs \subseteq SUBSET Name
  /\ Habits \subseteq {"zero", "bound", "again", "carried", "holes", "left",
                       "extra", "frees", "grown"}

Colour == {Clear, Solid}
All(c) == [p \in Pixel |-> c]

VARIABLES
  r,        \* GmlRender: the fields this component owns
  classic,  \* the classic generation: one target, kept from frame to frame
  uses,     \* the surfaces this program uses
  phase,    \* "step" or "pass"
  call      \* the call just made, for the properties

targetVars == <<r, classic, uses, phase, call>>

Target == [buf : Buffer, id : {NoSurfaceId} \union Name,
           known : BOOLEAN, opaque : BOOLEAN, empty : BOOLEAN,
           fill : Colour \union {None}]
Surface == [live : BOOLEAN, known : BOOLEAN, opaque : BOOLEAN, empty : BOOLEAN]

Fresh(b) == [buf |-> b, id |-> NoSurfaceId, known |-> FALSE, opaque |-> FALSE,
             empty |-> FALSE, fill |-> None]
NoSurface == [live |-> FALSE, known |-> FALSE, opaque |-> FALSE, empty |-> FALSE]

\* Every buffer and flag lives in range, and the stack in its bound: one target, for classic programs.
TargetsTypeOK ==
  /\ r \in [mem : [Buffer -> [Pixel -> Colour]], cur : Target, base : Buffer,
            stack : Seq(Target), surf : [Id -> Surface],
            app : Plane, appOpaque : BOOLEAN]
  /\ Len(r.stack) <= (IF classic THEN 1 ELSE Depth)
  /\ classic \in BOOLEAN /\ uses \in Programs /\ phase \in {"step", "pass"}

TargetsInit ==
  /\ \E view \in Plane :
       r = [mem |-> [b \in Buffer |-> All(Clear)], cur |-> Fresh(view),
            base |-> view, stack |-> << >>, surf |-> [i \in Id |-> NoSurface],
            app |-> view, appOpaque |-> FALSE]
  /\ classic \in BOOLEAN /\ uses \in Programs /\ phase = "pass" /\ call = <<"choose">>

-----------------------------------------------------------------------------
(* Reading pixels                                                          *)

Names(g) == {Application} \union {i \in Id : g.surf[i].live}
BufferOf(g, n) == IF n = Application THEN g.app ELSE n

Filled(g, b) == \E i \in DOMAIN g.stack : g.stack[i].buf = b /\ g.stack[i].fill # None

\* A suspended target's waiting fill is performed before its pixels are read.
Realise(g, b) ==
  IF ~Filled(g, b) THEN g
  ELSE LET last == CHOOSE i \in DOMAIN g.stack :
             /\ g.stack[i].buf = b /\ g.stack[i].fill # None
             /\ \A j \in DOMAIN g.stack :
                  (g.stack[j].buf = b /\ g.stack[j].fill # None) => j <= i
       IN [g EXCEPT !.mem[b] = All(g.stack[last].fill),
                    !.stack = [i \in DOMAIN @ |->
                       IF @[i].buf = b THEN [@[i] EXCEPT !.fill = None] ELSE @[i]]]

Read(g, n) == Realise(g, BufferOf(g, n))

KnownEmpty(g, n) == n # Application /\ g.surf[n].empty
KnownOpaque(g, n) ==
  IF n = Application THEN g.appOpaque ELSE g.surf[n].known /\ g.surf[n].opaque

-----------------------------------------------------------------------------
(* Fills that wait                                                         *)

SetFill(g, c) ==
  [g EXCEPT !.cur = [@ EXCEPT !.fill = c, !.known = TRUE,
                              !.opaque = (c = Solid), !.empty = (c = Clear)]]

Flush(g) ==
  IF g.cur.fill = None THEN g
  ELSE [SetFill(g, g.cur.fill) EXCEPT !.mem[g.cur.buf] = All(g.cur.fill),
                                      !.cur.fill = None]

PrepareDraw(g) == [Flush(g) EXCEPT !.cur.empty = FALSE]

\* What covers the whole target takes the place of the fill.
PrepareOpaqueRect(g) == [g EXCEPT !.cur.fill = None, !.cur.empty = FALSE]

-----------------------------------------------------------------------------
(* Targets                                                                 *)

\* The flags of a closing target go to its surface; one without alpha is
\* noticed here.
StoreCoverage(g) ==
  IF g.cur.id \notin Id \/ ~g.surf[g.cur.id].live THEN g
  ELSE LET empty == \/ g.cur.empty
                    \/ /\ g.cur.known /\ ~g.cur.opaque
                       /\ g.mem[g.cur.buf] = All(Clear)
       IN [g EXCEPT !.surf[g.cur.id] =
             [live |-> TRUE, known |-> g.cur.known, opaque |-> g.cur.opaque,
              empty |-> empty]]

\* Surface 0 has no slot: nothing is flushed or stored for it.
Close(g) == IF g.cur.id \in Id THEN StoreCoverage(Flush(g)) ELSE g

ResetTarget(g) ==
  LET c == Close(g)
  IN IF c.stack = << >> THEN [c EXCEPT !.cur = Fresh(c.base)]
     ELSE [c EXCEPT !.cur = Last(c.stack), !.stack = Front(c.stack)]

Push(g, n) ==
  [g EXCEPT
     !.stack = Append(@, g.cur),
     !.cur = IF n = Application THEN [Fresh(g.app) EXCEPT !.id = Application]
             ELSE [buf |-> n, id |-> n, known |-> g.surf[n].known,
                   opaque |-> g.surf[n].opaque, empty |-> g.surf[n].empty,
                   fill |-> None]]

\* Mistake: a classic program's target is put on top of the one before.
SetTargetNested(g, n) ==
  LET q == Read(g, n) IN IF Len(q.stack) >= Depth THEN q ELSE Push(q, n)

SetTarget(g, n) ==
  LET q == Read(g, n)
  IN IF Len(q.stack) >= Depth THEN q
     ELSE IF classic /\ q.cur.id # NoSurfaceId THEN Push(Read(ResetTarget(q), n), n)
     ELSE Push(q, n)

\* The buffers a program's target refers to, at any level.
Borrowed(g) == {g.cur.buf, g.base} \union {g.stack[i].buf : i \in DOMAIN g.stack}
Suspended(g) == {g.stack[i].buf : i \in DOMAIN g.stack}
OnTarget == phase = "pass" \/ r.stack # << >>

Called(c) == call' = c /\ UNCHANGED <<classic, uses>>

Bind(n) ==
  /\ n \in Names(r) /\ (classic => n # Application)
  /\ "again" \in Habits
     \/ BufferOf(r, n) \notin (IF classic THEN Suspended(r) ELSE Borrowed(r))
  /\ r' = SetTarget(r, n) /\ Called(<<"choose">>) /\ UNCHANGED phase

Unbind ==
  /\ "extra" \in Habits \/ r.stack # << >>
  /\ "zero" \in Habits \/ ~(r.cur.id = Application /\ r.cur.fill # None)
  /\ r' = ResetTarget(r) /\ Called(<<"choose">>) /\ UNCHANGED phase

-----------------------------------------------------------------------------
(* Drawing on the target                                                   *)

\* Alpha taken from surface 0 while it is known to be opaque.
Holes(b) == "holes" \in Habits \/ b # r.app \/ ~r.appOpaque

ClearTarget(c) ==
  /\ OnTarget /\ (c = Clear => Holes(r.cur.buf))
  /\ r' = SetFill(r, c) /\ Called(<<"fill", c>>) /\ UNCHANGED phase

\* A filled rectangle over the whole target becomes a fill.
DrawRect ==
  /\ OnTarget
  /\ r' = SetFill(PrepareOpaqueRect(r), Solid) /\ Called(<<"fill", Solid>>) /\ UNCHANGED phase

DrawPixel(p) ==
  /\ OnTarget
  /\ r' = [PrepareDraw(r) EXCEPT !.mem[r.cur.buf][p] = Solid]
  /\ Called(<<"put", p, Solid>>) /\ UNCHANGED phase

\* Mistake: taking alpha away leaves the target known to be opaque.
PunchQuietly(p) ==
  /\ r.stack # << >> /\ Holes(r.cur.buf)
  /\ r' = [PrepareDraw(r) EXCEPT !.mem[r.cur.buf][p] = Clear]
  /\ Called(<<"put", p, Clear>>) /\ UNCHANGED phase

\* The subtractive blend takes alpha away, on surfaces only.
Punch(p) ==
  /\ r.stack # << >> /\ Holes(r.cur.buf)
  /\ r' = [PrepareDraw(r) EXCEPT !.mem[r.cur.buf][p] = Clear,
                                 !.cur.known = FALSE, !.cur.opaque = FALSE]
  /\ Called(<<"put", p, Clear>>) /\ UNCHANGED phase

Over(below, above) ==
  [p \in Pixel |-> IF above[p] = Clear THEN below[p] ELSE above[p]]

\* A surface drawn over the whole target: skipped when known to be empty,
\* copied when known to be opaque.
Composite(g, n) ==
  LET s == BufferOf(g, n)
      t == g.cur.buf
      ready == PrepareDraw(g)
  IN CASE s # t /\ KnownEmpty(g, n) -> g
       [] s # t /\ ~KnownEmpty(g, n) /\ KnownOpaque(g, n) ->
            [PrepareOpaqueRect(g) EXCEPT !.mem[t] = g.mem[s],
               !.cur.known = TRUE, !.cur.opaque = TRUE]
       [] OTHER ->
            [ready EXCEPT !.mem[t] = Over(@, ready.mem[s]),
               !.cur.known = @ \/ KnownOpaque(g, n),
               !.cur.opaque = @ \/ KnownOpaque(g, n)]

\* The flags of a surface are those it had when it was bound.
DrawSurface(n) ==
  /\ OnTarget /\ n \in Names(r)
  /\ "bound" \in Habits \/ n \notin Borrowed(r)
  /\ (classic /\ n = Application) => r.stack = << >>
  /\ r' = Composite(Read(r, n), n) /\ Called(<<"draw", n>>) /\ UNCHANGED phase

-----------------------------------------------------------------------------
(* Copies                                                                  *)

Involved(g, d, s) == g.cur.buf \in {BufferOf(g, d), BufferOf(g, s)}

CopyPixels(g, d, s, part) ==
  [g EXCEPT !.mem[BufferOf(g, d)] =
     [p \in Pixel |-> IF p \in part THEN g.mem[BufferOf(g, s)][p] ELSE @[p]]]

\* What was known of the destination is forgotten, in its record and, when it
\* is the target, in the target's flags.
Forget(g, d) ==
  LET h == IF d = Application THEN [g EXCEPT !.appOpaque = FALSE]
           ELSE [g EXCEPT !.surf[d] = [NoSurface EXCEPT !.live = TRUE]]
  IN IF g.cur.id = d
     THEN [h EXCEPT !.cur.known = FALSE, !.cur.opaque = FALSE, !.cur.empty = FALSE]
     ELSE h

Copied(g, d, s, part) ==
  LET q == Read(Read(g, s), d)
      ready == IF Involved(q, d, s) THEN Read(Read(PrepareDraw(q), s), d) ELSE q
  IN Forget(CopyPixels(ready, d, s, part), d)

SurfaceCopy(d, s, part) ==
  /\ {d, s} \subseteq Names(r) /\ (classic => Application \notin {d, s})
  /\ "bound" \in Habits \/ BufferOf(r, d) \notin Suspended(r)
  /\ "holes" \in Habits \/ ~(d = Application /\ r.cur = [r.cur EXCEPT !.buf = r.app,
                                                                  !.id = NoSurfaceId])
  /\ r' = Copied(r, d, s, part) /\ Called(<<"copy", d, s, part>>) /\ UNCHANGED phase

-----------------------------------------------------------------------------
(* The table of surfaces and the application surface                       *)

Create(n) ==
  /\ ~r.surf[n].live
  /\ r' = [r EXCEPT !.surf[n] = [live |-> TRUE, known |-> TRUE,
                                 opaque |-> FALSE, empty |-> TRUE],
                    !.mem[n] = All(Clear)]
  /\ Called(<<"blank", n>>) /\ UNCHANGED phase

\* References to pixels, at every level.
Moved(t, old, new) == IF t.buf = old THEN [t EXCEPT !.buf = new] ELSE t

\* Mistake: suspended targets keep the old pixels.
MoveTop(g, old, new) ==
  [g EXCEPT !.cur = Moved(@, old, new), !.base = IF @ = old THEN new ELSE @]

Move(g, old, new) ==
  [g EXCEPT !.cur = Moved(@, old, new), !.base = IF @ = old THEN new ELSE @,
            !.stack = [i \in DOMAIN @ |-> Moved(@[i], old, new)]]

\* Freeing or resizing a numbered surface leaves the references to its old pixels where they are.
Drop(g, n) == Move(g, n, Freed)

Free(n) ==
  /\ r.surf[n].live /\ ("frees" \in Habits \/ n \notin Borrowed(r))
  /\ r' = [Drop(r, n) EXCEPT !.surf[n] = NoSurface, !.mem[n] = All(Clear)]
  /\ Called(<<"blank", n>>) /\ UNCHANGED phase

Kept(pixels, part) == [p \in Pixel |-> IF p \in part THEN pixels[p] ELSE Clear]

Resize(n, part) ==
  /\ r.surf[n].live /\ ("frees" \in Habits \/ n \notin Borrowed(r))
  /\ r' = [Drop(r, n) EXCEPT !.mem[n] = Kept(@, part),
                             !.surf[n] = [live |-> TRUE, known |-> FALSE,
                                          opaque |-> FALSE, empty |-> @.empty]]
  /\ Called(<<"resize", n, part>>) /\ UNCHANGED phase

\* Targets that know of a fill of surface 0 as it was.
FilledZero == \E t \in {r.cur} \union ToSet(r.stack) :
  t.buf = r.app /\ (t.fill # None \/ (t.known /\ t.opaque))

\* Surface 0, where a program uses it, gets new pixels; every reference to the old ones follows.
ResizeZero(new, part) ==
  /\ ~classic /\ Application \in uses /\ new # r.app
  /\ "grown" \in Habits \/ ~FilledZero
  /\ r' = [Move(r, r.app, new) EXCEPT
             !.mem = [@ EXCEPT ![new] = Kept(r.mem[r.app], part), ![r.app] = All(Clear)],
             !.app = new, !.appOpaque = FALSE]
  /\ Called(<<"resize", Application, part>>) /\ UNCHANGED phase

-----------------------------------------------------------------------------
(* Passes of the engine                                                    *)

NoFillWaits == \A t \in {r.cur} \union ToSet(r.stack) : t.fill = None

\* A pass starts over, and drops the targets a program left bound.
Begin(b) ==
  /\ phase = "step" /\ ~(classic /\ r.stack # << >>)
  /\ "left" \in Habits \/ r.stack = << >>
  /\ "carried" \in Habits \/ NoFillWaits
  /\ r' = [r EXCEPT !.cur = Fresh(b), !.base = b, !.stack = << >>]
  /\ phase' = "pass" /\ Called(<<"choose">>)

\* A classic program's target crosses the start of a pass, or of a step.
BeginRetaining(b, next) ==
  /\ phase = "step" /\ classic /\ r.stack # << >>
  /\ "carried" \in Habits \/ NoFillWaits
  /\ r' = IF r.cur.id \in Names(r)
          THEN [r EXCEPT !.base = b, !.stack = [@ EXCEPT ![1] = Fresh(b)], !.cur.fill = None]
          ELSE [r EXCEPT !.base = b, !.cur = Fresh(b), !.stack = << >>]
  /\ phase' = next /\ Called(<<"choose">>)

\* The target of the moment is filled; a pass over surface 0 says whether it
\* is opaque.
EndPass ==
  /\ phase = "pass" /\ ("left" \in Habits \/ classic \/ r.stack = << >>)
  /\ LET f == Flush(r)
     IN r' = IF f.base = f.app /\ ~(classic /\ f.stack # << >>)
             THEN [f EXCEPT !.appOpaque = f.cur.known /\ f.cur.opaque] ELSE f
  /\ phase' = "step" /\ Called(<<"choose">>)

TargetsNext ==
  \/ \E n \in uses : Bind(n) \/ DrawSurface(n)
  \/ Unbind \/ DrawRect \/ EndPass
  \/ \E c \in Colour : ClearTarget(c)
  \/ \E p \in Pixel : DrawPixel(p) \/ Punch(p)
  \/ \E d, s \in uses, part \in SUBSET Pixel \ {{}} : SurfaceCopy(d, s, part)
  \/ \E n \in uses \ {Application} : Create(n) \/ Free(n) \/ (\E part \in SUBSET Pixel : Resize(n, part))
  \/ \E new \in Plane, part \in SUBSET Pixel : ResizeZero(new, part)
  \/ \E b \in {Screen, r.app} : Begin(b) \/ (\E next \in {"step", "pass"} : BeginRetaining(b, next))

TargetsSpec == TargetsInit /\ [][TargetsNext]_targetVars

-----------------------------------------------------------------------------
(* Properties                                                              *)

\* No target at any level refers to pixels that are gone: a resize of surface 0, which may be bound,
\* suspended and the base at once, is followed everywhere (gml_render_surfaces.c:264), and nothing is
\* left of a surface that was bound before it is freed or resized.  Not so for a numbered surface that
\* is freed or resized while it is bound or suspended: the code leaves the target on its old pixels
\* (gml_render_surfaces.c:247, :296).  Programs that do so have the habit "frees", which breaks this.
BorrowedIsCoherent ==
  Borrowed(r) \subseteq {Screen, r.app} \union {n \in Id : r.surf[n].live}

Referring(b) == {i \in DOMAIN r.stack : r.stack[i].buf = b /\ r.stack[i].fill # None}

\* What a buffer will hold once the fill that waits for it is performed.
Seen(b) ==
  LET waiting == Referring(b)
  IN IF r.cur.buf = b /\ r.cur.fill # None THEN All(r.cur.fill)
     ELSE IF waiting = {} THEN r.mem[b] ELSE All(r.stack[Max(waiting)].fill)

Canvas == {Screen} \union Name
CanvasOf(b) == IF b = r.app THEN Application ELSE b

Promise == INSTANCE SurfacePictures WITH
  picture <- [c \in Canvas |-> Seen(IF c = Application THEN r.app ELSE c)],
  bound <- [i \in 1..(Len(r.stack) + 1) |->
              CanvasOf(IF i <= Len(r.stack) THEN r.stack[i].buf ELSE r.cur.buf)]

\* What is promised of the call just made.
AsPromised ==
  LET c == call'
  IN CASE c[1] = "fill"   -> Promise!Fill(c[2])
       [] c[1] = "put"    -> Promise!Put(c[2], c[3])
       [] c[1] = "draw"   -> Promise!Draw(c[2])
       [] c[1] = "copy"   -> Promise!Copy(c[2], c[3], c[4])
       [] c[1] = "blank"  -> Promise!Blank(c[2])
       [] c[1] = "resize" -> Promise!Resize(c[2], c[3])
       [] c[1] = "choose" -> Promise!Choose

\* Every call has the effect it would have if fills were performed at once and
\* every pixel looked at: waiting, skipping and copying change no picture
\* (gml_render_internal.h:194 and 313).  This is claimed of programs that have none of the nine Habits:
\* each stands for something the code gets wrong, guards the actions in which a program could do it,
\* and breaks this property, or BorrowedIsCoherent, when it is allowed.
ActsAtOnce == [][AsPromised]_targetVars
=============================================================================
