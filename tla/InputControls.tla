--------------------------- MODULE InputControls ---------------------------
(***************************************************************************)
(* One logical key and one mouse button between the host, the program and  *)
(* the saved states (core/engine_input.c).  Three sources can hold the     *)
(* key: the program itself (keyboard_key_press), the host's keyboard, and  *)
(* the pad where it stands in for the keyboard.  The host is polled once   *)
(* at the start of a frame; then the program presses, releases, clears and *)
(* reads in any order.  Keys do not share state, so one stands for all.    *)
(* States are saved and loaded between frames.  An operator preceded by    *)
(* "Mistake:" is no part of the specification: it is a bug the checked     *)
(* properties catch.                                                       *)
(***************************************************************************)
EXTENDS Naturals

CONSTANTS Hosts,     \* which of "keyboard", "pad", "mouse" a host has, one set for each kind
          None       \* no saved state

ASSUME InputAssumption == \A h \in Hosts : h \subseteq {"keyboard", "pad", "mouse"}

VARIABLES
  host,              \* what this host has
  pc,                \* "frame": the program runs; "between": it does not
  sim,               \* key_current, _previous, _press_raised, _press_carry, _press_step, _release_defer
  cleared,           \* key_cleared
  key, pad,          \* hardware_key_* (event_key_* are polled alike), pad_*
  mouse,             \* mouse_button_current, _previous, _cleared, _edges_cleared
  cont,              \* input_continuity_pending
  store,             \* the state the host keeps
  new,               \* history: the key was pressed anew, by the program, in this frame
  here,              \* history: the program called press in this frame
  owed,              \* history: polls until a released key must be up; 3 for a pressed one
  mute, mmute        \* history: cleared while held, and held since

controls == <<sim, cleared, key, pad, mouse, cont>>
history == <<new, here, owed, mute, mmute>>
vars == <<host, pc, controls, store, history>>

Level == [cur : BOOLEAN, prev : BOOLEAN]
Up == [cur |-> FALSE, prev |-> FALSE]
Sim == [cur : BOOLEAN, prev : BOOLEAN, raised : BOOLEAN, carry : BOOLEAN,
        mark : {"none", "repeat", "edge"}, defer : 0..2]
SimUp == [cur |-> FALSE, prev |-> FALSE, raised |-> FALSE, carry |-> FALSE, mark |-> "none", defer |-> 0]
Mouse == [cur : BOOLEAN, prev : BOOLEAN, cleared : BOOLEAN, edges : BOOLEAN]
MouseUp == [cur |-> FALSE, prev |-> FALSE, cleared |-> FALSE, edges |-> FALSE]
States == [sim : Sim, pad : Level, mouse : Mouse, new : BOOLEAN, owed : 0..3, mmute : BOOLEAN]

TypeOK ==
  /\ host \in Hosts /\ pc \in {"frame", "between"}
  /\ sim \in Sim /\ cleared \in BOOLEAN /\ key \in Level /\ pad \in Level
  /\ mouse \in Mouse /\ cont \in BOOLEAN
  /\ store \in States \cup {None}
  /\ new \in BOOLEAN /\ here \in BOOLEAN /\ owed \in 0..3 /\ mute \in BOOLEAN /\ mmute \in BOOLEAN

Init ==
  /\ host \in Hosts /\ pc = "between"
  /\ sim = SimUp /\ cleared = FALSE /\ key = Up /\ pad = Up /\ mouse = MouseUp /\ cont = FALSE
  /\ store = None
  /\ new = FALSE /\ here = FALSE /\ owed = 0 /\ mute = FALSE /\ mmute = FALSE
-----------------------------------------------------------------------------
(* What the program reads.                                                 *)

SimEdge == ~sim.carry /\ ((sim.cur /\ ~sim.prev) \/ sim.raised)

AnySource == sim.cur \/ key.cur \/ pad.cur

Held == ~cleared /\ AnySource

Rises(level) == level.cur /\ ~level.prev

Pressed == ~cleared /\ (SimEdge \/ Rises(key) \/ Rises(pad))

MouseHeld == mouse.cur /\ ~mouse.cleared
MousePressed == Rises(mouse) /\ ~mouse.cleared /\ ~mouse.edges
-----------------------------------------------------------------------------
(* The poll at the start of a frame.                                       *)

May(what) == IF what \in host THEN BOOLEAN ELSE {FALSE}

\* Mistake: a release that came due is not taken off.
OwesForEver(defer) == IF defer = 0 THEN 0 ELSE defer + 1

Owes(defer) == IF defer = 1 THEN 2 ELSE 0

\* The physical key came up, which ends a simulated press of it too.
Falls(down) == key.cur /\ ~down

\* Mistake: only the keyboard is asked whether the key is still held.
StillHeldByKeyboard == key'.cur

StillHeld == sim'.cur \/ key'.cur

Poll ==
  /\ pc = "between" /\ pc' = "frame"
  /\ \E k \in May("keyboard"), p \in May("pad"), m \in May("mouse") :
       /\ sim' = [cur |-> sim.cur /\ sim.defer # 2 /\ ~Falls(k), prev |-> sim.cur,
                  raised |-> sim.carry, carry |-> FALSE,
                  mark |-> "none", defer |-> Owes(sim.defer)]
       /\ key' = [cur |-> k, prev |-> IF cont THEN k ELSE key.cur]
       /\ pad' = [cur |-> p, prev |-> pad.cur]
       /\ mouse' = [cur |-> m, prev |-> IF cont THEN m ELSE mouse.cur,
                    cleared |-> mouse.cleared /\ m, edges |-> FALSE]
       /\ owed' = IF owed = 3 /\ ~Falls(k) THEN 3
                  ELSE IF owed = 0 \/ Falls(k) THEN 0 ELSE owed - 1
       /\ mmute' = (mmute /\ m)
  /\ cleared' = (cleared /\ StillHeld)
  /\ mute' = (mute /\ AnySource')
  /\ cont' = FALSE
  /\ new' = FALSE /\ here' = FALSE
  /\ UNCHANGED <<host, store>>

EndFrame ==
  /\ pc = "frame" /\ pc' = "between"
  /\ UNCHANGED <<host, controls, store, history>>
-----------------------------------------------------------------------------
(* The program.                                                            *)

Program == pc = "frame" /\ UNCHANGED <<host, pc, key, pad, cont, store>>

\* keyboard_key_press: a held key is sustained, not pressed again.
Press ==
  /\ Program
  /\ sim' = [cur |-> TRUE,
             prev |-> sim.cur /\ sim.prev, raised |-> sim.raised \/ ~sim.cur,
             carry |-> sim.carry,
             mark |-> IF sim.mark # "none" THEN sim.mark ELSE IF sim.cur THEN "repeat" ELSE "edge",
             defer |-> 0]
  /\ new' = (new \/ ~sim.cur) /\ here' = TRUE /\ owed' = 3
  /\ UNCHANGED <<cleared, mouse, mute, mmute>>

\* Mistake: the release of a sustained key is not deferred.
DefersNew == sim.mark = "edge"

Defers == sim.mark # "none"

\* keyboard_key_release: paired with a press of this frame, it comes due a frame later.
Release ==
  /\ Program
  /\ sim' = [cur |-> sim.cur /\ Defers, prev |-> sim.prev \/ ~Defers, raised |-> sim.raised,
             carry |-> sim.carry \/ (sim.mark = "edge" /\ sim.raised),
             mark |-> sim.mark, defer |-> IF Defers THEN 1 ELSE sim.defer]
  /\ owed' = IF here /\ owed # 0 THEN 2 ELSE 0
  /\ UNCHANGED <<cleared, mouse, new, here, mute, mmute>>

\* keyboard_clear, io_clear
Clear ==
  /\ Program
  /\ sim' = [cur |-> FALSE, prev |-> FALSE, raised |-> FALSE, carry |-> FALSE,
             mark |-> sim.mark, defer |-> sim.defer]
  /\ cleared' = TRUE
  /\ new' = FALSE /\ owed' = 0 /\ mute' = (mute \/ AnySource)
  /\ UNCHANGED <<mouse, here, mmute>>

\* Mistake: a button that is up is suppressed as well.
MouseClearUp == [cur |-> mouse.cur, prev |-> mouse.prev, cleared |-> TRUE, edges |-> TRUE]

MouseClears == [cur |-> mouse.cur, prev |-> mouse.prev,
                cleared |-> mouse.cleared \/ mouse.cur, edges |-> TRUE]

\* mouse_clear
MouseClear ==
  /\ Program
  /\ mouse' = MouseClears
  /\ mmute' = (mmute \/ mouse.cur)
  /\ UNCHANGED <<sim, cleared, new, here, owed, mute>>
-----------------------------------------------------------------------------
(* States.  The suppressed keys are in none of them.                       *)

Save ==
  /\ pc = "between"
  /\ store' = [sim |-> sim, pad |-> pad, mouse |-> mouse,
               new |-> new, owed |-> owed, mmute |-> mmute]
  /\ UNCHANGED <<host, pc, controls, history>>

Load ==
  /\ pc = "between" /\ store # None
  /\ sim' = [cur |-> store.sim.cur, prev |-> store.sim.prev, raised |-> FALSE,
             carry |-> store.sim.carry, mark |-> "none", defer |-> store.sim.defer]
  /\ key' = Up /\ pad' = store.pad /\ cont' = TRUE
  /\ mouse' = [cur |-> FALSE, prev |-> FALSE, cleared |-> store.mouse.cleared, edges |-> FALSE]
  /\ new' = store.new /\ here' = FALSE /\ owed' = store.owed /\ mmute' = store.mmute
  /\ UNCHANGED <<host, pc, cleared, store, mute>>

\* The frame that redraws a loaded state lets go of everything, and has the state put back behind it;
\* draw events may have cleared the key.
Redraw ==
  /\ pc = "between" /\ cont
  /\ cleared' \in BOOLEAN /\ mute' = FALSE
  /\ UNCHANGED <<host, pc, sim, key, pad, mouse, cont, store, new, here, owed, mmute>>

\* boot_runtime_prepare
Reset ==
  /\ pc = "between"
  /\ sim' = SimUp /\ key' = Up /\ pad' = Up /\ mouse' = MouseUp /\ cont' = FALSE
  /\ new' = FALSE /\ here' = FALSE /\ owed' = 0 /\ mmute' = FALSE
  /\ UNCHANGED <<host, pc, cleared, store, mute>>

Next ==
  \/ Poll \/ EndFrame
  \/ Press \/ Release \/ Clear \/ MouseClear
  \/ Save \/ Load \/ Redraw \/ Reset

Spec == Init /\ [][Next]_vars
-----------------------------------------------------------------------------
\* A press the program makes is answered in one frame, whether by its end or at the start of the
\* next one, where the key events run; a frame without a new press leaves none to the next.  Across
\* sustained keys, releases in the same frame, and saved states.  History: new.
AnsweredOnce ==
  Poll => /\ new => (SimEdge # SimEdge')
          /\ ~new => ~SimEdge'

\* A press and a release in one frame keep the key down through the whole of the next frame and no
\* longer, however often they are repeated; any other release is immediate.  History: owed.
PairHoldsOneFrame ==
  /\ owed \in {1, 2, 3} => sim.cur
  /\ owed = 0 => ~sim.cur

\* A press the program makes is seen in one frame, and with its release holds one: no more, no less.
PressesExact == [][PairHoldsOneFrame' /\ AnsweredOnce]_vars

\* A key cleared while the program or the keyboard held it reads as up until both let go, whatever
\* is loaded or reset meanwhile, unless a loaded state is drawn again.  A pad that stands in for the
\* keyboard is not asked (engine_input.c:146).
ClearHolds == mute /\ "pad" \notin host => ~Held /\ ~Pressed

\* A mouse button reads as down exactly while the host holds it and it was not cleared since it went
\* down, on the timeline of the saved states; and its next press is seen.
MouseClearExact ==
  [][/\ (pc = "frame" => (MouseHeld <=> mouse.cur /\ ~mmute))'
     /\ Poll /\ ~mouse.cur /\ ~cont /\ mouse'.cur => MousePressed']_vars
=============================================================================
