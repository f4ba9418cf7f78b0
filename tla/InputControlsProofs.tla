------------------------- MODULE InputControlsProofs -------------------------
(***************************************************************************)
(* The properties of InputControls for every collection of hosts, those    *)
(* with several devices at once included.                                  *)
(***************************************************************************)
EXTENDS InputControls, TLAPS

\* What is owed for a key is what its deferred release says, a new press of it is one that can still
\* be seen, and only a new one is carried to the next frame.
Agree(s, n, o) ==
  /\ s.cur <=> o # 0
  /\ (o = 3 => s.defer = 0) /\ (o = 2 => s.defer = 1) /\ (o = 1 => s.defer = 2)
  /\ n => s.cur /\ ~s.prev
  /\ s.carry => n

PressInv ==
  /\ Agree(sim, new, owed)
  /\ here <=> sim.mark # "none"
  /\ sim.mark = "edge" /\ sim.raised => new
  /\ pc = "frame" /\ new => here

\* A button is suppressed if and only if it was cleared while held, and not for longer than it is.
MouseInv ==
  /\ mouse.cleared <=> mmute
  /\ mouse.cleared => mouse.cur \/ cont

StoreInv ==
  store # None => /\ Agree(store.sim, store.new, store.owed)
                  /\ store.mouse.cleared <=> store.mmute

ClearInv == mute /\ "pad" \notin host => cleared

IInv == TypeOK /\ PressInv /\ MouseInv /\ StoreInv /\ ClearInv

\* What a poll reads decides what the arrays hold.
Polled(k, p, m) ==
  /\ sim' = [cur |-> sim.cur /\ sim.defer # 2 /\ ~Falls(k), prev |-> sim.cur,
             raised |-> sim.carry, carry |-> FALSE,
             mark |-> "none", defer |-> Owes(sim.defer)]
  /\ key' = [cur |-> k, prev |-> IF cont THEN k ELSE key.cur]
  /\ pad' = [cur |-> p, prev |-> pad.cur]
  /\ mouse' = [cur |-> m, prev |-> IF cont THEN m ELSE mouse.cur,
               cleared |-> mouse.cleared /\ m, edges |-> FALSE]
  /\ owed' = IF owed = 3 /\ ~Falls(k) THEN 3
             ELSE IF owed = 0 \/ Falls(k) THEN 0 ELSE owed - 1
  /\ mmute' = (mmute /\ m)

LEMMA PollValues ==
  ASSUME Poll
  PROVE  \E k \in BOOLEAN, p \in May("pad"), m \in BOOLEAN : Polled(k, p, m)
<1>1. PICK k \in May("keyboard"), p \in May("pad"), m \in May("mouse") : Polled(k, p, m)
  BY Zenon DEF Poll, Polled
<1>2. k \in BOOLEAN /\ m \in BOOLEAN
  BY DEF May
<1> QED
  BY <1>1, <1>2, Zenon
-----------------------------------------------------------------------------
LEMMA InitInv == Init => IInv
<1> SUFFICES ASSUME Init PROVE IInv
  OBVIOUS
<1>1. SimUp \in Sim /\ Up \in Level /\ MouseUp \in Mouse
  BY DEF SimUp, Sim, Up, Level, MouseUp, Mouse
<1>2. owed \in 0..3
  BY DEF Init
<1>3. TypeOK
  BY <1>1, <1>2, Zenon DEF Init, TypeOK
<1>4. PressInv /\ MouseInv
  BY DEF Init, PressInv, MouseInv, Agree, SimUp, MouseUp
<1> QED
  BY <1>3, <1>4, Zenon DEF Init, IInv, StoreInv, ClearInv

\* Every action keeps every variable in its range.
LEMMA TypeStep ==
  ASSUME TypeOK, Next
  PROVE  TypeOK'
<1>1. CASE Poll
  <2>1. PICK k \in BOOLEAN, p \in May("pad"), m \in BOOLEAN : Polled(k, p, m)
    BY <1>1, PollValues
  <2>2. k \in BOOLEAN /\ p \in BOOLEAN /\ m \in BOOLEAN
    BY <2>1 DEF May
  <2>3. Owes(sim.defer) \in 0..2
    BY DEF Owes
  <2>4. sim' \in Sim
    BY <2>1, <2>2, <2>3 DEF Polled, TypeOK, Sim
  <2>5. key' \in Level /\ pad' \in Level
    BY <2>1, <2>2 DEF Polled, TypeOK, Level
  <2>6. mouse' \in Mouse
    BY <2>1, <2>2 DEF Polled, TypeOK, Mouse
  <2>7. owed' \in 0..3
    BY <2>1 DEF Polled, TypeOK
  <2>8. mmute' \in BOOLEAN /\ cleared' \in BOOLEAN /\ mute' \in BOOLEAN /\ cont' \in BOOLEAN
        /\ new' \in BOOLEAN /\ here' \in BOOLEAN
    BY <1>1, <2>1, <2>2, Zenon DEF Poll, Polled
  <2> QED
    BY <1>1, <2>4, <2>5, <2>6, <2>7, <2>8, Zenon DEF Poll, TypeOK
<1>2. CASE EndFrame
  BY <1>2, Zenon DEF EndFrame, controls, history, TypeOK
<1>3. CASE Press
  <2>1. sim' \in Sim /\ owed' \in 0..3
    BY <1>3 DEF Press, TypeOK, Sim
  <2> QED
    BY <1>3, <2>1, Zenon DEF Press, Program, TypeOK
<1>4. CASE Release
  <2>1. sim' \in Sim /\ owed' \in 0..3
    BY <1>4 DEF Release, Defers, TypeOK, Sim
  <2> QED
    BY <1>4, <2>1, Zenon DEF Release, Program, TypeOK
<1>5. CASE Clear
  <2>1. sim' \in Sim /\ owed' \in 0..3
    BY <1>5 DEF Clear, TypeOK, Sim
  <2> QED
    BY <1>5, <2>1, Zenon DEF Clear, Program, TypeOK
<1>6. CASE MouseClear
  <2>1. mouse' \in Mouse
    BY <1>6 DEF MouseClear, MouseClears, TypeOK, Mouse
  <2> QED
    BY <1>6, <2>1, Zenon DEF MouseClear, Program, TypeOK
<1>7. CASE Save
  <2>1. store' \in States
    BY <1>7 DEF Save, TypeOK, States
  <2> QED
    BY <1>7, <2>1, Zenon DEF Save, controls, history, TypeOK
<1>8. CASE Load
  <2>1. store \in States
    BY <1>8 DEF Load, TypeOK
  <2>2. sim' \in Sim /\ key' \in Level /\ pad' \in Level /\ mouse' \in Mouse /\ owed' \in 0..3
    BY <1>8, <2>1 DEF Load, States, Sim, Level, Mouse, Up
  <2>3. new' \in BOOLEAN /\ mmute' \in BOOLEAN
    BY <1>8, <2>1 DEF Load, States
  <2> QED
    BY <1>8, <2>2, <2>3, Zenon DEF Load, TypeOK
<1>9. CASE Redraw
  BY <1>9, Zenon DEF Redraw, TypeOK
<1>10. CASE Reset
  <2>1. SimUp \in Sim /\ Up \in Level /\ MouseUp \in Mouse /\ 0 \in 0..3
    BY DEF SimUp, Sim, Up, Level, MouseUp, Mouse
  <2> QED
    BY <1>10, <2>1, Zenon DEF Reset, TypeOK
<1> QED
  BY <1>1, <1>2, <1>3, <1>4, <1>5, <1>6, <1>7, <1>8, <1>9, <1>10 DEF Next

\* Every action keeps the invariant.
LEMMA PressStep ==
  ASSUME IInv, Next
  PROVE  PressInv' /\ StoreInv'
<1> USE DEF IInv, PressInv, StoreInv, Agree
<1>1. CASE Poll
  <2>1. PICK k \in BOOLEAN, p \in May("pad"), m \in BOOLEAN : Polled(k, p, m)
    BY <1>1, PollValues
  <2>2. owed \in 0..3 /\ sim.defer \in 0..2
    BY DEF TypeOK, Sim
  <2>3. new' = FALSE /\ here' = FALSE /\ store' = store
    BY <1>1 DEF Poll
  <2>4. sim'.cur <=> owed' # 0
    <3>1. CASE Falls(k)
      BY <2>1, <2>2, <3>1 DEF Polled
    <3>2. CASE ~Falls(k)
      <4>1. sim'.cur <=> sim.cur /\ sim.defer # 2
        BY <2>1, <3>2 DEF Polled
      <4>2. owed' = IF owed = 3 THEN 3 ELSE IF owed = 0 THEN 0 ELSE owed - 1
        BY <2>1, <3>2 DEF Polled
      <4>3. owed' # 0 <=> owed \in {2, 3}
        BY <2>2, <4>2
      <4>4. sim.cur /\ sim.defer # 2 <=> owed \in {2, 3}
        BY <2>2
      <4> QED
        BY <4>1, <4>3, <4>4
    <3> QED
      BY <3>1, <3>2
  <2>5. (owed' = 3 => sim'.defer = 0) /\ (owed' = 2 => sim'.defer = 1) /\ (owed' = 1 => sim'.defer = 2)
    BY <2>1, <2>2 DEF Polled, Owes
  <2>6. ~sim'.carry /\ sim'.mark = "none"
    BY <2>1 DEF Polled
  <2> QED
    BY <2>3, <2>4, <2>5, <2>6
<1>2. CASE EndFrame
  BY <1>2 DEF EndFrame, controls, history
<1>3. CASE Press
  BY <1>3 DEF Press, Program, TypeOK, Sim
<1>4. CASE Release
  BY <1>4 DEF Release, Defers, Program, TypeOK, Sim
<1>5. CASE Clear
  BY <1>5 DEF Clear, Program, TypeOK, Sim
<1>6. CASE MouseClear
  BY <1>6 DEF MouseClear, Program
<1>7. CASE Save
  BY <1>7 DEF Save, controls, history, MouseInv
<1>8. CASE Load
  BY <1>8 DEF Load, TypeOK, States, Sim
<1>9. CASE Redraw
  BY <1>9 DEF Redraw
<1>10. CASE Reset
  BY <1>10 DEF Reset, SimUp
<1> QED
  BY <1>1, <1>2, <1>3, <1>4, <1>5, <1>6, <1>7, <1>8, <1>9, <1>10 DEF Next

LEMMA MouseStep ==
  ASSUME IInv, Next
  PROVE  MouseInv'
<1> USE DEF IInv, MouseInv
<1>1. CASE Poll
  <2>1. PICK k \in BOOLEAN, p \in May("pad"), m \in BOOLEAN : Polled(k, p, m)
    BY <1>1, PollValues
  <2> QED
    BY <2>1 DEF Polled
<1>2. CASE EndFrame
  BY <1>2 DEF EndFrame, controls, history
<1>3. CASE Press \/ Release \/ Clear
  BY <1>3 DEF Press, Release, Clear, Program
<1>4. CASE MouseClear
  BY <1>4 DEF MouseClear, MouseClears, Program
<1>5. CASE Save
  BY <1>5 DEF Save, controls, history
<1>6. CASE Load
  BY <1>6 DEF Load, StoreInv
<1>7. CASE Redraw
  BY <1>7 DEF Redraw
<1>8. CASE Reset
  BY <1>8 DEF Reset, MouseUp
<1> QED
  BY <1>1, <1>2, <1>3, <1>4, <1>5, <1>6, <1>7, <1>8 DEF Next

LEMMA ClearStep ==
  ASSUME IInv, Next
  PROVE  ClearInv'
<1> USE DEF IInv, ClearInv
<1>1. CASE Poll
  <2>1. PICK k \in BOOLEAN, p \in May("pad"), m \in BOOLEAN : Polled(k, p, m)
    BY <1>1, PollValues
  <2>2. "pad" \notin host => ~pad'.cur
    BY <2>1 DEF Polled, May
  <2>3. /\ host' = host
        /\ cleared' <=> cleared /\ (sim'.cur \/ key'.cur)
        /\ mute' <=> mute /\ (sim'.cur \/ key'.cur \/ pad'.cur)
    BY <1>1, Zenon DEF Poll, StillHeld, AnySource
  <2> QED
    BY <2>2, <2>3, Zenon
<1>2. CASE EndFrame \/ Save
  BY <1>2, Zenon DEF EndFrame, Save, controls, history
<1>3. CASE Press \/ Release \/ MouseClear
  BY <1>3, Zenon DEF Press, Release, MouseClear, Program
<1>4. CASE Clear
  BY <1>4, Zenon DEF Clear
<1>5. CASE Load \/ Reset
  BY <1>5, Zenon DEF Load, Reset
<1>6. CASE Redraw
  BY <1>6, Zenon DEF Redraw
<1> QED
  BY <1>1, <1>2, <1>3, <1>4, <1>5, <1>6, Zenon DEF Next

LEMMA Invariance == Spec => []IInv
<1>1. IInv /\ [Next]_vars => IInv'
  <2> SUFFICES ASSUME IInv, [Next]_vars PROVE IInv'
    OBVIOUS
  <2>1. CASE Next
    BY <2>1, TypeStep, PressStep, MouseStep, ClearStep, Zenon DEF IInv
  <2>2. CASE UNCHANGED vars
    BY <2>2, Zenon DEF vars, controls, history, IInv, TypeOK, PressInv, MouseInv, StoreInv, ClearInv
  <2> QED
    BY <2>1, <2>2
<1> QED
  BY InitInv, <1>1, PTL DEF Spec
-----------------------------------------------------------------------------
\* The arrays of the engine keep their types.
THEOREM Typing == Spec => []TypeOK
<1>1. IInv => TypeOK
  BY Zenon DEF IInv
<1> QED
  BY Invariance, <1>1, PTL

\* engine_input_key_clear, engine_input_release_cleared_keys: a key that was cleared while held stays
\* up until it is let go, on every host without a pad that stands in for it.
THEOREM ClearedStaysUp == Spec => []ClearHolds
<1>1. IInv => ClearHolds
  BY Zenon DEF IInv, ClearInv, ClearHolds, Held, Pressed
<1> QED
  BY Invariance, <1>1, PTL

\* engine_input_key_press, engine_input_key_release, engine_input_poll_keyboard: a press is answered
\* in one frame and a paired release comes due one frame later, across saved states.
THEOREM PressedOnce == Spec => PressesExact
<1>1. IInv' => PairHoldsOneFrame'
  BY DEF IInv, PressInv, Agree, TypeOK, PairHoldsOneFrame
<1>2. IInv /\ Poll => AnsweredOnce
  <2> SUFFICES ASSUME IInv, Poll
               PROVE  (new => (SimEdge # SimEdge')) /\ (~new => ~SimEdge')
    BY DEF AnsweredOnce
  <2>1. PICK k \in BOOLEAN, p \in May("pad"), m \in BOOLEAN : Polled(k, p, m)
    BY PollValues
  <2>2. SimEdge' <=> sim.carry
    BY <2>1 DEF Polled, SimEdge
  <2>3. new => sim.cur /\ ~sim.prev
    BY DEF IInv, PressInv, Agree
  <2>4. sim.carry => new
    BY DEF IInv, PressInv, Agree
  <2> QED
    BY <2>2, <2>3, <2>4 DEF SimEdge
<1>3. IInv /\ IInv' => [PairHoldsOneFrame' /\ AnsweredOnce]_vars
  BY <1>1, <1>2, Zenon DEF AnsweredOnce
<1> QED
  BY Invariance, <1>3, PTL DEF Spec, PressesExact

\* engine_input_mouse_clear, engine_input_poll_mouse: a button reads as down exactly while it is held
\* and was not cleared since it went down, also on a restored timeline.
THEOREM MouseIsExact == Spec => MouseClearExact
<1>1. IInv' => (pc = "frame" => (MouseHeld <=> mouse.cur /\ ~mmute))'
  BY DEF IInv, MouseInv, MouseHeld
<1>2. IInv /\ Poll /\ ~mouse.cur /\ ~cont /\ mouse'.cur => MousePressed'
  <2> SUFFICES ASSUME IInv, Poll, ~mouse.cur, ~cont, mouse'.cur PROVE MousePressed'
    OBVIOUS
  <2>1. PICK k \in BOOLEAN, p \in May("pad"), m \in BOOLEAN : Polled(k, p, m)
    BY PollValues
  <2> QED
    BY <2>1 DEF Polled, IInv, MouseInv, MousePressed, Rises
<1>3. IInv /\ IInv' => [/\ (pc = "frame" => (MouseHeld <=> mouse.cur /\ ~mmute))'
                        /\ Poll /\ ~mouse.cur /\ ~cont /\ mouse'.cur => MousePressed']_vars
  BY <1>1, <1>2, Zenon
<1> QED
  BY Invariance, <1>3, PTL DEF Spec, MouseClearExact
=============================================================================
