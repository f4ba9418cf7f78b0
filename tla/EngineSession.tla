--------------------------- MODULE EngineSession ---------------------------
(***************************************************************************)
(* A session of the engine (core/engine.c, core/engine_state.c): loading,  *)
(* the phases of a frame, internal game changes, and the transaction that  *)
(* saves and restores states.  The host calls one function at a time; a    *)
(* frame is broken at its phases, each of which runs program code that may *)
(* ask for a game change, a restart or the end.                            *)
(*                                                                         *)
(* The simulation is its program, the steps since it started, the draws    *)
(* since the last step, a pending end (1) or restart (2), and whether an   *)
(* event is parked on input.  A picture is the simulation it was drawn     *)
(* from.  One control stands for all of them: the host reports it to the   *)
(* pad, whose state is saved, and to the mouse and hardware keys, whose    *)
(* state is not.  An operator preceded by "Mistake:" is no part of the     *)
(* specification: it is a bug the checked properties catch.                *)
(***************************************************************************)
EXTENDS Naturals

CONSTANTS Contents, Launch,  \* programs, the one the host loads
          Policies, None,    \* extents a configuration can ask for; no value
          DepthLimit,        \* game changes within one frame: 8
          MaxSteps,          \* bound: steps of a program
          Envs               \* what program and host may do beside stepping, saving and loading,
                             \* one set for each kind of session: "input", "wait", "end",
                             \* "change", "boot change", "transition", "fail", "resize"
                             \* (presentation settings), "god" (god_mode), "late god" (also while
                             \* a loaded state waits to be drawn)

ASSUME SessionAssumption ==
  /\ Launch \in Contents /\ None \notin Policies /\ Policies # {}
  /\ DepthLimit \in Nat \ {0} /\ MaxSteps \in Nat \ {0}

VARIABLES
  env,                         \* the kind of session
  lifecycle, loaded,           \* lifecycle and loaded of AnygmEngine
  sim,                         \* the VM, the renderer and the audio mixer
  change,                      \* game_change_pending: 0, 1, or 2 when the path is too long
  god, policy, out,            \* god_mode, the extent presentation asks for, output_width/height
  pad, mouse, cont,            \* control as the pad and as the mouse; input_continuity_pending
  frame, just, reapply,        \* state_frame_*, state_just_loaded, state_reapply
  ended, presented, transition,    \* runtime_ended, have_presented_frame, pictures left
  screen, laid,                \* the picture in the screen buffer; the extent its rows have there
  depth, pc, restoring, held,  \* game_change_depth; the frame's phase and its local variables
  store,                       \* the state the host keeps
  answer,                      \* what the latest call returned
  fresh, lastDown, padLine, askew  \* history, see the properties

core == <<sim, change, pad, mouse, cont, frame, just, reapply, ended, presented, transition>>
picture == <<screen, laid, askew, out>>
config == <<god, policy>>
flow == <<depth, pc, restoring, held>>
session == <<lifecycle, loaded>>
history == <<fresh, lastDown, padLine>>
vars == <<env, core, picture, config, flow, session, store, answer, history>>

Has(what) == what \in env
Key == [cur : BOOLEAN, prev : BOOLEAN]
Up == [cur |-> FALSE, prev |-> FALSE]
Sims == [content : Contents, n : 0..MaxSteps, d : 0..2, end : 0..2, wait : BOOLEAN]
Picture(s) == <<s.content, s.n>>
Pictures == Contents \X (0..MaxSteps)
\* A stored frame: the extent it is stored as, and the picture in rows of its own extent.  askew: history.
Frames == [extent : Policies, picture : Pictures, laid : Policies, askew : BOOLEAN]
States == [sim : Sims, pad : Key, god : BOOLEAN, frame : Frames \cup {None}]

ASSUME NoValue == None \notin Pictures \cup Frames \cup States

\* Also: a runtime that could not be booted again leaves an empty session, not one without a runtime.
TypeOK ==
  /\ env \in Envs
  /\ lifecycle \in {"empty", "prepared", "loaded"} /\ loaded = (lifecycle # "empty")
  /\ sim \in Sims /\ change \in 0..2
  /\ god \in BOOLEAN /\ policy \in Policies /\ out \in Policies
  /\ pad \in Key /\ mouse \in Key /\ cont \in BOOLEAN
  /\ frame \in Policies \cup {None} /\ just \in BOOLEAN
  /\ reapply \in States \cup {None}
  /\ ended \in BOOLEAN /\ presented \in BOOLEAN /\ transition \in 0..3
  /\ screen \in Pictures \cup {None} /\ laid \in Policies /\ askew \in BOOLEAN
  /\ depth \in 0..DepthLimit
  /\ pc \in {"ready", "enter", "poll", "step", "after", "draw", "finish"}
  /\ restoring \in BOOLEAN /\ held \in BOOLEAN
  /\ store \in States \cup {None}
  /\ answer \in {"none", "done", "frame", "restored", "refused", "error"}
  /\ fresh \in BOOLEAN
  /\ lastDown \in BOOLEAN /\ padLine \in BOOLEAN

Timeline == INSTANCE SimulationTimeline
  WITH line <- IF restoring /\ reapply # None THEN reapply.sim ELSE sim,
       point <- IF store = None THEN {} ELSE {store.sim}

Init ==
  /\ env \in Envs
  /\ lifecycle = "empty" /\ loaded = FALSE
  /\ sim = Timeline!Origin(Launch) /\ change = 0
  /\ god = FALSE /\ policy \in Policies /\ out = policy
  /\ pad = Up /\ mouse = Up /\ cont = FALSE
  /\ frame = None /\ just = FALSE /\ reapply = None
  /\ ended = FALSE /\ presented = FALSE /\ transition = 0
  /\ screen = None /\ laid = policy /\ askew = FALSE
  /\ depth = 0 /\ pc = "ready" /\ restoring = FALSE /\ held = FALSE
  /\ store = None /\ answer = "none"
  /\ fresh = FALSE /\ lastDown = FALSE /\ padLine = FALSE
-----------------------------------------------------------------------------
(* Starting and stopping.                                                  *)

Clean ==
  /\ cont' = FALSE /\ frame' = None /\ just' = FALSE /\ reapply' = None
  /\ ended' = FALSE /\ presented' = FALSE /\ transition' = 0

\* What the program may ask for while its first room is created, and in a step.
Asks(when) == IF Has(when) THEN 0..2 ELSE {0}
Ends == IF Has("end") THEN {0, 1} ELSE {0}

NewLine ==
  fresh' = FALSE /\ lastDown' = FALSE /\ padLine' = FALSE

\* boot_runtime: everything of the previous run goes, then the first room is created.
Boot(c) ==
  /\ \E e \in Ends : sim' = [Timeline!Origin(c) EXCEPT !.end = e]
  /\ change' \in Asks("boot change")
  /\ Clean
  /\ pad' = Up /\ mouse' = Up
  /\ out' = policy
  /\ NewLine

\* The VM cannot be initialised: boot_runtime unloads what is left (engine_unload).
BootFails ==
  /\ Has("fail")
  /\ loaded' = FALSE /\ lifecycle' = "empty"
  /\ Clean /\ pad' = Up /\ mouse' = Up
  /\ UNCHANGED <<sim, change, out, history>>

\* The end of a host's call.
Return(what) == pc' = "ready" /\ answer' = what /\ depth' = 0 /\ restoring' = FALSE /\ held' = FALSE

Idle == pc = "ready" /\ UNCHANGED flow

LoadPrepare ==
  /\ Idle /\ lifecycle = "empty"
  /\ \/ lifecycle' = "prepared" /\ loaded' = TRUE /\ answer' = "done"
        /\ sim' = Timeline!Origin(Launch) /\ change' = 0 /\ Clean /\ pad' = Up /\ mouse' = Up
        /\ NewLine
     \/ answer' = "error" /\ just' = FALSE      \* the content is refused, or its VM
        /\ UNCHANGED <<session, sim, change, pad, mouse, cont, frame, reapply, ended,
                       presented, transition, history>>
  /\ UNCHANGED <<picture, config, store>>

LoadStart ==
  /\ Idle /\ lifecycle = "prepared"
  /\ lifecycle' = "loaded" /\ answer' = "done"
  /\ Boot(Launch)
  /\ UNCHANGED <<loaded, screen, laid, askew, config, store>>

Unload ==
  /\ Idle /\ lifecycle # "empty"
  /\ loaded' = FALSE /\ lifecycle' = "empty" /\ answer' = "done"
  /\ Clean
  /\ UNCHANGED <<sim, change, pad, mouse, picture, config, store, history>>

Reset ==
  /\ Idle /\ lifecycle = "loaded"
  /\ \/ Boot(sim.content) /\ answer' = "done" /\ UNCHANGED session
     \/ BootFails /\ answer' = "error"
  /\ UNCHANGED <<screen, laid, askew, config, store>>

\* The extent is recomputed by the next frame that gets past the presentation of a state.
SetConfig ==
  /\ Idle
  /\ \/ /\ Has("god") /\ (just => Has("late god"))
        /\ god' = ~god /\ policy' = policy
     \/ Has("resize") /\ policy' \in Policies \ {policy} /\ god' = god
  /\ answer' = "done"
  /\ UNCHANGED <<core, picture, session, store, history>>
-----------------------------------------------------------------------------
(* Saving and restoring.                                                   *)

\* state_write_completed_frame
FrameOf(extent) == [extent |-> extent, picture |-> screen, laid |-> laid, askew |-> askew]

\* Mistake: a state is written with the extent that is asked for by now.
CompletedFrameAsked ==
  IF presented THEN FrameOf(policy) ELSE IF frame # None THEN FrameOf(frame) ELSE None

CompletedFrame ==
  IF presented THEN FrameOf(out) ELSE IF frame # None THEN FrameOf(frame) ELSE None

\* state_write
Written(withFrame) ==
  [sim |-> sim, pad |-> pad, god |-> god, frame |-> IF withFrame THEN CompletedFrame ELSE None]

\* A state for resuming has no frame, nor has one whose buffer is too small for it.
Save ==
  /\ Idle /\ lifecycle = "loaded"
  /\ \E withFrame \in BOOLEAN : store' = Written(withFrame)
  /\ answer' = "done"
  /\ UNCHANGED <<core, picture, config, session, history>>

\* Mistake: the mouse is compared with what was polled before the load.
UnserializeInput(s) ==
  /\ sim' = s.sim /\ pad' = s.pad
  /\ mouse' = Up /\ cont' = FALSE
  /\ ended' = FALSE /\ transition' = 0 /\ presented' = FALSE
  /\ out' = policy

\* state_unserialize_impl, the fields that do not depend on who asks.
Unserialize(s) ==
  /\ sim' = s.sim /\ pad' = s.pad
  /\ mouse' = Up /\ cont' = TRUE
  /\ ended' = FALSE /\ transition' = 0 /\ presented' = FALSE
  /\ out' = policy

ShowFrame(s) ==
  IF s.frame = None THEN UNCHANGED <<screen, laid, askew>>
  ELSE screen' = s.frame.picture /\ laid' = s.frame.laid /\ askew' = s.frame.askew

\* schedule_reapply: the frame is shown first, or drawn again when its extent is not the present one.
Schedule(s) ==
  /\ just' = (s.frame # None)
  /\ frame' = IF s.frame = None \/ s.frame.extent # policy THEN None ELSE s.frame.extent

Fits(s) == s.sim.content = sim.content /\ s.god = god

Restored(s) ==
  /\ Unserialize(s) /\ ShowFrame(s) /\ Schedule(s)
  /\ reapply' = s
  /\ answer' = "restored"
  /\ fresh' = TRUE /\ padLine' = s.pad.cur

StateLoad ==
  /\ Idle /\ lifecycle = "loaded" /\ store # None
  /\ Fits(store)
  /\ Restored(store)
  /\ UNCHANGED <<change, config, session, store, lastDown>>

\* Another program's state is restored in an engine of its own, booted with that program, which
\* then takes the place of this one.
StateLoadStaged ==
  /\ Idle /\ lifecycle = "loaded" /\ store # None
  /\ store.sim.content # sim.content /\ store.god = god
  /\ Restored(store)
  /\ change' \in Asks("boot change")
  /\ UNCHANGED <<config, session, store, lastDown>>

\* Damaged, of another configuration, or of a program that cannot be booted: nothing is touched.
StateRefuse ==
  /\ Idle /\ lifecycle = "loaded"
  /\ answer' = "refused"
  /\ UNCHANGED <<core, picture, config, session, store, history>>

\* Mistake: what the load scheduled stays scheduled.
RollbackSchedule ==
  /\ just' = (store.frame # None) /\ reapply' = reapply
  /\ frame' = LET s == Written(TRUE).frame IN IF s = None THEN None ELSE s.extent

RollbackKeep ==
  /\ just' = just /\ reapply' = reapply
  /\ frame' = LET s == Written(TRUE).frame IN IF s = None THEN None ELSE s.extent

\* A section is refused after decoding began: the snapshot taken before is decoded in turn.
StateRollback ==
  /\ Idle /\ lifecycle = "loaded" /\ store # None
  /\ Has("fail") /\ Fits(store)
  /\ Unserialize(Written(TRUE))
  /\ RollbackKeep
  /\ IF CompletedFrame # None THEN ShowFrame(Written(TRUE))
     ELSE UNCHANGED <<screen, laid, askew>> \/ ShowFrame(store)   \* the refused frame may stay behind
  /\ answer' = "refused"
  /\ UNCHANGED <<change, config, session, store, history>>
-----------------------------------------------------------------------------
(* A frame.                                                                *)

Down == IF Has("input") THEN BOOLEAN ELSE {FALSE}

RunFrame ==
  /\ pc = "ready" /\ lifecycle = "loaded"
  /\ sim.n < MaxSteps
  /\ pc' = "enter" /\ answer' = "none"
  /\ UNCHANGED <<core, picture, config, session, store, depth, restoring, held, history>>

\* Mistake: a nested frame is not counted.
NestUncounted == depth' = depth

Nest == depth' = depth + 1

\* Mistake: the limit is looked at one frame too late.
TooDeepLate == depth > DepthLimit

TooDeep == depth >= DepthLimit

\* engine_apply_game_change_and_run_frame.  The new program is prepared before the old one goes.
GameChange ==
  /\ change # 0
  /\ IF TooDeep
       THEN /\ Return("error")
            /\ UNCHANGED <<core, out, session, history>>
     ELSE \/ /\ change' = 0 /\ Return("error")      \* the path, or the program, is no good
             /\ UNCHANGED <<sim, pad, mouse, cont, frame, just, reapply, ended, presented,
                            transition, out, session, history>>
          \/ /\ change = 1
             /\ \E c \in Contents : Boot(c)
             /\ Nest /\ pc' = "enter"
             /\ UNCHANGED <<restoring, held, answer, session>>
          \/ change = 1 /\ BootFails /\ Return("error")
  /\ UNCHANGED <<screen, laid, askew, config, store>>

EnterChange == pc = "enter" /\ GameChange

\* The completed frame a state carries is presented without running the program.
EnterPresent ==
  /\ pc = "enter" /\ change = 0
  /\ just /\ frame # None
  /\ out' = frame
  /\ just' = FALSE /\ reapply' = None /\ frame' = None /\ presented' = TRUE
  /\ Return("frame")
  /\ UNCHANGED <<sim, change, pad, mouse, cont, ended, transition, screen, laid, askew, config, session, store,
                 history>>

EnterEnded ==
  /\ pc = "enter" /\ change = 0
  /\ ~(just /\ frame # None)
  /\ ended
  /\ out' = policy /\ askew' = (askew \/ policy # out)
  /\ Return("frame")
  /\ UNCHANGED <<core, screen, laid, config, session, store, history>>

\* While a state is drawn again the program sees no control held.
Blank == Up

Enter ==
  /\ pc = "enter" /\ change = 0
  /\ ~(just /\ frame # None) /\ ~ended
  /\ restoring' = just /\ held' = sim.wait
  /\ just' = FALSE
  /\ out' = policy
  /\ \E down \in Down :
       /\ pad' = IF just THEN Blank ELSE [cur |-> down, prev |-> pad.cur]
       /\ mouse' = IF just THEN Up
                   ELSE [cur |-> down, prev |-> IF cont THEN down ELSE mouse.cur]
       /\ lastDown' = down
  /\ cont' = (cont /\ just)
  /\ pc' = "step"
  /\ UNCHANGED <<sim, change, frame, reapply, ended, presented, transition, screen, laid, askew, config, session,
                 store, answer, depth, fresh, padLine>>

Runs == ~restoring /\ transition = 0

\* gml_vm_step.  A parked event may stay parked, and then nothing else runs.
Step ==
  /\ pc = "step"
  /\ pc' = "after"
  /\ IF ~Runs
       THEN UNCHANGED <<sim, change, transition, fresh>>
     ELSE \/ /\ sim.wait
             /\ UNCHANGED <<sim, change, transition, fresh>>
          \/ /\ \E e \in IF Has("end") THEN {sim.end, 1, 2} ELSE {sim.end},
                   w \in IF Has("wait") THEN BOOLEAN ELSE {FALSE} :
                  sim' = [sim EXCEPT !.n = @ + 1, !.d = 0, !.end = e, !.wait = w]
             /\ change' \in Asks("change")
             /\ transition' \in IF Has("transition") /\ presented THEN {0, 1, 3} ELSE {0}
             /\ fresh' = FALSE
  /\ padLine' = IF restoring THEN padLine ELSE pad.cur
  /\ UNCHANGED <<pad, mouse, cont, frame, just, reapply, ended, presented, picture, config, session, store,
                 answer, depth, restoring, held, lastDown>>

\* A parked event that is still parked: the completed picture stays.
AfterHeld ==
  /\ pc = "after" /\ held /\ sim.wait
  /\ Return("frame")
  /\ UNCHANGED <<core, picture, config, session, store, history>>

AfterChange == pc = "after" /\ ~(held /\ sim.wait) /\ GameChange

\* game_end: 2 restarts the program within the frame, anything else freezes the session after it.
AfterStep ==
  /\ pc = "after" /\ ~(held /\ sim.wait) /\ change = 0
  /\ IF sim.end = 2
       THEN \/ Boot(sim.content) /\ pc' = "draw" /\ UNCHANGED <<session, answer, depth, restoring, held>>
            \/ BootFails /\ Return("error")
       ELSE /\ ended' = (ended \/ sim.end = 1)
            /\ pc' = "draw"
            /\ UNCHANGED <<sim, change, pad, mouse, cont, frame, just, reapply, presented, transition, out,
                           session, answer, depth, restoring, held, history>>
  /\ UNCHANGED <<screen, laid, askew, config, store>>

\* The draw events, the pictures of a room transition, presentation.
Draw ==
  /\ pc = "draw"
  /\ \E e \in IF Has("end") THEN {sim.end, 1} ELSE {sim.end} :
       sim' = [sim EXCEPT !.d = IF @ = 2 THEN 2 ELSE @ + 1, !.end = e]
  /\ change' \in IF Has("change") THEN {change, 1} ELSE {change}
  /\ transition' = IF transition = 0 THEN 0 ELSE transition - 1
  /\ presented' = TRUE
  /\ screen' = Picture(sim) /\ laid' = out /\ askew' = FALSE
  /\ pc' = "finish"
  /\ UNCHANGED <<pad, mouse, cont, frame, just, reapply, ended, out, config, session, store, answer,
                 depth, restoring, held, fresh, lastDown, padLine>>

\* Mistake: what the draw events did to the simulation stays.
PutBackNever(s) == UNCHANGED <<sim, pad, mouse, cont, frame, ended, transition, out>>

\* state_unserialize_impl leaves the pixels alone unless the state has a frame: that is written back
\* over the picture just drawn, in the rows it was stored in, whatever the extent is now.
PutBackFrame(s) ==
  IF s.frame = None THEN UNCHANGED <<screen, laid, askew>>
  ELSE screen' = s.frame.picture /\ laid' = s.frame.laid
       /\ askew' = (s.frame.askew \/ s.frame.extent # policy)

PutBack(s) ==
  /\ sim' = s.sim /\ pad' = s.pad /\ mouse' = Up /\ cont' = TRUE
  /\ ended' = FALSE /\ transition' = 0 /\ out' = policy
  /\ frame' = IF s.frame = None THEN None ELSE s.frame.extent

\* The simulation goes back to where the state had it; a change the draw asked for is forgotten.
FinishRestore ==
  /\ pc = "finish" /\ restoring
  /\ IF reapply # None /\ Fits(reapply)
       THEN PutBack(reapply) /\ PutBackFrame(reapply)
       ELSE UNCHANGED <<sim, pad, mouse, cont, frame, ended, transition, out, screen, laid, askew>>
  /\ reapply' = None /\ just' = FALSE /\ presented' = TRUE
  /\ change' = 0
  /\ Return("frame")
  /\ UNCHANGED <<config, session, store, history>>

FinishChange == pc = "finish" /\ ~restoring /\ GameChange

Finish ==
  /\ pc = "finish" /\ ~restoring /\ change = 0
  /\ Return("frame")
  /\ UNCHANGED <<core, picture, config, session, store, history>>
-----------------------------------------------------------------------------
InFrame ==
  \/ EnterChange \/ EnterPresent \/ EnterEnded \/ Enter
  \/ Step \/ AfterHeld \/ AfterChange \/ AfterStep
  \/ Draw \/ FinishRestore \/ FinishChange \/ Finish

Next ==
  /\ \/ LoadPrepare \/ LoadStart \/ Unload \/ Reset \/ SetConfig
     \/ Save \/ StateLoad \/ StateLoadStaged \/ StateRefuse \/ StateRollback
     \/ RunFrame \/ InFrame
  /\ UNCHANGED env

Spec == Init /\ [][Next]_vars

\* A frame that was called runs.
FairSpec == Spec /\ WF_vars(InFrame /\ UNCHANGED env)
-----------------------------------------------------------------------------
Advancing == pc = "enter" /\ pc' = "step" /\ ~restoring'

\* Loading, refusing, presenting and redrawing states moves the simulation only to the points that
\* were saved; the next thing to happen there is a step.  History: fresh.  Not with "late god": a
\* god_mode change between a load and its redraw has the redraw's reapplied state refused.
KeepsTheTimeline == Timeline!Spec

\* A refused state costs nothing of the simulation, of the saved input, or of what an earlier load
\* still has to show.
RefusalKeeps ==
  [][answer' = "refused" => UNCHANGED <<sim, change, pad, just, reapply>>]_vars

\* A load presses nothing.  Mouse and hardware keys: a press the program sees begins while the host
\* reported the control up in the frame before (history: lastDown, what the latest polling frame was
\* told).  The pad: edges are taken against the latest frame of the timeline the simulation is on,
\* across saving and restoring (history: padLine).
NoSyntheticPress ==
  [][Advancing => (mouse'.cur /\ ~mouse'.prev => ~lastDown) /\ pad'.prev = padLine]_vars

\* A frame that succeeds shows the simulation it leaves behind, unless an event is parked: a frame
\* that finds it parked returns before it draws.  Not where a game change may fail after the step:
\* such a frame moves the simulation on from its picture.  The picture
\* lies in rows of the extent it is presented in, with two exceptions, and the states saved from them,
\* which the history askew records: a redraw writes the stored pixels back under the new extent
\* (engine.c:2064, engine_state.c:622), though the comments at engine.c:2066 and engine_state.c:699
\* say the newly composed pixels stay; and an ended session whose extent was changed (engine.c:968).
ShowsCurrent ==
  answer = "frame" /\ pc = "ready" /\ lifecycle = "loaded" /\ ~sim.wait /\ ~Has("change")
    => screen = Picture(sim) /\ (laid = out \/ askew)

\* A frame returns, also when every program replaces itself by another while it boots.
FrameReturns == (pc # "ready") ~> (pc = "ready")
=============================================================================
