------------------------- MODULE EngineSessionProofs -------------------------
(***************************************************************************)
(* What a session promises about its simulation, its pictures and its      *)
(* input, for any programs, extents and kinds of session, any limit of     *)
(* nesting and any length of a program.                                    *)
(***************************************************************************)
EXTENDS EngineSession, TLAPS

\* Kinds of session in which the properties are promised.
NoLateGod == "late god" \notin env
InputKnown == NoLateGod /\ ~({"wait", "input", "resize"} \subseteq env)

Between == {"ready", "enter"}       \* before the frame touches anything
Before == {"step", "after"}         \* before it draws

Shows(s, picture0, rows, extent, off) ==
  s.wait \/ (picture0 = Picture(s) /\ (rows = extent \/ off))

FrameShows(s) ==
  s.frame # None => Shows(s.sim, s.frame.picture, s.frame.laid, s.frame.extent, s.frame.askew)

\* Where a frame is.
PhaseInv ==
  /\ pc # "ready" => lifecycle = "loaded" /\ answer = "none"
  /\ pc \in Between => ~restoring
  /\ pc \in {"enter", "step"} => sim.n < MaxSteps
  /\ pc = "step" => (held <=> sim.wait)
  /\ pc \notin Between => ~just

\* What is presented is there, and is what was drawn last.
ScreenInv ==
  /\ presented \/ frame # None => screen # None
  /\ pc = "finish" => presented /\ screen = Picture(sim) /\ laid = out
  /\ pc \in Between /\ ended => presented
  /\ pc \in Before => ~ended

\* The state that is still to be shown is the one the session is in; while it is drawn again, the
\* one it will be in.
ScheduleInv ==
  /\ just => /\ ~presented /\ cont /\ reapply # None /\ reapply.frame # None
             /\ reapply.sim = sim /\ reapply.pad = pad
             /\ NoLateGod => reapply.god = god
  /\ restoring /\ pc \in Before => change = 0 /\ reapply # None /\ sim = reapply.sim
  /\ restoring /\ reapply # None => /\ cont /\ reapply.frame # None
                                    /\ reapply.sim.content = sim.content
                                    /\ NoLateGod => reapply.god = god

\* A session that was put back does not draw before it has stepped.
FreshInv ==
  /\ fresh => transition = 0
  /\ pc = "after" /\ fresh /\ ~restoring => held /\ sim.wait
  /\ pc = "draw" /\ fresh => restoring /\ reapply # None

MouseInv == lifecycle # "empty" /\ ~cont => (mouse.cur <=> lastDown)

\* What a kind of session cannot do has left no trace.
KindInv ==
  /\ ~Has("input") => /\ ~pad.cur /\ ~padLine
                      /\ store # None => ~store.pad.cur
                      /\ reapply # None => ~reapply.pad.cur
  /\ ~Has("wait") => /\ ~sim.wait
                     /\ store # None => ~store.sim.wait
                     /\ reapply # None => ~reapply.sim.wait
  /\ ~Has("resize") => /\ out = policy /\ frame \in {None, policy} /\ ~restoring
                       /\ just => frame # None
                       /\ store # None /\ store.frame # None => store.frame.extent = policy
                       /\ reapply # None /\ reapply.frame # None => reapply.frame.extent = policy
  /\ ~Has("change") /\ pc \in Before => change = 0

\* Edges of the pad are taken against the latest frame of the simulation's own timeline.
PadInv ==
  InputKnown /\ lifecycle # "empty" =>
    /\ pc # "step" /\ ~restoring => (pad.cur <=> padLine)
    /\ restoring => (padLine <=> IF reapply # None THEN reapply.pad.cur ELSE pad.cur)

\* A picture that is or was presented is the one of its simulation, in rows of the extent it is
\* presented in but for what askew records, unless an event is parked.
ShownInv ==
  ~Has("change") =>
    /\ pc \in Between /\ (presented \/ frame # None) =>
         Shows(sim, screen, laid, IF presented THEN out ELSE frame, askew)
    /\ store # None => FrameShows(store)
    /\ reapply # None => FrameShows(reapply)
    /\ pc = "ready" /\ answer = "frame" => presented \/ sim.wait

IInv ==
  /\ TypeOK /\ PhaseInv /\ ScreenInv /\ ScheduleInv /\ FreshInv
  /\ MouseInv /\ KindInv /\ PadInv /\ ShownInv
-----------------------------------------------------------------------------
(* Values the actions build.                                               *)

LEMMA Values ==
  /\ Up \in Key /\ ~Up.cur /\ ~Up.prev
  /\ \A s \in Sims : Picture(s) \in Pictures
<1>1. Up \in Key /\ ~Up.cur /\ ~Up.prev
  BY DEF Up, Key
<1>2. ASSUME NEW s \in Sims PROVE Picture(s) \in Pictures
  <2>1. s.content \in Contents /\ s.n \in 0..MaxSteps
    BY DEF Sims
  <2>2. QED
    BY <2>1 DEF Picture, Pictures
<1>3. QED
  BY <1>1, <1>2

\* A field of a simulation can be replaced without touching the others.
LEMMA Ended ==
  ASSUME NEW s \in Sims, NEW e \in 0..2
  PROVE  LET t == [s EXCEPT !.end = e]
         IN /\ t \in Sims /\ t.content = s.content /\ t.n = s.n /\ t.d = s.d
            /\ t.end = e /\ t.wait = s.wait
BY DEF Sims

LEMMA Origins ==
  ASSUME NEW c \in Contents
  PROVE  LET s == Timeline!Origin(c)
         IN s \in Sims /\ s.content = c /\ s.n = 0 /\ ~s.wait /\ s = [s EXCEPT !.end = 0]
<1>1. 0 \in 0..MaxSteps /\ 0 \in 0..2 /\ FALSE \in BOOLEAN
  BY SessionAssumption
<1>2. Timeline!Origin(c) \in Sims
  BY <1>1 DEF Timeline!Origin, Sims
<1>3. Timeline!Origin(c).end = 0
  BY DEF Timeline!Origin
<1>4. \A s \in Sims : s = [s EXCEPT !.end = s.end]
  BY DEF Sims
<1>5. Timeline!Origin(c) = [Timeline!Origin(c) EXCEPT !.end = 0]
  BY <1>2, <1>3, <1>4
<1>6. QED
  BY <1>2, <1>5 DEF Timeline!Origin

LEMMA Fields ==
  ASSUME NEW s \in States
  PROVE  /\ s.sim \in Sims /\ s.pad \in Key /\ s.god \in BOOLEAN
         /\ s.frame \in Frames \cup {None} /\ s # None
         /\ s.frame # None => /\ s.frame.extent \in Policies /\ s.frame.picture \in Pictures
                              /\ s.frame.laid \in Policies /\ s.frame.askew \in BOOLEAN
BY NoValue DEF States, Frames

\* The parts of TypeOK.
CallType ==
  /\ env \in Envs
  /\ lifecycle \in {"empty", "prepared", "loaded"} /\ (loaded <=> lifecycle # "empty") /\ loaded \in BOOLEAN
  /\ depth \in 0..DepthLimit
  /\ pc \in {"ready", "enter", "poll", "step", "after", "draw", "finish"}
  /\ answer \in {"none", "done", "frame", "restored", "refused", "error"}

FlagType ==
  /\ god \in BOOLEAN /\ cont \in BOOLEAN /\ just \in BOOLEAN
  /\ ended \in BOOLEAN /\ presented \in BOOLEAN
  /\ restoring \in BOOLEAN /\ held \in BOOLEAN
  /\ fresh \in BOOLEAN /\ lastDown \in BOOLEAN /\ padLine \in BOOLEAN

SimType == sim \in Sims /\ change \in 0..2 /\ transition \in 0..3 /\ pad \in Key /\ mouse \in Key

PictureType ==
  /\ policy \in Policies /\ out \in Policies /\ frame \in Policies \cup {None}
  /\ screen \in Pictures \cup {None} /\ laid \in Policies /\ askew \in BOOLEAN
  /\ reapply \in States \cup {None} /\ store \in States \cup {None}

LEMMA TypeParts ==
  /\ TypeOK <=> CallType /\ FlagType /\ SimType /\ PictureType
  /\ TypeOK' <=> CallType' /\ FlagType' /\ SimType' /\ PictureType'
<1>1. TypeOK <=> CallType /\ FlagType /\ SimType /\ PictureType
  BY Zenon DEF TypeOK, CallType, FlagType, SimType, PictureType
<1>2. TypeOK' <=> CallType' /\ FlagType' /\ SimType' /\ PictureType'
  BY Zenon DEF TypeOK, CallType, FlagType, SimType, PictureType
<1>3. QED
  BY <1>1, <1>2

LEMMA Asked == \A when : Asks(when) \subseteq 0..2
BY DEF Asks, Has

\* A session stays of its kind.
LEMMA Kinds ==
  ASSUME UNCHANGED env
  PROVE  /\ Has("input") <=> Has("input")'
         /\ Has("wait") <=> Has("wait")'
         /\ Has("resize") <=> Has("resize")'
         /\ Has("change") <=> Has("change")'
         /\ NoLateGod <=> NoLateGod'
         /\ InputKnown <=> InputKnown'
BY DEF Has, NoLateGod, InputKnown

LEMMA NoneApart == None \notin Pictures /\ None \notin Policies /\ None \notin Frames
BY NoValue, SessionAssumption

\* The frame a state is written with is the one that was completed, if one was.
LEMMA Completed ==
  ASSUME TypeOK, ScreenInv
  PROVE  /\ CompletedFrame \in Frames \cup {None}
         /\ CompletedFrame # None <=> presented \/ frame # None
         /\ CompletedFrame # None =>
              /\ CompletedFrame.picture = screen /\ CompletedFrame.extent \in Policies
              /\ CompletedFrame.extent = IF presented THEN out ELSE frame
              /\ CompletedFrame.laid = laid /\ CompletedFrame.askew = askew
BY NoneApart DEF CompletedFrame, FrameOf, TypeOK, ScreenInv, Frames

LEMMA Writes ==
  ASSUME TypeOK, ScreenInv, NEW w \in BOOLEAN
  PROVE  /\ Written(w) \in States /\ Written(w).sim = sim /\ Written(w).pad = pad
         /\ Written(w).god = god
         /\ Written(w).frame = IF w THEN CompletedFrame ELSE None
BY Completed DEF Written, TypeOK, States
-----------------------------------------------------------------------------
(* Starting a program over, from wherever it is asked for.                 *)

LEMMA Booted ==
  ASSUME NEW c \in Contents, Boot(c)
  PROVE  /\ sim' \in Sims /\ sim'.content = c /\ sim'.n = 0 /\ ~sim'.wait /\ change' \in 0..2
<1>1. PICK e \in Ends : sim' = [Timeline!Origin(c) EXCEPT !.end = e]
  BY DEF Boot
<1>2. e \in 0..2
  BY DEF Ends
<1> DEFINE s == Timeline!Origin(c)
<1>3. s \in Sims /\ s.content = c /\ s.n = 0 /\ ~s.wait
  BY Origins
<1>4. sim' = [s EXCEPT !.end = e]
  BY <1>1
<1> HIDE DEF s
<1>5. change' \in 0..2
  BY Asked DEF Boot
<1>6. QED
  BY <1>2, <1>3, <1>4, <1>5, Ended

LEMMA BootKeeps ==
  ASSUME IInv, NEW c \in Contents, Boot(c),
         UNCHANGED <<env, screen, laid, askew, config, store>>,
         lifecycle' = "loaded", loaded' = TRUE,
         depth' \in 0..DepthLimit, held' \in BOOLEAN,
         pc' \in {"ready", "enter", "draw"}, restoring' \in BOOLEAN,
         restoring' => pc' = "draw" /\ restoring,
         answer' \in {"none", "done"}, pc' # "ready" => answer' = "none"
  PROVE  IInv'
<1>1. /\ sim' \in Sims /\ sim'.n = 0 /\ ~sim'.wait /\ change' \in 0..2
  BY Booted
<1>2. /\ cont' = FALSE /\ frame' = None /\ just' = FALSE /\ reapply' = None
      /\ ended' = FALSE /\ presented' = FALSE /\ transition' = 0
      /\ pad' = Up /\ mouse' = Up /\ out' = policy
      /\ fresh' = FALSE /\ lastDown' = FALSE /\ padLine' = FALSE
  BY DEF Boot, Clean, NewLine
<1>3. env' = env /\ screen' = screen /\ laid' = laid /\ askew' = askew /\ god' = god /\ policy' = policy /\ store' = store
  BY DEF config
<1>4. TypeOK'
  <2>1. TypeOK
    BY DEF IInv
  <2>2. CallType' /\ FlagType'
    BY <1>2, <1>3, <2>1, TypeParts DEF CallType, FlagType
  <2>3. SimType' /\ PictureType'
    BY <1>1, <1>2, <1>3, <2>1, TypeParts, Values DEF SimType, PictureType
  <2>4. QED
    BY <2>2, <2>3, TypeParts
<1>5. PhaseInv'
  BY <1>1, <1>2, SessionAssumption DEF PhaseInv, Between
<1>6. ScreenInv' /\ ScheduleInv' /\ FreshInv'
  BY <1>2 DEF ScreenInv, ScheduleInv, FreshInv, Before, Between
<1>7. MouseInv' /\ PadInv'
  BY <1>2, Values DEF MouseInv, PadInv
<1>8. KindInv'
  <2>1. KindInv
    BY DEF IInv
  <2>2. (Has("input") <=> Has("input")') /\ (Has("wait") <=> Has("wait")') /\ (Has("resize") <=> Has("resize")')
    BY <1>3 DEF Has
  <2>3. QED
    BY <1>1, <1>2, <1>3, <2>1, <2>2, Values DEF KindInv, Before
<1>9. ShownInv'
  <2>1. ShownInv
    BY DEF IInv
  <2>2. Has("change") <=> Has("change")'
    BY <1>3 DEF Has
  <2>3. QED
    BY <1>2, <1>3, <2>1, <2>2 DEF ShownInv, FrameShows, Shows, Picture
<1>10. QED
  BY <1>4, <1>5, <1>6, <1>7, <1>8, <1>9 DEF IInv

\* Nothing of a session is left when its program cannot be started, or is unloaded.
LEMMA EmptyKeeps ==
  ASSUME IInv, Clean, lifecycle' = "empty", loaded' = FALSE,
         UNCHANGED <<env, sim, change, out, screen, laid, askew, config, store, history>>,
         pad' \in {pad, Up}, mouse' \in {mouse, Up},
         depth' \in 0..DepthLimit, held' \in BOOLEAN,
         pc' = "ready", restoring' = FALSE, answer' \in {"done", "error"}
  PROVE  IInv'
<1>1. /\ cont' = FALSE /\ frame' = None /\ just' = FALSE /\ reapply' = None
      /\ ended' = FALSE /\ presented' = FALSE /\ transition' = 0
  BY DEF Clean
<1>2. /\ env' = env /\ sim' = sim /\ change' = change /\ out' = out /\ screen' = screen /\ laid' = laid /\ askew' = askew
      /\ god' = god /\ policy' = policy /\ store' = store
      /\ fresh' = fresh /\ lastDown' = lastDown /\ padLine' = padLine
  BY DEF config, history
<1>3. TypeOK'
  <2>1. CallType /\ FlagType /\ SimType /\ PictureType
    BY TypeParts DEF IInv
  <2>2. CallType' /\ FlagType'
    BY <1>1, <1>2, <2>1 DEF CallType, FlagType
  <2>3. SimType' /\ PictureType'
    BY <1>1, <1>2, <2>1, Values DEF SimType, PictureType
  <2>4. QED
    BY <2>2, <2>3, TypeParts
<1>4. PhaseInv' /\ ScreenInv' /\ ScheduleInv' /\ FreshInv'
  BY <1>1 DEF PhaseInv, ScreenInv, ScheduleInv, FreshInv, Before, Between
<1>5. MouseInv' /\ PadInv'
  BY DEF MouseInv, PadInv
<1>6. KindInv'
  <2>1. KindInv
    BY DEF IInv
  <2>2. (Has("input") <=> Has("input")') /\ (Has("wait") <=> Has("wait")') /\ (Has("resize") <=> Has("resize")')
    BY <1>2 DEF Has
  <2>3. QED
    BY <1>1, <1>2, <2>1, <2>2, Values DEF KindInv, Before
<1>7. ShownInv'
  <2>1. ShownInv
    BY DEF IInv
  <2>2. Has("change") <=> Has("change")'
    BY <1>2 DEF Has
  <2>3. QED
    BY <1>1, <1>2, <2>1, <2>2 DEF ShownInv, FrameShows, Shows, Picture
<1>8. QED
  BY <1>3, <1>4, <1>5, <1>6, <1>7 DEF IInv

\* A frame that gives up leaves the session as it found it.
LEMMA GivingUpKeeps ==
  ASSUME IInv, pc \in {"enter", "after", "finish"}, ~restoring, change # 0, change' \in {change, 0},
         UNCHANGED <<env, sim, pad, mouse, cont, frame, just, reapply, ended, presented, transition,
                     picture, config, session, store, history>>,
         Return("error")
  PROVE  IInv'
<1>1. pc' = "ready" /\ answer' = "error" /\ depth' = 0 /\ restoring' = FALSE /\ held' = FALSE
  BY DEF Return
<1>2. /\ env' = env /\ sim' = sim /\ pad' = pad /\ mouse' = mouse /\ cont' = cont /\ frame' = frame
      /\ just' = just /\ reapply' = reapply /\ ended' = ended /\ presented' = presented
      /\ transition' = transition /\ screen' = screen /\ laid' = laid /\ askew' = askew /\ out' = out
      /\ god' = god /\ policy' = policy /\ store' = store /\ lifecycle' = lifecycle /\ loaded' = loaded
      /\ fresh' = fresh /\ lastDown' = lastDown /\ padLine' = padLine
  BY DEF picture, config, session, history
<1>3. TypeOK'
  <2>1. CallType /\ FlagType /\ SimType /\ PictureType
    BY TypeParts DEF IInv
  <2>2. 0 \in 0..DepthLimit
    BY SessionAssumption
  <2>3. CallType'
    BY <1>1, <1>2, <2>1, <2>2 DEF CallType
  <2>4. FlagType'
    BY <1>1, <1>2, <2>1 DEF FlagType
  <2>5. SimType' /\ PictureType'
    BY <1>2, <2>1 DEF SimType, PictureType
  <2>6. QED
    BY <2>3, <2>4, <2>5, TypeParts
<1>4. PhaseInv'
  BY <1>1 DEF PhaseInv, Between
<1>5. ScreenInv'
  BY <1>1, <1>2 DEF IInv, ScreenInv, Between, Before
<1>6. ScheduleInv'
  <2>1. ScheduleInv /\ (NoLateGod <=> NoLateGod')
    BY <1>2 DEF IInv, NoLateGod
  <2>2. QED
    BY <1>1, <1>2, <2>1 DEF ScheduleInv
<1>7. FreshInv'
  BY <1>1, <1>2 DEF IInv, FreshInv
<1>8. MouseInv'
  BY <1>2 DEF IInv, MouseInv
<1>9. KindInv'
  <2>1. KindInv
    BY DEF IInv
  <2>2. (Has("input") <=> Has("input")') /\ (Has("wait") <=> Has("wait")') /\ (Has("resize") <=> Has("resize")')
    BY <1>2 DEF Has
  <2>3. QED
    BY <1>1, <1>2, <2>1, <2>2 DEF KindInv, Before
<1>10. PadInv'
  BY <1>1, <1>2 DEF IInv, PadInv, InputKnown, NoLateGod
<1>11. ShownInv'
  <2>1. ShownInv /\ ScreenInv /\ KindInv
    BY DEF IInv
  <2>2. Has("change") <=> Has("change")'
    BY <1>2 DEF Has
  <2>3. ~Has("change") => pc # "after"
    BY <2>1 DEF KindInv, Before
  <2>4. pc = "finish" => presented /\ Shows(sim, screen, laid, out, askew)
    BY <2>1 DEF ScreenInv, Shows
  <2>5. QED
    BY <1>1, <1>2, <2>1, <2>2, <2>3, <2>4 DEF ShownInv, FrameShows, Shows, Picture, Between
<1>12. QED
  BY <1>3, <1>4, <1>5, <1>6, <1>7, <1>8, <1>9, <1>10, <1>11 DEF IInv

LEMMA GameChangeKeeps ==
  ASSUME IInv, pc \in {"enter", "after", "finish"}, ~restoring, GameChange, UNCHANGED env
  PROVE  IInv'
<1>1. /\ lifecycle = "loaded" /\ loaded = TRUE /\ answer = "none" /\ depth \in 0..DepthLimit
      /\ held \in BOOLEAN /\ restoring \in BOOLEAN
  <2>1. lifecycle = "loaded" /\ answer = "none"
    BY DEF IInv, PhaseInv
  <2>2. CallType /\ FlagType
    BY TypeParts DEF IInv
  <2>3. QED
    BY <2>1, <2>2 DEF CallType, FlagType
<1>2. CASE TooDeep
  <2>1. UNCHANGED <<core, picture, config, session, store, history>> /\ Return("error") /\ change # 0
    BY <1>2 DEF GameChange, picture
  <2>2. QED
    BY <2>1, GivingUpKeeps DEF core
<1>3. CASE ~TooDeep
  <2>1. CASE change' = 0 /\ Return("error") /\ UNCHANGED <<sim, pad, mouse, cont, frame, just, reapply, ended,
                                                          presented, transition, out, session, history>>
    <3>1. UNCHANGED <<picture, config, store>> /\ change # 0
      BY <2>1 DEF GameChange, picture
    <3>2. QED
      BY <2>1, <3>1, GivingUpKeeps
  <2>2. CASE (\E c \in Contents : Boot(c)) /\ Nest /\ pc' = "enter" /\ UNCHANGED <<restoring, held, answer, session>>
    <3>1. PICK c \in Contents : Boot(c)
      BY <2>2
    <3>2. depth' \in 0..DepthLimit
      BY <1>1, <1>3, <2>2, SessionAssumption DEF Nest, TooDeep
    <3>3. UNCHANGED <<screen, laid, askew, config, store>>
      BY DEF GameChange
    <3>4. lifecycle' = "loaded" /\ loaded' = TRUE
      BY <1>1, <2>2 DEF session
    <3>5. /\ held' \in BOOLEAN /\ restoring' \in BOOLEAN /\ ~restoring'
          /\ answer' = "none" /\ pc' = "enter"
      BY <1>1, <2>2
    <3>6. QED
      BY <3>1, <3>2, <3>3, <3>4, <3>5, BootKeeps
  <2>3. CASE BootFails /\ Return("error")
    <3>1. 0 \in 0..DepthLimit
      BY SessionAssumption
    <3>2. UNCHANGED <<screen, laid, askew, config, store>>
      BY DEF GameChange
    <3>3. /\ loaded' = FALSE /\ lifecycle' = "empty" /\ Clean /\ pad' = Up /\ mouse' = Up
          /\ UNCHANGED <<sim, change, out, history>>
      BY <2>3 DEF BootFails
    <3>4. pc' = "ready" /\ answer' = "error" /\ depth' = 0 /\ restoring' = FALSE /\ held' = FALSE
      BY <2>3 DEF Return
    <3>5. QED
      BY <3>1, <3>2, <3>3, <3>4, EmptyKeeps
  <2>4. QED
    BY <1>3, <2>1, <2>2, <2>3 DEF GameChange
<1>4. QED
  BY <1>2, <1>3
-----------------------------------------------------------------------------
(* The host's calls between frames.                                        *)

\* Between frames nothing of a frame is left over.
LEMMA AtRest ==
  ASSUME IInv, Idle
  PROVE  /\ pc = "ready" /\ pc' = "ready" /\ depth' = depth /\ held' = held
         /\ restoring = FALSE /\ restoring' = FALSE
<1>1. pc = "ready" /\ UNCHANGED <<depth, pc, restoring, held>>
  BY DEF Idle, flow
<1>2. ~restoring
  BY <1>1 DEF IInv, PhaseInv, Between
<1>3. restoring \in BOOLEAN
  BY TypeParts DEF IInv, FlagType
<1>4. QED
  BY <1>1, <1>2, <1>3

\* A state that is restored is the one the session is in, until it has been shown.
LEMMA RestoredKeeps ==
  ASSUME IInv, Idle, lifecycle = "loaded", store # None, store.god = god, Restored(store),
         change' \in 0..2, UNCHANGED <<env, config, session, store, lastDown>>
  PROVE  IInv'
<1> DEFINE s == store
<1>1. pc = "ready" /\ pc' = "ready" /\ depth' = depth /\ held' = held /\ restoring' = FALSE
  BY AtRest
<1>2. /\ env' = env /\ god' = god /\ policy' = policy /\ lifecycle' = lifecycle /\ loaded' = loaded
      /\ store' = store /\ lastDown' = lastDown
  BY DEF config, session
<1>3. /\ sim' = s.sim /\ pad' = s.pad /\ mouse' = Up /\ cont' = TRUE /\ ended' = FALSE
      /\ transition' = 0 /\ presented' = FALSE /\ out' = policy
      /\ reapply' = s /\ answer' = "restored" /\ fresh' = TRUE /\ padLine' = s.pad.cur
  BY Zenon DEF Restored, Unserialize
<1>4. s \in States
  BY TypeParts DEF IInv, PictureType
<1>5. /\ s.sim \in Sims /\ s.pad \in Key /\ s.pad.cur \in BOOLEAN
      /\ s.frame # None => /\ s.frame.extent \in Policies /\ s.frame.picture \in Pictures
                           /\ s.frame.laid \in Policies /\ s.frame.askew \in BOOLEAN
  BY <1>4, Fields DEF Key
<1>6. (just' <=> s.frame # None) /\ just' \in BOOLEAN
  BY Zenon DEF Restored, Schedule
<1>7. /\ s.frame = None => screen' = screen /\ laid' = laid /\ askew' = askew
      /\ s.frame # None => screen' = s.frame.picture /\ laid' = s.frame.laid /\ askew' = s.frame.askew
  BY DEF Restored, ShowFrame
<1>8. frame' = IF s.frame = None \/ s.frame.extent # policy THEN None ELSE s.frame.extent
  BY DEF Restored, Schedule
<1>9. s = store /\ s # None
  BY DEF s
<1> HIDE DEF s
<1>10. TypeOK'
  <2>1. CallType /\ FlagType /\ SimType /\ PictureType
    BY TypeParts DEF IInv
  <2>2. CallType'
    BY <1>1, <1>2, <1>3, <1>5, <1>6, <1>7, <1>8, <1>9, <1>4, <2>1 DEF CallType
  <2>3. FlagType'
    BY <1>1, <1>2, <1>3, <1>5, <1>6, <1>7, <1>8, <1>9, <1>4, <2>1, Values DEF FlagType
  <2>4. SimType'
    BY <1>1, <1>2, <1>3, <1>5, <1>6, <1>7, <1>8, <1>9, <1>4, <2>1, Values DEF SimType
  <2>5. PictureType'
    BY <1>1, <1>2, <1>3, <1>5, <1>6, <1>7, <1>8, <1>9, <1>4, <2>1, Values DEF PictureType
  <2>6. QED
    BY <2>2, <2>3, <2>4, <2>5, TypeParts
<1>11. PhaseInv'
  <2>1. PhaseInv
    BY DEF IInv
  <2>2. QED
    BY <1>1, <1>2, <2>1, Kinds DEF PhaseInv, Between
<1>12. ScreenInv'
  <2>1. ScreenInv
    BY DEF IInv
  <2>2. QED
    BY <1>1, <1>2, <1>3, <1>5, <1>6, <1>7, <1>8, <1>9, <2>1, Kinds, NoneApart DEF ScreenInv, Between, Before
<1>13. ScheduleInv'
  <2>1. ScheduleInv
    BY DEF IInv
  <2>2. QED
    BY <1>1, <1>2, <1>3, <1>5, <1>6, <1>7, <1>8, <1>9, <2>1, Kinds DEF ScheduleInv
<1>14. FreshInv'
  <2>1. FreshInv
    BY DEF IInv
  <2>2. QED
    BY <1>1, <1>3, <2>1, Kinds DEF FreshInv
<1>15. MouseInv'
  <2>1. MouseInv
    BY DEF IInv
  <2>2. QED
    BY <1>3, <2>1, Kinds DEF MouseInv
<1>16. KindInv'
  <2>1. KindInv
    BY DEF IInv
  <2>2. QED
    BY <1>1, <1>2, <1>3, <1>5, <1>6, <1>7, <1>8, <1>9, <2>1, Kinds, NoneApart DEF KindInv, Before
<1>17. PadInv'
  <2>1. PadInv
    BY DEF IInv
  <2>2. QED
    BY <1>1, <1>3, <1>5, <1>6, <2>1, Kinds DEF PadInv
<1>18. ShownInv'
  <2>1. ShownInv
    BY DEF IInv
  <2>2. QED
    BY <1>1, <1>2, <1>3, <1>5, <1>6, <1>7, <1>8, <1>9, <2>1, Kinds DEF ShownInv, FrameShows, Shows, Picture, Between
<1>19. QED
  BY <1>10, <1>11, <1>12, <1>13, <1>14, <1>15, <1>16, <1>17, <1>18 DEF IInv

LEMMA LoadKeeps ==
  ASSUME IInv, StateLoad \/ StateLoadStaged, UNCHANGED env
  PROVE  IInv'
<1>1. CASE StateLoad
  <2>1. /\ Idle /\ lifecycle = "loaded" /\ store # None /\ store.god = god /\ Restored(store)
        /\ change' = change /\ UNCHANGED <<config, session, store, lastDown>>
    BY <1>1 DEF StateLoad, Fits
  <2>2. change \in 0..2
    BY TypeParts DEF IInv, SimType
  <2>3. QED
    BY <2>1, <2>2, RestoredKeeps
<1>2. CASE StateLoadStaged
  <2>1. /\ Idle /\ lifecycle = "loaded" /\ store # None /\ store.god = god /\ Restored(store)
        /\ change' \in 0..2 /\ UNCHANGED <<config, session, store, lastDown>>
    BY <1>2, Asked DEF StateLoadStaged
  <2>2. QED
    BY <2>1, RestoredKeeps
<1>3. QED
  BY <1>1, <1>2

LEMMA PrepareKeeps ==
  ASSUME IInv, LoadPrepare, UNCHANGED env
  PROVE  IInv'
<1>1. pc = "ready" /\ pc' = "ready" /\ depth' = depth /\ held' = held /\ restoring' = FALSE
  BY AtRest DEF LoadPrepare
<1>2. /\ env' = env /\ lifecycle = "empty" /\ god' = god /\ policy' = policy
      /\ screen' = screen /\ laid' = laid /\ askew' = askew /\ out' = out /\ store' = store
  BY DEF LoadPrepare, config, picture
<1>3. CASE /\ lifecycle' = "prepared" /\ loaded' = TRUE /\ answer' = "done"
           /\ sim' = Timeline!Origin(Launch) /\ change' = 0 /\ Clean /\ pad' = Up /\ mouse' = Up
           /\ NewLine
  <2>1. /\ lifecycle' = "prepared" /\ loaded' = TRUE /\ answer' = "done" /\ change' = 0
        /\ pad' = Up /\ mouse' = Up
        /\ cont' = FALSE /\ frame' = None /\ just' = FALSE /\ reapply' = None
        /\ ended' = FALSE /\ presented' = FALSE /\ transition' = 0
        /\ fresh' = FALSE /\ lastDown' = FALSE /\ padLine' = FALSE
    BY <1>3 DEF Clean, NewLine
  <2>2. sim' \in Sims /\ ~sim'.wait
    BY <1>3, Origins, SessionAssumption
  <2>3. TypeOK'
    <3>1. CallType /\ FlagType /\ SimType /\ PictureType
      BY TypeParts DEF IInv
    <3>2. CallType' /\ FlagType'
      BY <1>1, <1>2, <2>1, <3>1 DEF CallType, FlagType
    <3>3. SimType' /\ PictureType'
      BY <1>2, <2>1, <2>2, <3>1, Values DEF SimType, PictureType
    <3>4. QED
      BY <3>2, <3>3, TypeParts
  <2>4. PhaseInv' /\ ScreenInv' /\ ScheduleInv' /\ FreshInv'
    BY <1>1, <2>1 DEF PhaseInv, ScreenInv, ScheduleInv, FreshInv, Before, Between
  <2>5. MouseInv' /\ PadInv'
    BY <1>1, <2>1, Values DEF MouseInv, PadInv
  <2>6. KindInv'
    BY <1>1, <1>2, <2>1, <2>2, Kinds, Values DEF IInv, KindInv, Before
  <2>7. ShownInv'
    BY <1>1, <1>2, <2>1, Kinds DEF IInv, ShownInv, FrameShows, Shows, Picture
  <2>8. QED
    BY <2>3, <2>4, <2>5, <2>6, <2>7 DEF IInv
<1>4. CASE /\ answer' = "error" /\ just' = FALSE
           /\ UNCHANGED <<session, sim, change, pad, mouse, cont, frame, reapply, ended,
                          presented, transition, history>>
  <2>1. /\ sim' = sim /\ change' = change /\ pad' = pad /\ mouse' = mouse /\ cont' = cont
        /\ frame' = frame /\ reapply' = reapply /\ ended' = ended /\ presented' = presented
        /\ transition' = transition /\ lifecycle' = lifecycle /\ loaded' = loaded /\ fresh' = fresh
        /\ lastDown' = lastDown /\ padLine' = padLine
        /\ answer' = "error" /\ just' = FALSE
    BY <1>4 DEF session, history
  <2>2. TypeOK'
    <3>1. CallType /\ FlagType /\ SimType /\ PictureType
      BY TypeParts DEF IInv
    <3>2. CallType' /\ FlagType'
      BY <1>1, <1>2, <2>1, <3>1 DEF CallType, FlagType
    <3>3. SimType' /\ PictureType'
      BY <1>2, <2>1, <3>1 DEF SimType, PictureType
    <3>4. QED
      BY <3>2, <3>3, TypeParts
  <2>3. PhaseInv' /\ ScreenInv' /\ ScheduleInv' /\ FreshInv'
    BY <1>1, <1>2, <2>1 DEF IInv, PhaseInv, ScreenInv, ScheduleInv, FreshInv, Before, Between
  <2>4. MouseInv' /\ PadInv'
    BY <1>1, <1>2, <2>1 DEF MouseInv, PadInv
  <2>5. KindInv'
    BY <1>1, <1>2, <2>1, Kinds DEF IInv, KindInv, Before
  <2>6. ShownInv'
    BY <1>1, <1>2, <2>1, Kinds DEF IInv, ShownInv, FrameShows, Shows, Picture, Between
  <2>7. QED
    BY <2>2, <2>3, <2>4, <2>5, <2>6 DEF IInv
<1>5. QED
  BY <1>3, <1>4 DEF LoadPrepare

LEMMA StartKeeps ==
  ASSUME IInv, LoadStart, UNCHANGED env
  PROVE  IInv'
<1>1. pc' = "ready" /\ depth' = depth /\ held' = held /\ restoring' = FALSE
  BY AtRest DEF LoadStart
<1>2. Boot(Launch) /\ lifecycle' = "loaded" /\ answer' = "done" /\ UNCHANGED <<screen, laid, askew, config, store>>
  BY DEF LoadStart
<1>3. loaded' = TRUE /\ depth' \in 0..DepthLimit /\ held' \in BOOLEAN
  <2>1. CallType /\ FlagType
    BY TypeParts DEF IInv
  <2>2. loaded' = loaded /\ lifecycle = "prepared"
    BY DEF LoadStart
  <2>3. QED
    BY <1>1, <2>1, <2>2 DEF CallType, FlagType
<1>4. Launch \in Contents
  BY SessionAssumption
<1>5. QED
  BY <1>1, <1>2, <1>3, <1>4, BootKeeps

LEMMA UnloadKeeps ==
  ASSUME IInv, Unload, UNCHANGED env
  PROVE  IInv'
<1>1. pc' = "ready" /\ depth' = depth /\ held' = held /\ restoring' = FALSE
  BY AtRest DEF Unload
<1>2. depth' \in 0..DepthLimit /\ held' \in BOOLEAN
  BY <1>1, TypeParts DEF IInv, CallType, FlagType
<1>3. /\ loaded' = FALSE /\ lifecycle' = "empty" /\ answer' = "done" /\ Clean
      /\ UNCHANGED <<sim, change, pad, mouse, out, screen, laid, askew, config, store, history>>
  BY DEF Unload, picture
<1>4. QED
  BY <1>1, <1>2, <1>3, EmptyKeeps

LEMMA ResetKeeps ==
  ASSUME IInv, Reset, UNCHANGED env
  PROVE  IInv'
<1>1. pc' = "ready" /\ depth' = depth /\ held' = held /\ restoring' = FALSE
  BY AtRest DEF Reset
<1>2. /\ depth' \in 0..DepthLimit /\ held' \in BOOLEAN /\ sim.content \in Contents
      /\ lifecycle = "loaded" => loaded = TRUE
  BY <1>1, TypeParts DEF IInv, CallType, FlagType, SimType, Sims
<1>3. lifecycle = "loaded" /\ UNCHANGED <<screen, laid, askew, config, store>>
  BY DEF Reset
<1>4. CASE Boot(sim.content) /\ answer' = "done" /\ UNCHANGED session
  <2>1. lifecycle' = "loaded" /\ loaded' = TRUE
    BY <1>2, <1>3, <1>4 DEF session
  <2>2. QED
    BY <1>1, <1>2, <1>3, <1>4, <2>1, BootKeeps
<1>5. CASE BootFails /\ answer' = "error"
  <2>1. /\ loaded' = FALSE /\ lifecycle' = "empty" /\ Clean /\ pad' = Up /\ mouse' = Up
        /\ UNCHANGED <<sim, change, out, history>>
    BY <1>5 DEF BootFails
  <2>2. QED
    BY <1>1, <1>2, <1>3, <1>5, <2>1, EmptyKeeps
<1>6. QED
  BY <1>4, <1>5 DEF Reset

LEMMA ConfigKeeps ==
  ASSUME IInv, SetConfig, UNCHANGED env
  PROVE  IInv'
<1>1. /\ pc = "ready" /\ pc' = "ready" /\ depth' = depth /\ held' = held
      /\ restoring = FALSE /\ restoring' = FALSE
  BY AtRest DEF SetConfig
<1>2. /\ env' = env /\ sim' = sim /\ change' = change /\ pad' = pad /\ mouse' = mouse
      /\ cont' = cont /\ frame' = frame /\ just' = just /\ reapply' = reapply /\ ended' = ended
      /\ presented' = presented /\ transition' = transition /\ screen' = screen /\ laid' = laid /\ askew' = askew
      /\ out' = out /\ lifecycle' = lifecycle /\ loaded' = loaded /\ store' = store
      /\ fresh' = fresh /\ lastDown' = lastDown /\ padLine' = padLine
      /\ answer' = "done"
  BY DEF SetConfig, core, picture, session, history
<1>3. /\ ~Has("resize") => policy' = policy
      /\ NoLateGod /\ just => god' = god
      /\ policy' \in Policies /\ god' \in BOOLEAN
  <2>1. god \in BOOLEAN /\ policy \in Policies
    BY TypeParts DEF IInv, FlagType, PictureType
  <2>2. CASE Has("god") /\ (just => Has("late god")) /\ god' = ~god /\ policy' = policy
    BY <2>1, <2>2, Zenon DEF NoLateGod, Has
  <2>3. CASE Has("resize") /\ policy' \in Policies \ {policy} /\ god' = god
    BY <2>1, <2>3
  <2>4. QED
    BY <2>2, <2>3 DEF SetConfig
<1>4. TypeOK'
  <2>1. CallType /\ FlagType /\ SimType /\ PictureType
    BY TypeParts DEF IInv
  <2>2. CallType'
    BY <1>1, <1>2, <1>3, <2>1 DEF CallType
  <2>3. FlagType'
    BY <1>1, <1>2, <1>3, <2>1 DEF FlagType
  <2>4. SimType'
    BY <1>1, <1>2, <1>3, <2>1 DEF SimType
  <2>5. PictureType'
    BY <1>1, <1>2, <1>3, <2>1 DEF PictureType
  <2>6. QED
    BY <2>2, <2>3, <2>4, <2>5, TypeParts
<1>5. PhaseInv'
  <2>1. PhaseInv
    BY DEF IInv
  <2>2. QED
    BY <1>1, <1>2, <2>1, Kinds DEF PhaseInv, Between
<1>6. ScreenInv'
  <2>1. ScreenInv
    BY DEF IInv
  <2>2. QED
    BY <1>1, <1>2, <2>1, Kinds DEF ScreenInv, Between, Before
<1>7. ScheduleInv'
  <2>1. ScheduleInv
    BY DEF IInv
  <2>2. QED
    BY <1>1, <1>2, <1>3, <2>1, Kinds DEF ScheduleInv
<1>8. FreshInv'
  <2>1. FreshInv
    BY DEF IInv
  <2>2. QED
    BY <1>1, <1>2, <2>1, Kinds DEF FreshInv
<1>9. MouseInv'
  <2>1. MouseInv
    BY DEF IInv
  <2>2. QED
    BY <1>2, <2>1, Kinds DEF MouseInv
<1>10. KindInv'
  <2>1. KindInv
    BY DEF IInv
  <2>2. QED
    BY <1>1, <1>2, <1>3, <2>1, Kinds DEF KindInv, Before
<1>11. PadInv'
  <2>1. PadInv
    BY DEF IInv
  <2>2. QED
    BY <1>1, <1>2, <2>1, Kinds DEF PadInv
<1>12. ShownInv'
  <2>1. ShownInv
    BY DEF IInv
  <2>2. QED
    BY <1>1, <1>2, <2>1, Kinds DEF ShownInv, FrameShows, Shows, Picture, Between
<1>13. QED
  BY <1>4, <1>5, <1>6, <1>7, <1>8, <1>9, <1>10, <1>11, <1>12 DEF IInv

LEMMA SaveKeeps ==
  ASSUME IInv, Save, UNCHANGED env
  PROVE  IInv'
<1>1. /\ pc = "ready" /\ pc' = "ready" /\ depth' = depth /\ held' = held
      /\ restoring = FALSE /\ restoring' = FALSE
  BY AtRest DEF Save
<1>2. /\ env' = env /\ sim' = sim /\ change' = change /\ pad' = pad /\ mouse' = mouse
      /\ cont' = cont /\ frame' = frame /\ just' = just /\ reapply' = reapply /\ ended' = ended
      /\ presented' = presented /\ transition' = transition /\ screen' = screen /\ laid' = laid /\ askew' = askew
      /\ out' = out /\ god' = god /\ policy' = policy /\ lifecycle' = lifecycle
      /\ loaded' = loaded /\ fresh' = fresh /\ lastDown' = lastDown /\ padLine' = padLine
      /\ answer' = "done"
  BY DEF Save, core, picture, config, session, history
<1>3. PICK w \in BOOLEAN : store' = Written(w)
  BY DEF Save
<1>4. /\ store' \in States /\ store'.sim = sim /\ store'.pad = pad
      /\ store'.frame # None => /\ presented \/ frame # None
                                /\ store'.frame.picture = screen
                                /\ store'.frame.extent = IF presented THEN out ELSE frame
                                /\ store'.frame.laid = laid /\ store'.frame.askew = askew
  BY <1>3, Completed, Writes DEF IInv
<1>5. TypeOK'
  <2>1. CallType /\ FlagType /\ SimType /\ PictureType
    BY TypeParts DEF IInv
  <2>2. CallType'
    BY <1>1, <1>2, <1>4, <2>1 DEF CallType
  <2>3. FlagType'
    BY <1>1, <1>2, <1>4, <2>1 DEF FlagType
  <2>4. SimType'
    BY <1>1, <1>2, <1>4, <2>1 DEF SimType
  <2>5. PictureType'
    BY <1>1, <1>2, <1>4, <2>1 DEF PictureType
  <2>6. QED
    BY <2>2, <2>3, <2>4, <2>5, TypeParts
<1>6. PhaseInv'
  <2>1. PhaseInv
    BY DEF IInv
  <2>2. QED
    BY <1>1, <1>2, <2>1, Kinds DEF PhaseInv, Between
<1>7. ScreenInv'
  <2>1. ScreenInv
    BY DEF IInv
  <2>2. QED
    BY <1>1, <1>2, <2>1, Kinds DEF ScreenInv, Between, Before
<1>8. ScheduleInv'
  <2>1. ScheduleInv
    BY DEF IInv
  <2>2. QED
    BY <1>1, <1>2, <2>1, Kinds DEF ScheduleInv
<1>9. FreshInv'
  <2>1. FreshInv
    BY DEF IInv
  <2>2. QED
    BY <1>1, <1>2, <2>1, Kinds DEF FreshInv
<1>10. MouseInv'
  <2>1. MouseInv
    BY DEF IInv
  <2>2. QED
    BY <1>2, <2>1, Kinds DEF MouseInv
<1>11. KindInv'
  <2>1. KindInv
    BY DEF IInv
  <2>2. QED
    BY <1>1, <1>2, <1>4, <2>1, Kinds DEF KindInv, Before
<1>12. PadInv'
  <2>1. PadInv
    BY DEF IInv
  <2>2. QED
    BY <1>1, <1>2, <2>1, Kinds DEF PadInv
<1>13. ShownInv'
  <2>1. ShownInv
    BY DEF IInv
  <2>2. QED
    BY <1>1, <1>2, <1>4, <2>1, Kinds DEF ShownInv, FrameShows, Shows, Picture, Between
<1>14. QED
  BY <1>5, <1>6, <1>7, <1>8, <1>9, <1>10, <1>11, <1>12, <1>13 DEF IInv

LEMMA RefuseKeeps ==
  ASSUME IInv, StateRefuse, UNCHANGED env
  PROVE  IInv'
<1>1. /\ pc = "ready" /\ pc' = "ready" /\ depth' = depth /\ held' = held
      /\ restoring = FALSE /\ restoring' = FALSE
  BY AtRest DEF StateRefuse
<1>2. /\ env' = env /\ sim' = sim /\ change' = change /\ pad' = pad /\ mouse' = mouse
      /\ cont' = cont /\ frame' = frame /\ just' = just /\ reapply' = reapply /\ ended' = ended
      /\ presented' = presented /\ transition' = transition /\ screen' = screen /\ laid' = laid /\ askew' = askew
      /\ out' = out /\ god' = god /\ policy' = policy /\ lifecycle' = lifecycle
      /\ loaded' = loaded /\ store' = store /\ fresh' = fresh /\ lastDown' = lastDown
      /\ padLine' = padLine
      /\ answer' = "refused"
  BY DEF StateRefuse, core, picture, config, session, history
<1>3. TypeOK'
  <2>1. CallType /\ FlagType /\ SimType /\ PictureType
    BY TypeParts DEF IInv
  <2>2. CallType'
    BY <1>1, <1>2, <2>1 DEF CallType
  <2>3. FlagType'
    BY <1>1, <1>2, <2>1 DEF FlagType
  <2>4. SimType'
    BY <1>1, <1>2, <2>1 DEF SimType
  <2>5. PictureType'
    BY <1>1, <1>2, <2>1 DEF PictureType
  <2>6. QED
    BY <2>2, <2>3, <2>4, <2>5, TypeParts
<1>4. PhaseInv'
  <2>1. PhaseInv
    BY DEF IInv
  <2>2. QED
    BY <1>1, <1>2, <2>1, Kinds DEF PhaseInv, Between
<1>5. ScreenInv'
  <2>1. ScreenInv
    BY DEF IInv
  <2>2. QED
    BY <1>1, <1>2, <2>1, Kinds DEF ScreenInv, Between, Before
<1>6. ScheduleInv'
  <2>1. ScheduleInv
    BY DEF IInv
  <2>2. QED
    BY <1>1, <1>2, <2>1, Kinds DEF ScheduleInv
<1>7. FreshInv'
  <2>1. FreshInv
    BY DEF IInv
  <2>2. QED
    BY <1>1, <1>2, <2>1, Kinds DEF FreshInv
<1>8. MouseInv'
  <2>1. MouseInv
    BY DEF IInv
  <2>2. QED
    BY <1>1, <1>2, <2>1, Kinds DEF MouseInv
<1>9. KindInv'
  <2>1. KindInv
    BY DEF IInv
  <2>2. QED
    BY <1>1, <1>2, <2>1, Kinds DEF KindInv, Before
<1>10. PadInv'
  <2>1. PadInv
    BY DEF IInv
  <2>2. QED
    BY <1>1, <1>2, <2>1, Kinds DEF PadInv
<1>11. ShownInv'
  <2>1. ShownInv
    BY DEF IInv
  <2>2. QED
    BY <1>1, <1>2, <2>1, Kinds DEF ShownInv, FrameShows, Shows, Picture, Between
<1>12. QED
  BY <1>3, <1>4, <1>5, <1>6, <1>7, <1>8, <1>9, <1>10, <1>11 DEF IInv

\* What the load scheduled is gone; what an earlier one scheduled is back.
LEMMA RollbackKeeps ==
  ASSUME IInv, StateRollback, UNCHANGED env
  PROVE  IInv'
<1>1. /\ pc = "ready" /\ pc' = "ready" /\ depth' = depth /\ held' = held
      /\ restoring = FALSE /\ restoring' = FALSE
  BY AtRest DEF StateRollback
<1>2. /\ env' = env /\ change' = change /\ god' = god /\ policy' = policy
      /\ lifecycle' = lifecycle /\ loaded' = loaded /\ store' = store /\ fresh' = fresh
      /\ lastDown' = lastDown /\ padLine' = padLine
      /\ answer' = "refused"
  BY DEF StateRollback, config, session, history
<1> DEFINE s == Written(TRUE)
           t == store
<1>3. /\ s \in States /\ s.sim = sim /\ s.pad = pad /\ s.frame = CompletedFrame
  BY Writes DEF IInv
<1>4. /\ sim' = s.sim /\ pad' = s.pad /\ mouse' = Up /\ cont' = TRUE /\ ended' = FALSE
      /\ transition' = 0 /\ presented' = FALSE /\ out' = policy
  BY Zenon DEF StateRollback, Unserialize
<1>5. /\ just' = just /\ reapply' = reapply
      /\ frame' = IF s.frame = None THEN None ELSE s.frame.extent
  BY Zenon DEF StateRollback, RollbackKeep
<1>6. /\ s.frame # None => screen' = s.frame.picture /\ laid' = s.frame.laid /\ askew' = s.frame.askew
      /\ s.frame = None => \/ screen' = screen /\ laid' = laid /\ askew' = askew
                           \/ t.frame # None /\ screen' = t.frame.picture /\ laid' = t.frame.laid /\ askew' = t.frame.askew
  <2>1. IF CompletedFrame # None THEN ShowFrame(s)
        ELSE UNCHANGED <<screen, laid, askew>> \/ ShowFrame(t)
    BY DEF StateRollback
  <2> HIDE DEF s, t
  <2>2. CASE s.frame # None
    BY <1>3, <2>1, <2>2 DEF ShowFrame
  <2>3. CASE s.frame = None
    <3>1. UNCHANGED <<screen, laid, askew>> \/ ShowFrame(t)
      BY <1>3, <2>1, <2>3
    <3>2. ShowFrame(t) => \/ screen' = screen /\ laid' = laid /\ askew' = askew
                          \/ t.frame # None /\ screen' = t.frame.picture /\ laid' = t.frame.laid /\ askew' = t.frame.askew
      BY Zenon DEF ShowFrame
    <3>3. \/ screen' = screen /\ laid' = laid /\ askew' = askew
          \/ t.frame # None /\ screen' = t.frame.picture /\ laid' = t.frame.laid /\ askew' = t.frame.askew
      BY <3>1, <3>2
    <3>4. QED
      BY <2>3, <3>3
  <2>4. QED
    BY <2>2, <2>3
<1>7. t.frame # None => /\ t.frame.picture \in Pictures
                        /\ t.frame.laid \in Policies /\ t.frame.askew \in BOOLEAN
  <2>1. t \in States
    BY TypeParts DEF IInv, PictureType, StateRollback
  <2>2. QED
    BY <2>1, Fields
<1> HIDE DEF s, t
<1>8. /\ CompletedFrame # None <=> presented \/ frame # None
      /\ s.frame # None => /\ s.frame.picture = screen /\ s.frame.extent \in Policies
                           /\ s.frame.extent = IF presented THEN out ELSE frame
                           /\ s.frame.laid = laid
  BY <1>3, Completed DEF IInv
<1>8a. s.frame # None => s.frame.askew = askew
  <2>1. CompletedFrame # None => CompletedFrame.askew = askew
    BY Completed DEF IInv
  <2>2. QED
    BY <1>3, <2>1, Zenon
<1>8b. frame' # None => askew' = askew
  BY <1>3, <1>5, <1>6, <1>8a, Zenon
<1>8c. askew' \in BOOLEAN
  <2>1. askew \in BOOLEAN
    BY TypeParts DEF IInv, PictureType
  <2>2. QED
    BY <1>6, <1>7, <1>8a, <2>1, Zenon
<1>9. /\ sim' = sim /\ pad' = pad
      /\ frame' \in Policies \cup {None} /\ screen' \in Pictures \cup {None}
      /\ laid' \in Policies
      /\ frame' # None <=> presented \/ frame # None
      /\ frame' # None => /\ screen' = screen /\ laid' = laid
                          /\ frame' = IF presented THEN out ELSE frame
  <2>1. laid \in Policies /\ screen \in Pictures \cup {None}
    BY TypeParts DEF IInv, PictureType
  <2>2. QED
    BY <1>3, <1>4, <1>5, <1>6, <1>7, <1>8, <2>1, NoneApart
<1>10. TypeOK'
  <2>1. CallType /\ FlagType /\ SimType /\ PictureType
    BY TypeParts DEF IInv
  <2>2. CallType'
    BY <1>1, <1>2, <1>4, <1>5, <1>9, <2>1 DEF CallType
  <2>3. FlagType'
    BY <1>1, <1>2, <1>4, <1>5, <1>9, <2>1 DEF FlagType
  <2>4. SimType'
    BY <1>1, <1>2, <1>4, <1>5, <1>9, <2>1, Values DEF SimType
  <2>5. PictureType'
    BY <1>1, <1>2, <1>4, <1>5, <1>9, <1>8c, <2>1 DEF PictureType
  <2>6. QED
    BY <2>2, <2>3, <2>4, <2>5, TypeParts
<1>11. PhaseInv'
  <2>1. PhaseInv
    BY DEF IInv
  <2>2. QED
    BY <1>1, <1>2, <1>4, <1>5, <1>9, <2>1, Kinds DEF PhaseInv, Between
<1>12. ScreenInv'
  <2>1. ScreenInv
    BY DEF IInv
  <2>2. QED
    BY <1>1, <1>2, <1>4, <1>5, <1>9, <2>1, Kinds DEF ScreenInv, Between, Before
<1>13. ScheduleInv'
  <2>1. ScheduleInv
    BY DEF IInv
  <2>2. QED
    BY <1>1, <1>2, <1>4, <1>5, <1>9, <2>1, Kinds DEF ScheduleInv
<1>14. FreshInv'
  <2>1. FreshInv
    BY DEF IInv
  <2>2. QED
    BY <1>1, <1>2, <1>4, <1>5, <1>9, <2>1, Kinds DEF FreshInv
<1>15. MouseInv'
  <2>1. MouseInv
    BY DEF IInv
  <2>2. QED
    BY <1>1, <1>2, <1>4, <1>5, <1>9, <2>1, Kinds DEF MouseInv
<1>16. KindInv'
  <2>1. KindInv
    BY DEF IInv
  <2>2. QED
    BY <1>1, <1>2, <1>4, <1>5, <1>9, <2>1, Kinds DEF KindInv, Before
<1>17. PadInv'
  <2>1. PadInv
    BY DEF IInv
  <2>2. QED
    BY <1>1, <1>2, <1>4, <1>5, <1>9, <2>1, Kinds DEF PadInv
<1>18. ShownInv'
  <2>1. ShownInv
    BY DEF IInv
  <2>2. QED
    BY <1>1, <1>2, <1>4, <1>5, <1>9, <1>8b, <2>1, Kinds DEF ShownInv, FrameShows, Shows, Picture, Between
<1>19. QED
  BY <1>10, <1>11, <1>12, <1>13, <1>14, <1>15, <1>16, <1>17, <1>18 DEF IInv

LEMMA RunKeeps ==
  ASSUME IInv, RunFrame, UNCHANGED env
  PROVE  IInv'
<1>1. /\ pc = "ready" /\ lifecycle = "loaded" /\ sim.n < MaxSteps /\ pc' = "enter" /\ answer' = "none"
      /\ depth' = depth /\ restoring' = restoring /\ held' = held
  BY DEF RunFrame
<1>2. /\ env' = env /\ sim' = sim /\ change' = change /\ pad' = pad /\ mouse' = mouse
      /\ cont' = cont /\ frame' = frame /\ just' = just /\ reapply' = reapply /\ ended' = ended
      /\ presented' = presented /\ transition' = transition /\ screen' = screen /\ laid' = laid /\ askew' = askew
      /\ out' = out /\ god' = god /\ policy' = policy /\ lifecycle' = lifecycle
      /\ loaded' = loaded /\ store' = store /\ fresh' = fresh /\ lastDown' = lastDown
      /\ padLine' = padLine
  BY DEF RunFrame, core, picture, config, session, history
<1>3. TypeOK'
  <2>1. CallType /\ FlagType /\ SimType /\ PictureType
    BY TypeParts DEF IInv
  <2>2. CallType'
    BY <1>1, <1>2, <2>1 DEF CallType
  <2>3. FlagType'
    BY <1>1, <1>2, <2>1 DEF FlagType
  <2>4. SimType'
    BY <1>1, <1>2, <2>1 DEF SimType
  <2>5. PictureType'
    BY <1>1, <1>2, <2>1 DEF PictureType
  <2>6. QED
    BY <2>2, <2>3, <2>4, <2>5, TypeParts
<1>4. PhaseInv'
  <2>1. PhaseInv
    BY DEF IInv
  <2>2. QED
    BY <1>1, <1>2, <2>1, Kinds DEF PhaseInv, Between
<1>5. ScreenInv'
  <2>1. ScreenInv
    BY DEF IInv
  <2>2. QED
    BY <1>1, <1>2, <2>1, Kinds DEF ScreenInv, Between, Before
<1>6. ScheduleInv'
  <2>1. ScheduleInv
    BY DEF IInv
  <2>2. QED
    BY <1>1, <1>2, <2>1, Kinds DEF ScheduleInv, Before
<1>7. FreshInv'
  <2>1. FreshInv
    BY DEF IInv
  <2>2. QED
    BY <1>1, <1>2, <2>1, Kinds DEF FreshInv
<1>8. MouseInv'
  <2>1. MouseInv
    BY DEF IInv
  <2>2. QED
    BY <1>1, <1>2, <2>1, Kinds DEF MouseInv
<1>9. KindInv'
  <2>1. KindInv
    BY DEF IInv
  <2>2. QED
    BY <1>1, <1>2, <2>1, Kinds DEF KindInv, Before
<1>10. PadInv'
  <2>1. PadInv
    BY DEF IInv
  <2>2. QED
    BY <1>1, <1>2, <2>1, Kinds DEF PadInv
<1>11. ShownInv'
  <2>1. ShownInv
    BY DEF IInv
  <2>2. QED
    BY <1>1, <1>2, <2>1, Kinds DEF ShownInv, FrameShows, Shows, Picture, Between
<1>12. QED
  BY <1>3, <1>4, <1>5, <1>6, <1>7, <1>8, <1>9, <1>10, <1>11 DEF IInv
-----------------------------------------------------------------------------
(* The phases of a frame.                                                  *)

\* A frame runs in a loaded session that has not answered yet.
LEMMA Running ==
  ASSUME IInv, pc # "ready"
  PROVE  lifecycle = "loaded" /\ answer = "none" /\ (pc # "enter" => ~just)
BY DEF IInv, PhaseInv, Between

LEMMA PresentKeeps ==
  ASSUME IInv, EnterPresent, UNCHANGED env
  PROVE  IInv'
<1>1. pc = "enter" /\ just /\ frame # None /\ restoring \in BOOLEAN /\ ~restoring
  BY TypeParts DEF EnterPresent, IInv, FlagType, PhaseInv, Between
<1>2. /\ pc' = "ready" /\ answer' = "frame" /\ depth' = 0 /\ restoring' = FALSE /\ held' = FALSE
      /\ out' = frame /\ just' = FALSE /\ reapply' = None /\ frame' = None /\ presented' = TRUE
  BY DEF EnterPresent, Return
<1>3. /\ env' = env /\ sim' = sim /\ change' = change /\ pad' = pad /\ mouse' = mouse
      /\ cont' = cont /\ ended' = ended /\ transition' = transition /\ screen' = screen
      /\ laid' = laid /\ askew' = askew /\ god' = god /\ policy' = policy /\ lifecycle' = lifecycle
      /\ loaded' = loaded /\ store' = store /\ fresh' = fresh /\ lastDown' = lastDown
      /\ padLine' = padLine
  BY DEF EnterPresent, config, session, history
<1>4. 0 \in 0..DepthLimit
  BY SessionAssumption
<1>5. TypeOK'
  <2>1. CallType /\ FlagType /\ SimType /\ PictureType
    BY TypeParts DEF IInv
  <2>2. CallType'
    BY <1>1, <1>2, <1>3, <1>4, <2>1 DEF CallType
  <2>3. FlagType'
    BY <1>1, <1>2, <1>3, <1>4, <2>1 DEF FlagType
  <2>4. SimType'
    BY <1>1, <1>2, <1>3, <1>4, <2>1 DEF SimType
  <2>5. PictureType'
    BY <1>1, <1>2, <1>3, <1>4, <2>1 DEF PictureType
  <2>6. QED
    BY <2>2, <2>3, <2>4, <2>5, TypeParts
<1>6. PhaseInv'
  <2>1. PhaseInv
    BY DEF IInv
  <2>2. QED
    BY <1>1, <1>2, <1>3, <1>4, <2>1, Kinds DEF PhaseInv, Between
<1>7. ScreenInv'
  <2>1. ScreenInv
    BY DEF IInv
  <2>2. QED
    BY <1>1, <1>2, <1>3, <1>4, <2>1, Kinds DEF ScreenInv, Between, Before
<1>8. ScheduleInv'
  <2>1. ScheduleInv
    BY DEF IInv
  <2>2. QED
    BY <1>1, <1>2, <1>3, <1>4, <2>1, Kinds DEF ScheduleInv, Before
<1>9. FreshInv'
  <2>1. FreshInv
    BY DEF IInv
  <2>2. QED
    BY <1>1, <1>2, <1>3, <1>4, <2>1, Kinds DEF FreshInv
<1>10. MouseInv'
  <2>1. MouseInv
    BY DEF IInv
  <2>2. QED
    BY <1>1, <1>2, <1>3, <1>4, <2>1, Kinds DEF MouseInv
<1>11. KindInv'
  <2>1. KindInv
    BY DEF IInv
  <2>2. QED
    BY <1>1, <1>2, <1>3, <1>4, <2>1, Kinds DEF KindInv, Before
<1>12. PadInv'
  <2>1. PadInv
    BY DEF IInv
  <2>2. QED
    BY <1>1, <1>2, <1>3, <1>4, <2>1, Kinds DEF PadInv
<1>13. ShownInv'
  <2>1. ShownInv /\ ~presented
    BY <1>1 DEF IInv, ScheduleInv
  <2>2. QED
    BY <1>1, <1>2, <1>3, <1>4, <2>1, Kinds DEF ShownInv, FrameShows, Shows, Picture, Between
<1>14. QED
  BY <1>5, <1>6, <1>7, <1>8, <1>9, <1>10, <1>11, <1>12, <1>13 DEF IInv

LEMMA EndedKeeps ==
  ASSUME IInv, EnterEnded, UNCHANGED env
  PROVE  IInv'
<1>1. pc = "enter" /\ ended /\ restoring \in BOOLEAN /\ ~restoring
  BY TypeParts DEF EnterEnded, IInv, FlagType, PhaseInv, Between
<1>2. /\ pc' = "ready" /\ answer' = "frame" /\ depth' = 0 /\ restoring' = FALSE /\ held' = FALSE
      /\ out' = policy /\ askew' = (askew \/ policy # out)
  BY DEF EnterEnded, Return
<1>3. /\ env' = env /\ sim' = sim /\ change' = change /\ pad' = pad /\ mouse' = mouse
      /\ cont' = cont /\ frame' = frame /\ just' = just /\ reapply' = reapply /\ ended' = ended
      /\ presented' = presented /\ transition' = transition /\ screen' = screen /\ laid' = laid
      /\ god' = god /\ policy' = policy /\ lifecycle' = lifecycle /\ loaded' = loaded
      /\ store' = store /\ fresh' = fresh /\ lastDown' = lastDown /\ padLine' = padLine
  BY DEF EnterEnded, core, config, session, history
<1>4. 0 \in 0..DepthLimit /\ askew' \in BOOLEAN
  BY <1>2, SessionAssumption
<1>5. TypeOK'
  <2>1. CallType /\ FlagType /\ SimType /\ PictureType
    BY TypeParts DEF IInv
  <2>2. CallType'
    BY <1>1, <1>2, <1>3, <1>4, <2>1 DEF CallType
  <2>3. FlagType'
    BY <1>1, <1>2, <1>3, <1>4, <2>1 DEF FlagType
  <2>4. SimType'
    BY <1>1, <1>2, <1>3, <1>4, <2>1 DEF SimType
  <2>5. PictureType'
    BY <1>1, <1>2, <1>3, <1>4, <2>1 DEF PictureType
  <2>6. QED
    BY <2>2, <2>3, <2>4, <2>5, TypeParts
<1>6. PhaseInv'
  <2>1. PhaseInv
    BY DEF IInv
  <2>2. QED
    BY <1>1, <1>2, <1>3, <1>4, <2>1, Kinds DEF PhaseInv, Between
<1>7. ScreenInv'
  <2>1. ScreenInv
    BY DEF IInv
  <2>2. QED
    BY <1>1, <1>2, <1>3, <1>4, <2>1, Kinds DEF ScreenInv, Between, Before
<1>8. ScheduleInv'
  <2>1. ScheduleInv
    BY DEF IInv
  <2>2. QED
    BY <1>1, <1>2, <1>3, <1>4, <2>1, Kinds DEF ScheduleInv, Before
<1>9. FreshInv'
  <2>1. FreshInv
    BY DEF IInv
  <2>2. QED
    BY <1>1, <1>2, <1>3, <1>4, <2>1, Kinds DEF FreshInv
<1>10. MouseInv'
  <2>1. MouseInv
    BY DEF IInv
  <2>2. QED
    BY <1>1, <1>2, <1>3, <1>4, <2>1, Kinds DEF MouseInv
<1>11. KindInv'
  <2>1. KindInv
    BY DEF IInv
  <2>2. QED
    BY <1>1, <1>2, <1>3, <1>4, <2>1, Kinds DEF KindInv, Before
<1>12. PadInv'
  <2>1. PadInv
    BY DEF IInv
  <2>2. QED
    BY <1>1, <1>2, <1>3, <1>4, <2>1, Kinds DEF PadInv
<1>13. ShownInv'
  <2>1. ShownInv /\ ScreenInv
    BY DEF IInv
  <2>2. QED
    BY <1>1, <1>2, <1>3, <1>4, <2>1, Kinds DEF ShownInv, ScreenInv, FrameShows, Shows, Picture, Between
<1>14. QED
  BY <1>5, <1>6, <1>7, <1>8, <1>9, <1>10, <1>11, <1>12, <1>13 DEF IInv

\* A state is drawn again only where presentation settings may have changed since it was loaded.
LEMMA EnterKeeps ==
  ASSUME IInv, Enter, UNCHANGED env
  PROVE  IInv'
<1>1. pc = "enter" /\ change = 0 /\ ~ended /\ ~restoring /\ (just => frame = None)
  BY DEF Enter, IInv, PhaseInv, Between
<1>2. /\ pc' = "step" /\ out' = policy /\ just' = FALSE
      /\ restoring' = just /\ held' = sim.wait
      /\ cont' = (cont /\ just)
  BY DEF Enter
<1>3. /\ env' = env /\ sim' = sim /\ change' = change /\ frame' = frame /\ reapply' = reapply
      /\ ended' = ended /\ presented' = presented /\ transition' = transition /\ screen' = screen
      /\ laid' = laid /\ askew' = askew /\ god' = god /\ policy' = policy /\ lifecycle' = lifecycle
      /\ loaded' = loaded /\ store' = store /\ fresh' = fresh /\ padLine' = padLine
      /\ answer' = answer /\ depth' = depth
  BY DEF Enter, config, session
<1>4. PICK down \in Down :
        /\ pad' = IF just THEN Blank ELSE [cur |-> down, prev |-> pad.cur]
        /\ mouse' = IF just THEN Up
                    ELSE [cur |-> down, prev |-> IF cont THEN down ELSE mouse.cur]
        /\ lastDown' = down
  BY DEF Enter
<1>5. down \in BOOLEAN /\ (~Has("input") => ~down)
  BY DEF Down
<1>6. /\ just \in BOOLEAN /\ cont \in BOOLEAN /\ pad \in Key /\ mouse \in Key /\ sim.wait \in BOOLEAN
      /\ pad.cur \in BOOLEAN /\ mouse.cur \in BOOLEAN
  BY TypeParts DEF IInv, FlagType, SimType, Sims, Key
<1>7. pad' \in Key /\ mouse' \in Key /\ lastDown' \in BOOLEAN
  <2>1. CASE just
    BY <1>4, <1>5, <2>1, Values DEF Blank
  <2>2. CASE ~just
    <3>1. pad' = [cur |-> down, prev |-> pad.cur] /\ mouse' = [cur |-> down, prev |-> IF cont THEN down ELSE mouse.cur]
      BY <1>4, <2>2
    <3>2. (IF cont THEN down ELSE mouse.cur) \in BOOLEAN
      BY <1>5, <1>6
    <3>3. QED
      BY <1>4, <1>5, <1>6, <3>1, <3>2 DEF Key
  <2>3. QED
    BY <2>1, <2>2
<1>8. /\ pad'.cur \in BOOLEAN /\ mouse'.cur \in BOOLEAN
      /\ ~just => (pad'.cur <=> down) /\ (mouse'.cur <=> down)
      /\ just => ~pad'.cur
  <2>1. CASE just
    BY <1>4, <2>1, Values DEF Blank, Up
  <2>2. CASE ~just
    BY <1>4, <1>5, <2>2
  <2>3. QED
    BY <2>1, <2>2
<1>9. (restoring' <=> just) /\ (held' <=> sim.wait) /\ (cont' <=> cont /\ just) /\ cont' \in BOOLEAN
  BY <1>2, <1>6, Zenon
<1>10. (lastDown' <=> down) /\ lifecycle = "loaded" /\ answer = "none" /\ lastDown' \in BOOLEAN
  BY <1>1, <1>4, <1>5, Running, Zenon
<1>11. /\ pc' = "step" /\ out' = policy /\ just' = FALSE /\ restoring' \in BOOLEAN /\ held' \in BOOLEAN
  BY <1>2, <1>6
<1>12. TypeOK'
  <2>1. CallType /\ FlagType /\ SimType /\ PictureType
    BY TypeParts DEF IInv
  <2>2. CallType'
    BY <1>1, <1>3, <1>5, <1>6, <1>7, <1>8, <1>9, <1>10, <1>11, <2>1 DEF CallType
  <2>3. FlagType'
    BY <1>1, <1>3, <1>5, <1>6, <1>7, <1>8, <1>9, <1>10, <1>11, <2>1 DEF FlagType
  <2>4. SimType'
    BY <1>1, <1>3, <1>5, <1>6, <1>7, <1>8, <1>9, <1>10, <1>11, <2>1 DEF SimType
  <2>5. PictureType'
    BY <1>1, <1>3, <1>5, <1>6, <1>7, <1>8, <1>9, <1>10, <1>11, <2>1 DEF PictureType
  <2>6. QED
    BY <2>2, <2>3, <2>4, <2>5, TypeParts
<1>13. PhaseInv'
  <2>1. PhaseInv
    BY DEF IInv
  <2>2. QED
    BY <1>1, <1>3, <1>5, <1>6, <1>7, <1>8, <1>9, <1>10, <1>11, <2>1, Kinds DEF PhaseInv, Between
<1>14. ScreenInv'
  <2>1. ScreenInv
    BY DEF IInv
  <2>2. QED
    BY <1>1, <1>3, <1>5, <1>6, <1>7, <1>8, <1>9, <1>10, <1>11, <2>1, Kinds DEF ScreenInv, Between, Before
<1>15. ScheduleInv'
  <2>1. ScheduleInv
    BY DEF IInv
  <2>2. QED
    BY <1>1, <1>3, <1>5, <1>6, <1>7, <1>8, <1>9, <1>10, <1>11, <2>1, Kinds DEF ScheduleInv, Before
<1>16. FreshInv'
  <2>1. FreshInv
    BY DEF IInv
  <2>2. QED
    BY <1>1, <1>3, <1>5, <1>6, <1>7, <1>8, <1>9, <1>10, <1>11, <2>1, Kinds DEF FreshInv
<1>17. MouseInv'
  <2>1. MouseInv /\ ScheduleInv
    BY DEF IInv
  <2>2. QED
    BY <1>1, <1>3, <1>5, <1>6, <1>7, <1>8, <1>9, <1>10, <1>11, <2>1, Kinds DEF MouseInv, ScheduleInv
<1>18. KindInv'
  <2>1. KindInv
    BY DEF IInv
  <2>2. QED
    BY <1>1, <1>3, <1>5, <1>6, <1>7, <1>8, <1>9, <1>10, <1>11, <2>1, Kinds DEF KindInv, Before
<1>19. PadInv'
  <2>1. PadInv /\ ScheduleInv
    BY DEF IInv
  <2>2. QED
    BY <1>1, <1>3, <1>5, <1>6, <1>7, <1>8, <1>9, <1>10, <1>11, <2>1, Kinds DEF PadInv, ScheduleInv
<1>20. ShownInv'
  <2>1. ShownInv
    BY DEF IInv
  <2>2. QED
    BY <1>1, <1>3, <1>5, <1>6, <1>7, <1>8, <1>9, <1>10, <1>11, <2>1, Kinds DEF ShownInv, FrameShows, Shows, Picture, Between
<1>21. QED
  BY <1>12, <1>13, <1>14, <1>15, <1>16, <1>17, <1>18, <1>19, <1>20 DEF IInv

\* A step moves the simulation by one.
LEMMA Stepped ==
  ASSUME NEW s \in Sims, s.n < MaxSteps, NEW e \in 0..2, NEW w \in BOOLEAN,
         NEW t, t = [s EXCEPT !.n = @ + 1, !.d = 0, !.end = e, !.wait = w]
  PROVE  t \in Sims /\ t.content = s.content /\ (w = FALSE => ~t.wait)
<1>1. s.n + 1 \in 0..MaxSteps /\ 0 \in 0..2
  BY SessionAssumption DEF Sims
<1> DEFINE n == s.n + 1
<1>2. n \in 0..MaxSteps
  BY <1>1
<1> HIDE DEF n
<1> DEFINE a == [s EXCEPT !.n = n]
<1>3. a \in Sims /\ a.content = s.content
  BY <1>2 DEF Sims
<1> HIDE DEF a
<1> DEFINE b == [a EXCEPT !.d = 0]
<1>4. b \in Sims /\ b.content = a.content
  BY <1>1, <1>3 DEF Sims
<1> HIDE DEF b
<1> DEFINE c == [b EXCEPT !.end = e]
<1>5. c \in Sims /\ c.content = b.content
  BY <1>4 DEF Sims
<1> HIDE DEF c
<1> DEFINE f == [c EXCEPT !.wait = w]
<1>6. f \in Sims /\ f.content = c.content /\ f.wait = w
  BY <1>5 DEF Sims
<1>7. t = f
  BY DEF f, c, b, a, n
<1> HIDE DEF f
<1>8. QED
  BY <1>3, <1>4, <1>5, <1>6, <1>7

\* Draw events change what is saved of the simulation, but not where it is.
LEMMA Drawn ==
  ASSUME NEW s \in Sims, NEW e \in 0..2
  PROVE  LET t == [s EXCEPT !.d = IF @ = 2 THEN 2 ELSE @ + 1, !.end = e]
         IN t \in Sims /\ t.content = s.content /\ t.n = s.n /\ t.wait = s.wait
<1> DEFINE d == IF s.d = 2 THEN 2 ELSE s.d + 1
<1>1. d \in 0..2
  BY DEF Sims
<1> HIDE DEF d
<1> DEFINE a == [s EXCEPT !.d = d]
<1>2. a \in Sims /\ a.content = s.content /\ a.n = s.n /\ a.wait = s.wait
  BY <1>1 DEF Sims
<1> HIDE DEF a
<1>3. LET t == [a EXCEPT !.end = e]
      IN t \in Sims /\ t.content = a.content /\ t.n = a.n /\ t.wait = a.wait
  BY <1>2 DEF Sims
<1>4. [a EXCEPT !.end = e] = [s EXCEPT !.d = IF @ = 2 THEN 2 ELSE @ + 1, !.end = e]
  BY DEF a, d
<1>5. QED
  BY <1>2, <1>3, <1>4

LEMMA StepKeeps ==
  ASSUME IInv, Step, UNCHANGED env
  PROVE  IInv'
<1>1. /\ pc = "step" /\ pc' = "after" /\ lifecycle = "loaded" /\ answer = "none" /\ ~ended
      /\ ~just /\ restoring' = restoring /\ held' = held /\ depth' = depth
  BY Running DEF Step, IInv, ScreenInv, Before
<1>2. /\ env' = env /\ pad' = pad /\ mouse' = mouse /\ cont' = cont /\ frame' = frame
      /\ just' = just /\ reapply' = reapply /\ ended' = ended /\ presented' = presented
      /\ screen' = screen /\ laid' = laid /\ askew' = askew /\ out' = out /\ god' = god /\ policy' = policy
      /\ lifecycle' = lifecycle /\ loaded' = loaded /\ store' = store /\ lastDown' = lastDown
      /\ answer' = answer
  BY DEF Step, picture, config, session
<1>3. /\ padLine' \in BOOLEAN
      /\ restoring => (padLine' <=> padLine)
      /\ ~restoring => (padLine' <=> pad.cur)
  <2>1. padLine' = IF restoring THEN padLine ELSE pad.cur
    BY DEF Step
  <2>2. padLine \in BOOLEAN /\ pad.cur \in BOOLEAN
    BY TypeParts DEF IInv, FlagType, SimType, Key
  <2>3. QED
    BY <2>1, <2>2
<1>4. /\ sim' \in Sims /\ change' \in 0..2 /\ transition' \in 0..3 /\ fresh' \in BOOLEAN
      /\ sim'.content = sim.content
      /\ ~Has("wait") /\ ~sim.wait => ~sim'.wait
      /\ ~Has("change") /\ change = 0 => change' = 0
      /\ \/ ~Runs /\ sim' = sim /\ change' = change /\ transition' = transition /\ fresh' = fresh
         \/ Runs /\ sim.wait /\ sim' = sim /\ change' = change /\ transition' = transition /\ fresh' = fresh
         \/ Runs /\ fresh' = FALSE
  <2>1. sim \in Sims /\ change \in 0..2 /\ transition \in 0..3 /\ fresh \in BOOLEAN
    BY TypeParts DEF IInv, FlagType, SimType
  <2>2. CASE ~Runs
    BY <2>1, <2>2 DEF Step
  <2>3. CASE Runs
    <3>1. CASE sim.wait /\ UNCHANGED <<sim, change, transition, fresh>>
      BY <2>1, <2>3, <3>1
    <3>2. CASE /\ \E e \in IF Has("end") THEN {sim.end, 1, 2} ELSE {sim.end},
                      w \in IF Has("wait") THEN BOOLEAN ELSE {FALSE} :
                     sim' = [sim EXCEPT !.n = @ + 1, !.d = 0, !.end = e, !.wait = w]
               /\ change' \in Asks("change")
               /\ transition' \in IF Has("transition") /\ presented THEN {0, 1, 3} ELSE {0}
               /\ fresh' = FALSE
      <4>0. ASSUME NEW e \in 0..2, NEW w \in BOOLEAN,
                   sim' = [sim EXCEPT !.n = @ + 1, !.d = 0, !.end = e, !.wait = w]
            PROVE  sim' \in Sims /\ sim'.content = sim.content /\ (w = FALSE => ~sim'.wait)
        <5>1. sim.n < MaxSteps
          BY <1>1 DEF IInv, PhaseInv
        <5>2. QED
          BY <2>1, <4>0, <5>1, Stepped
      <4>1. PICK e \in IF Has("end") THEN {sim.end, 1, 2} ELSE {sim.end},
                 w \in IF Has("wait") THEN BOOLEAN ELSE {FALSE} :
              sim' = [sim EXCEPT !.n = @ + 1, !.d = 0, !.end = e, !.wait = w]
        BY <3>2
      <4>2. e \in 0..2 /\ w \in BOOLEAN /\ (~Has("wait") => w = FALSE)
        <5>1. sim.end \in 0..2
          BY <2>1 DEF Sims
        <5>2. e \in 0..2
          BY <4>1, <5>1
        <5>3. w \in BOOLEAN /\ (~Has("wait") => w = FALSE)
          BY <4>1, Zenon
        <5>4. QED
          BY <5>2, <5>3
      <4>4. sim' \in Sims /\ sim'.content = sim.content /\ (w = FALSE => ~sim'.wait)
        BY <4>0, <4>1, <4>2
      <4>5. change' \in 0..2 /\ (~Has("change") => change' = 0)
        BY <3>2, Asked DEF Asks
      <4>6. transition' \in 0..3 /\ fresh' = FALSE
        BY <3>2
      <4>7. QED
        BY <2>3, <4>2, <4>4, <4>5, <4>6
    <3>3. QED
      BY <2>3, <3>1, <3>2 DEF Step
  <2>4. QED
    BY <2>2, <2>3
<1>5. restoring => sim' = sim /\ change' = change
  BY <1>4, Zenon DEF Runs
<1>6. TypeOK'
  <2>1. CallType /\ FlagType /\ SimType /\ PictureType
    BY TypeParts DEF IInv
  <2>2. CallType'
    BY <1>1, <1>2, <1>3, <1>4, <1>5, <2>1 DEF CallType
  <2>3. FlagType'
    BY <1>1, <1>2, <1>3, <1>4, <1>5, <2>1 DEF FlagType
  <2>4. SimType'
    BY <1>1, <1>2, <1>3, <1>4, <1>5, <2>1 DEF SimType
  <2>5. PictureType'
    BY <1>1, <1>2, <1>3, <1>4, <1>5, <2>1 DEF PictureType
  <2>6. QED
    BY <2>2, <2>3, <2>4, <2>5, TypeParts
<1>7. PhaseInv'
  <2>1. PhaseInv
    BY DEF IInv
  <2>2. QED
    BY <1>1, <1>2, <1>3, <1>4, <1>5, <2>1, Kinds DEF PhaseInv, Between
<1>8. ScreenInv'
  <2>1. ScreenInv
    BY DEF IInv
  <2>2. QED
    BY <1>1, <1>2, <1>3, <1>4, <1>5, <2>1, Kinds DEF ScreenInv, Between, Before
<1>9. ScheduleInv'
  <2>1. ScheduleInv
    BY DEF IInv
  <2>2. QED
    BY <1>1, <1>2, <1>3, <1>4, <1>5, <2>1, Kinds DEF ScheduleInv, Before
<1>10. FreshInv'
  <2>1. FreshInv /\ PhaseInv
    BY DEF IInv
  <2>2. QED
    BY <1>1, <1>2, <1>3, <1>4, <1>5, <2>1, Kinds DEF FreshInv, PhaseInv, Runs
<1>11. MouseInv'
  <2>1. MouseInv
    BY DEF IInv
  <2>2. QED
    BY <1>1, <1>2, <1>3, <1>4, <1>5, <2>1, Kinds DEF MouseInv
<1>12. KindInv'
  <2>1. KindInv
    BY DEF IInv
  <2>2. QED
    BY <1>1, <1>2, <1>3, <1>4, <1>5, <2>1, Kinds DEF KindInv, Before
<1>13. PadInv'
  <2>1. PadInv
    BY DEF IInv
  <2>2. QED
    BY <1>1, <1>2, <1>3, <1>4, <1>5, <2>1, Kinds DEF PadInv
<1>14. ShownInv'
  <2>1. ShownInv
    BY DEF IInv
  <2>2. QED
    BY <1>1, <1>2, <1>3, <1>4, <1>5, <2>1, Kinds DEF ShownInv, FrameShows, Shows, Picture, Between
<1>15. QED
  BY <1>6, <1>7, <1>8, <1>9, <1>10, <1>11, <1>12, <1>13, <1>14 DEF IInv

LEMMA HeldKeeps ==
  ASSUME IInv, AfterHeld, UNCHANGED env
  PROVE  IInv'
<1>1. pc = "after" /\ held /\ sim.wait /\ ~ended /\ lifecycle = "loaded" /\ ~just
  BY Running DEF AfterHeld, IInv, ScreenInv, Before
<1>2. /\ pc' = "ready" /\ answer' = "frame" /\ depth' = 0 /\ restoring' = FALSE /\ held' = FALSE
  BY DEF AfterHeld, Return
<1>3. /\ env' = env /\ sim' = sim /\ change' = change /\ pad' = pad /\ mouse' = mouse
      /\ cont' = cont /\ frame' = frame /\ just' = just /\ reapply' = reapply /\ ended' = ended
      /\ presented' = presented /\ transition' = transition /\ screen' = screen /\ laid' = laid /\ askew' = askew
      /\ out' = out /\ god' = god /\ policy' = policy /\ lifecycle' = lifecycle
      /\ loaded' = loaded /\ store' = store /\ fresh' = fresh /\ lastDown' = lastDown
      /\ padLine' = padLine
  BY DEF AfterHeld, core, picture, config, session, history
<1>4. 0 \in 0..DepthLimit /\ pad.cur \in BOOLEAN /\ padLine \in BOOLEAN
  BY SessionAssumption, TypeParts DEF IInv, FlagType, SimType, Key
<1>5. InputKnown => ~Has("input") \/ ~Has("wait") \/ ~Has("resize")
  BY DEF InputKnown, Has
<1>6. TypeOK'
  <2>1. CallType /\ FlagType /\ SimType /\ PictureType
    BY TypeParts DEF IInv
  <2>2. CallType'
    BY <1>1, <1>2, <1>3, <1>4, <1>5, <2>1 DEF CallType
  <2>3. FlagType'
    BY <1>1, <1>2, <1>3, <1>4, <1>5, <2>1 DEF FlagType
  <2>4. SimType'
    BY <1>1, <1>2, <1>3, <1>4, <1>5, <2>1 DEF SimType
  <2>5. PictureType'
    BY <1>1, <1>2, <1>3, <1>4, <1>5, <2>1 DEF PictureType
  <2>6. QED
    BY <2>2, <2>3, <2>4, <2>5, TypeParts
<1>7. PhaseInv'
  <2>1. PhaseInv
    BY DEF IInv
  <2>2. QED
    BY <1>1, <1>2, <1>3, <1>4, <1>5, <2>1, Kinds DEF PhaseInv, Between
<1>8. ScreenInv'
  <2>1. ScreenInv
    BY DEF IInv
  <2>2. QED
    BY <1>1, <1>2, <1>3, <1>4, <1>5, <2>1, Kinds DEF ScreenInv, Between, Before
<1>9. ScheduleInv'
  <2>1. ScheduleInv
    BY DEF IInv
  <2>2. QED
    BY <1>1, <1>2, <1>3, <1>4, <1>5, <2>1, Kinds DEF ScheduleInv, Before
<1>10. FreshInv'
  <2>1. FreshInv
    BY DEF IInv
  <2>2. QED
    BY <1>1, <1>2, <1>3, <1>4, <1>5, <2>1, Kinds DEF FreshInv
<1>11. MouseInv'
  <2>1. MouseInv
    BY DEF IInv
  <2>2. QED
    BY <1>1, <1>2, <1>3, <1>4, <1>5, <2>1, Kinds DEF MouseInv
<1>12. KindInv'
  <2>1. KindInv
    BY DEF IInv
  <2>2. QED
    BY <1>1, <1>2, <1>3, <1>4, <1>5, <2>1, Kinds DEF KindInv, Before
<1>13. PadInv'
  <2>1. PadInv /\ KindInv
    BY DEF IInv
  <2>2. QED
    BY <1>1, <1>2, <1>3, <1>4, <1>5, <2>1, Kinds DEF PadInv, KindInv
<1>14. ShownInv'
  <2>1. ShownInv
    BY DEF IInv
  <2>2. QED
    BY <1>1, <1>2, <1>3, <1>4, <1>5, <2>1, Kinds DEF ShownInv, FrameShows, Shows, Picture, Between
<1>15. QED
  BY <1>6, <1>7, <1>8, <1>9, <1>10, <1>11, <1>12, <1>13, <1>14 DEF IInv

LEMMA EndKeeps ==
  ASSUME IInv, AfterStep, UNCHANGED env
  PROVE  IInv'
<1>1. /\ pc = "after" /\ ~(held /\ sim.wait) /\ change = 0 /\ lifecycle = "loaded" /\ answer = "none" /\ ~just
      /\ UNCHANGED <<screen, laid, askew, config, store>>
  BY Running DEF AfterStep
<1>2. /\ sim.content \in Contents /\ sim.end \in 0..2 /\ loaded = TRUE /\ depth \in 0..DepthLimit
      /\ restoring \in BOOLEAN /\ held \in BOOLEAN /\ 0 \in 0..DepthLimit /\ ended \in BOOLEAN
  BY <1>1, TypeParts, SessionAssumption DEF IInv, CallType, FlagType, SimType, Sims
<1>3. CASE Boot(sim.content) /\ pc' = "draw" /\ UNCHANGED <<session, answer, depth, restoring, held>>
  <2>1. lifecycle' = "loaded" /\ loaded' = TRUE
    BY <1>1, <1>2, <1>3 DEF session
  <2>2. /\ depth' \in 0..DepthLimit /\ held' \in BOOLEAN /\ restoring' \in BOOLEAN
        /\ restoring' => restoring
        /\ answer' = "none" /\ pc' = "draw"
    BY <1>1, <1>2, <1>3
  <2>3. QED
    BY <1>1, <1>2, <1>3, <2>1, <2>2, BootKeeps
<1>4. CASE BootFails /\ Return("error")
  <2>1. /\ loaded' = FALSE /\ lifecycle' = "empty" /\ Clean /\ pad' = Up /\ mouse' = Up
        /\ UNCHANGED <<sim, change, out, history>>
    BY <1>4 DEF BootFails
  <2>2. pc' = "ready" /\ answer' = "error" /\ depth' = 0 /\ restoring' = FALSE /\ held' = FALSE
    BY <1>4 DEF Return
  <2>3. QED
    BY <1>1, <1>2, <2>1, <2>2, EmptyKeeps
<1>5. CASE sim.end # 2
  <2>1. /\ ended' = (ended \/ sim.end = 1) /\ pc' = "draw"
        /\ UNCHANGED <<sim, change, pad, mouse, cont, frame, just, reapply, presented, transition, out,
                       session, answer, depth, restoring, held, history>>
    BY <1>5 DEF AfterStep
  <2>2. ended' \in BOOLEAN
    BY <2>1, Zenon
  <2>3. /\ env' = env /\ sim' = sim /\ change' = change /\ pad' = pad /\ mouse' = mouse
        /\ cont' = cont /\ frame' = frame /\ just' = just /\ reapply' = reapply
        /\ presented' = presented /\ transition' = transition /\ screen' = screen /\ laid' = laid /\ askew' = askew
        /\ out' = out /\ god' = god /\ policy' = policy /\ lifecycle' = lifecycle
        /\ loaded' = loaded /\ store' = store /\ fresh' = fresh /\ lastDown' = lastDown
        /\ padLine' = padLine
        /\ answer' = answer /\ depth' = depth /\ restoring' = restoring /\ held' = held
    BY <1>1, <2>1 DEF config, session, history
  <2>4. TypeOK'
    <3>1. CallType /\ FlagType /\ SimType /\ PictureType
      BY TypeParts DEF IInv
    <3>2. CallType'
      BY <1>1, <1>2, <2>1, <2>2, <2>3, <3>1 DEF CallType
    <3>3. FlagType'
      BY <1>1, <1>2, <2>1, <2>2, <2>3, <3>1 DEF FlagType
    <3>4. SimType'
      BY <1>1, <1>2, <2>1, <2>2, <2>3, <3>1 DEF SimType
    <3>5. PictureType'
      BY <1>1, <1>2, <2>1, <2>2, <2>3, <3>1 DEF PictureType
    <3>6. QED
      BY <3>2, <3>3, <3>4, <3>5, TypeParts
  <2>5. PhaseInv'
    <3>1. PhaseInv
      BY DEF IInv
    <3>2. QED
      BY <1>1, <1>2, <2>1, <2>2, <2>3, <3>1, Kinds DEF PhaseInv, Between
  <2>6. ScreenInv'
    <3>1. ScreenInv
      BY DEF IInv
    <3>2. QED
      BY <1>1, <1>2, <2>1, <2>2, <2>3, <3>1, Kinds DEF ScreenInv, Between, Before
  <2>7. ScheduleInv'
    <3>1. ScheduleInv
      BY DEF IInv
    <3>2. QED
      BY <1>1, <1>2, <2>1, <2>2, <2>3, <3>1, Kinds DEF ScheduleInv, Before
  <2>8. FreshInv'
    <3>1. FreshInv /\ ScheduleInv
      BY DEF IInv
    <3>2. QED
      BY <1>1, <1>2, <2>1, <2>2, <2>3, <3>1, Kinds DEF FreshInv, ScheduleInv, Before
  <2>9. MouseInv'
    <3>1. MouseInv
      BY DEF IInv
    <3>2. QED
      BY <1>1, <1>2, <2>1, <2>2, <2>3, <3>1, Kinds DEF MouseInv
  <2>10. KindInv'
    <3>1. KindInv
      BY DEF IInv
    <3>2. QED
      BY <1>1, <1>2, <2>1, <2>2, <2>3, <3>1, Kinds DEF KindInv, Before
  <2>11. PadInv'
    <3>1. PadInv
      BY DEF IInv
    <3>2. QED
      BY <1>1, <1>2, <2>1, <2>2, <2>3, <3>1, Kinds DEF PadInv
  <2>12. ShownInv'
    <3>1. ShownInv
      BY DEF IInv
    <3>2. QED
      BY <1>1, <1>2, <2>1, <2>2, <2>3, <3>1, Kinds DEF ShownInv, FrameShows, Shows, Picture, Between
  <2>13. QED
    BY <2>4, <2>5, <2>6, <2>7, <2>8, <2>9, <2>10, <2>11, <2>12 DEF IInv
<1>6. QED
  BY <1>3, <1>4, <1>5 DEF AfterStep

LEMMA DrawKeeps ==
  ASSUME IInv, Draw, UNCHANGED env
  PROVE  IInv'
<1>1. pc = "draw" /\ pc' = "finish" /\ lifecycle = "loaded" /\ answer = "none" /\ ~just
  BY Running DEF Draw
<1>2. /\ env' = env /\ pad' = pad /\ mouse' = mouse /\ cont' = cont /\ frame' = frame
      /\ just' = just /\ reapply' = reapply /\ ended' = ended /\ out' = out /\ god' = god
      /\ policy' = policy /\ lifecycle' = lifecycle /\ loaded' = loaded /\ store' = store
      /\ fresh' = fresh /\ lastDown' = lastDown /\ padLine' = padLine
      /\ answer' = answer /\ depth' = depth /\ restoring' = restoring /\ held' = held
  BY DEF Draw, config, session
<1>3. presented' = TRUE /\ screen' = Picture(sim) /\ laid' = out /\ askew' = FALSE
  BY DEF Draw
<1>4. sim \in Sims /\ sim.end \in 0..2 /\ transition \in 0..3 /\ change \in 0..2
  BY TypeParts DEF IInv, SimType, Sims
<1>5. /\ sim' \in Sims /\ sim'.content = sim.content /\ sim'.n = sim.n /\ sim'.wait = sim.wait
  <2>1. PICK e \in IF Has("end") THEN {sim.end, 1} ELSE {sim.end} :
          sim' = [sim EXCEPT !.d = IF @ = 2 THEN 2 ELSE @ + 1, !.end = e]
    BY DEF Draw
  <2>2. e \in 0..2
    BY <1>4, <2>1
  <2>3. QED
    BY <1>4, <2>1, <2>2, Drawn
<1>6. change' \in 0..2
  BY <1>4 DEF Draw
<1>7. transition' \in 0..3 /\ (transition = 0 => transition' = 0)
  BY <1>4 DEF Draw
<1>8. screen' \in Pictures /\ screen' # None /\ screen' = Picture(sim')
  <2>1. Picture(sim) \in Pictures /\ Picture(sim) = Picture(sim')
    BY <1>4, <1>5, Values DEF Picture
  <2>2. QED
    BY <1>3, <2>1, NoneApart
<1>9. TypeOK'
  <2>1. CallType /\ FlagType /\ SimType /\ PictureType
    BY TypeParts DEF IInv
  <2>2. CallType'
    BY <1>1, <1>2, <1>3, <1>5, <1>6, <1>7, <1>8, <2>1 DEF CallType
  <2>3. FlagType'
    BY <1>1, <1>2, <1>3, <1>5, <1>6, <1>7, <1>8, <2>1 DEF FlagType
  <2>4. SimType'
    BY <1>1, <1>2, <1>3, <1>5, <1>6, <1>7, <1>8, <2>1 DEF SimType
  <2>5. PictureType'
    BY <1>1, <1>2, <1>3, <1>5, <1>6, <1>7, <1>8, <2>1 DEF PictureType
  <2>6. QED
    BY <2>2, <2>3, <2>4, <2>5, TypeParts
<1>10. PhaseInv'
  <2>1. PhaseInv
    BY DEF IInv
  <2>2. QED
    BY <1>1, <1>2, <1>3, <1>5, <1>6, <1>7, <1>8, <2>1, Kinds DEF PhaseInv, Between
<1>11. ScreenInv'
  <2>1. ScreenInv
    BY DEF IInv
  <2>2. QED
    BY <1>1, <1>2, <1>3, <1>5, <1>6, <1>7, <1>8, <2>1, Kinds DEF ScreenInv, Between, Before
<1>12. ScheduleInv'
  <2>1. ScheduleInv
    BY DEF IInv
  <2>2. QED
    BY <1>1, <1>2, <1>3, <1>5, <1>6, <1>7, <1>8, <2>1, Kinds DEF ScheduleInv, Before
<1>13. FreshInv'
  <2>1. FreshInv
    BY DEF IInv
  <2>2. QED
    BY <1>1, <1>2, <1>3, <1>5, <1>6, <1>7, <1>8, <2>1, Kinds DEF FreshInv
<1>14. MouseInv'
  <2>1. MouseInv
    BY DEF IInv
  <2>2. QED
    BY <1>1, <1>2, <1>3, <1>5, <1>6, <1>7, <1>8, <2>1, Kinds DEF MouseInv
<1>15. KindInv'
  <2>1. KindInv
    BY DEF IInv
  <2>2. QED
    BY <1>1, <1>2, <1>3, <1>5, <1>6, <1>7, <1>8, <2>1, Kinds DEF KindInv, Before
<1>16. PadInv'
  <2>1. PadInv
    BY DEF IInv
  <2>2. QED
    BY <1>1, <1>2, <1>3, <1>5, <1>6, <1>7, <1>8, <2>1, Kinds DEF PadInv
<1>17. ShownInv'
  <2>1. ShownInv
    BY DEF IInv
  <2>2. QED
    BY <1>1, <1>2, <1>3, <1>5, <1>6, <1>7, <1>8, <2>1, Kinds DEF ShownInv, FrameShows, Shows, Picture, Between
<1>18. QED
  BY <1>9, <1>10, <1>11, <1>12, <1>13, <1>14, <1>15, <1>16, <1>17 DEF IInv

\* The state that was drawn again is the one the session is in.
LEMMA RestoreKeeps ==
  ASSUME IInv, FinishRestore, UNCHANGED env
  PROVE  IInv'
<1>1. /\ pc = "finish" /\ restoring /\ lifecycle = "loaded" /\ ~just
      /\ presented /\ screen # None /\ screen = Picture(sim) /\ laid = out
  BY Running DEF FinishRestore, IInv, ScreenInv
<1>2. /\ pc' = "ready" /\ answer' = "frame" /\ depth' = 0 /\ restoring' = FALSE /\ held' = FALSE
      /\ reapply' = None /\ just' = FALSE /\ presented' = TRUE /\ change' = 0
  BY DEF FinishRestore, Return
<1>3. /\ env' = env /\ god' = god /\ policy' = policy /\ lifecycle' = lifecycle
      /\ loaded' = loaded /\ store' = store /\ fresh' = fresh /\ lastDown' = lastDown
      /\ padLine' = padLine
  BY DEF FinishRestore, config, session, history
<1>4. 0 \in 0..DepthLimit
  BY SessionAssumption
<1>5. CASE reapply # None /\ Fits(reapply)
  <2> DEFINE s == reapply
  <2>1. /\ sim' = s.sim /\ pad' = s.pad /\ mouse' = Up /\ cont' = TRUE /\ ended' = FALSE
        /\ transition' = 0 /\ out' = policy
        /\ frame' = IF s.frame = None THEN None ELSE s.frame.extent
        /\ PutBackFrame(s)
    BY <1>5 DEF FinishRestore, PutBack
  <2>2. s \in States
    BY <1>5, TypeParts DEF IInv, PictureType
  <2>3. s.frame # None
    BY <1>1, <1>5 DEF IInv, ScheduleInv
  <2>4. /\ s.sim \in Sims /\ s.pad \in Key
        /\ s.frame.extent \in Policies /\ s.frame.picture \in Pictures
        /\ s.frame.laid \in Policies /\ s.frame.askew \in BOOLEAN
    BY <2>2, <2>3, Fields
  <2>5. /\ screen' = s.frame.picture /\ laid' = s.frame.laid /\ frame' = s.frame.extent
        /\ askew' = (s.frame.askew \/ s.frame.extent # policy) /\ askew' \in BOOLEAN
    BY <2>1, <2>3 DEF PutBackFrame
  <2>6. s = reapply
    OBVIOUS
  <2> HIDE DEF s
  <2>7. TypeOK'
    <3>1. CallType /\ FlagType /\ SimType /\ PictureType
      BY TypeParts DEF IInv
    <3>2. CallType'
      BY <1>1, <1>2, <1>3, <1>4, <1>5, <2>1, <2>3, <2>4, <2>5, <2>6, <3>1 DEF CallType
    <3>3. FlagType'
      BY <1>1, <1>2, <1>3, <1>4, <1>5, <2>1, <2>3, <2>4, <2>5, <2>6, <3>1 DEF FlagType
    <3>4. SimType'
      BY <1>1, <1>2, <1>3, <1>4, <1>5, <2>1, <2>3, <2>4, <2>5, <2>6, <3>1, Values DEF SimType
    <3>5. PictureType'
      BY <1>1, <1>2, <1>3, <1>4, <1>5, <2>1, <2>3, <2>4, <2>5, <2>6, <3>1 DEF PictureType
    <3>6. QED
      BY <3>2, <3>3, <3>4, <3>5, TypeParts
  <2>8. PhaseInv'
    <3>1. PhaseInv
      BY DEF IInv
    <3>2. QED
      BY <1>1, <1>2, <1>3, <1>4, <1>5, <2>1, <2>3, <2>4, <2>5, <2>6, <3>1, Kinds DEF PhaseInv, Between
  <2>9. ScreenInv'
    <3>1. ScreenInv
      BY DEF IInv
    <3>2. QED
      BY <1>1, <1>2, <1>3, <1>4, <1>5, <2>1, <2>3, <2>4, <2>5, <2>6, <3>1, Kinds, NoneApart DEF ScreenInv, Between, Before
  <2>10. ScheduleInv'
    <3>1. ScheduleInv
      BY DEF IInv
    <3>2. QED
      BY <1>1, <1>2, <1>3, <1>4, <1>5, <2>1, <2>3, <2>4, <2>5, <2>6, <3>1, Kinds DEF ScheduleInv, Before
  <2>11. FreshInv'
    <3>1. FreshInv
      BY DEF IInv
    <3>2. QED
      BY <1>1, <1>2, <1>3, <1>4, <1>5, <2>1, <2>3, <2>4, <2>5, <2>6, <3>1, Kinds DEF FreshInv
  <2>12. MouseInv'
    <3>1. MouseInv
      BY DEF IInv
    <3>2. QED
      BY <1>1, <1>2, <1>3, <1>4, <1>5, <2>1, <2>3, <2>4, <2>5, <2>6, <3>1, Kinds DEF MouseInv
  <2>13. KindInv'
    <3>1. KindInv
      BY DEF IInv
    <3>2. QED
      BY <1>1, <1>2, <1>3, <1>4, <1>5, <2>1, <2>3, <2>4, <2>5, <2>6, <3>1, Kinds DEF KindInv, Before
  <2>14. PadInv'
    <3>1. PadInv
      BY DEF IInv
    <3>2. QED
      BY <1>1, <1>2, <1>3, <1>4, <1>5, <2>1, <2>3, <2>4, <2>5, <2>6, <3>1, Kinds DEF PadInv
  <2>15. ShownInv'
    <3>1. ShownInv
      BY DEF IInv
    <3>2. QED
      BY <1>1, <1>2, <1>3, <1>4, <1>5, <2>1, <2>3, <2>4, <2>5, <2>6, <3>1, Kinds DEF ShownInv, FrameShows, Shows, Picture, Between
  <2>16. QED
    BY <2>7, <2>8, <2>9, <2>10, <2>11, <2>12, <2>13, <2>14, <2>15 DEF IInv
<1>6. CASE ~(reapply # None /\ Fits(reapply))
  <2>1. /\ sim' = sim /\ pad' = pad /\ mouse' = mouse /\ cont' = cont /\ frame' = frame
        /\ ended' = ended /\ transition' = transition /\ out' = out /\ screen' = screen
        /\ laid' = laid /\ askew' = askew
    BY <1>6 DEF FinishRestore
  <2>2. reapply # None /\ NoLateGod => Fits(reapply)
    BY <1>1 DEF IInv, ScheduleInv, Fits
  <2>3. InputKnown => reapply = None
    BY <1>6, <2>2 DEF InputKnown
  <2>4. TypeOK'
    <3>1. CallType /\ FlagType /\ SimType /\ PictureType
      BY TypeParts DEF IInv
    <3>2. CallType'
      BY <1>1, <1>2, <1>3, <1>4, <2>1, <2>3, <3>1 DEF CallType
    <3>3. FlagType'
      BY <1>1, <1>2, <1>3, <1>4, <2>1, <2>3, <3>1 DEF FlagType
    <3>4. SimType'
      BY <1>1, <1>2, <1>3, <1>4, <2>1, <2>3, <3>1 DEF SimType
    <3>5. PictureType'
      BY <1>1, <1>2, <1>3, <1>4, <2>1, <2>3, <3>1 DEF PictureType
    <3>6. QED
      BY <3>2, <3>3, <3>4, <3>5, TypeParts
  <2>5. PhaseInv'
    <3>1. PhaseInv
      BY DEF IInv
    <3>2. QED
      BY <1>1, <1>2, <1>3, <1>4, <2>1, <2>3, <3>1, Kinds DEF PhaseInv, Between
  <2>6. ScreenInv'
    <3>1. ScreenInv
      BY DEF IInv
    <3>2. QED
      BY <1>1, <1>2, <1>3, <1>4, <2>1, <2>3, <3>1, Kinds DEF ScreenInv, Between, Before
  <2>7. ScheduleInv'
    <3>1. ScheduleInv
      BY DEF IInv
    <3>2. QED
      BY <1>1, <1>2, <1>3, <1>4, <2>1, <2>3, <3>1, Kinds DEF ScheduleInv, Before
  <2>8. FreshInv'
    <3>1. FreshInv
      BY DEF IInv
    <3>2. QED
      BY <1>1, <1>2, <1>3, <1>4, <2>1, <2>3, <3>1, Kinds DEF FreshInv
  <2>9. MouseInv'
    <3>1. MouseInv
      BY DEF IInv
    <3>2. QED
      BY <1>1, <1>2, <1>3, <1>4, <2>1, <2>3, <3>1, Kinds DEF MouseInv
  <2>10. KindInv'
    <3>1. KindInv
      BY DEF IInv
    <3>2. QED
      BY <1>1, <1>2, <1>3, <1>4, <2>1, <2>3, <3>1, Kinds DEF KindInv, Before
  <2>11. PadInv'
    <3>1. PadInv
      BY DEF IInv
    <3>2. QED
      BY <1>1, <1>2, <1>3, <1>4, <2>1, <2>3, <3>1, Kinds DEF PadInv
  <2>12. ShownInv'
    <3>1. ShownInv
      BY DEF IInv
    <3>2. QED
      BY <1>1, <1>2, <1>3, <1>4, <2>1, <2>3, <3>1, Kinds DEF ShownInv, FrameShows, Shows, Picture, Between
  <2>13. QED
    BY <2>4, <2>5, <2>6, <2>7, <2>8, <2>9, <2>10, <2>11, <2>12 DEF IInv
<1>7. QED
  BY <1>5, <1>6

LEMMA FinishKeeps ==
  ASSUME IInv, Finish, UNCHANGED env
  PROVE  IInv'
<1>1. /\ pc = "finish" /\ ~restoring /\ lifecycle = "loaded" /\ ~just
      /\ presented /\ screen # None /\ screen = Picture(sim) /\ laid = out
  BY Running DEF Finish, IInv, ScreenInv
<1>2. /\ pc' = "ready" /\ answer' = "frame" /\ depth' = 0 /\ restoring' = FALSE /\ held' = FALSE
  BY DEF Finish, Return
<1>3. /\ env' = env /\ sim' = sim /\ change' = change /\ pad' = pad /\ mouse' = mouse
      /\ cont' = cont /\ frame' = frame /\ just' = just /\ reapply' = reapply /\ ended' = ended
      /\ presented' = presented /\ transition' = transition /\ screen' = screen /\ laid' = laid /\ askew' = askew
      /\ out' = out /\ god' = god /\ policy' = policy /\ lifecycle' = lifecycle
      /\ loaded' = loaded /\ store' = store /\ fresh' = fresh /\ lastDown' = lastDown
      /\ padLine' = padLine
  BY DEF Finish, core, picture, config, session, history
<1>4. 0 \in 0..DepthLimit
  BY SessionAssumption
<1>5. TypeOK'
  <2>1. CallType /\ FlagType /\ SimType /\ PictureType
    BY TypeParts DEF IInv
  <2>2. CallType'
    BY <1>1, <1>2, <1>3, <1>4, <2>1 DEF CallType
  <2>3. FlagType'
    BY <1>1, <1>2, <1>3, <1>4, <2>1 DEF FlagType
  <2>4. SimType'
    BY <1>1, <1>2, <1>3, <1>4, <2>1 DEF SimType
  <2>5. PictureType'
    BY <1>1, <1>2, <1>3, <1>4, <2>1 DEF PictureType
  <2>6. QED
    BY <2>2, <2>3, <2>4, <2>5, TypeParts
<1>6. PhaseInv'
  <2>1. PhaseInv
    BY DEF IInv
  <2>2. QED
    BY <1>1, <1>2, <1>3, <1>4, <2>1, Kinds DEF PhaseInv, Between
<1>7. ScreenInv'
  <2>1. ScreenInv
    BY DEF IInv
  <2>2. QED
    BY <1>1, <1>2, <1>3, <1>4, <2>1, Kinds DEF ScreenInv, Between, Before
<1>8. ScheduleInv'
  <2>1. ScheduleInv
    BY DEF IInv
  <2>2. QED
    BY <1>1, <1>2, <1>3, <1>4, <2>1, Kinds DEF ScheduleInv, Before
<1>9. FreshInv'
  <2>1. FreshInv
    BY DEF IInv
  <2>2. QED
    BY <1>1, <1>2, <1>3, <1>4, <2>1, Kinds DEF FreshInv
<1>10. MouseInv'
  <2>1. MouseInv
    BY DEF IInv
  <2>2. QED
    BY <1>1, <1>2, <1>3, <1>4, <2>1, Kinds DEF MouseInv
<1>11. KindInv'
  <2>1. KindInv
    BY DEF IInv
  <2>2. QED
    BY <1>1, <1>2, <1>3, <1>4, <2>1, Kinds DEF KindInv, Before
<1>12. PadInv'
  <2>1. PadInv
    BY DEF IInv
  <2>2. QED
    BY <1>1, <1>2, <1>3, <1>4, <2>1, Kinds DEF PadInv
<1>13. ShownInv'
  <2>1. ShownInv
    BY DEF IInv
  <2>2. QED
    BY <1>1, <1>2, <1>3, <1>4, <2>1, Kinds DEF ShownInv, FrameShows, Shows, Picture, Between
<1>14. QED
  BY <1>5, <1>6, <1>7, <1>8, <1>9, <1>10, <1>11, <1>12, <1>13 DEF IInv
-----------------------------------------------------------------------------
(* The theorems.                                                           *)

LEMMA StartInv ==
  ASSUME Init
  PROVE  IInv
<1> USE SessionAssumption DEF Init
<1>1. TypeOK
  <2>1. sim \in Sims
    BY Origins
  <2>2. CallType
    <3>1. 0 \in 0..DepthLimit
      OBVIOUS
    <3>2. QED
      BY <3>1 DEF CallType
  <2>3. FlagType
    BY DEF FlagType
  <2>4. SimType /\ PictureType
    <3>1. askew \in BOOLEAN
      OBVIOUS
    <3>2. QED
      BY <2>1, <3>1, Values DEF SimType, PictureType
  <2>5. QED
    BY <2>2, <2>3, <2>4, TypeParts
<1>2. ~sim.wait /\ sim.n = 0
  BY Origins
<1>3. PhaseInv /\ ScreenInv /\ ScheduleInv /\ FreshInv /\ MouseInv
  BY <1>2 DEF PhaseInv, ScreenInv, ScheduleInv, FreshInv, MouseInv, Between, Before
<1>4. KindInv /\ PadInv /\ ShownInv
  BY <1>2, Values DEF KindInv, PadInv, ShownInv, Before
<1>5. QED
  BY <1>1, <1>3, <1>4 DEF IInv

LEMMA StillKeeps ==
  ASSUME IInv, UNCHANGED vars
  PROVE  IInv'
<1> USE DEF vars, core, picture, config, flow, session, history
<1>1. TypeOK'
  <2>1. CallType /\ FlagType /\ SimType /\ PictureType
    BY TypeParts DEF IInv
  <2>2. CallType' /\ FlagType'
    BY <2>1 DEF CallType, FlagType
  <2>3. SimType' /\ PictureType'
    BY <2>1 DEF SimType, PictureType
  <2>4. QED
    BY <2>2, <2>3, TypeParts
<1>2. PhaseInv' /\ ScreenInv' /\ ScheduleInv' /\ FreshInv'
  BY Kinds DEF IInv, PhaseInv, ScreenInv, ScheduleInv, FreshInv, Before, Between
<1>3. MouseInv' /\ PadInv'
  BY Kinds DEF IInv, MouseInv, PadInv
<1>4. KindInv'
  BY Kinds DEF IInv, KindInv, Before
<1>5. ShownInv'
  BY Kinds DEF IInv, ShownInv, FrameShows, Shows, Picture, Between
<1>6. QED
  BY <1>1, <1>2, <1>3, <1>4, <1>5 DEF IInv

LEMMA InvariantStep ==
  ASSUME IInv, [Next]_vars
  PROVE  IInv'
<1>1. CASE UNCHANGED vars
  BY <1>1, StillKeeps
<1>2. CASE Next
  <2>1. UNCHANGED env
    BY <1>2 DEF Next
  <2>2. CASE LoadPrepare \/ LoadStart \/ Unload \/ Reset \/ SetConfig
    BY <2>1, <2>2, PrepareKeeps, StartKeeps, UnloadKeeps, ResetKeeps, ConfigKeeps
  <2>3. CASE Save \/ StateLoad \/ StateLoadStaged \/ StateRefuse \/ StateRollback \/ RunFrame
    BY <2>1, <2>3, SaveKeeps, LoadKeeps, RefuseKeeps, RollbackKeeps, RunKeeps
  <2>4. CASE EnterChange \/ AfterChange \/ FinishChange
    <3>1. pc \in {"enter", "after", "finish"} /\ ~restoring /\ GameChange
      <4>1. CASE EnterChange
        BY <4>1 DEF EnterChange, IInv, PhaseInv, Between
      <4>2. CASE AfterChange
        BY <4>2 DEF AfterChange, GameChange, IInv, ScheduleInv, Before
      <4>3. CASE FinishChange
        BY <4>3 DEF FinishChange
      <4>4. QED
        BY <2>4, <4>1, <4>2, <4>3
    <3>2. QED
      BY <2>1, <3>1, GameChangeKeeps
  <2>5. CASE EnterPresent \/ EnterEnded \/ Enter \/ Step
    BY <2>1, <2>5, PresentKeeps, EndedKeeps, EnterKeeps, StepKeeps
  <2>6. CASE AfterHeld \/ AfterStep \/ Draw \/ FinishRestore \/ Finish
    BY <2>1, <2>6, HeldKeeps, EndKeeps, DrawKeeps, RestoreKeeps, FinishKeeps
  <2>7. QED
    BY <1>2, <2>2, <2>3, <2>4, <2>5, <2>6 DEF Next, InFrame
<1>3. QED
  BY <1>1, <1>2

LEMMA Invariance == Spec => []IInv
<1>1. Init => IInv
  BY StartInv
<1>2. IInv /\ [Next]_vars => IInv'
  BY InvariantStep
<1>3. QED
  BY <1>1, <1>2, PTL DEF Spec

\* Every value stays within its range; a session with a runtime is the only one that is not empty,
\* and no frame nests deeper than the limit (engine.c, boot_runtime_prepare, engine_apply_game_change).
THEOREM Typing == Spec => []TypeOK
<1>1. IInv => TypeOK
  BY DEF IInv
<1>2. QED
  BY Invariance, <1>1, PTL

\* A frame that succeeds shows the simulation it leaves behind: what a state carried as its picture
\* is the picture of its simulation, through saving, loading, refusing and redrawing (engine.c,
\* engine_run_frame; engine_state.c, state_unserialize_impl).  Its rows are those of the extent it is
\* presented in, except where the history askew records one of the two cases in which the code leaves
\* older rows in the buffer: a redraw under another extent, whose stored pixels are written back
\* (engine_state.c:622), and an ended session whose extent was changed (engine.c:968).
THEOREM ShownIsCurrent == Spec => []ShowsCurrent
<1>1. IInv => ShowsCurrent
  BY DEF IInv, ShownInv, ShowsCurrent, Shows, Between
<1>2. QED
  BY Invariance, <1>1, PTL

LEMMA RefusedStep ==
  ASSUME IInv, Next, answer' = "refused"
  PROVE  UNCHANGED <<sim, change, pad, just, reapply>>
<1>1. CASE StateRefuse
  BY <1>1 DEF StateRefuse, core
<1>2. CASE StateRollback
  <2>1. Written(TRUE).sim = sim /\ Written(TRUE).pad = pad
    BY Writes DEF IInv
  <2>2. QED
    BY <1>2, <2>1 DEF StateRollback, Unserialize, RollbackKeep
<1>3. CASE LoadPrepare \/ LoadStart \/ Unload \/ Reset \/ SetConfig \/ Save \/ RunFrame
  BY <1>3 DEF LoadPrepare, LoadStart, Unload, Reset, SetConfig, Save, RunFrame
<1>4. CASE StateLoad \/ StateLoadStaged
  BY <1>4 DEF StateLoad, StateLoadStaged, Restored
<1>5. CASE InFrame
  <2>1. pc # "ready"
    BY <1>5 DEF InFrame, EnterChange, EnterPresent, EnterEnded, Enter, Step, AfterHeld, AfterChange,
                AfterStep, Draw, FinishRestore, FinishChange, Finish
  <2>2. answer = "none"
    BY <2>1, Running
  <2>3. CASE GameChange
    BY <2>2, <2>3 DEF GameChange, Return
  <2>4. QED
    BY <1>5, <2>2, <2>3 DEF InFrame, EnterChange, EnterPresent, EnterEnded, Enter, Step, AfterHeld,
                AfterChange, AfterStep, Draw, FinishRestore, FinishChange, Finish, Return
<1>6. QED
  BY <1>1, <1>2, <1>3, <1>4, <1>5 DEF Next

\* A refused state costs nothing, whether it is refused before or after its decoding began
\* (engine_state.c, engine_state_load).
THEOREM RefusedKeeps == Spec => RefusalKeeps
<1>1. IInv /\ [Next]_vars => [answer' = "refused" => UNCHANGED <<sim, change, pad, just, reapply>>]_vars
  BY RefusedStep
<1>2. QED
  BY Invariance, <1>1, PTL DEF Spec, RefusalKeeps

\* A frame that polls compares with what the host reported in the frame before.
LEMMA PressStep ==
  ASSUME IInv, InputKnown, Next, Advancing
  PROVE  (mouse'.cur /\ ~mouse'.prev => ~lastDown) /\ pad'.prev = padLine
<1>1. Enter
  BY DEF Advancing, Next, InFrame, EnterChange, EnterPresent, EnterEnded, Step, AfterHeld, AfterChange,
         AfterStep, Draw, FinishRestore, FinishChange, Finish, GameChange, Return, LoadPrepare,
         LoadStart, Unload, Reset, SetConfig, Save, StateLoad, StateLoadStaged, StateRefuse,
         StateRollback, RunFrame, Idle, flow
<1>2. pc = "enter" /\ ~restoring /\ ~just /\ lifecycle = "loaded"
  BY <1>1, Running DEF Advancing, Enter, IInv, PhaseInv, Between
<1>3. PICK down \in Down :
        /\ pad' = [cur |-> down, prev |-> pad.cur]
        /\ mouse' = [cur |-> down, prev |-> IF cont THEN down ELSE mouse.cur]
  BY <1>1, <1>2 DEF Enter
<1>4. /\ pad.cur \in BOOLEAN /\ padLine \in BOOLEAN /\ cont \in BOOLEAN /\ mouse.cur \in BOOLEAN
      /\ down \in BOOLEAN
  BY <1>3, TypeParts DEF IInv, FlagType, SimType, Key, Down
<1>5. pad'.prev = padLine
  <2>1. pad.cur <=> padLine
    BY <1>2 DEF IInv, PadInv
  <2>2. pad.cur = padLine
    BY <1>4, <2>1
  <2>3. QED
    BY <1>3, <2>2
<1>6. mouse'.cur /\ ~mouse'.prev => ~cont /\ ~mouse.cur
  BY <1>3, <1>4
<1>7. ~cont => (mouse.cur <=> lastDown)
  BY <1>2 DEF IInv, MouseInv
<1>8. QED
  BY <1>5, <1>6, <1>7

\* No control is pressed by a load.  A god_mode change that has a redraw refused, and a redraw that
\* finds an event parked, leave the pad as the redraw blanked it: sessions that can do these are left
\* out, and lose the property (engine.c, engine_run_frame, the blanked input of a redraw).
THEOREM NothingPressed ==
  ASSUME \A e \in Envs : "late god" \notin e /\ ~({"wait", "input", "resize"} \subseteq e)
  PROVE  Spec => NoSyntheticPress
<1>1. IInv => InputKnown
  BY DEF IInv, TypeOK, InputKnown, NoLateGod
<1>2. IInv /\ [Next]_vars
        => [Advancing => (mouse'.cur /\ ~mouse'.prev => ~lastDown) /\ pad'.prev = padLine]_vars
  BY <1>1, PressStep
<1>3. QED
  BY Invariance, <1>2, PTL DEF Spec, NoSyntheticPress
-----------------------------------------------------------------------------
(* A session keeps its timeline.                                           *)

\* Where the simulation is; while a state is drawn again, where it will be.  What was saved.
Line == IF restoring /\ reapply # None THEN reapply.sim ELSE sim
Point == IF store = None THEN {} ELSE {store.sim}

Still == UNCHANGED <<Line, fresh, Point>>

LEMMA StartsOver ==
  ASSUME NEW c \in Contents, Boot(c), UNCHANGED store
  PROVE  Timeline!Next
<1>1. PICK e \in Ends : sim' = [Timeline!Origin(c) EXCEPT !.end = e]
  BY DEF Boot
<1>2. e \in {0, 1}
  BY <1>1 DEF Ends
<1>3. Line' = sim' /\ Point' = Point /\ fresh' = FALSE
  BY DEF Boot, Clean, NewLine, Line, Point
<1>4. Timeline!Start
  BY <1>1, <1>2, <1>3 DEF Timeline!Start, Line, Point
<1>5. QED
  BY <1>4 DEF Timeline!Next

\* Outside a redraw the line is the simulation.
LEMMA PlainLine == ~restoring => Line = sim
BY DEF Line

LEMMA HostMoves ==
  ASSUME IInv, pc = "ready",
         \/ LoadPrepare \/ LoadStart \/ Unload \/ Reset \/ SetConfig
         \/ Save \/ StateLoad \/ StateLoadStaged \/ StateRefuse \/ StateRollback \/ RunFrame
  PROVE  Timeline!Next \/ Still
<1>1. Line = sim /\ ~restoring
  BY PlainLine DEF IInv, PhaseInv, Between
<1>2. restoring' = restoring
  BY DEF LoadPrepare, LoadStart, Unload, Reset, SetConfig, Save, StateLoad, StateLoadStaged,
         StateRefuse, StateRollback, RunFrame, Idle, flow
<1>3. Line' = sim'
  BY <1>1, <1>2 DEF Line
<1>4. CASE LoadPrepare
  <2>1. store' = store
    BY <1>4 DEF LoadPrepare
  <2>2. CASE sim' = Timeline!Origin(Launch) /\ NewLine
    <3>1. sim' = [Timeline!Origin(Launch) EXCEPT !.end = 0] /\ Launch \in Contents
      BY <2>2, Origins, SessionAssumption
    <3>2. Line' = sim' /\ Point' = Point /\ fresh' = FALSE
      BY <1>3, <2>1, <2>2 DEF Point, NewLine
    <3>3. Timeline!Start
      BY <3>1, <3>2 DEF Timeline!Start, Line, Point
    <3>4. QED
      BY <3>3 DEF Timeline!Next
  <2>3. CASE UNCHANGED <<sim, fresh>>
    BY <1>1, <1>3, <2>1, <2>3 DEF Still, Point
  <2>4. QED
    BY <1>4, <2>2, <2>3 DEF LoadPrepare, history
<1>5. CASE LoadStart
  BY <1>5, StartsOver, SessionAssumption DEF LoadStart
<1>6. CASE Reset
  <2>1. store' = store /\ sim.content \in Contents
    BY <1>6, TypeParts DEF Reset, IInv, SimType, Sims
  <2>2. CASE Boot(sim.content)
    BY <2>1, <2>2, StartsOver
  <2>3. CASE BootFails
    BY <1>1, <1>3, <2>1, <2>3 DEF BootFails, history, Still, Point
  <2>4. QED
    BY <1>6, <2>2, <2>3 DEF Reset
<1>7. CASE Save
  <2>1. store' \in States /\ store'.sim = sim /\ sim' = sim /\ fresh' = fresh
    BY <1>7, Writes DEF Save, IInv, core, history
  <2>2. Point' = {sim}
    BY <2>1, Fields DEF Point
  <2>3. Timeline!Save
    BY <1>1, <1>3, <2>1, <2>2 DEF Timeline!Save, Line, Point
  <2>4. QED
    BY <2>3 DEF Timeline!Next
<1>8. CASE StateLoad \/ StateLoadStaged
  <2>1. store # None /\ sim' = store.sim /\ store' = store /\ fresh' = TRUE
    BY <1>8 DEF StateLoad, StateLoadStaged, Restored, Unserialize
  <2>2. Line' \in Point /\ Point' = Point
    BY <1>3, <2>1 DEF Point
  <2>3. Timeline!Restore
    BY <2>1, <2>2 DEF Timeline!Restore, Line, Point
  <2>4. QED
    BY <2>3 DEF Timeline!Next
<1>9. CASE StateRollback
  <2>1. sim' = sim /\ store' = store /\ fresh' = fresh
    BY <1>9, Writes DEF StateRollback, Unserialize, IInv, history
  <2>2. QED
    BY <1>1, <1>3, <2>1 DEF Still, Point
<1>10. CASE Unload \/ SetConfig \/ StateRefuse \/ RunFrame
  <2>1. sim' = sim /\ store' = store /\ fresh' = fresh
    BY <1>10 DEF Unload, SetConfig, StateRefuse, RunFrame, core, history
  <2>2. QED
    BY <1>1, <1>3, <2>1 DEF Still, Point
<1>11. QED
  BY <1>4, <1>5, <1>6, <1>7, <1>8, <1>9, <1>10

LEMMA ChangeMoves ==
  ASSUME IInv, ~restoring, GameChange
  PROVE  Timeline!Next \/ Still
<1>1. store' = store
  BY DEF GameChange
<1>2. CASE \E c \in Contents : Boot(c)
  BY <1>1, <1>2, StartsOver
<1>3. CASE UNCHANGED <<sim, fresh>> /\ restoring' = FALSE
  <2>1. Line = sim /\ Line' = sim'
    BY <1>3 DEF Line
  <2>2. QED
    BY <1>1, <1>3, <2>1 DEF Still, Point
<1>4. QED
  BY <1>2, <1>3 DEF GameChange, BootFails, Return, core, history

LEMMA FrameMoves ==
  ASSUME IInv, NoLateGod, InFrame
  PROVE  Timeline!Next \/ Still
<1>1. CASE EnterChange \/ AfterChange \/ FinishChange
  <2>1. GameChange /\ ~restoring
    <3>1. CASE EnterChange
      BY <3>1 DEF EnterChange, IInv, PhaseInv, Between
    <3>2. CASE AfterChange
      BY <3>2 DEF AfterChange, GameChange, IInv, ScheduleInv, Before
    <3>3. CASE FinishChange
      BY <3>3 DEF FinishChange
    <3>4. QED
      BY <1>1, <3>1, <3>2, <3>3
  <2>2. QED
    BY <2>1, ChangeMoves
<1>2. CASE EnterPresent \/ EnterEnded \/ Finish
  <2>1. ~restoring
    BY <1>2 DEF EnterPresent, EnterEnded, Finish, IInv, PhaseInv, Between
  <2>2. ~restoring' /\ sim' = sim /\ store' = store /\ fresh' = fresh
    BY <1>2 DEF EnterPresent, EnterEnded, Finish, Return, core, history
  <2>3. QED
    BY <2>1, <2>2 DEF Still, Line, Point
<1>3. CASE Enter
  <2>1. /\ ~restoring /\ restoring' = just /\ reapply' = reapply
        /\ sim' = sim /\ store' = store /\ fresh' = fresh
    BY <1>3 DEF Enter, IInv, PhaseInv, Between
  <2>2. just => reapply.sim = sim
    BY DEF IInv, ScheduleInv
  <2>3. QED
    BY <2>1, <2>2 DEF Still, Line, Point
<1>4. CASE Step
  <2>1. restoring' = restoring /\ reapply' = reapply /\ store' = store
    BY <1>4 DEF Step
  <2>2. CASE UNCHANGED <<sim, fresh>>
    BY <2>1, <2>2 DEF Still, Line, Point
  <2>3. CASE ~UNCHANGED <<sim, fresh>>
    <3>1. /\ Runs /\ fresh' = FALSE
          /\ \E e \in IF Has("end") THEN {sim.end, 1, 2} ELSE {sim.end},
                w \in IF Has("wait") THEN BOOLEAN ELSE {FALSE} :
               sim' = [sim EXCEPT !.n = @ + 1, !.d = 0, !.end = e, !.wait = w]
      BY <1>4, <2>3 DEF Step
    <3>2. PICK e \in IF Has("end") THEN {sim.end, 1, 2} ELSE {sim.end},
               w \in IF Has("wait") THEN BOOLEAN ELSE {FALSE} :
            sim' = [sim EXCEPT !.n = @ + 1, !.d = 0, !.end = e, !.wait = w]
      BY <3>1
    <3>3. e \in 0..2 /\ w \in BOOLEAN
      <4>1. sim.end \in 0..2
        BY TypeParts DEF IInv, SimType, Sims
      <4>2. e \in 0..2
        BY <3>2, <4>1
      <4>3. w \in BOOLEAN
        BY <3>2, Zenon
      <4>4. QED
        BY <4>2, <4>3
    <3>4. Line = sim /\ Line' = sim' /\ Point' = Point
      BY <2>1, <3>1 DEF Line, Point, Runs
    <3>5. Line' = [Line EXCEPT !.n = @ + 1, !.d = 0, !.end = e, !.wait = w]
      BY <3>2, <3>4
    <3>6. Timeline!Step
      BY <3>1, <3>3, <3>4, <3>5 DEF Timeline!Step, Line, Point
    <3>7. QED
      BY <3>6 DEF Timeline!Next
  <2>4. QED
    BY <2>2, <2>3
<1>5. CASE AfterHeld
  <2>1. restoring => sim = reapply.sim
    BY <1>5 DEF AfterHeld, IInv, ScheduleInv, Before
  <2>2. ~restoring' /\ sim' = sim /\ store' = store /\ fresh' = fresh
    BY <1>5 DEF AfterHeld, Return, core, history
  <2>3. QED
    BY <2>1, <2>2 DEF Still, Line, Point
<1>6. CASE AfterStep
  <2>1. store' = store /\ sim.content \in Contents
    BY <1>6, TypeParts DEF AfterStep, IInv, SimType, Sims
  <2>2. restoring => sim = reapply.sim
    BY <1>6 DEF AfterStep, IInv, ScheduleInv, Before
  <2>3. CASE Boot(sim.content)
    BY <2>1, <2>3, StartsOver
  <2>4. CASE BootFails /\ Return("error")
    <3>1. ~restoring' /\ sim' = sim /\ fresh' = fresh
      BY <2>4 DEF BootFails, Return, history
    <3>2. QED
      BY <2>1, <2>2, <3>1 DEF Still, Line, Point
  <2>5. CASE UNCHANGED <<sim, reapply, restoring, fresh>>
    BY <2>1, <2>5 DEF Still, Line, Point
  <2>6. QED
    BY <1>6, <2>3, <2>4, <2>5 DEF AfterStep, history
<1>7. CASE Draw
  <2>1. restoring' = restoring /\ reapply' = reapply /\ store' = store /\ fresh' = fresh
    BY <1>7 DEF Draw
  <2>2. CASE restoring /\ reapply # None
    BY <2>1, <2>2 DEF Still, Line, Point
  <2>3. CASE ~(restoring /\ reapply # None)
    <3>1. ~fresh
      BY <1>7, <2>3 DEF Draw, IInv, FreshInv
    <3>2. PICK e \in IF Has("end") THEN {sim.end, 1} ELSE {sim.end} :
            sim' = [sim EXCEPT !.d = IF @ = 2 THEN 2 ELSE @ + 1, !.end = e]
      BY <1>7 DEF Draw
    <3>3. e \in 0..2
      <4>1. sim.end \in 0..2
        BY TypeParts DEF IInv, SimType, Sims
      <4>2. QED
        BY <3>2, <4>1
    <3>4. Line = sim /\ Line' = sim' /\ Point' = Point
      BY <2>1, <2>3 DEF Line, Point
    <3>5. Line' = [Line EXCEPT !.d = IF @ = 2 THEN 2 ELSE @ + 1, !.end = e]
      BY <3>2, <3>4
    <3>6. Timeline!Draw
      BY <2>1, <3>1, <3>3, <3>4, <3>5 DEF Timeline!Draw, Line, Point
    <3>7. QED
      BY <3>6 DEF Timeline!Next
  <2>4. QED
    BY <2>2, <2>3
<1>8. CASE FinishRestore
  <2>1. restoring /\ ~restoring' /\ store' = store /\ fresh' = fresh
    BY <1>8 DEF FinishRestore, Return, history
  <2>2. CASE reapply # None
    <3>1. Fits(reapply)
      BY <2>1, <2>2 DEF IInv, ScheduleInv, Fits
    <3>2. sim' = reapply.sim
      BY <1>8, <2>2, <3>1 DEF FinishRestore, PutBack
    <3>3. QED
      BY <2>1, <2>2, <3>2 DEF Still, Line, Point
  <2>3. CASE reapply = None
    <3>1. sim' = sim
      BY <1>8, <2>3 DEF FinishRestore
    <3>2. QED
      BY <2>1, <2>3, <3>1 DEF Still, Line, Point
  <2>4. QED
    BY <2>2, <2>3
<1>9. QED
  BY <1>1, <1>2, <1>3, <1>4, <1>5, <1>6, <1>7, <1>8 DEF InFrame

LEMMA TimelineStep ==
  ASSUME IInv, NoLateGod, [Next]_vars
  PROVE  [Timeline!Next]_(Timeline!tvars)
<1>1. Timeline!Next \/ Still
  <2>1. CASE UNCHANGED vars
    BY <2>1 DEF vars, core, flow, history, Still, Line, Point
  <2>2. CASE InFrame
    BY <2>2, FrameMoves
  <2>3. CASE \/ LoadPrepare \/ LoadStart \/ Unload \/ Reset \/ SetConfig
             \/ Save \/ StateLoad \/ StateLoadStaged \/ StateRefuse \/ StateRollback \/ RunFrame
    <3>1. pc = "ready"
      BY <2>3 DEF LoadPrepare, LoadStart, Unload, Reset, SetConfig, Save, StateLoad, StateLoadStaged,
                  StateRefuse, StateRollback, RunFrame, Idle
    <3>2. QED
      BY <2>3, <3>1, HostMoves
  <2>4. QED
    BY <2>1, <2>2, <2>3 DEF Next
<1>2. Still => UNCHANGED Timeline!tvars
  BY DEF Still, Line, Point, Timeline!tvars
<1>3. QED
  BY <1>1, <1>2

\* Whatever the host does around it, the simulation moves by steps and draws, and goes back only to
\* points that were saved, where a step comes next.  A god_mode change between a load and its redraw
\* has the redraw's state refused: sessions that do so are left out, and lose the property (engine.c,
\* engine_run_frame, the state that is reapplied; engine_state.c, engine_state_load).
THEOREM Refinement ==
  ASSUME \A e \in Envs : "late god" \notin e
  PROVE  Spec => KeepsTheTimeline
<1>1. Init => Timeline!Init
  BY DEF Init, Timeline!Init
<1>2. IInv => NoLateGod
  BY DEF IInv, TypeOK, NoLateGod
<1>3. IInv /\ [Next]_vars => [Timeline!Next]_(Timeline!tvars)
  BY <1>2, TimelineStep
<1>4. QED
  BY Invariance, <1>1, <1>3, PTL DEF Spec, KeepsTheTimeline, Timeline!Spec
=============================================================================
