------------------------------ MODULE VmFrame ------------------------------
(***************************************************************************)
(* One frame of the virtual machine (runtime/vm/gml_vm_frame.c) over the   *)
(* instance pool: the phases dispatch events to instances, event code      *)
(* creates, destroys, changes and deactivates instances and asks for other *)
(* rooms, and a room request is committed at the boundary its generation   *)
(* of the format prescribes (gml_room_enter, runtime/vm/gml_vm_rooms.c).   *)
(* Event code is arbitrary: a handler takes any of the operations below    *)
(* and returns.  Not modelled: animation, input, collision and boundary    *)
(* events, and what handlers compute.                                      *)
(***************************************************************************)
EXTENDS InstancePool

CONSTANTS Policies,        \* generations of the format checked: "classic", "live", "snapshot"
          Placed,          \* per room: its authored placements, a sequence of [obj, id]
          Starts,          \* bound: where a behaviour starts: a room, and which of its placements are gone
          PersistentRoom,  \* rooms that keep their instances while another is shown
          ChainLimit,      \* room changes one boundary may commit (2 * rooms + 8 in the code)
          Habits,          \* unusual things event code does: see Unusual
          MaxOps           \* bound: operations event code performs in a behaviour; Room Start may
                           \* ask for rooms without end

Unusual == {"die in change", "change in change", "overflow", "litter"}
PlacedIds == UNION {{Placed[r][i].id : i \in DOMAIN Placed[r]} : r \in Rooms}

ASSUME FrameAssumption ==
  /\ Policies \subseteq {"classic", "live", "snapshot"} /\ Policies # {}
  /\ Placed \in [Rooms -> Seq([obj : Objects, id : Nat \ {0}])]
  /\ \A r \in Rooms : Len(Placed[r]) <= Cap
  /\ \A f \in Starts : f.room \in Rooms /\ f.gone \subseteq DOMAIN Placed[f.room]
  /\ IsFiniteSet(PlacedIds) /\ PersistentRoom \subseteq Rooms /\ Habits \subseteq Unusual
  /\ ChainLimit \in Nat \ {0} /\ MaxOps \in Nat

VARIABLES
  policy,          \* compatibility profile of the content
  room, pending,   \* room_index and pending_room
  stored,          \* room_stored
  pc,              \* phase of the frame
  at, limit,       \* a loop over the pool: its index and its bound
  todo, groups,    \* a loop over collected slots; the objects still to collect, current one first
  mark,            \* the phase's watermark: ids below it existed when the phase began
  firstId,         \* step_first_id
  ran,             \* an event of this phase has run
  stack,           \* event code in progress, innermost first
  target, after, chain,     \* room change: its room, where the frame resumes, how many so far
  ops,             \* what is left of the bound on operations
  seen,            \* history: the id each slot held when the step took its snapshot
  born             \* history: slots given to instances since the phase, or its group, began

flow == <<policy, room, pending, stored>>
loop == <<at, limit, todo, groups, mark, ran>>
move == <<target, after, chain>>
past == <<seen, born>>
vars == <<poolVars, flow, pc, loop, firstId, stack, move, ops, past>>

NoSlot == -1
Classic == policy = "classic"
StepPhases == {"begin", "timeline", "alarm", "step", "end"}
RoomPhases == {"leave", "clear", "place", "birth", "code", "start", "settle"}
Nothing == [s \in Slots |-> 0]

TypeOK ==
  /\ pool \in [Slots -> [st : {"free", "live", "off", "dormant"}, marked : BOOLEAN, obj : Objects \cup {0},
                         id : Nat, seq : Nat, owner : Rooms \cup {NoRoom}, wasOff : BOOLEAN,
                         placed : BOOLEAN, alarm : BOOLEAN, cleaned : Nat]]
  /\ count \in 0..Cap /\ nextId \in Nat \ {0} /\ nextSeq \in Nat
  /\ alive \in [Objects -> Int] /\ list \in [Objects -> Seq(Slots)]
  /\ holes \in Seq(Slots) /\ stepping \in BOOLEAN /\ base \in 0..Cap
  /\ policy \in Policies /\ room \in Rooms /\ pending \in Rooms \cup {NoRoom} /\ stored \subseteq Rooms
  /\ pc \in {"idle", "reap", "draw"} \cup StepPhases \cup RoomPhases
  /\ at \in Nat /\ limit \in 0..Cap /\ todo \in Seq(Slots) /\ groups \in Seq(Objects)
  /\ mark \in Nat /\ firstId \in Nat /\ ran \in BOOLEAN
  /\ stack \in Seq([k : {"event", "create", "birth", "code", "destroy", "cleanup", "clear", "change"},
                    s : Slots \cup {NoSlot}, to : Objects \cup {0}])
  /\ target \in Rooms \cup {NoRoom} /\ after \in {"timeline", "alarm", "finish"} /\ chain \in 0..ChainLimit
  /\ ops \in 0..MaxOps /\ seen \in [Slots -> Nat] /\ born \subseteq Slots

(* The first room has been entered and no frame has run.  Some of its      *)
(* instances may have destroyed themselves at Room Start: their slots are  *)
(* holes.                                                                  *)
Init ==
  /\ policy \in Policies /\ pending = NoRoom /\ stored = {}
  /\ \E first \in Starts :
       LET here == DOMAIN Placed[room] \ first.gone
           holds(s) == s + 1 \in here
           rank(s) == Cardinality({i \in here : i <= s + 1})
           of(o) == Ascending({s \in Slots : holds(s) /\ Placed[room][s + 1].obj = o})
       IN /\ room = first.room
          /\ pool = [s \in Slots |->
                      IF holds(s)
                      THEN Newborn(Placed[room][s + 1].obj, Placed[room][s + 1].id, rank(s), TRUE, room)
                      ELSE Free]
          /\ count = Len(Placed[room]) /\ nextSeq = Cardinality(here) + 1
          /\ alive = [o \in Objects |-> Cardinality({i \in here : o \in Family[Placed[room][i].obj]})]
          /\ list = [o \in Objects |-> Reverse(of(o))]
  /\ nextId = 1 + CHOOSE i \in PlacedIds \cup {0} : \A j \in PlacedIds : j <= i
  /\ holes = <<>> /\ stepping = FALSE /\ base = 0
  /\ pc = "idle" /\ at = 0 /\ limit = 0 /\ todo = <<>> /\ groups = <<>> /\ mark = 0 /\ firstId = 0
  /\ ran = FALSE /\ stack = <<>> /\ target = NoRoom /\ after = "finish" /\ chain = 0
  /\ ops = MaxOps /\ seen = Nothing /\ born = {}

(* Event code.  The innermost handler in progress acts; creating,          *)
(* destroying and changing run further handlers before it goes on.         *)
Self == Head(stack).s
Push(k, s, o) == stack' = <<[k |-> k, s |-> s, to |-> o]>> \o stack
Acts == stack # <<>> /\ ops > 0
Spend == ops' = ops - 1
Changing(s) == \E i \in DOMAIN stack : stack[i].k = "change" /\ stack[i].s = s
May(h) == h \in Habits

OpCreate(o) ==
  /\ Acts /\ Spend
  /\ (Full => May("overflow")) /\ (pc = "clear" => May("litter"))
  /\ Create(Alloc, o, nextId, FALSE, room) /\ Push("create", Alloc, o)
  /\ born' = born \cup {Alloc}
  /\ UNCHANGED <<flow, pc, loop, firstId, move, seen>>

OpDestroy(t) ==
  /\ Acts /\ Spend /\ Running(t) /\ (Changing(t) => May("die in change"))
  /\ Mark(t) /\ Push("destroy", t, 0)
  /\ UNCHANGED <<flow, pc, loop, firstId, move, past>>

OpChange(o, perform) ==
  /\ Acts /\ Spend /\ Self # NoSlot
  /\ Running(Self) /\ pool[Self].obj # o /\ (Changing(Self) => May("change in change"))
  /\ IF perform THEN ChangeBegin(Self, o) /\ Push("change", Self, o)
                ELSE ChangeQuietly(Self, o) /\ UNCHANGED stack
  /\ UNCHANGED <<flow, pc, loop, firstId, move, past>>

OpDeactivate(t) ==
  /\ Acts /\ Spend /\ Running(t) /\ (Changing(t) => May("die in change"))
  /\ SetActive(t, "off")
  /\ UNCHANGED <<flow, pc, loop, firstId, stack, move, past>>

OpActivate(t) ==
  /\ Acts /\ Spend /\ pool[t].st = "off"
  /\ SetActive(t, "live")
  /\ UNCHANGED <<flow, pc, loop, firstId, stack, move, past>>

OpAlarm ==
  /\ Acts /\ Spend /\ Self # NoSlot /\ ~pool[Self].alarm
  /\ SetAlarm(Self, TRUE)
  /\ UNCHANGED <<flow, pc, loop, firstId, stack, move, past>>

\* Room Start asks for rooms also when the bound is used up, so that rooms may ask for one another
\* in a cycle.
OpRoom(r) ==
  /\ stack # <<>> /\ pending # r
  /\ pending' = r
  /\ IF ops > 0 THEN Spend ELSE pc = "start" /\ UNCHANGED ops
  /\ UNCHANGED <<poolVars, policy, room, stored, pc, loop, firstId, stack, move, past>>

\* A handler returns: destruction goes on to Clean Up, a change to the Create of the new object.
Return ==
  /\ stack # <<>>
  /\ LET f == Head(stack)
     IN CASE f.k = "destroy" -> CleanUp(f.s) /\ stack' = <<[f EXCEPT !.k = "cleanup"]>> \o Tail(stack)
          [] f.k = "clear" -> Dispose(f.s) /\ stack' = Tail(stack)
          [] f.k = "change" ->
               /\ ChangeEnd(f.s, f.to)
               /\ stack' = IF Running(f.s) THEN <<[f EXCEPT !.k = "create"]>> \o Tail(stack) ELSE Tail(stack)
          [] OTHER -> UNCHANGED poolVars /\ stack' = Tail(stack)
  /\ UNCHANGED <<flow, pc, loop, firstId, move, ops, past>>

Operation ==
  \/ \E o \in Objects : OpCreate(o)
  \/ \E t \in Slots : OpDestroy(t)
  \/ \E o \in Objects, perform \in BOOLEAN : OpChange(o, perform)
  \/ \E t \in Slots : OpDeactivate(t)
  \/ \E t \in Slots : OpActivate(t)
  \/ OpAlarm
  \/ \E r \in Rooms : OpRoom(r)

(* The loops that dispatch events.  Grouped loops take one object at a     *)
(* time, the slots of its list at that moment, oldest first; the others    *)
(* walk the pool.                                                          *)
Grouped(ph) == \/ Classic /\ ph \in {"begin", "alarm", "step", "end"}
               \/ policy = "live" /\ ph = "alarm"
InSnapshot(s) == policy = "snapshot" => pool[s].id < firstId
\* Mistake: the index bound alone decides who is in the phase.
InPhaseByIndex(s) == s < limit
InPhase(s) == pool[s].id < mark

Receives(s) ==
  CASE pc \in {"begin", "end"} -> Running(s) /\ (~Classic => InPhase(s) /\ InSnapshot(s))
    [] pc = "alarm" -> Running(s) /\ pool[s].alarm /\ InPhase(s) /\ (~Grouped("alarm") => InSnapshot(s))
    [] pc = "timeline" -> Running(s) /\ InSnapshot(s)
    [] pc = "step" -> Running(s) /\ (~Classic => InSnapshot(s))
    [] pc \in {"leave", "start"} -> Running(s)
    [] pc = "birth" -> Exists(s) /\ ~pool[s].marked
    [] OTHER -> FALSE

\* A collected slot must still hold an instance of the object it was collected for.
Collected(o) == Sift(Reverse(list[o]), {s \in Slots : Running(s)})
Collects == Grouped(pc) \/ pc = "birth"
Due == IF Collects
       THEN {i \in DOMAIN todo : /\ todo[i] < count /\ Receives(todo[i])
                                 /\ Grouped(pc) => pool[todo[i]].obj = Head(groups)}
       ELSE {s \in at..((IF pc = "leave" THEN count ELSE limit) - 1) : Receives(s)}

\* Classic dispatch stops at a room request; Studio's once the requesting event has returned.
Interrupted == /\ pending # NoRoom
               /\ \/ Classic /\ pc \in {"begin", "step", "end"}
                  \/ ~Classic /\ pc \in {"begin", "step"} /\ ran
Ready == stack = <<>> /\ ~Interrupted
LoopOver == stack = <<>> /\ (Interrupted \/ (Due = {} /\ Len(groups) <= 1))

Dispatch ==
  /\ pc \in StepPhases \cup {"leave", "birth", "start"} /\ Ready /\ Due # {}
  /\ LET d == Least(Due)
         s == IF Collects THEN todo[d] ELSE d
     IN /\ Push("event", s, 0)
        /\ IF Collects THEN todo' = SubSeq(todo, d + 1, Len(todo)) /\ UNCHANGED at
                       ELSE at' = d + 1 /\ UNCHANGED todo
        /\ IF pc = "alarm" THEN SetAlarm(s, FALSE) ELSE UNCHANGED poolVars
  /\ ran' = TRUE
  /\ UNCHANGED <<flow, pc, limit, groups, mark, firstId, move, ops, past>>

NextGroup ==
  /\ Grouped(pc) /\ Ready /\ Due = {} /\ Len(groups) > 1
  /\ groups' = Tail(groups) /\ todo' = Collected(Head(Tail(groups)))
  /\ IF Classic THEN mark' = nextId /\ born' = {} ELSE UNCHANGED <<mark, born>>
  /\ UNCHANGED <<poolVars, flow, pc, at, limit, ran, firstId, stack, move, ops, seen>>

(* The frame.  base is both step_alloc_base and the frame's extent n.      *)
EnterPhase(ph, extent) ==
  /\ pc' = ph /\ at' = 0 /\ limit' = extent
  /\ groups' = IF Grouped(ph) THEN Ascending(Objects) ELSE <<>>
  /\ todo' = IF Grouped(ph) THEN Collected(Head(Ascending(Objects))) ELSE <<>>
  /\ mark' = nextId /\ ran' = FALSE /\ born' = {}

\* gml_vm_instances_prepare_step and the two assignments that always accompany it
TakeSnapshot ==
  /\ holes' = HolesNow /\ base' = count /\ firstId' = nextId
  /\ seen' = [s \in Slots |-> IF s < count /\ ~IsFree(s) THEN pool[s].id ELSE 0]

StartFrame ==
  /\ pc = "idle"
  /\ TakeSnapshot /\ stepping' = TRUE /\ EnterPhase("begin", count)
  /\ UNCHANGED <<pool, count, nextId, nextSeq, alive, list, flow, stack, move, ops>>

\* Where a room request made by the end of this phase lets the frame go on.
Resumption ==
  CASE pc = "begin" /\ ~Classic /\ ran -> "timeline"
    [] pc = "timeline" -> "alarm"
    [] pc \in {"begin", "alarm", "step", "end"} /\ Classic -> "finish"
    [] pc = "step" /\ ran -> "finish"
    [] pc = "reap" -> "finish"
    [] OTHER -> "later"
Commits == pending # NoRoom /\ Resumption # "later"

PhaseEnds ==
  /\ pc \in StepPhases \ {"end"} /\ LoopOver /\ ~Commits
  /\ CASE pc = "begin" -> EnterPhase("timeline", base)
       [] pc = "timeline" -> EnterPhase("alarm", base)
       [] pc = "alarm" -> EnterPhase("step", IF policy = "snapshot" THEN base ELSE count)
       [] pc = "step" -> EnterPhase("end", base)
  /\ UNCHANGED <<poolVars, flow, firstId, stack, move, ops, seen>>

\* Only a frame that ends without a classic room request reaps its dead here.
EndStepEnds ==
  /\ pc = "end" /\ LoopOver /\ ~Commits
  /\ Reap /\ EnterPhase("reap", 0) /\ seen' = Nothing
  /\ UNCHANGED <<flow, firstId, stack, move, ops>>

\* gml_vm_finish_step, and the slots the draw that follows collects
FinishStep ==
  /\ base' = 0 /\ stepping' = FALSE /\ holes' = <<>> /\ count' = Trimmed
  /\ pc' = "draw" /\ at' = 0 /\ limit' = 0 /\ groups' = <<>> /\ mark' = 0 /\ ran' = FALSE
  /\ todo' = Ascending({s \in 0..(count - 1) : Running(s)})
  /\ target' = NoRoom /\ after' = "finish" /\ chain' = 0 /\ firstId' = 0
  /\ seen' = Nothing /\ born' = {}
  /\ UNCHANGED <<pool, nextId, nextSeq, alive, list, flow, stack, ops>>

EndFrame == pc = "reap" /\ ~Commits /\ FinishStep

\* Drawn by depth, which is not modelled: in any order.  What was collected is drawn, dead or not.
DrawOne ==
  /\ pc = "draw" /\ stack = <<>>
  /\ \E i \in DOMAIN todo : Push("event", todo[i], 0) /\ todo' = RemoveAt(todo, i)
  /\ UNCHANGED <<poolVars, flow, pc, at, limit, groups, mark, ran, firstId, move, ops, past>>

DrawEnds ==
  /\ pc = "draw" /\ stack = <<>> /\ todo = <<>>
  /\ pc' = "idle"
  /\ UNCHANGED <<poolVars, flow, loop, firstId, stack, move, ops, past>>

(* A room change (gml_vm_apply_one_pending_room and gml_room_enter).       *)
StartMove(resume, n) ==
  /\ target' = pending /\ pending' = NoRoom /\ after' = resume /\ chain' = n
  /\ base' = 0 /\ seen' = Nothing
  /\ EnterPhase("leave", 0)
  /\ UNCHANGED <<pool, count, nextId, nextSeq, alive, list, holes, stepping,
                 policy, room, stored, firstId, stack, ops>>

CommitRequest ==
  /\ pc \in StepPhases \cup {"reap"} /\ LoopOver /\ Commits
  /\ StartMove(Resumption, 1)

\* Room End has run.  A room that keeps its instances needs memory for its visuals: without it, it stays.
CannotStore ==
  /\ pc = "leave" /\ LoopOver /\ room \in PersistentRoom
  /\ pending' = NoRoom /\ EnterPhase("settle", 0)
  /\ UNCHANGED <<poolVars, policy, room, stored, firstId, stack, move, ops, seen>>

LeaveRoom ==
  /\ pc = "leave" /\ LoopOver
  /\ IF room \in PersistentRoom THEN stored' = stored \cup {room} /\ PutToSleep(room)
                                ELSE stored' = stored \ {room} /\ UNCHANGED poolVars
  /\ EnterPhase("clear", 0)
  /\ UNCHANGED <<policy, room, pending, firstId, stack, move, ops, seen>>

\* Mistake: deactivated instances are passed over.
LeavingActive == {s \in at..(count - 1) : pool[s].st = "live" /\ ~Kept(s)}

\* Everyone else who is not persistent goes: active, deactivated or already marked.
Leaving == {s \in at..(count - 1) : Exists(s) /\ ~Kept(s)}
ClearOne ==
  /\ pc = "clear" /\ stack = <<>> /\ Leaving # {}
  /\ CleanUp(Least(Leaving)) /\ Push("clear", Least(Leaving), 0) /\ at' = Least(Leaving) + 1
  /\ UNCHANGED <<flow, pc, limit, todo, groups, mark, ran, firstId, move, ops, past>>

EnterRoom ==
  /\ pc = "clear" /\ stack = <<>> /\ Leaving = {}
  /\ room' = target /\ pending' = NoRoom /\ Adopt(target)
  /\ EnterPhase("place", 0)
  /\ UNCHANGED <<policy, stored, firstId, stack, move, ops, seen>>

\* A stored room wakes its instances: Room Start is the only event they get.
RestoreRoom ==
  /\ pc = "place" /\ room \in stored
  /\ stored' = stored \ {room} /\ WakeUp(room) /\ EnterPhase("start", count)
  /\ UNCHANGED <<policy, room, pending, firstId, stack, move, ops, seen>>

PlaceOne ==
  /\ pc = "place" /\ room \notin stored /\ at < Len(Placed[room]) /\ (Full => May("overflow"))
  /\ LET p == Placed[room][at + 1] IN Create(Alloc, p.obj, p.id, TRUE, room)
  /\ todo' = Append(todo, Alloc) /\ at' = at + 1
  /\ UNCHANGED <<flow, pc, limit, groups, mark, ran, firstId, stack, move, ops, past>>

\* Every placement exists before the first Create event and creation code run.
PlacesEnd ==
  /\ pc = "place" /\ room \notin stored /\ at = Len(Placed[room])
  /\ pc' = "birth" /\ at' = 0
  /\ UNCHANGED <<poolVars, flow, limit, todo, groups, mark, ran, firstId, stack, move, ops, past>>

\* The room's creation code runs with a self that is not in the pool.
CreationCode ==
  /\ pc = "birth" /\ LoopOver
  /\ Push("code", NoSlot, 0) /\ pc' = "code" /\ todo' = <<>>
  /\ UNCHANGED <<poolVars, flow, at, limit, groups, mark, ran, firstId, move, ops, past>>

CreationCodeEnds ==
  /\ pc = "code" /\ stack = <<>>
  /\ EnterPhase("start", count)
  /\ UNCHANGED <<poolVars, flow, firstId, stack, move, ops, seen>>

RoomStartEnds ==
  /\ pc = "start" /\ LoopOver
  /\ ReapAndRebase /\ EnterPhase("settle", 0)
  /\ UNCHANGED <<flow, firstId, stack, move, ops, seen>>

(* Room Start may have asked for another room: gml_vm_apply_pending_room   *)
(* goes on, so often.  Then the frame resumes, on a fresh snapshot, or     *)
(* ends.                                                                   *)
\* Mistake: the changes of a chain are not counted.
MoveAgainUncounted ==
  /\ pc = "settle" /\ pending # NoRoom /\ chain < ChainLimit
  /\ StartMove(after, chain)

MoveAgain ==
  /\ pc = "settle" /\ pending # NoRoom /\ chain < ChainLimit
  /\ StartMove(after, chain + 1)

Moved == pc = "settle" /\ (pending = NoRoom \/ chain >= ChainLimit)

ResumeFrame ==
  /\ Moved /\ after # "finish"
  /\ TakeSnapshot /\ EnterPhase(after, count)
  /\ target' = NoRoom /\ after' = "finish" /\ chain' = 0
  /\ UNCHANGED <<pool, count, nextId, nextSeq, alive, list, stepping, flow, stack, ops>>

EndMovedFrame == Moved /\ after = "finish" /\ FinishStep

Engine ==
  \/ StartFrame \/ Dispatch \/ NextGroup \/ PhaseEnds \/ EndStepEnds \/ EndFrame \/ DrawOne \/ DrawEnds
  \/ CommitRequest \/ CannotStore \/ LeaveRoom \/ ClearOne \/ EnterRoom \/ RestoreRoom \/ PlaceOne
  \/ PlacesEnd \/ CreationCode \/ CreationCodeEnds \/ RoomStartEnds \/ MoveAgain \/ ResumeFrame
  \/ EndMovedFrame

Next == Engine \/ Operation \/ Return
Spec == Init /\ [][Next]_vars
\* Handlers return and the host keeps running frames.  One of the two is enabled at a time: the engine
\* waits while event code is in progress.
FairSpec == Spec /\ WF_vars(Return \/ Engine)

----------------------------------------------------------------------------
(* Properties.                                                             *)
Undisturbed == ~\E i \in DOMAIN stack : stack[i].k = "change"
Family0(o) == {s \in Slots : Exists(s) /\ o \in Family[pool[s].obj]}

\* Unless a change is under way, obj_alive counts exactly the instances of each family, marked and
\* deactivated ones included, and each object's list holds exactly its instances, once each: what
\* instance_number's shortcut on a zero count and the grouped dispatch rest on.
IndexesExact ==
  Undisturbed => \A o \in Objects :
    /\ alive[o] = Cardinality(Family0(o))
    /\ ToSet(list[o]) = {s \in Slots : Exists(s) /\ pool[s].obj = o}
    /\ Len(list[o]) = Cardinality(ToSet(list[o]))

\* Between two snapshots of a frame no slot the snapshot names passes to another instance, whatever
\* handlers destroy and create: the loops hold indices across event code.
SlotHeld == \A s \in Slots : seen[s] # 0 => pool[s].id = seen[s]

\* An instance created inside a phase (classic formats: inside its object's group) gets no event of
\* that phase, even in a recycled slot the loop has not reached; the live-iteration Step is exempt.
NewbornWaits ==
  Dispatch /\ pc \in {"begin", "alarm", "step", "end"} /\ ~(policy = "live" /\ pc = "step")
    => Head(stack').s \notin born

\* No instance disappears without its Clean Up event: neither reaped nor cleared at a room change.
EachCleaned == \A s \in Slots : ~IsFree(s) /\ IsFree(s)' => pool[s].cleaned > 0

\* Two instances with one id were both placed by a room: no dynamic id is ever given out twice.
DynamicIdsUnique ==
  \A s \in Slots : ~IsFree(s) =>
    \A t \in 0..(s - 1) : ~IsFree(t) /\ pool[s].id = pool[t].id => pool[s].placed /\ pool[t].placed

\* A number stands for one instance: a slot while a loop holds it, a dynamic id for ever.
IdentityKept == SlotHeld /\ DynamicIdsUnique

\* Outside a room change, every instance belongs to the current room; the others are dormant, in
\* rooms that are stored.
NobodyLeftBehind ==
  pc \notin RoomPhases =>
    \A s \in Slots : /\ (Exists(s) => pool[s].owner = room)
                     /\ (pool[s].st = "dormant" => pool[s].owner \in stored \ {room})

\* A dormant instance keeps its slot, identity and alarm until its own room is entered, and comes
\* back deactivated exactly if it was when it left.
DormantKept ==
  \A s \in Slots :
    LET now == pool[s] then == pool'[s]
    IN /\ now.st # "dormant" /\ then.st = "dormant" => (then.wasOff <=> now.st = "off")
       /\ now.st = "dormant" =>
            /\ <<then.id, then.obj, then.alarm>> = <<now.id, now.obj, now.alarm>>
            /\ \/ then.st = "dormant"
               \/ room = now.owner /\ then.st = (IF now.wasOff THEN "off" ELSE "live")

\* In classic formats no instance of the old room gets another Begin Step, Step or End Step event once
\* a room has been asked for, in this phase or an earlier one.
ClassicStopsAtRequest ==
  Classic /\ Dispatch /\ pc \in {"begin", "step", "end"} => pending = NoRoom

\* Who gets an event is decided as the generation of the content prescribes: newborns wait for the
\* next phase, and classic rooms fall silent when another is asked for.
RightEvents == [][NewbornWaits /\ ClassicStopsAtRequest]_vars

\* Instances end and sleep by the rules: none without Clean Up, none changed by its sleep.
LivesKept == [][EachCleaned /\ DormantKept]_pool

\* Rooms whose Room Start asks for another room each time, in a cycle without end, hang nothing: the
\* chain of one frame is cut off (gml_vm_frame.c:365), every frame ends, and the request that was
\* left over is taken up by a later one.
RequestServed ==
  /\ []<>(pending = NoRoom)
  /\ []<>(pc = "idle")
=============================================================================
