---------------------------- MODULE InstancePool ----------------------------
(***************************************************************************)
(* The fixed pool of instances (runtime/vm/gml_vm_instances.c): slots are  *)
(* handed out and reused, instances die in two steps (marked, then         *)
(* reaped), and two indexes are kept beside the pool, the live counts of   *)
(* object families and the list of each exact object.  This module holds   *)
(* the state and the operations; VmFrame drives them.  Slot numbers are    *)
(* the code's array indices.                                               *)
(***************************************************************************)
EXTENDS Integers, Sequences, FiniteSets, SequencesExt

CONSTANTS Cap,        \* inst_cap: the pool never grows and never moves
          Objects,    \* object resources, as their indices
          Family,     \* each object's chain of parents, itself included
          Rooms,      \* rooms, as their indices
          KeptObject  \* objects whose instances are authored persistent

ASSUME PoolAssumption ==
  /\ Cap \in Nat \ {0}
  /\ Objects \subseteq Nat /\ IsFiniteSet(Objects) /\ Objects # {}
  /\ Rooms \subseteq Nat /\ KeptObject \subseteq Objects
  /\ Family \in [Objects -> SUBSET Objects] /\ \A o \in Objects : o \in Family[o]

VARIABLES
  pool,       \* inst[0 .. inst_cap-1]
  count,      \* inst_count
  nextId,     \* next_id
  nextSeq,    \* next_creation_seq
  alive,      \* obj_alive
  list,       \* obj_head / inst_next / inst_prev: each object's slots, newest first
  holes,      \* step_free from step_free_pos on: holes that were free when the step began
  stepping,   \* step_active
  base        \* step_alloc_base

poolVars == <<pool, count, nextId, nextSeq, alive, list, holes, stepping, base>>

Slots == 0..(Cap - 1)
NoRoom == -1

\* `live` is active=1, `off` is deactivated=1, `dormant` is room_dormant=1; a free slot has none.
Free == [st |-> "free", marked |-> FALSE, obj |-> 0, id |-> 0, seq |-> 0, owner |-> NoRoom,
         wasOff |-> FALSE, placed |-> FALSE, alarm |-> FALSE, cleaned |-> 0]
Newborn(o, id, seq, isPlaced, inRoom) ==
  [st |-> "live", marked |-> FALSE, obj |-> o, id |-> id, seq |-> seq, owner |-> inRoom,
   wasOff |-> FALSE, placed |-> isPlaced, alarm |-> FALSE, cleaned |-> 0]

Kept(s) == pool[s].obj \in KeptObject
IsFree(s) == pool[s].st = "free"
Exists(s) == pool[s].st \in {"live", "off"}
Running(s) == pool[s].st = "live" /\ ~pool[s].marked

\* The members of a set of numbers, upwards, and those members of a sequence that are in a set.
Ascending(S) == [i \in 1..Cardinality(S) |-> CHOOSE x \in S : Cardinality({y \in S : y < x}) = i - 1]
Sift(q, S) == LET places == Ascending({i \in DOMAIN q : q[i] \in S})
              IN [i \in 1..Len(places) |-> q[places[i]]]

\* gml_obj_alive_adjust: every object of the chain of parents is counted.
Adjusted(a, o, d) == [p \in Objects |-> IF p \in Family[o] THEN a[p] + d ELSE a[p]]
Linked(l, s, o) == [l EXCEPT ![o] = <<s>> \o @]
Unlinked(l, s, o) == [l EXCEPT ![o] = Sift(@, Slots \ {s})]

(* The allocator.  Outside a step any hole of the pool will do; inside one *)
(* only the holes recorded when the step began, for a slot emptied since   *)
(* may still be named by the event snapshot.  A full pool gives its last   *)
(* slot away, whoever is in it.                                            *)
InStep == stepping /\ base > 0
UsableHoles == {j \in DOMAIN holes : holes[j] < count /\ IsFree(holes[j])}
\* Mistake: only instances of the current room are seen to occupy a slot.
FreeForThisRoom == {s \in 0..(count - 1) : ~Exists(s)}
FreeBelow == {s \in 0..(count - 1) : IsFree(s)}
Least(S) == CHOOSE x \in S : \A y \in S : x <= y
Recycles == IF InStep THEN UsableHoles # {} ELSE FreeBelow # {}
Full == ~Recycles /\ count >= Cap

Alloc ==
  CASE Recycles /\ InStep -> holes[Least(UsableHoles)]
    [] Recycles /\ ~InStep -> Least(FreeBelow)
    [] ~Recycles /\ count < Cap -> count
    [] OTHER -> Cap - 1

IdAfter(isPlaced) == IF isPlaced THEN nextId ELSE nextId + 1

\* gml_vm_instances_alloc then gml_vm_instances_initialize: slot s = Alloc becomes an instance of o.
Create(s, o, id, isPlaced, inRoom) ==
  LET fresh == IF nextSeq = 0 THEN 1 ELSE nextSeq
      seq == IF InStep THEN fresh ELSE s + 1
      evicts == Full /\ Exists(s)
      a == IF evicts THEN Adjusted(alive, pool[s].obj, -1) ELSE alive
      l == IF evicts THEN Unlinked(list, s, pool[s].obj) ELSE list
  IN /\ pool' = [pool EXCEPT ![s] = Newborn(o, id, seq, isPlaced, inRoom)]
     /\ count' = IF Recycles \/ count >= Cap THEN count ELSE count + 1
     /\ holes' = IF ~InStep THEN holes
                 ELSE IF Recycles THEN SubSeq(holes, Least(UsableHoles) + 1, Len(holes)) ELSE <<>>
     /\ nextId' = IdAfter(isPlaced)
     /\ nextSeq' = IF InStep THEN fresh + 1 ELSE IF nextSeq <= seq THEN seq + 1 ELSE nextSeq
     /\ alive' = Adjusted(a, o, 1)
     /\ list' = Linked(l, s, o)
     /\ UNCHANGED <<stepping, base>>

\* Mistake: the slot is released at once.
MarkAndFree(s) ==
  /\ pool' = [pool EXCEPT ![s] = Free]
  /\ UNCHANGED <<count, nextId, nextSeq, alive, list, holes, stepping, base>>

\* gml_instance_destroy_with_event, first half: no longer a target before its Destroy event runs.
Mark(s) ==
  /\ pool' = [pool EXCEPT ![s].marked = TRUE]
  /\ UNCHANGED <<count, nextId, nextSeq, alive, list, holes, stepping, base>>

\* The Clean Up event of the instance in slot s begins.
CleanUp(s) ==
  /\ pool' = [pool EXCEPT ![s].cleaned = @ + 1]
  /\ UNCHANGED <<count, nextId, nextSeq, alive, list, holes, stepping, base>>

\* instance_deactivate_* and instance_activate_*: the indexes keep a deactivated instance.
SetActive(s, st) ==
  /\ pool' = [pool EXCEPT ![s].st = st]
  /\ UNCHANGED <<count, nextId, nextSeq, alive, list, holes, stepping, base>>

SetAlarm(s, on) ==
  /\ pool' = [pool EXCEPT ![s].alarm = on]
  /\ UNCHANGED <<count, nextId, nextSeq, alive, list, holes, stepping, base>>

(* gml_instance_change: the counts and the list move before the Destroy    *)
(* event, the instance itself after it, and only if it is still alive.     *)
ChangeBegin(s, o) ==
  /\ alive' = Adjusted(Adjusted(alive, pool[s].obj, -1), o, 1)
  /\ list' = Unlinked(list, s, pool[s].obj)
  /\ UNCHANGED <<pool, count, nextId, nextSeq, holes, stepping, base>>

ChangeEnd(s, o) ==
  /\ IF Running(s) THEN pool' = [pool EXCEPT ![s].obj = o] /\ list' = Linked(list, s, o)
                   ELSE UNCHANGED pool /\ list' = Linked(list, s, pool[s].obj)
  /\ UNCHANGED <<count, nextId, nextSeq, alive, holes, stepping, base>>

ChangeQuietly(s, o) ==
  /\ alive' = Adjusted(Adjusted(alive, pool[s].obj, -1), o, 1)
  /\ list' = Linked(Unlinked(list, s, pool[s].obj), s, o)
  /\ pool' = [pool EXCEPT ![s].obj = o]
  /\ UNCHANGED <<count, nextId, nextSeq, holes, stepping, base>>

\* Both indexes without the instances in the slots S.
Without(S) ==
  /\ alive' = [o \in Objects |-> alive[o] - Cardinality({s \in S : o \in Family[pool[s].obj]})]
  /\ list' = [o \in Objects |-> Sift(list[o], Slots \ {s \in S : pool[s].obj = o})]

\* gml_vm_instances_reap
Doomed == {s \in 0..(count - 1) : pool[s].st = "live" /\ pool[s].marked}
Reap ==
  /\ Without(Doomed)
  /\ pool' = [s \in Slots |-> IF s \in Doomed THEN Free ELSE pool[s]]
  /\ UNCHANGED <<count, nextId, nextSeq, holes, stepping, base>>

\* gml_vm_instances_reap then gml_vm_instances_rebase_order, as every room entry ends.
Held == {s \in 0..(count - 1) : ~IsFree(s) /\ s \notin Doomed}
ReapAndRebase ==
  LET rank(s) == Cardinality({t \in Held : t <= s})
  IN /\ Without(Doomed)
     /\ pool' = [s \in Slots |-> IF s \in Doomed THEN Free
                                 ELSE IF s \in Held THEN [pool[s] EXCEPT !.seq = rank(s)] ELSE pool[s]]
     /\ nextSeq' = Cardinality(Held) + 1
     /\ UNCHANGED <<count, nextId, holes, stepping, base>>

\* Mistake: the family counts are not told.
DisposeUncounted(s) ==
  /\ list' = Unlinked(list, s, pool[s].obj)
  /\ pool' = [pool EXCEPT ![s] = Free]
  /\ UNCHANGED <<alive, count, nextId, nextSeq, holes, stepping, base>>

\* The disposal of one instance at a room change, after its Clean Up event.
Dispose(s) ==
  /\ alive' = Adjusted(alive, pool[s].obj, -1)
  /\ list' = Unlinked(list, s, pool[s].obj)
  /\ pool' = [pool EXCEPT ![s] = Free]
  /\ UNCHANGED <<count, nextId, nextSeq, holes, stepping, base>>

\* A persistent room is left: its own instances wait, outside both indexes, until it is entered again.
Sleepers(r) == {s \in 0..(count - 1) : Exists(s) /\ ~pool[s].marked /\ ~Kept(s) /\ pool[s].owner = r}
PutToSleep(r) ==
  /\ Without(Sleepers(r))
  /\ pool' = [s \in Slots |-> IF s \in Sleepers(r)
                              THEN [pool[s] EXCEPT !.st = "dormant", !.wasOff = pool[s].st = "off"]
                              ELSE pool[s]]
  /\ UNCHANGED <<count, nextId, nextSeq, holes, stepping, base>>

Woken(r) == {s \in 0..(count - 1) : pool[s].st = "dormant" /\ pool[s].owner = r}
WakeUp(r) ==
  /\ alive' = [o \in Objects |-> alive[o] + Cardinality({s \in Woken(r) : o \in Family[pool[s].obj]})]
  /\ list' = [o \in Objects |->
               Reverse(Ascending({s \in Woken(r) : pool[s].obj = o})) \o list[o]]
  /\ pool' = [s \in Slots |-> IF s \in Woken(r)
                              THEN [pool[s] EXCEPT !.st = IF pool[s].wasOff THEN "off" ELSE "live",
                                                   !.wasOff = FALSE]
                              ELSE pool[s]]
  /\ UNCHANGED <<count, nextId, nextSeq, holes, stepping, base>>

\* The instances that outlive their room belong to the room entered.
Adopt(r) ==
  /\ pool' = [s \in Slots |-> IF Exists(s) /\ Kept(s) THEN [pool[s] EXCEPT !.owner = r] ELSE pool[s]]
  /\ UNCHANGED <<count, nextId, nextSeq, alive, list, holes, stepping, base>>

\* gml_vm_instances_prepare_step with the extent the frame uses: the holes at this moment.
HolesNow == Ascending({s \in 0..(count - 1) : IsFree(s)})

\* Mistake: one slot too many is kept.
TrimmedOffByOne == IF Held \cup Doomed = {} THEN 0
                   ELSE 2 + CHOOSE s \in Held \cup Doomed : \A t \in Held \cup Doomed : t <= s

\* gml_vm_instances_trim_pool_tail
Trimmed == IF Held \cup Doomed = {} THEN 0
           ELSE 1 + CHOOSE s \in Held \cup Doomed : \A t \in Held \cup Doomed : t <= s
=============================================================================
