------------------------------ MODULE ParkedRuns ------------------------------
(***************************************************************************)
(* Event code that waits in a loop is parked: the run that waits and the    *)
(* runs that called it are moved from the C stack into a chain of frames,   *)
(* innermost first, and the event goes on in a later frame of the game      *)
(* (gml_vm_exec.c, vm_wait_park and gml_vm_wait_resume).                    *)
(* Beside it the structs that runs hold: slots with a generation, recycled *)
(* by a collector that runs when the C stack is empty, which is not when no *)
(* run is under way.                                                        *)
(***************************************************************************)
EXTENDS Integers, Sequences, SequencesExt, FiniteSets

CONSTANTS
  NSlots,     \* bound: slots of the struct table
  GenMod,     \* number of generations a handle can tell apart
  MaxUses,    \* bound: how often a slot is handed out
  Placed,     \* instances a room places, and places again when it restarts
  Dynamic,    \* instances created once
  MaxDepth,   \* bound: runs on the C stack
  MaxBeside,  \* bound: the same while an event is parked
  MaxFrames,  \* length of a chain
  Sites,      \* places in the code that wait
  None        \* no handle, no site

Slots == 0..(NSlots - 1)
Ids == Placed \cup Dynamic
Handle == [slot : Slots, use : 1..MaxUses]

ASSUME ParkedAssumption ==
  /\ NSlots \in Nat /\ MaxUses \in Nat \ {0} /\ MaxFrames \in Nat
  /\ MaxDepth \in Nat \ {0} /\ MaxBeside \in 0..MaxDepth
  /\ GenMod \in Nat \ {0}
  /\ None \notin Handle \cup Sites \cup Ids

VARIABLES
  pc,        \* "idle" between frames, "resume" while a parked event goes on, "events"
  stack,     \* the runs on the C stack, the latest at the end
  wait,      \* GmlWait: active, parking, expected, frames
  alive,     \* instances that their id finds
  global,    \* a struct held by a variable that lasts
  uses,      \* how often each slot was handed out; its generation is this modulo GenMod
  live,      \* slots that hold a struct
  spare,     \* the list of free slots, the latest at the end
  nStructs,  \* slots in use or spare
  lost       \* a collection has run while only a parked run held a struct

table == <<uses, live, spare, nStructs>>
vars == <<pc, stack, wait, alive, global, table, lost>>

\* Of a run outside a chain only the struct it holds matters: it has no self and no site.
Run == [self : Ids \cup {None}, kept : Handle \cup {None}, site : Sites \cup {None},
        chain : BOOLEAN, busy : BOOLEAN]
\* A frame remembers the depth its run had (history) and whether a run below it will answer it.
Parked == [self : Ids, kept : Handle \cup {None}, site : Sites \cup {None},
           pushes : BOOLEAN, depth : 1..MaxDepth]
Nothing == [active |-> FALSE, parking |-> FALSE, expected |-> 0, frames |-> <<>>]

TypeOK ==
  /\ pc \in {"idle", "resume", "events"}
  /\ stack \in Seq(Run) /\ Len(stack) <= MaxDepth
  /\ (pc = "idle" => stack = <<>>)
  /\ wait \in [active : BOOLEAN, parking : BOOLEAN, expected : 0..MaxDepth, frames : Seq(Parked)]
  /\ Len(wait.frames) <= MaxFrames
  /\ alive \subseteq Ids /\ global \in Handle \cup {None}
  /\ uses \in [Slots -> 0..MaxUses] /\ nStructs \in 0..NSlots
  /\ live = {s \in 0..(nStructs - 1) : s \notin ToSet(spare)}
  /\ spare \in Seq(0..(nStructs - 1)) /\ Len(spare) = Cardinality(ToSet(spare))
  /\ lost \in BOOLEAN

Init ==
  /\ pc = "idle" /\ stack = <<>> /\ wait = Nothing
  /\ alive = Ids /\ global = None
  /\ uses = [s \in Slots |-> 0] /\ live = {} /\ spare = <<>> /\ nStructs = 0
  /\ lost = FALSE
-----------------------------------------------------------------------------
(* Structs.                                                                *)

\* A handle names a slot and a generation; which use of the slot it meant is history.
Found(h) == h.slot \in live /\ uses[h.slot] % GenMod = h.use % GenMod
Own(h) == h.slot \in live /\ uses[h.slot] = h.use

Held(seq) == {seq[i].kept : i \in DOMAIN seq} \ {None}
Rooted == {global} \ {None}
Marked == {h.slot : h \in {h \in Rooted : Found(h)}}

\* The sweep walks the table upwards and puts what it frees on the list.
Swept == live \ Marked
Ascending(S) == [i \in 1..Cardinality(S) |-> CHOOSE s \in S : Cardinality({t \in S : t < s}) = i - 1]

\* Mistake: slots that hold nothing are freed again.
FreedAgain == Ascending(0..(nStructs - 1) \ Marked)

Freed == Ascending(Swept)

Collect ==
  /\ live' = live \cap Marked /\ spare' = spare \o Freed
  /\ lost' = (lost \/ \E h \in Held(wait.frames) : h.slot \in Swept)
  /\ UNCHANGED <<uses, nStructs>>

Spares == UNCHANGED <<table, lost>>

\* gml_struct_new takes the slot that was freed last, or one more.
TakeSpare ==
  /\ spare # <<>>
  /\ LET s == Last(spare)
     IN /\ uses[s] < MaxUses
        /\ spare' = Front(spare) /\ live' = live \cup {s}
        /\ uses' = [uses EXCEPT ![s] = @ + 1] /\ UNCHANGED nStructs
        /\ stack' = [stack EXCEPT ![Len(stack)].kept = [slot |-> s, use |-> uses[s] + 1]]

TakeNew ==
  /\ spare = <<>> /\ nStructs < NSlots
  /\ nStructs' = nStructs + 1 /\ live' = live \cup {nStructs} /\ UNCHANGED spare
  /\ uses' = [uses EXCEPT ![nStructs] = @ + 1]
  /\ stack' = [stack EXCEPT ![Len(stack)].kept = [slot |-> nStructs, use |-> uses[nStructs] + 1]]
-----------------------------------------------------------------------------
(* What a run does.                                                        *)

Running == pc # "idle" /\ stack # <<>> /\ ~wait.parking
Top == Last(stack)
Pop == stack' = Front(stack)

\* Mistake: a full table is collected at once.
NewStructOrCollect ==
  /\ Running /\ UNCHANGED <<pc, wait, alive, global, lost>>
  /\ \/ TakeSpare
     \/ TakeNew
     \/ /\ spare = <<>> /\ nStructs = NSlots
        /\ live' = live \cap Marked /\ spare' = Freed /\ UNCHANGED <<uses, nStructs, stack>>

NewStruct ==
  /\ Running /\ (TakeSpare \/ TakeNew)
  /\ UNCHANGED <<pc, wait, alive, global, lost>>

Store ==
  /\ Running /\ global' \in {Top.kept, None}
  /\ UNCHANGED <<pc, stack, wait, alive>> /\ Spares

Fetch ==
  /\ Running /\ stack' = [stack EXCEPT ![Len(stack)].kept = global]
  /\ UNCHANGED <<pc, wait, alive, global>> /\ Spares

\* A run belongs to the chain if a run of the chain called it directly.
ChainOf(direct) == direct /\ Top.chain

NewRun(self, h, inChain) == [self |-> IF inChain THEN self ELSE None, kept |-> h, site |-> None,
                             chain |-> inChain, busy |-> FALSE]

\* A call opcode, or a builtin that calls back or runs another instance's event.
Call(self, direct) ==
  /\ Running /\ Len(stack) < (IF wait.active THEN MaxBeside ELSE MaxDepth)
  /\ stack' = Append(stack, NewRun(self, Top.kept, ChainOf(direct)))
  /\ UNCHANGED <<pc, wait, alive, global>> /\ Spares

\* A with-block, or a compound assignment to an array, is under way in the run; only in a chain it tells.
Block ==
  /\ Running /\ Top.chain /\ stack' = [stack EXCEPT ![Len(stack)].busy = ~@]
  /\ UNCHANGED <<pc, wait, alive, global>> /\ Spares

Destroy(i) ==
  /\ Running /\ alive' = alive \ {i}
  /\ UNCHANGED <<pc, stack, wait, global>> /\ Spares

\* The caller gets the answer on its operand stack.
Answered(s, h) == IF s = <<>> THEN s ELSE [s EXCEPT ![Len(s)].kept = h]
Return ==
  /\ Running
  /\ stack' \in {Front(stack), Answered(Front(stack), Top.kept)}
  /\ UNCHANGED <<pc, wait, alive, global>> /\ Spares
-----------------------------------------------------------------------------
(* Parking.                                                                *)

Parkable ==
  /\ ~wait.active /\ (wait.parking => wait.expected = Len(stack))
  /\ Top.chain /\ ~Top.busy /\ Top.self \in alive /\ Len(wait.frames) < MaxFrames

ParkedTop == [self |-> Top.self, kept |-> Top.kept, site |-> Top.site,
              pushes |-> wait.parking, depth |-> Len(stack)]

\* Mistake: whoever cannot park discards what is parked.
CancelAny == wait' = Nothing

\* Only a chain that is being built is discarded; one that is outstanding is not this run's.
Cancel == wait' = IF wait.parking THEN Nothing ELSE wait

\* The run leaves the C stack, for the chain or for good.
ParkTop ==
  /\ Pop
  /\ IF Parkable
     THEN wait' = [active |-> Len(stack) = 1, parking |-> Len(stack) > 1,
                   expected |-> Len(stack) - 1, frames |-> Append(wait.frames, ParkedTop)]
     ELSE Cancel
  /\ UNCHANGED <<pc, alive, global>> /\ Spares

\* The first visit to a site passes; returning to it parks.
Pass(s) ==
  /\ Running /\ Top.chain /\ Top.site # s
  /\ stack' = [stack EXCEPT ![Len(stack)].site = s]
  /\ UNCHANGED <<pc, wait, alive, global>> /\ Spares

Wait == Running /\ (Top.chain => Top.site # None) /\ ParkTop

\* The caller of a run that was parked is parked in turn.
Unwind == pc # "idle" /\ stack # <<>> /\ wait.parking /\ ParkTop
-----------------------------------------------------------------------------
(* Frames.                                                                 *)

\* An event of an instance, or code that no event runs.
Dispatch(self, isEvent) ==
  /\ pc = "events" /\ stack = <<>>
  /\ stack' = <<NewRun(self, None, isEvent)>>
  /\ UNCHANGED <<pc, wait, alive, global>> /\ Spares

\* The events of a frame begin, at times with a collection.
Begins == pc' = "events" /\ (Collect \/ Spares)

StepFrame ==
  /\ pc = "idle" /\ ~wait.active /\ Begins
  /\ UNCHANGED <<stack, wait, alive, global>>

\* The chain from the event's own run inwards, up to a run whose instance is gone: that call and
\* everything it was waiting for answer nothing.
Survivors == LET outward == Reverse(wait.frames)
                 gone == {i \in DOMAIN outward : outward[i].self \notin alive}
             IN IF gone = {} THEN outward
                ELSE SubSeq(outward, 1, (CHOOSE i \in gone : \A j \in gone : i <= j) - 1)
Resumed == [i \in DOMAIN Survivors |->
              [self |-> Survivors[i].self, kept |-> Survivors[i].kept, site |-> Survivors[i].site,
               chain |-> TRUE, busy |-> FALSE]]

\* Mistake: the chain stays in place while it is resumed.
LeftInPlace == [wait EXCEPT !.active = FALSE]

\* The chain is taken out first, so that the event may park again.
TakenOut == Nothing

ResumeFrame ==
  /\ pc = "idle" /\ wait.active
  /\ pc' = "resume" /\ stack' = Resumed /\ wait' = TakenOut
  /\ UNCHANGED <<alive, global>> /\ Spares

\* The event has parked again, and the frame is over, or it has ended and the step begins.
HeldAgain ==
  /\ pc = "resume" /\ stack = <<>> /\ wait.active
  /\ pc' = "idle" /\ UNCHANGED <<stack, wait, alive, global>> /\ Spares

EventEnded ==
  /\ pc = "resume" /\ stack = <<>> /\ ~wait.active /\ Begins
  /\ UNCHANGED <<stack, wait, alive, global>>

\* The other events of a frame run also after one was parked; then a room may restart.
EndFrame ==
  /\ pc = "events" /\ stack = <<>>
  /\ pc' = "idle" /\ alive' \in {alive, Placed}
  /\ UNCHANGED <<stack, wait, global>> /\ Spares

\* A state is taken.  Everything here is part of it, so that loading it is going back to this point.
Save ==
  /\ pc = "idle" /\ Collect
  /\ UNCHANGED <<pc, stack, wait, alive, global>>

Next ==
  \/ NewStruct \/ Store \/ Fetch \/ Block \/ Return \/ Wait \/ Unwind
  \/ StepFrame \/ ResumeFrame \/ HeldAgain \/ EventEnded \/ EndFrame \/ Save
  \/ \E s \in Sites : Pass(s)
  \/ \E i \in alive : Destroy(i) \/ \E b \in BOOLEAN : Call(i, b) \/ Dispatch(i, b)

Spec == Init /\ [][Next]_vars
-----------------------------------------------------------------------------
\* A chain holds the runs of one event from the one that waits outwards, without a gap and without
\* a leftover of another chain; while it is built, the next run to join is the one on the C stack.
ChainIsWhole ==
  LET n == Len(wait.frames) base == IF wait.parking THEN Len(stack) ELSE 0
  IN /\ n > 0 <=> wait.active \/ wait.parking
     /\ ~(wait.active /\ wait.parking)
     /\ wait.parking => stack # <<>> /\ wait.expected = Len(stack)
     /\ \A i \in 1..n : /\ wait.frames[i].depth = base + n - i + 1
                        /\ wait.frames[i].pushes <=> i > 1

\* An event that is parked stays parked, whatever the rest of the frame runs, kills or waits for,
\* until a later frame takes it up again.
OutstandingKept == [][wait.active => pc = "idle" \/ wait' = wait]_vars

\* As long as no collection has run while only a parked run held a struct, every handle that a
\* variable, a run or a parked run holds finds the struct it was made for.  After one, a handle that
\* was left behind finds nothing, until its slot has been used for every generation.
HandlesHold ==
  \A h \in Rooted \cup Held(stack) \cup Held(wait.frames) :
    /\ Found(h) => Own(h) \/ uses[h.slot] - h.use >= GenMod
    /\ ~lost => Own(h)

\* runtime/vm/gml_vm_exec.c:1411: structs are collected "from every GmlVal root, run between frames".
ParkedStructsLive == \A h \in Held(wait.frames) : Own(h)
=============================================================================
