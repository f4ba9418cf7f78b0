------------------------- MODULE LibretroSessionProofs -------------------------
(***************************************************************************)
(* The adapter keeps its promises about contexts, pictures and sizes, for  *)
(* any sizes of states and pictures.                                       *)
(***************************************************************************)
EXTENDS LibretroSession, TLAPS

\* Where a load is, and what has been started so far.
PhaseInv ==
  /\ prepared <=> life = "prepared"
  /\ prepared => ~loaded
  /\ ~Occupied => life = "empty"
  /\ boots = IF loaded THEN 1 ELSE 0
  /\ pc = "prepare" => ~Occupied
  /\ pc = "request" => prepared

\* What is settled before the context is known, and after.
PolicyInv ==
  /\ pc = "prepare" \/ prepared => (config.readback <=> chosen.shaders)
  /\ loaded => /\ config.hybrid <=> chosen.hybrid /\ bootDevice
               /\ config.expected <=> chosen.shaders /\ candidate /\ bootDevice
               /\ config.readback <=> chosen.shaders /\ (candidate => bootDevice)

\* A device comes with the context of content that runs; a context is only promised to content.
ContextInv ==
  /\ device => loaded /\ adopted /\ context = "alive"
  /\ context \in {"promised", "alive"} => Occupied /\ pc # "request"

\* A frontend that was told the fallback is remembered until it is corrected.
AvInv ==
  /\ ~Occupied => told = "nothing"
  /\ prepared /\ told = "fallback" => exposed
  /\ life = "loaded" => known /\ (told = "fallback" => notify /\ ~completed)

\* A frontend that takes one size for all has the slots it was first told to make.
RingInv ==
  /\ ~loaded => capacity = 0 /\ ring = 0 /\ slot = None /\ ~compact
  /\ ~variable => /\ ring = capacity
                  /\ slot # None => ring # 0 /\ slot.size = ring
                  /\ compact => startup = capacity /\ capacity # 0

IInv == TypeOK /\ PhaseInv /\ PolicyInv /\ ContextInv /\ AvInv /\ RingInv
-----------------------------------------------------------------------------
LEMMA Capacities ==
  ASSUME NEW size \in Nat, NEW isCompact \in BOOLEAN
  PROVE  CapacityFor(size, isCompact) \in Nat /\ CapacityFor(size, isCompact) >= 2 * size + Margin
BY DEF CapacityFor, Larger, Margin, Small, Reserve, ContainerReserve

LEMMA Pictured == TypeOK => Picture \in Nat
BY LibretroAssumption DEF Picture, TypeOK, Content
-----------------------------------------------------------------------------
(* Every call of the frontend, and every step of a load, keeps the invariant. *)

LEMMA PrepareFailsKeeps == ASSUME IInv, PrepareFails PROVE IInv'
<1>1. TypeOK'
  BY DEF IInv, TypeOK, PrepareFails, policy, graphics, capacities, frames, states, av, history
<1>2. PhaseInv'
  BY DEF IInv, PhaseInv, Occupied, PrepareFails, policy, graphics, capacities, frames, states, av,
    history
<1>3. PolicyInv'
  BY DEF IInv, TypeOK, PhaseInv, PolicyInv, ContextInv, Occupied, PrepareFails, policy, graphics,
    capacities, frames, states, av, history
<1>4. ContextInv'
  BY DEF IInv, PhaseInv, ContextInv, Occupied, PrepareFails, policy, graphics, capacities, frames,
    states, av, history
<1>5. AvInv'
  BY DEF IInv, PhaseInv, AvInv, Occupied, PrepareFails, policy, graphics, capacities, frames,
    states, av, history
<1>6. RingInv'
  BY DEF IInv, PhaseInv, RingInv, Occupied, PrepareFails, policy, graphics, capacities, frames,
    states, av, history
<1> QED
  BY <1>1, <1>2, <1>3, <1>4, <1>5, <1>6, Zenon DEF IInv

LEMMA PrepareKeeps == ASSUME IInv, Prepare PROVE IInv'
<1>1. TypeOK'
  <2>1. (pc \in {"idle", "prepare", "request", "requested"} /\ prepared \in BOOLEAN /\ loaded \in BOOLEAN)'
    BY DEF IInv, TypeOK, Prepare, Start, StaysPrepared, Finalized, NeedsContext, graphics, states,
      Notify, capacities, frames, history
  <2>2. (life \in {"empty", "prepared", "loaded"})'
    BY DEF IInv, TypeOK, Prepare, Start, StaysPrepared, Finalized, NeedsContext, graphics, states,
      Notify, capacities, frames, history
  <2>3. (chosen \in Selection /\ candidate \in BOOLEAN)'
    BY DEF IInv, TypeOK, Selection, Policy, Prepare, Start, StaysPrepared, Finalized, NeedsContext,
      graphics, states, Notify, capacities, frames, history
  <2>4. (config \in Policy)'
    BY DEF IInv, TypeOK, Selection, Policy, Prepare, Start, StaysPrepared, Finalized, NeedsContext,
      graphics, states, Notify, capacities, frames, history
  <2>5. (context \in {"none", "promised", "alive", "stale"} /\ adopted \in BOOLEAN /\ device \in BOOLEAN)'
    BY DEF IInv, TypeOK, Prepare, Start, StaysPrepared, Finalized, NeedsContext, graphics, states,
      Notify, capacities, frames, history
  <2>6. (variable \in BOOLEAN /\ content \in Content /\ need \in Needs \cup {0})'
    BY DEF IInv, TypeOK, Prepare, Start, StaysPrepared, Finalized, NeedsContext, graphics, states,
      Notify, capacities, frames, history
  <2>7. (capacity \in Nat /\ startup \in Nat)'
    BY DEF IInv, TypeOK, Prepare, Start, StaysPrepared, Finalized, NeedsContext, graphics, states,
      Notify, capacities, frames, history
  <2>8. (compact \in BOOLEAN /\ completed \in BOOLEAN /\ fresh \in BOOLEAN)'
    BY DEF IInv, TypeOK, Prepare, Start, StaysPrepared, Finalized, NeedsContext, graphics, states,
      Notify, capacities, frames, history
  <2>9. (ring \in Nat /\ slot \in Slot \cup {None})'
    BY DEF IInv, TypeOK, Prepare, Start, StaysPrepared, Finalized, NeedsContext, graphics, states,
      Notify, capacities, frames, history
  <2>10. (exposed \in BOOLEAN /\ notify \in BOOLEAN /\ known \in BOOLEAN /\ told \in {"nothing", "fallback", "actual"})'
    BY DEF IInv, TypeOK, Prepare, Start, StaysPrepared, Finalized, NeedsContext, graphics, states,
      Notify, capacities, frames, history
  <2>11. (boots \in 0..2)'
    BY DEF IInv, TypeOK, PhaseInv, Prepare, Start, StaysPrepared, Finalized, NeedsContext, graphics,
      states, Notify, capacities, frames, history
  <2>12. (bootDevice \in BOOLEAN)'
    BY DEF IInv, TypeOK, Prepare, Start, StaysPrepared, Finalized, NeedsContext, graphics, states,
      Notify, capacities, frames, history
  <2> QED
    BY <2>1, <2>2, <2>3, <2>4, <2>5, <2>6, <2>7, <2>8, <2>9, <2>10, <2>11, <2>12, Zenon DEF TypeOK
<1>2. PhaseInv'
  BY DEF IInv, PhaseInv, Occupied, Prepare, Start, StaysPrepared, Finalized, NeedsContext, graphics,
    states, Notify, capacities, frames, history
<1>3. PolicyInv'
  BY DEF IInv, TypeOK, Policy, Selection, PhaseInv, PolicyInv, ContextInv, Occupied, Prepare, Start,
    StaysPrepared, Finalized, NeedsContext, graphics, states, Notify, capacities, frames, history
<1>4. ContextInv'
  BY DEF IInv, PhaseInv, ContextInv, Occupied, Prepare, Start, StaysPrepared, Finalized,
    NeedsContext, graphics, states, Notify, capacities, frames, history
<1>5. AvInv'
  BY DEF IInv, PhaseInv, AvInv, Occupied, Prepare, Start, StaysPrepared, Finalized, NeedsContext,
    graphics, states, Notify, capacities, frames, history
<1>6. RingInv'
  BY DEF IInv, PhaseInv, RingInv, Occupied, Prepare, Start, StaysPrepared, Finalized, NeedsContext,
    graphics, states, Notify, capacities, frames, history
<1> QED
  BY <1>1, <1>2, <1>3, <1>4, <1>5, <1>6, Zenon DEF IInv

LEMMA LoadGameKeeps == ASSUME IInv, LoadGame PROVE IInv'
<1>1. TypeOK'
  <2>1. (pc \in {"idle", "prepare", "request", "requested"} /\ prepared \in BOOLEAN /\ loaded \in BOOLEAN)'
    BY DEF IInv, TypeOK, LoadGame, Unloads, Apply, graphics, capacities, frames, states, history,
      Release
  <2>2. (life \in {"empty", "prepared", "loaded"})'
    BY DEF IInv, TypeOK, LoadGame, Unloads, Apply, graphics, capacities, frames, states, history,
      Release
  <2>3. (chosen \in Selection /\ candidate \in BOOLEAN)'
    BY DEF IInv, TypeOK, Selection, Policy, LoadGame, Unloads, Apply, graphics, capacities, frames,
      states, history, Release
  <2>4. (config \in Policy)'
    <3>1. PICK menu \in Selection :
            config' = [hybrid |-> menu.hybrid, expected |-> menu.shaders, readback |-> menu.shaders]
      BY DEF LoadGame, Apply
    <3> QED
      BY <3>1 DEF Selection, Policy
  <2>5. (context \in {"none", "promised", "alive", "stale"} /\ adopted \in BOOLEAN /\ device \in BOOLEAN)'
    BY DEF IInv, TypeOK, LoadGame, Unloads, Apply, graphics, capacities, frames, states, history,
      Release
  <2>6. (variable \in BOOLEAN /\ content \in Content /\ need \in Needs \cup {0})'
    BY DEF IInv, TypeOK, LoadGame, Unloads, Apply, graphics, capacities, frames, states, history,
      Release
  <2>7. (capacity \in Nat /\ startup \in Nat)'
    BY DEF IInv, TypeOK, LoadGame, Unloads, Apply, graphics, capacities, frames, states, history,
      Release
  <2>8. (compact \in BOOLEAN /\ completed \in BOOLEAN /\ fresh \in BOOLEAN)'
    BY DEF IInv, TypeOK, LoadGame, Unloads, Apply, graphics, capacities, frames, states, history,
      Release
  <2>9. (ring \in Nat /\ slot \in Slot \cup {None})'
    BY DEF IInv, TypeOK, LoadGame, Unloads, Apply, graphics, capacities, frames, states, history,
      Release
  <2>10. (exposed \in BOOLEAN /\ notify \in BOOLEAN /\ known \in BOOLEAN /\ told \in {"nothing", "fallback", "actual"})'
    BY DEF IInv, TypeOK, LoadGame, Unloads, Apply, graphics, capacities, frames, states, history,
      Release
  <2>11. (boots \in 0..2)'
    BY DEF IInv, TypeOK, LoadGame, Unloads, Apply, graphics, capacities, frames, states, history,
      Release
  <2>12. (bootDevice \in BOOLEAN)'
    BY DEF IInv, TypeOK, LoadGame, Unloads, Apply, graphics, capacities, frames, states, history,
      Release
  <2> QED
    BY <2>1, <2>2, <2>3, <2>4, <2>5, <2>6, <2>7, <2>8, <2>9, <2>10, <2>11, <2>12, Zenon DEF TypeOK
<1>2. PhaseInv'
  BY DEF IInv, PhaseInv, Occupied, LoadGame, Unloads, Apply, graphics, capacities, frames, states,
    history, Release
<1>3. PolicyInv'
  BY DEF IInv, TypeOK, PhaseInv, PolicyInv, ContextInv, Occupied, LoadGame, Unloads, Apply,
    graphics, capacities, frames, states, history, Release
<1>4. ContextInv'
  BY DEF IInv, PhaseInv, ContextInv, Occupied, LoadGame, Unloads, Apply, graphics, capacities,
    frames, states, history, Release
<1>5. AvInv'
  BY DEF IInv, PhaseInv, AvInv, Occupied, LoadGame, Unloads, Apply, graphics, capacities, frames,
    states, history, Release
<1>6. RingInv'
  BY DEF IInv, PhaseInv, RingInv, Occupied, LoadGame, Unloads, Apply, graphics, capacities, frames,
    states, history, Release
<1> QED
  BY <1>1, <1>2, <1>3, <1>4, <1>5, <1>6, Zenon DEF IInv

LEMMA UnloadKeeps == ASSUME IInv, Unload PROVE IInv'
<1>1. TypeOK'
  <2>1. (pc \in {"idle", "prepare", "request", "requested"} /\ prepared \in BOOLEAN /\ loaded \in BOOLEAN)'
    BY DEF IInv, TypeOK, Unload, Idle, Unloads, Release
  <2>2. (life \in {"empty", "prepared", "loaded"})'
    BY DEF IInv, TypeOK, Unload, Idle, Unloads, Release
  <2>3. (chosen \in Selection /\ candidate \in BOOLEAN)'
    BY DEF IInv, TypeOK, Unload, Idle, Unloads, Release
  <2>4. (config \in Policy)'
    BY DEF IInv, TypeOK, Unload, Idle, Unloads, Release
  <2>5. (context \in {"none", "promised", "alive", "stale"} /\ adopted \in BOOLEAN /\ device \in BOOLEAN)'
    BY DEF IInv, TypeOK, Unload, Idle, Unloads, Release
  <2>6. (variable \in BOOLEAN /\ content \in Content /\ need \in Needs \cup {0})'
    BY DEF IInv, TypeOK, Unload, Idle, Unloads, Release
  <2>7. (capacity \in Nat /\ startup \in Nat)'
    BY DEF IInv, TypeOK, Unload, Idle, Unloads, Release
  <2>8. (compact \in BOOLEAN /\ completed \in BOOLEAN /\ fresh \in BOOLEAN)'
    BY DEF IInv, TypeOK, Unload, Idle, Unloads, Release
  <2>9. (ring \in Nat /\ slot \in Slot \cup {None})'
    BY DEF IInv, TypeOK, Unload, Idle, Unloads, Release
  <2>10. (exposed \in BOOLEAN /\ notify \in BOOLEAN /\ known \in BOOLEAN /\ told \in {"nothing", "fallback", "actual"})'
    BY DEF IInv, TypeOK, Unload, Idle, Unloads, Release
  <2>11. (boots \in 0..2)'
    BY DEF IInv, TypeOK, Unload, Idle, Unloads, Release
  <2>12. (bootDevice \in BOOLEAN)'
    BY DEF IInv, TypeOK, Unload, Idle, Unloads, Release
  <2> QED
    BY <2>1, <2>2, <2>3, <2>4, <2>5, <2>6, <2>7, <2>8, <2>9, <2>10, <2>11, <2>12, Zenon DEF TypeOK
<1>2. PhaseInv'
  BY DEF IInv, PhaseInv, Occupied, Unload, Idle, Unloads, Release
<1>3. PolicyInv'
  BY DEF IInv, TypeOK, PhaseInv, PolicyInv, ContextInv, Occupied, Unload, Idle, Unloads, Release
<1>4. ContextInv'
  BY DEF IInv, PhaseInv, ContextInv, Occupied, Unload, Idle, Unloads, Release
<1>5. AvInv'
  BY DEF IInv, PhaseInv, AvInv, Occupied, Unload, Idle, Unloads, Release
<1>6. RingInv'
  BY DEF IInv, PhaseInv, RingInv, Occupied, Unload, Idle, Unloads, Release
<1> QED
  BY <1>1, <1>2, <1>3, <1>4, <1>5, <1>6, Zenon DEF IInv

LEMMA RequestAcceptedKeeps == ASSUME IInv, RequestAccepted PROVE IInv'
<1>1. TypeOK'
  <2>1. (pc \in {"idle", "prepare", "request", "requested"} /\ prepared \in BOOLEAN /\ loaded \in BOOLEAN)'
    BY DEF IInv, TypeOK, RequestAccepted, policy, capacities, frames, states, av, history
  <2>2. (life \in {"empty", "prepared", "loaded"})'
    BY DEF IInv, TypeOK, RequestAccepted, policy, capacities, frames, states, av, history
  <2>3. (chosen \in Selection /\ candidate \in BOOLEAN)'
    BY DEF IInv, TypeOK, RequestAccepted, policy, capacities, frames, states, av, history
  <2>4. (config \in Policy)'
    BY DEF IInv, TypeOK, RequestAccepted, policy, capacities, frames, states, av, history
  <2>5. (context \in {"none", "promised", "alive", "stale"} /\ adopted \in BOOLEAN /\ device \in BOOLEAN)'
    BY DEF IInv, TypeOK, RequestAccepted, policy, capacities, frames, states, av, history
  <2>6. (variable \in BOOLEAN /\ content \in Content /\ need \in Needs \cup {0})'
    BY DEF IInv, TypeOK, RequestAccepted, policy, capacities, frames, states, av, history
  <2>7. (capacity \in Nat /\ startup \in Nat)'
    BY DEF IInv, TypeOK, RequestAccepted, policy, capacities, frames, states, av, history
  <2>8. (compact \in BOOLEAN /\ completed \in BOOLEAN /\ fresh \in BOOLEAN)'
    BY DEF IInv, TypeOK, RequestAccepted, policy, capacities, frames, states, av, history
  <2>9. (ring \in Nat /\ slot \in Slot \cup {None})'
    BY DEF IInv, TypeOK, RequestAccepted, policy, capacities, frames, states, av, history
  <2>10. (exposed \in BOOLEAN /\ notify \in BOOLEAN /\ known \in BOOLEAN /\ told \in {"nothing", "fallback", "actual"})'
    BY DEF IInv, TypeOK, RequestAccepted, policy, capacities, frames, states, av, history
  <2>11. (boots \in 0..2)'
    BY DEF IInv, TypeOK, RequestAccepted, policy, capacities, frames, states, av, history
  <2>12. (bootDevice \in BOOLEAN)'
    BY DEF IInv, TypeOK, RequestAccepted, policy, capacities, frames, states, av, history
  <2> QED
    BY <2>1, <2>2, <2>3, <2>4, <2>5, <2>6, <2>7, <2>8, <2>9, <2>10, <2>11, <2>12, Zenon DEF TypeOK
<1>2. PhaseInv'
  BY DEF IInv, PhaseInv, Occupied, RequestAccepted, policy, capacities, frames, states, av, history
<1>3. PolicyInv'
  BY DEF IInv, TypeOK, PhaseInv, PolicyInv, ContextInv, Occupied, RequestAccepted, policy,
    capacities, frames, states, av, history
<1>4. ContextInv'
  BY DEF IInv, PhaseInv, ContextInv, Occupied, RequestAccepted, policy, capacities, frames, states,
    av, history
<1>5. AvInv'
  BY DEF IInv, PhaseInv, AvInv, Occupied, RequestAccepted, policy, capacities, frames, states, av,
    history
<1>6. RingInv'
  BY DEF IInv, PhaseInv, RingInv, Occupied, RequestAccepted, policy, capacities, frames, states, av,
    history
<1> QED
  BY <1>1, <1>2, <1>3, <1>4, <1>5, <1>6, Zenon DEF IInv

LEMMA RequestRefusedKeeps == ASSUME IInv, RequestRefused PROVE IInv'
<1>1. TypeOK'
  <2>1. (pc \in {"idle", "prepare", "request", "requested"} /\ prepared \in BOOLEAN /\ loaded \in BOOLEAN)'
    BY DEF IInv, TypeOK, RequestRefused, Start, Finalized, states, Notify
  <2>2. (life \in {"empty", "prepared", "loaded"})'
    BY DEF IInv, TypeOK, RequestRefused, Start, Finalized, states, Notify
  <2>3. (chosen \in Selection /\ candidate \in BOOLEAN)'
    BY DEF IInv, TypeOK, Selection, Policy, RequestRefused, Start, Finalized, states, Notify
  <2>4. (config \in Policy)'
    BY DEF IInv, TypeOK, Selection, Policy, RequestRefused, Start, Finalized, states, Notify
  <2>5. (context \in {"none", "promised", "alive", "stale"} /\ adopted \in BOOLEAN /\ device \in BOOLEAN)'
    BY DEF IInv, TypeOK, RequestRefused, Start, Finalized, states, Notify
  <2>6. (variable \in BOOLEAN /\ content \in Content /\ need \in Needs \cup {0})'
    BY DEF IInv, TypeOK, RequestRefused, Start, Finalized, states, Notify
  <2>7. (capacity \in Nat /\ startup \in Nat)'
    BY DEF IInv, TypeOK, RequestRefused, Start, Finalized, states, Notify
  <2>8. (compact \in BOOLEAN /\ completed \in BOOLEAN /\ fresh \in BOOLEAN)'
    BY DEF IInv, TypeOK, RequestRefused, Start, Finalized, states, Notify
  <2>9. (ring \in Nat /\ slot \in Slot \cup {None})'
    BY DEF IInv, TypeOK, RequestRefused, Start, Finalized, states, Notify
  <2>10. (exposed \in BOOLEAN /\ notify \in BOOLEAN /\ known \in BOOLEAN /\ told \in {"nothing", "fallback", "actual"})'
    BY DEF IInv, TypeOK, RequestRefused, Start, Finalized, states, Notify
  <2>11. (boots \in 0..2)'
    BY DEF IInv, TypeOK, PhaseInv, RequestRefused, Start, Finalized, states, Notify
  <2>12. (bootDevice \in BOOLEAN)'
    BY DEF IInv, TypeOK, RequestRefused, Start, Finalized, states, Notify
  <2> QED
    BY <2>1, <2>2, <2>3, <2>4, <2>5, <2>6, <2>7, <2>8, <2>9, <2>10, <2>11, <2>12, Zenon DEF TypeOK
<1>2. PhaseInv'
  BY DEF IInv, PhaseInv, Occupied, RequestRefused, Start, Finalized, states, Notify
<1>3. PolicyInv'
  BY DEF IInv, TypeOK, Policy, Selection, PhaseInv, PolicyInv, ContextInv, Occupied, RequestRefused,
    Start, Finalized, states, Notify
<1>4. ContextInv'
  BY DEF IInv, PhaseInv, ContextInv, Occupied, RequestRefused, Start, Finalized, states, Notify
<1>5. AvInv'
  BY DEF IInv, PhaseInv, AvInv, Occupied, RequestRefused, Start, Finalized, states, Notify
<1>6. RingInv'
  BY DEF IInv, PhaseInv, RingInv, Occupied, RequestRefused, Start, Finalized, states, Notify
<1> QED
  BY <1>1, <1>2, <1>3, <1>4, <1>5, <1>6, Zenon DEF IInv

LEMMA RequestReturnsKeeps == ASSUME IInv, RequestReturns PROVE IInv'
<1>1. TypeOK'
  BY DEF IInv, TypeOK, RequestReturns, policy, graphics, capacities, frames, states, av, history
<1>2. PhaseInv'
  BY DEF IInv, PhaseInv, Occupied, RequestReturns, policy, graphics, capacities, frames, states, av,
    history
<1>3. PolicyInv'
  BY DEF IInv, TypeOK, PhaseInv, PolicyInv, ContextInv, Occupied, RequestReturns, policy, graphics,
    capacities, frames, states, av, history
<1>4. ContextInv'
  BY DEF IInv, PhaseInv, ContextInv, Occupied, RequestReturns, policy, graphics, capacities, frames,
    states, av, history
<1>5. AvInv'
  BY DEF IInv, PhaseInv, AvInv, Occupied, RequestReturns, policy, graphics, capacities, frames,
    states, av, history
<1>6. RingInv'
  BY DEF IInv, PhaseInv, RingInv, Occupied, RequestReturns, policy, graphics, capacities, frames,
    states, av, history
<1> QED
  BY <1>1, <1>2, <1>3, <1>4, <1>5, <1>6, Zenon DEF IInv

LEMMA ContextResetKeeps == ASSUME IInv, ContextReset PROVE IInv'
<1>1. TypeOK'
  <2>1. (pc \in {"idle", "prepare", "request", "requested"} /\ prepared \in BOOLEAN /\ loaded \in BOOLEAN)'
    BY DEF IInv, TypeOK, ContextReset, Start, Finalized, Waiting, capacities, frames, states,
      history, Notify
  <2>2. (life \in {"empty", "prepared", "loaded"})'
    BY DEF IInv, TypeOK, ContextReset, Start, Finalized, Waiting, capacities, frames, states,
      history, Notify
  <2>3. (chosen \in Selection /\ candidate \in BOOLEAN)'
    BY DEF IInv, TypeOK, Selection, Policy, ContextReset, Start, Finalized, Waiting, capacities,
      frames, states, history, Notify
  <2>4. (config \in Policy)'
    BY DEF IInv, TypeOK, Selection, Policy, ContextReset, Start, Finalized, Waiting, capacities,
      frames, states, history, Notify
  <2>5. (context \in {"none", "promised", "alive", "stale"} /\ adopted \in BOOLEAN /\ device \in BOOLEAN)'
    BY DEF IInv, TypeOK, ContextReset, Start, Finalized, Waiting, capacities, frames, states,
      history, Notify
  <2>6. (variable \in BOOLEAN /\ content \in Content /\ need \in Needs \cup {0})'
    BY DEF IInv, TypeOK, ContextReset, Start, Finalized, Waiting, capacities, frames, states,
      history, Notify
  <2>7. (capacity \in Nat /\ startup \in Nat)'
    BY DEF IInv, TypeOK, ContextReset, Start, Finalized, Waiting, capacities, frames, states,
      history, Notify
  <2>8. (compact \in BOOLEAN /\ completed \in BOOLEAN /\ fresh \in BOOLEAN)'
    BY DEF IInv, TypeOK, ContextReset, Start, Finalized, Waiting, capacities, frames, states,
      history, Notify
  <2>9. (ring \in Nat /\ slot \in Slot \cup {None})'
    BY DEF IInv, TypeOK, ContextReset, Start, Finalized, Waiting, capacities, frames, states,
      history, Notify
  <2>10. (exposed \in BOOLEAN /\ notify \in BOOLEAN /\ known \in BOOLEAN /\ told \in {"nothing", "fallback", "actual"})'
    BY DEF IInv, TypeOK, ContextReset, Start, Finalized, Waiting, capacities, frames, states,
      history, Notify
  <2>11. (boots \in 0..2)'
    BY DEF IInv, TypeOK, PhaseInv, ContextReset, Start, Finalized, Waiting, capacities, frames,
      states, history, Notify
  <2>12. (bootDevice \in BOOLEAN)'
    BY DEF IInv, TypeOK, ContextReset, Start, Finalized, Waiting, capacities, frames, states,
      history, Notify
  <2> QED
    BY <2>1, <2>2, <2>3, <2>4, <2>5, <2>6, <2>7, <2>8, <2>9, <2>10, <2>11, <2>12, Zenon DEF TypeOK
<1>2. PhaseInv'
  BY DEF IInv, PhaseInv, Occupied, ContextReset, Start, Finalized, Waiting, capacities, frames,
    states, history, Notify
<1>3. PolicyInv'
  BY DEF IInv, TypeOK, Policy, Selection, PhaseInv, PolicyInv, ContextInv, Occupied, ContextReset,
    Start, Finalized, Waiting, capacities, frames, states, history, Notify
<1>4. ContextInv'
  BY DEF IInv, PhaseInv, ContextInv, Occupied, ContextReset, Start, Finalized, Waiting, capacities,
    frames, states, history, Notify
<1>5. AvInv'
  BY DEF IInv, PhaseInv, AvInv, Occupied, ContextReset, Start, Finalized, Waiting, capacities,
    frames, states, history, Notify
<1>6. RingInv'
  BY DEF IInv, PhaseInv, RingInv, Occupied, ContextReset, Start, Finalized, Waiting, capacities,
    frames, states, history, Notify
<1> QED
  BY <1>1, <1>2, <1>3, <1>4, <1>5, <1>6, Zenon DEF IInv

LEMMA ContextDestroyKeeps == ASSUME IInv, ContextDestroy PROVE IInv'
<1>1. TypeOK'
  <2>1. (pc \in {"idle", "prepare", "request", "requested"} /\ prepared \in BOOLEAN /\ loaded \in BOOLEAN)'
    BY DEF IInv, TypeOK, ContextDestroy, Idle, policy, capacities, frames, states, av, history
  <2>2. (life \in {"empty", "prepared", "loaded"})'
    BY DEF IInv, TypeOK, ContextDestroy, Idle, policy, capacities, frames, states, av, history
  <2>3. (chosen \in Selection /\ candidate \in BOOLEAN)'
    BY DEF IInv, TypeOK, ContextDestroy, Idle, policy, capacities, frames, states, av, history
  <2>4. (config \in Policy)'
    BY DEF IInv, TypeOK, ContextDestroy, Idle, policy, capacities, frames, states, av, history
  <2>5. (context \in {"none", "promised", "alive", "stale"} /\ adopted \in BOOLEAN /\ device \in BOOLEAN)'
    BY DEF IInv, TypeOK, ContextDestroy, Idle, policy, capacities, frames, states, av, history
  <2>6. (variable \in BOOLEAN /\ content \in Content /\ need \in Needs \cup {0})'
    BY DEF IInv, TypeOK, ContextDestroy, Idle, policy, capacities, frames, states, av, history
  <2>7. (capacity \in Nat /\ startup \in Nat)'
    BY DEF IInv, TypeOK, ContextDestroy, Idle, policy, capacities, frames, states, av, history
  <2>8. (compact \in BOOLEAN /\ completed \in BOOLEAN /\ fresh \in BOOLEAN)'
    BY DEF IInv, TypeOK, ContextDestroy, Idle, policy, capacities, frames, states, av, history
  <2>9. (ring \in Nat /\ slot \in Slot \cup {None})'
    BY DEF IInv, TypeOK, ContextDestroy, Idle, policy, capacities, frames, states, av, history
  <2>10. (exposed \in BOOLEAN /\ notify \in BOOLEAN /\ known \in BOOLEAN /\ told \in {"nothing", "fallback", "actual"})'
    BY DEF IInv, TypeOK, ContextDestroy, Idle, policy, capacities, frames, states, av, history
  <2>11. (boots \in 0..2)'
    BY DEF IInv, TypeOK, ContextDestroy, Idle, policy, capacities, frames, states, av, history
  <2>12. (bootDevice \in BOOLEAN)'
    BY DEF IInv, TypeOK, ContextDestroy, Idle, policy, capacities, frames, states, av, history
  <2> QED
    BY <2>1, <2>2, <2>3, <2>4, <2>5, <2>6, <2>7, <2>8, <2>9, <2>10, <2>11, <2>12, Zenon DEF TypeOK
<1>2. PhaseInv'
  BY DEF IInv, PhaseInv, Occupied, ContextDestroy, Idle, policy, capacities, frames, states, av,
    history
<1>3. PolicyInv'
  BY DEF IInv, TypeOK, PhaseInv, PolicyInv, ContextInv, Occupied, ContextDestroy, Idle, policy,
    capacities, frames, states, av, history
<1>4. ContextInv'
  BY DEF IInv, PhaseInv, ContextInv, Occupied, ContextDestroy, Idle, policy, capacities, frames,
    states, av, history
<1>5. AvInv'
  BY DEF IInv, PhaseInv, AvInv, Occupied, ContextDestroy, Idle, policy, capacities, frames, states,
    av, history
<1>6. RingInv'
  BY DEF IInv, PhaseInv, RingInv, Occupied, ContextDestroy, Idle, policy, capacities, frames,
    states, av, history
<1> QED
  BY <1>1, <1>2, <1>3, <1>4, <1>5, <1>6, Zenon DEF IInv

LEMMA AskAvKeeps == ASSUME IInv, AskAv PROVE IInv'
<1>1. TypeOK'
  BY DEF IInv, TypeOK, AskAv, Idle, policy, graphics, capacities, frames, states, history
<1>2. PhaseInv'
  BY DEF IInv, PhaseInv, Occupied, AskAv, Idle, policy, graphics, capacities, frames, states,
    history
<1>3. PolicyInv'
  BY DEF IInv, TypeOK, PhaseInv, PolicyInv, ContextInv, Occupied, AskAv, Idle, policy, graphics,
    capacities, frames, states, history
<1>4. ContextInv'
  BY DEF IInv, PhaseInv, ContextInv, Occupied, AskAv, Idle, policy, graphics, capacities, frames,
    states, history
<1>5. AvInv'
  BY DEF IInv, PhaseInv, AvInv, Occupied, AskAv, Idle, policy, graphics, capacities, frames, states,
    history
<1>6. RingInv'
  BY DEF IInv, PhaseInv, RingInv, Occupied, AskAv, Idle, policy, graphics, capacities, frames,
    states, history
<1> QED
  BY <1>1, <1>2, <1>3, <1>4, <1>5, <1>6, Zenon DEF IInv

LEMMA RunKeeps == ASSUME IInv, Run PROVE IInv'
<1>1. TypeOK'
  <2>1. (pc \in {"idle", "prepare", "request", "requested"} /\ prepared \in BOOLEAN /\ loaded \in BOOLEAN)'
    BY DEF IInv, TypeOK, Run, Idle, Apply, graphics, capacities, states, history
  <2>2. (life \in {"empty", "prepared", "loaded"})'
    BY DEF IInv, TypeOK, Run, Idle, Apply, graphics, capacities, states, history
  <2>3. (chosen \in Selection /\ candidate \in BOOLEAN)'
    BY DEF IInv, TypeOK, Selection, Policy, Run, Idle, Apply, graphics, capacities, states, history
  <2>4. (config \in Policy)'
    BY DEF IInv, TypeOK, Selection, Policy, Run, Idle, Apply, graphics, capacities, states, history
  <2>5. (context \in {"none", "promised", "alive", "stale"} /\ adopted \in BOOLEAN /\ device \in BOOLEAN)'
    BY DEF IInv, TypeOK, Run, Idle, Apply, graphics, capacities, states, history
  <2>6. (variable \in BOOLEAN /\ content \in Content /\ need \in Needs \cup {0})'
    BY DEF IInv, TypeOK, Run, Idle, Apply, graphics, capacities, states, history
  <2>7. (capacity \in Nat /\ startup \in Nat)'
    BY DEF IInv, TypeOK, Run, Idle, Apply, graphics, capacities, states, history
  <2>8. (compact \in BOOLEAN /\ completed \in BOOLEAN /\ fresh \in BOOLEAN)'
    BY DEF IInv, TypeOK, Run, Idle, Apply, graphics, capacities, states, history
  <2>9. (ring \in Nat /\ slot \in Slot \cup {None})'
    BY DEF IInv, TypeOK, Run, Idle, Apply, graphics, capacities, states, history
  <2>10. (exposed \in BOOLEAN /\ notify \in BOOLEAN /\ known \in BOOLEAN /\ told \in {"nothing", "fallback", "actual"})'
    BY DEF IInv, TypeOK, Run, Idle, Apply, graphics, capacities, states, history
  <2>11. (boots \in 0..2)'
    BY DEF IInv, TypeOK, Run, Idle, Apply, graphics, capacities, states, history
  <2>12. (bootDevice \in BOOLEAN)'
    BY DEF IInv, TypeOK, Run, Idle, Apply, graphics, capacities, states, history
  <2> QED
    BY <2>1, <2>2, <2>3, <2>4, <2>5, <2>6, <2>7, <2>8, <2>9, <2>10, <2>11, <2>12, Zenon DEF TypeOK
<1>2. PhaseInv'
  BY DEF IInv, PhaseInv, Occupied, Run, Idle, Apply, graphics, capacities, states, history
<1>3. PolicyInv'
  BY DEF IInv, TypeOK, PhaseInv, PolicyInv, ContextInv, Occupied, Run, Idle, Apply, graphics,
    capacities, states, history
<1>4. ContextInv'
  BY DEF IInv, PhaseInv, ContextInv, Occupied, Run, Idle, Apply, graphics, capacities, states,
    history
<1>5. AvInv'
  BY DEF IInv, PhaseInv, AvInv, Occupied, Run, Idle, Apply, graphics, capacities, states, history
<1>6. RingInv'
  BY DEF IInv, PhaseInv, RingInv, Occupied, Run, Idle, Apply, graphics, capacities, states, history
<1> QED
  BY <1>1, <1>2, <1>3, <1>4, <1>5, <1>6, Zenon DEF IInv

LEMMA RunFailsKeeps == ASSUME IInv, RunFails PROVE IInv'
<1>1. TypeOK'
  <2>1. (pc \in {"idle", "prepare", "request", "requested"} /\ prepared \in BOOLEAN /\ loaded \in BOOLEAN)'
    BY DEF IInv, TypeOK, RunFails, Idle, Apply, graphics, capacities, frames, states, av, history
  <2>2. (life \in {"empty", "prepared", "loaded"})'
    BY DEF IInv, TypeOK, RunFails, Idle, Apply, graphics, capacities, frames, states, av, history
  <2>3. (chosen \in Selection /\ candidate \in BOOLEAN)'
    BY DEF IInv, TypeOK, Selection, Policy, RunFails, Idle, Apply, graphics, capacities, frames,
      states, av, history
  <2>4. (config \in Policy)'
    BY DEF IInv, TypeOK, Selection, Policy, RunFails, Idle, Apply, graphics, capacities, frames,
      states, av, history
  <2>5. (context \in {"none", "promised", "alive", "stale"} /\ adopted \in BOOLEAN /\ device \in BOOLEAN)'
    BY DEF IInv, TypeOK, RunFails, Idle, Apply, graphics, capacities, frames, states, av, history
  <2>6. (variable \in BOOLEAN /\ content \in Content /\ need \in Needs \cup {0})'
    BY DEF IInv, TypeOK, RunFails, Idle, Apply, graphics, capacities, frames, states, av, history
  <2>7. (capacity \in Nat /\ startup \in Nat)'
    BY DEF IInv, TypeOK, RunFails, Idle, Apply, graphics, capacities, frames, states, av, history
  <2>8. (compact \in BOOLEAN /\ completed \in BOOLEAN /\ fresh \in BOOLEAN)'
    BY DEF IInv, TypeOK, RunFails, Idle, Apply, graphics, capacities, frames, states, av, history
  <2>9. (ring \in Nat /\ slot \in Slot \cup {None})'
    BY DEF IInv, TypeOK, RunFails, Idle, Apply, graphics, capacities, frames, states, av, history
  <2>10. (exposed \in BOOLEAN /\ notify \in BOOLEAN /\ known \in BOOLEAN /\ told \in {"nothing", "fallback", "actual"})'
    BY DEF IInv, TypeOK, RunFails, Idle, Apply, graphics, capacities, frames, states, av, history
  <2>11. (boots \in 0..2)'
    BY DEF IInv, TypeOK, RunFails, Idle, Apply, graphics, capacities, frames, states, av, history
  <2>12. (bootDevice \in BOOLEAN)'
    BY DEF IInv, TypeOK, RunFails, Idle, Apply, graphics, capacities, frames, states, av, history
  <2> QED
    BY <2>1, <2>2, <2>3, <2>4, <2>5, <2>6, <2>7, <2>8, <2>9, <2>10, <2>11, <2>12, Zenon DEF TypeOK
<1>2. PhaseInv'
  BY DEF IInv, PhaseInv, Occupied, RunFails, Idle, Apply, graphics, capacities, frames, states, av,
    history
<1>3. PolicyInv'
  BY DEF IInv, TypeOK, PhaseInv, PolicyInv, ContextInv, Occupied, RunFails, Idle, Apply, graphics,
    capacities, frames, states, av, history
<1>4. ContextInv'
  BY DEF IInv, PhaseInv, ContextInv, Occupied, RunFails, Idle, Apply, graphics, capacities, frames,
    states, av, history
<1>5. AvInv'
  BY DEF IInv, PhaseInv, AvInv, Occupied, RunFails, Idle, Apply, graphics, capacities, frames,
    states, av, history
<1>6. RingInv'
  BY DEF IInv, PhaseInv, RingInv, Occupied, RunFails, Idle, Apply, graphics, capacities, frames,
    states, av, history
<1> QED
  BY <1>1, <1>2, <1>3, <1>4, <1>5, <1>6, Zenon DEF IInv

LEMMA ResetKeeps == ASSUME IInv, Reset PROVE IInv'
<1>1. TypeOK'
  <2>1. (pc \in {"idle", "prepare", "request", "requested"} /\ prepared \in BOOLEAN /\ loaded \in BOOLEAN)'
    BY DEF IInv, TypeOK, Reset, Idle, Apply, Aged, graphics, capacities, history
  <2>2. (life \in {"empty", "prepared", "loaded"})'
    BY DEF IInv, TypeOK, Reset, Idle, Apply, Aged, graphics, capacities, history
  <2>3. (chosen \in Selection /\ candidate \in BOOLEAN)'
    BY DEF IInv, TypeOK, Selection, Policy, Reset, Idle, Apply, Aged, graphics, capacities, history
  <2>4. (config \in Policy)'
    BY DEF IInv, TypeOK, Selection, Policy, Reset, Idle, Apply, Aged, graphics, capacities, history
  <2>5. (context \in {"none", "promised", "alive", "stale"} /\ adopted \in BOOLEAN /\ device \in BOOLEAN)'
    BY DEF IInv, TypeOK, Reset, Idle, Apply, Aged, graphics, capacities, history
  <2>6. (variable \in BOOLEAN /\ content \in Content /\ need \in Needs \cup {0})'
    BY DEF IInv, TypeOK, Reset, Idle, Apply, Aged, graphics, capacities, history
  <2>7. (capacity \in Nat /\ startup \in Nat)'
    BY DEF IInv, TypeOK, Reset, Idle, Apply, Aged, graphics, capacities, history
  <2>8. (compact \in BOOLEAN /\ completed \in BOOLEAN /\ fresh \in BOOLEAN)'
    BY DEF IInv, TypeOK, Reset, Idle, Apply, Aged, graphics, capacities, history
  <2>9. (ring \in Nat /\ slot \in Slot \cup {None})'
    BY DEF IInv, TypeOK, Slot, Reset, Idle, Apply, Aged, graphics, capacities, history
  <2>10. (exposed \in BOOLEAN /\ notify \in BOOLEAN /\ known \in BOOLEAN /\ told \in {"nothing", "fallback", "actual"})'
    BY DEF IInv, TypeOK, Reset, Idle, Apply, Aged, graphics, capacities, history
  <2>11. (boots \in 0..2)'
    BY DEF IInv, TypeOK, Reset, Idle, Apply, Aged, graphics, capacities, history
  <2>12. (bootDevice \in BOOLEAN)'
    BY DEF IInv, TypeOK, Reset, Idle, Apply, Aged, graphics, capacities, history
  <2> QED
    BY <2>1, <2>2, <2>3, <2>4, <2>5, <2>6, <2>7, <2>8, <2>9, <2>10, <2>11, <2>12, Zenon DEF TypeOK
<1>2. PhaseInv'
  BY DEF IInv, PhaseInv, Occupied, Reset, Idle, Apply, Aged, graphics, capacities, history
<1>3. PolicyInv'
  BY DEF IInv, TypeOK, PhaseInv, PolicyInv, ContextInv, Occupied, Reset, Idle, Apply, Aged,
    graphics, capacities, history
<1>4. ContextInv'
  BY DEF IInv, PhaseInv, ContextInv, Occupied, Reset, Idle, Apply, Aged, graphics, capacities,
    history
<1>5. AvInv'
  BY DEF IInv, PhaseInv, AvInv, Occupied, Reset, Idle, Apply, Aged, graphics, capacities, history
<1>6. RingInv'
  BY DEF IInv, TypeOK, Slot, PhaseInv, RingInv, Occupied, Reset, Idle, Apply, Aged, graphics,
    capacities, history
<1> QED
  BY <1>1, <1>2, <1>3, <1>4, <1>5, <1>6, Zenon DEF IInv

LEMMA SaveStateKeeps == ASSUME IInv, SaveState PROVE IInv'
<1>1. TypeOK'
  <2>1. (pc \in {"idle", "prepare", "request", "requested"} /\ prepared \in BOOLEAN /\ loaded \in BOOLEAN)'
    BY DEF IInv, TypeOK, SaveState, Idle, TakesPicture, policy, graphics, capacities, frames, av,
      history, InStartupRing
  <2>2. (life \in {"empty", "prepared", "loaded"})'
    BY DEF IInv, TypeOK, SaveState, Idle, TakesPicture, policy, graphics, capacities, frames, av,
      history, InStartupRing
  <2>3. (chosen \in Selection /\ candidate \in BOOLEAN)'
    BY DEF IInv, TypeOK, SaveState, Idle, TakesPicture, policy, graphics, capacities, frames, av,
      history, InStartupRing
  <2>4. (config \in Policy)'
    BY DEF IInv, TypeOK, SaveState, Idle, TakesPicture, policy, graphics, capacities, frames, av,
      history, InStartupRing
  <2>5. (context \in {"none", "promised", "alive", "stale"} /\ adopted \in BOOLEAN /\ device \in BOOLEAN)'
    BY DEF IInv, TypeOK, SaveState, Idle, TakesPicture, policy, graphics, capacities, frames, av,
      history, InStartupRing
  <2>6. (variable \in BOOLEAN /\ content \in Content /\ need \in Needs \cup {0})'
    BY DEF IInv, TypeOK, SaveState, Idle, TakesPicture, policy, graphics, capacities, frames, av,
      history, InStartupRing
  <2>7. (capacity \in Nat /\ startup \in Nat)'
    BY DEF IInv, TypeOK, SaveState, Idle, TakesPicture, policy, graphics, capacities, frames, av,
      history, InStartupRing
  <2>8. (compact \in BOOLEAN /\ completed \in BOOLEAN /\ fresh \in BOOLEAN)'
    BY DEF IInv, TypeOK, SaveState, Idle, TakesPicture, policy, graphics, capacities, frames, av,
      history, InStartupRing
  <2>9. (ring \in Nat /\ slot \in Slot \cup {None})'
    <3>1. ASSUME NEW picture, slot' = [size |-> ring, old |-> FALSE, full |-> TakesPicture(picture)]
          PROVE  slot' \in Slot
      <4>1. TakesPicture(picture) \in BOOLEAN
        BY DEF TakesPicture
      <4>2. ring \in Nat
        BY DEF IInv, TypeOK
      <4> QED
        BY <3>1, <4>1, <4>2 DEF Slot
    <3> QED
      BY <3>1 DEF IInv, TypeOK, SaveState
  <2>10. (exposed \in BOOLEAN /\ notify \in BOOLEAN /\ known \in BOOLEAN /\ told \in {"nothing", "fallback", "actual"})'
    BY DEF IInv, TypeOK, SaveState, Idle, TakesPicture, policy, graphics, capacities, frames, av,
      history, InStartupRing
  <2>11. (boots \in 0..2)'
    BY DEF IInv, TypeOK, SaveState, Idle, TakesPicture, policy, graphics, capacities, frames, av,
      history, InStartupRing
  <2>12. (bootDevice \in BOOLEAN)'
    BY DEF IInv, TypeOK, SaveState, Idle, TakesPicture, policy, graphics, capacities, frames, av,
      history, InStartupRing
  <2> QED
    BY <2>1, <2>2, <2>3, <2>4, <2>5, <2>6, <2>7, <2>8, <2>9, <2>10, <2>11, <2>12, Zenon DEF TypeOK
<1>2. PhaseInv'
  BY DEF IInv, PhaseInv, Occupied, SaveState, Idle, TakesPicture, policy, graphics, capacities,
    frames, av, history, InStartupRing
<1>3. PolicyInv'
  BY DEF IInv, TypeOK, PhaseInv, PolicyInv, ContextInv, Occupied, SaveState, Idle, TakesPicture,
    policy, graphics, capacities, frames, av, history, InStartupRing
<1>4. ContextInv'
  BY DEF IInv, PhaseInv, ContextInv, Occupied, SaveState, Idle, TakesPicture, policy, graphics,
    capacities, frames, av, history, InStartupRing
<1>5. AvInv'
  BY DEF IInv, PhaseInv, AvInv, Occupied, SaveState, Idle, TakesPicture, policy, graphics,
    capacities, frames, av, history, InStartupRing
<1>6. RingInv'
  BY DEF IInv, PhaseInv, RingInv, Occupied, SaveState, Idle, TakesPicture, policy, graphics,
    capacities, frames, av, history, InStartupRing
<1> QED
  BY <1>1, <1>2, <1>3, <1>4, <1>5, <1>6, Zenon DEF IInv

LEMMA LoadStateKeeps == ASSUME IInv, LoadState PROVE IInv'
<1>1. TypeOK'
  BY DEF IInv, TypeOK, LoadState, Idle, policy, graphics, capacities, frames, states, av, history
<1>2. PhaseInv'
  BY DEF IInv, PhaseInv, Occupied, LoadState, Idle, policy, graphics, capacities, frames, states,
    av, history
<1>3. PolicyInv'
  BY DEF IInv, TypeOK, PhaseInv, PolicyInv, ContextInv, Occupied, LoadState, Idle, policy, graphics,
    capacities, frames, states, av, history
<1>4. ContextInv'
  BY DEF IInv, PhaseInv, ContextInv, Occupied, LoadState, Idle, policy, graphics, capacities,
    frames, states, av, history
<1>5. AvInv'
  BY DEF IInv, PhaseInv, AvInv, Occupied, LoadState, Idle, policy, graphics, capacities, frames,
    states, av, history
<1>6. RingInv'
  BY DEF IInv, PhaseInv, RingInv, Occupied, LoadState, Idle, policy, graphics, capacities, frames,
    states, av, history
<1> QED
  BY <1>1, <1>2, <1>3, <1>4, <1>5, <1>6, Zenon DEF IInv

\* What a first answer gives, and that a later one leaves a fixed frontend alone.
LEMMA Answered ==
  ASSUME IInv, AskSize
  PROVE  /\ capacity' \in Nat /\ startup' \in Nat /\ compact' \in BOOLEAN
         /\ capacity # 0 /\ ~variable => UNCHANGED capacities
         /\ capacity = 0 => /\ capacity' # 0
                            /\ need <= capacity'
                            /\ need + Picture <= capacity' \/ Picture - need >= Reserve
                            /\ (startup' = capacity') \/ (startup' = startup /\ compact' = compact)
<1>1. /\ need \in Nat /\ capacity \in Nat /\ startup \in Nat /\ compact \in BOOLEAN /\ completed \in BOOLEAN
      /\ Needs \cup {0} \subseteq Nat /\ Picture \in Nat
  BY LibretroAssumption, Pictured DEF IInv, TypeOK
<1>2. CASE ~Measures
  BY <1>1, <1>2 DEF AskSize, Measures, capacities
<1>3. CASE Measures
  <2>1. PICK s \in {s \in Needs \cup {0} : s >= need} :
          LET small == ~completed /\ StartsCompact(s)
              actual == IF small THEN s ELSE Larger(s, Picture)
          IN /\ capacity' = IF capacity = 0 \/ actual > capacity THEN CapacityFor(actual, small)
                                                                 ELSE capacity
             /\ startup' = IF completed THEN startup ELSE capacity'
             /\ compact' = IF completed THEN compact ELSE small
    BY <1>3 DEF AskSize
  <2> DEFINE small == ~completed /\ StartsCompact(s)
             actual == IF small THEN s ELSE Larger(s, Picture)
  <2>2. /\ capacity' = IF capacity = 0 \/ actual > capacity THEN CapacityFor(actual, small) ELSE capacity
        /\ startup' = IF completed THEN startup ELSE capacity'
        /\ compact' = IF completed THEN compact ELSE small
    BY <2>1
  <2>3. s \in Nat /\ s >= need
    BY <1>1
  <2>4. small \in BOOLEAN
    OBVIOUS
  <2>5. actual \in Nat /\ actual >= s /\ (small \/ actual >= Picture)
    BY <1>1, <2>3 DEF Larger
  <2>6. CapacityFor(actual, small) \in Nat /\ CapacityFor(actual, small) >= 2 * actual + Margin
    BY <2>4, <2>5, Capacities
  <2>7. small => actual = s /\ CapacityFor(actual, small) >= Small
    BY <2>3 DEF CapacityFor, Larger, Small, Margin
  <2>8. small => \/ Picture - s >= Reserve
                 \/ Picture + 2 * s <= Small
    BY <1>1, <2>3 DEF StartsCompact, Small, Reserve
  <2> HIDE DEF small, actual
  <2>9. capacity' \in Nat /\ startup' \in Nat
    BY <1>1, <2>2, <2>6
  <2>10. compact' \in BOOLEAN
    BY <1>1, <2>2, <2>4
  <2>11. ASSUME capacity = 0
         PROVE  /\ capacity' # 0 /\ need <= capacity'
                /\ need + Picture <= capacity' \/ Picture - need >= Reserve
    <3>1. capacity' = CapacityFor(actual, small)
      BY <2>2, <2>11
    <3>2. capacity' \in Nat /\ capacity' >= 2 * actual + 4
      BY <2>6, <3>1 DEF Margin
    <3>3. CASE small
      <4>1. actual = s /\ capacity' >= Small
        BY <2>7, <3>1, <3>3
      <4>2. CASE Picture - s >= Reserve
        BY <1>1, <2>3, <3>2, <4>1, <4>2 DEF Reserve
      <4>3. CASE Picture + 2 * s <= Small
        BY <1>1, <2>3, <3>2, <4>1, <4>3 DEF Small
      <4> QED
        BY <2>8, <3>3, <4>2, <4>3
    <3>4. CASE ~small
      BY <1>1, <2>3, <2>5, <3>2, <3>4
    <3> QED
      BY <3>3, <3>4
  <2>12. (startup' = capacity') \/ (startup' = startup /\ compact' = compact)
    BY <2>2
  <2>13. capacity = 0 \/ variable
    BY <1>3 DEF Measures
  <2> QED
    BY <2>9, <2>10, <2>11, <2>12, <2>13
<1> QED
  BY <1>2, <1>3

LEMMA AskSizeKeeps == ASSUME IInv, AskSize PROVE IInv'
<1>1. /\ pc = "idle" /\ loaded
      /\ UNCHANGED <<pc, prepared, loaded, life, policy, graphics, variable, content, need, frames, slot, av, history>>
      /\ \/ ring' = capacity' /\ (ring = 0 \/ variable)
         \/ ring # 0 /\ ring' = ring
  BY DEF AskSize, Idle
<1>2. TypeOK'
  <2>1. ring' \in Nat
    BY <1>1, Answered DEF IInv, TypeOK
  <2>2. capacity' \in Nat /\ startup' \in Nat /\ compact' \in BOOLEAN
    BY Answered
  <2>3. UNCHANGED <<pc, prepared, loaded, life, chosen, candidate, config, context, adopted, device, variable,
                    content, need, completed, fresh, slot, exposed, notify, known, told, boots, bootDevice>>
    BY <1>1 DEF policy, graphics, frames, av, history
  <2>4. /\ pc' \in {"idle", "prepare", "request", "requested"} /\ life' \in {"empty", "prepared", "loaded"}
        /\ context' \in {"none", "promised", "alive", "stale"} /\ told' \in {"nothing", "fallback", "actual"}
        /\ chosen' \in Selection /\ config' \in Policy /\ content' \in Content /\ need' \in Needs \cup {0}
        /\ slot' \in Slot \cup {None} /\ boots' \in 0..2
    BY <2>3 DEF IInv, TypeOK
  <2>5. /\ prepared' \in BOOLEAN /\ loaded' \in BOOLEAN /\ candidate' \in BOOLEAN /\ adopted' \in BOOLEAN
        /\ device' \in BOOLEAN /\ variable' \in BOOLEAN /\ completed' \in BOOLEAN /\ fresh' \in BOOLEAN
        /\ exposed' \in BOOLEAN /\ notify' \in BOOLEAN /\ known' \in BOOLEAN /\ bootDevice' \in BOOLEAN
    BY <2>3 DEF IInv, TypeOK
  <2> QED
    BY <2>1, <2>2, <2>4, <2>5, Zenon DEF TypeOK
<1>3. (PhaseInv /\ PolicyInv /\ ContextInv)'
  BY <1>1 DEF IInv, PhaseInv, PolicyInv, ContextInv, Occupied, policy, graphics, history
<1>4. AvInv'
  BY <1>1 DEF IInv, AvInv, Occupied, frames, av
<1>5. RingInv'
  <2>1. CASE variable
    BY <1>1, <2>1 DEF RingInv
  <2>2. CASE ~variable /\ capacity # 0
    <3>1. UNCHANGED capacities /\ ring' = ring
      BY <1>1, <2>2, Answered DEF IInv, RingInv
    <3> QED
      BY <1>1, <3>1, Zenon DEF IInv, RingInv, capacities
  <2>3. CASE ~variable /\ capacity = 0
    <3>1. ring = 0 /\ ~compact /\ ring' = capacity' /\ capacity' # 0
      BY <1>1, <2>3, Answered DEF IInv, RingInv
    <3>2. slot = None
      BY <3>1, <2>3 DEF IInv, RingInv
    <3>3. compact' => startup' = capacity'
      BY <2>3, <3>1, Answered
    <3> QED
      BY <1>1, <3>1, <3>2, <3>3 DEF RingInv
  <2> QED
    BY <2>1, <2>2, <2>3
<1> QED
  BY <1>2, <1>3, <1>4, <1>5, Zenon DEF IInv

LEMMA Invariance == Spec => []IInv
<1>1. Init => IInv
  <2> SUFFICES ASSUME Init PROVE IInv
    OBVIOUS
  <2>1. TypeOK
    <3>1. pc \in {"idle", "prepare", "request", "requested"} /\ prepared \in BOOLEAN /\ loaded \in BOOLEAN
      BY DEF Init
    <3>2. life \in {"empty", "prepared", "loaded"} /\ chosen \in Selection /\ candidate \in BOOLEAN
      BY DEF Init
    <3>3. config \in Policy
      BY DEF Init, Nowhere, Policy
    <3>4. context \in {"none", "promised", "alive", "stale"} /\ adopted \in BOOLEAN /\ device \in BOOLEAN
      BY DEF Init
    <3>5. variable \in BOOLEAN /\ content \in Content /\ need \in Needs \cup {0}
      BY DEF Init
    <3>6. capacity \in Nat /\ startup \in Nat /\ ring \in Nat /\ boots \in 0..2
      BY DEF Init
    <3>7. compact \in BOOLEAN /\ completed \in BOOLEAN /\ fresh \in BOOLEAN /\ slot \in Slot \cup {None}
      BY DEF Init
    <3>8. exposed \in BOOLEAN /\ notify \in BOOLEAN /\ known \in BOOLEAN /\ told \in {"nothing", "fallback", "actual"}
      BY DEF Init
    <3>9. bootDevice \in BOOLEAN
      BY DEF Init
    <3> QED
      BY <3>1, <3>2, <3>3, <3>4, <3>5, <3>6, <3>7, <3>8, <3>9, Zenon DEF TypeOK
  <2> QED
    BY <2>1 DEF Init, IInv, PhaseInv, PolicyInv, ContextInv, AvInv, RingInv, Occupied
<1>2. IInv /\ [Next]_vars => IInv'
  <2> SUFFICES ASSUME IInv, [Next]_vars PROVE IInv'
    OBVIOUS
  <2>1. CASE Next
    BY <2>1, LoadGameKeeps, PrepareFailsKeeps, PrepareKeeps, RequestAcceptedKeeps, RequestRefusedKeeps,
       RequestReturnsKeeps, UnloadKeeps, ContextResetKeeps, ContextDestroyKeeps, AskAvKeeps, RunKeeps,
       RunFailsKeeps, ResetKeeps, AskSizeKeeps, SaveStateKeeps, LoadStateKeeps, Zenon DEF Next
  <2>2. CASE UNCHANGED vars
    <3>1. UNCHANGED <<pc, prepared, loaded, life, chosen, candidate, config, context, adopted, device, variable,
                      content, need, capacity, startup, compact, completed, fresh, ring, slot, exposed, notify,
                      known, told, boots, bootDevice>>
      BY <2>2 DEF vars, phase, policy, graphics, capacities, frames, states, av, history
    <3>2. TypeOK'
      BY <3>1 DEF IInv, TypeOK
    <3>3. (PhaseInv /\ PolicyInv /\ ContextInv)'
      BY <3>1 DEF IInv, PhaseInv, PolicyInv, ContextInv, Occupied
    <3>4. (AvInv /\ RingInv)'
      BY <3>1 DEF IInv, AvInv, RingInv, Occupied
    <3> QED
      BY <3>2, <3>3, <3>4, Zenon DEF IInv
  <2> QED
    BY <2>1, <2>2
<1> QED
  BY <1>1, <1>2, PTL DEF Spec
-----------------------------------------------------------------------------
\* The fields of the adapter keep their types.
THEOREM Typing == Spec => []TypeOK
<1>1. IInv => TypeOK
  BY Zenon DEF IInv
<1> QED
  BY Invariance, <1>1, PTL

\* libretro_content_start, hardware_context_reset: content is started once, for the context there was
\* and under the policy that was settled last, and no device outlives its context.
THEOREM StartedForItsContext == Spec => []ContextFits
<1>1. IInv => ContextFits
  BY DEF IInv, PhaseInv, PolicyInv, ContextInv, ContextFits, StartsOnceUnderFinalPolicy, DeviceIsAlive
<1> QED
  BY Invariance, <1>1, PTL

\* retro_get_system_av_info, retro_run: whoever was told the fallback is told the picture's size by the
\* first frame that succeeds.
THEOREM FallbackCorrected == Spec => []AvTold
<1>1. IInv => AvTold
  BY DEF IInv, AvInv, AvTold
<1> QED
  BY Invariance, <1>1, PTL

\* retro_serialize_size, retro_unserialize: the first capacity holds the state, is never changed for a
\* frontend that takes one size for all, and no slot of such a frontend undoes a reset.
THEOREM CapacitiesAndSlots == Spec => SlotsAreKept
<1>1. IInv /\ LoadState => NoPreResetState
  BY DEF IInv, RingInv, LoadState, NoPreResetState, Refuses, InStartupRing, TypeOK, Slot
<1>2. IInv /\ [Next]_vars => CapacityIsKept
  <2> SUFFICES ASSUME IInv, [Next]_vars PROVE CapacityIsKept
    OBVIOUS
  <2>1. CASE AskSize
    BY <2>1, Answered, Zenon DEF CapacityIsKept, capacities
  <2>2. CASE Unload \/ LoadGame
    <3>1. capacity' = 0 \/ capacity' = capacity
      BY <2>2 DEF Unload, LoadGame, Unloads, capacities
    <3> QED
      BY <2>2, <3>1, Zenon DEF CapacityIsKept
  <2>3. CASE Prepare \/ RequestRefused \/ ContextReset
    <3>1. capacity' = capacity
      BY <2>3 DEF IInv, PhaseInv, RingInv, Occupied, Prepare, RequestRefused, ContextReset, Waiting, Start,
                  StaysPrepared, capacities
    <3> QED
      BY <3>1, Zenon DEF CapacityIsKept
  <2>4. CASE \/ PrepareFails \/ RequestAccepted \/ RequestReturns \/ ContextDestroy \/ AskAv \/ Run \/ RunFails
             \/ Reset \/ SaveState \/ LoadState \/ UNCHANGED vars
    <3>1. capacity' = capacity
      BY <2>4 DEF PrepareFails, RequestAccepted, RequestReturns, ContextDestroy, AskAv, Run, RunFails, Reset,
                  SaveState, LoadState, vars, capacities
    <3> QED
      BY <3>1, Zenon DEF CapacityIsKept
  <2> QED
    BY <2>1, <2>2, <2>3, <2>4, Zenon DEF Next
<1>3. [Next]_vars /\ IInv => [NoPreResetState /\ CapacityIsKept]_vars
  BY <1>1, <1>2, Zenon DEF NoPreResetState
<1> QED
  BY Invariance, <1>3, PTL DEF Spec, SlotsAreKept
=============================================================================
