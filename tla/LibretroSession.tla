-------------------------- MODULE LibretroSession --------------------------
(***************************************************************************)
(* The libretro adapter between a frontend and the engine                  *)
(* (adapters/libretro/libretro_entry.c, libretro_hw_render.c): content is  *)
(* loaded in two steps, the second of which may wait for the frontend's    *)
(* graphics context; the context comes and goes through callbacks, the     *)
(* first perhaps inside the call that asks for it; and a frontend keeps    *)
(* states in slots of a capacity it was once told.  The frontend makes one *)
(* call at a time.  Capacities are counted in units of 128 KiB.  An        *)
(* operator preceded by "Mistake:" is no part of the specification: it is  *)
(* a bug the checked properties catch.                                     *)
(***************************************************************************)
EXTENDS Integers

CONSTANTS Needs,      \* sizes a state without its picture may have
          Pictures,   \* ceilings of the completed picture
          None        \* an empty slot

ASSUME LibretroAssumption == Needs \subseteq Nat \ {0} /\ Pictures \subseteq Nat \ {0}

VARIABLES
  pc,                    \* "idle", or where retro_load_game is
  prepared, loaded,      \* of the adapter
  life,                  \* the engine's lifecycle
  chosen,                \* hybrid_gpu_selected, content_glsl_selected
  candidate,             \* content_glsl_candidate
  config,                \* the engine's graphics policy: [hybrid, expected, readback]
  context,               \* the frontend's graphics context, as far as the adapter was promised one
  adopted, device,       \* g_hardware_adopted; the engine's device is active
  variable,              \* variable_state_supported
  content,               \* of the content: [picture, surfaces, containers]
  need,                  \* size of the engine's state without its picture
  capacity, startup, compact,  \* fixed_state_capacity, startup_resume_capacity, startup_ring_compact
  completed, fresh,      \* frame_completed, reset_pending_frame
  ring, slot,            \* of the frontend: the size it allocates slots of, and one slot
  exposed, notify,       \* provisional_av_exposed, startup_av_notification_pending
  known, told,           \* av has the engine's answer; what the frontend was told last
  boots, bootDevice      \* history: starts of this load; whether the latest one had a device

phase == <<pc, prepared, loaded, life>>
policy == <<chosen, candidate, config>>
graphics == <<context, adopted, device>>
capacities == <<capacity, startup, compact>>
frames == <<completed, fresh>>
states == <<ring, slot>>
av == <<exposed, notify, known, told>>
history == <<boots, bootDevice>>
vars == <<phase, policy, graphics, variable, content, need, capacities, frames, states, av, history>>

Selection == [hybrid : BOOLEAN, shaders : BOOLEAN]
Policy == [hybrid : BOOLEAN, expected : BOOLEAN, readback : BOOLEAN]
Content == [picture : Pictures, surfaces : BOOLEAN, containers : BOOLEAN]
Slot == [size : Nat, old : BOOLEAN, full : BOOLEAN]
Nowhere == [hybrid |-> FALSE, expected |-> FALSE, readback |-> FALSE]

TypeOK ==
  /\ pc \in {"idle", "prepare", "request", "requested"}
  /\ prepared \in BOOLEAN /\ loaded \in BOOLEAN /\ life \in {"empty", "prepared", "loaded"}
  /\ chosen \in Selection /\ candidate \in BOOLEAN /\ config \in Policy
  /\ context \in {"none", "promised", "alive", "stale"} /\ adopted \in BOOLEAN /\ device \in BOOLEAN
  /\ variable \in BOOLEAN /\ content \in Content /\ need \in Needs \cup {0}
  /\ capacity \in Nat /\ startup \in Nat /\ compact \in BOOLEAN
  /\ completed \in BOOLEAN /\ fresh \in BOOLEAN
  /\ ring \in Nat /\ slot \in Slot \cup {None}
  /\ exposed \in BOOLEAN /\ notify \in BOOLEAN /\ known \in BOOLEAN
  /\ told \in {"nothing", "fallback", "actual"}
  /\ boots \in 0..2 /\ bootDevice \in BOOLEAN

Init ==
  /\ pc = "idle" /\ prepared = FALSE /\ loaded = FALSE /\ life = "empty"
  /\ chosen \in Selection /\ candidate = FALSE /\ config = Nowhere
  /\ context = "none" /\ adopted = FALSE /\ device = FALSE
  /\ variable \in BOOLEAN /\ content \in Content /\ need = 0
  /\ capacity = 0 /\ startup = 0 /\ compact = FALSE /\ completed = FALSE /\ fresh = FALSE
  /\ ring = 0 /\ slot = None
  /\ exposed = FALSE /\ notify = FALSE /\ known = FALSE /\ told = "nothing"
  /\ boots = 0 /\ bootDevice = FALSE

Idle == pc = "idle" /\ UNCHANGED pc
-----------------------------------------------------------------------------
(* Loading.                                                                *)

\* Mistake: the device is handed over to the next content.
ReleaseNever == adopted' = FALSE /\ UNCHANGED device

\* libretro_hw_render_release
Release ==
  /\ adopted' = FALSE
  /\ device' = (device /\ ~adopted)

\* retro_unload_game; the frontend drops its slots, and the context with it or a little later.
Unloads ==
  /\ Release
  /\ context' = IF context = "alive" THEN "stale" ELSE "none"
  /\ prepared' = FALSE /\ loaded' = FALSE /\ life' = "empty" /\ candidate' = FALSE
  /\ capacity' = 0 /\ startup' = 0 /\ compact' = FALSE /\ completed' = FALSE /\ fresh' = FALSE
  /\ ring' = 0 /\ slot' = None /\ need' = 0
  /\ exposed' = FALSE /\ notify' = FALSE /\ known' = FALSE /\ told' = "nothing"
  /\ boots' = 0 /\ bootDevice' = FALSE

Occupied == loaded \/ prepared

Unload ==
  /\ Idle /\ Occupied
  /\ Unloads
  /\ UNCHANGED <<chosen, config, variable, content>>

\* libretro_options_apply: the graphics selections are read for a load and kept until its end.
Apply(kept) ==
  IF kept THEN UNCHANGED <<chosen, config>>
  ELSE \E menu \in Selection :
         /\ chosen' = menu
         /\ config' = [hybrid |-> menu.hybrid, expected |-> menu.shaders, readback |-> menu.shaders]

\* retro_load_game up to the engine's call: the previous content goes first.
LoadGame ==
  /\ pc = "idle"
  /\ IF Occupied THEN Unloads
     ELSE UNCHANGED <<prepared, loaded, life, candidate, graphics, capacities, frames, states, need, known,
                      told, history>> /\ exposed' = FALSE /\ notify' = FALSE
  /\ Apply(FALSE)
  /\ pc' = "prepare"
  /\ UNCHANGED <<variable, content>>

\* libretro_options_finalize_graphics
Finalized(p, available, hasShaders) ==
  [hybrid |-> available /\ chosen.hybrid,
   expected |-> available /\ chosen.shaders /\ hasShaders,
   readback |-> p.readback /\ ~(chosen.shaders /\ hasShaders /\ ~available)]

\* Mistake: the fallback that was exposed is forgotten.
NotifyNever == notify' = FALSE

Notify == notify' = exposed

\* libretro_content_start, where the engine is prepared: the program runs for the first time.
Start(hasDevice) ==
  /\ prepared' = FALSE /\ loaded' = TRUE /\ life' = "loaded"
  /\ need' \in Needs
  /\ capacity' = 0 /\ startup' = 0 /\ compact' = FALSE /\ completed' = FALSE /\ fresh' = FALSE
  /\ Notify /\ exposed' = FALSE /\ known' = TRUE
  /\ boots' = boots + 1 /\ bootDevice' = hasDevice

StaysPrepared ==
  /\ prepared' = TRUE /\ life' = "prepared"
  /\ UNCHANGED <<loaded, need, capacities, frames, exposed, notify, known, history>>

NeedsContext(hasShaders) == chosen.hybrid \/ (chosen.shaders /\ hasShaders)

\* The cache cannot be cleared, or the engine does not take the content.
PrepareFails ==
  /\ pc = "prepare"
  /\ pc' = "idle"
  /\ UNCHANGED <<prepared, loaded, life, policy, graphics, variable, content, need, capacities, frames, states,
                 av, history>>

Prepare ==
  /\ pc = "prepare"
  /\ content' \in Content
  /\ \E hasShaders \in BOOLEAN :
       /\ candidate' = hasShaders
       /\ config' = Finalized(config, NeedsContext(hasShaders), hasShaders)
       /\ IF NeedsContext(hasShaders)
            THEN StaysPrepared /\ pc' = "request"
            ELSE Start(device) /\ pc' = "idle"
  /\ UNCHANGED <<chosen, graphics, variable, states, told>>

\* libretro_hw_render_request: the frontend may create the context before it answers.
RequestAccepted ==
  /\ pc = "request"
  /\ pc' = "requested" /\ context' = "promised" /\ adopted' = FALSE
  /\ UNCHANGED <<prepared, loaded, life, policy, device, variable, content, need, capacities, frames, states, av,
                 history>>

RequestRefused ==
  /\ pc = "request"
  /\ pc' = "idle"
  /\ context' = "none" /\ adopted' = FALSE
  /\ config' = Finalized(config, FALSE, candidate)
  /\ Start(device)
  /\ UNCHANGED <<chosen, candidate, device, variable, content, states, told>>

RequestReturns ==
  /\ pc = "requested"
  /\ pc' = "idle"
  /\ UNCHANGED <<prepared, loaded, life, policy, graphics, variable, content, need, capacities, frames, states,
                 av, history>>
-----------------------------------------------------------------------------
(* The context.                                                            *)

\* Mistake: a context that comes back starts a program that runs.
WaitingAgain == prepared \/ loaded

Waiting == prepared /\ ~loaded

\* hardware_context_reset: the first, one after the context was destroyed, or one that replaces a
\* context that is gone.  The engine may fail to set itself up in it.
ContextReset ==
  /\ pc \in {"idle", "requested"} /\ context \in {"promised", "alive"}
  /\ context' = "alive"
  /\ \E ok \in BOOLEAN :
       /\ adopted' = ok /\ device' = ok
       /\ IF Waiting
            THEN config' = Finalized(config, ok, candidate) /\ Start(ok)
            ELSE UNCHANGED <<config, prepared, loaded, life, need, capacities, frames, exposed, notify, known,
                           history>>
  /\ UNCHANGED <<pc, chosen, candidate, variable, content, states, told>>

\* hardware_context_destroy, also after the content has gone.
ContextDestroy ==
  /\ Idle /\ context \in {"alive", "stale"}
  /\ context' = IF context = "alive" THEN "promised" ELSE "none"
  /\ adopted' = FALSE /\ device' = FALSE
  /\ UNCHANGED <<prepared, loaded, life, policy, variable, content, need, capacities, frames, states, av,
                 history>>
-----------------------------------------------------------------------------
(* Frames and resets.                                                      *)

\* retro_get_system_av_info
AskAv ==
  /\ Idle /\ Occupied
  /\ exposed' = (exposed \/ prepared)
  /\ told' = IF known THEN "actual" ELSE "fallback"
  /\ UNCHANGED <<prepared, loaded, life, policy, graphics, variable, content, need, capacities, frames, states,
                 notify, known, history>>

\* retro_run: the settings are read again, and the frontend is told once of what it could not know.
Run ==
  /\ Idle /\ loaded /\ life = "loaded"
  /\ Apply(Occupied)
  /\ completed' = TRUE /\ fresh' = FALSE
  /\ need' \in Needs
  /\ notify' = FALSE
  /\ told' = IF notify THEN "actual" ELSE told
  /\ known' = (known \/ notify)
  /\ UNCHANGED <<prepared, loaded, life, candidate, graphics, variable, content, capacities, states,
                 exposed, history>>

\* The frame fails; when a program could not be booted again, for good.
RunFails ==
  /\ Idle /\ loaded
  /\ life' \in {life, "empty"} /\ need' = IF life' = "empty" THEN 0 ELSE need
  /\ Apply(Occupied)
  /\ UNCHANGED <<prepared, loaded, candidate, graphics, variable, content, capacities, frames, states, av,
                 history>>

Aged(s) == IF s = None THEN None ELSE [s EXCEPT !.old = TRUE]

\* retro_reset: the graphics policies stay those of the load.
Reset ==
  /\ Idle /\ loaded
  /\ Apply(Occupied)
  /\ \/ /\ life = "loaded"
        /\ fresh' = TRUE /\ need' \in Needs /\ slot' = Aged(slot) /\ known' = TRUE
        /\ UNCHANGED life
     \/ /\ life' = "empty" /\ need' = 0 /\ known' = FALSE
        /\ UNCHANGED <<fresh, slot>>
  /\ UNCHANGED <<prepared, loaded, candidate, graphics, variable, content, capacities, completed, ring,
                 exposed, notify, told, history>>
-----------------------------------------------------------------------------
(* States.                                                                 *)

Larger(a, b) == IF a > b THEN a ELSE b
Margin == 4
Reserve == 32           \* 4 MiB
ContainerReserve == 256 \* 32 MiB
Small == 8              \* 1 MiB

HasContainers == life = "loaded" /\ content.containers

\* Mistake: nothing is added to a state that is larger than the floor.
RoomFor(size, isCompact) ==
  Larger(size, IF isCompact THEN Small ELSE IF HasContainers THEN ContainerReserve ELSE Reserve)

\* fixed_state_capacity
CapacityFor(size, isCompact) ==
  Larger(2 * size + Margin,
         IF isCompact THEN Small ELSE IF HasContainers THEN ContainerReserve ELSE Reserve)

Picture == IF life = "loaded" THEN content.picture ELSE 0

\* Leaving the picture out of a startup ring saves a whole reserve, or picture and state fit a small one.
StartsCompact(size) ==
  \/ Picture - size >= Reserve
  \/ Picture # 0 /\ Picture <= Small /\ 2 * size <= Small - Picture /\ ~content.surfaces

Measures == capacity = 0 \/ variable

\* retro_serialize_size: a frontend that takes one size for all is given the first again.  The size is
\* the state's, or a larger one remembered from earlier sessions.
AskSize ==
  /\ Idle /\ loaded
  /\ IF ~Measures THEN UNCHANGED capacities
     ELSE \E size \in {s \in Needs \cup {0} : s >= need} :
            LET small == ~completed /\ StartsCompact(size)
                actual == IF small THEN size ELSE Larger(size, Picture)
            IN /\ capacity' = IF capacity = 0 \/ actual > capacity THEN CapacityFor(actual, small)
                                                                   ELSE capacity
               /\ startup' = IF completed THEN startup ELSE capacity'
               /\ compact' = IF completed THEN compact ELSE small
  /\ \/ ring' = capacity' /\ (ring = 0 \/ variable)
     \/ ring # 0 /\ UNCHANGED ring
  /\ UNCHANGED <<prepared, loaded, life, policy, graphics, variable, content, need, frames, slot, av, history>>

InStartupRing(size) ==
  compact /\ startup # 0 /\ size <= startup

TakesPicture(picture) ==
  /\ (completed /\ InStartupRing(ring)) \/ ring >= capacity
  /\ need + picture <= ring

\* retro_serialize into a slot of the ring.  anygm_state_save leaves the picture out by itself where
\* it does not fit.
SaveState ==
  /\ Idle /\ loaded /\ ring # 0
  /\ IF life = "loaded" /\ need <= ring
       THEN \E picture \in {1, Picture} :
              slot' = [size |-> ring, old |-> FALSE, full |-> TakesPicture(picture)]
       ELSE UNCHANGED slot
  /\ UNCHANGED <<prepared, loaded, life, policy, graphics, variable, content, need, capacities, frames, ring, av,
                 history>>

\* A state of the ring from before a reset, as far as its size tells.
Refuses == fresh /\ InStartupRing(slot.size)

LoadState ==
  /\ Idle /\ loaded /\ slot # None
  /\ IF Refuses \/ life # "loaded" THEN UNCHANGED need ELSE need' \in Needs
  /\ UNCHANGED <<prepared, loaded, life, policy, graphics, variable, content, capacities, frames, states, av,
                 history>>
-----------------------------------------------------------------------------
Next ==
  \/ LoadGame \/ PrepareFails \/ Prepare \/ RequestAccepted \/ RequestRefused \/ RequestReturns \/ Unload
  \/ ContextReset \/ ContextDestroy
  \/ AskAv \/ Run \/ RunFails \/ Reset
  \/ AskSize \/ SaveState \/ LoadState

Spec == Init /\ [][Next]_vars
-----------------------------------------------------------------------------
(* Properties.                                                             *)

\* Whether the context comes inside the request, later, or not at all, a program that runs was started
\* once, under the policy that what was selected before the load, its shaders and that context allow;
\* what is selected meanwhile, a reset or a later context changes none of it (libretro_entry.c:338-439,
\* libretro_options.c:628-723).
StartsOnceUnderFinalPolicy ==
  /\ life = "prepared" => boots = 0
  /\ loaded =>
       /\ boots = 1
       /\ config.hybrid <=> chosen.hybrid /\ bootDevice
       /\ config.expected <=> chosen.shaders /\ candidate /\ bootDevice
       /\ config.readback <=> chosen.shaders /\ (candidate => bootDevice)

\* The engine never has a device of a context that is gone or belongs to earlier content
\* (libretro_hw_render.c:33-70, :132-141).
DeviceIsAlive == device => context = "alive"

\* Content and context fit: the program was started for the context there was, and uses no other.
ContextFits == StartsOnceUnderFinalPolicy /\ DeviceIsAlive

\* A fixed frontend that keeps its compact slots across a reset cannot undo it with one of them before
\* the new program has made a frame (libretro_entry.c:271-279, :690-704).
NoPreResetState ==
  LoadState /\ ~variable /\ compact /\ slot.old /\ fresh => UNCHANGED need

\* A frontend that was answered before the program could run knows better after the first frame
\* (libretro_entry.c:249-255, :546-571).
AvTold == loaded /\ life = "loaded" /\ completed => told # "fallback"

\* The first answer holds the state, and its picture too unless that would cost a reserve of its own; a
\* frontend that takes one size for all is never given another (libretro_entry.c:593-658).
CapacityIsKept ==
  /\ capacity = 0 /\ capacity' # 0 =>
       /\ need <= capacity'
       /\ need + Picture <= capacity' \/ Picture - need >= Reserve
  /\ ~variable /\ capacity # 0 => capacity' \in {capacity, 0} /\ (capacity' = 0 => Unload \/ LoadGame)

\* The sizes and slots a frontend was given stay good for what it does with them.
SlotsAreKept == [][NoPreResetState /\ CapacityIsKept]_vars
=============================================================================
