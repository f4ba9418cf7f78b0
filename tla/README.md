# Verification of AnyGM

This directory models the parts of AnyGM (an engine that runs GameMaker
content, with a libretro adapter in front of it) whose correctness depends on
the order in which things happen: threads, callbacks, phases of a frame, saved
and restored states, slots that are reused. The models are TLA+ modules
translated from the C sources, checked by TLC on small instances, and proved
correct by TLAPS for every value of their constants: types, invariants, action
properties, and that three of them implement what they promise. What is
left to TLC is liveness.

    tlc -workers 2 -config RowPool.cfg MCRowPool     # one run
    tlapm AtlasPoolProofs.tla                        # one module of proofs

`PROJECT.json` lists the components of the system and how far each is covered
(`components`), the runs (`runs`), for every checked property a wrong version
of a definition that the property catches (`mutants`), the source lines each
definition stands for (`map`), where the code and what is said about it differ
(`findings`), what is hard to test in this code (`hazards`), and the proved
theorems (`theorems`). Source paths below are relative to `src/src/`.

Contents: 1 inventory, 2 the modules, 3 runs and bounds, 4 fairness,
5 proofs, 6 where code and documentation differ, 7 what is not modelled,
8 plan.

## 1. Inventory

AnyGM is mostly single-threaded. One host thread calls the public API
(`api/anygm.h`); inside a call the engine runs the virtual machine, whose event
code calls back into the engine (builtins), the renderer and the mixer. Only
the renderer has threads of its own. Difficulty therefore comes less from
threads than from *re-entrancy* (event code changes what the engine is
iterating over), *time travel* (states are saved, loaded, refused and redrawn
between any two frames) and *identity* (slots, handles and ids are reused).

| Component | State it keeps | Operations | Talks to |
| --- | --- | --- | --- |
| libretro adapter (`adapters/libretro/`) | load phase, context state, promised state capacity, rewind ring, options | `retro_*` entry points, context callbacks | frontend callbacks, engine API |
| Engine session (`core/engine.c`, `engine_state.c`) | lifecycle, pending game change, state schedule, ended/presented flags, extents | load (two steps), reset, unload, run frame, state save/load/size | VM, renderer, mixer, input, host services |
| Input (`core/engine_input.c`, keys and buttons of `gml_builtin_platform.c`) | three sources of each key, edges, deferred releases, suppressions | poll, press, release, clear, query | host input callback, event code, states |
| Overrides, graphics, presentation (`core/engine_overrides.c`, `engine_graphics.c`, `engine_presentation.c`) | override rules, hardware context, chosen picture path | apply, reset, context life cycle | adapter, renderer |
| VM frame, instance pool, rooms (`runtime/vm/gml_vm_frame.c`, `gml_vm_instances.c`, `gml_vm_rooms.c`, `gml_vm_events.c`) | the pool of instances, family counts, object lists, snapshot and watermarks of a frame, pending and stored rooms | frame phases, create, destroy, change, deactivate, room change | interpreter, builtins |
| VM interpreter and waits (`gml_vm_exec.c`) | call frames, parked chains of runs, struct slots with generations, collector | execute, park, resume, collect | builtins, states |
| State codec (`gml_vm_state.c`, `gml_builtin_state.c`) | none of its own | encode, decode | all of the above |
| Builtins (`runtime/builtins/`) | data structures, asynchronous queues, files, buffers | several hundred functions | VM, host services |
| Row-worker pool (`video/renderer/gml_render.c`) | band count, epoch, remaining count, workers | hand over bands, tear down | drawing passes, OS threads |
| Atlas decoding (`gml_render_atlas.c`) | per page: pixels, attempts, queue state; the ring of pages | prefetch, need a page, tear down | OS threads, page table |
| Surfaces and targets (`gml_render_surfaces.c`) | surface table, target stack, borrowed pixel buffers | create, resize, free, set and reset target | builtins, drawing |
| Drawing, software 3D, GPU presentation | pixels, fixed-function state | passes | row pool |
| Audio mixer (`audio/mixer/gml_audio.c`) | voices, groups, dynamic sounds, streams | play, stop, steal, mix, save, restore | builtins, codecs |
| Content routing and caches (`content/container/`) | caches on disk, routes | stage, verify, publish, evict | file system |
| Data-file readers, project compiler, classic importer | none across calls | parse, emit | routing |
| Compatibility policies (`compatibility/`) | none | pure decisions from facts about the content | everything |
| Host helpers, media helpers, vendored code, tables | none | wrappers and pure functions | everything |

The hard behaviours, in the order in which this project takes them on:

1. *Threads without locks on the fast path.* Row workers learn of a handover
   from an epoch they read without the mutex, sleep on one condition and
   report on another. Atlas workers and the game's thread both decode pages.
2. *Time travel.* A state may be loaded between any two frames, into another
   configuration, of another program, or be refused halfway. The next frame
   presents the stored picture or draws it again, and must not move the
   simulation while doing so. Input edges straddle the load.
3. *Event code changes what is being iterated.* Loops hold slot numbers while
   handlers destroy, create, change and deactivate instances and ask for other
   rooms, with three generations of rules about who gets which event.
4. *Identity across reuse.* Slots, struct handles (seven-bit generations),
   voices, surfaces and dynamic ids are handed out again.
5. *Programs that replace each other* (game change, restart, end) in the middle
   of a frame, with boots that fail.
6. *Limits*: a full pool of instances, a full ring of pages, a nesting limit of
   game changes, a chain limit of room changes, sixteen pending completions.

What makes each component correct is stated with its module below; for the
components not modelled yet, in the plan.

## 2. The modules

    BandDispatch        abstract: a handover of bands
      ^ implemented by
    RowPool             the row-worker pool         MCRowPool     RendererProofs
    AtlasPool           atlas decoding                            AtlasPoolProofs
    SimulationTimeline  abstract: how a simulation may move
      ^ implemented by
    EngineSession       session, frame phases, states           EngineSessionProofs
    LibretroSession     the adapter between a frontend and the session
                                                                  LibretroSessionProofs
    InputControls       one key and one button through frames and states
                                                                  InputControlsProofs
    InstancePool        operations on the pool of instances
      ^ extended by
    VmFrame             frame phases and room changes over it     MCVmFrame
                                                                  VmFrameProofs
    ParkedRuns          events that wait, and the structs they hold
                                                                  ParkedRunsProofs
    ContentCache        unpacked content on disk across stopped loads
                                                                  ContentCacheProofs
    SurfacePictures     abstract: pictures, and calls that act at once
      ^ implemented by
    RenderTargets       surfaces, targets, deferred fills         MCRenderTargets
                                                                  RendererProofs

A definition preceded by a comment `Mistake: ...` is no part of a
specification. It is a plausible wrong version of the definition after it, kept
to show which property notices the difference. Where several properties answer
one question, one definition conjoins them and is what the run checks; the parts
keep their names and are what the text below and the proofs refer to.

### RowPool, BandDispatch

`gml_run_row_bands_n` splits a pass into bands, publishes a descriptor, bumps an
epoch, wakes the workers, runs band 0 itself and then spins and finally sleeps
until the count of remaining bands is zero. A worker spins on the epoch, then
sleeps on `start_cond`; when it sees a new epoch it rechecks the stop flag,
claims the band of its own number, runs it and counts down.

One step of the model is one atomic load or store, or one critical section.
`cpc` and `wpc` are the program counters, `seen[w]` and `loaded[w]` a worker's
`seen_epoch` and local `epoch`, `nt`, `remaining`, `epoch`, `stop`, `nworkers`
the fields of the pool. Creating workers may stop short at any point (thread
creation fails), waits may wake for no reason, the epoch wraps. A band request
made inside a band runs inline and has no state.

Properties: a worker is between reading the descriptor and counting down only
while the handover that published it is open (`NoBandOutsideHandover`), and the
pool is freed after every worker left (`FreedAfterWorkers`; together
`WorkersInside`); no wake-up is lost: handovers return and teardown ends
(`WaitsEnd`). `ImplementsBandDispatch` says what a handover does against a
specification without threads: `todo` is what is left of `0..nt-1`, and the
handover opens with the epoch. It contains that a call that returned has run
every band (`HandoverComplete`), none twice (`BandsRunOnce`), which are proved
under these names.

That bands write to disjoint rows is a property of the passes, not of the pool,
and is assumed.

### AtlasPool

Pages are decoded by background workers from a ring, or by the game's thread
when it needs one that is not there. The game's thread waits for a page that is
being decoded and takes over one that is only queued, so that stale entries
stay in the ring. `px`, `attempted`, `bytes` are what a page has and what is
counted for it; `state`, `queue`, `shutdown` the fields of `GmlAtlasPool`. A
prefetch (`Prefetch`, `CheckRefuse`, `CheckPass`, `Enqueue`) queues the page
asked for and then its neighbours while the budget lasts; `NeedPage` and the
`Look` actions are `atlas_pixels`. `table` counts replacements of the page table
(`MoveTable`): a worker takes the address of its page before it decodes
(`WorkerOpen`) and publishes through it.

Properties: one thread decodes a page, and its state says so (`OneDecoder`), and
a page that is done, or does not decode, is not decoded again (`NeverAgain`;
together `DecodedByOne`); the ring holds one entry for each queued page and never
refuses one (`QueueExact`), and `bytes` counts what is there (`BytesCounted`;
together `LedgersExact`); the answer of `atlas_pixels` does not depend on who
decoded the page (`ResultIsThePage`); queued pages get decoded, sleepers wake and
teardown ends (`WaitsEnd`).

### EngineSession, SimulationTimeline

The session as the host sees it: `LoadPrepare`, `LoadStart`, `Unload`, `Reset`,
`SetConfig`, `Save`, four outcomes of loading a state, and `RunFrame`. A frame is
broken into the phases of `anygm_run_frame` (`Enter*`, `Step`, `After*`, `Draw`,
`Finish*`), because each of them runs program code that may ask for a game
change, a restart, the end, or park on input. The simulation is abstracted to
what the properties tell apart: which program, how many steps since it started
(`n`), how many draws since the last step (`d`), a pending end and whether an
event is parked. A picture is the simulation it was drawn from; beside it stand the
extent whose rows it lies in (`laid`) and the one it is presented in (`out`), and a
stored frame has both. `PutBackFrame` writes a stored frame back as
`state_unserialize_impl` does, in its own rows, whatever the extent is by then.
One control is reported to the pad, whose state is saved, and to the mouse and
the hardware keys, whose state is not.

`SimulationTimeline` says what is promised whatever the host does: the
simulation moves by steps and draws, starts afresh, or is put back to a saved
point, after which the next thing that happens is a step. `KeepsTheTimeline`
checks that the session implements it. While a restored state is redrawn the
draw events do run and do change the simulation; the refinement mapping shows
the state that will be put back instead.

Other properties: there is content behind a loaded lifecycle on every error
path (part of `TypeOK`); a refused state costs nothing of the simulation, the
saved input or an earlier load's schedule (`RefusalKeeps`); no press is invented
by a load, and edges of the pad follow the timeline of the simulation across
loads (`NoSyntheticPress`); a successful frame shows the simulation it leaves
behind, in rows of the extent it is presented in (`ShowsCurrent`). The rows are wrong
in two cases, section 6; the history variable `askew` records these, and the states
saved from them, as the only exceptions; without either recording the property is
violated. A frame returns, also when every program replaces itself
by another while it boots (`FrameReturns`).

### LibretroSession

The adapter as the frontend sees it. `retro_load_game` takes several steps (`pc`):
the previous content goes and the graphics selections are read (`LoadGame`), the
engine prepares the content (`Prepare`), and if content or selection want a
graphics context it is asked for (`RequestAccepted`, `RequestRefused`).
`ContextReset` and `ContextDestroy` are the frontend's callbacks: the first reset
may come inside the request, the program is started by it, and the engine may
fail to set itself up in the context. `context` is what the frontend holds,
`device` what the engine holds. After an unload the frontend may destroy the
context late ("stale").

A frontend with fixed state sizes asks for the size once and allocates all its
slots (`ring`) from the answer; one with variable sizes may follow later answers.
A state has a size without its picture (`need`), and the content a ceiling for its
picture (`content.picture`), both in units of 128 KiB, so that the constants of
`retro_serialize_size` keep their values. `AskSize` is that function: measuring,
the remembered peak, the choice of a compact ring before the first frame, and the
reserves. `SaveState` chooses between the complete form and the one without the
picture; `LoadState` refuses compact slots between a reset and the first frame.

Properties: a program runs once per load, under the policy that the selections
before the load, the content's shaders and the context of its start allow, whatever
is selected later (`StartsOnceUnderFinalPolicy`), and no device outlives its context
(`DeviceIsAlive`; together `ContextFits`); a frontend that was told the fallback
geometry is corrected by the first frame (`AvTold`); the first capacity holds the
state, and the picture too unless that costs a reserve of its own, and a fixed
frontend never gets another answer (`CapacityIsKept`), nor can it undo a reset with a
compact slot before the new program made a frame (`NoPreResetState`; together
`SlotsAreKept`).

The two families of contexts that are tried one after the other are one request,
and the actual geometry is taken to differ from the fallback.

### InputControls

One logical key and one mouse button. `sim` holds the six flags of a simulated
key, `key` and `pad` the levels of the two physical sources, `cleared` the
suppression, `mouse` the button with its two suppressions. `Poll` is the start of
a frame; within a frame the program takes `Press`, `Release`, `Clear` and
`MouseClear` in any order; between frames states are saved and loaded (`Save`,
`Load`), the program is reset (`Reset`), and a loaded state may be drawn again
(`Redraw`): the frame polls, draws, and puts the saved arrays back.

Properties: a press made by the program is answered as pressed in exactly one
frame (`AnsweredOnce`), and a press and release in one frame hold the key for
exactly the next (`PairHoldsOneFrame`; together `PressesExact`); what was cleared
while held reads as up until it is let go (`ClearHolds`); a mouse button reads as
down exactly while it is held and was not cleared since it went down, also on a
restored timeline (`MouseClearExact`).

A redraw that parks, or whose state is refused when it is put back, is not
covered by `Redraw`; EngineSession has both.

### InstancePool, VmFrame

`InstancePool` has the pool (`pool`, `count`), the allocator, and the two
indexes kept beside it: `alive` (`obj_alive`, counts of object families) and
`list` (the chain of each object's instances). An instance is live, deactivated
or dormant (its room is stored), and `marked` once it is being destroyed.

`VmFrame` drives it. `Dispatch` gives the next due instance of the current phase
its event, pushing a frame on `stack`; event code in progress takes any
operation (`OpCreate`, `OpDestroy`, `OpChange`, `OpDeactivate`, `OpActivate`,
`OpAlarm`, `OpRoom`) or returns. The phases, the watermark of each, grouping by
object and the boundaries at which a room request is committed follow
`gml_vm_step` for the three generations of the format (`policy`: "classic",
"live" iteration, "snapshot" iteration). A room change walks Room End, storing
or clearing the old room, placing or waking the new one, Create events, creation
code, Room Start, and may chain.

Properties: the indexes are exact whenever no change of object is under way
(`IndexesExact`); a slot named by the frame's snapshot does not pass to another
instance (`SlotHeld`) and dynamic ids are unique (`DynamicIdsUnique`; together
`IdentityKept`); a newborn gets no event of the phase it was born in
(`NewbornWaits`) and classic content stops at a room request
(`ClassicStopsAtRequest`; together `RightEvents`); nobody vanishes without Clean Up
(`EachCleaned`) and dormant instances come back as they left (`DormantKept`;
together `LivesKept`); outside a room change everyone who is awake belongs to the
current room (`NobodyLeftBehind`); requests are served and frames end, also when
Room Start asks for another room each time, in a cycle without end
(`RequestServed`).

Draw order (depth) is left open: any order. Animation, keyboard, mouse,
collision, path, boundary and asynchronous events are other loops of the same
kind and are not modelled.

### ParkedRuns

An event that waits for input unwinds the C stack (from `vm_wait_park` in
`vm_run_code_impl`): the run that waits and the runs that called it are moved,
innermost first, into the chain `wait.frames`; a later frame takes the chain out
and runs it from the outermost inwards (`gml_vm_wait_resume`).
`stack` is the C stack of runs, `wait` the fields of `GmlWait`. A run calls
(`Call`), calls back through a builtin, which cannot be unwound, waits, returns,
or destroys instances; unwinding fails when a run in the middle cannot join the
chain, and drops what was built (`Cancel`). Between frames the room restarts or a
state is saved and, later, loaded: loading is going back to an earlier state of
the behaviour. Beside it stands the table of structs: `uses` counts how often
each slot was handed out, and a handle keeps that count modulo `GenMod`. The
collector runs when the C stack is empty, also while a chain is parked.

Properties: the chain is whole: it holds the runs of one event, each with the one
it returns to, and is empty exactly when nothing is parked (`ChainIsWhole`); a
chain that is parked is touched by nothing until a later frame takes it up
(`OutstandingKept`); a handle finds the struct it was made for, unless the slot
was reused as often as generations can tell, or a collection ran while only a
parked run held the struct (`HandlesHold`). The last exception is a finding
(section 6); `lost` is the history of it, `depth` and `use` are histories too.

The fields of structs, arrays and strings, the limit of call depth and the
watchdog are left out. A run that belongs to no chain has neither self nor site
in the model, since nothing reads them.

### ContentCache

One source file and the directory the engine unpacks it into. `cache` is what is
published under the hash of each version of the source, `staging` what is being
built aside. A load hashes the source (`key`, `Begin`), takes what is there if it
can vouch for it (`Reuse`), otherwise reads the source again (`image`, `Prepare`),
writes the members one by one (`OpenMember`, `WriteMember`, `SkipMember`), looks at
the source again where the code does (`Check`), writes a marker or manifest
(`Seal`, `Manifest`) and, for what was built aside, removes the old directory and
renames the new one (`RemoveOld`, `Publish`). Between any two steps the program may stop, a write may fail or the source may be replaced
(`MaxFaults` of them); a clearing may stop between two entries. The six ways in
which the code fills a cache are the six families, plus one for projects whose
included files ask not to be overwritten.

Properties: what runs is a complete tree of the version that was hashed
(`ServedIsWhole`); whatever stopped runs left on disk, loading succeeds again
(`Recovers`).

Any family's source may be replaced during a load and any clearing may stop
halfway. Archives and projects (`Vouching`) do not notice all of it, see section 6:
the history variable `spoiled` records the directories in which something may lie
that no marker tells, and `ServedIsWhole` claims a complete tree of the hashed
version outside them, and a payload that is some version's within. A directory is
spoiled when it is filled from a source replaced after its hash, when a clearing of
it removes some entries but not all, and when the load stops or fails in the middle
of an included file that will not be overwritten; it stops being so when it is
cleared, or filled again with every file written. Without any one of the three
recordings the property is violated.

### RenderTargets, SurfacePictures

Surfaces, the stack of targets, and three shortcuts of the renderer: a fill of the
whole target waits until something is drawn (`fill`), a source known to be empty
is skipped (`known`, `empty`), one known to be opaque is copied (`opaque`). The
actions are the calls a program makes (`Create`, `Free`, `Resize`, `ResizeZero`,
`Bind` and `Unbind` in the classic and the nested style, `ClearTarget`, `DrawRect`,
`DrawPixel`, `Punch`, `DrawSurface`, `SurfaceCopy`) and the passes of the engine
(`Begin`, `BeginRetaining`, `EndPass`). A resize of surface 0 moves its pixels to
another plane, and every target that refers to them follows (`Move`). Freeing or resizing a
numbered surface gives its pixels back: targets that refer to them are left on pixels
that are gone (`Drop`, the buffer `Freed`).

`BorrowedIsCoherent` says that no target at any level refers to pixels that are gone.
In the passing run a program frees and resizes numbered surfaces only while they are
not bound, so what the run checks is that resizes of surface 0 are followed everywhere
and that unbinding leaves nothing behind. With the habit "frees" both `Free` and
`Resize` violate the property: the code does nothing for the targets there.

`SurfacePictures` is what a program expects: every canvas holds a picture, every
call acts at once, every pixel is looked at. `ActsAtOnce` checks that each call
has exactly the effect there that its name says (`call`), where a canvas shows
what it will hold once the fill that waits for it is performed (`Seen`).

`Habits` switches on nine things a program can do which the code gets wrong
(section 6); they are off in the passing run. Left out: the deferred underlay and
presentation, run-length and dirty-row caches, saved states, the target a layer
filter pushes, mirrored drawing, sizes and positions (a resize keeps any part), and
a pass over the engine's own buffer while surface 0 has pixels of its own.

## 3. Runs and bounds

| Run | Instance | What it shows |
| --- | --- | --- |
| `row_pool` | 3 workers, 1-bit epoch, passes of 2, 3 and 5 bands | every property of RowPool, and the refinement of BandDispatch |
| `atlas_pool` | 3 pages (1 corrupt, 1 without a blob), 2 threads, budget 1, table moved once | every property of AtlasPool |
| `atlas_pool_table` | 2 pages, 1 thread | a worker decodes into a table that was replaced |
| `session` | 2 programs, 2 extents, nesting limit 2, 2 steps, five kinds of session | every property of EngineSession, and the refinement of SimulationTimeline |
| `libretro` | states of 2 and 30 units, pictures of 4 and 40, frontends of fixed and of variable sizes | every property of LibretroSession |
| `input_controls` | a host with keyboard, with pad, with mouse | every property of InputControls |
| `vm_frame` | 5 slots, 2 objects, 2 rooms, 3 generations, 3 operations by event code | every property of VmFrame |
| `content_cache` | 2 versions of the source, 7 families, 3 faults | every property of ContentCache |
| `parked_runs` | 1 struct slot, 2 generations, 1 placed and 1 dynamic instance, chains of 2 | every property of ParkedRuns |
| `parked_saved` | the same | saving a state frees a struct that only a parked event holds |
| `render_targets` | 2 numbered surfaces or one and surface 0, 2 nested targets | every property of RenderTargets, against SurfacePictures |
| `render_targets_zero` | 1 surface, the habit "zero" | a clear of surface 0 is lost when the target is reset at once |

Why the bounds are enough:

* RowPool. A one-bit epoch is the worst case of wrapping: the counter returns
  to a value a worker has seen after two handovers. Three workers are one more
  than are needed to have one early, one in time and one late. 5 bands exceed
  what the pool may hold; 2 bands make the pool grow between handovers. For other
  sizes there are the proofs.
* AtlasPool. Each kind of page once; two threads that can take neighbouring
  entries; a budget of one page, so that prefetching is refused, resumed and
  spreads to neighbours. More pages and threads: the proofs. `MaxMoves` bounds
  how often the table is replaced; every replacement is like the first.
* EngineSession. `MaxSteps` 2 gives a state before, at and after the point that
  was saved. `DepthLimit` 2 stands for 8: nesting reaches it and is refused. The
  host keeps one state (`store`), overwritten at will. `Envs` splits what the
  program and the host may do into five kinds of session, in each of which the
  listed things interleave freely; all of them at once exceeds what TLC can
  explore in minutes. The kinds were chosen so that each property meets what
  could break it; the kind "late god", and "wait", "input" and "resize" together,
  are in none of them (section 6).
* LibretroSession. The sizes of states and pictures are chosen for the branches of
  `retro_serialize_size`: a picture that fits a small ring with a small state, one
  whose omission saves a reserve (with the small state) and one whose omission does
  not (with the large one); a state that outgrows the first answer. One slot stands
  for the ring, since a slot is refused or taken for its own size and age.
  Behaviours are unbounded.
* InputControls. Keys share no state, so one key and one button stand for all.
  The only counter, `owed`, is at most 3 by construction, and behaviours are
  unbounded.
* VmFrame. `MaxOps` bounds the operations event code performs over a whole
  behaviour, not the number of frames. Three operations suffice for the patterns
  that matter: destroy, create into the hole, ask for a room. Requests by Room Start
  events are not counted: each of them may ask again, so a cycle of rooms goes on for
  ever, and a frame in it ends by `ChainLimit` only. Five slots leave
  room for the placements of both rooms and the newborn. `Starts` are the rooms a
  behaviour may begin in, with everyone in place. Room 0 keeps its
  instances and room 1 does not; object 1 is a persistent child of object 0.
  `ChainLimit` 2 stands for 2 * rooms + 8. `Habits` switches on four unusual
  things event code can do; they are off in the passing run, because each of
  them breaks an invariant (section 6).
* ContentCache. Members are one payload, one asset and one anchor; what matters is
  which of them a stopped load had written. Three faults are a stop, a failure
  while recovering from it, and a replacement of the source. The source may be
  replaced in a load of any family, and any clearing may be interrupted. For other
  numbers of versions and faults there are the proofs.
* ParkedRuns. `MaxUses` 2 hands the slot out once more after a collection;
  `GenMod` 2 for 128: a slot handed out twice is told apart, and a third time
  would not be. `MaxDepth` 3 gives chains with a run in the middle, and
  `MaxFrames` 2 for 8 one that is too long to park. `MaxBeside` bounds the stack
  while a chain is parked, when other events run. One site: what differs with two
  is in section 6.
* RenderTargets. `Depth` 2 for 16: one suspended target below another. Of a picture
  one pixel matters at a time. `Programs` bounds which surfaces one program
  uses together: two numbered ones, or one and surface 0. Surfaces, pixels and
  planes are interchangeable (symmetry); `call` is left out of what makes two states
  different, since no step depends on it.

`CHECK_DEADLOCK FALSE` is set for the two pools only: a pool that has been freed
has nothing left to do.

## 4. Fairness

* RowPool, AtlasPool: the operating system runs every thread that can run (weak
  fairness of the caller's and of each worker's steps). A worker that polls the
  epoch does so a fixed number of times, so it eventually goes for the lock
  (strong fairness of `PollAgain(w, "lock")`: between two polls the loop is
  elsewhere). Handing over, tearing down, asking for a page and spurious wake-ups
  are never forced.
* EngineSession: a frame that was called runs its phases to the end
  (`WF(InFrame)`); nothing forces the host to call one.
* VmFrame: handlers return and the host keeps running frames
  (`WF(Return \/ Engine)`; of the two one is enabled at a time). The interpreter
  ends a run that executes too many instructions (`WATCHDOG_MAX`,
  `gml_vm_exec.c:2933`).
* ContentCache: a program that stopped or gave up is started again (`WF(Begin)`)
  and a load that can go on does (`WF(Load)`). Faults are bounded, not unfair: after
  the last of them a load gets through.

The safety of a run depends on none of this.

## 5. Proofs

TLAPS checks forty-four theorems, for every value of the constants that satisfies the
named assumptions of the modules. Where a theorem has hypotheses of its own they are
named below, and each names something the code can be made to do that breaks the
property (section 6).

`RendererProofs`, its first part (needs `RowPoolAssumption`; in particular two epochs at least,
so that bumping moves the epoch): `Typing`, `BandsStayInside`,
`HandoversComplete`, `FreedLast`, `OwnHandover` (the run's `WorkersInside`),
`OnceEach`, and `Refinement`, that every
behaviour of the pool is one of BandDispatch's safety part. `TypeOK` and the
stated invariants are far from inductive: none of them says why a worker that
polls an epoch without the lock cannot be one handover behind. The inductive
invariant `IInv` classifies every live worker by comparing the epoch it has seen
with the pool's: `Done` with the open handover (seen it, and back at waiting or
about to signal), `Late` for it (not seen it yet) or `Busy` in it. While the
caller prepares a handover everyone is `Done` (`PreparingInv`); while one is open
`remaining` is the number of workers that are not (`OpenInv`), and a band has run
exactly if its worker is done or about to count down; at teardown nobody is
inside a band (`ClosingInv`). Hence a count of zero means that everyone is
`Done`, so the next descriptor can be written and the next bump makes everyone
`Late`: with any epoch width, since no worker is ever two handovers behind. The
counting argument is a lemma about the cardinality of `Pending`.

`RendererProofs`, its second part, is about RenderTargets (needs `TargetsAssumption`: any surfaces,
pixels and planes, any depth of the stack). `TargetsTyping` holds whatever a program does.
`BorrowsStayCoherent` (the run's `BorrowedIsCoherent`) has the hypothesis that "frees"
is not among the habits, and allows the others. `RememberedIsTrue` and
`CallsActAtOnce` (the run's `ActsAtOnce`) have the hypothesis `Habits = {}`.

* *Types.* `TargetsTypeOK`'s bound on the stack needs one fact more for classic programs (`Shallow`): the
  target that is above the pass's is a surface's, so that binding another resets it first.
* *Borrowing.* `Coherent` is inductive once the habit is excluded (with it the
  property is false, see section 6): only a resize of
  surface 0 takes pixels away that a target may refer to, and it is followed in the current
  target, in the base and at every level.
* *What is remembered.* That a skip or a copy is right depends on a fact about pixels,
  that the flags are true. `Sound` states it, with what makes it inductive. `Layout`
  says that the pass is the lowest level of the stack, that every level has the pixels of its own
  surface, which lives, and that no two levels share pixels: were two to share them, the
  fill that waits at one would falsify the flags of the other. `Remembered` says that
  the flags are true, not of the pixels as they are but of what they will be when the
  waiting fill is performed (`Shows`, and for a buffer `See`), for each target, for
  each surface that is not bound (the flags of one that is are out of date until
  its target is reset) and for surface 0 (`appOpaque`). TLC checked both on the instance
  of `render_targets` before they were proved.
* *Steps.* Each call is shown to leave every picture as it was (`Unseen`),
  to repaint one canvas in a way its lemma names (`Repictured`), or to move surface 0 to
  another plane (`Follows`); that these are steps of SurfacePictures, for the call that
  was made, is a second family of lemmas. In `DrawSurface` the cases of
  `Composite` each owe the picture that looking at every pixel would give: a source that is
  known to be empty changes nothing, one known to be opaque replaces it.

`AtlasPoolProofs` (needs `AtlasAssumption`): `Typing`, `SingleDecoder`,
`DecodedOnce`, `OneDecoderOnce`, `ExactQueue`, `CountedBytes`, `ExactLedgers`,
`PixelsOfThePage`, and `Inductive`, which the others rest on. `IInv` says
that a page under decoding has exactly one owner, a worker or the caller
(`OwnersInv`); that a page has pixels exactly if it was attempted and decodes,
and is not settled while being decoded (`PagesInv`); that without a pool nothing
is queued (`PoolInv`); that every queued page has one entry, and an entry that is
stale belongs to a page that is settled or in the caller's hands (`QueueInv`). The
last is what makes the ring exact although a synchronous decode leaves the entry
behind: the page cannot be queued again before it is settled, and then it never
is. `TableInv` ties pointers and byte count to the table.

`EngineSessionProofs` (needs `SessionAssumption` and `NoValue`: any programs, extents and kinds of session, any nesting limit
and length of a program): `Typing`, `ShownIsCurrent`, `RefusedKeeps`, and with a
hypothesis `NothingPressed` and `Refinement`, that every behaviour of the session is one of
SimulationTimeline. None of these is inductive, because a load spreads what it does over
the frames that follow: it leaves a state to be shown (`just`, `reapply`), the next frame
may draw it again under other extents, and only the end of that frame puts it back.
`PhaseInv` says where a frame is and what it may still find; `ScreenInv` what the buffer
holds in each phase; `ScheduleInv`, the heart of the argument, that the state still to be
shown is the one the session is in, or, while it is drawn again, the one it will be in;
`FreshInv` that a session put back does not draw before it has stepped; `PadInv` and
`MouseInv` that edges are taken against the last frame of the right timeline; `ShownInv`
that every picture, presented, stored or scheduled, is its simulation's and lies in
rows of its extent, or is recorded as `askew`; `KindInv` that what
a kind of session cannot do has left no trace. The refinement maps the simulation to the
one scheduled while a redraw is under way; every action is then a step of the timeline or
a stutter. `Refinement` supposes that no kind of session has "late god", `NothingPressed`
also that none has "wait", "input" and "resize" together.

`VmFrameProofs` (needs `PoolAssumption` and `FrameAssumption`: any number of slots, objects
and rooms, any placements, any event code): `Typing`; `Identity` (`IdentityKept`), `Lives`
(`LivesKept`) and `EventsAsPrescribed` (`RightEvents`), for a pool that does not overflow;
`Belonging` (`NobodyLeftBehind`), unless a Clean Up event creates instances while the room
is cleared; `Indexes` (`IndexesExact`), for a pool that does not overflow and event code
that neither ends nor changes an instance in the middle of its change. These are the four
habits of section 6, and TLC finds each property violated with its habit. All rest on
`TypeInv` (which adds to `TypeOK` what every loop and every frame of the stack may name)
and `ShapeInv`: which phases run no event code, which frames belong to clearing a room,
that slots beyond the extent of the pool are free, and that a step's books are kept. `Effects`
says once, for every action, what may happen to one slot; the invariants use it instead of
the actions.

* Identity. `IdInv` bounds every id by the counter and keeps dynamic ids apart from each
  other and from those a room places; `SeenInv` says that a slot the step's snapshot names
  holds that instance for as long as the phases of the step last: slots are freed by the
  sweep after them and by a change of room, and the allocator takes free slots only.
* Lives. `MarkedInv`: an instance that is marked has run its Clean Up, or its Destroy event
  is still in progress, and no sweep happens before that returns; `AwakeInv` keeps the
  sleeping ones off the stack and out of the list of those to draw. So the sweep frees
  only cleaned instances, and whoever sleeps is moved by nothing but its room's return.
* Events. `NewInv`: whoever was born in the phase, or in the group of a classic phase, has
  an id above the watermark and is in no list collected.
* Belonging. `OwnerInv` needs `ClearedInv`, which says that the loop that clears a room has
  left only persistent instances behind it, and that any event code in progress belongs to
  the instance being cleared or to one that is marked.
* Indexes. `IndexesExact` speaks only of the times between changes, but is kept by what
  happens during them: `CountInv` and `ListInv` count an instance in the middle of a change
  under the object it becomes and find it in no list, which is the order in which
  `instance_change` does it. `ChangeInv` says that such an instance runs and is changed once
  at a time. Joining and leaving a list is a lemma about its elements and its
  having no repeats, joining and leaving a count one about cardinalities.

`InputControlsProofs` (any host): `Typing`, `ClearedStaysUp`, `PressedOnce`,
`MouseIsExact`. What the program did to the key and what the six flags say are two
records of one history. `PressInv` says that they agree (`Agree`), at any
time and in the stored state, and that a press counts as made on this timeline
exactly if the key carries a mark of it; `MouseInv`, `StoreInv` and
`ClearInv` do the same for the button and the suppression.

`ContentCacheProofs` (needs `CacheAssumption`: the families are those of the code, an
absent and a torn file are no version, and nothing else): `Typing` and `WholeIsServed`,
for any number of versions and faults, with replacements and interrupted clearings in
every family. `CacheInv` says what a directory vouches for. Where a marker is all that
counts, it is absent or of the version it lies under. For archives, projects and those
that keep files, outside the spoiled directories: a marker of the directory's version
stands for every file, and the payload is that version's, torn or absent, so that no
older marker fits it. `ImageInv`: what was read is what was hashed, or the source can be
seen to have changed. `WrittenInv` and `PublishInv` carry both through the writing of
the members to the moment of publication.

`LibretroSessionProofs` (needs `LibretroAssumption`): `Typing`,
`StartedForItsContext`, `FallbackCorrected`, `CapacitiesAndSlots`. `PhaseInv` says
where a load is, from its program counter; `PolicyInv` that the policy a start used
is the one settled last; `ContextInv` that a device means a loaded program, an
adopted selection and a context alive, and that a context promised or alive means
content to start; `AvInv` that the fallback geometry was told or will be
corrected; `RingInv` that the slots of a fixed frontend have the size it was first
told, and are compact only if that size was the one settled at startup.

`ParkedRunsProofs` (`Typing` and `HandlesFind` need `ParkedAssumption`): `WholeChain` and
`LeftAlone`, for stacks and chains of any length. `ChainIsWhole` is inductive together with two facts: between frames
the stack is empty, and stack and chain are sequences. What runs hold does not matter
to it, so it is proved without their types. The argument is arithmetic: when the
run at depth L joins a chain of n frames, the next to join is at depth L - 1, and each
frame's depth is that plus its distance to the end. `LeftAlone` follows since a chain
that is active is not being built: nobody can park, and what cannot park cancels
nothing.
`Typing` and `HandlesFind` are about the table of structs, for any number of
slots and generations. `TypeOK` holds the books of the table (a slot is live, on the list of
spare ones once, or was never reached), but `HandlesHold` needs two facts more:
a slot never reached was never handed out (`FreshInv`), and no handle, wherever it is held,
names a use of its slot that has not been (`HandleInv`). A handle that finds a
struct not its own then names an earlier use with the same generation, hence
`GenMod` uses earlier at least.

The functions the models take from the community modules to walk a set in order or to drop
elements of a sequence have no theorems in the library, and what a recursive definition
computes cannot be proved here for every input. `Ascending` and `Sift` therefore define the sequence
by what it is, and the lemmas `Ascends` and `Sifted` say what its elements are, in
which order, and that none is repeated.

Only model-checked: all liveness (`WaitsEnd`, `FrameReturns`, `RequestServed`, `Recovers`, and the
fairness in `ImplementsBandDispatch`), which is beyond the prover. Every other property of a
passing run is stated by a theorem.

## 6. Where code and documentation differ

Three runs end in a counterexample and are recorded with the quoted text as
`findings`: decoder threads hold a pointer into a page table that the game's
thread may replace; saving a state collects structs that only a parked event
holds; and a clear of surface 0 is lost when the target is reset at once.

Met while modelling, described here and not run separately:

* *Sessions.* A refused state load is not the exact rollback that
  `docs/STATE_FORMAT.md:266` describes (`core/engine_state.c:753-804`): the snapshot is
  decoded like any state, so that the arrays no state contains (mouse, hardware keys,
  axes) come back cleared, the session is no longer ended, and the pixels of a
  refused frame stay in the buffer if the snapshot has none of its own. A restored session that had ended takes one more
  step (`core/engine.c:971`, `core/engine_state.c:685`). A redrawn picture is
  overwritten: reapplying the state after a redraw
  decodes its stored pixels again (`core/engine_state.c:622`), in rows of the stored
  width, into the buffer that is then presented under the new extent, although the
  comments at `core/engine.c:2066` and `core/engine_state.c:699` say that the new pixels
  stay. This is the first of the two exceptions in `ShowsCurrent`. Redrawing a state with a parked event returns before drawing, with
  the pad's arrays zeroed (`core/engine.c:1131`), so that a button held all along is pressed
  anew in the next frame: a kind with "wait", "input" and "resize" violates
  `NoSyntheticPress`. Toggling god mode between a load
  and its redraw makes the reapplied state refused (`engine.c:2064`), so what the
  draw events did stays: the kind of session "late god" (with
  `Envs = {"resize", "god", "late god"}`) violates `KeepsTheTimeline`. A pending game
  change is neither saved nor cleared by a load, except after a redraw
  (`engine.c:2072`). The picture of an ended session is read with the new extent
  after the configuration changed (`engine.c:968`), the second exception in
  `ShowsCurrent`.
* *Adapter.* A reset or restart that fails leaves the engine empty and the adapter
  loaded. The unload that follows returns from `anygm_unload` before the overrides
  are reset (`core/engine.c:2303`), while the adapter forgets which ones it had set
  (`libretro_entry.c:447`): cheats of the old content stay active in the next. For a
  frontend with variable sizes a size query after a reset, but before the first frame,
  decides again whether the ring is compact; if the state has grown meanwhile, older
  compact slots are no longer recognised, so `NoPreResetState` speaks of fixed
  frontends. If a promised context never arrives the content never starts.
* *Input.* `key_cleared` is neither saved nor reset by a load or a boot: a suppression
  outlives a load that is presented from its stored picture, and a reset, and ends
  with a load that is drawn again. A key cleared while it is up swallows a press
  polled in the next frame. A key that a pad holds in the keyboard's place does not
  stay cleared (`gml_builtin_platform.c:600`, `engine_input.c:146`).
* *Row pool.* A handover always uses every worker there is, although the comment
  at `gml_render.c:394` has it use as many as the pass wants. This wastes time and
  breaks nothing: `BandsRunOnce` holds either way, which is why the band count is a
  definition of its own (`BandCount`).
* *VM.* An `instance_change` whose Destroy event ends the instance leaves the family
  counts wrong (`gml_vm_instances.c:798`, against the comment at 262): habits "die in
  change" and "change in change" violate `IndexesExact`, the latter also by linking an
  instance into its object's list twice. Entering a room again whose placed persistent
  instance survived creates a second instance with the same id, so
  `DynamicIdsUnique` speaks of dynamic ids only. Clean Up runs twice for an instance
  destroyed in the step in which its room is left: `EachCleaned` says at least once.
  With the habit "litter", a Clean Up handler at a room change creates an instance in a
  hole already passed, which survives the change (`NobodyLeftBehind`). With "overflow"
  and four slots, a full pool gives its last slot away without Destroy or Clean Up
  (`IdentityKept`, `NewbornWaits`, `DormantKept`); with three slots it can do so in the
  middle of that instance's change (`IndexesExact`). In the live-iteration Step a newborn in a recycled
  slot runs in the frame it was born in: `NewbornWaits` exempts that loop. A room
  requested in Room End or Clean Up is dropped (`gml_vm_rooms.c:2175`).
* *Waits.* Code that waits at two places in turn never parks, since the second place
  resets what the first has counted (`gml_vm_exec.c:3722`). An event parked in the
  frame in which its room restarts is resumed on the instance that was placed again
  under the same id.
* *Cache.* A torn included file that asks not to be overwritten is kept for ever,
  which `docs/SECURITY_MODEL.md:299` rules out (`gmlc_package.c:86-89`). Archives and
  projects do not look at their source again after unpacking, so a replacement during
  the load is served under the old hash, then and later (`content_router.c:1411`,
  `1442`). They compare only the payload with its marker, so they take a directory whose
  clearing stopped after other files for complete (`content_router.c:1427-1433`), and
  with them projects that keep files. The model has all three; they are what `spoiled`
  records and `ServedIsWhole` excepts, and nothing else. `docs/CONTENT_TRANSFORMS.md:209`
  says why a single loader is assumed. Staging directories of a stopped run stay on
  disk. A file replaced and put back during an executable's load is not noticed
  (`content_router.c:586`): `Replace` changes it once per load.
* *Render targets.* What each habit stands for, and the property it breaks
  (`ActsAtOnce` unless named): "zero", the finding; "bound", drawing a surface that is
  bound or suspended uses the flags it had when it was bound
  (`gml_render_surfaces.c:1008`); "again", binding a canvas that is already bound lets
  the outer waiting fill overwrite what the inner binding drew; "carried", a fill that
  waits when a pass begins is dropped (`gml_render.c:1702`); "holes", drawing
  transparency onto surface 0 after it was declared opaque; "left", a target left
  bound at the end of a pass in the nested style; "extra", resetting a target that is
  not set drops a waiting fill of the pass; "frees", freeing or resizing a bound
  numbered surface leaves the target, or its entry on the stack, on pixels that are gone
  (`gml_render_surfaces.c:247-250`, `296`; `BorrowedIsCoherent`, by `Free` and by `Resize`); "grown",
  resizing surface 0 while its fill waits.

## 7. What is not modelled

* Floating-point and pixel work: drawing passes, 3D, physics, particles, mixing.
* Readers, compilers, decoders: sequential functions of bytes whose failures
  reach the models as a refused load, boot or page. They, the vendored libraries and
  the generated tables are most of the repository's lines, and there is no order of
  events in them to check.
* The meaning of instructions. Event code is any sequence of the operations that
  change the modelled state, which is more than any program can do.
* Compatibility policies: each model takes the resulting policy as a constant.
* Formats. A saved state is the record of fields that come back, and a refused one
  is refused before or after decoding began.
* In EngineSession audio, overrides and the hardware context; in LibretroSession
  starting and stopping the core, input, cheats, messages, the room chooser,
  directories and the ownership of the cache; in VmFrame the event
  kinds named above, parked waits, and programs that write `room_persistent` or
  `persistent` while running.
* The queue of asynchronous completions (`gml_builtin.c:994-1040`,
  `gml_builtin_io.c:1074-1105`). It is a loop over an array, read without a model:
  `gml_fire_async_saveload` sets the count to zero before it walks the entries, and
  handlers append from the front again, so that handlers which queue two requests or
  more while two or more are pending overwrite entries not yet delivered; a map that
  cannot be created drops the rest; requests past the sixteenth are dropped without
  an error; a saved state keeps only the sequence number.
* The table of voices (`audio/mixer/gml_audio.c:956`): a new sound takes a free voice,
  or the first one when none is free, and handles are numbers that only grow; every
  operation is one call with nothing in between.

## 8. Plan

Done: the pools, the session, input, the adapter, the frame and its pool, waits and
structs, the cache, the surfaces. Left, in this order:

1. `VmFrame`: input and collision events, whose loops look at pairs of instances;
   parked waits composed with the frame.
2. `AsyncRequests`, as section 7 describes it, with the property that each request is
   answered once and in order.
3. The deferred presentation of the renderer, composed with RenderTargets.
