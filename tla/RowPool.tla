------------------------------ MODULE RowPool ------------------------------
(***************************************************************************)
(* The renderer's row-worker pool (video/renderer/gml_render.c): one       *)
(* caller hands the bands of a pass to persistent workers through an epoch *)
(* the workers read without the lock; completions are counted down         *)
(* atomically.  A step is one atomic load or store, or one critical        *)
(* section that cannot block halfway.  A definition introduced by          *)
(* "Mistake" is no part of the specification: it is a wrong version of the *)
(* definition after it, kept to show which property notices.               *)
(***************************************************************************)
EXTENDS Integers, FiniteSets

CONSTANTS MaxWorkers,   \* GML_ROW_THREADS_MAX - 1
          EpochMod,     \* the epoch is an unsigned integer of 2^32 values
          Requests      \* the band counts the passes ask for

ASSUME RowPoolAssumption ==
  /\ MaxWorkers \in Nat \ {0}
  /\ EpochMod \in Nat /\ EpochMod >= 2
  /\ Requests \subseteq Nat \ {0, 1}     \* one band runs inline and never reaches the pool

VARIABLES
  cpc,        \* where the caller's thread is
  want,       \* workers the handover being prepared asks for
  active,     \* gml_row_band_active of the caller's thread
  nworkers, stop, nt, remaining, epoch,  \* fields of GmlRowPool
  wpc,        \* where each worker is
  seen,       \* seen_epoch of each worker
  loaded,     \* each worker's local variable epoch
  ran         \* history: the bands of the latest handover whose body has run

pool == <<nworkers, stop, nt, remaining, epoch>>
vars == <<cpc, want, active, nworkers, stop, nt, remaining, epoch, wpc, seen, loaded, ran>>

Workers == 1..MaxWorkers
Live == 1..nworkers
Epochs == 0..(EpochMod - 1)
\* Mistake: the counter does not wrap.
BumpUnwrapped(e) == e + 1

\* An unsigned addition.
Bump(e) == IF e + 1 = EpochMod THEN 0 ELSE e + 1

Waiting == {"poll", "poll2", "lock", "sleep"}
Leaving == {"after", "after2", "recheck"}
Inside == {"claim", "band", "dec"}         \* reading the descriptor or writing through it
WorkerAt == {"absent", "exit", "signal"} \cup Waiting \cup Leaving \cup Inside

Preparing == {"idle", "ensure", "publish", "bump"}
Open == {"broadcast", "band", "spin", "park", "parked"}
Closing == {"stopBump", "stopBroadcast", "join", "freed"}

\* Workers leave their critical sections within one step, so the mutex is held between two
\* steps only by the caller.
MutexFree == cpc \notin {"bump", "broadcast", "stopBump", "stopBroadcast"}

TypeOK ==
  /\ cpc \in Preparing \cup Open \cup Closing
  /\ want \in 0..MaxWorkers
  /\ active \in BOOLEAN
  /\ nworkers \in 0..MaxWorkers
  /\ stop \in BOOLEAN
  /\ nt \in 0..(MaxWorkers + 1)
  /\ remaining \in Int
  /\ epoch \in Epochs
  /\ wpc \in [Workers -> WorkerAt]
  /\ seen \in [Workers -> Epochs]
  /\ loaded \in [Workers -> Epochs]
  /\ ran \subseteq 0..MaxWorkers

Init ==
  /\ cpc = "idle" /\ want = 0 /\ active = FALSE
  /\ nworkers = 0 /\ stop = FALSE /\ nt = 0 /\ remaining = 0 /\ epoch = 0
  /\ wpc = [w \in Workers |-> "absent"]
  /\ seen = [w \in Workers |-> 0]
  /\ loaded = [w \in Workers |-> 0]
  /\ ran = {}
-----------------------------------------------------------------------------
(* The caller: gml_run_row_bands_n and gml_row_pool_free.                  *)

\* A pass asks for n bands.  A call made from inside a band runs inline when the flag is set,
\* which changes nothing here.
Dispatch(n) ==
  /\ cpc \in {"idle", "band"}
  /\ ~active
  /\ want' = IF n - 1 > MaxWorkers THEN MaxWorkers ELSE n - 1
  /\ cpc' = "ensure"
  /\ UNCHANGED <<active, pool, wpc, seen, loaded, ran>>

CreateWorker ==
  /\ cpc = "ensure"
  /\ nworkers < want
  /\ LET w == nworkers + 1
     IN /\ wpc' = [wpc EXCEPT ![w] = "poll"]
        /\ seen' = [seen EXCEPT ![w] = epoch]
        /\ nworkers' = w
  /\ UNCHANGED <<cpc, want, active, stop, nt, remaining, epoch, loaded, ran>>

\* The pool is large enough, or creating a thread failed.  Without any worker the pass runs inline.
EnsureDone ==
  /\ cpc = "ensure"
  /\ cpc' = IF nworkers = 0 THEN "idle" ELSE "publish"
  /\ active' = IF nworkers = 0 THEN active ELSE TRUE
  /\ UNCHANGED <<want, pool, wpc, seen, loaded, ran>>

\* The band count is what the pool has, whatever the pass asked for.
BandCount == nworkers + 1

Publish ==
  /\ cpc = "publish"
  /\ cpc' = "bump"
  /\ nt' = BandCount
  /\ remaining' = BandCount - 1
  /\ ran' = {}
  /\ UNCHANGED <<want, active, nworkers, stop, epoch, wpc, seen, loaded>>

BumpEpoch ==
  /\ cpc = "bump"
  /\ cpc' = "broadcast"
  /\ epoch' = Bump(epoch)
  /\ UNCHANGED <<want, active, nworkers, stop, nt, remaining, wpc, seen, loaded, ran>>

WakeAll == [w \in Workers |-> IF wpc[w] = "sleep" THEN "lock" ELSE wpc[w]]

Broadcast ==
  /\ cpc = "broadcast"
  /\ cpc' = "band"
  /\ wpc' = WakeAll
  /\ UNCHANGED <<want, active, pool, seen, loaded, ran>>

CallerBand ==
  /\ cpc = "band"
  /\ cpc' = "spin"
  /\ ran' = ran \cup {0}
  /\ UNCHANGED <<want, active, pool, wpc, seen, loaded>>

SpinsOut ==
  /\ cpc = "spin"
  /\ cpc' = "park"
  /\ UNCHANGED <<want, active, pool, wpc, seen, loaded, ran>>

\* Lock, test the count and sleep on done_cond.
Park ==
  /\ cpc = "park"
  /\ MutexFree
  /\ remaining > 0
  /\ cpc' = "parked"
  /\ UNCHANGED <<want, active, pool, wpc, seen, loaded, ran>>

SpuriousDone ==
  /\ cpc = "parked"
  /\ cpc' = "park"
  /\ UNCHANGED <<want, active, pool, wpc, seen, loaded, ran>>

\* Mistake: the caller returns one completion early.
ReturnEarly ==
  /\ cpc \in {"spin", "park"}
  /\ remaining <= 1
  /\ cpc' = "idle"
  /\ active' = FALSE
  /\ UNCHANGED <<want, pool, wpc, seen, loaded, ran>>

Return ==
  /\ cpc \in {"spin", "park"}
  /\ remaining <= 0
  /\ cpc' = "idle"
  /\ active' = FALSE
  /\ UNCHANGED <<want, pool, wpc, seen, loaded, ran>>

Stop ==
  /\ cpc = "idle"
  /\ cpc' = "stopBump"
  /\ stop' = TRUE
  /\ UNCHANGED <<want, active, nworkers, nt, remaining, epoch, wpc, seen, loaded, ran>>

StopBump ==
  /\ cpc = "stopBump"
  /\ cpc' = "stopBroadcast"
  /\ epoch' = Bump(epoch)
  /\ UNCHANGED <<want, active, nworkers, stop, nt, remaining, wpc, seen, loaded, ran>>

\* Mistake: teardown stores the flag and bumps the epoch but wakes nobody.
StopBroadcastLost ==
  /\ cpc = "stopBroadcast"
  /\ cpc' = "join"
  /\ UNCHANGED <<want, active, pool, wpc, seen, loaded, ran>>

StopBroadcast ==
  /\ cpc = "stopBroadcast"
  /\ cpc' = "join"
  /\ wpc' = WakeAll
  /\ UNCHANGED <<want, active, pool, seen, loaded, ran>>

\* Mistake: the last worker is not joined.
JoinOneShort ==
  /\ cpc = "join"
  /\ \A w \in 1..(nworkers - 1) : wpc[w] = "exit"
  /\ cpc' = "freed"
  /\ UNCHANGED <<want, active, pool, wpc, seen, loaded, ran>>

\* Every worker joined: the mutex and the conditions are destroyed, the pool is freed.
Join ==
  /\ cpc = "join"
  /\ \A w \in Live : wpc[w] = "exit"
  /\ cpc' = "freed"
  /\ UNCHANGED <<want, active, pool, wpc, seen, loaded, ran>>

CallerStep ==
  \/ CreateWorker \/ EnsureDone \/ Publish \/ BumpEpoch \/ Broadcast \/ CallerBand
  \/ SpinsOut \/ Park \/ Return \/ StopBump \/ StopBroadcast \/ Join
-----------------------------------------------------------------------------
(* A worker: gml_rowband_worker.                                           *)

Goto(w, from, to) == wpc[w] = from /\ wpc' = [wpc EXCEPT ![w] = to]

PollStop(w) ==
  /\ Goto(w, "poll", IF stop THEN "exit" ELSE "poll2")
  /\ UNCHANGED <<cpc, want, active, pool, seen, loaded, ran>>

PollEpoch(w) ==
  /\ epoch # seen[w]
  /\ Goto(w, "poll2", "recheck")
  /\ loaded' = [loaded EXCEPT ![w] = epoch]
  /\ UNCHANGED <<cpc, want, active, pool, seen, ran>>

\* Nothing new: spin again, or give up spinning and go for the lock.
PollAgain(w, next) ==
  /\ epoch = seen[w]
  /\ Goto(w, "poll2", next)
  /\ UNCHANGED <<cpc, want, active, pool, seen, loaded, ran>>

\* The waiting loop's test, under the lock.
WaitStart(w) ==
  /\ MutexFree
  /\ Goto(w, "lock", IF ~stop /\ epoch = seen[w] THEN "sleep" ELSE "after")
  /\ UNCHANGED <<cpc, want, active, pool, seen, loaded, ran>>

SpuriousStart(w) ==
  /\ Goto(w, "sleep", "lock")
  /\ UNCHANGED <<cpc, want, active, pool, seen, loaded, ran>>

AfterStop(w) ==
  /\ Goto(w, "after", IF stop THEN "exit" ELSE "after2")
  /\ UNCHANGED <<cpc, want, active, pool, seen, loaded, ran>>

AfterEpoch(w) ==
  /\ Goto(w, "after2", "recheck")
  /\ loaded' = [loaded EXCEPT ![w] = epoch]
  /\ UNCHANGED <<cpc, want, active, pool, seen, ran>>

\* The stop flag once more, before the descriptor is touched.
Recheck(w) ==
  /\ Goto(w, "recheck", IF stop THEN "exit" ELSE "claim")
  /\ seen' = IF stop THEN seen ELSE [seen EXCEPT ![w] = loaded[w]]
  /\ UNCHANGED <<cpc, want, active, pool, loaded, ran>>

Claim(w) ==
  /\ Goto(w, "claim", IF w >= nt THEN "poll" ELSE "band")
  /\ UNCHANGED <<cpc, want, active, pool, seen, loaded, ran>>

WorkerBand(w) ==
  /\ Goto(w, "band", "dec")
  /\ ran' = ran \cup {w}
  /\ UNCHANGED <<cpc, want, active, pool, seen, loaded>>

CountDown(w) ==
  /\ Goto(w, "dec", IF remaining = 1 THEN "signal" ELSE "poll")
  /\ remaining' = remaining - 1
  /\ UNCHANGED <<cpc, want, active, nworkers, stop, nt, epoch, seen, loaded, ran>>

\* Lock, broadcast done_cond, unlock.
Signal(w) ==
  /\ MutexFree
  /\ Goto(w, "signal", "poll")
  /\ cpc' = IF cpc = "parked" THEN "park" ELSE cpc
  /\ UNCHANGED <<want, active, pool, seen, loaded, ran>>

WorkerStep(w) ==
  \/ PollStop(w) \/ PollEpoch(w) \/ PollAgain(w, "lock") \/ WaitStart(w)
  \/ AfterStop(w) \/ AfterEpoch(w) \/ Recheck(w)
  \/ Claim(w) \/ WorkerBand(w) \/ CountDown(w) \/ Signal(w)
-----------------------------------------------------------------------------
Next ==
  \/ \E n \in Requests : Dispatch(n)
  \/ CallerStep
  \/ Stop
  \/ SpuriousDone
  \/ \E w \in Workers : WorkerStep(w) \/ PollAgain(w, "poll") \/ SpuriousStart(w)

\* The operating system runs every thread that can run; a spinning thread runs out of spins.
Fairness ==
  /\ WF_vars(CallerStep)
  /\ \A w \in Workers : /\ WF_vars(WorkerStep(w))
                        /\ SF_vars(PollAgain(w, "lock"))

Spec == Init /\ [][Next]_vars
FairSpec == Spec /\ Fairness
-----------------------------------------------------------------------------
(* Properties.                                                             *)

\* A worker reads the descriptor and runs a band only inside the handover that published it: never
\* while the caller prepares the next one, never after the call has returned, never at teardown.
NoBandOutsideHandover ==
  (\E w \in Workers : wpc[w] \in Inside) => cpc \in Open

\* When the call returns (and until the next handover), every band of the handover has run.
HandoverComplete ==
  (cpc \in {"idle", "ensure"} /\ nt > 0 /\ ~active) => ran = 0..(nt - 1)

\* Once the pool is freed no worker can still touch it.
FreedAfterWorkers ==
  cpc = "freed" => \A w \in Workers : wpc[w] \in {"absent", "exit"}

\* What a worker reads without the lock is there and is its own: the descriptor of the open handover
\* while one is open, and the pool until it has left.
WorkersInside == NoBandOutsideHandover /\ FreedAfterWorkers

\* No band body runs twice in one handover, and none runs that the handover does not have.
BandsRunOnce ==
  [][\A w \in Workers : (wpc[w] = "claim" /\ wpc'[w] = "band") => (w \notin ran /\ w < nt)]_vars

\* No wake-up is lost: a pass that handed its bands over gets its thread back, and at teardown every
\* worker hears of it and is joined.
WaitsEnd ==
  /\ (cpc \in Open) ~> (cpc = "idle")
  /\ (cpc = "stopBump") ~> (cpc = "freed")

\* The pool implements BandDispatch: the handover opens with the epoch.
Dispatched ==
  INSTANCE BandDispatch WITH
    MaxBands <- MaxWorkers + 1,
    phase <- IF cpc \in Open THEN "open" ELSE IF cpc \in Closing THEN "closed" ELSE "idle",
    todo <- IF cpc \in Open THEN (0..(nt - 1)) \ ran ELSE {}

ImplementsBandDispatch == Dispatched!Spec
=============================================================================
