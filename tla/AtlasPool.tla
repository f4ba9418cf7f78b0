----------------------------- MODULE AtlasPool -----------------------------
(***************************************************************************)
(* Atlas decoding (video/renderer/gml_render_atlas.c): the game's thread   *)
(* queues pages for background workers and falls back to decoding a page   *)
(* itself; a page being decoded is waited for.  The table of pages may be  *)
(* replaced by a longer one while workers decode (runtime fonts and        *)
(* backgrounds append a page).  Critical sections never block halfway, so  *)
(* each iteration of one is a step.  An operator preceded by "Mistake:" is  *)
(* no part of the specification: it is a bug the checked properties catch. *)
(***************************************************************************)
EXTENDS Integers, Sequences, FiniteSets, SequencesExt

CONSTANTS NPages,       \* n_atlas when the pool is made
          Corrupt,      \* pages whose blob does not decode
          Sourceless,   \* pages without a blob
          MaxThreads,   \* decoder threads the setting allows
          Budget,       \* atlas_prefetch_budget, in pages
          MaxMoves      \* bound: how often the page table is replaced

ASSUME AtlasAssumption ==
  /\ NPages \in Nat \ {0} /\ MaxThreads \in Nat /\ Budget \in Nat \ {0} /\ MaxMoves \in Nat
  /\ Corrupt \subseteq 0..(NPages - 1) /\ Sourceless \subseteq 0..(NPages - 1)

VARIABLES
  px, attempted,      \* per page: decoded pixels are published; decode_attempted
  bytes,              \* atlas_decoded_bytes, in pages
  pool,               \* "unchecked", "none" or "made"
  state, queue, shutdown,   \* fields of GmlAtlasPool
  wpc, job, held,     \* each worker: position, page, the page table it points into
  cpc, want, todo,    \* the game's thread: position, page it needs, pages left to prefetch
  result,             \* what the latest atlas_pixels returned
  table               \* which allocation r->atlas is

vars == <<px, attempted, bytes, pool, state, queue, shutdown, wpc, job, held, cpc, want, todo, result, table>>
pages == <<px, attempted, bytes>>
shared == <<pool, state, queue, shutdown>>
workers == <<wpc, job, held>>
caller == <<cpc, want, todo, result>>

Pages == 0..(NPages - 1)
Threads == 1..MaxThreads
Decodable == Pages \ (Corrupt \cup Sourceless)

TypeOK ==
  /\ px \in [Pages -> BOOLEAN] /\ attempted \in [Pages -> BOOLEAN]
  /\ bytes \in Nat
  /\ pool \in {"unchecked", "none", "made"}
  /\ state \in [Pages -> {"idle", "queued", "decoding"}]
  /\ queue \in Seq(Pages) /\ Len(queue) <= NPages
  /\ shutdown \in BOOLEAN
  /\ wpc \in [Threads -> {"absent", "ready", "wait", "open", "decode", "exit"}]
  /\ job \in [Threads -> Pages] /\ held \in [Threads -> 0..MaxMoves]
  /\ cpc \in {"idle", "check", "enqueue", "look", "sleep", "decode", "join", "freed"}
  /\ want \in Pages /\ todo \in Seq(-1..NPages)
  /\ result \in BOOLEAN /\ table \in 0..MaxMoves

Init ==
  /\ px = [p \in Pages |-> FALSE] /\ attempted = [p \in Pages |-> FALSE]
  /\ bytes = 0 /\ pool = "unchecked"
  /\ state = [p \in Pages |-> "idle"] /\ queue = <<>> /\ shutdown = FALSE
  /\ wpc = [w \in Threads |-> "absent"]
  /\ job = [w \in Threads |-> 0] /\ held = [w \in Threads |-> 0]
  /\ cpc = "idle" /\ want = 0 /\ todo = <<>> /\ result = FALSE /\ table = 0

Waken(pc) == [w \in Threads |-> IF pc[w] = "wait" THEN "ready" ELSE pc[w]]

Settled(p) == px[p] \/ attempted[p]

\* Mistake: bytes are counted for a page that did not decode.
PublishCounting(p, live) ==
  /\ attempted' = IF live THEN [attempted EXCEPT ![p] = TRUE] ELSE attempted
  /\ px' = IF live THEN [px EXCEPT ![p] = p \in Decodable] ELSE px
  /\ bytes' = bytes + 1

\* Publish the outcome of decoding p.  A pointer into a table that is gone writes to freed
\* memory: here the write is lost, while the byte count, which is the renderer's, still grows.
Publish(p, live) ==
  /\ attempted' = IF live THEN [attempted EXCEPT ![p] = TRUE] ELSE attempted
  /\ px' = IF live THEN [px EXCEPT ![p] = p \in Decodable] ELSE px
  /\ bytes' = bytes + (IF p \in Decodable THEN 1 ELSE 0)
-----------------------------------------------------------------------------
(* The game's thread.                                                      *)

\* gml_render_prefetch_sprite / _bg for a page: the page, then its neighbours below the budget.
Prefetch(p) ==
  /\ cpc = "idle"
  /\ cpc' = "check" /\ todo' = <<p>> /\ want' = p
  /\ UNCHANGED <<pages, shared, workers, result, table>>

Neighbours == IF todo[1] = want /\ bytes < Budget THEN <<want - 1, want + 1>> ELSE <<>>

NextPrefetch ==
  LET rest == Tail(todo) \o Neighbours
  IN /\ todo' = rest
     /\ cpc' = IF rest = <<>> THEN "idle" ELSE "check"

\* The test before the lock; the first page that passes it makes the pool.
Refused(p) ==
  p \in Pages => (Settled(p) \/ p \in Sourceless \/ bytes > 2 * Budget)

CheckRefuse ==
  /\ cpc = "check"
  /\ ~Refused(todo[1]) => pool = "none"
  /\ NextPrefetch
  /\ UNCHANGED <<pages, shared, workers, want, result, table>>

CheckPass ==
  /\ cpc = "check"
  /\ ~Refused(todo[1])
  /\ \/ pool = "made" /\ UNCHANGED <<shared, workers>>
     \/ /\ pool = "unchecked"
        /\ \E n \in 0..MaxThreads :      \* some of the threads may fail to start
             /\ pool' = IF n = 0 THEN "none" ELSE "made"
             /\ wpc' = [w \in Threads |-> IF w <= n THEN "ready" ELSE "absent"]
        /\ UNCHANGED <<state, queue, shutdown, job, held>>
  /\ cpc' = "enqueue"
  /\ UNCHANGED <<pages, want, todo, result, table>>

\* Mistake: nothing but the page's pixels is tested.
MayQueueUnbounded(p) == ~Settled(p)

MayQueue(p) == ~Settled(p) /\ state[p] = "idle" /\ Len(queue) < NPages

Enqueue ==
  /\ cpc = "enqueue"
  /\ IF pool = "made" /\ MayQueue(todo[1])
       THEN /\ state' = [state EXCEPT ![todo[1]] = "queued"]
            /\ queue' = Append(queue, todo[1])
            /\ wpc' = Waken(wpc)
       ELSE UNCHANGED <<state, queue, wpc>>
  /\ NextPrefetch
  /\ UNCHANGED <<pages, pool, shutdown, job, held, want, result, table>>

\* atlas_pixels without published pixels.  Without a pool the page is decoded at once.
NeedPage(p) ==
  /\ cpc = "idle"
  /\ ~px[p]
  /\ want' = p
  /\ IF pool = "made"
       THEN cpc' = "look" /\ UNCHANGED <<pages, result>>
       ELSE /\ cpc' = "idle"
            /\ IF attempted[p] \/ p \in Sourceless
                 THEN UNCHANGED pages
                 ELSE Publish(p, TRUE)
            /\ result' = px'[p]
  /\ UNCHANGED <<shared, workers, todo, table>>

LookDone ==
  /\ cpc = "look"
  /\ Settled(want)
  /\ result' = px[want]
  /\ cpc' = "idle"
  /\ UNCHANGED <<pages, shared, workers, want, todo, table>>

\* Mistake: the call does not wait for the other thread's decode.
LookWaitNot ==
  /\ cpc = "look"
  /\ ~Settled(want) /\ state[want] = "decoding"
  /\ result' = px[want]
  /\ cpc' = "idle"
  /\ UNCHANGED <<pages, shared, workers, want, todo, table>>

LookWait ==
  /\ cpc = "look"
  /\ ~Settled(want) /\ state[want] = "decoding"
  /\ cpc' = "sleep"
  /\ UNCHANGED <<pages, shared, workers, want, todo, result, table>>

LookClaim ==
  /\ cpc = "look"
  /\ ~Settled(want) /\ state[want] # "decoding"
  /\ state' = [state EXCEPT ![want] = "decoding"]
  /\ cpc' = "decode"
  /\ UNCHANGED <<pages, pool, queue, shutdown, workers, want, todo, result, table>>

CallerPublish ==
  /\ cpc = "decode"
  /\ Publish(want, TRUE)
  /\ state' = [state EXCEPT ![want] = "idle"]
  /\ result' = px'[want]
  /\ cpc' = "idle"
  /\ UNCHANGED <<pool, queue, shutdown, workers, want, todo, table>>

SpuriousDone ==
  /\ cpc = "sleep"
  /\ cpc' = "look"
  /\ UNCHANGED <<pages, shared, workers, want, todo, result, table>>

\* A runtime font or background appends a page: the table moves, or grows in place (no step).
MoveTable ==
  /\ cpc = "idle"
  /\ table < MaxMoves
  /\ table' = table + 1
  /\ UNCHANGED <<pages, shared, workers, caller>>

Free ==
  /\ cpc = "idle"
  /\ IF pool = "made" THEN shutdown' = TRUE /\ cpc' = "join" /\ wpc' = Waken(wpc)
                      ELSE cpc' = "freed" /\ UNCHANGED <<shutdown, wpc>>
  /\ UNCHANGED <<pages, pool, state, queue, job, held, want, todo, result, table>>

Join ==
  /\ cpc = "join"
  /\ \A w \in Threads : wpc[w] \in {"absent", "exit"}
  /\ cpc' = "freed"
  /\ UNCHANGED <<pages, shared, workers, want, todo, result, table>>

CallerStep ==
  \/ CheckRefuse \/ CheckPass \/ Enqueue
  \/ LookDone \/ LookWait \/ LookClaim \/ CallerPublish \/ Join
-----------------------------------------------------------------------------
(* A decoder thread: atlas_worker.                                         *)

WorkerExit(w) ==
  /\ wpc[w] = "ready" /\ shutdown
  /\ wpc' = [wpc EXCEPT ![w] = "exit"]
  /\ UNCHANGED <<pages, shared, job, held, caller, table>>

WorkerWait(w) ==
  /\ wpc[w] = "ready" /\ ~shutdown /\ queue = <<>>
  /\ wpc' = [wpc EXCEPT ![w] = "wait"]
  /\ UNCHANGED <<pages, shared, job, held, caller, table>>

SpuriousWork(w) ==
  /\ wpc[w] = "wait"
  /\ wpc' = [wpc EXCEPT ![w] = "ready"]
  /\ UNCHANGED <<pages, shared, job, held, caller, table>>

\* Mistake: an entry is skipped only when the page is settled.
SkipSettledOnly(p) == Settled(p)

\* An entry claimed by a synchronous decode meanwhile, or settled, is dropped.
Stale(p) == state[p] # "queued" \/ Settled(p)

WorkerSkip(w) ==
  /\ wpc[w] = "ready" /\ ~shutdown /\ queue # <<>>
  /\ LET p == Head(queue)
     IN /\ Stale(p)
        /\ state' = IF state[p] = "queued" THEN [state EXCEPT ![p] = "idle"] ELSE state
  /\ queue' = Tail(queue)
  /\ UNCHANGED <<pages, pool, shutdown, workers, caller, table>>

WorkerTake(w) ==
  /\ wpc[w] = "ready" /\ ~shutdown /\ queue # <<>>
  /\ LET p == Head(queue)
     IN /\ ~Stale(p)
        /\ state' = [state EXCEPT ![p] = "decoding"]
        /\ job' = [job EXCEPT ![w] = p]
  /\ queue' = Tail(queue)
  /\ wpc' = [wpc EXCEPT ![w] = "open"]
  /\ UNCHANGED <<pages, pool, shutdown, held, caller, table>>

\* atlas_decode_publish takes the page's address before it decodes.
WorkerOpen(w) ==
  /\ wpc[w] = "open"
  /\ wpc' = [wpc EXCEPT ![w] = "decode"]
  /\ held' = [held EXCEPT ![w] = table]
  /\ UNCHANGED <<pages, shared, job, caller, table>>

\* Mistake: nobody is told that the page is done.
WorkerPublishSilently(w) ==
  /\ wpc[w] = "decode"
  /\ Publish(job[w], held[w] = table)
  /\ state' = [state EXCEPT ![job[w]] = "idle"]
  /\ wpc' = [wpc EXCEPT ![w] = "ready"]
  /\ UNCHANGED <<pool, queue, shutdown, job, held, caller, table>>

WorkerPublish(w) ==
  /\ wpc[w] = "decode"
  /\ Publish(job[w], held[w] = table)
  /\ state' = [state EXCEPT ![job[w]] = "idle"]
  /\ wpc' = [wpc EXCEPT ![w] = "ready"]
  /\ cpc' = IF cpc = "sleep" THEN "look" ELSE cpc
  /\ UNCHANGED <<pool, queue, shutdown, job, held, want, todo, result, table>>

WorkerStep(w) ==
  WorkerExit(w) \/ WorkerWait(w) \/ WorkerSkip(w) \/ WorkerTake(w) \/ WorkerOpen(w) \/ WorkerPublish(w)
-----------------------------------------------------------------------------
Next ==
  \/ CallerStep
  \/ \E p \in Pages : Prefetch(p) \/ NeedPage(p)
  \/ SpuriousDone \/ MoveTable \/ Free
  \/ \E w \in Threads : WorkerStep(w) \/ SpuriousWork(w)

Spec == Init /\ [][Next]_vars

\* Every thread that can run is run; the game's thread may stop asking.
FairSpec == Spec /\ WF_vars(CallerStep) /\ \A w \in Threads : WF_vars(WorkerStep(w))
-----------------------------------------------------------------------------
Decoding(p) == Cardinality({w \in Threads : wpc[w] \in {"open", "decode"} /\ job[w] = p})
               + (IF cpc = "decode" /\ want = p THEN 1 ELSE 0)

\* At most one thread decodes a page, and the page's state says so to the others.
OneDecoder ==
  \A p \in Pages : /\ Decoding(p) <= 1
                   /\ state[p] = "decoding" <=> Decoding(p) = 1

\* A page that was decoded, or that turned out not to decode, is never decoded again.
NeverAgain ==
  \A p \in Pages : Decoding(p) = 1 => ~px[p] /\ ~attempted[p]

\* A page is decoded once, by one thread, whoever asks for it and when.
DecodedByOne == OneDecoder /\ NeverAgain

\* The byte count behind the prefetch budget counts each decoded page once, until the table moves,
\* which may lose a page that was counted (DecodesIntoLiveTable).
BytesCounted == table = 0 => bytes = Cardinality({p \in Pages : px[p]})

\* What atlas_pixels returns never depends on who decoded the page, or when.
ResultIsThePage ==
  [][(cpc \in {"look", "decode"} /\ cpc' = "idle") => (result' <=> want \in Decodable)]_vars

\* A queued page has its entry, and no page has two: the ring never refuses a page.
QueueExact ==
  /\ \A p \in Pages : state[p] = "queued" => Contains(queue, p)
  /\ IsInjective(queue)

\* What prefetching is decided by, the ring and the byte count, agrees with the pages.
LedgersExact == QueueExact /\ BytesCounted

\* No wake-up is lost.  A queued page is decoded, unless the pool is torn down first or the table moved,
\* which may lose what a worker publishes (DecodesIntoLiveTable).  The game's thread that sleeps on
\* another's decode gets its page, whether it decodes or not; one that joins the workers, asleep or
\* decoding, gets to free the pool.
WaitsEnd == /\ \A p \in Pages : (state[p] = "queued") ~> (Settled(p) \/ shutdown \/ table # 0)
            /\ (cpc \in {"look", "sleep", "decode"}) ~> (cpc = "idle")
            /\ (cpc = "join") ~> (cpc = "freed")

\* The comment at gml_render_free: workers read r->atlas, so they stop before the table goes.
DecodesIntoLiveTable ==
  \A w \in Threads : wpc[w] = "decode" => held[w] = table
=============================================================================
