--------------------------- MODULE RendererProofs ---------------------------
(***************************************************************************)
(* Proofs about the renderer's two components, one after the other.        *)
(*                                                                         *)
(* RowPool, for every number of workers and every epoch width: the         *)
(* inductive invariant classifies each live worker by comparing its seen   *)
(* epoch with the pool's: Done with the open handover, Late for it, or     *)
(* Busy in it; remaining counts those that are not Done.                   *)
(*                                                                         *)
(* RenderTargets, for any surfaces, pixels and depth of the stack: every   *)
(* level of the stack has pixels of its own, those of its surface, and     *)
(* what is remembered of a surface or a target is true of what it shows    *)
(* (Sound); every step keeps that and shows what its call promises.        *)
(***************************************************************************)
EXTENDS RowPool, RenderTargets, FiniteSetTheorems, SequenceTheorems,
        WellFoundedInduction, TLAPS

Done(w) == seen[w] = epoch /\ wpc[w] \in Waiting \cup {"signal"}
Late(w) ==
  /\ seen[w] # epoch
  /\ wpc[w] \in Waiting \cup {"signal"} \cup Leaving
  /\ wpc[w] = "recheck" => loaded[w] = epoch
Busy(w) == seen[w] = epoch /\ wpc[w] \in Inside
Pending == {w \in Live : ~Done(w)}

\* The caller's own state: the flags follow from where it is.
CallerInv ==
  /\ stop <=> cpc \in Closing
  /\ active <=> cpc \in {"publish", "bump"} \cup Open

\* Nobody is behind while the caller prepares a handover.
PreparingInv ==
  /\ cpc \in Preparing => \A w \in Live : Done(w)
  /\ cpc \in {"publish", "bump"} => nworkers > 0
  /\ cpc = "bump" => nt = nworkers + 1 /\ remaining = nworkers /\ ran = {}
  /\ cpc \in {"idle", "ensure"} /\ nt > 0 => ran = 0..(nt - 1)

OpenInv ==
  cpc \in Open =>
    /\ nt = nworkers + 1
    /\ remaining = Cardinality(Pending)
    /\ \A w \in Live : /\ Done(w) \/ Late(w) \/ Busy(w)
                       /\ w \in ran <=> Done(w) \/ wpc[w] = "dec"
    /\ ran \subseteq 0..nworkers
    /\ 0 \in ran <=> cpc \in {"spin", "park", "parked"}

ClosingInv ==
  /\ cpc \in Closing => \A w \in Workers : wpc[w] \notin Inside
  /\ cpc = "freed" => \A w \in Live : wpc[w] = "exit"

IInv ==
  /\ TypeOK
  /\ \A w \in Workers : wpc[w] = "absent" <=> w \notin Live
  /\ CallerInv
  /\ PreparingInv
  /\ OpenInv
  /\ ClosingInv
-----------------------------------------------------------------------------
\* Bumping moves the epoch and stays within its range.
LEMMA BumpMoves ==
  ASSUME NEW e \in Epochs
  PROVE  Bump(e) \in Epochs /\ Bump(e) # e
BY RowPoolAssumption DEF Epochs, Bump

LEMMA LiveFinite ==
  ASSUME nworkers \in 0..MaxWorkers
  PROVE  /\ IsFiniteSet(Live)
         /\ Cardinality(Live) = nworkers
BY FS_Interval, RowPoolAssumption DEF Live

LEMMA PendingFinite ==
  ASSUME nworkers \in 0..MaxWorkers
  PROVE  /\ IsFiniteSet(Pending)
         /\ Cardinality(Pending) \in Nat
         /\ Cardinality(Pending) = 0 => Pending = {}
BY LiveFinite, FS_Subset, FS_CardinalityType, FS_EmptySet DEF Pending

\* The type invariant and the set of live workers are inductive.
LEMMA TypeStep ==
  ASSUME TypeOK, \A w \in Workers : wpc[w] = "absent" <=> w \notin Live, [Next]_vars
  PROVE  TypeOK' /\ (\A w \in Workers : wpc[w] = "absent" <=> w \notin Live)'
<1> USE RowPoolAssumption DEF TypeOK, WorkerAt, Waiting, Leaving, Inside, Preparing, Open, Closing,
                              Workers, Live, pool
<1>1. ASSUME NEW n \in Requests, Dispatch(n) PROVE TypeOK' /\ UNCHANGED <<wpc, nworkers>>
  BY <1>1 DEF Dispatch
<1>2. CASE CreateWorker
  BY <1>2 DEF CreateWorker
<1>3. CASE EnsureDone
  BY <1>3 DEF EnsureDone
<1>4. CASE Publish
  BY <1>4 DEF Publish, BandCount
<1>5. CASE BumpEpoch \/ StopBump
  BY <1>5, BumpMoves DEF BumpEpoch, StopBump
<1>6. CASE Broadcast \/ StopBroadcast
  BY <1>6 DEF Broadcast, StopBroadcast, WakeAll
<1>7. CASE CallerBand \/ SpinsOut \/ Park \/ SpuriousDone \/ Return \/ Stop \/ Join
  <2>1. CASE CallerBand
    BY <2>1 DEF CallerBand
  <2>2. CASE SpinsOut \/ Park \/ SpuriousDone
    BY <2>2 DEF SpinsOut, Park, SpuriousDone
  <2>3. CASE Return \/ Stop \/ Join
    BY <2>3 DEF Return, Stop, Join
  <2>4. QED
    BY <1>7, <2>1, <2>2, <2>3
<1>8. ASSUME NEW w \in Workers, WorkerStep(w) \/ PollAgain(w, "poll") \/ SpuriousStart(w)
      PROVE  TypeOK' /\ (\A v \in Workers : wpc[v] = "absent" <=> v \notin Live)'
  <2>1. CASE PollStop(w) \/ AfterStop(w)
    BY <2>1 DEF PollStop, AfterStop, Goto
  <2>2. CASE PollEpoch(w) \/ AfterEpoch(w)
    <3>1. CASE PollEpoch(w)
      BY <3>1, SMTT(30) DEF PollEpoch, Goto
    <3>2. CASE AfterEpoch(w)
      BY <3>2, SMTT(30) DEF AfterEpoch, Goto
    <3>3. QED
      BY <2>2, <3>1, <3>2
  <2>3. CASE PollAgain(w, "lock") \/ PollAgain(w, "poll") \/ SpuriousStart(w)
    BY <2>3 DEF PollAgain, SpuriousStart, Goto
  <2>4. CASE WaitStart(w)
    BY <2>4 DEF WaitStart, Goto
  <2>5. CASE Recheck(w)
    BY <2>5 DEF Recheck, Goto
  <2>6. CASE Claim(w)
    BY <2>6 DEF Claim, Goto
  <2>7. CASE WorkerBand(w)
    BY <2>7 DEF WorkerBand, Goto
  <2>8. CASE CountDown(w)
    BY <2>8 DEF CountDown, Goto
  <2>9. CASE Signal(w)
    BY <2>9 DEF Signal, Goto, MutexFree
  <2>10. QED
    BY <1>8, <2>1, <2>2, <2>3, <2>4, <2>5, <2>6, <2>7, <2>8, <2>9 DEF WorkerStep
<1>9. CASE UNCHANGED vars
  BY <1>9 DEF vars
<1>10. QED
  BY <1>1, <1>2, <1>3, <1>4, <1>5, <1>6, <1>7, <1>8, <1>9 DEF Next, CallerStep

\* A step that leaves the caller's flags and its position's class alone keeps what they say.
LEMMA InvariantStep ==
  ASSUME IInv, [Next]_vars
  PROVE  IInv'
<1> USE RowPoolAssumption DEF Workers, Live, pool, Waiting, Leaving, Inside, Preparing, Open, Closing
<1>0. TypeOK' /\ (\A w \in Workers : wpc[w] = "absent" <=> w \notin Live)'
  BY TypeStep DEF IInv
<1> DEFINE Rest == CallerInv /\ PreparingInv /\ OpenInv /\ ClosingInv
<1>a. Rest /\ TypeOK /\ (\A w \in Workers : wpc[w] = "absent" <=> w \notin Live)
  BY DEF IInv
<1> SUFFICES Rest'
  BY <1>0 DEF IInv
<1> HIDE DEF Rest
<1>1. ASSUME NEW n \in Requests, Dispatch(n) PROVE Rest'
  <2>1. cpc = "idle" /\ cpc' = "ensure"
    BY <1>1, <1>a DEF Dispatch, Rest, CallerInv
  <2>2. QED
    BY <1>1, <1>a, <2>1 DEF Dispatch, Rest, CallerInv, PreparingInv, OpenInv, ClosingInv, Done, TypeOK
<1>2. CASE CreateWorker
  BY <1>2, <1>a DEF CreateWorker, Rest, CallerInv, PreparingInv, OpenInv, ClosingInv, Done, TypeOK
<1>3. CASE EnsureDone
  <2>1. /\ cpc = "ensure" /\ nworkers \in Nat
        /\ UNCHANGED <<nworkers, stop, nt, remaining, epoch, wpc, seen, ran>>
    BY <1>3, <1>a DEF EnsureDone, TypeOK
  <2>2. CASE nworkers = 0
    <3>1. cpc' = "idle" /\ active' = active
      BY <1>3, <2>2 DEF EnsureDone
    <3>2. ~active /\ ~active'
      BY <1>a, <2>1, <3>1 DEF Rest, CallerInv
    <3>3. CallerInv'
      BY <1>a, <2>1, <3>1, <3>2 DEF Rest, CallerInv
    <3>4. (PreparingInv /\ OpenInv /\ ClosingInv)'
      BY <1>a, <2>1, <3>1 DEF Rest, PreparingInv, OpenInv, ClosingInv, Done
    <3>5. QED
      BY <3>3, <3>4 DEF Rest
  <2>3. CASE nworkers > 0
    <3>1. cpc' = "publish" /\ active' = TRUE
      BY <1>3, <2>3 DEF EnsureDone
    <3>2. CallerInv'
      BY <1>a, <2>1, <3>1 DEF Rest, CallerInv
    <3>3. (PreparingInv /\ OpenInv /\ ClosingInv)'
      BY <1>a, <2>1, <2>3, <3>1 DEF Rest, PreparingInv, OpenInv, ClosingInv, Done
    <3>4. QED
      BY <3>2, <3>3 DEF Rest
  <2>4. QED
    BY <2>1, <2>2, <2>3
<1>4. CASE Publish
  BY <1>4, <1>a DEF Publish, BandCount, Rest, CallerInv, PreparingInv, OpenInv, ClosingInv, Done, TypeOK
<1>5. CASE BumpEpoch
  <2>1. epoch' # epoch /\ \A w \in Live : seen'[w] = seen[w] /\ wpc'[w] = wpc[w]
    BY <1>5, <1>a, BumpMoves DEF BumpEpoch, Rest, TypeOK
  <2>2. Pending' = Live
    BY <1>5, <1>a, <2>1 DEF BumpEpoch, Rest, PreparingInv, Pending, Done, TypeOK
  <2>3. Cardinality(Pending') = nworkers
    BY <2>2, <1>a, LiveFinite DEF TypeOK
  <2>4. QED
    BY <1>5, <1>a, <2>1, <2>3 DEF BumpEpoch, Rest, CallerInv, PreparingInv, OpenInv, ClosingInv,
                                  Done, Late, Busy, TypeOK
<1>6. CASE Broadcast
  <2>1. \A w \in Live : Done(w)' <=> Done(w)
    BY <1>6, <1>a DEF Broadcast, WakeAll, Done, TypeOK
  <2>2. Pending' = Pending
    BY <1>6, <2>1 DEF Broadcast, Pending
  <2>3. \A w \in Live : (Late(w) <=> Late(w)') /\ (Busy(w) <=> Busy(w)') /\ (wpc[w] = "dec" <=> wpc'[w] = "dec")
    BY <1>6, <1>a DEF Broadcast, WakeAll, Late, Busy, TypeOK
  <2>4. QED
    BY <1>6, <1>a, <2>1, <2>2, <2>3 DEF Broadcast, Rest, CallerInv, PreparingInv, OpenInv, ClosingInv
<1>7. CASE CallerBand
  <2>1. Pending' = Pending
    BY <1>7 DEF CallerBand, Pending, Done
  <2>2. QED
    BY <1>7, <1>a, <2>1 DEF CallerBand, Rest, CallerInv, PreparingInv, OpenInv, ClosingInv, Done, Late, Busy, TypeOK
<1>8. CASE SpinsOut \/ Park \/ SpuriousDone
  <2>1. /\ Pending' = Pending
        /\ cpc \in {"spin", "park", "parked"} /\ cpc' \in {"spin", "park", "parked"}
        /\ UNCHANGED <<active, nworkers, stop, nt, remaining, epoch, wpc, seen, loaded, ran>>
    BY <1>8 DEF SpinsOut, Park, SpuriousDone, Pending, Done
  <2>2. QED
    BY <1>a, <2>1 DEF Rest, CallerInv, PreparingInv, OpenInv, ClosingInv, Done, Late, Busy, TypeOK
<1>9. CASE Return
  <2>1. cpc \in Open /\ Pending = {}
    BY <1>9, <1>a, PendingFinite DEF Return, Rest, OpenInv, TypeOK
  <2>2. \A w \in Live : Done(w) /\ w \in ran
    BY <2>1, <1>a DEF Pending, Rest, OpenInv
  <2>3. ran = 0..(nt - 1)
    <3>1. nt = nworkers + 1 /\ ran \subseteq 0..nworkers /\ 0 \in ran /\ nworkers \in Nat
      BY <1>9, <1>a, <2>1 DEF Return, Rest, OpenInv, TypeOK
    <3>2. \A b \in 0..nworkers : b = 0 \/ b \in Live
      BY <3>1
    <3>3. 0..nworkers \subseteq ran /\ nt - 1 = nworkers
      BY <2>2, <3>1, <3>2
    <3>4. QED
      BY <3>1, <3>3
  <2>4. QED
    BY <1>9, <1>a, <2>2, <2>3 DEF Return, Rest, CallerInv, PreparingInv, OpenInv, ClosingInv, Done, TypeOK
<1>10. CASE Stop \/ StopBump
  BY <1>10, <1>a DEF Stop, StopBump, Rest, CallerInv, PreparingInv, OpenInv, ClosingInv, Done, TypeOK
<1>11. CASE StopBroadcast
  BY <1>11, <1>a DEF StopBroadcast, WakeAll, Rest, CallerInv, PreparingInv, OpenInv, ClosingInv, TypeOK
<1>12. CASE Join
  BY <1>12, <1>a DEF Join, Rest, CallerInv, PreparingInv, OpenInv, ClosingInv, TypeOK
<1>13. ASSUME NEW w \in Workers, WorkerStep(w) \/ PollAgain(w, "poll") \/ SpuriousStart(w)
       PROVE  Rest'
  <2> w \in Live
    <3>1. wpc[w] # "absent"
      BY <1>13 DEF WorkerStep, PollStop, PollEpoch, PollAgain, WaitStart, SpuriousStart, AfterStop,
                   AfterEpoch, Recheck, Claim, WorkerBand, CountDown, Signal, Goto
    <3>2. QED
      BY <3>1, <1>a
  \* Every step but the count-down leaves the set of pending workers alone.
  <2>p. ASSUME UNCHANGED <<nworkers, epoch>>, \A v \in Live : Done(v)' <=> Done(v)
        PROVE  Pending' = Pending
    BY <2>p DEF Pending
  <2>1. CASE PollStop(w) \/ AfterStop(w) \/ PollAgain(w, "lock") \/ PollAgain(w, "poll") \/ SpuriousStart(w)
             \/ WaitStart(w) \/ PollEpoch(w) \/ AfterEpoch(w)
    <3>1. /\ UNCHANGED <<cpc, active, nworkers, stop, nt, remaining, epoch, seen, ran>>
          /\ \A v \in Workers \ {w} : wpc'[v] = wpc[v] /\ loaded'[v] = loaded[v]
      BY <2>1, <1>a DEF PollStop, PollEpoch, PollAgain, WaitStart, SpuriousStart, AfterStop, AfterEpoch, Goto, TypeOK
    <3> Live \subseteq Workers
      BY <1>a DEF TypeOK
    <3>2. wpc[w] \notin Inside /\ wpc'[w] \notin Inside
      BY <2>1, <1>a DEF PollStop, PollEpoch, PollAgain, WaitStart, SpuriousStart, AfterStop, AfterEpoch, Goto, TypeOK
    <3>3. ~stop /\ Done(w) => Done(w)'
      BY <2>1, <1>a DEF PollStop, PollEpoch, PollAgain, WaitStart, SpuriousStart, AfterStop, AfterEpoch, Goto, TypeOK, Done
    <3>4. ~stop /\ Late(w) => Late(w)' /\ ~Done(w)'
      BY <2>1, <1>a DEF PollStop, PollEpoch, PollAgain, WaitStart, SpuriousStart, AfterStop, AfterEpoch, Goto, TypeOK, Late, Done
    <3>5. cpc = "freed" => wpc[w] = "exit"
      BY <1>a DEF Rest, ClosingInv
    <3>6. wpc[w] # "exit"
      BY <2>1 DEF PollStop, PollEpoch, PollAgain, WaitStart, SpuriousStart, AfterStop, AfterEpoch, Goto
    <3>7. \A v \in Live \ {w} : (Done(v) <=> Done(v)') /\ (Late(v) <=> Late(v)') /\ (Busy(v) <=> Busy(v)')
      BY <3>1 DEF Done, Late, Busy
    <3>8. cpc \in Open => Pending' = Pending
      BY <3>1, <3>2, <3>3, <3>4, <3>7, <2>p, <1>a DEF Rest, CallerInv, OpenInv, Done, Late, Busy
    <3>9. CallerInv'
      BY <1>a, <3>1 DEF Rest, CallerInv
    <3>10. PreparingInv'
      BY <1>a, <3>1, <3>3, <3>7 DEF Rest, CallerInv, PreparingInv
    <3>11. OpenInv'
      <4> SUFFICES ASSUME cpc \in Open PROVE OpenInv'
        BY <3>1 DEF OpenInv
      <4>1. ~stop /\ OpenInv
        BY <1>a DEF Rest, CallerInv
      <4>2. ~Busy(w)
        BY <3>2 DEF Busy
      <4>3. /\ Done(w)' \/ Late(w)'
            /\ w \in ran' <=> Done(w)'
        BY <4>1, <4>2, <3>1, <3>2, <3>3, <3>4 DEF OpenInv
      <4>4. \A v \in Live \ {w} : wpc'[v] = wpc[v]
        BY <3>1
      <4>5. \A v \in Live : /\ Done(v)' \/ Late(v)' \/ Busy(v)'
                            /\ v \in ran' <=> Done(v)' \/ wpc'[v] = "dec"
        BY <4>1, <4>3, <4>4, <3>1, <3>2, <3>7 DEF OpenInv
      <4>6. QED
        BY <4>1, <4>5, <3>1, <3>8 DEF OpenInv
    <3>12. ClosingInv'
      BY <1>a, <3>1, <3>2, <3>5, <3>6 DEF Rest, ClosingInv, TypeOK
    <3>13. QED
      BY <3>9, <3>10, <3>11, <3>12 DEF Rest
  <2>2. CASE Recheck(w)
    <3>1. CASE stop
      BY <2>2, <3>1, <1>a DEF Recheck, Goto, Rest, CallerInv, PreparingInv, OpenInv, ClosingInv, TypeOK
    <3>2. CASE ~stop
      <4>1. cpc \in Open /\ Late(w)
        BY <2>2, <3>2, <1>a DEF Recheck, Goto, Rest, CallerInv, PreparingInv, OpenInv, Done, Busy, TypeOK
      <4>2. Busy(w)' /\ ~Done(w) /\ wpc'[w] = "claim"
        BY <2>2, <3>2, <4>1, <1>a DEF Recheck, Goto, Late, Busy, Done, TypeOK
      <4>3. \A v \in Live \ {w} : (Done(v) <=> Done(v)') /\ (Late(v) <=> Late(v)') /\ (Busy(v) <=> Busy(v)') /\ wpc'[v] = wpc[v]
        BY <2>2, <3>2, <1>a DEF Recheck, Goto, Done, Late, Busy, TypeOK
      <4>4. ~Done(w)'
        BY <4>2 DEF Done
      <4>5. Pending' = Pending
        BY <2>2, <4>2, <4>3, <4>4, <2>p DEF Recheck
      <4>6. wpc[w] = "recheck" /\ cpc' = cpc
        BY <2>2 DEF Recheck, Goto
      <4>7. QED
        BY <2>2, <1>a, <4>1, <4>2, <4>3, <4>4, <4>5, <4>6 DEF Recheck, Rest, CallerInv, PreparingInv, OpenInv, ClosingInv
    <3>3. QED
      BY <3>1, <3>2
  <2>3. CASE Claim(w) \/ WorkerBand(w)
    <3>1. cpc \in Open /\ Busy(w) /\ nt = nworkers + 1
      BY <2>3, <1>a DEF Claim, WorkerBand, Goto, Rest, PreparingInv, OpenInv, ClosingInv, Done, Late, TypeOK
    <3>2. Busy(w)' /\ ~Done(w) /\ ~Done(w)'
      BY <2>3, <3>1, <1>a DEF Claim, WorkerBand, Goto, Busy, Done, TypeOK
    <3>3. \A v \in Live \ {w} : (Done(v) <=> Done(v)') /\ (Late(v) <=> Late(v)') /\ (Busy(v) <=> Busy(v)') /\ wpc'[v] = wpc[v]
      BY <2>3, <1>a DEF Claim, WorkerBand, Goto, Done, Late, Busy, TypeOK
    <3>4. Pending' = Pending
      BY <2>3, <3>2, <3>3, <2>p DEF Claim, WorkerBand
    <3>5. /\ UNCHANGED <<cpc, active, nworkers, stop, nt, remaining>>
          /\ w \in ran' <=> wpc'[w] = "dec"
          /\ ran' \subseteq ran \cup {w} /\ ran \subseteq ran'
      BY <2>3, <3>1, <3>2, <1>a DEF Claim, WorkerBand, Goto, Rest, OpenInv, TypeOK
    <3>6. QED
      BY <1>a, <3>1, <3>2, <3>3, <3>4, <3>5 DEF Rest, CallerInv, PreparingInv, OpenInv, ClosingInv, TypeOK
  <2>4. CASE CountDown(w)
    <3>1. cpc \in Open /\ Busy(w) /\ ~Done(w)
      BY <2>4, <1>a DEF CountDown, Goto, Rest, PreparingInv, OpenInv, ClosingInv, Done, Late, TypeOK
    <3>2. Done(w)' /\ w \in ran
      BY <2>4, <3>1, <1>a DEF CountDown, Goto, Busy, Done, Rest, OpenInv, TypeOK
    <3>3. \A v \in Live \ {w} : (Done(v) <=> Done(v)') /\ (Late(v) <=> Late(v)') /\ (Busy(v) <=> Busy(v)') /\ wpc'[v] = wpc[v]
      BY <2>4, <1>a DEF CountDown, Goto, Done, Late, Busy, TypeOK
    <3>4. Pending' = Pending \ {w} /\ w \in Pending
      BY <2>4, <3>1, <3>2, <3>3 DEF CountDown, Pending
    <3>5. remaining' = Cardinality(Pending')
      BY <2>4, <3>1, <3>4, <1>a, PendingFinite, FS_RemoveElement DEF CountDown, Rest, OpenInv, TypeOK
    <3>6. UNCHANGED <<cpc, active, nworkers, stop, nt, ran>>
      BY <2>4 DEF CountDown
    <3>7. QED
      BY <1>a, <3>1, <3>2, <3>3, <3>5, <3>6 DEF Rest, CallerInv, PreparingInv, OpenInv, ClosingInv, TypeOK
  <2>5. CASE Signal(w)
    <3>1. /\ UNCHANGED <<active, nworkers, stop, nt, remaining, epoch, seen, loaded, ran>>
          /\ cpc' = cpc \/ (cpc = "parked" /\ cpc' = "park")
          /\ wpc[w] = "signal" /\ wpc'[w] = "poll"
          /\ \A v \in Workers \ {w} : wpc'[v] = wpc[v]
          /\ Live \subseteq Workers
      BY <2>5, <1>a DEF Signal, Goto, TypeOK
    <3>2. \A v \in Live : (Done(v) <=> Done(v)') /\ (Late(v) <=> Late(v)') /\ (Busy(v) <=> Busy(v)')
                          /\ (wpc[v] = "dec" <=> wpc'[v] = "dec")
      BY <3>1 DEF Done, Late, Busy
    <3>3. Pending' = Pending
      BY <3>1, <3>2, <2>p
    <3>4. CallerInv' /\ PreparingInv'
      BY <1>a, <3>1, <3>2 DEF Rest, CallerInv, PreparingInv
    <3>5. OpenInv'
      BY <1>a, <3>1, <3>2, <3>3 DEF Rest, OpenInv
    <3>6. ClosingInv'
      BY <1>a, <3>1 DEF Rest, ClosingInv, TypeOK
    <3>7. QED
      BY <3>4, <3>5, <3>6 DEF Rest
  <2>6. QED
    BY <1>13, <2>1, <2>2, <2>3, <2>4, <2>5 DEF WorkerStep
<1>14. CASE UNCHANGED vars
  BY <1>14, <1>a DEF vars, Rest, CallerInv, PreparingInv, OpenInv, ClosingInv, Pending, Done, Late, Busy
<1>15. QED
  BY <1>1, <1>2, <1>3, <1>4, <1>5, <1>6, <1>7, <1>8, <1>9, <1>10, <1>11, <1>12, <1>13, <1>14
     DEF Next, CallerStep
-----------------------------------------------------------------------------
LEMMA InvariantInit == Init => IInv
<1> SUFFICES ASSUME Init PROVE IInv
  OBVIOUS
<1> USE RowPoolAssumption DEF Init, Workers, Live, Waiting, Leaving, Inside, Preparing, Open, Closing
<1>1. TypeOK
  <2>1. 0 \in Epochs /\ "absent" \in WorkerAt
    BY DEF Epochs, WorkerAt
  <2>2. /\ wpc \in [Workers -> WorkerAt]
        /\ seen \in [Workers -> Epochs]
        /\ loaded \in [Workers -> Epochs]
    BY <2>1
  <2>3. active \in BOOLEAN /\ stop \in BOOLEAN
    BY Zenon
  <2>4. /\ cpc \in Preparing \cup Open \cup Closing
        /\ want \in 0..MaxWorkers /\ nworkers \in 0..MaxWorkers
        /\ nt \in 0..(MaxWorkers + 1) /\ remaining \in Int /\ ran \subseteq 0..MaxWorkers
    OBVIOUS
  <2>5. epoch \in Epochs
    BY <2>1
  <2>6. QED
    BY <2>2, <2>3, <2>4, <2>5 DEF TypeOK
<1>2. CallerInv /\ PreparingInv /\ OpenInv /\ ClosingInv
  BY DEF CallerInv, PreparingInv, OpenInv, ClosingInv
<1>3. QED
  BY <1>1, <1>2 DEF IInv

LEMMA Invariance == Spec => []IInv
<1>1. IInv /\ [Next]_vars => IInv'
  BY InvariantStep
<1>2. QED
  BY InvariantInit, <1>1, PTL DEF Spec

\* Every variable keeps its type, for any number of workers (the fields of GmlRowPool).
THEOREM Typing == Spec => []TypeOK
<1>1. IInv => TypeOK
  BY DEF IInv
<1>2. QED
  BY Invariance, <1>1, PTL

\* A worker is inside a descriptor only while the handover that published it is open
\* (gml_rowband_worker's claim against gml_run_row_bands_n and gml_row_pool_free).
THEOREM BandsStayInside == Spec => []NoBandOutsideHandover
<1>1. IInv => NoBandOutsideHandover
  <2> SUFFICES ASSUME IInv, NEW w \in Workers, wpc[w] \in Inside PROVE cpc \in Open
    BY DEF NoBandOutsideHandover
  <2>1. w \in Live
    BY DEF IInv, Inside
  <2>2. ~Done(w)
    BY DEF Done, Waiting, Inside
  <2>3. QED
    BY <2>1, <2>2 DEF IInv, PreparingInv, ClosingInv, TypeOK
<1>2. QED
  BY Invariance, <1>1, PTL

\* When gml_run_row_bands_n has returned, every band of its handover has run.
THEOREM HandoversComplete == Spec => []HandoverComplete
<1>1. IInv => HandoverComplete
  BY DEF IInv, PreparingInv, HandoverComplete
<1>2. QED
  BY Invariance, <1>1, PTL

\* gml_row_pool_free returns only after every worker has left.
THEOREM FreedLast == Spec => []FreedAfterWorkers
<1>1. IInv => FreedAfterWorkers
  BY DEF IInv, ClosingInv, FreedAfterWorkers
<1>2. QED
  BY Invariance, <1>1, PTL

\* gml_run_row_bands_n, gml_render_pool_free: what a worker reads without the lock is its own
\* handover's, and nothing of the pool is read once it is gone.
THEOREM OwnHandover == Spec => []WorkersInside
<1>1. NoBandOutsideHandover /\ FreedAfterWorkers => WorkersInside
  BY DEF WorkersInside
<1>2. QED
  BY BandsStayInside, FreedLast, <1>1, PTL

\* A worker that claims its band claims one that exists and that nobody has run in this handover.
LEMMA ClaimIsFresh ==
  ASSUME IInv, NEW w \in Workers, wpc[w] = "claim"
  PROVE  w \notin ran /\ w < nt
<1>1. w \in Live /\ ~Done(w)
  BY DEF IInv, Done, Waiting
<1>2. cpc \in Open
  BY <1>1 DEF IInv, PreparingInv, ClosingInv, TypeOK, Inside
<1>3. QED
  BY <1>1, <1>2 DEF IInv, OpenInv, Live, TypeOK

\* No band runs twice and none runs beyond the handover's count, whatever the epoch's width.
THEOREM OnceEach == Spec => BandsRunOnce
<1>1. IInv /\ [Next]_vars => [\A w \in Workers : (wpc[w] = "claim" /\ wpc'[w] = "band") => (w \notin ran /\ w < nt)]_vars
  BY ClaimIsFresh
<1>2. QED
  BY Invariance, <1>1, PTL DEF Spec, BandsRunOnce
-----------------------------------------------------------------------------
\* A return finds every band run.
LEMMA ReturnFindsAll ==
  ASSUME IInv, Return
  PROVE  cpc \in Open /\ ran = 0..(nt - 1)
<1> USE DEF IInv
<1>1. cpc \in Open /\ Pending = {}
  BY PendingFinite DEF Return, OpenInv, TypeOK, Open
<1>2. \A w \in Live : w \in ran
  BY <1>1 DEF Pending, OpenInv
<1>3. nt - 1 = nworkers /\ ran \subseteq 0..nworkers /\ 0 \in ran /\ nworkers \in Nat
  BY <1>1 DEF Return, OpenInv, TypeOK
<1>4. \A b \in 0..nworkers : b = 0 \/ b \in Live
  BY <1>3 DEF Live
<1>5. 0..nworkers \subseteq ran
  BY <1>2, <1>3, <1>4
<1>6. QED
  BY <1>1, <1>3, <1>5

\* The pool implements BandDispatch: each step of RowPool is a step of it or a stutter.
THEOREM Refinement == Spec => Dispatched!Safe
<1> DEFINE stage == IF cpc \in Open THEN "open" ELSE IF cpc \in Closing THEN "closed" ELSE "idle"
           todo == IF cpc \in Open THEN (0..(nt - 1)) \ ran ELSE {}
<1>1. Init => Dispatched!Init
  BY DEF Init, Dispatched!Init, Open, Closing
<1>2. IInv /\ [Next]_vars => [Dispatched!Next]_(Dispatched!vars)
  <2> SUFFICES ASSUME IInv, [Next]_vars
               PROVE  Dispatched!Next \/ UNCHANGED <<stage, todo>>
    BY DEF Dispatched!vars
  <2> USE DEF Open, Closing
  <2>1. CASE BumpEpoch
    <3>1. nt \in 2..(MaxWorkers + 1) /\ ran = {} /\ nt' = nt /\ ran' = ran
      BY <2>1, RowPoolAssumption DEF BumpEpoch, IInv, PreparingInv, TypeOK
    <3>2. stage = "idle" /\ stage' = "open" /\ todo' = 0..(nt - 1)
      BY <2>1, <3>1 DEF BumpEpoch
    <3>3. Dispatched!Begin(nt)
      BY <3>2 DEF Dispatched!Begin
    <3>4. QED
      BY <3>1, <3>3 DEF Dispatched!Next
  <2>2. CASE CallerBand
    <3>1. nt \in Nat /\ 0 \in 0..(nt - 1) /\ 0 \notin ran
      BY <2>2 DEF CallerBand, IInv, OpenInv, TypeOK
    <3>2. stage = "open" /\ stage' = "open" /\ todo' = todo \ {0} /\ 0 \in todo
      BY <2>2, <3>1 DEF CallerBand, pool
    <3>3. Dispatched!Run(0)
      BY <3>2 DEF Dispatched!Run
    <3>4. QED
      BY <3>3, RowPoolAssumption DEF Dispatched!Next
  <2>3. CASE Return
    <3>1. cpc \in Open /\ todo = {}
      BY <2>3, ReturnFindsAll
    <3>2. stage = "open" /\ stage' = "idle" /\ todo' = {}
      BY <2>3, <3>1 DEF Return
    <3>3. Dispatched!End
      BY <3>1, <3>2 DEF Dispatched!End
    <3>4. QED
      BY <3>3 DEF Dispatched!Next
  <2>4. CASE Stop
    <3>1. Dispatched!Close
      BY <2>4 DEF Stop, Dispatched!Close
    <3>2. QED
      BY <3>1 DEF Dispatched!Next
  <2>5. ASSUME NEW w \in Workers, WorkerBand(w)
        PROVE  Dispatched!Next
    <3>1. w \in Live /\ ~Done(w)
      BY <2>5 DEF WorkerBand, Goto, IInv, Done, Waiting
    <3>2. cpc \in Open /\ w \in 0..(nt - 1) /\ w \notin ran
      BY <2>5, <3>1 DEF WorkerBand, Goto, IInv, PreparingInv, OpenInv, ClosingInv, Inside, Preparing,
                        Live, Workers, TypeOK
    <3>3. stage = "open" /\ stage' = "open" /\ todo' = todo \ {w} /\ w \in todo
      BY <2>5, <3>2 DEF WorkerBand, pool
    <3>4. Dispatched!Run(w)
      BY <3>3 DEF Dispatched!Run
    <3>5. QED
      BY <3>4, RowPoolAssumption DEF Dispatched!Next, Workers
  <2>6. ASSUME NEW n \in Requests, Dispatch(n) PROVE UNCHANGED <<stage, todo>>
    <3>1. cpc = "idle" /\ cpc' = "ensure"
      BY <2>6 DEF Dispatch, IInv, CallerInv
    <3>2. QED
      BY <3>1
  <2>7. CASE CreateWorker \/ EnsureDone \/ Publish \/ StopBump \/ StopBroadcast \/ Join
    BY <2>7 DEF CreateWorker, EnsureDone, Publish, StopBump, StopBroadcast, Join
  <2>8. CASE Broadcast \/ SpinsOut \/ Park \/ SpuriousDone
    BY <2>8 DEF Broadcast, SpinsOut, Park, SpuriousDone, pool
  <2>9. ASSUME NEW w \in Workers,
               \/ PollStop(w) \/ PollEpoch(w) \/ PollAgain(w, "lock") \/ PollAgain(w, "poll")
               \/ WaitStart(w) \/ SpuriousStart(w) \/ AfterStop(w) \/ AfterEpoch(w) \/ Recheck(w)
               \/ Claim(w) \/ CountDown(w) \/ Signal(w)
        PROVE  UNCHANGED <<stage, todo>>
    <3>1. nt' = nt /\ ran' = ran /\ (cpc' = cpc \/ (cpc = "parked" /\ cpc' = "park"))
      BY <2>9 DEF PollStop, PollEpoch, PollAgain, WaitStart, SpuriousStart, AfterStop, AfterEpoch,
                  Recheck, Claim, CountDown, Signal, pool
    <3>2. QED
      BY <3>1
  <2>10. CASE UNCHANGED vars
    BY <2>10 DEF vars
  <2>11. QED
    BY <2>1, <2>2, <2>3, <2>4, <2>5, <2>6, <2>7, <2>8, <2>9, <2>10
       DEF Next, CallerStep, WorkerStep
<1>3. QED
  BY Invariance, <1>1, <1>2, PTL DEF Spec, Dispatched!Safe

-----------------------------------------------------------------------------
(* RenderTargets: what its operators return.  A renderer is any record of   *)
(* the right type; where the lemmas say nothing of a field it is unchanged. *)

Renderer ==
  [mem : [Buffer -> [Pixel -> Colour]], cur : Target, base : Buffer,
   stack : Seq(Target), surf : [Id -> Surface], app : Plane, appOpaque : BOOLEAN]

\* The greatest member of a set of positions.
LEMMA LastPosition ==
  ASSUME NEW n \in Nat, NEW S \in SUBSET (1..n), S # {}
  PROVE  \E x \in S : \A y \in S : y <= x
<1> DEFINE R == {ss \in Nat \X Nat : ss[1] < ss[2]}
           T == {n - x : x \in S}
<1>1. IsWellFoundedOn(R, Nat)
  BY NatLessThanWellFounded, Zenon DEF OpToRel
<1>2. ASSUME NEW x \in Nat, NEW y \in Nat, ~(<<y, x>> \in R) PROVE x <= y
  <2>1. ~(y < x)
    BY <1>2
  <2> QED
    BY <2>1
<1>3. T \subseteq Nat /\ T # {}
  <2>1. \A x \in S : n - x \in Nat
    OBVIOUS
  <2>2. PICK x \in S : TRUE
    OBVIOUS
  <2>3. n - x \in T
    OBVIOUS
  <2> QED
    BY <2>1, <2>3
<1> HIDE DEF R, T
<1>4. PICK t \in T : \A y \in T : ~(<<y, t>> \in R)
  BY <1>1, <1>3, WFMin
<1>5. PICK x \in S : t = n - x
  BY <1>4 DEF T
<1>6. ASSUME NEW y \in S PROVE y <= x
  <2>1. n - y \in T
    BY DEF T
  <2>2. t <= n - y
    BY <1>2, <1>3, <1>4, <2>1
  <2> QED
    BY <1>5, <2>2
<1> QED
  BY <1>6

\* A sequence mapped position by position.
LEMMA MappedSeq ==
  ASSUME NEW T, NEW s \in Seq(T), NEW f \in [1..Len(s) -> T]
  PROVE  f \in Seq(T) /\ Len(f) = Len(s) /\ DOMAIN f = 1..Len(s)
<1>1. Len(s) \in Nat
  BY LenProperties
<1>2. f \in Seq(T)
  BY <1>1, SeqDef
<1>3. DOMAIN f = 1..Len(f) /\ Len(f) \in Nat /\ DOMAIN f = 1..Len(s)
  BY <1>2, LenProperties
<1> QED
  BY <1>1, <1>2, <1>3

LEMMA Topped ==
  ASSUME NEW T, NEW s \in Seq(T), NEW e \in T
  PROVE  /\ Append(s, e) \in Seq(T) /\ Len(Append(s, e)) = Len(s) + 1
         /\ Append(s, e)[Len(s) + 1] = e
         /\ \A i \in 1..Len(s) : Append(s, e)[i] = s[i]
BY AppendProperties

LEMMA Popped ==
  ASSUME NEW T, NEW s \in Seq(T), s # << >>
  PROVE  /\ Last(s) = s[Len(s)] /\ Last(s) \in T
         /\ Front(s) \in Seq(T) /\ Len(s) \in Nat \ {0} /\ Len(Front(s)) = Len(s) - 1
         /\ \A i \in 1..(Len(s) - 1) : Front(s)[i] = s[i]
<1>1. Len(s) \in Nat \ {0} /\ \A i \in 1..Len(s) : s[i] \in T
  BY EmptySeq, ElementOfSeq
<1>2. Len(s) - 1 \in Int /\ \A i \in 1..(Len(s) - 1) : s[i] \in T
  BY <1>1
<1> DEFINE n == Len(s)
           q == SubSeq(s, 1, n - 1)
<1>3. /\ q \in Seq(T)
      /\ Len(q) = IF 1 <= n - 1 THEN n - 1 - 1 + 1 ELSE 0
      /\ \A i \in 1..(n - 1 - 1 + 1) : q[i] = s[1 + i - 1]
  BY <1>2, SubSeqProperties
<1> HIDE DEF q
<1>4. Len(q) = n - 1
  <2>1. n \in Nat /\ n # 0
    BY <1>1
  <2> HIDE DEF n
  <2>2. CASE n = 1
    BY <1>3, <2>2
  <2>3. CASE n > 1
    BY <1>3, <2>1, <2>3
  <2> QED
    BY <2>1, <2>2, <2>3
<1>5. ASSUME NEW i \in 1..(n - 1) PROVE q[i] = s[i]
  <2>1. i \in 1..(n - 1 - 1 + 1) /\ 1 + i - 1 = i
    BY <1>1
  <2> QED
    BY <1>3, <2>1
<1>6. Last(s) = s[n] /\ Front(s) = q
  BY DEF Last, Front, q
<1> QED
  BY <1>1, <1>3, <1>4, <1>5, <1>6

LEMMA AllType == ASSUME NEW c \in Colour PROVE All(c) \in [Pixel -> Colour]
BY DEF All

LEMMA FreshType ==
  ASSUME NEW b \in Buffer
  PROVE  Fresh(b) \in Target
BY DEF Fresh, Target

\* The fields of a renderer.
LEMMA Fields ==
  ASSUME NEW g \in Renderer
  PROVE  /\ g.mem \in [Buffer -> [Pixel -> Colour]] /\ g.cur \in Target /\ g.base \in Buffer
         /\ g.stack \in Seq(Target) /\ g.surf \in [Id -> Surface]
         /\ g.app \in Plane /\ g.app \in Buffer /\ g.appOpaque \in BOOLEAN
         /\ Len(g.stack) \in Nat /\ DOMAIN g.stack = 1..Len(g.stack)
         /\ \A i \in 1..Len(g.stack) : g.stack[i] \in Target
         /\ g.stack = << >> <=> Len(g.stack) = 0
<1>1. /\ g.mem \in [Buffer -> [Pixel -> Colour]] /\ g.cur \in Target /\ g.base \in Buffer
      /\ g.stack \in Seq(Target) /\ g.surf \in [Id -> Surface]
      /\ g.app \in Plane /\ g.appOpaque \in BOOLEAN
  BY DEF Renderer
<1>2. g.app \in Buffer
  BY <1>1 DEF Buffer
<1>3. Len(g.stack) \in Nat /\ DOMAIN g.stack = 1..Len(g.stack)
  BY <1>1, LenProperties
<1>4. \A i \in 1..Len(g.stack) : g.stack[i] \in Target
  BY <1>1, ElementOfSeq
<1>5. g.stack = << >> <=> Len(g.stack) = 0
  BY <1>1, EmptySeq
<1> QED
  BY <1>1, <1>2, <1>3, <1>4, <1>5

LEMMA RealiseFields ==
  ASSUME NEW g \in Renderer, NEW b \in Buffer
  PROVE  /\ Realise(g, b) \in Renderer
         /\ Realise(g, b) = [g EXCEPT !.mem = Realise(g, b).mem, !.stack = Realise(g, b).stack]
         /\ Len(Realise(g, b).stack) = Len(g.stack)
         /\ \A i \in 1..Len(g.stack) : Realise(g, b).stack[i] =
              IF g.stack[i].buf = b THEN [g.stack[i] EXCEPT !.fill = None] ELSE g.stack[i]
         /\ \A c \in Buffer \ {b} : Realise(g, b).mem[c] = g.mem[c]
         /\ ~Filled(g, b) => Realise(g, b) = g
         /\ Filled(g, b) => \E i \in 1..Len(g.stack) :
              /\ g.stack[i].buf = b /\ g.stack[i].fill # None
              /\ Realise(g, b).mem[b] = All(g.stack[i].fill)
<1>0. /\ g.mem \in [Buffer -> [Pixel -> Colour]] /\ g.stack \in Seq(Target)
      /\ Len(g.stack) \in Nat /\ DOMAIN g.stack = 1..Len(g.stack)
      /\ \A i \in 1..Len(g.stack) : g.stack[i] \in Target
  BY Fields
<1>1. CASE ~Filled(g, b)
  <2>1. Realise(g, b) = g
    BY <1>1 DEF Realise
  <2>2. g = [g EXCEPT !.mem = g.mem, !.stack = g.stack]
    BY DEF Renderer
  <2>3. ASSUME NEW i \in 1..Len(g.stack), g.stack[i].buf = b
        PROVE  g.stack[i] = [g.stack[i] EXCEPT !.fill = None]
    BY <1>0, <1>1, <2>3 DEF Filled, Target
  <2> QED
    BY <1>1, <2>1, <2>2, <2>3
<1>2. CASE Filled(g, b)
  <2> DEFINE S == {i \in 1..Len(g.stack) : g.stack[i].buf = b /\ g.stack[i].fill # None}
             last == CHOOSE i \in DOMAIN g.stack :
                /\ g.stack[i].buf = b /\ g.stack[i].fill # None
                /\ \A j \in DOMAIN g.stack :
                     (g.stack[j].buf = b /\ g.stack[j].fill # None) => j <= i
             st == [i \in DOMAIN g.stack |->
                     IF g.stack[i].buf = b THEN [g.stack[i] EXCEPT !.fill = None] ELSE g.stack[i]]
             m == [g.mem EXCEPT ![b] = All(g.stack[last].fill)]
  <2>1. S # {} /\ S \in SUBSET (1..Len(g.stack))
    BY <1>0, <1>2 DEF Filled
  <2>2. \E x \in S : \A y \in S : y <= x
    BY <1>0, <2>1, LastPosition
  <2>3. \E i \in DOMAIN g.stack :
          /\ g.stack[i].buf = b /\ g.stack[i].fill # None
          /\ \A j \in DOMAIN g.stack : (g.stack[j].buf = b /\ g.stack[j].fill # None) => j <= i
    BY <1>0, <2>2
  <2>4. last \in 1..Len(g.stack) /\ g.stack[last].buf = b /\ g.stack[last].fill # None
    BY <1>0, <2>3
  <2>5. Realise(g, b) = [g EXCEPT !.mem[b] = All(g.stack[last].fill), !.stack = st]
    BY <1>2, Zenon DEF Realise
  <2>6. Realise(g, b) = [g EXCEPT !.mem = m, !.stack = st]
    BY <2>5 DEF Renderer
  <2> HIDE DEF last
  <2>7. g.stack[last].fill \in Colour
    BY <1>0, <2>4 DEF Target
  <2>8. m \in [Buffer -> [Pixel -> Colour]] /\ m[b] = All(g.stack[last].fill)
        /\ \A c \in Buffer \ {b} : m[c] = g.mem[c]
    BY <1>0, <2>7, AllType
  <2>9. st \in [1..Len(g.stack) -> Target] /\ \A i \in 1..Len(g.stack) : st[i] =
              IF g.stack[i].buf = b THEN [g.stack[i] EXCEPT !.fill = None] ELSE g.stack[i]
    BY <1>0 DEF Target
  <2> HIDE DEF st, m
  <2>10. st \in Seq(Target) /\ Len(st) = Len(g.stack)
    BY <1>0, <2>9, MappedSeq
  <2>11. Realise(g, b).mem = m /\ Realise(g, b).stack = st /\ Realise(g, b) \in Renderer
    BY <2>6, <2>8, <2>10 DEF Renderer
  <2> QED
    BY <1>2, <2>4, <2>6, <2>8, <2>9, <2>10, <2>11
<1> QED
  BY <1>1, <1>2

\* What a target shows once its waiting fill is performed.
Shows(g, t) == IF t.fill = None THEN g.mem[t.buf] ELSE All(t.fill)

LEMMA ShowsType ==
  ASSUME NEW g \in Renderer, NEW t \in Target
  PROVE  Shows(g, t) \in [Pixel -> Colour]
<1>1. CASE t.fill = None
  BY <1>1, Fields DEF Shows, Target
<1>2. CASE t.fill # None
  <2>1. t.fill \in Colour
    BY <1>2 DEF Target
  <2> QED
    BY <1>2, <2>1, AllType DEF Shows
<1> QED
  BY <1>1, <1>2

\* Only the pixels and the flags of the current target are touched.
Repaints(g, h) ==
  /\ h \in Renderer /\ h.stack = g.stack /\ h.base = g.base /\ h.surf = g.surf
  /\ h.app = g.app /\ h.appOpaque = g.appOpaque
  /\ h.cur.buf = g.cur.buf /\ h.cur.id = g.cur.id
  /\ \A b \in Buffer \ {g.cur.buf} : h.mem[b] = g.mem[b]

LEMMA RepaintsItself == ASSUME NEW g \in Renderer PROVE Repaints(g, g)
BY DEF Repaints

LEMMA RepaintsTwice ==
  ASSUME NEW g, NEW h, NEW k, Repaints(g, h), Repaints(h, k)
  PROVE  Repaints(g, k)
BY DEF Repaints

\* A new current target only.
LEMMA Reflag ==
  ASSUME NEW g \in Renderer, NEW t \in Target, t.buf = g.cur.buf, t.id = g.cur.id,
         NEW h, h = [g EXCEPT !.cur = t]
  PROVE  Repaints(g, h) /\ h.cur = t /\ h.mem = g.mem
<1>1. h.cur = t /\ h.mem = g.mem /\ h \in Renderer
  BY DEF Renderer
<1>2. h.stack = g.stack /\ h.base = g.base /\ h.surf = g.surf /\ h.app = g.app /\ h.appOpaque = g.appOpaque
  BY DEF Renderer
<1> QED
  BY <1>1, <1>2 DEF Repaints

\* New pixels for one buffer.
LEMMA Written ==
  ASSUME NEW g \in Renderer, NEW b \in Buffer, NEW pixels \in [Pixel -> Colour]
  PROVE  /\ [g.mem EXCEPT ![b] = pixels] \in [Buffer -> [Pixel -> Colour]]
         /\ [g.mem EXCEPT ![b] = pixels][b] = pixels
         /\ \A c \in Buffer \ {b} : [g.mem EXCEPT ![b] = pixels][c] = g.mem[c]
BY Fields

LEMMA SetFillFields ==
  ASSUME NEW g \in Renderer, NEW c \in Colour
  PROVE  /\ Repaints(g, SetFill(g, c)) /\ SetFill(g, c).mem = g.mem
         /\ SetFill(g, c).cur = [g.cur EXCEPT !.fill = c, !.known = TRUE,
                                  !.opaque = (c = Solid), !.empty = (c = Clear)]
<1> DEFINE t == [g.cur EXCEPT !.fill = c, !.known = TRUE, !.opaque = (c = Solid), !.empty = (c = Clear)]
<1>1. g.cur \in Target
  BY Fields
<1>2. t \in Target /\ t.buf = g.cur.buf /\ t.id = g.cur.id
  BY <1>1 DEF Target
<1>3. SetFill(g, c) = [g EXCEPT !.cur = t]
  BY DEF SetFill
<1> HIDE DEF t
<1>4. Repaints(g, SetFill(g, c)) /\ SetFill(g, c).cur = t /\ SetFill(g, c).mem = g.mem
  BY <1>2, <1>3, Reflag
<1> QED
  BY <1>4 DEF t

LEMMA FlushFields ==
  ASSUME NEW g \in Renderer
  PROVE  /\ Repaints(g, Flush(g)) /\ Flush(g).cur.fill = None
         /\ Flush(g).mem[g.cur.buf] = Shows(g, g.cur)
         /\ Flush(g).cur =
              IF g.cur.fill = None THEN g.cur
              ELSE [g.cur EXCEPT !.fill = None, !.known = TRUE,
                                 !.opaque = (g.cur.fill = Solid), !.empty = (g.cur.fill = Clear)]
<1>1. g.cur \in Target /\ g.cur.buf \in Buffer
  BY Fields DEF Target
<1>2. CASE g.cur.fill = None
  <2>1. Flush(g) = g
    BY <1>2 DEF Flush
  <2> QED
    BY <1>2, <2>1, RepaintsItself DEF Shows
<1>3. CASE g.cur.fill # None
  <2> DEFINE c == g.cur.fill
             h == SetFill(g, c)
             t == [g.cur EXCEPT !.fill = None, !.known = TRUE, !.opaque = (c = Solid), !.empty = (c = Clear)]
             k == [h EXCEPT !.mem[g.cur.buf] = All(c), !.cur.fill = None]
  <2>1. c \in Colour
    BY <1>1, <1>3 DEF Target
  <2>2. Flush(g) = k
    BY <1>3 DEF Flush
  <2>3. /\ h \in Renderer /\ h.mem = g.mem /\ Repaints(g, h)
        /\ h.cur = [g.cur EXCEPT !.fill = c, !.known = TRUE, !.opaque = (c = Solid), !.empty = (c = Clear)]
    BY <2>1, SetFillFields, Zenon DEF Repaints
  <2>4. t \in Target /\ t.buf = h.cur.buf /\ t.id = h.cur.id /\ h.cur.buf = g.cur.buf
    BY <1>1, <2>3 DEF Target, Repaints
  <2>5. [h.cur EXCEPT !.fill = None] = t
    BY <1>1, <2>3 DEF Target
  <2> DEFINE m == [h.mem EXCEPT ![h.cur.buf] = All(c)]
  <2> HIDE DEF c, h, t
  <2>6. k = [h EXCEPT !.cur = t, !.mem = m]
    BY <2>3, <2>4, <2>5 DEF Renderer
  <2>7. All(c) \in [Pixel -> Colour] /\ h.cur.buf \in Buffer /\ h \in Renderer
    BY <1>1, <2>1, <2>3, <2>4, AllType
  <2>8. /\ m \in [Buffer -> [Pixel -> Colour]] /\ m[h.cur.buf] = All(c)
        /\ \A b \in Buffer \ {h.cur.buf} : m[b] = h.mem[b]
    BY <2>7, Written
  <2> HIDE DEF k, m
  <2>9. /\ k \in Renderer /\ k.cur = t /\ k.mem = m /\ k.stack = h.stack /\ k.base = h.base
        /\ k.surf = h.surf /\ k.app = h.app /\ k.appOpaque = h.appOpaque
    BY <2>4, <2>6, <2>7, <2>8 DEF Renderer
  <2>10. Repaints(g, k)
    BY <2>3, <2>4, <2>8, <2>9 DEF Repaints
  <2>11. t.fill = None
    BY <1>1 DEF t, Target
  <2> QED
    BY <1>3, <2>2, <2>4, <2>8, <2>9, <2>10, <2>11 DEF Shows, c, t
<1> QED
  BY <1>2, <1>3

LEMMA PrepareDrawFields ==
  ASSUME NEW g \in Renderer
  PROVE  /\ Repaints(g, PrepareDraw(g)) /\ PrepareDraw(g).cur.fill = None
         /\ PrepareDraw(g).mem[g.cur.buf] = Shows(g, g.cur)
         /\ PrepareDraw(g).cur = [Flush(g).cur EXCEPT !.empty = FALSE]
         /\ ~PrepareDraw(g).cur.empty
<1> DEFINE f == Flush(g)
           t == [f.cur EXCEPT !.empty = FALSE]
<1>1. Repaints(g, f) /\ f.cur.fill = None /\ f.mem[g.cur.buf] = Shows(g, g.cur)
  BY FlushFields, Zenon
<1>2. f \in Renderer /\ f.cur \in Target
  BY <1>1, Fields DEF Repaints
<1>3. t \in Target /\ t.buf = f.cur.buf /\ t.id = f.cur.id /\ t.fill = None /\ ~t.empty
  BY <1>1, <1>2 DEF Target
<1>4. PrepareDraw(g) = [f EXCEPT !.cur = t]
  BY <1>2 DEF PrepareDraw, Renderer
<1> HIDE DEF f, t
<1>5. Repaints(f, PrepareDraw(g)) /\ PrepareDraw(g).cur = t /\ PrepareDraw(g).mem = f.mem
  BY <1>2, <1>3, <1>4, Reflag
<1>6. Repaints(g, PrepareDraw(g))
  BY <1>1, <1>5, RepaintsTwice
<1> QED
  BY <1>1, <1>3, <1>5, <1>6 DEF f, t

LEMMA PrepareOpaqueFields ==
  ASSUME NEW g \in Renderer
  PROVE  /\ Repaints(g, PrepareOpaqueRect(g)) /\ PrepareOpaqueRect(g).mem = g.mem
         /\ PrepareOpaqueRect(g).cur = [g.cur EXCEPT !.fill = None, !.empty = FALSE]
<1> DEFINE t == [g.cur EXCEPT !.fill = None, !.empty = FALSE]
<1>1. g.cur \in Target
  BY Fields
<1>2. t \in Target /\ t.buf = g.cur.buf /\ t.id = g.cur.id
  BY <1>1 DEF Target
<1>3. PrepareOpaqueRect(g) = [g EXCEPT !.cur = t]
  BY <1>1 DEF PrepareOpaqueRect, Renderer
<1> HIDE DEF t
<1>4. /\ Repaints(g, PrepareOpaqueRect(g)) /\ PrepareOpaqueRect(g).cur = t
      /\ PrepareOpaqueRect(g).mem = g.mem
  BY <1>2, <1>3, Reflag
<1> QED
  BY <1>4 DEF t

LEMMA StoreFields ==
  ASSUME NEW g \in Renderer
  PROVE  /\ StoreCoverage(g) \in Renderer
         /\ StoreCoverage(g).mem = g.mem /\ StoreCoverage(g).cur = g.cur
         /\ StoreCoverage(g).stack = g.stack /\ StoreCoverage(g).base = g.base
         /\ StoreCoverage(g).app = g.app /\ StoreCoverage(g).appOpaque = g.appOpaque
         /\ \A n \in Id \ {g.cur.id} : StoreCoverage(g).surf[n] = g.surf[n]
         /\ \A n \in Id : StoreCoverage(g).surf[n].live = g.surf[n].live
         /\ g.cur.id \in Id /\ g.surf[g.cur.id].live =>
              StoreCoverage(g).surf[g.cur.id] =
                [live |-> TRUE, known |-> g.cur.known, opaque |-> g.cur.opaque,
                 empty |-> \/ g.cur.empty
                           \/ /\ g.cur.known /\ ~g.cur.opaque
                              /\ g.mem[g.cur.buf] = All(Clear)]
<1>1. g.cur \in Target /\ g.surf \in [Id -> Surface]
  BY Fields
<1>2. CASE g.cur.id \notin Id \/ ~g.surf[g.cur.id].live
  <2>1. StoreCoverage(g) = g
    BY <1>2 DEF StoreCoverage
  <2> QED
    BY <1>2, <2>1
<1>3. CASE g.cur.id \in Id /\ g.surf[g.cur.id].live
  <2> DEFINE empty == \/ g.cur.empty
                      \/ /\ g.cur.known /\ ~g.cur.opaque
                         /\ g.mem[g.cur.buf] = All(Clear)
             rec == [live |-> TRUE, known |-> g.cur.known, opaque |-> g.cur.opaque, empty |-> empty]
             s == [g.surf EXCEPT ![g.cur.id] = rec]
  <2>1. StoreCoverage(g) = [g EXCEPT !.surf = s]
    BY <1>3 DEF StoreCoverage, Renderer
  <2>2. g.cur.known \in BOOLEAN /\ g.cur.opaque \in BOOLEAN /\ empty \in BOOLEAN
    BY <1>1 DEF Target
  <2>3. rec \in Surface /\ rec.live = TRUE
    BY <2>2, Zenon DEF Surface
  <2> HIDE DEF rec
  <2>4. /\ s \in [Id -> Surface] /\ s[g.cur.id] = rec
        /\ \A n \in Id \ {g.cur.id} : s[n] = g.surf[n]
        /\ \A n \in Id : s[n].live = g.surf[n].live
    BY <1>1, <1>3, <2>3
  <2> HIDE DEF s
  <2>5. /\ StoreCoverage(g) \in Renderer /\ StoreCoverage(g).surf = s
        /\ StoreCoverage(g).mem = g.mem /\ StoreCoverage(g).cur = g.cur
        /\ StoreCoverage(g).stack = g.stack /\ StoreCoverage(g).base = g.base
        /\ StoreCoverage(g).app = g.app /\ StoreCoverage(g).appOpaque = g.appOpaque
    BY <2>1, <2>4 DEF Renderer
  <2> QED
    BY <1>3, <2>4, <2>5, Zenon DEF rec
<1> QED
  BY <1>2, <1>3

\* Closing leaves the pixels as they would be shown.
LEMMA CloseFields ==
  ASSUME NEW g \in Renderer
  PROVE  /\ Close(g) \in Renderer
         /\ Close(g).stack = g.stack /\ Close(g).base = g.base
         /\ Close(g).app = g.app /\ Close(g).appOpaque = g.appOpaque
         /\ Close(g).cur.buf = g.cur.buf /\ Close(g).cur.id = g.cur.id
         /\ \A b \in Buffer \ {g.cur.buf} : Close(g).mem[b] = g.mem[b]
         /\ \A n \in Id \ {g.cur.id} : Close(g).surf[n] = g.surf[n]
         /\ \A n \in Id : Close(g).surf[n].live = g.surf[n].live
         /\ g.cur.id \in Id => /\ Close(g) = StoreCoverage(Flush(g))
                               /\ Close(g).mem = Flush(g).mem
                               /\ Close(g).mem[g.cur.buf] = Shows(g, g.cur)
         /\ g.cur.id \notin Id => Close(g) = g
<1>1. CASE g.cur.id \notin Id
  <2>1. Close(g) = g
    BY <1>1 DEF Close
  <2> QED
    BY <1>1, <2>1
<1>2. CASE g.cur.id \in Id
  <2> DEFINE f == Flush(g)
  <2>1. Close(g) = StoreCoverage(f)
    BY <1>2 DEF Close
  <2>2. Repaints(g, f) /\ f.mem[g.cur.buf] = Shows(g, g.cur)
    BY FlushFields, Zenon
  <2> HIDE DEF f
  <2>3. f \in Renderer
    BY <2>2 DEF Repaints
  <2>3a. /\ StoreCoverage(f) \in Renderer
         /\ StoreCoverage(f).mem = f.mem /\ StoreCoverage(f).cur = f.cur
         /\ StoreCoverage(f).stack = f.stack /\ StoreCoverage(f).base = f.base
         /\ StoreCoverage(f).app = f.app /\ StoreCoverage(f).appOpaque = f.appOpaque
         /\ \A n \in Id \ {f.cur.id} : StoreCoverage(f).surf[n] = f.surf[n]
         /\ \A n \in Id : StoreCoverage(f).surf[n].live = f.surf[n].live
    BY <2>3, StoreFields
  <2>4. /\ Close(g) \in Renderer
        /\ Close(g).mem = f.mem /\ Close(g).cur = f.cur
        /\ Close(g).stack = f.stack /\ Close(g).base = f.base
        /\ Close(g).app = f.app /\ Close(g).appOpaque = f.appOpaque
        /\ \A n \in Id \ {f.cur.id} : Close(g).surf[n] = f.surf[n]
        /\ \A n \in Id : Close(g).surf[n].live = f.surf[n].live
    BY <2>1, <2>3a
  <2>5. Close(g) = StoreCoverage(Flush(g)) /\ Close(g).mem = Flush(g).mem
    BY <2>1, <2>4 DEF f
  <2> QED
    BY <1>2, <2>2, <2>4, <2>5 DEF Repaints
<1> QED
  BY <1>1, <1>2

LEMMA ResetFields ==
  ASSUME NEW g \in Renderer
  PROVE  /\ ResetTarget(g) \in Renderer
         /\ ResetTarget(g).mem = Close(g).mem /\ ResetTarget(g).surf = Close(g).surf
         /\ ResetTarget(g).base = g.base /\ ResetTarget(g).app = g.app
         /\ ResetTarget(g).appOpaque = g.appOpaque
         /\ g.stack = << >> => ResetTarget(g).cur = Fresh(g.base) /\ ResetTarget(g).stack = << >>
         /\ g.stack # << >> => /\ ResetTarget(g).cur = g.stack[Len(g.stack)]
                               /\ Len(ResetTarget(g).stack) = Len(g.stack) - 1
                               /\ \A i \in 1..(Len(g.stack) - 1) :
                                    ResetTarget(g).stack[i] = g.stack[i]
<1> DEFINE c == Close(g)
           h == ResetTarget(g)
<1>1. /\ c \in Renderer /\ c.stack = g.stack /\ c.base = g.base
      /\ c.app = g.app /\ c.appOpaque = g.appOpaque
  BY CloseFields
<1>2. c.stack \in Seq(Target) /\ c.base \in Buffer
  BY <1>1, Fields
<1>3. CASE g.stack = << >>
  <2>1. h = [c EXCEPT !.cur = Fresh(c.base)]
    BY <1>1, <1>3 DEF ResetTarget
  <2>2. Fresh(c.base) \in Target
    BY <1>2, FreshType
  <2> HIDE DEF c, h
  <2>3. /\ h \in Renderer /\ h.mem = c.mem /\ h.surf = c.surf /\ h.base = c.base /\ h.app = c.app
        /\ h.appOpaque = c.appOpaque /\ h.cur = Fresh(c.base) /\ h.stack = c.stack
    BY <1>1, <2>1, <2>2 DEF Renderer
  <2> QED
    BY <1>1, <1>3, <2>3 DEF c, h
<1>4. CASE g.stack # << >>
  <2> DEFINE t == Last(c.stack)
             s == Front(c.stack)
  <2>1. h = [c EXCEPT !.cur = t, !.stack = s]
    BY <1>1, <1>4 DEF ResetTarget
  <2>2. /\ t = g.stack[Len(g.stack)] /\ t \in Target
        /\ s \in Seq(Target) /\ Len(s) = Len(g.stack) - 1
        /\ \A i \in 1..(Len(g.stack) - 1) : s[i] = g.stack[i]
    BY <1>1, <1>2, <1>4, Popped
  <2> HIDE DEF c, h, t, s
  <2>3. /\ h \in Renderer /\ h.mem = c.mem /\ h.surf = c.surf /\ h.base = c.base /\ h.app = c.app
        /\ h.appOpaque = c.appOpaque /\ h.cur = t /\ h.stack = s
    BY <1>1, <2>1, <2>2 DEF Renderer
  <2> QED
    BY <1>1, <1>4, <2>2, <2>3 DEF c, h
<1> QED
  BY <1>3, <1>4

\* What a surface's target is when it is bound.
Bound(g, n) ==
  IF n = Application THEN [Fresh(g.app) EXCEPT !.id = Application]
  ELSE [buf |-> n, id |-> n, known |-> g.surf[n].known, opaque |-> g.surf[n].opaque,
        empty |-> g.surf[n].empty, fill |-> None]

LEMMA BoundFields ==
  ASSUME NEW g \in Renderer, NEW n \in Name
  PROVE  /\ Bound(g, n) \in Target /\ Bound(g, n).buf = BufferOf(g, n) /\ Bound(g, n).id = n
         /\ Bound(g, n).fill = None /\ BufferOf(g, n) \in Buffer
         /\ n = Application => /\ ~Bound(g, n).known /\ ~Bound(g, n).empty
         /\ n \in Id => /\ Bound(g, n).known = g.surf[n].known
                        /\ Bound(g, n).opaque = g.surf[n].opaque
                        /\ Bound(g, n).empty = g.surf[n].empty
<1>0. Application \notin Id
  BY TargetsAssumption
<1>1. CASE n = Application
  <2>1. Fresh(g.app) \in Target /\ g.app \in Buffer
    BY Fields, FreshType
  <2>2. Bound(g, n) = [Fresh(g.app) EXCEPT !.id = Application]
    BY <1>1 DEF Bound
  <2>3. Application \in {NoSurfaceId} \union Name
    BY DEF Name
  <2>4. /\ Fresh(g.app).buf = g.app /\ Fresh(g.app).fill = None /\ Fresh(g.app).known = FALSE
        /\ Fresh(g.app).empty = FALSE
    BY DEF Fresh
  <2> QED
    BY <1>0, <1>1, <2>1, <2>2, <2>3, <2>4 DEF Target, BufferOf
<1>2. CASE n \in Id
  <2>1. g.surf[n] \in Surface /\ n # Application /\ n \in Buffer
    BY <1>0, <1>2, Fields DEF Buffer
  <2>2. /\ g.surf[n].known \in BOOLEAN /\ g.surf[n].opaque \in BOOLEAN
        /\ g.surf[n].empty \in BOOLEAN
    BY <2>1 DEF Surface
  <2>3. Bound(g, n) = [buf |-> n, id |-> n, known |-> g.surf[n].known, opaque |-> g.surf[n].opaque,
                       empty |-> g.surf[n].empty, fill |-> None]
    BY <2>1 DEF Bound
  <2>5. Bound(g, n) \in Target
    BY <2>1, <2>2, <2>3 DEF Target
  <2> QED
    BY <1>2, <2>1, <2>3, <2>5 DEF BufferOf
<1> QED
  BY <1>1, <1>2 DEF Name

LEMMA PushFields ==
  ASSUME NEW g \in Renderer, NEW n \in Name
  PROVE  /\ Push(g, n) \in Renderer /\ Push(g, n).mem = g.mem /\ Push(g, n).surf = g.surf
         /\ Push(g, n).base = g.base /\ Push(g, n).app = g.app
         /\ Push(g, n).appOpaque = g.appOpaque
         /\ Push(g, n).cur = Bound(g, n)
         /\ Len(Push(g, n).stack) = Len(g.stack) + 1
         /\ Push(g, n).stack[Len(g.stack) + 1] = g.cur
         /\ \A i \in 1..Len(g.stack) : Push(g, n).stack[i] = g.stack[i]
<1> DEFINE t == Bound(g, n)
           s == Append(g.stack, g.cur)
           h == Push(g, n)
<1>1. h = [g EXCEPT !.stack = s, !.cur = t]
  BY DEF Push, Bound, Renderer
<1>2. /\ s \in Seq(Target) /\ Len(s) = Len(g.stack) + 1 /\ s[Len(g.stack) + 1] = g.cur
      /\ \A i \in 1..Len(g.stack) : s[i] = g.stack[i]
  BY Fields, Topped
<1>3. t \in Target
  BY BoundFields
<1> HIDE DEF h, t, s
<1>4. /\ h \in Renderer /\ h.mem = g.mem /\ h.surf = g.surf /\ h.base = g.base /\ h.app = g.app
      /\ h.appOpaque = g.appOpaque /\ h.cur = t /\ h.stack = s
  BY <1>1, <1>2, <1>3 DEF Renderer
<1> QED
  BY <1>2, <1>4 DEF h, t

LEMMA OverType ==
  ASSUME NEW f \in [Pixel -> Colour], NEW h \in [Pixel -> Colour]
  PROVE  Over(f, h) \in [Pixel -> Colour]
BY DEF Over

LEMMA BufferOfType == ASSUME NEW g \in Renderer, NEW n \in Name PROVE BufferOf(g, n) \in Buffer
BY BoundFields

LEMMA KnownType ==
  ASSUME NEW g \in Renderer, NEW n \in Name
  PROVE  KnownEmpty(g, n) \in BOOLEAN /\ KnownOpaque(g, n) \in BOOLEAN
<1>1. g.appOpaque \in BOOLEAN /\ g.surf \in [Id -> Surface] /\ n \in {Application} \union Id
  BY Fields DEF Name
<1>2. CASE n = Application
  BY <1>1, <1>2 DEF KnownEmpty, KnownOpaque
<1>3. CASE n # Application
  <2>1. g.surf[n] \in Surface
    BY <1>1, <1>3
  <2>2. g.surf[n].known \in BOOLEAN /\ g.surf[n].opaque \in BOOLEAN /\ g.surf[n].empty \in BOOLEAN
    BY <2>1 DEF Surface
  <2> QED
    BY <1>3, <2>2 DEF KnownEmpty, KnownOpaque
<1> QED
  BY <1>2, <1>3

\* A surface drawn: nothing, a copy, or pixel over pixel.
LEMMA CompositeSkips ==
  ASSUME NEW g \in Renderer, NEW n \in Name, BufferOf(g, n) # g.cur.buf, KnownEmpty(g, n)
  PROVE  Composite(g, n) = g
BY DEF Composite

LEMMA CompositeCopies ==
  ASSUME NEW g \in Renderer, NEW n \in Name, BufferOf(g, n) # g.cur.buf,
         ~KnownEmpty(g, n), KnownOpaque(g, n)
  PROVE  /\ Repaints(g, Composite(g, n))
         /\ Composite(g, n).mem[g.cur.buf] = g.mem[BufferOf(g, n)]
         /\ Composite(g, n).cur = [g.cur EXCEPT !.fill = None, !.empty = FALSE,
                                                !.known = TRUE, !.opaque = TRUE]
<1> DEFINE h == Composite(g, n)
           s == BufferOf(g, n)
           t == g.cur.buf
<1>0. /\ g.cur \in Target /\ t \in Buffer /\ s \in Buffer
      /\ KnownEmpty(g, n) \in BOOLEAN /\ KnownOpaque(g, n) \in BOOLEAN
  BY Fields, BufferOfType, KnownType DEF Target
<1> DEFINE o == PrepareOpaqueRect(g)
           u == [g.cur EXCEPT !.fill = None, !.empty = FALSE, !.known = TRUE, !.opaque = TRUE]
           m == [g.mem EXCEPT ![t] = g.mem[s]]
<1>1. /\ o \in Renderer /\ Repaints(g, o) /\ o.mem = g.mem
      /\ o.cur = [g.cur EXCEPT !.fill = None, !.empty = FALSE]
  <2>1. /\ Repaints(g, o) /\ o.mem = g.mem
        /\ o.cur = [g.cur EXCEPT !.fill = None, !.empty = FALSE]
    BY PrepareOpaqueFields, Zenon
  <2>2. o \in Renderer
    BY <2>1 DEF Repaints
  <2> QED
    BY <2>1, <2>2
<1>2. h = [o EXCEPT !.mem[t] = g.mem[s], !.cur.known = TRUE, !.cur.opaque = TRUE]
  BY DEF Composite
<1>3. u \in Target /\ u.buf = g.cur.buf /\ u.id = g.cur.id
  BY <1>0 DEF Target
<1>4. [o.cur EXCEPT !.known = TRUE, !.opaque = TRUE] = u
  BY <1>0, <1>1 DEF Target
<1> HIDE DEF o, u
<1>5. h = [o EXCEPT !.mem = m, !.cur = u]
  BY <1>1, <1>2, <1>4 DEF Renderer
<1>6. g.mem[s] \in [Pixel -> Colour]
  BY <1>0, Fields
<1>7. /\ m \in [Buffer -> [Pixel -> Colour]] /\ m[t] = g.mem[s]
      /\ \A b \in Buffer \ {t} : m[b] = g.mem[b]
  BY <1>0, <1>6, Written
<1> HIDE DEF m, h
<1>8. /\ h \in Renderer /\ h.cur = u /\ h.mem = m /\ h.stack = o.stack /\ h.base = o.base
      /\ h.surf = o.surf /\ h.app = o.app /\ h.appOpaque = o.appOpaque
  BY <1>1, <1>3, <1>5, <1>7 DEF Renderer
<1>9. Repaints(g, h)
  BY <1>1, <1>3, <1>7, <1>8 DEF Repaints
<1> QED
  BY <1>7, <1>8, <1>9 DEF h, u

LEMMA CompositeMixes ==
  ASSUME NEW g \in Renderer, NEW n \in Name,
         BufferOf(g, n) = g.cur.buf \/ (~KnownEmpty(g, n) /\ ~KnownOpaque(g, n))
  PROVE  /\ Repaints(g, Composite(g, n))
         /\ Composite(g, n).mem[g.cur.buf] =
              Over(Shows(g, g.cur), PrepareDraw(g).mem[BufferOf(g, n)])
         /\ Composite(g, n).cur = [PrepareDraw(g).cur EXCEPT !.known = @ \/ KnownOpaque(g, n),
                                                             !.opaque = @ \/ KnownOpaque(g, n)]
<1> DEFINE h == Composite(g, n)
           s == BufferOf(g, n)
           t == g.cur.buf
<1>0. /\ g.cur \in Target /\ t \in Buffer /\ s \in Buffer
      /\ KnownEmpty(g, n) \in BOOLEAN /\ KnownOpaque(g, n) \in BOOLEAN
  BY Fields, BufferOfType, KnownType DEF Target
<1> DEFINE k == PrepareDraw(g)
           u == [k.cur EXCEPT !.known = @ \/ KnownOpaque(g, n), !.opaque = @ \/ KnownOpaque(g, n)]
           new == Over(Shows(g, g.cur), k.mem[s])
           m == [k.mem EXCEPT ![t] = new]
<1>1. Repaints(g, k) /\ k.mem[t] = Shows(g, g.cur)
  BY PrepareDrawFields
<1>2. h = [k EXCEPT !.mem[t] = Over(@, k.mem[s]),
                    !.cur.known = @ \/ KnownOpaque(g, n), !.cur.opaque = @ \/ KnownOpaque(g, n)]
  BY DEF Composite
<1> HIDE DEF k
<1>3. k \in Renderer /\ k.cur \in Target /\ k.cur.buf = t /\ k.cur.id = g.cur.id
  BY <1>1, Fields DEF Repaints
<1>4. u \in Target /\ u.buf = g.cur.buf /\ u.id = g.cur.id
  <2>1. /\ k.cur.known \in BOOLEAN /\ k.cur.opaque \in BOOLEAN
    BY <1>3 DEF Target
  <2>2. /\ (k.cur.known \/ KnownOpaque(g, n)) \in BOOLEAN
        /\ (k.cur.opaque \/ KnownOpaque(g, n)) \in BOOLEAN
    BY <1>0, <2>1, Zenon
  <2> DEFINE a == k.cur.known \/ KnownOpaque(g, n)
             b == k.cur.opaque \/ KnownOpaque(g, n)
  <2>3. u = [k.cur EXCEPT !.known = a, !.opaque = b]
    OBVIOUS
  <2> HIDE DEF a, b, u
  <2>4. a \in BOOLEAN /\ b \in BOOLEAN
    BY <2>2 DEF a, b
  <2> QED
    BY <1>3, <2>3, <2>4 DEF Target
<1>5. h = [k EXCEPT !.mem = m, !.cur = u]
  BY <1>1, <1>2, <1>3 DEF Renderer
<1>6. new \in [Pixel -> Colour]
  BY <1>0, <1>3, Fields, ShowsType, OverType
<1> HIDE DEF new
<1>7. /\ m \in [Buffer -> [Pixel -> Colour]] /\ m[t] = new
      /\ \A b \in Buffer \ {t} : m[b] = k.mem[b]
  BY <1>0, <1>3, <1>6, Written
<1> HIDE DEF m, h, u
<1>8. /\ h \in Renderer /\ h.cur = u /\ h.mem = m /\ h.stack = k.stack /\ h.base = k.base
      /\ h.surf = k.surf /\ h.app = k.app /\ h.appOpaque = k.appOpaque
  BY <1>3, <1>4, <1>5, <1>7 DEF Renderer
<1>9. Repaints(g, h)
  BY <1>1, <1>4, <1>7, <1>8 DEF Repaints
<1> QED
  BY <1>7, <1>8, <1>9 DEF h, u, new, k

LEMMA CompositeFields ==
  ASSUME NEW g \in Renderer, NEW n \in Name
  PROVE  Repaints(g, Composite(g, n))
<1>1. CASE BufferOf(g, n) # g.cur.buf /\ KnownEmpty(g, n)
  <2>1. Composite(g, n) = g
    BY <1>1, CompositeSkips
  <2> QED
    BY <2>1, RepaintsItself
<1>2. CASE BufferOf(g, n) # g.cur.buf /\ ~KnownEmpty(g, n) /\ KnownOpaque(g, n)
  BY <1>2, CompositeCopies, Zenon
<1>3. CASE BufferOf(g, n) = g.cur.buf \/ (~KnownEmpty(g, n) /\ ~KnownOpaque(g, n))
  BY <1>3, CompositeMixes, Zenon
<1> QED
  BY <1>1, <1>2, <1>3

LEMMA CopyFields ==
  ASSUME NEW g \in Renderer, NEW d \in Name, NEW s \in Name, NEW part \in SUBSET Pixel
  PROVE  /\ CopyPixels(g, d, s, part) \in Renderer
         /\ CopyPixels(g, d, s, part).cur = g.cur /\ CopyPixels(g, d, s, part).stack = g.stack
         /\ CopyPixels(g, d, s, part).base = g.base /\ CopyPixels(g, d, s, part).surf = g.surf
         /\ CopyPixels(g, d, s, part).app = g.app
         /\ CopyPixels(g, d, s, part).appOpaque = g.appOpaque
         /\ \A b \in Buffer \ {BufferOf(g, d)} : CopyPixels(g, d, s, part).mem[b] = g.mem[b]
         /\ CopyPixels(g, d, s, part).mem[BufferOf(g, d)] =
              [p \in Pixel |-> IF p \in part THEN g.mem[BufferOf(g, s)][p]
                                             ELSE g.mem[BufferOf(g, d)][p]]
<1> DEFINE bd == BufferOf(g, d)
           bs == BufferOf(g, s)
           new == [p \in Pixel |-> IF p \in part THEN g.mem[bs][p] ELSE g.mem[bd][p]]
           m == [g.mem EXCEPT ![bd] = new]
           h == CopyPixels(g, d, s, part)
<1>1. bd \in Buffer /\ bs \in Buffer /\ g.mem \in [Buffer -> [Pixel -> Colour]]
  BY BufferOfType, Fields
<1>2. h = [g EXCEPT !.mem = m]
  BY <1>1 DEF CopyPixels, Renderer
<1> HIDE DEF bd, bs
<1>3. new \in [Pixel -> Colour]
  BY <1>1
<1> HIDE DEF new
<1>4. /\ m \in [Buffer -> [Pixel -> Colour]] /\ m[bd] = new
      /\ \A b \in Buffer \ {bd} : m[b] = g.mem[b]
  BY <1>1, <1>3, Written
<1> HIDE DEF m, h
<1>5. /\ h \in Renderer /\ h.mem = m /\ h.cur = g.cur /\ h.stack = g.stack /\ h.base = g.base
      /\ h.surf = g.surf /\ h.app = g.app /\ h.appOpaque = g.appOpaque
  BY <1>2, <1>4 DEF Renderer
<1> QED
  BY <1>4, <1>5 DEF h, new, bd, bs

LEMMA CopyKeeps ==
  \A g \in Renderer : \A d, s \in Name : \A part \in SUBSET Pixel :
    /\ CopyPixels(g, d, s, part).cur = g.cur /\ CopyPixels(g, d, s, part).stack = g.stack
    /\ CopyPixels(g, d, s, part).base = g.base /\ CopyPixels(g, d, s, part).surf = g.surf
    /\ CopyPixels(g, d, s, part).app = g.app
    /\ CopyPixels(g, d, s, part).appOpaque = g.appOpaque
BY DEF CopyPixels, Renderer

LEMMA ForgetFields ==
  ASSUME NEW g \in Renderer, NEW d \in Name
  PROVE  /\ Forget(g, d) \in Renderer
         /\ Forget(g, d).mem = g.mem /\ Forget(g, d).stack = g.stack
         /\ Forget(g, d).base = g.base /\ Forget(g, d).app = g.app
         /\ Forget(g, d).cur = IF g.cur.id = d
                               THEN [g.cur EXCEPT !.known = FALSE, !.opaque = FALSE, !.empty = FALSE]
                               ELSE g.cur
         /\ d = Application => Forget(g, d).surf = g.surf /\ Forget(g, d).appOpaque = FALSE
         /\ d # Application =>
              /\ Forget(g, d).appOpaque = g.appOpaque
              /\ Forget(g, d).surf = [g.surf EXCEPT ![d] = [NoSurface EXCEPT !.live = TRUE]]
<1> DEFINE h == IF d = Application THEN [g EXCEPT !.appOpaque = FALSE]
                ELSE [g EXCEPT !.surf[d] = [NoSurface EXCEPT !.live = TRUE]]
           s == [g.surf EXCEPT ![d] = [NoSurface EXCEPT !.live = TRUE]]
           t == [g.cur EXCEPT !.known = FALSE, !.opaque = FALSE, !.empty = FALSE]
           k == Forget(g, d)
<1>0. g.cur \in Target /\ t \in Target
  BY Fields DEF Target
<1>1. /\ h \in Renderer /\ h.mem = g.mem /\ h.stack = g.stack /\ h.base = g.base /\ h.app = g.app
      /\ h.cur = g.cur
      /\ d = Application => h.surf = g.surf /\ h.appOpaque = FALSE
      /\ d # Application => h.appOpaque = g.appOpaque /\ h.surf = s
  <2>1. CASE d = Application
    BY <2>1 DEF Renderer
  <2>2. CASE d # Application
    <3>1. d \in Id
      BY <2>2 DEF Name
    <3>2. [NoSurface EXCEPT !.live = TRUE] \in Surface
      BY DEF NoSurface, Surface
    <3>3. s \in [Id -> Surface]
      BY <3>1, <3>2, Fields
    <3>4. h = [g EXCEPT !.surf = s]
      BY <2>2 DEF Renderer
    <3> HIDE DEF s, h
    <3> QED
      BY <2>2, <3>3, <3>4 DEF Renderer
  <2> QED
    BY <2>1, <2>2
<1>2. k = IF g.cur.id = d
          THEN [h EXCEPT !.cur.known = FALSE, !.cur.opaque = FALSE, !.cur.empty = FALSE] ELSE h
  BY DEF Forget
<1> HIDE DEF h, s
<1>3. CASE g.cur.id # d
  <2>1. k = h
    BY <1>2, <1>3
  <2> HIDE DEF k
  <2> QED
    BY <1>1, <1>3, <2>1 DEF k, s
<1>4. CASE g.cur.id = d
  <2>1. k = [h EXCEPT !.cur = t]
    BY <1>0, <1>1, <1>2, <1>4 DEF Renderer, Target
  <2> HIDE DEF k, t
  <2>2. /\ k \in Renderer /\ k.mem = h.mem /\ k.stack = h.stack /\ k.base = h.base /\ k.app = h.app
        /\ k.cur = t /\ k.surf = h.surf /\ k.appOpaque = h.appOpaque
    BY <1>0, <1>1, <2>1 DEF Renderer
  <2> QED
    BY <1>1, <1>4, <2>2 DEF k, s, t
<1> QED
  BY <1>3, <1>4

LEMMA MovedFields ==
  ASSUME NEW t \in Target, NEW old \in Buffer, NEW new \in Buffer
  PROVE  /\ Moved(t, old, new) \in Target
         /\ Moved(t, old, new).buf = IF t.buf = old THEN new ELSE t.buf
         /\ Moved(t, old, new).id = t.id /\ Moved(t, old, new).fill = t.fill
         /\ Moved(t, old, new).known = t.known /\ Moved(t, old, new).opaque = t.opaque
         /\ Moved(t, old, new).empty = t.empty
BY DEF Moved, Target

LEMMA MoveFields ==
  ASSUME NEW g \in Renderer, NEW old \in Buffer, NEW new \in Buffer
  PROVE  /\ Move(g, old, new) \in Renderer /\ Move(g, old, new).mem = g.mem
         /\ Move(g, old, new).surf = g.surf /\ Move(g, old, new).app = g.app
         /\ Move(g, old, new).appOpaque = g.appOpaque
         /\ Move(g, old, new).cur = Moved(g.cur, old, new)
         /\ Move(g, old, new).base = IF g.base = old THEN new ELSE g.base
         /\ Len(Move(g, old, new).stack) = Len(g.stack)
         /\ \A i \in 1..Len(g.stack) : Move(g, old, new).stack[i] = Moved(g.stack[i], old, new)
<1> DEFINE h == Move(g, old, new)
           t == Moved(g.cur, old, new)
           b == IF g.base = old THEN new ELSE g.base
           s == [i \in DOMAIN g.stack |-> Moved(g.stack[i], old, new)]
<1>1. /\ g.stack \in Seq(Target) /\ DOMAIN g.stack = 1..Len(g.stack)
      /\ \A i \in 1..Len(g.stack) : g.stack[i] \in Target
  BY Fields
<1>2. s \in [1..Len(g.stack) -> Target]
  BY <1>1, MovedFields
<1>3. s \in Seq(Target) /\ Len(s) = Len(g.stack)
      /\ \A i \in 1..Len(g.stack) : s[i] = Moved(g.stack[i], old, new)
  <2>1. \A i \in 1..Len(g.stack) : s[i] = Moved(g.stack[i], old, new)
    BY <1>1
  <2> HIDE DEF s
  <2> QED
    BY <1>1, <1>2, <2>1, MappedSeq
<1>4. t \in Target /\ b \in Buffer
  BY Fields, MovedFields
<1>5. h = [g EXCEPT !.cur = t, !.base = b, !.stack = s]
  BY DEF Move, Renderer
<1> HIDE DEF h, t, b, s
<1>6. /\ h \in Renderer /\ h.mem = g.mem /\ h.surf = g.surf /\ h.app = g.app
      /\ h.appOpaque = g.appOpaque /\ h.cur = t /\ h.base = b /\ h.stack = s
  BY <1>3, <1>4, <1>5 DEF Renderer
<1> QED
  BY <1>3, <1>6 DEF h, t, b

-----------------------------------------------------------------------------
(* RenderTargets: what its actions do to the renderer.                      *)

LEMMA BindStep ==
  ASSUME r \in Renderer, NEW n \in Name, Bind(n)
  PROVE  LET q == Read(r, n)
             z == ResetTarget(q)
         IN /\ q \in Renderer /\ z \in Renderer /\ Read(z, n) \in Renderer
            /\ Len(q.stack) >= Depth => r' = q
            /\ Len(q.stack) < Depth /\ classic /\ q.cur.id # NoSurfaceId => r' = Push(Read(z, n), n)
            /\ Len(q.stack) < Depth /\ ~(classic /\ q.cur.id # NoSurfaceId) => r' = Push(q, n)
<1> DEFINE q == Read(r, n)
           z == ResetTarget(q)
<1>1. BufferOf(r, n) \in Buffer
  BY BufferOfType
<1>2. q \in Renderer
  BY <1>1, RealiseFields, Zenon DEF Read
<1>3. z \in Renderer
  BY <1>2, ResetFields
<1>4. BufferOf(z, n) \in Buffer
  BY <1>3, BufferOfType
<1>5. Read(z, n) \in Renderer
  BY <1>3, <1>4, RealiseFields, Zenon DEF Read
<1>6. r' = SetTarget(r, n)
  BY DEF Bind
<1>7. r' = IF Len(q.stack) >= Depth THEN q
           ELSE IF classic /\ q.cur.id # NoSurfaceId THEN Push(Read(z, n), n) ELSE Push(q, n)
  BY <1>6 DEF SetTarget
<1>8. Len(q.stack) \in Nat /\ Depth \in Nat
  BY <1>2, Fields, TargetsAssumption
<1> HIDE DEF q, z
<1>9. /\ Len(q.stack) >= Depth => r' = q
      /\ Len(q.stack) < Depth => r' = IF classic /\ q.cur.id # NoSurfaceId
                                      THEN Push(Read(z, n), n) ELSE Push(q, n)
  BY <1>7, <1>8
<1> QED
  BY <1>2, <1>3, <1>5, <1>9 DEF q, z

LEMMA RectStep ==
  ASSUME r \in Renderer, DrawRect
  PROVE  /\ Repaints(r, r') /\ r'.mem = r.mem /\ r'.cur.fill = Solid
         /\ r'.cur.known /\ r'.cur.opaque = TRUE /\ r'.cur.empty = (Solid = Clear)
<1> DEFINE o == PrepareOpaqueRect(r)
<1>1. o \in Renderer /\ Repaints(r, o) /\ o.mem = r.mem
  BY PrepareOpaqueFields, Zenon DEF Repaints
<1>2. Solid \in Colour
  BY DEF Colour
<1>3. r' = SetFill(o, Solid)
  BY DEF DrawRect
<1> HIDE DEF o
<1>4. /\ Repaints(o, r') /\ r'.mem = o.mem
      /\ r'.cur = [o.cur EXCEPT !.fill = Solid, !.known = TRUE,
                                !.opaque = (Solid = Solid), !.empty = (Solid = Clear)]
  BY <1>1, <1>2, <1>3, SetFillFields, Zenon
<1>5. o.cur \in Target
  BY <1>1, Fields
<1>6. r'.cur.fill = Solid /\ r'.cur.known /\ r'.cur.opaque = TRUE /\ r'.cur.empty = (Solid = Clear)
  BY <1>4, <1>5 DEF Target
<1> QED
  BY <1>1, <1>4, <1>6, RepaintsTwice

LEMMA ClearStep ==
  ASSUME r \in Renderer, NEW c \in Colour, ClearTarget(c)
  PROVE  /\ Repaints(r, r') /\ r'.mem = r.mem /\ r'.cur.fill = c
         /\ r'.cur.known /\ r'.cur.opaque = (c = Solid) /\ r'.cur.empty = (c = Clear)
<1>1. r' = SetFill(r, c)
  BY DEF ClearTarget
<1>2. /\ Repaints(r, r') /\ r'.mem = r.mem
      /\ r'.cur = [r.cur EXCEPT !.fill = c, !.known = TRUE,
                                !.opaque = (c = Solid), !.empty = (c = Clear)]
  BY <1>1, SetFillFields, Zenon
<1>3. r.cur \in Target
  BY Fields
<1> QED
  BY <1>2, <1>3 DEF Target

\* One pixel drawn on the current target.
LEMMA PixelStep ==
  ASSUME r \in Renderer, NEW p \in Pixel, DrawPixel(p)
  PROVE  /\ Repaints(r, r') /\ r'.cur = PrepareDraw(r).cur
         /\ r'.mem[r.cur.buf] = [Shows(r, r.cur) EXCEPT ![p] = Solid]
<1> DEFINE k == PrepareDraw(r)
           new == [Shows(r, r.cur) EXCEPT ![p] = Solid]
           m == [k.mem EXCEPT ![r.cur.buf] = new]
<1>1. Repaints(r, k) /\ k.mem[r.cur.buf] = Shows(r, r.cur)
  BY PrepareDrawFields
<1>2. r.cur \in Target /\ r.cur.buf \in Buffer /\ Shows(r, r.cur) \in [Pixel -> Colour]
  BY Fields, ShowsType DEF Target
<1>3. new \in [Pixel -> Colour]
  BY <1>2 DEF Colour
<1>4. r' = [k EXCEPT !.mem[r.cur.buf][p] = Solid]
  BY DEF DrawPixel
<1> HIDE DEF k
<1>5. k \in Renderer
  BY <1>1 DEF Repaints
<1>6. r' = [k EXCEPT !.mem = m]
  BY <1>1, <1>4, <1>5 DEF Renderer
<1> HIDE DEF new
<1>7. /\ m \in [Buffer -> [Pixel -> Colour]] /\ m[r.cur.buf] = new
      /\ \A b \in Buffer \ {r.cur.buf} : m[b] = k.mem[b]
  BY <1>2, <1>3, <1>5, Written
<1> HIDE DEF m
<1>8. /\ r' \in Renderer /\ r'.mem = m /\ r'.cur = k.cur /\ r'.stack = k.stack /\ r'.base = k.base
      /\ r'.surf = k.surf /\ r'.app = k.app /\ r'.appOpaque = k.appOpaque
  BY <1>5, <1>6, <1>7 DEF Renderer
<1>9. Repaints(r, r')
  BY <1>1, <1>7, <1>8 DEF Repaints
<1> QED
  BY <1>7, <1>8, <1>9 DEF new, k

LEMMA PunchStep ==
  ASSUME r \in Renderer, NEW p \in Pixel, Punch(p)
  PROVE  /\ Repaints(r, r') /\ r'.cur.fill = None
         /\ r'.cur.known = FALSE /\ r'.cur.empty = FALSE
         /\ r'.mem[r.cur.buf] = [Shows(r, r.cur) EXCEPT ![p] = Clear]
<1> DEFINE k == PrepareDraw(r)
           new == [Shows(r, r.cur) EXCEPT ![p] = Clear]
           m == [k.mem EXCEPT ![r.cur.buf] = new]
           t == [k.cur EXCEPT !.known = FALSE, !.opaque = FALSE]
<1>1. /\ Repaints(r, k) /\ k.mem[r.cur.buf] = Shows(r, r.cur)
      /\ k.cur.fill = None /\ ~k.cur.empty
  BY PrepareDrawFields
<1>2. r.cur \in Target /\ r.cur.buf \in Buffer /\ Shows(r, r.cur) \in [Pixel -> Colour]
  BY Fields, ShowsType DEF Target
<1>3. new \in [Pixel -> Colour]
  BY <1>2 DEF Colour
<1>4. r' = [k EXCEPT !.mem[r.cur.buf][p] = Clear, !.cur.known = FALSE, !.cur.opaque = FALSE]
  BY DEF Punch
<1> HIDE DEF k
<1>5. k \in Renderer /\ k.cur \in Target
  BY <1>1, Fields DEF Repaints
<1>6. /\ t \in Target /\ t.buf = k.cur.buf /\ t.id = k.cur.id /\ t.fill = None
      /\ t.known = FALSE /\ t.empty = FALSE
  BY <1>1, <1>5 DEF Target
<1>7. r' = [k EXCEPT !.mem = m, !.cur = t]
  BY <1>1, <1>4, <1>5 DEF Renderer
<1> HIDE DEF new, t
<1>8. /\ m \in [Buffer -> [Pixel -> Colour]] /\ m[r.cur.buf] = new
      /\ \A b \in Buffer \ {r.cur.buf} : m[b] = k.mem[b]
  BY <1>2, <1>3, <1>5, Written
<1> HIDE DEF m
<1>9. /\ r' \in Renderer /\ r'.mem = m /\ r'.cur = t /\ r'.stack = k.stack /\ r'.base = k.base
      /\ r'.surf = k.surf /\ r'.app = k.app /\ r'.appOpaque = k.appOpaque
  BY <1>5, <1>6, <1>7, <1>8 DEF Renderer
<1>10. Repaints(r, r')
  BY <1>1, <1>6, <1>8, <1>9 DEF Repaints
<1> QED
  BY <1>6, <1>8, <1>9, <1>10 DEF new

\* A slot of the table and its pixels.
Replaces(n, rec, pixels) ==
  /\ r' \in Renderer /\ r'.cur = r.cur /\ r'.stack = r.stack /\ r'.base = r.base
  /\ r'.app = r.app /\ r'.appOpaque = r.appOpaque
  /\ \A b \in Buffer \ {n} : r'.mem[b] = r.mem[b]
  /\ \A i \in Id \ {n} : r'.surf[i] = r.surf[i]
  /\ r'.mem[n] = pixels /\ r'.surf[n] = rec

LEMMA Replacing ==
  ASSUME r \in Renderer, NEW n \in Id, NEW rec \in Surface, NEW pixels \in [Pixel -> Colour],
         r' = [r EXCEPT !.surf = [r.surf EXCEPT ![n] = rec], !.mem = [r.mem EXCEPT ![n] = pixels]]
  PROVE  Replaces(n, rec, pixels)
<1> DEFINE s == [r.surf EXCEPT ![n] = rec]
           m == [r.mem EXCEPT ![n] = pixels]
<1>1. n \in Buffer
  BY DEF Buffer
<1>2. /\ m \in [Buffer -> [Pixel -> Colour]] /\ m[n] = pixels
      /\ \A b \in Buffer \ {n} : m[b] = r.mem[b]
  BY <1>1, Written
<1>3. s \in [Id -> Surface] /\ s[n] = rec /\ \A i \in Id \ {n} : s[i] = r.surf[i]
  BY Fields
<1>4. r' = [r EXCEPT !.surf = s, !.mem = m]
  OBVIOUS
<1> HIDE DEF s, m
<1>5. /\ r' \in Renderer /\ r'.cur = r.cur /\ r'.stack = r.stack /\ r'.base = r.base
      /\ r'.app = r.app /\ r'.appOpaque = r.appOpaque /\ r'.mem = m /\ r'.surf = s
  BY <1>2, <1>3, <1>4 DEF Renderer
<1> QED
  BY <1>2, <1>3, <1>5 DEF Replaces

LEMMA CreateStep ==
  ASSUME r \in Renderer, NEW n \in Id, Create(n)
  PROVE  Replaces(n, [live |-> TRUE, known |-> TRUE, opaque |-> FALSE, empty |-> TRUE], All(Clear))
<1> DEFINE rec == [live |-> TRUE, known |-> TRUE, opaque |-> FALSE, empty |-> TRUE]
<1>1. rec \in Surface /\ All(Clear) \in [Pixel -> Colour]
  BY AllType DEF Surface, Colour
<1>2. r' = [r EXCEPT !.surf = [r.surf EXCEPT ![n] = rec], !.mem = [r.mem EXCEPT ![n] = All(Clear)]]
  BY DEF Create, Renderer
<1> HIDE DEF rec
<1>3. Replaces(n, rec, All(Clear))
  BY <1>1, <1>2, Replacing, Zenon
<1> QED
  BY <1>3 DEF rec

\* References to the pixels of a surface are all that its freeing or resizing changes of the targets.
LEMMA Dropping ==
  ASSUME r \in Renderer, NEW n \in Id
  PROVE  /\ Drop(r, n) \in Renderer /\ Drop(r, n).cur.id = r.cur.id
         /\ Len(Drop(r, n).stack) = Len(r.stack)
         /\ Drop(r, n).mem = r.mem /\ Drop(r, n).surf = r.surf
<1>1. n \in Buffer /\ Freed \in Buffer /\ r.cur \in Target
  BY Fields DEF Buffer
<1>2. /\ Move(r, n, Freed) \in Renderer /\ Len(Move(r, n, Freed).stack) = Len(r.stack)
      /\ Move(r, n, Freed).cur = Moved(r.cur, n, Freed)
      /\ Move(r, n, Freed).mem = r.mem /\ Move(r, n, Freed).surf = r.surf
  BY <1>1, MoveFields
<1>3. Moved(r.cur, n, Freed).id = r.cur.id
  BY <1>1, MovedFields
<1> QED
  BY <1>2, <1>3 DEF Drop

\* Without references nothing changes.
LEMMA NothingDropped ==
  ASSUME r \in Renderer, NEW n, n \notin Borrowed(r)
  PROVE  Drop(r, n) = r
<1> DEFINE s == [i \in DOMAIN r.stack |-> Moved(r.stack[i], n, Freed)]
<1>1. r.stack \in Seq(Target) /\ DOMAIN r.stack = 1..Len(r.stack)
  BY Fields
<1>2. r.stack = [i \in DOMAIN r.stack |-> r.stack[i]]
  <2>1. r.stack \in [1..Len(r.stack) -> Target]
    BY <1>1, LenProperties, SeqDef
  <2> QED
    BY <1>1, <2>1
<1>3. \A i \in DOMAIN r.stack : Moved(r.stack[i], n, Freed) = r.stack[i]
  BY DEF Moved, Borrowed
<1>4. s = r.stack
  BY <1>2, <1>3
<1>5. Moved(r.cur, n, Freed) = r.cur /\ r.base # n
  BY DEF Moved, Borrowed
<1>6. Drop(r, n) = [r EXCEPT !.cur = Moved(r.cur, n, Freed), !.base = r.base, !.stack = s]
  BY <1>5 DEF Drop, Move, Renderer
<1> HIDE DEF s
<1>7. Drop(r, n) = [r EXCEPT !.cur = r.cur, !.base = r.base, !.stack = r.stack]
  BY <1>4, <1>5, <1>6
<1> QED
  BY <1>7 DEF Renderer

\* Whether or not a target refers to the old pixels, the renderer stays one.
LEMMA DroppedShape ==
  ASSUME r \in Renderer, NEW n \in Id, NEW rec \in Surface, NEW pixels \in [Pixel -> Colour],
         r' = [Drop(r, n) EXCEPT !.surf = [r.surf EXCEPT ![n] = rec],
                                 !.mem = [r.mem EXCEPT ![n] = pixels]]
  PROVE  r' \in Renderer /\ r'.cur.id = r.cur.id /\ Len(r'.stack) = Len(r.stack)
<1> DEFINE g == Drop(r, n)
           s == [r.surf EXCEPT ![n] = rec]
           m == [r.mem EXCEPT ![n] = pixels]
<1>1. g \in Renderer /\ g.cur.id = r.cur.id /\ Len(g.stack) = Len(r.stack)
  BY Dropping
<1>2. m \in [Buffer -> [Pixel -> Colour]]
  BY Written DEF Buffer
<1>3. s \in [Id -> Surface]
  BY Fields
<1>4. r' = [g EXCEPT !.surf = s, !.mem = m]
  OBVIOUS
<1> HIDE DEF g, s, m
<1>5. r' \in Renderer /\ r'.cur = g.cur /\ r'.stack = g.stack
  BY <1>1, <1>2, <1>3, <1>4 DEF Renderer
<1> QED
  BY <1>1, <1>5

LEMMA FreeShape ==
  ASSUME r \in Renderer, NEW n \in Id, Free(n)
  PROVE  r' \in Renderer /\ r'.cur.id = r.cur.id /\ Len(r'.stack) = Len(r.stack)
<1>1. NoSurface \in Surface /\ All(Clear) \in [Pixel -> Colour]
  BY AllType DEF Surface, Colour, NoSurface
<1>2. Drop(r, n) \in Renderer /\ Drop(r, n).mem = r.mem /\ Drop(r, n).surf = r.surf
  BY Dropping
<1>3. r' = [Drop(r, n) EXCEPT !.surf = [Drop(r, n).surf EXCEPT ![n] = NoSurface],
                              !.mem = [Drop(r, n).mem EXCEPT ![n] = All(Clear)]]
  BY <1>2 DEF Free, Renderer
<1> QED
  BY <1>1, <1>2, <1>3, DroppedShape

LEMMA ResizeShape ==
  ASSUME r \in Renderer, NEW n \in Id, NEW part \in SUBSET Pixel, Resize(n, part)
  PROVE  r' \in Renderer /\ r'.cur.id = r.cur.id /\ Len(r'.stack) = Len(r.stack)
<1> DEFINE rec == [live |-> TRUE, known |-> FALSE, opaque |-> FALSE, empty |-> r.surf[n].empty]
           new == Kept(r.mem[n], part)
<1>1. r.mem[n] \in [Pixel -> Colour] /\ r.surf[n] \in Surface
  BY Fields DEF Buffer
<1>2. new \in [Pixel -> Colour]
  BY <1>1 DEF Kept, Colour
<1>3. rec \in Surface
  BY <1>1 DEF Surface
<1>4. Drop(r, n) \in Renderer /\ Drop(r, n).mem = r.mem /\ Drop(r, n).surf = r.surf
  BY Dropping
<1>5. r' = [Drop(r, n) EXCEPT !.surf = [Drop(r, n).surf EXCEPT ![n] = rec],
                              !.mem = [Drop(r, n).mem EXCEPT ![n] = new]]
  BY <1>4 DEF Resize, Renderer
<1> HIDE DEF rec, new
<1> QED
  BY <1>2, <1>3, <1>4, <1>5, DroppedShape

LEMMA FreeStep ==
  ASSUME r \in Renderer, NEW n \in Id, Free(n), n \notin Borrowed(r)
  PROVE  Replaces(n, NoSurface, All(Clear))
<1>1. NoSurface \in Surface /\ All(Clear) \in [Pixel -> Colour]
  BY AllType DEF Surface, Colour, NoSurface
<1>2. r' = [r EXCEPT !.surf = [r.surf EXCEPT ![n] = NoSurface], !.mem = [r.mem EXCEPT ![n] = All(Clear)]]
  BY NothingDropped DEF Free, Renderer
<1> QED
  BY <1>1, <1>2, Replacing, Zenon

LEMMA KeptType ==
  ASSUME NEW f \in [Pixel -> Colour], NEW part \in SUBSET Pixel
  PROVE  Kept(f, part) \in [Pixel -> Colour]
BY DEF Kept, Colour

LEMMA ResizeStep ==
  ASSUME r \in Renderer, NEW n \in Id, NEW part \in SUBSET Pixel, Resize(n, part),
         n \notin Borrowed(r)
  PROVE  Replaces(n, [live |-> TRUE, known |-> FALSE, opaque |-> FALSE, empty |-> r.surf[n].empty],
                  Kept(r.mem[n], part))
<1> DEFINE rec == [live |-> TRUE, known |-> FALSE, opaque |-> FALSE, empty |-> r.surf[n].empty]
           new == Kept(r.mem[n], part)
<1>1. r.mem[n] \in [Pixel -> Colour] /\ r.surf[n] \in Surface
  BY Fields DEF Buffer
<1>2. new \in [Pixel -> Colour]
  BY <1>1, KeptType
<1>3. rec \in Surface
  BY <1>1 DEF Surface
<1>4. r' = [r EXCEPT !.surf = [r.surf EXCEPT ![n] = rec], !.mem = [r.mem EXCEPT ![n] = new]]
  <2>1. Drop(r, n) = r
    BY NothingDropped
  <2>2. r' = [Drop(r, n) EXCEPT !.mem[n] = Kept(@, part),
                !.surf[n] = [live |-> TRUE, known |-> FALSE, opaque |-> FALSE, empty |-> @.empty]]
    BY DEF Resize
  <2>3. r' = [r EXCEPT !.mem[n] = Kept(@, part),
                !.surf[n] = [live |-> TRUE, known |-> FALSE, opaque |-> FALSE, empty |-> @.empty]]
    BY <2>1, <2>2
  <2> QED
    BY <2>3 DEF Renderer
<1> HIDE DEF rec, new
<1>5. Replaces(n, rec, new)
  BY <1>2, <1>3, <1>4, Replacing, Zenon
<1> QED
  BY <1>5 DEF rec, new

\* What a copy leaves, from the renderer `ready` in which the pixels are read.
LEMMA CopyStep ==
  ASSUME r \in Renderer, NEW d \in Name, NEW s \in Name, NEW part \in SUBSET Pixel,
         SurfaceCopy(d, s, part)
  PROVE  LET q == Read(Read(r, s), d)
             k == Read(Read(PrepareDraw(q), s), d)
             ready == IF Involved(q, d, s) THEN k ELSE q
         IN /\ q \in Renderer /\ PrepareDraw(q) \in Renderer
            /\ Read(PrepareDraw(q), s) \in Renderer /\ k \in Renderer
            /\ CopyPixels(ready, d, s, part) \in Renderer
            /\ r' \in Renderer /\ r' = Forget(CopyPixels(ready, d, s, part), d)
<1>1. ASSUME NEW g \in Renderer, NEW n \in Name PROVE Read(g, n) \in Renderer
  BY <1>1, BufferOfType, RealiseFields, Zenon DEF Read
<1> DEFINE q == Read(Read(r, s), d)
           w == PrepareDraw(q)
           k == Read(Read(w, s), d)
           ready == IF Involved(q, d, s) THEN k ELSE q
<1>2. q \in Renderer
  <2>1. Read(r, s) \in Renderer
    BY <1>1
  <2> QED
    BY <1>1, <2>1
<1> HIDE DEF q
<1>3. w \in Renderer
  BY <1>2, PrepareDrawFields DEF Repaints
<1> HIDE DEF w
<1>4. Read(w, s) \in Renderer /\ k \in Renderer
  <2>1. Read(w, s) \in Renderer
    BY <1>1, <1>3
  <2> QED
    BY <1>1, <2>1
<1> HIDE DEF k
<1>5. ready \in Renderer
  BY <1>2, <1>4
<1> HIDE DEF ready
<1>6. CopyPixels(ready, d, s, part) \in Renderer
  BY <1>5, CopyFields
<1>7. Forget(CopyPixels(ready, d, s, part), d) \in Renderer
  BY <1>6, ForgetFields, Zenon
<1>8. r' = Forget(CopyPixels(ready, d, s, part), d)
  BY Zenon DEF SurfaceCopy, Copied, q, w, k, ready
<1> QED
  BY <1>2, <1>3, <1>4, <1>6, <1>7, <1>8 DEF q, w, k, ready

\* Surface 0 resized: every reference moved, the new pixels and the old ones.
LEMMA ZeroStep ==
  ASSUME r \in Renderer, NEW new \in Plane, NEW part \in SUBSET Pixel, ResizeZero(new, part)
  PROVE  /\ r' \in Renderer /\ r'.app = new /\ r'.appOpaque = FALSE /\ r'.surf = r.surf
         /\ r'.cur = Moved(r.cur, r.app, new)
         /\ r'.base = IF r.base = r.app THEN new ELSE r.base
         /\ Len(r'.stack) = Len(r.stack)
         /\ \A i \in 1..Len(r.stack) : r'.stack[i] = Moved(r.stack[i], r.app, new)
         /\ r'.mem[new] = Kept(r.mem[r.app], part)
         /\ \A b \in Buffer \ {new, r.app} : r'.mem[b] = r.mem[b]
<1> DEFINE k == Move(r, r.app, new)
           m == [r.mem EXCEPT ![new] = Kept(r.mem[r.app], part), ![r.app] = All(Clear)]
<1>1. r.app \in Buffer /\ new \in Buffer /\ r.mem \in [Buffer -> [Pixel -> Colour]] /\ new # r.app
  BY Fields DEF Buffer, ResizeZero
<1>2. /\ k \in Renderer /\ k.mem = r.mem /\ k.surf = r.surf /\ k.app = r.app
      /\ k.cur = Moved(r.cur, r.app, new) /\ k.base = IF r.base = r.app THEN new ELSE r.base
      /\ Len(k.stack) = Len(r.stack)
      /\ \A i \in 1..Len(r.stack) : k.stack[i] = Moved(r.stack[i], r.app, new)
  BY <1>1, MoveFields
<1>3. Kept(r.mem[r.app], part) \in [Pixel -> Colour] /\ All(Clear) \in [Pixel -> Colour]
  BY <1>1, KeptType, AllType DEF Colour
<1>4. /\ m \in [Buffer -> [Pixel -> Colour]] /\ m[new] = Kept(r.mem[r.app], part)
      /\ \A b \in Buffer \ {new, r.app} : m[b] = r.mem[b]
  BY <1>1, <1>3
<1>5. r' = [k EXCEPT !.mem = [@ EXCEPT ![new] = Kept(r.mem[r.app], part), ![r.app] = All(Clear)],
                     !.app = new, !.appOpaque = FALSE]
  BY DEF ResizeZero
<1> HIDE DEF k
<1>6. r' = [k EXCEPT !.mem = m, !.app = new, !.appOpaque = FALSE]
  BY <1>2, <1>5 DEF Renderer
<1> HIDE DEF m
<1>7. /\ r' \in Renderer /\ r'.mem = m /\ r'.app = new /\ r'.appOpaque = FALSE
      /\ r'.cur = k.cur /\ r'.base = k.base /\ r'.stack = k.stack /\ r'.surf = k.surf
  BY <1>2, <1>4, <1>6 DEF Renderer
<1> QED
  BY <1>2, <1>4, <1>7

LEMMA BeginStep ==
  ASSUME r \in Renderer, NEW b \in {Screen, r.app}, Begin(b)
  PROVE  /\ r' \in Renderer /\ r'.cur = Fresh(b) /\ r'.base = b /\ r'.stack = << >>
         /\ r'.mem = r.mem /\ r'.surf = r.surf /\ r'.app = r.app /\ r'.appOpaque = r.appOpaque
<1>1. b \in Buffer /\ Fresh(b) \in Target
  BY Fields, FreshType DEF Buffer
<1>2. r' = [r EXCEPT !.cur = Fresh(b), !.base = b, !.stack = << >>]
  BY DEF Begin
<1>3. << >> \in Seq(Target)
  BY EmptySeq
<1> QED
  BY <1>1, <1>2, <1>3 DEF Renderer

LEMMA RetainStep ==
  ASSUME r \in Renderer, NEW b \in {Screen, r.app}, NEW next, BeginRetaining(b, next)
  PROVE  /\ r' \in Renderer /\ r'.base = b
         /\ r'.mem = r.mem /\ r'.surf = r.surf /\ r'.app = r.app /\ r'.appOpaque = r.appOpaque
         /\ r.cur.id \in Names(r) =>
              /\ r'.cur = [r.cur EXCEPT !.fill = None] /\ Len(r'.stack) = Len(r.stack)
              /\ \A i \in 1..Len(r.stack) :
                   r'.stack[i] = IF i = 1 THEN Fresh(b) ELSE r.stack[i]
         /\ r.cur.id \notin Names(r) => r'.cur = Fresh(b) /\ r'.stack = << >>
<1>1. b \in Buffer /\ Fresh(b) \in Target
  BY Fields, FreshType DEF Buffer
<1>2. CASE r.cur.id \notin Names(r)
  <2>1. r' = [r EXCEPT !.base = b, !.cur = Fresh(b), !.stack = << >>]
    BY <1>2 DEF BeginRetaining
  <2>2. << >> \in Seq(Target)
    BY EmptySeq
  <2>3. /\ r' \in Renderer /\ r'.base = b /\ r'.cur = Fresh(b) /\ r'.stack = << >>
        /\ r'.mem = r.mem /\ r'.surf = r.surf /\ r'.app = r.app /\ r'.appOpaque = r.appOpaque
    BY <1>1, <2>1, <2>2 DEF Renderer
  <2> QED
    BY <1>2, <2>3
<1>3. CASE r.cur.id \in Names(r)
  <2> DEFINE s == [r.stack EXCEPT ![1] = Fresh(b)]
             t == [r.cur EXCEPT !.fill = None]
  <2>1. t \in Target
    BY Fields DEF Target
  <2>2. r.stack \in Seq(Target) /\ 1 \in 1..Len(r.stack)
    BY Fields DEF BeginRetaining
  <2>3. /\ s \in Seq(Target) /\ Len(s) = Len(r.stack)
        /\ \A j \in 1..Len(r.stack) : s[j] = IF j = 1 THEN Fresh(b) ELSE r.stack[j]
    BY <1>1, <2>2, ExceptSeq
  <2>4. r' = [r EXCEPT !.base = b, !.stack = s, !.cur = t]
    BY <1>3 DEF BeginRetaining, Renderer
  <2> HIDE DEF s, t
  <2>5. /\ r' \in Renderer /\ r'.base = b /\ r'.cur = t /\ r'.stack = s
        /\ r'.mem = r.mem /\ r'.surf = r.surf /\ r'.app = r.app /\ r'.appOpaque = r.appOpaque
    BY <1>1, <2>1, <2>3, <2>4 DEF Renderer
  <2> QED
    BY <1>3, <2>3, <2>5 DEF t
<1> QED
  BY <1>2, <1>3

LEMMA EndStep ==
  ASSUME r \in Renderer, EndPass
  PROVE  /\ r' \in Renderer
         /\ r'.mem = Flush(r).mem /\ r'.cur = Flush(r).cur /\ r'.stack = r.stack
         /\ r'.base = r.base /\ r'.surf = r.surf /\ r'.app = r.app
         /\ r.base = r.app /\ ~(classic /\ r.stack # << >>) =>
              r'.appOpaque = (Flush(r).cur.known /\ Flush(r).cur.opaque)
         /\ ~(r.base = r.app /\ ~(classic /\ r.stack # << >>)) => r'.appOpaque = r.appOpaque
<1> DEFINE f == Flush(r)
           v == f.cur.known /\ f.cur.opaque
<1>1. Repaints(r, f)
  BY FlushFields, Zenon
<1>2. r' = IF f.base = f.app /\ ~(classic /\ f.stack # << >>)
           THEN [f EXCEPT !.appOpaque = v] ELSE f
  BY DEF EndPass
<1> HIDE DEF f
<1>3. f \in Renderer /\ f.cur \in Target
  BY <1>1, Fields DEF Repaints
<1>4. v \in BOOLEAN
  BY <1>3, Zenon DEF Target
<1> HIDE DEF v
<1>5. [f EXCEPT !.appOpaque = v] \in Renderer
  BY <1>3, <1>4 DEF Renderer
<1>6. /\ [f EXCEPT !.appOpaque = v].mem = f.mem /\ [f EXCEPT !.appOpaque = v].cur = f.cur
      /\ [f EXCEPT !.appOpaque = v].stack = f.stack /\ [f EXCEPT !.appOpaque = v].base = f.base
      /\ [f EXCEPT !.appOpaque = v].surf = f.surf /\ [f EXCEPT !.appOpaque = v].app = f.app
      /\ [f EXCEPT !.appOpaque = v].appOpaque = v
  BY <1>3 DEF Renderer
<1> QED
  BY <1>1, <1>2, <1>3, <1>5, <1>6 DEF Repaints, f, v

-----------------------------------------------------------------------------
(* RenderTargets: types, and the bound of the stack.                        *)

\* A classic program's one target is on top of the pass's.
Shallow(g, k) ==
  /\ Len(g.stack) <= (IF k THEN 1 ELSE Depth)
  /\ k /\ Len(g.stack) # 0 => g.cur.id # NoSurfaceId

TargetsIInv == TargetsTypeOK /\ Shallow(r, classic)

LEMMA TypeOfRenderer == TargetsTypeOK => r \in Renderer
BY DEF TargetsTypeOK, Renderer

LEMMA Uses == ASSUME TargetsTypeOK PROVE uses \subseteq Name /\ uses \ {Application} \subseteq Id
BY TargetsAssumption DEF TargetsTypeOK, Name

LEMMA FlatStays ==
  ASSUME NEW g, NEW h, NEW k, Shallow(g, k), Repaints(g, h)
  PROVE  Shallow(h, k)
BY DEF Shallow, Repaints

\* Whatever the step does: the renderer it leaves is one, and its stack is in bounds.
LEMMA ShapeStep ==
  ASSUME TargetsIInv, TargetsNext
  PROVE  r' \in Renderer /\ Shallow(r', classic)
<1> SUFFICES r' \in Renderer /\ Shallow(r', classic)
  OBVIOUS
<1>0. r \in Renderer /\ Shallow(r, classic) /\ classic \in BOOLEAN
  BY TypeOfRenderer DEF TargetsIInv, TargetsTypeOK
<1>u. uses \subseteq Name /\ uses \ {Application} \subseteq Id
  BY Uses DEF TargetsIInv
<1>f. Len(r.stack) \in Nat /\ Depth \in Nat
  BY <1>0, Fields, TargetsAssumption
<1>p. ASSUME Repaints(r, r') PROVE r' \in Renderer /\ Shallow(r', classic)
  <2>1. r' \in Renderer
    BY <1>p DEF Repaints
  <2>2. Shallow(r', classic)
    BY <1>0, <1>p DEF Shallow, Repaints
  <2> QED
    BY <2>1, <2>2
<1>s. ASSUME NEW n, NEW rec, NEW pixels, Replaces(n, rec, pixels) PROVE r' \in Renderer /\ Shallow(r', classic)
  BY <1>0, <1>s DEF Shallow, Replaces
<1>1. ASSUME NEW n \in uses, Bind(n) PROVE r' \in Renderer /\ Shallow(r', classic)
  <2> DEFINE q == Read(r, n)
             z == ResetTarget(q)
             y == Read(z, n)
  <2>0. n \in Name
    BY <1>u
  <2>1. /\ q \in Renderer /\ z \in Renderer /\ y \in Renderer
        /\ Len(q.stack) >= Depth => r' = q
        /\ Len(q.stack) < Depth /\ classic /\ q.cur.id # NoSurfaceId => r' = Push(y, n)
        /\ Len(q.stack) < Depth /\ ~(classic /\ q.cur.id # NoSurfaceId) => r' = Push(q, n)
    BY <1>0, <1>1, <2>0, BindStep
  <2>2. Len(q.stack) = Len(r.stack) /\ q.cur = r.cur
    <3>1. BufferOf(r, n) \in Buffer
      BY <1>0, <2>0, BufferOfType
    <3>2. /\ Realise(r, BufferOf(r, n)) = [r EXCEPT !.mem = Realise(r, BufferOf(r, n)).mem,
                                              !.stack = Realise(r, BufferOf(r, n)).stack]
          /\ Len(Realise(r, BufferOf(r, n)).stack) = Len(r.stack)
      BY <1>0, <3>1, RealiseFields, Zenon
    <3> QED
      BY <1>0, <3>2 DEF Read, Renderer
  <2>3. /\ Len(r.stack) # 0 => Len(z.stack) = Len(r.stack) - 1
        /\ Len(r.stack) = 0 => Len(z.stack) = 0
    <3>1. /\ q.stack = << >> => z.stack = << >>
          /\ q.stack # << >> => Len(z.stack) = Len(q.stack) - 1
      BY <2>1, ResetFields
    <3>2. /\ q.stack = << >> <=> Len(q.stack) = 0
          /\ z.stack = << >> <=> Len(z.stack) = 0
      BY <2>1, Fields
    <3> QED
      BY <2>2, <3>1, <3>2
  <2>4. Len(y.stack) = Len(z.stack)
    BY <2>0, <2>1, BufferOfType, RealiseFields, Zenon DEF Read
  <2>5. n # NoSurfaceId
    BY <2>0, TargetsAssumption DEF Name, Application, NoSurfaceId
  <2> HIDE DEF q, z, y
  <2>6. CASE Len(q.stack) >= Depth
    BY <1>0, <2>1, <2>2, <2>6 DEF Shallow
  <2>7. CASE Len(q.stack) < Depth /\ classic /\ q.cur.id # NoSurfaceId
    <3>1. r' = Push(y, n)
      BY <2>1, <2>7
    <3>2. Push(y, n) \in Renderer /\ Len(Push(y, n).stack) = Len(y.stack) + 1 /\ Push(y, n).cur = Bound(y, n)
      BY <2>0, <2>1, PushFields
    <3>3. Bound(y, n).id = n
      BY <2>0, <2>1, BoundFields
    <3>4. Len(r.stack) <= 1
      BY <1>0, <2>7 DEF Shallow
    <3>5. Len(y.stack) = 0
      BY <1>f, <2>3, <2>4, <3>4
    <3> QED
      BY <2>5, <2>7, <3>1, <3>2, <3>3, <3>5 DEF Shallow
  <2>8. CASE Len(q.stack) < Depth /\ ~(classic /\ q.cur.id # NoSurfaceId)
    <3>1. r' = Push(q, n)
      BY <2>1, <2>8
    <3>2. Push(q, n) \in Renderer /\ Len(Push(q, n).stack) = Len(q.stack) + 1 /\ Push(q, n).cur = Bound(q, n)
      BY <2>0, <2>1, PushFields
    <3>3. Bound(q, n).id = n
      BY <2>0, <2>1, BoundFields
    <3>4. classic => Len(q.stack) = 0
      BY <1>0, <2>2, <2>8 DEF Shallow
    <3> QED
      BY <1>f, <2>2, <2>5, <2>8, <3>1, <3>2, <3>3, <3>4 DEF Shallow
  <2> QED
    BY <1>f, <2>2, <2>6, <2>7, <2>8
<1>2. ASSUME NEW n \in uses, DrawSurface(n) PROVE r' \in Renderer /\ Shallow(r', classic)
  <2> DEFINE q == Read(r, n)
  <2>0. n \in Name /\ BufferOf(r, n) \in Buffer
    BY <1>0, <1>u, BufferOfType
  <2>1. q \in Renderer /\ Len(q.stack) = Len(r.stack) /\ q.cur = r.cur
    <3>1. /\ Realise(r, BufferOf(r, n)) = [r EXCEPT !.mem = Realise(r, BufferOf(r, n)).mem,
                                              !.stack = Realise(r, BufferOf(r, n)).stack]
          /\ Len(Realise(r, BufferOf(r, n)).stack) = Len(r.stack)
          /\ Realise(r, BufferOf(r, n)) \in Renderer
      BY <1>0, <2>0, RealiseFields, Zenon
    <3> QED
      BY <1>0, <3>1 DEF Read, Renderer
  <2>2. r' = Composite(q, n)
    BY <1>2 DEF DrawSurface
  <2> HIDE DEF q
  <2>3. Repaints(q, r')
    BY <2>0, <2>1, <2>2, CompositeFields
  <2> QED
    BY <1>0, <2>1, <2>3 DEF Repaints, Shallow
<1>3. CASE Unbind
  <2>1. r' = ResetTarget(r)
    BY <1>3 DEF Unbind
  <2>2. r' \in Renderer /\ (r.stack = << >> => r'.stack = << >>)
        /\ (r.stack # << >> => Len(r'.stack) = Len(r.stack) - 1)
    BY <1>0, <2>1, ResetFields
  <2>3. r.stack = << >> <=> Len(r.stack) = 0
    BY <1>0, Fields
  <2>4. Len(<< >>) = 0
    BY EmptySeq
  <2>5. Len(r'.stack) = 0 \/ Len(r'.stack) = Len(r.stack) - 1
    BY <2>2, <2>4
  <2>6. CASE classic
    BY <1>0, <1>f, <2>2, <2>3, <2>4, <2>5, <2>6 DEF Shallow
  <2>7. CASE ~classic
    BY <1>0, <1>f, <2>2, <2>3, <2>4, <2>5, <2>7 DEF Shallow
  <2> QED
    BY <2>6, <2>7
<1>4. CASE DrawRect
  BY <1>0, <1>4, <1>p, RectStep
<1>5. CASE EndPass
  <2>1. r' \in Renderer /\ r'.stack = r.stack /\ r'.cur = Flush(r).cur
    BY <1>0, <1>5, EndStep
  <2>2. Flush(r).cur.id = r.cur.id
    BY <1>0, FlushFields, Zenon DEF Repaints
  <2> QED
    BY <1>0, <2>1, <2>2 DEF Shallow
<1>6. ASSUME NEW c \in Colour, ClearTarget(c) PROVE r' \in Renderer /\ Shallow(r', classic)
  BY <1>0, <1>6, <1>p, ClearStep
<1>7. ASSUME NEW p \in Pixel, DrawPixel(p) PROVE r' \in Renderer /\ Shallow(r', classic)
  BY <1>0, <1>7, <1>p, PixelStep
<1>8. ASSUME NEW p \in Pixel, Punch(p) PROVE r' \in Renderer /\ Shallow(r', classic)
  BY <1>0, <1>8, <1>p, PunchStep
<1>9. ASSUME NEW d \in uses, NEW s \in uses, NEW part \in SUBSET Pixel, SurfaceCopy(d, s, part)
      PROVE  r' \in Renderer /\ Shallow(r', classic)
  <2>0. d \in Name /\ s \in Name
    BY <1>u
  <2> DEFINE q == Read(Read(r, s), d)
             w == PrepareDraw(q)
             k == Read(Read(w, s), d)
             ready == IF Involved(q, d, s) THEN k ELSE q
  <2>1. /\ q \in Renderer /\ w \in Renderer /\ Read(w, s) \in Renderer /\ k \in Renderer
        /\ CopyPixels(ready, d, s, part) \in Renderer
        /\ r' \in Renderer /\ r' = Forget(CopyPixels(ready, d, s, part), d)
    BY <1>0, <1>9, <2>0, CopyStep
  <2>2. ASSUME NEW g \in Renderer, NEW n \in Name
        PROVE  Read(g, n) \in Renderer /\ Len(Read(g, n).stack) = Len(g.stack) /\ Read(g, n).cur = g.cur
    <3>1. BufferOf(g, n) \in Buffer
      BY <2>2, BufferOfType
    <3>2. /\ Realise(g, BufferOf(g, n)) = [g EXCEPT !.mem = Realise(g, BufferOf(g, n)).mem,
                                              !.stack = Realise(g, BufferOf(g, n)).stack]
          /\ Len(Realise(g, BufferOf(g, n)).stack) = Len(g.stack)
          /\ Realise(g, BufferOf(g, n)) \in Renderer
      BY <2>2, <3>1, RealiseFields, Zenon
    <3> QED
      BY <2>2, <3>2 DEF Read, Renderer
  <2>3. Len(q.stack) = Len(r.stack) /\ q.cur = r.cur
    BY <1>0, <2>0, <2>2
  <2> HIDE DEF q
  <2>4. w.stack = q.stack /\ w.cur.id = q.cur.id
    BY <2>1, PrepareDrawFields DEF Repaints
  <2> HIDE DEF w
  <2>5. Len(k.stack) = Len(w.stack) /\ k.cur = w.cur
    BY <2>0, <2>1, <2>2
  <2> HIDE DEF k
  <2>6. ready \in Renderer /\ Len(ready.stack) = Len(r.stack) /\ ready.cur.id = r.cur.id
    BY <2>1, <2>3, <2>4, <2>5
  <2> HIDE DEF ready
  <2>7. /\ CopyPixels(ready, d, s, part).stack = ready.stack
        /\ CopyPixels(ready, d, s, part).cur = ready.cur
    <3>1. ready \in Renderer
      BY <2>6
    <3>2. d \in Name
      BY <2>0
    <3>3. s \in Name
      BY <2>0
    <3> QED
      BY <3>1, <3>2, <3>3, CopyKeeps
  <2> DEFINE y == CopyPixels(ready, d, s, part)
  <2>8. y \in Renderer /\ y.stack = ready.stack /\ y.cur = ready.cur /\ r' = Forget(y, d)
    BY <2>1, <2>7
  <2> HIDE DEF y
  <2>9. /\ r'.stack = y.stack
        /\ r'.cur = IF y.cur.id = d THEN [y.cur EXCEPT !.known = FALSE, !.opaque = FALSE, !.empty = FALSE]
                    ELSE y.cur
    BY <2>0, <2>8, ForgetFields, Zenon
  <2>10. r'.cur.id = r.cur.id
    BY <2>6, <2>8, <2>9, Fields DEF Target
  <2> QED
    BY <1>0, <2>1, <2>6, <2>8, <2>9, <2>10 DEF Shallow
<1>10. ASSUME NEW n \in uses \ {Application}, Create(n) \/ Free(n) PROVE r' \in Renderer /\ Shallow(r', classic)
  <2>1. CASE Create(n)
    BY <1>0, <1>u, <2>1, <1>s, CreateStep
  <2>2. CASE Free(n)
    BY <1>0, <1>u, <2>2, FreeShape DEF Shallow
  <2> QED
    BY <1>10, <2>1, <2>2
<1>11. ASSUME NEW n \in uses \ {Application}, NEW part \in SUBSET Pixel, Resize(n, part)
       PROVE  r' \in Renderer /\ Shallow(r', classic)
  BY <1>0, <1>u, <1>11, ResizeShape DEF Shallow
<1>12. ASSUME NEW new \in Plane, NEW part \in SUBSET Pixel, ResizeZero(new, part)
       PROVE  r' \in Renderer /\ Shallow(r', classic)
  <2>1. r' \in Renderer /\ Len(r'.stack) = Len(r.stack) /\ r'.cur = Moved(r.cur, r.app, new)
    BY <1>0, <1>12, ZeroStep
  <2>2. r.cur \in Target /\ r.app \in Buffer /\ new \in Buffer
    BY <1>0, Fields DEF Buffer
  <2>3. r'.cur.id = r.cur.id
    BY <2>1, <2>2, MovedFields
  <2> QED
    BY <1>0, <2>1, <2>3 DEF Shallow
<1>13. ASSUME NEW b \in {Screen, r.app}, Begin(b) PROVE r' \in Renderer /\ Shallow(r', classic)
  <2>1. r' \in Renderer /\ r'.stack = << >>
    BY <1>0, <1>13, BeginStep
  <2>2. Len(<< >>) = 0
    BY EmptySeq
  <2> QED
    BY <1>f, <2>1, <2>2 DEF Shallow
<1>14. ASSUME NEW b \in {Screen, r.app}, NEW next \in {"step", "pass"}, BeginRetaining(b, next)
       PROVE  r' \in Renderer /\ Shallow(r', classic)
  <2>1. /\ r' \in Renderer
        /\ r.cur.id \in Names(r) => /\ r'.cur = [r.cur EXCEPT !.fill = None]
                                    /\ Len(r'.stack) = Len(r.stack)
        /\ r.cur.id \notin Names(r) => r'.stack = << >>
    BY <1>0, <1>14, RetainStep
  <2>2. Len(<< >>) = 0
    BY EmptySeq
  <2>3. CASE r.cur.id \in Names(r)
    <3>1. r'.cur.id = r.cur.id
      BY <1>0, <2>1, <2>3, Fields DEF Target
    <3> QED
      BY <1>0, <2>1, <2>3, <3>1 DEF Shallow
  <2>4. CASE r.cur.id \notin Names(r)
    BY <1>f, <2>1, <2>2, <2>4 DEF Shallow
  <2> QED
    BY <2>1, <2>3, <2>4
<1> QED
  BY <1>1, <1>2, <1>3, <1>4, <1>5, <1>6, <1>7, <1>8, <1>9, <1>10, <1>11, <1>12, <1>13, <1>14
     DEF TargetsNext

LEMMA TargetsTypeStep ==
  ASSUME TargetsIInv, [TargetsNext]_targetVars
  PROVE  TargetsIInv'
<1>1. CASE UNCHANGED targetVars
  BY <1>1 DEF targetVars, TargetsIInv, TargetsTypeOK, Shallow
<1>2. CASE TargetsNext
  <2>1. r' \in Renderer /\ Shallow(r', classic)
    BY <1>2, ShapeStep
  <2>2. UNCHANGED <<classic, uses>>
    BY <1>2, Zenon DEF TargetsNext, Bind, DrawSurface, Unbind, DrawRect, EndPass, ClearTarget, DrawPixel,
         Punch, SurfaceCopy, Create, Free, Resize, ResizeZero, Begin, BeginRetaining, Called
  <2>3. phase' \in {"step", "pass"}
    BY <1>2, Zenon DEF TargetsNext, Bind, DrawSurface, Unbind, DrawRect, EndPass, ClearTarget, DrawPixel,
         Punch, SurfaceCopy, Create, Free, Resize, ResizeZero, Begin, BeginRetaining,
         TargetsIInv, TargetsTypeOK
  <2> QED
    BY <2>1, <2>2, <2>3 DEF TargetsIInv, TargetsTypeOK, Renderer, Shallow
<1> QED
  BY <1>1, <1>2

LEMMA TargetsTypeInit == TargetsInit => TargetsIInv
<1> SUFFICES ASSUME TargetsInit PROVE TargetsIInv
  OBVIOUS
<1>1. PICK view \in Plane :
        r = [mem |-> [b \in Buffer |-> All(Clear)], cur |-> Fresh(view),
             base |-> view, stack |-> << >>, surf |-> [i \in Id |-> NoSurface],
             app |-> view, appOpaque |-> FALSE]
  BY DEF TargetsInit
<1>2. view \in Buffer /\ Fresh(view) \in Target /\ NoSurface \in Surface /\ All(Clear) \in [Pixel -> Colour]
  BY FreshType, AllType DEF Buffer, NoSurface, Surface, Colour
<1>3. << >> \in Seq(Target) /\ Len(<< >>) = 0
  BY EmptySeq
<1>4. r \in Renderer /\ r.stack = << >>
  BY <1>1, <1>2, <1>3 DEF Renderer
<1>5. Depth \in Nat
  BY TargetsAssumption
<1> QED
  BY <1>3, <1>4, <1>5 DEF TargetsInit, TargetsIInv, TargetsTypeOK, Shallow, Renderer

\* Whatever a program does, also what the code gets wrong, every buffer and flag
\* lives in range, no more than GML_SURFACE_STACK targets are suspended, and a
\* classic program has one.
THEOREM TargetsTyping == TargetsSpec => []TargetsTypeOK
<1>1. TargetsIInv /\ [TargetsNext]_targetVars => TargetsIInv'
  BY TargetsTypeStep
<1>2. TargetsIInv => TargetsTypeOK
  BY DEF TargetsIInv
<1> QED
  BY <1>1, <1>2, TargetsTypeInit, PTL DEF TargetsSpec

-----------------------------------------------------------------------------
(* RenderTargets: no target refers to pixels that are gone.                 *)

\* Pixels that exist: the screen's, surface 0's and those of the table.
Valid(g) == {Screen, g.app} \union {n \in Id : g.surf[n].live}

Coherent(g) ==
  /\ g.cur.buf \in Valid(g) /\ g.base \in Valid(g)
  /\ \A i \in 1..Len(g.stack) : g.stack[i].buf \in Valid(g)

LEMMA CoherentIs ==
  ASSUME r \in Renderer
  PROVE  BorrowedIsCoherent <=> Coherent(r)
<1>1. DOMAIN r.stack = 1..Len(r.stack)
  BY Fields
<1> QED
  BY <1>1 DEF BorrowedIsCoherent, Borrowed, Coherent, Valid

LEMMA CoherentRepaint ==
  ASSUME NEW g, NEW h, Coherent(g), Repaints(g, h)
  PROVE  Coherent(h)
BY DEF Coherent, Repaints, Valid

LEMMA ReadFrame ==
  ASSUME NEW g \in Renderer, NEW n \in Name
  PROVE  /\ Read(g, n) \in Renderer /\ Read(g, n).cur = g.cur /\ Read(g, n).base = g.base
         /\ Read(g, n).surf = g.surf /\ Read(g, n).app = g.app
         /\ Read(g, n).appOpaque = g.appOpaque
         /\ Len(Read(g, n).stack) = Len(g.stack)
         /\ \A i \in 1..Len(g.stack) : /\ Read(g, n).stack[i].buf = g.stack[i].buf
                                       /\ Read(g, n).stack[i].id = g.stack[i].id
<1> DEFINE b == BufferOf(g, n)
           h == Realise(g, b)
<1>1. b \in Buffer
  BY BufferOfType
<1>2. /\ h = [g EXCEPT !.mem = h.mem, !.stack = h.stack] /\ h \in Renderer
      /\ Len(h.stack) = Len(g.stack)
      /\ \A i \in 1..Len(g.stack) : h.stack[i] =
              IF g.stack[i].buf = b THEN [g.stack[i] EXCEPT !.fill = None] ELSE g.stack[i]
  BY <1>1, RealiseFields, Zenon
<1>3. \A i \in 1..Len(g.stack) : g.stack[i] \in Target
  BY Fields
<1>4. Read(g, n) = h
  BY DEF Read
<1> HIDE DEF b, h
<1>5. h.cur = g.cur /\ h.base = g.base /\ h.surf = g.surf /\ h.app = g.app /\ h.appOpaque = g.appOpaque
  BY <1>2 DEF Renderer
<1>6. \A i \in 1..Len(g.stack) : h.stack[i].buf = g.stack[i].buf /\ h.stack[i].id = g.stack[i].id
  BY <1>2, <1>3 DEF Target
<1> QED
  BY <1>2, <1>4, <1>5, <1>6

LEMMA CoherentRead ==
  ASSUME NEW g \in Renderer, NEW n \in Name, Coherent(g)
  PROVE  Coherent(Read(g, n))
<1> DEFINE h == Read(g, n)
<1>1. /\ h.cur = g.cur /\ h.base = g.base /\ h.surf = g.surf /\ h.app = g.app
      /\ Len(h.stack) = Len(g.stack)
      /\ \A i \in 1..Len(g.stack) : h.stack[i].buf = g.stack[i].buf
  BY ReadFrame
<1> HIDE DEF h
<1>2. Valid(h) = Valid(g)
  BY <1>1 DEF Valid
<1>3. Coherent(h)
  BY <1>1, <1>2 DEF Coherent
<1> QED
  BY <1>3 DEF h

LEMMA CoherentReset ==
  ASSUME NEW g \in Renderer, Coherent(g)
  PROVE  /\ Coherent(ResetTarget(g))
         /\ \A n \in Id : ResetTarget(g).surf[n].live = g.surf[n].live
         /\ ResetTarget(g).app = g.app
<1> DEFINE h == ResetTarget(g)
<1>1. /\ h \in Renderer /\ h.surf = Close(g).surf /\ h.base = g.base /\ h.app = g.app
      /\ g.stack = << >> => h.cur = Fresh(g.base) /\ h.stack = << >>
      /\ g.stack # << >> => /\ h.cur = g.stack[Len(g.stack)]
                            /\ Len(h.stack) = Len(g.stack) - 1
                            /\ \A i \in 1..(Len(g.stack) - 1) : h.stack[i] = g.stack[i]
  BY ResetFields
<1>2. \A n \in Id : h.surf[n].live = g.surf[n].live
  BY <1>1, CloseFields
<1>3. Valid(h) = Valid(g)
  BY <1>1, <1>2 DEF Valid
<1>4. /\ Len(g.stack) \in Nat
      /\ g.stack = << >> <=> Len(g.stack) = 0
      /\ h.stack = << >> <=> Len(h.stack) = 0
  BY <1>1, Fields
<1> HIDE DEF h
<1>5. CASE g.stack = << >>
  <2>1. h.cur.buf = g.base /\ Len(h.stack) = 0
    BY <1>1, <1>4, <1>5 DEF Fresh
  <2>2. g.base \in Valid(h) /\ h.base \in Valid(h)
    BY <1>1, <1>3 DEF Coherent
  <2>3. Coherent(h)
    BY <2>1, <2>2 DEF Coherent
  <2> QED
    BY <1>1, <1>2, <2>3 DEF h
<1>6. CASE g.stack # << >>
  <2> DEFINE top == Len(g.stack)
  <2>1. top \in 1..top /\ \A i \in 1..(top - 1) : i \in 1..top
    BY <1>4, <1>6
  <2>2. /\ h.cur = g.stack[top] /\ Len(h.stack) = top - 1 /\ h.base = g.base
        /\ \A i \in 1..(top - 1) : h.stack[i] = g.stack[i]
    BY <1>1, <1>6
  <2>3. g.base \in Valid(h) /\ \A i \in 1..top : g.stack[i].buf \in Valid(h)
    BY <1>3 DEF Coherent
  <2> HIDE DEF top
  <2>4. h.cur.buf \in Valid(h) /\ \A i \in 1..(top - 1) : h.stack[i].buf \in Valid(h)
    BY <2>1, <2>2, <2>3
  <2>5. Coherent(h)
    BY <2>2, <2>3, <2>4 DEF Coherent
  <2> QED
    BY <1>1, <1>2, <2>5 DEF h
<1> QED
  BY <1>5, <1>6

LEMMA CoherentPush ==
  ASSUME NEW g \in Renderer, NEW n \in Name, Coherent(g), BufferOf(g, n) \in Valid(g)
  PROVE  Coherent(Push(g, n))
<1> DEFINE h == Push(g, n)
<1>1. /\ h.surf = g.surf /\ h.base = g.base /\ h.app = g.app /\ h.cur = Bound(g, n)
      /\ Len(h.stack) = Len(g.stack) + 1 /\ h.stack[Len(g.stack) + 1] = g.cur
      /\ \A i \in 1..Len(g.stack) : h.stack[i] = g.stack[i]
  BY PushFields
<1>2. Bound(g, n).buf = BufferOf(g, n)
  BY BoundFields
<1>3. Len(g.stack) \in Nat
  BY Fields
<1> HIDE DEF h
<1>4. ASSUME NEW i \in 1..Len(h.stack) PROVE i = Len(g.stack) + 1 \/ i \in 1..Len(g.stack)
  BY <1>1, <1>3
<1>5. Coherent(h)
  BY <1>1, <1>2, <1>4 DEF Coherent, Valid
<1> QED
  BY <1>5 DEF h

LEMMA NamesValid ==
  ASSUME r \in Renderer, NEW n \in Names(r)
  PROVE  n \in Name /\ BufferOf(r, n) \in Valid(r)
BY DEF Names, Name, BufferOf, Valid

LEMMA CoherentStep ==
  ASSUME TargetsIInv, Coherent(r), TargetsNext, "frees" \notin Habits
  PROVE  Coherent(r')
<1> SUFFICES Coherent(r')
  OBVIOUS
<1>0. r \in Renderer
  BY TypeOfRenderer DEF TargetsIInv
<1>u. uses \subseteq Name /\ uses \ {Application} \subseteq Id
  BY Uses DEF TargetsIInv
<1>p. ASSUME Repaints(r, r') PROVE Coherent(r')
  BY <1>p, CoherentRepaint
<1>1. ASSUME NEW n \in uses, Bind(n) PROVE Coherent(r')
  <2> DEFINE q == Read(r, n)
             z == ResetTarget(q)
             y == Read(z, n)
  <2>0. n \in Name
    BY <1>u
  <2>1. /\ q \in Renderer /\ z \in Renderer /\ y \in Renderer
        /\ r' = q \/ r' = Push(y, n) \/ r' = Push(q, n)
    <3>1. /\ q \in Renderer /\ z \in Renderer /\ y \in Renderer
          /\ Len(q.stack) >= Depth => r' = q
          /\ Len(q.stack) < Depth /\ classic /\ q.cur.id # NoSurfaceId => r' = Push(y, n)
          /\ Len(q.stack) < Depth /\ ~(classic /\ q.cur.id # NoSurfaceId) => r' = Push(q, n)
      BY <1>0, <1>1, <2>0, BindStep
    <3>2. Len(q.stack) \in Nat /\ Depth \in Nat
      BY <3>1, Fields, TargetsAssumption
    <3> QED
      BY <3>1, <3>2
  <2>2. BufferOf(r, n) \in Valid(r)
    BY <1>0, <1>1, NamesValid DEF Bind
  <2>3. Coherent(q) /\ q.app = r.app /\ q.surf = r.surf
    BY <1>0, <2>0, CoherentRead, ReadFrame
  <2> HIDE DEF q
  <2>4. Coherent(z) /\ z.app = q.app /\ \A i \in Id : z.surf[i].live = q.surf[i].live
    BY <2>1, <2>3, CoherentReset
  <2> HIDE DEF z
  <2>5. Coherent(y) /\ y.app = z.app /\ y.surf = z.surf
    BY <2>0, <2>1, <2>4, CoherentRead, ReadFrame
  <2> HIDE DEF y
  <2>6. BufferOf(q, n) \in Valid(q) /\ BufferOf(y, n) \in Valid(y)
    BY <2>2, <2>3, <2>4, <2>5 DEF BufferOf, Valid
  <2>7. Coherent(Push(q, n)) /\ Coherent(Push(y, n))
    BY <2>0, <2>1, <2>3, <2>5, <2>6, CoherentPush
  <2> QED
    BY <2>1, <2>3, <2>7
<1>2. ASSUME NEW n \in uses, DrawSurface(n) PROVE Coherent(r')
  <2> DEFINE q == Read(r, n)
  <2>0. n \in Name
    BY <1>u
  <2>1. q \in Renderer /\ Coherent(q)
    BY <1>0, <2>0, CoherentRead, ReadFrame
  <2>2. r' = Composite(q, n)
    BY <1>2 DEF DrawSurface
  <2> HIDE DEF q
  <2>3. Repaints(q, r')
    BY <2>0, <2>1, <2>2, CompositeFields
  <2> QED
    BY <2>1, <2>3, CoherentRepaint
<1>3. CASE Unbind
  <2>1. r' = ResetTarget(r)
    BY <1>3 DEF Unbind
  <2> QED
    BY <1>0, <2>1, CoherentReset
<1>4. CASE DrawRect
  BY <1>0, <1>4, <1>p, RectStep
<1>5. CASE EndPass
  <2>1. /\ r'.stack = r.stack /\ r'.cur = Flush(r).cur /\ r'.base = r.base /\ r'.surf = r.surf
        /\ r'.app = r.app
    BY <1>0, <1>5, EndStep
  <2>2. Flush(r).cur.buf = r.cur.buf
    BY <1>0, FlushFields, Zenon DEF Repaints
  <2> QED
    BY <2>1, <2>2 DEF Coherent, Valid
<1>6. ASSUME NEW c \in Colour, ClearTarget(c) PROVE Coherent(r')
  BY <1>0, <1>6, <1>p, ClearStep
<1>7. ASSUME NEW p \in Pixel, DrawPixel(p) PROVE Coherent(r')
  BY <1>0, <1>7, <1>p, PixelStep
<1>8. ASSUME NEW p \in Pixel, Punch(p) PROVE Coherent(r')
  BY <1>0, <1>8, <1>p, PunchStep
<1>9. ASSUME NEW d \in uses, NEW s \in uses, NEW part \in SUBSET Pixel, SurfaceCopy(d, s, part)
      PROVE  Coherent(r')
  <2>0. d \in Name /\ s \in Name
    BY <1>u
  <2> DEFINE e == Read(r, s)
             q == Read(e, d)
             w == PrepareDraw(q)
             v == Read(w, s)
             k == Read(v, d)
             ready == IF Involved(q, d, s) THEN k ELSE q
             y == CopyPixels(ready, d, s, part)
  <2>1. /\ q \in Renderer /\ w \in Renderer /\ v \in Renderer /\ k \in Renderer /\ y \in Renderer
        /\ r' = Forget(y, d)
    BY <1>0, <1>9, <2>0, CopyStep
  <2>2. Coherent(e) /\ e \in Renderer
    BY <1>0, <2>0, CoherentRead, ReadFrame
  <2> HIDE DEF e
  <2>3. Coherent(q)
    BY <2>0, <2>2, CoherentRead
  <2> HIDE DEF q
  <2>4. Coherent(w)
    BY <2>1, <2>3, PrepareDrawFields, CoherentRepaint
  <2> HIDE DEF w
  <2>5. Coherent(v)
    BY <2>0, <2>1, <2>4, CoherentRead
  <2> HIDE DEF v
  <2>6. Coherent(k)
    BY <2>0, <2>1, <2>5, CoherentRead
  <2> HIDE DEF k
  <2>7. ready \in Renderer /\ Coherent(ready)
    BY <2>1, <2>3, <2>6
  <2> HIDE DEF ready
  <2>8. /\ y.cur = ready.cur /\ y.stack = ready.stack /\ y.base = ready.base /\ y.surf = ready.surf
        /\ y.app = ready.app
    <3>1. ready \in Renderer
      BY <2>7
    <3>2. d \in Name
      BY <2>0
    <3>3. s \in Name
      BY <2>0
    <3> QED
      BY <3>1, <3>2, <3>3, CopyKeeps
  <2> HIDE DEF y
  <2>9. Coherent(y)
    BY <2>7, <2>8 DEF Coherent, Valid
  <2>10. /\ r'.stack = y.stack /\ r'.base = y.base /\ r'.app = y.app
         /\ r'.cur = IF y.cur.id = d
                     THEN [y.cur EXCEPT !.known = FALSE, !.opaque = FALSE, !.empty = FALSE] ELSE y.cur
         /\ d = Application => r'.surf = y.surf
         /\ d # Application => r'.surf = [y.surf EXCEPT ![d] = [NoSurface EXCEPT !.live = TRUE]]
    BY <2>0, <2>1, ForgetFields, Zenon
  <2>11. r'.cur.buf = y.cur.buf
    BY <2>1, <2>10, Fields DEF Target
  <2>12. Valid(y) \subseteq Valid(r')
    <3>1. y.surf \in [Id -> Surface]
      BY <2>1, Fields
    <3>2. \A n \in Id : y.surf[n].live => r'.surf[n].live
      BY <2>10, <3>1 DEF NoSurface
    <3> QED
      BY <2>10, <3>2 DEF Valid
  <2> QED
    BY <2>9, <2>10, <2>11, <2>12 DEF Coherent
<1>s. ASSUME NEW n \in Id, NEW rec, NEW pixels, Replaces(n, rec, pixels), rec.live \/ n \notin Borrowed(r)
      PROVE  Coherent(r')
  <2>1. CASE rec.live
    <3>1. Valid(r) \subseteq Valid(r')
      BY <1>s, <2>1 DEF Valid, Replaces
    <3> QED
      BY <1>s, <3>1 DEF Coherent, Replaces
  <2>2. CASE n \notin Borrowed(r)
    <3>1. \A b \in Valid(r) : b # n => b \in Valid(r')
      BY <1>s DEF Valid, Replaces
    <3>2. r.cur.buf # n /\ r.base # n /\ \A i \in 1..Len(r.stack) : r.stack[i].buf # n
      BY <1>0, <2>2, Fields DEF Borrowed
    <3> QED
      BY <1>s, <3>1, <3>2 DEF Coherent, Replaces
  <2> QED
    BY <1>s, <2>1, <2>2
<1>10. ASSUME NEW n \in uses \ {Application}, Create(n) PROVE Coherent(r')
  <2> DEFINE rec == [live |-> TRUE, known |-> TRUE, opaque |-> FALSE, empty |-> TRUE]
  <2>1. n \in Id /\ Replaces(n, rec, All(Clear))
    BY <1>0, <1>u, <1>10, CreateStep
  <2>2. rec.live
    OBVIOUS
  <2> HIDE DEF rec
  <2> QED
    BY <1>s, <2>1, <2>2
<1>11. ASSUME NEW n \in uses \ {Application}, Free(n) PROVE Coherent(r')
  <2>2. n \notin Borrowed(r)
    BY <1>11 DEF Free
  <2>1. n \in Id /\ Replaces(n, NoSurface, All(Clear))
    BY <1>0, <1>u, <1>11, <2>2, FreeStep
  <2> QED
    BY <1>s, <2>1, <2>2
<1>12. ASSUME NEW n \in uses \ {Application}, NEW part \in SUBSET Pixel, Resize(n, part)
       PROVE  Coherent(r')
  <2> DEFINE rec == [live |-> TRUE, known |-> FALSE, opaque |-> FALSE, empty |-> r.surf[n].empty]
  <2>1. n \in Id /\ Replaces(n, rec, Kept(r.mem[n], part))
    <3>1. n \notin Borrowed(r)
      BY <1>12 DEF Resize
    <3> QED
      BY <1>0, <1>u, <1>12, <3>1, ResizeStep
  <2>2. rec.live
    OBVIOUS
  <2> HIDE DEF rec
  <2> QED
    BY <1>s, <2>1, <2>2
<1>13. ASSUME NEW new \in Plane, NEW part \in SUBSET Pixel, ResizeZero(new, part)
       PROVE  Coherent(r')
  <2>1. /\ r'.app = new /\ r'.surf = r.surf /\ r'.cur = Moved(r.cur, r.app, new)
        /\ r'.base = IF r.base = r.app THEN new ELSE r.base
        /\ Len(r'.stack) = Len(r.stack)
        /\ \A i \in 1..Len(r.stack) : r'.stack[i] = Moved(r.stack[i], r.app, new)
    BY <1>0, <1>13, ZeroStep
  <2>2. r.cur \in Target /\ r.app \in Buffer /\ new \in Buffer
        /\ \A i \in 1..Len(r.stack) : r.stack[i] \in Target
    BY <1>0, Fields DEF Buffer
  <2>3. ASSUME NEW t \in Target, t.buf \in Valid(r) PROVE Moved(t, r.app, new).buf \in Valid(r')
    BY <2>1, <2>2, <2>3, MovedFields DEF Valid
  <2> QED
    BY <2>1, <2>2, <2>3 DEF Coherent, Valid
<1>14. ASSUME NEW b \in {Screen, r.app}, Begin(b) PROVE Coherent(r')
  <2>1. r'.cur = Fresh(b) /\ r'.base = b /\ r'.stack = << >> /\ r'.app = r.app
    BY <1>0, <1>14, BeginStep
  <2>2. Fresh(b).buf = b /\ Len(<< >>) = 0
    BY EmptySeq DEF Fresh
  <2> QED
    BY <2>1, <2>2 DEF Coherent, Valid
<1>15. ASSUME NEW b \in {Screen, r.app}, NEW next \in {"step", "pass"}, BeginRetaining(b, next)
       PROVE  Coherent(r')
  <2>1. /\ r'.base = b /\ r'.surf = r.surf /\ r'.app = r.app
        /\ r.cur.id \in Names(r) =>
              /\ r'.cur = [r.cur EXCEPT !.fill = None] /\ Len(r'.stack) = Len(r.stack)
              /\ \A i \in 1..Len(r.stack) :
                   r'.stack[i] = IF i = 1 THEN Fresh(b) ELSE r.stack[i]
        /\ r.cur.id \notin Names(r) => r'.cur = Fresh(b) /\ r'.stack = << >>
    BY <1>0, <1>15, RetainStep
  <2>2. Fresh(b).buf = b /\ Len(<< >>) = 0
    BY EmptySeq DEF Fresh
  <2>3. b \in Valid(r) /\ Valid(r') = Valid(r)
    BY <2>1 DEF Valid
  <2>4. CASE r.cur.id \in Names(r)
    <3>1. r'.cur.buf = r.cur.buf
      BY <1>0, <2>1, <2>4, Fields DEF Target
    <3> QED
      BY <2>1, <2>2, <2>3, <2>4, <3>1 DEF Coherent
  <2>5. CASE r.cur.id \notin Names(r)
    BY <2>1, <2>2, <2>3, <2>5 DEF Coherent
  <2> QED
    BY <2>4, <2>5
<1> QED
  BY <1>1, <1>2, <1>3, <1>4, <1>5, <1>6, <1>7, <1>8, <1>9, <1>10, <1>11, <1>12, <1>13, <1>14, <1>15
     DEF TargetsNext

\* In a program that frees and resizes numbered surfaces only while they are not
\* bound, no target at any level, nor the base they return to, refers to pixels
\* that are gone: a resize of surface 0 is followed everywhere
\* (gml_render_surfaces.c:264).  The assumption is needed: see the habit "frees".
THEOREM BorrowsStayCoherent ==
  ASSUME "frees" \notin Habits
  PROVE  TargetsSpec => []BorrowedIsCoherent
<1>1. TargetsInit => TargetsIInv /\ Coherent(r)
  <2> SUFFICES ASSUME TargetsInit PROVE TargetsIInv /\ Coherent(r)
    OBVIOUS
  <2>1. PICK view \in Plane :
        r = [mem |-> [b \in Buffer |-> All(Clear)], cur |-> Fresh(view),
             base |-> view, stack |-> << >>, surf |-> [i \in Id |-> NoSurface],
             app |-> view, appOpaque |-> FALSE]
    BY DEF TargetsInit
  <2>2. Len(<< >>) = 0
    BY EmptySeq
  <2> QED
    BY <2>1, <2>2, TargetsTypeInit DEF Coherent, Valid, Fresh
<1>2. TargetsIInv /\ Coherent(r) /\ [TargetsNext]_targetVars => (TargetsIInv /\ Coherent(r))'
  <2> SUFFICES ASSUME TargetsIInv, Coherent(r), [TargetsNext]_targetVars
               PROVE  (TargetsIInv /\ Coherent(r))'
    OBVIOUS
  <2>1. TargetsIInv'
    BY TargetsTypeStep
  <2>2. CASE TargetsNext
    BY <2>1, <2>2, CoherentStep
  <2>3. CASE UNCHANGED targetVars
    BY <2>1, <2>3 DEF targetVars
  <2> QED
    BY <2>2, <2>3
<1>3. TargetsIInv /\ Coherent(r) => BorrowedIsCoherent
  BY TypeOfRenderer, CoherentIs DEF TargetsIInv
<1> QED
  BY <1>1, <1>2, <1>3, PTL DEF TargetsSpec

-----------------------------------------------------------------------------
(* RenderTargets: the levels of the stack, the current target last, and what *)
(* a buffer will show.                                                       *)

Levels(g) == 1..(Len(g.stack) + 1)
Level(g, i) == IF i <= Len(g.stack) THEN g.stack[i] ELSE g.cur

\* No two levels refer to the same pixels.
Disjoint(g) == \A i, j \in Levels(g) : Level(g, i).buf = Level(g, j).buf => i = j
Unbound(g, b) == \A i \in Levels(g) : Level(g, i).buf # b

\* Seen, of any renderer.
See(g, b) ==
  LET waiting == {i \in DOMAIN g.stack : g.stack[i].buf = b /\ g.stack[i].fill # None}
  IN IF g.cur.buf = b /\ g.cur.fill # None THEN All(g.cur.fill)
     ELSE IF waiting = {} THEN g.mem[b] ELSE All(g.stack[Max(waiting)].fill)

LEMMA SeenIs == \A b : Seen(b) = See(r, b)
BY DEF Seen, See, Referring

LEMMA SeenNext == \A b : Seen(b)' = See(r', b)
BY DEF Seen, See, Referring

LEMMA LevelTypes ==
  ASSUME NEW g \in Renderer
  PROVE  /\ \A i \in Levels(g) : Level(g, i) \in Target /\ Level(g, i).buf \in Buffer
         /\ Len(g.stack) \in Nat /\ Len(g.stack) + 1 \in Levels(g) /\ 1 \in Levels(g)
         /\ Level(g, Len(g.stack) + 1) = g.cur
         /\ \A i \in 1..Len(g.stack) : i \in Levels(g) /\ Level(g, i) = g.stack[i]
         /\ \A i \in Levels(g) : i \in 1..Len(g.stack) \/ i = Len(g.stack) + 1
<1>1. /\ Len(g.stack) \in Nat /\ g.cur \in Target
      /\ \A i \in 1..Len(g.stack) : g.stack[i] \in Target
  BY Fields
<1>2. /\ Len(g.stack) + 1 \in Levels(g) /\ 1 \in Levels(g)
      /\ Level(g, Len(g.stack) + 1) = g.cur
      /\ \A i \in 1..Len(g.stack) : i \in Levels(g) /\ Level(g, i) = g.stack[i]
      /\ \A i \in Levels(g) : i \in 1..Len(g.stack) \/ i = Len(g.stack) + 1
  BY <1>1 DEF Levels, Level
<1>3. ASSUME NEW i \in Levels(g) PROVE Level(g, i) \in Target /\ Level(g, i).buf \in Buffer
  <2>1. Level(g, i) \in Target
    BY <1>1, <1>2
  <2> QED
    BY <2>1 DEF Target
<1> QED
  BY <1>1, <1>2, <1>3

LEMMA MaxOne == ASSUME NEW i \in Nat PROVE Max({i}) = i
BY DEF Max

LEMMA SeeLevel ==
  ASSUME NEW g \in Renderer, Disjoint(g), NEW i \in Levels(g)
  PROVE  See(g, Level(g, i).buf) = Shows(g, Level(g, i))
<1> DEFINE top == Len(g.stack) + 1
           b == Level(g, i).buf
           waiting == {j \in DOMAIN g.stack : g.stack[j].buf = b /\ g.stack[j].fill # None}
<1>1. /\ Len(g.stack) \in Nat /\ top \in Levels(g) /\ Level(g, top) = g.cur
      /\ \A j \in 1..Len(g.stack) : j \in Levels(g) /\ Level(g, j) = g.stack[j]
      /\ i \in 1..Len(g.stack) \/ i = top
  BY LevelTypes
<1>2. DOMAIN g.stack = 1..Len(g.stack)
  BY Fields
<1>3. See(g, b) = IF g.cur.buf = b /\ g.cur.fill # None THEN All(g.cur.fill)
                  ELSE IF waiting = {} THEN g.mem[b] ELSE All(g.stack[Max(waiting)].fill)
  BY DEF See
<1>4. CASE i = top
  <2>1. \A j \in 1..Len(g.stack) : g.stack[j].buf # b
    <3> SUFFICES ASSUME NEW j \in 1..Len(g.stack), g.stack[j].buf = b PROVE FALSE
      OBVIOUS
    <3>1. j = i
      BY <1>1 DEF Disjoint
    <3> QED
      BY <1>1, <1>4, <3>1
  <2>2. waiting = {}
    BY <1>2, <2>1
  <2>3. Level(g, i) = g.cur
    BY <1>1, <1>4
  <2> HIDE DEF waiting
  <2> QED
    BY <1>3, <2>2, <2>3 DEF Shows
<1>5. CASE i \in 1..Len(g.stack)
  <2>1. g.cur.buf # b
    BY <1>1, <1>5 DEF Disjoint
  <2>2. \A j \in 1..Len(g.stack) : g.stack[j].buf = b => j = i
    BY <1>1, <1>5 DEF Disjoint
  <2>3. Level(g, i) = g.stack[i] /\ g.stack[i].buf = b
    BY <1>1, <1>5
  <2>4. CASE g.stack[i].fill = None
    <3>1. waiting = {}
      BY <1>2, <2>2, <2>4
    <3> HIDE DEF waiting
    <3> QED
      BY <1>3, <2>1, <2>3, <2>4, <3>1 DEF Shows
  <2>5. CASE g.stack[i].fill # None
    <3>1. waiting = {i}
      BY <1>2, <1>5, <2>2, <2>3, <2>5
    <3>2. Max(waiting) = i
      BY <1>5, <3>1, MaxOne
    <3>3. waiting # {}
      BY <3>1
    <3> HIDE DEF waiting
    <3> QED
      BY <1>3, <2>1, <2>3, <2>5, <3>2, <3>3 DEF Shows
  <2> QED
    BY <2>4, <2>5
<1> QED
  BY <1>1, <1>4, <1>5

LEMMA SeeUnbound ==
  ASSUME NEW g \in Renderer, NEW b, Unbound(g, b)
  PROVE  See(g, b) = g.mem[b]
<1>1. \A i \in 1..Len(g.stack) : g.stack[i].buf # b
  BY LevelTypes DEF Unbound
<1>2. g.cur.buf # b
  BY LevelTypes DEF Unbound
<1>3. DOMAIN g.stack = 1..Len(g.stack)
  BY Fields
<1>4. {i \in DOMAIN g.stack : g.stack[i].buf = b /\ g.stack[i].fill # None} = {}
  BY <1>1, <1>3
<1> QED
  BY <1>2, <1>4 DEF See

\* Two renderers that agree level by level show the same.
LEMMA SeeSame ==
  ASSUME NEW g \in Renderer, NEW h \in Renderer, Disjoint(g), Disjoint(h),
         NEW b \in Buffer,
         \A i \in Levels(g) : Level(g, i).buf = b =>
            \E j \in Levels(h) : Level(h, j).buf = b /\ Shows(h, Level(h, j)) = Shows(g, Level(g, i)),
         Unbound(g, b) => h.mem[b] = g.mem[b],
         Unbound(g, b) => \A j \in Levels(h) : Level(h, j).buf = b => Shows(h, Level(h, j)) = g.mem[b]
  PROVE  See(h, b) = See(g, b)
<1>1. CASE Unbound(g, b)
  <2>1. See(g, b) = g.mem[b]
    BY <1>1, SeeUnbound
  <2>2. CASE Unbound(h, b)
    BY <1>1, <2>1, <2>2, SeeUnbound
  <2>3. CASE ~Unbound(h, b)
    <3>1. PICK j \in Levels(h) : Level(h, j).buf = b
      BY <2>3 DEF Unbound
    <3> QED
      BY <1>1, <2>1, <3>1, SeeLevel
  <2> QED
    BY <2>2, <2>3
<1>2. CASE ~Unbound(g, b)
  <2>1. PICK i \in Levels(g) : Level(g, i).buf = b
    BY <1>2 DEF Unbound
  <2>2. PICK j \in Levels(h) : Level(h, j).buf = b /\ Shows(h, Level(h, j)) = Shows(g, Level(g, i))
    BY <2>1
  <2>3. See(g, b) = Shows(g, Level(g, i))
    BY <2>1, SeeLevel
  <2>4. See(h, b) = Shows(h, Level(h, j))
    BY <2>2, SeeLevel
  <2> QED
    BY <2>2, <2>3, <2>4
<1> QED
  BY <1>1, <1>2

LEMMA SeeType ==
  ASSUME NEW g \in Renderer, Disjoint(g), NEW b \in Buffer
  PROVE  See(g, b) \in [Pixel -> Colour]
<1>1. CASE Unbound(g, b)
  BY <1>1, SeeUnbound, Fields
<1>2. CASE ~Unbound(g, b)
  <2>1. PICK i \in Levels(g) : Level(g, i).buf = b
    BY <1>2 DEF Unbound
  <2> QED
    BY <2>1, SeeLevel, LevelTypes, ShowsType
<1> QED
  BY <1>1, <1>2

-----------------------------------------------------------------------------
(* RenderTargets: the invariant under which waiting and skipping are unseen. *)

Home(g, id) == IF id = NoSurfaceId THEN g.base ELSE BufferOf(g, id)

\* The pass is the lowest level, every target has the pixels of its surface,
\* which lives, and no two levels share pixels.
Layout(g, k) ==
  /\ g.base \in {Screen, g.app}
  /\ Level(g, 1).id = NoSurfaceId
  /\ \A i \in Levels(g) : Level(g, i).buf = Home(g, Level(g, i).id)
  /\ \A i \in Levels(g) : Level(g, i).id \in Id => g.surf[Level(g, i).id].live
  /\ Disjoint(g)
  /\ k => \A i \in Levels(g) : Level(g, i).id # Application

\* What is said of a target, and of a surface, is true of its pixels.
Honest(g, t) ==
  /\ t.known /\ t.opaque => Shows(g, t) = All(Solid)
  /\ t.empty => Shows(g, t) = All(Clear)
Truthful(g, n) ==
  /\ g.surf[n].known /\ g.surf[n].opaque => g.mem[n] = All(Solid)
  /\ g.surf[n].empty => g.mem[n] = All(Clear)

\* The flags of a bound surface are out of date: its target has them.
Remembered(g) ==
  /\ \A i \in Levels(g) : Honest(g, Level(g, i))
  /\ \A n \in Id : g.surf[n].live /\ Unbound(g, n) => Truthful(g, n)
  /\ g.appOpaque => See(g, g.app) = All(Solid)

Sound(g, k) == g \in Renderer /\ Layout(g, k) /\ Remembered(g)

LEMMA Names3 ==
  /\ Application \notin Id /\ NoSurfaceId \notin Id /\ Screen \notin Id
  /\ Application # NoSurfaceId /\ Screen \notin Plane /\ Plane \intersect Id = {}
  /\ Clear # Solid /\ Clear \in Colour /\ Solid \in Colour /\ None \notin Colour
  /\ NoSurfaceId \notin Name /\ Screen # Application
BY TargetsAssumption DEF Application, NoSurfaceId, Screen, Colour, Name

LEMMA RepaintLayout ==
  ASSUME NEW g \in Renderer, NEW h, Repaints(g, h), NEW k, Layout(g, k)
  PROVE  /\ Layout(h, k) /\ Levels(h) = Levels(g)
         /\ \A i \in Levels(g) : Level(h, i).buf = Level(g, i).buf /\ Level(h, i).id = Level(g, i).id
         /\ \A i \in 1..Len(g.stack) : Level(h, i) = Level(g, i)
<1>1. /\ h.stack = g.stack /\ h.cur.buf = g.cur.buf /\ h.cur.id = g.cur.id /\ h.base = g.base
      /\ h.surf = g.surf /\ h.app = g.app
  BY DEF Repaints
<1>2. /\ Levels(h) = Levels(g) /\ \A i \in 1..Len(g.stack) : Level(h, i) = Level(g, i)
  BY <1>1, LevelTypes DEF Levels, Level
<1>3. \A i \in Levels(g) : Level(h, i).buf = Level(g, i).buf /\ Level(h, i).id = Level(g, i).id
  BY <1>1 DEF Level
<1>4. 1 \in Levels(g)
  BY LevelTypes
<1>5. Disjoint(h)
  BY <1>2, <1>3 DEF Disjoint, Layout
<1>6. \A id : Home(h, id) = Home(g, id)
  BY <1>1 DEF Home, BufferOf
<1>7. Layout(h, k)
  BY <1>1, <1>2, <1>3, <1>4, <1>5, <1>6 DEF Layout
<1> QED
  BY <1>2, <1>3, <1>7

\* Suspended targets show what they did when only the current one is painted.
LEMMA RepaintBelow ==
  ASSUME NEW g \in Renderer, NEW h, Repaints(g, h), NEW k, Layout(g, k), NEW i \in 1..Len(g.stack)
  PROVE  /\ Level(h, i) = Level(g, i) /\ Level(g, i).buf # g.cur.buf
         /\ Shows(h, Level(h, i)) = Shows(g, Level(g, i))
<1>1. Level(h, i) = Level(g, i)
  BY RepaintLayout
<1>2. Level(g, i).buf # g.cur.buf /\ Level(g, i).buf \in Buffer
  BY LevelTypes DEF Layout, Disjoint
<1>3. h.mem[Level(g, i).buf] = g.mem[Level(g, i).buf]
  BY <1>2 DEF Repaints
<1> QED
  BY <1>1, <1>2, <1>3 DEF Shows

LEMMA RepaintSees ==
  ASSUME NEW g \in Renderer, NEW h, Repaints(g, h), NEW k, Layout(g, k)
  PROVE  /\ See(h, g.cur.buf) = Shows(h, h.cur)
         /\ \A b \in Buffer \ {g.cur.buf} : See(h, b) = See(g, b)
<1>1. h \in Renderer /\ h.cur.buf = g.cur.buf /\ h.stack = g.stack
  BY DEF Repaints
<1>2. /\ Disjoint(g) /\ Disjoint(h) /\ Levels(h) = Levels(g)
      /\ \A i \in Levels(g) : Level(h, i).buf = Level(g, i).buf
  BY RepaintLayout DEF Layout
<1>3. See(h, g.cur.buf) = Shows(h, h.cur)
  BY <1>1, <1>2, LevelTypes, SeeLevel
<1>4. ASSUME NEW b \in Buffer \ {g.cur.buf} PROVE See(h, b) = See(g, b)
  <2>1. CASE Unbound(g, b)
    <3>1. Unbound(h, b)
      BY <1>2, <2>1 DEF Unbound
    <3>2. See(h, b) = h.mem[b] /\ See(g, b) = g.mem[b]
      BY <1>1, <2>1, <3>1, SeeUnbound
    <3> QED
      BY <3>2 DEF Repaints
  <2>2. CASE ~Unbound(g, b)
    <3>1. PICK i \in Levels(g) : Level(g, i).buf = b
      BY <2>2 DEF Unbound
    <3>2. i \in 1..Len(g.stack)
      BY <3>1, LevelTypes
    <3>3. Shows(h, Level(h, i)) = Shows(g, Level(g, i))
      BY <3>2, RepaintBelow
    <3>4. See(g, b) = Shows(g, Level(g, i))
      BY <1>2, <3>1, SeeLevel
    <3>5. See(h, b) = Shows(h, Level(h, i))
      BY <1>1, <1>2, <3>1, SeeLevel
    <3> QED
      BY <3>3, <3>4, <3>5
  <2> QED
    BY <2>1, <2>2
<1> QED
  BY <1>3, <1>4

\* The current target painted: its flags have to be true of what it shows now,
\* and surface 0 has to stay opaque when it is known to be.
LEMMA RepaintSound ==
  ASSUME NEW g, NEW h, NEW k, Sound(g, k), Repaints(g, h), Honest(h, h.cur),
         g.appOpaque /\ g.app = g.cur.buf => Shows(h, h.cur) = All(Solid)
  PROVE  Sound(h, k)
<1>0. g \in Renderer /\ Layout(g, k) /\ Remembered(g) /\ h \in Renderer
  BY DEF Sound, Repaints
<1>1. /\ h.cur.buf = g.cur.buf /\ h.stack = g.stack /\ h.surf = g.surf /\ h.app = g.app
      /\ h.appOpaque = g.appOpaque
  BY DEF Repaints
<1>2. Layout(h, k) /\ Levels(h) = Levels(g) /\ \A i \in Levels(g) : Level(h, i).buf = Level(g, i).buf
  BY <1>0, RepaintLayout
<1>3. ASSUME NEW i \in Levels(h) PROVE Honest(h, Level(h, i))
  <2>1. CASE i \in 1..Len(g.stack)
    <3>1. Level(h, i) = Level(g, i) /\ Shows(h, Level(h, i)) = Shows(g, Level(g, i))
      BY <1>0, <2>1, RepaintBelow
    <3>2. Honest(g, Level(g, i))
      BY <1>0, <1>2 DEF Remembered
    <3> QED
      BY <3>1, <3>2 DEF Honest
  <2>2. CASE i = Len(g.stack) + 1
    <3>1. Level(h, i) = h.cur
      BY <1>0, <1>1, <2>2, LevelTypes
    <3> QED
      BY <3>1
  <2> QED
    BY <1>0, <1>2, <2>1, <2>2, LevelTypes
<1>4. ASSUME NEW n \in Id, h.surf[n].live, Unbound(h, n) PROVE Truthful(h, n)
  <2>1. Unbound(g, n)
    BY <1>2, <1>4 DEF Unbound
  <2>2. n # g.cur.buf /\ n \in Buffer
    BY <1>0, <2>1, LevelTypes DEF Unbound, Buffer
  <2>3. h.mem[n] = g.mem[n]
    BY <2>2 DEF Repaints
  <2>4. Truthful(g, n)
    BY <1>0, <1>1, <1>4, <2>1 DEF Remembered
  <2> QED
    BY <1>1, <2>3, <2>4 DEF Truthful
<1>5. ASSUME h.appOpaque PROVE See(h, h.app) = All(Solid)
  <2>1. CASE g.app = g.cur.buf
    BY <1>0, <1>1, <1>5, <2>1, RepaintSees
  <2>2. CASE g.app # g.cur.buf
    <3>1. g.app \in Buffer
      BY <1>0, Fields
    <3>2. See(h, g.app) = See(g, g.app)
      BY <1>0, <2>2, <3>1, RepaintSees
    <3> QED
      BY <1>0, <1>1, <1>5, <3>2 DEF Remembered
  <2> QED
    BY <2>1, <2>2
<1> QED
  BY <1>0, <1>2, <1>3, <1>4, <1>5 DEF Sound, Remembered

\* A fill performed says the same as one that waits.
LEMMA FlushHonest ==
  ASSUME NEW g \in Renderer, Honest(g, g.cur)
  PROVE  /\ Honest(Flush(g), Flush(g).cur) /\ Shows(Flush(g), Flush(g).cur) = Shows(g, g.cur)
<1> DEFINE f == Flush(g)
<1>1a. /\ Repaints(g, f) /\ f.cur.fill = None /\ f.mem[g.cur.buf] = Shows(g, g.cur)
       /\ f.cur = IF g.cur.fill = None THEN g.cur
                  ELSE [g.cur EXCEPT !.fill = None, !.known = TRUE,
                                     !.opaque = (g.cur.fill = Solid), !.empty = (g.cur.fill = Clear)]
  BY FlushFields, Zenon
<1>1. /\ f.cur.fill = None /\ f.cur.buf = g.cur.buf /\ f.mem[g.cur.buf] = Shows(g, g.cur)
      /\ f.cur = IF g.cur.fill = None THEN g.cur
                 ELSE [g.cur EXCEPT !.fill = None, !.known = TRUE,
                                    !.opaque = (g.cur.fill = Solid), !.empty = (g.cur.fill = Clear)]
  BY <1>1a DEF Repaints
<1>2. g.cur \in Target
  BY Fields
<1> HIDE DEF f
<1>3. Shows(f, f.cur) = Shows(g, g.cur)
  BY <1>1 DEF Shows
<1>4. CASE g.cur.fill = None
  BY <1>1, <1>3, <1>4 DEF Honest, f
<1>5. CASE g.cur.fill # None
  <2>1. f.cur.opaque = (g.cur.fill = Solid) /\ f.cur.empty = (g.cur.fill = Clear)
    BY <1>1, <1>2, <1>5 DEF Target
  <2>2. Shows(f, f.cur) = All(g.cur.fill)
    BY <1>3, <1>5 DEF Shows
  <2>3. Honest(f, f.cur)
    BY <2>1, <2>2 DEF Honest
  <2> QED
    BY <1>3, <2>3 DEF f
<1> QED
  BY <1>4, <1>5

LEMMA PrepareHonest ==
  ASSUME NEW g \in Renderer, Honest(g, g.cur)
  PROVE  /\ Honest(PrepareDraw(g), PrepareDraw(g).cur)
         /\ Shows(PrepareDraw(g), PrepareDraw(g).cur) = Shows(g, g.cur)
<1> DEFINE w == PrepareDraw(g)
           f == Flush(g)
<1>1. /\ Repaints(g, w) /\ w.cur.fill = None /\ w.mem[g.cur.buf] = Shows(g, g.cur)
      /\ w.cur = [f.cur EXCEPT !.empty = FALSE] /\ ~w.cur.empty
  BY PrepareDrawFields
<1>2a. Repaints(g, f)
  BY FlushFields, Zenon
<1>2b. Honest(f, f.cur) /\ Shows(f, f.cur) = Shows(g, g.cur)
  BY FlushHonest
<1>2. Repaints(g, f) /\ Honest(f, f.cur) /\ Shows(f, f.cur) = Shows(g, g.cur)
  BY <1>2a, <1>2b
<1> HIDE DEF w, f
<1>3. f.cur \in Target /\ w.cur.buf = g.cur.buf
  BY <1>1, <1>2, Fields DEF Repaints
<1>4. Shows(w, w.cur) = Shows(g, g.cur)
  BY <1>1, <1>3 DEF Shows
<1>5. w.cur.known = f.cur.known /\ w.cur.opaque = f.cur.opaque
  BY <1>1, <1>3 DEF Target
<1>6. Honest(w, w.cur)
  BY <1>1, <1>2, <1>4, <1>5 DEF Honest
<1> QED
  BY <1>4, <1>6 DEF w

\* So drawing may be prepared at any time.
LEMMA PrepareSound ==
  ASSUME NEW g, NEW k, Sound(g, k)
  PROVE  /\ Sound(PrepareDraw(g), k)
         /\ \A b \in Buffer : See(PrepareDraw(g), b) = See(g, b)
         /\ PrepareDraw(g).mem[g.cur.buf] = See(g, g.cur.buf)
<1> DEFINE w == PrepareDraw(g)
<1>1. g \in Renderer /\ Layout(g, k) /\ Disjoint(g) /\ Remembered(g)
  BY DEF Sound, Layout
<1>2. See(g, g.cur.buf) = Shows(g, g.cur) /\ Honest(g, g.cur)
  BY <1>1, LevelTypes, SeeLevel DEF Remembered
<1>3. /\ Repaints(g, w) /\ Honest(w, w.cur) /\ Shows(w, w.cur) = Shows(g, g.cur)
      /\ w.mem[g.cur.buf] = Shows(g, g.cur)
  BY <1>1, <1>2, PrepareDrawFields, PrepareHonest
<1> HIDE DEF w
<1>4. g.appOpaque /\ g.app = g.cur.buf => Shows(w, w.cur) = All(Solid)
  BY <1>1, <1>2, <1>3 DEF Remembered
<1>5. Sound(w, k)
  BY <1>3, <1>4, RepaintSound
<1>6. \A b \in Buffer : See(w, b) = See(g, b)
  BY <1>1, <1>2, <1>3, RepaintSees
<1> QED
  BY <1>2, <1>3, <1>5, <1>6 DEF w

\* Reading performs the fill that waits below, which shows nothing new.
LEMMA ReadSound ==
  ASSUME NEW g, NEW k, Sound(g, k), NEW n \in Name
  PROVE  /\ Sound(Read(g, n), k) /\ Levels(Read(g, n)) = Levels(g)
         /\ \A i \in Levels(g) : /\ Level(Read(g, n), i).buf = Level(g, i).buf
                                 /\ Level(Read(g, n), i).id = Level(g, i).id
         /\ \A b \in Buffer : See(Read(g, n), b) = See(g, b)
         /\ BufferOf(g, n) # g.cur.buf => Read(g, n).mem[BufferOf(g, n)] = See(g, BufferOf(g, n))
         /\ (\A i \in 1..Len(g.stack) : g.stack[i].buf # BufferOf(g, n)) => Read(g, n) = g
<1> DEFINE c == BufferOf(g, n)
           h == Read(g, n)
<1>0. g \in Renderer /\ Layout(g, k) /\ Disjoint(g) /\ Remembered(g)
  BY DEF Sound, Layout
<1>1. c \in Buffer
  BY <1>0, BufferOfType
<1>2. /\ h \in Renderer /\ h.cur = g.cur /\ h.base = g.base /\ h.surf = g.surf /\ h.app = g.app
      /\ h.appOpaque = g.appOpaque /\ Len(h.stack) = Len(g.stack)
      /\ \A i \in 1..Len(g.stack) : /\ h.stack[i].buf = g.stack[i].buf
                                    /\ h.stack[i].id = g.stack[i].id
  BY <1>0, ReadFrame
<1>3. /\ \A i \in 1..Len(g.stack) : h.stack[i] =
              IF g.stack[i].buf = c THEN [g.stack[i] EXCEPT !.fill = None] ELSE g.stack[i]
      /\ \A b \in Buffer \ {c} : h.mem[b] = g.mem[b]
      /\ ~Filled(g, c) => h = g
      /\ Filled(g, c) => \E i \in 1..Len(g.stack) :
              /\ g.stack[i].buf = c /\ g.stack[i].fill # None
              /\ h.mem[c] = All(g.stack[i].fill)
  <2>1. h = Realise(g, c)
    BY DEF Read
  <2> HIDE DEF h, c
  <2>2. /\ \A i \in 1..Len(g.stack) : Realise(g, c).stack[i] =
              IF g.stack[i].buf = c THEN [g.stack[i] EXCEPT !.fill = None] ELSE g.stack[i]
        /\ \A b \in Buffer \ {c} : Realise(g, c).mem[b] = g.mem[b]
        /\ ~Filled(g, c) => Realise(g, c) = g
        /\ Filled(g, c) => \E i \in 1..Len(g.stack) :
              /\ g.stack[i].buf = c /\ g.stack[i].fill # None
              /\ Realise(g, c).mem[c] = All(g.stack[i].fill)
    <3>1. g \in Renderer
      BY <1>0
    <3> QED
      BY <1>1, <3>1, RealiseFields, Zenon
  <2> QED
    BY <2>1, <2>2
<1> HIDE DEF h
<1>4. /\ Levels(h) = Levels(g)
      /\ \A i \in Levels(g) : Level(h, i).buf = Level(g, i).buf /\ Level(h, i).id = Level(g, i).id
  BY <1>0, <1>2, LevelTypes DEF Levels, Level
<1>5. Disjoint(h)
  BY <1>0, <1>4 DEF Disjoint
<1>6. Layout(h, k)
  <2>1. \A id : Home(h, id) = Home(g, id)
    BY <1>2 DEF Home, BufferOf
  <2>2. 1 \in Levels(g)
    BY <1>0, LevelTypes
  <2> QED
    BY <1>0, <1>2, <1>4, <1>5, <2>1, <2>2 DEF Layout
\* The level of the fill, and the others.
<1>7. ASSUME NEW i \in Levels(g)
      PROVE  /\ Shows(h, Level(h, i)) = Shows(g, Level(g, i))
             /\ Level(h, i).known = Level(g, i).known /\ Level(h, i).opaque = Level(g, i).opaque
             /\ Level(h, i).empty = Level(g, i).empty
  <2>0. Level(g, i) \in Target /\ Level(g, i).buf \in Buffer
    BY <1>0, LevelTypes
  <2>1. CASE ~Filled(g, c)
    BY <1>3, <2>1
  <2>2. CASE Filled(g, c)
    <3>1. PICK j \in 1..Len(g.stack) :
              /\ g.stack[j].buf = c /\ g.stack[j].fill # None
              /\ h.mem[c] = All(g.stack[j].fill)
      BY <1>3, <2>2
    <3>2. Level(g, j) = g.stack[j] /\ j \in Levels(g) /\ Level(h, j) = h.stack[j]
      BY <1>0, <1>2, LevelTypes
    <3>3. CASE i = j
      <4>1. Level(h, i) = [Level(g, i) EXCEPT !.fill = None]
        BY <1>3, <3>1, <3>2, <3>3
      <4>2. /\ Level(h, i).fill = None /\ Level(h, i).buf = c
            /\ Level(h, i).known = Level(g, i).known /\ Level(h, i).opaque = Level(g, i).opaque
            /\ Level(h, i).empty = Level(g, i).empty
        BY <2>0, <3>1, <3>2, <3>3, <4>1 DEF Target
      <4> QED
        BY <3>1, <3>2, <3>3, <4>2 DEF Shows
    <3>4. CASE i # j
      <4>1. Level(g, i).buf # c
        BY <1>0, <3>1, <3>2, <3>4 DEF Disjoint
      <4>2. Level(h, i) = Level(g, i)
        <5>1. CASE i \in 1..Len(g.stack)
          <6>1. Level(g, i) = g.stack[i] /\ i \in 1..Len(h.stack)
            BY <1>0, <1>2, <5>1, LevelTypes
          <6>2. Level(h, i) = h.stack[i]
            BY <1>2, <6>1, LevelTypes
          <6>3. h.stack[i] = g.stack[i]
            BY <1>3, <4>1, <5>1, <6>1
          <6> QED
            BY <6>1, <6>2, <6>3
        <5>2. CASE i = Len(g.stack) + 1
          BY <1>0, <1>2, <5>2, LevelTypes
        <5> QED
          BY <1>0, <5>1, <5>2, LevelTypes
      <4>3. h.mem[Level(g, i).buf] = g.mem[Level(g, i).buf]
        BY <1>3, <2>0, <4>1
      <4> QED
        BY <4>2, <4>3 DEF Shows
    <3> QED
      BY <3>3, <3>4
  <2> QED
    BY <2>1, <2>2
<1>8. ASSUME NEW b \in Buffer, Unbound(g, b) PROVE h.mem[b] = g.mem[b]
  <2>1. CASE Filled(g, c)
    <3>1. PICK j \in 1..Len(g.stack) : g.stack[j].buf = c
      BY <1>3, <2>1
    <3>2. b # c
      BY <1>0, <1>8, <3>1, LevelTypes DEF Unbound
    <3> QED
      BY <1>3, <3>2
  <2>2. CASE ~Filled(g, c)
    BY <1>3, <2>2
  <2> QED
    BY <2>1, <2>2
<1>9. ASSUME NEW b \in Buffer PROVE See(h, b) = See(g, b)
  <2>1. CASE Unbound(g, b)
    <3>1. Unbound(h, b)
      BY <1>4, <2>1 DEF Unbound
    <3> QED
      BY <1>0, <1>2, <1>8, <2>1, <3>1, SeeUnbound
  <2>2. CASE ~Unbound(g, b)
    <3>1. PICK i \in Levels(g) : Level(g, i).buf = b
      BY <2>2 DEF Unbound
    <3>2. See(g, b) = Shows(g, Level(g, i))
      BY <1>0, <3>1, SeeLevel
    <3>3. See(h, b) = Shows(h, Level(h, i))
      BY <1>2, <1>4, <1>5, <3>1, SeeLevel
    <3> QED
      BY <1>7, <3>2, <3>3
  <2> QED
    BY <2>1, <2>2
<1>10. Remembered(h)
  <2>1. ASSUME NEW i \in Levels(h) PROVE Honest(h, Level(h, i))
    <3>1. Honest(g, Level(g, i)) /\ i \in Levels(g)
      BY <1>0, <1>4 DEF Remembered
    <3> QED
      BY <1>7, <3>1 DEF Honest
  <2>2. ASSUME NEW m \in Id, h.surf[m].live, Unbound(h, m) PROVE Truthful(h, m)
    <3>1. Unbound(g, m) /\ m \in Buffer
      BY <1>4, <2>2 DEF Unbound, Buffer
    <3>2. h.mem[m] = g.mem[m] /\ Truthful(g, m)
      BY <1>0, <1>2, <1>8, <2>2, <3>1 DEF Remembered
    <3> QED
      BY <1>2, <3>2 DEF Truthful
  <2>3. h.appOpaque => See(h, h.app) = All(Solid)
    BY <1>0, <1>2, <1>9, Fields DEF Remembered
  <2> QED
    BY <2>1, <2>2, <2>3 DEF Remembered
<1>11. ASSUME c # g.cur.buf PROVE h.mem[c] = See(g, c)
  <2>1. CASE Unbound(g, c)
    BY <1>0, <1>1, <1>8, <2>1, SeeUnbound
  <2>2. CASE ~Unbound(g, c)
    <3>1. PICK i \in Levels(g) : Level(g, i).buf = c
      BY <2>2 DEF Unbound
    <3>2. i \in 1..Len(g.stack) /\ Level(g, i) = g.stack[i] /\ Level(h, i) = h.stack[i]
      BY <1>0, <1>2, <1>11, <3>1, LevelTypes
    <3>3. h.stack[i] = [g.stack[i] EXCEPT !.fill = None] /\ g.stack[i] \in Target
      BY <1>0, <1>3, <3>1, <3>2, Fields
    <3>4. Level(h, i).fill = None /\ Level(h, i).buf = c
      BY <3>1, <3>2, <3>3 DEF Target
    <3>5. h.mem[c] = Shows(h, Level(h, i))
      BY <3>4 DEF Shows
    <3>6. See(g, c) = Shows(g, Level(g, i))
      BY <1>0, <3>1, SeeLevel
    <3> QED
      BY <1>7, <3>1, <3>5, <3>6
  <2> QED
    BY <2>1, <2>2
<1>12. ASSUME \A i \in 1..Len(g.stack) : g.stack[i].buf # c PROVE h = g
  <2>1. DOMAIN g.stack = 1..Len(g.stack)
    BY <1>0, Fields
  <2>2. ~Filled(g, c)
    BY <1>12, <2>1 DEF Filled
  <2> QED
    BY <1>3, <2>2
<1>13. Sound(h, k)
  BY <1>2, <1>6, <1>10 DEF Sound
<1> QED
  BY <1>4, <1>9, <1>11, <1>12, <1>13 DEF h

\* Which levels have which names.
LEMMA WhoIsWhere ==
  ASSUME NEW g \in Renderer, NEW k, Layout(g, k)
  PROVE  /\ g.stack # << >> <=> g.cur.id # NoSurfaceId
         /\ g.stack = << >> => g.cur.buf = g.base
         /\ g.cur.id \in Id => g.cur.buf = g.cur.id /\ g.surf[g.cur.id].live
         /\ g.cur.id = Application => g.cur.buf = g.app
         /\ g.cur.id \in {NoSurfaceId, Application} \union Id
<1> DEFINE top == Len(g.stack) + 1
<1>1. /\ Len(g.stack) \in Nat /\ top \in Levels(g) /\ 1 \in Levels(g) /\ Level(g, top) = g.cur
      /\ g.cur \in Target
  BY LevelTypes, Fields
<1>2. g.stack = << >> <=> Len(g.stack) = 0
  BY Fields
<1>3. g.cur.buf = Home(g, g.cur.id) /\ Level(g, 1).buf = g.base
  BY <1>1 DEF Layout, Home
<1>4. g.cur.id = NoSurfaceId <=> top = 1
  <2>1. g.cur.id = NoSurfaceId => Level(g, top).buf = Level(g, 1).buf
    BY <1>1, <1>3 DEF Home
  <2>2. g.cur.id = NoSurfaceId => top = 1
    BY <1>1, <2>1 DEF Layout, Disjoint
  <2>3. top = 1 => g.cur.id = NoSurfaceId
    BY <1>1 DEF Layout
  <2> QED
    BY <2>2, <2>3
<1>5. g.stack = << >> <=> g.cur.id = NoSurfaceId
  BY <1>1, <1>2, <1>4
<1>6. g.cur.id \in Id => g.cur.id # NoSurfaceId /\ g.cur.id # Application
  BY Names3
<1>7. g.cur.id \in {NoSurfaceId, Application} \union Id
  BY <1>1 DEF Target, Name
<1>8. g.cur.id \in Id => g.surf[g.cur.id].live
  BY <1>1 DEF Layout
<1> QED
  BY <1>3, <1>5, <1>6, <1>7, <1>8, Names3 DEF Home, BufferOf

\* Closing a target stores what is true of its pixels, and leaves them as shown.
LEMMA CloseTruth ==
  ASSUME NEW g, NEW k, Sound(g, k), g.cur.id \in Id
  PROVE  /\ Truthful(Close(g), g.cur.id)
         /\ Close(g).mem[g.cur.buf] = See(g, g.cur.buf)
<1> DEFINE f == Flush(g)
           c == Close(g)
           n == g.cur.id
<1>0. /\ g \in Renderer /\ Layout(g, k) /\ Disjoint(g) /\ Remembered(g)
      /\ g.cur.buf = n /\ g.surf[n].live
  BY WhoIsWhere DEF Sound, Layout
<1>1. Honest(g, g.cur) /\ See(g, g.cur.buf) = Shows(g, g.cur)
  BY <1>0, LevelTypes, SeeLevel DEF Remembered
<1>g. g \in Renderer
  BY <1>0
<1>2. Repaints(g, f) /\ f.cur.fill = None /\ f.mem[g.cur.buf] = Shows(g, g.cur)
  BY <1>g, FlushFields, Zenon
<1>3. Honest(f, f.cur)
  BY <1>0, <1>1, FlushHonest
<1>4. /\ c = StoreCoverage(f) /\ c.mem[g.cur.buf] = Shows(g, g.cur) /\ c.mem = f.mem
  BY <1>0, CloseFields
<1> HIDE DEF f
<1>5. f \in Renderer /\ f.cur.id = n /\ f.cur.buf = n /\ f.surf[n].live
  BY <1>0, <1>2 DEF Repaints
<1>6. StoreCoverage(f).surf[n] =
        [live |-> TRUE, known |-> f.cur.known, opaque |-> f.cur.opaque,
         empty |-> \/ f.cur.empty
                   \/ /\ f.cur.known /\ ~f.cur.opaque
                      /\ f.mem[f.cur.buf] = All(Clear)]
  <2>1. f.cur.id \in Id /\ f.surf[f.cur.id].live
    BY <1>5
  <2>2. StoreCoverage(f).surf[f.cur.id] =
        [live |-> TRUE, known |-> f.cur.known, opaque |-> f.cur.opaque,
         empty |-> \/ f.cur.empty
                   \/ /\ f.cur.known /\ ~f.cur.opaque
                      /\ f.mem[f.cur.buf] = All(Clear)]
    BY <1>5, <2>1, StoreFields, Zenon
  <2> QED
    BY <1>5, <2>2
<1> HIDE DEF c
<1>7. /\ c.surf[n].known = f.cur.known /\ c.surf[n].opaque = f.cur.opaque
      /\ c.surf[n].empty = (f.cur.empty \/ (f.cur.known /\ ~f.cur.opaque /\ f.mem[f.cur.buf] = All(Clear)))
  <2> DEFINE e == f.cur.empty \/ (f.cur.known /\ ~f.cur.opaque /\ f.mem[f.cur.buf] = All(Clear))
  <2>1. c.surf[n] = [live |-> TRUE, known |-> f.cur.known, opaque |-> f.cur.opaque, empty |-> e]
    BY <1>4, <1>6, Zenon
  <2> HIDE DEF e
  <2>2. /\ c.surf[n].known = f.cur.known /\ c.surf[n].opaque = f.cur.opaque
        /\ c.surf[n].empty = e
    BY <2>1
  <2> QED
    BY <2>2 DEF e
<1>8. Shows(f, f.cur) = f.mem[n] /\ c.mem[n] = f.mem[n]
  BY <1>2, <1>4, <1>5 DEF Shows
<1>9. Truthful(c, n)
  BY <1>3, <1>5, <1>7, <1>8 DEF Truthful, Honest
<1> QED
  BY <1>1, <1>4, <1>9 DEF c

\* Taking the top level off a sound renderer.  Surface 0 has nothing stored, so
\* its fill must not be waiting.
LEMMA PopSound ==
  ASSUME NEW g, NEW k, Sound(g, k), g.stack # << >>,
         g.cur.id = Application => g.cur.fill = None
  PROVE  /\ Sound(ResetTarget(g), k)
         /\ Len(ResetTarget(g).stack) = Len(g.stack) - 1
         /\ \A i \in 1..Len(g.stack) : Level(ResetTarget(g), i) = g.stack[i]
         /\ \A b \in Buffer : See(ResetTarget(g), b) = See(g, b)
         /\ ResetTarget(g).app = g.app
         /\ \A n \in Id : ResetTarget(g).surf[n].live = g.surf[n].live
<1> DEFINE h == ResetTarget(g)
           c == Close(g)
           top == Len(g.stack) + 1
<1>0. /\ g \in Renderer /\ Layout(g, k) /\ Disjoint(g) /\ Remembered(g)
      /\ g.cur.id \in {Application} \union Id
      /\ g.cur.id \in Id => g.cur.buf = g.cur.id /\ g.surf[g.cur.id].live
      /\ g.cur.id = Application => g.cur.buf = g.app
  BY WhoIsWhere DEF Sound, Layout
<1>1. /\ Len(g.stack) \in Nat /\ Len(g.stack) # 0 /\ g.cur.buf \in Buffer
  BY <1>0, Fields, LevelTypes
<1>2. /\ h \in Renderer /\ h.mem = c.mem /\ h.surf = c.surf /\ h.base = g.base /\ h.app = g.app
      /\ h.appOpaque = g.appOpaque /\ h.cur = g.stack[Len(g.stack)]
      /\ Len(h.stack) = Len(g.stack) - 1
      /\ \A i \in 1..(Len(g.stack) - 1) : h.stack[i] = g.stack[i]
  BY <1>0, ResetFields
<1>3. /\ \A b \in Buffer \ {g.cur.buf} : c.mem[b] = g.mem[b]
      /\ \A n \in Id \ {g.cur.id} : c.surf[n] = g.surf[n]
      /\ \A n \in Id : c.surf[n].live = g.surf[n].live
      /\ g.cur.id \notin Id => c = g
  BY <1>0, CloseFields
<1>4. c.mem[g.cur.buf] = See(g, g.cur.buf)
  <2>1. CASE g.cur.id \in Id
    BY <2>1, CloseTruth
  <2>2. CASE g.cur.id = Application
    <3>1. c = g
      BY <1>3, <2>2, Names3
    <3>2. See(g, g.cur.buf) = Shows(g, g.cur)
      BY <1>0, LevelTypes, SeeLevel
    <3> QED
      BY <2>2, <3>1, <3>2 DEF Shows
  <2> QED
    BY <1>0, <2>1, <2>2
<1>t. g.cur.id \in Id => Truthful(c, g.cur.id)
  BY CloseTruth
<1> HIDE DEF h, c
<1>5. /\ Levels(h) = 1..Len(g.stack) /\ \A i \in Levels(h) : i \in Levels(g)
      /\ \A i \in Levels(h) : Level(h, i) = Level(g, i) /\ Level(h, i) = g.stack[i]
      /\ top \in Levels(g) /\ Level(g, top) = g.cur /\ top \notin Levels(h) /\ 1 \in Levels(h)
      /\ \A i \in Levels(g) : i \in Levels(h) \/ i = top
  BY <1>1, <1>2 DEF Levels, Level
<1>6. ASSUME NEW i \in Levels(h) PROVE Level(h, i).buf # g.cur.buf /\ Level(h, i).buf \in Buffer
  BY <1>0, <1>5, LevelTypes DEF Disjoint
<1>7. ASSUME NEW i \in Levels(h) PROVE Shows(h, Level(h, i)) = Shows(g, Level(g, i))
  BY <1>2, <1>3, <1>5, <1>6 DEF Shows
<1>8. Disjoint(h)
  BY <1>0, <1>5 DEF Disjoint
<1>9. Layout(h, k)
  <2>1. \A id : Home(h, id) = Home(g, id)
    BY <1>2 DEF Home, BufferOf
  <2>2. \A i \in Levels(h) : Level(h, i).id \in Id => h.surf[Level(h, i).id].live
    BY <1>0, <1>2, <1>3, <1>5 DEF Layout
  <2>3. Level(h, 1).id = NoSurfaceId /\ h.base \in {Screen, h.app}
    BY <1>0, <1>2, <1>5 DEF Layout
  <2>4. \A i \in Levels(h) : Level(h, i).buf = Home(h, Level(h, i).id)
    BY <1>0, <1>5, <2>1 DEF Layout
  <2>5. k => \A i \in Levels(h) : Level(h, i).id # Application
    BY <1>0, <1>5 DEF Layout
  <2> QED
    BY <1>8, <2>2, <2>3, <2>4, <2>5 DEF Layout
<1>10. ASSUME NEW b \in Buffer PROVE See(h, b) = See(g, b)
  <2>1. CASE b = g.cur.buf
    <3>1. Unbound(h, b)
      BY <1>6, <2>1 DEF Unbound
    <3>2. See(h, b) = h.mem[b]
      BY <1>2, <3>1, SeeUnbound
    <3> QED
      BY <1>2, <1>4, <2>1, <3>2
  <2>2. CASE b # g.cur.buf /\ Unbound(h, b)
    <3>1. Unbound(g, b)
      BY <1>5, <2>2 DEF Unbound
    <3> QED
      BY <1>0, <1>2, <1>3, <2>2, <3>1, SeeUnbound
  <2>3. CASE ~Unbound(h, b)
    <3>1. PICK i \in Levels(h) : Level(h, i).buf = b
      BY <2>3 DEF Unbound
    <3>2. See(h, b) = Shows(h, Level(h, i))
      BY <1>2, <1>8, <3>1, SeeLevel
    <3>3. See(g, b) = Shows(g, Level(g, i))
      BY <1>0, <1>5, <3>1, SeeLevel
    <3> QED
      BY <1>7, <3>2, <3>3
  <2> QED
    BY <2>1, <2>2, <2>3
<1>11. Remembered(h)
  <2>1. ASSUME NEW i \in Levels(h) PROVE Honest(h, Level(h, i))
    <3>1. Honest(g, Level(g, i)) /\ Level(h, i) = Level(g, i)
      BY <1>0, <1>5 DEF Remembered
    <3> QED
      BY <1>7, <3>1 DEF Honest
  <2>2. ASSUME NEW n \in Id, h.surf[n].live, Unbound(h, n) PROVE Truthful(h, n)
    <3>1. CASE n = g.cur.id
      BY <1>t, <1>2, <3>1 DEF Truthful
    <3>2. CASE n # g.cur.id
      <4>1. n # g.cur.buf /\ n \in Buffer
        <5>1. g.app \in Plane
          BY <1>0, Fields
        <5> QED
          BY <1>0, <3>2, <5>1, Names3 DEF Buffer
      <4>2. Unbound(g, n)
        BY <1>5, <2>2, <4>1 DEF Unbound
      <4>3. g.surf[n].live /\ h.surf[n] = g.surf[n] /\ h.mem[n] = g.mem[n]
        BY <1>2, <1>3, <2>2, <3>2, <4>1
      <4>4. Truthful(g, n)
        BY <1>0, <4>2, <4>3 DEF Remembered
      <4> QED
        BY <4>3, <4>4 DEF Truthful
    <3> QED
      BY <3>1, <3>2
  <2>3. h.appOpaque => See(h, h.app) = All(Solid)
    BY <1>0, <1>2, <1>10, Fields DEF Remembered
  <2> QED
    BY <2>1, <2>2, <2>3 DEF Remembered
<1>12. Sound(h, k) /\ \A i \in 1..Len(g.stack) : Level(h, i) = g.stack[i]
  BY <1>2, <1>5, <1>9, <1>11 DEF Sound
<1>13. /\ Len(h.stack) = Len(g.stack) - 1 /\ h.app = g.app
       /\ \A n \in Id : h.surf[n].live = g.surf[n].live
  BY <1>2, <1>3
<1> QED
  BY <1>10, <1>12, <1>13 DEF h

\* Putting a surface that no level refers to on top of a sound renderer.
LEMMA PushSound ==
  ASSUME NEW g, NEW k, Sound(g, k), NEW n \in Name, Unbound(g, BufferOf(g, n)),
         n \in Id => g.surf[n].live, k => n # Application
  PROVE  /\ Sound(Push(g, n), k)
         /\ \A b \in Buffer : See(Push(g, n), b) = See(g, b)
         /\ Push(g, n).app = g.app
<1> DEFINE h == Push(g, n)
           top == Len(g.stack) + 1
           b0 == BufferOf(g, n)
           t == Bound(g, n)
<1>0. g \in Renderer /\ Layout(g, k) /\ Disjoint(g) /\ Remembered(g) /\ Len(g.stack) \in Nat
  BY LevelTypes DEF Sound, Layout
<1>1. /\ h \in Renderer /\ h.mem = g.mem /\ h.surf = g.surf /\ h.base = g.base /\ h.app = g.app
      /\ h.appOpaque = g.appOpaque /\ h.cur = t /\ Len(h.stack) = top
      /\ h.stack[top] = g.cur /\ \A i \in 1..Len(g.stack) : h.stack[i] = g.stack[i]
  BY <1>0, PushFields
<1>2. /\ t \in Target /\ t.buf = b0 /\ t.id = n /\ t.fill = None /\ b0 \in Buffer
      /\ n = Application => /\ ~t.known /\ ~t.empty
      /\ n \in Id => /\ t.known = g.surf[n].known /\ t.opaque = g.surf[n].opaque
                     /\ t.empty = g.surf[n].empty
  BY <1>0, BoundFields
<1>b. n \in Id => b0 = n
  BY Names3 DEF BufferOf
<1>c. \A i \in Levels(g) : Level(g, i).buf # b0
  BY DEF Unbound
<1> HIDE DEF h, t, b0
<1>3. /\ Levels(h) = 1..(top + 1) /\ \A i \in Levels(g) : i \in Levels(h) /\ Level(h, i) = Level(g, i)
      /\ top + 1 \in Levels(h) /\ top + 1 \notin Levels(g) /\ Level(h, top + 1) = t
      /\ \A i \in Levels(h) : i \in Levels(g) \/ i = top + 1
      /\ 1 \in Levels(g)
  <2>1. ASSUME NEW i \in Levels(g) PROVE i \in Levels(h) /\ Level(h, i) = Level(g, i)
    <3>1. CASE i \in 1..Len(g.stack)
      BY <1>0, <1>1, <3>1 DEF Levels, Level
    <3>2. CASE i = top
      BY <1>0, <1>1, <3>2 DEF Levels, Level
    <3> QED
      BY <1>0, <3>1, <3>2, LevelTypes
  <2>2. /\ Levels(h) = 1..(top + 1) /\ top + 1 \in Levels(h) /\ top + 1 \notin Levels(g)
        /\ Level(h, top + 1) = t /\ 1 \in Levels(g)
        /\ \A i \in Levels(h) : i \in Levels(g) \/ i = top + 1
    BY <1>0, <1>1 DEF Levels, Level
  <2> QED
    BY <2>1, <2>2
<1>4. Disjoint(h)
  BY <1>0, <1>2, <1>3, <1>c DEF Disjoint
<1>5. Layout(h, k)
  <2>1. \A id : Home(h, id) = Home(g, id)
    BY <1>1 DEF Home, BufferOf
  <2>2. t.buf = Home(h, t.id)
    BY <1>1, <1>2, Names3 DEF Home, BufferOf, b0
  <2>3. \A i \in Levels(h) : Level(h, i).buf = Home(h, Level(h, i).id)
    BY <1>0, <1>3, <2>1, <2>2 DEF Layout
  <2>4. \A i \in Levels(h) : Level(h, i).id \in Id => h.surf[Level(h, i).id].live
    BY <1>0, <1>1, <1>2, <1>3 DEF Layout
  <2>5. Level(h, 1).id = NoSurfaceId /\ h.base \in {Screen, h.app}
    BY <1>0, <1>1, <1>3 DEF Layout
  <2>6. k => \A i \in Levels(h) : Level(h, i).id # Application
    BY <1>0, <1>2, <1>3 DEF Layout
  <2> QED
    BY <1>4, <2>3, <2>4, <2>5, <2>6 DEF Layout
<1>6. \A i \in Levels(g) : Shows(h, Level(h, i)) = Shows(g, Level(g, i))
  BY <1>1, <1>3 DEF Shows
<1>7. Shows(h, t) = g.mem[b0]
  BY <1>1, <1>2 DEF Shows
<1>8. ASSUME NEW b \in Buffer PROVE See(h, b) = See(g, b)
  <2>1. CASE b = b0
    <3>1. See(g, b) = g.mem[b0]
      BY <1>0, <1>c, <2>1, SeeUnbound DEF Unbound
    <3>2. See(h, b) = Shows(h, t)
      BY <1>1, <1>2, <1>3, <1>4, <2>1, SeeLevel
    <3> QED
      BY <1>7, <3>1, <3>2
  <2>2. CASE b # b0 /\ Unbound(g, b)
    <3>1. Unbound(h, b)
      BY <1>2, <1>3, <2>2 DEF Unbound
    <3> QED
      BY <1>0, <1>1, <2>2, <3>1, SeeUnbound
  <2>3. CASE ~Unbound(g, b)
    <3>1. PICK i \in Levels(g) : Level(g, i).buf = b
      BY <2>3 DEF Unbound
    <3>2. See(g, b) = Shows(g, Level(g, i))
      BY <1>0, <3>1, SeeLevel
    <3>3. See(h, b) = Shows(h, Level(h, i))
      BY <1>1, <1>3, <1>4, <3>1, SeeLevel
    <3> QED
      BY <1>6, <3>1, <3>2, <3>3
  <2> QED
    BY <2>1, <2>2, <2>3
<1>9. Honest(h, t)
  <2>1. CASE n = Application
    BY <1>2, <2>1 DEF Honest
  <2>2. CASE n \in Id
    <3>1. Truthful(g, n) /\ b0 = n
      BY <1>0, <1>b, <1>c, <2>2 DEF Remembered, Unbound
    <3> QED
      BY <1>2, <1>7, <2>2, <3>1 DEF Honest, Truthful
  <2> QED
    BY <2>1, <2>2 DEF Name
<1>10. Remembered(h)
  <2>1. ASSUME NEW i \in Levels(h) PROVE Honest(h, Level(h, i))
    <3>1. CASE i \in Levels(g)
      <4>1. Honest(g, Level(g, i)) /\ Level(h, i) = Level(g, i)
        BY <1>0, <1>3, <3>1 DEF Remembered
      <4> QED
        BY <1>6, <3>1, <4>1 DEF Honest
    <3>2. CASE i = top + 1
      BY <1>3, <1>9, <3>2
    <3> QED
      BY <1>3, <3>1, <3>2
  <2>2. ASSUME NEW m \in Id, h.surf[m].live, Unbound(h, m) PROVE Truthful(h, m)
    <3>1. Unbound(g, m)
      BY <1>3, <2>2 DEF Unbound
    <3>2. Truthful(g, m)
      BY <1>0, <1>1, <2>2, <3>1 DEF Remembered
    <3> QED
      BY <1>1, <3>2 DEF Truthful
  <2>3. h.appOpaque => See(h, h.app) = All(Solid)
    BY <1>0, <1>1, <1>8, Fields DEF Remembered
  <2> QED
    BY <2>1, <2>2, <2>3 DEF Remembered
<1>11. Sound(h, k)
  BY <1>1, <1>5, <1>10 DEF Sound
<1> QED
  BY <1>1, <1>8, <1>11 DEF h

-----------------------------------------------------------------------------
(* RenderTargets: what each step shows, and that it keeps the invariant.     *)

\* The step leaves the levels where they are and repaints one buffer.
Repictured(b, pixels) ==
  /\ r'.app = r.app /\ Levels(r') = Levels(r)
  /\ \A i \in Levels(r) : Level(r', i).buf = Level(r, i).buf
  /\ \A c \in Buffer \ {b} : See(r', c) = See(r, c)
  /\ See(r', b) = pixels
\* The step shows nothing new.
Unseen == r'.app = r.app /\ \A b \in Buffer : See(r', b) = See(r, b)

LEMMA Overs ==
  ASSUME NEW f \in [Pixel -> Colour]
  PROVE  /\ Over(f, All(Solid)) = All(Solid) /\ Over(All(Solid), f) = All(Solid)
         /\ Over(f, All(Clear)) = f
BY Names3 DEF Over, All, Colour

LEMMA SoundInit == TargetsInit => Sound(r, classic)
<1> SUFFICES ASSUME TargetsInit PROVE Sound(r, classic)
  OBVIOUS
<1>1. r \in Renderer
  BY TargetsTypeInit, TypeOfRenderer DEF TargetsIInv
<1>2. PICK view \in Plane :
       r = [mem |-> [b \in Buffer |-> All(Clear)], cur |-> Fresh(view),
            base |-> view, stack |-> << >>, surf |-> [i \in Id |-> NoSurface],
            app |-> view, appOpaque |-> FALSE]
  BY DEF TargetsInit
<1>3. /\ r.cur = Fresh(view) /\ r.base = view /\ r.stack = << >> /\ r.app = view
      /\ r.appOpaque = FALSE /\ \A n \in Id : ~r.surf[n].live
  BY <1>2 DEF NoSurface
<1>4. Levels(r) = {1} /\ Level(r, 1) = r.cur
  BY <1>1, <1>3, Fields DEF Levels, Level
<1>5. r.cur.id = NoSurfaceId /\ r.cur.buf = view /\ ~r.cur.known /\ ~r.cur.empty
  BY <1>3 DEF Fresh
<1>6. Layout(r, classic)
  BY <1>3, <1>4, <1>5, Names3 DEF Layout, Home, Disjoint
<1>7. Remembered(r)
  BY <1>3, <1>4, <1>5 DEF Remembered, Honest
<1> QED
  BY <1>1, <1>6, <1>7 DEF Sound

\* Drawing on the current target.
LEMMA PaintStep ==
  ASSUME Sound(r, classic), Repaints(r, r'), Honest(r', r'.cur),
         r.appOpaque /\ r.app = r.cur.buf => Shows(r', r'.cur) = All(Solid)
  PROVE  Sound(r', classic) /\ Repictured(r.cur.buf, Shows(r', r'.cur))
<1>1. Sound(r', classic)
  BY RepaintSound
<1>2. r \in Renderer /\ Layout(r, classic)
  BY DEF Sound
<1>3. /\ Levels(r') = Levels(r) /\ \A i \in Levels(r) : Level(r', i).buf = Level(r, i).buf
  BY <1>2, RepaintLayout
<1>4. /\ See(r', r.cur.buf) = Shows(r', r'.cur)
      /\ \A b \in Buffer \ {r.cur.buf} : See(r', b) = See(r, b)
  BY <1>2, RepaintSees
<1> QED
  BY <1>1, <1>3, <1>4 DEF Repictured, Repaints

LEMMA CurrentSeen ==
  ASSUME NEW g, NEW k, Sound(g, k)
  PROVE  /\ See(g, g.cur.buf) = Shows(g, g.cur) /\ Honest(g, g.cur) /\ g.cur.buf \in Buffer
         /\ Shows(g, g.cur) \in [Pixel -> Colour] /\ g.cur \in Target
BY LevelTypes, SeeLevel, ShowsType, Fields DEF Sound, Layout, Remembered

LEMMA FillSound ==
  ASSUME Sound(r, classic), NEW c \in Colour, Repaints(r, r'), r'.cur.fill = c,
         r'.cur.opaque = (c = Solid), r'.cur.empty = (c = Clear),
         c = Clear => r.cur.buf # r.app \/ ~r.appOpaque
  PROVE  Sound(r', classic) /\ Repictured(r.cur.buf, All(c))
<1>1. Shows(r', r'.cur) = All(c)
  BY Names3 DEF Shows
<1>2. Honest(r', r'.cur)
  BY <1>1 DEF Honest
<1>3. r.appOpaque /\ r.app = r.cur.buf => Shows(r', r'.cur) = All(Solid)
  BY <1>1 DEF Colour
<1> QED
  BY <1>1, <1>2, <1>3, PaintStep

LEMMA ClearSound ==
  ASSUME Sound(r, classic), Habits = {}, NEW c \in Colour, ClearTarget(c)
  PROVE  Sound(r', classic) /\ Repictured(r.cur.buf, All(c))
<1>1. r \in Renderer
  BY DEF Sound
<1>2. /\ Repaints(r, r') /\ r'.cur.fill = c
      /\ r'.cur.opaque = (c = Solid) /\ r'.cur.empty = (c = Clear)
  BY <1>1, ClearStep, Zenon
<1>3. c = Clear => r.cur.buf # r.app \/ ~r.appOpaque
  BY DEF ClearTarget, Holes
<1> QED
  BY <1>2, <1>3, FillSound, Zenon

LEMMA RectSound ==
  ASSUME Sound(r, classic), DrawRect
  PROVE  Sound(r', classic) /\ Repictured(r.cur.buf, All(Solid))
<1>1. r \in Renderer /\ Solid \in Colour /\ Solid # Clear
  BY Names3 DEF Sound
<1>2. /\ Repaints(r, r') /\ r'.cur.fill = Solid
      /\ r'.cur.opaque = (Solid = Solid) /\ r'.cur.empty = (Solid = Clear)
  BY <1>1, RectStep
<1> QED
  BY <1>1, <1>2, FillSound, Zenon

LEMMA PixelSound ==
  ASSUME Sound(r, classic), NEW p \in Pixel, DrawPixel(p)
  PROVE  Sound(r', classic) /\ Repictured(r.cur.buf, [Shows(r, r.cur) EXCEPT ![p] = Solid])
<1> DEFINE w == PrepareDraw(r)
           new == [Shows(r, r.cur) EXCEPT ![p] = Solid]
<1>1. r \in Renderer
  BY DEF Sound
<1>2. /\ Repaints(r, r') /\ r'.cur = w.cur /\ r'.mem[r.cur.buf] = new
  BY <1>1, PixelStep
<1>3. Honest(r, r.cur) /\ Shows(r, r.cur) \in [Pixel -> Colour] /\ See(r, r.cur.buf) = Shows(r, r.cur)
  BY CurrentSeen
<1>4. w.cur.fill = None /\ ~w.cur.empty
  BY <1>1, PrepareDrawFields
<1>5. Honest(w, w.cur) /\ Shows(w, w.cur) = Shows(r, r.cur)
  BY <1>1, <1>3, PrepareHonest
<1> HIDE DEF w, new
<1>6. Shows(r', r'.cur) = new
  BY <1>2, <1>4 DEF Shows, Repaints
<1>7. Shows(r, r.cur) = All(Solid) => new = All(Solid)
  BY <1>3 DEF All, new
<1>8. Honest(r', r'.cur)
  BY <1>2, <1>4, <1>5, <1>6, <1>7 DEF Honest
<1>9. r.appOpaque /\ r.app = r.cur.buf => Shows(r', r'.cur) = All(Solid)
  BY <1>3, <1>6, <1>7 DEF Sound, Remembered
<1>10. Sound(r', classic) /\ Repictured(r.cur.buf, Shows(r', r'.cur))
  BY <1>2, <1>8, <1>9, PaintStep
<1> QED
  BY <1>6, <1>10 DEF new

LEMMA PunchSound ==
  ASSUME Sound(r, classic), Habits = {}, NEW p \in Pixel, Punch(p)
  PROVE  Sound(r', classic) /\ Repictured(r.cur.buf, [Shows(r, r.cur) EXCEPT ![p] = Clear])
<1> DEFINE new == [Shows(r, r.cur) EXCEPT ![p] = Clear]
<1>1. r \in Renderer
  BY DEF Sound
<1>2. /\ Repaints(r, r') /\ r'.cur.fill = None
      /\ r'.cur.known = FALSE /\ r'.cur.empty = FALSE
      /\ r'.mem[r.cur.buf] = new
  BY <1>1, PunchStep
<1>3. r.cur.buf # r.app \/ ~r.appOpaque
  BY DEF Punch, Holes
<1> HIDE DEF new
<1>4. Shows(r', r'.cur) = new
  BY <1>2 DEF Shows, Repaints
<1>5. Honest(r', r'.cur)
  BY <1>2 DEF Honest
<1>6. Sound(r', classic) /\ Repictured(r.cur.buf, Shows(r', r'.cur))
  BY <1>2, <1>3, <1>5, PaintStep
<1> QED
  BY <1>4, <1>6 DEF new

\* Known emptiness and known opacity are true of what is read.
LEMMA KnownTrue ==
  ASSUME NEW g, NEW k, Sound(g, k), NEW n \in Name,
         n \in Id => g.surf[n].live /\ Unbound(g, n)
  PROVE  /\ KnownEmpty(g, n) => See(g, BufferOf(g, n)) = All(Clear)
         /\ KnownOpaque(g, n) => See(g, BufferOf(g, n)) = All(Solid)
<1>1. CASE n = Application
  BY <1>1 DEF KnownEmpty, KnownOpaque, BufferOf, Sound, Remembered
<1>2. CASE n \in Id
  <2>1. BufferOf(g, n) = n
    BY <1>2, Names3 DEF BufferOf
  <2>2. Truthful(g, n) /\ See(g, n) = g.mem[n]
    BY <1>2, SeeUnbound DEF Sound, Remembered
  <2> QED
    BY <1>2, <2>1, <2>2, Names3 DEF KnownEmpty, KnownOpaque, Truthful
<1> QED
  BY <1>1, <1>2 DEF Name

\* Compositing a surface nothing is drawn on at the moment, or surface 0.
LEMMA CompositeSound ==
  ASSUME NEW g, NEW k, Sound(g, k), NEW n \in Name,
         n \in Id => g.surf[n].live /\ Unbound(g, n),
         NEW s, s = BufferOf(g, n), NEW t, t = g.cur.buf,
         s # t => g.mem[s] = See(g, s),
         NEW h, h = Composite(g, n)
  PROVE  /\ Repaints(g, h) /\ Honest(h, h.cur)
         /\ Shows(h, h.cur) = Over(See(g, t), See(g, s))
         /\ g.appOpaque /\ g.app = t => Shows(h, h.cur) = All(Solid)
<1> DEFINE x == See(g, t)
           y == See(g, s)
           w == PrepareDraw(g)
<1>0. g \in Renderer /\ Remembered(g) /\ Disjoint(g)
  BY DEF Sound, Layout
<1>1. /\ x = Shows(g, g.cur) /\ Honest(g, g.cur) /\ t \in Buffer /\ s \in Buffer
      /\ x \in [Pixel -> Colour] /\ y \in [Pixel -> Colour] /\ g.cur \in Target
  BY <1>0, CurrentSeen, BufferOfType, SeeType
<1>2. /\ KnownEmpty(g, n) => y = All(Clear)
      /\ KnownOpaque(g, n) => y = All(Solid)
  BY KnownTrue
<1>3. /\ Over(x, All(Solid)) = All(Solid) /\ Over(All(Solid), y) = All(Solid)
      /\ Over(x, All(Clear)) = x
  BY <1>1, Overs
<1>4. /\ Repaints(g, h)
      /\ s # t /\ KnownEmpty(g, n) => h = g
      /\ s # t /\ ~KnownEmpty(g, n) /\ KnownOpaque(g, n) =>
           /\ h.mem[t] = g.mem[s]
           /\ h.cur = [g.cur EXCEPT !.fill = None, !.empty = FALSE,
                                    !.known = TRUE, !.opaque = TRUE]
      /\ s = t \/ (~KnownEmpty(g, n) /\ ~KnownOpaque(g, n)) =>
           /\ h.mem[t] = Over(Shows(g, g.cur), w.mem[s])
           /\ h.cur = [w.cur EXCEPT !.known = @ \/ KnownOpaque(g, n),
                                    !.opaque = @ \/ KnownOpaque(g, n)]
  <2>1. g \in Renderer
    BY <1>0
  <2>2. Repaints(g, Composite(g, n))
    BY <2>1, CompositeFields, Zenon
  <2>3. s # t /\ KnownEmpty(g, n) => Composite(g, n) = g
    BY <2>1, CompositeSkips, Zenon
  <2>4. s # t /\ ~KnownEmpty(g, n) /\ KnownOpaque(g, n) =>
             /\ Composite(g, n).mem[t] = g.mem[s]
             /\ Composite(g, n).cur = [g.cur EXCEPT !.fill = None, !.empty = FALSE,
                                                    !.known = TRUE, !.opaque = TRUE]
    BY <2>1, CompositeCopies, Zenon
  <2>5. s = t \/ (~KnownEmpty(g, n) /\ ~KnownOpaque(g, n)) =>
             /\ Composite(g, n).mem[t] = Over(Shows(g, g.cur), PrepareDraw(g).mem[s])
             /\ Composite(g, n).cur =
                  [PrepareDraw(g).cur EXCEPT !.known = @ \/ KnownOpaque(g, n),
                                             !.opaque = @ \/ KnownOpaque(g, n)]
    BY <2>1, CompositeMixes, Zenon
  <2> QED
    BY <2>2, <2>3, <2>4, <2>5, Zenon
<1>5. g.appOpaque /\ g.app = t => x = All(Solid)
  BY <1>0 DEF Remembered
<1>6. /\ Repaints(g, w) /\ w.cur.fill = None /\ w.mem[t] = x /\ ~w.cur.empty
      /\ Honest(w, w.cur) /\ Shows(w, w.cur) = x
  BY <1>0, <1>1, PrepareDrawFields, PrepareHonest
<1>7. KnownEmpty(g, n) \in BOOLEAN /\ KnownOpaque(g, n) \in BOOLEAN
  BY <1>0, KnownType
<1>8. h.cur.buf = t
  BY <1>4 DEF Repaints
<1> HIDE DEF x, y, w
<1>9. CASE s # t /\ KnownEmpty(g, n)
  <2>1. h = g /\ y = All(Clear)
    BY <1>2, <1>4, <1>9
  <2>2. Over(x, y) = x
    BY <1>3, <2>1
  <2> QED
    BY <1>1, <1>4, <1>5, <2>1, <2>2 DEF x, y
<1>10. CASE s # t /\ ~KnownEmpty(g, n) /\ KnownOpaque(g, n)
  <2>1. h.mem[t] = y /\ y = All(Solid)
    BY <1>2, <1>4, <1>10 DEF y
  <2>2. h.cur.fill = None /\ h.cur.empty = FALSE
    BY <1>1, <1>4, <1>10 DEF Target
  <2>3. Shows(h, h.cur) = All(Solid)
    BY <1>8, <2>1, <2>2 DEF Shows
  <2>4. Over(x, y) = All(Solid)
    BY <1>3, <2>1
  <2>5. Honest(h, h.cur)
    BY <2>2, <2>3 DEF Honest
  <2> QED
    BY <1>4, <2>3, <2>4, <2>5 DEF x, y
<1>11. CASE s = t \/ (~KnownEmpty(g, n) /\ ~KnownOpaque(g, n))
  <2>1. /\ h.mem[t] = Over(x, w.mem[s])
        /\ h.cur = [w.cur EXCEPT !.known = @ \/ KnownOpaque(g, n),
                                 !.opaque = @ \/ KnownOpaque(g, n)]
    BY <1>1, <1>4, <1>11
  <2>2. w.mem[s] = y
    <3>1. CASE s = t
      BY <1>6, <3>1 DEF x, y
    <3>2. CASE s # t
      BY <1>1, <1>6, <3>2 DEF y, Repaints
    <3> QED
      BY <3>1, <3>2
  <2>3. w.cur \in Target
    BY <1>6, Fields DEF Repaints
  <2>4. /\ h.cur.fill = None /\ ~h.cur.empty
        /\ h.cur.known = (w.cur.known \/ KnownOpaque(g, n))
        /\ h.cur.opaque = (w.cur.opaque \/ KnownOpaque(g, n))
    BY <1>6, <2>1, <2>3 DEF Target
  <2>5. Shows(h, h.cur) = Over(x, y)
    BY <1>8, <2>1, <2>2, <2>4 DEF Shows
  <2>6. KnownOpaque(g, n) => Over(x, y) = All(Solid)
    BY <1>2, <1>3
  <2>7. w.cur.known /\ w.cur.opaque => Over(x, y) = All(Solid)
    BY <1>3, <1>6 DEF Honest
  <2>8. Honest(h, h.cur)
    BY <2>4, <2>5, <2>6, <2>7 DEF Honest
  <2>9. g.appOpaque /\ g.app = t => Over(x, y) = All(Solid)
    BY <1>3, <1>5
  <2> QED
    BY <1>4, <2>5, <2>8, <2>9 DEF x, y
<1> QED
  BY <1>9, <1>10, <1>11

LEMMA BorrowedLevels ==
  ASSUME NEW g \in Renderer, NEW b
  PROVE  /\ b \notin Borrowed(g) => Unbound(g, b)
         /\ b \notin Suspended(g) <=> \A i \in 1..Len(g.stack) : g.stack[i].buf # b
<1>1. DOMAIN g.stack = 1..Len(g.stack)
  BY Fields
<1> QED
  BY <1>1, LevelTypes DEF Borrowed, Suspended, Unbound, Levels, Level

LEMMA NamesLive ==
  ASSUME NEW g \in Renderer, NEW n \in Names(g)
  PROVE  n \in Name /\ (n \in Id => g.surf[n].live)
BY Names3 DEF Names, Name

LEMMA DrawSound ==
  ASSUME Sound(r, classic), Habits = {}, NEW n, DrawSurface(n)
  PROVE  /\ Sound(r', classic)
         /\ Repictured(r.cur.buf, Over(See(r, r.cur.buf), See(r, BufferOf(r, n))))
<1> DEFINE q == Read(r, n)
           s == BufferOf(r, n)
           t == r.cur.buf
<1>0. r \in Renderer /\ Layout(r, classic) /\ n \in Names(r)
  BY DEF Sound, DrawSurface
<1>1. n \in Name /\ (n \in Id => r.surf[n].live)
  BY <1>0, NamesLive
<1>2. n \in Id => Unbound(r, n)
  BY <1>0, BorrowedLevels DEF DrawSurface
<1>3. /\ Sound(q, classic) /\ Levels(q) = Levels(r)
      /\ \A i \in Levels(r) : Level(q, i).buf = Level(r, i).buf
      /\ \A b \in Buffer : See(q, b) = See(r, b)
      /\ s # t => q.mem[s] = See(r, s)
  BY <1>1, ReadSound
<1>4. q.cur = r.cur /\ q.surf = r.surf /\ q.app = r.app
  BY <1>0, <1>1, ReadFrame
<1>5. r' = Composite(q, n)
  BY DEF DrawSurface
<1>6. s = BufferOf(q, n) /\ s \in Buffer /\ t \in Buffer
  BY <1>0, <1>1, <1>4, BufferOfType, CurrentSeen DEF BufferOf
<1> HIDE DEF q, s, t
<1>7. n \in Id => q.surf[n].live /\ Unbound(q, n)
  BY <1>1, <1>2, <1>3, <1>4 DEF Unbound
<1>8. t = q.cur.buf /\ (s # t => q.mem[s] = See(q, s))
  BY <1>3, <1>4, <1>6 DEF t
<1>9. /\ Repaints(q, r') /\ Honest(r', r'.cur)
      /\ Shows(r', r'.cur) = Over(See(q, t), See(q, s))
      /\ q.appOpaque /\ q.app = t => Shows(r', r'.cur) = All(Solid)
  <2>1. ASSUME NEW h, h = Composite(q, n)
        PROVE  /\ Repaints(q, h) /\ Honest(h, h.cur)
               /\ Shows(h, h.cur) = Over(See(q, t), See(q, s))
               /\ q.appOpaque /\ q.app = t => Shows(h, h.cur) = All(Solid)
    BY <1>1, <1>3, <1>6, <1>7, <1>8, <2>1, CompositeSound
  <2> QED
    BY <1>5, <2>1
<1>10. Sound(r', classic)
  BY <1>3, <1>8, <1>9, RepaintSound
<1>11. q \in Renderer /\ Layout(q, classic)
  BY <1>3 DEF Sound
<1>12. /\ See(r', t) = Shows(r', r'.cur)
       /\ \A b \in Buffer \ {t} : See(r', b) = See(q, b)
  BY <1>8, <1>9, <1>11, RepaintSees
<1>13. Levels(r') = Levels(q) /\ \A i \in Levels(q) : Level(r', i).buf = Level(q, i).buf
  BY <1>9, <1>11, RepaintLayout
<1>14. r'.app = r.app
  BY <1>4, <1>9 DEF Repaints
<1>15. See(r', t) = Over(See(r, t), See(r, s))
  BY <1>3, <1>6, <1>9, <1>12
<1>16. Repictured(t, Over(See(r, t), See(r, s)))
  BY <1>3, <1>12, <1>13, <1>14, <1>15 DEF Repictured
<1> QED
  BY <1>10, <1>16 DEF s, t

\* Choosing what to draw on.
LEMMA UnbindSound ==
  ASSUME Sound(r, classic), Habits = {}, Unbind
  PROVE  Sound(r', classic) /\ Unseen
<1>1. /\ r.stack # << >> /\ ~(r.cur.id = Application /\ r.cur.fill # None)
      /\ r' = ResetTarget(r)
  BY DEF Unbind
<1>2. r.cur.id = Application => r.cur.fill = None
  BY <1>1
<1>3. /\ Sound(ResetTarget(r), classic)
      /\ \A b \in Buffer : See(ResetTarget(r), b) = See(r, b)
      /\ ResetTarget(r).app = r.app
  BY <1>1, <1>2, PopSound
<1> QED
  BY <1>1, <1>3 DEF Unseen

\* A surface that no suspended target refers to needs no fill performed.
LEMMA NothingToRead ==
  ASSUME NEW g, NEW k, Sound(g, k), NEW n \in Name, BufferOf(g, n) \notin Suspended(g)
  PROVE  Read(g, n) = g
<1>1. g \in Renderer
  BY DEF Sound
<1>2. \A i \in 1..Len(g.stack) : g.stack[i].buf # BufferOf(g, n)
  BY <1>1, BorrowedLevels
<1> QED
  BY <1>2, ReadSound

\* A classic program's target is closed, and the new one put in its place.
LEMMA RebindSound ==
  ASSUME Sound(r, classic), NEW n \in Id, r.surf[n].live, n \notin Suspended(r),
         classic, r.cur.id # NoSurfaceId
  PROVE  LET h == Push(Read(ResetTarget(r), n), n)
         IN  /\ Sound(h, classic) /\ h.app = r.app
             /\ \A b \in Buffer : See(h, b) = See(r, b)
<1> DEFINE z == ResetTarget(r)
<1>0. r \in Renderer /\ Layout(r, classic) /\ n \in Name
  BY DEF Sound, Name
<1>1. r.stack # << >>
  BY <1>0, WhoIsWhere
<1>2. r.cur.id # Application
  BY <1>0, LevelTypes DEF Layout
<1>3. /\ Sound(z, classic) /\ Len(z.stack) = Len(r.stack) - 1
      /\ \A i \in 1..Len(r.stack) : Level(z, i) = r.stack[i]
      /\ \A b \in Buffer : See(z, b) = See(r, b)
      /\ z.app = r.app /\ z.surf[n].live
  BY <1>1, <1>2, PopSound
<1> HIDE DEF z
<1>4. z \in Renderer /\ BufferOf(z, n) = n
  BY <1>3, Names3 DEF Sound, BufferOf
<1>5. Unbound(z, n)
  <2>1. \A i \in 1..Len(r.stack) : r.stack[i].buf # n
    BY <1>0, BorrowedLevels
  <2>2. Levels(z) = 1..Len(r.stack)
    BY <1>0, <1>3, LevelTypes DEF Levels
  <2> QED
    BY <1>3, <2>1, <2>2 DEF Unbound
<1>6. Read(z, n) = z
  <2>1. \A i \in 1..Len(z.stack) : z.stack[i].buf # n
    BY <1>4, <1>5, LevelTypes DEF Unbound
  <2>2. BufferOf(z, n) \notin Suspended(z)
    BY <1>4, <2>1, BorrowedLevels
  <2> QED
    BY <1>0, <1>3, <2>2, NothingToRead
<1>7. classic => n # Application
  BY Names3
<1>8. /\ Sound(Push(z, n), classic) /\ Push(z, n).app = z.app
      /\ \A b \in Buffer : See(Push(z, n), b) = See(z, b)
  BY <1>0, <1>3, <1>4, <1>5, <1>7, PushSound
<1>9. /\ Sound(Push(Read(z, n), n), classic) /\ Push(Read(z, n), n).app = r.app
      /\ \A b \in Buffer : See(Push(Read(z, n), n), b) = See(r, b)
  BY <1>3, <1>6, <1>8
<1> QED
  BY <1>9 DEF z

LEMMA BindSound ==
  ASSUME Sound(r, classic), Habits = {}, NEW n, Bind(n)
  PROVE  Sound(r', classic) /\ Unseen
<1>0. /\ r \in Renderer /\ Layout(r, classic) /\ n \in Names(r) /\ (classic => n # Application)
      /\ BufferOf(r, n) \notin (IF classic THEN Suspended(r) ELSE Borrowed(r))
  BY DEF Sound, Bind
<1>1. n \in Name /\ (n \in Id => r.surf[n].live)
  BY <1>0, NamesLive
<1>2. BufferOf(r, n) \notin Suspended(r)
  BY <1>0 DEF Borrowed, Suspended
<1>3. Read(r, n) = r
  BY <1>1, <1>2, NothingToRead
<1>4. r' = SetTarget(r, n)
  BY DEF Bind
<1>5. CASE Len(r.stack) >= Depth
  <2>1. r' = r
    BY <1>3, <1>4, <1>5 DEF SetTarget
  <2> QED
    BY <2>1 DEF Unseen
<1>6. CASE ~(Len(r.stack) >= Depth) /\ classic /\ r.cur.id # NoSurfaceId
  <2>1. r' = Push(Read(ResetTarget(r), n), n)
    BY <1>3, <1>4, <1>6 DEF SetTarget
  <2>2. n \in Id /\ n \notin Suspended(r) /\ r.surf[n].live
    BY <1>0, <1>1, <1>2, <1>6, Names3 DEF Name, BufferOf
  <2>3. /\ Sound(Push(Read(ResetTarget(r), n), n), classic)
        /\ Push(Read(ResetTarget(r), n), n).app = r.app
        /\ \A b \in Buffer : See(Push(Read(ResetTarget(r), n), n), b) = See(r, b)
    BY <1>6, <2>2, RebindSound, Zenon
  <2> QED
    BY <2>1, <2>3 DEF Unseen
<1>7. CASE ~(Len(r.stack) >= Depth) /\ ~(classic /\ r.cur.id # NoSurfaceId)
  <2>1. r' = Push(r, n)
    BY <1>3, <1>4, <1>7 DEF SetTarget
  <2>2. Unbound(r, BufferOf(r, n))
    <3>1. CASE ~classic
      BY <1>0, <3>1, BorrowedLevels
    <3>2. CASE classic
      <4>1. r.stack = << >> /\ r.cur.buf = r.base /\ r.base \in {Screen, r.app}
        BY <1>0, <1>7, <3>2, WhoIsWhere DEF Layout
      <4>2. BufferOf(r, n) \in Id
        BY <1>0, <1>1, <3>2 DEF Name, BufferOf
      <4>3. r.cur.buf # BufferOf(r, n)
        BY <1>0, <4>1, <4>2, Fields, Names3
      <4>4. \A i \in Levels(r) : Level(r, i) = r.cur
        BY <1>0, <4>1, Fields DEF Levels, Level
      <4> QED
        BY <4>3, <4>4 DEF Unbound
    <3> QED
      BY <3>1, <3>2
  <2>3. /\ Sound(Push(r, n), classic) /\ Push(r, n).app = r.app
        /\ \A b \in Buffer : See(Push(r, n), b) = See(r, b)
    BY <1>0, <1>1, <2>2, PushSound
  <2> QED
    BY <2>1, <2>3 DEF Unseen
<1> QED
  BY <1>5, <1>6, <1>7

\* A surface no level refers to is given a new record and new pixels.
LEMMA ReplaceSound ==
  ASSUME Sound(r, classic), NEW n \in Id, Unbound(r, n), NEW rec, NEW pixels,
         Replaces(n, rec, pixels),
         rec.live /\ rec.known /\ rec.opaque => pixels = All(Solid),
         rec.live /\ rec.empty => pixels = All(Clear)
  PROVE  Sound(r', classic) /\ Repictured(n, pixels)
<1>0. /\ r \in Renderer /\ Layout(r, classic) /\ Disjoint(r) /\ Remembered(r) /\ r.app \in Plane
      /\ n \in Buffer
  BY Fields DEF Sound, Layout, Buffer
<1>1. /\ r' \in Renderer /\ r'.cur = r.cur /\ r'.stack = r.stack /\ r'.base = r.base
      /\ r'.app = r.app /\ r'.appOpaque = r.appOpaque
      /\ \A b \in Buffer \ {n} : r'.mem[b] = r.mem[b]
      /\ \A i \in Id \ {n} : r'.surf[i] = r.surf[i]
      /\ r'.mem[n] = pixels /\ r'.surf[n] = rec
  BY DEF Replaces
<1>2. Levels(r') = Levels(r) /\ \A i \in Levels(r) : Level(r', i) = Level(r, i)
  BY <1>1 DEF Levels, Level
<1>3. \A i \in Levels(r) : Level(r, i).buf # n /\ Level(r, i).buf \in Buffer
  BY <1>0, LevelTypes DEF Unbound
<1>4. \A i \in Levels(r) : Shows(r', Level(r', i)) = Shows(r, Level(r, i))
  BY <1>1, <1>2, <1>3 DEF Shows
<1>5. Disjoint(r')
  BY <1>0, <1>2 DEF Disjoint
<1>6. Layout(r', classic)
  <2>1. \A id : Home(r', id) = Home(r, id)
    BY <1>1 DEF Home, BufferOf
  <2>2. \A i \in Levels(r) : Level(r, i).id # n
    BY <1>0, <1>3, Names3 DEF Layout, Home, BufferOf
  <2>3. 1 \in Levels(r)
    BY <1>0, LevelTypes
  <2> QED
    BY <1>0, <1>1, <1>2, <1>5, <2>1, <2>2, <2>3 DEF Layout
<1>7. See(r', n) = pixels
  <2>1. Unbound(r', n)
    BY <1>2, <1>3 DEF Unbound
  <2> QED
    BY <1>1, <2>1, SeeUnbound
<1>8. ASSUME NEW b \in Buffer \ {n} PROVE See(r', b) = See(r, b)
  <2>1. CASE Unbound(r, b)
    <3>1. Unbound(r', b)
      BY <1>2, <2>1 DEF Unbound
    <3> QED
      BY <1>0, <1>1, <2>1, <3>1, SeeUnbound
  <2>2. CASE ~Unbound(r, b)
    <3>1. PICK i \in Levels(r) : Level(r, i).buf = b
      BY <2>2 DEF Unbound
    <3>2. See(r, b) = Shows(r, Level(r, i))
      BY <1>0, <3>1, SeeLevel
    <3>3. See(r', b) = Shows(r', Level(r', i))
      BY <1>1, <1>2, <1>5, <3>1, SeeLevel
    <3> QED
      BY <1>4, <3>1, <3>2, <3>3
  <2> QED
    BY <2>1, <2>2
<1>9. Remembered(r')
  <2>1. ASSUME NEW i \in Levels(r') PROVE Honest(r', Level(r', i))
    <3>1. Honest(r, Level(r, i))
      BY <1>0, <1>2 DEF Remembered
    <3> QED
      BY <1>2, <1>4, <3>1 DEF Honest
  <2>2. ASSUME NEW m \in Id, r'.surf[m].live, Unbound(r', m) PROVE Truthful(r', m)
    <3>1. CASE m = n
      BY <1>1, <2>2, <3>1 DEF Truthful
    <3>2. CASE m # n
      <4>1. Unbound(r, m) /\ m \in Buffer
        BY <1>2, <2>2 DEF Unbound, Buffer
      <4>2. r'.surf[m] = r.surf[m] /\ r'.mem[m] = r.mem[m]
        BY <1>1, <3>2, <4>1
      <4>3. Truthful(r, m)
        BY <1>0, <2>2, <4>1, <4>2 DEF Remembered
      <4> QED
        BY <4>2, <4>3 DEF Truthful
    <3> QED
      BY <3>1, <3>2
  <2>3. r'.appOpaque => See(r', r'.app) = All(Solid)
    <3>1. r.app \in Buffer \ {n}
      BY <1>0, Fields, Names3
    <3> QED
      BY <1>0, <1>1, <1>8, <3>1 DEF Remembered
  <2> QED
    BY <2>1, <2>2, <2>3 DEF Remembered
<1>10. Sound(r', classic)
  BY <1>1, <1>6, <1>9 DEF Sound
<1> QED
  BY <1>1, <1>2, <1>7, <1>8, <1>10 DEF Repictured

LEMMA CreateSound ==
  ASSUME Sound(r, classic), NEW n \in Id, Create(n)
  PROVE  Sound(r', classic) /\ Repictured(n, All(Clear))
<1> DEFINE rec == [live |-> TRUE, known |-> TRUE, opaque |-> FALSE, empty |-> TRUE]
<1>1. r \in Renderer /\ Layout(r, classic) /\ ~r.surf[n].live /\ r.app \in Plane
  BY Fields DEF Sound, Create
<1>2. Replaces(n, rec, All(Clear))
  BY <1>1, CreateStep
<1>3. Unbound(r, n)
  <2>1. ASSUME NEW i \in Levels(r), Level(r, i).buf = n PROVE FALSE
    <3>1. Level(r, i).id \in {NoSurfaceId} \union Name /\ n = Home(r, Level(r, i).id)
      BY <1>1, <2>1, LevelTypes DEF Layout, Target
    <3>2. Level(r, i).id = n
      BY <1>1, <3>1, Names3 DEF Layout, Home, BufferOf, Name
    <3> QED
      BY <1>1, <3>2 DEF Layout
  <2> QED
    BY <2>1 DEF Unbound
<1>4. ~rec.opaque
  OBVIOUS
<1> HIDE DEF rec
<1> QED
  BY <1>2, <1>3, <1>4, ReplaceSound

LEMMA FreeSound ==
  ASSUME Sound(r, classic), Habits = {}, NEW n \in Id, Free(n)
  PROVE  Sound(r', classic) /\ Repictured(n, All(Clear))
<1>1. r \in Renderer /\ n \notin Borrowed(r)
  BY DEF Sound, Free
<1>2. Replaces(n, NoSurface, All(Clear))
  BY <1>1, FreeStep
<1>3. Unbound(r, n)
  BY <1>1, BorrowedLevels
<1>4. ~NoSurface.live
  BY DEF NoSurface
<1> QED
  BY <1>2, <1>3, <1>4, ReplaceSound

LEMMA KeptClear == ASSUME NEW part PROVE Kept(All(Clear), part) = All(Clear)
BY DEF Kept, All

LEMMA ResizeSound ==
  ASSUME Sound(r, classic), Habits = {}, NEW n \in Id, NEW part \in SUBSET Pixel, Resize(n, part)
  PROVE  Sound(r', classic) /\ Repictured(n, Kept(See(r, n), part))
<1> DEFINE rec == [live |-> TRUE, known |-> FALSE, opaque |-> FALSE, empty |-> r.surf[n].empty]
<1>1. r \in Renderer /\ n \notin Borrowed(r) /\ r.surf[n].live
  BY DEF Sound, Resize
<1>2. Replaces(n, rec, Kept(r.mem[n], part))
  BY <1>1, ResizeStep
<1>3. Unbound(r, n)
  BY <1>1, BorrowedLevels
<1>4. See(r, n) = r.mem[n] /\ Truthful(r, n)
  BY <1>1, <1>3, SeeUnbound DEF Sound, Remembered
<1>5. ~rec.opaque /\ rec.empty = r.surf[n].empty
  OBVIOUS
<1> HIDE DEF rec
<1>6. rec.empty => Kept(r.mem[n], part) = All(Clear)
  BY <1>4, <1>5, KeptClear DEF Truthful
<1>7. Sound(r', classic) /\ Repictured(n, Kept(r.mem[n], part))
  BY <1>2, <1>3, <1>5, <1>6, ReplaceSound
<1> QED
  BY <1>4, <1>7

\* The pass ends: the fill of the moment is performed, and surface 0 is known
\* to be opaque when the pass over it was.
LEMMA EndSound ==
  ASSUME Sound(r, classic), Habits = {}, EndPass
  PROVE  Sound(r', classic) /\ Unseen
<1> DEFINE f == Flush(r)
<1>0. r \in Renderer /\ Layout(r, classic) /\ Remembered(r)
  BY DEF Sound
<1>1. /\ See(r, r.cur.buf) = Shows(r, r.cur) /\ Honest(r, r.cur)
  BY CurrentSeen
<1>2. Repaints(r, f) /\ f.cur.fill = None
  BY <1>0, FlushFields, Zenon
<1>3. Honest(f, f.cur) /\ Shows(f, f.cur) = Shows(r, r.cur)
  BY <1>0, <1>1, FlushHonest
<1>4. /\ r' \in Renderer
      /\ r'.mem = f.mem /\ r'.cur = f.cur /\ r'.stack = r.stack
      /\ r'.base = r.base /\ r'.surf = r.surf /\ r'.app = r.app
      /\ r.base = r.app /\ ~(classic /\ r.stack # << >>) =>
           r'.appOpaque = (f.cur.known /\ f.cur.opaque)
      /\ ~(r.base = r.app /\ ~(classic /\ r.stack # << >>)) => r'.appOpaque = r.appOpaque
  BY <1>0, EndStep, Zenon
<1>5. classic \/ r.stack = << >>
  BY DEF EndPass
<1> HIDE DEF f
<1>6. r.appOpaque /\ r.app = r.cur.buf => Shows(f, f.cur) = All(Solid)
  BY <1>0, <1>1, <1>3 DEF Remembered
<1>7. Sound(f, classic)
  BY <1>2, <1>3, <1>6, RepaintSound
<1>8. \A b \in Buffer : See(f, b) = See(r, b)
  BY <1>0, <1>1, <1>2, <1>3, RepaintSees
<1>9. /\ f.stack = r.stack /\ f.base = r.base /\ f.surf = r.surf /\ f.app = r.app
      /\ f.cur.buf = r.cur.buf /\ f.appOpaque = r.appOpaque
  BY <1>2 DEF Repaints
<1>10. \A b : See(r', b) = See(f, b)
  BY <1>4, <1>9 DEF See
<1>11. Levels(r') = Levels(f) /\ \A i : Level(r', i) = Level(f, i)
  BY <1>4, <1>9 DEF Levels, Level
<1>12. Layout(r', classic)
  <2>1. \A id : Home(r', id) = Home(f, id)
    BY <1>4, <1>9 DEF Home, BufferOf
  <2>2. Layout(f, classic)
    BY <1>7 DEF Sound
  <2>3. Disjoint(r')
    BY <1>11, <2>2 DEF Disjoint, Layout
  <2> QED
    BY <1>4, <1>9, <1>11, <2>1, <2>2, <2>3 DEF Layout
<1>13. r'.appOpaque => See(r', r'.app) = All(Solid)
  <2>1. CASE r.base = r.app /\ ~(classic /\ r.stack # << >>)
    <3>1. r.cur.buf = r.app
      BY <1>0, <1>5, <2>1, WhoIsWhere
    <3>2. See(r', r.app) = Shows(f, f.cur)
      BY <1>0, <1>1, <1>3, <1>8, <1>10, <3>1, Fields
    <3> QED
      BY <1>3, <1>4, <2>1, <3>2 DEF Honest
  <2>2. CASE ~(r.base = r.app /\ ~(classic /\ r.stack # << >>))
    BY <1>0, <1>4, <1>8, <1>10, <2>2, Fields DEF Remembered
  <2> QED
    BY <2>1, <2>2
<1>14. Remembered(r')
  <2>1. Remembered(f)
    BY <1>7 DEF Sound
  <2>2. \A t : Shows(r', t) = Shows(f, t)
    BY <1>4 DEF Shows
  <2>3. \A i \in Levels(r') : Honest(r', Level(r', i))
    BY <1>11, <2>1, <2>2 DEF Remembered, Honest
  <2>4. ASSUME NEW m \in Id, r'.surf[m].live, Unbound(r', m) PROVE Truthful(r', m)
    <3>1. Unbound(f, m)
      BY <1>11, <2>4 DEF Unbound
    <3>2. Truthful(f, m)
      BY <1>4, <1>9, <2>1, <2>4, <3>1 DEF Remembered
    <3> QED
      BY <1>4, <1>9, <3>2 DEF Truthful
  <2> QED
    BY <1>13, <2>3, <2>4 DEF Remembered
<1>15. \A b \in Buffer : See(r', b) = See(r, b)
  BY <1>8, <1>10
<1> QED
  BY <1>4, <1>12, <1>14, <1>15 DEF Sound, Unseen

\* With no fill waiting, every buffer shows its pixels.
LEMMA NothingWaits ==
  ASSUME NEW g \in Renderer, \A i \in Levels(g) : Level(g, i).fill = None
  PROVE  \A b : See(g, b) = g.mem[b]
<1>1. g.cur.fill = None /\ \A i \in 1..Len(g.stack) : g.stack[i].fill = None
  BY LevelTypes
<1>2. DOMAIN g.stack = 1..Len(g.stack)
  BY Fields
<1>3. \A b : {i \in DOMAIN g.stack : g.stack[i].buf = b /\ g.stack[i].fill # None} = {}
  BY <1>1, <1>2
<1> QED
  BY <1>1, <1>3 DEF See

LEMMA AllTargets ==
  ASSUME NEW g \in Renderer, NEW i \in Levels(g)
  PROVE  Level(g, i) \in {g.cur} \union ToSet(g.stack)
<1>1. DOMAIN g.stack = 1..Len(g.stack)
  BY Fields
<1> QED
  BY <1>1, LevelTypes DEF ToSet

\* A pass starts: its target is the only level.
LEMMA BeginSound ==
  ASSUME Sound(r, classic), Habits = {}, NEW b \in {Screen, r.app}, Begin(b)
  PROVE  Sound(r', classic) /\ Unseen
<1>0. /\ r \in Renderer /\ Layout(r, classic) /\ Remembered(r) /\ r.app \in Plane
  BY Fields DEF Sound
<1>1. /\ r' \in Renderer /\ r'.cur = Fresh(b) /\ r'.base = b /\ r'.stack = << >>
      /\ r'.mem = r.mem /\ r'.surf = r.surf /\ r'.app = r.app /\ r'.appOpaque = r.appOpaque
  BY <1>0, BeginStep
<1>2. r.stack = << >> /\ NoFillWaits
  BY DEF Begin
<1>3. \A i \in Levels(r) : Level(r, i).fill = None
  BY <1>0, <1>2, AllTargets DEF NoFillWaits
<1>4. Levels(r) = {1} /\ Level(r, 1) = r.cur /\ r.cur.buf \in {Screen, r.app}
  <2>1. Levels(r) = {1} /\ Level(r, 1) = r.cur
    BY <1>0, <1>2, Fields DEF Levels, Level
  <2> QED
    BY <1>0, <1>2, <2>1, WhoIsWhere DEF Layout
<1>5. Levels(r') = {1} /\ Level(r', 1) = r'.cur
  BY <1>1, Fields DEF Levels, Level
<1>6. /\ r'.cur.fill = None /\ r'.cur.id = NoSurfaceId /\ r'.cur.buf = b
      /\ ~r'.cur.known /\ ~r'.cur.empty
  BY <1>1 DEF Fresh
<1>7. \A x : See(r', x) = See(r, x)
  BY <1>0, <1>1, <1>3, <1>5, <1>6, NothingWaits
<1>8. Layout(r', classic)
  BY <1>1, <1>5, <1>6, Names3 DEF Layout, Home, Disjoint
<1>9. Remembered(r')
  <2>1. \A i \in Levels(r') : Honest(r', Level(r', i))
    BY <1>5, <1>6 DEF Honest
  <2>2. ASSUME NEW m \in Id, r'.surf[m].live PROVE Truthful(r', m)
    <3>1. Unbound(r, m)
      BY <1>0, <1>4, Names3 DEF Unbound
    <3>2. Truthful(r, m)
      BY <1>0, <1>1, <2>2, <3>1 DEF Remembered
    <3> QED
      BY <1>1, <3>2 DEF Truthful
  <2> QED
    BY <1>0, <1>1, <1>7, <2>1, <2>2 DEF Remembered
<1> QED
  BY <1>1, <1>7, <1>8, <1>9 DEF Sound, Unseen

\* A classic program's target is kept, on top of the new pass.
LEMMA RetainSound ==
  ASSUME Sound(r, classic), Shallow(r, classic), Habits = {},
         NEW b \in {Screen, r.app}, NEW next, BeginRetaining(b, next)
  PROVE  Sound(r', classic) /\ Unseen
<1>0. /\ r \in Renderer /\ Layout(r, classic) /\ Disjoint(r) /\ Remembered(r) /\ r.app \in Plane
  BY Fields DEF Sound, Layout
<1>1. classic /\ r.stack # << >> /\ NoFillWaits
  BY DEF BeginRetaining
<1>2. \A i \in Levels(r) : Level(r, i).fill = None
  BY <1>0, <1>1, AllTargets DEF NoFillWaits
<1>3. Len(r.stack) = 1
  <2>1. Len(r.stack) <= 1
    BY <1>1 DEF Shallow
  <2>2. Len(r.stack) \in Nat /\ Len(r.stack) # 0
    BY <1>0, <1>1, Fields
  <2>3. \A n \in Nat : n <= 1 /\ n # 0 => n = 1
    OBVIOUS
  <2> QED
    BY <2>1, <2>2, <2>3, Zenon
<1>4. /\ Levels(r) = {1, 2} /\ Level(r, 2) = r.cur /\ Level(r, 1).buf \in {Screen, r.app}
  <2>1. Levels(r) = {1, 2} /\ Level(r, 2) = r.cur /\ 1 \in Levels(r)
    BY <1>3 DEF Levels, Level
  <2> QED
    BY <1>0, <2>1 DEF Layout, Home
<1>5. r.cur.id \in Id /\ r.cur.buf = r.cur.id /\ r.surf[r.cur.id].live /\ r.cur.fill = None
  BY <1>0, <1>1, <1>2, <1>4, WhoIsWhere DEF Layout
<1>6. r.cur.id \in Names(r)
  BY <1>5 DEF Names
<1>7. /\ r' \in Renderer /\ r'.base = b
      /\ r'.mem = r.mem /\ r'.surf = r.surf /\ r'.app = r.app /\ r'.appOpaque = r.appOpaque
      /\ r'.cur = [r.cur EXCEPT !.fill = None] /\ Len(r'.stack) = 1 /\ r'.stack[1] = Fresh(b)
  BY <1>0, <1>3, <1>6, RetainStep
<1>8. r'.cur = r.cur
  BY <1>0, <1>5, <1>7, Fields DEF Target
<1>9. Levels(r') = {1, 2} /\ Level(r', 2) = r.cur /\ Level(r', 1) = Fresh(b)
  BY <1>7, <1>8 DEF Levels, Level
<1>10. /\ Fresh(b).fill = None /\ Fresh(b).id = NoSurfaceId /\ Fresh(b).buf = b
       /\ ~Fresh(b).known /\ ~Fresh(b).empty
  BY DEF Fresh
<1>11. \A x : See(r', x) = See(r, x)
  BY <1>0, <1>2, <1>5, <1>7, <1>9, <1>10, NothingWaits
<1>12. r.cur.buf # b
  BY <1>0, <1>5, Names3
<1>13. Disjoint(r')
  BY <1>9, <1>10, <1>12 DEF Disjoint
<1>14. Layout(r', classic)
  BY <1>5, <1>7, <1>9, <1>10, <1>13, Names3 DEF Layout, Home, BufferOf
<1>15. Remembered(r')
  <2>1. Honest(r', Fresh(b))
    BY <1>10 DEF Honest
  <2>2. Honest(r', r.cur)
    BY <1>0, <1>4, <1>7 DEF Remembered, Honest, Shows
  <2>3. ASSUME NEW m \in Id, r'.surf[m].live, Unbound(r', m) PROVE Truthful(r', m)
    <3>1. Unbound(r, m)
      BY <1>0, <1>4, <1>9, <2>3, Names3 DEF Unbound
    <3>2. Truthful(r, m)
      BY <1>0, <1>7, <2>3, <3>1 DEF Remembered
    <3> QED
      BY <1>7, <3>2 DEF Truthful
  <2> QED
    BY <1>0, <1>7, <1>9, <1>11, <2>1, <2>2, <2>3 DEF Remembered
<1> QED
  BY <1>7, <1>11, <1>14, <1>15 DEF Sound, Unseen

\* Surface 0 gets new pixels, and every level that referred to the old ones follows.
Follows(old, new) ==
  /\ r.app = old /\ r'.app = new /\ Levels(r') = Levels(r)
  /\ \A i \in Levels(r) : /\ Level(r, i).buf # new
                          /\ Level(r', i).buf = IF Level(r, i).buf = old THEN new
                                                ELSE Level(r, i).buf
  /\ \A b \in Buffer \ {old, new} : See(r', b) = See(r, b)

LEMMA ZeroSound ==
  ASSUME Sound(r, classic), Habits = {}, NEW new \in Plane, NEW part \in SUBSET Pixel,
         ResizeZero(new, part)
  PROVE  /\ Sound(r', classic) /\ Follows(r.app, new)
         /\ See(r', new) = Kept(See(r, r.app), part)
<1> DEFINE old == r.app
<1>0. /\ r \in Renderer /\ Layout(r, classic) /\ Disjoint(r) /\ Remembered(r)
      /\ old \in Plane /\ old \in Buffer /\ new \in Buffer
  BY Fields DEF Sound, Layout, Buffer
<1>1. /\ r' \in Renderer /\ r'.app = new /\ r'.appOpaque = FALSE /\ r'.surf = r.surf
      /\ r'.cur = Moved(r.cur, old, new)
      /\ r'.base = IF r.base = old THEN new ELSE r.base
      /\ Len(r'.stack) = Len(r.stack)
      /\ \A i \in 1..Len(r.stack) : r'.stack[i] = Moved(r.stack[i], old, new)
      /\ r'.mem[new] = Kept(r.mem[old], part)
      /\ \A b \in Buffer \ {new, old} : r'.mem[b] = r.mem[b]
  BY <1>0, ZeroStep
<1>2. new # old /\ ~FilledZero /\ ~classic
  BY DEF ResizeZero
<1>3. \A i \in Levels(r) : Level(r, i).buf = old =>
        Level(r, i).fill = None /\ ~(Level(r, i).known /\ Level(r, i).opaque)
  BY <1>0, <1>2, AllTargets DEF FilledZero
<1> HIDE DEF old
<1>4. /\ Levels(r') = Levels(r)
      /\ \A i \in Levels(r) : Level(r', i) = Moved(Level(r, i), old, new)
  BY <1>0, <1>1, LevelTypes DEF Levels, Level
<1>5. ASSUME NEW i \in Levels(r)
      PROVE  /\ Level(r, i) \in Target /\ Level(r, i).buf \in Buffer
             /\ Level(r', i).buf = IF Level(r, i).buf = old THEN new ELSE Level(r, i).buf
             /\ Level(r', i).id = Level(r, i).id /\ Level(r', i).fill = Level(r, i).fill
             /\ Level(r', i).known = Level(r, i).known /\ Level(r', i).opaque = Level(r, i).opaque
             /\ Level(r', i).empty = Level(r, i).empty
  BY <1>0, <1>4, LevelTypes, MovedFields
<1>6. ASSUME NEW i \in Levels(r) PROVE Level(r, i).buf # new
  <2>1. Level(r, i).buf = Home(r, Level(r, i).id) /\ r.base \in {Screen, old}
        /\ Level(r, i).id \in {NoSurfaceId} \union Name
    BY <1>0, <1>5 DEF Layout, old, Target
  <2> QED
    BY <1>2, <2>1, Names3 DEF Home, BufferOf, old, Name
<1>7. Disjoint(r')
  <2> SUFFICES ASSUME NEW i \in Levels(r), NEW j \in Levels(r), Level(r', i).buf = Level(r', j).buf
               PROVE  i = j
    BY <1>4 DEF Disjoint
  <2>1. Level(r, i).buf = Level(r, j).buf
    BY <1>5, <1>6
  <2> QED
    BY <1>0, <2>1 DEF Disjoint
<1>8. Layout(r', classic)
  <2>1. r'.base \in {Screen, r'.app}
    BY <1>0, <1>1 DEF Layout, old
  <2>2. 1 \in Levels(r)
    BY <1>0, LevelTypes
  <2>3. ASSUME NEW i \in Levels(r) PROVE Level(r', i).buf = Home(r', Level(r', i).id)
    <3>1. /\ Level(r, i).buf = Home(r, Level(r, i).id)
          /\ Level(r, i).id \in {NoSurfaceId} \union Name
      BY <1>0, <1>5 DEF Layout, Target
    <3> QED
      BY <1>0, <1>1, <1>5, <3>1, Names3 DEF Home, BufferOf, old, Name
  <2>4. \A i \in Levels(r') : Level(r', i).id \in Id => r'.surf[Level(r', i).id].live
    BY <1>0, <1>1, <1>4, <1>5 DEF Layout
  <2>5. Level(r', 1).id = NoSurfaceId
    BY <1>0, <1>5, <2>2 DEF Layout
  <2> QED
    BY <1>2, <1>4, <1>7, <2>1, <2>3, <2>4, <2>5 DEF Layout
<1>9. ASSUME NEW i \in Levels(r), Level(r, i).buf # old
      PROVE  Shows(r', Level(r', i)) = Shows(r, Level(r, i))
  BY <1>1, <1>5, <1>6, <1>9 DEF Shows
<1>10. ASSUME NEW i \in Levels(r), Level(r, i).buf = old
       PROVE  /\ Shows(r, Level(r, i)) = r.mem[old]
              /\ Shows(r', Level(r', i)) = Kept(r.mem[old], part)
  BY <1>1, <1>3, <1>5, <1>10 DEF Shows
<1>11. See(r, old) = r.mem[old]
  <2>1. CASE Unbound(r, old)
    BY <1>0, <2>1, SeeUnbound
  <2>2. CASE ~Unbound(r, old)
    <3>1. PICK i \in Levels(r) : Level(r, i).buf = old
      BY <2>2 DEF Unbound
    <3> QED
      BY <1>0, <1>10, <3>1, SeeLevel
  <2> QED
    BY <2>1, <2>2
<1>12. See(r', new) = Kept(r.mem[old], part)
  <2>1. CASE Unbound(r', new)
    BY <1>1, <2>1, SeeUnbound
  <2>2. CASE ~Unbound(r', new)
    <3>1. PICK i \in Levels(r) : Level(r', i).buf = new
      BY <1>4, <2>2 DEF Unbound
    <3>2. Level(r, i).buf = old
      BY <1>5, <1>6, <3>1
    <3>3. See(r', Level(r', i).buf) = Shows(r', Level(r', i))
      BY <1>1, <1>4, <1>7, SeeLevel
    <3> QED
      BY <1>10, <3>1, <3>2, <3>3
  <2> QED
    BY <2>1, <2>2
<1>13. ASSUME NEW b \in Buffer \ {old, new} PROVE See(r', b) = See(r, b)
  <2>1. CASE Unbound(r, b)
    <3>1. Unbound(r', b)
      BY <1>4, <1>5, <2>1 DEF Unbound
    <3> QED
      BY <1>0, <1>1, <2>1, <3>1, SeeUnbound
  <2>2. CASE ~Unbound(r, b)
    <3>1. PICK i \in Levels(r) : Level(r, i).buf = b
      BY <2>2 DEF Unbound
    <3>2. See(r, b) = Shows(r, Level(r, i))
      BY <1>0, <3>1, SeeLevel
    <3>3. Level(r', i).buf = b
      BY <1>5, <3>1
    <3>4. See(r', b) = Shows(r', Level(r', i))
      BY <1>1, <1>4, <1>7, <3>3, SeeLevel
    <3> QED
      BY <1>9, <3>1, <3>2, <3>4
  <2> QED
    BY <2>1, <2>2
<1>14. Remembered(r')
  <2>1. ASSUME NEW i \in Levels(r) PROVE Honest(r', Level(r', i))
    <3>1. Honest(r, Level(r, i))
      BY <1>0 DEF Remembered
    <3>2. CASE Level(r, i).buf = old
      BY <1>3, <1>5, <1>10, <3>1, <3>2, KeptClear DEF Honest
    <3>3. CASE Level(r, i).buf # old
      BY <1>5, <1>9, <3>1, <3>3 DEF Honest
    <3> QED
      BY <3>2, <3>3
  <2>2. ASSUME NEW m \in Id, r'.surf[m].live, Unbound(r', m) PROVE Truthful(r', m)
    <3>1. m \in Buffer \ {old, new}
      BY <1>0, Names3 DEF Buffer
    <3>2. Unbound(r, m)
      BY <1>4, <1>5, <2>2, <3>1 DEF Unbound
    <3>3. Truthful(r, m)
      BY <1>0, <1>1, <2>2, <3>2 DEF Remembered
    <3> QED
      BY <1>1, <3>1, <3>3 DEF Truthful
  <2> QED
    BY <1>1, <1>4, <2>1, <2>2 DEF Remembered
<1>15. Sound(r', classic)
  BY <1>1, <1>8, <1>14 DEF Sound
<1>16. Follows(r.app, new)
  BY <1>1, <1>4, <1>5, <1>6, <1>13 DEF Follows, old
<1> QED
  BY <1>11, <1>12, <1>15, <1>16 DEF old

\* Two renderers with the same levels that show the same.
Resembles(g, h, k) ==
  /\ Sound(g, k) /\ Sound(h, k)
  /\ Levels(h) = Levels(g) /\ Len(h.stack) = Len(g.stack)
  /\ \A i \in Levels(g) : Level(h, i).buf = Level(g, i).buf /\ Level(h, i).id = Level(g, i).id
  /\ \A b \in Buffer : See(h, b) = See(g, b)
  /\ h.app = g.app /\ h.surf = g.surf /\ h.base = g.base
  /\ h.cur.buf = g.cur.buf /\ h.cur.id = g.cur.id

LEMMA ResemblesRead ==
  ASSUME NEW g, NEW k, Sound(g, k), NEW n \in Name
  PROVE  Resembles(g, Read(g, n), k) /\ Read(g, n).cur = g.cur
<1>1. g \in Renderer
  BY DEF Sound
<1>2. /\ Read(g, n).cur = g.cur /\ Read(g, n).base = g.base
      /\ Read(g, n).surf = g.surf /\ Read(g, n).app = g.app
      /\ Len(Read(g, n).stack) = Len(g.stack)
  BY <1>1, ReadFrame
<1>3. /\ Sound(Read(g, n), k) /\ Levels(Read(g, n)) = Levels(g)
      /\ \A i \in Levels(g) : /\ Level(Read(g, n), i).buf = Level(g, i).buf
                              /\ Level(Read(g, n), i).id = Level(g, i).id
      /\ \A b \in Buffer : See(Read(g, n), b) = See(g, b)
  BY ReadSound
<1> QED
  BY <1>2, <1>3 DEF Resembles

LEMMA ResemblesPrepare ==
  ASSUME NEW g, NEW k, Sound(g, k)
  PROVE  Resembles(g, PrepareDraw(g), k) /\ PrepareDraw(g).cur.fill = None
<1>1. g \in Renderer /\ Layout(g, k)
  BY DEF Sound
<1>2. Repaints(g, PrepareDraw(g)) /\ PrepareDraw(g).cur.fill = None
  BY <1>1, PrepareDrawFields
<1>3. /\ Levels(PrepareDraw(g)) = Levels(g)
      /\ \A i \in Levels(g) : /\ Level(PrepareDraw(g), i).buf = Level(g, i).buf
                              /\ Level(PrepareDraw(g), i).id = Level(g, i).id
  BY <1>1, <1>2, RepaintLayout
<1>4. /\ Sound(PrepareDraw(g), k)
      /\ \A b \in Buffer : See(PrepareDraw(g), b) = See(g, b)
  BY PrepareSound
<1> QED
  BY <1>2, <1>3, <1>4 DEF Resembles, Repaints

LEMMA ResemblesTwice ==
  ASSUME NEW g, NEW h, NEW q, NEW k, Resembles(g, h, k), Resembles(h, q, k)
  PROVE  Resembles(g, q, k)
BY DEF Resembles

LEMMA StillNotSuspended ==
  ASSUME NEW g, NEW h, NEW k, Resembles(g, h, k), NEW n \in Name, BufferOf(g, n) \notin Suspended(g)
  PROVE  BufferOf(h, n) \notin Suspended(h) /\ BufferOf(h, n) = BufferOf(g, n)
<1>1. g \in Renderer /\ h \in Renderer
  BY DEF Resembles, Sound
<1>2. BufferOf(h, n) = BufferOf(g, n)
  BY DEF Resembles, BufferOf
<1>3. \A i \in 1..Len(g.stack) : g.stack[i].buf # BufferOf(g, n)
  BY <1>1, BorrowedLevels
<1>4. \A i \in 1..Len(h.stack) : h.stack[i].buf # BufferOf(h, n)
  BY <1>1, <1>2, <1>3, LevelTypes DEF Resembles
<1> QED
  BY <1>1, <1>2, <1>4, BorrowedLevels

\* The renderer a copy is made in: what the source and the destination show is
\* what their pixels are.
LEMMA CopyReady ==
  ASSUME NEW g, NEW k, Sound(g, k), NEW d \in Name, NEW s \in Name,
         BufferOf(g, d) \notin Suspended(g),
         NEW q, q = Read(Read(g, s), d),
         NEW y, y = IF Involved(q, d, s) THEN Read(Read(PrepareDraw(q), s), d) ELSE q
  PROVE  /\ Resembles(g, y, k)
         /\ y.mem[BufferOf(g, s)] = See(g, BufferOf(g, s))
         /\ BufferOf(g, d) = y.cur.buf => y.cur.fill = None
<1> DEFINE sb == BufferOf(g, s)
           db == BufferOf(g, d)
           z == IF Involved(q, d, s) THEN PrepareDraw(q) ELSE g
<1>1. Resembles(g, Read(g, s), k) /\ Read(g, s).cur = g.cur
  BY ResemblesRead
<1>2. q = Read(g, s)
  <2>1. BufferOf(Read(g, s), d) \notin Suspended(Read(g, s)) /\ Sound(Read(g, s), k)
    BY <1>1, StillNotSuspended DEF Resembles
  <2> QED
    BY <2>1, NothingToRead
<1>3. Resembles(g, q, k) /\ q.cur = g.cur
  BY <1>1, <1>2
<1>4. /\ Resembles(g, z, k) /\ y = Read(z, s)
      /\ Involved(q, d, s) => z.cur.fill = None
  <2>1. CASE ~Involved(q, d, s)
    <3>1. z = g /\ y = q
      BY <2>1
    <3>2. Resembles(g, g, k)
      BY DEF Resembles
    <3> QED
      BY <1>2, <2>1, <3>1, <3>2
  <2>2. CASE Involved(q, d, s)
    <3>1. z = PrepareDraw(q) /\ y = Read(Read(PrepareDraw(q), s), d)
      BY <2>2
    <3>2. Resembles(q, PrepareDraw(q), k) /\ PrepareDraw(q).cur.fill = None
      BY <1>3, ResemblesPrepare DEF Resembles
    <3>3. Resembles(g, PrepareDraw(q), k)
      BY <1>3, <3>2, ResemblesTwice
    <3>4. Resembles(PrepareDraw(q), Read(PrepareDraw(q), s), k)
      BY <3>3, ResemblesRead DEF Resembles
    <3>5. Resembles(g, Read(PrepareDraw(q), s), k)
      BY <3>3, <3>4, ResemblesTwice
    <3>6. /\ BufferOf(Read(PrepareDraw(q), s), d) \notin Suspended(Read(PrepareDraw(q), s))
          /\ Sound(Read(PrepareDraw(q), s), k)
      BY <3>5, StillNotSuspended DEF Resembles
    <3>7. Read(Read(PrepareDraw(q), s), d) = Read(PrepareDraw(q), s)
      BY <3>6, NothingToRead
    <3> QED
      BY <2>2, <3>1, <3>2, <3>3, <3>7
  <2> QED
    BY <2>1, <2>2
<1>i. Involved(q, d, s) <=> g.cur.buf \in {db, sb}
  BY <1>3 DEF Involved, BufferOf, Resembles
<1> HIDE DEF z, sb, db
<1>5. Resembles(z, y, k) /\ y.cur = z.cur
  BY <1>4, ResemblesRead DEF Resembles
<1>6. Resembles(g, y, k)
  BY <1>4, <1>5, ResemblesTwice
<1>7. db = y.cur.buf => y.cur.fill = None
  BY <1>i, <1>4, <1>5, <1>6 DEF Resembles
<1>8. sb \in Buffer /\ BufferOf(z, s) = sb
  <2>1. g \in Renderer
    BY DEF Sound
  <2> QED
    BY <1>4, <2>1, BufferOfType DEF sb, Resembles, BufferOf
<1>9. y.mem[sb] = See(g, sb)
  <2>1. CASE sb = g.cur.buf
    <3>1. y.cur.fill = None /\ y.cur.buf = sb
      BY <1>i, <1>4, <1>5, <1>6, <2>1 DEF Resembles
    <3>2. See(y, sb) = Shows(y, y.cur)
      BY <1>6, <3>1, CurrentSeen DEF Resembles
    <3> QED
      BY <1>6, <1>8, <3>1, <3>2 DEF Shows, Resembles
  <2>2. CASE sb # g.cur.buf
    <3>1. Sound(z, k) /\ BufferOf(z, s) # z.cur.buf
      BY <1>4, <1>8, <2>2 DEF Resembles
    <3>2. Read(z, s).mem[BufferOf(z, s)] = See(z, BufferOf(z, s))
      BY <3>1, ReadSound
    <3> QED
      BY <1>4, <1>8, <3>2 DEF Resembles
  <2> QED
    BY <2>1, <2>2
<1> QED
  BY <1>6, <1>7, <1>9 DEF sb, db

\* The copy itself, with what was known of the destination forgotten.
LEMMA CopyMade ==
  ASSUME NEW y, NEW k, Sound(y, k), NEW d \in Name, NEW s \in Name, NEW part \in SUBSET Pixel,
         d \in Id => y.surf[d].live, BufferOf(y, d) \notin Suspended(y),
         BufferOf(y, d) = y.cur.buf => y.cur.fill = None,
         ~(d = Application /\ y.cur.buf = y.app /\ y.cur.id = NoSurfaceId),
         NEW h, h = Forget(CopyPixels(y, d, s, part), d),
         NEW pixels, pixels = [p \in Pixel |-> IF p \in part THEN y.mem[BufferOf(y, s)][p]
                                               ELSE See(y, BufferOf(y, d))[p]]
  PROVE  /\ Sound(h, k) /\ h.app = y.app /\ Levels(h) = Levels(y)
         /\ \A i \in Levels(y) : Level(h, i).buf = Level(y, i).buf
         /\ \A b \in Buffer \ {BufferOf(y, d)} : See(h, b) = See(y, b)
         /\ See(h, BufferOf(y, d)) = pixels
<1> DEFINE db == BufferOf(y, d)
           c == CopyPixels(y, d, s, part)
           flagless == [y.cur EXCEPT !.known = FALSE, !.opaque = FALSE, !.empty = FALSE]
<1>0. /\ y \in Renderer /\ Layout(y, k) /\ Disjoint(y) /\ Remembered(y) /\ y.app \in Plane
      /\ db \in Buffer /\ y.cur \in Target /\ y.cur.buf \in Buffer
      /\ y.surf \in [Id -> Surface]
  BY Fields, BufferOfType, CurrentSeen DEF Sound, Layout
<1>1. /\ c \in Renderer /\ c.cur = y.cur /\ c.stack = y.stack /\ c.base = y.base /\ c.surf = y.surf
      /\ c.app = y.app /\ c.appOpaque = y.appOpaque
      /\ \A b \in Buffer \ {db} : c.mem[b] = y.mem[b]
      /\ c.mem[db] = [p \in Pixel |-> IF p \in part THEN y.mem[BufferOf(y, s)][p]
                                      ELSE y.mem[db][p]]
  <2>1. y \in Renderer
    BY <1>0
  <2>2. CopyPixels(y, d, s, part) \in Renderer
    BY <2>1, CopyFields
  <2>3. /\ CopyPixels(y, d, s, part).cur = y.cur /\ CopyPixels(y, d, s, part).stack = y.stack
        /\ CopyPixels(y, d, s, part).base = y.base /\ CopyPixels(y, d, s, part).surf = y.surf
        /\ CopyPixels(y, d, s, part).app = y.app
        /\ CopyPixels(y, d, s, part).appOpaque = y.appOpaque
    BY <2>1, CopyKeeps, Zenon
  <2> DEFINE new == [p \in Pixel |-> IF p \in part THEN y.mem[BufferOf(y, s)][p]
                                     ELSE y.mem[db][p]]
  <2>4. CopyPixels(y, d, s, part).mem = [y.mem EXCEPT ![db] = new]
    BY <2>1 DEF CopyPixels, Renderer
  <2> HIDE DEF new
  <2>5. y.mem \in [Buffer -> [Pixel -> Colour]]
    BY <2>1, Fields
  <2>6. /\ CopyPixels(y, d, s, part).mem[db] = new
        /\ \A b \in Buffer \ {db} : CopyPixels(y, d, s, part).mem[b] = y.mem[b]
    BY <1>0, <2>4, <2>5
  <2>7. CopyPixels(y, d, s, part).mem[db] =
          [p \in Pixel |-> IF p \in part THEN y.mem[BufferOf(y, s)][p] ELSE y.mem[db][p]]
    BY <2>6 DEF new
  <2> QED
    BY <2>2, <2>3, <2>6, <2>7
<1>e. h = Forget(c, d)
  OBVIOUS
<1> HIDE DEF c
<1>2. /\ h \in Renderer /\ h.mem = c.mem /\ h.stack = y.stack /\ h.base = y.base /\ h.app = y.app
      /\ h.cur = IF y.cur.id = d THEN flagless ELSE y.cur
      /\ d = Application => h.surf = y.surf /\ h.appOpaque = FALSE
      /\ d # Application => h.appOpaque = y.appOpaque
      /\ d # Application => h.surf = [y.surf EXCEPT ![d] = [NoSurface EXCEPT !.live = TRUE]]
  <2>1. /\ Forget(c, d) \in Renderer
        /\ Forget(c, d).mem = c.mem /\ Forget(c, d).stack = c.stack
        /\ Forget(c, d).base = c.base /\ Forget(c, d).app = c.app
        /\ Forget(c, d).cur = IF c.cur.id = d
                              THEN [c.cur EXCEPT !.known = FALSE, !.opaque = FALSE, !.empty = FALSE]
                              ELSE c.cur
        /\ d = Application => Forget(c, d).surf = c.surf /\ Forget(c, d).appOpaque = FALSE
        /\ d # Application =>
             /\ Forget(c, d).appOpaque = c.appOpaque
             /\ Forget(c, d).surf = [c.surf EXCEPT ![d] = [NoSurface EXCEPT !.live = TRUE]]
    <3>1. c \in Renderer
      BY <1>1
    <3> QED
      BY <3>1, ForgetFields, Zenon
  <2> QED
    BY <1>1, <1>e, <2>1
<1>3. /\ flagless \in Target /\ flagless.buf = y.cur.buf /\ flagless.id = y.cur.id
      /\ flagless.fill = y.cur.fill /\ ~flagless.known /\ ~flagless.empty
  BY <1>0 DEF Target
<1> HIDE DEF flagless, db
<1>4. h.cur.buf = y.cur.buf /\ h.cur.id = y.cur.id /\ h.cur.fill = y.cur.fill
  BY <1>2, <1>3
<1>5. /\ Levels(h) = Levels(y) /\ 1 \in Levels(y)
      /\ \A i \in 1..Len(y.stack) : Level(h, i) = Level(y, i)
      /\ \A i \in Levels(y) : Level(h, i).buf = Level(y, i).buf /\ Level(h, i).id = Level(y, i).id
                              /\ Level(h, i).fill = Level(y, i).fill
  BY <1>0, <1>2, <1>4, LevelTypes DEF Levels, Level
<1>6. \A i \in 1..Len(y.stack) : Level(y, i).buf # db
  BY <1>0, BorrowedLevels, LevelTypes DEF db
<1>7. Disjoint(h)
  BY <1>0, <1>5 DEF Disjoint
<1>8. \A n \in Id : y.surf[n].live => h.surf[n].live
  <2>1. CASE d = Application
    BY <1>2, <2>1
  <2>2. CASE d # Application
    <3>1. h.surf = [y.surf EXCEPT ![d] = [NoSurface EXCEPT !.live = TRUE]]
      BY <1>2, <2>2
    <3>2. [NoSurface EXCEPT !.live = TRUE].live
      BY DEF NoSurface
    <3> QED
      BY <1>0, <3>1, <3>2
  <2> QED
    BY <2>1, <2>2
<1>9. Layout(h, k)
  <2>1. \A id : Home(h, id) = Home(y, id)
    BY <1>2 DEF Home, BufferOf
  <2> QED
    BY <1>0, <1>2, <1>5, <1>7, <1>8, <2>1 DEF Layout
<1>10. /\ \A i \in Levels(y) : Level(y, i).buf # db => Shows(h, Level(h, i)) = Shows(y, Level(y, i))
       /\ \A b \in Buffer \ {db} : h.mem[b] = y.mem[b]
  BY <1>0, <1>1, <1>2, <1>5, LevelTypes DEF Shows
<1>11. ASSUME NEW b \in Buffer \ {db} PROVE See(h, b) = See(y, b)
  <2>1. CASE Unbound(y, b)
    <3>1. Unbound(h, b)
      BY <1>5, <2>1 DEF Unbound
    <3> QED
      BY <1>0, <1>2, <1>10, <2>1, <3>1, SeeUnbound
  <2>2. CASE ~Unbound(y, b)
    <3>1. PICK i \in Levels(y) : Level(y, i).buf = b
      BY <2>2 DEF Unbound
    <3>2. See(y, b) = Shows(y, Level(y, i))
      BY <1>0, <3>1, SeeLevel
    <3>3. See(h, b) = Shows(h, Level(h, i))
      BY <1>2, <1>5, <1>7, <3>1, SeeLevel
    <3> QED
      BY <1>10, <3>1, <3>2, <3>3
  <2> QED
    BY <2>1, <2>2
<1>12. See(y, db) = y.mem[db] /\ See(h, db) = h.mem[db]
  <2>1. CASE y.cur.buf = db
    <3>1. y.cur.fill = None /\ h.cur.fill = None
      BY <1>4, <2>1 DEF db
    <3>2. See(y, db) = Shows(y, y.cur)
      BY <2>1, CurrentSeen
    <3>3. See(h, h.cur.buf) = Shows(h, h.cur)
      BY <1>2, <1>7, LevelTypes, SeeLevel
    <3> QED
      BY <1>4, <2>1, <3>1, <3>2, <3>3 DEF Shows
  <2>2. CASE y.cur.buf # db
    <3>1. Unbound(y, db)
      BY <1>0, <1>6, <2>2, LevelTypes DEF Unbound
    <3>2. Unbound(h, db)
      BY <1>5, <3>1 DEF Unbound
    <3> QED
      BY <1>0, <1>2, <3>1, <3>2, SeeUnbound
  <2> QED
    BY <2>1, <2>2
<1>13. See(h, db) = pixels
  BY <1>1, <1>2, <1>12 DEF db
<1>14. y.cur.buf = db => y.cur.id = d
  <2>1. /\ y.cur.id \in {NoSurfaceId, Application} \union Id
        /\ y.cur.id \in Id => y.cur.buf = y.cur.id
        /\ y.cur.id = Application => y.cur.buf = y.app
        /\ y.cur.id = NoSurfaceId => y.cur.buf \in {Screen, y.app}
    BY <1>0, WhoIsWhere DEF Layout
  <2> QED
    BY <1>0, <2>1, Names3 DEF db, BufferOf, Name
<1>15. Remembered(h)
  <2>1. ASSUME NEW i \in Levels(h) PROVE Honest(h, Level(h, i))
    <3>1. Honest(y, Level(y, i)) /\ i \in Levels(y)
      BY <1>0, <1>5, <2>1 DEF Remembered
    <3>2. CASE i \in 1..Len(y.stack)
      BY <1>5, <1>6, <1>10, <3>1, <3>2 DEF Honest
    <3>3. CASE i = Len(y.stack) + 1
      <4>1. Level(h, i) = h.cur /\ Level(y, i) = y.cur
        BY <1>0, <1>2, <3>3, LevelTypes
      <4>2. CASE y.cur.id = d
        BY <1>2, <1>3, <4>1, <4>2 DEF Honest
      <4>3. CASE y.cur.id # d
        <5>1. h.cur = y.cur /\ y.cur.buf # db
          BY <1>2, <1>14, <4>3
        <5> QED
          BY <1>10, <3>1, <4>1, <5>1 DEF Honest
      <4> QED
        BY <4>2, <4>3
    <3> QED
      BY <1>0, <3>1, <3>2, <3>3, LevelTypes
  <2>2. ASSUME NEW m \in Id, h.surf[m].live, Unbound(h, m) PROVE Truthful(h, m)
    <3>1. CASE m = d
      <4>1. h.surf = [y.surf EXCEPT ![d] = [NoSurface EXCEPT !.live = TRUE]]
        BY <1>2, <3>1, Names3
      <4>2. h.surf[m] = [NoSurface EXCEPT !.live = TRUE]
        BY <1>0, <3>1, <4>1
      <4>3. ~h.surf[m].known /\ ~h.surf[m].empty
        BY <4>2 DEF NoSurface
      <4> QED
        BY <4>3 DEF Truthful
    <3>2. CASE m # d
      <4>1. h.surf[m] = y.surf[m]
        BY <1>0, <1>2, <3>2
      <4>2. m \in Buffer \ {db}
        BY <1>0, <3>2, Names3 DEF db, BufferOf, Buffer
      <4>3. Unbound(y, m)
        BY <1>5, <2>2 DEF Unbound
      <4>4. Truthful(y, m)
        BY <1>0, <2>2, <4>1, <4>3 DEF Remembered
      <4> QED
        BY <1>10, <4>1, <4>2, <4>4 DEF Truthful
    <3> QED
      BY <3>1, <3>2
  <2>3. h.appOpaque => See(h, h.app) = All(Solid)
    <3>1. CASE d = Application
      BY <1>2, <3>1
    <3>2. CASE d # Application
      <4>1. y.app # db /\ y.app \in Buffer
        BY <1>0, <3>2, Fields, Names3 DEF db, BufferOf, Name
      <4>2. See(h, y.app) = See(y, y.app)
        BY <1>11, <4>1
      <4>3. h.appOpaque = y.appOpaque /\ h.app = y.app
        BY <1>2, <3>2
      <4>4. y.appOpaque => See(y, y.app) = All(Solid)
        BY <1>0 DEF Remembered
      <4> QED
        BY <4>2, <4>3, <4>4
    <3> QED
      BY <3>1, <3>2
  <2> QED
    BY <2>1, <2>2, <2>3 DEF Remembered
<1>16. Sound(h, k)
  BY <1>2, <1>9, <1>15 DEF Sound
<1> QED
  BY <1>2, <1>5, <1>11, <1>13, <1>16 DEF db

LEMMA CopySound ==
  ASSUME Sound(r, classic), Habits = {}, NEW d, NEW s, NEW part \in SUBSET Pixel,
         SurfaceCopy(d, s, part)
  PROVE  /\ Sound(r', classic)
         /\ Repictured(BufferOf(r, d),
                       [p \in Pixel |-> IF p \in part THEN See(r, BufferOf(r, s))[p]
                                        ELSE See(r, BufferOf(r, d))[p]])
<1> DEFINE q == Read(Read(r, s), d)
           y == IF Involved(q, d, s) THEN Read(Read(PrepareDraw(q), s), d) ELSE q
           pixels == [p \in Pixel |-> IF p \in part THEN y.mem[BufferOf(y, s)][p]
                                      ELSE See(y, BufferOf(y, d))[p]]
<1>1. /\ r \in Renderer /\ d \in Names(r) /\ s \in Names(r)
      /\ BufferOf(r, d) \notin Suspended(r)
      /\ ~(d = Application /\ r.cur = [r.cur EXCEPT !.buf = r.app, !.id = NoSurfaceId])
  BY DEF Sound, SurfaceCopy
<1>2. d \in Name /\ s \in Name /\ (d \in Id => r.surf[d].live)
  BY <1>1, NamesLive
<1>3. ~(d = Application /\ r.cur.buf = r.app /\ r.cur.id = NoSurfaceId)
  <2>1. r.cur \in Target
    BY <1>1, Fields
  <2>2. r.cur.buf = r.app /\ r.cur.id = NoSurfaceId =>
          r.cur = [r.cur EXCEPT !.buf = r.app, !.id = NoSurfaceId]
    BY <2>1 DEF Target
  <2> QED
    BY <1>1, <2>2
<1>4. r' = Forget(CopyPixels(y, d, s, part), d)
  BY Zenon DEF SurfaceCopy, Copied
<1> HIDE DEF q
<1>5. q = Read(Read(r, s), d)
  BY DEF q
<1>6. /\ Resembles(r, y, classic)
      /\ y.mem[BufferOf(r, s)] = See(r, BufferOf(r, s))
      /\ BufferOf(r, d) = y.cur.buf => y.cur.fill = None
  BY <1>1, <1>2, <1>5, CopyReady
<1> HIDE DEF y
<1>7. /\ Sound(y, classic) /\ BufferOf(y, d) \notin Suspended(y)
      /\ BufferOf(y, d) = BufferOf(r, d) /\ BufferOf(y, s) = BufferOf(r, s)
      /\ y.surf = r.surf /\ y.app = r.app /\ y.cur.buf = r.cur.buf /\ y.cur.id = r.cur.id
      /\ Levels(y) = Levels(r) /\ \A i \in Levels(r) : Level(y, i).buf = Level(r, i).buf
      /\ \A b \in Buffer : See(y, b) = See(r, b)
  BY <1>1, <1>2, <1>6, StillNotSuspended DEF Resembles, BufferOf
<1>8. ~(d = Application /\ y.cur.buf = y.app /\ y.cur.id = NoSurfaceId)
  BY <1>3, <1>7
<1>9. BufferOf(r, d) \in Buffer
  BY <1>1, <1>2, BufferOfType
<1>10. pixels = [p \in Pixel |-> IF p \in part THEN See(r, BufferOf(r, s))[p]
                                 ELSE See(r, BufferOf(r, d))[p]]
  BY <1>6, <1>7, <1>9
<1>11. \A x : x = pixels => x = [p \in Pixel |-> IF p \in part THEN y.mem[BufferOf(y, s)][p]
                                                ELSE See(y, BufferOf(y, d))[p]]
  OBVIOUS
<1> HIDE DEF pixels
<1>12. /\ Sound(r', classic) /\ r'.app = y.app /\ Levels(r') = Levels(y)
       /\ \A i \in Levels(y) : Level(r', i).buf = Level(y, i).buf
       /\ \A b \in Buffer \ {BufferOf(y, d)} : See(r', b) = See(y, b)
       /\ See(r', BufferOf(y, d)) = pixels
  <2>1. d \in Id => y.surf[d].live
    BY <1>2, <1>7
  <2>2. BufferOf(y, d) = y.cur.buf => y.cur.fill = None
    BY <1>6, <1>7
  <2>3. pixels = [p \in Pixel |-> IF p \in part THEN y.mem[BufferOf(y, s)][p]
                                  ELSE See(y, BufferOf(y, d))[p]]
    BY <1>11
  <2>4. ASSUME NEW h, h = Forget(CopyPixels(y, d, s, part), d)
        PROVE  /\ Sound(h, classic) /\ h.app = y.app /\ Levels(h) = Levels(y)
               /\ \A i \in Levels(y) : Level(h, i).buf = Level(y, i).buf
               /\ \A b \in Buffer \ {BufferOf(y, d)} : See(h, b) = See(y, b)
               /\ See(h, BufferOf(y, d)) = pixels
    <3>1. Sound(y, classic) /\ BufferOf(y, d) \notin Suspended(y)
      BY <1>7
    <3> QED
      BY <1>2, <1>8, <2>1, <2>2, <2>3, <2>4, <3>1, CopyMade
  <2> QED
    BY <1>4, <2>4
<1>13. Repictured(BufferOf(r, d), pixels)
  BY <1>7, <1>9, <1>12 DEF Repictured
<1> QED
  BY <1>10, <1>12, <1>13

-----------------------------------------------------------------------------
(* RenderTargets: every call acts at once.                                   *)

\* What a step shows, whichever it is.
Promised ==
  \/ Unseen /\ call' = <<"choose">>
  \/ \E c \in Colour : Repictured(r.cur.buf, All(c)) /\ call' = <<"fill", c>>
  \/ \E p \in Pixel, c \in Colour :
       Repictured(r.cur.buf, [Shows(r, r.cur) EXCEPT ![p] = c]) /\ call' = <<"put", p, c>>
  \/ \E n \in Name : /\ Repictured(r.cur.buf, Over(See(r, r.cur.buf), See(r, BufferOf(r, n))))
                     /\ call' = <<"draw", n>>
  \/ \E d, s \in Name, part \in SUBSET Pixel :
       /\ Repictured(BufferOf(r, d), [p \in Pixel |-> IF p \in part THEN See(r, BufferOf(r, s))[p]
                                                      ELSE See(r, BufferOf(r, d))[p]])
       /\ call' = <<"copy", d, s, part>>
  \/ \E n \in Id : Repictured(n, All(Clear)) /\ call' = <<"blank", n>>
  \/ \E n \in Id, part \in SUBSET Pixel :
       Repictured(n, Kept(See(r, n), part)) /\ call' = <<"resize", n, part>>
  \/ \E new \in Plane, part \in SUBSET Pixel :
       /\ Follows(r.app, new) /\ See(r', new) = Kept(See(r, r.app), part)
       /\ call' = <<"resize", Application, part>>

LEMMA SoundStep ==
  ASSUME TargetsIInv, Sound(r, classic), Habits = {}, TargetsNext
  PROVE  Sound(r', classic) /\ Promised
<1>0. /\ uses \subseteq Name /\ uses \ {Application} \subseteq Id /\ Shallow(r, classic)
      /\ Solid \in Colour /\ Clear \in Colour
  BY Uses, Names3 DEF TargetsIInv
<1>1. ASSUME NEW n \in uses, Bind(n) PROVE Sound(r', classic) /\ Promised
  <2>1. call' = <<"choose">>
    BY <1>1 DEF Bind, Called
  <2> QED
    BY <1>1, <2>1, BindSound DEF Promised
<1>2. ASSUME NEW n \in uses, DrawSurface(n) PROVE Sound(r', classic) /\ Promised
  <2>1. call' = <<"draw", n>> /\ n \in Name
    BY <1>0, <1>2 DEF DrawSurface, Called
  <2> QED
    BY <1>2, <2>1, DrawSound DEF Promised
<1>3. CASE Unbind
  <2>1. call' = <<"choose">>
    BY <1>3 DEF Unbind, Called
  <2> QED
    BY <1>3, <2>1, UnbindSound DEF Promised
<1>4. CASE DrawRect
  <2>1. call' = <<"fill", Solid>>
    BY <1>4 DEF DrawRect, Called
  <2> QED
    BY <1>0, <1>4, <2>1, RectSound DEF Promised
<1>5. CASE EndPass
  <2>1. call' = <<"choose">>
    BY <1>5 DEF EndPass, Called
  <2> QED
    BY <1>5, <2>1, EndSound DEF Promised
<1>6. ASSUME NEW c \in Colour, ClearTarget(c) PROVE Sound(r', classic) /\ Promised
  <2>1. call' = <<"fill", c>>
    BY <1>6 DEF ClearTarget, Called
  <2> QED
    BY <1>6, <2>1, ClearSound DEF Promised
<1>7. ASSUME NEW p \in Pixel, DrawPixel(p) PROVE Sound(r', classic) /\ Promised
  <2>1. call' = <<"put", p, Solid>>
    BY <1>7 DEF DrawPixel, Called
  <2>2. Sound(r', classic) /\ Repictured(r.cur.buf, [Shows(r, r.cur) EXCEPT ![p] = Solid])
    BY <1>7, PixelSound
  <2> QED
    BY <1>0, <2>1, <2>2, Zenon DEF Promised
<1>8. ASSUME NEW p \in Pixel, Punch(p) PROVE Sound(r', classic) /\ Promised
  <2>1. call' = <<"put", p, Clear>>
    BY <1>8 DEF Punch, Called
  <2>2. Sound(r', classic) /\ Repictured(r.cur.buf, [Shows(r, r.cur) EXCEPT ![p] = Clear])
    BY <1>8, PunchSound
  <2> QED
    BY <1>0, <2>1, <2>2, Zenon DEF Promised
<1>9. ASSUME NEW d \in uses, NEW s \in uses, NEW part \in SUBSET Pixel, SurfaceCopy(d, s, part)
      PROVE  Sound(r', classic) /\ Promised
  <2>1. call' = <<"copy", d, s, part>> /\ d \in Name /\ s \in Name
    BY <1>0, <1>9 DEF SurfaceCopy, Called
  <2>2. /\ Sound(r', classic)
        /\ Repictured(BufferOf(r, d),
                      [p \in Pixel |-> IF p \in part THEN See(r, BufferOf(r, s))[p]
                                       ELSE See(r, BufferOf(r, d))[p]])
    BY <1>9, CopySound
  <2> QED
    BY <2>1, <2>2, Zenon DEF Promised
<1>10. ASSUME NEW n \in uses \ {Application}, Create(n) PROVE Sound(r', classic) /\ Promised
  <2>1. call' = <<"blank", n>> /\ n \in Id
    BY <1>0, <1>10 DEF Create, Called
  <2> QED
    BY <1>10, <2>1, CreateSound DEF Promised
<1>11. ASSUME NEW n \in uses \ {Application}, Free(n) PROVE Sound(r', classic) /\ Promised
  <2>1. call' = <<"blank", n>> /\ n \in Id
    BY <1>0, <1>11 DEF Free, Called
  <2> QED
    BY <1>11, <2>1, FreeSound DEF Promised
<1>12. ASSUME NEW n \in uses \ {Application}, NEW part \in SUBSET Pixel, Resize(n, part)
       PROVE  Sound(r', classic) /\ Promised
  <2>1. call' = <<"resize", n, part>> /\ n \in Id
    BY <1>0, <1>12 DEF Resize, Called
  <2> QED
    BY <1>12, <2>1, ResizeSound DEF Promised
<1>13. ASSUME NEW new \in Plane, NEW part \in SUBSET Pixel, ResizeZero(new, part)
       PROVE  Sound(r', classic) /\ Promised
  <2>1. call' = <<"resize", Application, part>>
    BY <1>13 DEF ResizeZero, Called
  <2> QED
    BY <1>13, <2>1, ZeroSound DEF Promised
<1>14. ASSUME NEW b \in {Screen, r.app}, Begin(b) PROVE Sound(r', classic) /\ Promised
  <2>1. call' = <<"choose">>
    BY <1>14 DEF Begin, Called
  <2> QED
    BY <1>14, <2>1, BeginSound DEF Promised
<1>15. ASSUME NEW b \in {Screen, r.app}, NEW next \in {"step", "pass"}, BeginRetaining(b, next)
       PROVE  Sound(r', classic) /\ Promised
  <2>1. call' = <<"choose">>
    BY <1>15 DEF BeginRetaining, Called
  <2> QED
    BY <1>0, <1>15, <2>1, RetainSound DEF Promised
<1> QED
  BY <1>1, <1>2, <1>3, <1>4, <1>5, <1>6, <1>7, <1>8, <1>9, <1>10, <1>11, <1>12, <1>13, <1>14, <1>15
     DEF TargetsNext

\* The pictures of the canvases, and the canvases drawn to.
Place(g, c) == IF c = Application THEN g.app ELSE c
Pictures(g) == [c \in Canvas |-> See(g, Place(g, c))]
CanvasIn(g, b) == IF b = g.app THEN Application ELSE b
Trail(g) == [i \in 1..(Len(g.stack) + 1) |-> CanvasIn(g, Level(g, i).buf)]

LEMMA PicturesAre ==
  /\ [c \in Canvas |-> Seen(IF c = Application THEN r.app ELSE c)] = Pictures(r)
  /\ [c \in Canvas |-> Seen(IF c = Application THEN r.app ELSE c)]' = Pictures(r')
<1>1. [c \in Canvas |-> Seen(IF c = Application THEN r.app ELSE c)] = Pictures(r)
  BY SeenIs DEF Pictures, Place
<1>2. [c \in Canvas |-> Seen(IF c = Application THEN r.app ELSE c)]' = Pictures(r')
  BY SeenNext DEF Pictures, Place
<1> QED
  BY <1>1, <1>2

LEMMA TrailIs ==
  /\ [i \in 1..(Len(r.stack) + 1) |->
        CanvasOf(IF i <= Len(r.stack) THEN r.stack[i].buf ELSE r.cur.buf)] = Trail(r)
  /\ [i \in 1..(Len(r.stack) + 1) |->
        CanvasOf(IF i <= Len(r.stack) THEN r.stack[i].buf ELSE r.cur.buf)]' = Trail(r')
<1>1. \A g, i : (IF i <= Len(g.stack) THEN g.stack[i].buf ELSE g.cur.buf) = Level(g, i).buf
  BY DEF Level
<1>2. \A b : CanvasOf(b) = CanvasIn(r, b)
  BY DEF CanvasOf, CanvasIn
<1>3. \A b : CanvasOf(b)' = CanvasIn(r', b)
  BY DEF CanvasOf, CanvasIn
<1>4. [i \in 1..(Len(r.stack) + 1) |->
        CanvasOf(IF i <= Len(r.stack) THEN r.stack[i].buf ELSE r.cur.buf)] = Trail(r)
  BY <1>1 DEF Trail, CanvasOf, CanvasIn
<1>5. [i \in 1..(Len(r.stack) + 1) |->
        CanvasOf(IF i <= Len(r.stack) THEN r.stack[i].buf ELSE r.cur.buf)]' = Trail(r')
  BY <1>1 DEF Trail, CanvasOf, CanvasIn
<1> QED
  BY <1>4, <1>5

\* Where the program draws.
LEMMA TrailEnds ==
  ASSUME NEW g, NEW k, Sound(g, k)
  PROVE  /\ Last(Trail(g)) = CanvasIn(g, g.cur.buf)
         /\ CanvasIn(g, g.cur.buf) \in Canvas /\ Place(g, CanvasIn(g, g.cur.buf)) = g.cur.buf
<1> DEFINE top == Len(g.stack) + 1
           T == {CanvasIn(g, Level(g, i).buf) : i \in 1..top}
<1>1. /\ g \in Renderer /\ Layout(g, k) /\ top \in Nat /\ top \in 1..top /\ Level(g, top) = g.cur
  BY LevelTypes DEF Sound
<1>2. Trail(g) \in [1..top -> T]
  BY DEF Trail
<1>3. Trail(g) \in Seq(T)
  BY <1>1, <1>2, SeqDef
<1>4. Len(Trail(g)) = top
  BY <1>1, <1>2, <1>3, LenProperties
<1>5. Trail(g)[top] = CanvasIn(g, g.cur.buf)
  BY <1>1 DEF Trail
<1>6. Last(Trail(g)) = CanvasIn(g, g.cur.buf)
  BY <1>4, <1>5 DEF Last
<1>7. g.cur.buf \in {Screen, g.app} \union Id
  BY <1>1, WhoIsWhere DEF Layout
<1>8. g.app \in Plane
  BY <1>1, Fields
<1>9. CanvasIn(g, g.cur.buf) \in Canvas
  BY <1>7 DEF CanvasIn, Canvas, Name
<1>10. Place(g, CanvasIn(g, g.cur.buf)) = g.cur.buf
  BY <1>7, <1>8, Names3 DEF CanvasIn, Place
<1> QED
  BY <1>6, <1>9, <1>10

\* Every canvas is a buffer of its own.
LEMMA Places ==
  ASSUME NEW g \in Renderer
  PROVE  /\ \A c \in Canvas : Place(g, c) \in Buffer
         /\ \A c, d \in Canvas : Place(g, c) = Place(g, d) => c = d
         /\ \A n \in Name : n \in Canvas /\ Place(g, n) = BufferOf(g, n)
<1>1. g.app \in Plane
  BY Fields
<1>2. \A c \in Canvas : Place(g, c) \in Buffer
  BY <1>1 DEF Canvas, Name, Place, Buffer
<1>3. \A c, d \in Canvas : Place(g, c) = Place(g, d) => c = d
  BY <1>1, Names3 DEF Canvas, Name, Place
<1>4. \A n \in Name : n \in Canvas /\ Place(g, n) = BufferOf(g, n)
  BY DEF Canvas, Place, BufferOf
<1> QED
  BY <1>2, <1>3, <1>4

\* A repainted buffer is one canvas with a new picture.
LEMMA PictureAt ==
  ASSUME r \in Renderer, r' \in Renderer, NEW d \in Canvas, NEW pixels,
         Repictured(Place(r, d), pixels)
  PROVE  Pictures(r') = [Pictures(r) EXCEPT ![d] = pixels] /\ Trail(r') = Trail(r)
<1>1. /\ r'.app = r.app /\ Levels(r') = Levels(r)
      /\ \A i \in Levels(r) : Level(r', i).buf = Level(r, i).buf
      /\ \A c \in Buffer \ {Place(r, d)} : See(r', c) = See(r, c)
      /\ See(r', Place(r, d)) = pixels
  BY DEF Repictured
<1>2. \A c : Place(r', c) = Place(r, c)
  BY <1>1 DEF Place
<1>3. \A c \in Canvas : See(r', Place(r', c)) = IF c = d THEN pixels ELSE See(r, Place(r, c))
  BY <1>1, <1>2, Places
<1>4. Pictures(r') = [c \in Canvas |-> IF c = d THEN pixels ELSE See(r, Place(r, c))]
  BY <1>3 DEF Pictures
<1>5. [Pictures(r) EXCEPT ![d] = pixels] =
        [c \in Canvas |-> IF c = d THEN pixels ELSE See(r, Place(r, c))]
  BY DEF Pictures
<1>6. \A b : CanvasIn(r', b) = CanvasIn(r, b)
  BY <1>1 DEF CanvasIn
<1>7. Trail(r') = Trail(r)
  BY <1>1, <1>6 DEF Trail, Levels
<1> QED
  BY <1>4, <1>5, <1>7

LEMMA UnseenPictures ==
  ASSUME r \in Renderer, Unseen
  PROVE  Pictures(r') = Pictures(r)
<1>1. \A c : Place(r', c) = Place(r, c)
  BY DEF Unseen, Place
<1>2. \A c \in Canvas : See(r', Place(r', c)) = See(r, Place(r, c))
  BY <1>1, Places DEF Unseen
<1> QED
  BY <1>2 DEF Pictures

LEMMA ZeroPictures ==
  ASSUME r \in Renderer, r' \in Renderer, NEW new \in Plane, Follows(r.app, new)
  PROVE  /\ Pictures(r') = [Pictures(r) EXCEPT ![Application] = See(r', new)]
         /\ Trail(r') = Trail(r)
<1>1. /\ r'.app = new /\ Levels(r') = Levels(r) /\ r.app \in Plane
      /\ \A i \in Levels(r) : /\ Level(r, i).buf # new
                              /\ Level(r', i).buf = IF Level(r, i).buf = r.app THEN new
                                                    ELSE Level(r, i).buf
      /\ \A b \in Buffer \ {r.app, new} : See(r', b) = See(r, b)
  BY Fields DEF Follows
<1>2. \A i \in Levels(r) : CanvasIn(r', Level(r', i).buf) = CanvasIn(r, Level(r, i).buf)
  BY <1>1 DEF CanvasIn
<1>3. Trail(r') = Trail(r)
  BY <1>1, <1>2 DEF Trail, Levels
<1>4. ASSUME NEW c \in Canvas, c # Application
      PROVE  See(r', Place(r', c)) = See(r, Place(r, c))
  <2>1. Place(r, c) = c /\ Place(r', c) = c /\ c \in Buffer \ {r.app, new}
    BY <1>1, <1>4, Names3 DEF Place, Canvas, Name, Buffer
  <2> QED
    BY <1>1, <2>1
<1>5. See(r', Place(r', Application)) = See(r', new)
  BY <1>1 DEF Place
<1>6. Pictures(r') = [c \in Canvas |-> IF c = Application THEN See(r', new) ELSE See(r, Place(r, c))]
  BY <1>4, <1>5 DEF Pictures
<1>7. [Pictures(r) EXCEPT ![Application] = See(r', new)] =
        [c \in Canvas |-> IF c = Application THEN See(r', new) ELSE See(r, Place(r, c))]
  BY DEF Pictures
<1> QED
  BY <1>3, <1>6, <1>7

\* The promises, said of the pictures and the trail of the renderer.
LEMMA HereIs == ASSUME Sound(r, classic) PROVE Promise!Here = CanvasIn(r, r.cur.buf)
<1> DEFINE B == [i \in 1..(Len(r.stack) + 1) |->
                   CanvasOf(IF i <= Len(r.stack) THEN r.stack[i].buf ELSE r.cur.buf)]
<1>1. B = Trail(r)
  BY TrailIs
<1>2. Promise!Here = B[Len(B)]
  BY DEF Promise!Here, Promise!Last
<1> HIDE DEF B
<1>3. Last(Trail(r)) = CanvasIn(r, r.cur.buf)
  BY TrailEnds
<1> QED
  BY <1>1, <1>2, <1>3 DEF Last

LEMMA Saying ==
  /\ \A c : Promise!Fill(c) <=>
       /\ Pictures(r') = [Pictures(r) EXCEPT ![Promise!Here] = [p \in Pixel |-> c]]
       /\ Trail(r') = Trail(r)
  /\ \A p, c : Promise!Put(p, c) <=>
       /\ Pictures(r') = [Pictures(r) EXCEPT ![Promise!Here][p] = c]
       /\ Trail(r') = Trail(r)
  /\ \A s : Promise!Draw(s) <=>
       /\ Pictures(r') = [Pictures(r) EXCEPT ![Promise!Here] = Promise!Over(@, Pictures(r)[s])]
       /\ Trail(r') = Trail(r)
  /\ \A d, s, part : Promise!Copy(d, s, part) <=>
       /\ Pictures(r') = [Pictures(r) EXCEPT ![d] =
            [p \in Pixel |-> IF p \in part THEN Pictures(r)[s][p] ELSE @[p]]]
       /\ Trail(r') = Trail(r)
  /\ \A d, part : Promise!Resize(d, part) <=>
       /\ Pictures(r') = [Pictures(r) EXCEPT ![d] =
            [p \in Pixel |-> IF p \in part THEN @[p] ELSE Clear]]
       /\ Trail(r') = Trail(r)
  /\ Promise!Choose <=> Pictures(r') = Pictures(r)
<1> DEFINE P == [c \in Canvas |-> Seen(IF c = Application THEN r.app ELSE c)]
           B == [i \in 1..(Len(r.stack) + 1) |->
                   CanvasOf(IF i <= Len(r.stack) THEN r.stack[i].buf ELSE r.cur.buf)]
<1>1. \A c : Promise!Fill(c) <=>
       /\ P' = [P EXCEPT ![Promise!Here] = [p \in Pixel |-> c]]
       /\ B' = B
  BY DEF Promise!Fill
<1>2. \A p, c : Promise!Put(p, c) <=>
       /\ P' = [P EXCEPT ![Promise!Here][p] = c]
       /\ B' = B
  BY DEF Promise!Put
<1>3. \A s : Promise!Draw(s) <=>
       /\ P' = [P EXCEPT ![Promise!Here] = Promise!Over(@, P[s])]
       /\ B' = B
  BY DEF Promise!Draw
<1>4. \A d, s, part : Promise!Copy(d, s, part) <=>
       /\ P' = [P EXCEPT ![d] =
            [p \in Pixel |-> IF p \in part THEN P[s][p] ELSE @[p]]]
       /\ B' = B
  BY DEF Promise!Copy
<1>5. \A d, part : Promise!Resize(d, part) <=>
       /\ P' = [P EXCEPT ![d] =
            [p \in Pixel |-> IF p \in part THEN @[p] ELSE Clear]]
       /\ B' = B
  BY DEF Promise!Resize
<1>6. Promise!Choose <=> P' = P
  BY DEF Promise!Choose
<1>7. P = Pictures(r) /\ P' = Pictures(r') /\ B = Trail(r) /\ B' = Trail(r')
  BY PicturesAre, TrailIs
<1> HIDE DEF P, B
<1> QED
  BY <1>1, <1>2, <1>3, <1>4, <1>5, <1>6, <1>7

\* A repainted target is the canvas drawn to, with a new picture.
LEMMA PaintedHere ==
  ASSUME Sound(r, classic), Sound(r', classic), NEW pixels, Repictured(r.cur.buf, pixels)
  PROVE  /\ Pictures(r') = [Pictures(r) EXCEPT ![Promise!Here] = pixels] /\ Trail(r') = Trail(r)
         /\ Pictures(r)[Promise!Here] = See(r, r.cur.buf) /\ Promise!Here \in Canvas
<1>1. /\ r \in Renderer /\ r' \in Renderer /\ Promise!Here \in Canvas
      /\ Place(r, Promise!Here) = r.cur.buf
  BY HereIs, TrailEnds DEF Sound
<1>2. Pictures(r)[Promise!Here] = See(r, r.cur.buf)
  BY <1>1 DEF Pictures
<1> HIDE DEF Promise!Here
<1>3. Repictured(Place(r, Promise!Here), pixels)
  BY <1>1
<1>4. Pictures(r') = [Pictures(r) EXCEPT ![Promise!Here] = pixels] /\ Trail(r') = Trail(r)
  BY <1>1, <1>3, PictureAt
<1> QED
  BY <1>1, <1>2, <1>4

\* A surface by name.
LEMMA PaintedName ==
  ASSUME Sound(r, classic), Sound(r', classic), NEW n \in Name, NEW pixels,
         Repictured(BufferOf(r, n), pixels)
  PROVE  /\ Pictures(r') = [Pictures(r) EXCEPT ![n] = pixels] /\ Trail(r') = Trail(r)
         /\ n \in Canvas
<1>1. r \in Renderer /\ r' \in Renderer
  BY DEF Sound
<1>2. n \in Canvas /\ Place(r, n) = BufferOf(r, n)
  BY <1>1, Places
<1>3. Repictured(Place(r, n), pixels)
  BY <1>2
<1>4. Pictures(r') = [Pictures(r) EXCEPT ![n] = pixels] /\ Trail(r') = Trail(r)
  BY <1>1, <1>2, <1>3, PictureAt
<1> QED
  BY <1>2, <1>4

LEMMA PictureOf ==
  ASSUME NEW g \in Renderer, NEW n \in Name
  PROVE  Pictures(g)[n] = See(g, BufferOf(g, n))
BY Places DEF Pictures

LEMMA PromiseFill ==
  ASSUME Sound(r, classic), Sound(r', classic), NEW c \in Colour, Repictured(r.cur.buf, All(c))
  PROVE  Promise!Fill(c)
<1>1. Pictures(r') = [Pictures(r) EXCEPT ![Promise!Here] = All(c)] /\ Trail(r') = Trail(r)
  BY PaintedHere
<1> QED
  BY <1>1, Saying DEF All

LEMMA PromisePut ==
  ASSUME Sound(r, classic), Sound(r', classic), NEW p \in Pixel, NEW c \in Colour,
         Repictured(r.cur.buf, [Shows(r, r.cur) EXCEPT ![p] = c])
  PROVE  Promise!Put(p, c)
<1>1. See(r, r.cur.buf) = Shows(r, r.cur)
  BY CurrentSeen
<1>2. Repictured(r.cur.buf, [See(r, r.cur.buf) EXCEPT ![p] = c])
  BY <1>1
<1>3. /\ Pictures(r') = [Pictures(r) EXCEPT ![Promise!Here] = [See(r, r.cur.buf) EXCEPT ![p] = c]]
      /\ Trail(r') = Trail(r) /\ Pictures(r)[Promise!Here] = See(r, r.cur.buf)
  BY <1>2, PaintedHere
<1>4. Pictures(r') = [Pictures(r) EXCEPT ![Promise!Here][p] = c]
  BY <1>3
<1> QED
  BY <1>3, <1>4, Saying

LEMMA PromiseDraw ==
  ASSUME Sound(r, classic), Sound(r', classic), NEW n \in Name,
         Repictured(r.cur.buf, Over(See(r, r.cur.buf), See(r, BufferOf(r, n))))
  PROVE  Promise!Draw(n)
<1>1. /\ Pictures(r') = [Pictures(r) EXCEPT ![Promise!Here] =
                           Over(See(r, r.cur.buf), See(r, BufferOf(r, n)))]
      /\ Trail(r') = Trail(r) /\ Pictures(r)[Promise!Here] = See(r, r.cur.buf)
  BY PaintedHere
<1>2. Pictures(r)[n] = See(r, BufferOf(r, n))
  BY PictureOf DEF Sound
<1>3. \A f, h : Promise!Over(f, h) = Over(f, h)
  BY DEF Promise!Over, Over
<1>4. Pictures(r') = [Pictures(r) EXCEPT ![Promise!Here] = Promise!Over(@, Pictures(r)[n])]
  BY <1>1, <1>2, <1>3
<1> QED
  BY <1>1, <1>4, Saying

LEMMA PromiseCopy ==
  ASSUME Sound(r, classic), Sound(r', classic), NEW d \in Name, NEW s \in Name,
         NEW part \in SUBSET Pixel,
         Repictured(BufferOf(r, d), [p \in Pixel |-> IF p \in part THEN See(r, BufferOf(r, s))[p]
                                                     ELSE See(r, BufferOf(r, d))[p]])
  PROVE  Promise!Copy(d, s, part)
<1>1. /\ Pictures(r') = [Pictures(r) EXCEPT ![d] =
           [p \in Pixel |-> IF p \in part THEN See(r, BufferOf(r, s))[p]
                            ELSE See(r, BufferOf(r, d))[p]]]
      /\ Trail(r') = Trail(r)
  BY PaintedName
<1>2. Pictures(r)[d] = See(r, BufferOf(r, d)) /\ Pictures(r)[s] = See(r, BufferOf(r, s))
  BY PictureOf DEF Sound
<1>3. Pictures(r') = [Pictures(r) EXCEPT ![d] =
         [p \in Pixel |-> IF p \in part THEN Pictures(r)[s][p] ELSE @[p]]]
  BY <1>1, <1>2
<1> QED
  BY <1>1, <1>3, Saying

LEMMA PromiseResize ==
  ASSUME r \in Renderer, NEW n \in Name, NEW part \in SUBSET Pixel,
         Pictures(r') = [Pictures(r) EXCEPT ![n] = Kept(See(r, BufferOf(r, n)), part)],
         Trail(r') = Trail(r)
  PROVE  Promise!Resize(n, part)
<1>1. Pictures(r)[n] = See(r, BufferOf(r, n))
  BY PictureOf
<1>2. Pictures(r') = [Pictures(r) EXCEPT ![n] =
         [p \in Pixel |-> IF p \in part THEN @[p] ELSE Clear]]
  BY <1>1 DEF Kept
<1> QED
  BY <1>2, Saying

LEMMA PromiseBlank ==
  ASSUME r \in Renderer, NEW n \in Name,
         Pictures(r') = [Pictures(r) EXCEPT ![n] = All(Clear)], Trail(r') = Trail(r)
  PROVE  Promise!Blank(n)
<1>1. Kept(See(r, BufferOf(r, n)), {}) = All(Clear)
  BY DEF Kept, All
<1>2. Pictures(r') = [Pictures(r) EXCEPT ![n] = Kept(See(r, BufferOf(r, n)), {})]
  BY <1>1
<1>3. {} \in SUBSET Pixel
  OBVIOUS
<1>4. Promise!Resize(n, {})
  BY <1>2, <1>3, PromiseResize, Zenon
<1> QED
  BY <1>4 DEF Promise!Blank

LEMMA PromiseKept ==
  ASSUME Sound(r, classic), Sound(r', classic), Promised
  PROVE  AsPromised
<1>0. r \in Renderer /\ r' \in Renderer /\ Id \subseteq Name /\ Application \in Name
  BY DEF Sound, Name
<1>1. CASE Unseen /\ call' = <<"choose">>
  <2>1. Promise!Choose
    BY <1>0, <1>1, UnseenPictures, Saying
  <2> QED
    BY <1>1, <2>1 DEF AsPromised
<1>2. ASSUME NEW c \in Colour, Repictured(r.cur.buf, All(c)), call' = <<"fill", c>>
      PROVE  AsPromised
  <2>1. Promise!Fill(c)
    BY <1>2, PromiseFill
  <2> QED
    BY <1>2, <2>1 DEF AsPromised
<1>3. ASSUME NEW p \in Pixel, NEW c \in Colour, call' = <<"put", p, c>>,
             Repictured(r.cur.buf, [Shows(r, r.cur) EXCEPT ![p] = c])
      PROVE  AsPromised
  <2>1. Promise!Put(p, c)
    BY <1>3, PromisePut
  <2> QED
    BY <1>3, <2>1 DEF AsPromised
<1>4. ASSUME NEW n \in Name, call' = <<"draw", n>>,
             Repictured(r.cur.buf, Over(See(r, r.cur.buf), See(r, BufferOf(r, n))))
      PROVE  AsPromised
  <2>1. Promise!Draw(n)
    BY <1>4, PromiseDraw
  <2> QED
    BY <1>4, <2>1 DEF AsPromised
<1>5. ASSUME NEW d \in Name, NEW s \in Name, NEW part \in SUBSET Pixel,
             Repictured(BufferOf(r, d),
                        [p \in Pixel |-> IF p \in part THEN See(r, BufferOf(r, s))[p]
                                         ELSE See(r, BufferOf(r, d))[p]]),
             call' = <<"copy", d, s, part>>
      PROVE  AsPromised
  <2>1. Promise!Copy(d, s, part)
    BY <1>5, PromiseCopy
  <2> QED
    BY <1>5, <2>1 DEF AsPromised
<1>6. ASSUME NEW n \in Id, Repictured(n, All(Clear)), call' = <<"blank", n>>
      PROVE  AsPromised
  <2>1. n \in Name /\ BufferOf(r, n) = n
    BY <1>0, Names3 DEF BufferOf
  <2>2. Pictures(r') = [Pictures(r) EXCEPT ![n] = All(Clear)] /\ Trail(r') = Trail(r)
    BY <1>6, <2>1, PaintedName
  <2>3. Promise!Blank(n)
    BY <1>0, <2>1, <2>2, PromiseBlank
  <2> QED
    BY <1>6, <2>3 DEF AsPromised
<1>7. ASSUME NEW n \in Id, NEW part \in SUBSET Pixel, Repictured(n, Kept(See(r, n), part)),
             call' = <<"resize", n, part>>
      PROVE  AsPromised
  <2>1. n \in Name /\ BufferOf(r, n) = n
    BY <1>0, Names3 DEF BufferOf
  <2>2. /\ Pictures(r') = [Pictures(r) EXCEPT ![n] = Kept(See(r, BufferOf(r, n)), part)]
        /\ Trail(r') = Trail(r)
    BY <1>7, <2>1, PaintedName
  <2>3. Promise!Resize(n, part)
    BY <1>0, <2>1, <2>2, PromiseResize
  <2> QED
    BY <1>7, <2>3 DEF AsPromised
<1>8. ASSUME NEW new \in Plane, NEW part \in SUBSET Pixel, Follows(r.app, new),
             See(r', new) = Kept(See(r, r.app), part), call' = <<"resize", Application, part>>
      PROVE  AsPromised
  <2>1. BufferOf(r, Application) = r.app
    BY DEF BufferOf
  <2>2. /\ Pictures(r') = [Pictures(r) EXCEPT ![Application] = Kept(See(r, r.app), part)]
        /\ Trail(r') = Trail(r)
    BY <1>0, <1>8, ZeroPictures
  <2>3. Promise!Resize(Application, part)
    BY <1>0, <2>1, <2>2, PromiseResize
  <2> QED
    BY <1>8, <2>3 DEF AsPromised
<1> QED
  BY <1>1, <1>2, <1>3, <1>4, <1>5, <1>6, <1>7, <1>8 DEF Promised

LEMMA SoundKept ==
  ASSUME TargetsIInv, Sound(r, classic), [TargetsNext]_targetVars, Habits = {}
  PROVE  (TargetsIInv /\ Sound(r, classic))'
<1>1. CASE UNCHANGED targetVars
  <2>1. Sound(r, classic)'
    BY <1>1 DEF targetVars
  <2> QED
    BY <2>1, TargetsTypeStep
<1>2. CASE TargetsNext
  <2>1. Sound(r', classic)
    BY <1>2, SoundStep
  <2>2. classic' = classic
    BY <1>2, Zenon DEF TargetsNext, Bind, DrawSurface, Unbind, DrawRect, EndPass, ClearTarget, DrawPixel,
         Punch, SurfaceCopy, Create, Free, Resize, ResizeZero, Begin, BeginRetaining, Called
  <2>3. Sound(r, classic)'
    BY <2>1, <2>2
  <2>4. TargetsIInv'
    BY TargetsTypeStep
  <2> QED
    BY <2>3, <2>4
<1> QED
  BY <1>1, <1>2

\* A program that does none of the things the code gets wrong (Habits = {}) never
\* has two levels of the stack on the same pixels, and whatever is remembered of
\* a surface, a target or surface 0 (known, opaque, empty) is true of what it
\* shows, so that the skips and copies of gml_render_surfaces.c are sound.
THEOREM RememberedIsTrue ==
  ASSUME Habits = {}
  PROVE  TargetsSpec => [](Layout(r, classic) /\ Remembered(r))
<1> DEFINE J == TargetsIInv /\ Sound(r, classic)
<1>1. TargetsInit => J
  BY TargetsTypeInit, SoundInit
<1>2. J /\ [TargetsNext]_targetVars => J'
  BY SoundKept
<1>3. J => Layout(r, classic) /\ Remembered(r)
  BY DEF Sound
<1> QED
  BY <1>1, <1>2, <1>3, PTL DEF TargetsSpec

\* A program that does none of the things the code gets wrong (Habits = {}) gets
\* from every call what it would get if fills were performed at once and every
\* pixel looked at, with any surfaces, pixels and depth: waiting, skipping and
\* copying are unseen (gml_render_internal.h:194 and 313).
THEOREM CallsActAtOnce ==
  ASSUME Habits = {}
  PROVE  TargetsSpec => ActsAtOnce
<1> DEFINE J == TargetsIInv /\ Sound(r, classic)
<1>1. TargetsInit => J
  BY TargetsTypeInit, SoundInit
<1>2. J /\ [TargetsNext]_targetVars => J'
  BY SoundKept
<1>3. J /\ [TargetsNext]_targetVars => [AsPromised]_targetVars
  <2>1. ASSUME J, TargetsNext PROVE AsPromised
    BY <2>1, SoundStep, PromiseKept
  <2> QED
    BY <2>1
<1> QED
  BY <1>1, <1>2, <1>3, PTL DEF TargetsSpec, ActsAtOnce
=============================================================================
