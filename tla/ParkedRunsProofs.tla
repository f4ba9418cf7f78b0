--------------------------- MODULE ParkedRunsProofs ---------------------------
(***************************************************************************)
(* The chain of a parked event is whole and left alone, for stacks and     *)
(* chains of any length, any instances and any sites: for this it does not *)
(* matter what the runs hold, and IInv says nothing of its type.  On top   *)
(* of it TInv: the types, the books of the struct table, and that handles  *)
(* find what they were made for.                                           *)
(***************************************************************************)
EXTENDS ParkedRuns, SequenceTheorems, FiniteSetTheorems, WellFoundedInduction, TLAPS

\* A sequence of whatever.
Sequence(s) == s \in Seq({s[i] : i \in DOMAIN s})

ShapeInv ==
  /\ Sequence(stack) /\ Sequence(wait.frames)
  /\ wait.active \in BOOLEAN /\ wait.parking \in BOOLEAN

IdleInv == pc = "idle" => stack = <<>>

IInv == ShapeInv /\ IdleInv /\ ChainIsWhole
-----------------------------------------------------------------------------
LEMMA AnySeq ==
  ASSUME NEW S, NEW s \in Seq(S)
  PROVE  Sequence(s)
BY DEF Sequence

LEMMA Lengths ==
  ASSUME NEW s, Sequence(s)
  PROVE  Len(s) \in Nat /\ DOMAIN s = 1..Len(s) /\ (s = <<>> <=> Len(s) = 0)
BY DEF Sequence

LEMMA Empties == Sequence(<<>>)
BY DEF Sequence

LEMMA Appended ==
  ASSUME NEW s, Sequence(s), NEW x
  PROVE  /\ Sequence(Append(s, x)) /\ Len(Append(s, x)) = Len(s) + 1
         /\ Append(s, x)[Len(s) + 1] = x
         /\ \A i \in 1..Len(s) : Append(s, x)[i] = s[i]
<1> DEFINE S == {s[i] : i \in DOMAIN s} \cup {x}
<1>1. s \in Seq(S)
  BY DEF Sequence
<1>2. x \in S
  OBVIOUS
<1> HIDE DEF S
<1>3. Append(s, x) \in Seq(S) /\ Append(s, x)[Len(s) + 1] = x
  BY <1>1, <1>2, AppendProperties
<1>4. Len(Append(s, x)) = Len(s) + 1 /\ \A i \in 1..Len(s) : Append(s, x)[i] = s[i]
  BY <1>1, <1>2, AppendProperties
<1> QED
  BY <1>3, <1>4, AnySeq

LEMMA Fronts ==
  ASSUME NEW s, Sequence(s), s # <<>>
  PROVE  Sequence(Front(s)) /\ Len(Front(s)) = Len(s) - 1
<1> DEFINE n == Len(s) - 1
<1>1. n \in Nat /\ n < Len(s) /\ Len(s) \in Nat
  BY Lengths
<1>2. Front(s) = [i \in 1..n |-> s[i]]
  BY <1>1, s \in Seq({s[i] : i \in DOMAIN s}) DEF Front, Sequence
<1>3. Front(s) \in Seq({s[i] : i \in DOMAIN s})
  <2>1. \A i \in 1..n : s[i] \in {s[j] : j \in DOMAIN s}
    BY <1>1, Lengths
  <2> QED
    BY <1>1, <1>2, <2>1
<1>4. Len(Front(s)) = n
  BY <1>1, <1>2
<1> QED
  BY <1>3, <1>4, AnySeq

LEMMA Changed ==
  ASSUME NEW s, Sequence(s), NEW k \in DOMAIN s, NEW x
  PROVE  Sequence([s EXCEPT ![k] = x]) /\ Len([s EXCEPT ![k] = x]) = Len(s)
<1> DEFINE S == {s[i] : i \in DOMAIN s} \cup {x}
<1>1. s \in Seq(S)
  BY DEF Sequence
<1>2. [s EXCEPT ![k] = x] \in Seq(S) /\ Len([s EXCEPT ![k] = x]) = Len(s)
  BY <1>1
<1> QED
  BY <1>2, AnySeq

LEMMA Least ==
  ASSUME NEW T, T \subseteq Nat, T # {}
  PROVE  \E x \in T : \A y \in T : x <= y
<1> DEFINE R == {ss \in Nat \X Nat : ss[1] < ss[2]}
<1>1. IsWellFoundedOn(R, Nat)
  BY NatLessThanWellFounded, Zenon DEF OpToRel
<1>0. \A x, y \in Nat : ~(<<y, x>> \in R) => x <= y
  OBVIOUS
<1> HIDE DEF R
<1>2. PICK x \in T : \A y \in T : ~(<<y, x>> \in R)
  BY <1>1, WFMin
<1>3. ASSUME NEW y \in T PROVE x <= y
  BY <1>0, <1>2
<1> QED
  BY <1>2, <1>3

\* The chain that a frame takes up is a sequence of runs, wherever it was cut.
LEMMA Resuming ==
  ASSUME ShapeInv
  PROVE  Sequence(Resumed)
<1> DEFINE outward == Reverse(wait.frames)
           gone == {i \in DOMAIN outward : outward[i].self \notin alive}
           first == CHOOSE i \in gone : \A j \in gone : i <= j
<1>1. Len(wait.frames) \in Nat
  BY Lengths DEF ShapeInv
<1>2. outward = [i \in 1..Len(wait.frames) |-> wait.frames[(Len(wait.frames) - i) + 1]]
  BY DEF Reverse
<1>3. gone # {} => first \in gone
  <2>1. gone \subseteq Nat
    <3>1. DOMAIN outward = 1..Len(wait.frames)
      BY <1>2
    <3> HIDE DEF outward
    <3> QED
      BY <1>1, <3>1
  <2> HIDE DEF gone
  <2> QED
    BY <2>1, Least
<1>4. \E n \in Nat : DOMAIN Survivors = 1..n
  <2>1. CASE gone = {}
    <3>1. Survivors = outward
      BY <2>1 DEF Survivors
    <3> QED
      BY <3>1, <1>1, <1>2
  <2>2. CASE gone # {}
    <3>1. first \in 1..Len(wait.frames)
      <4>1. first \in DOMAIN outward
        BY <2>2, <1>3
      <4> QED
        BY <4>1, <1>2
    <3>2. Survivors = SubSeq(outward, 1, first - 1)
      BY <2>2 DEF Survivors
    <3> HIDE DEF first, outward
    <3>3. SubSeq(outward, 1, first - 1) = [i \in 1..(first - 1) |-> outward[(1 + i) - 1]]
      BY <3>1, <1>1
    <3>4. DOMAIN Survivors = 1..(first - 1)
      BY <3>2, <3>3
    <3>5. first - 1 \in Nat
      BY <3>1, <1>1
    <3> QED
      BY <3>4, <3>5
  <2> QED
    BY <2>1, <2>2
<1> QED
  <2>1. PICK n \in Nat : DOMAIN Resumed = 1..n
    BY <1>4 DEF Resumed
  <2>2. Resumed = [i \in 1..n |-> Resumed[i]]
    BY <2>1 DEF Resumed
  <2> HIDE DEF Resumed
  <2> QED
    BY <2>1, <2>2 DEF Sequence
-----------------------------------------------------------------------------
(* Steps that leave the chain where it is.                                 *)

LEMMA Still ==
  ASSUME IInv, wait' = wait, Sequence(stack'), ~wait.parking \/ stack' = stack, IdleInv'
  PROVE  IInv'
<1>1. ShapeInv'
  BY DEF IInv, ShapeInv
<1>2. ChainIsWhole'
  <2>1. CASE ~wait.parking
    BY <2>1 DEF IInv, ChainIsWhole
  <2>2. CASE stack' = stack
    BY <2>2 DEF IInv, ChainIsWhole
  <2> QED
    BY <2>1, <2>2
<1> QED
  BY <1>1, <1>2 DEF IInv

LEMMA Untouched ==
  ASSUME IInv, wait' = wait, stack' = stack, pc' = "idle" => stack = <<>>
  PROVE  IInv'
BY Still DEF IInv, IdleInv, ShapeInv

\* A run does something to itself, its caller or a run it calls.
LEMMA RunningSteps ==
  ASSUME IInv, Running, wait' = wait, pc' = pc, Sequence(stack')
  PROVE  IInv'
<1>1. IdleInv'
  BY DEF Running, IdleInv
<1> QED
  BY <1>1, Still DEF Running

LEMMA TopChanges ==
  ASSUME IInv, Running, wait' = wait, pc' = pc, NEW x, stack' = [stack EXCEPT ![Len(stack)] = x]
  PROVE  IInv'
<1>1. Sequence(stack) /\ Len(stack) \in DOMAIN stack
  BY Lengths DEF IInv, ShapeInv, Running
<1>2. Sequence(stack')
  BY <1>1, Changed
<1> QED
  BY <1>2, RunningSteps

LEMMA Pops ==
  ASSUME IInv, stack # <<>>
  PROVE  Sequence(Front(stack)) /\ Len(Front(stack)) = Len(stack) - 1 /\ Len(stack) \in Nat \ {0}
BY Fronts, Lengths DEF IInv, ShapeInv
-----------------------------------------------------------------------------
(* Steps that move a run into the chain, and out of it.                    *)

LEMMA Parking ==
  ASSUME IInv, pc # "idle", stack # <<>>, ParkTop
  PROVE  IInv'
<1>1. /\ Sequence(stack') /\ Len(stack') = Len(stack) - 1 /\ Len(stack) \in Nat \ {0}
      /\ pc' = pc /\ Len(stack') \in Nat /\ (stack' = <<>> <=> Len(stack') = 0)
  <2>1. Sequence(stack') /\ Len(stack') = Len(stack) - 1 /\ Len(stack) \in Nat \ {0} /\ pc' = pc
    BY Pops DEF ParkTop, Pop
  <2> QED
    BY <2>1, Lengths
<1>2. IdleInv'
  BY <1>1 DEF IdleInv
<1>3. CASE ~Parkable /\ ~wait.parking
  <2>1. wait' = wait
    BY <1>3 DEF ParkTop, Cancel
  <2> QED
    BY <1>1, <1>2, <1>3, <2>1, Still
<1>4. CASE ~Parkable /\ wait.parking
  <2>1. wait' = Nothing
    BY <1>4 DEF ParkTop, Cancel
  <2>2. ShapeInv'
    BY <1>1, <2>1, Empties DEF ShapeInv, Nothing
  <2>3. ChainIsWhole'
    BY <2>1 DEF ChainIsWhole, Nothing
  <2> QED
    BY <1>2, <2>2, <2>3 DEF IInv
<1>5. CASE Parkable
  <2> DEFINE n == Len(wait.frames)
             m == Len(stack)
             frames == Append(wait.frames, ParkedTop)
  <2>1. /\ wait'.active = (m = 1) /\ wait'.parking = (m > 1)
        /\ wait'.expected = m - 1 /\ wait'.frames = frames
    BY <1>5 DEF ParkTop
  <2>2. /\ Sequence(frames) /\ Len(frames) = n + 1 /\ frames[n + 1] = ParkedTop
        /\ \A i \in 1..n : frames[i] = wait.frames[i]
    BY Appended DEF IInv, ShapeInv
  <2>3. ShapeInv'
    BY <1>1, <2>1, <2>2 DEF ShapeInv
  <2>4. n \in Nat /\ (n > 0 <=> wait.parking) /\ (wait.parking => m = wait.expected)
    BY <1>5, Lengths DEF IInv, ShapeInv, ChainIsWhole, Parkable
  <2>5. ParkedTop.depth = m /\ ParkedTop.pushes = wait.parking
    BY DEF ParkedTop
  <2>6. \A i \in 1..n : /\ wait.frames[i].depth = m + n - i + 1
                        /\ wait.frames[i].pushes <=> i > 1
    <3>1. CASE wait.parking
      BY <3>1 DEF IInv, ChainIsWhole
    <3>2. CASE ~wait.parking
      BY <2>4, <3>2
    <3> QED
      BY <3>1, <3>2
  <2>7. \A i \in 1..(n + 1) : /\ frames[i].depth = (m - 1) + (n + 1) - i + 1
                              /\ frames[i].pushes <=> i > 1
    <3>1. ASSUME NEW i \in 1..n
          PROVE  frames[i].depth = (m - 1) + (n + 1) - i + 1 /\ (frames[i].pushes <=> i > 1)
      BY <1>1, <2>2, <2>4, <2>6, <3>1
    <3>2. frames[n + 1].depth = (m - 1) + (n + 1) - (n + 1) + 1
      BY <1>1, <2>2, <2>4, <2>5
    <3>3. frames[n + 1].pushes <=> n + 1 > 1
      <4>1. frames[n + 1].pushes = wait.parking
        BY <2>2, <2>5
      <4> QED
        BY <2>4, <4>1
    <3> HIDE DEF frames
    <3> QED
      BY <2>4, <3>1, <3>2, <3>3
  <2>8. (wait'.active <=> m = 1) /\ (wait'.parking <=> m > 1)
    <3> HIDE DEF m
    <3> QED
      BY <2>1, Zenon
  <2>9. ChainIsWhole'
    <3>1. Len(wait'.frames) = n + 1 /\ (IF wait'.parking THEN Len(stack') ELSE 0) = m - 1
      <4>1. Len(wait'.frames) = n + 1
        BY <2>1, <2>2
      <4>2. Len(stack') = m - 1 /\ (~wait'.parking => m - 1 = 0)
        BY <1>1, <2>8
      <4>3. (IF wait'.parking THEN Len(stack') ELSE 0) = m - 1
        <5> HIDE DEF m
        <5> QED
          BY <4>2, Zenon
      <4> QED
        BY <4>1, <4>3
    <3>2. /\ n + 1 > 0 <=> wait'.active \/ wait'.parking
          /\ ~(wait'.active /\ wait'.parking)
          /\ wait'.parking => stack' # <<>> /\ wait'.expected = Len(stack')
      <4>1. n + 1 > 0 /\ (wait'.active \/ wait'.parking)
        BY <1>1, <2>4, <2>8
      <4>2. ~(wait'.active /\ wait'.parking)
        BY <1>1, <2>8
      <4>3. wait'.parking => stack' # <<>> /\ wait'.expected = Len(stack')
        BY <1>1, <2>1, <2>8
      <4> QED
        BY <4>1, <4>2, <4>3
    <3>3. \A i \in 1..Len(wait'.frames) :
            /\ wait'.frames[i].depth
                 = (IF wait'.parking THEN Len(stack') ELSE 0) + Len(wait'.frames) - i + 1
            /\ wait'.frames[i].pushes <=> i > 1
      <4> HIDE DEF frames, n, m
      <4> QED
        BY <2>1, <2>7, <3>1, Zenon
    <3>4. Len(wait'.frames) > 0 <=> wait'.active \/ wait'.parking
      BY <3>1, <3>2, Zenon
    <3> QED
      BY <3>2, <3>3, <3>4, Zenon DEF ChainIsWhole
  <2> QED
    BY <1>2, <2>3, <2>9 DEF IInv
<1> QED
  BY <1>3, <1>4, <1>5

LEMMA Resumption ==
  ASSUME IInv, ResumeFrame
  PROVE  IInv'
<1>1. stack' = Resumed /\ wait' = Nothing /\ pc' # "idle"
  BY DEF ResumeFrame, TakenOut
<1>2. Sequence(stack')
  BY <1>1, Resuming DEF IInv
<1>3. ShapeInv'
  BY <1>1, <1>2, Empties DEF ShapeInv, Nothing
<1>4. ChainIsWhole'
  BY <1>1 DEF ChainIsWhole, Nothing
<1> QED
  BY <1>1, <1>3, <1>4 DEF IInv, IdleInv
-----------------------------------------------------------------------------
LEMMA Initially == Init => IInv
<1> SUFFICES ASSUME Init PROVE IInv
  OBVIOUS
<1>1. ShapeInv
  BY Empties DEF Init, ShapeInv, Nothing
<1>2. ChainIsWhole
  BY DEF Init, ChainIsWhole, Nothing
<1> QED
  BY <1>1, <1>2 DEF IInv, IdleInv, Init

LEMMA Invariance == IInv /\ [Next]_vars => IInv'
<1> SUFFICES ASSUME IInv, [Next]_vars PROVE IInv'
  OBVIOUS
<1>1. CASE NewStruct
  <2>1. Running /\ wait' = wait /\ pc' = pc
    BY <1>1 DEF NewStruct
  <2>2. CASE TakeSpare
    BY <2>1, <2>2, TopChanges DEF TakeSpare
  <2>3. CASE TakeNew
    BY <2>1, <2>3, TopChanges DEF TakeNew
  <2> QED
    BY <1>1, <2>2, <2>3 DEF NewStruct
<1>2. CASE Store
  BY <1>2, RunningSteps DEF Store, IInv, ShapeInv
<1>3. CASE Fetch
  BY <1>3, TopChanges DEF Fetch
<1>4. CASE Block
  BY <1>4, TopChanges DEF Block
<1>5. CASE \E s \in Sites : Pass(s)
  BY <1>5, TopChanges DEF Pass
<1>6. CASE Return
  <2>1. Running /\ wait' = wait /\ pc' = pc /\ stack # <<>>
    BY <1>6 DEF Return, Running
  <2>2. Sequence(Front(stack))
    BY <2>1, Pops
  <2>3. Sequence(Answered(Front(stack), Top.kept))
    <3>1. CASE Front(stack) = <<>>
      BY <2>2, <3>1 DEF Answered
    <3>2. CASE Front(stack) # <<>>
      <4>1. Len(Front(stack)) \in DOMAIN Front(stack)
        BY <2>2, <3>2, Lengths
      <4> QED
        BY <2>2, <3>2, <4>1, Changed DEF Answered
    <3> QED
      BY <3>1, <3>2
  <2>4. Sequence(stack')
    BY <1>6, <2>2, <2>3 DEF Return
  <2> QED
    BY <2>1, <2>4, RunningSteps
<1>7. CASE Wait \/ Unwind
  BY <1>7, Parking DEF Wait, Unwind, Running
<1>8. CASE \E i \in alive : \E b \in BOOLEAN : Call(i, b)
  <2>1. PICK i \in alive, b \in BOOLEAN : Call(i, b)
    BY <1>8
  <2>2. Running /\ wait' = wait /\ pc' = pc
    BY <2>1 DEF Call
  <2>3. Sequence(stack')
    BY <2>1, Appended DEF Call, IInv, ShapeInv
  <2> QED
    BY <2>2, <2>3, RunningSteps
<1>9. CASE \E i \in alive : Destroy(i)
  BY <1>9, RunningSteps DEF Destroy, IInv, ShapeInv
<1>10. CASE \E i \in alive : \E b \in BOOLEAN : Dispatch(i, b)
  <2>1. PICK i \in alive, b \in BOOLEAN : Dispatch(i, b)
    BY <1>10
  <2>2. stack = <<>> /\ wait' = wait /\ pc' # "idle" /\ stack' = Append(<<>>, NewRun(i, None, b))
    BY <2>1 DEF Dispatch
  <2>3. Sequence(stack')
    BY <2>2, Empties, Appended
  <2>4. ~wait.parking
    BY <2>2 DEF IInv, ChainIsWhole
  <2> QED
    BY <2>2, <2>3, <2>4, Still DEF IdleInv
<1>11. CASE ResumeFrame
  BY <1>11, Resumption
<1>12. CASE StepFrame \/ HeldAgain \/ EventEnded \/ EndFrame \/ Save
  <2>1. wait' = wait /\ stack' = stack
    BY <1>12 DEF StepFrame, HeldAgain, EventEnded, EndFrame, Save
  <2>2. pc' = "idle" => stack = <<>>
    BY <1>12 DEF StepFrame, HeldAgain, EventEnded, EndFrame, Save, Begins, IInv, IdleInv
  <2> QED
    BY <2>1, <2>2, Untouched
<1>13. CASE UNCHANGED vars
  BY <1>13, Untouched DEF vars, IInv, IdleInv
<1> QED
  BY <1>1, <1>2, <1>3, <1>4, <1>5, <1>6, <1>7, <1>8, <1>9, <1>10, <1>11, <1>12, <1>13 DEF Next

LEMMA Inductive == Spec => []IInv
<1> QED
  BY Initially, Invariance, PTL DEF Spec
-----------------------------------------------------------------------------
\* The chain of a parked event has the runs of one event, from the one that waits outwards, and
\* nothing of another (vm_wait_park).
THEOREM WholeChain == Spec => []ChainIsWhole
<1>1. IInv => ChainIsWhole
  BY DEF IInv
<1> QED
  BY <1>1, Inductive, PTL

\* Only a frame that takes the event up touches a chain that is complete (gml_vm_wait_resume); a run
\* that cannot park discards its own chain and no other (gml_vm_wait_cancel).
THEOREM LeftAlone == Spec => OutstandingKept
<1>1. IInv /\ [Next]_vars => [wait.active => pc = "idle" \/ wait' = wait]_vars
  <2> SUFFICES ASSUME IInv, Next, wait.active, pc # "idle" PROVE wait' = wait
    OBVIOUS
  <2>1. ~wait.parking
    BY DEF IInv, ChainIsWhole
  <2>2. ~Parkable
    BY DEF Parkable
  <2>3. CASE Wait \/ Unwind
    BY <2>1, <2>2, <2>3 DEF Wait, Unwind, ParkTop, Cancel
  <2>4. CASE NewStruct \/ Store \/ Fetch \/ Block \/ Return \/ \E s \in Sites : Pass(s)
    BY <2>4 DEF NewStruct, Store, Fetch, Block, Return, Pass
  <2>5. CASE \E i \in alive : \E b \in BOOLEAN : Destroy(i) \/ Call(i, b) \/ Dispatch(i, b)
    BY <2>5 DEF Destroy, Call, Dispatch
  <2>6. CASE StepFrame \/ ResumeFrame \/ HeldAgain \/ EventEnded \/ EndFrame \/ Save
    BY <2>6 DEF StepFrame, ResumeFrame, HeldAgain, EventEnded, EndFrame, Save
  <2> QED
    BY <2>3, <2>4, <2>5, <2>6 DEF Next
<1> QED
  BY <1>1, Inductive, PTL DEF Spec, OutstandingKept
-----------------------------------------------------------------------------
(* The table of structs.  The order in which the sweep frees them is that  *)
(* of their numbers: Ascending is a sequence of the set, without repeats.  *)

LEMMA Ascends ==
  ASSUME NEW S \in SUBSET Nat, IsFiniteSet(S)
  PROVE  /\ Ascending(S) \in Seq(S) /\ Len(Ascending(S)) = Cardinality(S)
         /\ ToSet(Ascending(S)) = S
         /\ \A i, j \in 1..Cardinality(S) : Ascending(S)[i] = Ascending(S)[j] => i = j
<1> DEFINE n == Cardinality(S)
           below(s) == {t \in S : t < s}
           f == [s \in S |-> Cardinality(below(s)) + 1]
<1>0. \A s \in S : s \in Nat
  OBVIOUS
<1>1. n \in Nat
  BY FS_CardinalityType
<1>2. \A s \in S : IsFiniteSet(below(s)) /\ Cardinality(below(s)) \in Nat
  <2> TAKE s \in S
  <2>1. IsFiniteSet(below(s))
    BY FS_Subset, below(s) \in SUBSET S
  <2> QED
    BY <2>1, FS_CardinalityType
<1>3. \A s, u \in S : s < u => Cardinality(below(s)) < Cardinality(below(u))
  <2> SUFFICES ASSUME NEW s \in S, NEW u \in S, s < u
               PROVE  Cardinality(below(s)) < Cardinality(below(u))
    OBVIOUS
  <2>1. below(s) \in SUBSET below(u)
    <3>1. s \in Nat /\ u \in Nat
      BY <1>0
    <3>2. \A t \in S : t < s => t < u
      <4> TAKE t \in S
      <4>1. t \in Nat
        BY <1>0
      <4> QED
        BY <3>1, <4>1
    <3> QED
      BY <3>2
  <2>2. below(s) # below(u)
    <3>1. s \in below(u) /\ s \notin below(s)
      OBVIOUS
    <3> QED
      BY <3>1
  <2>3. IsFiniteSet(below(u))
    BY <1>2
  <2> HIDE DEF below
  <2>4. Cardinality(below(s)) <= Cardinality(below(u)) /\ Cardinality(below(u)) # Cardinality(below(s))
    BY <2>1, <2>2, <2>3, FS_Subset
  <2> QED
    BY <1>2, <2>4
<1>4. \A s \in S : Cardinality(below(s)) < n
  <2> TAKE s \in S
  <2>1. below(s) \in SUBSET S /\ below(s) # S
    OBVIOUS
  <2> HIDE DEF below
  <2>2. Cardinality(below(s)) <= n /\ n # Cardinality(below(s))
    BY <2>1, FS_Subset
  <2> QED
    BY <1>1, <1>2, <2>2
<1>5. f \in Injection(S, 1..n)
  <2>1. f \in [S -> 1..n]
    <3> SUFFICES ASSUME NEW s \in S PROVE Cardinality(below(s)) + 1 \in 1..n
      OBVIOUS
    <3> HIDE DEF below, n
    <3> QED
      BY <1>1, <1>2, <1>4
  <2>2. \A s, u \in S : f[s] = f[u] => s = u
    <3> SUFFICES ASSUME NEW s \in S, NEW u \in S, f[s] = f[u] PROVE s = u
      OBVIOUS
    <3>1. Cardinality(below(s)) = Cardinality(below(u))
      <4>1. f[s] = Cardinality(below(s)) + 1 /\ f[u] = Cardinality(below(u)) + 1
        OBVIOUS
      <4> DEFINE x == Cardinality(below(s))
                 y == Cardinality(below(u))
      <4>2. x \in Nat /\ y \in Nat /\ x + 1 = y + 1
        BY <1>2, <4>1
      <4> HIDE DEF f, x, y
      <4>3. x = y
        BY <4>2
      <4> QED
        BY <4>3 DEF x, y
    <3>2. ~(s < u) /\ ~(u < s)
      <4> HIDE DEF f, below
      <4> QED
        BY <1>2, <1>3, <3>1
    <3> QED
      BY <1>0, <3>2
  <2> HIDE DEF f
  <2> QED
    BY <2>1, <2>2 DEF Injection, IsInjective
<1>6. f \in Surjection(S, 1..n)
  <2>1. IsFiniteSet(1..n) /\ Cardinality(1..n) = n
    BY <1>1, FS_Interval
  <2> HIDE DEF f
  <2> QED
    BY <1>5, <2>1, FS_Injection
<1>7. \A i \in 1..n : \E s \in S : Cardinality(below(s)) = i - 1
  <2> TAKE i \in 1..n
  <2>1. PICK s \in S : f[s] = i
    <3> HIDE DEF f
    <3> QED
      BY <1>6 DEF Surjection
  <2>2. f[s] = Cardinality(below(s)) + 1
    OBVIOUS
  <2> HIDE DEF f, below
  <2>3. Cardinality(below(s)) = i - 1
    BY <1>1, <1>2, <2>1, <2>2
  <2> QED
    BY <2>3
<1> DEFINE a == Ascending(S)
<1>8. a = [i \in 1..n |-> CHOOSE s \in S : Cardinality(below(s)) = i - 1]
  BY DEF Ascending
<1>9. \A i \in 1..n : a[i] \in S /\ Cardinality(below(a[i])) = i - 1
  <2> TAKE i \in 1..n
  <2>1. a[i] = CHOOSE s \in S : Cardinality(below(s)) = i - 1
    BY <1>8
  <2> HIDE DEF a, below
  <2> QED
    BY <1>7, <2>1
<1> HIDE DEF a, below
<1>10. a \in Seq(S) /\ Len(a) = n
  <2>1. a \in [1..n -> S]
    <3>1. DOMAIN a = 1..n /\ a = [i \in 1..n |-> a[i]]
      BY <1>8
    <3> QED
      BY <1>9, <3>1
  <2> QED
    BY <1>1, <2>1
<1>11. \A s \in S : \E i \in 1..n : a[i] = s
  <2> TAKE s \in S
  <2> DEFINE i == Cardinality(below(s)) + 1
  <2>1. i \in 1..n /\ i - 1 = Cardinality(below(s))
    BY <1>1, <1>2, <1>4
  <2> HIDE DEF i
  <2>2. a[i] \in S /\ Cardinality(below(a[i])) = Cardinality(below(s))
    BY <1>9, <2>1
  <2>3. ~(a[i] < s) /\ ~(s < a[i])
    <3>1. /\ a[i] < s => Cardinality(below(a[i])) < Cardinality(below(s))
          /\ s < a[i] => Cardinality(below(s)) < Cardinality(below(a[i]))
      BY <1>3, <2>2
    <3>2. Cardinality(below(s)) \in Nat
      BY <1>2
    <3> QED
      BY <2>2, <3>1, <3>2
  <2>4. a[i] = s
    <3>1. a[i] \in Nat /\ s \in Nat
      BY <1>0, <2>2
    <3> QED
      BY <2>3, <3>1
  <2> QED
    BY <2>1, <2>4
<1>12. \A i, j \in 1..n : a[i] = a[j] => i = j
  BY <1>1, <1>9
<1>13. ToSet(a) = S
  <2>1. DOMAIN a = 1..n
    BY <1>8
  <2> QED
    BY <1>9, <1>11, <2>1 DEF ToSet
<1> QED
  BY <1>10, <1>12, <1>13 DEF a

-----------------------------------------------------------------------------
(* Types, and what the handles find.                                       *)

StackType == stack \in Seq(Run) /\ Len(stack) <= MaxDepth
WaitType ==
  /\ wait \in [active : BOOLEAN, parking : BOOLEAN, expected : 0..MaxDepth, frames : Seq(Parked)]
  /\ Len(wait.frames) <= MaxFrames
TableType ==
  /\ uses \in [Slots -> 0..MaxUses] /\ nStructs \in 0..NSlots
  /\ live = {s \in 0..(nStructs - 1) : s \notin ToSet(spare)}
  /\ spare \in Seq(0..(nStructs - 1)) /\ Len(spare) = Cardinality(ToSet(spare))
WorldType ==
  /\ pc \in {"idle", "resume", "events"} /\ (pc = "idle" => stack = <<>>)
  /\ alive \subseteq Ids /\ global \in Handle \cup {None} /\ lost \in BOOLEAN

\* A slot that was never reached was never handed out.
FreshInv == \A s \in nStructs..(NSlots - 1) : uses[s] = 0

Handles == Rooted \cup Held(stack) \cup Held(wait.frames)
\* A handle names a use of its slot that has been, and the present one until something was lost.
HandleInv == \A h \in Handles : h.use <= uses[h.slot] /\ (~lost => Own(h))

TInv == StackType /\ WaitType /\ TableType /\ WorldType /\ FreshInv /\ HandleInv

LEMMA TypeParts == TypeOK <=> StackType /\ WaitType /\ TableType /\ WorldType
BY Zenon DEF TypeOK, StackType, WaitType, TableType, WorldType

LEMMA FrontOf ==
  ASSUME NEW S, NEW s \in Seq(S), s # <<>>
  PROVE  /\ Front(s) \in Seq(S) /\ Len(Front(s)) = Len(s) - 1 /\ Len(s) \in Nat \ {0}
         /\ \A i \in 1..(Len(s) - 1) : Front(s)[i] = s[i]
         /\ Last(s) \in S /\ Last(s) = s[Len(s)]
<1>1. Len(s) \in Nat \ {0}
  BY EmptySeq
<1>2. Front(s) = [i \in 1..(Len(s) - 1) |-> s[i]]
  BY <1>1 DEF Front
<1>3. Front(s) \in Seq(S) /\ Len(Front(s)) = Len(s) - 1
  BY <1>1, <1>2
<1>4. Last(s) \in S
  BY <1>1, ElementOfSeq DEF Last
<1> QED
  BY <1>1, <1>2, <1>3, <1>4 DEF Last

LEMMA HeldFrom ==
  ASSUME NEW s, NEW H, \A i \in DOMAIN s : s[i].kept \in H \cup {None}
  PROVE  Held(s) \subseteq H
BY DEF Held

LEMMA HeldAt ==
  ASSUME NEW s, NEW i \in DOMAIN s
  PROVE  s[i].kept \in Held(s) \cup {None}
BY DEF Held

LEMMA HeldNone == Held(<<>>) = {}
BY DEF Held

LEMMA HeldAppend ==
  ASSUME NEW S, NEW s \in Seq(S), NEW x \in S
  PROVE  Held(Append(s, x)) \subseteq Held(s) \cup ({x.kept} \ {None})
<1> DEFINE t == Append(s, x)
<1>1. /\ Len(s) \in Nat /\ DOMAIN s = 1..Len(s) /\ DOMAIN t = 1..(Len(s) + 1)
      /\ t[Len(s) + 1] = x /\ \A i \in 1..Len(s) : t[i] = s[i]
  BY AppendProperties, LenProperties
<1> HIDE DEF t
<1>2. ASSUME NEW i \in DOMAIN t
      PROVE  t[i].kept \in (Held(s) \cup ({x.kept} \ {None})) \cup {None}
  <2>1. CASE i \in 1..Len(s)
    <3>1. s[i].kept \in Held(s) \cup {None}
      BY <1>1, <2>1, HeldAt
    <3> QED
      BY <1>1, <2>1, <3>1
  <2>2. CASE i = Len(s) + 1
    BY <1>1, <2>2
  <2> QED
    BY <1>1, <1>2, <2>1, <2>2
<1>3. Held(t) \subseteq Held(s) \cup ({x.kept} \ {None})
  BY <1>2, HeldFrom
<1> QED
  BY <1>3 DEF t

LEMMA HeldFront ==
  ASSUME NEW S, NEW s \in Seq(S), s # <<>>
  PROVE  Held(Front(s)) \subseteq Held(s) /\ Last(s).kept \in Held(s) \cup {None}
<1>1. /\ DOMAIN Front(s) = 1..(Len(s) - 1) /\ DOMAIN s = 1..Len(s) /\ Len(s) \in Nat \ {0}
      /\ \A i \in 1..(Len(s) - 1) : Front(s)[i] = s[i]
      /\ Last(s) = s[Len(s)]
  BY FrontOf, LenProperties
<1>2. ASSUME NEW i \in DOMAIN Front(s) PROVE Front(s)[i].kept \in Held(s) \cup {None}
  <2>1. i \in DOMAIN s /\ Front(s)[i] = s[i]
    BY <1>1
  <2> QED
    BY <2>1, HeldAt
<1>3. Last(s).kept \in Held(s) \cup {None}
  <2>1. Len(s) \in DOMAIN s
    BY <1>1
  <2> QED
    BY <1>1, <2>1, HeldAt
<1> QED
  BY <1>2, <1>3, HeldFrom

\* The run at the end of a stack gets other fields; what it then holds is in H, or nothing.
LEMMA TopBecomes ==
  ASSUME NEW s \in Seq(Run), s # <<>>, NEW x \in Run, NEW H, x.kept \in H \cup {None},
         NEW t, t = [s EXCEPT ![Len(s)] = x]
  PROVE  t \in Seq(Run) /\ Len(t) = Len(s) /\ Held(t) \subseteq Held(s) \cup H /\ t # <<>>
<1>1. Len(s) \in Nat \ {0} /\ DOMAIN s = 1..Len(s)
  BY FrontOf, LenProperties
<1>2. t \in Seq(Run) /\ Len(t) = Len(s) /\ \A j \in 1..Len(s) : t[j] = IF j = Len(s) THEN x ELSE s[j]
  BY <1>1, ExceptSeq
<1>3. ASSUME NEW i \in DOMAIN t PROVE t[i].kept \in (Held(s) \cup H) \cup {None}
  <2>1. i \in 1..Len(s)
    BY <1>2, LenProperties
  <2>2. s[i].kept \in Held(s) \cup {None}
    BY <1>1, <2>1, HeldAt
  <2> QED
    BY <1>2, <2>1, <2>2
<1>4. Held(t) \subseteq Held(s) \cup H
  BY <1>3, HeldFrom
<1>5. t # <<>>
  BY <1>1, <1>2
<1> QED
  BY <1>2, <1>4, <1>5

LEMMA TopType ==
  ASSUME StackType, stack # <<>>
  PROVE  Top \in Run /\ Top.kept \in Held(stack) \cup {None} /\ Top = stack[Len(stack)]
BY FrontOf, HeldFront DEF StackType, Top

LEMMA HandleTypes ==
  ASSUME StackType, WaitType, WorldType
  PROVE  Handles \subseteq Handle
<1>1. Rooted \subseteq Handle
  BY DEF WorldType, Rooted
<1>2. Held(stack) \subseteq Handle
  <2>1. ASSUME NEW i \in DOMAIN stack PROVE stack[i].kept \in Handle \cup {None}
    <3>1. stack[i] \in Run
      BY LenProperties, ElementOfSeq DEF StackType
    <3> QED
      BY <3>1 DEF Run
  <2> QED
    BY <2>1, HeldFrom
<1>3. Held(wait.frames) \subseteq Handle
  <2>1. wait.frames \in Seq(Parked)
    BY DEF WaitType
  <2>2. ASSUME NEW i \in DOMAIN wait.frames PROVE wait.frames[i].kept \in Handle \cup {None}
    <3>1. wait.frames[i] \in Parked
      BY <2>1, LenProperties, ElementOfSeq
    <3> QED
      BY <3>1 DEF Parked
  <2> QED
    BY <2>2, HeldFrom
<1> QED
  BY <1>1, <1>2, <1>3 DEF Handles
-----------------------------------------------------------------------------
(* Steps that leave the table alone hold on to what they held.             *)

LEMMA SameTable ==
  ASSUME TInv, UNCHANGED <<table, lost>>, StackType', WaitType', Handles' \subseteq Handles,
         pc' \in {"idle", "resume", "events"}, pc' = "idle" => stack' = <<>>,
         alive' \subseteq Ids, global' \in Handle \cup {None}
  PROVE  TInv'
<1>1. uses' = uses /\ live' = live /\ spare' = spare /\ nStructs' = nStructs /\ lost' = lost
  BY DEF table
<1>2. TableType' /\ FreshInv' /\ WorldType'
  BY <1>1 DEF TInv, TableType, FreshInv, WorldType
<1>3. HandleInv'
  BY <1>1 DEF TInv, HandleInv, Own
<1> QED
  BY <1>2, <1>3 DEF TInv

\* A run does something that leaves the chain and the variables alone.
LEMMA OwnSteps ==
  ASSUME TInv, Running, UNCHANGED <<pc, wait, alive, global, table, lost>>, StackType',
         Held(stack') \subseteq Handles
  PROVE  TInv'
<1>1. Handles' \subseteq Handles
  BY DEF Handles, Rooted
<1>2. WaitType'
  BY DEF TInv, WaitType
<1> QED
  BY <1>1, <1>2, SameTable DEF TInv, WorldType, Running

LEMMA TopSteps ==
  ASSUME TInv, Running, UNCHANGED <<pc, wait, alive, global, table, lost>>,
         NEW x \in Run, x.kept \in Handles \cup {None}, stack' = [stack EXCEPT ![Len(stack)] = x]
  PROVE  TInv'
<1>1. stack \in Seq(Run) /\ stack # <<>> /\ Len(stack) <= MaxDepth
  BY DEF TInv, StackType, Running
<1>2. stack' \in Seq(Run) /\ Len(stack') = Len(stack) /\ Held(stack') \subseteq Held(stack) \cup Handles
  BY <1>1, TopBecomes
<1>3. StackType'
  BY <1>1, <1>2 DEF StackType
<1> QED
  BY <1>2, <1>3, OwnSteps DEF Handles

LEMMA StoreStep == ASSUME TInv, Store PROVE TInv'
<1>1. stack # <<>> /\ pc # "idle" /\ global' \in {Top.kept, None}
  BY DEF Store, Running
<1>2. Top.kept \in Held(stack) \cup {None}
  BY <1>1, TopType DEF TInv
<1>3. UNCHANGED <<pc, stack, wait, alive>> /\ UNCHANGED <<table, lost>>
  BY DEF Store, Spares
<1>4. Held(stack) \subseteq Handle
  BY HandleTypes DEF TInv, Handles
<1>5. Handles' \subseteq Handles
  BY <1>1, <1>2, <1>3 DEF Handles, Rooted
<1>6. StackType' /\ WaitType'
  BY <1>3 DEF TInv, StackType, WaitType
<1>7. pc' \in {"idle", "resume", "events"} /\ pc' # "idle" /\ alive' \subseteq Ids
  BY <1>1, <1>3 DEF TInv, WorldType
<1>8. global' \in Handle \cup {None}
  BY <1>1, <1>2, <1>4
<1> QED
  BY <1>3, <1>5, <1>6, <1>7, <1>8, SameTable

LEMMA FetchStep == ASSUME TInv, Fetch PROVE TInv'
<1>1. Running /\ UNCHANGED <<pc, wait, alive, global, table, lost>> /\ stack # <<>>
  BY DEF Fetch, Spares, table, Running
<1> DEFINE x == [Top EXCEPT !.kept = global]
<1>2. Top \in Run /\ Top = stack[Len(stack)]
  BY <1>1, TopType DEF TInv
<1>3. x \in Run /\ x.kept = global
  BY <1>2 DEF Run, TInv, WorldType
<1>4. stack' = [stack EXCEPT ![Len(stack)] = x]
  BY <1>2 DEF Fetch
<1>5. global \in Handles \cup {None}
  BY DEF Handles, Rooted
<1> HIDE DEF x
<1> QED
  BY <1>1, <1>3, <1>4, <1>5, TopSteps

LEMMA BlockStep == ASSUME TInv, Block PROVE TInv'
<1>1. Running /\ UNCHANGED <<pc, wait, alive, global, table, lost>> /\ stack # <<>>
  BY DEF Block, Spares, table, Running
<1> DEFINE x == [Top EXCEPT !.busy = ~@]
<1>2. Top \in Run /\ Top = stack[Len(stack)] /\ Top.kept \in Held(stack) \cup {None}
  BY <1>1, TopType DEF TInv
<1>3. x \in Run /\ x.kept = Top.kept
  BY <1>2 DEF Run
<1>4. stack' = [stack EXCEPT ![Len(stack)] = x]
  BY <1>2 DEF Block
<1> HIDE DEF x
<1> QED
  BY <1>1, <1>2, <1>3, <1>4, TopSteps DEF Handles

LEMMA PassStep == ASSUME TInv, NEW s \in Sites, Pass(s) PROVE TInv'
<1>1. Running /\ UNCHANGED <<pc, wait, alive, global, table, lost>> /\ stack # <<>>
  BY DEF Pass, Spares, table, Running
<1> DEFINE x == [Top EXCEPT !.site = s]
<1>2. Top \in Run /\ Top = stack[Len(stack)] /\ Top.kept \in Held(stack) \cup {None}
  BY <1>1, TopType DEF TInv
<1>3. x \in Run /\ x.kept = Top.kept
  BY <1>2 DEF Run
<1>4. stack' = [stack EXCEPT ![Len(stack)] = x]
  BY <1>2 DEF Pass
<1> HIDE DEF x
<1> QED
  BY <1>1, <1>2, <1>3, <1>4, TopSteps DEF Handles

LEMMA NewRuns ==
  ASSUME NEW self \in Ids, NEW h \in Handle \cup {None}, NEW b \in BOOLEAN
  PROVE  NewRun(self, h, b) \in Run /\ NewRun(self, h, b).kept = h
BY DEF NewRun, Run

LEMMA Pushes ==
  ASSUME NEW s \in Seq(Run), Len(s) < MaxDepth, NEW x \in Run
  PROVE  Append(s, x) \in Seq(Run) /\ Len(Append(s, x)) <= MaxDepth
BY AppendProperties, LenProperties, ParkedAssumption

LEMMA CallStep == ASSUME TInv, NEW i \in alive, NEW b \in BOOLEAN, Call(i, b) PROVE TInv'
<1>1. Running /\ UNCHANGED <<pc, wait, alive, global, table, lost>> /\ stack # <<>>
  BY DEF Call, Spares, table, Running
<1> DEFINE x == NewRun(i, Top.kept, ChainOf(b))
<1>2. Top \in Run /\ Top.kept \in Held(stack) \cup {None}
  BY <1>1, TopType DEF TInv
<1>3. x \in Run /\ x.kept = Top.kept
  <2>1. ChainOf(b) \in BOOLEAN
    BY DEF ChainOf
  <2>2. Top.kept \in Handle \cup {None} /\ i \in Ids
    BY <1>2 DEF Run, TInv, WorldType
  <2> QED
    BY <2>1, <2>2, NewRuns
<1>4. stack' = Append(stack, x) /\ stack \in Seq(Run) /\ Len(stack) < MaxDepth
  <2>1. stack' = Append(stack, x) /\ stack \in Seq(Run)
    BY DEF Call, TInv, StackType
  <2>2. Len(stack) < (IF wait.active THEN MaxBeside ELSE MaxDepth)
    BY DEF Call
  <2>3. Len(stack) \in Nat
    BY <2>1, LenProperties
  <2>4. Len(stack) < MaxDepth
    BY <2>2, <2>3, ParkedAssumption
  <2> QED
    BY <2>1, <2>4
<1> HIDE DEF x
<1>5. StackType'
  BY <1>3, <1>4, Pushes DEF StackType
<1>6. Held(stack') \subseteq Handles
  BY <1>2, <1>3, <1>4, HeldAppend DEF Handles
<1> QED
  BY <1>1, <1>5, <1>6, OwnSteps

LEMMA DispatchStep == ASSUME TInv, NEW i \in alive, NEW b \in BOOLEAN, Dispatch(i, b) PROVE TInv'
<1>1. pc = "events" /\ UNCHANGED <<pc, wait, alive, global, table, lost>>
  BY DEF Dispatch, Spares, table
<1> DEFINE x == NewRun(i, None, b)
<1>2. x \in Run /\ x.kept = None /\ stack' = <<x>>
  BY NewRuns DEF Dispatch, TInv, WorldType
<1> HIDE DEF x
<1>3. stack' = Append(<<>>, x) /\ <<>> \in Seq(Run) /\ Len(<<>>) < MaxDepth
  BY <1>2, ParkedAssumption
<1>4. StackType'
  BY <1>2, <1>3, Pushes DEF StackType
<1>5. Held(stack') = {}
  BY <1>2, <1>3, HeldAppend, HeldNone
<1>6. Handles' \subseteq Handles
  BY <1>1, <1>5 DEF Handles, Rooted
<1>7. WaitType'
  BY <1>1 DEF TInv, WaitType
<1> QED
  BY <1>1, <1>4, <1>6, <1>7, SameTable DEF TInv, WorldType

LEMMA DestroyStep == ASSUME TInv, NEW i \in alive, Destroy(i) PROVE TInv'
<1>1. pc # "idle" /\ UNCHANGED <<pc, stack, wait, global>> /\ UNCHANGED <<table, lost>> /\ alive' \subseteq alive
  BY DEF Destroy, Spares, Running
<1>2. Handles' = Handles
  BY <1>1 DEF Handles, Rooted
<1>3. StackType' /\ WaitType'
  BY <1>1 DEF TInv, StackType, WaitType
<1> QED
  BY <1>1, <1>2, <1>3, SameTable DEF TInv, WorldType

LEMMA Popped ==
  ASSUME StackType, stack # <<>>
  PROVE  /\ Front(stack) \in Seq(Run) /\ Len(Front(stack)) <= MaxDepth /\ Len(Front(stack)) = Len(stack) - 1
         /\ Held(Front(stack)) \subseteq Held(stack) /\ Len(stack) \in Nat \ {0} /\ Len(stack) <= MaxDepth
<1>1. stack \in Seq(Run) /\ Len(stack) <= MaxDepth
  BY DEF StackType
<1>2. /\ Front(stack) \in Seq(Run) /\ Len(Front(stack)) = Len(stack) - 1 /\ Len(stack) \in Nat \ {0}
      /\ Held(Front(stack)) \subseteq Held(stack)
  BY <1>1, FrontOf, HeldFront
<1>3. Len(Front(stack)) <= MaxDepth
  BY <1>1, <1>2, ParkedAssumption
<1> QED
  BY <1>1, <1>2, <1>3

LEMMA ReturnStep == ASSUME TInv, Return PROVE TInv'
<1>1. Running /\ UNCHANGED <<pc, wait, alive, global, table, lost>> /\ stack # <<>> /\ StackType
  BY DEF Return, Spares, table, Running, TInv
<1> DEFINE f == Front(stack)
           x == [f[Len(f)] EXCEPT !.kept = Top.kept]
<1>2. Top \in Run /\ Top.kept \in Held(stack) \cup {None}
  BY <1>1, TopType
<1>3. f \in Seq(Run) /\ Len(f) <= MaxDepth /\ Held(f) \subseteq Held(stack)
  BY <1>1, Popped
<1>4. CASE stack' = f
  <2>1. StackType' /\ Held(stack') \subseteq Handles
    BY <1>3, <1>4 DEF StackType, Handles
  <2> QED
    BY <1>1, <2>1, OwnSteps
<1>5. CASE stack' = Answered(f, Top.kept) /\ f # <<>>
  <2>1. stack' = [f EXCEPT ![Len(f)] = x]
    BY <1>5 DEF Answered
  <2>2. x \in Run /\ x.kept = Top.kept
    <3>1. f[Len(f)] \in Run
      BY <1>3, <1>5, FrontOf
    <3> QED
      BY <1>2, <3>1 DEF Run
  <2> HIDE DEF x, f
  <2>3. stack' \in Seq(Run) /\ Len(stack') = Len(f) /\ Held(stack') \subseteq Held(f) \cup Held(stack)
    BY <1>2, <1>3, <1>5, <2>1, <2>2, TopBecomes
  <2>4. StackType' /\ Held(stack') \subseteq Handles
    BY <1>3, <2>3 DEF StackType, Handles
  <2> QED
    BY <1>1, <2>4, OwnSteps
<1> QED
  BY <1>4, <1>5 DEF Return, Answered
-----------------------------------------------------------------------------
(* Runs enter and leave a chain with what they hold.                       *)

LEMMA ParkStep ==
  ASSUME TInv, pc # "idle", stack # <<>>, ParkTop
  PROVE  TInv'
<1> DEFINE n == Len(stack)
<1>1. /\ stack' = Front(stack) /\ StackType /\ WaitType
      /\ UNCHANGED <<pc, alive, global>> /\ UNCHANGED <<table, lost>>
  BY DEF ParkTop, Pop, Spares, TInv
<1>2. /\ stack' \in Seq(Run) /\ Len(stack') <= MaxDepth
      /\ Held(stack') \subseteq Held(stack) /\ n \in 1..MaxDepth
  BY <1>1, Popped, ParkedAssumption
<1>3. StackType'
  BY <1>2 DEF StackType
<1>4. Top \in Run /\ Top.kept \in Held(stack) \cup {None}
  BY <1>1, TopType
<1>5. WaitType' /\ Held(wait'.frames) \subseteq Held(stack) \cup Held(wait.frames)
  <2>1. CASE ~Parkable /\ ~wait.parking
    <3>1. wait' = wait
      BY <2>1 DEF ParkTop, Cancel
    <3> QED
      BY <1>1, <3>1 DEF WaitType
  <2>2. CASE ~Parkable /\ wait.parking
    <3>1. wait' = Nothing
      BY <2>2 DEF ParkTop, Cancel
    <3>2. WaitType'
      BY <3>1, ParkedAssumption DEF WaitType, Nothing
    <3> QED
      BY <3>1, <3>2, HeldNone DEF Nothing
  <2>3. CASE Parkable
    <3> DEFINE frames == Append(wait.frames, ParkedTop)
    <3>1. wait' = [active |-> n = 1, parking |-> n > 1, expected |-> n - 1, frames |-> frames]
      BY <2>3 DEF ParkTop
    <3>2. wait.parking \in BOOLEAN /\ wait.frames \in Seq(Parked) /\ Len(wait.frames) < MaxFrames
      BY <1>1, <2>3 DEF WaitType, Parkable
    <3>3. ParkedTop \in Parked /\ ParkedTop.kept = Top.kept
      <4>1. Top.self \in Ids
        BY <2>3 DEF Parkable, TInv, WorldType
      <4>2. Top.kept \in Handle \cup {None} /\ Top.site \in Sites \cup {None}
        BY <1>4 DEF Run
      <4> HIDE DEF n
      <4> QED
        BY <1>2, <3>2, <4>1, <4>2 DEF ParkedTop, Parked, n
    <3>4. frames \in Seq(Parked) /\ Len(frames) <= MaxFrames
      BY <3>2, <3>3, AppendProperties, LenProperties, ParkedAssumption
    <3>5. Held(frames) \subseteq Held(wait.frames) \cup Held(stack)
      BY <1>4, <3>2, <3>3, HeldAppend
    <3> HIDE DEF frames
    <3>6. n - 1 \in 0..MaxDepth
      BY <1>2, ParkedAssumption
    <3> HIDE DEF n
    <3>7. wait' \in [active : BOOLEAN, parking : BOOLEAN, expected : 0..MaxDepth, frames : Seq(Parked)]
      BY <3>1, <3>4, <3>6
    <3>8. wait'.frames = frames
      BY <3>1
    <3> QED
      BY <3>4, <3>5, <3>7, <3>8 DEF WaitType
  <2> QED
    BY <2>1, <2>2, <2>3
<1>6. Handles' \subseteq Handles
  BY <1>1, <1>2, <1>5 DEF Handles, Rooted
<1>7. pc' \in {"idle", "resume", "events"} /\ pc' # "idle" /\ alive' \subseteq Ids /\ global' \in Handle \cup {None}
  BY <1>1 DEF TInv, WorldType
<1> QED
  BY <1>1, <1>3, <1>5, <1>6, <1>7, SameTable

\* What a frame takes up are runs of the chain, from the event's own inwards.
LEMMA SurvivingRuns ==
  ASSUME WaitType
  PROVE  \E m \in 0..Len(wait.frames) :
           DOMAIN Survivors = 1..m /\ \A i \in 1..m : Survivors[i] = wait.frames[(Len(wait.frames) - i) + 1]
<1> DEFINE n == Len(wait.frames)
           outward == Reverse(wait.frames)
           gone == {i \in DOMAIN outward : outward[i].self \notin alive}
           first == CHOOSE i \in gone : \A j \in gone : i <= j
<1>1. wait.frames \in Seq(Parked) /\ n \in Nat
  BY LenProperties DEF WaitType
<1>2. outward = [i \in 1..n |-> wait.frames[(n - i) + 1]]
  BY DEF Reverse
<1>3. DOMAIN outward = 1..n
  BY <1>2
<1>4. CASE gone = {}
  <2>1. Survivors = outward
    BY <1>4 DEF Survivors
  <2>2. n \in 0..n
    BY <1>1
  <2> QED
    BY <1>2, <2>1, <2>2
<1>5. CASE gone # {}
  <2>1. gone \subseteq Nat
    <3> HIDE DEF outward, n
    <3> QED
      BY <1>1, <1>3
  <2>2. first \in 1..n
    <3>1. first \in gone
      <4> HIDE DEF gone
      <4> QED
        BY <1>5, <2>1, Least
    <3> QED
      BY <1>3, <3>1
  <2>3. Survivors = SubSeq(outward, 1, first - 1)
    BY <1>5 DEF Survivors
  <2> HIDE DEF first, outward
  <2>4. SubSeq(outward, 1, first - 1) = [i \in 1..(first - 1) |-> outward[(1 + i) - 1]]
    BY <2>2, <1>1
  <2> HIDE DEF n
  <2>5. first - 1 \in 0..n /\ \A i \in 1..(first - 1) : i \in 1..n /\ (1 + i) - 1 = i
    BY <1>1, <2>2
  <2>6. DOMAIN Survivors = 1..(first - 1)
    BY <2>3, <2>4
  <2>7. \A i \in 1..(first - 1) : Survivors[i] = wait.frames[(n - i) + 1]
    <3>1. \A i \in 1..(first - 1) : Survivors[i] = outward[i]
      BY <2>3, <2>4, <2>5
    <3>2. \A i \in 1..(first - 1) : outward[i] = wait.frames[(n - i) + 1]
      BY <1>2, <2>5
    <3> QED
      BY <3>1, <3>2
  <2> QED
    BY <2>5, <2>6, <2>7 DEF n
<1> QED
  BY <1>4, <1>5

LEMMA ResumeStep == ASSUME TInv, ChainIsWhole, ResumeFrame PROVE TInv'
<1> DEFINE n == Len(wait.frames)
<1>1. /\ pc' = "resume" /\ stack' = Resumed /\ wait' = Nothing /\ wait.active
      /\ UNCHANGED <<alive, global>> /\ UNCHANGED <<table, lost>>
  BY DEF ResumeFrame, TakenOut, Spares
<1>2. wait.frames \in Seq(Parked) /\ n \in Nat /\ DOMAIN wait.frames = 1..n
  BY LenProperties DEF TInv, WaitType
<1>3. n <= MaxDepth
  <2>1. n > 0 /\ ~wait.parking
    BY <1>1 DEF ChainIsWhole
  <2>2. 1 \in 1..n
    BY <1>2, <2>1
  <2>3. wait.frames[1].depth = 0 + n - 1 + 1
    BY <2>1, <2>2 DEF ChainIsWhole
  <2>4. wait.frames[1] \in Parked
    BY <1>2, <2>2, ElementOfSeq
  <2>5. wait.frames[1].depth \in 1..MaxDepth
    BY <2>4 DEF Parked
  <2> QED
    BY <1>2, <2>3, <2>5, ParkedAssumption
<1>4. PICK m \in 0..n : /\ DOMAIN Survivors = 1..m
                        /\ \A i \in 1..m : Survivors[i] = wait.frames[(n - i) + 1]
  BY SurvivingRuns DEF TInv
<1> HIDE DEF n
<1>5. DOMAIN Resumed = 1..m /\ m \in Nat /\ m <= MaxDepth
  BY <1>2, <1>3, <1>4, ParkedAssumption DEF Resumed
<1>6. ASSUME NEW i \in 1..m
      PROVE  Resumed[i] \in Run /\ Resumed[i].kept \in Held(wait.frames) \cup {None}
  <2> DEFINE p == wait.frames[(n - i) + 1]
  <2>1. (n - i) + 1 \in 1..n
    BY <1>2, <1>4
  <2>2. p \in Parked
    BY <1>2, <2>1, ElementOfSeq DEF n
  <2>3. p.kept \in Held(wait.frames) \cup {None}
    BY <1>2, <2>1, HeldAt
  <2>4. Survivors[i] = p
    BY <1>4
  <2> HIDE DEF p
  <2>5. Resumed[i] = [self |-> p.self, kept |-> p.kept, site |-> p.site, chain |-> TRUE, busy |-> FALSE]
    BY <1>4, <2>4 DEF Resumed
  <2>6. p.self \in Ids /\ p.kept \in Handle \cup {None} /\ p.site \in Sites \cup {None}
    BY <2>2 DEF Parked
  <2>7. Resumed[i].kept = p.kept
    BY <2>5
  <2> QED
    BY <2>3, <2>5, <2>6, <2>7 DEF Run
<1>7. StackType'
  <2>1. Resumed = [i \in 1..m |-> Resumed[i]]
    BY <1>5 DEF Resumed
  <2>2. Resumed \in [1..m -> Run]
    BY <1>6, <2>1
  <2>3. Resumed \in Seq(Run) /\ Len(Resumed) = m
    <3> HIDE DEF Resumed
    <3> QED
      BY <1>5, <2>2
  <2> QED
    BY <1>1, <1>5, <2>3 DEF StackType
<1>8. WaitType'
  BY <1>1, ParkedAssumption DEF WaitType, Nothing
<1>9. Held(stack') \subseteq Held(wait.frames)
  BY <1>1, <1>5, <1>6, HeldFrom
<1>10. Held(wait'.frames) = {}
  BY <1>1, HeldNone DEF Nothing
<1>11. Handles' \subseteq Handles
  BY <1>1, <1>9, <1>10 DEF Handles, Rooted
<1>12. alive' \subseteq Ids /\ global' \in Handle \cup {None} /\ pc' = "resume"
  BY <1>1 DEF TInv, WorldType
<1> QED
  BY <1>1, <1>7, <1>8, <1>11, <1>12, SameTable

LEMMA QuietSteps == ASSUME TInv, HeldAgain \/ EndFrame PROVE TInv'
<1>1. stack = <<>> /\ pc' = "idle" /\ UNCHANGED <<stack, wait, global>> /\ UNCHANGED <<table, lost>>
  BY DEF HeldAgain, EndFrame, Spares
<1>2. alive' \subseteq Ids
  BY DEF HeldAgain, EndFrame, TInv, WorldType, Ids
<1>3. Handles' = Handles
  BY <1>1 DEF Handles, Rooted
<1>4. StackType' /\ WaitType'
  BY <1>1 DEF TInv, StackType, WaitType
<1>5. global' \in Handle \cup {None}
  BY <1>1 DEF TInv, WorldType
<1> QED
  BY <1>1, <1>2, <1>3, <1>4, <1>5, SameTable
-----------------------------------------------------------------------------
(* A collection frees what no variable holds, and no slot twice.           *)

LEMMA Finite ==
  ASSUME NEW n \in Nat, NEW S, S \subseteq 0..(n - 1)
  PROVE  S \in SUBSET Nat /\ IsFiniteSet(S) /\ Cardinality(S) \in Nat
<1>1. IsFiniteSet(0..(n - 1))
  BY FS_Interval
<1>2. IsFiniteSet(S)
  BY <1>1, FS_Subset
<1> QED
  BY <1>2, FS_CardinalityType

LEMMA Joined ==
  ASSUME NEW S, NEW s \in Seq(S), NEW t \in Seq(S)
  PROVE  ToSet(s \o t) = ToSet(s) \cup ToSet(t)
<1> DEFINE u == s \o t
<1>1. Len(s) \in Nat /\ Len(t) \in Nat /\ DOMAIN s = 1..Len(s) /\ DOMAIN t = 1..Len(t)
  BY LenProperties
<1>2. /\ u \in Seq(S) /\ Len(u) = Len(s) + Len(t)
      /\ \A i \in 1..(Len(s) + Len(t)) : u[i] = IF i <= Len(s) THEN s[i] ELSE t[i - Len(s)]
  BY ConcatProperties
<1>3. DOMAIN u = 1..(Len(s) + Len(t))
  BY <1>2, LenProperties
<1> HIDE DEF u
<1>4. ASSUME NEW x \in ToSet(s) \cup ToSet(t) PROVE x \in ToSet(u)
  <2>1. CASE x \in ToSet(s)
    <3>1. PICK i \in 1..Len(s) : s[i] = x
      BY <1>1, <2>1 DEF ToSet
    <3>2. i \in 1..(Len(s) + Len(t)) /\ u[i] = x
      BY <1>1, <1>2, <3>1
    <3> QED
      BY <1>3, <3>2 DEF ToSet
  <2>2. CASE x \in ToSet(t)
    <3>1. PICK i \in 1..Len(t) : t[i] = x
      BY <1>1, <2>2 DEF ToSet
    <3>2. /\ Len(s) + i \in 1..(Len(s) + Len(t)) /\ ~(Len(s) + i <= Len(s))
          /\ (Len(s) + i) - Len(s) = i
      BY <1>1, <3>1
    <3>3. u[Len(s) + i] = x
      BY <1>2, <3>1, <3>2
    <3> QED
      BY <1>3, <3>2, <3>3 DEF ToSet
  <2> QED
    BY <2>1, <2>2
<1>5. ASSUME NEW x \in ToSet(u) PROVE x \in ToSet(s) \cup ToSet(t)
  <2>1. PICK i \in 1..(Len(s) + Len(t)) : u[i] = x
    BY <1>3 DEF ToSet
  <2>2. CASE i <= Len(s)
    <3>1. i \in 1..Len(s) /\ s[i] = x
      BY <1>1, <1>2, <2>1, <2>2
    <3> QED
      BY <1>1, <3>1 DEF ToSet
  <2>3. CASE ~(i <= Len(s))
    <3>1. i - Len(s) \in 1..Len(t) /\ t[i - Len(s)] = x
      BY <1>1, <1>2, <2>1, <2>3
    <3> QED
      BY <1>1, <3>1 DEF ToSet
  <2> QED
    BY <1>1, <2>1, <2>2, <2>3
<1> QED
  BY <1>4, <1>5 DEF u

LEMMA CollectStep ==
  ASSUME TInv, Collect, stack = <<>>, stack' = <<>>, UNCHANGED <<wait, alive, global>>,
         pc' \in {"idle", "resume", "events"}
  PROVE  TInv'
<1> DEFINE upto == 0..(nStructs - 1)
<1>1. /\ live' = live \cap Marked /\ spare' = spare \o Freed /\ uses' = uses /\ nStructs' = nStructs
      /\ (lost' <=> (lost \/ \E h \in Held(wait.frames) : h.slot \in Swept))
  BY DEF Collect
<1>2. /\ nStructs \in Nat /\ spare \in Seq(upto) /\ Len(spare) = Cardinality(ToSet(spare))
      /\ live = {s \in upto : s \notin ToSet(spare)}
  BY ParkedAssumption DEF TInv, TableType
<1>3. Swept \subseteq upto /\ Swept \in SUBSET Nat /\ IsFiniteSet(Swept)
  <2>1. Swept \subseteq upto
    BY <1>2 DEF Swept
  <2> QED
    BY <1>2, <2>1, Finite
<1>4. /\ Freed \in Seq(Swept) /\ Len(Freed) = Cardinality(Swept) /\ ToSet(Freed) = Swept
  BY <1>3, Ascends DEF Freed
<1>5. Freed \in Seq(upto)
  BY <1>3, <1>4, SeqMonotonic
<1>6. ToSet(spare) \subseteq upto
  BY <1>2, LenProperties, ElementOfSeq DEF ToSet
<1> HIDE DEF upto
<1>7. spare' \in Seq(upto) /\ Len(spare') = Len(spare) + Len(Freed) /\ ToSet(spare') = ToSet(spare) \cup Swept
  <2>1. ToSet(spare \o Freed) = ToSet(spare) \cup ToSet(Freed)
    BY <1>2, <1>5, Joined
  <2>2. spare \o Freed \in Seq(upto) /\ Len(spare \o Freed) = Len(spare) + Len(Freed)
    BY <1>2, <1>5, ConcatProperties
  <2> QED
    BY <1>1, <1>4, <2>1, <2>2
<1>8. Len(spare') = Cardinality(ToSet(spare'))
  <2>1. ToSet(spare) \cap Swept = {}
    BY <1>2 DEF Swept
  <2>2. IsFiniteSet(ToSet(spare))
    BY <1>2, <1>6, Finite DEF upto
  <2>3. Cardinality(ToSet(spare) \cup Swept)
          = Cardinality(ToSet(spare)) + Cardinality(Swept) - Cardinality(ToSet(spare) \cap Swept)
    BY <1>3, <2>2, FS_Union
  <2>4. Cardinality(ToSet(spare) \cap Swept) = 0
    BY <2>1, FS_EmptySet
  <2>5. Cardinality(ToSet(spare)) \in Nat /\ Cardinality(Swept) \in Nat
    BY <1>3, <2>2, FS_CardinalityType
  <2> QED
    BY <1>2, <1>4, <1>7, <2>3, <2>4, <2>5
<1>9. live' = {s \in upto : s \notin ToSet(spare')}
  BY <1>1, <1>2, <1>7 DEF Swept
<1>10. TableType' /\ FreshInv' /\ WorldType'
  <2>1. TableType'
    BY <1>1, <1>7, <1>8, <1>9 DEF TInv, TableType, upto
  <2>2. FreshInv'
    BY <1>1 DEF TInv, FreshInv
  <2>3. lost' \in BOOLEAN
    BY DEF Collect
  <2> QED
    BY <2>1, <2>2, <2>3 DEF TInv, WorldType
<1>11. StackType' /\ WaitType'
  BY DEF TInv, StackType, WaitType
<1>12. HandleInv'
  <2>1. Handles' = Rooted \cup Held(wait.frames) /\ Handles = Rooted \cup Held(wait.frames)
    BY HeldNone DEF Handles, Rooted
  <2>2. SUFFICES ASSUME NEW h \in Handles' PROVE h.use <= uses'[h.slot] /\ (~lost' => Own(h)')
    BY DEF HandleInv
  <2>3. h.use <= uses[h.slot] /\ (~lost => Own(h))
    BY <2>1 DEF TInv, HandleInv
  <2>4. h.use <= uses'[h.slot]
    BY <1>1, <2>3
  <2>5. ASSUME ~lost' PROVE Own(h)'
    <3>1. h.slot \in live /\ uses[h.slot] = h.use
      BY <1>1, <2>3, <2>5 DEF Own
    <3>2. h.slot \in Marked
      <4>1. CASE h \in Rooted
        BY <3>1, <4>1 DEF Marked, Found
      <4>2. CASE h \in Held(wait.frames)
        BY <1>1, <2>5, <3>1, <4>2 DEF Swept
      <4> QED
        BY <2>1, <4>1, <4>2
    <3> QED
      BY <1>1, <3>1, <3>2 DEF Own
  <2> QED
    BY <2>4, <2>5
<1> QED
  BY <1>10, <1>11, <1>12 DEF TInv

LEMMA BeginStep ==
  ASSUME TInv, stack = <<>>, Begins, UNCHANGED <<stack, wait, alive, global>>
  PROVE  TInv'
<1>1. pc' = "events" /\ (Collect \/ Spares)
  BY DEF Begins
<1>2. CASE Collect
  BY <1>1, <1>2, CollectStep
<1>3. CASE Spares
  <2>1. Handles' = Handles
    BY DEF Handles, Rooted
  <2>2. StackType' /\ WaitType' /\ alive' \subseteq Ids /\ global' \in Handle \cup {None}
    BY DEF TInv, StackType, WaitType, WorldType
  <2> QED
    BY <1>1, <1>3, <2>1, <2>2, SameTable DEF Spares
<1> QED
  BY <1>1, <1>2, <1>3
-----------------------------------------------------------------------------
(* A new struct takes a slot that no handle finds.                         *)

LEMMA Shorter ==
  ASSUME NEW S, NEW s \in Seq(S), s # <<>>, IsFiniteSet(S), Len(s) = Cardinality(ToSet(s))
  PROVE  /\ ToSet(s) = ToSet(Front(s)) \cup {Last(s)} /\ Last(s) \notin ToSet(Front(s))
         /\ Len(Front(s)) = Cardinality(ToSet(Front(s)))
<1> DEFINE n == Len(s) - 1
           f == Front(s)
           T == ToSet(f)
<1>1. /\ f \in Seq(S) /\ Len(f) = n /\ n \in Nat /\ Len(s) = n + 1
      /\ \A i \in 1..n : f[i] = s[i]
      /\ Last(s) \in S /\ Last(s) = s[n + 1]
  <2>1. /\ f \in Seq(S) /\ Len(f) = Len(s) - 1 /\ Len(s) \in Nat \ {0}
        /\ \A i \in 1..(Len(s) - 1) : f[i] = s[i]
        /\ Last(s) \in S /\ Last(s) = s[Len(s)]
    BY FrontOf
  <2>2. n \in Nat /\ Len(s) = n + 1
    BY <2>1
  <2> QED
    BY <2>1, <2>2
<1>2. DOMAIN s = 1..(n + 1) /\ DOMAIN f = 1..n /\ f = [i \in 1..n |-> f[i]]
  BY <1>1, LenProperties
<1> HIDE DEF n, f
<1>3. ToSet(s) = T \cup {Last(s)}
  <2>1. ASSUME NEW x \in ToSet(s) PROVE x \in T \cup {Last(s)}
    <3>1. PICK i \in 1..(n + 1) : s[i] = x
      BY <1>2, <2>1 DEF ToSet
    <3>2. CASE i = n + 1
      BY <1>1, <3>1, <3>2
    <3>3. CASE i # n + 1
      <4>1. i \in 1..n /\ f[i] = x
        BY <1>1, <3>1, <3>3
      <4> QED
        BY <1>2, <4>1 DEF ToSet
    <3> QED
      BY <3>2, <3>3
  <2>2. ASSUME NEW x \in T PROVE x \in ToSet(s)
    <3>1. PICK i \in 1..n : f[i] = x
      BY <1>2, <2>2 DEF ToSet
    <3>2. i \in 1..(n + 1) /\ s[i] = x
      BY <1>1, <3>1
    <3> QED
      BY <1>2, <3>2 DEF ToSet
  <2>3. Last(s) \in ToSet(s)
    <3>1. n + 1 \in 1..(n + 1)
      BY <1>1
    <3> QED
      BY <1>1, <1>2, <3>1 DEF ToSet
  <2> QED
    BY <2>1, <2>2, <2>3
<1>4. IsFiniteSet(T) /\ Cardinality(T) <= n /\ Cardinality(T) \in Nat
  <2>1. f \in Surjection(1..n, T)
    <3>1. \A i \in 1..n : f[i] \in T
      BY <1>2 DEF ToSet
    <3>2. \A x \in T : \E i \in 1..n : f[i] = x
      BY <1>2 DEF ToSet
    <3> HIDE DEF T
    <3> QED
      BY <1>2, <3>1, <3>2 DEF Surjection
  <2>2. IsFiniteSet(1..n) /\ Cardinality(1..n) = n
    BY <1>1, FS_Interval
  <2> HIDE DEF T
  <2> QED
    BY <2>1, <2>2, FS_Surjection, FS_CardinalityType
<1>5. Cardinality(T \cup {Last(s)}) = IF Last(s) \in T THEN Cardinality(T) ELSE Cardinality(T) + 1
  BY <1>4, FS_AddElement
<1>6. Last(s) \notin T /\ Cardinality(T) = n
  <2>1. Cardinality(T \cup {Last(s)}) = n + 1
    BY <1>1, <1>3
  <2> HIDE DEF T
  <2> QED
    BY <1>1, <1>4, <1>5, <2>1
<1> QED
  BY <1>1, <1>3, <1>6 DEF f

\* Slot s passes to a new struct, which the run on top of the stack holds.
LEMMA Handed ==
  ASSUME TInv, stack # <<>>, NEW s \in Slots, s \notin live, uses[s] < MaxUses,
         live' = live \cup {s}, uses' = [uses EXCEPT ![s] = @ + 1],
         stack' = [stack EXCEPT ![Len(stack)].kept = [slot |-> s, use |-> uses[s] + 1]],
         UNCHANGED <<wait, global, lost>>
  PROVE  StackType' /\ HandleInv' /\ uses' \in [Slots -> 0..MaxUses]
<1> DEFINE h == [slot |-> s, use |-> uses[s] + 1]
           x == [Top EXCEPT !.kept = h]
<1>1. uses \in [Slots -> 0..MaxUses] /\ uses[s] \in Nat
  BY ParkedAssumption DEF TInv, TableType
<1>2. uses[s] + 1 \in 1..MaxUses
  BY <1>1, ParkedAssumption
<1>3. /\ uses' \in [Slots -> 0..MaxUses] /\ uses'[s] = uses[s] + 1
      /\ \A t \in Slots : t # s => uses'[t] = uses[t]
  BY <1>1, <1>2
<1>4. Top \in Run /\ Top = stack[Len(stack)] /\ stack \in Seq(Run)
  BY TopType DEF TInv, StackType
<1>5. h \in Handle /\ h.slot = s /\ h.use = uses[s] + 1
  BY <1>2 DEF Handle
<1>6. stack' = [stack EXCEPT ![Len(stack)] = x]
  BY <1>4
<1> HIDE DEF h
<1>7. x \in Run /\ x.kept = h
  BY <1>4, <1>5 DEF Run
<1> HIDE DEF x
<1>8. stack' \in Seq(Run) /\ Len(stack') = Len(stack) /\ Held(stack') \subseteq Held(stack) \cup {h}
  <2>1. x.kept \in {h} \cup {None}
    BY <1>7
  <2> QED
    BY <1>4, <1>6, <1>7, <2>1, TopBecomes
<1>9. StackType'
  BY <1>8 DEF TInv, StackType
<1>10. Handles' \subseteq Handles \cup {h}
  BY <1>8 DEF Handles, Rooted
<1>11. HandleInv'
  <2> SUFFICES ASSUME NEW k \in Handles' PROVE k.use <= uses'[k.slot] /\ (~lost' => Own(k)')
    BY DEF HandleInv
  <2>1. CASE k = h
    <3>1. k.use = uses'[k.slot] /\ k.slot \in live'
      BY <1>3, <1>5, <2>1
    <3>2. uses'[k.slot] \in Nat
      BY <1>1, <1>3, <1>5, <2>1
    <3> QED
      BY <3>1, <3>2 DEF Own
  <2>2. CASE k \in Handles
    <3>1. k.use <= uses[k.slot] /\ (~lost => Own(k))
      BY <2>2 DEF TInv, HandleInv
    <3>2. k \in Handle
      BY <2>2, HandleTypes DEF TInv
    <3>3. k.slot \in Slots /\ k.use \in Nat /\ uses[k.slot] \in Nat
      BY <1>1, <3>2, ParkedAssumption DEF Handle
    <3>4. k.use <= uses'[k.slot]
      BY <1>1, <1>3, <3>1, <3>3
    <3>5. ASSUME ~lost' PROVE Own(k)'
      <4>1. k.slot \in live /\ uses[k.slot] = k.use
        BY <3>1, <3>5 DEF Own
      <4>2. k.slot # s
        BY <4>1
      <4> QED
        BY <1>3, <3>3, <4>1, <4>2 DEF Own
    <3> QED
      BY <3>4, <3>5
  <2> QED
    BY <1>10, <2>1, <2>2
<1> QED
  BY <1>3, <1>9, <1>11

LEMMA NewStructStep == ASSUME TInv, NewStruct PROVE TInv'
<1>1. stack # <<>> /\ pc # "idle" /\ UNCHANGED <<pc, wait, alive, global, lost>>
  BY DEF NewStruct, Running
<1>2. /\ nStructs \in Nat /\ nStructs <= NSlots /\ spare \in Seq(0..(nStructs - 1))
      /\ Len(spare) = Cardinality(ToSet(spare))
      /\ live = {t \in 0..(nStructs - 1) : t \notin ToSet(spare)}
  BY ParkedAssumption DEF TInv, TableType
<1>3. WaitType' /\ WorldType'
  BY <1>1 DEF TInv, WaitType, WorldType
<1>4. CASE TakeSpare
  <2> DEFINE s == Last(spare)
  <2>1. /\ spare # <<>> /\ uses[s] < MaxUses /\ spare' = Front(spare) /\ live' = live \cup {s}
        /\ uses' = [uses EXCEPT ![s] = @ + 1] /\ nStructs' = nStructs
        /\ stack' = [stack EXCEPT ![Len(stack)].kept = [slot |-> s, use |-> uses[s] + 1]]
    BY <1>4 DEF TakeSpare
  <2>2. IsFiniteSet(0..(nStructs - 1))
    BY <1>2, FS_Interval
  <2>3. /\ ToSet(spare) = ToSet(Front(spare)) \cup {s} /\ s \notin ToSet(Front(spare))
        /\ Len(Front(spare)) = Cardinality(ToSet(Front(spare)))
    BY <1>2, <2>1, <2>2, Shorter
  <2>4. Front(spare) \in Seq(0..(nStructs - 1)) /\ s \in 0..(nStructs - 1)
    BY <1>2, <2>1, FrontOf
  <2> HIDE DEF s
  <2>5. s \in Slots /\ s \notin live
    BY <1>2, <2>3, <2>4, ParkedAssumption DEF Slots
  <2>6. StackType' /\ HandleInv' /\ uses' \in [Slots -> 0..MaxUses]
    BY <1>1, <2>1, <2>5, Handed
  <2>7. live' = {t \in 0..(nStructs - 1) : t \notin ToSet(spare')}
    BY <1>2, <2>1, <2>3, <2>4
  <2>8. TableType'
    BY <2>1, <2>3, <2>4, <2>6, <2>7 DEF TInv, TableType
  <2>9. FreshInv'
    <3>1. \A t \in nStructs..(NSlots - 1) : t # s /\ t \in Slots
      BY <1>2, <2>4, ParkedAssumption DEF Slots
    <3>2. uses \in [Slots -> 0..MaxUses]
      BY DEF TInv, TableType
    <3> QED
      BY <2>1, <3>1, <3>2 DEF TInv, FreshInv
  <2> QED
    BY <1>3, <2>6, <2>8, <2>9 DEF TInv
<1>5. CASE TakeNew
  <2> DEFINE s == nStructs
  <2>1. /\ spare = <<>> /\ s < NSlots /\ nStructs' = s + 1 /\ live' = live \cup {s} /\ spare' = spare
        /\ uses' = [uses EXCEPT ![s] = @ + 1]
        /\ stack' = [stack EXCEPT ![Len(stack)].kept = [slot |-> s, use |-> uses[s] + 1]]
    BY <1>5 DEF TakeNew
  <2>2. s \in Slots /\ s \notin live /\ s \in nStructs..(NSlots - 1)
    BY <1>2, <2>1, ParkedAssumption DEF Slots
  <2>3. uses[s] < MaxUses
    BY <2>2, ParkedAssumption DEF TInv, FreshInv
  <2>4. StackType' /\ HandleInv' /\ uses' \in [Slots -> 0..MaxUses]
    BY <1>1, <2>1, <2>2, <2>3, Handed
  <2>5. ToSet(spare) = {}
    BY <2>1 DEF ToSet
  <2>6. live' = 0..s
    BY <1>2, <2>1, <2>5
  <2>7. TableType'
    <3>1. spare' \in Seq(0..s) /\ Len(spare') = Cardinality(ToSet(spare'))
      BY <1>2, <2>1
    <3>2. (s + 1) - 1 = s /\ s + 1 \in 0..NSlots
      BY <1>2, <2>1, ParkedAssumption
    <3>3. live' = {t \in 0..s : t \notin ToSet(spare')}
      BY <2>1, <2>5, <2>6
    <3> QED
      BY <2>1, <2>4, <3>1, <3>2, <3>3 DEF TableType
  <2>8. FreshInv'
    <3>1. \A t \in (s + 1)..(NSlots - 1) : t # s /\ t \in Slots /\ t \in nStructs..(NSlots - 1)
      BY <1>2, ParkedAssumption DEF Slots
    <3>2. uses \in [Slots -> 0..MaxUses]
      BY DEF TInv, TableType
    <3> QED
      BY <2>1, <3>1, <3>2 DEF TInv, FreshInv
  <2> QED
    BY <1>3, <2>4, <2>7, <2>8 DEF TInv
<1> QED
  BY <1>4, <1>5 DEF NewStruct
-----------------------------------------------------------------------------
LEMMA TypesAtFirst == Init => TInv
<1> SUFFICES ASSUME Init PROVE TInv
  OBVIOUS
<1>1. StackType
  BY ParkedAssumption DEF Init, StackType
<1>6. WorldType
  BY DEF Init, WorldType
<1>5. WaitType
  BY ParkedAssumption DEF Init, WaitType, Nothing
<1>2. TableType
  <2>1. ToSet(<<>>) = {}
    BY DEF ToSet
  <2>2. spare \in Seq(0..(nStructs - 1)) /\ Len(spare) = Cardinality(ToSet(spare))
    BY <2>1, FS_EmptySet DEF Init
  <2>3. live = {t \in 0..(nStructs - 1) : t \notin ToSet(spare)}
    BY DEF Init
  <2>4. uses \in [Slots -> 0..MaxUses] /\ nStructs \in 0..NSlots
    BY ParkedAssumption DEF Init
  <2> QED
    BY <2>2, <2>3, <2>4 DEF TableType
<1>3. FreshInv
  BY ParkedAssumption DEF Init, FreshInv, Slots
<1>4. Handles = {}
  BY HeldNone DEF Init, Handles, Rooted, Nothing
<1> QED
  BY <1>1, <1>2, <1>3, <1>4, <1>5, <1>6 DEF TInv, HandleInv

LEMMA TypesStay == IInv /\ TInv /\ [Next]_vars => TInv'
<1> SUFFICES ASSUME IInv, TInv, [Next]_vars PROVE TInv'
  OBVIOUS
<1>1. CASE NewStruct
  BY <1>1, NewStructStep
<1>2. CASE Store \/ Fetch \/ Block \/ Return
  BY <1>2, StoreStep, FetchStep, BlockStep, ReturnStep
<1>3. CASE Wait \/ Unwind
  BY <1>3, ParkStep DEF Wait, Unwind, Running
<1>4. CASE \E s \in Sites : Pass(s)
  BY <1>4, PassStep
<1>5. CASE \E i \in alive : Destroy(i) \/ \E b \in BOOLEAN : Call(i, b) \/ Dispatch(i, b)
  BY <1>5, DestroyStep, CallStep, DispatchStep
<1>6. CASE ResumeFrame
  BY <1>6, ResumeStep DEF IInv
<1>7. CASE HeldAgain \/ EndFrame
  BY <1>7, QuietSteps
<1>8. CASE StepFrame \/ EventEnded
  BY <1>8, BeginStep DEF StepFrame, EventEnded, TInv, WorldType
<1>9. CASE Save
  BY <1>9, CollectStep DEF Save, TInv, WorldType
<1>10. CASE UNCHANGED vars
  <2>1. UNCHANGED <<table, lost>> /\ UNCHANGED <<pc, stack, wait, alive, global>>
    BY <1>10 DEF vars
  <2>2. Handles' = Handles /\ StackType' /\ WaitType'
    BY <2>1 DEF Handles, Rooted, TInv, StackType, WaitType
  <2> QED
    BY <2>1, <2>2, SameTable DEF TInv, WorldType
<1> QED
  BY <1>1, <1>2, <1>3, <1>4, <1>5, <1>6, <1>7, <1>8, <1>9, <1>10 DEF Next

LEMMA TypesHold == Spec => []TInv
<1> QED
  BY Inductive, TypesAtFirst, TypesStay, PTL DEF Spec

\* The stack and the chain keep their bounds and the table its books: a slot holds a struct, is on
\* the list of spare ones once, or was never reached (gml_struct_new, gml_struct_gc).
THEOREM Typing == Spec => []TypeOK
<1>1. TInv => TypeOK
  BY TypeParts DEF TInv
<1> QED
  BY <1>1, TypesHold, PTL

LEMMA Divided ==
  ASSUME NEW x \in Int, NEW m \in Int, m > 0
  PROVE  x \div m \in Int /\ x % m \in Int /\ x = m * (x \div m) + (x % m)
<1>1. x = m * (x \div m) + (x % m)
  OBVIOUS
<1>2. x \div m \in Int
  OBVIOUS
<1>3. x % m \in Int
  OBVIOUS
<1> QED
  BY <1>1, <1>2, <1>3

\* Numbers that a modulus does not tell apart are that far apart.
LEMMA Apart ==
  ASSUME NEW a \in Nat, NEW b \in Nat, NEW m \in Nat \ {0}, a < b, a % m = b % m
  PROVE  b - a >= m
<1> DEFINE p == a \div m
           q == b \div m
           r == a % m
<1>1. a \in Int /\ b \in Int /\ m \in Int /\ m > 0
  OBVIOUS
<1>2. p \in Int /\ q \in Int /\ r \in Int /\ a = m * p + r /\ b = m * q + r
  BY <1>1, Divided
<1> HIDE DEF p, q, r
<1>3. m * p < m * q
  BY <1>2
<1>4. ~(q <= p)
  BY <1>2, <1>3
<1>5. q >= p + 1
  BY <1>2, <1>4
<1>6. m * q >= m * (p + 1)
  BY <1>2, <1>5
<1>7. m * (p + 1) = m * p + m
  BY <1>2
<1> QED
  BY <1>2, <1>6, <1>7

\* A handle finds the struct it was made for, whoever holds it, until a collection has run that saw
\* only a parked run hold it; and a slot that was used again answers to no old handle before its
\* generations have come round (gml_struct_find, gml_struct_gc).
THEOREM HandlesFind == Spec => []HandlesHold
<1>1. TInv => HandlesHold
  <2> SUFFICES ASSUME TInv, NEW h \in Handles
               PROVE  (Found(h) => Own(h) \/ uses[h.slot] - h.use >= GenMod) /\ (~lost => Own(h))
    BY DEF HandlesHold, Handles
  <2>1. h.use <= uses[h.slot] /\ (~lost => Own(h))
    BY DEF TInv, HandleInv
  <2>2. h \in Handle
    BY HandleTypes DEF TInv
  <2>3. h.use \in Nat /\ uses[h.slot] \in Nat
    BY <2>2, ParkedAssumption DEF Handle, TInv, TableType
  <2>4. ASSUME Found(h), ~Own(h) PROVE uses[h.slot] - h.use >= GenMod
    <3>1. h.use < uses[h.slot] /\ h.use % GenMod = uses[h.slot] % GenMod
      BY <2>1, <2>3, <2>4 DEF Found, Own
    <3> QED
      BY <2>3, <3>1, Apart, ParkedAssumption
  <2> QED
    BY <2>1, <2>4
<1> QED
  BY <1>1, TypesHold, PTL
=============================================================================
