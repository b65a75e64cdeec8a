------------------------- MODULE OperationAreaProofs -------------------------
(***************************************************************************)
(* Proofs about OperationArea, for every bound of the area and every plan: *)
(* what an admission leaves room for is still there when it is wanted.     *)
(*                                                                         *)
(* The invariant counts what may still be made.  An attempt in flight owes *)
(* its own entries and those of its block (Left), the first of them also   *)
(* the operation's logs directory (Log); an apply keeps its removal's      *)
(* first pass beside all of that, unless a registration of that removal    *)
(* was stopped; and a first pass owes six entries for each block it has    *)
(* not come to (First).                                                    *)
(***************************************************************************)
EXTENDS OperationArea, FiniteSetTheorems, TLAPS

Entry == 1..AttemptEntries

\* The directory the first of them makes for the operation.
Log == IF logged THEN 0 ELSE 1
Owed == IF InFlight = {} THEN 0 ELSE Log

Typed ==
  /\ held \in Nat /\ retained \in Nat /\ claims \in Nat
  /\ retained <= MaxOperations /\ claims <= retained /\ 3 * claims <= held
  /\ indexed \in BOOLEAN /\ logged \in BOOLEAN /\ resolving \in BOOLEAN /\ resolved \in BOOLEAN
  /\ repeated \in BOOLEAN /\ stopped \in BOOLEAN
  /\ verb \in Verb \union {"none"} /\ blocks \subseteq Block
  /\ state \in [Block -> BlockState] /\ made \in [Block -> 0..3]
  /\ InFlight \subseteq blocks /\ \A b \in InFlight : own[b] \in 0..3
  /\ interruptions \in 0..Interruptions

\* What the records say of the operation.
Sound ==
  /\ resolving => verb = "apply"
  /\ verb # "none" => indexed
  /\ \A b \in InFlight : made[b] < 3 => own[b] = 3
  /\ \A b \in Block : state[b] \notin {"pending", "running"} => made[b] # 0

Fits == held + Cardinality(Left) + Owed <= MaxEntries

Kept ==
  verb = "apply" /\ ~ stopped =>
    /\ retained + 1 <= MaxOperations
    /\ held + Cardinality(Left) + Owed + AdmissionEntries("destroy", Cardinality(blocks)) <= MaxEntries

IInv == Typed /\ Sound /\ Fits /\ Kept

\* What a first pass may still make: what its attempts in flight may, and six
\* entries of every block that holds none.
Untried == {b \in blocks \ InFlight : made[b] = 0}
First == Left \union (Untried \X Entry)

\* What an apply leaves alone beside it, the five entries of every removal that may still be stopped included.
Aside ==
  IF verb = "apply"
  THEN AdmissionEntries("destroy", Cardinality(blocks)) + 5 + 5 * (Interruptions - interruptions)
  ELSE 0

Pass ==
  verb # "none" /\ ~ repeated =>
    held + Cardinality(First) + Log + 1 + (IF First = {} THEN 0 ELSE Aside) <= MaxEntries

-----------------------------------------------------------------------------
(* Counting *)

LEMMA Bounded == IsFiniteSet(Block) /\ IsFiniteSet(Block \X Entry) /\ Cardinality(Entry) = 6 /\ IsFiniteSet(Entry)
<1>0. 1 \in Int /\ 6 \in Int /\ MaxBlocks \in Int /\ Entry = 1..6
  BY AreaAssumption DEF Entry, AttemptEntries
<1>1. IsFiniteSet(Block) /\ IsFiniteSet(Entry) /\ Cardinality(Entry) = 6
  <2>1. IsFiniteSet(Block)
    BY <1>0, FS_Interval DEF Block
  <2>2. IsFiniteSet(1..6) /\ Cardinality(1..6) = 6
    <3>1. IsFiniteSet(1..6) /\ Cardinality(1..6) = (IF 1 > 6 THEN 0 ELSE 6 - 1 + 1)
      BY <1>0, FS_Interval, Zenon
    <3> QED
      BY <3>1
  <2> QED
    BY <1>0, <2>1, <2>2
<1> QED
  BY <1>1, FS_Product

LEMMA Smaller ==
  ASSUME NEW S, IsFiniteSet(S), NEW T \in SUBSET S
  PROVE  /\ IsFiniteSet(T) /\ Cardinality(T) \in Nat /\ Cardinality(S) \in Nat
         /\ Cardinality(T) <= Cardinality(S)
  BY FS_Subset, FS_CardinalityType

LEMMA Counted ==
  ASSUME Typed
  PROVE  /\ IsFiniteSet(Left) /\ Cardinality(Left) \in Nat /\ Owed \in {0, 1}
         /\ IsFiniteSet(blocks) /\ Cardinality(blocks) \in Nat
         /\ IsFiniteSet(InFlight) /\ Cardinality(InFlight) \in Nat
<1>1. Left \in SUBSET (Block \X Entry) /\ Owed \in {0, 1}
  BY DEF Left, Owed, Log, Entry
<1>2. blocks \in SUBSET Block /\ InFlight \in SUBSET Block
  BY DEF Typed
<1>3. IsFiniteSet(Left) /\ Cardinality(Left) \in Nat
  BY <1>1, Bounded, Smaller
<1>4. IsFiniteSet(blocks) /\ Cardinality(blocks) \in Nat
  BY <1>2, Bounded, Smaller
<1>5. IsFiniteSet(InFlight) /\ Cardinality(InFlight) \in Nat
  BY <1>2, Bounded, Smaller
<1> QED
  BY <1>1, <1>3, <1>4, <1>5

\* Nothing is owed where nothing is in flight.
LEMMA Quiet ==
  ASSUME InFlight = {} PROVE Left = {} /\ Cardinality(Left) = 0 /\ Owed = 0
  BY FS_EmptySet DEF Left, Owed

LEMMA QuietNext ==
  ASSUME InFlight' = {} PROVE Left' = {} /\ Cardinality(Left)' = 0 /\ Owed' = 0
  BY FS_EmptySet DEF Left, Owed

\* Registering, and stopping short of it.
LEMMA RegisteredFits ==
  ASSUME IInv, own = <<>>, own' = own, NEW n \in Nat, n >= 1, NEW v \in Verb, NEW plan \in SUBSET Block,
         Cardinality(plan) = n, Admitted(v, n), Registered(v, plan),
         interruptions' = interruptions, stopped' \in BOOLEAN
  PROVE  IInv'
<1>0. Typed /\ Sound
  BY DEF IInv
<1>1. /\ held' = held + 6 + (IF indexed THEN 0 ELSE 1) - 3 * claims
      /\ retained' = retained + 1 - claims /\ claims' = 0 /\ indexed' = TRUE
      /\ verb' = v /\ blocks' = plan
      /\ state' = [b \in Block |-> "pending"] /\ made' = [b \in Block |-> 0]
      /\ logged' = FALSE /\ resolving' = FALSE /\ resolved' = FALSE /\ repeated' = FALSE
  BY DEF Registered
<1>2. InFlight' = {}
  BY DEF InFlight
<1>3. Left' = {} /\ Cardinality(Left)' = 0 /\ Owed' = 0
  BY <1>2, QuietNext
<1>4. /\ held \in Nat /\ retained \in Nat /\ claims \in Nat /\ claims <= retained /\ 3 * claims <= held
      /\ MaxOperations \in Nat /\ MaxEntries \in Nat /\ ReservedEntries \in Nat
  BY <1>0, AreaAssumption DEF Typed
<1>5. /\ v = "apply" => retained + 2 <= MaxOperations /\ held + 2 * (7 + 6 * n) + ReservedEntries <= MaxEntries
      /\ v = "destroy" => retained + 1 <= MaxOperations /\ held + (7 + 6 * n) + 1 <= MaxEntries
  <2>1. CASE v = "apply"
    BY <1>4, <2>1 DEF Admitted, AdmissionOperations, AdmissionEntries, FirstPassEntries
  <2>2. CASE v = "destroy"
    BY <1>4, <2>2 DEF Admitted, AdmissionOperations, AdmissionEntries, FirstPassEntries
  <2> QED
    BY <2>1, <2>2 DEF Verb
<1>6. v \in {"apply", "destroy"} /\ held' <= held + 7 - 3 * claims /\ held' >= held + 6 - 3 * claims /\ held' \in Int
  BY <1>1, <1>4 DEF Verb
<1>7. Typed'
  <2>1. held' \in Nat /\ retained' \in Nat /\ claims' \in Nat /\ retained' <= MaxOperations
        /\ claims' <= retained' /\ 3 * claims' <= held'
    BY <1>1, <1>4, <1>5, <1>6
  <2>2. /\ state' \in [Block -> BlockState] /\ made' \in [Block -> 0..3]
        /\ verb' \in Verb \union {"none"} /\ blocks' \subseteq Block
    BY <1>1 DEF BlockState
  <2>3. /\ indexed' \in BOOLEAN /\ logged' \in BOOLEAN /\ resolving' \in BOOLEAN /\ resolved' \in BOOLEAN
        /\ repeated' \in BOOLEAN /\ stopped' \in BOOLEAN
    BY <1>1
  <2>4. InFlight' \subseteq blocks' /\ (\A b \in InFlight' : own'[b] \in 0..3)
        /\ interruptions' \in 0..Interruptions
    BY <1>0, <1>2 DEF Typed
  <2> QED
    BY <2>1, <2>2, <2>3, <2>4 DEF Typed
<1>8. Sound'
  BY <1>1, <1>2 DEF Sound
<1>9. Fits'
  BY <1>3, <1>4, <1>5, <1>6 DEF Fits
<1>10. Kept'
  <2>1. v = "apply" => retained' + 1 <= MaxOperations /\ held' + (7 + 6 * n) + 1 <= MaxEntries
    BY <1>1, <1>4, <1>5, <1>6
  <2> QED
    BY <1>1, <1>3, <1>4, <1>6, <2>1 DEF Kept, AdmissionEntries, FirstPassEntries
<1> QED
  BY <1>7, <1>8, <1>9, <1>10 DEF IInv

LEMMA RegisterApplyKeeps ==
  ASSUME IInv, RegisterApply
  PROVE  IInv'
<1>1. PICK n \in 1..MaxBlocks : Admitted("apply", n) /\ Registered("apply", 1..n)
  BY DEF RegisterApply
<1>2. own = <<>> /\ own' = own /\ interruptions' = interruptions /\ stopped' = FALSE
  BY DEF RegisterApply
<1>3. n \in Nat /\ n >= 1 /\ 1..n \in SUBSET Block /\ Cardinality(1..n) = n
  BY <1>1, AreaAssumption, FS_Interval DEF Block
<1> QED
  BY <1>1, <1>2, <1>3, RegisteredFits DEF Verb

\* What a removal takes back is part of the plan, and something.
LEMMA RemovedCounted ==
  ASSUME Typed
  PROVE  /\ Removed \in SUBSET Block /\ Cardinality(Removed) \in Nat
         /\ Cardinality(Removed) <= Cardinality(blocks) /\ Cardinality(blocks) \in Nat
         /\ Removed # {} => Cardinality(Removed) >= 1
<1>1. Removed \in SUBSET blocks /\ blocks \in SUBSET Block
  BY DEF Removed, Typed
<1>2. IsFiniteSet(blocks)
  BY Counted
<1>3. IsFiniteSet(Removed) /\ Cardinality(Removed) \in Nat /\ Cardinality(Removed) <= Cardinality(blocks)
      /\ Cardinality(blocks) \in Nat
  BY <1>1, <1>2, Smaller
<1>4. Removed # {} => Cardinality(Removed) # 0
  BY <1>3, FS_EmptySet
<1> QED
  BY <1>1, <1>3, <1>4

LEMMA RegisterRemovalKeeps ==
  ASSUME IInv, RegisterRemoval
  PROVE  IInv'
<1>0. Typed
  BY DEF IInv
<1>1. /\ own = <<>> /\ own' = own /\ interruptions' = interruptions /\ stopped' = stopped /\ Removed # {}
      /\ Admitted("destroy", Cardinality(Removed)) /\ Registered("destroy", Removed)
  BY DEF RegisterRemoval
<1>2. Removed \in SUBSET Block /\ Cardinality(Removed) \in Nat /\ Cardinality(Removed) >= 1
  BY <1>0, <1>1, RemovedCounted
<1>3. stopped' \in BOOLEAN /\ "destroy" \in Verb
  BY <1>0, <1>1 DEF Typed, Verb
<1> QED
  BY <1>1, <1>2, <1>3, RegisteredFits

LEMMA InterruptedKeeps ==
  ASSUME IInv, Interrupted, own = <<>>, NEW n \in Nat, NEW v \in Verb, Admitted(v, n),
         resolving' \in {resolving, FALSE}, stopped' \in BOOLEAN,
         verb = "apply" => stopped'
  PROVE  IInv'
<1>0. Typed /\ Sound
  BY DEF IInv
<1>1. /\ interruptions < Interruptions /\ interruptions' = interruptions + 1
      /\ retained' = retained + 1
      /\ \/ held' = held + 3 /\ claims' = claims + 1
         \/ held' \in {held + 4, held + 5} /\ claims' = claims
      /\ UNCHANGED <<indexed, verb, blocks, state, made, logged, own, resolved, repeated>>
  BY DEF Interrupted, operation
<1>2. InFlight' = {} /\ InFlight = {}
  BY <1>1 DEF InFlight
<1>3. Left' = {} /\ Cardinality(Left)' = 0 /\ Owed' = 0
  BY <1>2, QuietNext
<1>4. /\ held \in Nat /\ retained \in Nat /\ claims \in Nat /\ claims <= retained /\ 3 * claims <= held
      /\ MaxOperations \in Nat /\ MaxEntries \in Nat /\ ReservedEntries \in Nat /\ v \in {"apply", "destroy"}
      /\ interruptions \in Nat /\ Interruptions \in Nat /\ interruptions <= Interruptions
  BY <1>0, AreaAssumption DEF Typed, Verb
<1>5. retained + 1 <= MaxOperations /\ held + 5 <= MaxEntries
  <2>1. CASE v = "apply"
    BY <1>4, <2>1 DEF Admitted, AdmissionOperations, AdmissionEntries, FirstPassEntries
  <2>2. CASE v = "destroy"
    BY <1>4, <2>2 DEF Admitted, AdmissionOperations, AdmissionEntries, FirstPassEntries
  <2> QED
    BY <1>4, <2>1, <2>2
<1>6. Typed'
  <2>1. held' \in Nat /\ retained' \in Nat /\ claims' \in Nat /\ retained' <= MaxOperations
        /\ claims' <= retained' /\ 3 * claims' <= held' /\ interruptions' \in 0..Interruptions
    BY <1>1, <1>4, <1>5
  <2>2. resolving' \in BOOLEAN
    BY <1>0 DEF Typed
  <2> QED
    BY <1>0, <1>1, <1>2, <2>1, <2>2 DEF Typed
<1>7. Sound'
  <2>1. CASE resolving' = resolving
    BY <1>0, <1>1, <1>2, <2>1 DEF Sound
  <2>2. CASE resolving' = FALSE
    BY <1>0, <1>1, <1>2, <2>2 DEF Sound
  <2> QED
    BY <2>1, <2>2
<1>8. Fits' /\ Kept'
  BY <1>1, <1>3, <1>4, <1>5 DEF Fits, Kept
<1> QED
  BY <1>6, <1>7, <1>8 DEF IInv

LEMMA StoppedKeeps ==
  ASSUME IInv, ApplyStopped \/ RemovalStopped
  PROVE  IInv'
<1>0. Typed
  BY DEF IInv
<1>1. CASE ApplyStopped
  <2>1. PICK n \in 1..MaxBlocks : Admitted("apply", n)
    BY <1>1 DEF ApplyStopped
  <2>2. n \in Nat /\ own = <<>> /\ Interrupted /\ resolving' = resolving /\ stopped' = stopped /\ verb # "apply"
    BY <1>1, <2>1, AreaAssumption DEF ApplyStopped, Pristine
  <2> QED
    BY <1>0, <2>1, <2>2, InterruptedKeeps DEF Verb, Typed
<1>2. CASE RemovalStopped
  <2>1. /\ own = <<>> /\ Interrupted /\ resolving' = FALSE /\ stopped' = TRUE
        /\ Admitted("destroy", Cardinality(Removed))
    BY <1>2 DEF RemovalStopped
  <2> QED
    BY <1>0, <2>1, RemovedCounted, InterruptedKeeps DEF Verb
<1> QED
  BY <1>1, <1>2

LEMMA ReclaimKeeps ==
  ASSUME IInv, Reclaim
  PROVE  IInv'
<1>0. Typed /\ Sound /\ Fits /\ Kept
  BY DEF IInv
<1>1. /\ Pristine /\ own = <<>> /\ claims' = 0 /\ retained' = retained - claims /\ held' = held - 3 * claims
      /\ UNCHANGED <<indexed, verb, blocks, state, made, logged, own, resolving, resolved, repeated, stopped,
                     interruptions>>
  BY DEF Reclaim, operation
<1>2. InFlight' = {} /\ InFlight = {}
  BY <1>1 DEF InFlight
<1>3. Cardinality(Left)' = 0 /\ Owed' = 0 /\ Cardinality(Left) = 0 /\ Owed = 0
  BY <1>2, QuietNext, Quiet
<1>4. /\ held \in Nat /\ retained \in Nat /\ claims \in Nat /\ claims <= retained /\ 3 * claims <= held
      /\ MaxOperations \in Nat /\ MaxEntries \in Nat /\ retained <= MaxOperations
  BY <1>0, AreaAssumption DEF Typed
<1>5. held' \in Nat /\ retained' \in Nat /\ claims' \in Nat /\ retained' <= MaxOperations
      /\ claims' <= retained' /\ 3 * claims' <= held'
  BY <1>1, <1>4
<1>6. Typed'
  BY <1>0, <1>1, <1>2, <1>5 DEF Typed
<1>7. Sound'
  BY <1>0, <1>1, <1>2 DEF Sound
<1>8. Fits'
  BY <1>0, <1>1, <1>3, <1>4 DEF Fits
<1>9. Kept'
  BY <1>1 DEF Kept, Pristine
<1> QED
  BY <1>6, <1>7, <1>8, <1>9 DEF IInv

-----------------------------------------------------------------------------
(* Attempting *)

\* Six entries cover each attempt in flight.
LEMMA LeftBounded ==
  ASSUME NEW F \in SUBSET Block, NEW L \in SUBSET (F \X Entry)
  PROVE  /\ IsFiniteSet(L) /\ Cardinality(L) \in Nat /\ Cardinality(F) \in Nat
         /\ Cardinality(L) <= 6 * Cardinality(F)
<1>1. IsFiniteSet(F) /\ IsFiniteSet(Entry) /\ Cardinality(Entry) = 6 /\ Cardinality(F) \in Nat
  BY Bounded, Smaller
<1>2. IsFiniteSet(F \X Entry) /\ Cardinality(F \X Entry) = Cardinality(F) * Cardinality(Entry)
  BY <1>1, FS_Product
<1>3. IsFiniteSet(L) /\ Cardinality(L) \in Nat /\ Cardinality(L) <= Cardinality(F \X Entry)
  BY <1>2, Smaller
<1> QED
  BY <1>1, <1>2, <1>3

LEMMA AttemptKeeps ==
  ASSUME IInv, NEW b \in Block, Attempt(b)
  PROVE  IInv'
<1>0. Typed /\ Sound /\ Fits /\ Kept
  BY DEF IInv
<1>1. /\ b \in blocks /\ b \notin InFlight /\ AttemptAdmitted(b)
      /\ own' = [c \in InFlight \union {b} |-> IF c = b THEN 3 ELSE own[c]]
      /\ state' = [state EXCEPT ![b] = "running"]
      /\ resolved' = (resolved \/ resolving)
      /\ repeated' = (repeated \/ made[b] # 0)
      /\ UNCHANGED <<held, retained, claims, indexed, verb, blocks, made, logged, resolving, stopped, interruptions>>
  BY DEF Attempt, operation
<1>2. InFlight' = InFlight \union {b}
  BY <1>1 DEF InFlight
<1>3. Typed'
  <2>1. state' \in [Block -> BlockState]
    BY <1>0, <1>1 DEF Typed, BlockState
  <2>2. resolved' \in BOOLEAN /\ repeated' \in BOOLEAN
    BY <1>1
  <2>3. InFlight' \subseteq blocks' /\ \A c \in InFlight' : own'[c] \in 0..3
    BY <1>0, <1>1, <1>2 DEF Typed
  <2>4. /\ held' \in Nat /\ retained' \in Nat /\ claims' \in Nat
        /\ retained' <= MaxOperations /\ claims' <= retained' /\ 3 * claims' <= held'
        /\ interruptions' \in 0..Interruptions /\ made' \in [Block -> 0..3]
        /\ verb' \in Verb \union {"none"} /\ blocks' \subseteq Block
    BY <1>0, <1>1 DEF Typed
  <2>5. indexed' \in BOOLEAN /\ logged' \in BOOLEAN /\ resolving' \in BOOLEAN /\ stopped' \in BOOLEAN
    BY <1>0, <1>1 DEF Typed
  <2> QED
    BY <2>1, <2>2, <2>3, <2>4, <2>5 DEF Typed
<1>4. Sound'
  <2>1. \A c \in InFlight' : made'[c] < 3 => own'[c] = 3
    BY <1>0, <1>1, <1>2 DEF Sound
  <2>2. \A c \in Block : state'[c] \notin {"pending", "running"} => made'[c] # 0
    BY <1>0, <1>1 DEF Sound, Typed
  <2>3. (resolving' => verb' = "apply") /\ (verb' # "none" => indexed')
    BY <1>0, <1>1 DEF Sound
  <2> QED
    BY <2>1, <2>2, <2>3 DEF Sound
<1>5. IsFiniteSet(InFlight) /\ Cardinality(InFlight) \in Nat /\ Cardinality(blocks) \in Nat
  BY <1>0, Counted
<1>6. Cardinality(InFlight') = Cardinality(InFlight) + 1
  BY <1>1, <1>2, <1>5, FS_AddElement
<1>7. Cardinality(Left)' \in Nat /\ Owed' \in {0, 1} /\ Cardinality(Left)' <= 6 * (Cardinality(InFlight) + 1)
  <2>1. InFlight' \in SUBSET Block /\ Left' \in SUBSET (InFlight' \X Entry) /\ Owed' \in {0, 1}
    BY <1>3 DEF Typed, Left, Entry, Owed, Log
  <2>2. Cardinality(Left') \in Nat /\ Cardinality(Left') <= 6 * Cardinality(InFlight')
    BY <2>1, LeftBounded
  <2> QED
    BY <1>6, <2>1, <2>2
<1>8. Resolutions(b) \in Nat /\ Resolutions(b) >= 1
  <2> DEFINE R == {b} \union InFlight \union {c \in blocks : Unproved(state[c])}
  <2>1. R \in SUBSET Block /\ b \in R
    BY <1>0 DEF Typed
  <2>2. IsFiniteSet(R) /\ Cardinality(R) \in Nat
    BY <2>1, Bounded, Smaller
  <2>3. Cardinality(R) # 0
    BY <2>1, <2>2, FS_EmptySet
  <2>4. Resolutions(b) = Cardinality(R)
    BY DEF Resolutions
  <2> QED
    BY <2>2, <2>3, <2>4
<1>9. AdmissionEntries("destroy", Cardinality(blocks)) \in Nat
      /\ held \in Nat /\ MaxEntries \in Nat /\ AttemptEntries = 6 /\ Running = Cardinality(InFlight) + 1
  BY <1>0, <1>5, AreaAssumption DEF AdmissionEntries, FirstPassEntries, Typed, AttemptEntries, Running
<1>10. CASE verb = "destroy"
  <2>1. held + Running * AttemptEntries + 1 <= MaxEntries
    BY <1>0, <1>1, <1>10 DEF AttemptAdmitted, Sound
  <2>2. held' = held /\ verb' # "apply"
    BY <1>1, <1>10
  <2>3. Fits'
    BY <2>1, <2>2, <1>7, <1>9, <1>5 DEF Fits
  <2> QED
    BY <1>3, <1>4, <2>2, <2>3 DEF IInv, Kept
<1>11. CASE verb # "destroy"
  <2>1. held + Running * AttemptEntries + 1 + AdmissionEntries("destroy", Cardinality(blocks)) <= MaxEntries
    <3>1. CASE resolving
      BY <1>0, <1>1, <1>11, <3>1 DEF AttemptAdmitted, Sound
    <3>2. CASE ~ resolving
      <4>1. held + Running * AttemptEntries + AdmissionEntries("destroy", Cardinality(blocks))
              + Resolutions(b) * AttemptEntries <= MaxEntries
        BY <1>1, <1>11, <3>2 DEF AttemptAdmitted
      <4> QED
        BY <4>1, <1>5, <1>8, <1>9
    <3> QED
      BY <3>1, <3>2
  <2>2. held' = held /\ blocks' = blocks /\ retained' = retained /\ verb' = verb /\ stopped' = stopped
    BY <1>1
  <2>3. Fits'
    BY <2>1, <2>2, <1>7, <1>9, <1>5 DEF Fits
  <2>4. held' + Cardinality(Left)' + Owed' + AdmissionEntries("destroy", Cardinality(blocks)) <= MaxEntries
    BY <2>1, <2>2, <1>7, <1>9, <1>5
  <2>5. Kept'
    BY <1>0, <2>2, <2>4 DEF Kept
  <2> QED
    BY <1>3, <1>4, <2>3, <2>5 DEF IInv
<1> QED
  BY <1>10, <1>11

-----------------------------------------------------------------------------
(* Writing, and ending *)

\* A write changes what its own block holds, and the one attempt's allowance.
LEMMA Written ==
  ASSUME IInv, NEW b \in Block, Write(b)
  PROVE  /\ InFlight' = InFlight /\ made[b] \in 0..3 /\ own[b] \in 0..3
         /\ made' \in [Block -> 0..3] /\ made'[b] >= made[b]
         /\ \A c \in InFlight : own'[c] \in 0..3
         /\ \A c \in Block \ {b} : made'[c] = made[c]
         /\ \A c \in InFlight \ {b} : own'[c] = own[c]
<1>0. Typed /\ Sound /\ Fits /\ Kept
  BY DEF IInv
<1>1. /\ b \in InFlight /\ held' = held + 1
      /\ \/ made[b] < 3 /\ made' = [made EXCEPT ![b] = @ + 1] /\ UNCHANGED <<own, logged>>
         \/ made[b] = 3 /\ ~ logged /\ logged' = TRUE /\ UNCHANGED <<own, made>>
         \/ made[b] = 3 /\ logged /\ own[b] > 0 /\ own' = [own EXCEPT ![b] = @ - 1] /\ UNCHANGED <<made, logged>>
      /\ UNCHANGED <<retained, claims, indexed, verb, blocks, state, resolving, resolved, repeated, stopped,
                     interruptions>>
  BY DEF Write, operation
<1>2. InFlight' = InFlight /\ made[b] \in 0..3 /\ own[b] \in 0..3
  BY <1>0, <1>1 DEF InFlight, Typed
<1>3. /\ made' \in [Block -> 0..3] /\ made'[b] >= made[b]
      /\ \A c \in InFlight : own'[c] \in 0..3
      /\ \A c \in Block \ {b} : made'[c] = made[c]
      /\ \A c \in InFlight \ {b} : own'[c] = own[c]
  <2>1. CASE made[b] < 3 /\ made' = [made EXCEPT ![b] = @ + 1] /\ UNCHANGED <<own, logged>>
    BY <1>0, <1>2, <2>1 DEF Typed
  <2>2. CASE made[b] = 3 /\ ~ logged /\ logged' = TRUE /\ UNCHANGED <<own, made>>
    BY <1>0, <1>2, <2>2 DEF Typed
  <2>3. CASE made[b] = 3 /\ logged /\ own[b] > 0 /\ own' = [own EXCEPT ![b] = @ - 1] /\ UNCHANGED <<made, logged>>
    BY <1>0, <1>1, <1>2, <2>3 DEF Typed, InFlight
  <2> QED
    BY <1>1, <2>1, <2>2, <2>3
<1> QED
  BY <1>2, <1>3

\* An entry is made, or the directory all attempts share.
LEMMA WriteLeft ==
  ASSUME IInv, NEW b \in Block, Write(b)
  PROVE  /\ InFlight' = InFlight /\ b \in InFlight /\ held' = held + 1
         /\ \/ /\ Log' = Log /\ Owed' = Owed
               /\ \E e \in Left : e[1] = b /\ Left' = Left \ {e}
            \/ Log = 1 /\ Log' = 0 /\ Owed = 1 /\ Owed' = 0 /\ Left' = Left
<1>0. Typed /\ Sound /\ Fits /\ Kept
  BY DEF IInv
<1>1. /\ b \in InFlight /\ held' = held + 1
      /\ \/ made[b] < 3 /\ made' = [made EXCEPT ![b] = @ + 1] /\ UNCHANGED <<own, logged>>
         \/ made[b] = 3 /\ ~ logged /\ logged' = TRUE /\ UNCHANGED <<own, made>>
         \/ made[b] = 3 /\ logged /\ own[b] > 0 /\ own' = [own EXCEPT ![b] = @ - 1] /\ UNCHANGED <<made, logged>>
      /\ UNCHANGED <<retained, claims, indexed, verb, blocks, state, resolving, resolved, repeated, stopped,
                     interruptions>>
  BY DEF Write, operation
<1>2. InFlight' = InFlight /\ made[b] \in 0..3 /\ own[b] \in 0..3
  BY Written
<1>3. /\ made' \in [Block -> 0..3] /\ made'[b] >= made[b]
      /\ \A c \in InFlight : own'[c] \in 0..3
      /\ \A c \in Block \ {b} : made'[c] = made[c]
      /\ \A c \in InFlight \ {b} : own'[c] = own[c]
  BY Written
<1> QED
  <2>1. CASE logged' = logged /\ own'[b] - made'[b] = own[b] - made[b] - 1
    <3> DEFINE e == <<b, own[b] + 3 - made[b]>>
    <3>1. Owed' = Owed /\ Log' = Log
      BY <1>2, <2>1 DEF Owed, Log
    <3>2. own[b] + 3 - made[b] \in 1..6 /\ own[b] + 3 - made[b] \in Nat
      <4>1. made'[b] \in 0..3 /\ own'[b] \in 0..3
        BY <1>1, <1>3
      <4>2. own[b] \in 0..3 /\ made[b] \in 0..3 /\ own'[b] - made'[b] = own[b] - made[b] - 1
        BY <1>2, <2>1
      <4>3. ASSUME NEW x \in 0..3, NEW y \in 0..3, NEW u \in 0..3, NEW v \in 0..3, u - v = x - y - 1
            PROVE  x + 3 - y \in 1..6 /\ x + 3 - y \in Nat
        BY <4>3
      <4> QED
        BY <4>1, <4>2, <4>3
    <3>3. e \in Left
      BY <1>1, <3>2 DEF Left, AttemptEntries
    <3>4. Left' = Left \ {e}
      <4>1. ASSUME NEW c \in InFlight, NEW k \in 1..6
            PROVE  k <= own'[c] + 3 - made'[c] <=> k <= own[c] + 3 - made[c] /\ <<c, k>> # e
        <5>1. CASE c # b
          <6>1. c \in Block
            BY <1>0, <4>1 DEF Typed
          <6> QED
            BY <1>3, <5>1, <6>1, <4>1
        <5>2. CASE c = b
          <6>1. made'[b] \in 0..3 /\ own'[b] \in 0..3
            BY <1>1, <1>3
          <6>2. <<c, k>> # e <=> k # own[b] + 3 - made[b]
            BY <5>2
          <6> QED
            BY <1>2, <2>1, <5>2, <6>1, <6>2, <4>1
        <5> QED
          BY <5>1, <5>2
      <4> HIDE DEF e
      <4>2. ASSUME NEW x \in Block \X (1..6) PROVE x \in Left' <=> x \in Left \ {e}
        <5>1. x[1] \in Block /\ x[2] \in 1..6 /\ x = <<x[1], x[2]>>
          BY <4>2
        <5>2. x \in Left <=> x[1] \in InFlight /\ x[2] <= own[x[1]] + 3 - made[x[1]]
          BY <4>2 DEF Left, AttemptEntries
        <5>3. x \in Left' <=> x[1] \in InFlight /\ x[2] <= own'[x[1]] + 3 - made'[x[1]]
          BY <4>2, <1>2 DEF Left, AttemptEntries
        <5> QED
          BY <4>1, <5>1, <5>2, <5>3
      <4>3. Left' \subseteq Block \X (1..6) /\ Left \subseteq Block \X (1..6)
        BY DEF Left, AttemptEntries
      <4> QED
        BY <4>2, <4>3
    <3>5. e[1] = b
      OBVIOUS
    <3> QED
      BY <1>1, <1>2, <3>1, <3>3, <3>4, <3>5
  <2>2. CASE ~ logged /\ logged' /\ own' = own /\ made' = made
    <3>1. Left' = Left
      BY <1>2, <2>2 DEF Left
    <3>2. Owed' = 0 /\ Owed = 1 /\ Log' = 0 /\ Log = 1
      BY <1>1, <1>2, <2>2 DEF Owed, Log
    <3> QED
      BY <1>1, <1>2, <3>1, <3>2
  <2>3. \/ logged' = logged /\ own'[b] - made'[b] = own[b] - made[b] - 1
        \/ ~ logged /\ logged' /\ own' = own /\ made' = made
    <3>1. CASE made[b] < 3 /\ made' = [made EXCEPT ![b] = @ + 1] /\ UNCHANGED <<own, logged>>
      BY <1>0, <1>2, <3>1 DEF Typed
    <3>2. CASE made[b] = 3 /\ ~ logged /\ logged' = TRUE /\ UNCHANGED <<own, made>>
      BY <3>2
    <3>3. CASE made[b] = 3 /\ logged /\ own[b] > 0 /\ own' = [own EXCEPT ![b] = @ - 1] /\ UNCHANGED <<made, logged>>
      <4>1. own'[b] = own[b] - 1
        BY <1>1, <3>3 DEF InFlight
      <4> QED
        BY <1>2, <3>3, <4>1
    <3> QED
      BY <1>1, <3>1, <3>2, <3>3
  <2> QED
    BY <2>1, <2>2, <2>3

LEMMA WriteKeeps ==
  ASSUME IInv, NEW b \in Block, Write(b)
  PROVE  IInv'
<1>0. Typed /\ Sound /\ Fits /\ Kept
  BY DEF IInv
<1>1. /\ b \in InFlight /\ held' = held + 1
      /\ \/ made[b] < 3 /\ made' = [made EXCEPT ![b] = @ + 1] /\ UNCHANGED <<own, logged>>
         \/ made[b] = 3 /\ ~ logged /\ logged' = TRUE /\ UNCHANGED <<own, made>>
         \/ made[b] = 3 /\ logged /\ own[b] > 0 /\ own' = [own EXCEPT ![b] = @ - 1] /\ UNCHANGED <<made, logged>>
      /\ UNCHANGED <<retained, claims, indexed, verb, blocks, state, resolving, resolved, repeated, stopped,
                     interruptions>>
  BY DEF Write, operation
<1>2. InFlight' = InFlight /\ made[b] \in 0..3 /\ own[b] \in 0..3
  BY Written
<1>3. /\ made' \in [Block -> 0..3] /\ made'[b] >= made[b]
      /\ \A c \in InFlight : own'[c] \in 0..3
      /\ \A c \in Block \ {b} : made'[c] = made[c]
      /\ \A c \in InFlight \ {b} : own'[c] = own[c]
  BY Written
<1>4. logged' \in BOOLEAN
  BY <1>0, <1>1 DEF Typed
<1>5. Typed'
  <2>1. held' \in Nat /\ 3 * claims' <= held'
    BY <1>0, <1>1 DEF Typed
  <2> QED
    BY <1>0, <1>1, <1>2, <1>3, <1>4, <2>1 DEF Typed
<1>6. Sound'
  <2>1. \A c \in InFlight' : made'[c] < 3 => own'[c] = 3
    <3> SUFFICES ASSUME NEW c \in InFlight, made'[c] < 3 PROVE own'[c] = 3
      BY <1>2
    <3>1. CASE c # b
      BY <1>0, <1>3, <3>1 DEF Sound, Typed
    <3>2. CASE c = b
      <4>1. made[b] < 3 /\ own' = own
        BY <1>1, <1>2, <1>3, <3>2
      <4> QED
        BY <1>0, <4>1, <3>2 DEF Sound
    <3> QED
      BY <3>1, <3>2
  <2>2. \A c \in Block : state'[c] \notin {"pending", "running"} => made'[c] # 0
    BY <1>0, <1>1, <1>2, <1>3 DEF Sound, Typed
  <2> QED
    BY <1>0, <1>1, <2>1, <2>2 DEF Sound
<1>7. Cardinality(Left) \in Nat /\ IsFiniteSet(Left) /\ Owed \in {0, 1} /\ Owed' \in {0, 1} /\ held \in Nat
      /\ AdmissionEntries("destroy", Cardinality(blocks)) \in Nat /\ MaxEntries \in Nat
  <2>1. Cardinality(Left) \in Nat /\ IsFiniteSet(Left) /\ Owed \in {0, 1} /\ Cardinality(blocks) \in Nat
    BY <1>0, Counted
  <2>2. Owed' \in {0, 1}
    BY DEF Owed, Log
  <2> QED
    BY <1>0, <2>1, <2>2, AreaAssumption DEF Typed, AdmissionEntries, FirstPassEntries
<1>8. Cardinality(Left)' + Owed' + 1 = Cardinality(Left) + Owed /\ Cardinality(Left)' \in Nat
  <2>1. CASE \E e \in Left : Left' = Left \ {e} /\ Owed' = Owed
    <3>1. PICK e \in Left : Left' = Left \ {e} /\ Owed' = Owed
      BY <2>1
    <3>2. Cardinality(Left') = Cardinality(Left) - 1
      BY <1>7, <3>1, FS_RemoveElement
    <3>3. Cardinality(Left') \in Nat
      BY <1>7, <3>1, Smaller
    <3> QED
      BY <1>7, <3>1, <3>2, <3>3
  <2>2. CASE Owed = 1 /\ Owed' = 0 /\ Left' = Left
    BY <1>7, <2>2
  <2> QED
    BY <1>0, <2>1, <2>2, WriteLeft
<1>9. Fits'
  BY <1>0, <1>1, <1>7, <1>8 DEF Fits
<1>10. Kept'
  <2>1. held' + Cardinality(Left)' + Owed' = held + Cardinality(Left) + Owed
    BY <1>1, <1>7, <1>8
  <2> QED
    BY <1>0, <1>1, <2>1 DEF Kept
<1> QED
  BY <1>5, <1>6, <1>9, <1>10 DEF IInv

\* Where nothing is made and nothing more is owed, what fitted still fits.
LEMMA Lessened ==
  ASSUME IInv, Typed', Sound', Left' \subseteq Left, Owed' <= Owed,
         UNCHANGED <<held, retained, verb, blocks, stopped>>
  PROVE  IInv'
<1>1. Typed /\ Fits /\ Kept
  BY DEF IInv
<1>2. Cardinality(Left) \in Nat /\ IsFiniteSet(Left) /\ Owed \in {0, 1} /\ Cardinality(blocks) \in Nat
  BY <1>1, Counted
<1>3. Cardinality(Left') \in Nat /\ Cardinality(Left') <= Cardinality(Left)
  BY <1>2, Smaller
<1>4. Owed' \in {0, 1}
  BY DEF Owed, Log
<1>5. held \in Nat /\ MaxEntries \in Nat /\ AdmissionEntries("destroy", Cardinality(blocks)) \in Nat
  BY <1>1, <1>2, AreaAssumption DEF Typed, AdmissionEntries, FirstPassEntries
<1>6. Fits'
  BY <1>1, <1>2, <1>3, <1>4, <1>5 DEF Fits
<1>7. Kept'
  <2>1. held' + Cardinality(Left)' + Owed' <= held + Cardinality(Left) + Owed
    BY <1>2, <1>3, <1>4, <1>5
  <2>2. SUFFICES ASSUME verb = "apply", ~ stopped
                 PROVE  /\ retained + 1 <= MaxOperations
                        /\ held' + Cardinality(Left)' + Owed' + AdmissionEntries("destroy", Cardinality(blocks))
                             <= MaxEntries
    BY DEF Kept
  <2>3. retained + 1 <= MaxOperations
        /\ held + Cardinality(Left) + Owed + AdmissionEntries("destroy", Cardinality(blocks)) <= MaxEntries
    BY <1>1, <2>2 DEF Kept
  <2> QED
    BY <1>2, <1>3, <1>4, <1>5, <2>1, <2>3
<1> QED
  BY <1>6, <1>7 DEF IInv

LEMMA SettleKeeps ==
  ASSUME IInv, NEW b \in Block, Settle(b)
  PROVE  IInv'
<1>0. Typed /\ Sound
  BY DEF IInv
<1>1. PICK s \in {"done", "failed", "unknown"} : state' = [state EXCEPT ![b] = s]
  BY DEF Settle
<1>2. /\ b \in InFlight /\ made[b] # 0
      /\ own' = [c \in InFlight \ {b} |-> own[c]]
      /\ UNCHANGED <<held, retained, claims, indexed, verb, blocks, made, logged, resolving, resolved, repeated,
                     stopped, interruptions>>
  BY DEF Settle, operation
<1>3. InFlight' = InFlight \ {b}
  BY <1>2 DEF InFlight
<1>4. Typed'
  <2>1. state' \in [Block -> BlockState]
    BY <1>0, <1>1 DEF Typed, BlockState
  <2>2. InFlight' \subseteq blocks' /\ \A c \in InFlight' : own'[c] \in 0..3
    BY <1>0, <1>2, <1>3 DEF Typed
  <2> QED
    BY <1>0, <1>2, <2>1, <2>2 DEF Typed
<1>5. Sound'
  <2>1. \A c \in InFlight' : made'[c] < 3 => own'[c] = 3
    BY <1>0, <1>2, <1>3 DEF Sound
  <2>2. \A c \in Block : state'[c] \notin {"pending", "running"} => made'[c] # 0
    BY <1>0, <1>1, <1>2 DEF Sound, Typed
  <2> QED
    BY <1>0, <1>2, <2>1, <2>2 DEF Sound
<1>6. Left' \subseteq Left
  BY <1>2, <1>3 DEF Left
<1>7. Owed' <= Owed
  BY <1>2, <1>3 DEF Owed, Log
<1> QED
  BY <1>2, <1>4, <1>5, <1>6, <1>7, Lessened

LEMMA BeginRemovalKeeps ==
  ASSUME IInv, BeginRemoval
  PROVE  IInv'
<1>0. Typed /\ Sound
  BY DEF IInv
<1>1. /\ verb = "apply" /\ resolving' = ~ resolving
      /\ UNCHANGED <<held, retained, claims, indexed, verb, blocks, state, made, logged, own, resolved, repeated,
                     stopped, interruptions>>
  BY DEF BeginRemoval, operation
<1>2. InFlight' = InFlight
  BY <1>1 DEF InFlight
<1>3. resolving' \in BOOLEAN
  BY <1>1
<1>4. Typed'
  BY <1>0, <1>1, <1>2, <1>3 DEF Typed
<1>5. Sound'
  BY <1>0, <1>1, <1>2 DEF Sound
<1>6. Left' = Left /\ Owed' = Owed
  BY <1>1, <1>2 DEF Left, Owed, Log
<1>7. Owed' <= Owed
  BY <1>6 DEF Owed, Log
<1> QED
  BY <1>1, <1>4, <1>5, <1>6, <1>7, Lessened

LEMMA KillKeeps ==
  ASSUME IInv, Kill
  PROVE  IInv'
<1>0. Typed /\ Sound
  BY DEF IInv
<1>1. /\ own' = <<>> /\ resolving' = FALSE
      /\ UNCHANGED <<held, retained, claims, indexed, verb, blocks, state, made, logged, resolved, repeated,
                     stopped, interruptions>>
  BY DEF Kill, operation
<1>2. InFlight' = {}
  BY <1>1 DEF InFlight
<1>3. Typed'
  BY <1>0, <1>1, <1>2 DEF Typed
<1>4. Sound'
  BY <1>0, <1>1, <1>2 DEF Sound
<1>5. Left' = {} /\ Owed' = 0
  BY <1>2, QuietNext
<1>6. Left' \subseteq Left /\ Owed' <= Owed
  BY <1>5 DEF Owed, Log
<1> QED
  BY <1>1, <1>3, <1>4, <1>6, Lessened

LEMMA StutterKeeps ==
  ASSUME IInv, UNCHANGED vars
  PROVE  IInv'
<1>1. UNCHANGED <<held, retained, claims, indexed, verb, blocks, state, made, logged, own, resolving, resolved,
                  repeated, stopped, interruptions>>
  BY DEF vars, operation
<1>2. InFlight' = InFlight
  BY <1>1 DEF InFlight
<1>3. Left' = Left /\ Owed' = Owed
  BY <1>1, <1>2 DEF Left, Owed, Log
<1>4. Typed'
  BY <1>1, <1>2 DEF IInv, Typed
<1>5. Sound'
  BY <1>1, <1>2 DEF IInv, Sound
<1>6. Owed' <= Owed
  BY <1>3 DEF Owed, Log
<1> QED
  BY <1>1, <1>3, <1>4, <1>5, <1>6, Lessened

LEMMA Initially ==
  ASSUME Init PROVE IInv
<1>1. InFlight = {}
  BY DEF Init, InFlight
<1>2. Cardinality(Left) = 0 /\ Owed = 0
  BY <1>1, Quiet
<1>3. Typed
  <2>1. state \in [Block -> BlockState] /\ made \in [Block -> 0..3]
    BY DEF Init, BlockState
  <2>2. interruptions \in 0..Interruptions /\ held \in Nat /\ retained \in Nat /\ claims \in Nat
        /\ retained <= MaxOperations /\ claims <= retained /\ 3 * claims <= held
    BY AreaAssumption DEF Init
  <2> QED
    BY <1>1, <2>1, <2>2 DEF Init, Typed
<1>4. Sound
  BY <1>1 DEF Init, Sound
<1>5. Fits /\ Kept
  BY <1>2, AreaAssumption DEF Init, Fits, Kept
<1> QED
  BY <1>3, <1>4, <1>5 DEF IInv

LEMMA Stepping ==
  ASSUME IInv, [Next]_vars PROVE IInv'
<1>1. CASE RegisterApply
  BY <1>1, RegisterApplyKeeps
<1>2. CASE RegisterRemoval
  BY <1>2, RegisterRemovalKeeps
<1>3. CASE ApplyStopped \/ RemovalStopped
  BY <1>3, StoppedKeeps
<1>4. CASE Reclaim
  BY <1>4, ReclaimKeeps
<1>5. CASE BeginRemoval
  BY <1>5, BeginRemovalKeeps
<1>6. CASE Kill
  BY <1>6, KillKeeps
<1>7. CASE \E b \in Block : Attempt(b)
  BY <1>7, AttemptKeeps
<1>8. CASE \E b \in Block : Write(b)
  BY <1>8, WriteKeeps
<1>9. CASE \E b \in Block : Settle(b)
  BY <1>9, SettleKeeps
<1>10. CASE UNCHANGED vars
  BY <1>10, StutterKeeps
<1> QED
  BY <1>1, <1>2, <1>3, <1>4, <1>5, <1>6, <1>7, <1>8, <1>9, <1>10 DEF Next

(***************************************************************************)
(* The counts hold of every state, for any bounds of the area.             *)
(***************************************************************************)
THEOREM Invariance == Spec => []IInv
<1>1. Init => IInv
  BY Initially
<1>2. IInv /\ [Next]_vars => IInv'
  BY Stepping
<1> QED
  BY <1>1, <1>2, PTL DEF Spec

(***************************************************************************)
(* For any bounds of the area and any plan, every variable has its type:   *)
(* the area never holds more entries, nor more operation directories, than *)
(* it is bounded to (store.go, admit and admitOperations).                 *)
(***************************************************************************)
THEOREM TypeCorrect == Spec => []TypeOK
<1>1. IInv => TypeOK
  <2> SUFFICES ASSUME IInv PROVE TypeOK
    OBVIOUS
  <2>1. Typed /\ Fits
    BY DEF IInv
  <2>2. Cardinality(Left) \in Nat /\ Owed \in {0, 1}
    BY <2>1, Counted
  <2>3. held \in 0..MaxEntries /\ retained \in 0..MaxOperations /\ claims \in 0..retained
    BY <2>1, <2>2, AreaAssumption DEF Typed, Fits
  <2> QED
    BY <2>1, <2>3 DEF Typed, TypeOK
<1> QED
  BY <1>1, Invariance, PTL

(***************************************************************************)
(* Whatever number of attempts is in flight, and however they were         *)
(* admitted, what they may still write fits (records.go, AdmitAttempt).    *)
(***************************************************************************)
THEOREM AttemptsFit == Spec => []AdmittedFits
<1>1. IInv => AdmittedFits
  <2> SUFFICES ASSUME IInv PROVE AdmittedFits
    OBVIOUS
  <2>1. Typed /\ Fits /\ held \in Nat
    BY DEF IInv, Typed
  <2>2. Cardinality(Left) \in Nat /\ Owed \in {0, 1}
    BY <2>1, Counted
  <2> QED
    BY <2>1, <2>2, AreaAssumption DEF Fits, AdmittedFits
<1> QED
  BY <1>1, Invariance, PTL

(***************************************************************************)
(* However an apply's attempts were repeated, resolved or killed, its      *)
(* removal is admitted, unless a registration of it was stopped part way.  *)
(***************************************************************************)
THEOREM RemovalAlwaysRegisters == Spec => []RemovalRegisters
<1>1. IInv => RemovalRegisters
  <2> SUFFICES ASSUME IInv, verb = "apply", own = <<>>, ~ stopped
               PROVE  Admitted("destroy", Cardinality(Removed))
    BY DEF RemovalRegisters
  <2>1. Typed /\ Kept /\ held \in Nat /\ retained \in Nat /\ InFlight = {}
    BY DEF IInv, Typed, InFlight
  <2>2. Cardinality(Left) = 0 /\ Owed = 0
    BY <2>1, Quiet
  <2>3. Cardinality(Removed) \in Nat /\ Cardinality(blocks) \in Nat /\ Cardinality(Removed) <= Cardinality(blocks)
    BY <2>1, RemovedCounted
  <2>4. retained + 1 <= MaxOperations
        /\ held + AdmissionEntries("destroy", Cardinality(blocks)) <= MaxEntries
    BY <2>1, <2>2 DEF Kept
  <2> QED
    BY <2>1, <2>3, <2>4, AreaAssumption DEF Admitted, AdmissionOperations, AdmissionEntries, FirstPassEntries
<1> QED
  BY <1>1, Invariance, PTL

-----------------------------------------------------------------------------
(* The first pass *)

LEMMA FirstCounted ==
  ASSUME Typed
  PROVE  /\ First \in SUBSET (Block \X Entry) /\ IsFiniteSet(First) /\ Cardinality(First) \in Nat
         /\ Cardinality(blocks) \in Nat /\ Log \in {0, 1} /\ Aside \in Nat
         /\ verb = "apply" =>
              Aside = 13 + 6 * Cardinality(blocks) + 5 * (Interruptions - interruptions)
<1>1. First \in SUBSET (Block \X Entry) /\ Log \in {0, 1}
  BY DEF First, Left, Untried, Entry, Typed, Log
<1>2. IsFiniteSet(First) /\ Cardinality(First) \in Nat
  BY <1>1, Bounded, Smaller
<1>3. Cardinality(blocks) \in Nat
  BY Counted
<1>4. Interruptions \in Nat /\ interruptions \in Nat /\ interruptions <= Interruptions
  BY AreaAssumption DEF Typed
<1>5. /\ Aside \in Nat
      /\ verb = "apply" =>
           Aside = 13 + 6 * Cardinality(blocks) + 5 * (Interruptions - interruptions)
  BY <1>3, <1>4 DEF Aside, AdmissionEntries, FirstPassEntries
<1> QED
  BY <1>1, <1>2, <1>3, <1>5

\* Six entries of every block, where nothing is in flight and nothing was made.
LEMMA FirstAlone ==
  ASSUME NEW F \in SUBSET Block
  PROVE  /\ Cardinality(F \X Entry) = 6 * Cardinality(F) /\ Cardinality(F) \in Nat
         /\ F \X Entry = {} <=> F = {}
<1>1. IsFiniteSet(F) /\ IsFiniteSet(Entry) /\ Cardinality(Entry) = 6 /\ Cardinality(F) \in Nat
  BY Bounded, Smaller
<1>2. Cardinality(F \X Entry) = Cardinality(F) * Cardinality(Entry)
  BY <1>1, FS_Product
<1>3. 1 \in Entry
  BY DEF Entry, AttemptEntries
<1>4. F \X Entry = {} <=> F = {}
  <2>1. ASSUME NEW b \in F PROVE <<b, 1>> \in F \X Entry
    BY <1>3
  <2> QED
    BY <2>1
<1> QED
  BY <1>1, <1>2, <1>4

\* Where nothing is made and the pass has no more to make, it fits as it did.
LEMMA PassLessened ==
  ASSUME Typed, Pass, Typed', First' \subseteq First, Log' <= Log, repeated => repeated',
         UNCHANGED <<held, verb, blocks, interruptions>>
  PROVE  Pass'
<1> SUFFICES ASSUME verb # "none", ~ repeated
             PROVE  held + Cardinality(First') + Log' + 1 + (IF First' = {} THEN 0 ELSE Aside) <= MaxEntries
  BY DEF Pass, Aside
<1>1. held + Cardinality(First) + Log + 1 + (IF First = {} THEN 0 ELSE Aside) <= MaxEntries
  BY DEF Pass
<1>2. IsFiniteSet(First) /\ Cardinality(First) \in Nat /\ Log \in {0, 1} /\ Aside \in Nat
  BY FirstCounted
<1>3. Cardinality(First') \in Nat /\ Cardinality(First') <= Cardinality(First)
  BY <1>2, Smaller
<1>4. Log' \in {0, 1} /\ held \in Nat /\ MaxEntries \in Nat
  BY AreaAssumption DEF Log, Typed
<1>5. CASE First' = {}
  BY <1>1, <1>2, <1>3, <1>4, <1>5
<1>6. CASE First' # {}
  BY <1>1, <1>2, <1>3, <1>4, <1>6
<1> QED
  BY <1>5, <1>6

\* A registration makes no more than its admission counted: an apply's reserve
\* leaves the entries of every removal that is stopped, and eight more.
LEMMA RegisteredPass ==
  ASSUME ReservedEntries >= 8 + 5 * Interruptions,
         IInv, own = <<>>, own' = own, NEW n \in Nat, NEW v \in Verb, NEW plan \in SUBSET Block,
         Cardinality(plan) = n, Admitted(v, n), Registered(v, plan), interruptions' = interruptions,
         v = "destroy" => indexed
  PROVE  Pass'
<1>0. Typed
  BY DEF IInv
<1>1. /\ held' = held + 6 + (IF indexed THEN 0 ELSE 1) - 3 * claims
      /\ verb' = v /\ blocks' = plan /\ made' = [b \in Block |-> 0] /\ logged' = FALSE
  BY DEF Registered
<1>2. InFlight' = {}
  BY DEF InFlight
<1>3. First' = plan \X Entry
  <2>1. Left' = {}
    BY <1>2, QuietNext
  <2>2. Untried' = plan
    BY <1>1, <1>2 DEF Untried
  <2> QED
    BY <2>1, <2>2 DEF First
<1>4. PICK m \in Nat : m = 6 * n
  OBVIOUS
<1>5. Cardinality(First') = m /\ Log' = 1
  BY <1>1, <1>3, <1>4, FirstAlone DEF Log
<1>6. /\ held \in Nat /\ claims \in Nat /\ MaxEntries \in Nat /\ ReservedEntries \in Nat /\ Interruptions \in Nat
      /\ interruptions \in Nat /\ interruptions <= Interruptions /\ v \in {"apply", "destroy"}
  BY <1>0, AreaAssumption DEF Typed, Verb
<1>7. CASE v = "apply"
  <2>1. held + 2 * (7 + m) + ReservedEntries <= MaxEntries
    BY <1>4, <1>6, <1>7 DEF Admitted, AdmissionEntries, FirstPassEntries
  <2>2. PICK d \in Int : held' = held + d /\ d <= 7
    <3>1. (IF indexed THEN 0 ELSE 1) \in {0, 1}
      OBVIOUS
    <3>2. 6 + (IF indexed THEN 0 ELSE 1) - 3 * claims \in Int
          /\ 6 + (IF indexed THEN 0 ELSE 1) - 3 * claims <= 7
      BY <1>6, <3>1
    <3> QED
      BY <1>1, <1>6, <3>2
  <2>3. Aside' = 13 + m + 5 * (Interruptions - interruptions)
    BY <1>1, <1>4, <1>6, <1>7 DEF Aside, AdmissionEntries, FirstPassEntries
  <2>4. held' + m + 1 + 1 + Aside' <= MaxEntries
    BY <1>6, <2>1, <2>2, <2>3
  <2>5. Aside' \in Nat
    BY <1>6, <2>3
  <2>6. held' + Cardinality(First') + Log' + 1 + (IF First' = {} THEN 0 ELSE Aside') <= MaxEntries
    <3>1. PICK a \in Nat : a = Aside'
      BY <2>5
    <3>2. held' + m + 1 + 1 + a <= MaxEntries
      BY <2>4, <3>1
    <3>3. held' + m + 1 + 1 <= MaxEntries
      BY <1>6, <2>2, <3>2
    <3>4. held' + m + 1 + 1 + (IF First' = {} THEN 0 ELSE a) <= MaxEntries
      <4>1. held + d + m + 1 + 1 + 0 <= MaxEntries /\ held + d + m + 1 + 1 + a <= MaxEntries
        BY <1>6, <2>2, <3>2, <3>3
      <4>2. held' + m + 1 + 1 + 0 <= MaxEntries /\ held' + m + 1 + 1 + a <= MaxEntries
        BY <2>2, <4>1
      <4> QED
        BY <4>2
    <3> QED
      BY <1>5, <1>6, <2>2, <3>1, <3>4
  <2> QED
    BY <2>6 DEF Pass
<1>8. CASE v = "destroy"
  <2>1. held + (7 + m) + 1 <= MaxEntries
    BY <1>4, <1>6, <1>8 DEF Admitted, AdmissionEntries, FirstPassEntries
  <2>2. PICK d \in Int : held' = held + d /\ d <= 6
    <3>1. 6 - 3 * claims \in Int /\ 6 - 3 * claims <= 6
      BY <1>6
    <3> QED
      BY <1>1, <1>6, <1>8, <3>1
  <2>3. Aside' = 0
    BY <1>1, <1>8 DEF Aside
  <2>4. held' + m + 1 + 1 + 0 <= MaxEntries
    BY <1>6, <2>1, <2>2
  <2>5. held' + Cardinality(First') + Log' + 1 + (IF First' = {} THEN 0 ELSE Aside') <= MaxEntries
    BY <1>5, <1>6, <2>2, <2>3, <2>4
  <2> QED
    BY <2>5 DEF Pass
<1> QED
  BY <1>6, <1>7, <1>8

LEMMA RegistrationPasses ==
  ASSUME ReservedEntries >= 8 + 5 * Interruptions, IInv, RegisterApply \/ RegisterRemoval
  PROVE  Pass'
<1>0. Typed /\ Sound
  BY DEF IInv
<1>1. CASE RegisterApply
  <2>1. PICK n \in 1..MaxBlocks : Admitted("apply", n) /\ Registered("apply", 1..n)
    BY <1>1 DEF RegisterApply
  <2>2. own = <<>> /\ own' = own /\ interruptions' = interruptions
    BY <1>1 DEF RegisterApply
  <2>3. n \in Nat /\ 1..n \in SUBSET Block /\ Cardinality(1..n) = n
    BY <2>1, AreaAssumption, FS_Interval DEF Block
  <2> QED
    BY <2>1, <2>2, <2>3, RegisteredPass DEF Verb
<1>2. CASE RegisterRemoval
  <2>1. /\ own = <<>> /\ own' = own /\ interruptions' = interruptions /\ verb = "apply"
        /\ Admitted("destroy", Cardinality(Removed)) /\ Registered("destroy", Removed)
    BY <1>2 DEF RegisterRemoval
  <2>2. Removed \in SUBSET Block /\ Cardinality(Removed) \in Nat
    BY <1>0, RemovedCounted
  <2>3. indexed
    BY <1>0, <2>1 DEF Sound
  <2> QED
    BY <2>1, <2>2, <2>3, RegisteredPass DEF Verb
<1> QED
  BY <1>1, <1>2

\* A completed operation has nothing of its first pass left to make.
LEMMA DoneFirst ==
  ASSUME Typed, Sound, own = <<>>, Done PROVE First = {}
<1>1. InFlight = {}
  BY DEF InFlight
<1>2. Left = {}
  BY <1>1, Quiet
<1>3. Untried = {}
  BY DEF Untried, Done, Sound, Typed
<1> QED
  BY <1>2, <1>3 DEF First

\* At most five entries are spent where they are counted: from what an apply keeps
\* aside, or from the admission itself once its first pass is over.
LEMMA StoppedPasses ==
  ASSUME IInv, Pass, ApplyStopped \/ RemovalStopped
  PROVE  Pass'
<1>0. Typed /\ Sound
  BY DEF IInv
<1>1. /\ own = <<>> /\ own' = own /\ interruptions' = interruptions + 1 /\ interruptions < Interruptions
      /\ held' \in {held + 3, held + 4, held + 5}
      /\ UNCHANGED <<verb, blocks, made, logged, repeated>>
  BY DEF ApplyStopped, RemovalStopped, Interrupted, operation
<1>2. First' = First /\ Log' = Log
  BY <1>1 DEF First, Left, Untried, InFlight, Log
<1>3. /\ Cardinality(First) \in Nat /\ Log \in {0, 1} /\ Cardinality(blocks) \in Nat /\ Aside \in Nat
      /\ verb = "apply" => Aside = 13 + 6 * Cardinality(blocks) + 5 * (Interruptions - interruptions)
  BY <1>0, FirstCounted
<1>4. held \in Nat /\ MaxEntries \in Nat /\ interruptions \in Nat /\ Interruptions \in Nat /\ ReservedEntries \in Nat
  BY <1>0, AreaAssumption DEF Typed
<1> SUFFICES ASSUME verb # "none", ~ repeated
             PROVE  held' + Cardinality(First) + Log + 1 + (IF First = {} THEN 0 ELSE Aside') <= MaxEntries
  BY <1>1, <1>2 DEF Pass
<1>5. held + Cardinality(First) + Log + 1 + (IF First = {} THEN 0 ELSE Aside) <= MaxEntries
  BY DEF Pass
<1>6. held + 7 <= MaxEntries
  <2>1. CASE ApplyStopped
    <3>1. PICK n \in 1..MaxBlocks : Admitted("apply", n)
      BY <2>1 DEF ApplyStopped
    <3>2. held + (2 * (7 + 6 * n) + ReservedEntries) <= MaxEntries
      BY <3>1 DEF Admitted, AdmissionEntries, FirstPassEntries
    <3> QED
      BY <1>4, <3>2, AreaAssumption
  <2>2. CASE RemovalStopped
    <3>1. Admitted("destroy", Cardinality(Removed)) /\ Cardinality(Removed) \in Nat
      BY <1>0, <2>2, RemovedCounted DEF RemovalStopped
    <3>2. held + (7 + 6 * Cardinality(Removed) + 1) <= MaxEntries
      BY <3>1 DEF Admitted, AdmissionEntries, FirstPassEntries
    <3> QED
      BY <1>4, <3>1, <3>2
  <2> QED
    BY <2>1, <2>2
<1>7. CASE First = {}
  <2>1. Cardinality(First) = 0
    BY <1>7, FS_EmptySet
  <2> QED
    BY <1>1, <1>3, <1>4, <1>6, <1>7, <2>1
<1>8. CASE First # {}
  <2>1. verb = "apply"
    <3>1. ApplyStopped => First = {}
      BY <1>0, <1>1, DoneFirst DEF ApplyStopped, Pristine
    <3> QED
      BY <1>8, <3>1 DEF RemovalStopped
  <2>2. Aside' = 13 + 6 * Cardinality(blocks) + 5 * (Interruptions - (interruptions + 1))
    BY <1>1, <1>3, <1>4, <2>1 DEF Aside, AdmissionEntries, FirstPassEntries
  <2>3. Aside' = Aside - 5
    BY <1>3, <1>4, <2>1, <2>2
  <2>4. held + Cardinality(First) + Log + 1 + Aside <= MaxEntries
    BY <1>5, <1>8
  <2>5. held' \in Nat /\ held' <= held + 5
    BY <1>1, <1>4
  <2>6. held' + Cardinality(First) + Log + 1 + Aside' <= MaxEntries
    BY <1>3, <1>4, <2>3, <2>4, <2>5
  <2> QED
    BY <1>8, <2>6
<1> QED
  BY <1>7, <1>8

LEMMA ReclaimPasses ==
  ASSUME IInv, Pass, Reclaim
  PROVE  Pass'
<1>0. Typed
  BY DEF IInv
<1>1. /\ held' = held - 3 * claims
      /\ UNCHANGED <<verb, blocks, made, logged, own, repeated, interruptions>>
  BY DEF Reclaim, operation
<1>2. First' = First /\ Log' = Log /\ Aside' = Aside
  BY <1>1 DEF First, Left, Untried, InFlight, Log, Aside
<1>3. Cardinality(First) \in Nat /\ Log \in {0, 1} /\ Aside \in Nat
  BY <1>0, FirstCounted
<1>4. held \in Nat /\ claims \in Nat /\ MaxEntries \in Nat
  BY <1>0, AreaAssumption DEF Typed
<1> DEFINE more == Cardinality(First) + Log + 1 + (IF First = {} THEN 0 ELSE Aside)
<1>5. more \in Nat
  BY <1>3
<1>6. verb # "none" /\ ~ repeated => held + more <= MaxEntries
  BY <1>3, <1>4 DEF Pass
<1> HIDE DEF more
<1>7. verb # "none" /\ ~ repeated => held' + more <= MaxEntries
  BY <1>1, <1>4, <1>5, <1>6
<1>8. held' \in Int
  BY <1>1, <1>4
<1> QED
  BY <1>1, <1>2, <1>3, <1>7, <1>8 DEF Pass, more

\* A first attempt writes what its block's share of the pass already counted.
LEMMA AttemptPasses ==
  ASSUME IInv, Pass, NEW b \in Block, Attempt(b)
  PROVE  Pass'
<1>0. Typed
  BY DEF IInv
<1>1. /\ b \in blocks \ InFlight
      /\ own' = [c \in InFlight \union {b} |-> IF c = b THEN 3 ELSE own[c]]
      /\ repeated' = (repeated \/ made[b] # 0)
      /\ UNCHANGED <<held, verb, blocks, made, logged, interruptions>>
  BY DEF Attempt, operation
<1>2. InFlight' = InFlight \union {b}
  BY <1>1 DEF InFlight
<1>3. CASE repeated'
  BY <1>3 DEF Pass
<1>4. CASE ~ repeated'
  <2>1. made[b] = 0 /\ ~ repeated
    BY <1>1, <1>4
  <2>2. Left' \subseteq Left \union ({b} \X Entry)
    BY <1>1, <1>2 DEF Left, Entry
  <2>3. Untried' \subseteq Untried /\ b \in Untried
    BY <1>1, <1>2, <2>1 DEF Untried
  <2>4. First' \subseteq First
    BY <2>2, <2>3 DEF First
  <2>5. Typed'
    BY AttemptKeeps DEF IInv
  <2>6. Log' <= Log
    BY <1>1 DEF Log
  <2> QED
    BY <1>0, <1>1, <2>1, <2>4, <2>5, <2>6, PassLessened
<1> QED
  BY <1>3, <1>4

LEMMA WritePasses ==
  ASSUME IInv, Pass, NEW b \in Block, Write(b)
  PROVE  Pass'
<1>0. Typed
  BY DEF IInv
<1>1. UNCHANGED <<verb, blocks, repeated, interruptions>>
  BY DEF Write, operation
<1>2. /\ InFlight' = InFlight /\ b \in InFlight /\ held' = held + 1
      /\ \/ Log' = Log /\ \E e \in Left : e[1] = b /\ Left' = Left \ {e}
         \/ Log = 1 /\ Log' = 0 /\ Left' = Left
  BY WriteLeft
<1>3. Untried' = Untried
  <2>1. \A c \in Block \ {b} : made'[c] = made[c]
    BY Written
  <2> QED
    BY <1>0, <1>1, <1>2, <2>1 DEF Untried, Typed
<1>4. IsFiniteSet(First) /\ Cardinality(First) \in Nat /\ Log \in {0, 1} /\ Aside \in Nat /\ Aside' = Aside
      /\ held \in Nat /\ MaxEntries \in Nat
  BY <1>0, <1>1, FirstCounted, AreaAssumption DEF Aside, Typed
<1> SUFFICES ASSUME verb # "none", ~ repeated
             PROVE  held' + Cardinality(First') + Log' + 1 + (IF First' = {} THEN 0 ELSE Aside) <= MaxEntries
  BY <1>1, <1>4 DEF Pass
<1>5. held + Cardinality(First) + Log + 1 + (IF First = {} THEN 0 ELSE Aside) <= MaxEntries
  BY DEF Pass
<1>6. CASE Log' = Log /\ \E e \in Left : e[1] = b /\ Left' = Left \ {e}
  <2>1. PICK e \in Left : e[1] = b /\ Left' = Left \ {e}
    BY <1>6
  <2>2. e \notin Untried \X Entry
    BY <1>2, <2>1 DEF Untried
  <2>3. e \in First /\ First' = First \ {e}
    BY <1>3, <2>1, <2>2 DEF First
  <2>4. Cardinality(First') = Cardinality(First) - 1
    BY <1>4, <2>3, FS_RemoveElement
  <2>5. CASE First' = {}
    BY <1>2, <1>4, <1>5, <1>6, <2>3, <2>4, <2>5
  <2>6. CASE First' # {}
    BY <1>2, <1>4, <1>5, <1>6, <2>3, <2>4, <2>6
  <2> QED
    BY <2>5, <2>6
<1>7. CASE Log = 1 /\ Log' = 0 /\ Left' = Left
  <2>1. First' = First
    BY <1>3, <1>7 DEF First
  <2> QED
    BY <1>2, <1>4, <1>5, <1>7, <2>1
<1> QED
  BY <1>2, <1>6, <1>7

LEMMA EndingPasses ==
  ASSUME IInv, Pass, Kill \/ \E b \in Block : Settle(b)
  PROVE  Pass'
<1>0. Typed /\ Sound
  BY DEF IInv
<1>1. CASE Kill
  <2>1. own' = <<>> /\ UNCHANGED <<held, verb, blocks, made, logged, repeated, interruptions>>
    BY <1>1 DEF Kill, operation
  <2>2. InFlight' = {}
    BY <2>1 DEF InFlight
  <2>3. Left' = {}
    BY <2>2, QuietNext
  <2>4. Untried' \X Entry \subseteq First
    <3> SUFFICES ASSUME NEW c \in blocks, made[c] = 0, NEW k \in Entry PROVE <<c, k>> \in First
      BY <2>1 DEF Untried
    <3>1. c \in Block
      BY <1>0 DEF Typed
    <3>2. CASE c \notin InFlight
      BY <3>2 DEF First, Untried
    <3>3. CASE c \in InFlight
      <4>1. own[c] = 3 /\ k \in 1..6
        BY <1>0, <3>3 DEF Sound, Entry, AttemptEntries
      <4> QED
        BY <3>1, <3>3, <4>1 DEF First, Left, AttemptEntries
    <3> QED
      BY <3>2, <3>3
  <2>5. First' \subseteq First
    BY <2>3, <2>4 DEF First
  <2>6. Typed' /\ Log' <= Log
    BY <1>1, <2>1, KillKeeps DEF IInv, Log
  <2> QED
    BY <1>0, <2>1, <2>5, <2>6, PassLessened
<1>2. ASSUME NEW b \in Block, Settle(b) PROVE Pass'
  <2>1. /\ b \in InFlight /\ made[b] # 0 /\ own' = [c \in InFlight \ {b} |-> own[c]]
        /\ UNCHANGED <<held, verb, blocks, made, logged, repeated, interruptions>>
    BY <1>2 DEF Settle, operation
  <2>2. InFlight' = InFlight \ {b}
    BY <2>1 DEF InFlight
  <2>3. Left' \subseteq Left /\ Untried' \subseteq Untried
    BY <2>1, <2>2 DEF Left, Untried
  <2>4. First' \subseteq First
    BY <2>3 DEF First
  <2>5. Typed' /\ Log' <= Log
    BY <1>2, <2>1, SettleKeeps DEF IInv, Log
  <2> QED
    BY <1>0, <2>1, <2>4, <2>5, PassLessened
<1> QED
  BY <1>1, <1>2

LEMMA UntouchedPasses ==
  ASSUME IInv, Pass, BeginRemoval \/ UNCHANGED vars
  PROVE  Pass'
<1>1. UNCHANGED <<held, verb, blocks, made, logged, own, repeated, interruptions>>
  BY DEF BeginRemoval, vars, operation
<1>2. First' = First /\ Log' = Log /\ Aside' = Aside
  BY <1>1 DEF First, Left, Untried, InFlight, Log, Aside
<1> QED
  BY <1>1, <1>2 DEF Pass

(***************************************************************************)
(* When the reserve an apply is admitted with covers five entries for each *)
(* registration stopped part way and eight more, no first attempt of a     *)
(* block is refused for want of room, an apply's beside all it keeps for   *)
(* its removal (records.go, admissionEntries and AdmitAttempt; its reserve *)
(* of 1024 covers 203 of them).                                            *)
(***************************************************************************)
THEOREM FirstPassAlwaysFits ==
  ASSUME ReservedEntries >= 8 + 5 * Interruptions
  PROVE  Spec => []FirstPassFits
<1>1. Init => Pass
  BY DEF Init, Pass
<1>2. IInv /\ Pass /\ [Next]_vars => Pass'
  <2> SUFFICES ASSUME IInv, Pass, [Next]_vars PROVE Pass'
    OBVIOUS
  <2>1. CASE RegisterApply \/ RegisterRemoval
    BY <2>1, RegistrationPasses
  <2>2. CASE ApplyStopped \/ RemovalStopped
    BY <2>2, StoppedPasses
  <2>3. CASE Reclaim
    BY <2>3, ReclaimPasses
  <2>4. CASE \E b \in Block : Attempt(b)
    BY <2>4, AttemptPasses
  <2>5. CASE \E b \in Block : Write(b)
    BY <2>5, WritePasses
  <2>6. CASE Kill \/ \E b \in Block : Settle(b)
    BY <2>6, EndingPasses
  <2>7. CASE BeginRemoval \/ UNCHANGED vars
    BY <2>7, UntouchedPasses
  <2> QED
    BY <2>1, <2>2, <2>3, <2>4, <2>5, <2>6, <2>7 DEF Next
<1>3. IInv /\ Pass => FirstPassFits
  <2> SUFFICES ASSUME IInv, Pass PROVE FirstPassFits
    OBVIOUS
  <2> DEFINE untried == {b \in blocks : made[b] = 0}
             kept == IF verb = "apply"
                     THEN AdmissionEntries("destroy", Cardinality(blocks)) + AttemptEntries - 1
                     ELSE 0
  <2>0. Typed
    BY DEF IInv
  <2>1. SUFFICES ASSUME verb # "none", own = <<>>, ~ repeated
                 PROVE  held + (AttemptEntries * Cardinality(untried) + 1)
                          + (IF untried = {} THEN 0 ELSE kept) <= MaxEntries
    BY DEF FirstPassFits
  <2>2. InFlight = {} /\ untried \in SUBSET Block
    BY <2>0, <2>1 DEF InFlight, Typed
  <2>3. Left = {} /\ Untried = untried
    BY <2>2, Quiet DEF Untried
  <2>4. First = untried \X Entry
    BY <2>3 DEF First
  <2>5. Cardinality(First) = 6 * Cardinality(untried) /\ Cardinality(untried) \in Nat
        /\ (First = {} <=> untried = {})
    BY <2>2, <2>4, FirstAlone
  <2>6. held + Cardinality(First) + Log + 1 + (IF First = {} THEN 0 ELSE Aside) <= MaxEntries
    BY <2>1 DEF Pass
  <2>7. /\ Cardinality(blocks) \in Nat /\ Log \in {0, 1} /\ Aside \in Nat
        /\ verb = "apply" => Aside = 13 + 6 * Cardinality(blocks) + 5 * (Interruptions - interruptions)
    BY <2>0, FirstCounted
  <2>8. held \in Nat /\ MaxEntries \in Nat /\ interruptions \in Nat /\ Interruptions \in Nat
        /\ interruptions <= Interruptions /\ AttemptEntries = 6
    BY <2>0, AreaAssumption DEF Typed, AttemptEntries
  <2>9. kept \in Nat /\ kept <= Aside
    BY <2>7, <2>8 DEF AdmissionEntries, FirstPassEntries
  <2> HIDE DEF untried, kept
  <2>10. CASE untried = {}
    BY <2>5, <2>6, <2>7, <2>8, <2>9, <2>10
  <2>11. CASE untried # {}
    BY <2>5, <2>6, <2>7, <2>8, <2>9, <2>11
  <2> QED
    BY <2>10, <2>11
<1> QED
  BY <1>1, <1>2, <1>3, Invariance, PTL DEF Spec
=============================================================================
