-------------------------- MODULE SchedulerProofs --------------------------
(***************************************************************************)
(* The scheduler's properties for every frozen plan: any number of blocks, *)
(* any dependencies, keys, throttles and removal phases, any bound on what *)
(* is in flight, and any number of faults over any number of invocations.  *)
(*                                                                         *)
(* What the scheduler holds in memory is never more than the records say   *)
(* of a block that is not in flight: it is the record or unknown (Known).  *)
(* And the blocks whose effect may be under way, in flight or unproved     *)
(* since some earlier invocation, never share a key or exceed a throttle   *)
(* (Apart), which is why observations need not ask for either.             *)
(***************************************************************************)
EXTENDS Scheduler, FiniteSetTheorems, TLAPS

\* What is in flight has its goroutine, and was observed or attempted.
Flight ==
  /\ at = "down" => running = {} /\ observed = {} /\ worked = {}
  /\ at = "finish" => running = {}
  /\ \A b \in Block : b \in running <=> job[b] # "none"
  /\ running \subseteq observed \union worked

\* What the scheduler holds of a block, and what its record reads meanwhile.
KnownOf(b) ==
  /\ b \notin running => states[b] \in {record[b], "unknown"}
  /\ b \notin running \union observed \union worked => states[b] = record[b]
  /\ job[b] = "starting" => states[b] = record[b] /\ record[b] \in {"pending", "failed"}
  /\ job[b] = "effect" => states[b] \in {"pending", "failed"} /\ record[b] = "running"
  /\ job[b] = "observing" => states[b] = record[b] /\ Unproved(record[b])
  /\ job[b] \in {"returned", "unstarted"} => result[b] \in {record[b], "unknown"} /\ states[b] # "done"

Known == at # "down" => \A b \in Block : KnownOf(b)

\* The blocks whose effect may be under way.
Active == {b \in Block : b \in running \/ Unproved(record[b])}

Apart ==
  /\ \A b, c \in Active : b # c => Exclusive[b] \cap Exclusive[c] = {}
  /\ \A b \in Active : Group[b] # NoGroup => Cardinality({c \in Active : Group[c] = Group[b]}) <= Throttle

Holding == \A b \in running : \A k \in Exclusive[b] : held[k] = b

\* What has to be durably done before a block starts.
Due(b) ==
  /\ b \in PreStop \/ (AllDone(Deps[b], record) /\ AllDone(PreStop, record))
  /\ b \in Machines => AllDone(Online, record)

Order ==
  /\ \A b \in Block : record[b] # "pending" \/ job[b] = "starting" => Due(b)
  /\ onlineProved => AllDone(Online, record)

Operation ==
  /\ OperationSound
  /\ at # "down" => opState \notin {"done", "paused"}
  /\ at = "finish" /\ boundary => ~ AllDone(Block, states) /\ \A b \in Block : ~ Unproved(states[b])

IInv == TypeOK /\ Flight /\ Known /\ Apart /\ Holding /\ Order /\ Operation

-----------------------------------------------------------------------------
(* Facts about sets of blocks. *)

LEMMA BlockFact == IsFiniteSet(Block) /\ Block \subseteq Nat /\ Idle \notin Block
  BY SchedulerAssumption, FS_Interval DEF Block, Idle

\* Some block of a set is the first in plan order.
LEMMA FirstFact ==
  ASSUME NEW S \in SUBSET Block, S # {}
  PROVE Min(S) \in S /\ \A b \in S : Min(S) <= b
<1> DEFINE less == OpToRel(<, Nat)
<1>1. IsWellFoundedOn(less, Nat)
  BY NatLessThanWellFounded
<1>2. \A x, y \in Nat : x < y => <<x, y>> \in less
  BY DEF OpToRel
<1> HIDE DEF less
<1>3. PICK x \in S : \A y \in S : ~ (<<y, x>> \in less)
  BY <1>1, BlockFact, WFMin
<1>4. \A y \in S : x <= y
  <2> TAKE y \in S
  <2>1. x \in Nat /\ y \in Nat
    BY BlockFact
  <2>2. ~ (y < x)
    BY <2>1, <1>2, <1>3
  <2> QED
    BY <2>1, <2>2
<1> QED
  BY <1>4 DEF Min

LEMMA SmallerGroup ==
  ASSUME NEW S \in SUBSET Block, NEW T \in SUBSET S, NEW g
  PROVE /\ Cardinality({b \in T : Group[b] = g}) \in Nat /\ Cardinality({b \in S : Group[b] = g}) \in Nat
        /\ Cardinality({b \in T : Group[b] = g}) <= Cardinality({b \in S : Group[b] = g})
<1> DEFINE A == {b \in S : Group[b] = g}
           B == {b \in T : Group[b] = g}
<1>1. A \in SUBSET Block /\ B \in SUBSET A
  OBVIOUS
<1> HIDE DEF A, B
<1>2. IsFiniteSet(A) /\ IsFiniteSet(B)
  BY <1>1, BlockFact, FS_Subset
<1>3. Cardinality(B) <= Cardinality(A) /\ Cardinality(A) \in Nat /\ Cardinality(B) \in Nat
  BY <1>1, <1>2, FS_Subset, FS_CardinalityType
<1> QED
  BY <1>3 DEF A, B

\* As long as no effect comes under way, those that may be stay apart.
LEMMA ApartKept ==
  ASSUME Apart, Active' \subseteq Active
  PROVE Apart'
<1>1. \A b, c \in Active' : b # c => Exclusive[b] \cap Exclusive[c] = {}
  BY DEF Apart
<1>2. ASSUME NEW b \in Active', Group[b] # NoGroup
      PROVE Cardinality({c \in Active' : Group[c] = Group[b]}) <= Throttle
  <2>1. Cardinality({c \in Active : Group[c] = Group[b]}) <= Throttle
    BY <1>2 DEF Apart
  <2>2. Active \in SUBSET Block /\ Active' \in SUBSET Active
    BY DEF Active
  <2> HIDE DEF Active
  <2>3. PICK A, B : A = Active /\ B = Active'
    OBVIOUS
  <2>4. Cardinality({c \in B : Group[c] = Group[b]}) \in Nat
        /\ Cardinality({c \in A : Group[c] = Group[b]}) \in Nat
        /\ Cardinality({c \in B : Group[c] = Group[b]}) <= Cardinality({c \in A : Group[c] = Group[b]})
    BY <2>2, <2>3, SmallerGroup
  <2> QED
    BY <2>1, <2>3, <2>4, SchedulerAssumption
<1> QED
  BY <1>1, <1>2 DEF Apart

-----------------------------------------------------------------------------
(* The goroutine of one block. *)

Place == {"none", "starting", "effect", "observing", "returned", "unstarted"}

LEMMA FaultFact ==
  ASSUME TypeOK, Fault \/ UNCHANGED faults
  PROVE faults' \in 0..MaxFaults
  BY SchedulerAssumption DEF TypeOK, Fault

\* A goroutine changes its own block's record, job and result, and no record that reads done.
LEMMA GoroutineStep ==
  ASSUME IInv, NEW b \in Block, job[b] # "none",
         UNCHANGED <<opState, logFault, at, main, gates, boundary, signals>>,
         record' \in [Block -> BlockState], job' \in [Block -> Place], result' \in [Block -> BlockState],
         faults' \in 0..MaxFaults,
         \A c \in Block \ {b} : record'[c] = record[c] /\ job'[c] = job[c] /\ result'[c] = result[c],
         record[b] # "done", job'[b] \notin {"none", "starting"},
         record'[b] # "pending" => Due(b),
         KnownOf(b)'
  PROVE IInv'
<1> USE DEF main, gates, signals
<1>1. b \in running /\ at \notin {"down", "finish"}
  BY DEF IInv, Flight
<1>2. TypeOK'
  BY DEF IInv, TypeOK, Place
<1>3. Flight'
  BY <1>1 DEF IInv, Flight
<1>4. Known'
  BY <1>1 DEF IInv, Known, KnownOf
<1>5. Apart'
  <2>1. Active' \subseteq Active
    BY <1>1 DEF Active
  <2> QED
    BY <2>1, ApartKept DEF IInv
<1>6. Holding'
  BY DEF IInv, Holding
<1>7. Order'
  <2>1. ASSUME NEW S \in SUBSET Block, AllDone(S, record)
        PROVE AllDone(S, record)'
    BY <2>1 DEF AllDone
  <2>2. ASSUME NEW c \in Block, Due(c)
        PROVE Due(c)'
    <3>1. Deps[c] \in SUBSET Block /\ PreStop \in SUBSET Block /\ Online \in SUBSET Block
      BY SchedulerAssumption
    <3> QED
      BY <2>1, <2>2, <3>1 DEF Due
  <2>3. \A c \in Block : record'[c] # "pending" \/ job'[c] = "starting" => Due(c)
    BY DEF IInv, Order
  <2>4. (onlineProved => AllDone(Online, record))'
    BY <2>1, SchedulerAssumption DEF IInv, Order
  <2> QED
    BY <2>2, <2>3, <2>4 DEF Order
<1>8. Operation'
  BY <1>1 DEF IInv, Operation, OperationSound
<1> QED
  BY <1>2, <1>3, <1>4, <1>5, <1>6, <1>7, <1>8 DEF IInv

\* What is known of a block in flight.
LEMMA InFlight ==
  ASSUME IInv, NEW b \in Block, job[b] # "none"
  PROVE b \in running /\ at # "down" /\ KnownOf(b) /\ TypeOK
  BY DEF IInv, Flight, Known

LEMMA BeginKeeps ==
  ASSUME IInv, NEW b \in Block, Begin(b)
  PROVE IInv'
<1>1. b \in running /\ KnownOf(b) /\ TypeOK /\ Due(b) /\ faults' \in 0..MaxFaults
  BY InFlight, FaultFact DEF Begin, IInv, Order
<1>2. record[b] # "done" /\ KnownOf(b)'
  BY <1>1 DEF Begin, KnownOf, TypeOK, Unproved, main
<1> QED
  BY <1>1, <1>2, GoroutineStep DEF Begin, TypeOK, BlockState, Place

LEMMA NotStartedFact ==
  ASSUME TypeOK, record' \in [Block -> BlockState], NEW b \in Block, NEW where, NotStarted(b, where)
  PROVE \E s \in BlockState : s \in {record'[b], "unknown"} /\ Report(b, s, where)
  BY DEF NotStarted, BlockState

LEMMA RefuseKeeps ==
  ASSUME IInv, NEW b \in Block, Refuse(b)
  PROVE IInv'
<1>1. /\ b \in running /\ KnownOf(b) /\ TypeOK /\ Due(b) /\ faults' \in 0..MaxFaults
  BY InFlight, FaultFact DEF Refuse, Failing, IInv, Order
<1>2. record' \in [Block -> BlockState] /\ \A c \in Block \ {b} : record'[c] = record[c]
  BY <1>1 DEF Refuse, TypeOK, BlockState
<1>3. PICK s \in BlockState : s \in {record'[b], "unknown"} /\ Report(b, s, "unstarted")
  BY <1>1, <1>2, NotStartedFact DEF Refuse
<1>4. record[b] # "done" /\ KnownOf(b)'
  BY <1>1, <1>3 DEF Refuse, Report, KnownOf, TypeOK, Unproved, main
<1> QED
  BY <1>1, <1>2, <1>3, <1>4, GoroutineStep DEF Refuse, Report, TypeOK, Place

LEMMA ReturnKeeps ==
  ASSUME IInv, NEW b \in Block, Return(b)
  PROVE IInv'
<1>1. /\ b \in running /\ KnownOf(b) /\ TypeOK /\ faults' \in 0..MaxFaults
  BY InFlight, FaultFact DEF Return, Failing, Fault
<1>2. record[b] = "running" /\ Due(b)
  BY <1>1 DEF Return, KnownOf, IInv, Order
<1>3. PICK s \in BlockState :
        /\ record' \in [Block -> BlockState] /\ \A c \in Block \ {b} : record'[c] = record[c]
        /\ s \in {record'[b], "unknown"} /\ Report(b, s, "returned")
  BY <1>1 DEF Return, Recorded, Unrecorded, Report, TypeOK, BlockState
<1>4. KnownOf(b)'
  BY <1>1, <1>3 DEF Return, Report, KnownOf, TypeOK, Unproved, main
<1> QED
  BY <1>1, <1>2, <1>3, <1>4, GoroutineStep DEF Return, Report, TypeOK, Place

LEMMA ObserveKeeps ==
  ASSUME IInv, NEW b \in Block, Observe(b)
  PROVE IInv'
<1>1. /\ b \in running /\ KnownOf(b) /\ TypeOK /\ faults' \in 0..MaxFaults
  BY InFlight, FaultFact DEF Observe, Failing, Fault
<1>2. record[b] \notin {"done", "pending"} /\ Due(b)
  BY <1>1 DEF Observe, KnownOf, Unproved, IInv, Order
<1>3. PICK s \in BlockState :
        /\ record' \in [Block -> BlockState] /\ \A c \in Block \ {b} : record'[c] = record[c]
        /\ s \in {record'[b], "unknown"} /\ Report(b, s, "returned")
  BY <1>1, NotStartedFact DEF Observe, Recorded, Unrecorded, Report, TypeOK, BlockState
<1>4. KnownOf(b)'
  BY <1>1, <1>3 DEF Observe, Report, KnownOf, TypeOK, Unproved, main
<1> QED
  BY <1>1, <1>2, <1>3, <1>4, GoroutineStep DEF Observe, Report, TypeOK, Place

-----------------------------------------------------------------------------
(* Admission. *)

\* What the scheduler takes for done is durably done.
LEMMA DoneKnown ==
  ASSUME IInv, at # "down", NEW S \in SUBSET Block, AllDone(S, states)
  PROVE AllDone(S, record)
  BY DEF IInv, Flight, Known, KnownOf, AllDone, TypeOK, Unproved

\* What the scheduler knows of the block it admits.
LEMMA CandidateFact ==
  ASSUME IInv, at = "admit", Candidates # {}, NEW b, b = Min(Candidates)
  PROVE /\ b \in Block \ running /\ states[b] = record[b]
        /\ \/ Unproved(record[b]) /\ AnyUnproved(states)
           \/ /\ record[b] \in {"pending", "failed"} /\ Free(b) /\ ~ AnyUnproved(states)
              /\ b \in PreStop \/ (AllDone(Deps[b], record) /\ AllDone(PreStop, record))
              /\ b \in Machines => b \in PreStop \/ AllDone(Online, record)
<1>1. b \in Candidates /\ b \in Block
  <2>1. Candidates \subseteq Block
    BY SchedulerAssumption DEF Candidates, FirstAdmission, UnprovedLeft, Retried, Startable, Ready, Failed
  <2> QED
    BY <2>1, FirstFact
<1>2. KnownOf(b)
  BY <1>1 DEF IInv, Known
<1>3. CASE AnyUnproved(states)
  <2>1. Unproved(states[b]) /\ b \notin running \union observed \union worked
    BY <1>1, <1>3 DEF Candidates, FirstAdmission, UnprovedLeft
  <2> QED
    BY <2>1, <1>1, <1>2, <1>3 DEF KnownOf
<1>4. CASE ~ AnyUnproved(states)
  <2>1. b \notin running /\ Free(b) /\ states[b] \in {"pending", "failed"}
    BY <1>1, <1>4 DEF Candidates, FirstAdmission, Retried, Startable, Ready, Failed
  <2>2. states[b] = record[b]
    BY <2>1, <1>2 DEF KnownOf
  <2>3. ASSUME b \notin PreStop
        PROVE /\ AllDone(PreStop, record) /\ (b \in Machines => AllDone(Online, record))
              /\ AllDone(Deps[b], record)
    <3>1. AllDone(PreStop, states) /\ (b \in Machines => AllDone(Online, states))
      BY <2>3, <1>1, <1>4 DEF Candidates, PreStopDone, OnlineDone
    <3>2. states[b] = "failed" \/ AllDone(Deps[b], states)
      BY <2>3, <1>1, <1>4 DEF Candidates, FirstAdmission, Retried, Startable, Ready, Failed, AllDone
    <3>3. AllDone(Deps[b], record)
      <4>1. CASE states[b] = "failed"
        BY <4>1, <2>2, <2>3, <1>1 DEF IInv, Order, Due
      <4>2. CASE AllDone(Deps[b], states)
        BY <4>2, <1>1, DoneKnown, SchedulerAssumption
      <4> QED
        BY <3>2, <4>1, <4>2
    <3> QED
      BY <3>1, <3>3, DoneKnown, SchedulerAssumption
  <2> QED
    BY <2>1, <2>2, <2>3, <1>1, <1>4
<1> QED
  BY <1>3, <1>4

\* While no state is unproved, every effect under way is in flight.
LEMMA UnderWayInFlight ==
  ASSUME IInv, at # "down", ~ AnyUnproved(states)
  PROVE Active \subseteq running
  BY DEF IInv, Known, KnownOf, Active, AnyUnproved, Unproved

LEMMA AdmitKeeps ==
  ASSUME IInv, Admit
  PROVE IInv'
<1> DEFINE b == Min(Candidates)
<1>1. /\ b \in Block \ running /\ states[b] = record[b]
      /\ \/ Unproved(record[b]) /\ AnyUnproved(states)
         \/ /\ record[b] \in {"pending", "failed"} /\ Free(b) /\ ~ AnyUnproved(states)
            /\ b \in PreStop \/ (AllDone(Deps[b], record) /\ AllDone(PreStop, record))
            /\ b \in Machines => b \in PreStop \/ AllDone(Online, record)
  BY CandidateFact DEF Admit
<1>2. /\ at = "admit" /\ (Probes(b) => Provable(b)) /\ Start(b)
      /\ preStopProved' = (preStopProved \/ PreStopDue(b))
      /\ onlineProved' = (onlineProved \/ OnlineProbe(b))
      /\ UNCHANGED <<durable, at, observeOnly, selection, states, unstarted, onlineBlocked,
                     boundary, signals, result, faults>>
  BY DEF Admit
<1> HIDE DEF b
<1> USE DEF durable, signals
<1>3. TypeOK'
  <2>1. held' \in [Key -> Block \cup {Idle}]
    BY <1>1, <1>2 DEF Start, IInv, TypeOK
  <2>2. preStopProved' \in BOOLEAN /\ onlineProved' \in BOOLEAN
    BY <1>2
  <2> QED
    BY <2>1, <2>2, <1>1, <1>2 DEF Start, IInv, TypeOK
<1>4. Flight'
  BY <1>1, <1>2 DEF Start, IInv, Flight, TypeOK
<1>5. Known'
  <2> SUFFICES ASSUME NEW c \in Block PROVE KnownOf(c)'
    BY DEF Known
  <2>1. KnownOf(c)
    BY <1>2 DEF IInv, Known
  <2>2. CASE c = b
    BY <2>2, <1>1, <1>2 DEF Start, KnownOf, IInv, TypeOK, Unproved
  <2>3. CASE c # b
    BY <2>1, <2>3, <1>2 DEF Start, KnownOf, IInv, TypeOK
  <2> QED
    BY <2>2, <2>3
<1>6. CASE Unproved(record[b])
  <2>1. Active' \subseteq Active /\ b \in Active
    BY <1>1, <1>2, <1>6 DEF Active, Start
  <2>2. Apart'
    BY <2>1, ApartKept DEF IInv
  <2>3. Holding'
    <3> SUFFICES ASSUME NEW c \in running', NEW k \in Exclusive[c] PROVE held'[k] = c
      BY DEF Holding
    <3>1. c \in Active /\ c \in Block /\ (c = b \/ c \in running)
      BY <2>1, <1>2 DEF Start, IInv, TypeOK, Active
    <3>2. k \in Key
      BY <3>1 DEF Key
    <3>3. c # b => k \notin Exclusive[b]
      BY <2>1, <3>1 DEF IInv, Apart
    <3> QED
      BY <3>1, <3>2, <3>3, <1>2 DEF Start, IInv, Holding
  <2>4. Order'
    BY <1>1, <1>2, <1>6 DEF Start, Due, IInv, Order, OnlineProbe, TypeOK
  <2>5. Operation'
    BY <1>2 DEF IInv, Operation, OperationSound
  <2> QED
    BY <2>2, <2>3, <2>4, <2>5, <1>3, <1>4, <1>5 DEF IInv
<1>7. CASE ~ Unproved(record[b])
  <2>1. /\ record[b] \in {"pending", "failed"} /\ Free(b) /\ Active \subseteq running
        /\ b \in PreStop \/ (AllDone(Deps[b], record) /\ AllDone(PreStop, record))
        /\ b \in Machines => b \in PreStop \/ AllDone(Online, record)
    BY <1>1, <1>2, <1>7, UnderWayInFlight
  <2>2. Active' = running \union {b} /\ running \in SUBSET Block /\ Active = running
    BY <2>1, <1>1, <1>2 DEF Active, Start, IInv, TypeOK
  <2>3. ASSUME NEW c \in running, NEW k \in Exclusive[c]
        PROVE k \notin Exclusive[b]
    BY <2>1, <2>2, <2>3, BlockFact DEF Free, IInv, Holding
  <2>4. Apart'
    <3>1. ASSUME NEW c \in Active', NEW d \in Active', c # d
          PROVE Exclusive[c] \cap Exclusive[d] = {}
      BY <2>2, <2>3, <3>1 DEF IInv, Apart
    <3>2. ASSUME NEW c \in Active', Group[c] # NoGroup
          PROVE Cardinality({d \in Active' : Group[d] = Group[c]}) <= Throttle
      <4> DEFINE G == {d \in running : Group[d] = Group[c]}
      <4>1. IsFiniteSet(G) /\ Cardinality(G) \in Nat
        <5>1. G \in SUBSET Block
          BY <2>2
        <5> HIDE DEF G
        <5> QED
          BY <5>1, BlockFact, FS_Subset, FS_CardinalityType
      <4>2. CASE Group[b] = Group[c]
        <5>1. Cardinality(G) < Throttle
          BY <4>2, <3>2, <2>1 DEF Free
        <5>2. {d \in Active' : Group[d] = Group[c]} = G \union {b}
          BY <4>2, <2>2
        <5> HIDE DEF G
        <5>3. Cardinality(G \union {b}) <= Cardinality(G) + 1
          BY <4>1, FS_AddElement
        <5>4. Cardinality(G \union {b}) \in Nat
          BY <4>1, FS_AddElement, FS_CardinalityType
        <5>5. Cardinality(G \union {b}) <= Throttle
          BY <5>1, <5>3, <5>4, <4>1, SchedulerAssumption
        <5> QED
          BY <5>2, <5>5
      <4>3. CASE Group[b] # Group[c]
        <5>1. {d \in Active' : Group[d] = Group[c]} = G /\ c \in running
          BY <4>3, <2>2
        <5> QED
          BY <5>1, <3>2, <2>2 DEF IInv, Apart
      <4> QED
        BY <4>2, <4>3
    <3> QED
      BY <3>1, <3>2 DEF Apart
  <2>5. Holding'
    <3> SUFFICES ASSUME NEW c \in running', NEW k \in Exclusive[c] PROVE held'[k] = c
      BY DEF Holding
    <3>1. c = b \/ c \in running
      BY <1>2 DEF Start
    <3>2. k \in Key
      BY <3>1, <2>2, <1>1 DEF Key
    <3> QED
      BY <3>1, <3>2, <2>3, <1>2 DEF Start, IInv, Holding
  <2>6. Order'
    <3>1. OnlineProbe(b) => AllDone(Online, record)
      BY <1>2, DoneKnown, SchedulerAssumption DEF Probes, Provable, OnlineDone
    <3>2. b \in Machines => AllDone(Online, record)
      <4>1. CASE OpVerb = "destroy"
        BY <4>1, <3>1, <1>1, <1>7 DEF OnlineProbe, IInv, Order
      <4>2. CASE OpVerb = "apply"
        BY <4>2, SchedulerAssumption DEF AllDone
      <4> QED
        BY <4>1, <4>2, SchedulerAssumption DEF Verb
    <3>3. Due(b)
      BY <3>2, <2>1 DEF Due
    <3> QED
      BY <3>1, <3>3, <1>1, <1>2 DEF Start, Due, IInv, Order, TypeOK
  <2>7. Operation'
    BY <1>2 DEF IInv, Operation, OperationSound
  <2> QED
    BY <2>4, <2>5, <2>6, <2>7, <1>3, <1>4, <1>5 DEF IInv
<1> QED
  BY <1>6, <1>7

LEMMA CheckKeeps ==
  ASSUME IInv, Check
  PROVE IInv'
<1> USE DEF Check, durable, main, gates, signals
<1>1. TypeOK' /\ Flight' /\ Known' /\ Holding' /\ Order' /\ Operation'
  BY DEF IInv, TypeOK, Flight, Known, KnownOf, Holding, Order, Due, Operation, OperationSound
<1>2. Apart'
  BY ApartKept DEF IInv, Active
<1> QED
  BY <1>1, <1>2 DEF IInv

LEMMA ProbeRefusesKeeps ==
  ASSUME IInv, ProbeRefuses
  PROVE IInv'
<1> USE DEF durable, main, signals
<1>1. /\ UNCHANGED <<durable, main, onlineProved, boundary, signals, job, result>>
      /\ at = "admit" /\ at' = "wait" /\ onlineBlocked' = TRUE
      /\ \E p \in BOOLEAN : preStopProved' = (preStopProved \/ p)
  BY DEF ProbeRefuses, IInv, TypeOK
<1>2. faults' \in 0..MaxFaults
  BY FaultFact DEF ProbeRefuses, IInv
<1>3. TypeOK' /\ Flight' /\ Known' /\ Holding' /\ Order' /\ Operation'
  BY <1>1, <1>2 DEF IInv, TypeOK, Flight, Known, KnownOf, Holding, Order, Due, Operation, OperationSound
<1>4. Apart'
  BY <1>1, ApartKept DEF IInv, Active
<1> QED
  BY <1>3, <1>4 DEF IInv

LEMMA AdmittedKeeps ==
  ASSUME IInv, Admitted
  PROVE IInv'
<1> USE DEF durable, main, signals
<1>1. /\ UNCHANGED <<durable, main, onlineProved, onlineBlocked, boundary, signals, job, result, faults>>
      /\ at = "admit" /\ at' = "wait" /\ preStopProved' \in BOOLEAN
  BY DEF Admitted, IInv, TypeOK
<1>3. TypeOK' /\ Flight' /\ Known' /\ Holding' /\ Order' /\ Operation'
  BY <1>1 DEF IInv, TypeOK, Flight, Known, KnownOf, Holding, Order, Due, Operation, OperationSound
<1>4. Apart'
  BY <1>1, ApartKept DEF IInv, Active
<1> QED
  BY <1>3, <1>4 DEF IInv

LEMMA SettleKeeps ==
  ASSUME IInv, NEW b \in Block, Settle(b)
  PROVE IInv'
<1> USE DEF Settle, durable, gates, signals
<1>1. b \in running /\ KnownOf(b) /\ TypeOK
  BY InFlight
<1>2. TypeOK'
  <2>1. held' \in [Key -> Block \cup {Idle}]
    BY <1>1 DEF TypeOK
  <2> QED
    BY <2>1, <1>1 DEF TypeOK
<1>3. Flight'
  BY <1>1 DEF IInv, Flight, TypeOK
<1>4. Known'
  <2> SUFFICES ASSUME NEW c \in Block PROVE KnownOf(c)'
    BY DEF Known
  <2>1. KnownOf(c)
    BY DEF IInv, Known
  <2>2. CASE c = b
    BY <2>2, <1>1, <1>2 DEF KnownOf, TypeOK, IInv, Flight
  <2>3. CASE c # b
    BY <2>1, <2>3, <1>1 DEF KnownOf, TypeOK
  <2> QED
    BY <2>2, <2>3
<1>5. Apart'
  <2>1. Active' \subseteq Active
    BY DEF Active
  <2> QED
    BY <2>1, ApartKept DEF IInv
<1>6. Holding'
  BY <1>1 DEF IInv, Holding, TypeOK, Key
<1>7. Order'
  BY <1>1 DEF IInv, Order, Due, TypeOK
<1>8. Operation'
  BY DEF IInv, Operation, OperationSound
<1> QED
  BY <1>2, <1>3, <1>4, <1>5, <1>6, <1>7, <1>8 DEF IInv

LEMMA StopKeeps ==
  ASSUME IInv, Stop
  PROVE IInv'
<1> USE DEF Stop, durable, main, gates, signals
<1>1. TypeOK' /\ Flight' /\ Known' /\ Holding' /\ Order'
  BY DEF IInv, TypeOK, Flight, Known, KnownOf, Holding, Order, Due
<1>2. Apart'
  BY ApartKept DEF IInv, Active
<1>3. Operation'
  BY DEF IInv, Operation, OperationSound, AllDone
<1> QED
  BY <1>1, <1>2, <1>3 DEF IInv

-----------------------------------------------------------------------------
(* Signals, and the invocations. *)

LEMMA CancelKeeps ==
  ASSUME IInv, Cancel
  PROVE IInv'
<1> USE DEF Cancel, durable, main, gates
<1>1. faults' \in 0..MaxFaults
  BY FaultFact DEF IInv
<1>2. TypeOK' /\ Flight' /\ Known' /\ Holding' /\ Order' /\ Operation'
  BY <1>1 DEF IInv, TypeOK, Flight, Known, KnownOf, Holding, Order, Due, Operation, OperationSound
<1>3. Apart'
  BY ApartKept DEF IInv, Active
<1> QED
  BY <1>2, <1>3 DEF IInv

LEMMA LatchFaultKeeps ==
  ASSUME IInv, LatchFault
  PROVE IInv'
<1> USE DEF LatchFault, main, gates
<1>1. faults' \in 0..MaxFaults
  BY FaultFact DEF IInv
<1>2. TypeOK'
  BY <1>1 DEF IInv, TypeOK
<1>3. Flight' /\ Known' /\ Holding' /\ Order' /\ Operation'
  BY <1>1 DEF IInv, TypeOK, Flight, Known, KnownOf, Holding, Order, Due, Operation, OperationSound
<1>4. Apart'
  BY ApartKept DEF IInv, Active
<1> QED
  BY <1>2, <1>3, <1>4 DEF IInv

\* An invocation that is over leaves the records it found.
LEMMA DownKeeps ==
  ASSUME IInv, Down, UNCHANGED record, faults' \in 0..MaxFaults,
         opState' \in OperationState, logFault' \in BOOLEAN, OperationSound'
  PROVE IInv'
<1> USE DEF Down
<1>1. TypeOK'
  BY DEF IInv, TypeOK, BlockState
<1>2. Flight' /\ Known' /\ Holding' /\ Operation'
  BY DEF Flight, Known, Holding, Operation
<1>3. Order'
  BY DEF IInv, Order, Due
<1>4. Apart'
  <2>1. Active' \subseteq Active
    BY DEF Active
  <2> QED
    BY <2>1, ApartKept DEF IInv
<1> QED
  BY <1>1, <1>2, <1>3, <1>4 DEF IInv

LEMMA CrashKeeps ==
  ASSUME IInv, Crash
  PROVE IInv'
<1>1. UNCHANGED record /\ faults' \in 0..MaxFaults /\ opState' \in OperationState /\ logFault' \in BOOLEAN
  BY FaultFact DEF Crash, durable, IInv, TypeOK
<1>2. OperationSound'
  BY DEF Crash, durable, IInv, Operation, OperationSound
<1> QED
  BY <1>1, <1>2, DownKeeps DEF Crash

LEMMA NextOperationStateFact ==
  ASSUME NEW s, NEW boundaryReached
  PROVE /\ NextOperationState(s, boundaryReached) \in OperationState
        /\ NextOperationState(s, boundaryReached) = "done" => s \subseteq {"done"}
        /\ NextOperationState(s, boundaryReached) = "paused" =>
             /\ boundaryReached /\ "unknown" \notin s /\ "failed" \notin s /\ ~ (s \subseteq {"done"})
        /\ s \subseteq {"done"} => NextOperationState(s, boundaryReached) = "done"
  BY DEF NextOperationState, OperationState

LEMMA FinishKeeps ==
  ASSUME IInv, Finish
  PROVE IInv'
<1>1. UNCHANGED record /\ faults' \in 0..MaxFaults /\ Down /\ at = "finish"
  BY FaultFact DEF Finish, IInv
<1>2. CASE UNCHANGED <<opState, logFault>>
  <2>1. OperationSound'
    BY <1>1, <1>2 DEF IInv, Operation, OperationSound
  <2> QED
    BY <2>1, <1>1, <1>2, DownKeeps DEF IInv, TypeOK
<1>3. CASE /\ opState' = NextOperationState(StatesOf(states), boundary /\ ~observeOnly)
           /\ logFault' = (logFault \/ (faulted /\ ~observeOnly))
  <2>1. opState' \in OperationState /\ logFault' \in BOOLEAN
    BY <1>3, NextOperationStateFact
  <2>2. \A b \in Block : states[b] \in {record[b], "unknown"} /\ states[b] \in StatesOf(states)
    BY <1>1 DEF IInv, Flight, Known, KnownOf, StatesOf
  <2>3. opState' = "done" => AllDone(Block, record)
    BY <2>2, <1>3, NextOperationStateFact DEF AllDone
  <2>4. ASSUME opState' = "paused"
        PROVE StatesOf(record) \subseteq {"pending", "done"} /\ Pending
    <3>1. /\ boundary /\ "unknown" \notin StatesOf(states) /\ "failed" \notin StatesOf(states)
      BY <2>4, <1>3, NextOperationStateFact
    <3>2. \A b \in Block : record[b] = states[b] /\ states[b] \in {"pending", "done"}
      BY <3>1, <2>2, <1>1 DEF IInv, Operation, TypeOK, BlockState, Unproved
    <3> QED
      BY <3>1, <3>2, <1>1 DEF StatesOf, Pending, AllDone, IInv, Operation
  <2>5. OperationSound'
    BY <2>3, <2>4, <1>1 DEF OperationSound, AllDone, StatesOf, Pending
  <2> QED
    BY <2>1, <2>5, <1>1, DownKeeps
<1> QED
  BY <1>2, <1>3 DEF Finish

\* An invocation that comes up reads every record.
LEMMA UpKeeps ==
  ASSUME IInv, at = "down", NEW observing \in BOOLEAN, NEW sel \in SUBSET Block, Up(observing, sel),
         UNCHANGED <<record, faults>>, logFault' = FALSE,
         opState' \in OperationState \ {"done", "paused"}
  PROVE IInv'
<1> USE DEF Up, gates, signals
<1>1. TypeOK'
  BY DEF IInv, TypeOK
<1>2. Flight' /\ Known'
  BY DEF IInv, Flight, Known, KnownOf
<1>3. Holding' /\ Order'
  BY DEF IInv, Holding, Order, Due
<1>4. Operation'
  BY DEF Operation, OperationSound
<1>5. Apart'
  BY ApartKept DEF IInv, Active
<1> QED
  BY <1>1, <1>2, <1>3, <1>4, <1>5 DEF IInv

\* A step between invocations that leaves the block records as they are.
LEMMA BetweenKeeps ==
  ASSUME IInv, at = "down",
         UNCHANGED <<record, at, main, gates, boundary, signals, job, result>>, faults' \in 0..MaxFaults,
         opState' \in OperationState, logFault' \in BOOLEAN, OperationSound'
  PROVE IInv'
<1> USE DEF main, gates, signals
<1>1. TypeOK'
  BY DEF IInv, TypeOK
<1>2. Flight' /\ Known' /\ Holding' /\ Order' /\ Operation'
  BY DEF IInv, Flight, Known, Holding, Order, Due, Operation
<1>3. Apart'
  BY ApartKept DEF IInv, Active
<1> QED
  BY <1>1, <1>2, <1>3 DEF IInv

LEMMA ResumeKeeps ==
  ASSUME IInv, NEW sel \in Selections, Resume(sel)
  PROVE IInv'
<1>1. at = "down" /\ UNCHANGED record /\ sel \in SUBSET Block
  BY SchedulerAssumption DEF Resume
<1>2. CASE logFault' = FALSE /\ opState' = "running" /\ Up(FALSE, sel) /\ UNCHANGED faults
  BY <1>1, <1>2, UpKeeps DEF OperationState
<1>3. CASE /\ Fault /\ logFault' = FALSE /\ opState' \in {opState, "running"}
           /\ UNCHANGED <<at, main, gates, boundary, signals, job, result>>
  <2>1. faults' \in 0..MaxFaults
    BY <1>3, FaultFact DEF IInv
  <2>2. OperationSound'
    BY <1>1, <1>3 DEF IInv, Operation, OperationSound, AllDone, StatesOf, Pending
  <2>3. opState' \in OperationState
    BY <1>3 DEF IInv, TypeOK, OperationState
  <2> QED
    BY <2>1, <2>2, <2>3, <1>1, <1>3, BetweenKeeps
<1> QED
  BY <1>2, <1>3 DEF Resume

LEMMA ResolveMemberKeeps ==
  ASSUME IInv, ResolveMember
  PROVE IInv'
<1>1. PICK b \in Block : Unproved(record[b])
  BY DEF ResolveMember
<1>2. record[b] \in StatesOf(record) /\ record[b] \notin {"pending", "done"}
  BY <1>1 DEF StatesOf, Unproved
<1>3. opState \notin {"done", "paused"}
  BY <1>2 DEF ResolveMember, Replaceable, IInv, Operation, OperationSound
<1>4. opState' \in OperationState \ {"done", "paused"}
  <2>1. \/ opState' = opState
        \/ opState' = NextOperationState(StatesOf(record), FALSE)
    BY DEF ResolveMember
  <2>2. ~ (StatesOf(record) \subseteq {"done"})
    BY <1>2
  <2>3. NextOperationState(StatesOf(record), FALSE) \in OperationState \ {"done", "paused"}
    BY <2>2, NextOperationStateFact
  <2> QED
    BY <2>1, <2>3, <1>3 DEF IInv, TypeOK
<1> QED
  BY <1>4, UpKeeps DEF ResolveMember

LEMMA FinalizeKeeps ==
  ASSUME IInv, Finalize
  PROVE IInv'
<1>1. StatesOf(record) \subseteq {"done"} /\ AllDone(Block, record)
  BY DEF Finalize, Finalizable, Pending, AllDone, StatesOf
<1>2. opState' = "done"
  BY <1>1, NextOperationStateFact DEF Finalize
<1>3. OperationSound'
  BY <1>1, <1>2 DEF Finalize, OperationSound, AllDone
<1>4. faults' \in 0..MaxFaults
  BY FaultFact DEF Finalize, IInv
<1> QED
  BY <1>2, <1>3, <1>4, BetweenKeeps DEF Finalize, OperationState, IInv, TypeOK

-----------------------------------------------------------------------------
(* The theorems. *)

LEMMA InitHolds == Init => IInv
<1> SUFFICES ASSUME Init PROVE IInv
  OBVIOUS
<1> USE DEF Init
<1>1. TypeOK
  <2>1. faults \in 0..MaxFaults
    BY SchedulerAssumption
  <2> QED
    BY <2>1 DEF TypeOK, BlockState, OperationState
<1>2. Flight /\ Known /\ Holding /\ Order /\ Operation
  BY DEF Flight, Known, Holding, Order, Operation, OperationSound
<1>3. Active = {}
  BY DEF Active, Unproved
<1> QED
  BY <1>1, <1>2, <1>3 DEF IInv, Apart

LEMMA StutterKeeps ==
  ASSUME IInv, UNCHANGED vars
  PROVE IInv'
<1> USE DEF vars, durable, main, gates, signals
<1>1. TypeOK' /\ Flight' /\ Known' /\ Holding' /\ Order'
  BY DEF IInv, TypeOK, Flight, Known, KnownOf, Holding, Order, Due
<1>2. Operation'
  BY DEF IInv, Operation, OperationSound, AllDone, StatesOf, Pending
<1>3. Apart'
  BY ApartKept DEF IInv, Active
<1> QED
  BY <1>1, <1>2, <1>3 DEF IInv

LEMMA NextKeeps == IInv /\ [Next]_vars => IInv'
<1> SUFFICES ASSUME IInv, [Next]_vars PROVE IInv'
  OBVIOUS
<1>1. CASE UNCHANGED vars
  BY <1>1, StutterKeeps
<1>2. CASE Main
  BY <1>2, CheckKeeps, AdmitKeeps, ProbeRefusesKeeps, AdmittedKeeps, SettleKeeps, StopKeeps, FinishKeeps
     DEF Main
<1>3. ASSUME NEW b \in Block, Goroutine(b)
      PROVE IInv'
  BY <1>3, BeginKeeps, RefuseKeeps, ReturnKeeps, ObserveKeeps DEF Goroutine
<1>4. CASE Cancel \/ LatchFault \/ Crash
  BY <1>4, CancelKeeps, LatchFaultKeeps, CrashKeeps
<1>5. CASE (\E sel \in Selections : Resume(sel)) \/ ResolveMember \/ Finalize
  BY <1>5, ResumeKeeps, ResolveMemberKeeps, FinalizeKeeps
<1> QED
  BY <1>1, <1>2, <1>3, <1>4, <1>5 DEF Next

(* The invariant holds of every state of every sequence of invocations. *)
THEOREM Invariance == Spec => []IInv
  BY InitHolds, NextKeeps, PTL DEF Spec

(* Every variable has its type. *)
THEOREM TypeCorrect == Spec => []TypeOK
<1>1. IInv => TypeOK
  BY DEF IInv
<1> QED
  BY <1>1, Invariance, PTL

(* Two blocks that name one key never run at the same time and a throttle  *)
(* is never exceeded, also by the observations next() admits without       *)
(* asking for either, after any sequence of interrupted invocations.       *)
THEOREM HeldApart == Spec => []ResourcesHeldApart
<1>1. IInv => ResourcesHeldApart
  <2> SUFFICES ASSUME IInv PROVE ResourcesHeldApart
    OBVIOUS
  <2>1. running \in SUBSET Active /\ Active \in SUBSET Block
    BY DEF IInv, TypeOK, Active
  <2>2. \A b, c \in running : b # c => Exclusive[b] \cap Exclusive[c] = {}
    BY <2>1 DEF IInv, Apart
  <2>3. ASSUME NEW b \in running, Group[b] # NoGroup
        PROVE Cardinality({c \in running : Group[c] = Group[b]}) <= Throttle
    <3>1. Cardinality({c \in Active : Group[c] = Group[b]}) <= Throttle
      BY <2>1, <2>3 DEF IInv, Apart
    <3>2. /\ Cardinality({c \in running : Group[c] = Group[b]}) \in Nat
          /\ Cardinality({c \in Active : Group[c] = Group[b]}) \in Nat
          /\ Cardinality({c \in running : Group[c] = Group[b]}) <= Cardinality({c \in Active : Group[c] = Group[b]})
      BY <2>1, SmallerGroup
    <3> QED
      BY <3>1, <3>2, SchedulerAssumption
  <2> QED
    BY <2>2, <2>3 DEF ResourcesHeldApart
<1> QED
  BY <1>1, Invariance, PTL

(* No effect precedes what it depends on, whatever was retried, observed   *)
(* or interrupted since.                                                   *)
THEOREM DependenciesFirst == Spec => []DependenciesDone
<1>1. IInv => DependenciesDone
  BY DEF IInv, Order, Due, DependenciesDone
<1> QED
  BY <1>1, Invariance, PTL

(* No other inverse starts before every pre-stop inverse is durably done,  *)
(* and no Machine an online effect defers before every online effect is.   *)
THEOREM PhasesKept == Spec => []PhasesInOrder
<1>1. IInv => PhasesInOrder
  BY DEF IInv, Order, Due, PhasesInOrder
<1> QED
  BY <1>1, Invariance, PTL

(* The operation record finish derives from memory never claims more than  *)
(* the block records.                                                      *)
THEOREM OperationsSound == Spec => []OperationSound
<1>1. IInv => OperationSound
  BY DEF IInv, Operation
<1> QED
  BY <1>1, Invariance, PTL

(* No interruption strands an operation: between invocations one that is   *)
(* not done can be continued over the whole plan, finalized or replaced.   *)
(* An apply that neither failed nor is unproved has a first pending block, *)
(* whose dependencies are done.                                            *)
THEOREM NeverStranded == Spec => []WayOn
<1>1. IInv => WayOn
  <2> SUFFICES ASSUME IInv, at = "down", opState # "done", ~ Finalizable,
                      ~ (OpVerb = "destroy" /\ Replaceable)
               PROVE Continuable /\ Admissible(Block)
    BY DEF WayOn
  <2>1. Continuable
    BY DEF Continuable
  <2>2. Pending
    BY DEF IInv, TypeOK, OperationState, Operation, OperationSound, Finalizable
  <2>3. FirstAdmission(record, Block, {}, {}, {}) # {}
    <3>1. CASE AnyUnproved(record)
      BY <3>1 DEF FirstAdmission, AnyUnproved, UnprovedLeft
    <3>2. CASE ~ AnyUnproved(record) /\ Failed(record) # {}
      <4>1. Retried(record, Block, {}, {}) = Failed(record)
        BY DEF Retried, Failed
      <4> QED
        BY <3>2, <4>1 DEF FirstAdmission
    <3>3. CASE ~ AnyUnproved(record) /\ Failed(record) = {}
      <4> DEFINE P == {b \in Block : record[b] # "done"}
                 b == Min(P)
      <4>1. P \in SUBSET Block /\ P # {}
        BY <2>2 DEF Pending, AllDone
      <4> HIDE DEF P
      <4>2. b \in P /\ \A c \in P : b <= c
        BY <4>1, FirstFact
      <4> HIDE DEF b
      <4>3. b \in Block /\ record[b] = "pending"
        BY <4>1, <4>2, <3>3 DEF P, AnyUnproved, Unproved, Failed, IInv, TypeOK, BlockState
      <4>4. ASSUME NEW d \in Deps[b] PROVE record[d] = "done"
        <5>1. d \in Block /\ d < b /\ d \in Nat /\ b \in Nat
          BY <4>3, SchedulerAssumption, BlockFact
        <5>2. d \notin P
          BY <5>1, <4>2
        <5> QED
          BY <5>1, <5>2 DEF P
      <4>5. b \in Startable(record, Block)
        BY <4>3, <4>4 DEF Startable, Ready
      <4> QED
        BY <4>5, <3>3 DEF FirstAdmission
    <3> QED
      BY <3>1, <3>2, <3>3
  <2> QED
    BY <2>1, <2>3 DEF Admissible
<1> QED
  BY <1>1, Invariance, PTL

(* No attempt goes in flight beside an effect whose outcome is unproved,   *)
(* be it unproved in memory or only in its record.                         *)
THEOREM NoneBesideUnproved == Spec => NothingBesideUnproved
<1> DEFINE Proved == worked' # worked /\ worked' # {} =>
                       /\ \A b \in Block \ running : ~Unproved(record[b])
                       /\ \A b \in running : job[b] # "observing"
<1>1. IInv /\ [Next]_vars => [Proved]_vars
  <2> SUFFICES ASSUME IInv, Next, worked' # worked, worked' # {}
               PROVE /\ \A b \in Block \ running : ~Unproved(record[b])
                     /\ \A b \in running : job[b] # "observing"
    OBVIOUS
  <2>1. Admit
    BY DEF Next, Main, Goroutine, Check, ProbeRefuses, Admitted, Settle, Stop, Finish, Begin, Refuse, Return,
           Observe, Cancel, LatchFault, Crash, Resume, ResolveMember, Finalize, Down, Up, main
  <2>2. at = "admit" /\ ~ AnyUnproved(states)
    <3> DEFINE b == Min(Candidates)
    <3>1. Unproved(record[b]) /\ AnyUnproved(states) /\ states[b] = record[b] => UNCHANGED worked
      BY <2>1 DEF Admit, Start
    <3> QED
      BY <3>1, <2>1, CandidateFact DEF Admit
  <2>3. Active \subseteq running
    BY <2>2, UnderWayInFlight
  <2> QED
    BY <2>2, <2>3 DEF Active, AnyUnproved, IInv, Known, KnownOf, TypeOK
<1> HIDE DEF Proved
<1>2. Spec => [][Proved]_vars
  BY <1>1, Invariance, PTL DEF Spec
<1> QED
  BY <1>2 DEF NothingBesideUnproved, Proved

-----------------------------------------------------------------------------
(* An invocation ends: it is never stuck, and each of its steps counts down. *)

\* The guard of a step of the invocation's own holds, none of which needs a
\* fault or a signal.
InvocationReady ==
  \/ at \in {"check", "admit", "finish"}                                        \* Check, Admit or Admitted, Finish
  \/ at = "wait" /\ running = {}                                                \* Stop
  \/ at = "wait" /\ \E b \in running : job[b] \in {"returned", "unstarted"}     \* Settle
  \/ \E b \in running : job[b] \in {"effect", "observing"}                      \* Return, Observe
  \/ \E b \in running : job[b] = "starting"                                     \* Begin, or Refuse once cancelled

\* An invocation never waits for what does not come: while anything is in
\* flight its goroutine has a step to take or a result to hand over, and once
\* nothing is converge stops (running, settle).
THEOREM NeverWaitsInVain == Spec => [](at # "down" => InvocationReady)
<1>1. IInv => (at # "down" => InvocationReady)
  <2> SUFFICES ASSUME IInv, at # "down" PROVE InvocationReady
    OBVIOUS
  <2>1. at \in {"check", "admit", "wait", "finish"}
    BY DEF IInv, TypeOK
  <2>2. \A b \in running : job[b] \in {"starting", "effect", "observing", "returned", "unstarted"}
    BY DEF IInv, TypeOK, Flight
  <2> QED
    BY <2>1, <2>2 DEF InvocationReady
<1> QED
  BY <1>1, Invariance, PTL

\* The blocks in flight, those whose goroutine has not reported, and those
\* whose goroutine has not begun.
Unsettled == {b \in Block : job[b] # "none"}
Unreported == {b \in Block : job[b] \in {"starting", "effect", "observing"}}
Unbegun == {b \in Block : job[b] = "starting"}

Jobs == Cardinality(Unsettled) + Cardinality(Unreported) + Cardinality(Unbegun)

\* Every block is observed once and attempted once in an invocation.
Admissions == 2 * N - Cardinality(observed) - Cardinality(worked)

Count(b) == IF b THEN 1 ELSE 0

RoundLeft == IF at = "check" THEN 3 ELSE IF at = "admit" THEN 2 ELSE IF at = "wait" THEN 1 ELSE 0

\* What an invocation has left to do.  A result settled is worth a further
\* round of admission, and an admission the three steps of its goroutine.
Rank == 13 * Admissions + 4 * Jobs + RoundLeft + Count(~ cancelled) + Count(~ faulted)

RankBounded == Rank \in 0..(38 * N + 5)

LEMMA SetFact ==
  ASSUME NEW S \in SUBSET Block, NEW T \in SUBSET S
  PROVE /\ IsFiniteSet(S) /\ Cardinality(S) \in 0..N /\ Cardinality(T) \in 0..N
        /\ Cardinality(T) <= Cardinality(S)
        /\ S # T => Cardinality(T) < Cardinality(S)
<1>1. Cardinality(Block) = N /\ IsFiniteSet(Block) /\ N \in Nat
  BY SchedulerAssumption, FS_Interval DEF Block
<1>2. IsFiniteSet(S) /\ Cardinality(S) <= Cardinality(Block)
  BY <1>1, FS_Subset
<1>3. IsFiniteSet(T) /\ Cardinality(T) <= Cardinality(S) /\ (Cardinality(S) = Cardinality(T) => S = T)
  BY <1>2, FS_Subset
<1>4. Cardinality(S) \in Nat /\ Cardinality(T) \in Nat
  BY <1>2, <1>3, FS_CardinalityType
<1> QED
  BY <1>1, <1>2, <1>3, <1>4

LEMMA RankFact ==
  ASSUME TypeOK
  PROVE /\ N \in Nat /\ Admissions \in 0..(2 * N) /\ Jobs \in 0..(3 * N) /\ RoundLeft \in 0..3
        /\ Count(~ cancelled) \in 0..1 /\ Count(~ faulted) \in 0..1
        /\ RankBounded
<1>1. N \in Nat
  BY SchedulerAssumption
<1>2. Unsettled \in SUBSET Block /\ Unreported \in SUBSET Block /\ Unbegun \in SUBSET Block
  BY DEF Unsettled, Unreported, Unbegun
<1>3. observed \in SUBSET Block /\ worked \in SUBSET Block
  BY DEF TypeOK
<1>4. Cardinality(Unsettled) \in 0..N /\ Cardinality(Unreported) \in 0..N /\ Cardinality(Unbegun) \in 0..N
  BY <1>2, SetFact
<1>5. Cardinality(observed) \in 0..N /\ Cardinality(worked) \in 0..N
  BY <1>3, SetFact
<1>6. Admissions \in 0..(2 * N) /\ Jobs \in 0..(3 * N)
  BY <1>1, <1>4, <1>5 DEF Admissions, Jobs
<1>7. RoundLeft \in 0..3 /\ Count(~ cancelled) \in 0..1 /\ Count(~ faulted) \in 0..1
  BY DEF RoundLeft, Count
<1>8. RankBounded
  BY <1>1, <1>6, <1>7 DEF RankBounded, Rank
<1> QED
  BY <1>1, <1>6, <1>7, <1>8

\* A goroutine that moves on leaves less to be done by them all.
LEMMA JobsShrink ==
  ASSUME Unsettled' \subseteq Unsettled, Unreported' \subseteq Unreported, Unbegun' \subseteq Unbegun,
         Unsettled' # Unsettled \/ Unreported' # Unreported \/ Unbegun' # Unbegun
  PROVE Jobs' \in Nat /\ Jobs \in Nat /\ Jobs' < Jobs
<1>1. Unsettled \in SUBSET Block /\ Unreported \in SUBSET Block /\ Unbegun \in SUBSET Block
  BY DEF Unsettled, Unreported, Unbegun
<1>2. /\ Cardinality(Unsettled) \in 0..N /\ Cardinality(Unsettled') \in 0..N
      /\ Cardinality(Unsettled') <= Cardinality(Unsettled)
      /\ Unsettled' # Unsettled => Cardinality(Unsettled') < Cardinality(Unsettled)
  BY <1>1, SetFact
<1>3. /\ Cardinality(Unreported) \in 0..N /\ Cardinality(Unreported') \in 0..N
      /\ Cardinality(Unreported') <= Cardinality(Unreported)
      /\ Unreported' # Unreported => Cardinality(Unreported') < Cardinality(Unreported)
  BY <1>1, SetFact
<1>4. /\ Cardinality(Unbegun) \in 0..N /\ Cardinality(Unbegun') \in 0..N
      /\ Cardinality(Unbegun') <= Cardinality(Unbegun)
      /\ Unbegun' # Unbegun => Cardinality(Unbegun') < Cardinality(Unbegun)
  BY <1>1, SetFact
<1>5. /\ Jobs = Cardinality(Unsettled) + Cardinality(Unreported) + Cardinality(Unbegun)
      /\ Jobs' = Cardinality(Unsettled') + Cardinality(Unreported') + Cardinality(Unbegun')
  BY DEF Jobs
<1>6. PICK i, j, k \in Nat : i = Cardinality(Unsettled') /\ j = Cardinality(Unreported') /\ k = Cardinality(Unbegun')
  BY <1>2, <1>3, <1>4
<1> QED
  BY <1>2, <1>3, <1>4, <1>5, <1>6

LEMMA AdmitShrinks ==
  ASSUME IInv, Admit
  PROVE Rank' < Rank
<1> DEFINE b == Min(Candidates)
<1>1. b \in Block \ running /\ states[b] = record[b]
  BY CandidateFact DEF Admit
<1>2. Start(b) /\ UNCHANGED <<at, states, cancelled, faulted>>
  BY DEF Admit, signals
<1>3. b \in Candidates
  <2>1. Candidates \in SUBSET Block
    BY SchedulerAssumption DEF Candidates, FirstAdmission, UnprovedLeft, Retried, Startable, Ready, Failed
  <2> QED
    BY <2>1, FirstFact DEF Admit
<1>4. IF Unproved(states[b]) THEN b \notin observed ELSE b \notin worked
  <2>1. CASE AnyUnproved(states)
    BY <1>1, <1>3, <2>1 DEF Candidates, FirstAdmission, UnprovedLeft
  <2>2. CASE ~ AnyUnproved(states)
    BY <1>1, <1>3, <2>2 DEF Candidates, AnyUnproved
  <2> QED
    BY <2>1, <2>2
<1>5. /\ observed \in SUBSET Block /\ worked \in SUBSET Block /\ job \in [Block -> Place]
      /\ N \in Nat /\ Admissions \in Nat /\ Jobs \in Nat
  BY RankFact DEF IInv, TypeOK, Place
<1> HIDE DEF b
<1>6. Admissions' = Admissions - 1
  <2>1. /\ IsFiniteSet(observed) /\ Cardinality(observed) \in 0..N
        /\ IsFiniteSet(worked) /\ Cardinality(worked) \in 0..N
    BY <1>5, SetFact
  <2>2. CASE Unproved(states[b])
    <3>1. observed' = observed \cup {b} /\ b \notin observed /\ worked' = worked
      BY <1>2, <1>4, <2>2 DEF Start
    <3>2. Cardinality(observed') = Cardinality(observed) + 1 /\ Cardinality(worked') = Cardinality(worked)
      BY <2>1, <3>1, FS_AddElement
    <3> QED
      BY <1>5, <2>1, <3>2 DEF Admissions
  <2>3. CASE ~ Unproved(states[b])
    <3>1. worked' = worked \cup {b} /\ b \notin worked /\ observed' = observed
      BY <1>2, <1>4, <2>3 DEF Start
    <3>2. Cardinality(worked') = Cardinality(worked) + 1 /\ Cardinality(observed') = Cardinality(observed)
      BY <2>1, <3>1, FS_AddElement
    <3> QED
      BY <1>5, <2>1, <3>2 DEF Admissions
  <2> QED
    BY <2>2, <2>3
<1>7. Jobs' \in Nat /\ Jobs' <= Jobs + 3
  <2>1. job'[b] \in {"observing", "starting"} /\ \A c \in Block \ {b} : job'[c] = job[c]
    BY <1>1, <1>2, <1>5 DEF Start
  <2>2. /\ Unsettled' \in SUBSET (Unsettled \cup {b}) /\ Unsettled \cup {b} \in SUBSET Block /\ Unsettled \in SUBSET Block
        /\ Unreported' \in SUBSET (Unreported \cup {b}) /\ Unreported \cup {b} \in SUBSET Block /\ Unreported \in SUBSET Block
        /\ Unbegun' \in SUBSET (Unbegun \cup {b}) /\ Unbegun \cup {b} \in SUBSET Block /\ Unbegun \in SUBSET Block
    BY <1>1, <2>1 DEF Unsettled, Unreported, Unbegun
  <2>3. \A S \in SUBSET Block : \A T \in SUBSET (S \cup {b}) :
          Cardinality(S) \in 0..N /\ Cardinality(T) \in 0..N /\ Cardinality(T) <= Cardinality(S) + 1
    <3> SUFFICES ASSUME NEW S \in SUBSET Block, NEW T \in SUBSET (S \cup {b})
                 PROVE Cardinality(S) \in 0..N /\ Cardinality(T) \in 0..N /\ Cardinality(T) <= Cardinality(S) + 1
      OBVIOUS
    <3>1. S \cup {b} \in SUBSET Block
      BY <1>1
    <3>2. IsFiniteSet(S) /\ Cardinality(S) \in 0..N
      BY SetFact
    <3>3. Cardinality(T) \in 0..N /\ Cardinality(T) <= Cardinality(S \cup {b})
      BY <3>1, SetFact
    <3>4. Cardinality(S \cup {b}) <= Cardinality(S) + 1
      <4>1. Cardinality(S \cup {b}) = Cardinality(S) \/ Cardinality(S \cup {b}) = Cardinality(S) + 1
        BY <3>2, FS_AddElement
      <4>2. Cardinality(S) \in Nat
        BY <1>5, <3>2
      <4> QED
        BY <4>1, <4>2
    <3>5. Cardinality(S \cup {b}) \in 0..N
      BY <3>1, SetFact
    <3> QED
      BY <1>5, <3>2, <3>3, <3>4, <3>5
  <2>4. /\ Cardinality(Unsettled) \in 0..N /\ Cardinality(Unsettled') \in 0..N
        /\ Cardinality(Unsettled') <= Cardinality(Unsettled) + 1
    BY <2>2, <2>3
  <2>5. /\ Cardinality(Unreported) \in 0..N /\ Cardinality(Unreported') \in 0..N
        /\ Cardinality(Unreported') <= Cardinality(Unreported) + 1
    BY <2>2, <2>3
  <2>6. /\ Cardinality(Unbegun) \in 0..N /\ Cardinality(Unbegun') \in 0..N
        /\ Cardinality(Unbegun') <= Cardinality(Unbegun) + 1
    BY <2>2, <2>3
  <2>7. /\ Jobs = Cardinality(Unsettled) + Cardinality(Unreported) + Cardinality(Unbegun)
        /\ Jobs' = Cardinality(Unsettled') + Cardinality(Unreported') + Cardinality(Unbegun')
    BY DEF Jobs
  <2>8. PICK i, j, k \in Nat : i = Cardinality(Unsettled') /\ j = Cardinality(Unreported') /\ k = Cardinality(Unbegun')
    BY <2>4, <2>5, <2>6
  <2> QED
    BY <1>5, <2>4, <2>5, <2>6, <2>7, <2>8
<1>8. RoundLeft' = RoundLeft /\ Count(~ cancelled)' = Count(~ cancelled) /\ Count(~ faulted)' = Count(~ faulted)
  BY <1>2 DEF RoundLeft, Count
<1>9. Rank' = 13 * Admissions' + 4 * Jobs' + RoundLeft + Count(~ cancelled) + Count(~ faulted)
  BY <1>8 DEF Rank
<1>10. PICK n \in Nat : n = Jobs' /\ n <= Jobs + 3
  BY <1>7
<1> QED
  BY <1>5, <1>6, <1>9, <1>10, RankFact DEF Rank, IInv

LEMMA RankShrinks ==
  ASSUME IInv, Next, at # "down", at' # "down"
  PROVE Rank' < Rank
<1>1. /\ N \in Nat /\ Admissions \in Nat /\ Jobs \in Nat /\ RoundLeft \in 0..3
      /\ Count(~ cancelled) \in 0..1 /\ Count(~ faulted) \in 0..1 /\ TypeOK /\ job \in [Block -> Place]
  BY RankFact DEF IInv, TypeOK, Place
<1>2. CASE Admit
  BY <1>2, AdmitShrinks
<1>3. CASE Check \/ ProbeRefuses \/ Admitted \/ Stop
  <2>1. UNCHANGED <<observed, worked, job, cancelled, faulted>>
    BY <1>3 DEF Check, ProbeRefuses, Admitted, Stop, main, signals
  <2>2. RoundLeft' \in 0..3 /\ RoundLeft' < RoundLeft
    <3>1. \/ at = "check" /\ at' \in {"wait", "admit"}
          \/ at = "admit" /\ at' = "wait"
          \/ at = "wait" /\ at' = "finish"
      BY <1>3 DEF Check, ProbeRefuses, Admitted, Stop
    <3> QED
      BY <3>1 DEF RoundLeft
  <2>3. Rank' = 13 * Admissions + 4 * Jobs + RoundLeft' + Count(~ cancelled) + Count(~ faulted)
    BY <2>1 DEF Rank, Admissions, Jobs, Unsettled, Unreported, Unbegun
  <2>4. PICK n \in 0..3 : n = RoundLeft' /\ n < RoundLeft
    BY <2>2
  <2> QED
    BY <1>1, <2>3, <2>4 DEF Rank
<1>4. ASSUME NEW b \in Block, Settle(b) PROVE Rank' < Rank
  <2>1. UNCHANGED <<observed, worked, cancelled, faulted>>
    BY <1>4 DEF Settle, signals
  <2>2. RoundLeft' = 3 /\ RoundLeft = 1
    BY <1>4 DEF Settle, RoundLeft
  <2>3. Jobs' \in Nat /\ Jobs' < Jobs
    <3>1. /\ job[b] # "none" /\ job'[b] = "none" /\ \A c \in Block \ {b} : job'[c] = job[c]
      BY <1>1, <1>4 DEF Settle
    <3>2. /\ Unsettled' \subseteq Unsettled /\ Unreported' \subseteq Unreported /\ Unbegun' \subseteq Unbegun
          /\ b \in Unsettled \ Unsettled'
      BY <3>1 DEF Unsettled, Unreported, Unbegun
    <3> QED
      BY <3>2, JobsShrink
  <2>4. Rank' = 13 * Admissions + 4 * Jobs' + RoundLeft' + Count(~ cancelled) + Count(~ faulted)
    BY <2>1 DEF Rank, Admissions
  <2>5. PICK n \in Nat : n = Jobs' /\ n < Jobs
    BY <2>3
  <2> QED
    BY <1>1, <2>2, <2>4, <2>5 DEF Rank
<1>5. ASSUME NEW b \in Block, Goroutine(b) PROVE Rank' < Rank
  <2>1. UNCHANGED <<at, observed, worked, cancelled, faulted>>
    BY <1>5 DEF Goroutine, Begin, Refuse, Return, Observe, main, signals
  <2>2. /\ \A c \in Block \ {b} : job'[c] = job[c]
        /\ \/ job[b] = "starting" /\ job'[b] \in {"effect", "unstarted"}
           \/ job[b] \in {"effect", "observing"} /\ job'[b] = "returned"
    BY <1>1, <1>5 DEF Goroutine, Begin, Refuse, Return, Observe, Recorded, Unrecorded, NotStarted, Report
  <2>3. Jobs' \in Nat /\ Jobs' < Jobs
    <3>1. Unsettled' \subseteq Unsettled /\ Unreported' \subseteq Unreported /\ Unbegun' \subseteq Unbegun
      BY <2>2 DEF Unsettled, Unreported, Unbegun
    <3>2. b \in Unreported \ Unreported' \/ b \in Unbegun \ Unbegun'
      BY <2>2 DEF Unreported, Unbegun
    <3> QED
      BY <3>1, <3>2, JobsShrink
  <2>4. Rank' = 13 * Admissions + 4 * Jobs' + RoundLeft + Count(~ cancelled) + Count(~ faulted)
    BY <2>1 DEF Rank, Admissions, RoundLeft
  <2>5. PICK n \in Nat : n = Jobs' /\ n < Jobs
    BY <2>3
  <2> QED
    BY <1>1, <2>4, <2>5 DEF Rank
<1>6. CASE Cancel \/ LatchFault
  <2>1. UNCHANGED <<at, observed, worked, job>>
    BY <1>6 DEF Cancel, LatchFault, main
  <2>2. \/ ~ cancelled /\ cancelled' /\ faulted' = faulted
        \/ ~ faulted /\ faulted' /\ cancelled'
    BY <1>6 DEF Cancel, LatchFault
  <2>3. /\ Count(~ cancelled)' \in 0..1 /\ Count(~ faulted)' \in 0..1
        /\ Count(~ cancelled)' + Count(~ faulted)' < Count(~ cancelled) + Count(~ faulted)
    BY <1>1, <2>2 DEF Count
  <2>4. Rank' = 13 * Admissions + 4 * Jobs + RoundLeft + Count(~ cancelled)' + Count(~ faulted)'
    BY <2>1 DEF Rank, Admissions, Jobs, Unsettled, Unreported, Unbegun, RoundLeft
  <2>5. PICK n, m \in 0..1 : n = Count(~ cancelled)' /\ m = Count(~ faulted)'
    BY <2>3
  <2> QED
    BY <1>1, <2>3, <2>4, <2>5 DEF Rank
<1>7. ~ Finish /\ ~ Crash /\ ~ ResolveMember /\ ~ Finalize /\ \A sel \in Selections : ~ Resume(sel)
  BY DEF Finish, Crash, ResolveMember, Finalize, Resume, Down
<1> QED
  BY <1>2, <1>3, <1>4, <1>5, <1>6, <1>7 DEF Next, Main

\* An invocation takes at most 38 steps for every block of its plan, and six
\* more: each of its steps, the operator's interrupt and a log fault included,
\* leaves it less to do, for a block is observed once and attempted once (next,
\* observed, worked).  With a step of its own always ready, it ends.
THEOREM InvocationCountsDown ==
  Spec => /\ []RankBounded
          /\ [][at # "down" /\ at' # "down" => Rank' < Rank]_vars
<1>1. IInv => RankBounded
  BY RankFact DEF IInv
<1>2. IInv /\ [Next]_vars => [at # "down" /\ at' # "down" => Rank' < Rank]_vars
  BY RankShrinks
<1> QED
  BY <1>1, <1>2, Invariance, PTL DEF Spec

-----------------------------------------------------------------------------
(* The refinement of PlanContract. *)

\* The contract's words for what the scheduler's invariant speaks of.
LEMMA ContractWords ==
  /\ \A S : Contract!AllDone(S) <=> AllDone(S, record)
  /\ \A b \in Block : Contract!InOrder(b) <=> Due(b)
  /\ Contract!RecordStates = StatesOf(record)
  /\ \A b : Contract!Unproved(record[b]) <=> Unproved(record[b])
  /\ \A t, x : Contract!NextOperationState(t, x) = NextOperationState(t, x)
<1>1. \A S : Contract!AllDone(S) <=> AllDone(S, record)
  BY DEF Contract!AllDone, AllDone
<1>2. \A b \in Block : Contract!InOrder(b) <=> Due(b)
  BY <1>1 DEF Contract!InOrder, Due
<1>3. Contract!RecordStates = StatesOf(record)
  BY DEF Contract!RecordStates, StatesOf
<1>4. \A b : Contract!Unproved(record[b]) <=> Unproved(record[b])
  BY DEF Contract!Unproved, Unproved
<1>5. \A t, x : Contract!NextOperationState(t, x) = NextOperationState(t, x)
  BY DEF Contract!NextOperationState, NextOperationState
<1> QED
  BY <1>1, <1>2, <1>3, <1>4, <1>5

\* A block in flight that is not under way stands apart from those that are.
LEMMA StandsApart ==
  ASSUME IInv, NEW b \in running, ~ Unproved(record[b])
  PROVE Contract!Apart(b)
<1> DEFINE U == Contract!UnderWay
<1>1. b \in Active /\ U \subseteq Active /\ b \notin U /\ Active \in SUBSET Block
  BY ContractWords DEF Contract!UnderWay, Active, IInv, TypeOK
<1>2. \A c \in U : Exclusive[b] \cap Exclusive[c] = {}
  BY <1>1 DEF IInv, Apart
<1>3. ASSUME Group[b] # NoGroup
      PROVE Cardinality({c \in U : Group[c] = Group[b]}) < Throttle
  <2> DEFINE A == {c \in Active : Group[c] = Group[b]}
             B == {c \in U : Group[c] = Group[b]}
  <2>1. A \in SUBSET Block /\ B \in SUBSET A /\ b \in A /\ b \notin B
    BY <1>1
  <2>2. Cardinality(A) <= Throttle
    BY <1>1, <1>3 DEF IInv, Apart
  <2> HIDE DEF A, B
  <2>3. Cardinality(A) \in 0..N /\ Cardinality(B) \in 0..N /\ Cardinality(B) < Cardinality(A)
    BY <2>1, SetFact
  <2> QED
    BY <2>2, <2>3, SchedulerAssumption DEF B
<1> HIDE DEF U
<1>4. Group[b] # NoGroup => Cardinality({c \in U : Group[c] = Group[b]}) < Throttle
  BY <1>3
<1>5. \A S : Contract!Cardinality(S) = Cardinality(S)
  BY Zenon DEF Contract!Cardinality, Cardinality
<1> QED
  BY <1>2, <1>4, <1>5, Zenon DEF Contract!Apart, U

LEMMA StartStep ==
  ASSUME IInv, NEW b \in Block, job[b] = "starting", record' = [record EXCEPT ![b] = "running"], UNCHANGED opState
  PROVE Contract!Start(b)
<1>1. /\ b \in running /\ record[b] \in {"pending", "failed"} /\ Due(b)
      /\ opState \notin {"done", "paused"}
  BY DEF IInv, Flight, Known, KnownOf, Order, Operation
<1>2. Contract!Apart(b)
  BY <1>1, StandsApart DEF Unproved
<1> QED
  BY <1>1, <1>2, ContractWords DEF Contract!Start, Contract!Open

LEMMA SettleStep ==
  ASSUME IInv, NEW b \in Block, job[b] \in {"effect", "observing"}, UNCHANGED opState,
         NEW s \in {"done", "failed", "unknown"}, record' = [record EXCEPT ![b] = s]
  PROVE Contract!Settle(b)
<1>1. Unproved(record[b]) /\ opState \notin {"done", "paused"}
  BY DEF IInv, Flight, Known, KnownOf, Operation, Unproved
<1> QED
  BY <1>1, ContractWords DEF Contract!Settle, Contract!Open

\* What a step leaves of the records and of the operation.
Quiet == UNCHANGED Contract!contractVars

LEMMA QuietFact == UNCHANGED <<record, opState>> => Quiet
  BY DEF Quiet, Contract!contractVars

LEMMA GoroutineImplements ==
  ASSUME IInv, NEW b \in Block, Goroutine(b)
  PROVE Contract!Start(b) \/ Contract!Settle(b) \/ Quiet
<1>1. CASE Begin(b)
  BY <1>1, StartStep DEF Begin
<1>2. CASE Refuse(b)
  <2>1. job[b] = "starting" /\ UNCHANGED opState
        /\ (record' = record \/ record' = [record EXCEPT ![b] = "running"])
    BY <1>2 DEF Refuse
  <2> QED
    BY <2>1, StartStep, QuietFact
<1>3. CASE Return(b) \/ Observe(b)
  <2>1. job[b] \in {"effect", "observing"} /\ UNCHANGED opState
        /\ \/ record' = record
           \/ \E s \in {"done", "failed", "unknown"} : record' = [record EXCEPT ![b] = s]
    BY <1>3 DEF Return, Observe, Recorded, Unrecorded
  <2> QED
    BY <2>1, SettleStep, QuietFact
<1> QED
  BY <1>1, <1>2, <1>3 DEF Goroutine

LEMMA FinishImplements ==
  ASSUME IInv, Finish
  PROVE Contract!Conclude \/ Quiet
<1>1. UNCHANGED record /\ at = "finish"
  BY DEF Finish
<1>2. opState \notin {"done", "paused"}
  BY <1>1 DEF IInv, Operation
<1>3. CASE UNCHANGED opState
  BY <1>1, <1>3, QuietFact
<1>4. CASE opState' = NextOperationState(StatesOf(states), boundary /\ ~observeOnly)
  <2>1. \A b \in Block : states[b] \in {record[b], "unknown"} /\ states[b] \in StatesOf(states)
    BY <1>1 DEF IInv, Flight, Known, KnownOf, StatesOf
  <2>2. CASE "unknown" \in StatesOf(states)
    <3>1. opState' = "unknown"
      BY <1>4, <2>2 DEF NextOperationState
    <3> QED
      BY <1>1, <1>2, <3>1 DEF Contract!Conclude, Contract!Open
  <2>3. CASE "unknown" \notin StatesOf(states)
    <3>1. StatesOf(states) = StatesOf(record)
      BY <2>1, <2>3 DEF StatesOf
    <3>2. opState' \in {NextOperationState(StatesOf(record), FALSE), "paused"}
      BY <1>4, <3>1 DEF NextOperationState
    <3>3. opState' = "paused" => StatesOf(record) \subseteq {"pending", "done"} /\ ~ AllDone(Block, record)
      <4>1. OperationSound'
        BY FinishKeeps DEF IInv, Operation
      <4>2. at' = "down"
        BY DEF Finish, Down
      <4>3. opState' = "paused" => StatesOf(record') \subseteq {"pending", "done"} /\ Pending'
        BY <4>1, <4>2 DEF OperationSound, StatesOf
      <4> QED
        BY <1>1, <4>3 DEF Pending, AllDone
    <3> QED
      BY <1>1, <1>2, <3>2, <3>3, ContractWords DEF Contract!Conclude, Contract!Open
  <2> QED
    BY <2>2, <2>3
<1> QED
  BY <1>3, <1>4 DEF Finish

LEMMA BetweenImplements ==
  ASSUME IInv
  PROVE /\ \A sel \in Selections : Resume(sel) => Contract!Resume \/ Quiet
        /\ ResolveMember => Contract!Conclude \/ Quiet
        /\ Finalize => Contract!Conclude
<1>1. ASSUME NEW sel \in Selections, Resume(sel) PROVE Contract!Resume \/ Quiet
  <2>1. UNCHANGED record /\ opState' \in {opState, "running"} /\ opState # "done"
    BY <1>1 DEF Resume, Continuable
  <2>2. ~ AllDone(Block, record)
    BY <1>1 DEF Resume, Continuable, Finalizable, Pending, IInv, TypeOK, OperationState, Operation, OperationSound
  <2> QED
    BY <2>1, <2>2, ContractWords, QuietFact DEF Contract!Resume
<1>2. ASSUME ResolveMember PROVE Contract!Conclude \/ Quiet
  <2>1. /\ UNCHANGED record
        /\ \/ UNCHANGED opState
           \/ opState = "failed" /\ opState' = NextOperationState(StatesOf(record), FALSE)
    BY <1>2 DEF ResolveMember
  <2> QED
    BY <2>1, ContractWords, QuietFact DEF Contract!Conclude, Contract!Open
<1>3. ASSUME Finalize PROVE Contract!Conclude
  BY <1>3, ContractWords DEF Finalize, Finalizable, Contract!Conclude, Contract!Open
<1> QED
  BY <1>1, <1>2, <1>3

\* Whatever an operation's invocations schedule, retry, observe, lose or leave
\* half done, its records take only the contract's steps: a block starts in
\* order, apart from what may be under way, and settles, and the operation is
\* resumed until it concludes.  Every step of a goroutine that writes is one
\* block's start or settlement, and every other step leaves the records alone.
THEOREM Refinement == Spec => ImplementsContract
<1>1. Init => Contract!Init
  BY DEF Init, Contract!Init
<1>2. IInv /\ [Next]_vars => [Contract!Next]_(Contract!contractVars)
  <2> SUFFICES ASSUME IInv, [Next]_vars PROVE Contract!Next \/ Quiet
    BY DEF Quiet
  <2>1. ASSUME NEW b \in Block, Goroutine(b) PROVE Contract!Next \/ Quiet
    BY <2>1, GoroutineImplements DEF Contract!Next
  <2>2. CASE Finish
    BY <2>2, FinishImplements DEF Contract!Next
  <2>3. CASE (\E sel \in Selections : Resume(sel)) \/ ResolveMember \/ Finalize
    BY <2>3, BetweenImplements DEF Contract!Next
  <2>4. CASE \/ Check \/ Admit \/ ProbeRefuses \/ Admitted \/ (\E b \in Block : Settle(b)) \/ Stop
             \/ Cancel \/ LatchFault \/ Crash \/ UNCHANGED vars
    <3>1. UNCHANGED <<record, opState>>
      BY <2>4 DEF Check, Admit, ProbeRefuses, Admitted, Settle, Stop, Cancel, LatchFault, Crash, vars, durable
    <3> QED
      BY <3>1, QuietFact
  <2> QED
    BY <2>1, <2>2, <2>3, <2>4 DEF Next, Main
<1> QED
  BY <1>1, <1>2, Invariance, PTL DEF Spec, ImplementsContract, Contract!Spec
=============================================================================
