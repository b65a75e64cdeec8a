----------------------------- MODULE Scheduler -----------------------------
(***************************************************************************)
(* The scheduler of one registered operation                               *)
(* (internal/reconciliation/lifecycle/scheduler.go), the gates of a        *)
(* removal's phases (online_gates.go, removal_phases.go), and what opens   *)
(* and closes an invocation around it: resume, finish, the observation a   *)
(* fresh removal makes of the operation it replaces, and finalization.     *)
(*                                                                         *)
(* The main goroutine admits blocks and settles their results; every block *)
(* in flight is a goroutine of its own, which reads and writes only that   *)
(* block's record.  Their steps interleave, an operator may cancel, a log  *)
(* fault may latch, and the process may be killed anywhere; invocations    *)
(* follow one another over the records the earlier ones left.              *)
(*                                                                         *)
(* Blocks are the positions of the frozen plan.  What one goroutine writes *)
(* is OperationStore's subject: here it is one step that starts the block  *)
(* and one that settles it, each of which may land and report a failure.   *)
(***************************************************************************)
EXTENDS Reconciliation, Integers, FiniteSets, FiniteSetsExt

CONSTANTS
  N,            \* blocks of the frozen plan, numbered in its order
  Deps,         \* block -> the blocks it waits for
  Exclusive,    \* block -> the keys it does not share while it runs
  Group,        \* block -> the throttle it names, NoGroup when it names none
  Online,       \* blocks that require online removal and are not retired with their hosts
  PreStop,      \* blocks that require pre-stop removal
  Probed,       \* machine-stage blocks whose capability probes quiescence
  OpVerb,       \* the verb the operation froze
  Selections,   \* the block sets a --stage / --until selection may admit
  Bound,        \* Concurrency(): blocks in flight at once
  Throttle,     \* Throttle(): blocks of one throttle in flight at once
  MaxFaults     \* bound on the faults of a behaviour

Block == 1..N

NoGroup == "none"

ASSUME SchedulerAssumption ==
  /\ N \in Nat
  /\ Deps \in [Block -> SUBSET Block] /\ \A b \in Block : \A d \in Deps[b] : d < b
  /\ DOMAIN Exclusive = Block /\ \A b \in Block : IsFiniteSet(Exclusive[b])
  /\ DOMAIN Group = Block
  /\ Online \subseteq Block /\ PreStop \subseteq Block /\ Probed \subseteq Block
  /\ OpVerb \in Verb
  /\ OpVerb = "apply" => Online = {} /\ PreStop = {}
  /\ Selections \subseteq SUBSET Block /\ Block \in Selections
  /\ Bound \in Nat \ {0} /\ Throttle \in Nat \ {0} /\ MaxFaults \in Nat

Key == UNION {Exclusive[b] : b \in Block}

Idle == 0       \* the holder of a key nobody holds

VARIABLES
  \* durable
  record,         \* block -> the state its record reads
  opState,        \* the state the operation record reads
  logFault,       \* its durable log fault
  \* the main goroutine
  at,             \* where the invocation is
  observeOnly,    \* the invocation observes an operation it replaces
  selection,      \* the blocks its selection admits
  states,         \* block -> the state the scheduler holds
  running,        \* blocks in flight
  observed,       \* blocks it observed
  worked,         \* blocks it attempted
  unstarted,      \* blocks whose attempt could not start
  held,           \* key -> the block holding it
  preStopProved, onlineProved, onlineBlocked,   \* the removal's boundaries
  boundary,       \* it stopped at a stage or operator-stop boundary
  \* shared
  cancelled,      \* the context is cancelled
  faulted,        \* the log boundary is latched
  \* the goroutines
  job,            \* block -> where its goroutine is
  result,         \* block -> the state its goroutine reports
  faults          \* faults so far

main == <<observeOnly, selection, states, running, observed, worked, unstarted, held>>
gates == <<preStopProved, onlineProved, onlineBlocked>>
signals == <<cancelled, faulted>>
durable == <<record, opState, logFault>>
vars == <<durable, at, main, gates, boundary, signals, job, result, faults>>

TypeOK ==
  /\ record \in [Block -> BlockState] /\ opState \in OperationState /\ logFault \in BOOLEAN
  /\ at \in {"down", "check", "admit", "wait", "finish"}
  /\ observeOnly \in BOOLEAN /\ selection \in SUBSET Block
  /\ states \in [Block -> BlockState]
  /\ running \in SUBSET Block /\ observed \in SUBSET Block
  /\ worked \in SUBSET Block /\ unstarted \in SUBSET Block
  /\ held \in [Key -> Block \cup {Idle}]
  /\ preStopProved \in BOOLEAN /\ onlineProved \in BOOLEAN /\ onlineBlocked \in BOOLEAN
  /\ boundary \in BOOLEAN /\ cancelled \in BOOLEAN /\ faulted \in BOOLEAN
  /\ job \in [Block -> {"none", "starting", "effect", "observing", "returned", "unstarted"}]
  /\ result \in [Block -> BlockState]
  /\ faults \in 0..MaxFaults

Init ==
  /\ record = [b \in Block |-> "pending"] /\ opState = "running" /\ logFault = FALSE
  /\ at = "down" /\ observeOnly = FALSE /\ selection = {}
  /\ states = [b \in Block |-> "pending"]
  /\ running = {} /\ observed = {} /\ worked = {} /\ unstarted = {}
  /\ held = [k \in Key |-> Idle]
  /\ preStopProved = FALSE /\ onlineProved = FALSE /\ onlineBlocked = FALSE
  /\ boundary = FALSE /\ cancelled = FALSE /\ faulted = FALSE
  /\ job = [b \in Block |-> "none"] /\ result = [b \in Block |-> "pending"]
  /\ faults = 0

-----------------------------------------------------------------------------
(* The frozen plan and the phases of a removal *)

Fault == faults < MaxFaults /\ faults' = faults + 1

StatesOf(st) == {st[b] : b \in Block}

\* Mutant: a dependency that settled, done or failed, is enough.
ReadyOnSettled(st) ==
  {b \in Block : st[b] = "pending" /\ \A d \in Deps[b] : st[d] \in {"done", "failed"}}

Ready(st) == {b \in Block : st[b] = "pending" /\ \A d \in Deps[b] : st[d] = "done"}

Startable(st, sel) == Ready(st) \cap sel

\* The blocks at or after a block of S in dependency order.
AtOrAfter(S) ==
  LET after[b \in Block] == b \in S \/ \E d \in Deps[b] : after[d]
  IN  {b \in Block : after[b]}

\* deferral and preStopRemoval: the Machines whose stop proof each phase defers.
Machines == (Probed \cap AtOrAfter(Online)) \ Online

PreStopMachines == (Probed \cap AtOrAfter(PreStop)) \ (PreStop \cup Machines)

AllDone(S, st) == \A b \in S : st[b] = "done"

\* Mutant: a pre-stop inverse that started is taken for a completed one.
PreStopStarted(st) == \A b \in PreStop : st[b] # "pending"

PreStopDone(st) == AllDone(PreStop, st)

\* removalPhases.complete
OnlineDone(st) == AllDone(Online, st)

-----------------------------------------------------------------------------
(* Admission *)

\* Mutant: a durable running record is taken for work in progress.
AnyUnknown(st) == \E b \in Block : st[b] = "unknown"

AnyUnproved(st) == \E b \in Block : Unproved(st[b])

UnprovedLeft(st, obs, wrk) == {b \in Block : Unproved(st[b])} \ (obs \cup wrk)

Failed(st) == {b \in Block : st[b] = "failed"}

\* Mutant: a failed block is never retried.
NeverRetried(st, sel, wrk, run) == {}

Retried(st, sel, wrk, run) == ((Failed(st) \ run) \ wrk) \cap sel

FailedAgain(st, wrk, run) == (Failed(st) \ run) \cap wrk # {}

FirstAdmission(st, sel, obs, wrk, run) ==
  LET retried == Retried(st, sel, wrk, run)
      nothingYet == retried = {} /\ obs = {} /\ wrk = {}
  IN  IF AnyUnproved(st) THEN UnprovedLeft(st, obs, wrk)
      ELSE IF Failed(st) # {} /\ (FailedAgain(st, wrk, run) \/ nothingYet) THEN retried
      ELSE retried \cup Startable(st, sel)

\* Mutant: only the throttle is asked for.
FreeOfThrottle(b) ==
  Group[b] = NoGroup \/ Cardinality({r \in running : Group[r] = Group[b]}) < Throttle

Free(b) ==
  /\ Group[b] = NoGroup \/ Cardinality({r \in running : Group[r] = Group[b]}) < Throttle
  /\ \A k \in Exclusive[b] : held[k] = Idle

\* next(): what may start now; the first of it in plan order does.
Candidates ==
  LET fresh == (Block \ running) \ worked
      admitted == FirstAdmission(states, selection, observed, worked, running)
  IN  IF AnyUnproved(states) THEN admitted \ running
      ELSE IF observeOnly THEN {}
      ELSE IF ~PreStopDone(states)
           THEN {b \in PreStop \cap fresh : states[b] \in {"pending", "failed"} /\ Free(b)}
      ELSE {b \in admitted \cap fresh : (b \in Machines => OnlineDone(states)) /\ Free(b)}

MayAdmit ==
  /\ Cardinality(running) < Bound
  /\ ~faulted /\ unstarted = {} /\ ~onlineBlocked

\* What provePreStopBoundary and proveOnlineBoundary still owe before b starts.
PreStopDue(b) ==
  OpVerb = "destroy" /\ ~preStopProved /\ b \notin PreStop /\ ~Unproved(states[b])

PreStopProbe(b) == PreStopDue(b) /\ ~AllDone(PreStopMachines, states)

OnlineProbe(b) ==
  OpVerb = "destroy" /\ b \in Machines /\ ~Unproved(states[b]) /\ ~onlineProved

Probes(b) == PreStopProbe(b) \/ OnlineProbe(b)

\* A boundary is proved while nothing is in flight, the online one once every
\* online effect is done.
Provable(b) == running = {} /\ (OnlineProbe(b) => OnlineDone(states))

\* start(): the block is in flight, under its own goroutine.
Start(b) ==
  /\ running' = running \cup {b}
  /\ IF Unproved(states[b])
     THEN observed' = observed \cup {b} /\ UNCHANGED worked
     ELSE worked' = worked \cup {b} /\ UNCHANGED observed
  /\ held' = [k \in Key |-> IF k \in Exclusive[b] THEN b ELSE held[k]]
  /\ job' = [job EXCEPT ![b] = IF Unproved(states[b]) THEN "observing" ELSE "starting"]

\* converge: cancellation is read once before each round of admission.
Check ==
  /\ at = "check"
  /\ at' = IF cancelled THEN "wait" ELSE "admit"
  /\ UNCHANGED <<durable, main, gates, boundary, signals, job, result, faults>>

\* admit: one more block starts, its boundaries proved while nothing is in flight.
Admit ==
  /\ at = "admit" /\ MayAdmit /\ Candidates # {}
  /\ LET b == Min(Candidates) IN
       /\ Probes(b) => Provable(b)
       /\ Start(b)
       /\ preStopProved' = (preStopProved \/ PreStopDue(b))
       /\ onlineProved' = (onlineProved \/ OnlineProbe(b))
  /\ UNCHANGED <<durable, at, observeOnly, selection, states, unstarted, onlineBlocked,
                 boundary, signals, result, faults>>

\* A target of the boundary is live, or could not be read.
ProbeRefuses ==
  /\ at = "admit" /\ MayAdmit /\ Candidates # {} /\ Fault
  /\ LET b == Min(Candidates) IN
       /\ Provable(b)
       /\ \/ PreStopProbe(b) /\ UNCHANGED preStopProved
          \/ OnlineProbe(b) /\ preStopProved' = (preStopProved \/ PreStopDue(b))
  /\ onlineBlocked' = TRUE
  /\ at' = "wait"
  /\ UNCHANGED <<durable, main, onlineProved, boundary, signals, job, result>>

\* admit returns: nothing more may start before something settles.  A pre-stop
\* boundary with no Machine left to probe is proved on the way.
Admitted ==
  /\ at = "admit"
  /\ \/ (~MayAdmit \/ Candidates = {}) /\ UNCHANGED preStopProved
     \/ /\ MayAdmit /\ Candidates # {}
        /\ LET b == Min(Candidates) IN
             /\ Probes(b) /\ ~Provable(b)
             /\ preStopProved' = (preStopProved \/ (PreStopDue(b) /\ ~PreStopProbe(b)))
  /\ at' = "wait"
  /\ UNCHANGED <<durable, main, onlineProved, onlineBlocked, boundary, signals, job, result, faults>>

\* Mutant: a settled block is not taken out of flight.
SettleInFlight(b) ==
  /\ at = "wait" /\ job[b] \in {"returned", "unstarted"}
  /\ held' = [k \in Key |-> IF held[k] = b THEN Idle ELSE held[k]]
  /\ states' = [states EXCEPT ![b] = result[b]]
  /\ unstarted' = IF job[b] = "unstarted" THEN unstarted \cup {b} ELSE unstarted
  /\ job' = [job EXCEPT ![b] = "none"]
  /\ at' = "check"
  /\ UNCHANGED <<durable, observeOnly, selection, observed, worked, running, gates, boundary,
                 signals, result, faults>>

\* settle: one result leaves the channel.
Settle(b) ==
  /\ at = "wait" /\ job[b] \in {"returned", "unstarted"}
  /\ running' = running \ {b}
  /\ held' = [k \in Key |-> IF held[k] = b THEN Idle ELSE held[k]]
  /\ states' = [states EXCEPT ![b] = result[b]]
  /\ unstarted' = IF job[b] = "unstarted" THEN unstarted \cup {b} ELSE unstarted
  /\ job' = [job EXCEPT ![b] = "none"]
  /\ at' = "check"
  /\ UNCHANGED <<durable, observeOnly, selection, observed, worked, gates, boundary, signals,
                 result, faults>>

\* converge ends with nothing in flight.
Stop ==
  /\ at = "wait" /\ running = {}
  /\ at' = "finish"
  /\ boundary' = (/\ ~cancelled /\ ~faulted /\ unstarted = {}
                  /\ ~AllDone(Block, states)
                  /\ \A b \in Block : ~Unproved(states[b]))
  /\ UNCHANGED <<durable, main, gates, signals, job, result, faults>>

-----------------------------------------------------------------------------
(* The goroutine of one block *)

\* Something fails: a fault of the environment, or the interrupt's doing.
Failing == Fault \/ (cancelled /\ UNCHANGED faults)

Report(b, s, where) ==
  /\ result' = [result EXCEPT ![b] = s]
  /\ job' = [job EXCEPT ![b] = where]

\* The block record takes s, and the goroutine reports it.
Recorded(b, s) ==
  /\ record' = [record EXCEPT ![b] = s]
  /\ Report(b, s, "returned")

\* Mutant: the goroutine reports what it meant to record.
UnrecordedTrusted(b, s) ==
  /\ UNCHANGED record \/ record' = [record EXCEPT ![b] = s]
  /\ Report(b, s, "returned")

\* Recording s reported a failure, whether or not the block record took it.
Unrecorded(b, s) ==
  /\ UNCHANGED record \/ record' = [record EXCEPT ![b] = s]
  /\ Report(b, "unknown", "returned")

\* It never started.  durable() reads the record again, and takes unknown when
\* it cannot.
NotStarted(b, where) == \E s \in {record'[b], "unknown"} : Report(b, s, where)

\* attempt: its start is durable; a cancelled context starts nothing.
Begin(b) ==
  /\ job[b] = "starting" /\ ~cancelled
  /\ record' = [record EXCEPT ![b] = "running"]
  /\ job' = [job EXCEPT ![b] = "effect"]
  /\ UNCHANGED <<opState, logFault, at, main, gates, boundary, signals, result, faults>>

\* attempt: it could not start, whether or not its record reads running.
Refuse(b) ==
  /\ job[b] = "starting"
  /\ \/ Failing /\ UNCHANGED record
     \/ Fault /\ record' = [record EXCEPT ![b] = "running"]
  /\ NotStarted(b, "unstarted")
  /\ UNCHANGED <<opState, logFault, at, main, gates, boundary, signals>>

\* attempt: the effect ends and its outcome is recorded.
Return(b) ==
  /\ job[b] = "effect"
  /\ \/ Recorded(b, "done") /\ UNCHANGED faults
     \/ Failing /\ \E s \in {"failed", "unknown"} : Recorded(b, s)
     \/ Fault /\ \E s \in {"done", "failed", "unknown"} : Unrecorded(b, s)
  /\ UNCHANGED <<opState, logFault, at, main, gates, boundary, signals>>

\* resolveUnknown: the observation proves the effect done or unfinished; or it
\* proves nothing, cannot be recorded, or never starts.
Observe(b) ==
  /\ job[b] = "observing"
  /\ \/ \E s \in {"done", "failed"} : Recorded(b, s) /\ UNCHANGED faults
     \/ Failing /\ Recorded(b, "unknown")
     \/ Failing /\ UNCHANGED record /\ NotStarted(b, "returned")
     \/ Fault /\ \E s \in {"done", "failed", "unknown"} : Unrecorded(b, s)
  /\ UNCHANGED <<opState, logFault, at, main, gates, boundary, signals>>

-----------------------------------------------------------------------------
(* Signals *)

\* The operator interrupts.
Cancel ==
  /\ at # "down" /\ ~cancelled /\ Fault
  /\ cancelled' = TRUE
  /\ UNCHANGED <<durable, at, main, gates, boundary, faulted, job, result>>

\* logBoundary.fail: a required log fails, latches the boundary, cancels the
\* work and marks the operation, unless that write fails too.
LatchFault ==
  /\ at # "down" /\ ~faulted /\ Fault
  /\ \/ at = "finish" \/ \E b \in running : job[b] \in {"effect", "observing"}
  /\ faulted' = TRUE /\ cancelled' = TRUE
  /\ logFault' \in {logFault, TRUE}
  /\ UNCHANGED <<record, opState, at, main, gates, boundary, job, result>>

-----------------------------------------------------------------------------
(* Invocations *)

\* The invocation is over, its memory gone.
Down ==
  /\ at' = "down" /\ observeOnly' = FALSE /\ selection' = {}
  /\ states' = [b \in Block |-> "pending"]
  /\ running' = {} /\ observed' = {} /\ worked' = {} /\ unstarted' = {}
  /\ held' = [k \in Key |-> Idle]
  /\ preStopProved' = FALSE /\ onlineProved' = FALSE /\ onlineBlocked' = FALSE
  /\ boundary' = FALSE /\ cancelled' = FALSE /\ faulted' = FALSE
  /\ job' = [b \in Block |-> "none"] /\ result' = [b \in Block |-> "pending"]

Up(observing, sel) ==
  /\ at' = "check" /\ observeOnly' = observing /\ selection' = sel
  /\ states' = record
  /\ UNCHANGED <<running, observed, worked, unstarted, held, gates, boundary, signals, job, result>>

Pending == ~AllDone(Block, record)

\* Mutant: only a running operation is due its finalization.
FinalizableRunning == ~Pending /\ opState = "running"

\* classify, for the operation's own verb: what is due its finalization and
\* what a removal replaces is not continued.
Finalizable == ~Pending /\ opState \in {"running", "unknown", "failed"}

Replaceable ==
  \/ OpVerb = "apply" /\ opState # "done"
  \/ OpVerb = "destroy" /\ opState = "failed"

Continuable ==
  /\ opState # "done" /\ ~Finalizable
  /\ OpVerb = "destroy" => ~Replaceable

\* refuseStageBoundary: an apply whose selection admits no work refuses.
Admissible(sel) ==
  OpVerb = "apply" => FirstAdmission(record, sel, {}, {}, {}) # {}

\* resume: restore clears the log fault, then the record reads running, and
\* the scheduler reads every block.  Either write may fail and end it.
Resume(sel) ==
  /\ at = "down" /\ Continuable /\ Admissible(sel)
  /\ \/ /\ logFault' = FALSE /\ opState' = "running"
        /\ Up(FALSE, sel)
        /\ UNCHANGED faults
     \/ /\ Fault /\ logFault' = FALSE /\ opState' \in {opState, "running"}
        /\ UNCHANGED <<at, main, gates, boundary, signals, job, result>>
  /\ UNCHANGED record

\* resolveMember: a fresh removal restores the log of the operation it replaces,
\* gives a failed apply the state its blocks give it, and observes.
ResolveMember ==
  /\ at = "down" /\ Replaceable /\ \E b \in Block : Unproved(record[b])
  /\ logFault' = FALSE
  /\ opState' = IF OpVerb = "apply" /\ opState = "failed"
                THEN NextOperationState(StatesOf(record), FALSE) ELSE opState
  /\ Up(TRUE, Block)
  /\ UNCHANGED <<record, faults>>

\* finish, or recordFromBlocks after an observation: the operation record takes
\* the state the blocks give it, unless the write fails.
Finish ==
  /\ at = "finish"
  /\ \/ /\ opState' = NextOperationState(StatesOf(states), boundary /\ ~observeOnly)
        /\ logFault' = (logFault \/ (faulted /\ ~observeOnly))
        /\ UNCHANGED faults
     \/ Fault /\ UNCHANGED <<opState, logFault>>
  /\ Down
  /\ UNCHANGED record

\* finalize: the blocks already prove the operation complete.
Finalize ==
  /\ at = "down" /\ Finalizable
  /\ opState' = NextOperationState(StatesOf(record), FALSE)
  /\ UNCHANGED <<record, logFault, at, main, gates, boundary, signals, job, result, faults>>

\* The process is killed, whatever is in flight.
Crash ==
  /\ at # "down" /\ Fault
  /\ Down
  /\ UNCHANGED durable

-----------------------------------------------------------------------------

Goroutine(b) == Begin(b) \/ Refuse(b) \/ Return(b) \/ Observe(b)

Main == Check \/ Admit \/ ProbeRefuses \/ Admitted \/ (\E b \in Block : Settle(b)) \/ Stop \/ Finish

Next ==
  \/ Main
  \/ \E b \in Block : Goroutine(b)
  \/ Cancel \/ LatchFault \/ Crash
  \/ (\E sel \in Selections : Resume(sel)) \/ ResolveMember \/ Finalize

(***************************************************************************)
(* Fairness: the Go runtime schedules the main goroutine and every block's *)
(* goroutine, and an adapter call ends (its runner enforces a deadline);   *)
(* the operator repeats the command over the whole plan.                   *)
(***************************************************************************)
Fairness ==
  /\ WF_vars(Main)
  /\ \A b \in Block : WF_vars(Goroutine(b))
  /\ SF_vars(Resume(Block)) /\ WF_vars(Finalize)

Spec == Init /\ [][Next]_vars /\ Fairness

-----------------------------------------------------------------------------
(* Properties *)

(***************************************************************************)
(* next(): "no retry, dependent block or removal may start while an        *)
(* effect's outcome is unproved".  When an attempt goes in flight, every   *)
(* block that is not in flight has a proved record, also the blocks whose  *)
(* state the scheduler was told of by a write that failed.                 *)
(***************************************************************************)
NothingBesideUnproved ==
  [][worked' # worked /\ worked' # {} =>
       /\ \A b \in Block \ running : ~Unproved(record[b])
       /\ \A b \in running : job[b] # "observing"]_vars

(***************************************************************************)
(* "Two blocks that name one key never run at the same time", and a        *)
(* throttle is never exceeded: also by observations, which next() admits   *)
(* without asking free(), and over every sequence of invocations.          *)
(***************************************************************************)
ResourcesHeldApart ==
  /\ \A b, c \in running : b # c => Exclusive[b] \cap Exclusive[c] = {}
  /\ \A b \in running : Group[b] # NoGroup =>
       Cardinality({c \in running : Group[c] = Group[b]}) <= Throttle

(***************************************************************************)
(* No effect precedes what it depends on: a block that ever started has    *)
(* every dependency durably done, whatever was retried, observed or        *)
(* interrupted since.  A pre-stop inverse runs ahead of dependency order.  *)
(***************************************************************************)
DependenciesDone ==
  \A b \in Block \ PreStop : record[b] # "pending" => AllDone(Deps[b], record)

(***************************************************************************)
(* A removal's phases hold over its records: no other inverse starts       *)
(* before every pre-stop inverse is durably done, and no Machine an online *)
(* effect defers before every online effect is.                            *)
(***************************************************************************)
PhasesInOrder ==
  \A b \in Block : record[b] # "pending" =>
    /\ b \in PreStop \/ AllDone(PreStop, record)
    /\ b \in Machines => AllDone(Online, record)

(***************************************************************************)
(* The operation record never claims more than the block records: done and *)
(* paused operations have no unproved and no failed block, a done one no   *)
(* pending one.  finish derives it from memory, which a failed write left  *)
(* behind the records.                                                     *)
(***************************************************************************)
OperationSound ==
  at = "down" =>
    /\ opState = "done" => AllDone(Block, record)
    /\ opState = "paused" => StatesOf(record) \subseteq {"pending", "done"} /\ Pending

(***************************************************************************)
(* No interruption strands an operation: between invocations one that is   *)
(* not done can be continued over the whole plan, finalized, or replaced   *)
(* by a removal.                                                           *)
(***************************************************************************)
WayOn ==
  at = "down" /\ opState # "done" =>
    Finalizable \/ (Continuable /\ Admissible(Block)) \/ (OpVerb = "destroy" /\ Replaceable)

(***************************************************************************)
(* Every invocation ends: what is in flight is waited for, and nothing is  *)
(* admitted for ever.                                                      *)
(***************************************************************************)
InvocationEnds == at # "down" ~> at = "down"

(***************************************************************************)
(* Once the faults cease, repeating apply completes the operation: no      *)
(* sequence of crashes, failed writes, unknown outcomes, log faults and    *)
(* interrupts leaves records that repetition does not converge.            *)
(***************************************************************************)
Converges == <>[](opState = "done" /\ AllDone(Block, record))

(***************************************************************************)
(* Whatever is interrupted, retried or lost, the records an operation      *)
(* leaves implement the contract that continuation and removal read them   *)
(* by.                                                                     *)
(***************************************************************************)
Contract == INSTANCE PlanContract WITH Deferred <- Machines

ImplementsContract == Contract!Spec
=============================================================================
