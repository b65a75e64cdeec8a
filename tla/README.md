# Verification of the Bootwright reconciliation engine

Bootwright turns a declared environment into a *frozen plan* of blocks and carries that plan out
on real hosts through Ansible adapters. Nothing it does is transactional: an apply may be killed
in the middle of an installation, a record may land on disk while its writer is told that it did
not, an operator interrupts, an adapter answers nothing. What the program promises is that its
records never claim more than happened, and that repeating the command is always the way on.
These modules state that promise and check it against the code.

## 1. Inventory

### Parts of the system

| Part | Code | State it keeps | Operations | Talks to |
|---|---|---|---|---|
| State tables | `internal/reconciliation/state.go` | none | `AttemptTransition`, `ResolutionTransition`, `NextOperationState` | called by lifecycle |
| Plan algorithms | `reconciliation/{plan,stage,delta,lineage,frozen,evidence}.go` | none (pure) | ordering, inversion, selection, `Ready`, `Startable`, subsets, lineage | called by lifecycle and the store |
| Operation store | `reconciliation/operationstore` | index, claims, `operation.json`, `plan.json`, block, attempt and resolution records, logs | `Register`, `Claim`, `AdmitAttempt`, `StartAttempt`, `RecordPreparation`, `CompleteAttempt`, `StartResolution`, `CompleteResolution`, `UpdateOperation`, `Reclaim` | writes through contextfs |
| Attempt and resolution | `lifecycle/attempts.go` | none beyond a goroutine's locals | `attempt`, `resolveUnknown`, `invoke`, `finish` | store, capabilities, log boundary |
| Scheduler | `lifecycle/scheduler.go` | block states, running, observed, worked and unstarted sets, held keys, gates | `converge`, `admit`, `next`, `start`, `settle` | one goroutine per block, one result channel |
| Removal gates | `lifecycle/{online_gates,removal_phases,removal_gates}.go` | phases of the removal plan | `provePreStopBoundary`, `proveOnlineBoundary`, `proveQuiescent`, `resolveMember` | scheduler, capabilities |
| Invocation | `lifecycle/{register_run,executor,transitions,finalization,logging}.go` | the operation record, the log fault | `register`, `resume`, `classify`, `finalize`, `completeRemoval`, log boundary | store, workspace, Secret binder |
| Registration and evidence | `lifecycle/{registration,claims,additive,handoff}.go`, `reconciliation/evidence.go`, `contextguard` | the context's mutation evidence, the claim | `protect`, `bind`, `register`, `publish`, `restoreEvidence`, `collect`, `Check` | workspace transactions |
| Adapter runner | `reconciliation/ansiblerunner` | job directories and their locks | claim, run, release, sweep | adapters, through the session |
| Adapter session | `adapterprotocol`, judged by `ansiblerunner` or `controller/ansiblelocal` | one run's records, acknowledgements, exit and drain | `Run`, `receive`, `stop`, `drained`, `reaped`, `outcome` | the adapter's supervisor |
| Context store | `workspace/contextfs`, `workspace/contexts` | the registry, context directories, revisions, the controller record, operation areas and their cached measure | `Reserve`, `Publish`, `Commit`, `Delete`, `admit`/`record` of an area | the file system |
| Capabilities | `storage`, `substrate`, `machine`, `managedos`, `containercluster`, `addons`, `infrastructureservices`, `controller` | real hosts | `Apply`, `Destroy`, `Observe`, `ObserveRemoval`, quiescence probes | adapters |
| Inputs, secrets, CLI | `desiredstate`, `environment`, `secrets`, `cli` | input trees, keyrings | compile, encrypt, render | everything |

### What is hard here

* **Half-done writes.** A start is up to three writes, a completion two. A kill falls between any
  of them, and `contextfs` may report a failure of a rename that landed. Correct: no attempt
  number covers two effects, no effect runs unrecorded, no block is wedged.
* **Unproved effects.** An attempt whose outcome was not read is *unknown*; a *running* record
  found by a later invocation is as good as unknown. Correct: it is observed before anything else
  starts, it becomes done only over a complete effect, and done is final.
* **Concurrency inside an invocation.** Up to `MaxRunningBlocks` goroutines return in any order
  while the main goroutine admits more. Correct: dependencies, exclusive keys, throttles and the
  rule that a failure stops first attempts hold whatever the order.
* **Sequences of invocations.** Full and partial applies, interrupted ones, removals that take
  over a half-finished apply, with memory rebuilt from records each time. Correct: the operation
  record never says more than the block records, and some command always leads on.
* **Phases of a removal.** Pre-stop inverses run out of dependency order; Machines wait for the
  online effects; both boundaries are probed only while nothing runs. Correct: the phases hold
  over the records and no admission waits for ever.

* **Invocations beside one another.** Decisions come from lock-free reads, evidence is raised and
  operations registered in separate transactions, Secret bindings live outside all of them.
  Correct: nobody's holdings are given back by somebody else, and a context that may be deleted
  holds nothing.
* **Processes that outlive their parent.** Adapters inherit a lock and survive a killed
  invocation; sweeps of other invocations meet jobs in every intermediate state. Correct: a
  running adapter keeps its job and nothing starts beside one that was left.
* **Four channels into one loop.** A run's records, exit, drain and cancellation arrive in any
  order. Correct: the verdict is that of what happened, not of what was read first.
* **Visible is not durable.** A rename is seen before the directory is synced; a power loss may
  take it back. Correct: nothing durable is ever built on something that may vanish.
* **Areas at their bounds.** Entries, directories and revisions are bounded. Correct: whatever was
  admitted can be finished and taken back.

`PROJECT.json` lists these as hazards with the line where each one bites and the property that
would catch it.

## 2. Modules

| Module | Models | Notes |
|---|---|---|
| `Reconciliation` | `state.go`, `unproved` | vocabulary and transition tables, shared by all |
| `BlockContract` | abstract specification | what readers of a block record rely on: `state` and `host` of each block, three actions |
| `PlanContract` | abstract specification | what readers of an operation rely on: the block records and the operation record of a plan, four actions |
| `OperationStore` | attempt and resolution records with `attempt`/`resolveUnknown` | one step per durable write |
| `Scheduler` | scheduler, removal gates, invocations | one step per main-loop turn and per goroutine step |
| `Registration` | `registration`, `register_run`, `executor`, `finalization`, `settle`, `contextguard`, `Register`/`Claim` of the store | one step per transaction, durable write or Secret operation of each invocation |
| `OperationArea` | `AdmitAttempt`, `admit`, `removalReserve`, `AdmissionEntries` | counts of entries and directories; records are `OperationStore`'s |
| `AreaMeasure` | the cached measure of `contextfs/operations_linux_amd64.go` | one step per name a scan visits and per landing of a write |
| `Jobs` | `ansiblerunner/{jobs,scope,process}_linux_amd64.go` | one step per file created, locked, read or removed |
| `AdapterRun` | `adapterprotocol` and both judges | one step per branch of the session's `select`, and the adapter's processes |
| `ContextStore` | `contextfs` initialization, publication, commit, revisions and deletion; `contexts.Service` | one step per durable change |
| `OperationStoreProofs`, `SchedulerProofs`, `RegistrationProofs`, `OperationAreaProofs`, `AreaMeasureProofs`, `JobsProofs`, `AdapterRunProofs`, `ContextStoreProofs` | theorems on the module of each name | checked by TLAPS |
| `MCOperationStore`, `MCScheduler`, `MCRegistration`, `MCAreaMeasure`, `MCJobs` | small instances | plans, keys, symmetry sets |

`OperationStore` and `Scheduler` extend `Reconciliation` and instantiate `BlockContract` and
`PlanContract`, the abstract specifications they implement: what a block's records promise on their
own, and what the records of a whole plan promise together. `Registration` and `OperationArea`
extend `Reconciliation` as well. Each module abstracts what another one details: a goroutine's start and end are one step each in `Scheduler`, an operation has one block
in `Registration`, and only its count of entries in `OperationArea`. `ContextStore` sees an
operation as the revision it was planned from (`applied`).

### OperationStore and the code

`record` is a block's `state.json`, `attempt` its `attempt-N.json` files, `resolution` the last
resolution of each attempt (what `LastResolution` reads back). `known` and `tried` are what the
scheduler holds. `pc` is the point a block's goroutine has reached:

    idle -> publish -> allocate -> count -> open -> [reread] -> ready -> effect -> complete -> settle
                       adopt    ----^                                               ^
    idle -> reserve -> observe -> resolved -----------------------------------------+

`StartAttempt` chooses the first write from what an interrupted start left (`FirstWrite`);
`PublishPending`, `AllocateAttempt`, `AdoptAttempt` and `CountAttempt` are the writes of
`Store.StartAttempt`. `OpenLog`, `ReadAgain`, `Prepare`, `Effect` and `Return` are the body of
`Service.attempt`; `CompleteAttempt` and `CompleteResolution` followed by `PublishState` are the
two writes of `completeRecord`. Every write goes through `Write`: it lands and succeeds, or its
caller is told of a failure with or without the record having landed. `Exit` is the end of an
invocation and a kill alike, with goroutines anywhere. `host` and `ranUnder` belong to the
environment and to the history; no guard of the engine's own steps reads them.

A capability is external. It is assumed to report `changed`, `unchanged` or `completed` only over
a complete effect, and absence only of an absent one. The contract of the records rests on that
assumption, and so does the code.

### Scheduler and the code

Blocks are positions of the frozen plan. `at` is where the main goroutine is: `check` (read the
cancellation), `admit`, `wait` (for a result), `finish`. `Candidates` is `next()` with
`nextPreStop` and `firstAdmission`; the first of them in plan order starts. `Admit`,
`ProbeRefuses` and `Admitted` are the three ways one turn of `admit()` goes: a block starts, a
boundary's probe refuses, or nothing more may start now. `Begin`, `Refuse`, `Return` and
`Observe` are the goroutine. `LatchFault` is the log boundary, `Cancel` the operator.
`Resume`, `ResolveMember`, `Finish` and `Finalize` open and close an invocation; `Crash` may
happen anywhere. `Fault` counts every failure of the environment against `MaxFaults`; what a
cancelled context makes fail costs nothing more. `Machines` and `PreStopMachines` are the
deferrals of `removal_phases.go` over the plan's dependency order.

`Spec` follows one registered operation; what surrounds it is `Registration`'s.

### Registration and the code

`evidence` is the context's mutation evidence, `index` the operation index, `dir` and `op` each
operation directory and its record, `reserved` the controller's host reservation, `bindings` the
Secret bindings, `lease` the context's exclusive lock, `effects` the operations whose effects some
host holds (history). Each invocation has a place `at` and what it remembers from earlier reads.
An invocation starts, lists, reads (`View`), decides (`Decide`: `decideBy` over `classify`),
claims and raises (`protect`), opens its bindings, registers under reproof (`Register`,
`Reprove`), writes plan, operation and index, works, finishes and projects. Failure paths are
`RestoreEvidence`, `GiveBack` (`releaseUnclaimed`), `Collect` and `Unbind`. A lease held elsewhere
turns an invocation away. Each write may land and report a failure; `Crash` may fall anywhere.

### OperationArea and AreaMeasure and the code

`OperationArea` counts: seven entries of an operation's own, six per block after its first
attempt, three of them once (`FirstPassEntries`, `AttemptEntries`). `own` is what each attempt in
flight may still write; `AttemptAdmitted` is `AdmitAttempt` with `removalReserve`.

`AreaMeasure` is the mutex-protected cache those decisions read: `Ask`, scan steps, the answer,
the landing, and the settlement that counts a write or forgets the measure when the outcome is not
known.

### Jobs and AdapterRun and the code

In `Jobs`, `disk` is what each job's directory holds, `lockFd`, `holderFd` and `adapter` say who
holds its two locks. A run sweeps (`seize`, `attribute`, `lockDirectory`, `remove`), claims, runs
and releases. A sweep lists the jobs and the scratch there is when it begins, and removes with a job
only the scratch it listed (`paired`). `Kill` ends an invocation and closes its descriptors; adapters go on.

In `AdapterRun`, `run` is the `session` struct, and `cancel`, `drained`, `reaped`, `readEnded`,
`stop`, `killGroup` and `outcome` are its methods as functions of it. `judge.of` says which runner
reads the protocol: the lifecycle's, the lifecycle's in a run that only reads or whose request
offers no preparation (`unprepared`), or the controller's. A refusal the lifecycle request does not
name is read as one of the phases it does not know (`internal`). The supervisor and playbook are external; how they wait for `proceed` is read
from `controller_channel.py` and `controller_supervisor.py`.

### ContextStore and the code

Four things are kept on disk: `registry`, `container`, `tree` and `claims`. Each is a pair: what is
visible (`now`) and what a power loss may leave (`may`, all versions since the last sync). A step
that succeeds ends in a sync and leaves one version; one that is stopped leaves any prefix of its
versions visible and all of them possible. A claim made over a durable ready record is `sure`; it
is `left` where a drop of it was renamed and not synced. `PowerLoss` picks one version of each independently.
`pc` is the step within `Reserve`, `Publish`, `Commit` or `Delete`, all under the root lock.

## 3. Runs

| Run | Instance | Distinct states | Shows |
|---|---|---|---|
| `store_destroy` | 1 block, replay-safe destroy, 2 attempts, 2 builds | 560 420 | what the records and the memory of them promise; `ImplementsContract` |
| `scheduler_apply` | 4 blocks, one key, one throttle, full and partial selections, 3 faults | 771 529 | admission and the operation record; `ImplementsContract`; repetition completes the operation |
| `scheduler_removal` | 6 blocks, pre-stop and online phases, 2 faults | 188 416 | phases; every invocation ends |
| `registration_pair` | 2 invocations, 2 applies, 1 fault | 954 283 | `DisposalSafe`, `HoldingsKept`, `EffectsOwned` |
| `registration_alone` | 1 invocation at a time, 1 apply, 4 faults, an update of the input | 465 251 | `InputFrozen`; a repeated destroy recovers |
| `area_bounds` | 68 entries, 4 directories, plans of up to 2 blocks, 1 stopped registration | 548 486 | what is admitted fits and can be removed |
| `area_resolution` | the same without a stopped registration | | refutes a comment and a test (section 6) |
| `area_measure` | 2 writers, 3 names, 3 scans | 424 990 | the cached measure is exact, and how far writers beside one another pass the bound |
| `jobs` | 2 invocations of one context, 2 runs, 2 jobs, 2 kills | 1 700 217 | sweeps and claims keep apart |
| `adapter` | both judges, with and without a preparation, 2 tools, one line out of place, 1 fault | 1 151 240 | the verdict of a run |
| `context_store` | 2 directories, 3 revisions of which 2 fit, 4 faults | 499 127 | what a crash or power loss leaves |
| `context_claims` | 1 directory, 2 revisions, 2 faults | | refutes two comments (section 6) |

Bounds. `MaxAttempt` 2 is the least at which a retry, an adoption after a counted attempt and a
second inconclusive reading can occur; the proofs remove the bound. In the scheduler the plan holds
one of each relation that matters: a dependency, two blocks of one key, two of one throttle, a
block free of all three; `Bound` 2 makes admission wait for a free slot, and three faults allow a
crash, then a failed write, then an unknown outcome within one behaviour. The removal plan has both
deferred phases, with an online effect that is a Machine's host and one on its own. Two
registrations beside one another need two invocations; with one fault each can be caught half
done by the other. Four faults in `registration_alone` let a registration, the removal of what it
left, and the finalization of that removal each fail once. 68 entries are what two operations of
two blocks leave no more than a few entries of, so every admission is met at its exact bound. Two
writers suffice for a scan beside a write, and three names for one being made, one removed and one
kept. In `jobs` two kills leave an adapter and then a half-done sweep. In `adapter` two tools are
the least with a continuation that is not the last. In `context_store` four faults allow an
initialization stopped, a retry stopped, a power loss and a stopped deletion; two directories let
a name be reused; two revisions that fit of three make the bound bite. A violation that needs more
independent faults than that is out of reach of these runs;
what section 4 proves holds at every bound.

`CHECK_DEADLOCK` is off where the system may really stop: a completed operation, an area or a
context whose bounds are used up, a returned run. `WayOn`, `NeverStuck`, `RemovalRegisters` and
`DirectoryAccounted` say of those states what a deadlock check would only approximate. The store's
and the registration's runs keep it on.

Fairness, used for `InvocationEnds`, `Converges` and `Recovers` only. Scheduler: weak fairness of
the main goroutine and of every block's goroutine (the Go runtime schedules them, and an adapter
call ends because `ansiblerunner/process_linux_amd64.go` puts a deadline on every run), weak
fairness of finalization, and strong fairness of a resume over the whole plan: the operator repeats
the command, which is what every remedy tells the operator to do. Registration: weak fairness of a
process's own steps and strong fairness of starting a destroy, for the same reason. Faults are
bounded, never fair, so both are "once faults cease".

Every property of every passing run has a mutant in `PROJECT.json`, a plausible bug in a mapped
definition under which TLC finds that property violated. Each module defines its type invariant
`TypeOK`, which no run lists: section 4 proves it of every module.

## 4. Proofs

Eight modules prove every safety property of the passing runs but `NeverStuck`, for every value of
the constants; what is left, and why, is said at the end of this section. Each proof has the same
shape: an inductive invariant `IInv`, `Init => IInv`, one lemma per action that it preserves
`IInv`, and the properties as consequences of `IInv`. Each theorem but `FirstPassAlwaysFits`
assumes nothing but the named assumption its module makes about its constants, which TLC evaluates
in every run.

Three modules have one more kind of theorem. That an invocation or a run ends is a liveness
property, which the prover cannot state a proof of; its two halves are safety properties, and those
are proved. One is that something is always ready to be done (`NeverWaitsInVain`,
`NeverWaitsForEver`, each a disjunction of the guards of the component's own actions, named beside
them); the other that each thing done leaves less to do, from a bound in the constants
(`InvocationCountsDown`, `StepsCountDown`, `InvocationsCountDown`, each a natural number that every
step lowers). What is left to fairness is that a step which stays ready is taken.

### OperationStore

`OperationStoreProofs` proves, for any set of blocks and builds, either verb, any replay-safe set
and any positive attempt bound (`OperationStoreAssumption`, nothing else):

| Theorem | States |
|---|---|
| `Inductive` | `Spec => []IInv` |
| `TypeCorrect` | `TypeOK` |
| `StartIsDurable` | `RecordedBeforeEffect` |
| `AdoptionSafe` | `EffectOnce` |
| `NeverWedged` | `NextStartable` |
| `BuildRecorded` | `BuildNamed` |
| `MemoryNeverAhead` | `MemorySound` |
| `ReplayedOnce` | `RetriedOnce` |
| `Finality` | `RecordsFinal` |
| `Refinement` | `Spec => Contract!Spec` |

None of the invariants is inductive alone. That an adopted number never ran an effect, for
instance, needs that an effect runs only after `CountAttempt`, hence that `pc` at or beyond `open`
implies a counted attempt, hence that the record at the next number is untouched by preparation
and resolution. `IInv` is `TypeOK` and, for every block, `BlockInv`, the conjunction of:

* `Records`: which attempt and resolution records exist, relative to the counted attempts;
* `Starting`, `Running`, `Resolving`, `Settling`: what holds of the records at each group of `pc`
  values;
* `Memory`: what the invocation may hold of the block;
* `Effects`: what ran, under which numbers and builds, and what `done` says of the host;
* `Inconclusive`: where an inconclusive resolution may stand.

Because each action touches one block, the proof is one lemma per action for the block it works,
one lemma that other blocks are left alone, and `Begin`/`Exit` for all blocks at once. The
refinement maps every step to an abstract `Start`, `Change`, `Settle` or a stutter from the same
invariant.

### ContextStore

`ContextStoreProofs` proves, for any revisions (positive numbers) and any bounds on retained
revisions, directories and faults (`BoundAssumption`, nothing else):

| Theorem | States |
|---|---|
| `Inductive` | `Spec => []IInv` |
| `ContextTyped` | `TypeOK` |
| `ContextWhole` | `ReadyWhole` |
| `NameAccounted` | `DirectoryAccounted` |
| `ClaimsKept` | `OnlyLeftClaimDangles` |

The three properties speak of what is visible, and a power loss makes any version visible, in any
combination with the others. So the invariant quantifies over versions. `IInv` is the conjunction
of:

* `Typed`: what is visible is one of the versions, and all are of their type;
* `Disk`: every version of the record is `Fine` beside every version of the container, the
  directories and the claims. `Accounted` relates a record to an entry of the container, `Whole` a
  ready record to its directory; no version is ready while the visible record is absent or
  initializing; an operation is recorded in its evidence;
* `Control`: what the command under the root lock relies on at each `pc`, mostly which of the four
  are `Synced` (`Reservation`, `Publication`, `Deletion`).

`Disk` does not depend on `pc`, which is why a command may stop anywhere: the steps that stop go to
`idle`, where `Control` claims nothing. Each effect (`save`, `place`, `hold`, ...) has a lemma that
it preserves `Disk` when its new version suits every other version, and each action then has to
show only that its version does. This is where a missing sync would fail: `Commit` needs the tree
synced, `recordIdentity` and `markDeleting` the container, `collectRevision` the registry, and
`forgetName` that no version of the container holds a directory and none of the claims a sure
claim. That no version holds any claim is not true of the code (section 6).

### Scheduler

`SchedulerProofs` proves, for every frozen plan (dependencies on earlier blocks; any keys, groups,
removal phases and selections) and any bounds on what is in flight, throttles and faults
(`SchedulerAssumption`):

| Theorem | States |
|---|---|
| `TypeCorrect` | `TypeOK` |
| `HeldApart` | `ResourcesHeldApart` |
| `DependenciesFirst` | `DependenciesDone` |
| `PhasesKept` | `PhasesInOrder` |
| `OperationsSound` | `OperationSound` |
| `NeverStranded` | `WayOn` |
| `NoneBesideUnproved` | `NothingBesideUnproved` |
| `Refinement` | `Spec => ImplementsContract`, that is `Contract!Spec` |
| `NeverWaitsInVain` | until the invocation is down, the main goroutine or one in flight has a step |
| `InvocationCountsDown` | every step of an invocation lowers `Rank`, at most `38 * N + 5` |

`IInv` is `TypeOK` with:

* `Flight` and `Known`: what the scheduler holds of a block that is not in flight is its record or
  *unknown*, never more; what a goroutine is about to report likewise;
* `Apart`: the *active* blocks, those in flight or whose record is unproved, never share a key and
  never exceed a throttle. This is what `ResourcesHeldApart` needs and does not say: `next()`
  admits an observation without asking `free()`, so the blocks an earlier invocation left unproved
  must already be apart from one another. They are, because an attempt starts only when every block
  not in flight is proved (`NothingBesideUnproved`), so `free()` compared each block that became
  active with all the others;
* `Holding`: a block in flight holds its keys;
* `Order`: a block that ever started has its dependencies and its phase durably done, which stays
  so because done records are final;
* `Operation`: the operation record, and what `finish` has derived it from.

`Refinement` maps the records to themselves and forgets everything else. `Begin`, and a `Refuse`
whose write landed, are the contract's `Start`: that the block is in order follows from `Order`'s
history, that it is apart from every effect that *may* be under way from `Apart`, although no guard
of the goroutine reads either. `Return` and `Observe` settle, `Resume` and `ResolveMember` resume,
`Finish` and `Finalize` conclude. So the contract holds for whoever reads the records between two
invocations, or after a kill, and not only for what is in flight, which is what
`ResourcesHeldApart` speaks of.

`InvocationCountsDown` counts, for each block, whether it is still to be observed and worked
(`observed` and `worked` only grow) and how far its goroutine is; and then how far the main
goroutine's turn is. A turn that admits nothing waits, and a result lowers the count by more than
the turns it can cause.

### Registration

`RegistrationProofs` proves, for any set of invocations and any bounds on applies, faults and
revisions (`RegistrationAssumption`):

| Theorem | States |
|---|---|
| `TypeCorrect` | `TypeOK` |
| `NothingAbandoned` | `DisposalSafe` |
| `HoldingsNeverTaken` | `HoldingsKept` |
| `EffectsReached` | `EffectsOwned` |
| `InputNeverMoved` | `InputFrozen` |
| `InvocationsCountDown` | every step of an invocation lowers its `Rank`, at most `2 * MaxId + 49`, and no other's step changes it |

Invocations share the context through a lease held for one transaction at a time, so what one
decided over may be gone when it acts. `IInv` is in three parts:

* `Recorded`, of the durable records: identities are handed out once (`Allocated`), the indexed
  operation accounts for every effect (`Indexed`), the evidence claims no more than index and
  reservation show (`Projected`);
* `Local(p)`, of one invocation in each phase: what it holds the lease for, what it may still rely
  on of its reads. A fresh apply between its two transactions relies on nothing at all if it is
  `Doomed`, that is if `reprove` will refuse it;
* `Beside(p, q)`, of two: no two have the same new identity, and a fresh apply that waits is
  either doomed or spared by everyone who collects bindings (`Unlisted`, `Unawaited`, `Spares`).

The last part carries `HoldingsKept`: a collector decides by lists it made earlier, and the proof
shows that a binding made since is not on them, or belongs to an apply that will be refused.

`Rank` is the longest way a phase has to its end (`Place`), and there are three places where the
code goes back: a collection for each binding held, the observation that fails a block before it is
worked, and a removal of a failed apply, which marks it running and projects that before it
observes its block (`Detour`). The last ends only because an apply marked running is not marked
again, and because the block is proved where the state is derived from it; `Reread` says both and is
the invariant added to `IInv`. A finalization decides again, once (`MayRepeat`). That no other
invocation changes the count follows from the lease: what a rank reads of the records is written
under it alone (`WritesLeased`).

### OperationArea and AreaMeasure

`OperationAreaProofs` proves, for any bounds of the area, any number of blocks and any reserve
(`AreaAssumption`):

| Theorem | States |
|---|---|
| `TypeCorrect` | `TypeOK` |
| `AttemptsFit` | `AdmittedFits` |
| `RemovalAlwaysRegisters` | `RemovalRegisters` |
| `FirstPassAlwaysFits` | `FirstPassFits`, if `ReservedEntries >= 8 + 5 * Interruptions` |

`IInv` counts what may still be made: `Fits` adds to the entries held those that attempts in flight
still owe (`Left`) and the directory the first of them makes for the operation; `Kept` says that an
apply leaves its removal's admission beside all of that. The first pass needs more than `IInv`:
`Pass` counts six entries for every block the pass has not come to and what the apply must leave
aside at each admission, which shrinks by at most five with each stopped registration: stopped
between its record and the index, it leaves the directory, the plan, the record and its two
subdirectories (`store.go:154-167`). Hence the hypothesis of the last theorem; it is one on the code's constant, not on its behaviour. The code
reserves 1024 entries (`records.go:72`), which is enough for 203 stopped registrations in one
area.

`AreaMeasureProofs` proves, for any finite sets of writers and names and any bounds
(`MeasureAssumption`):

| Theorem | States |
|---|---|
| `BoundAlmostKept` | `BoundKept` |
| `MeasuredExactly` | `MeasureExact` |
| `TypeCorrect` | `TypeOK`, and with it that `entries` and `bytes` are never negative |

What separates the measure from the subtree is the writes that landed and are not settled, and they
differ in what they owe it. `Measured` says that the entries present are those counted, plus the
writes that added one and are not counted (`Uncounted`), less the removals that are not counted
(`Undone`), or fewer where some write may have failed or was admitted against an earlier measure.
`Walked` says the same of a scan under way; `Within` says that the entries present and those
coming pass the bound by fewer than there are writers, since each was admitted by a measure that
missed the others only. Bytes are kept the same way in a second invariant, `Weights`: the subtree's
bytes are its units of bytes (`Stored`), a write's change is the units it added (`Gained`) or took
away (`Lost`), and a step changes the units of one name and of one writer (`PartChanged`), which
takes the place of an induction over a sum.

That the counts stay counts needs a third (`Counts`). A removal is subtracted when it is settled,
perhaps long after it landed, so a count must hold what is still to be subtracted. `Standing` says
it holds at least the removals and shrinkages that landed and are not counted (`Undone`, `Owing`)
*and*, beside them, the entries and units of the names that no write may still take from it
(`Sure`, `SureUnits`: nobody is settling the name, or only writes admitted against this very
measure). `Walking` says that a scan has counted each name it passed that nobody was writing, which
is what makes `Standing` true of the measure a scan ends in.

### Jobs

`JobsProofs` proves, for any invocations, contexts, runs, jobs and kills (`JobsAssumption`):

| Theorem | States |
|---|---|
| `TypeCorrect` | `TypeOK` |
| `AdapterKept` | `AdapterKeepsJob` |
| `ClaimsUndisturbed` | `ClaimUndisturbed` |
| `MaterialFound` | `MaterialRecorded` |
| `ReportsSound` | `ReportSound` |
| `StartsAlone` | `NoneBesideTheLeft` |

`IInv` is `Typed`, `Lease`, `Runs`, `Handles`, `Contents` and `Processes` (what a run has, holds and
has written at each place, and that a process runs only for a job whose run got that far),
`MaterialRecorded`, and `Sweeps`. `Sweeps` is what the properties turn on: a job nobody holds is
never held again, so what a sweep seized stays its own; and a sweep under an exclusive lease that
has not refused has every process left behind in its context still before it, which makes the
absence of a refusal mean something when the run creates its job (`StartsAlone`, an action
property).

### AdapterRun

`AdapterRunProofs` proves, for any number of tools, lines out of place, strays and faults and both
judges (`BoundAssumption`):

| Theorem | States |
|---|---|
| `TypeCorrect` | `TypeOK` |
| `EffectsPrepared` | `EffectPrepared` |
| `StoppedRunsEnded` | `StoppedEnded` |
| `FailuresUntouched` | `FailedUntouched` |
| `CompletionsProved` | `CompletedProved` |
| `OrderIrrelevant` | `WhicheverReadFirst` |
| `NeverWaitsForEver` | until it has returned, the run has a step of its own to take |
| `StepsCountDown` | every step of the run lowers `Remaining`, at most `2 * MaxRecords + 9`, and no step of its adapter's changes it |

`IInv` is `TypeOK` with `Life` (how far the session knows of the processes and channels), `Acks`
and `Ruled`. `Acks` says that an acknowledgement not yet read answers the last line written: the
playbook cannot take it for another record's, so an effect implies that its own record was
acknowledged. `Ruled` says that unless something other than the lines and the exit had a part
(`Spoiled`), the session stands where the lines it took put it, or ended on the first line that
ends the protocol. That is what makes the verdict independent of the order of exit, drain and
lines.

`NeverWaitsForEver` is about the session's own steps, timers included, and not the adapter's: a
playbook that hangs, a supervisor that ignores its signal or a worker that keeps a channel open
cannot hold the run. It needs that a canceled session has told its adapter to end, that the drain
timer is armed or has killed the group, and that the channel is closed and the reap due once it has.

### What stays with TLC

* The liveness properties `InvocationEnds`, `Converges` and `Recovers`: liveness under fairness is
  outside what the prover does. Of `InvocationEnds` the readiness and the measure are proved; of
  `Recovers`, that each invocation counts down. That repeating the command brings the records
  forward is TLC's to say.
* `NeverStuck`, which says that some action is `ENABLED`; `NeverWaitsForEver` proves the same of the
  guards as they are written, for every constant.
* That `Registration`'s identities suffice (`MaxId`), a bound of the model: `Recovers` would fail
  on an invocation left without one.
* `ResolutionFits` and `NoDanglingClaim`, which the code violates (section 6).

## 5. Properties by what they protect

* Records: `RecordedBeforeEffect`, `EffectOnce`, `NextStartable`, `BuildNamed`, `RetriedOnce`, the
  theorem on `RecordsFinal`, and the two `ImplementsContract` as their sum for readers, of one block
  (`BlockContract`) and of a plan (`PlanContract`).
* Memory against records: `MemorySound`, `OperationSound`, `MeasureExact`.
* Admission: `NothingBesideUnproved`, `ResourcesHeldApart`, `DependenciesDone`, `PhasesInOrder`.
* Bounds: `AdmittedFits`, `RemovalRegisters`, `FirstPassFits`, `BoundKept`.
* The context: `DisposalSafe`, `HoldingsKept`, `EffectsOwned`, `InputFrozen`, `ReadyWhole`,
  `DirectoryAccounted`, `OnlyLeftClaimDangles`.
* Adapters: `AdapterKeepsJob`, `ClaimUndisturbed`, `MaterialRecorded`, `ReportSound`,
  `NoneBesideTheLeft`, `EffectPrepared`, `StoppedEnded`, `CompletedProved`, `FailedUntouched`,
  `WhicheverReadFirst`.
* The way on: `WayOn`, `InvocationEnds`, `Converges`, `Recovers`, `NeverStuck`, and the theorems on
  readiness and on what counts down.

Some remarks.

* `ResourcesHeldApart`: `next()` admits observations without asking `free()`. That is sound only
  because two unproved blocks never share a key, which follows from the history of admissions over
  all earlier invocations; `Apart` in `SchedulerProofs` is that history's sum.
* `DisposalSafe` and `HoldingsKept` are about the gap between `protect` and `register`. The
  evidence an apply raised may have been lowered by another invocation and raised by a third, so
  equal evidence proves nothing; `reprove` has to read the index and the claim as well (the mutant
  that only compares evidence loses a binding).
* `OnlyLeftClaimDangles` speaks of claims made over a durable ready record and not being dropped
  (`sure`). What becomes of the other ones is in section 6.

## 6. Findings and observations

**A resolution that does not fit** (`area_resolution`, `operationstore/store.go:292`). The
admission of an apply's attempt keeps what the removal registers with and six entries for each
resolution, and the resolution itself is admitted with one entry more than that. An apply whose
attempts were admitted exactly at the bound and that was stopped leaves an unproved block whose
resolution is refused, so the removal that needs it proved does not register.
`operationstore/store_test.go:1724` says that an attempt keeps "one resolution free for each of
them" and `operationstore/records.go:55` that the removal therefore registers.

**A claim that outlives its context** (`context_claims`,
`contextfs/controller_retirement_linux_amd64.go:37`). `retireToolAreas` publishes and syncs the
controller record only if its new form differs from the visible one, and returns without a sync
where nothing retires. The trace: a deletion drops the context's binding, and is stopped after the
rename of the record and before the sync of its directory (`publication_linux_amd64.go:75-90`); it
is repeated, finds the binding gone, syncs nothing, and durably forgets the name; a loss of power
brings the binding back. No registry record names its context any more, so
`validateControllerReferences` (`controller_records.go:216`) refuses every transaction, the
deletion's own repetition included. `controller_linux_amd64.go:484` says that a deleted context "can
hold neither" binding nor reservation, and `:43` that repeating the deletion "settles an uncertain
controller record publication". What does hold is that no claim dangles but one whose drop was
stopped in that place (`OnlyLeftClaimDangles`), which `context_store` checks and `ClaimsKept`
proves.

Met while modelling, stated here without a run of their own:

* `lifecycle/scheduler_test.go:507` says that no run leaves two failed blocks that share a
  resource. An invocation that selects only the second of two blocks of a key and is killed, then
  one over the whole plan that observes it failed, leaves both failed: `firstAdmission`
  (`scheduler.go:276`) counts only failures of blocks this invocation worked. The engine copes
  (`Converges` covers it).
* `ansiblerunner/scope_linux_amd64.go:53` refuses a run beside what an *exclusive* invocation of
  its context finds left; an inspection, which leases its context shared, may run an adapter
  beside one, so `specs/cli/output.md:1070` holds for apply and destroy only.
  `NoneBesideTheLeft` states it for those.
* A registration of a removal that is stopped part way keeps its directory until it is reclaimed
  (`store.go:241`). `RemovalRegisters` therefore excludes a removal whose own registration was
  stopped, which `records.go:64` does not.
* A commit stopped between the registry's rename and its sync leaves a ready record that is
  visible and not durable. It can be bound and applied. After a power loss the record reads
  initializing again while the controller record still names the context, and
  `validateControllerReferences` refuses every transaction. `ContextStore` marks such a claim
  `unsure`.
* `populateContextReservation` writes `context.yaml` and the evidence in place. A kill in the
  middle leaves a torn file that every repeated `context init` refuses; only a deletion with its
  purge leads on. `openContextReservation` and its followers show this as a refusal.

## 7. Not modelled

* Adapters' effects, the roles of the Ansible collection and the capabilities are external: what
  they do to a host and what they observe are nondeterministic choices.
* Parsing, compilation of the desired state, rendering, prompts and diagnostics carry no state the
  properties speak of. They are most of the repository's lines.
* `Registration` leaves out additive applies and the lineage of several of them, rebinding,
  produced material, host binding, the paused state and log faults; deletion of the context is the
  guard's answer there and `ContextStore`'s steps here.
* `OperationArea` leaves out bytes, bounded by the same arithmetic.
* `Jobs` leaves out the read bounds of a sweep and names that are not the runner's.
* `AdapterRun` leaves out the limit on the number of records, warnings and progress callbacks. What
  a refusal must match to be named (its reason, a native error the request allows) is abstracted to
  whether it does. In an `unprepared` run no effect is awaited that a preparation would have
  preceded: what such a run does to its host is its capability's.
* `ContextStore` leaves out the publication of the first registry, the stages of a registry write,
  the secrets and media areas, setup, lost and foreign directories, controller recovery and reuse
  of inode numbers.
* Secrets' keyring and custody, network and host admission of the controller are not modelled.

## 8. Plan

1. `PlanAlgorithms`: ordering, inversion, retention, selection binding and lineage as functions,
   checked against reference definitions over all small plans.
2. Additive applies and lineage in `Registration`, and their share of the proofs.
3. The keyring's rewrap and the binding records of `secrets/custody`.
4. An abstract specification of the context (its evidence, its operation and what it holds) that
   `Registration` implements, as `Scheduler` implements `PlanContract`.
