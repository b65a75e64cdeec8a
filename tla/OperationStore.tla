--------------------------- MODULE OperationStore ---------------------------
(***************************************************************************)
(* The attempt and resolution records of one registered operation          *)
(* (internal/reconciliation/operationstore/store.go) under the code that   *)
(* writes them, the attempt and the resolution of a block                  *)
(* (internal/reconciliation/lifecycle/attempts.go).                        *)
(*                                                                         *)
(* One invocation at a time holds the store.  It works several blocks      *)
(* together, a goroutine each, every goroutine writing only its own        *)
(* block's records.  A start and a completion are two writes each, and the *)
(* process can be killed before, between and after any of them; every      *)
(* write can also report a failure, with or without the record having      *)
(* landed (the rename succeeded, the directory sync did not).              *)
(*                                                                         *)
(* Which block is worked when is the scheduler's decision and is left open *)
(* here: an invocation attempts a block its states show pending or failed, *)
(* and resolves one they show unproved, each at most once.                 *)
(***************************************************************************)
EXTENDS Reconciliation, Integers

CONSTANTS
  Block,        \* blocks of the frozen plan
  OpVerb,       \* the verb the operation froze
  ReplaySafe,   \* blocks whose removal may be replayed over an unreadable target
  MaxAttempt,   \* reconciliation.MaxAttempt: the last attempt or resolution number
  Build         \* builds an executable may be

ASSUME OperationStoreAssumption ==
  /\ OpVerb \in Verb
  /\ ReplaySafe \subseteq Block
  /\ MaxAttempt \in Nat \ {0}

VARIABLES
  \* durable
  record,       \* block -> its state.json: whether it exists, state and attempts counted
  attempt,      \* block -> number -> its attempt-N.json
  resolution,   \* block -> attempt number -> the last resolution allocated against it
  \* the invocation
  up,           \* an invocation holds the store
  build,        \* the build it runs under
  known,        \* block -> the state the scheduler holds for it
  tried,        \* block -> "observed" / "worked", what this invocation did with it
  pc,           \* block -> where its goroutine is
  verdict,      \* block -> the transition its goroutine is publishing
  \* the host
  host,         \* block -> how far its effect is realized
  ranUnder      \* history: block -> number -> the builds its effect began under, in order

vars == <<record, attempt, resolution, up, build, known, tried, pc, verdict, host, ranUnder>>
durable == <<record, attempt, resolution>>
world == <<host, ranUnder>>

Number == 1..MaxAttempt

Host == {"absent", "partial", "complete"}

NoBuild == "none"

BlockRecord == [file: {"absent", "present"}, state: BlockState, attempts: 0..MaxAttempt]

AttemptRecord == [phase: {"absent", "running", "observed"}, build: Build \cup {NoBuild},
                  before: {"none", "published"}]

NoAttempt == [phase |-> "absent", build |-> NoBuild, before |-> "none"]

\* A resolution is read back only as the last one of its attempt (LastResolution).
ResolutionRecord == [count: 0..MaxAttempt, phase: {"absent", "running", "observed"}, effect: EffectState]

NoResolution == [count |-> 0, phase |-> "absent", effect |-> "unknown"]

Verdict == [effect: EffectState, state: BlockState]

NoVerdict == [effect |-> "unknown", state |-> "unknown"]

Ran == [times: Nat, build: Build \cup {NoBuild}]

NotRan == [times |-> 0, build |-> NoBuild]

Steps == {"idle", "publish", "allocate", "adopt", "count", "open", "reread", "ready", "effect",
          "complete", "reserve", "observe", "resolved", "settle"}

TypeOK ==
  /\ record \in [Block -> BlockRecord]
  /\ attempt \in [Block -> [Number -> AttemptRecord]]
  /\ resolution \in [Block -> [Number -> ResolutionRecord]]
  /\ up \in BOOLEAN
  /\ build \in Build
  /\ known \in [Block -> BlockState]
  /\ tried \in [Block -> SUBSET {"observed", "worked"}]
  /\ pc \in [Block -> Steps]
  /\ verdict \in [Block -> Verdict]
  /\ host \in [Block -> Host]
  /\ ranUnder \in [Block -> [Number -> Ran]]

Init ==
  /\ record = [b \in Block |-> [file |-> "absent", state |-> "pending", attempts |-> 0]]
  /\ attempt = [b \in Block |-> [n \in Number |-> NoAttempt]]
  /\ resolution = [b \in Block |-> [n \in Number |-> NoResolution]]
  /\ up = FALSE
  /\ build \in Build
  /\ known = [b \in Block |-> "pending"]
  /\ tried = [b \in Block |-> {}]
  /\ pc = [b \in Block |-> "idle"]
  /\ verdict = [b \in Block |-> NoVerdict]
  /\ host = [b \in Block |-> "absent"]
  /\ ranUnder = [b \in Block |-> [n \in Number |-> NotRan]]

-----------------------------------------------------------------------------
(* Invocations *)

\* A continuation takes the store and reads every block record (BlockStates).
Begin ==
  /\ ~up
  /\ up' = TRUE
  /\ build' \in Build
  /\ known' = [b \in Block |-> record[b].state]
  /\ tried' = [b \in Block |-> {}]
  /\ UNCHANGED <<durable, pc, verdict, world>>

\* The invocation ends, or the process is killed with goroutines anywhere.
Exit ==
  /\ up
  /\ up' = FALSE
  /\ pc' = [b \in Block |-> "idle"]
  /\ known' = [b \in Block |-> "pending"]
  /\ tried' = [b \in Block |-> {}]
  /\ verdict' = [b \in Block |-> NoVerdict]
  /\ UNCHANGED <<durable, build, world>>

-----------------------------------------------------------------------------
(* One write of a record.  It lands and its writer is told so, or its      *)
(* writer is told of a failure, with or without the record having landed.  *)
(* `succeeded` and `failed` are what the scheduler may then hold for the   *)
(* block.                                                                  *)

Write(b, change, next, succeeded, failed) ==
  /\ \/ /\ change
        /\ pc' = [pc EXCEPT ![b] = next]
        /\ known' = [known EXCEPT ![b] = succeeded]
     \/ /\ change \/ UNCHANGED durable
        /\ pc' = [pc EXCEPT ![b] = "idle"]
        /\ \E s \in failed : known' = [known EXCEPT ![b] = s]
  /\ UNCHANGED <<up, build, tried, verdict, world>>

\* Mutant: the block keeps the state it had, and its record is not read again.
DurablePrior(r, b) == {known[b]}

\* scheduler.durable: a block whose start or resolution did not happen holds
\* what its record reads, or unknown when that cannot be read either.
Durable(r, b) == {r[b].state, "unknown"}

Reread(b) == \E s \in Durable(record, b) : known' = [known EXCEPT ![b] = s]

-----------------------------------------------------------------------------
(* StartAttempt *)

CountedPlusOne(b) == record[b].attempts + 1

\* adoptable: the record at the next number is an interrupted start that no
\* effect can have run under.
Adoptable(b, n) ==
  /\ record[b].file = "present"
  /\ attempt[b][n].phase = "running"
  /\ attempt[b][n].before = "none"
  /\ resolution[b][n].count = 0

\* Mutant: the attempt is counted without a record of its own.
FirstWriteUnallocated(b, n) == "count"

\* Mutant: the attempt record is created before the block has one.
FirstWriteUnpublished(b, n) ==
  IF attempt[b][n].phase = "absent" THEN "allocate"
  ELSE IF attempt[b][n].build # build THEN "adopt" ELSE "count"

\* The first write a start calls for, by what an interrupted one left.
FirstWrite(b, n) ==
  IF attempt[b][n].phase = "absent"
  THEN IF record[b].file = "absent" THEN "publish" ELSE "allocate"
  ELSE IF attempt[b][n].build # build THEN "adopt" ELSE "count"

\* attempt(): refused before it writes anything (an unreadable dependency
\* record, the area's reserve, exhausted numbering, a record that is not
\* adoptable), or on to the first write its records call for.
StartAttempt(b) ==
  /\ up /\ pc[b] = "idle"
  /\ known[b] \in {"pending", "failed"}
  /\ "worked" \notin tried[b]
  /\ tried' = [tried EXCEPT ![b] = @ \cup {"worked"}]
  /\ LET n == CountedPlusOne(b) IN
     \/ /\ Reread(b)
        /\ UNCHANGED pc
     \/ /\ n \in Number
        /\ attempt[b][n].phase # "absent" => Adoptable(b, n)
        /\ pc' = [pc EXCEPT ![b] = FirstWrite(b, n)]
        /\ UNCHANGED known
  /\ UNCHANGED <<durable, up, build, verdict, world>>

\* A block record exists before any of its attempts does.
PublishPending(b) ==
  /\ pc[b] = "publish"
  /\ Write(b,
           /\ record' = [record EXCEPT ![b] = [@ EXCEPT !.file = "present"]]
           /\ UNCHANGED <<attempt, resolution>>,
           "allocate", known[b], Durable(record', b))

\* The attempt record is created exclusively before the block record counts it.
AllocateAttempt(b) ==
  /\ pc[b] = "allocate"
  /\ Write(b,
           /\ attempt[b][CountedPlusOne(b)].phase = "absent"
           /\ attempt' = [attempt EXCEPT ![b][CountedPlusOne(b)] =
                            [phase |-> "running", build |-> build, before |-> "none"]]
           /\ UNCHANGED <<record, resolution>>,
           "count", known[b], Durable(record', b))

\* Mutant: an interrupted start is adopted as it stands.
AdoptAttemptAsIs(b) ==
  /\ pc[b] = "adopt"
  /\ Write(b, UNCHANGED durable, "count", known[b], Durable(record', b))

\* adopt rewrites an interrupted start's record to name this build.
AdoptAttempt(b) ==
  /\ pc[b] = "adopt"
  /\ Write(b,
           /\ attempt' = [attempt EXCEPT ![b][CountedPlusOne(b)] = [@ EXCEPT !.build = build]]
           /\ UNCHANGED <<record, resolution>>,
           "count", known[b], Durable(record', b))

\* Mutant: a retry is counted as the attempt it retries.
CountAttemptRetried(b) ==
  /\ pc[b] = "count"
  /\ Write(b,
           /\ record' = [record EXCEPT ![b] =
                           [file |-> "present", state |-> "running",
                            attempts |-> IF @.state = "failed" THEN @.attempts ELSE @.attempts + 1]]
           /\ UNCHANGED <<attempt, resolution>>,
           "open", known[b], Durable(record', b))

\* The block record counts the attempt and reads running.
CountAttempt(b) ==
  /\ pc[b] = "count"
  /\ Write(b,
           /\ record' = [record EXCEPT ![b] =
                           [file |-> "present", state |-> "running", attempts |-> CountedPlusOne(b)]]
           /\ UNCHANGED <<attempt, resolution>>,
           "open", known[b], Durable(record', b))

-----------------------------------------------------------------------------
(* The attempt *)

Current(b) == record[b].attempts

\* rereads: the attempt retries a removal whose resolution was inconclusive.
Rereads(b) ==
  /\ OpVerb = "destroy"
  /\ Current(b) > 1
  /\ resolution[b][Current(b) - 1].effect = "inconclusive"

Conclude(b, outcome) ==
  /\ pc' = [pc EXCEPT ![b] = "complete"]
  /\ verdict' = [verdict EXCEPT ![b] = AttemptTransition(outcome)]

\* A required log that cannot be opened leaves the attempt unknown, its effect not run.
OpenLog(b) ==
  /\ pc[b] = "open"
  /\ \/ /\ pc' = [pc EXCEPT ![b] = IF Rereads(b) THEN "reread" ELSE "ready"]
        /\ UNCHANGED verdict
     \/ Conclude(b, "unknown")
  /\ UNCHANGED <<durable, up, build, known, tried, world>>

\* rereadBeforeRemoval: only a target it reads conclusively is removed again.
ReadAgain(b) ==
  /\ pc[b] = "reread"
  /\ \/ host[b] = "complete" /\ Conclude(b, "unchanged")
     \/ Conclude(b, "unknown")
     \/ /\ host[b] # "complete"
        /\ pc' = [pc EXCEPT ![b] = "ready"]
        /\ UNCHANGED verdict
  /\ UNCHANGED <<durable, up, build, known, tried, world>>

\* RecordPreparation publishes the before-state once, before the host changes;
\* a capability whose before-state was not recorded fails without an effect.
Prepare(b) ==
  /\ pc[b] = "ready"
  /\ attempt[b][Current(b)].before = "none"
  /\ \/ attempt' = [attempt EXCEPT ![b][Current(b)] = [@ EXCEPT !.before = "published"]]
     \/ UNCHANGED attempt
  /\ \/ attempt'[b][Current(b)].before = "published" /\ UNCHANGED <<pc, verdict>>
     \/ \E o \in {"failed", "canceled", "unknown"} : Conclude(b, o)
  /\ UNCHANGED <<record, resolution, up, build, known, tried, world>>

\* The capability changes the host, in one or more steps (external: the adapters).
Effect(b) ==
  /\ pc[b] \in {"ready", "effect"}
  /\ pc' = [pc EXCEPT ![b] = "effect"]
  /\ \E h \in {"partial", "complete"} : host' = [host EXCEPT ![b] = h]
  /\ IF pc[b] = "effect" THEN UNCHANGED ranUnder
     ELSE ranUnder' = [ranUnder EXCEPT ![b][Current(b)] = [times |-> @.times + 1, build |-> build]]
  /\ UNCHANGED <<durable, up, build, known, tried, verdict>>

\* The capability returns.  It reports changed or unchanged only of an effect
\* it proved complete.  A capture that fails and a log that failed before the
\* outcome was logged lower the outcome to unknown.
Return(b) ==
  /\ pc[b] \in {"ready", "effect"}
  /\ \E o \in Outcome :
       /\ o \in {"changed", "unchanged"} => host[b] = "complete"
       /\ Conclude(b, o)
  /\ UNCHANGED <<durable, up, build, known, tried, world>>

\* completeRecord, first write: the attempt record, still running, takes the outcome.
CompleteAttempt(b) ==
  /\ pc[b] = "complete"
  /\ Write(b,
           /\ attempt[b][Current(b)].phase = "running"
           /\ attempt' = [attempt EXCEPT ![b][Current(b)] = [@ EXCEPT !.phase = "observed"]]
           /\ UNCHANGED <<record, resolution>>,
           "settle", known[b], {"unknown"})

\* completeRecord, second write: the block record takes the state.
PublishState(b) ==
  /\ pc[b] = "settle"
  /\ Write(b,
           /\ record' = [record EXCEPT ![b] = [@ EXCEPT !.state = verdict[b].state]]
           /\ UNCHANGED <<attempt, resolution>>,
           "idle", verdict[b].state, {"unknown"})

-----------------------------------------------------------------------------
(* The resolution of an unproved block: a read-only observation *)

\* resolveUnknown: refused before it writes, or on to reserve its identity.
StartResolution(b) ==
  /\ up /\ pc[b] = "idle"
  /\ Unproved(known[b])
  /\ tried[b] = {}
  /\ tried' = [tried EXCEPT ![b] = @ \cup {"observed"}]
  /\ \/ /\ Reread(b)
        /\ UNCHANGED pc
     \/ /\ Current(b) \in Number
        /\ resolution[b][Current(b)].count < MaxAttempt
        /\ pc' = [pc EXCEPT ![b] = "reserve"]
        /\ UNCHANGED known
  /\ UNCHANGED <<durable, up, build, verdict, world>>

\* The resolution record is created exclusively before any observation begins.
ReserveResolution(b) ==
  /\ pc[b] = "reserve"
  /\ Write(b,
           /\ resolution' = [resolution EXCEPT ![b][Current(b)] =
                               [count |-> @.count + 1, phase |-> "running", effect |-> "unknown"]]
           /\ UNCHANGED <<record, attempt>>,
           "observe", known[b], Durable(record', b))

\* Mutant: only the attempt at hand is asked for an inconclusive reading.
ReplayableAgain(b) ==
  /\ OpVerb = "destroy" /\ b \in ReplaySafe
  /\ resolution[b][Current(b)].effect # "inconclusive"

\* replayable: a removal is retried over an inconclusive reading at most once.
Replayable(b) ==
  /\ OpVerb = "destroy" /\ b \in ReplaySafe
  /\ \A n \in 1..Current(b) : resolution[b][n].effect # "inconclusive"

\* What an observation may prove of a block (external: the capabilities, which
\* report only what they read; a fresh removal's own check reads a whole
\* effect as partial, removalEffect).
Observable(b) ==
  {e \in EffectState :
     /\ e = "completed" => host[b] = "complete"
     /\ e = "no-effect" => host[b] = "absent"
     /\ e = "partial" => host[b] # "absent"
     /\ e = "inconclusive" => Replayable(b)}

Observe(b) ==
  /\ pc[b] = "observe"
  /\ \/ /\ Reread(b)                \* its log could not be opened
        /\ pc' = [pc EXCEPT ![b] = "idle"]
        /\ UNCHANGED verdict
     \/ /\ \E e \in Observable(b) : verdict' = [verdict EXCEPT ![b] = ResolutionTransition(e)]
        /\ pc' = [pc EXCEPT ![b] = "resolved"]
        /\ UNCHANGED known
  /\ UNCHANGED <<durable, up, build, tried, world>>

CompleteResolution(b) ==
  /\ pc[b] = "resolved"
  /\ Write(b,
           /\ resolution[b][Current(b)].phase = "running"
           /\ resolution' = [resolution EXCEPT ![b][Current(b)] =
                               [count |-> @.count, phase |-> "observed", effect |-> verdict[b].effect]]
           /\ UNCHANGED <<record, attempt>>,
           "settle", known[b], {"unknown"})

-----------------------------------------------------------------------------

Work(b) ==
  \/ StartAttempt(b) \/ PublishPending(b) \/ AllocateAttempt(b) \/ AdoptAttempt(b) \/ CountAttempt(b)
  \/ OpenLog(b) \/ ReadAgain(b) \/ Prepare(b) \/ Effect(b) \/ Return(b)
  \/ CompleteAttempt(b) \/ PublishState(b)
  \/ StartResolution(b) \/ ReserveResolution(b) \/ Observe(b) \/ CompleteResolution(b)

Next == Begin \/ Exit \/ \E b \in Block : Work(b)

Spec == Init /\ [][Next]_vars

-----------------------------------------------------------------------------
(* Properties *)

(***************************************************************************)
(* StartAttempt "durably records running before the caller performs any    *)
(* side effect": whatever crashed or failed to be written, an attempt an   *)
(* effect ran under has its own record and is counted by the block record. *)
(***************************************************************************)
RecordedBeforeEffect ==
  \A b \in Block, n \in Number :
    ranUnder[b][n].times > 0 =>
      /\ record[b].file = "present" /\ n <= record[b].attempts
      /\ attempt[b][n].phase # "absent"

(***************************************************************************)
(* Adoption reuses the number of an interrupted start only because no      *)
(* effect ran under it: no attempt number ever covers two effects.         *)
(***************************************************************************)
EffectOnce == \A b \in Block, n \in Number : ranUnder[b][n].times <= 1

(***************************************************************************)
(* No interruption wedges a block: whatever is found at its next attempt   *)
(* number, StartAttempt can adopt it instead of refusing the number ever   *)
(* after, and nothing lies beyond that number.                             *)
(***************************************************************************)
NextStartable ==
  \A b \in Block, n \in Number :
    attempt[b][n].phase # "absent" =>
      \/ n <= record[b].attempts
      \/ n = CountedPlusOne(b) /\ Adoptable(b, n)

(***************************************************************************)
(* The attempt record names the build its effect ran under, also when it   *)
(* adopted a start of another build.                                       *)
(***************************************************************************)
BuildNamed ==
  \A b \in Block, n \in Number :
    ranUnder[b][n].times > 0 => attempt[b][n].build = ranUnder[b][n].build

(***************************************************************************)
(* What the scheduler holds for a block nothing is working on is what the  *)
(* block's record reads, or unknown: the operation state it derives is     *)
(* never better than the records, also after a write that landed and       *)
(* reported a failure.                                                     *)
(***************************************************************************)
MemorySound ==
  up => \A b \in Block : pc[b] = "idle" => known[b] \in {record[b].state, "unknown"}

(***************************************************************************)
(* A removal is retried over an inconclusive reading at most once: at most *)
(* one attempt of a block ends settled by an inconclusive resolution.      *)
(***************************************************************************)
RetriedOnce ==
  \A b \in Block : \A m, n \in Number :
    resolution[b][m].effect = "inconclusive" /\ resolution[b][n].effect = "inconclusive" => m = n

\* A step leaves what is settled of a block's attempt records as it was.
Final(b) ==
  /\ record'[b].attempts >= record[b].attempts
  /\ \A n \in Number :
       /\ attempt[b][n].phase = "observed" => attempt'[b][n] = attempt[b][n]
       /\ attempt[b][n].before = "published" => attempt'[b][n].before = "published"

(***************************************************************************)
(* completeRecord and RecordPreparation: an observed attempt is never      *)
(* rewritten, a published before-state is never withdrawn, and the counted *)
(* attempts never decrease.                                                *)
(***************************************************************************)
RecordsFinal == [][\A b \in Block : Final(b)]_vars

(***************************************************************************)
(* The block records implement the contract their readers rely on.         *)
(***************************************************************************)
Contract == INSTANCE BlockContract WITH state <- [b \in Block |-> record[b].state]

ImplementsContract == Contract!Spec
=============================================================================
