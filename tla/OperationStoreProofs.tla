------------------------ MODULE OperationStoreProofs ------------------------
(***************************************************************************)
(* OperationStore's invariants for every set of blocks, every attempt      *)
(* bound and every set of builds, and its refinement of BlockContract.     *)
(*                                                                         *)
(* None of the invariants is inductive alone: each rests on where a        *)
(* goroutine can be for a given pair of records.  BlockInv joins what the  *)
(* records say together (Records), what a running goroutine may rely on    *)
(* (Starting, Running, Resolving, Settling), what the scheduler's memory   *)
(* says (Memory), and what has happened to the host (Effects).             *)
(***************************************************************************)
EXTENDS OperationStore, TLAPS

Absent(b, n) == attempt[b][n].phase = "absent"

\* The block record counts exactly the attempts that may have begun.
Records(b) ==
  /\ record[b].attempts = 0 <=> record[b].state = "pending"
  /\ record[b].file = "absent" => record[b].attempts = 0
  /\ \A n \in Number :
       /\ n <= record[b].attempts => ~Absent(b, n)
       /\ n > record[b].attempts =>
            /\ Absent(b, n) \/ (n = CountedPlusOne(b) /\ Adoptable(b, n))
            /\ resolution[b][n] = NoResolution
            /\ ranUnder[b][n].times = 0

\* A start under way: nothing is counted yet.
Starting(b) ==
  pc[b] \in {"publish", "allocate", "adopt", "count"} =>
    /\ record[b].state \in {"pending", "failed"}
    /\ CountedPlusOne(b) \in Number
    /\ pc[b] = "publish" => Absent(b, CountedPlusOne(b))
    /\ pc[b] = "allocate" => record[b].file = "present" /\ Absent(b, CountedPlusOne(b))
    /\ pc[b] \in {"adopt", "count"} => Adoptable(b, CountedPlusOne(b))
    /\ pc[b] = "count" => attempt[b][CountedPlusOne(b)].build = build

\* An attempt under way: it is counted, running, and names this build.
Running(b) ==
  pc[b] \in {"open", "reread", "ready", "effect", "complete"} =>
    /\ record[b].state = "running"
    /\ attempt[b][Current(b)].phase = "running"
    /\ attempt[b][Current(b)].build = build
    /\ pc[b] \in {"open", "reread", "ready"} => ranUnder[b][Current(b)].times = 0

\* A resolution under way: its block is unproved and its own record is the last.
Resolving(b) ==
  pc[b] \in {"reserve", "observe", "resolved"} =>
    /\ Unproved(record[b].state)
    /\ pc[b] = "reserve" => resolution[b][Current(b)].count < MaxAttempt
    /\ pc[b] # "reserve" => resolution[b][Current(b)].phase = "running"

\* A verdict about to be published is justified by the host.
Settling(b) ==
  /\ pc[b] = "settle" => Unproved(record[b].state)
  /\ pc[b] \in {"complete", "resolved", "settle"} =>
       /\ verdict[b].state \in {"done", "failed", "unknown"}
       /\ verdict[b].state = "done" => host[b] = "complete"

\* The scheduler's memory never runs ahead of the record.
Memory(b) ==
  /\ pc[b] # "idle" => up /\ tried[b] # {}
  /\ up /\ pc[b] = "idle" => known[b] \in {record[b].state, "unknown"}
  /\ up /\ tried[b] = {} => known[b] = record[b].state

\* What ran, and what the records say of the host.
Effects(b) ==
  /\ record[b].state = "pending" => host[b] = "absent"
  /\ record[b].state = "done" => host[b] = "complete"
  /\ \A n \in Number :
       /\ Absent(b, n) => attempt[b][n].before = "none"
       /\ ranUnder[b][n].times <= 1
       /\ ranUnder[b][n].times > 0 => attempt[b][n].build = ranUnder[b][n].build

\* At most one inconclusive resolution, counting one about to be published.
Inconclusive(b) ==
  /\ \A m, n \in Number :
       resolution[b][m].effect = "inconclusive" /\ resolution[b][n].effect = "inconclusive" => m = n
  /\ pc[b] = "resolved" /\ verdict[b].effect = "inconclusive" =>
       \A n \in Number : resolution[b][n].effect # "inconclusive"

BlockInv(b) ==
  /\ Records(b) /\ Starting(b) /\ Running(b) /\ Resolving(b)
  /\ Settling(b) /\ Memory(b) /\ Effects(b) /\ Inconclusive(b)

IInv == TypeOK /\ \A b \in Block : BlockInv(b)

-----------------------------------------------------------------------------

\* What a step of one block's goroutine leaves of another block.
Same(c) ==
  /\ record'[c] = record[c] /\ attempt'[c] = attempt[c] /\ resolution'[c] = resolution[c]
  /\ known'[c] = known[c] /\ tried'[c] = tried[c] /\ pc'[c] = pc[c] /\ verdict'[c] = verdict[c]
  /\ host'[c] = host[c] /\ ranUnder'[c] = ranUnder[c]

LEMMA Frame ==
  ASSUME NEW c \in Block, BlockInv(c), Same(c), up' = up, build' = build
  PROVE  BlockInv(c)'
BY DEF BlockInv, Same, Records, Starting, Running, Resolving, Settling, Memory, Effects, Inconclusive,
       Absent, Adoptable, CountedPlusOne, Current, Unproved

LEMMA AttemptTransitionType ==
  \A o \in Outcome :
    /\ AttemptTransition(o) \in Verdict
    /\ AttemptTransition(o).state \in {"done", "failed", "unknown"}
    /\ AttemptTransition(o).state = "done" => o \in {"changed", "unchanged"}
BY DEF AttemptTransition, Outcome, Verdict, EffectState, BlockState

LEMMA ResolutionTransitionType ==
  \A e \in EffectState :
    /\ ResolutionTransition(e) \in Verdict
    /\ ResolutionTransition(e).effect = e
    /\ ResolutionTransition(e).state \in {"done", "failed", "unknown"}
    /\ ResolutionTransition(e).state = "done" => e = "completed"
BY DEF ResolutionTransition, Verdict, EffectState, BlockState

\* The facts about single blocks that the type invariant gives.
LEMMA PointTypes ==
  ASSUME TypeOK, NEW b \in Block
  PROVE  /\ record[b] \in BlockRecord
         /\ record[b].state \in BlockState /\ record[b].attempts \in 0..MaxAttempt
         /\ known[b] \in BlockState /\ verdict[b] \in Verdict
         /\ \A n \in Number :
              /\ attempt[b][n] \in AttemptRecord
              /\ ranUnder[b][n].times \in Nat /\ resolution[b][n].count \in 0..MaxAttempt
BY DEF TypeOK, BlockRecord, ResolutionRecord, Ran

\* An attempt counted by an existing block record has a number.
LEMMA CurrentNumber ==
  ASSUME TypeOK, NEW b \in Block, Records(b), record[b].state # "pending"
  PROVE  Current(b) \in Number
BY PointTypes, OperationStoreAssumption DEF Records, Current, Number

\* What one write of a variable leaves, block by block.
LEMMA RecordWritten ==
  ASSUME TypeOK, NEW b \in Block, NEW x \in BlockRecord, record' = [record EXCEPT ![b] = x]
  PROVE  /\ record' \in [Block -> BlockRecord]
         /\ record'[b] = x
         /\ \A c \in Block \ {b} : record'[c] = record[c]
<1>1. record \in [Block -> BlockRecord]
  BY DEF TypeOK
<1> QED
  BY <1>1

LEMMA KnownWritten ==
  ASSUME TypeOK, NEW b \in Block, NEW x \in BlockState, known' = [known EXCEPT ![b] = x]
  PROVE  /\ known' \in [Block -> BlockState]
         /\ known'[b] = x
         /\ \A c \in Block \ {b} : known'[c] = known[c]
<1>1. known \in [Block -> BlockState]
  BY DEF TypeOK
<1> QED
  BY <1>1

LEMMA PcWritten ==
  ASSUME TypeOK, NEW b \in Block, NEW x \in Steps, pc' = [pc EXCEPT ![b] = x]
  PROVE  /\ pc' \in [Block -> Steps]
         /\ pc'[b] = x
         /\ \A c \in Block \ {b} : pc'[c] = pc[c]
<1>1. pc \in [Block -> Steps]
  BY DEF TypeOK
<1> QED
  BY <1>1

LEMMA VerdictWritten ==
  ASSUME TypeOK, NEW b \in Block, NEW x \in Verdict, verdict' = [verdict EXCEPT ![b] = x]
  PROVE  /\ verdict' \in [Block -> Verdict]
         /\ verdict'[b] = x
         /\ \A c \in Block \ {b} : verdict'[c] = verdict[c]
<1>1. verdict \in [Block -> Verdict]
  BY DEF TypeOK
<1> QED
  BY <1>1

LEMMA HostWritten ==
  ASSUME TypeOK, NEW b \in Block, NEW x \in Host, host' = [host EXCEPT ![b] = x]
  PROVE  /\ host' \in [Block -> Host]
         /\ host'[b] = x
         /\ \A c \in Block \ {b} : host'[c] = host[c]
<1>1. host \in [Block -> Host]
  BY DEF TypeOK
<1> QED
  BY <1>1

LEMMA TriedWritten ==
  ASSUME TypeOK, NEW b \in Block, NEW x \in (SUBSET {"observed", "worked"}), tried' = [tried EXCEPT ![b] = x]
  PROVE  /\ tried' \in [Block -> (SUBSET {"observed", "worked"})]
         /\ tried'[b] = x
         /\ \A c \in Block \ {b} : tried'[c] = tried[c]
<1>1. tried \in [Block -> (SUBSET {"observed", "worked"})]
  BY DEF TypeOK
<1> QED
  BY <1>1

LEMMA AttemptWritten ==
  ASSUME TypeOK, NEW b \in Block, NEW n \in Number, NEW x \in AttemptRecord,
         attempt' = [attempt EXCEPT ![b][n] = x]
  PROVE  /\ attempt' \in [Block -> [Number -> AttemptRecord]]
         /\ \A m \in Number : attempt'[b][m] = IF m = n THEN x ELSE attempt[b][m]
         /\ \A c \in Block \ {b} : attempt'[c] = attempt[c]
<1>1. attempt \in [Block -> [Number -> AttemptRecord]]
  BY DEF TypeOK
<1> QED
  BY <1>1

LEMMA ResolutionWritten ==
  ASSUME TypeOK, NEW b \in Block, NEW n \in Number, NEW x \in ResolutionRecord,
         resolution' = [resolution EXCEPT ![b][n] = x]
  PROVE  /\ resolution' \in [Block -> [Number -> ResolutionRecord]]
         /\ \A m \in Number : resolution'[b][m] = IF m = n THEN x ELSE resolution[b][m]
         /\ \A c \in Block \ {b} : resolution'[c] = resolution[c]
<1>1. resolution \in [Block -> [Number -> ResolutionRecord]]
  BY DEF TypeOK
<1> QED
  BY <1>1

LEMMA RanWritten ==
  ASSUME TypeOK, NEW b \in Block, NEW n \in Number, NEW x \in Ran,
         ranUnder' = [ranUnder EXCEPT ![b][n] = x]
  PROVE  /\ ranUnder' \in [Block -> [Number -> Ran]]
         /\ \A m \in Number : ranUnder'[b][m] = IF m = n THEN x ELSE ranUnder[b][m]
         /\ \A c \in Block \ {b} : ranUnder'[c] = ranUnder[c]
<1>1. ranUnder \in [Block -> [Number -> Ran]]
  BY DEF TypeOK
<1> QED
  BY <1>1

\* The single-field updates stay in their record sets.
LEMMA AttemptFields ==
  ASSUME NEW r \in AttemptRecord, NEW d \in Build
  PROVE  /\ [r EXCEPT !.build = d] \in AttemptRecord
         /\ [r EXCEPT !.phase = "observed"] \in AttemptRecord
         /\ [r EXCEPT !.before = "published"] \in AttemptRecord
         /\ [phase |-> "running", build |-> d, before |-> "none"] \in AttemptRecord
BY DEF AttemptRecord

LEMMA BlockFields ==
  ASSUME NEW r \in BlockRecord, NEW s \in BlockState
  PROVE  /\ [r EXCEPT !.file = "present"] \in BlockRecord
         /\ [r EXCEPT !.state = s] \in BlockRecord
BY DEF BlockRecord

LEMMA StartAttemptInv ==
  ASSUME IInv, NEW b \in Block, StartAttempt(b)
  PROVE  IInv'
<1>0. TypeOK /\ BlockInv(b)
  BY DEF IInv
<1>1. /\ up /\ pc[b] = "idle" /\ known[b] \in {"pending", "failed"}
      /\ (tried[b] \cup {"worked"}) \in SUBSET {"observed", "worked"}
  BY <1>0 DEF TypeOK, StartAttempt, FirstWrite
<1>2. UNCHANGED <<record, attempt, resolution, up, build, verdict, host, ranUnder>>
  BY DEF StartAttempt, FirstWrite, Reread, Durable, durable, world, Absent, Adoptable
<1>3. /\ tried' = [tried EXCEPT ![b] = tried[b] \cup {"worked"}]
      /\ \/ /\ pc' = pc
            /\ \E s \in {record[b].state, "unknown"} : known' = [known EXCEPT ![b] = s]
         \/ \E p \in {"publish", "allocate", "adopt", "count"} :
            /\ pc' = [pc EXCEPT ![b] = p] /\ known' = known
            /\ CountedPlusOne(b) \in Number
            /\ Absent(b, CountedPlusOne(b)) \/ Adoptable(b, CountedPlusOne(b))
            /\ p = "publish" => Absent(b, CountedPlusOne(b))
            /\ p = "allocate" => Absent(b, CountedPlusOne(b)) /\ record[b].file # "absent"
            /\ p \in {"adopt", "count"} => Adoptable(b, CountedPlusOne(b))
            /\ p = "count" => attempt[b][CountedPlusOne(b)].build = build
  BY <1>2 DEF StartAttempt, FirstWrite, Reread, Durable, durable, world, Absent, Adoptable
<1>4. TypeOK'
  <2>1. tried' \in [Block -> SUBSET {"observed", "worked"}]
    BY <1>0, <1>1, <1>3, TriedWritten
  <2>2. known' \in [Block -> BlockState]
    BY <1>0, <1>1, <1>3, KnownWritten, PointTypes DEF BlockState, TypeOK
  <2>3. pc' \in [Block -> Steps]
    BY <1>0, <1>1, <1>3, PcWritten DEF Steps, TypeOK
  <2> QED
    BY <1>0, <1>2, <2>1, <2>2, <2>3 DEF TypeOK
<1>5. \A c \in Block \ {b} : Same(c)
  BY <1>0, <1>1, <1>2, <1>3, TriedWritten, KnownWritten, PcWritten, PointTypes DEF Same, BlockState, Steps
<1>6. BlockInv(b)'
  <2>1. /\ tried'[b] # {}
        /\ \/ pc'[b] = "idle" /\ known'[b] \in {record[b].state, "unknown"}
           \/ \E p \in {"publish", "allocate", "adopt", "count"} :
             /\ pc'[b] = p
             /\ CountedPlusOne(b) \in Number
             /\ Absent(b, CountedPlusOne(b)) \/ Adoptable(b, CountedPlusOne(b))
             /\ p = "publish" => Absent(b, CountedPlusOne(b))
             /\ p = "allocate" => Absent(b, CountedPlusOne(b)) /\ record[b].file # "absent"
             /\ p \in {"adopt", "count"} => Adoptable(b, CountedPlusOne(b))
             /\ p = "count" => attempt[b][CountedPlusOne(b)].build = build
    BY <1>0, <1>1, <1>2, <1>3, TriedWritten, KnownWritten, PcWritten, PointTypes DEF BlockState, Steps, TypeOK
  <2>2. Records(b)'
    BY <1>0, <1>1, <1>2, <2>1, OperationStoreAssumption, PointTypes DEF BlockInv, Records, Number,
       Starting, Running, Resolving, NoResolution, Absent, Adoptable, CountedPlusOne, Current, Unproved,
       Memory, BlockRecord
  <2>3. Starting(b)'
    BY <1>0, <1>1, <1>2, <2>1, PointTypes DEF BlockInv, Starting, Number, Records, Running, Resolving,
       NoResolution, Absent, Adoptable, CountedPlusOne, Current, Unproved, Memory, BlockRecord
  <2>4. Running(b)'
    BY <1>0, <1>1, <1>2, <2>1, PointTypes DEF BlockInv, Running, Number, Records, Starting, Resolving,
       NoResolution, Absent, Adoptable, CountedPlusOne, Current, Unproved, Memory, BlockRecord
  <2>5. Resolving(b)'
    BY <1>0, <1>1, <1>2, <2>1, PointTypes DEF BlockInv, Resolving, Number, Records, Starting, Running,
       NoResolution, Absent, Adoptable, CountedPlusOne, Current, Unproved, Memory, BlockRecord
  <2>6. Settling(b)'
    BY <1>0, <1>1, <1>2, <2>1, PointTypes DEF BlockInv, Settling, Number, Records, Starting, Running,
       Resolving, NoResolution, Absent, Adoptable, CountedPlusOne, Current, Unproved, Memory,
       BlockRecord
  <2>7. Memory(b)'
    BY <1>0, <1>1, <1>2, <2>1, PointTypes DEF BlockInv, Memory, Current, CountedPlusOne, Unproved, BlockRecord
  <2>8. Effects(b)'
    BY <1>0, <1>1, <1>2, <2>1, PointTypes DEF BlockInv, Effects, Number, Records, Starting, Running,
       Resolving, NoResolution, Absent, Adoptable, CountedPlusOne, Current, Unproved, Memory,
       BlockRecord
  <2>9. Inconclusive(b)'
    BY <1>0, <1>1, <1>2, <2>1, PointTypes DEF BlockInv, Inconclusive, Current, CountedPlusOne, Unproved,
       Memory, BlockRecord
  <2> QED
    BY <2>2, <2>3, <2>4, <2>5, <2>6, <2>7, <2>8, <2>9 DEF BlockInv
<1> QED
  BY <1>2, <1>4, <1>5, <1>6, Frame DEF IInv

LEMMA PublishPendingInv ==
  ASSUME IInv, NEW b \in Block, PublishPending(b)
  PROVE  IInv'
<1> DEFINE r == [record[b] EXCEPT !.file = "present"]
           after == [record EXCEPT ![b] = r]
<1>0. TypeOK /\ BlockInv(b)
  BY DEF IInv
<1>1. pc[b] = "publish" /\ r \in BlockRecord
  BY <1>0, PointTypes, BlockFields DEF PublishPending, BlockState
<1>2. UNCHANGED <<attempt, resolution, up, build, tried, verdict, host, ranUnder>>
  BY DEF PublishPending, Write, Durable, durable, world
<1>3. \/ /\ record' = after
         /\ pc' = [pc EXCEPT ![b] = "allocate"] /\ known' = [known EXCEPT ![b] = known[b]]
      \/ /\ record' = record \/ record' = after
         /\ pc' = [pc EXCEPT ![b] = "idle"]
         /\ \E s \in {record'[b].state, "unknown"} : known' = [known EXCEPT ![b] = s]
  BY <1>2 DEF PublishPending, Write, Durable, durable, world
<1> HIDE DEF r
<1>4. TypeOK'
  <2>1. record' \in [Block -> BlockRecord]
    BY <1>0, <1>1, <1>3, RecordWritten, PointTypes DEF TypeOK
  <2>2. known' \in [Block -> BlockState]
    BY <1>0, <1>1, <1>3, KnownWritten, PointTypes, RecordWritten DEF BlockState, BlockRecord, Verdict
  <2>3. pc' \in [Block -> Steps]
    BY <1>0, <1>1, <1>3, PcWritten DEF Steps
  <2> QED
    BY <1>0, <1>2, <2>1, <2>2, <2>3 DEF TypeOK
<1>5. \A c \in Block \ {b} : Same(c)
  BY <1>0, <1>1, <1>2, <1>3, RecordWritten, KnownWritten, PcWritten, PointTypes, RecordWritten DEF Same,
     BlockRecord, BlockState, Steps, Verdict
<1>6. BlockInv(b)'
  <2>1. \/ /\ pc'[b] = "allocate" /\ known'[b] = known[b] /\ record'[b] = r
        \/ /\ pc'[b] = "idle" /\ known'[b] \in {record'[b].state, "unknown"}
           /\ record'[b] = record[b] \/ record'[b] = r
    BY <1>0, <1>1, <1>2, <1>3, RecordWritten, KnownWritten, PcWritten, PointTypes, RecordWritten DEF
       BlockRecord, BlockState, Steps, TypeOK, Verdict
  <2>2. Records(b)'
    BY <1>0, <1>1, <1>2, <2>1, OperationStoreAssumption, PointTypes DEF BlockInv, Records, Number,
       Starting, Running, Resolving, NoResolution, Absent, Adoptable, CountedPlusOne, Current, Unproved,
       r, BlockRecord
  <2>3. Starting(b)'
    BY <1>0, <1>1, <1>2, <2>1, PointTypes DEF BlockInv, Starting, Number, Records, Running, Resolving,
       NoResolution, Absent, Adoptable, CountedPlusOne, Current, Unproved, r, BlockRecord
  <2>4. Running(b)'
    BY <1>0, <1>1, <1>2, <2>1, PointTypes DEF BlockInv, Running, Number, Records, Starting, Resolving,
       NoResolution, Absent, Adoptable, CountedPlusOne, Current, Unproved, r, BlockRecord
  <2>5. Resolving(b)'
    BY <1>0, <1>1, <1>2, <2>1, PointTypes DEF BlockInv, Resolving, Number, Records, Starting, Running,
       NoResolution, Absent, Adoptable, CountedPlusOne, Current, Unproved, r, BlockRecord
  <2>6. Settling(b)'
    BY <1>0, <1>1, <1>2, <2>1, PointTypes DEF BlockInv, Settling, Number, Records, Starting, Running,
       Resolving, NoResolution, Absent, Adoptable, CountedPlusOne, Current, Unproved, r, BlockRecord
  <2>7. Memory(b)'
    BY <1>0, <1>1, <1>2, <2>1, PointTypes DEF BlockInv, Memory, Current, CountedPlusOne, Unproved, r,
       BlockRecord
  <2>8. Effects(b)'
    BY <1>0, <1>1, <1>2, <2>1, PointTypes DEF BlockInv, Effects, Number, Records, Starting, Running,
       Resolving, NoResolution, Absent, Adoptable, CountedPlusOne, Current, Unproved, r, BlockRecord
  <2>9. Inconclusive(b)'
    BY <1>0, <1>1, <1>2, <2>1, PointTypes DEF BlockInv, Inconclusive, Current, CountedPlusOne, Unproved,
       r, BlockRecord
  <2> QED
    BY <2>2, <2>3, <2>4, <2>5, <2>6, <2>7, <2>8, <2>9 DEF BlockInv
<1> QED
  BY <1>2, <1>4, <1>5, <1>6, Frame DEF IInv

LEMMA AllocateAttemptInv ==
  ASSUME IInv, NEW b \in Block, AllocateAttempt(b)
  PROVE  IInv'
<1> DEFINE n == CountedPlusOne(b)
           r == [phase |-> "running", build |-> build, before |-> "none"]
           after == [attempt EXCEPT ![b][n] = r]
<1>0. TypeOK /\ BlockInv(b)
  BY DEF IInv
<1>1. pc[b] = "allocate" /\ n \in Number /\ r \in AttemptRecord
  BY <1>0, AttemptFields DEF TypeOK, AllocateAttempt, BlockInv, Starting, AttemptRecord
<1>2. UNCHANGED <<record, resolution, up, build, tried, verdict, host, ranUnder>>
  BY DEF AllocateAttempt, Write, Durable, durable, world
<1>3. \/ /\ attempt' = after
         /\ pc' = [pc EXCEPT ![b] = "count"] /\ known' = [known EXCEPT ![b] = known[b]]
      \/ /\ attempt' = attempt \/ attempt' = after
         /\ pc' = [pc EXCEPT ![b] = "idle"]
         /\ \E s \in {record[b].state, "unknown"} : known' = [known EXCEPT ![b] = s]
  BY <1>2 DEF AllocateAttempt, Write, Durable, durable, world
<1> HIDE DEF n, r
<1>4. TypeOK'
  <2>1. attempt' \in [Block -> [Number -> AttemptRecord]]
    BY <1>0, <1>1, <1>3, AttemptWritten DEF TypeOK
  <2>2. known' \in [Block -> BlockState]
    BY <1>0, <1>1, <1>3, KnownWritten, PointTypes DEF BlockState
  <2>3. pc' \in [Block -> Steps]
    BY <1>0, <1>1, <1>3, PcWritten DEF Steps
  <2> QED
    BY <1>0, <1>2, <2>1, <2>2, <2>3 DEF TypeOK
<1>5. \A c \in Block \ {b} : Same(c)
  BY <1>0, <1>1, <1>2, <1>3, AttemptWritten, KnownWritten, PcWritten, PointTypes DEF Same, BlockState, Steps
<1>6. BlockInv(b)'
  <2>1. \/ /\ pc'[b] = "count" /\ known'[b] = known[b]
           /\ \A m \in Number : attempt'[b][m] = IF m = n THEN r ELSE attempt[b][m]
        \/ /\ pc'[b] = "idle" /\ known'[b] \in {record[b].state, "unknown"}
           /\ \/ attempt'[b] = attempt[b]
              \/ \A m \in Number : attempt'[b][m] = IF m = n THEN r ELSE attempt[b][m]
    BY <1>0, <1>1, <1>2, <1>3, AttemptWritten, KnownWritten, PcWritten, PointTypes DEF BlockState,
       Steps, TypeOK
  <2>2. Records(b)'
    BY <1>0, <1>1, <1>2, <2>1, OperationStoreAssumption, PointTypes DEF BlockInv, Records, Number,
       Starting, Running, Resolving, NoResolution, Absent, Adoptable, CountedPlusOne, Current, Unproved,
       n, r
  <2>3. Starting(b)'
    BY <1>0, <1>1, <1>2, <2>1, PointTypes DEF BlockInv, Starting, Number, Records, Running, Resolving,
       NoResolution, Absent, Adoptable, CountedPlusOne, Current, Unproved, n, r
  <2>4. Running(b)'
    BY <1>0, <1>1, <1>2, <2>1, PointTypes DEF BlockInv, Running, Number, Records, Starting, Resolving,
       NoResolution, Absent, Adoptable, CountedPlusOne, Current, Unproved, n, r
  <2>5. Resolving(b)'
    BY <1>0, <1>1, <1>2, <2>1, PointTypes DEF BlockInv, Resolving, Number, Records, Starting, Running,
       NoResolution, Absent, Adoptable, CountedPlusOne, Current, Unproved, n, r
  <2>6. Settling(b)'
    BY <1>0, <1>1, <1>2, <2>1, PointTypes DEF BlockInv, Settling, Number, Records, Starting, Running,
       Resolving, NoResolution, Absent, Adoptable, CountedPlusOne, Current, Unproved, n, r
  <2>7. Memory(b)'
    BY <1>0, <1>1, <1>2, <2>1, PointTypes DEF BlockInv, Memory, Current, CountedPlusOne, Unproved, n, r
  <2>8. Effects(b)'
    BY <1>0, <1>1, <1>2, <2>1, PointTypes DEF BlockInv, Effects, Number, Records, Starting, Running,
       Resolving, NoResolution, Absent, Adoptable, CountedPlusOne, Current, Unproved, n, r
  <2>9. Inconclusive(b)'
    BY <1>0, <1>1, <1>2, <2>1, PointTypes DEF BlockInv, Inconclusive, Current, CountedPlusOne, Unproved, n, r
  <2> QED
    BY <2>2, <2>3, <2>4, <2>5, <2>6, <2>7, <2>8, <2>9 DEF BlockInv
<1> QED
  BY <1>2, <1>4, <1>5, <1>6, Frame DEF IInv

LEMMA AdoptAttemptInv ==
  ASSUME IInv, NEW b \in Block, AdoptAttempt(b)
  PROVE  IInv'
<1> DEFINE n == CountedPlusOne(b)
           r == [attempt[b][n] EXCEPT !.build = build]
           after == [attempt EXCEPT ![b][n] = r]
<1>0. TypeOK /\ BlockInv(b)
  BY DEF IInv
<1>1. pc[b] = "adopt" /\ n \in Number /\ r \in AttemptRecord
  <2>1. pc[b] = "adopt" /\ n \in Number
    BY <1>0 DEF AdoptAttempt, BlockInv, Starting
  <2>2. attempt[b][n] \in AttemptRecord /\ build \in Build
    BY <1>0, <2>1, PointTypes DEF TypeOK
  <2> QED
    BY <2>1, <2>2, AttemptFields
<1>2. UNCHANGED <<record, resolution, up, build, tried, verdict, host, ranUnder>>
  BY DEF AdoptAttempt, Write, Durable, durable, world
<1>3. \/ /\ attempt' = after
         /\ pc' = [pc EXCEPT ![b] = "count"] /\ known' = [known EXCEPT ![b] = known[b]]
      \/ /\ attempt' = attempt \/ attempt' = after
         /\ pc' = [pc EXCEPT ![b] = "idle"]
         /\ \E s \in {record[b].state, "unknown"} : known' = [known EXCEPT ![b] = s]
  BY <1>2 DEF AdoptAttempt, Write, Durable, durable, world
<1> HIDE DEF n, r
<1>4. TypeOK'
  <2>1. attempt' \in [Block -> [Number -> AttemptRecord]]
    BY <1>0, <1>1, <1>3, AttemptWritten DEF TypeOK
  <2>2. known' \in [Block -> BlockState]
    BY <1>0, <1>1, <1>3, KnownWritten, PointTypes DEF BlockState
  <2>3. pc' \in [Block -> Steps]
    BY <1>0, <1>1, <1>3, PcWritten DEF Steps
  <2> QED
    BY <1>0, <1>2, <2>1, <2>2, <2>3 DEF TypeOK
<1>5. \A c \in Block \ {b} : Same(c)
  BY <1>0, <1>1, <1>2, <1>3, AttemptWritten, KnownWritten, PcWritten, PointTypes DEF Same, BlockState, Steps
<1>6. BlockInv(b)'
  <2>1. \/ /\ pc'[b] = "count" /\ known'[b] = known[b]
           /\ \A m \in Number : attempt'[b][m] = IF m = n THEN r ELSE attempt[b][m]
        \/ /\ pc'[b] = "idle" /\ known'[b] \in {record[b].state, "unknown"}
           /\ \/ attempt'[b] = attempt[b]
              \/ \A m \in Number : attempt'[b][m] = IF m = n THEN r ELSE attempt[b][m]
    BY <1>0, <1>1, <1>2, <1>3, AttemptWritten, KnownWritten, PcWritten, PointTypes DEF BlockState,
       Steps, TypeOK
  <2>2. Records(b)'
    BY <1>0, <1>1, <1>2, <2>1, OperationStoreAssumption, PointTypes DEF BlockInv, Records, Number,
       Starting, Running, Resolving, NoResolution, Absent, Adoptable, CountedPlusOne, Current, Unproved,
       n, r, AttemptRecord
  <2>3. Starting(b)'
    BY <1>0, <1>1, <1>2, <2>1, PointTypes DEF BlockInv, Starting, Number, Records, Running, Resolving,
       NoResolution, Absent, Adoptable, CountedPlusOne, Current, Unproved, n, r, AttemptRecord
  <2>4. Running(b)'
    BY <1>0, <1>1, <1>2, <2>1, PointTypes DEF BlockInv, Running, Number, Records, Starting, Resolving,
       NoResolution, Absent, Adoptable, CountedPlusOne, Current, Unproved, n, r, AttemptRecord
  <2>5. Resolving(b)'
    BY <1>0, <1>1, <1>2, <2>1, PointTypes DEF BlockInv, Resolving, Number, Records, Starting, Running,
       NoResolution, Absent, Adoptable, CountedPlusOne, Current, Unproved, n, r, AttemptRecord
  <2>6. Settling(b)'
    BY <1>0, <1>1, <1>2, <2>1, PointTypes DEF BlockInv, Settling, Number, Records, Starting, Running,
       Resolving, NoResolution, Absent, Adoptable, CountedPlusOne, Current, Unproved, n, r,
       AttemptRecord
  <2>7. Memory(b)'
    BY <1>0, <1>1, <1>2, <2>1, PointTypes DEF BlockInv, Memory, Current, CountedPlusOne, Unproved, n, r,
       AttemptRecord
  <2>8. Effects(b)'
    BY <1>0, <1>1, <1>2, <2>1, PointTypes DEF BlockInv, Effects, Number, Records, Starting, Running,
       Resolving, NoResolution, Absent, Adoptable, CountedPlusOne, Current, Unproved, n, r,
       AttemptRecord
  <2>9. Inconclusive(b)'
    BY <1>0, <1>1, <1>2, <2>1, PointTypes DEF BlockInv, Inconclusive, Current, CountedPlusOne, Unproved,
       n, r, AttemptRecord
  <2> QED
    BY <2>2, <2>3, <2>4, <2>5, <2>6, <2>7, <2>8, <2>9 DEF BlockInv
<1> QED
  BY <1>2, <1>4, <1>5, <1>6, Frame DEF IInv

LEMMA CountAttemptInv ==
  ASSUME IInv, NEW b \in Block, CountAttempt(b)
  PROVE  IInv'
<1> DEFINE r == [file |-> "present", state |-> "running", attempts |-> CountedPlusOne(b)]
           after == [record EXCEPT ![b] = r]
<1>0. TypeOK /\ BlockInv(b)
  BY DEF IInv
<1>1. pc[b] = "count" /\ r \in BlockRecord
  BY <1>0, PointTypes, OperationStoreAssumption DEF CountAttempt, BlockInv, Starting, BlockRecord,
     BlockState, Number, CountedPlusOne
<1>2. UNCHANGED <<attempt, resolution, up, build, tried, verdict, host, ranUnder>>
  BY DEF CountAttempt, Write, Durable, durable, world
<1>3. \/ /\ record' = after
         /\ pc' = [pc EXCEPT ![b] = "open"] /\ known' = [known EXCEPT ![b] = known[b]]
      \/ /\ record' = record \/ record' = after
         /\ pc' = [pc EXCEPT ![b] = "idle"]
         /\ \E s \in {record'[b].state, "unknown"} : known' = [known EXCEPT ![b] = s]
  BY <1>2 DEF CountAttempt, Write, Durable, durable, world
<1> HIDE DEF r
<1>4. TypeOK'
  <2>1. record' \in [Block -> BlockRecord]
    BY <1>0, <1>1, <1>3, RecordWritten, PointTypes DEF TypeOK
  <2>2. known' \in [Block -> BlockState]
    BY <1>0, <1>1, <1>3, KnownWritten, PointTypes, RecordWritten DEF BlockState, BlockRecord, Verdict
  <2>3. pc' \in [Block -> Steps]
    BY <1>0, <1>1, <1>3, PcWritten DEF Steps
  <2> QED
    BY <1>0, <1>2, <2>1, <2>2, <2>3 DEF TypeOK
<1>5. \A c \in Block \ {b} : Same(c)
  BY <1>0, <1>1, <1>2, <1>3, RecordWritten, KnownWritten, PcWritten, PointTypes, RecordWritten DEF Same,
     BlockRecord, BlockState, Steps, Verdict
<1>6. BlockInv(b)'
  <2>1. \/ /\ pc'[b] = "open" /\ known'[b] = known[b] /\ record'[b] = r
        \/ /\ pc'[b] = "idle" /\ known'[b] \in {record'[b].state, "unknown"}
           /\ record'[b] = record[b] \/ record'[b] = r
    BY <1>0, <1>1, <1>2, <1>3, RecordWritten, KnownWritten, PcWritten, PointTypes, RecordWritten DEF
       BlockRecord, BlockState, Steps, TypeOK, Verdict
  <2>2. Records(b)'
    <3>1. CASE record'[b] = record[b]
      BY <1>0, <1>2, <3>1 DEF BlockInv, Records, Absent, Adoptable, CountedPlusOne
    <3>2. CASE record'[b] = r
      <4>1. /\ record'[b].file = "present" /\ record'[b].state = "running"
            /\ record'[b].attempts = CountedPlusOne(b)
        BY <3>2 DEF r
      <4>2. CountedPlusOne(b) \in Number /\ Adoptable(b, CountedPlusOne(b))
        BY <1>0, <1>1 DEF BlockInv, Starting
      <4>3. record[b].attempts \in Nat /\ MaxAttempt \in Nat
        BY <1>0, PointTypes, OperationStoreAssumption
      <4>4. \A m \in Number : m <= CountedPlusOne(b) => ~Absent(b, m)
        BY <1>0, <4>2, <4>3 DEF BlockInv, Records, Absent, Adoptable, CountedPlusOne, Number
      <4>5. \A m \in Number : m > CountedPlusOne(b) =>
              Absent(b, m) /\ resolution[b][m] = NoResolution /\ ranUnder[b][m].times = 0
        BY <1>0, <4>3 DEF BlockInv, Records, CountedPlusOne, Number
      <4>6. \A m \in Number : Absent(b, m)' <=> Absent(b, m)
        BY <1>2 DEF Absent
      <4> QED
        BY <1>2, <4>1, <4>3, <4>4, <4>5, <4>6 DEF Records, CountedPlusOne
    <3> QED
      BY <2>1, <3>1, <3>2
  <2>3. Starting(b)'
    BY <1>0, <1>1, <1>2, <2>1, PointTypes DEF BlockInv, Starting, Number, Records, Running, Resolving,
       NoResolution, Absent, Adoptable, CountedPlusOne, Current, Unproved, r, BlockRecord
  <2>4. Running(b)'
    BY <1>0, <1>1, <1>2, <2>1, PointTypes DEF BlockInv, Running, Number, Records, Starting, Resolving,
       NoResolution, Absent, Adoptable, CountedPlusOne, Current, Unproved, r, BlockRecord
  <2>5. Resolving(b)'
    BY <1>0, <1>1, <1>2, <2>1, PointTypes DEF BlockInv, Resolving, Number, Records, Starting, Running,
       NoResolution, Absent, Adoptable, CountedPlusOne, Current, Unproved, r, BlockRecord
  <2>6. Settling(b)'
    BY <1>0, <1>1, <1>2, <2>1, PointTypes DEF BlockInv, Settling, Number, Records, Starting, Running,
       Resolving, NoResolution, Absent, Adoptable, CountedPlusOne, Current, Unproved, r, BlockRecord
  <2>7. Memory(b)'
    BY <1>0, <1>1, <1>2, <2>1, PointTypes DEF BlockInv, Memory, Current, CountedPlusOne, Unproved, r,
       BlockRecord
  <2>8. Effects(b)'
    BY <1>0, <1>1, <1>2, <2>1, PointTypes DEF BlockInv, Effects, Number, Records, Starting, Running,
       Resolving, NoResolution, Absent, Adoptable, CountedPlusOne, Current, Unproved, r, BlockRecord
  <2>9. Inconclusive(b)'
    BY <1>0, <1>1, <1>2, <2>1, PointTypes DEF BlockInv, Inconclusive, Current, CountedPlusOne, Unproved,
       r, BlockRecord
  <2> QED
    BY <2>2, <2>3, <2>4, <2>5, <2>6, <2>7, <2>8, <2>9 DEF BlockInv
<1> QED
  BY <1>2, <1>4, <1>5, <1>6, Frame DEF IInv

LEMMA OpenLogInv ==
  ASSUME IInv, NEW b \in Block, OpenLog(b)
  PROVE  IInv'
<1>0. TypeOK /\ BlockInv(b)
  BY DEF IInv
<1>1. pc[b] = "open"
  BY DEF OpenLog
<1>2. UNCHANGED <<record, attempt, resolution, up, build, known, tried, host, ranUnder>>
  BY DEF OpenLog, Conclude, durable, world
<1>3. \/ \E p \in {"reread", "ready"} : pc' = [pc EXCEPT ![b] = p] /\ verdict' = verdict
      \/ pc' = [pc EXCEPT ![b] = "complete"] /\ verdict' = [verdict EXCEPT ![b] = AttemptTransition("unknown")]
  BY <1>2 DEF OpenLog, Conclude, durable, world
<1>4. TypeOK'
  <2>1. verdict' \in [Block -> Verdict]
    BY <1>0, <1>1, <1>3, VerdictWritten, AttemptTransitionType DEF Outcome, TypeOK
  <2>2. pc' \in [Block -> Steps]
    BY <1>0, <1>1, <1>3, PcWritten DEF Steps
  <2> QED
    BY <1>0, <1>2, <2>1, <2>2 DEF TypeOK
<1>5. \A c \in Block \ {b} : Same(c)
  BY <1>0, <1>1, <1>2, <1>3, VerdictWritten, PcWritten, AttemptTransitionType DEF Same, Outcome, Steps
<1>6. BlockInv(b)'
  <2>1. \/ pc'[b] \in {"reread", "ready"}
        \/ pc'[b] = "complete" /\ verdict'[b] = AttemptTransition("unknown")
    BY <1>0, <1>1, <1>2, <1>3, VerdictWritten, PcWritten, AttemptTransitionType DEF Outcome, Steps, TypeOK
  <2>2. Records(b)'
    BY <1>0, <1>1, <1>2, <2>1, OperationStoreAssumption, PointTypes DEF BlockInv, Records, Number,
       Starting, Running, Resolving, NoResolution, Absent, Adoptable, CountedPlusOne, Current, Unproved,
       Settling
  <2>3. Starting(b)'
    BY <1>0, <1>1, <1>2, <2>1, PointTypes DEF BlockInv, Starting, Number, Records, Running, Resolving,
       NoResolution, Absent, Adoptable, CountedPlusOne, Current, Unproved, Settling
  <2>4. Running(b)'
    BY <1>0, <1>1, <1>2, <2>1, PointTypes DEF BlockInv, Running, Number, Records, Starting, Resolving,
       NoResolution, Absent, Adoptable, CountedPlusOne, Current, Unproved, Settling
  <2>5. Resolving(b)'
    BY <1>0, <1>1, <1>2, <2>1, PointTypes DEF BlockInv, Resolving, Number, Records, Starting, Running,
       NoResolution, Absent, Adoptable, CountedPlusOne, Current, Unproved, Settling
  <2>6. Settling(b)'
    BY <1>0, <1>1, <1>2, <2>1, PointTypes, AttemptTransitionType DEF BlockInv, Settling, Number,
       Records, Starting, Running, Resolving, NoResolution, Absent, Adoptable, CountedPlusOne, Current,
       Unproved, Outcome
  <2>7. Memory(b)'
    BY <1>0, <1>1, <1>2, <2>1, PointTypes DEF BlockInv, Memory, Current, CountedPlusOne, Unproved, Settling
  <2>8. Effects(b)'
    BY <1>0, <1>1, <1>2, <2>1, PointTypes DEF BlockInv, Effects, Number, Records, Starting, Running,
       Resolving, NoResolution, Absent, Adoptable, CountedPlusOne, Current, Unproved, Settling
  <2>9. Inconclusive(b)'
    BY <1>0, <1>1, <1>2, <2>1, PointTypes DEF BlockInv, Inconclusive, Current, CountedPlusOne, Unproved,
       Settling
  <2> QED
    BY <2>2, <2>3, <2>4, <2>5, <2>6, <2>7, <2>8, <2>9 DEF BlockInv
<1> QED
  BY <1>2, <1>4, <1>5, <1>6, Frame DEF IInv

LEMMA ReadAgainInv ==
  ASSUME IInv, NEW b \in Block, ReadAgain(b)
  PROVE  IInv'
<1>0. TypeOK /\ BlockInv(b)
  BY DEF IInv
<1>1. pc[b] = "reread"
  BY DEF ReadAgain
<1>2. UNCHANGED <<record, attempt, resolution, up, build, known, tried, host, ranUnder>>
  BY DEF ReadAgain, Conclude, Outcome, durable, world
<1>3. \/ pc' = [pc EXCEPT ![b] = "ready"] /\ verdict' = verdict
      \/ \E o \in Outcome :
           /\ o \in {"changed", "unchanged"} => host[b] = "complete"
           /\ pc' = [pc EXCEPT ![b] = "complete"] /\ verdict' = [verdict EXCEPT ![b] = AttemptTransition(o)]
  BY <1>2 DEF ReadAgain, Conclude, Outcome, durable, world
<1>4. TypeOK'
  <2>1. verdict' \in [Block -> Verdict]
    BY <1>0, <1>1, <1>3, VerdictWritten, AttemptTransitionType DEF TypeOK
  <2>2. pc' \in [Block -> Steps]
    BY <1>0, <1>1, <1>3, PcWritten DEF Steps
  <2> QED
    BY <1>0, <1>2, <2>1, <2>2 DEF TypeOK
<1>5. \A c \in Block \ {b} : Same(c)
  BY <1>0, <1>1, <1>2, <1>3, VerdictWritten, PcWritten, AttemptTransitionType DEF Same, Steps
<1>6. BlockInv(b)'
  <2>1. \/ pc'[b] = "ready"
        \/ /\ pc'[b] = "complete"
           /\ \E o \in Outcome :
                /\ o \in {"changed", "unchanged"} => host[b] = "complete"
                /\ verdict'[b] = AttemptTransition(o)
    BY <1>0, <1>1, <1>2, <1>3, VerdictWritten, PcWritten, AttemptTransitionType DEF Steps, TypeOK
  <2>2. Records(b)'
    BY <1>0, <1>1, <1>2, <2>1, OperationStoreAssumption, PointTypes DEF BlockInv, Records, Number,
       Starting, Running, Resolving, NoResolution, Absent, Adoptable, CountedPlusOne, Current, Unproved,
       Settling
  <2>3. Starting(b)'
    BY <1>0, <1>1, <1>2, <2>1, PointTypes DEF BlockInv, Starting, Number, Records, Running, Resolving,
       NoResolution, Absent, Adoptable, CountedPlusOne, Current, Unproved, Settling
  <2>4. Running(b)'
    BY <1>0, <1>1, <1>2, <2>1, PointTypes DEF BlockInv, Running, Number, Records, Starting, Resolving,
       NoResolution, Absent, Adoptable, CountedPlusOne, Current, Unproved, Settling
  <2>5. Resolving(b)'
    BY <1>0, <1>1, <1>2, <2>1, PointTypes DEF BlockInv, Resolving, Number, Records, Starting, Running,
       NoResolution, Absent, Adoptable, CountedPlusOne, Current, Unproved, Settling
  <2>6. Settling(b)'
    BY <1>0, <1>1, <1>2, <2>1, PointTypes, AttemptTransitionType DEF BlockInv, Settling, Number,
       Records, Starting, Running, Resolving, NoResolution, Absent, Adoptable, CountedPlusOne, Current,
       Unproved
  <2>7. Memory(b)'
    BY <1>0, <1>1, <1>2, <2>1, PointTypes DEF BlockInv, Memory, Current, CountedPlusOne, Unproved, Settling
  <2>8. Effects(b)'
    BY <1>0, <1>1, <1>2, <2>1, PointTypes DEF BlockInv, Effects, Number, Records, Starting, Running,
       Resolving, NoResolution, Absent, Adoptable, CountedPlusOne, Current, Unproved, Settling
  <2>9. Inconclusive(b)'
    BY <1>0, <1>1, <1>2, <2>1, PointTypes DEF BlockInv, Inconclusive, Current, CountedPlusOne, Unproved,
       Settling
  <2> QED
    BY <2>2, <2>3, <2>4, <2>5, <2>6, <2>7, <2>8, <2>9 DEF BlockInv
<1> QED
  BY <1>2, <1>4, <1>5, <1>6, Frame DEF IInv

LEMMA PrepareInv ==
  ASSUME IInv, NEW b \in Block, Prepare(b)
  PROVE  IInv'
<1> DEFINE n == Current(b)
           r == [attempt[b][n] EXCEPT !.before = "published"]
           after == [attempt EXCEPT ![b][n] = r]
<1>0. TypeOK /\ BlockInv(b)
  BY DEF IInv
<1>1. pc[b] = "ready" /\ n \in Number /\ r \in AttemptRecord
  <2>1. pc[b] = "ready" /\ n \in Number
    BY <1>0, CurrentNumber DEF Prepare, BlockInv, Running
  <2>2. attempt[b][n] \in AttemptRecord /\ build \in Build
    BY <1>0, <2>1, PointTypes DEF TypeOK
  <2> QED
    BY <2>1, <2>2, AttemptFields
<1>2. UNCHANGED <<record, resolution, up, build, known, tried, host, ranUnder>>
  BY DEF Prepare, Conclude, durable, world
<1>3. /\ attempt' = attempt \/ attempt' = after
      /\ \/ pc' = pc /\ verdict' = verdict
         \/ \E o \in {"failed", "canceled", "unknown"} :
              pc' = [pc EXCEPT ![b] = "complete"] /\ verdict' = [verdict EXCEPT ![b] = AttemptTransition(o)]
  BY <1>2 DEF Prepare, Conclude, durable, world
<1> HIDE DEF n, r
<1>4. TypeOK'
  <2>1. attempt' \in [Block -> [Number -> AttemptRecord]]
    BY <1>0, <1>1, <1>3, AttemptWritten DEF TypeOK
  <2>2. verdict' \in [Block -> Verdict]
    BY <1>0, <1>1, <1>3, VerdictWritten, AttemptTransitionType DEF Outcome, TypeOK
  <2>3. pc' \in [Block -> Steps]
    BY <1>0, <1>1, <1>3, PcWritten DEF Steps, TypeOK
  <2> QED
    BY <1>0, <1>2, <2>1, <2>2, <2>3 DEF TypeOK
<1>5. \A c \in Block \ {b} : Same(c)
  BY <1>0, <1>1, <1>2, <1>3, AttemptWritten, VerdictWritten, PcWritten, AttemptTransitionType DEF Same,
     Outcome, Steps
<1>6. BlockInv(b)'
  <2>1. /\ \/ attempt'[b] = attempt[b]
           \/ \A m \in Number : attempt'[b][m] = IF m = n THEN r ELSE attempt[b][m]
        /\ \/ pc'[b] = "ready"
           \/ /\ pc'[b] = "complete"
              /\ \E o \in {"failed", "canceled", "unknown"} : verdict'[b] = AttemptTransition(o)
    BY <1>0, <1>1, <1>2, <1>3, AttemptWritten, VerdictWritten, PcWritten, AttemptTransitionType DEF
       Outcome, Steps, TypeOK
  <2>2. Records(b)'
    BY <1>0, <1>1, <1>2, <2>1, OperationStoreAssumption, PointTypes DEF BlockInv, Records, Number,
       Starting, Running, Resolving, NoResolution, Absent, Adoptable, CountedPlusOne, Current, Unproved,
       n, r, AttemptRecord
  <2>3. Starting(b)'
    BY <1>0, <1>1, <1>2, <2>1, PointTypes DEF BlockInv, Starting, Number, Records, Running, Resolving,
       NoResolution, Absent, Adoptable, CountedPlusOne, Current, Unproved, n, r, AttemptRecord
  <2>4. Running(b)'
    BY <1>0, <1>1, <1>2, <2>1, PointTypes DEF BlockInv, Running, Number, Records, Starting, Resolving,
       NoResolution, Absent, Adoptable, CountedPlusOne, Current, Unproved, n, r, AttemptRecord
  <2>5. Resolving(b)'
    BY <1>0, <1>1, <1>2, <2>1, PointTypes DEF BlockInv, Resolving, Number, Records, Starting, Running,
       NoResolution, Absent, Adoptable, CountedPlusOne, Current, Unproved, n, r, AttemptRecord
  <2>6. Settling(b)'
    BY <1>0, <1>1, <1>2, <2>1, PointTypes, AttemptTransitionType DEF BlockInv, Settling, Number,
       Records, Starting, Running, Resolving, NoResolution, Absent, Adoptable, CountedPlusOne, Current,
       Unproved, Outcome
  <2>7. Memory(b)'
    BY <1>0, <1>1, <1>2, <2>1, PointTypes DEF BlockInv, Memory, Current, CountedPlusOne, Unproved, n, r,
       AttemptRecord
  <2>8. Effects(b)'
    BY <1>0, <1>1, <1>2, <2>1, PointTypes DEF BlockInv, Effects, Number, Records, Starting, Running,
       Resolving, NoResolution, Absent, Adoptable, CountedPlusOne, Current, Unproved, n, r,
       AttemptRecord
  <2>9. Inconclusive(b)'
    BY <1>0, <1>1, <1>2, <2>1, PointTypes DEF BlockInv, Inconclusive, Current, CountedPlusOne, Unproved,
       n, r, AttemptRecord
  <2> QED
    BY <2>2, <2>3, <2>4, <2>5, <2>6, <2>7, <2>8, <2>9 DEF BlockInv
<1> QED
  BY <1>2, <1>4, <1>5, <1>6, Frame DEF IInv

LEMMA EffectInv ==
  ASSUME IInv, NEW b \in Block, Effect(b)
  PROVE  IInv'
<1> DEFINE n == Current(b)
           x == [times |-> ranUnder[b][n].times + 1, build |-> build]
           after == [ranUnder EXCEPT ![b][n] = x]
<1>0. TypeOK /\ BlockInv(b)
  BY DEF IInv
<1>1. pc[b] \in {"ready", "effect"} /\ n \in Number /\ x \in Ran
  <2>1. pc[b] \in {"ready", "effect"} /\ n \in Number
    BY <1>0, CurrentNumber DEF Effect, BlockInv, Running
  <2> QED
    BY <1>0, <2>1, PointTypes DEF TypeOK, Ran
<1>2. UNCHANGED <<record, attempt, resolution, up, build, known, tried, verdict>>
  BY DEF Effect, durable, world
<1>3. /\ pc' = [pc EXCEPT ![b] = "effect"]
      /\ \E h \in {"partial", "complete"} : host' = [host EXCEPT ![b] = h]
      /\ pc[b] = "effect" => ranUnder' = ranUnder
      /\ pc[b] = "ready" => ranUnder' = after
  BY <1>1, <1>2 DEF Effect, durable, world
<1> HIDE DEF n, x
<1>4. TypeOK'
  <2>1. ranUnder' \in [Block -> [Number -> Ran]]
    BY <1>0, <1>1, <1>3, RanWritten DEF TypeOK
  <2>2. host' \in [Block -> Host]
    BY <1>0, <1>1, <1>3, HostWritten DEF Host
  <2>3. pc' \in [Block -> Steps]
    BY <1>0, <1>1, <1>3, PcWritten DEF Steps
  <2> QED
    BY <1>0, <1>2, <2>1, <2>2, <2>3 DEF TypeOK
<1>5. \A c \in Block \ {b} : Same(c)
  <2>1. \A c \in Block \ {b} : ranUnder'[c] = ranUnder[c]
    BY <1>0, <1>1, <1>3, RanWritten
  <2>2. \A c \in Block \ {b} : host'[c] = host[c]
    BY <1>0, <1>3, HostWritten DEF Host
  <2>3. \A c \in Block \ {b} : pc'[c] = pc[c]
    BY <1>0, <1>3, PcWritten DEF Steps
  <2> QED
    BY <1>2, <2>1, <2>2, <2>3 DEF Same
<1>6. BlockInv(b)'
  <2>1. /\ pc'[b] = "effect"
        /\ \/ pc[b] = "effect" /\ ranUnder'[b] = ranUnder[b]
           \/ /\ pc[b] = "ready"
              /\ \A m \in Number : ranUnder'[b][m] = IF m = n THEN x ELSE ranUnder[b][m]
    BY <1>0, <1>1, <1>2, <1>3, RanWritten, HostWritten, PcWritten DEF Host, Steps, TypeOK
  <2>2. Records(b)'
    BY <1>0, <1>1, <1>2, <2>1, OperationStoreAssumption, PointTypes DEF BlockInv, Records, Number,
       Starting, Running, Resolving, NoResolution, Absent, Adoptable, CountedPlusOne, Current, Unproved,
       n, x
  <2>3. Starting(b)'
    BY <1>0, <1>1, <1>2, <2>1, PointTypes DEF BlockInv, Starting, Number, Records, Running, Resolving,
       NoResolution, Absent, Adoptable, CountedPlusOne, Current, Unproved, n, x
  <2>4. Running(b)'
    BY <1>0, <1>1, <1>2, <2>1, PointTypes DEF BlockInv, Running, Number, Records, Starting, Resolving,
       NoResolution, Absent, Adoptable, CountedPlusOne, Current, Unproved, n, x
  <2>5. Resolving(b)'
    BY <1>0, <1>1, <1>2, <2>1, PointTypes DEF BlockInv, Resolving, Number, Records, Starting, Running,
       NoResolution, Absent, Adoptable, CountedPlusOne, Current, Unproved, n, x
  <2>6. Settling(b)'
    BY <1>0, <1>1, <1>2, <2>1, PointTypes DEF BlockInv, Settling, Number, Records, Starting, Running,
       Resolving, NoResolution, Absent, Adoptable, CountedPlusOne, Current, Unproved, n, x
  <2>7. Memory(b)'
    BY <1>0, <1>1, <1>2, <2>1, PointTypes DEF BlockInv, Memory, Current, CountedPlusOne, Unproved, n, x
  <2>8. Effects(b)'
    BY <1>0, <1>1, <1>2, <2>1, PointTypes DEF BlockInv, Effects, Number, Records, Starting, Running,
       Resolving, NoResolution, Absent, Adoptable, CountedPlusOne, Current, Unproved, n, x
  <2>9. Inconclusive(b)'
    BY <1>0, <1>1, <1>2, <2>1, PointTypes DEF BlockInv, Inconclusive, Current, CountedPlusOne, Unproved, n, x
  <2> QED
    BY <2>2, <2>3, <2>4, <2>5, <2>6, <2>7, <2>8, <2>9 DEF BlockInv
<1> QED
  BY <1>2, <1>4, <1>5, <1>6, Frame DEF IInv

LEMMA ReturnInv ==
  ASSUME IInv, NEW b \in Block, Return(b)
  PROVE  IInv'
<1>0. TypeOK /\ BlockInv(b)
  BY DEF IInv
<1>1. pc[b] \in {"ready", "effect"}
  BY DEF Return
<1>2. UNCHANGED <<record, attempt, resolution, up, build, known, tried, host, ranUnder>>
  BY DEF Return, Conclude, durable, world
<1>3. \E o \in Outcome :
        /\ o \in {"changed", "unchanged"} => host[b] = "complete"
        /\ pc' = [pc EXCEPT ![b] = "complete"] /\ verdict' = [verdict EXCEPT ![b] = AttemptTransition(o)]
  BY <1>2 DEF Return, Conclude, durable, world
<1>4. TypeOK'
  <2>1. verdict' \in [Block -> Verdict]
    BY <1>0, <1>1, <1>3, VerdictWritten, AttemptTransitionType DEF TypeOK
  <2>2. pc' \in [Block -> Steps]
    BY <1>0, <1>1, <1>3, PcWritten DEF Steps
  <2> QED
    BY <1>0, <1>2, <2>1, <2>2 DEF TypeOK
<1>5. \A c \in Block \ {b} : Same(c)
  BY <1>0, <1>1, <1>2, <1>3, VerdictWritten, PcWritten, AttemptTransitionType DEF Same, Steps
<1>6. BlockInv(b)'
  <2>1. /\ pc'[b] = "complete"
        /\ \E o \in Outcome :
             /\ o \in {"changed", "unchanged"} => host[b] = "complete"
             /\ verdict'[b] = AttemptTransition(o)
    BY <1>0, <1>1, <1>2, <1>3, VerdictWritten, PcWritten, AttemptTransitionType DEF Steps, TypeOK
  <2>2. Records(b)'
    BY <1>0, <1>1, <1>2, <2>1, OperationStoreAssumption, PointTypes DEF BlockInv, Records, Number,
       Starting, Running, Resolving, NoResolution, Absent, Adoptable, CountedPlusOne, Current, Unproved,
       Settling
  <2>3. Starting(b)'
    BY <1>0, <1>1, <1>2, <2>1, PointTypes DEF BlockInv, Starting, Number, Records, Running, Resolving,
       NoResolution, Absent, Adoptable, CountedPlusOne, Current, Unproved, Settling
  <2>4. Running(b)'
    BY <1>0, <1>1, <1>2, <2>1, PointTypes DEF BlockInv, Running, Number, Records, Starting, Resolving,
       NoResolution, Absent, Adoptable, CountedPlusOne, Current, Unproved, Settling
  <2>5. Resolving(b)'
    BY <1>0, <1>1, <1>2, <2>1, PointTypes DEF BlockInv, Resolving, Number, Records, Starting, Running,
       NoResolution, Absent, Adoptable, CountedPlusOne, Current, Unproved, Settling
  <2>6. Settling(b)'
    BY <1>0, <1>1, <1>2, <2>1, PointTypes, AttemptTransitionType DEF BlockInv, Settling, Number,
       Records, Starting, Running, Resolving, NoResolution, Absent, Adoptable, CountedPlusOne, Current,
       Unproved
  <2>7. Memory(b)'
    BY <1>0, <1>1, <1>2, <2>1, PointTypes DEF BlockInv, Memory, Current, CountedPlusOne, Unproved, Settling
  <2>8. Effects(b)'
    BY <1>0, <1>1, <1>2, <2>1, PointTypes DEF BlockInv, Effects, Number, Records, Starting, Running,
       Resolving, NoResolution, Absent, Adoptable, CountedPlusOne, Current, Unproved, Settling
  <2>9. Inconclusive(b)'
    BY <1>0, <1>1, <1>2, <2>1, PointTypes DEF BlockInv, Inconclusive, Current, CountedPlusOne, Unproved,
       Settling
  <2> QED
    BY <2>2, <2>3, <2>4, <2>5, <2>6, <2>7, <2>8, <2>9 DEF BlockInv
<1> QED
  BY <1>2, <1>4, <1>5, <1>6, Frame DEF IInv

LEMMA CompleteAttemptInv ==
  ASSUME IInv, NEW b \in Block, CompleteAttempt(b)
  PROVE  IInv'
<1> DEFINE n == Current(b)
           r == [attempt[b][n] EXCEPT !.phase = "observed"]
           after == [attempt EXCEPT ![b][n] = r]
<1>0. TypeOK /\ BlockInv(b)
  BY DEF IInv
<1>1. pc[b] = "complete" /\ n \in Number /\ r \in AttemptRecord
  <2>1. pc[b] = "complete" /\ n \in Number
    BY <1>0, CurrentNumber DEF CompleteAttempt, BlockInv, Running
  <2>2. attempt[b][n] \in AttemptRecord /\ build \in Build
    BY <1>0, <2>1, PointTypes DEF TypeOK
  <2> QED
    BY <2>1, <2>2, AttemptFields
<1>2. UNCHANGED <<record, resolution, up, build, tried, verdict, host, ranUnder>>
  BY DEF CompleteAttempt, Write, Durable, durable, world
<1>3. \/ /\ attempt' = after
         /\ pc' = [pc EXCEPT ![b] = "settle"] /\ known' = [known EXCEPT ![b] = known[b]]
      \/ /\ attempt' = attempt \/ attempt' = after
         /\ pc' = [pc EXCEPT ![b] = "idle"]
         /\ \E s \in {"unknown"} : known' = [known EXCEPT ![b] = s]
  BY <1>2 DEF CompleteAttempt, Write, Durable, durable, world
<1> HIDE DEF n, r
<1>4. TypeOK'
  <2>1. attempt' \in [Block -> [Number -> AttemptRecord]]
    BY <1>0, <1>1, <1>3, AttemptWritten DEF TypeOK
  <2>2. known' \in [Block -> BlockState]
    BY <1>0, <1>1, <1>3, KnownWritten, PointTypes DEF BlockState
  <2>3. pc' \in [Block -> Steps]
    BY <1>0, <1>1, <1>3, PcWritten DEF Steps
  <2> QED
    BY <1>0, <1>2, <2>1, <2>2, <2>3 DEF TypeOK
<1>5. \A c \in Block \ {b} : Same(c)
  BY <1>0, <1>1, <1>2, <1>3, AttemptWritten, KnownWritten, PcWritten, PointTypes DEF Same, BlockState, Steps
<1>6. BlockInv(b)'
  <2>1. \/ /\ pc'[b] = "settle" /\ known'[b] = known[b]
           /\ \A m \in Number : attempt'[b][m] = IF m = n THEN r ELSE attempt[b][m]
        \/ /\ pc'[b] = "idle" /\ known'[b] \in {"unknown"}
           /\ \/ attempt'[b] = attempt[b]
              \/ \A m \in Number : attempt'[b][m] = IF m = n THEN r ELSE attempt[b][m]
    BY <1>0, <1>1, <1>2, <1>3, AttemptWritten, KnownWritten, PcWritten, PointTypes DEF BlockState,
       Steps, TypeOK
  <2>2. Records(b)'
    BY <1>0, <1>1, <1>2, <2>1, OperationStoreAssumption, PointTypes DEF BlockInv, Records, Number,
       Starting, Running, Resolving, NoResolution, Absent, Adoptable, CountedPlusOne, Current, Unproved,
       n, r, AttemptRecord
  <2>3. Starting(b)'
    BY <1>0, <1>1, <1>2, <2>1, PointTypes DEF BlockInv, Starting, Number, Records, Running, Resolving,
       NoResolution, Absent, Adoptable, CountedPlusOne, Current, Unproved, n, r, AttemptRecord
  <2>4. Running(b)'
    BY <1>0, <1>1, <1>2, <2>1, PointTypes DEF BlockInv, Running, Number, Records, Starting, Resolving,
       NoResolution, Absent, Adoptable, CountedPlusOne, Current, Unproved, n, r, AttemptRecord
  <2>5. Resolving(b)'
    BY <1>0, <1>1, <1>2, <2>1, PointTypes DEF BlockInv, Resolving, Number, Records, Starting, Running,
       NoResolution, Absent, Adoptable, CountedPlusOne, Current, Unproved, n, r, AttemptRecord
  <2>6. Settling(b)'
    BY <1>0, <1>1, <1>2, <2>1, PointTypes DEF BlockInv, Settling, Number, Records, Starting, Running,
       Resolving, NoResolution, Absent, Adoptable, CountedPlusOne, Current, Unproved, n, r,
       AttemptRecord
  <2>7. Memory(b)'
    BY <1>0, <1>1, <1>2, <2>1, PointTypes DEF BlockInv, Memory, Current, CountedPlusOne, Unproved, n, r,
       AttemptRecord
  <2>8. Effects(b)'
    BY <1>0, <1>1, <1>2, <2>1, PointTypes DEF BlockInv, Effects, Number, Records, Starting, Running,
       Resolving, NoResolution, Absent, Adoptable, CountedPlusOne, Current, Unproved, n, r,
       AttemptRecord
  <2>9. Inconclusive(b)'
    BY <1>0, <1>1, <1>2, <2>1, PointTypes DEF BlockInv, Inconclusive, Current, CountedPlusOne, Unproved,
       n, r, AttemptRecord
  <2> QED
    BY <2>2, <2>3, <2>4, <2>5, <2>6, <2>7, <2>8, <2>9 DEF BlockInv
<1> QED
  BY <1>2, <1>4, <1>5, <1>6, Frame DEF IInv

LEMMA PublishStateInv ==
  ASSUME IInv, NEW b \in Block, PublishState(b)
  PROVE  IInv'
<1> DEFINE r == [record[b] EXCEPT !.state = verdict[b].state]
           after == [record EXCEPT ![b] = r]
<1>0. TypeOK /\ BlockInv(b)
  BY DEF IInv
<1>1. pc[b] = "settle" /\ r \in BlockRecord
  BY <1>0, PointTypes, BlockFields DEF PublishState, BlockInv, Settling, BlockState
<1>2. UNCHANGED <<attempt, resolution, up, build, tried, verdict, host, ranUnder>>
  BY DEF PublishState, Write, Durable, durable, world
<1>3. \/ /\ record' = after
         /\ pc' = [pc EXCEPT ![b] = "idle"] /\ known' = [known EXCEPT ![b] = verdict[b].state]
      \/ /\ record' = record \/ record' = after
         /\ pc' = [pc EXCEPT ![b] = "idle"]
         /\ \E s \in {"unknown"} : known' = [known EXCEPT ![b] = s]
  BY <1>2 DEF PublishState, Write, Durable, durable, world
<1> HIDE DEF r
<1>4. TypeOK'
  <2>1. record' \in [Block -> BlockRecord]
    BY <1>0, <1>1, <1>3, RecordWritten, PointTypes DEF TypeOK
  <2>2. known' \in [Block -> BlockState]
    BY <1>0, <1>1, <1>3, KnownWritten, PointTypes, RecordWritten DEF BlockState, BlockRecord, Verdict
  <2>3. pc' \in [Block -> Steps]
    BY <1>0, <1>1, <1>3, PcWritten DEF Steps
  <2> QED
    BY <1>0, <1>2, <2>1, <2>2, <2>3 DEF TypeOK
<1>5. \A c \in Block \ {b} : Same(c)
  BY <1>0, <1>1, <1>2, <1>3, RecordWritten, KnownWritten, PcWritten, PointTypes, RecordWritten DEF Same,
     BlockRecord, BlockState, Steps, Verdict
<1>6. BlockInv(b)'
  <2>1. \/ /\ pc'[b] = "idle" /\ known'[b] = verdict[b].state /\ record'[b] = r
        \/ /\ pc'[b] = "idle" /\ known'[b] \in {"unknown"}
           /\ record'[b] = record[b] \/ record'[b] = r
    BY <1>0, <1>1, <1>2, <1>3, RecordWritten, KnownWritten, PcWritten, PointTypes, RecordWritten DEF
       BlockRecord, BlockState, Steps, TypeOK, Verdict
  <2>2. Records(b)'
    BY <1>0, <1>1, <1>2, <2>1, OperationStoreAssumption, PointTypes DEF BlockInv, Records, Number,
       Starting, Running, Resolving, NoResolution, Absent, Adoptable, CountedPlusOne, Current, Unproved,
       r, BlockRecord, Settling
  <2>3. Starting(b)'
    BY <1>0, <1>1, <1>2, <2>1, PointTypes DEF BlockInv, Starting, Number, Records, Running, Resolving,
       NoResolution, Absent, Adoptable, CountedPlusOne, Current, Unproved, r, BlockRecord, Settling
  <2>4. Running(b)'
    BY <1>0, <1>1, <1>2, <2>1, PointTypes DEF BlockInv, Running, Number, Records, Starting, Resolving,
       NoResolution, Absent, Adoptable, CountedPlusOne, Current, Unproved, r, BlockRecord, Settling
  <2>5. Resolving(b)'
    BY <1>0, <1>1, <1>2, <2>1, PointTypes DEF BlockInv, Resolving, Number, Records, Starting, Running,
       NoResolution, Absent, Adoptable, CountedPlusOne, Current, Unproved, r, BlockRecord, Settling
  <2>6. Settling(b)'
    BY <1>0, <1>1, <1>2, <2>1, PointTypes DEF BlockInv, Settling, Number, Records, Starting, Running,
       Resolving, NoResolution, Absent, Adoptable, CountedPlusOne, Current, Unproved, r, BlockRecord
  <2>7. Memory(b)'
    BY <1>0, <1>1, <1>2, <2>1, PointTypes DEF BlockInv, Memory, Current, CountedPlusOne, Unproved, r,
       BlockRecord, Settling
  <2>8. Effects(b)'
    BY <1>0, <1>1, <1>2, <2>1, PointTypes DEF BlockInv, Effects, Number, Records, Starting, Running,
       Resolving, NoResolution, Absent, Adoptable, CountedPlusOne, Current, Unproved, r, BlockRecord,
       Settling
  <2>9. Inconclusive(b)'
    BY <1>0, <1>1, <1>2, <2>1, PointTypes DEF BlockInv, Inconclusive, Current, CountedPlusOne, Unproved,
       r, BlockRecord, Settling
  <2> QED
    BY <2>2, <2>3, <2>4, <2>5, <2>6, <2>7, <2>8, <2>9 DEF BlockInv
<1> QED
  BY <1>2, <1>4, <1>5, <1>6, Frame DEF IInv

LEMMA StartResolutionInv ==
  ASSUME IInv, NEW b \in Block, StartResolution(b)
  PROVE  IInv'
<1>0. TypeOK /\ BlockInv(b)
  BY DEF IInv
<1>1. /\ up /\ pc[b] = "idle" /\ Unproved(known[b]) /\ tried[b] = {}
      /\ (tried[b] \cup {"observed"}) \in SUBSET {"observed", "worked"}
  BY <1>0 DEF TypeOK, StartResolution
<1>2. UNCHANGED <<record, attempt, resolution, up, build, verdict, host, ranUnder>>
  BY DEF StartResolution, Reread, Durable, durable, world
<1>3. /\ tried' = [tried EXCEPT ![b] = tried[b] \cup {"observed"}]
      /\ \/ /\ pc' = pc
            /\ \E s \in {record[b].state, "unknown"} : known' = [known EXCEPT ![b] = s]
         \/ \E p \in {"reserve"} :
            /\ pc' = [pc EXCEPT ![b] = p] /\ known' = known
            /\ Current(b) \in Number /\ resolution[b][Current(b)].count < MaxAttempt
  BY <1>2 DEF StartResolution, Reread, Durable, durable, world
<1>4. TypeOK'
  <2>1. tried' \in [Block -> SUBSET {"observed", "worked"}]
    BY <1>0, <1>1, <1>3, TriedWritten
  <2>2. known' \in [Block -> BlockState]
    BY <1>0, <1>1, <1>3, KnownWritten, PointTypes DEF BlockState, TypeOK
  <2>3. pc' \in [Block -> Steps]
    BY <1>0, <1>1, <1>3, PcWritten DEF Steps, TypeOK
  <2> QED
    BY <1>0, <1>2, <2>1, <2>2, <2>3 DEF TypeOK
<1>5. \A c \in Block \ {b} : Same(c)
  BY <1>0, <1>1, <1>2, <1>3, TriedWritten, KnownWritten, PcWritten, PointTypes DEF Same, BlockState, Steps
<1>6. BlockInv(b)'
  <2>1. /\ tried'[b] # {}
        /\ \/ pc'[b] = "idle" /\ known'[b] \in {record[b].state, "unknown"}
           \/ \E p \in {"reserve"} :
             /\ pc'[b] = p
             /\ Current(b) \in Number /\ resolution[b][Current(b)].count < MaxAttempt
    BY <1>0, <1>1, <1>2, <1>3, TriedWritten, KnownWritten, PcWritten, PointTypes DEF BlockState, Steps, TypeOK
  <2>2. Records(b)'
    BY <1>0, <1>1, <1>2, <2>1, OperationStoreAssumption, PointTypes DEF BlockInv, Records, Number,
       Starting, Running, Resolving, NoResolution, Absent, Adoptable, CountedPlusOne, Current, Unproved,
       Memory, BlockRecord
  <2>3. Starting(b)'
    BY <1>0, <1>1, <1>2, <2>1, PointTypes DEF BlockInv, Starting, Number, Records, Running, Resolving,
       NoResolution, Absent, Adoptable, CountedPlusOne, Current, Unproved, Memory, BlockRecord
  <2>4. Running(b)'
    BY <1>0, <1>1, <1>2, <2>1, PointTypes DEF BlockInv, Running, Number, Records, Starting, Resolving,
       NoResolution, Absent, Adoptable, CountedPlusOne, Current, Unproved, Memory, BlockRecord
  <2>5. Resolving(b)'
    BY <1>0, <1>1, <1>2, <2>1, PointTypes DEF BlockInv, Resolving, Number, Records, Starting, Running,
       NoResolution, Absent, Adoptable, CountedPlusOne, Current, Unproved, Memory, BlockRecord
  <2>6. Settling(b)'
    BY <1>0, <1>1, <1>2, <2>1, PointTypes DEF BlockInv, Settling, Number, Records, Starting, Running,
       Resolving, NoResolution, Absent, Adoptable, CountedPlusOne, Current, Unproved, Memory,
       BlockRecord
  <2>7. Memory(b)'
    BY <1>0, <1>1, <1>2, <2>1, PointTypes DEF BlockInv, Memory, Current, CountedPlusOne, Unproved, BlockRecord
  <2>8. Effects(b)'
    BY <1>0, <1>1, <1>2, <2>1, PointTypes DEF BlockInv, Effects, Number, Records, Starting, Running,
       Resolving, NoResolution, Absent, Adoptable, CountedPlusOne, Current, Unproved, Memory,
       BlockRecord
  <2>9. Inconclusive(b)'
    BY <1>0, <1>1, <1>2, <2>1, PointTypes DEF BlockInv, Inconclusive, Current, CountedPlusOne, Unproved,
       Memory, BlockRecord
  <2> QED
    BY <2>2, <2>3, <2>4, <2>5, <2>6, <2>7, <2>8, <2>9 DEF BlockInv
<1> QED
  BY <1>2, <1>4, <1>5, <1>6, Frame DEF IInv

LEMMA ReserveResolutionInv ==
  ASSUME IInv, NEW b \in Block, ReserveResolution(b)
  PROVE  IInv'
<1> DEFINE n == Current(b)
           r == [count |-> resolution[b][n].count + 1, phase |-> "running", effect |-> "unknown"]
           after == [resolution EXCEPT ![b][n] = r]
<1>0. TypeOK /\ BlockInv(b)
  BY DEF IInv
<1>1. pc[b] = "reserve" /\ n \in Number /\ r \in ResolutionRecord
  <2>1. pc[b] = "reserve" /\ n \in Number
    BY <1>0, CurrentNumber DEF ReserveResolution, BlockInv, Resolving, Unproved
  <2>2. resolution[b][n].count \in 0..MaxAttempt /\ verdict[b] \in Verdict
    BY <1>0, <2>1, PointTypes
  <2> QED
    BY <1>0, <2>1, <2>2, OperationStoreAssumption DEF BlockInv, Resolving, ResolutionRecord,
       EffectState, Verdict
<1>2. UNCHANGED <<record, attempt, up, build, tried, verdict, host, ranUnder>>
  BY DEF ReserveResolution, Write, Durable, durable, world
<1>3. \/ /\ resolution' = after
         /\ pc' = [pc EXCEPT ![b] = "observe"] /\ known' = [known EXCEPT ![b] = known[b]]
      \/ /\ resolution' = resolution \/ resolution' = after
         /\ pc' = [pc EXCEPT ![b] = "idle"]
         /\ \E s \in {record[b].state, "unknown"} : known' = [known EXCEPT ![b] = s]
  BY <1>2 DEF ReserveResolution, Write, Durable, durable, world
<1> HIDE DEF n, r
<1>4. TypeOK'
  <2>1. resolution' \in [Block -> [Number -> ResolutionRecord]]
    BY <1>0, <1>1, <1>3, ResolutionWritten DEF TypeOK
  <2>2. known' \in [Block -> BlockState]
    BY <1>0, <1>1, <1>3, KnownWritten, PointTypes DEF BlockState
  <2>3. pc' \in [Block -> Steps]
    BY <1>0, <1>1, <1>3, PcWritten DEF Steps
  <2> QED
    BY <1>0, <1>2, <2>1, <2>2, <2>3 DEF TypeOK
<1>5. \A c \in Block \ {b} : Same(c)
  BY <1>0, <1>1, <1>2, <1>3, ResolutionWritten, KnownWritten, PcWritten, PointTypes DEF Same,
     BlockState, Steps
<1>6. BlockInv(b)'
  <2>1. \/ /\ pc'[b] = "observe" /\ known'[b] = known[b]
           /\ \A m \in Number : resolution'[b][m] = IF m = n THEN r ELSE resolution[b][m]
        \/ /\ pc'[b] = "idle" /\ known'[b] \in {record[b].state, "unknown"}
           /\ \/ resolution'[b] = resolution[b]
              \/ \A m \in Number : resolution'[b][m] = IF m = n THEN r ELSE resolution[b][m]
    BY <1>0, <1>1, <1>2, <1>3, ResolutionWritten, KnownWritten, PcWritten, PointTypes DEF BlockState,
       Steps, TypeOK
  <2>2. Records(b)'
    BY <1>0, <1>1, <1>2, <2>1, OperationStoreAssumption, PointTypes DEF BlockInv, Records, Number,
       Starting, Running, Resolving, NoResolution, Absent, Adoptable, CountedPlusOne, Current, Unproved,
       n, r
  <2>3. Starting(b)'
    BY <1>0, <1>1, <1>2, <2>1, PointTypes DEF BlockInv, Starting, Number, Records, Running, Resolving,
       NoResolution, Absent, Adoptable, CountedPlusOne, Current, Unproved, n, r
  <2>4. Running(b)'
    BY <1>0, <1>1, <1>2, <2>1, PointTypes DEF BlockInv, Running, Number, Records, Starting, Resolving,
       NoResolution, Absent, Adoptable, CountedPlusOne, Current, Unproved, n, r
  <2>5. Resolving(b)'
    BY <1>0, <1>1, <1>2, <2>1, PointTypes DEF BlockInv, Resolving, Number, Records, Starting, Running,
       NoResolution, Absent, Adoptable, CountedPlusOne, Current, Unproved, n, r
  <2>6. Settling(b)'
    BY <1>0, <1>1, <1>2, <2>1, PointTypes DEF BlockInv, Settling, Number, Records, Starting, Running,
       Resolving, NoResolution, Absent, Adoptable, CountedPlusOne, Current, Unproved, n, r
  <2>7. Memory(b)'
    BY <1>0, <1>1, <1>2, <2>1, PointTypes DEF BlockInv, Memory, Current, CountedPlusOne, Unproved, n, r
  <2>8. Effects(b)'
    BY <1>0, <1>1, <1>2, <2>1, PointTypes DEF BlockInv, Effects, Number, Records, Starting, Running,
       Resolving, NoResolution, Absent, Adoptable, CountedPlusOne, Current, Unproved, n, r
  <2>9. Inconclusive(b)'
    BY <1>0, <1>1, <1>2, <2>1, PointTypes DEF BlockInv, Inconclusive, Current, CountedPlusOne, Unproved, n, r
  <2> QED
    BY <2>2, <2>3, <2>4, <2>5, <2>6, <2>7, <2>8, <2>9 DEF BlockInv
<1> QED
  BY <1>2, <1>4, <1>5, <1>6, Frame DEF IInv

LEMMA ObserveInv ==
  ASSUME IInv, NEW b \in Block, Observe(b)
  PROVE  IInv'
<1>0. TypeOK /\ BlockInv(b)
  BY DEF IInv
<1>1. pc[b] = "observe" /\ Current(b) \in Number
  BY <1>0, CurrentNumber DEF Observe, BlockInv, Resolving, Unproved
<1>2. UNCHANGED <<record, attempt, resolution, up, build, tried, host, ranUnder>>
  BY DEF Observe, Observable, Reread, Durable, durable, world
<1>3. \/ /\ pc' = [pc EXCEPT ![b] = "idle"] /\ verdict' = verdict
         /\ \E s \in {record[b].state, "unknown"} : known' = [known EXCEPT ![b] = s]
      \/ /\ pc' = [pc EXCEPT ![b] = "resolved"] /\ known' = known
         /\ \E e \in EffectState :
              /\ e \in Observable(b)
              /\ verdict' = [verdict EXCEPT ![b] = ResolutionTransition(e)]
  BY <1>2 DEF Observe, Observable, Reread, Durable, durable, world
<1>4. TypeOK'
  <2>1. verdict' \in [Block -> Verdict]
    BY <1>0, <1>1, <1>3, VerdictWritten, ResolutionTransitionType DEF TypeOK
  <2>2. known' \in [Block -> BlockState]
    BY <1>0, <1>1, <1>3, KnownWritten, PointTypes DEF BlockState, TypeOK
  <2>3. pc' \in [Block -> Steps]
    BY <1>0, <1>1, <1>3, PcWritten DEF Steps
  <2> QED
    BY <1>0, <1>2, <2>1, <2>2, <2>3 DEF TypeOK
<1>5. \A c \in Block \ {b} : Same(c)
  BY <1>0, <1>1, <1>2, <1>3, VerdictWritten, KnownWritten, PcWritten, PointTypes,
     ResolutionTransitionType DEF Same, BlockState, Steps
<1>6. BlockInv(b)'
  <2>1. \/ pc'[b] = "idle" /\ known'[b] \in {record[b].state, "unknown"}
        \/ /\ pc'[b] = "resolved"
           /\ \E e \in EffectState :
                /\ e = "completed" => host[b] = "complete"
                /\ e = "inconclusive" => \A m \in 1..Current(b) : resolution[b][m].effect # "inconclusive"
                /\ verdict'[b] = ResolutionTransition(e)
    BY <1>0, <1>1, <1>2, <1>3, VerdictWritten, KnownWritten, PcWritten, PointTypes,
       ResolutionTransitionType DEF BlockState, Steps, TypeOK, Observable, Replayable
  <2>2. Records(b)'
    BY <1>0, <1>1, <1>2, <2>1, OperationStoreAssumption, PointTypes DEF BlockInv, Records, Number,
       Starting, Running, Resolving, NoResolution, Absent, Adoptable, CountedPlusOne, Current, Unproved,
       Settling
  <2>3. Starting(b)'
    BY <1>0, <1>1, <1>2, <2>1, PointTypes DEF BlockInv, Starting, Number, Records, Running, Resolving,
       NoResolution, Absent, Adoptable, CountedPlusOne, Current, Unproved, Settling
  <2>4. Running(b)'
    BY <1>0, <1>1, <1>2, <2>1, PointTypes DEF BlockInv, Running, Number, Records, Starting, Resolving,
       NoResolution, Absent, Adoptable, CountedPlusOne, Current, Unproved, Settling
  <2>5. Resolving(b)'
    BY <1>0, <1>1, <1>2, <2>1, PointTypes DEF BlockInv, Resolving, Number, Records, Starting, Running,
       NoResolution, Absent, Adoptable, CountedPlusOne, Current, Unproved, Settling
  <2>6. Settling(b)'
    BY <1>0, <1>1, <1>2, <2>1, PointTypes, ResolutionTransitionType DEF BlockInv, Settling, Number,
       Records, Starting, Running, Resolving, NoResolution, Absent, Adoptable, CountedPlusOne, Current,
       Unproved
  <2>7. Memory(b)'
    BY <1>0, <1>1, <1>2, <2>1, PointTypes DEF BlockInv, Memory, Current, CountedPlusOne, Unproved, Settling
  <2>8. Effects(b)'
    BY <1>0, <1>1, <1>2, <2>1, PointTypes DEF BlockInv, Effects, Number, Records, Starting, Running,
       Resolving, NoResolution, Absent, Adoptable, CountedPlusOne, Current, Unproved, Settling
  <2>9. Inconclusive(b)'
    BY <1>0, <1>1, <1>2, <2>1, PointTypes, ResolutionTransitionType, OperationStoreAssumption DEF
       BlockInv, Inconclusive, Number, Records, Starting, Running, Resolving, NoResolution, Absent,
       Adoptable, CountedPlusOne, Current, Unproved
  <2> QED
    BY <2>2, <2>3, <2>4, <2>5, <2>6, <2>7, <2>8, <2>9 DEF BlockInv
<1> QED
  BY <1>2, <1>4, <1>5, <1>6, Frame DEF IInv

LEMMA CompleteResolutionInv ==
  ASSUME IInv, NEW b \in Block, CompleteResolution(b)
  PROVE  IInv'
<1> DEFINE n == Current(b)
           r == [count |-> resolution[b][n].count, phase |-> "observed", effect |-> verdict[b].effect]
           after == [resolution EXCEPT ![b][n] = r]
<1>0. TypeOK /\ BlockInv(b)
  BY DEF IInv
<1>1. pc[b] = "resolved" /\ n \in Number /\ r \in ResolutionRecord
  <2>1. pc[b] = "resolved" /\ n \in Number
    BY <1>0, CurrentNumber DEF CompleteResolution, BlockInv, Resolving, Unproved
  <2>2. resolution[b][n].count \in 0..MaxAttempt /\ verdict[b] \in Verdict
    BY <1>0, <2>1, PointTypes
  <2> QED
    BY <1>0, <2>1, <2>2, OperationStoreAssumption DEF BlockInv, Resolving, ResolutionRecord,
       EffectState, Verdict
<1>2. UNCHANGED <<record, attempt, up, build, tried, verdict, host, ranUnder>>
  BY DEF CompleteResolution, Write, Durable, durable, world
<1>3. \/ /\ resolution' = after
         /\ pc' = [pc EXCEPT ![b] = "settle"] /\ known' = [known EXCEPT ![b] = known[b]]
      \/ /\ resolution' = resolution \/ resolution' = after
         /\ pc' = [pc EXCEPT ![b] = "idle"]
         /\ \E s \in {"unknown"} : known' = [known EXCEPT ![b] = s]
  BY <1>2 DEF CompleteResolution, Write, Durable, durable, world
<1> HIDE DEF n, r
<1>4. TypeOK'
  <2>1. resolution' \in [Block -> [Number -> ResolutionRecord]]
    BY <1>0, <1>1, <1>3, ResolutionWritten DEF TypeOK
  <2>2. known' \in [Block -> BlockState]
    BY <1>0, <1>1, <1>3, KnownWritten, PointTypes DEF BlockState
  <2>3. pc' \in [Block -> Steps]
    BY <1>0, <1>1, <1>3, PcWritten DEF Steps
  <2> QED
    BY <1>0, <1>2, <2>1, <2>2, <2>3 DEF TypeOK
<1>5. \A c \in Block \ {b} : Same(c)
  BY <1>0, <1>1, <1>2, <1>3, ResolutionWritten, KnownWritten, PcWritten, PointTypes DEF Same,
     BlockState, Steps
<1>6. BlockInv(b)'
  <2>1. \/ /\ pc'[b] = "settle" /\ known'[b] = known[b]
           /\ \A m \in Number : resolution'[b][m] = IF m = n THEN r ELSE resolution[b][m]
        \/ /\ pc'[b] = "idle" /\ known'[b] \in {"unknown"}
           /\ \/ resolution'[b] = resolution[b]
              \/ \A m \in Number : resolution'[b][m] = IF m = n THEN r ELSE resolution[b][m]
    BY <1>0, <1>1, <1>2, <1>3, ResolutionWritten, KnownWritten, PcWritten, PointTypes DEF BlockState,
       Steps, TypeOK
  <2>2. Records(b)'
    BY <1>0, <1>1, <1>2, <2>1, OperationStoreAssumption, PointTypes DEF BlockInv, Records, Number,
       Starting, Running, Resolving, NoResolution, Absent, Adoptable, CountedPlusOne, Current, Unproved,
       n, r
  <2>3. Starting(b)'
    BY <1>0, <1>1, <1>2, <2>1, PointTypes DEF BlockInv, Starting, Number, Records, Running, Resolving,
       NoResolution, Absent, Adoptable, CountedPlusOne, Current, Unproved, n, r
  <2>4. Running(b)'
    BY <1>0, <1>1, <1>2, <2>1, PointTypes DEF BlockInv, Running, Number, Records, Starting, Resolving,
       NoResolution, Absent, Adoptable, CountedPlusOne, Current, Unproved, n, r
  <2>5. Resolving(b)'
    BY <1>0, <1>1, <1>2, <2>1, PointTypes DEF BlockInv, Resolving, Number, Records, Starting, Running,
       NoResolution, Absent, Adoptable, CountedPlusOne, Current, Unproved, n, r
  <2>6. Settling(b)'
    BY <1>0, <1>1, <1>2, <2>1, PointTypes DEF BlockInv, Settling, Number, Records, Starting, Running,
       Resolving, NoResolution, Absent, Adoptable, CountedPlusOne, Current, Unproved, n, r
  <2>7. Memory(b)'
    BY <1>0, <1>1, <1>2, <2>1, PointTypes DEF BlockInv, Memory, Current, CountedPlusOne, Unproved, n, r
  <2>8. Effects(b)'
    BY <1>0, <1>1, <1>2, <2>1, PointTypes DEF BlockInv, Effects, Number, Records, Starting, Running,
       Resolving, NoResolution, Absent, Adoptable, CountedPlusOne, Current, Unproved, n, r
  <2>9. Inconclusive(b)'
    BY <1>0, <1>1, <1>2, <2>1, PointTypes DEF BlockInv, Inconclusive, Current, CountedPlusOne, Unproved, n, r
  <2> QED
    BY <2>2, <2>3, <2>4, <2>5, <2>6, <2>7, <2>8, <2>9 DEF BlockInv
<1> QED
  BY <1>2, <1>4, <1>5, <1>6, Frame DEF IInv

LEMMA BeginInv ==
  ASSUME IInv, Begin
  PROVE  IInv'
<1>1. TypeOK'
  <2>1. known' \in [Block -> BlockState]
    BY PointTypes DEF IInv, Begin
  <2> QED
    BY <2>1 DEF IInv, TypeOK, Begin, durable, world
<1>2. SUFFICES ASSUME NEW b \in Block
               PROVE  BlockInv(b)'
  BY <1>1 DEF IInv
<1>3. BlockInv(b) /\ TypeOK
  BY DEF IInv
<1>4. /\ pc[b] = "idle"
      /\ UNCHANGED <<record, attempt, resolution, pc, verdict, host, ranUnder>>
      /\ known'[b] = record[b].state
  BY <1>3 DEF Begin, BlockInv, Memory, durable, world
<1>5. Records(b)' /\ Effects(b)' /\ Inconclusive(b)'
  BY <1>3, <1>4 DEF BlockInv, Records, Effects, Inconclusive, Absent, Adoptable, CountedPlusOne
<1>6. Starting(b)' /\ Running(b)' /\ Resolving(b)' /\ Settling(b)' /\ Memory(b)'
  BY <1>4 DEF Starting, Running, Resolving, Settling, Memory
<1> QED
  BY <1>5, <1>6 DEF BlockInv

LEMMA ExitInv ==
  ASSUME IInv, Exit
  PROVE  IInv'
<1>1. TypeOK'
  BY DEF IInv, TypeOK, Exit, NoVerdict, Verdict, EffectState, BlockState, Steps, durable, world
<1>2. SUFFICES ASSUME NEW b \in Block
               PROVE  BlockInv(b)'
  BY <1>1 DEF IInv
<1>3. BlockInv(b)
  BY DEF IInv
<1>4. /\ pc'[b] = "idle" /\ ~up'
      /\ UNCHANGED <<record, attempt, resolution, host, ranUnder>>
  BY DEF Exit, durable, world
<1>5. Records(b)' /\ Effects(b)' /\ Inconclusive(b)'
  BY <1>3, <1>4 DEF BlockInv, Records, Effects, Inconclusive, Absent, Adoptable, CountedPlusOne
<1>6. Starting(b)' /\ Running(b)' /\ Resolving(b)' /\ Settling(b)' /\ Memory(b)'
  BY <1>4 DEF Starting, Running, Resolving, Settling, Memory
<1> QED
  BY <1>5, <1>6 DEF BlockInv

LEMMA InitInv == Init => IInv
<1> SUFFICES ASSUME Init PROVE IInv
  OBVIOUS
<1>1. MaxAttempt \in Nat
  BY OperationStoreAssumption
<1>2. TypeOK
  <2>1. record \in [Block -> BlockRecord]
    BY <1>1 DEF Init, BlockRecord, BlockState
  <2>2. attempt \in [Block -> [Number -> AttemptRecord]]
    BY DEF Init, AttemptRecord, NoAttempt
  <2>3. resolution \in [Block -> [Number -> ResolutionRecord]]
    BY <1>1 DEF Init, ResolutionRecord, NoResolution, EffectState
  <2>4. ranUnder \in [Block -> [Number -> Ran]]
    BY DEF Init, Ran, NotRan
  <2> QED
    BY <2>1, <2>2, <2>3, <2>4 DEF Init, TypeOK, NoVerdict, Verdict, EffectState, BlockState, Steps, Host
<1>3. ASSUME NEW b \in Block PROVE BlockInv(b)
  BY <1>1 DEF Init, BlockInv, Records, Starting, Running, Resolving, Settling, Memory, Effects, Inconclusive,
              Absent, NoAttempt, NoResolution, NotRan, Number
<1> QED
  BY <1>2, <1>3 DEF IInv

LEMMA StutterInv ==
  ASSUME IInv, UNCHANGED vars
  PROVE  IInv'
<1>1. TypeOK'
  BY DEF IInv, TypeOK, vars
<1>2. ASSUME NEW c \in Block PROVE BlockInv(c)'
  BY Frame DEF IInv, Same, vars
<1> QED
  BY <1>1, <1>2 DEF IInv

\* IInv is inductive: the initial states satisfy it and every step preserves it.
THEOREM Inductive == Spec => []IInv
<1>1. IInv /\ [Next]_vars => IInv'
  <2> SUFFICES ASSUME IInv, Next \/ UNCHANGED vars PROVE IInv'
    OBVIOUS
  <2>1. CASE Begin
    BY <2>1, BeginInv
  <2>2. CASE Exit
    BY <2>2, ExitInv
  <2>3. ASSUME NEW b \in Block, Work(b) PROVE IInv'
    BY <2>3, StartAttemptInv, PublishPendingInv, AllocateAttemptInv, AdoptAttemptInv, CountAttemptInv,
       OpenLogInv, ReadAgainInv, PrepareInv, EffectInv, ReturnInv, CompleteAttemptInv, PublishStateInv,
       StartResolutionInv, ReserveResolutionInv, ObserveInv, CompleteResolutionInv DEF Work
  <2>4. CASE UNCHANGED vars
    BY <2>4, StutterInv
  <2> QED
    BY <2>1, <2>2, <2>3, <2>4 DEF Next
<1> QED
  BY InitInv, <1>1, PTL DEF Spec

(***************************************************************************)
(* Every variable keeps its type, whatever is interrupted: in particular   *)
(* no attempt or resolution number exceeds the bound.                      *)
(***************************************************************************)
THEOREM TypeCorrect == Spec => []TypeOK
<1>1. IInv => TypeOK
  BY DEF IInv
<1> QED
  BY <1>1, Inductive, PTL

(***************************************************************************)
(* An effect runs only under an attempt that has its own record and that   *)
(* the block record counts: the durable start precedes the side effect.    *)
(***************************************************************************)
THEOREM StartIsDurable == Spec => []RecordedBeforeEffect
<1>1. IInv => RecordedBeforeEffect
  <2> SUFFICES ASSUME IInv, NEW b \in Block, NEW n \in Number, ranUnder[b][n].times > 0
               PROVE  /\ record[b].file = "present" /\ n <= record[b].attempts
                      /\ attempt[b][n].phase # "absent"
    BY DEF RecordedBeforeEffect
  <2>1. /\ Records(b) /\ record[b].file \in {"absent", "present"}
        /\ record[b].attempts \in Nat /\ n \in Nat /\ n # 0
    BY OperationStoreAssumption DEF IInv, TypeOK, BlockInv, BlockRecord, Number
  <2> QED
    BY <2>1 DEF Records, Absent
<1> QED
  BY <1>1, Inductive, PTL

(***************************************************************************)
(* No attempt number ever covers two effects, although an interrupted      *)
(* start's number is adopted.                                              *)
(***************************************************************************)
THEOREM AdoptionSafe == Spec => []EffectOnce
<1>1. IInv => EffectOnce
  BY DEF IInv, BlockInv, Effects, EffectOnce
<1> QED
  BY <1>1, Inductive, PTL

(***************************************************************************)
(* No interruption leaves a block with a next attempt number it can never  *)
(* start.                                                                  *)
(***************************************************************************)
THEOREM NeverWedged == Spec => []NextStartable
<1>1. IInv => NextStartable
  <2> SUFFICES ASSUME IInv, NEW b \in Block, NEW n \in Number, attempt[b][n].phase # "absent"
               PROVE  n <= record[b].attempts \/ (n = CountedPlusOne(b) /\ Adoptable(b, n))
    BY DEF NextStartable
  <2>1. Records(b) /\ record[b].attempts \in Nat /\ n \in Nat
    BY OperationStoreAssumption DEF IInv, TypeOK, BlockInv, BlockRecord, Number
  <2> QED
    BY <2>1 DEF Records, Absent
<1> QED
  BY <1>1, Inductive, PTL

(***************************************************************************)
(* The record of every attempt an effect ran under names the build it ran  *)
(* under.                                                                  *)
(***************************************************************************)
THEOREM BuildRecorded == Spec => []BuildNamed
<1>1. IInv => BuildNamed
  BY DEF IInv, BlockInv, Effects, BuildNamed
<1> QED
  BY <1>1, Inductive, PTL

(***************************************************************************)
(* The scheduler's memory of an idle block is its record or unknown.       *)
(***************************************************************************)
THEOREM MemoryNeverAhead == Spec => []MemorySound
<1>1. IInv => MemorySound
  BY DEF IInv, BlockInv, Memory, MemorySound
<1> QED
  BY <1>1, Inductive, PTL

(***************************************************************************)
(* An inconclusive reading is acted on at most once per block.             *)
(***************************************************************************)
THEOREM ReplayedOnce == Spec => []RetriedOnce
<1>1. IInv => RetriedOnce
  BY DEF IInv, BlockInv, Inconclusive, RetriedOnce
<1> QED
  BY <1>1, Inductive, PTL
-----------------------------------------------------------------------------
(* The refinement of BlockContract *)

LEMMA Quiet ==
  ASSUME host' = host, \A c \in Block : record'[c].state = record[c].state
  PROVE  UNCHANGED Contract!contractVars
BY DEF Contract!contractVars

\* Only these three actions move what the contract speaks of.
Moves(b) == CountAttempt(b) \/ Effect(b) \/ PublishState(b)

LEMMA OthersQuiet ==
  ASSUME IInv, NEW b \in Block, Work(b), ~Moves(b)
  PROVE  UNCHANGED Contract!contractVars
<1>1. CASE PublishPending(b)
  <2>1. host' = host /\ (record' = record \/ record' = [record EXCEPT ![b] = [record[b] EXCEPT !.file = "present"]])
    BY <1>1 DEF PublishPending, Write, durable, world
  <2>2. [record[b] EXCEPT !.file = "present"] \in BlockRecord /\ [record[b] EXCEPT !.file = "present"].state = record[b].state
    BY PointTypes, BlockFields DEF IInv, BlockState, BlockRecord
  <2>3. \A c \in Block : record'[c].state = record[c].state
    BY <2>1, <2>2, RecordWritten DEF IInv
  <2> QED
    BY <2>1, <2>3, Quiet
<1>2. CASE ~PublishPending(b)
  <2>1. record' = record /\ host' = host
    BY <1>2 DEF Work, Moves, StartAttempt, FirstWrite, AllocateAttempt, AdoptAttempt, OpenLog, ReadAgain, Prepare, Return,
                CompleteAttempt, StartResolution, ReserveResolution, Observe, CompleteResolution,
                Write, Conclude, durable, world
  <2> QED
    BY <2>1, Quiet
<1> QED
  BY <1>1, <1>2

LEMMA CountStarts ==
  ASSUME IInv, NEW b \in Block, CountAttempt(b)
  PROVE  Contract!Start(b) \/ UNCHANGED Contract!contractVars
<1> DEFINE r == [file |-> "present", state |-> "running", attempts |-> CountedPlusOne(b)]
<1>1. host' = host /\ (record' = record \/ record' = [record EXCEPT ![b] = r])
  BY DEF CountAttempt, Write, durable, world
<1>2. record[b].state \in {"pending", "failed"}
  BY DEF IInv, BlockInv, Starting, CountAttempt
<1>3. CASE record' = record
  BY <1>1, <1>3, Quiet
<1>4. CASE record' = [record EXCEPT ![b] = r]
  <2>1. \A c \in Block : record'[c].state = IF c = b THEN "running" ELSE record[c].state
    BY <1>4 DEF IInv, TypeOK
  <2> QED
    BY <1>1, <1>2, <2>1 DEF Contract!Start
<1> QED
  BY <1>1, <1>3, <1>4

LEMMA EffectChanges ==
  ASSUME IInv, NEW b \in Block, Effect(b)
  PROVE  Contract!Change(b)
<1>1. record[b].state = "running"
  BY DEF IInv, BlockInv, Running, Effect
<1>2. record' = record /\ \E h \in {"partial", "complete"} : host' = [host EXCEPT ![b] = h]
  BY DEF Effect, durable
<1> QED
  BY <1>1, <1>2 DEF Contract!Change

LEMMA PublicationSettles ==
  ASSUME IInv, NEW b \in Block, PublishState(b)
  PROVE  Contract!Settle(b) \/ UNCHANGED Contract!contractVars
<1> DEFINE r == [record[b] EXCEPT !.state = verdict[b].state]
<1>1. host' = host /\ (record' = record \/ record' = [record EXCEPT ![b] = r])
  BY DEF PublishState, Write, durable, world
<1>2. /\ Unproved(record[b].state)
      /\ verdict[b].state \in {"done", "failed", "unknown"}
      /\ verdict[b].state = "done" => host[b] = "complete"
  BY DEF IInv, BlockInv, Settling, PublishState
<1>3. CASE record' = record
  BY <1>1, <1>3, Quiet
<1>4. CASE record' = [record EXCEPT ![b] = r]
  <2>1. r.state = verdict[b].state
    BY PointTypes DEF IInv, BlockRecord
  <2>2. \A c \in Block : record'[c].state = IF c = b THEN verdict[b].state ELSE record[c].state
    BY <1>4, <2>1 DEF IInv, TypeOK
  <2> QED
    BY <1>1, <1>2, <2>2 DEF Contract!Settle, Contract!Unproved, Unproved
<1> QED
  BY <1>1, <1>3, <1>4

(***************************************************************************)
(* The records of the store, under crashes and failing writes, implement   *)
(* the contract: every step of the store starts, changes or settles one    *)
(* block, or leaves every block's state and target as they are.            *)
(***************************************************************************)
THEOREM Refinement == Spec => ImplementsContract
<1>1. Init => Contract!Init
  BY DEF Init, Contract!Init
<1>2. IInv /\ [Next]_vars => [Contract!Next]_(Contract!contractVars)
  <2> SUFFICES ASSUME IInv, Next \/ UNCHANGED vars
               PROVE  Contract!Next \/ UNCHANGED Contract!contractVars
    OBVIOUS
  <2>1. CASE Begin \/ Exit
    <3>1. host' = host /\ record' = record
      BY <2>1 DEF Begin, Exit, durable, world
    <3> QED
      BY <3>1, Quiet
  <2>2. ASSUME NEW b \in Block, Work(b)
        PROVE  Contract!Next \/ UNCHANGED Contract!contractVars
    BY <2>2, OthersQuiet, CountStarts, EffectChanges, PublicationSettles DEF Moves, Contract!Next
  <2>3. CASE UNCHANGED vars
    <3>1. host' = host /\ record' = record
      BY <2>3 DEF vars
    <3> QED
      BY <3>1, Quiet
  <2> QED
    BY <2>1, <2>2, <2>3 DEF Next
<1> QED
  BY <1>1, <1>2, Inductive, PTL DEF Spec, ImplementsContract, Contract!Spec

-----------------------------------------------------------------------------
(* Finality of the records *)

LEMMA SameFinal ==
  ASSUME TypeOK, NEW c \in Block, attempt'[c] = attempt[c], record'[c] = record[c]
  PROVE  Final(c)
BY PointTypes, OperationStoreAssumption DEF Final

\* A write of one attempt record that was not observed and keeps its before-state is final.
LEMMA RewriteFinal ==
  ASSUME TypeOK, NEW b \in Block, NEW n \in Number, NEW r \in AttemptRecord,
         attempt' = attempt \/ attempt' = [attempt EXCEPT ![b][n] = r], record' = record,
         attempt[b][n].phase # "observed",
         attempt[b][n].before = "published" => r.before = "published"
  PROVE  \A c \in Block : Final(c)
<1>1. CASE attempt' = attempt
  BY <1>1, SameFinal
<1>2. CASE attempt' = [attempt EXCEPT ![b][n] = r]
  <2>1. Final(b)
    BY <1>2, AttemptWritten, PointTypes, OperationStoreAssumption DEF Final
  <2>2. \A c \in Block \ {b} : Final(c)
    BY <1>2, AttemptWritten, SameFinal
  <2> QED
    BY <2>1, <2>2
<1> QED
  BY <1>1, <1>2

LEMMA AttemptWritesFinal ==
  ASSUME IInv, NEW b \in Block,
         AllocateAttempt(b) \/ AdoptAttempt(b) \/ Prepare(b) \/ CompleteAttempt(b)
  PROVE  \A c \in Block : Final(c)
<1>0. TypeOK /\ BlockInv(b) /\ build \in Build
  BY DEF IInv, TypeOK
<1>1. CASE AllocateAttempt(b)
  <2> DEFINE n == CountedPlusOne(b)
             r == [phase |-> "running", build |-> build, before |-> "none"]
  <2>1. /\ attempt' = attempt \/ attempt' = [attempt EXCEPT ![b][n] = r]
        /\ record' = record
    BY <1>1 DEF AllocateAttempt, Write, durable
  <2>2. n \in Number /\ attempt[b][n].phase = "absent" /\ attempt[b][n].before = "none"
    BY <1>0, <1>1 DEF AllocateAttempt, BlockInv, Starting, Effects, Absent
  <2>3. r \in AttemptRecord
    BY <1>0, <2>2, PointTypes, AttemptFields
  <2> HIDE DEF n, r
  <2> QED
    BY <1>0, <2>1, <2>2, <2>3, RewriteFinal
<1>2. CASE AdoptAttempt(b)
  <2> DEFINE n == CountedPlusOne(b)
             r == [attempt[b][n] EXCEPT !.build = build]
  <2>1. /\ attempt' = attempt \/ attempt' = [attempt EXCEPT ![b][n] = r]
        /\ record' = record
    BY <1>2 DEF AdoptAttempt, Write, durable
  <2>2. n \in Number /\ attempt[b][n].phase = "running" /\ attempt[b][n].before = "none"
    BY <1>0, <1>2 DEF AdoptAttempt, BlockInv, Starting, Adoptable
  <2>3. r \in AttemptRecord
    BY <1>0, <2>2, PointTypes, AttemptFields
  <2> HIDE DEF n, r
  <2> QED
    BY <1>0, <2>1, <2>2, <2>3, RewriteFinal
<1>3. CASE Prepare(b)
  <2> DEFINE n == Current(b)
             r == [attempt[b][n] EXCEPT !.before = "published"]
  <2>1. /\ attempt' = attempt \/ attempt' = [attempt EXCEPT ![b][n] = r]
        /\ record' = record
    BY <1>3 DEF Prepare
  <2>2. n \in Number /\ attempt[b][n].phase = "running" /\ attempt[b][n].before = "none"
    BY <1>0, <1>3, CurrentNumber DEF Prepare, BlockInv, Running
  <2>3. r \in AttemptRecord
    BY <1>0, <2>2, PointTypes, AttemptFields
  <2> HIDE DEF n, r
  <2> QED
    BY <1>0, <2>1, <2>2, <2>3, RewriteFinal
<1>4. CASE CompleteAttempt(b)
  <2> DEFINE n == Current(b)
             r == [attempt[b][n] EXCEPT !.phase = "observed"]
  <2>1. /\ attempt' = attempt \/ attempt' = [attempt EXCEPT ![b][n] = r]
        /\ record' = record
    BY <1>4 DEF CompleteAttempt, Write, durable
  <2>2. n \in Number /\ attempt[b][n].phase = "running"
    BY <1>0, <1>4, CurrentNumber DEF CompleteAttempt, BlockInv, Running
  <2>3. attempt[b][n] \in AttemptRecord
    BY <1>0, <2>2, PointTypes
  <2>4. r \in AttemptRecord /\ r.before = attempt[b][n].before
    BY <1>0, <2>3, AttemptFields DEF AttemptRecord
  <2> HIDE DEF n, r
  <2> QED
    BY <1>0, <2>1, <2>2, <2>4, RewriteFinal
<1> QED
  BY <1>1, <1>2, <1>3, <1>4

LEMMA RecordWritesFinal ==
  ASSUME IInv, NEW b \in Block, PublishPending(b) \/ CountAttempt(b) \/ PublishState(b)
  PROVE  \A c \in Block : Final(c)
<1>0. TypeOK /\ attempt' = attempt
  BY DEF IInv, PublishPending, CountAttempt, PublishState, Write, durable
<1>1. \A c \in Block \ {b} : record'[c] = record[c]
  BY <1>0 DEF TypeOK, PublishPending, CountAttempt, PublishState, Write, durable
<1>2. record[b] \in BlockRecord /\ record[b].attempts \in Nat
  BY <1>0, PointTypes, OperationStoreAssumption
<1>3. record'[b].attempts \in {record[b].attempts, CountedPlusOne(b)}
  <2>1. CASE PublishPending(b)
    BY <1>0, <1>2, <2>1 DEF TypeOK, BlockRecord, PublishPending, Write, durable
  <2>2. CASE CountAttempt(b)
    BY <1>0, <1>2, <2>2 DEF TypeOK, CountAttempt, Write, durable
  <2>3. CASE PublishState(b)
    BY <1>0, <1>2, <2>3 DEF TypeOK, BlockRecord, PublishState, Write, durable
  <2> QED
    BY <2>1, <2>2, <2>3
<1>4. Final(b)
  BY <1>0, <1>2, <1>3 DEF Final, CountedPlusOne
<1> QED
  BY <1>0, <1>1, <1>4, SameFinal

(***************************************************************************)
(* No step rewrites an observed attempt, withdraws a before-state or       *)
(* lowers the number of attempts a block record counts.                    *)
(***************************************************************************)
THEOREM Finality == Spec => RecordsFinal
<1>1. IInv /\ [Next]_vars => [\A b \in Block : Final(b)]_vars
  <2> SUFFICES ASSUME IInv, Next
               PROVE  \A b \in Block : Final(b)
    OBVIOUS
  <2>0. TypeOK
    BY DEF IInv
  <2>1. CASE Begin \/ Exit
    <3>1. attempt' = attempt /\ record' = record
      BY <2>1 DEF Begin, Exit, durable
    <3> QED
      BY <2>0, <3>1, SameFinal
  <2>2. ASSUME NEW b \in Block, Work(b)
        PROVE  \A c \in Block : Final(c)
    <3>1. CASE AllocateAttempt(b) \/ AdoptAttempt(b) \/ Prepare(b) \/ CompleteAttempt(b)
      BY <3>1, AttemptWritesFinal
    <3>2. CASE PublishPending(b) \/ CountAttempt(b) \/ PublishState(b)
      BY <3>2, RecordWritesFinal
    <3>3. CASE \/ StartAttempt(b) \/ OpenLog(b) \/ ReadAgain(b) \/ Effect(b) \/ Return(b)
               \/ StartResolution(b) \/ ReserveResolution(b) \/ Observe(b) \/ CompleteResolution(b)
      <4>1. attempt' = attempt /\ record' = record
        BY <3>3 DEF StartAttempt, FirstWrite, OpenLog, ReadAgain, Effect, Return, StartResolution, ReserveResolution,
                    Observe, CompleteResolution, Write, durable
      <4> QED
        BY <2>0, <4>1, SameFinal
    <3> QED
      BY <2>2, <3>1, <3>2, <3>3 DEF Work
  <2> QED
    BY <2>1, <2>2 DEF Next
<1> QED
  BY <1>1, Inductive, PTL DEF Spec, RecordsFinal
=============================================================================
