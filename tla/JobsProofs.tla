----------------------------- MODULE JobsProofs -----------------------------
(***************************************************************************)
(* Jobs' properties for every set of invocations, runs and jobs, whatever  *)
(* contexts the invocations work for and however often they are killed.    *)
(*                                                                         *)
(* The invariant says what each run owns where it is, what its job's       *)
(* directory then holds, and, of each sweep, what its step still lets it   *)
(* rely on: a job nobody holds is never held again, and a sweep that has   *)
(* not refused has yet to look at every process left behind.               *)
(***************************************************************************)
EXTENDS Jobs, TLAPS

Claiming == {"create", "lock", "holder", "record"}
Live == {"prepare", "start", "run"}
Locked == {"holder", "record"} \union Live
Place == {"idle", "sweep", "unlock", "reap"} \union Claiming \union Live

Looking == {"opened", "held", "again", "report"}
Sweep == [todo: SUBSET Job, paired: SUBSET Job, orphans: SUBSET Job, at: Job \union {None},
          step: {"none", "listing", "next", "orphan"} \union Looking \union Seized,
          by: Invocation \union {None}, attributed: BOOLEAN, alive: BOOLEAN, refused: BOOLEAN]

Typed ==
  /\ open \subseteq Invocation /\ exclusive \subseteq open
  /\ mutex \in [Invocation -> Run \union {None}] /\ owned \in [Invocation -> SUBSET Job]
  /\ pc \in [Run -> Place] /\ of \in [Run -> Invocation \union {None}] /\ mine \in [Run -> Job \union {None}]
  /\ disk \in [Job -> SUBSET Entry] /\ scratch \subseteq Job /\ maker \in [Job -> Invocation \union {None}]
  /\ lockFd \subseteq Job /\ holderFd \subseteq Job /\ adapter \subseteq Job
  /\ sweep \in [Run -> Sweep] /\ kills \in Nat

-----------------------------------------------------------------------------
(* The invariant. *)

\* An invocation that leases its context exclusively runs alone in it.
Lease == \A i \in exclusive, k \in open : ContextOf[k] = ContextOf[i] => k = i

\* What a run has at each place, and that no two runs have one job.
Runs ==
  /\ \A r \in Run :
       /\ of[r] # None => of[r] \in open
       /\ pc[r] = "idle" <=> of[r] = None
       /\ pc[r] \in {"idle", "sweep"} <=> mine[r] = None
       /\ pc[r] \in {"sweep", "unlock", "reap"} \union Claiming => mutex[of[r]] = r
       /\ pc[r] \notin {"sweep", "reap"} => sweep[r] = NoSweep
  /\ \A r, s \in Run : mine[r] = mine[s] /\ mine[r] # None => r = s

\* The handles an invocation has, and the jobs its scope registered.
Handles ==
  /\ \A j \in lockFd : \E r \in Run : mine[r] = j /\ pc[r] \in Locked
  /\ \A r \in Run :
       /\ pc[r] \in Locked => mine[r] \in lockFd
       /\ pc[r] \in Locked \ {"holder"} => mine[r] \in holderFd
       /\ pc[r] \in Live => mine[r] \in owned[of[r]]
       /\ pc[r] \in Claiming \union Live => maker[mine[r]] = of[r]
  /\ \A i \in Invocation : \A j \in owned[i] :
       \E r \in Run : of[r] = i /\ mine[r] = j /\ pc[r] \in Live

\* What a job's directory holds at each place of its run.
Contents ==
  \A r \in Run :
    /\ pc[r] = "create" => disk[mine[r]] = {"directory"}
    /\ pc[r] \in {"lock", "holder"} => disk[mine[r]] = {"directory", "lock"}
    /\ pc[r] = "record" => disk[mine[r]] = {"directory", "lock", "holder"}
    /\ pc[r] \in Live => {"directory", "lock", "holder", "record"} \subseteq disk[mine[r]]
    /\ pc[r] \in {"start", "run"} => "material" \in disk[mine[r]] /\ mine[r] \in scratch

\* A process runs only for a job whose run got that far.
Processes ==
  \A j \in adapter :
    /\ Entry \subseteq disk[j] /\ j \in scratch
    /\ \A r \in Run : mine[r] = j => pc[r] \in {"run", "unlock", "reap"}

\* What a sweep's step still lets it rely on.
Steps(w) ==
  /\ w.at = None <=> w.step \in {"none", "listing", "next"}
  /\ \A s \in Run : mine[s] = w.at => pc[s] \notin Claiming
  /\ w.step \in Seized => ~ Held(w.at)
  /\ w.step = "orphan" => "directory" \notin disk[w.at]
  /\ w.step \in {"record", "holder", "lock", "directory"} => "material" \notin disk[w.at]
  /\ w.step \in Looking /\ Held(w.at) => w.by = maker[w.at]
  /\ w.step = "again" /\ Held(w.at) => w.attributed
  /\ w.step = "report" => w.attributed
  /\ w.step \in {"again", "report"} /\ w.at \in lockFd => w.alive

\* A sweep under an exclusive lease that does not refuse has every process
\* left behind in its context still before it.
Before(r, w) ==
  pc[r] = "sweep" /\ of[r] \in exclusive /\ ~ w.refused =>
    \A k \in adapter : ContextOf[maker[k]] = ContextOf[of[r]] =>
      k \in w.todo \/ k = w.at \/ \E s \in Run : mine[s] = k /\ pc[s] = "run"

Sweeps == \A r \in Run : Steps(sweep[r]) /\ Before(r, sweep[r])

IInv == Typed /\ Lease /\ Runs /\ Handles /\ Contents /\ Processes /\ MaterialRecorded /\ Sweeps

-----------------------------------------------------------------------------
(* Steps of the sweeps. *)

LEMMA NoSweepFits == NoSweep \in Sweep
  BY DEF NoSweep, Sweep, Seized, Removing, Looking, None

\* Nothing is said of a run that does not sweep.
LEMMA NoSweepSteps ==
  ASSUME Typed, Runs
  PROVE Steps(NoSweep)
  BY JobsAssumption DEF Steps, NoSweep, Typed, Runs, Claiming, Seized, Removing, Looking, None

LEMMA SweepStepKeeps ==
  ASSUME IInv, NEW r \in Run, NEW v \in Sweep, sweep' = [sweep EXCEPT ![r] = v],
         UNCHANGED <<scope, pc, of, mine, files, maker, held>>, kills' \in Nat,
         pc[r] \in {"sweep", "reap"}, Steps(v), Before(r, v)
  PROVE IInv'
<1> USE DEF IInv, scope, files, held
<1>1. Typed'
  BY DEF Typed
<1>2. Lease' /\ Contents' /\ Processes' /\ MaterialRecorded' /\ Handles'
  BY DEF Lease, Contents, Processes, MaterialRecorded, Handles
<1>3. Runs'
  BY DEF Runs, Typed
<1>4. Sweeps'
  <2> SUFFICES ASSUME NEW s \in Run
               PROVE (Steps(sweep[s]) /\ Before(s, sweep[s]))'
    BY DEF Sweeps
  <2>1. PICK w : w = sweep'[s]
    OBVIOUS
  <2>2. Steps(w) /\ Before(s, w)
    BY <2>1 DEF Typed, Sweeps
  <2> QED
    BY <2>1, <2>2 DEF Steps, Before, Held
<1> QED
  BY <1>1, <1>2, <1>3, <1>4

\* A run whose sweep has begun sweeps or reaps.
LEMMA Awake ==
  ASSUME IInv, NEW r \in Run, sweep[r].step # "none"
  PROVE /\ pc[r] \in {"sweep", "reap"} /\ sweep[r] \in Sweep
        /\ Steps(sweep[r]) /\ Before(r, sweep[r])
  BY DEF IInv, Typed, Runs, Sweeps, NoSweep

LEMMA ListScratchKeeps ==
  ASSUME IInv, NEW r \in Run, ListScratch(r)
  PROVE IInv'
<1> DEFINE v == [sweep[r] EXCEPT !.paired = scratch \intersect sweep[r].todo,
                               !.orphans = scratch \ sweep[r].todo, !.step = "next"]
<1>1. pc[r] \in {"sweep", "reap"} /\ sweep[r] \in Sweep /\ Steps(sweep[r]) /\ Before(r, sweep[r])
  BY Awake DEF ListScratch
<1>2. sweep' = [sweep EXCEPT ![r] = v] /\ kills' \in Nat
  BY <1>1 DEF ListScratch, IInv, Typed, Sweep
<1>3. v \in Sweep
  BY <1>1 DEF Sweep, IInv, Typed
<1>4. Steps(v) /\ Before(r, v)
  BY <1>1 DEF Steps, Before, Sweep, ListScratch, Looking, Seized, Removing
<1> HIDE DEF v
<1> QED
  BY <1>1, <1>2, <1>3, <1>4, SweepStepKeeps DEF ListScratch

\* A job its sweep has at hand, and who then holds it, once its record was seen.
LEMMA HeldJob ==
  ASSUME IInv, NEW j \in Job, Held(j), \A s \in Run : mine[s] = j => pc[s] \notin Claiming
  PROVE {"record", "lock", "holder"} \subseteq disk[j] /\ (j \in lockFd => j \in holderFd)
  BY DEF IInv, Held, Handles, Contents, Processes, Entry, Locked, Claiming, Live

LEMMA OpenKeeps ==
  ASSUME IInv, NEW r \in Run, NEW j \in Job, Open(r, j)
  PROVE IInv'
<1> DEFINE taken == [sweep[r] EXCEPT !.todo = @ \ {j}]
           v == IF {"record", "lock"} \subseteq disk[j]
                THEN [taken EXCEPT !.at = j, !.by = maker[j], !.step = "opened"]
                ELSE [taken EXCEPT !.paired = @ \ {j}]
<1>1. pc[r] \in {"sweep", "reap"} /\ sweep[r] \in Sweep /\ Steps(sweep[r]) /\ Before(r, sweep[r])
  BY Awake DEF Open
<1>2. SweepStep(r, v) /\ sweep[r].step = "next" /\ kills \in Nat
  BY DEF Open, IInv, Typed
<1>3. v \in Sweep
  BY <1>1 DEF Sweep, IInv, Typed, Looking
<1>4. Steps(v)
  BY <1>1, <1>2, JobsAssumption DEF Steps, Sweep, Looking, Seized, Removing, IInv, Contents, Claiming
<1>5. Before(r, v)
  BY <1>1, <1>2, JobsAssumption DEF Steps, Before, Sweep, IInv, Typed, Processes, Entry
<1> HIDE DEF v
<1> QED
  BY <1>1, <1>2, <1>3, <1>4, <1>5, SweepStepKeeps DEF SweepStep

LEMMA LockSharedKeeps ==
  ASSUME IInv, NEW r \in Run, LockShared(r)
  PROVE IInv'
<1> DEFINE v == [sweep[r] EXCEPT !.step = IF Held(sweep[r].at) THEN "held" ELSE "shared"]
<1>1. pc[r] \in {"sweep", "reap"} /\ sweep[r] \in Sweep /\ Steps(sweep[r]) /\ Before(r, sweep[r])
  BY Awake DEF LockShared
<1>2. SweepStep(r, v) /\ sweep[r].step = "opened" /\ kills \in Nat
  BY DEF LockShared, IInv, Typed
<1>3. v \in Sweep
  BY <1>1 DEF Sweep, Looking, Seized
<1>4. Steps(v) /\ Before(r, v)
  BY <1>1, <1>2 DEF Steps, Before, Sweep, Looking, Seized, Removing
<1> HIDE DEF v
<1> QED
  BY <1>1, <1>2, <1>3, <1>4, SweepStepKeeps DEF SweepStep

LEMMA AttributeKeeps ==
  ASSUME IInv, NEW r \in Run, Attribute(r)
  PROVE IInv'
<1> DEFINE j == sweep[r].at
           v(alive, known) == [sweep[r] EXCEPT !.attributed = known, !.alive = alive, !.step = "again"]
<1>1. pc[r] \in {"sweep", "reap"} /\ sweep[r] \in Sweep /\ Steps(sweep[r]) /\ Before(r, sweep[r])
  BY Awake DEF Attribute
<1>2. PICK alive \in BOOLEAN : (j \in holderFd => alive) /\ SweepStep(r, v(alive, "holder" \in disk[j]))
  BY DEF Attribute
<1>3. PICK known \in BOOLEAN : known = ("holder" \in disk[j])
  <2> WITNESS ("holder" \in disk[j]) \in BOOLEAN
  <2> QED
    OBVIOUS
<1>4. sweep[r].step = "held" /\ kills \in Nat
  BY DEF Attribute, IInv, Typed
<1>5. v(alive, known) \in Sweep
  BY <1>1 DEF Sweep, Looking
<1>6. j \in Job
  BY <1>1, <1>4 DEF Steps, Sweep
<1>7. Held(j) => "holder" \in disk[j] /\ (j \in lockFd => j \in holderFd)
  BY <1>1, <1>6, HeldJob DEF Steps
<1>8. Steps(v(alive, known))
  BY <1>1, <1>3, <1>2, <1>4, <1>7 DEF Steps, Sweep, Looking, Seized, Removing, Held
<1>9. Before(r, v(alive, known))
  BY <1>1 DEF Before, Sweep
<1> HIDE DEF v, j
<1> QED
  BY <1>1, <1>2, <1>4, <1>5, <1>8, <1>9, <1>3, SweepStepKeeps DEF SweepStep

LEMMA LockAgainKeeps ==
  ASSUME IInv, NEW r \in Run, LockAgain(r)
  PROVE IInv'
<1> DEFINE v == [sweep[r] EXCEPT !.step = IF Held(sweep[r].at) THEN "report" ELSE "shared"]
<1>1. pc[r] \in {"sweep", "reap"} /\ sweep[r] \in Sweep /\ Steps(sweep[r]) /\ Before(r, sweep[r])
  BY Awake DEF LockAgain
<1>2. SweepStep(r, v) /\ sweep[r].step = "again" /\ kills \in Nat
  BY DEF LockAgain, IInv, Typed
<1>3. v \in Sweep
  BY <1>1 DEF Sweep, Looking, Seized
<1>4. Steps(v) /\ Before(r, v)
  BY <1>1, <1>2 DEF Steps, Before, Sweep, Looking, Seized, Removing
<1> HIDE DEF v
<1> QED
  BY <1>1, <1>2, <1>3, <1>4, SweepStepKeeps DEF SweepStep

\* A sweep that goes on relies on nothing.
LEMMA PassedSteps ==
  ASSUME IInv, NEW r \in Run, sweep[r] \in Sweep, NEW w \in Sweep, w.at = None, w.step = "next"
  PROVE Steps(w)
  BY JobsAssumption DEF Steps, Sweep, IInv, Typed, Runs, Claiming, Seized, Removing, Looking, None

LEMMA ReportKeeps ==
  ASSUME IInv, NEW r \in Run, Report(r)
  PROVE IInv'
<1> DEFINE v == [Passed(r) EXCEPT !.refused = @ \/ (pc[r] = "sweep" /\ Refusal(r))]
<1>1. pc[r] \in {"sweep", "reap"} /\ sweep[r] \in Sweep /\ Steps(sweep[r]) /\ Before(r, sweep[r])
  BY Awake DEF Report
<1>2. SweepStep(r, v) /\ sweep[r].step = "report" /\ kills \in Nat
  BY DEF Report, IInv, Typed
<1>3. v \in Sweep /\ v.at = None /\ v.step = "next"
  BY <1>1 DEF Sweep, Passed
<1>4. Steps(v)
  BY <1>1, <1>3, PassedSteps
<1>5. Before(r, v)
  <2> SUFFICES ASSUME pc[r] = "sweep", of[r] \in exclusive, ~ v.refused,
                      NEW k \in adapter, ContextOf[maker[k]] = ContextOf[of[r]], k = sweep[r].at
               PROVE \E s \in Run : mine[s] = k /\ pc[s] = "run"
    BY <1>1 DEF Before, Sweep, Passed
  <2>1. ~ Refusal(r)
    BY <1>1 DEF Sweep, Passed
  <2>2. sweep[r].by = maker[k]
    BY <1>1, <1>2 DEF Steps, Looking, Held
  <2>3. k \in owned[of[r]]
    BY <2>1, <2>2 DEF Refusal
  <2> QED
    BY <2>3 DEF IInv, Typed, Handles, Processes, Live
<1> HIDE DEF v
<1> QED
  BY <1>1, <1>2, <1>3, <1>4, <1>5, SweepStepKeeps DEF SweepStep

LEMMA LockDirectoryKeeps ==
  ASSUME IInv, NEW r \in Run, LockDirectory(r)
  PROVE IInv'
<1> DEFINE go == Locking(sweep[r].at) = {} /\ "directory" \in disk[sweep[r].at]
           v == IF go THEN [sweep[r] EXCEPT !.step = "listed"] ELSE Passed(r)
<1>1. pc[r] \in {"sweep", "reap"} /\ sweep[r] \in Sweep /\ Steps(sweep[r]) /\ Before(r, sweep[r])
  BY Awake DEF LockDirectory
<1>2. SweepStep(r, v) /\ sweep[r].step = "shared" /\ kills \in Nat
  BY DEF LockDirectory, IInv, Typed
<1> HIDE DEF go
<1>3. v \in Sweep /\ Passed(r) \in Sweep /\ Passed(r).at = None /\ Passed(r).step = "next"
  BY <1>1 DEF Sweep, Passed, Seized
<1>4. ~ Held(sweep[r].at)
  BY <1>1, <1>2 DEF Steps, Seized
<1>5. Steps(v)
  <2>1. Steps(Passed(r))
    BY <1>1, <1>3, PassedSteps
  <2>2. go => Steps(v)
    BY <1>1, <1>2, <1>4 DEF Steps, Sweep, Looking, Seized, Removing
  <2> QED
    BY <2>1, <2>2
<1>6. Before(r, v)
  BY <1>1, <1>4 DEF Before, Sweep, Passed, Held
<1> HIDE DEF v
<1> QED
  BY <1>1, <1>2, <1>3, <1>5, <1>6, SweepStepKeeps DEF SweepStep

LEMMA RecheckKeeps ==
  ASSUME IInv, NEW r \in Run, Recheck(r)
  PROVE IInv'
<1> DEFINE go == "record" \in disk[sweep[r].at]
           v == IF go THEN [sweep[r] EXCEPT !.step = "scratch"] ELSE Passed(r)
<1>1. pc[r] \in {"sweep", "reap"} /\ sweep[r] \in Sweep /\ Steps(sweep[r]) /\ Before(r, sweep[r])
  BY Awake DEF Recheck
<1>2. SweepStep(r, v) /\ sweep[r].step = "listed" /\ kills \in Nat
  BY DEF Recheck, IInv, Typed
<1> HIDE DEF go
<1>3. v \in Sweep /\ Passed(r) \in Sweep /\ Passed(r).at = None /\ Passed(r).step = "next"
  BY <1>1 DEF Sweep, Passed, Seized, Removing
<1>4. ~ Held(sweep[r].at)
  BY <1>1, <1>2 DEF Steps, Seized
<1>5. Steps(v)
  <2>1. Steps(Passed(r))
    BY <1>1, <1>3, PassedSteps
  <2>2. go => Steps(v)
    BY <1>1, <1>2, <1>4 DEF Steps, Sweep, Looking, Seized, Removing
  <2> QED
    BY <2>1, <2>2
<1>6. Before(r, v)
  BY <1>1, <1>4 DEF Before, Sweep, Passed, Held
<1> HIDE DEF v
<1> QED
  BY <1>1, <1>2, <1>3, <1>5, <1>6, SweepStepKeeps DEF SweepStep

LEMMA OrphanedKeeps ==
  ASSUME IInv, NEW r \in Run, NEW j \in Job, Orphaned(r, j)
  PROVE IInv'
<1> DEFINE taken == [sweep[r] EXCEPT !.orphans = @ \ {j}]
           v == IF "directory" \in disk[j] THEN taken ELSE [taken EXCEPT !.at = j, !.step = "orphan"]
<1>1. pc[r] \in {"sweep", "reap"} /\ sweep[r] \in Sweep /\ Steps(sweep[r]) /\ Before(r, sweep[r])
  BY Awake DEF Orphaned
<1>2. SweepStep(r, v) /\ sweep[r].step = "next" /\ kills \in Nat
  BY DEF Orphaned, IInv, Typed
<1>3. v \in Sweep
  BY <1>1 DEF Sweep, IInv, Typed
<1>4. Steps(v)
  BY <1>1, <1>2, JobsAssumption DEF Steps, Sweep, Looking, Seized, Removing, IInv, Contents, Claiming
<1>5. Before(r, v)
  BY <1>1, <1>2, JobsAssumption DEF Steps, Before, Sweep, IInv, Typed
<1> HIDE DEF v
<1> QED
  BY <1>1, <1>2, <1>3, <1>4, <1>5, SweepStepKeeps DEF SweepStep

LEMMA RemoveFailsKeeps ==
  ASSUME IInv, NEW r \in Run, RemoveFails(r)
  PROVE IInv'
<1> DEFINE v == [Passed(r) EXCEPT !.todo = {}, !.paired = {}, !.orphans = {}, !.refused = pc[r] = "sweep"]
<1>1. pc[r] \in {"sweep", "reap"} /\ sweep[r] \in Sweep
  BY Awake DEF RemoveFails, Removing
<1>2. /\ sweep' = [sweep EXCEPT ![r] = v] /\ kills' \in Nat
      /\ UNCHANGED <<scope, pc, of, mine, files, maker, held>>
  BY DEF RemoveFails, IInv, Typed
<1>3. v \in Sweep /\ v.at = None /\ v.step = "next" /\ (pc[r] = "sweep" => v.refused)
  BY <1>1 DEF Sweep, Passed
<1>4. Steps(v)
  BY <1>1, <1>3, PassedSteps
<1>5. Before(r, v)
  BY <1>3 DEF Before
<1> HIDE DEF v
<1> QED
  BY <1>1, <1>2, <1>3, <1>4, <1>5, SweepStepKeeps

\* Material goes before the record, the holder and the lock do.
LEMMA AfterFact ==
  ASSUME NEW x \in Removing, x # "directory"
  PROVE /\ After[x] \in Removing
        /\ After[x] \in {"record", "holder", "lock", "directory"} =>
             x \in {"material", "record", "holder", "lock"}
<1>1. CASE x = "scratch"
  BY <1>1 DEF After, Removing
<1>2. CASE x # "scratch"
  BY <1>2 DEF After, Removing
<1> QED
  BY <1>1, <1>2

LEMMA RemoveKeeps ==
  ASSUME IInv, NEW r \in Run, Remove(r)
  PROVE IInv'
<1> DEFINE j == sweep[r].at
           step == sweep[r].step
           v == IF step = "directory" THEN Passed(r) ELSE [sweep[r] EXCEPT !.paired = @ \ {j}, !.step = After[step]]
<1>1. pc[r] \in {"sweep", "reap"} /\ sweep[r] \in Sweep /\ Steps(sweep[r]) /\ Before(r, sweep[r])
  BY Awake DEF Remove, Removing
<1>2. /\ step \in Removing
      /\ scratch' = IF step = "scratch" /\ j \in sweep[r].paired THEN scratch \ {j} ELSE scratch
      /\ disk' = [disk EXCEPT ![j] = disk[j] \ {step}]
      /\ maker' = IF step = "directory" THEN [maker EXCEPT ![j] = None] ELSE maker
      /\ sweep' = [sweep EXCEPT ![r] = v]
      /\ UNCHANGED <<scope, pc, of, mine, held, kills>>
  BY DEF Remove
<1>3. v \in Sweep /\ Passed(r) \in Sweep /\ Passed(r).at = None /\ Passed(r).step = "next"
  <2>1. Passed(r) \in Sweep /\ Passed(r).at = None /\ Passed(r).step = "next"
    BY <1>1 DEF Sweep, Passed
  <2>2. ASSUME NEW x \in Removing PROVE [sweep[r] EXCEPT !.paired = @ \ {j}, !.step = x] \in Sweep
    BY <1>1 DEF Sweep, Seized
  <2> QED
    BY <2>1, <2>2, <1>2, AfterFact
<1>4. /\ j \in Job /\ ~ Held(j)
      /\ \A s \in Run : mine[s] = j => pc[s] \notin Claiming \union Live
      /\ step \in {"record", "holder", "lock", "directory"} => "material" \notin disk[j]
  BY <1>1, <1>2 DEF Steps, Seized, Removing, Sweep, Held, IInv, Handles, Locked
<1>5. /\ disk' \in [Job -> SUBSET Entry] /\ \A k \in Job : disk'[k] \subseteq disk[k]
      /\ disk'[j] = disk[j] \ {step} /\ \A k \in Job \ {j} : disk'[k] = disk[k] /\ maker'[k] = maker[k]
  BY <1>2, <1>4 DEF IInv, Typed
<1>6. Typed'
  BY <1>2, <1>3, <1>4, <1>5 DEF IInv, Typed, scope, held
<1>7. Lease' /\ Runs'
  BY <1>1, <1>2 DEF IInv, Lease, Runs, Typed, scope, held
<1>8. Handles'
  BY <1>2, <1>4, <1>5 DEF IInv, Handles, Typed, Runs, scope, held, Claiming, Live
<1>9. Contents'
  BY <1>2, <1>4, <1>5 DEF IInv, Contents, Typed, Runs, scope, held, Claiming, Live, None
<1>10. Processes'
  BY <1>2, <1>4, <1>5 DEF IInv, Processes, Typed, scope, held, Held
<1>11. MaterialRecorded'
  BY <1>2, <1>4, <1>5 DEF IInv, MaterialRecorded, Removing
<1>12. Sweeps'
  <2> SUFFICES ASSUME NEW s \in Run
               PROVE (Steps(sweep[s]) /\ Before(s, sweep[s]))'
    BY DEF Sweeps
  <2>1. PICK w : w = sweep'[s]
    OBVIOUS
  <2>2. w \in Sweep
    BY <2>1, <1>6 DEF Typed
  <2>3. (w.at \in Job => disk'[w.at] \subseteq disk[w.at]) /\ (Held(w.at) => maker'[w.at] = maker[w.at])
    BY <1>4, <1>5 DEF Held, IInv, Typed
  <2>4. ASSUME Steps(w) PROVE Steps(w)'
    BY <2>2, <2>3, <2>4, <1>2 DEF Steps, Held, held, Sweep, Looking, Seized, Removing
  <2>5. Steps(w)'
    <3>1. CASE s # r
      BY <3>1, <2>1, <2>4, <1>2 DEF IInv, Typed, Sweeps
    <3>2. CASE s = r /\ step = "directory"
      BY <3>2, <2>1, <2>4, <1>1, <1>2, <1>3, PassedSteps DEF IInv, Typed
    <3>3. CASE s = r /\ step # "directory"
      <4>1. w.at = j /\ w.step \in Removing /\ w.step = After[step]
        BY <3>3, <2>1, <1>1, <1>2, AfterFact DEF IInv, Typed, Sweep
      <4>2. w.step \in {"record", "holder", "lock", "directory"} => "material" \notin disk'[j]
        BY <4>1, <3>3, <1>2, <1>4, <1>5, AfterFact
      <4> QED
        BY <4>1, <4>2, <1>2, <1>4, JobsAssumption DEF Steps, Held, held, Looking, Seized, Removing
    <3> QED
      BY <3>1, <3>2, <3>3
  <2>6. Before(s, w)
    <3>1. Before(r, v)
      BY <1>1, <1>4 DEF Before, Sweep, Passed, Held
    <3> QED
      BY <3>1, <2>1, <1>2 DEF IInv, Typed, Sweeps
  <2>7. Before(s, w)'
    BY <2>2, <2>6, <1>2, <1>4, <1>5 DEF Before, held, scope, Held, IInv, Typed
  <2> QED
    BY <2>1, <2>5, <2>7 DEF Steps, Before, Held
<1> QED
  BY <1>6, <1>7, <1>8, <1>9, <1>10, <1>11, <1>12 DEF IInv

LEMMA RemoveOrphanKeeps ==
  ASSUME IInv, NEW r \in Run, RemoveOrphan(r)
  PROVE IInv'
<1> DEFINE j == sweep[r].at
<1>1. pc[r] \in {"sweep", "reap"} /\ sweep[r] \in Sweep /\ Steps(sweep[r]) /\ Before(r, sweep[r])
  BY Awake DEF RemoveOrphan
<1>2. /\ sweep[r].step = "orphan" /\ scratch' = scratch \ {j} /\ sweep' = [sweep EXCEPT ![r] = Passed(r)]
      /\ UNCHANGED <<open, exclusive, mutex, owned, pc, of, mine, disk, maker, lockFd, holderFd, adapter, kills>>
  BY DEF RemoveOrphan, scope, held
<1>3. Passed(r) \in Sweep /\ Passed(r).at = None /\ Passed(r).step = "next"
  BY <1>1 DEF Sweep, Passed
<1>4. /\ j \notin adapter
      /\ \A s \in Run : mine[s] = j => pc[s] \notin Live
  <2>1. "directory" \notin disk[j]
    BY <1>1, <1>2 DEF Steps
  <2> QED
    BY <2>1 DEF IInv, Processes, Contents, Entry, Live
<1> HIDE DEF j
<1>5. Typed'
  BY <1>2, <1>3 DEF IInv, Typed
<1>6. Lease' /\ Runs' /\ Handles' /\ MaterialRecorded'
  BY <1>1, <1>2 DEF IInv, Typed, Lease, Runs, Handles, MaterialRecorded
<1>7. Contents' /\ Processes'
  BY <1>2, <1>4 DEF IInv, Contents, Processes, Live
<1>8. Sweeps'
  <2> SUFFICES ASSUME NEW s \in Run
               PROVE (Steps(sweep[s]) /\ Before(s, sweep[s]))'
    BY DEF Sweeps
  <2>1. PICK w : w = sweep'[s]
    OBVIOUS
  <2>2. Steps(w)
    BY <2>1, <1>1, <1>2, <1>3, PassedSteps DEF IInv, Typed, Sweeps
  <2>3. Before(s, w)
    <3>1. Before(r, Passed(r))
      BY <1>1, <1>4 DEF Before, Sweep, Passed, j
    <3> QED
      BY <3>1, <2>1, <1>2 DEF IInv, Typed, Sweeps
  <2> QED
    BY <2>1, <2>2, <2>3, <1>2 DEF Steps, Before, Held
<1> QED
  BY <1>5, <1>6, <1>7, <1>8 DEF IInv

-----------------------------------------------------------------------------
(* Steps of the runs. *)

LEMMA CreateLockKeeps ==
  ASSUME IInv, NEW r \in Run, CreateLock(r)
  PROVE IInv'
<1> USE JobsAssumption DEF IInv, CreateLock, scope, files, held
<1>1. Typed'
  BY DEF Typed, Runs, Place, Claiming, Live, Entry
<1>2. Lease'
  BY DEF Lease
<1>3. Runs'
  BY DEF Runs, Typed, Claiming, Live
<1>4. Handles'
  BY DEF Handles, Runs, Typed, Claiming, Live, Locked
<1>5. Contents'
  BY DEF Contents, Runs, Typed, Claiming, Live
<1>6. Processes'
  BY DEF Processes, Runs, Typed, Contents, Claiming, Live, Entry
<1>7. MaterialRecorded'
  BY DEF MaterialRecorded, Typed, Contents, Runs, Live
<1>8. Sweeps'
  BY DEF Sweeps, Steps, Before, Typed, Runs, Handles, Contents, Held, Claiming, Live, Locked, Seized, Removing, Looking
<1> QED
  BY <1>1, <1>2, <1>3, <1>4, <1>5, <1>6, <1>7, <1>8


LEMMA TakeLockKeeps ==
  ASSUME IInv, NEW r \in Run, TakeLock(r)
  PROVE IInv'
<1> USE JobsAssumption DEF IInv, TakeLock, scope, files, held
<1>1. Typed'
  BY DEF Typed, Runs, Place, Claiming, Live, Entry
<1>2. Lease'
  BY DEF Lease
<1>3. Runs'
  BY DEF Runs, Typed, Claiming, Live
<1>4. Handles'
  BY DEF Handles, Runs, Typed, Claiming, Live, Locked
<1>5. Contents'
  BY DEF Contents, Runs, Typed, Claiming, Live
<1>6. Processes'
  BY DEF Processes, Runs, Typed, Contents, Claiming, Live, Entry
<1>7. MaterialRecorded'
  BY DEF MaterialRecorded, Typed, Contents, Runs, Live
<1>8. Sweeps'
  BY DEF Sweeps, Steps, Before, Typed, Runs, Handles, Contents, Held, Claiming, Live, Locked, Seized, Removing, Looking
<1> QED
  BY <1>1, <1>2, <1>3, <1>4, <1>5, <1>6, <1>7, <1>8


LEMMA TakeHolderKeeps ==
  ASSUME IInv, NEW r \in Run, TakeHolder(r)
  PROVE IInv'
<1> USE JobsAssumption DEF IInv, TakeHolder, scope, files, held
<1>1. Typed'
  BY DEF Typed, Runs, Place, Claiming, Live, Entry
<1>2. Lease'
  BY DEF Lease
<1>3. Runs'
  BY DEF Runs, Typed, Claiming, Live
<1>4. Handles'
  BY DEF Handles, Runs, Typed, Claiming, Live, Locked
<1>5. Contents'
  BY DEF Contents, Runs, Typed, Claiming, Live
<1>6. Processes'
  BY DEF Processes, Runs, Typed, Contents, Claiming, Live, Entry
<1>7. MaterialRecorded'
  BY DEF MaterialRecorded, Typed, Contents, Runs, Live
<1>8. Sweeps'
  BY DEF Sweeps, Steps, Before, Typed, Runs, Handles, Contents, Held, Claiming, Live, Locked, Seized, Removing, Looking
<1> QED
  BY <1>1, <1>2, <1>3, <1>4, <1>5, <1>6, <1>7, <1>8


LEMMA PublishRecordKeeps ==
  ASSUME IInv, NEW r \in Run, PublishRecord(r)
  PROVE IInv'
<1> USE JobsAssumption DEF IInv, PublishRecord, scope, files, held
<1>1. Typed'
  BY DEF Typed, Runs, Place, Claiming, Live, Entry
<1>2. Lease'
  BY DEF Lease
<1>3. Runs'
  BY DEF Runs, Typed, Claiming, Live
<1>4. Handles'
  BY DEF Handles, Runs, Typed, Claiming, Live, Locked
<1>5. Contents'
  BY DEF Contents, Runs, Typed, Claiming, Live
<1>6. Processes'
  BY DEF Processes, Runs, Typed, Contents, Claiming, Live, Entry
<1>7. MaterialRecorded'
  BY DEF MaterialRecorded, Typed, Contents, Runs, Live
<1>8. Sweeps'
  BY DEF Sweeps, Steps, Before, Typed, Runs, Handles, Contents, Held, Claiming, Live, Locked, Seized, Removing, Looking
<1> QED
  BY <1>1, <1>2, <1>3, <1>4, <1>5, <1>6, <1>7, <1>8


LEMMA PrepareKeeps ==
  ASSUME IInv, NEW r \in Run, Prepare(r)
  PROVE IInv'
<1> USE JobsAssumption DEF IInv, Prepare, scope, files, held
<1>1. Typed'
  BY DEF Typed, Runs, Place, Claiming, Live, Entry
<1>2. Lease'
  BY DEF Lease
<1>3. Runs'
  BY DEF Runs, Typed, Claiming, Live
<1>4. Handles'
  BY DEF Handles, Runs, Typed, Claiming, Live, Locked
<1>5. Contents'
  BY DEF Contents, Runs, Typed, Claiming, Live
<1>6. Processes'
  BY DEF Processes, Runs, Typed, Contents, Claiming, Live, Entry
<1>7. MaterialRecorded'
  BY DEF MaterialRecorded, Typed, Contents, Runs, Live
<1>8. Sweeps'
  BY DEF Sweeps, Steps, Before, Typed, Runs, Handles, Contents, Held, Claiming, Live, Locked, Seized, Removing, Looking
<1> QED
  BY <1>1, <1>2, <1>3, <1>4, <1>5, <1>6, <1>7, <1>8


LEMMA ExecuteKeeps ==
  ASSUME IInv, NEW r \in Run, Execute(r)
  PROVE IInv'
<1> USE JobsAssumption DEF IInv, Execute, scope, files, held
<1>1. Typed'
  BY DEF Typed, Runs, Place, Claiming, Live, Entry
<1>2. Lease'
  BY DEF Lease
<1>3. Runs'
  BY DEF Runs, Typed, Claiming, Live
<1>4. Handles'
  BY DEF Handles, Runs, Typed, Claiming, Live, Locked
<1>5. Contents'
  BY DEF Contents, Runs, Typed, Claiming, Live
<1>6. Processes'
  BY DEF Processes, Runs, Typed, Contents, Claiming, Live, Entry
<1>7. MaterialRecorded'
  BY DEF MaterialRecorded, Typed, Contents, Runs, Live
<1>8. Sweeps'
  BY DEF Sweeps, Steps, Before, Typed, Runs, Handles, Contents, Held, Claiming, Live, Locked, Seized, Removing, Looking
<1> QED
  BY <1>1, <1>2, <1>3, <1>4, <1>5, <1>6, <1>7, <1>8

LEMMA RefuseKeeps ==
  ASSUME IInv, NEW r \in Run, Refuse(r)
  PROVE IInv'
<1> USE JobsAssumption DEF IInv, Refuse, scope, files, held, Ends
<1>1. Typed'
  BY NoSweepFits DEF Typed, Runs, Place, Claiming, Live, Entry
<1>2. Lease'
  BY DEF Lease
<1>3. Runs'
  BY DEF Runs, Typed, Claiming, Live
<1>4. Handles'
  BY DEF Handles, Runs, Typed, Claiming, Live, Locked
<1>5. Contents'
  BY DEF Contents, Runs, Typed, Claiming, Live
<1>6. Processes'
  BY DEF Processes, Runs, Typed, Contents, Claiming, Live, Entry
<1>7. MaterialRecorded'
  BY DEF MaterialRecorded, Typed, Contents, Runs, Live
<1>8. Sweeps'
  <2> SUFFICES ASSUME NEW s \in Run
               PROVE Steps(sweep[s])' /\ Before(s, sweep[s])'
    BY DEF Sweeps
  <2>1. CASE s = r
    <3>1. sweep'[s] = NoSweep /\ pc'[s] # "sweep"
      BY <2>1 DEF Typed
    <3>2. Steps(sweep[s])'
      BY <3>1, <1>1, <1>3 DEF Typed, Runs, Steps, NoSweep, None, Claiming, Seized, Removing, Looking
    <3> QED
      BY <3>1, <3>2 DEF Before
  <2>2. CASE s # r
    <3>1. sweep'[s] = sweep[s] /\ Steps(sweep[s]) /\ Before(s, sweep[s])
      BY <2>2 DEF Typed, Sweeps
    <3>2. Steps(sweep[s])'
      BY <2>2, <3>1 DEF Typed, Runs, Handles, Contents, Processes, Steps, Held, Claiming, Locked, Live, Entry
    <3>3. Before(s, sweep[s])'
      BY <2>2, <3>1 DEF Typed, Lease, Runs, Handles, Contents, Processes, Before, Claiming, Locked, Live, Entry
    <3> QED
      BY <3>2, <3>3
  <2> QED
    BY <2>1, <2>2
<1> QED
  BY <1>1, <1>2, <1>3, <1>4, <1>5, <1>6, <1>7, <1>8


LEMMA CreateJobKeeps ==
  ASSUME IInv, NEW r \in Run, NEW j \in Job, CreateJob(r, j)
  PROVE IInv'
<1> USE JobsAssumption DEF IInv, CreateJob, scope, files, held
<1>1. Typed'
  BY NoSweepFits DEF Typed, Runs, Place, Claiming, Live, Entry
<1>2. Lease'
  BY DEF Lease
<1>3. Runs'
  BY DEF Runs, Typed, Claiming, Live
<1>4. Handles'
  BY DEF Handles, Runs, Typed, Claiming, Live, Locked
<1>5. Contents'
  BY DEF Contents, Runs, Typed, Claiming, Live
<1>6. Processes'
  BY DEF Processes, Runs, Typed, Contents, Claiming, Live, Entry
<1>7. MaterialRecorded'
  BY DEF MaterialRecorded, Typed, Contents, Runs, Live
<1>8. Sweeps'
  <2> SUFFICES ASSUME NEW s \in Run
               PROVE Steps(sweep[s])' /\ Before(s, sweep[s])'
    BY DEF Sweeps
  <2>1. CASE s = r
    <3>1. sweep'[s] = NoSweep /\ pc'[s] # "sweep"
      BY <2>1 DEF Typed
    <3>2. Steps(sweep[s])'
      BY <3>1, <1>1, <1>3 DEF Typed, Runs, Steps, NoSweep, None, Claiming, Seized, Removing, Looking
    <3> QED
      BY <3>1, <3>2 DEF Before
  <2>2. CASE s # r
    <3>1. sweep'[s] = sweep[s] /\ Steps(sweep[s]) /\ Before(s, sweep[s])
      BY <2>2 DEF Typed, Sweeps
    <3>2. Steps(sweep[s])'
      BY <2>2, <3>1 DEF Typed, Runs, Handles, Contents, Processes, Steps, Held, Claiming, Locked, Live, Entry
    <3>3. Before(s, sweep[s])'
      BY <2>2, <3>1 DEF Typed, Lease, Runs, Handles, Contents, Processes, Before, Claiming, Locked, Live, Entry
    <3> QED
      BY <3>2, <3>3
  <2> QED
    BY <2>1, <2>2
<1> QED
  BY <1>1, <1>2, <1>3, <1>4, <1>5, <1>6, <1>7, <1>8


LEMMA ClaimFailsKeeps ==
  ASSUME IInv, NEW r \in Run, ClaimFails(r)
  PROVE IInv'
<1> USE JobsAssumption DEF IInv, ClaimFails, scope, files, held, Ends
<1>1. Typed'
  BY NoSweepFits DEF Typed, Runs, Place, Claiming, Live, Entry
<1>2. Lease'
  BY DEF Lease
<1>3. Runs'
  BY DEF Runs, Typed, Claiming, Live
<1>4. Handles'
  BY DEF Handles, Runs, Typed, Claiming, Live, Locked
<1>5. Contents'
  BY DEF Contents, Runs, Typed, Claiming, Live
<1>6. Processes'
  BY DEF Processes, Runs, Typed, Contents, Claiming, Live, Entry
<1>7. MaterialRecorded'
  BY DEF MaterialRecorded, Typed, Contents, Runs, Live
<1>8. Sweeps'
  <2> SUFFICES ASSUME NEW s \in Run
               PROVE Steps(sweep[s])' /\ Before(s, sweep[s])'
    BY DEF Sweeps
  <2>1. CASE s = r
    <3>1. sweep'[s] = NoSweep /\ pc'[s] # "sweep"
      BY <2>1 DEF Typed, Runs, Claiming, Live
    <3>2. Steps(sweep[s])'
      BY <3>1, <1>1, <1>3 DEF Typed, Runs, Steps, NoSweep, None, Claiming, Seized, Removing, Looking
    <3> QED
      BY <3>1, <3>2 DEF Before
  <2>2. CASE s # r
    <3>1. sweep'[s] = sweep[s] /\ Steps(sweep[s]) /\ Before(s, sweep[s])
      BY <2>2 DEF Typed, Sweeps
    <3>2. Steps(sweep[s])'
      BY <2>2, <3>1 DEF Typed, Runs, Handles, Contents, Processes, Steps, Held, Claiming, Locked, Live, Entry
    <3>3. Before(s, sweep[s])'
      BY <2>2, <3>1 DEF Typed, Lease, Runs, Handles, Contents, Processes, Before, Claiming, Locked, Live, Entry
    <3> QED
      BY <3>2, <3>3
  <2> QED
    BY <2>1, <2>2
<1> QED
  BY <1>1, <1>2, <1>3, <1>4, <1>5, <1>6, <1>7, <1>8


LEMMA BeginReleaseKeeps ==
  ASSUME IInv, NEW r \in Run, BeginRelease(r)
  PROVE IInv'
<1> USE JobsAssumption DEF IInv, BeginRelease, scope, files, held
<1>1. Typed'
  BY NoSweepFits DEF Typed, Runs, Place, Claiming, Live, Entry
<1>2. Lease'
  BY DEF Lease
<1>3. Runs'
  BY DEF Runs, Typed, Claiming, Live
<1>4. Handles'
  BY DEF Handles, Runs, Typed, Claiming, Live, Locked
<1>5. Contents'
  BY DEF Contents, Runs, Typed, Claiming, Live
<1>6. Processes'
  BY DEF Processes, Runs, Typed, Contents, Claiming, Live, Entry
<1>7. MaterialRecorded'
  BY DEF MaterialRecorded, Typed, Contents, Runs, Live
<1>8. Sweeps'
  <2> SUFFICES ASSUME NEW s \in Run
               PROVE Steps(sweep[s])' /\ Before(s, sweep[s])'
    BY DEF Sweeps
  <2>1. CASE s = r
    <3>1. sweep'[s] = NoSweep /\ pc'[s] # "sweep"
      BY <2>1 DEF Typed, Runs, Claiming, Live
    <3>2. Steps(sweep[s])'
      BY <3>1, <1>1, <1>3 DEF Typed, Runs, Steps, NoSweep, None, Claiming, Seized, Removing, Looking
    <3> QED
      BY <3>1, <3>2 DEF Before
  <2>2. CASE s # r
    <3>1. sweep'[s] = sweep[s] /\ Steps(sweep[s]) /\ Before(s, sweep[s])
      BY <2>2 DEF Typed, Sweeps
    <3>2. Steps(sweep[s])'
      BY <2>2, <3>1 DEF Typed, Runs, Handles, Contents, Processes, Steps, Held, Claiming, Locked, Live, Entry
    <3>3. Before(s, sweep[s])'
      BY <2>2, <3>1 DEF Typed, Lease, Runs, Handles, Contents, Processes, Before, Claiming, Locked, Live, Entry
    <3> QED
      BY <3>2, <3>3
  <2> QED
    BY <2>1, <2>2
<1> QED
  BY <1>1, <1>2, <1>3, <1>4, <1>5, <1>6, <1>7, <1>8


LEMMA CloseHolderKeeps ==
  ASSUME IInv, NEW r \in Run, CloseHolder(r)
  PROVE IInv'
<1> USE JobsAssumption DEF IInv, CloseHolder, scope, files, held
<1>1. Typed'
  <2>1. mine[r] \in Job
    BY DEF Typed, Runs
  <2>2. [NoSweep EXCEPT !.todo = {mine[r]}, !.paired = {mine[r]}, !.step = "next"] \in Sweep
    BY <2>1, NoSweepFits DEF Sweep
  <2> QED
    BY <2>2 DEF Typed, Place
<1>2. Lease'
  BY DEF Lease
<1>3. Runs'
  BY DEF Runs, Typed, Claiming, Live
<1>4. Handles'
  BY DEF Handles, Runs, Typed, Claiming, Live, Locked
<1>5. Contents'
  BY DEF Contents, Runs, Typed, Claiming, Live
<1>6. Processes'
  BY DEF Processes, Runs, Typed, Contents, Claiming, Live, Entry
<1>7. MaterialRecorded'
  BY DEF MaterialRecorded, Typed, Contents, Runs, Live
<1>8. Sweeps'
  <2> SUFFICES ASSUME NEW s \in Run
               PROVE Steps(sweep[s])' /\ Before(s, sweep[s])'
    BY DEF Sweeps
  <2>1. CASE s = r
    <3>1. sweep'[s] = [NoSweep EXCEPT !.todo = {mine[r]}, !.paired = {mine[r]}, !.step = "next"] /\ pc'[s] # "sweep"
      BY <2>1 DEF Typed
    <3>2. sweep'[s].at = None /\ sweep'[s].step = "next"
      BY <3>1 DEF NoSweep
    <3>3. Steps(sweep[s])'
      BY <3>2, <1>1, <1>3 DEF Typed, Runs, Steps, None, Claiming, Seized, Removing, Looking
    <3> QED
      BY <3>1, <3>3 DEF Before
  <2>2. CASE s # r
    <3>1. sweep'[s] = sweep[s] /\ Steps(sweep[s]) /\ Before(s, sweep[s])
      BY <2>2 DEF Typed, Sweeps
    <3>2. Steps(sweep[s])'
      BY <2>2, <3>1 DEF Typed, Runs, Handles, Contents, Processes, Steps, Held, Claiming, Locked, Live, Entry
    <3>3. Before(s, sweep[s])'
      BY <2>2, <3>1 DEF Typed, Lease, Runs, Handles, Contents, Processes, Before, Claiming, Locked, Live, Entry
    <3> QED
      BY <3>2, <3>3
  <2> QED
    BY <2>1, <2>2
<1> QED
  BY <1>1, <1>2, <1>3, <1>4, <1>5, <1>6, <1>7, <1>8


LEMMA EndReleaseKeeps ==
  ASSUME IInv, NEW r \in Run, EndRelease(r)
  PROVE IInv'
<1> USE JobsAssumption DEF IInv, EndRelease, scope, files, held, Ends
<1>1. Typed'
  BY NoSweepFits DEF Typed, Runs, Place, Claiming, Live, Entry
<1>2. Lease'
  BY DEF Lease
<1>3. Runs'
  BY DEF Runs, Typed, Claiming, Live
<1>4. Handles'
  BY DEF Handles, Runs, Typed, Claiming, Live, Locked
<1>5. Contents'
  BY DEF Contents, Runs, Typed, Claiming, Live
<1>6. Processes'
  BY DEF Processes, Runs, Typed, Contents, Claiming, Live, Entry
<1>7. MaterialRecorded'
  BY DEF MaterialRecorded, Typed, Contents, Runs, Live
<1>8. Sweeps'
  <2> SUFFICES ASSUME NEW s \in Run
               PROVE Steps(sweep[s])' /\ Before(s, sweep[s])'
    BY DEF Sweeps
  <2>1. CASE s = r
    <3>1. sweep'[s] = NoSweep /\ pc'[s] # "sweep"
      BY <2>1 DEF Typed
    <3>2. Steps(sweep[s])'
      BY <3>1, <1>1, <1>3 DEF Typed, Runs, Steps, NoSweep, None, Claiming, Seized, Removing, Looking
    <3> QED
      BY <3>1, <3>2 DEF Before
  <2>2. CASE s # r
    <3>1. sweep'[s] = sweep[s] /\ Steps(sweep[s]) /\ Before(s, sweep[s])
      BY <2>2 DEF Typed, Sweeps
    <3>2. Steps(sweep[s])'
      BY <2>2, <3>1 DEF Typed, Runs, Handles, Contents, Processes, Steps, Held, Claiming, Locked, Live, Entry
    <3>3. Before(s, sweep[s])'
      BY <2>2, <3>1 DEF Typed, Lease, Runs, Handles, Contents, Processes, Before, Claiming, Locked, Live, Entry
    <3> QED
      BY <3>2, <3>3
  <2> QED
    BY <2>1, <2>2
<1> QED
  BY <1>1, <1>2, <1>3, <1>4, <1>5, <1>6, <1>7, <1>8


LEMMA BeginSweepKeeps ==
  ASSUME IInv, NEW r \in Run, NEW i \in Invocation, BeginSweep(r, i)
  PROVE IInv'
<1> USE JobsAssumption DEF IInv, BeginSweep, scope, files, held
<1>1. Typed'
  <2>1. [NoSweep EXCEPT !.todo = Listed, !.step = "listing"] \in Sweep
    BY NoSweepFits DEF Sweep, Typed, Runs, Listed
  <2> QED
    BY <2>1 DEF Typed, Place
<1>2. Lease'
  BY DEF Lease
<1>3. Runs'
  BY DEF Runs, Typed, Claiming, Live
<1>4. Handles'
  BY DEF Handles, Runs, Typed, Claiming, Live, Locked
<1>5. Contents'
  BY DEF Contents, Runs, Typed, Claiming, Live
<1>6. Processes'
  BY DEF Processes, Runs, Typed, Contents, Claiming, Live, Entry
<1>7. MaterialRecorded'
  BY DEF MaterialRecorded, Typed, Contents, Runs, Live
<1>8. Sweeps'
  <2> SUFFICES ASSUME NEW s \in Run
               PROVE Steps(sweep[s])' /\ Before(s, sweep[s])'
    BY DEF Sweeps
  <2>1. CASE s = r
    <3>1. sweep'[s] = [NoSweep EXCEPT !.todo = Listed, !.step = "listing"]
      BY <2>1 DEF Typed
    <3>2. sweep'[s].at = None /\ sweep'[s].step = "listing"
      BY <3>1 DEF NoSweep
    <3>3. Steps(sweep[s])'
      BY <3>2, <1>1, <1>3 DEF Typed, Runs, Steps, None, Claiming, Seized, Removing, Looking
    <3> QED
      BY <3>1, <3>3, <2>1 DEF Before, Typed, Processes, Entry, Listed, NoSweep
  <2>2. CASE s # r
    <3>1. sweep'[s] = sweep[s] /\ Steps(sweep[s]) /\ Before(s, sweep[s])
      BY <2>2 DEF Typed, Sweeps
    <3>2. Steps(sweep[s])'
      BY <2>2, <3>1 DEF Typed, Runs, Handles, Contents, Processes, Steps, Held, Claiming, Locked, Live, Entry
    <3>3. Before(s, sweep[s])'
      BY <2>2, <3>1 DEF Typed, Lease, Runs, Handles, Contents, Processes, Before, Claiming, Locked, Live, Entry
    <3> QED
      BY <3>2, <3>3
  <2> QED
    BY <2>1, <2>2
<1> QED
  BY <1>1, <1>2, <1>3, <1>4, <1>5, <1>6, <1>7, <1>8


LEMMA BeginInvocationKeeps ==
  ASSUME IInv, NEW i \in Invocation, BeginInvocation(i)
  PROVE IInv'
<1> USE JobsAssumption DEF IInv, BeginInvocation, scope, files, held
<1>1. Typed'
  BY NoSweepFits DEF Typed, Runs, Place, Claiming, Live, Entry
<1>2. Lease'
  BY DEF Lease, Typed
<1>3. Runs'
  BY DEF Runs, Typed, Claiming, Live
<1>4. Handles'
  BY DEF Handles, Runs, Typed, Claiming, Live, Locked
<1>5. Contents'
  BY DEF Contents, Runs, Typed, Claiming, Live
<1>6. Processes'
  BY DEF Processes, Runs, Typed, Contents, Claiming, Live, Entry
<1>7. MaterialRecorded'
  BY DEF MaterialRecorded, Typed, Contents, Runs, Live
<1>8. Sweeps'
  BY DEF Sweeps, Steps, Before, Typed, Runs, Handles, Contents, Held, Claiming, Live, Locked, Seized, Removing, Looking
<1> QED
  BY <1>1, <1>2, <1>3, <1>4, <1>5, <1>6, <1>7, <1>8


LEMMA EndInvocationKeeps ==
  ASSUME IInv, NEW i \in Invocation, EndInvocation(i)
  PROVE IInv'
<1> USE JobsAssumption DEF IInv, EndInvocation, scope, files, held
<1>1. Typed'
  BY NoSweepFits DEF Typed, Runs, Place, Claiming, Live, Entry
<1>2. Lease'
  BY DEF Lease
<1>3. Runs'
  BY DEF Runs, Typed, Claiming, Live
<1>4. Handles'
  BY DEF Handles, Runs, Typed, Claiming, Live, Locked
<1>5. Contents'
  BY DEF Contents, Runs, Typed, Claiming, Live
<1>6. Processes'
  BY DEF Processes, Runs, Typed, Contents, Claiming, Live, Entry
<1>7. MaterialRecorded'
  BY DEF MaterialRecorded, Typed, Contents, Runs, Live
<1>8. Sweeps'
  BY DEF Sweeps, Steps, Before, Typed, Runs, Handles, Contents, Held, Claiming, Live, Locked, Seized, Removing, Looking
<1> QED
  BY <1>1, <1>2, <1>3, <1>4, <1>5, <1>6, <1>7, <1>8


LEMMA KillKeeps ==
  ASSUME IInv, NEW i \in Invocation, Kill(i)
  PROVE IInv'
<1> USE JobsAssumption DEF IInv, Kill, scope, files, held, JobsOf
<1>1. Typed'
  BY NoSweepFits DEF Typed, Runs, Place, Claiming, Live, Entry
<1>2. Lease'
  BY DEF Lease
<1>3. Runs'
  BY DEF Runs, Typed, Claiming, Live
<1>4. Handles'
  BY DEF Handles, Runs, Typed, Claiming, Live, Locked
<1>5. Contents'
  BY DEF Contents, Runs, Typed, Claiming, Live
<1>6. Processes'
  BY DEF Processes, Runs, Typed, Contents, Claiming, Live, Entry
<1>7. MaterialRecorded'
  BY DEF MaterialRecorded, Typed, Contents, Runs, Live
<1>8. Sweeps'
  <2> SUFFICES ASSUME NEW s \in Run
               PROVE Steps(sweep[s])' /\ Before(s, sweep[s])'
    BY DEF Sweeps
  <2>1. CASE of[s] = i
    <3>1. sweep'[s] = NoSweep /\ pc'[s] # "sweep"
      BY <2>1
    <3>2. Steps(sweep[s])'
      BY <3>1, <1>1, <1>3 DEF Typed, Runs, Steps, NoSweep, None, Claiming, Seized, Removing, Looking
    <3> QED
      BY <3>1, <3>2 DEF Before
  <2>2. CASE of[s] # i
    <3>1. sweep'[s] = sweep[s] /\ Steps(sweep[s]) /\ Before(s, sweep[s])
      BY <2>2 DEF Sweeps
    <3>2. Steps(sweep[s])'
      BY <3>1 DEF Typed, Runs, Steps, Held, Claiming
    <3>3. Before(s, sweep[s])'
      BY <2>2, <3>1 DEF Typed, Lease, Runs, Handles, Before, Claiming, Live
    <3> QED
      BY <3>2, <3>3
  <2> QED
    BY <2>1, <2>2
<1> QED
  BY <1>1, <1>2, <1>3, <1>4, <1>5, <1>6, <1>7, <1>8


LEMMA AdapterEndsKeeps ==
  ASSUME IInv, NEW j \in Job, AdapterEnds(j)
  PROVE IInv'
<1> USE JobsAssumption DEF IInv, AdapterEnds, scope, files, held
<1>1. Typed'
  BY NoSweepFits DEF Typed, Runs, Place, Claiming, Live, Entry
<1>2. Lease'
  BY DEF Lease
<1>3. Runs'
  BY DEF Runs, Typed, Claiming, Live
<1>4. Handles'
  BY DEF Handles, Runs, Typed, Claiming, Live, Locked
<1>5. Contents'
  BY DEF Contents, Runs, Typed, Claiming, Live
<1>6. Processes'
  BY DEF Processes, Runs, Typed, Contents, Claiming, Live, Entry
<1>7. MaterialRecorded'
  BY DEF MaterialRecorded, Typed, Contents, Runs, Live
<1>8. Sweeps'
  BY DEF Sweeps, Steps, Before, Typed, Runs, Handles, Contents, Held, Claiming, Live, Locked, Seized, Removing, Looking
<1> QED
  BY <1>1, <1>2, <1>3, <1>4, <1>5, <1>6, <1>7, <1>8

LEMMA RebootKeeps ==
  ASSUME IInv, Reboot
  PROVE IInv'
<1> USE JobsAssumption DEF IInv, Reboot
<1>1. Typed'
  BY NoSweepFits DEF Typed, Place
<1>2. Lease' /\ Runs' /\ Handles' /\ Contents' /\ Processes' /\ MaterialRecorded'
  BY DEF Lease, Runs, Handles, Contents, Processes, MaterialRecorded, Claiming, Live, Locked
<1>3. Sweeps'
  BY DEF Sweeps, Steps, Before, Held, NoSweep, None, Claiming, Seized, Removing, Looking
<1> QED
  BY <1>1, <1>2, <1>3

-----------------------------------------------------------------------------
(* The theorems. *)

LEMMA InitHolds == Init => IInv
<1> SUFFICES ASSUME Init PROVE IInv
  OBVIOUS
<1> USE JobsAssumption DEF Init
<1>1. Typed
  BY NoSweepFits DEF Typed, Place
<1>2. Lease /\ Runs /\ Handles /\ Contents /\ Processes /\ MaterialRecorded
  BY DEF Lease, Runs, Handles, Contents, Processes, MaterialRecorded, Claiming, Live, Locked
<1>3. Sweeps
  BY DEF Sweeps, Steps, Before, Held, NoSweep, None, Claiming, Seized, Removing, Looking
<1> QED
  BY <1>1, <1>2, <1>3 DEF IInv

LEMMA StutterKeeps ==
  ASSUME IInv, UNCHANGED vars
  PROVE IInv'
<1> USE DEF vars, scope, files, held
<1>1. Typed' /\ Lease' /\ Runs' /\ Handles'
  BY DEF IInv, Typed, Lease, Runs, Handles
<1>2. Contents' /\ Processes' /\ MaterialRecorded'
  BY DEF IInv, Contents, Processes, MaterialRecorded
<1>3. Sweeps'
  BY DEF IInv, Sweeps, Steps, Before, Held
<1> QED
  BY <1>1, <1>2, <1>3 DEF IInv

LEMMA NextKeeps == IInv /\ [Next]_vars => IInv'
<1> SUFFICES ASSUME IInv, [Next]_vars PROVE IInv'
  OBVIOUS
<1>1. CASE UNCHANGED vars
  BY <1>1, StutterKeeps
<1>2. ASSUME NEW i \in Invocation, BeginInvocation(i) \/ EndInvocation(i) \/ Kill(i)
      PROVE IInv'
  BY <1>2, BeginInvocationKeeps, EndInvocationKeeps, KillKeeps
<1>3. CASE Reboot
  BY <1>3, RebootKeeps
<1>4. ASSUME NEW j \in Job, AdapterEnds(j)
      PROVE IInv'
  BY <1>4, AdapterEndsKeeps
<1>5. ASSUME NEW r \in Run, Sweeping(r)
      PROVE IInv'
  BY <1>5, ListScratchKeeps, LockSharedKeeps, AttributeKeeps, LockAgainKeeps, ReportKeeps,
     LockDirectoryKeeps, RecheckKeeps, RemoveKeeps, RemoveOrphanKeeps, OpenKeeps, OrphanedKeeps
     DEF Sweeping
<1>6. ASSUME NEW r \in Run, Step(r)
      PROVE IInv'
  BY <1>5, <1>6, RefuseKeeps, CreateJobKeeps, CreateLockKeeps, TakeLockKeeps, TakeHolderKeeps,
     PublishRecordKeeps, PrepareKeeps, ExecuteKeeps, BeginReleaseKeeps, CloseHolderKeeps, EndReleaseKeeps
     DEF Step
<1>7. ASSUME NEW r \in Run, ClaimFails(r) \/ RemoveFails(r) \/ \E i \in Invocation : BeginSweep(r, i)
      PROVE IInv'
  BY <1>7, ClaimFailsKeeps, RemoveFailsKeeps, BeginSweepKeeps
<1> QED
  BY <1>1, <1>2, <1>3, <1>4, <1>6, <1>7 DEF Next

(* The invariant holds of every state of the runner's jobs. *)
THEOREM Invariance == Spec => []IInv
  BY InitHolds, NextKeeps, PTL DEF Spec

(* Every variable has its type, and a run that claims, releases or reaps   *)
(* has its scope's lock.                                                   *)
THEOREM TypeCorrect == Spec => []TypeOK
<1>1. IInv => TypeOK
  BY DEF IInv, Typed, Runs, TypeOK, Mutexed, Sweep, Claiming, Live
<1> QED
  BY <1>1, Invariance, PTL

(* An adapter process always has its job, its material and its scratch,    *)
(* whichever sweeps run beside it and however its invocation ended.        *)
THEOREM AdapterKept == Spec => []AdapterKeepsJob
<1>1. IInv => AdapterKeepsJob
  BY DEF IInv, Processes, AdapterKeepsJob
<1> QED
  BY <1>1, Invariance, PTL

(* A claim can take its lock, and what it wrote stays. *)
THEOREM ClaimsUndisturbed == Spec => []ClaimUndisturbed
<1>1. IInv => ClaimUndisturbed
  <2> SUFFICES ASSUME IInv, NEW r \in Run
               PROVE /\ pc[r] = "lock" => Sharing(mine[r]) = {} /\ {"directory", "lock"} \subseteq disk[mine[r]]
                     /\ pc[r] \in {"prepare", "start"} =>
                          {"directory", "lock", "holder", "record"} \subseteq disk[mine[r]]
    BY DEF ClaimUndisturbed
  <2>1. pc[r] = "lock" => Sharing(mine[r]) = {}
    BY DEF IInv, Sweeps, Steps, Sharing, Claiming
  <2> QED
    BY <2>1 DEF IInv, Contents, Live
<1> QED
  BY <1>1, Invariance, PTL

(* Whatever was killed part way, a job that holds material has its record, *)
(* so that a sweep finds it.                                               *)
THEOREM MaterialFound == Spec => []MaterialRecorded
<1>1. IInv => MaterialRecorded
  BY DEF IInv
<1> QED
  BY <1>1, Invariance, PTL

(* What a sweep reports of a held job is true when it reports it. *)
THEOREM ReportsSound == Spec => []ReportSound
<1>1. IInv => ReportSound
  <2> SUFFICES ASSUME IInv, NEW r \in Run, sweep[r].step = "report"
               PROVE /\ sweep[r].attributed
                     /\ ~ sweep[r].alive => sweep[r].at \notin lockFd
                     /\ sweep[r].at \in lockFd /\ sweep[r].at \in JobsOf(of[r]) => ~ Refusal(r)
    BY DEF ReportSound
  <2>1. Steps(sweep[r])
    BY DEF IInv, Sweeps
  <2>2. sweep[r].attributed /\ (sweep[r].at \in lockFd => sweep[r].alive)
    BY <2>1 DEF Steps
  <2>3. ASSUME sweep[r].at \in lockFd, sweep[r].at \in JobsOf(of[r])
        PROVE sweep[r].at \in owned[of[r]]
    <3>1. PICK s \in Run : of[s] = of[r] /\ mine[s] = sweep[r].at /\ mine[s] # None
      BY <2>3 DEF JobsOf
    <3>2. PICK t \in Run : mine[t] = sweep[r].at /\ pc[t] \in Locked
      BY <2>3 DEF IInv, Handles
    <3>3. s = t
      BY <3>1, <3>2 DEF IInv, Runs
    <3> QED
      BY <3>1, <3>2, <3>3, <2>1 DEF IInv, Handles, Steps, Locked, Claiming
  <2> QED
    BY <2>2, <2>3 DEF Refusal
<1> QED
  BY <1>1, Invariance, PTL

(* No adapter of an apply or a destroy starts beside processes an ended    *)
(* invocation of its context left behind.                                  *)
THEOREM StartsAlone == Spec => NoneBesideTheLeft
<1> DEFINE Alone == \A r \in Run, j \in Job :
                      CreateJob(r, j) /\ of[r] \in exclusive =>
                        \A k \in adapter : ContextOf[maker[k]] = ContextOf[of[r]] =>
                          \E s \in Run : mine[s] = k /\ pc[s] = "run"
<1>1. IInv => Alone
  <2> SUFFICES ASSUME IInv, NEW r \in Run, NEW j \in Job, CreateJob(r, j), of[r] \in exclusive,
                      NEW k \in adapter, ContextOf[maker[k]] = ContextOf[of[r]]
               PROVE \E s \in Run : mine[s] = k /\ pc[s] = "run"
    OBVIOUS
  <2>1. Before(r, sweep[r]) /\ Steps(sweep[r])
    BY DEF IInv, Sweeps
  <2>2. sweep[r].at # k
    BY <2>1, JobsAssumption DEF CreateJob, Steps, IInv, Typed
  <2> QED
    BY <2>1, <2>2 DEF Before, CreateJob
<1>2. IInv => [Alone]_vars
  BY <1>1
<1> HIDE DEF Alone
<1>3. Spec => [][Alone]_vars
  BY <1>2, Invariance, PTL
<1> QED
  BY <1>3 DEF NoneBesideTheLeft, Alone
=============================================================================
