-------------------------------- MODULE Jobs --------------------------------
(***************************************************************************)
(* The job directories adapter runs own, and the sweeps that remove them   *)
(* (ansiblerunner/{jobs,scope,process}_linux_amd64.go).                    *)
(*                                                                         *)
(* A run sweeps before it claims a job of its own.  The job's lock is held *)
(* by the invocation and by every adapter process, which inherits it, its  *)
(* holder by the invocation alone.  A sweep takes the lock shared, which   *)
(* it can only once none of them runs, then the directory's own lock, and  *)
(* empties the job: scratch, material, record, holder, lock, directory.    *)
(* Invocations sweep beside one another, are killed at any step, and leave *)
(* adapter processes behind.                                               *)
(*                                                                         *)
(* A sweep's shared lock and directory lock follow from its step.  Names   *)
(* that are not the runner's own, and the bounds on what a sweep reads,    *)
(* are left out.  A name is made again only once nothing refers to the job *)
(* that had it, which the code proves by the identity of its files.        *)
(***************************************************************************)
EXTENDS Naturals, FiniteSets

CONSTANTS
  Invocation, Run, Job,
  ContextOf,        \* the context each invocation works for
  MaxKills          \* bound on kills, reboots and failed removals

None == "none"

ASSUME JobsAssumption ==
  /\ None \notin Invocation \union Run \union Job
  /\ MaxKills \in Nat

VARIABLES
  open,        \* the invocations that run, each with its context leased
  exclusive,   \* those that lease it exclusively: apply and destroy
  mutex,       \* of each invocation: the run that claims or releases, or None
  owned,       \* of each invocation: the live jobs its scope registered
  pc, of, mine,   \* of each run: where it is, its invocation and its job
  disk,        \* what each job's directory holds
  maker,       \* the invocation each job's record names
  scratch,     \* the jobs whose scratch exists
  lockFd,      \* the jobs whose lock their invocation holds
  holderFd,    \* the jobs whose holder it holds
  adapter,     \* the jobs an adapter process runs for, which hold the lock too
  sweep,       \* of each run: its sweep
  kills

files == <<disk, scratch>>
held == <<lockFd, holderFd, adapter>>
scope == <<open, exclusive, mutex, owned>>
vars == <<scope, pc, of, mine, files, maker, held, sweep, kills>>

\* A job's directory, and the entries its removal removes in this order.
Entry == {"directory", "material", "record", "holder", "lock"}

NoSweep == [todo |-> {}, paired |-> {}, orphans |-> {}, at |-> None, step |-> "none", by |-> None,
            attributed |-> FALSE, alive |-> FALSE, refused |-> FALSE]

Held(j) == j \in lockFd \union adapter

Removing == {"scratch", "material", "record", "holder", "lock", "directory"}
Seized == {"shared", "listed"} \union Removing

Init ==
  /\ open = {} /\ exclusive = {} /\ mutex = [i \in Invocation |-> None] /\ owned = [i \in Invocation |-> {}]
  /\ pc = [r \in Run |-> "idle"] /\ of = [r \in Run |-> None] /\ mine = [r \in Run |-> None]
  /\ disk = [j \in Job |-> {}] /\ scratch = {} /\ maker = [j \in Job |-> None]
  /\ lockFd = {} /\ holderFd = {} /\ adapter = {}
  /\ sweep = [r \in Run |-> NoSweep] /\ kills = 0

-----------------------------------------------------------------------------
(* Invocations *)

(* An invocation opens its scope under its context's lease: an apply or a destroy *)
(* holds it alone, bounded runs share it.                                         *)
BeginInvocation(i) ==
  /\ i \notin open
  /\ \E alone \in BOOLEAN :
       /\ \A k \in open : ContextOf[k] = ContextOf[i] => ~ alone /\ k \notin exclusive
       /\ exclusive' = IF alone THEN exclusive \union {i} ELSE exclusive
  /\ open' = open \union {i}
  /\ UNCHANGED <<mutex, owned, pc, of, mine, files, maker, held, sweep, kills>>

(* It ends once its runs have. *)
EndInvocation(i) ==
  /\ i \in open
  /\ \A r \in Run : of[r] # i
  /\ open' = open \ {i} /\ exclusive' = exclusive \ {i} /\ owned' = [owned EXCEPT ![i] = {}]
  /\ UNCHANGED <<mutex, pc, of, mine, files, maker, held, sweep, kills>>

\* The jobs of the runs of an invocation.
JobsOf(i) == {mine[r] : r \in {s \in Run : of[s] = i}} \ {None}

(* It is killed: its handles close, and any of its adapters may outlive it. *)
Kill(i) ==
  /\ i \in open /\ kills < MaxKills /\ kills' = kills + 1
  /\ open' = open \ {i} /\ exclusive' = exclusive \ {i}
  /\ mutex' = [mutex EXCEPT ![i] = None] /\ owned' = [owned EXCEPT ![i] = {}]
  /\ lockFd' = lockFd \ JobsOf(i) /\ holderFd' = holderFd \ JobsOf(i)
  /\ pc' = [r \in Run |-> IF of[r] = i THEN "idle" ELSE pc[r]]
  /\ of' = [r \in Run |-> IF of[r] = i THEN None ELSE of[r]]
  /\ mine' = [r \in Run |-> IF of[r] = i THEN None ELSE mine[r]]
  /\ sweep' = [r \in Run |-> IF of[r] = i THEN NoSweep ELSE sweep[r]]
  /\ UNCHANGED <<files, maker, adapter>>

(* The host reboots: no process is left, and the jobs, which live under /run, are gone. *)
Reboot ==
  /\ kills < MaxKills /\ kills' = kills + 1
  /\ open' = {} /\ exclusive' = {} /\ mutex' = [i \in Invocation |-> None] /\ owned' = [i \in Invocation |-> {}]
  /\ pc' = [r \in Run |-> "idle"] /\ of' = [r \in Run |-> None] /\ mine' = [r \in Run |-> None]
  /\ sweep' = [r \in Run |-> NoSweep]
  /\ disk' = [j \in Job |-> {}] /\ maker' = [j \in Job |-> None]
  /\ lockFd' = {} /\ holderFd' = {} /\ adapter' = {}
  /\ UNCHANGED scratch

(* The last adapter process of a job ends. *)
AdapterEnds(j) ==
  /\ j \in adapter /\ adapter' = adapter \ {j}
  /\ UNCHANGED <<scope, pc, of, mine, files, maker, lockFd, holderFd, sweep, kills>>

-----------------------------------------------------------------------------
(* The claim of a run's job *)

Mutexed(r) == mutex[of[r]] = r

Listed == {j \in Job : disk[j] # {}}

(* claimRun: under the scope's lock, the jobs and then the scratch are listed. What is listed *)
(* beside a job is what its removal takes: scratch made later stays for a later sweep.        *)
BeginSweep(r, i) ==
  /\ pc[r] = "idle" /\ i \in open /\ mutex[i] = None
  /\ of' = [of EXCEPT ![r] = i] /\ mutex' = [mutex EXCEPT ![i] = r]
  /\ pc' = [pc EXCEPT ![r] = "sweep"]
  /\ sweep' = [sweep EXCEPT ![r] = [NoSweep EXCEPT !.todo = Listed, !.step = "listing"]]
  /\ UNCHANGED <<open, exclusive, owned, mine, files, maker, held, kills>>

ListScratch(r) ==
  /\ sweep[r].step = "listing"
  /\ sweep' = [sweep EXCEPT ![r].paired = scratch \intersect sweep[r].todo,
                                ![r].orphans = scratch \ sweep[r].todo, ![r].step = "next"]
  /\ UNCHANGED <<scope, pc, of, mine, files, maker, held, kills>>

\* A run ends, and lets the scope's lock go.
Ends(r) ==
  /\ pc' = [pc EXCEPT ![r] = "idle"] /\ of' = [of EXCEPT ![r] = None]
  /\ mutex' = [mutex EXCEPT ![of[r]] = None]

(* A refusing sweep ends the run, with nothing claimed. *)
Refuse(r) ==
  /\ pc[r] = "sweep" /\ sweep[r].step = "next"
  /\ sweep[r].todo = {} /\ sweep[r].orphans = {} /\ sweep[r].refused
  /\ Ends(r) /\ sweep' = [sweep EXCEPT ![r] = NoSweep]
  /\ UNCHANGED <<open, exclusive, owned, mine, files, maker, held, kills>>

(* MkdirTemp: a job no directory and no scratch is named after. *)
CreateJob(r, j) ==
  /\ pc[r] = "sweep" /\ sweep[r].step = "next"
  /\ sweep[r].todo = {} /\ sweep[r].orphans = {} /\ ~ sweep[r].refused
  /\ disk[j] = {} /\ j \notin scratch
  /\ \A s \in Run : mine[s] # j /\ sweep[s].at # j /\ j \notin sweep[s].todo \union sweep[s].orphans
  /\ disk' = [disk EXCEPT ![j] = {"directory"}] /\ maker' = [maker EXCEPT ![j] = of[r]]
  /\ mine' = [mine EXCEPT ![r] = j] /\ pc' = [pc EXCEPT ![r] = "create"]
  /\ sweep' = [sweep EXCEPT ![r] = NoSweep]
  /\ UNCHANGED <<scope, of, scratch, held, kills>>

\* The sweeps that hold the job's lock shared.
Sharing(j) == {r \in Run : sweep[r].at = j /\ sweep[r].step \in Seized}

(* claim: the lock file is created, *)
CreateLock(r) ==
  /\ pc[r] = "create" /\ pc' = [pc EXCEPT ![r] = "lock"]
  /\ disk' = [disk EXCEPT ![mine[r]] = @ \union {"lock"}]
  /\ UNCHANGED <<scope, of, mine, scratch, maker, held, sweep, kills>>

(* then taken, *)
TakeLock(r) ==
  /\ pc[r] = "lock" /\ Sharing(mine[r]) = {}
  /\ pc' = [pc EXCEPT ![r] = "holder"] /\ lockFd' = lockFd \union {mine[r]}
  /\ UNCHANGED <<scope, of, mine, files, maker, holderFd, adapter, sweep, kills>>

(* then the holder, *)
TakeHolder(r) ==
  /\ pc[r] = "holder" /\ pc' = [pc EXCEPT ![r] = "record"]
  /\ disk' = [disk EXCEPT ![mine[r]] = @ \union {"holder"}] /\ holderFd' = holderFd \union {mine[r]}
  /\ UNCHANGED <<scope, of, mine, scratch, maker, lockFd, adapter, sweep, kills>>

(* then the record is renamed into place, and the job registered in the scope. *)
PublishRecord(r) ==
  /\ pc[r] = "record" /\ pc' = [pc EXCEPT ![r] = "prepare"]
  /\ disk' = [disk EXCEPT ![mine[r]] = @ \union {"record"}]
  /\ owned' = [owned EXCEPT ![of[r]] = @ \union {mine[r]}]
  /\ mutex' = [mutex EXCEPT ![of[r]] = None]
  /\ UNCHANGED <<open, exclusive, of, mine, scratch, maker, held, sweep, kills>>

(* A claim that fails before its record removes what it made. *)
ClaimFails(r) ==
  /\ pc[r] \in {"create", "lock", "holder", "record"}
  /\ disk' = [disk EXCEPT ![mine[r]] = {}] /\ maker' = [maker EXCEPT ![mine[r]] = None]
  /\ lockFd' = lockFd \ {mine[r]} /\ holderFd' = holderFd \ {mine[r]}
  /\ Ends(r) /\ mine' = [mine EXCEPT ![r] = None]
  /\ UNCHANGED <<open, exclusive, owned, scratch, adapter, sweep, kills>>

(* The scratch is made and the material written, *)
Prepare(r) ==
  /\ pc[r] = "prepare" /\ pc' = [pc EXCEPT ![r] = "start"]
  /\ scratch' = scratch \union {mine[r]}
  /\ disk' = [disk EXCEPT ![mine[r]] = @ \union {"material"}]
  /\ UNCHANGED <<scope, of, mine, maker, held, sweep, kills>>

(* and the adapter runs, or cannot start. *)
Execute(r) ==
  /\ pc[r] = "start" /\ pc' = [pc EXCEPT ![r] = "run"]
  /\ adapter' \in {adapter, adapter \union {mine[r]}}
  /\ UNCHANGED <<scope, of, mine, files, maker, lockFd, holderFd, sweep, kills>>

(* release: under the scope's lock the job leaves the scope and its lock closes, *)
BeginRelease(r) ==
  /\ pc[r] \in {"prepare", "start", "run"} /\ mutex[of[r]] = None
  /\ mutex' = [mutex EXCEPT ![of[r]] = r]
  /\ owned' = [owned EXCEPT ![of[r]] = @ \ {mine[r]}]
  /\ lockFd' = lockFd \ {mine[r]}
  /\ pc' = [pc EXCEPT ![r] = "unlock"]
  /\ UNCHANGED <<open, exclusive, of, mine, files, maker, holderFd, adapter, sweep, kills>>

(* then its holder, and the job is reaped as any other. *)
CloseHolder(r) ==
  /\ pc[r] = "unlock" /\ pc' = [pc EXCEPT ![r] = "reap"]
  /\ lockFd' = lockFd \ {mine[r]} /\ holderFd' = holderFd \ {mine[r]}
  /\ sweep' = [sweep EXCEPT ![r] = [NoSweep EXCEPT !.todo = {mine[r]}, !.paired = {mine[r]}, !.step = "next"]]
  /\ UNCHANGED <<scope, of, mine, files, maker, adapter, kills>>

EndRelease(r) ==
  /\ pc[r] = "reap" /\ sweep[r].step = "next" /\ sweep[r].todo = {}
  /\ Ends(r) /\ mine' = [mine EXCEPT ![r] = None]
  /\ sweep' = [sweep EXCEPT ![r] = NoSweep]
  /\ UNCHANGED <<open, exclusive, owned, files, maker, held, kills>>

-----------------------------------------------------------------------------
(* One job of a sweep: seize *)

\* The sweep goes on to the next job.
Passed(r) == [sweep[r] EXCEPT !.paired = @ \ {sweep[r].at}, !.at = None, !.by = None, !.step = "next", !.attributed = FALSE, !.alive = FALSE]

SweepStep(r, value) ==
  /\ sweep' = [sweep EXCEPT ![r] = value]
  /\ UNCHANGED <<scope, pc, of, mine, files, maker, held, kills>>

\* Mutant: a job without its record is taken for a stale one.
OpenUnrecorded(r, j) ==
  /\ sweep[r].step = "next" /\ j \in sweep[r].todo
  /\ LET taken == [sweep[r] EXCEPT !.todo = @ \ {j}]
     IN SweepStep(r, IF "lock" \in disk[j] THEN [taken EXCEPT !.at = j, !.by = maker[j], !.step = "opened"]
                     ELSE [taken EXCEPT !.paired = @ \ {j}])

(* Its record and lock are opened: a job without them is being created, or going. *)
Open(r, j) ==
  /\ sweep[r].step = "next" /\ j \in sweep[r].todo
  /\ LET taken == [sweep[r] EXCEPT !.todo = @ \ {j}]
     IN SweepStep(r, IF {"record", "lock"} \subseteq disk[j]
                     THEN [taken EXCEPT !.at = j, !.by = maker[j], !.step = "opened"]
                     ELSE [taken EXCEPT !.paired = @ \ {j}])

(* lockShared succeeds once no process of the job holds it. *)
LockShared(r) ==
  /\ sweep[r].step = "opened"
  /\ SweepStep(r, [sweep[r] EXCEPT !.step = IF Held(sweep[r].at) THEN "held" ELSE "shared"])

(* attribute: the holder is probed, which another sweep's own probe may find taken. *)
Attribute(r) ==
  LET j == sweep[r].at
      probed == \E s \in Run \ {r} : sweep[s].at = j /\ sweep[s].step \in {"held", "again"}
  IN /\ sweep[r].step = "held"
     /\ \E alive \in BOOLEAN :
          /\ alive = (j \in holderFd) \/ (alive /\ probed)
          /\ SweepStep(r, [sweep[r] EXCEPT !.attributed = "holder" \in disk[j], !.alive = alive,
                                           !.step = "again"])

\* Mutant: what was read of a held job stands without a second look at its lock.
LockAgainNever(r) ==
  /\ sweep[r].step = "again"
  /\ SweepStep(r, [sweep[r] EXCEPT !.step = "report"])

(* What it says stands only if the lock is still held. *)
LockAgain(r) ==
  /\ sweep[r].step = "again"
  /\ SweepStep(r, [sweep[r] EXCEPT !.step = IF Held(sweep[r].at) THEN "report" ELSE "shared"])

\* Mutant: only a job whose invocation still runs refuses.
RefusalAlive(r) ==
  LET j == sweep[r].at
      i == of[r]
  IN \/ ~ sweep[r].attributed
     \/ ContextOf[sweep[r].by] = ContextOf[i] /\ sweep[r].alive /\ j \notin owned[i]

\* owns and heldRefusal: a live sibling or another context's job says nothing.
Refusal(r) ==
  LET j == sweep[r].at
      i == of[r]
  IN \/ ~ sweep[r].attributed
     \/ /\ ContextOf[sweep[r].by] = ContextOf[i]
        /\ ~ (sweep[r].alive /\ j \in owned[i])

Report(r) ==
  /\ sweep[r].step = "report"
  /\ SweepStep(r, [Passed(r) EXCEPT !.refused = @ \/ (pc[r] = "sweep" /\ Refusal(r))])

\* The sweeps that hold the job directory's own lock.
Locking(j) == {r \in Run : sweep[r].at = j /\ sweep[r].step \in {"listed"} \union Removing}

(* lockDirectory: a directory another sweep holds, or that went, is skipped. *)
LockDirectory(r) ==
  LET j == sweep[r].at
  IN /\ sweep[r].step = "shared"
     /\ SweepStep(r, IF Locking(j) = {} /\ "directory" \in disk[j]
                     THEN [sweep[r] EXCEPT !.step = "listed"] ELSE Passed(r))

(* Its record is looked for again: another sweep may have removed the job meanwhile. *)
Recheck(r) ==
  /\ sweep[r].step = "listed"
  /\ SweepStep(r, IF "record" \in disk[sweep[r].at] THEN [sweep[r] EXCEPT !.step = "scratch"] ELSE Passed(r))

-----------------------------------------------------------------------------
(* remove *)

\* Mutant: the record goes first.
AfterRecord == [scratch |-> "record", record |-> "material", material |-> "holder",
                holder |-> "lock", lock |-> "directory", directory |-> "next"]

\* What follows each step of a removal.
After == [scratch |-> "material", material |-> "record", record |-> "holder",
          holder |-> "lock", lock |-> "directory", directory |-> "next"]

\* One entry goes, and the sweep with it to the next.
Remove(r) ==
  LET j == sweep[r].at
      step == sweep[r].step
  IN /\ step \in Removing
     /\ scratch' = IF step = "scratch" /\ j \in sweep[r].paired THEN scratch \ {j} ELSE scratch
     /\ disk' = [disk EXCEPT ![j] = @ \ {step}]
     /\ maker' = IF step = "directory" THEN [maker EXCEPT ![j] = None] ELSE maker
     /\ sweep' = [sweep EXCEPT ![r] = IF step = "directory" THEN Passed(r)
                                      ELSE [sweep[r] EXCEPT !.paired = @ \ {j}, !.step = After[step]]]
     /\ UNCHANGED <<scope, pc, of, mine, held, kills>>

(* An entry that does not go ends the sweep, which refuses. *)
RemoveFails(r) ==
  /\ sweep[r].step \in Removing \union {"orphan"} /\ kills < MaxKills /\ kills' = kills + 1
  /\ sweep' = [sweep EXCEPT ![r] = [Passed(r) EXCEPT !.todo = {}, !.paired = {}, !.orphans = {}, !.refused = pc[r] = "sweep"]]
  /\ UNCHANGED <<scope, pc, of, mine, files, maker, held>>

\* Mutant: scratch whose job was not listed is removed without a look for the job.
OrphanedUnproved(r, j) ==
  /\ sweep[r].step = "next" /\ sweep[r].todo = {} /\ j \in sweep[r].orphans
  /\ SweepStep(r, [sweep[r] EXCEPT !.orphans = @ \ {j}, !.at = j, !.step = "orphan"])

(* orphaned: scratch whose job is gone *)
Orphaned(r, j) ==
  /\ sweep[r].step = "next" /\ sweep[r].todo = {} /\ j \in sweep[r].orphans
  /\ LET taken == [sweep[r] EXCEPT !.orphans = @ \ {j}]
     IN SweepStep(r, IF "directory" \in disk[j] THEN taken
                     ELSE [taken EXCEPT !.at = j, !.step = "orphan"])

(* is removed. *)
RemoveOrphan(r) ==
  /\ sweep[r].step = "orphan"
  /\ scratch' = scratch \ {sweep[r].at}
  /\ sweep' = [sweep EXCEPT ![r] = Passed(r)]
  /\ UNCHANGED <<scope, pc, of, mine, disk, maker, held, kills>>

-----------------------------------------------------------------------------
Sweeping(r) ==
  \/ ListScratch(r) \/ LockShared(r) \/ Attribute(r) \/ LockAgain(r) \/ Report(r)
  \/ LockDirectory(r) \/ Recheck(r) \/ Remove(r) \/ RemoveOrphan(r)
  \/ \E j \in Job : Open(r, j) \/ Orphaned(r, j)

\* What a run does of itself once it began.
Step(r) ==
  \/ Sweeping(r) \/ Refuse(r) \/ \E j \in Job : CreateJob(r, j)
  \/ CreateLock(r) \/ TakeLock(r) \/ TakeHolder(r) \/ PublishRecord(r) \/ Prepare(r) \/ Execute(r)
  \/ BeginRelease(r) \/ CloseHolder(r) \/ EndRelease(r)

Next ==
  \/ \E i \in Invocation : BeginInvocation(i) \/ EndInvocation(i) \/ Kill(i)
  \/ Reboot
  \/ \E j \in Job : AdapterEnds(j)
  \/ \E r \in Run : Step(r) \/ ClaimFails(r) \/ RemoveFails(r) \/ \E i \in Invocation : BeginSweep(r, i)

Spec == Init /\ [][Next]_vars

-----------------------------------------------------------------------------
(* Properties *)

(* Every variable has its type. *)
TypeOK ==
  /\ open \subseteq Invocation /\ mutex \in [Invocation -> Run \union {None}]
  /\ owned \in [Invocation -> SUBSET Job]
  /\ exclusive \subseteq open /\ of \in [Run -> open \union {None}]
  /\ mine \in [Run -> Job \union {None}]
  /\ disk \in [Job -> SUBSET Entry] /\ scratch \subseteq Job
  /\ lockFd \subseteq Job /\ holderFd \subseteq Job /\ adapter \subseteq Job
  /\ \A r \in Run : /\ sweep[r].at \in Job \union {None}
                    /\ pc[r] \in {"create", "lock", "holder", "record", "prepare", "start", "run", "unlock"}
                         => sweep[r] = NoSweep /\ mine[r] \in Job
                    /\ pc[r] \in {"sweep", "create", "lock", "holder", "record", "unlock", "reap"} => Mutexed(r)

(***************************************************************************)
(* An adapter process always has its job, its material and its scratch,    *)
(* whichever sweeps of other invocations run beside it, and however its    *)
(* own invocation ended.                                                   *)
(***************************************************************************)
AdapterKeepsJob ==
  \A j \in adapter : Entry \subseteq disk[j] /\ j \in scratch

(***************************************************************************)
(* A job being claimed is nobody's to remove: its lock can be taken, and   *)
(* what the claim wrote stays.                                             *)
(***************************************************************************)
ClaimUndisturbed ==
  \A r \in Run :
    /\ pc[r] = "lock" => Sharing(mine[r]) = {} /\ {"directory", "lock"} \subseteq disk[mine[r]]
    /\ pc[r] \in {"prepare", "start"} => {"directory", "lock", "holder", "record"} \subseteq disk[mine[r]]

(***************************************************************************)
(* Bound material lies only where a sweep looks for it: whatever was       *)
(* killed part way, a job that holds material has its record.              *)
(***************************************************************************)
MaterialRecorded ==
  \A j \in Job : "material" \in disk[j] => {"record", "holder", "lock"} \subseteq disk[j]

(***************************************************************************)
(* What a sweep reports of a held job is true: the job is attributed, its  *)
(* processes are advised to be ended only once its invocation is no longer *)
(* one of them, and a live sibling of the same invocation never refuses.   *)
(***************************************************************************)
ReportSound ==
  \A r \in Run : sweep[r].step = "report" =>
    LET j == sweep[r].at
    IN /\ sweep[r].attributed
       /\ ~ sweep[r].alive => j \notin lockFd
       /\ j \in lockFd /\ j \in JobsOf(of[r]) => ~ Refusal(r)

(***************************************************************************)
(* No adapter of an apply or a destroy starts beside processes an ended    *)
(* invocation of its context left behind.                                  *)
(***************************************************************************)
NoneBesideTheLeft ==
  [][\A r \in Run, j \in Job :
       CreateJob(r, j) /\ of[r] \in exclusive =>
         \A k \in adapter : ContextOf[maker[k]] = ContextOf[of[r]] =>
           \E s \in Run : mine[s] = k /\ pc[s] = "run"]_vars
=============================================================================
