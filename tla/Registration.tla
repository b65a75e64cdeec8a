---------------------------- MODULE Registration ----------------------------
(***************************************************************************)
(* The context level of the engine: how concurrent invocations of apply    *)
(* and destroy register operations over one context, what they raise, hold *)
(* and give back (lifecycle/{registration,register_run,executor,           *)
(* finalization,settle}.go), and what the context guard reads of it.       *)
(*                                                                         *)
(* An invocation decides from a lock-free read, then works in transactions *)
(* that hold the context's lease exclusively; a lease somebody else holds  *)
(* refuses at once.  Secret bindings are made and released outside any     *)
(* transaction.  Every durable write is a step: it may land and be         *)
(* reported as failed, and the process may be killed between any two.      *)
(*                                                                         *)
(* The blocks of an operation are one block here.  Their records are       *)
(* OperationStore's subject and their order Scheduler's.                   *)
(***************************************************************************)
EXTENDS Reconciliation, Integers, FiniteSets

CONSTANTS
  Invocations,   \* the processes that run apply or destroy over the context
  MaxApplies,    \* bound on the fresh applies of a behaviour
  MaxFaults,     \* bound on its failed writes, failed blocks and kills
  MaxRevision    \* bound on the context's input revisions

Free == "free"   \* the holder of a lease nobody holds

ASSUME RegistrationAssumption ==
  /\ Free \notin Invocations
  /\ MaxApplies \in Nat /\ MaxFaults \in Nat /\ MaxRevision \in Nat

None == 0

\* Every registered removal follows an apply or a failed removal, and every
\* other identity a fault wasted.
MaxId == 2 * MaxApplies + 2 * MaxFaults

Id == 1..MaxId

Evidence == [operation : {"none", "pending", "failed", "unknown", "applied"},
             ownership : {"none", "retained"}]

PristineEvidence == [operation |-> "none", ownership |-> "none"]

(* EvidenceFor: only a completed destroy releases ownership. *)
EvidenceFor(verb, state) ==
  IF verb = "destroy" /\ state = "done" THEN PristineEvidence
  ELSE [operation |-> CASE state = "done"    -> "applied"
                        [] state = "failed"  -> "failed"
                        [] state = "unknown" -> "unknown"
                        [] OTHER             -> "pending",
        ownership |-> "retained"]

\* The running evidence, which is one record for both verbs.
Running == EvidenceFor("apply", "running")

(* The context guard's Check: what the evidence lets the context's owner do. *)
Guard(e) == [update  |-> e.operation \in {"none", "applied"},
             dispose |-> e = PristineEvidence]

Operation == [verb     : Verb,
              state    : {"running", "unknown", "failed", "done"},
              block    : {"pending", "running", "failed", "done"},  \* running: unproved
              root     : Id,       \* the apply whose binding and effects it holds
              planned  : 0..MaxRevision,    \* the revision its plan was compiled from
              revision : 0..MaxRevision]    \* the revision its record names

NoOperation == [verb |-> "none"]

Phase == {"idle", "view", "decide", "list", "protect", "raise", "open", "register", "reserve",
          "resolve", "record", "reproject", "announce", "plan", "operation", "index", "reraise", "reopen", "work",
          "working", "finish", "project", "complete", "pristine", "lower", "finalize", "settle",
          "release", "reclaim", "collect", "unbind", "restore"}

\* What a process that runs nothing remembers.
NoInvocation ==
  [verb |-> "none", kind |-> "none", finalized |-> FALSE, id |-> None, root |-> None,
   seen |-> [evidence |-> PristineEvidence, reserved |-> FALSE, revision |-> 0],
   basis |-> [id |-> None, record |-> NoOperation],
   held |-> {}, known |-> {}, claims |-> {}, raised |-> FALSE,
   block |-> "pending"]

VARIABLES
  \* durable
  evidence,    \* the context's mutation evidence
  index,       \* the operation the index names, None for none
  dir,         \* identity -> what its operation directory holds
  op,          \* identity -> its operation record
  reserved,    \* the controller record holds a reservation of this context
  bindings,    \* the Secret bindings the store holds, each named by its apply
  revision,    \* the input revision the context selects
  lease,       \* who holds the context's lease
  \* the hosts
  effects,     \* the applies whose effects may be on a host
  \* each invocation
  at, inv,
  \* bounds
  allocated,   \* the last operation identity handed out
  applies, faults

records == <<index, dir, op>>
holdings == <<reserved, bindings>>
vars == <<evidence, records, holdings, revision, lease, effects, at, inv, allocated, applies, faults>>

Init ==
  /\ evidence = PristineEvidence
  /\ index = None
  /\ dir = [i \in Id |-> "absent"]
  /\ op = [i \in Id |-> NoOperation]
  /\ reserved = FALSE /\ bindings = {}
  /\ revision = 0
  /\ lease = Free
  /\ effects = {}
  /\ at = [p \in Invocations |-> "idle"]
  /\ inv = [p \in Invocations |-> NoInvocation]
  /\ allocated = None /\ applies = 0 /\ faults = 0

-----------------------------------------------------------------------------
(* Helpers *)

Fault == faults < MaxFaults /\ faults' = faults + 1

\* What came of one durable write: it landed, it was lost, or it landed and
\* its writer was told that it failed.
Written == {"ok", "lost", "landed"}

Reported(r) == IF r = "ok" THEN UNCHANGED faults ELSE Fault

Becomes(r, old, new) == IF r = "lost" THEN old ELSE new

Claimed == {i \in Id : dir[i] # "absent"}

\* Reclaiming removes the directories that hold nothing, the current
\* operation's apart, or fails and refuses nothing.
Reclaim(d, keep) ==
  {d, [i \in Id |-> IF d[i] = "claim" /\ i # keep THEN "absent" ELSE d[i]]}

Current == IF index = None THEN NoOperation ELSE op[index]

Unhold(p) == lease' = IF lease = p THEN Free ELSE lease

To(p, phase, memory) ==
  /\ at' = [at EXCEPT ![p] = phase]
  /\ inv' = [inv EXCEPT ![p] = IF phase = "idle" THEN NoInvocation ELSE memory]

\* What a registered operation's invocation still needs of what it remembers.
Registered(p) ==
  [NoInvocation EXCEPT !.verb = inv[p].verb, !.kind = inv[p].kind, !.id = inv[p].id,
                       !.root = inv[p].root, !.held = inv[p].held]

FreshApply(p) == inv[p].kind = "fresh" /\ inv[p].verb = "apply"

(***************************************************************************)
(* unregistered: a registration that provably did not happen releases the  *)
(* binding this invocation made, then restores the evidence if it is this  *)
(* invocation's to give back.                                              *)
(***************************************************************************)
Unregistered(p, bound, memory) ==
  /\ To(p, IF bound THEN "unbind" ELSE IF memory.raised THEN "restore" ELSE "idle", memory)
  /\ Unhold(p)

-----------------------------------------------------------------------------
(* What a transaction proves before it writes *)

\* verifyBasis: the context holds exactly the records the decision read.
VerifyBasis(p) == index = inv[p].basis.id /\ Current = inv[p].basis.record

\* Mutant: the input is not read again.
VerifyFreshApplyBasis(p) == VerifyBasis(p)

\* verifyFreshApply: nor has the input its plan was compiled from changed.
VerifyFreshApply(p) == VerifyBasis(p) /\ revision = inv[p].seen.revision

\* Mutant: the evidence is taken for a token.
ReproveEvidence(p) == VerifyFreshApply(p) /\ evidence = Running

\* reprove: nor the running evidence, nor the directories listed after the claim.
Reprove(p) == VerifyFreshApply(p) /\ evidence = Running /\ Claimed = inv[p].claims

(***************************************************************************)
(* unindexed: beside no operation, evidence other than pristine or         *)
(* running, or a directory whose blocks have started.                      *)
(***************************************************************************)
Unindexed(e) ==
  \/ e \notin {PristineEvidence, Running}
  \/ \E i \in Id : op[i] # NoOperation /\ op[i].block # "pending"

\* What the transaction or Secret operation that phase p is about to begin
\* requires of the durable state.
Verified(p) ==
  CASE at[p] = "protect"                   -> VerifyFreshApply(p)
    [] at[p] = "register" /\ FreshApply(p) -> Reprove(p)
    [] at[p] = "register" /\ ~ FreshApply(p) -> VerifyBasis(p)
    [] at[p] \in {"finalize", "pristine"} -> VerifyBasis(p)
    [] at[p] = "release" -> /\ VerifyBasis(p) /\ evidence = inv[p].seen.evidence
                            /\ ~ Unindexed(evidence)
    [] at[p] = "open" /\ ~ FreshApply(p)   -> inv[p].root \in bindings
    [] OTHER -> TRUE

\* The phases that open a transaction or mutate the Secret store, all of which
\* a lease held by another refuses.
Entry == {"protect", "open", "register", "finalize", "release", "complete", "pristine",
          "restore", "reclaim", "unbind", "collect"}

-----------------------------------------------------------------------------
(* Deciding *)

(* An invocation begins; a destroy lists the bindings before it decides. *)
Start(p, v) ==
  /\ at[p] = "idle"
  /\ To(p, "view", [NoInvocation EXCEPT !.verb = v, !.held = IF v = "destroy" THEN bindings ELSE {}])
  /\ UNCHANGED <<evidence, records, holdings, revision, lease, effects, allocated, applies, faults>>

(* ReadLifecycle takes the root lock alone, so it may read in the middle of a transaction. *)
View(p) ==
  /\ at[p] = "view"
  /\ To(p, "decide", [inv[p] EXCEPT !.seen = [evidence |-> evidence, reserved |-> reserved,
                                              revision |-> revision]])
  /\ UNCHANGED <<evidence, records, holdings, revision, lease, effects, allocated, applies, faults>>

\* Mutant: a record that reads done is taken for a finalized one.
FinalizedRecord(seen, o) == TRUE

\* finalized: a completed operation whose projection and releases are complete.
Finalized(seen, o) ==
  /\ seen.evidence = EvidenceFor(o.verb, "done")
  /\ o.verb = "destroy" => ~ seen.reserved

\* The decision over a context that holds no operation.
DecideOverNone(v, seen) ==
  IF Unindexed(seen.evidence) THEN "refuse"
  ELSE IF v = "apply" THEN "fresh"
  ELSE IF seen.evidence = PristineEvidence /\ ~ seen.reserved THEN "settle"
  ELSE "release"

\* Mutant: an apply is admitted over an incomplete removal.
DecideOverIncomplete(v, seen, o) ==
  IF o.block = "done" /\ o.verb = v /\ o.state # "done" THEN "finalize"
  ELSE IF o.block = "done" /\ o.state = "done" /\ ~ Finalized(seen, o) THEN "finalize"
  ELSE IF v = "destroy" /\ (o.verb = "apply" \/ o.state = "failed") THEN "fresh"
  ELSE IF o.verb = v THEN IF o.state = "done" THEN "settle" ELSE "resume"
  ELSE "fresh"

\* The decision over operation o: finalization first, then classify.
DecideOver(v, seen, o) ==
  IF o.block = "done" /\ o.verb = v /\ o.state # "done" THEN "finalize"
  ELSE IF o.block = "done" /\ o.state = "done" /\ ~ Finalized(seen, o) THEN "finalize"
  ELSE IF v = "destroy" /\ (o.verb = "apply" \/ o.state = "failed") THEN "fresh"
  ELSE IF o.verb = v THEN IF o.state = "done" THEN "settle" ELSE "resume"
  ELSE IF o.state = "done" THEN "fresh"
  ELSE "refuse"

Decide(p) ==
  LET v    == inv[p].verb
      kind == IF index = None THEN DecideOverNone(v, inv[p].seen)
                              ELSE DecideOver(v, inv[p].seen, Current)
      memory == [inv[p] EXCEPT !.kind = kind,
                               !.basis = [id |-> index, record |-> Current],
                               !.seen = IF kind = "release" \/ (kind = "fresh" /\ v = "apply") THEN @
                                        ELSE NoInvocation.seen,
                               !.id = IF kind \in {"resume", "finalize"} THEN index ELSE None,
                               !.root = IF index = None \/ (kind = "fresh" /\ v = "apply") THEN None
                                        ELSE Current.root]
  IN /\ at[p] = "decide"
     /\ CASE kind = "fresh" /\ v = "apply" ->
               IF applies < MaxApplies THEN To(p, "list", memory) /\ applies' = applies + 1
                                       ELSE To(p, "idle", memory) /\ UNCHANGED applies
          [] (kind = "fresh" /\ v = "destroy") \/ kind = "release" -> To(p, "list", memory) /\ UNCHANGED applies
          [] kind = "finalize" ->
               /\ To(p, IF inv[p].finalized THEN "idle"
                        ELSE IF Current.verb = "destroy" THEN "list" ELSE "finalize", memory)
               /\ UNCHANGED applies
          [] kind = "resume" -> To(p, "open", memory) /\ UNCHANGED applies
          [] kind = "settle" ->
               /\ To(p, IF v = "apply" THEN "idle" ELSE "reclaim",
                     [memory EXCEPT !.held = IF inv[p].finalized THEN {} ELSE @])
               /\ UNCHANGED applies
          [] kind = "refuse" -> To(p, "idle", memory) /\ UNCHANGED applies
     /\ UNCHANGED <<evidence, records, holdings, revision, lease, effects, allocated, faults>>

(* held: the bindings the context holds before the first transaction. *)
List(p) ==
  /\ at[p] = "list"
  /\ To(p, IF inv[p].kind # "fresh" THEN inv[p].kind ELSE IF FreshApply(p) THEN "protect" ELSE "open",
        [inv[p] EXCEPT !.held = bindings])
  /\ UNCHANGED <<evidence, records, holdings, revision, lease, effects, allocated, applies, faults>>

(***************************************************************************)
(* A transaction or a Secret operation that finds the lease held, or the   *)
(* state it was decided from changed.                                      *)
(***************************************************************************)
TurnedAway(p) ==
  /\ at[p] \in Entry
  /\ lease # p
  /\ lease # Free \/ ~ Verified(p)
  /\ CASE at[p] \in {"protect", "open"} -> Unregistered(p, FALSE, inv[p])
       [] at[p] = "register" -> Unregistered(p, FreshApply(p), inv[p])
       [] at[p] = "unbind"   -> Unregistered(p, FALSE, inv[p])
       [] at[p] = "reclaim"  -> To(p, "collect", inv[p]) /\ UNCHANGED lease
       [] at[p] = "collect"  ->
            /\ inv[p].held # {}
            /\ \E b \in inv[p].held : To(p, "collect", [inv[p] EXCEPT !.held = @ \ {b}])
            /\ UNCHANGED lease
       [] OTHER -> To(p, "idle", inv[p]) /\ UNCHANGED lease
  /\ UNCHANGED <<evidence, records, holdings, revision, effects, allocated, applies, faults>>


-----------------------------------------------------------------------------
(* A fresh apply protects, then binds *)

(* protect: the claim of the operation's directory ... *)
Claim(p) ==
  LET id == allocated + 1
  IN /\ at[p] = "protect" /\ lease = Free /\ Verified(p)
     /\ id \in Id /\ allocated' = id
     /\ \E r \in Written : \E raised \in IF r = "lost" THEN BOOLEAN ELSE {TRUE} :
          LET memory == [inv[p] EXCEPT !.id = id, !.root = id, !.known = Claimed \union {id},
                                       !.raised = raised]
          IN /\ Reported(r)
             /\ dir' = [dir EXCEPT ![id] = Becomes(r, "absent", "claim")]
             /\ IF r = "ok" THEN To(p, "raise", memory) /\ lease' = p
                            ELSE Unregistered(p, FALSE, memory)
     /\ UNCHANGED <<evidence, index, op, holdings, revision, effects, applies>>

(* ... and the running evidence, unless the context already reads so. *)
Raise(p) ==
  /\ at[p] = "raise"
  /\ \E r \in IF evidence = Running THEN {"ok"} ELSE Written :
       /\ Reported(r)
       /\ evidence' = Becomes(r, evidence, Running)
       /\ IF r = "ok" THEN To(p, "open", [inv[p] EXCEPT !.claims = Claimed]) /\ Unhold(p)
                      ELSE Unregistered(p, FALSE, inv[p])
  /\ UNCHANGED <<records, holdings, revision, effects, allocated, applies>>

(***************************************************************************)
(* bind: a fresh apply binds its Secrets and reopens them, any other       *)
(* transition reopens the binding its operation names.  A Bind that failed *)
(* names no binding to give back, even one that landed.                    *)
(***************************************************************************)
Open(p) ==
  /\ at[p] = "open" /\ lease = Free /\ Verified(p)
  /\ \E r \in IF FreshApply(p) THEN Written ELSE {"ok"} : \E reopened \in BOOLEAN :
       /\ bindings' = IF FreshApply(p) THEN Becomes(r, bindings, bindings \union {inv[p].id})
                                       ELSE bindings
       /\ IF r = "ok" /\ reopened THEN To(p, "register", inv[p]) /\ UNCHANGED <<faults, lease>>
                                  ELSE Fault /\ Unregistered(p, r = "ok" /\ FreshApply(p), inv[p])
  /\ UNCHANGED <<evidence, records, reserved, revision, effects, allocated, applies>>

-----------------------------------------------------------------------------
(* The registering transaction *)

(* Once its re-proof holds, the transaction goes the way of its transition. *)
Register(p) ==
  /\ at[p] = "register" /\ lease = Free /\ Verified(p)
  /\ lease' = p
  /\ IF inv[p].kind = "fresh"
     THEN To(p, IF FreshApply(p) THEN "reserve"
                ELSE IF Unproved(Current.block) THEN "resolve" ELSE "announce", inv[p])
     ELSE To(p, "reraise", [inv[p] EXCEPT !.known = Claimed])
  /\ UNCHANGED <<evidence, records, holdings, revision, effects, allocated, applies, faults>>

(* reserve: a fresh apply's host reservations. *)
Reserve(p) ==
  /\ at[p] = "reserve"
  /\ \E r \in Written :
       /\ Reported(r)
       /\ reserved' = Becomes(r, reserved, TRUE)
       /\ IF r = "ok" THEN To(p, "plan", inv[p]) /\ UNCHANGED lease
                      ELSE Unregistered(p, TRUE, inv[p])
  /\ UNCHANGED <<evidence, records, bindings, revision, effects, allocated, applies>>

\* What an observation can prove of an unproved block: an apply completed only
\* if its effect is there, a removal only if it is gone.
Observable(o) ==
  {"failed"} \union IF (o.verb = "apply") <=> (o.root \in effects) THEN {"done"} ELSE {}

(***************************************************************************)
(* resolveMember: a failed apply first takes the state its blocks give it; *)
(* then the unproved block of the superseded operation is observed.  An    *)
(* observation that proves nothing refuses the removal, and is the lost    *)
(* write of its block.                                                     *)
(***************************************************************************)
Resolve(p) ==
  /\ at[p] = "resolve"
  /\ \E r \in Written :
       /\ Reported(r)
       /\ IF Current.verb = "apply" /\ Current.state = "failed"
          THEN /\ op' = [op EXCEPT ![index].state = Becomes(r, @, "running")]
               /\ IF r = "ok" THEN To(p, "reproject", inv[p]) /\ UNCHANGED lease
                              ELSE Unregistered(p, FALSE, inv[p])
          ELSE /\ \E b \in Observable(Current) : op' = [op EXCEPT ![index].block = Becomes(r, @, b)]
               /\ IF r = "ok" THEN To(p, "record", inv[p]) /\ UNCHANGED lease
                              ELSE Unregistered(p, FALSE, inv[p])
  /\ UNCHANGED <<evidence, index, dir, holdings, revision, effects, allocated, applies>>

(* recordFromBlocks: the superseded operation takes the state its blocks give it ... *)
Record(p) ==
  LET next == NextOperationState({Current.block}, FALSE)
  IN /\ at[p] = "record"
     /\ \E r \in IF next = Current.state THEN {"ok"} ELSE Written :
          /\ Reported(r)
          /\ op' = [op EXCEPT ![index].state = Becomes(r, @, next)]
          /\ IF r = "ok"
             THEN /\ To(p, IF next = Current.state THEN "announce" ELSE "reproject", inv[p])
                  /\ UNCHANGED lease
             ELSE Unregistered(p, FALSE, inv[p])
     /\ UNCHANGED <<evidence, index, dir, holdings, revision, effects, allocated, applies>>

(* ... and projects it. *)
Reproject(p) ==
  /\ at[p] = "reproject"
  /\ \E r \in Written :
       /\ Reported(r)
       /\ evidence' = Becomes(r, evidence, EvidenceFor(Current.verb, Current.state))
       /\ IF r = "ok"
          THEN /\ To(p, IF Unproved(Current.block) THEN "resolve" ELSE "announce", inv[p])
               /\ UNCHANGED lease
          ELSE Unregistered(p, FALSE, inv[p])
  /\ UNCHANGED <<records, holdings, revision, effects, allocated, applies>>

(* A fresh removal surveys, allocates and raises in the registering transaction. *)
Announce(p) ==
  LET id == allocated + 1
      memory == [inv[p] EXCEPT !.id = id, !.known = Claimed \union {id}, !.raised = evidence # Running]
  IN /\ at[p] = "announce"
     /\ id \in Id /\ allocated' = id
     /\ \E r \in IF evidence = Running THEN {"ok"} ELSE Written :
          /\ Reported(r)
          /\ evidence' = Becomes(r, evidence, Running)
          /\ IF r = "ok" THEN To(p, "plan", memory) /\ UNCHANGED lease
                         ELSE Unregistered(p, FALSE, memory)
     /\ UNCHANGED <<records, holdings, revision, effects, applies>>

(***************************************************************************)
(* publish over a Register that failed: an index read back that does not   *)
(* name the operation proves nothing was registered; one that names it, or *)
(* that cannot be read, keeps everything.                                  *)
(***************************************************************************)
Unpublished(p, landed) ==
  \/ ~ landed /\ Unregistered(p, FreshApply(p), inv[p])
  \/ To(p, "idle", inv[p]) /\ Unhold(p)

(* Register writes the directory and its frozen plan, ... *)
WritePlan(p) ==
  /\ at[p] = "plan"
  /\ \E d \in {dir[inv[p].id], "claim", "plan"} :
       /\ dir' = [dir EXCEPT ![inv[p].id] = d]
       /\ \/ d = "plan" /\ To(p, "operation", inv[p]) /\ UNCHANGED <<faults, lease>>
          \/ Fault /\ Unpublished(p, FALSE)
  /\ UNCHANGED <<evidence, index, op, holdings, revision, effects, allocated, applies>>

(* ... then the operation, running with nothing started, ... *)
WriteOperation(p) ==
  /\ at[p] = "operation"
  /\ \E r \in Written :
       /\ Reported(r)
       /\ dir' = [dir EXCEPT ![inv[p].id] = Becomes(r, @, "operation")]
       /\ op' = [op EXCEPT ![inv[p].id] = Becomes(r, @,
                   [verb |-> inv[p].verb, state |-> "running", block |-> "pending", root |-> inv[p].root,
                    planned  |-> IF FreshApply(p) THEN inv[p].seen.revision ELSE Current.planned,
                    revision |-> revision])]
       /\ IF r = "ok" THEN To(p, "index", inv[p]) /\ UNCHANGED lease ELSE Unpublished(p, FALSE)
  /\ UNCHANGED <<evidence, index, holdings, revision, effects, allocated, applies>>

(* ... then the index that names it; a registration that landed reclaims. *)
WriteIndex(p) ==
  /\ at[p] = "index"
  /\ \E r \in Written :
       /\ Reported(r)
       /\ index' = Becomes(r, index, inv[p].id)
       /\ IF r = "ok" THEN /\ dir' \in Reclaim(dir, inv[p].id)
                           /\ To(p, "work", Registered(p)) /\ UNCHANGED lease
                      ELSE Unpublished(p, r = "landed") /\ UNCHANGED dir
  /\ UNCHANGED <<evidence, op, holdings, revision, effects, allocated, applies>>

(* resume: the running evidence is raised before the operation is marked running. *)
Reraise(p) ==
  LET memory == [inv[p] EXCEPT !.raised = evidence # Running]
  IN /\ at[p] = "reraise"
     /\ \E r \in IF evidence = Running THEN {"ok"} ELSE Written :
          /\ Reported(r)
          /\ evidence' = Becomes(r, evidence, Running)
          /\ IF r = "ok" THEN To(p, "reopen", memory) /\ UNCHANGED lease
                         ELSE Unregistered(p, FALSE, memory)
     /\ UNCHANGED <<records, holdings, revision, effects, allocated, applies>>

Reopen(p) ==
  /\ at[p] = "reopen"
  /\ \E r \in IF Current.state = "running" THEN {"ok"} ELSE Written :
       /\ Reported(r)
       /\ op' = [op EXCEPT ![index].state = Becomes(r, @, "running")]
       /\ IF r = "ok" THEN To(p, "work", Registered(p)) /\ UNCHANGED lease
                      ELSE Unregistered(p, FALSE, inv[p])
  /\ UNCHANGED <<evidence, index, dir, holdings, revision, effects, allocated, applies>>

-----------------------------------------------------------------------------
(* The work, and what the transaction records of it *)

(***************************************************************************)
(* converge over the one block: an unproved block is observed first, any   *)
(* other is attempted.  A block whose start or resolution failed is read   *)
(* again (durable), and is unknown where it cannot be.                     *)
(***************************************************************************)
Work(p) ==
  LET o == op[inv[p].id]
  IN /\ at[p] = "work"
     /\ IF Unproved(o.block)
        THEN \/ \E b \in Observable(o) :
                  /\ op' = [op EXCEPT ![inv[p].id].block = b]
                  /\ To(p, IF b = "done" THEN "finish" ELSE "work", [inv[p] EXCEPT !.block = b])
                  /\ UNCHANGED <<faults, effects>>
             \/ \E b \in {"running", "unknown"} :
                  /\ Fault /\ To(p, "finish", [inv[p] EXCEPT !.block = b])
                  /\ UNCHANGED <<op, effects>>
        ELSE \E r \in Written :
               /\ Reported(r)
               /\ op' = [op EXCEPT ![inv[p].id].block = Becomes(r, @, "running")]
               /\ IF r = "ok"
                  THEN /\ To(p, "working", inv[p])
                       /\ effects' = IF o.verb = "apply" THEN effects \union {o.root} ELSE effects
                  ELSE /\ \E b \in {Becomes(r, o.block, "running"), "unknown"} :
                            To(p, "finish", [inv[p] EXCEPT !.block = b])
                       /\ UNCHANGED effects
     /\ UNCHANGED <<evidence, index, dir, holdings, revision, lease, allocated, applies>>

(* The attempt settles; one whose record could not be completed is unknown. *)
Settle(p) ==
  LET o == op[inv[p].id]
      removed == IF o.verb = "destroy" THEN effects \ {o.root} ELSE effects
  IN /\ at[p] = "working"
     /\ \/ /\ op' = [op EXCEPT ![inv[p].id].block = "done"] /\ effects' = removed
           /\ To(p, "finish", [inv[p] EXCEPT !.block = "done"])
           /\ UNCHANGED faults
        \/ /\ Fault
           /\ o.verb = "destroy" => o.root \in effects
           /\ effects' \in {effects, removed}
           /\ \/ /\ op' = [op EXCEPT ![inv[p].id].block = "failed"]
                 /\ To(p, "finish", [inv[p] EXCEPT !.block = "failed"])
              \/ /\ UNCHANGED op
                 /\ To(p, "finish", [inv[p] EXCEPT !.block = "unknown"])
     /\ UNCHANGED <<evidence, index, dir, holdings, revision, lease, allocated, applies>>

\* What follows the transaction that settled an operation, completed removals
\* apart: a fresh transition collects what it found held and does not keep.
Leave(p) ==
  /\ Unhold(p)
  /\ IF inv[p].kind = "fresh" THEN To(p, "collect", [Registered(p) EXCEPT !.held = @ \ {inv[p].root}])
                              ELSE To(p, "idle", inv[p])

(* finish: the operation takes the state its blocks give it, ... *)
Finish(p) ==
  /\ at[p] = "finish"
  /\ \E r \in Written :
       /\ Reported(r)
       /\ op' = [op EXCEPT ![inv[p].id].state = Becomes(r, @, NextOperationState({inv[p].block}, FALSE))]
       /\ IF r = "ok" THEN To(p, "project", Registered(p)) /\ UNCHANGED lease ELSE Leave(p)
  /\ UNCHANGED <<evidence, index, dir, holdings, revision, effects, allocated, applies>>

(***************************************************************************)
(* ... and a completed removal releases the reservations, its pristine     *)
(* evidence following its bindings; any other projects its state.          *)
(***************************************************************************)
Project(p) ==
  LET o == op[inv[p].id]
  IN /\ at[p] = "project"
     /\ \E r \in Written :
          /\ Reported(r)
          /\ IF o.verb = "destroy" /\ o.state = "done"
             THEN /\ reserved' = Becomes(r, reserved, FALSE)
                  /\ UNCHANGED evidence
                  /\ IF r = "ok" THEN /\ To(p, "complete", [inv[p] EXCEPT !.basis = [id |-> inv[p].id, record |-> o]])
                                      /\ Unhold(p)
                                 ELSE Leave(p)
             ELSE /\ evidence' = Becomes(r, evidence, EvidenceFor(o.verb, o.state))
                  /\ UNCHANGED reserved
                  /\ Leave(p)
     /\ UNCHANGED <<records, bindings, revision, effects, allocated, applies>>

-----------------------------------------------------------------------------
(* Completion, finalization and what a destroy of nothing gives back *)

(* finalize: the record takes the state its blocks prove, ... *)
Finalize(p) ==
  /\ at[p] = "finalize" /\ lease = Free /\ Verified(p)
  /\ \E r \in IF Current.state = "done" THEN {"ok"} ELSE Written :
       /\ Reported(r)
       /\ op' = [op EXCEPT ![index].state = Becomes(r, @, "done")]
       /\ IF r = "ok" THEN To(p, "settle", inv[p]) /\ lease' = p
                      ELSE To(p, "idle", inv[p]) /\ UNCHANGED lease
  /\ UNCHANGED <<evidence, index, dir, holdings, revision, effects, allocated, applies>>

(* ... an apply's evidence follows and the verb decides again; a removal releases its reservations. *)
SettleFinal(p) ==
  /\ at[p] = "settle"
  /\ Unhold(p)
  /\ IF Current.verb = "apply"
     THEN \E r \in Written :
            /\ Reported(r)
            /\ evidence' = Becomes(r, evidence, EvidenceFor("apply", "done"))
            /\ To(p, IF r = "ok" THEN "view" ELSE "idle",
                  [NoInvocation EXCEPT !.verb = inv[p].verb, !.finalized = TRUE])
            /\ UNCHANGED reserved
     ELSE \E r \in IF reserved THEN Written ELSE {"ok"} :
            /\ Reported(r)
            /\ reserved' = Becomes(r, reserved, FALSE)
            /\ To(p, IF r = "ok" THEN "complete" ELSE "idle",
                  [inv[p] EXCEPT !.basis = [id |-> index, record |-> Current]])
            /\ UNCHANGED evidence
  /\ UNCHANGED <<records, bindings, revision, effects, allocated, applies>>

(* completeRemoval gives the binding back outside any transaction, ... *)
Complete(p) ==
  /\ at[p] = "complete" /\ lease = Free
  /\ \E r \in Written :
       /\ Reported(r)
       /\ bindings' = Becomes(r, bindings, bindings \ {inv[p].root})
       /\ To(p, IF r = "ok" THEN "pristine" ELSE "idle", inv[p])
  /\ UNCHANGED <<evidence, records, reserved, revision, lease, effects, allocated, applies>>

(* ... then, as releaseUnclaimed does, proves its basis again and releases what is reserved, ... *)
GiveBack(p) ==
  /\ at[p] \in {"pristine", "release"} /\ lease = Free /\ Verified(p)
  /\ \E r \in IF reserved THEN Written ELSE {"ok"} :
       /\ Reported(r)
       /\ reserved' = Becomes(r, reserved, FALSE)
       /\ IF r = "ok" THEN To(p, "lower", inv[p]) /\ lease' = p
                      ELSE To(p, "idle", inv[p]) /\ UNCHANGED lease
  /\ UNCHANGED <<evidence, records, bindings, revision, effects, allocated, applies>>

(* ... and publishes pristine evidence, which reclaims. *)
Lower(p) ==
  /\ at[p] = "lower"
  /\ Unhold(p)
  /\ \E r \in Written :
       /\ Reported(r)
       /\ evidence' = Becomes(r, evidence, PristineEvidence)
       /\ dir' \in IF r = "ok" THEN Reclaim(dir, index) ELSE {dir}
       /\ To(p, IF r = "ok" /\ inv[p].kind # "resume" THEN "collect" ELSE "idle",
             [Registered(p) EXCEPT !.held = @ \ {inv[p].root}])
  /\ UNCHANGED <<index, op, holdings, revision, effects, allocated, applies>>

(* reclaimIdle: a destroy that settles beside a claim that holds nothing. *)
ReclaimIdle(p) ==
  /\ at[p] = "reclaim" /\ lease = Free
  /\ dir' \in IF evidence = PristineEvidence THEN Reclaim(dir, index) ELSE {dir}
  /\ To(p, "collect", Registered(p))
  /\ UNCHANGED <<evidence, index, op, holdings, revision, lease, effects, allocated, applies, faults>>

(* collect: each binding found held and not kept; a finalization decides again after it. *)
Collect(p) ==
  /\ at[p] = "collect"
  /\ IF inv[p].held = {}
     THEN /\ To(p, IF inv[p].kind = "finalize" THEN "view" ELSE "idle",
                [NoInvocation EXCEPT !.verb = inv[p].verb, !.finalized = TRUE])
          /\ UNCHANGED <<bindings, faults>>
     ELSE LET b == CHOOSE b \in inv[p].held : \A c \in inv[p].held : b <= c
          IN /\ lease = Free
             /\ \E r \in {"ok", "lost"} :
                  /\ Reported(r)
                  /\ bindings' = Becomes(r, bindings, bindings \ {b})
             /\ To(p, "collect", [inv[p] EXCEPT !.held = @ \ {b}])
  /\ UNCHANGED <<evidence, records, reserved, revision, lease, effects, allocated, applies>>

-----------------------------------------------------------------------------
(* What a registration that did not happen gives back *)

(* A release that fails leaves the binding for the next collection. *)
Unbind(p) ==
  /\ at[p] = "unbind" /\ lease = Free
  /\ \E r \in {"ok", "lost"} :
       /\ Reported(r)
       /\ bindings' = Becomes(r, bindings, bindings \ {inv[p].id})
  /\ Unregistered(p, FALSE, inv[p])
  /\ UNCHANGED <<evidence, records, reserved, revision, effects, allocated, applies>>

\* Mutant: a reservation no operation owns is overlooked.
KeepsRunningNever(p) == ~ (Claimed \subseteq inv[p].known)

\* A newer claim took the evidence, or a reservation no operation owns keeps it.
KeepsRunning(p) ==
  \/ ~ (Claimed \subseteq inv[p].known)
  \/ /\ index = None \/ (Current.verb = "destroy" /\ Current.state = "done")
     /\ reserved

(* restoreEvidence: the evidence the index implies now. *)
RestoreEvidence(p) ==
  LET implied == IF index = None THEN PristineEvidence ELSE EvidenceFor(Current.verb, Current.state)
  IN /\ at[p] = "restore" /\ lease = Free
     /\ IF KeepsRunning(p) THEN UNCHANGED <<evidence, dir, faults>>
        ELSE \E r \in IF evidence = implied THEN {"ok"} ELSE Written :
               /\ Reported(r)
               /\ evidence' = Becomes(r, evidence, implied)
               /\ dir' \in IF r = "ok" /\ implied = PristineEvidence THEN Reclaim(dir, index) ELSE {dir}
     /\ To(p, "idle", inv[p])
     /\ UNCHANGED <<index, op, holdings, revision, lease, effects, allocated, applies>>

-----------------------------------------------------------------------------
(* A kill, and the context's owner *)

(* The process is killed; the system releases its lock. *)
Crash(p) ==
  /\ at[p] # "idle"
  /\ Fault
  /\ To(p, "idle", inv[p]) /\ Unhold(p)
  /\ UNCHANGED <<evidence, records, holdings, revision, effects, allocated, applies>>

(* context update: a new input revision, under the lease, where the guard admits it. *)
Update ==
  /\ lease = Free
  /\ Guard(evidence).update
  /\ revision < MaxRevision /\ revision' = revision + 1
  /\ UNCHANGED <<evidence, records, holdings, lease, effects, at, inv, allocated, applies, faults>>

Step(p) ==
  \/ View(p) \/ Decide(p) \/ List(p) \/ TurnedAway(p)
  \/ Claim(p) \/ Raise(p) \/ Open(p)
  \/ Register(p) \/ Reserve(p) \/ Resolve(p) \/ Record(p) \/ Reproject(p) \/ Announce(p)
  \/ WritePlan(p) \/ WriteOperation(p) \/ WriteIndex(p) \/ Reraise(p) \/ Reopen(p)
  \/ Work(p) \/ Settle(p) \/ Finish(p) \/ Project(p)
  \/ Finalize(p) \/ SettleFinal(p) \/ Complete(p) \/ GiveBack(p) \/ Lower(p)
  \/ ReclaimIdle(p) \/ Collect(p) \/ Unbind(p) \/ RestoreEvidence(p)

Next ==
  \/ \E p \in Invocations : Step(p) \/ Crash(p) \/ \E v \in Verb : Start(p, v)
  \/ Update

Spec == Init /\ [][Next]_vars

(***************************************************************************)
(* An invocation that runs keeps running, and an operator repeats the      *)
(* destroy.  Faults and applies are bounded, so both end.                  *)
(***************************************************************************)
Fairness ==
  \A p \in Invocations : WF_vars(Step(p)) /\ SF_vars(Start(p, "destroy"))

LiveSpec == Spec /\ Fairness

-----------------------------------------------------------------------------
(* Properties *)

(* Every variable has its type. *)
TypeOK ==
  /\ evidence \in Evidence
  /\ index \in Id \union {None}
  /\ dir \in [Id -> {"absent", "claim", "plan", "operation"}]
  /\ op \in [Id -> Operation \union {NoOperation}]
  /\ reserved \in BOOLEAN /\ bindings \subseteq Id
  /\ revision \in 0..MaxRevision
  /\ lease \in Invocations \union {Free}
  /\ effects \subseteq Id
  /\ at \in [Invocations -> Phase]
  /\ allocated \in Id \union {None}

(***************************************************************************)
(* Where the evidence lets the context be deleted, no host holds an effect *)
(* of it, no operation of it is unfinished, and no reservation stands that *)
(* no operation accounts for: deleting it abandons nothing                 *)
(* (registration.go: restoreEvidence, unclaimed; attempts.go: finish).     *)
(***************************************************************************)
DisposalSafe ==
  Guard(evidence).dispose =>
    /\ effects = {}
    /\ IF index = None THEN ~ reserved ELSE Current.verb = "destroy" /\ Current.state = "done"

(***************************************************************************)
(* The operation the index names, unless a completed removal, holds the    *)
(* Secret binding and the reservation its effects need to be taken back:   *)
(* no concurrent invocation collects, releases or restores them away.      *)
(***************************************************************************)
HoldingsKept ==
  index # None /\ ~ (Current.verb = "destroy" /\ Current.block = "done") =>
    Current.root \in bindings /\ reserved

(***************************************************************************)
(* Every effect on a host is reached from the operation the index names:   *)
(* no registration replaces an operation whose effects it does not own.    *)
(***************************************************************************)
EffectsOwned ==
  \A e \in effects : index # None /\ Current.root = e

(***************************************************************************)
(* An apply's record names the revision its plan was compiled from, and    *)
(* while it is unfinished no update moves the context's input under it.    *)
(***************************************************************************)
InputFrozen ==
  /\ \A i \in Id : op[i] # NoOperation /\ op[i].verb = "apply" => op[i].planned = op[i].revision
  /\ index # None /\ Current.verb = "apply" /\ Current.state # "done" => Current.revision = revision

(***************************************************************************)
(* Once faults and applies end, a repeated destroy leaves a context that   *)
(* can be deleted and holds nothing: no effect, reservation or binding,    *)
(* whatever was interrupted where.                                         *)
(***************************************************************************)
Recovers ==
  <>[](evidence = PristineEvidence /\ ~ reserved /\ bindings = {} /\ effects = {})
=============================================================================
