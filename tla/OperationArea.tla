---------------------------- MODULE OperationArea ----------------------------
(***************************************************************************)
(* The bounds of a context's operation area: how operations and attempts   *)
(* are admitted against its entries, with every attempt in flight counted, *)
(* so that an apply it admitted can always be taken back                   *)
(* (operationstore/{store,records}.go).                                    *)
(*                                                                         *)
(* An entry is a directory or a record.  An operation holds seven of its   *)
(* own and a block six after its first attempt, of which three are made    *)
(* once.  Bytes are bounded the same way and are left out.                 *)
(***************************************************************************)
EXTENDS Reconciliation, Integers, FiniteSets

CONSTANTS
  MaxEntries, MaxOperations,   \* the bounds of the area
  ReservedEntries,             \* what an apply is admitted with for later attempts
  MaxBlocks,                   \* bound on the blocks of a plan
  Interruptions                \* bound on registrations stopped part way

ASSUME AreaAssumption ==
  /\ MaxEntries \in Nat /\ MaxOperations \in Nat /\ ReservedEntries \in Nat
  /\ MaxBlocks \in Nat /\ Interruptions \in Nat

AttemptEntries == 6

FirstPassEntries(n) == 7 + 6 * n

\* Mutant: an apply is admitted with room for its own first pass alone.
AdmissionEntriesOwn(verb, n) ==
  IF verb = "destroy" THEN FirstPassEntries(n) + 1 ELSE FirstPassEntries(n) + ReservedEntries

\* An apply needs its removal's first pass beside its own.
AdmissionEntries(verb, n) ==
  IF verb = "destroy" THEN FirstPassEntries(n) + 1 ELSE 2 * FirstPassEntries(n) + ReservedEntries

\* Mutant: no directory is kept for the removal.
AdmissionOperationsOwn(verb) == 1

AdmissionOperations(verb) == IF verb = "destroy" THEN 1 ELSE 2

Block == 1..MaxBlocks

VARIABLES
  held,          \* the entries the area holds
  retained,      \* the operation directories among them
  claims,        \* those that hold nothing
  indexed,       \* the index exists
  verb,          \* of the operation the index names, "none" for none
  blocks,        \* of its plan
  state,         \* each block's
  made,          \* each block's directories and record, at most three
  logged,        \* its logs/blocks exists
  own,           \* of each attempt in flight: the entries of its own it may still make
  resolving,     \* a removal resolves the apply's blocks before it registers
  resolved,      \* one did
  repeated,      \* an attempt of a block that holds records already was admitted
  stopped,       \* a removal of the apply was stopped as it registered
  interruptions

operation == <<verb, blocks>>
vars == <<held, retained, claims, indexed, operation, state, made, logged, own, resolving, resolved,
          repeated, stopped, interruptions>>

InFlight == DOMAIN own

Init ==
  /\ held = 0 /\ retained = 0 /\ claims = 0
  /\ indexed = FALSE
  /\ verb = "none" /\ blocks = {}
  /\ state = [b \in Block |-> "pending"] /\ made = [b \in Block |-> 0]
  /\ logged = FALSE
  /\ own = <<>>
  /\ resolving = FALSE /\ resolved = FALSE /\ repeated = FALSE /\ stopped = FALSE
  /\ interruptions = 0

-----------------------------------------------------------------------------
(* Registering *)

Done == blocks # {} /\ \A b \in blocks : state[b] = "done"

\* admitOperations and admit: the area retains and holds what the operation needs.
Admitted(v, n) ==
  /\ retained + AdmissionOperations(v) <= MaxOperations
  /\ held + AdmissionEntries(v, n) <= MaxEntries

\* An operation registers: its directory, blocks/, logs/, plan, record and log,
\* and the index if there is none.  Every claim that holds nothing then goes.
Registered(v, plan) ==
  /\ held' = held + 6 + (IF indexed THEN 0 ELSE 1) - 3 * claims
  /\ retained' = retained + 1 - claims
  /\ claims' = 0
  /\ indexed' = TRUE
  /\ verb' = v /\ blocks' = plan
  /\ state' = [b \in Block |-> "pending"] /\ made' = [b \in Block |-> 0]
  /\ logged' = FALSE /\ resolving' = FALSE /\ resolved' = FALSE /\ repeated' = FALSE

\* The evidence reads pristine: there is no operation, or a completed removal.
Pristine == verb = "none" \/ (verb = "destroy" /\ Done)

(* A fresh apply, over no operation or a completed removal. *)
RegisterApply ==
  /\ Pristine /\ own = <<>>
  /\ \E n \in 1..MaxBlocks : Admitted("apply", n) /\ Registered("apply", 1..n)
  /\ stopped' = FALSE
  /\ UNCHANGED <<own, interruptions>>

\* What the removal of the current apply takes back: its whole plan once it is
\* done, else what it started.
Removed == IF Done THEN blocks ELSE {b \in blocks : made[b] # 0}

(* Its removal, once every block's outcome is proved. *)
RegisterRemoval ==
  /\ verb = "apply" /\ resolving /\ own = <<>> /\ Removed # {}
  /\ \A b \in blocks : ~ Unproved(state[b])
  /\ Admitted("destroy", Cardinality(Removed))
  /\ Registered("destroy", Removed)
  /\ UNCHANGED <<own, stopped, interruptions>>

\* A registration stopped part way leaves a claim that holds nothing, or a
\* directory with its plan, or with its record too, that no index names.
Interrupted ==
  /\ interruptions < Interruptions /\ interruptions' = interruptions + 1
  /\ retained' = retained + 1
  /\ \/ held' = held + 3 /\ claims' = claims + 1
     \/ (\E e \in {4, 5} : held' = held + e) /\ UNCHANGED claims
  /\ UNCHANGED <<indexed, operation, state, made, logged, own, resolved, repeated>>

(* An apply's registration is stopped. *)
ApplyStopped ==
  /\ Pristine /\ own = <<>> /\ \E n \in 1..MaxBlocks : Admitted("apply", n)
  /\ Interrupted
  /\ UNCHANGED <<resolving, stopped>>

(* A removal's is. *)
RemovalStopped ==
  /\ verb = "apply" /\ resolving /\ own = <<>> /\ Removed # {}
  /\ \A b \in blocks : ~ Unproved(state[b])
  /\ Admitted("destroy", Cardinality(Removed))
  /\ Interrupted
  /\ resolving' = FALSE /\ stopped' = TRUE

(* Reclaim, by a destroy that settles or publishes pristine evidence: every claim that holds nothing goes. *)
Reclaim ==
  /\ Pristine /\ claims > 0 /\ own = <<>>
  /\ claims' = 0 /\ retained' = retained - claims /\ held' = held - 3 * claims
  /\ UNCHANGED <<indexed, operation, state, made, logged, own, resolving, resolved, repeated, stopped,
                 interruptions>>

-----------------------------------------------------------------------------
(* Attempts and resolutions *)

Running == Cardinality(InFlight) + 1

\* resolutions: the blocks a removal of this apply might have to resolve first.
Resolutions(b) == Cardinality({b} \union InFlight \union {c \in blocks : Unproved(state[c])})

\* Mutant: a removal's attempts in flight are not counted.
AttemptAdmittedAlone(b) ==
  LET reserve == AdmissionEntries("destroy", Cardinality(blocks))
  IN CASE verb = "destroy" -> held + AttemptEntries + 1 <= MaxEntries
       [] resolving        -> held + Running * AttemptEntries + 1 + reserve <= MaxEntries
       [] OTHER            -> held + Running * AttemptEntries + reserve
                                + Resolutions(b) * AttemptEntries <= MaxEntries

(***************************************************************************)
(* AdmitAttempt: what every attempt in flight may write fits, beside the   *)
(* removal's reserve while the operation is an apply, and beside one       *)
(* resolution of every block that may need it while the apply still runs.  *)
(***************************************************************************)
AttemptAdmitted(b) ==
  LET reserve == AdmissionEntries("destroy", Cardinality(blocks))
  IN CASE verb = "destroy" -> held + Running * AttemptEntries + 1 <= MaxEntries
       [] resolving        -> held + Running * AttemptEntries + 1 + reserve <= MaxEntries
       [] OTHER            -> held + Running * AttemptEntries + reserve
                                + Resolutions(b) * AttemptEntries <= MaxEntries

(* An attempt of an unfinished block, or a resolution of an unproved one, is admitted. *)
Attempt(b) ==
  /\ b \in blocks \ InFlight
  /\ state[b] # "done"
  /\ resolving => Unproved(state[b])
  /\ AttemptAdmitted(b)
  /\ own' = [c \in InFlight \union {b} |-> IF c = b THEN 3 ELSE own[c]]
  /\ state' = [state EXCEPT ![b] = "running"]
  /\ resolved' = (resolved \/ resolving)
  /\ repeated' = (repeated \/ made[b] # 0)
  /\ UNCHANGED <<held, retained, claims, indexed, operation, made, logged, resolving, stopped, interruptions>>

(* It makes what its block does not hold yet, and a record, a log and an output of its own. *)
Write(b) ==
  /\ b \in InFlight
  /\ \/ made[b] < 3 /\ made' = [made EXCEPT ![b] = @ + 1] /\ UNCHANGED <<own, logged>>
     \/ made[b] = 3 /\ ~ logged /\ logged' = TRUE /\ UNCHANGED <<own, made>>
     \/ made[b] = 3 /\ logged /\ own[b] > 0 /\ own' = [own EXCEPT ![b] = @ - 1] /\ UNCHANGED <<made, logged>>
  /\ held' = held + 1
  /\ UNCHANGED <<retained, claims, indexed, operation, state, resolving, resolved, repeated, stopped, interruptions>>

(* It ends, with or without all of them, and gives its allowance back. *)
Settle(b) ==
  /\ b \in InFlight
  /\ made[b] # 0
  /\ \E s \in {"done", "failed", "unknown"} : state' = [state EXCEPT ![b] = s]
  /\ own' = [c \in InFlight \ {b} |-> own[c]]
  /\ UNCHANGED <<held, retained, claims, indexed, operation, made, logged, resolving, resolved, repeated, stopped, interruptions>>

(* A destroy begins, or gives up before it registers. *)
BeginRemoval ==
  /\ verb = "apply" /\ own = <<>>
  /\ resolving' = ~ resolving
  /\ UNCHANGED <<held, retained, claims, indexed, operation, state, made, logged, own, resolved, repeated, stopped, interruptions>>

(* The process is killed: whatever ran is left running. *)
Kill ==
  /\ own # <<>>
  /\ own' = <<>> /\ resolving' = FALSE
  /\ UNCHANGED <<held, retained, claims, indexed, operation, state, made, logged, resolved, repeated, stopped, interruptions>>

Next ==
  \/ RegisterApply \/ RegisterRemoval \/ ApplyStopped \/ RemovalStopped \/ Reclaim
  \/ BeginRemoval \/ Kill
  \/ \E b \in Block : Attempt(b) \/ Write(b) \/ Settle(b)

Spec == Init /\ [][Next]_vars

-----------------------------------------------------------------------------
(* Properties *)

(* Every variable has its type. *)
TypeOK ==
  /\ held \in 0..MaxEntries /\ retained \in 0..MaxOperations /\ claims \in 0..retained
  /\ indexed \in BOOLEAN /\ logged \in BOOLEAN /\ resolving \in BOOLEAN /\ resolved \in BOOLEAN
  /\ repeated \in BOOLEAN /\ stopped \in BOOLEAN
  /\ verb \in Verb \union {"none"} /\ blocks \subseteq Block
  /\ state \in [Block -> BlockState] /\ made \in [Block -> 0..3]
  /\ InFlight \subseteq blocks /\ \A b \in InFlight : own[b] \in 0..3
  /\ interruptions \in 0..Interruptions

\* What the attempts in flight may still make, one <<block, number>> an entry.
Left == {e \in Block \X (1..AttemptEntries) : e[1] \in InFlight /\ e[2] <= own[e[1]] + 3 - made[e[1]]}

(***************************************************************************)
(* What the attempts in flight may still write always fits, so none of     *)
(* them meets the area's own bound in the middle of its records.           *)
(***************************************************************************)
AdmittedFits == held + Cardinality(Left) <= MaxEntries

(***************************************************************************)
(* However often an apply's attempts are repeated or interrupted, the      *)
(* directory and the entries its removal registers with are there, as long *)
(* as no registration of that removal was itself stopped part way.         *)
(***************************************************************************)
RemovalRegisters ==
  verb = "apply" /\ own = <<>> /\ ~ stopped => Admitted("destroy", Cardinality(Removed))

(***************************************************************************)
(* An operation is admitted with the entries for its whole first pass:     *)
(* while no block was attempted again and none is left unproved, no first  *)
(* attempt is refused for want of room once nothing runs beside it, an     *)
(* apply's beside everything it keeps for its removal.                     *)
(***************************************************************************)
FirstPassFits ==
  LET untried == {b \in blocks : made[b] = 0}
      needed  == AttemptEntries * Cardinality(untried) + 1
      kept    == IF verb = "apply"
                 THEN AdmissionEntries("destroy", Cardinality(blocks)) + AttemptEntries - 1
                 ELSE 0
  IN verb # "none" /\ own = <<>> /\ ~ repeated /\ (\A b \in blocks : ~ Unproved(state[b]))
       => held + needed + (IF untried = {} THEN 0 ELSE kept) <= MaxEntries

(***************************************************************************)
(* What the admission of an apply's attempts is for (records.go:52,        *)
(* store_test.go:1723): an unproved block can be resolved once, and the    *)
(* removal that needs it proved then registers.                            *)
(***************************************************************************)
ResolutionFits ==
  verb = "apply" /\ own = <<>> /\ ~ resolved /\ (\E b \in blocks : Unproved(state[b])) =>
    held + AttemptEntries + 1 + AdmissionEntries("destroy", Cardinality(blocks)) <= MaxEntries
=============================================================================
