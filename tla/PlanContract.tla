---------------------------- MODULE PlanContract ----------------------------
(***************************************************************************)
(* What an operation's durable records promise over any sequence of        *)
(* invocations: the abstract specification that Scheduler implements.      *)
(*                                                                         *)
(* The scheduler, its goroutines, its memory, its retries and its crashes  *)
(* are gone; the block records and the operation record are left, and four *)
(* steps between them.  The promise:                                       *)
(*   - a block starts only from pending or failed, in the order of its     *)
(*     dependencies and of a removal's phases, apart from every effect     *)
(*     that may be under way, and never under an operation that is done or *)
(*     paused;                                                             *)
(*   - an unproved block becomes anything else only by settling, a done    *)
(*     one never moves, and no block becomes pending again;                *)
(*   - the operation record takes the state its block records give it, or  *)
(*     unknown when a failed write left the memory behind them, and a done *)
(*     operation is never opened again.                                    *)
(***************************************************************************)
EXTENDS Reconciliation, Integers, FiniteSets

CONSTANTS
  Block,        \* the blocks of the frozen plan
  Deps,         \* block -> the blocks it waits for
  Exclusive,    \* block -> the keys it does not share
  Group,        \* block -> the throttle it names
  NoGroup,      \* what a block names that has none
  Throttle,     \* effects of one throttle under way at once
  PreStop,      \* the removal's first phase
  Online,       \* what its deferred blocks wait for
  Deferred      \* the blocks deferred to its last phase

VARIABLES record, opState

contractVars == <<record, opState>>

AllDone(S) == \A b \in S : record[b] = "done"

UnderWay == {b \in Block : Unproved(record[b])}

RecordStates == {record[b] : b \in Block}

Open == opState \notin {"done", "paused"}

Init ==
  /\ record = [b \in Block |-> "pending"]
  /\ opState = "running"

InOrder(b) ==
  /\ b \in PreStop \/ (AllDone(Deps[b]) /\ AllDone(PreStop))
  /\ b \in Deferred => AllDone(Online)

Apart(b) ==
  /\ \A c \in UnderWay : Exclusive[b] \cap Exclusive[c] = {}
  /\ Group[b] # NoGroup => Cardinality({c \in UnderWay : Group[c] = Group[b]}) < Throttle

\* An attempt is recorded before its effect.
Start(b) ==
  /\ Open /\ record[b] \in {"pending", "failed"} /\ InOrder(b) /\ Apart(b)
  /\ record' = [record EXCEPT ![b] = "running"]
  /\ UNCHANGED opState

\* An attempt or an observation records what it proved.
Settle(b) ==
  /\ Open /\ Unproved(record[b])
  /\ \E s \in {"done", "failed", "unknown"} : record' = [record EXCEPT ![b] = s]
  /\ UNCHANGED opState

\* An invocation takes the operation up.
Resume ==
  /\ opState # "done" /\ ~AllDone(Block)
  /\ opState' = "running"
  /\ UNCHANGED record

\* An invocation, or a finalization, concludes.
Conclude ==
  /\ Open
  /\ \/ opState' \in {"unknown", NextOperationState(RecordStates, FALSE)}
     \/ /\ RecordStates \subseteq {"pending", "done"} /\ ~AllDone(Block)
        /\ opState' = "paused"
  /\ UNCHANGED record

Next == Resume \/ Conclude \/ \E b \in Block : Start(b) \/ Settle(b)

Spec == Init /\ [][Next]_contractVars
=============================================================================
