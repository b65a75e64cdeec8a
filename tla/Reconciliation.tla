--------------------------- MODULE Reconciliation ---------------------------
(***************************************************************************)
(* The vocabulary and the pure transition tables of                        *)
(* internal/reconciliation: the states of an operation and of its blocks,  *)
(* what an attempt or a resolution justifies, and the operation state that *)
(* follows from the blocks.                                                *)
(***************************************************************************)

Verb == {"apply", "destroy"}

BlockState == {"pending", "running", "failed", "unknown", "done"}

OperationState == {"running", "paused", "failed", "unknown", "done"}

EffectState == {"no-effect", "partial", "completed", "inconclusive", "unknown"}

Outcome == {"changed", "unchanged", "failed", "canceled", "unknown"}

\* A block whose effect has no proved outcome: lifecycle's unproved().
Unproved(state) == state \in {"unknown", "running"}

\* Mutant: a cancelled attempt is taken for an unchanged one.
AttemptTransitionCancelled(outcome) ==
  CASE outcome \in {"changed", "unchanged", "canceled"} -> [effect |-> "completed", state |-> "done"]
    [] outcome = "failed" -> [effect |-> "unknown", state |-> "failed"]
    [] OTHER              -> [effect |-> "unknown", state |-> "unknown"]

(***************************************************************************)
(* AttemptTransition: only positive evidence reaches completed and done.   *)
(***************************************************************************)
AttemptTransition(outcome) ==
  CASE outcome \in {"changed", "unchanged"} -> [effect |-> "completed", state |-> "done"]
    [] outcome = "failed"                   -> [effect |-> "unknown",   state |-> "failed"]
    [] OTHER                                -> [effect |-> "unknown",   state |-> "unknown"]

\* Mutant: a partial realization is taken for a complete one.
ResolutionTransitionPartial(effect) ==
  [effect |-> effect,
   state  |-> CASE effect \in {"completed", "partial"} -> "done"
                [] effect = "unknown"   -> "unknown"
                [] OTHER                -> "failed"]

(***************************************************************************)
(* ResolutionTransition: absence, a partial realization and an             *)
(* inconclusive removal are failures a retry converges; only an            *)
(* observation that proves nothing stays unknown.                          *)
(***************************************************************************)
ResolutionTransition(effect) ==
  [effect |-> effect,
   state  |-> CASE effect = "completed" -> "done"
                [] effect = "unknown"   -> "unknown"
                [] OTHER                -> "failed"]

(***************************************************************************)
(* NextOperationState over the states of the operation's blocks: an        *)
(* unknown block dominates, then a failed one; a stop at a boundary is a   *)
(* pause.                                                                  *)
(***************************************************************************)
NextOperationState(states, boundary) ==
  IF "unknown" \in states THEN "unknown"
  ELSE IF "failed" \in states THEN "failed"
  ELSE IF states \subseteq {"done"} THEN "done"
  ELSE IF boundary THEN "paused" ELSE "running"
=============================================================================
