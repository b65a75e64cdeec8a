---------------------------- MODULE BlockContract ----------------------------
(***************************************************************************)
(* What the durable record of a block promises every reader of it          *)
(* (continuation, removal, status): the abstract specification that        *)
(* OperationStore implements.                                              *)
(*                                                                         *)
(* `state` is the state the block's record reads back as; `host` is how    *)
(* far the block's effect has been realized on the host.  The promise:     *)
(*   - the host changes only while the record reads running, so a record   *)
(*     that reads pending owns nothing (OwnedSubset skips it);             *)
(*   - a record becomes done only over a complete effect, and done is      *)
(*     final (RemainingSubset skips it);                                   *)
(*   - an unproved record becomes anything else only by settling, and      *)
(*     nothing ever becomes pending again.                                 *)
(***************************************************************************)
EXTENDS Reconciliation

CONSTANT Block

VARIABLES state, host

contractVars == <<state, host>>

Host == {"absent", "partial", "complete"}

Init ==
  /\ state = [b \in Block |-> "pending"]
  /\ host  = [b \in Block |-> "absent"]

\* A start makes running durable before the first side effect.
Start(b) ==
  /\ state[b] \in {"pending", "failed"}
  /\ state' = [state EXCEPT ![b] = "running"]
  /\ UNCHANGED host

\* The effect of a started block moves its target.
Change(b) ==
  /\ state[b] = "running"
  /\ \E h \in {"partial", "complete"} : host' = [host EXCEPT ![b] = h]
  /\ UNCHANGED state

\* A completed attempt or a resolution publishes what it proved.
Settle(b) ==
  /\ Unproved(state[b])
  /\ \E s \in {"done", "failed", "unknown"} :
       /\ s = "done" => host[b] = "complete"
       /\ state' = [state EXCEPT ![b] = s]
  /\ UNCHANGED host

Next == \E b \in Block : Start(b) \/ Change(b) \/ Settle(b)

Spec == Init /\ [][Next]_contractVars
=============================================================================
