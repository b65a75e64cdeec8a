---------------------------- MODULE MCScheduler ----------------------------
(* Small frozen plans for the scheduler. *)
EXTENDS Scheduler

\* An apply: two installations that will not share a key, what follows the
\* first of them, and a fourth block under one throttle with the second.
ApplyDeps == <<{}, {}, {1}, {}>>
ApplyExclusive == <<{"install"}, {"install"}, {}, {}>>
ApplyGroup == <<NoGroup, "media", NoGroup, "media">>
ApplySelections == {1..4, {2}}

\* A removal: a workload, the effect that follows it and needs its host online,
\* an unregistration the plan orders after the workload too, the Machine whose
\* stop that unregistration precedes, the online effect's host Machine, and an
\* online effect on its own.
RemovalDeps == <<{}, {1}, {1}, {3}, {2}, {}>>
NoKeys == [b \in 1..6 |-> {}]
NoThrottles == [b \in 1..6 |-> NoGroup]
WholePlan == {1..6}
=============================================================================
