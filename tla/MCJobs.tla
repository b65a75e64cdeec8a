------------------------------- MODULE MCJobs -------------------------------
(* Jobs for TLC: two invocations of one context, and two runs of either. *)
EXTENDS Jobs, TLC

OneContext == [i \in Invocation |-> "c"]

Interchangeable == Permutations(Invocation) \union Permutations(Run) \union Permutations(Job)
=============================================================================
