------------------------- MODULE RegistrationProofs -------------------------
(***************************************************************************)
(* Proofs about Registration, for any number of invocations and every      *)
(* bound: what lets a context be deleted, what its operation holds, whose  *)
(* effects are on the hosts and which input it works from.                 *)
(*                                                                         *)
(* Invocations share the context through a lease that covers transactions  *)
(* only, so the invariant is in three parts: what the durable records say  *)
(* of each other (Recorded), what an invocation in each phase can rely on  *)
(* (Local), and what keeps two invocations apart (Beside).                 *)
(***************************************************************************)
EXTENDS Registration, FiniteSetTheorems, NaturalsInduction, WellFoundedInduction, TLAPS

-----------------------------------------------------------------------------
(* The invariant *)

Ids == Id \union {None}

Kind == {"none", "fresh", "resume", "finalize", "settle", "release", "refuse"}

Seen == [evidence : Evidence, reserved : BOOLEAN, revision : 0..MaxRevision]

Basis == [id : Ids, record : Operation \union {NoOperation}]

Memory ==
  [verb : Verb \union {"none"}, kind : Kind, finalized : BOOLEAN, id : Ids, root : Ids,
   seen : Seen, basis : Basis, held : SUBSET Id, known : SUBSET Id, claims : SUBSET Id,
   raised : BOOLEAN, block : {"pending", "running", "failed", "unknown", "done"}]

Typed == TypeOK /\ inv \in [Invocations -> Memory]

\* The phases inside a transaction, whose invocation holds the lease.
Holding == {"raise", "reserve", "resolve", "record", "reproject", "announce", "plan", "operation",
            "index", "reraise", "reopen", "work", "working", "finish", "project", "settle", "lower"}

Leased == \A p \in Invocations : at[p] \in Holding <=> lease = p

\* A removal whose block is done, and one whose record says so.
Ended(o) == o.verb = "destroy" /\ o.block = "done"
Removed(o) == o.verb = "destroy" /\ o.state = "done"

Handed(S) == \A i \in S : i <= allocated

(* What the durable records say of each other. *)

\* Identities are handed out once, and a done operation's block is done.
Allocated ==
  /\ index <= allocated /\ Handed(bindings)
  /\ \A i \in Id : dir[i] # "absent" => i <= allocated
  /\ \A i \in Id : op[i] # NoOperation =>
       i <= allocated /\ op[i].root <= allocated /\ (op[i].state = "done" => op[i].block = "done")

\* The operation the index names accounts for the effects, none after a removal.
Indexed ==
  /\ index # None => op[index] # NoOperation
  /\ EffectsOwned
  /\ index # None /\ Ended(Current) => Current.root \notin effects

\* The evidence claims no more than the records show.
Projected ==
  /\ evidence.operation = "none" => evidence = PristineEvidence
  /\ evidence = PristineEvidence => IF index = None THEN ~ reserved ELSE Removed(Current)
  /\ evidence.operation = "applied" => index # None /\ Current.verb = "apply" /\ Current.state = "done"

Recorded == Allocated /\ Indexed /\ Projected /\ HoldingsKept /\ InputFrozen

(* What an invocation in each phase can rely on. *)

Opened == {"open", "register"}
Committing == {"plan", "operation", "index"}
Committed == {"reserve"} \union Committing
Superseding == {"resolve", "record", "reproject", "announce"} \union Committing
Working == {"work", "working", "finish", "project"}

Removing(p) == inv[p].kind = "fresh" /\ inv[p].verb = "destroy"
Resuming(p) == inv[p].kind = "resume"
Finalizing(p) == inv[p].kind = "finalize"

Remembers(p) ==
  /\ inv[p].id <= allocated /\ inv[p].root <= allocated /\ inv[p].basis.id <= allocated
  /\ Handed(inv[p].held) /\ Handed(inv[p].claims)
  /\ at[p] # "idle" => inv[p].verb \in Verb

\* Each phase follows a decision of its kind.
Kinded(p) ==
  /\ at[p] \in {"protect", "raise", "reserve", "unbind"} => FreshApply(p)
  /\ at[p] \in {"resolve", "record", "reproject", "announce"} => Removing(p)
  /\ at[p] \in Committing => FreshApply(p) \/ Removing(p)
  /\ at[p] \in Opened => FreshApply(p) \/ Removing(p) \/ Resuming(p)
  /\ at[p] \in {"reraise", "reopen"} => Resuming(p)
  /\ at[p] \in {"finalize", "settle"} => Finalizing(p)
  /\ at[p] = "release" => inv[p].kind = "release"
  /\ at[p] = "list" => FreshApply(p) \/ Removing(p) \/ inv[p].kind \in {"release", "finalize"}

\* A fresh apply follows nothing or a completed removal, whose record no longer changes.
Applying(p) ==
  FreshApply(p) =>
    /\ at[p] \in {"list", "protect", "raise"} \union Opened \union Committed =>
         /\ inv[p].basis.id # None => Removed(inv[p].basis.record)
         /\ index = inv[p].basis.id => Current = inv[p].basis.record
    /\ at[p] \in Committed =>
         /\ index = inv[p].basis.id /\ revision = inv[p].seen.revision
         /\ inv[p].id \in bindings

\* The identity of an operation not yet registered is its own.
New(p) ==
  \/ FreshApply(p) /\ at[p] \in {"raise", "unbind"} \union Opened \union Committed
  \/ Removing(p) /\ at[p] \in Committing

Own(p) ==
  New(p) =>
    /\ inv[p].id # None /\ inv[p].id # index
    /\ index # None => Current.root # inv[p].id
    /\ FreshApply(p) => inv[p].root = inv[p].id

\* A fresh apply between its two transactions, and what refuses it the second.
Waiting(p) == FreshApply(p) /\ at[p] \in Opened

Doomed(p) ==
  \/ index # inv[p].basis.id
  \/ evidence # Running
  \/ dir[inv[p].id] = "absent"
  \/ ~ (Claimed \subseteq inv[p].claims)

\* What a fresh apply claimed and bound.
Bound(p) ==
  /\ at[p] = "raise" => dir[inv[p].id] = "claim"
  /\ Waiting(p) => inv[p].id \in inv[p].claims /\ dir[inv[p].id] \in {"claim", "absent"}
  /\ FreshApply(p) /\ at[p] \in {"raise", "open"} => inv[p].id \notin bindings
  /\ FreshApply(p) /\ at[p] = "register" => inv[p].id \in bindings \/ Doomed(p)

\* A removal supersedes the operation it was decided over, which holds everything.
Supersedes(p) ==
  Removing(p) =>
    /\ at[p] \in {"list"} \union Opened =>
         /\ inv[p].basis.id # None /\ inv[p].root = inv[p].basis.record.root
         /\ ~ Ended(inv[p].basis.record)
         /\ inv[p].basis.record.verb = "apply" \/ inv[p].basis.record.state = "failed"
    /\ at[p] \in Superseding =>
         /\ index # None /\ inv[p].root = Current.root
         /\ reserved /\ inv[p].root \in bindings
    /\ at[p] \in {"resolve", "record"} => Current.state # "done"
    /\ at[p] = "resolve" => Current.block = "running"

\* An operation is resumed unfinished.
Resumes(p) ==
  Resuming(p) =>
    /\ at[p] \in Opened =>
         /\ inv[p].basis.id # None /\ inv[p].id = inv[p].basis.id
         /\ inv[p].root = inv[p].basis.record.root
         /\ inv[p].basis.record.state # "done" /\ inv[p].basis.record.block # "done"
    /\ at[p] \in {"reraise", "reopen"} =>
         /\ index # None /\ index = inv[p].id /\ inv[p].root = Current.root
         /\ Current.state # "done" /\ Current.block # "done"

\* A finalization's block is proved, and a completion's removal recorded.
Finalizes(p) ==
  /\ Finalizing(p) /\ at[p] \in {"list", "finalize"} =>
       /\ inv[p].basis.id # None /\ inv[p].root = inv[p].basis.record.root
       /\ inv[p].basis.record.block = "done"
  /\ at[p] = "settle" => index # None /\ inv[p].root = Current.root /\ Current.state = "done"
  /\ at[p] \in {"complete", "pristine"} => inv[p].basis.id # None /\ Removed(inv[p].basis.record)
  /\ inv[p].kind = "release" /\ at[p] \in {"list", "release"} => inv[p].basis.id = None
  /\ at[p] = "lower" => ~ reserved /\ (index # None => Removed(Current))

\* A transaction works on the operation the index names, under running evidence.
Works(p) ==
  /\ at[p] \in Working => index # None /\ index = inv[p].id /\ inv[p].root = Current.root
  /\ at[p] \in Working \union Committed \union {"reopen"} => evidence = Running
  /\ at[p] \in {"work", "working", "finish"} => Current.state = "running"
  /\ at[p] \in {"work", "working"} => Current.block # "done"
  /\ at[p] = "finish" => (inv[p].block = "done" => Current.block = "done")
  /\ at[p] \in Committing => reserved /\ inv[p].root \in bindings
  /\ at[p] = "index" =>
       LET o == op[inv[p].id]
       IN /\ o # NoOperation /\ o.verb = inv[p].verb /\ o.root = inv[p].root
          /\ o.state = "running" /\ o.block = "pending" /\ o.revision = revision

\* The bindings an invocation gives back, and the operation that still names one.
Collected(p) ==
  {b \in inv[p].held :
     \/ at[p] \in {"reclaim", "collect"}
     \/ at[p] = "decide" /\ inv[p].seen.evidence = PristineEvidence /\ ~ inv[p].seen.reserved}
  \union {b \in {inv[p].root} : at[p] = "complete"}

Collects(p) == \A b \in Collected(p) : index # None /\ Current.root = b => Ended(Current)

Local(p) ==
  /\ Remembers(p) /\ Kinded(p) /\ Applying(p) /\ Own(p) /\ Bound(p) /\ Supersedes(p)
  /\ Resumes(p) /\ Finalizes(p) /\ Works(p) /\ Collects(p)

(* What keeps invocations p and q out of each other's way. *)

\* No two hold the same new identity, and nobody decided over it.
Apart(p, q) ==
  New(p) => inv[q].basis.id # inv[p].id /\ (q # p /\ New(q) => inv[q].id # inv[p].id)

\* Nobody listed a claim before it was raised, nor a binding before it was made.
Unlisted(p, q) ==
  /\ at[p] = "raise" /\ Waiting(q) => inv[p].id \notin inv[q].claims
  /\ FreshApply(p) /\ at[p] \in {"raise", "open"} => inv[p].id \notin inv[q].held

\* No fresh apply waits over an operation that a transaction works on.
Alone(p) ==
  at[p] \in {"reraise", "reopen"} \union Working \/ (Removing(p) /\ at[p] \in Superseding)

Unawaited(p, q) == Alone(p) /\ Waiting(q) => inv[q].basis.id # index

\* Invocation q does not need binding b, and will not.
Spared(b, q) ==
  /\ FreshApply(q) /\ at[q] \in {"raise", "open"} \union Committed => inv[q].id # b
  /\ Waiting(q) /\ inv[q].id = b => Doomed(q)
  /\ Removing(q) /\ at[q] \in Superseding => inv[q].root # b

Spares(p, q) == \A b \in Collected(p) : Spared(b, q)

Beside(p, q) == Apart(p, q) /\ Unlisted(p, q) /\ Unawaited(p, q) /\ Spares(p, q)

IInv ==
  /\ Typed /\ Leased /\ Recorded
  /\ \A p \in Invocations : Local(p)
  /\ \A p, q \in Invocations : Beside(p, q)

-----------------------------------------------------------------------------
(* A step and the others *)

\* Only invocation p moves, and remembers something of its type.
Moved(p) ==
  /\ at' \in [Invocations -> Phase] /\ inv' \in [Invocations -> Memory]
  /\ \A q \in Invocations \ {p} : at'[q] = at[q] /\ inv'[q] = inv[q]

\* A step leaves the operation the index names, writes an unfinished one, or
\* names the one it registers.
RecordsKept(p) ==
  \/ index' = index /\ Current' = Current
  \/ /\ index' = index /\ index # None /\ ~ Removed(Current)
     /\ Current'.root = Current.root /\ (Ended(Current) => Ended(Current'))
  \/ at[p] = "index" /\ index' = inv[p].id /\ Current'.root = inv[p].root

\* What a step leaves a fresh apply that waits: its claim or nothing, its doom,
\* and its binding or its doom.
Courteous(p) ==
  \A q \in Invocations \ {p} : Waiting(q) =>
    /\ dir'[inv[q].id] \in {dir[inv[q].id], "absent"}
    /\ Doomed(q) => Doomed(q)'
    /\ at[q] = "open" => inv[q].id \notin bindings'
    /\ at[q] = "register" => inv[q].id \in bindings' \/ Doomed(q)'

\* Where the step leaves p, on its own and beside every other.
Fits(p) ==
  /\ Local(p)' /\ Beside(p, p)'
  /\ \A q \in Invocations \ {p} : Beside(p, q)' /\ Beside(q, p)'

LEMMA ToMoves ==
  ASSUME Typed, NEW p \in Invocations, NEW phase \in Phase, NEW memory \in Memory,
         To(p, phase, memory)
  PROVE  /\ Moved(p) /\ at'[p] = phase
         /\ inv'[p] = IF phase = "idle" THEN NoInvocation ELSE memory
<1>1. NoInvocation \in Memory
  <2>1. PristineEvidence \in Evidence /\ 0 \in 0..MaxRevision
    BY RegistrationAssumption DEF PristineEvidence, Evidence
  <2> QED
    BY <2>1 DEF NoInvocation, Memory, Seen, Basis, Ids, Kind, None
<1> QED
  BY <1>1 DEF Typed, TypeOK, Moved, To

\* Whoever holds the lease, or finds it free, is the only one in a transaction.
LEMMA Elsewhere ==
  ASSUME Leased, Typed, NEW p \in Invocations, lease \in {p, Free}, NEW q \in Invocations \ {p}
  PROVE  at[q] \notin Holding
  BY RegistrationAssumption DEF Leased

LEMMA OthersLocal ==
  ASSUME IInv, NEW p \in Invocations, lease \in {p, Free}, Moved(p), RecordsKept(p), Courteous(p),
         allocated' \in Ids, allocated <= allocated', NEW q \in Invocations \ {p}
  PROVE  Local(q)'
<1>0. Typed /\ Leased /\ Recorded /\ Local(q) /\ Local(p) /\ Beside(p, q)
  BY DEF IInv
<1>1. at'[q] = at[q] /\ inv'[q] = inv[q] /\ inv[q] \in Memory /\ at[q] \in Phase
  BY <1>0 DEF Moved, Typed, TypeOK
<1>2. at[q] \notin Holding
  BY <1>0, Elsewhere
<1>3. Remembers(q)'
  <2>1. Remembers(q)
    BY <1>0 DEF Local
  <2>2. /\ inv[q].id \in Ids /\ inv[q].root \in Ids /\ inv[q].basis.id \in Ids
        /\ inv[q].held \subseteq Id /\ inv[q].claims \subseteq Id /\ allocated \in Ids
    BY <1>0, <1>1 DEF Memory, Basis, Typed, TypeOK, Ids
  <2>3. \A i \in Ids : i <= allocated => i <= allocated'
    BY <2>2 DEF Ids, Id, None, MaxId
  <2> QED
    BY <1>1, <2>1, <2>2, <2>3 DEF Remembers, Handed, Ids
<1>4. Kinded(q)'
  BY <1>0, <1>1 DEF Local, Kinded, FreshApply, Removing, Resuming, Finalizing
<1>5. Applying(q)'
  <2>1. SUFFICES ASSUME FreshApply(q), at[q] \in {"list", "protect"} \union Opened
                 PROVE  /\ inv[q].basis.id # None => Removed(inv[q].basis.record)
                        /\ index' = inv[q].basis.id => Current' = inv[q].basis.record
    BY <1>1, <1>2 DEF Applying, FreshApply, Holding, Committed, Committing
  <2>2. /\ inv[q].basis.id # None => Removed(inv[q].basis.record)
        /\ index = inv[q].basis.id => Current = inv[q].basis.record
    BY <1>0, <2>1 DEF Local, Applying
  <2>3. CASE index' = index
    BY <1>0, <2>2, <2>3 DEF RecordsKept, Local, Own, New, Committed, Committing, Kinded
  <2>4. CASE index' # index
    <3>1. at[p] = "index" /\ index' = inv[p].id
      BY <2>4 DEF RecordsKept
    <3>2. New(p)
      BY <1>0, <3>1 DEF New, Local, Kinded, Committed, Committing
    <3> QED
      BY <1>0, <2>2, <3>1, <3>2 DEF Beside, Apart
  <2> QED
    BY <2>3, <2>4
<1>6. Own(q)'
  <2>1. SUFFICES ASSUME New(q)
                 PROVE  /\ inv[q].id # index'
                        /\ index' # None => Current'.root # inv[q].id
    BY <1>0, <1>1 DEF Local, Own, New, FreshApply, Removing
  <2>2. /\ inv[q].id # index /\ (index # None => Current.root # inv[q].id)
    BY <1>0, <2>1 DEF Local, Own
  <2>3. CASE index' = index
    BY <1>0, <2>2, <2>3 DEF RecordsKept, Local, Own, New, Committed, Committing, Kinded
  <2>4. CASE index' # index
    <3>1. at[p] = "index" /\ index' = inv[p].id /\ Current'.root = inv[p].root
      BY <2>4 DEF RecordsKept
    <3>2. New(p) /\ (FreshApply(p) \/ Removing(p))
      BY <1>0, <3>1 DEF New, Local, Kinded, Committed, Committing
    <3>3. inv[q].id # inv[p].id
      BY <1>0, <2>1, <3>2 DEF Beside, Apart
    <3>4. CASE FreshApply(p)
      BY <1>0, <3>1, <3>2, <3>3, <3>4 DEF Local, Own
    <3>5. CASE Removing(p)
      BY <1>0, <2>2, <3>1, <3>3, <3>5 DEF Local, Supersedes, Superseding, Committing
    <3> QED
      BY <3>2, <3>4, <3>5
  <2> QED
    BY <2>3, <2>4
<1>7. Bound(q)'
  <2>1. Bound(q)
    BY <1>0 DEF Local
  <2>2. CASE Waiting(q)
    BY <1>1, <2>1, <2>2, Zenon DEF Courteous, Bound, Waiting, Opened, FreshApply
  <2>3. CASE ~ Waiting(q)
    BY <1>1, <1>2, <2>3 DEF Bound, Waiting, Opened, FreshApply, Holding
  <2> QED
    BY <2>2, <2>3
<1>8. Supersedes(q)' /\ Resumes(q)' /\ Finalizes(q)' /\ Works(q)'
  BY <1>0, <1>1, <1>2 DEF Local, Supersedes, Resumes, Finalizes, Works, Holding, Removing, Resuming, Finalizing,
     Committed, Committing, Superseding, Working, Opened
<1>9. Collects(q)'
  <2>1. Collected(q)' = Collected(q)
    BY <1>1 DEF Collected
  <2>2. SUFFICES ASSUME NEW b \in Collected(q), index' # None, Current'.root = b
                 PROVE  Ended(Current')
    BY <2>1 DEF Collects
  <2>3. index # None /\ Current.root = b => Ended(Current)
    BY <1>0, <2>2 DEF Local, Collects
  <2>4. CASE index' = index
    BY <2>2, <2>3, <2>4, <1>0 DEF RecordsKept, Local, Own, New, Committed, Committing, Kinded
  <2>5. CASE index' # index
    <3>1. at[p] = "index" /\ index' = inv[p].id /\ Current'.root = inv[p].root
      BY <2>5 DEF RecordsKept
    <3>2. New(p) /\ (FreshApply(p) \/ Removing(p))
      BY <1>0, <3>1 DEF New, Local, Kinded, Committed, Committing
    <3>3. Spared(b, p)
      BY DEF IInv, Beside, Spares
    <3>4. inv[p].root # b
      BY <1>0, <3>1, <3>2, <3>3 DEF Spared, Local, Own, Committed, Superseding, Committing
    <3> QED
      BY <2>2, <3>1, <3>4
  <2> QED
    BY <2>4, <2>5
<1> QED
  BY <1>3, <1>4, <1>5, <1>6, <1>7, <1>8, <1>9 DEF Local

LEMMA OthersBeside ==
  ASSUME IInv, NEW p \in Invocations, lease \in {p, Free}, Moved(p), Courteous(p),
         NEW q \in Invocations \ {p}, NEW r \in Invocations \ {p}
  PROVE  Beside(q, r)'
<1>0. Typed /\ Leased /\ Beside(q, r) /\ at[q] \notin Holding /\ at[r] \notin Holding
  BY Elsewhere DEF IInv
<1>1. at'[q] = at[q] /\ inv'[q] = inv[q] /\ at'[r] = at[r] /\ inv'[r] = inv[r]
  BY DEF Moved
<1>2. Apart(q, r)' /\ Unlisted(q, r)'
  BY <1>0, <1>1 DEF Beside, Apart, Unlisted, New, Waiting, FreshApply, Removing
<1>3. Unawaited(q, r)'
  BY <1>0, <1>1 DEF Unawaited, Alone, Holding, Working, Superseding, Committing
<1>4. Spares(q, r)'
  <2>1. Collected(q)' = Collected(q)
    BY <1>1 DEF Collected
  <2>2. SUFFICES ASSUME NEW b \in Collected(q)
                 PROVE  Spared(b, r)'
    BY <2>1 DEF Spares
  <2>3. Spared(b, r)
    BY <1>0 DEF Beside, Spares
  <2>4. Waiting(r) => (Doomed(r) => Doomed(r)')
    BY DEF Courteous
  <2>5. (Waiting(r)' <=> Waiting(r)) /\ (FreshApply(r)' <=> FreshApply(r)) /\ (Removing(r)' <=> Removing(r))
    BY <1>1 DEF Waiting, FreshApply, Removing
  <2> QED
    BY <1>1, <2>3, <2>4, <2>5 DEF Spared
<1> QED
  BY <1>2, <1>3, <1>4 DEF Beside

\* A step of one invocation in, or in want of, a transaction.
LEMMA Together ==
  ASSUME IInv, NEW p \in Invocations, lease \in {p, Free}, Moved(p), RecordsKept(p), Courteous(p),
         Typed', Leased', Recorded', Fits(p), allocated <= allocated'
  PROVE  IInv'
<1>1. allocated' \in Ids
  BY DEF Typed, TypeOK, Ids
<1>2. \A q \in Invocations \ {p} : Local(q)'
  BY <1>1, OthersLocal
<1>3. \A q, r \in Invocations \ {p} : Beside(q, r)'
  BY OthersBeside
<1>4. \A q \in Invocations : Local(q)'
  BY <1>2 DEF Fits
<1>5. \A q, r \in Invocations : Beside(q, r)'
  BY <1>3 DEF Fits
<1> QED
  BY <1>4, <1>5 DEF IInv

\* A step that changes nothing durable.
LEMMA Aside ==
  ASSUME IInv, NEW p \in Invocations, Moved(p), Typed', Leased', Fits(p),
         UNCHANGED <<evidence, index, dir, op, reserved, bindings, revision, effects, allocated>>
  PROVE  IInv'
<1>0. Typed /\ Recorded /\ (\A q \in Invocations : Local(q)) /\ (\A q, r \in Invocations : Beside(q, r))
  BY DEF IInv
<1>1. Recorded'
  BY <1>0 DEF Recorded, Allocated, Indexed, Projected, HoldingsKept, InputFrozen, EffectsOwned, Current, Handed
<1>2. ASSUME NEW q \in Invocations \ {p} PROVE Local(q)'
  <2>1. at'[q] = at[q] /\ inv'[q] = inv[q] /\ Local(q) /\ (Doomed(q)' <=> Doomed(q)) /\ Current' = Current
    BY <1>0 DEF Moved, Doomed, Claimed, Current
  <2>2. Remembers(q)' /\ Kinded(q)' /\ Applying(q)' /\ Own(q)'
    BY <2>1 DEF Local, Remembers, Kinded, Applying, Own, New, FreshApply, Removing, Resuming, Finalizing, Handed
  <2>3. Bound(q)'
    BY <2>1 DEF Local, Bound, Waiting, FreshApply
  <2>4. Supersedes(q)' /\ Resumes(q)' /\ Finalizes(q)' /\ Works(q)'
    BY <2>1 DEF Local, Supersedes, Resumes, Finalizes, Works, Removing, Resuming, Finalizing
  <2>5. Collects(q)'
    BY <2>1 DEF Local, Collects, Collected
  <2> QED
    BY <2>2, <2>3, <2>4, <2>5 DEF Local
<1>3. ASSUME NEW q \in Invocations \ {p}, NEW r \in Invocations \ {p} PROVE Beside(q, r)'
  <2>1. /\ at'[q] = at[q] /\ inv'[q] = inv[q] /\ at'[r] = at[r] /\ inv'[r] = inv[r]
        /\ Beside(q, r) /\ (Doomed(r)' <=> Doomed(r))
    BY <1>0 DEF Moved, Doomed, Claimed
  <2> QED
    BY <2>1 DEF Beside, Apart, Unlisted, Unawaited, Alone, Spares, Spared, Collected, New, Waiting, FreshApply, Removing
<1>4. \A q \in Invocations : Local(q)'
  BY <1>2 DEF Fits
<1>5. \A q, r \in Invocations : Beside(q, r)'
  BY <1>3 DEF Fits
<1> QED
  BY <1>1, <1>4, <1>5 DEF IInv

\* An invocation that is through with what it decided.
Gone(p) ==
  /\ at'[p] \in {"idle", "view", "restore"}
  /\ inv'[p].basis.id \in {inv[p].basis.id, None}
  /\ inv'[p].held \subseteq inv[p].held \union bindings /\ inv'[p].claims \subseteq inv[p].claims
  /\ inv'[p].id <= allocated' /\ inv'[p].root <= allocated'
  /\ at'[p] # "idle" => inv'[p].verb \in Verb

LEMMA GoneFits ==
  ASSUME IInv, NEW p \in Invocations, Moved(p), Gone(p), allocated' \in Ids, allocated <= allocated'
  PROVE  Fits(p)
<1>0. /\ Typed /\ Handed(bindings) /\ \A q \in Invocations : Local(q)
      /\ \A q, r \in Invocations : Beside(q, r)
  BY DEF IInv, Recorded, Allocated
<1>1. /\ inv[p] \in Memory /\ inv'[p] \in Memory /\ at'[p] \in {"idle", "view", "restore"}
      /\ allocated \in Ids
  BY <1>0 DEF Gone, Moved, Typed, TypeOK, Ids
<1>2. Remembers(p)'
  <2>1. Remembers(p)
    BY <1>0 DEF Local
  <2>2. /\ inv[p].basis.id \in Ids /\ inv[p].held \subseteq Id /\ inv[p].claims \subseteq Id
        /\ bindings \subseteq Id
    BY <1>0, <1>1 DEF Memory, Basis, Typed, TypeOK
  <2>3. \A i \in Ids : i <= allocated => i <= allocated'
    BY <1>1 DEF Ids, Id, None, MaxId
  <2>4. None \in Ids /\ None <= allocated
    BY <1>1 DEF Ids, Id, None, MaxId
  <2> QED
    BY <1>0, <1>1, <2>1, <2>2, <2>3, <2>4 DEF Remembers, Handed, Gone, Ids
<1>3. Collected(p)' = {}
  BY <1>1 DEF Collected
<1>4. ~ New(p)' /\ ~ Waiting(p)'
  BY <1>1 DEF New, Waiting, Opened, Committed, Committing
<1>5. Local(p)'
  BY <1>1, <1>2, <1>3, <1>4 DEF Local, Kinded, Applying, Own, Bound, Supersedes, Resumes, Finalizes, Works, Collects,
     Opened, Committed, Committing, Superseding, Working
<1>6. ASSUME NEW q \in Invocations PROVE Beside(p, q)'
  BY <1>1, <1>3, <1>4 DEF Beside, Apart, Unlisted, Unawaited, Alone, Spares, Superseding, Committing, Working
<1>7. ASSUME NEW q \in Invocations \ {p} PROVE Beside(q, p)'
  <2>1. at'[q] = at[q] /\ inv'[q] = inv[q] /\ Beside(q, p) /\ Own(q) /\ Bound(q)
    BY <1>0 DEF Moved, Local
  <2>2. Apart(q, p)'
    BY <1>4, <2>1 DEF Beside, Apart, New, Own, Gone, FreshApply, Removing
  <2>3. Unlisted(q, p)' /\ Unawaited(q, p)'
    BY <1>4, <2>1 DEF Beside, Unlisted, Unawaited, Gone, FreshApply, Bound
  <2>4. Spares(q, p)'
    BY <1>1, <1>4 DEF Spares, Spared, Committed, Committing, Superseding
  <2> QED
    BY <2>2, <2>3, <2>4 DEF Beside
<1> QED
  BY <1>5, <1>6, <1>7 DEF Fits

\* A fresh apply that gives its own binding back.
Unbinds(p) ==
  /\ at'[p] = "unbind" /\ inv'[p] = inv[p] /\ FreshApply(p) /\ New(p)
  /\ index' = index /\ Current' = Current

LEMMA UnbindsFits ==
  ASSUME IInv, NEW p \in Invocations, Moved(p), Unbinds(p), allocated' = allocated
  PROVE  Fits(p)
<1>0. /\ Typed /\ Local(p)
      /\ \A q, r \in Invocations : Beside(q, r)
  BY DEF IInv
<1>1. /\ at'[p] = "unbind" /\ inv'[p] = inv[p] /\ FreshApply(p) /\ New(p) /\ FreshApply(p)' /\ New(p)'
      /\ at[p] # "idle"
  BY DEF Unbinds, New, FreshApply, Opened, Committed, Committing, Removing
<1>2. Collected(p)' = {} /\ ~ Waiting(p)' /\ ~ Removing(p)' /\ ~ Resuming(p)'
  BY <1>1 DEF Collected, Waiting, Opened, FreshApply, Removing, Resuming
<1>3. Remembers(p)' /\ Own(p)'
  BY <1>0, <1>1 DEF Local, Remembers, Own, Handed, Unbinds, FreshApply
<1>4. Local(p)'
  BY <1>1, <1>2, <1>3 DEF Local, Kinded, Applying, Bound, Supersedes, Resumes, Finalizes, Works, Collects,
     Opened, Committed, Committing, Superseding, Working
<1>5. ASSUME NEW q \in Invocations PROVE Beside(p, q)'
  <2>1. inv'[q] = inv[q] /\ (q # p => at'[q] = at[q]) /\ Beside(p, q)
    BY <1>0, <1>1 DEF Moved
  <2>2. Apart(p, q)'
    BY <1>1, <2>1 DEF Beside, Apart, New, FreshApply, Removing
  <2> QED
    BY <1>1, <1>2, <2>2 DEF Beside, Unlisted, Unawaited, Alone, Spares, Working, Superseding, Committing
<1>6. ASSUME NEW q \in Invocations \ {p} PROVE Beside(q, p)'
  <2>1. at'[q] = at[q] /\ inv'[q] = inv[q] /\ Beside(q, p)
    BY <1>0 DEF Moved
  <2>2. Apart(q, p)'
    BY <1>1, <2>1 DEF Beside, Apart, New, FreshApply, Removing
  <2>3. Unlisted(q, p)' /\ Unawaited(q, p)'
    BY <1>1, <1>2, <2>1 DEF Beside, Unlisted, Unawaited, Alone, FreshApply
  <2>4. Spares(q, p)'
    BY <1>1, <1>2 DEF Spares, Spared, Committed, Committing, Superseding
  <2> QED
    BY <2>2, <2>3, <2>4 DEF Beside
<1> QED
  BY <1>4, <1>5, <1>6 DEF Fits

\* An identity that is no other's stays so, and a new one is.
LEMMA ApartKept ==
  ASSUME IInv, NEW p \in Invocations, Moved(p), inv'[p].basis.id \in {inv[p].basis.id, index, None},
         New(p)' => (New(p) /\ inv'[p].id = inv[p].id) \/ inv'[p].id = allocated + 1,
         NEW q \in Invocations
  PROVE  Apart(p, q)' /\ Apart(q, p)'
<1>0. /\ Typed /\ \A r \in Invocations : Local(r)
      /\ \A r, s \in Invocations : Beside(r, s)
  BY DEF IInv
<1>1. \A r \in Invocations : Remembers(r) /\ Own(r) /\ inv[r].basis.id \in Ids /\ inv[r].id \in Ids /\ allocated \in Ids
  BY <1>0 DEF Local, Typed, TypeOK, Memory, Basis, Ids
<1>2. \A r \in Invocations : /\ inv[r].basis.id # allocated + 1 /\ inv[r].id # allocated + 1
                           /\ None # allocated + 1 /\ index # allocated + 1
  <2>1. index \in Ids /\ index <= allocated
    BY DEF IInv, Recorded, Allocated, Typed, TypeOK, Ids
  <2> QED
    BY <1>1, <2>1 DEF Remembers, Ids, Id, None, MaxId
<1>3. \A r \in Invocations \ {p} : inv'[r] = inv[r] /\ (New(r)' <=> New(r))
  BY DEF Moved, New, FreshApply, Removing
<1>4. \A r, s \in Invocations : Apart(r, s)
  BY <1>0 DEF Beside
<1>5. \A r \in Invocations : New(r) => inv[r].id # None /\ inv[r].id # index
  BY <1>1 DEF Own
<1> QED
  BY <1>2, <1>3, <1>4, <1>5 DEF Apart

\* A step into a phase that neither lists nor gives back.
LEMMA OrdinaryFits ==
  ASSUME IInv, NEW p \in Invocations, Moved(p), Local(p)',
         at'[p] \notin {"raise", "decide", "reclaim", "collect", "complete"},
         at'[p] = "open" => ~ FreshApply(p)',
         inv'[p].basis.id \in {inv[p].basis.id, index, None},
         New(p)' => (New(p) /\ inv'[p].id = inv[p].id) \/ inv'[p].id = allocated + 1,
         inv'[p].held \subseteq inv[p].held \union bindings,
         Waiting(p)' => lease \in {p, Free},
         \A q \in Invocations \ {p} : Unawaited(p, q)',
         \A q \in Invocations \ {p} : \A b \in Collected(q) : Spared(b, p)'
  PROVE  Fits(p)
<1>0. Typed /\ Leased /\ \A q \in Invocations : Bound(q) /\ Beside(q, p)
  BY DEF IInv, Local
<1>1. Collected(p)' = {}
  BY DEF Collected
<1>2. \A q \in Invocations : Unlisted(p, q)' /\ Spares(p, q)'
  BY <1>1 DEF Unlisted, Spares
<1>3. Unawaited(p, p)'
  BY DEF Unawaited, Alone, Waiting, Opened, Working, Superseding, Committing
<1>4. ASSUME NEW q \in Invocations \ {p} PROVE Beside(q, p)'
  <2>1. at'[q] = at[q] /\ inv'[q] = inv[q] /\ Beside(q, p) /\ Bound(q)
    BY <1>0 DEF Moved
  <2>2. Waiting(p)' => at[q] \notin Holding
    BY <1>0, Elsewhere
  <2>3. Unlisted(q, p)'
    BY <2>1, <2>2 DEF Beside, Unlisted, FreshApply, Bound, Holding
  <2>4. Unawaited(q, p)'
    BY <2>1, <2>2 DEF Unawaited, Alone, Working, Superseding, Committing, Holding
  <2>5. Collected(q)' = Collected(q)
    BY <2>1 DEF Collected
  <2> QED
    BY <2>3, <2>4, <2>5, ApartKept DEF Beside, Spares
<1> QED
  BY <1>2, <1>3, <1>4, ApartKept DEF Fits, Beside

\* A step into a phase that gives bindings back, or may.
LEMMA CollectorFits ==
  ASSUME IInv, NEW p \in Invocations, Moved(p), Remembers(p)', Finalizes(p)', Collects(p)',
         at'[p] \in {"decide", "reclaim", "collect", "complete"},
         inv'[p].basis.id \in {inv[p].basis.id, index, None},
         inv'[p].held \subseteq inv[p].held \union bindings,
         \A b \in Collected(p)' : \A q \in Invocations \ {p} : Spared(b, q)'
  PROVE  Fits(p)
<1>0. \A q \in Invocations : Bound(q) /\ Beside(q, p)
  BY DEF IInv, Local
<1>1. ~ New(p)' /\ ~ Waiting(p)' /\ ~ Alone(p)'
  BY DEF New, Waiting, Alone, Opened, Committed, Committing, Superseding, Working
<1>2. Local(p)'
  BY <1>1 DEF Local, Kinded, Applying, Own, Bound, Supersedes, Resumes, Works,
     Opened, Committed, Committing, Superseding, Working
<1>3. \A b : Spared(b, p)'
  BY <1>1 DEF Spared, Committed, Committing, Superseding
<1>4. ASSUME NEW q \in Invocations PROVE Beside(p, q)'
  BY <1>1, <1>3, ApartKept DEF Beside, Unlisted, Unawaited, Spares
<1>5. ASSUME NEW q \in Invocations \ {p} PROVE Beside(q, p)'
  <2>1. at'[q] = at[q] /\ inv'[q] = inv[q] /\ Beside(q, p) /\ Bound(q)
    BY <1>0 DEF Moved
  <2>2. Unlisted(q, p)' /\ Unawaited(q, p)' /\ Spares(q, p)'
    BY <1>1, <1>3, <2>1 DEF Beside, Unlisted, Unawaited, Spares, FreshApply, Bound
  <2> QED
    BY <1>1, <2>2, ApartKept DEF Beside
<1> QED
  BY <1>2, <1>4, <1>5 DEF Fits

\* A step inside a transaction.
Onward(p) ==
  /\ at[p] \in Holding /\ at'[p] \in Holding \ {"raise"}
  /\ inv'[p].kind = inv[p].kind /\ inv'[p].verb = inv[p].verb /\ inv'[p].root = inv[p].root
  /\ inv'[p].basis.id \in {inv[p].basis.id, None} /\ inv'[p].held = inv[p].held
  /\ \/ inv'[p].id = inv[p].id /\ (New(p)' => New(p))
     \/ inv'[p].id = allocated + 1 /\ Removing(p)
  /\ FreshApply(p) /\ at'[p] \in Committed => at[p] \in Committed
  /\ Removing(p) /\ at'[p] \in Superseding => at[p] \in Superseding
  /\ Alone(p)' => (Alone(p) /\ index' = index) \/ (New(p) /\ index' = inv[p].id)

LEMMA OnwardFits ==
  ASSUME IInv, NEW p \in Invocations, lease = p, Moved(p), Onward(p), Local(p)'
  PROVE  Fits(p)
<1>0. \A q \in Invocations : Beside(q, p) /\ Beside(p, q)
  BY DEF IInv
<1>1. ~ Waiting(p)' /\ (FreshApply(p)' <=> FreshApply(p)) /\ (Removing(p)' <=> Removing(p)) /\ at'[p] \in Holding
  BY DEF Onward, Waiting, Opened, FreshApply, Removing, Holding
<1>2. \A q \in Invocations \ {p} : Unawaited(p, q)'
  <2>1. TAKE q \in Invocations \ {p}
  <2>2. inv'[q] = inv[q] /\ (Waiting(q)' <=> Waiting(q))
    BY DEF Moved, Waiting, FreshApply
  <2>3. Alone(p) /\ Waiting(q) => inv[q].basis.id # index
    BY <1>0 DEF Beside, Unawaited
  <2>4. New(p) => inv[q].basis.id # inv[p].id
    BY <1>0 DEF Beside, Apart
  <2>5. Alone(p)' => (Alone(p) /\ index' = index) \/ (New(p) /\ index' = inv[p].id)
    BY DEF Onward
  <2>6. Alone(p)' /\ Waiting(q)' => inv'[q].basis.id # index'
    BY <2>2, <2>3, <2>4, <2>5
  <2> QED
    BY <2>6 DEF Unawaited
<1>3. \A q \in Invocations \ {p} : \A b \in Collected(q) : Spared(b, p)'
  <2>1. TAKE q \in Invocations \ {p}
  <2>2. TAKE b \in Collected(q)
  <2>3. Spared(b, p)
    BY <1>0 DEF Beside, Spares
  <2>4. FreshApply(p) => inv'[p].id = inv[p].id
    BY DEF Onward, FreshApply, Removing
  <2> QED
    BY <1>1, <2>3, <2>4 DEF Spared, Onward, Holding
<1>4. at'[p] \notin {"raise", "open", "decide", "reclaim", "collect", "complete"}
  BY DEF Onward, Holding
<1> QED
  BY <1>1, <1>2, <1>3, <1>4, OrdinaryFits DEF Onward

-----------------------------------------------------------------------------
(* Steps that change nothing durable *)

LEMMA Evidences ==
  /\ PristineEvidence \in Evidence /\ Running \in Evidence /\ PristineEvidence # Running
  /\ Running = [operation |-> "pending", ownership |-> "retained"]
  /\ PristineEvidence.operation = "none" /\ Running.operation = "pending"
  BY DEF PristineEvidence, Evidence, Running, EvidenceFor

LEMMA NothingRemembered ==
  /\ NoInvocation \in Memory /\ NoInvocation.held = {} /\ NoInvocation.claims = {}
  /\ NoInvocation.id = None /\ NoInvocation.root = None /\ NoInvocation.basis.id = None
<1>1. PristineEvidence \in Evidence /\ 0 \in 0..MaxRevision
  BY RegistrationAssumption DEF PristineEvidence, Evidence
<1> QED
  BY <1>1 DEF NoInvocation, Memory, Seen, Basis, Ids, Kind, None

\* An invocation that stops forgets everything.
LEMMA StopsGone ==
  ASSUME IInv, NEW p \in Invocations, Moved(p), at'[p] = "idle", inv'[p] = NoInvocation,
         allocated' \in Ids
  PROVE  Gone(p)
<1>1. None <= allocated'
  BY DEF Ids, Id, MaxId, None
<1> QED
  BY <1>1, NothingRemembered DEF Gone

\* One that only gives its evidence back keeps what it remembers.
LEMMA RestoresGone ==
  ASSUME IInv, NEW p \in Invocations, at'[p] = "restore", inv'[p] = inv[p], at[p] # "idle",
         allocated' = allocated
  PROVE  Gone(p)
  BY DEF IInv, Local, Remembers, Gone

\* Where a registration that did not happen leaves its invocation.
LEMMA UnregisteredFits ==
  ASSUME IInv, NEW p \in Invocations, NEW bound \in BOOLEAN, Unregistered(p, bound, inv[p]),
         bound => FreshApply(p) /\ New(p) /\ index' = index /\ Current' = Current,
         at[p] # "idle", allocated' = allocated
  PROVE  Moved(p) /\ Fits(p) /\ at'[p] \notin Holding
<1>0. Typed /\ inv[p] \in Memory /\ inv[p].raised \in BOOLEAN /\ allocated \in Ids
  BY DEF IInv, Typed, TypeOK, Memory, Ids
<1> DEFINE phase == IF bound THEN "unbind" ELSE IF inv[p].raised THEN "restore" ELSE "idle"
<1>1. phase \in Phase /\ To(p, phase, inv[p]) /\ phase \notin Holding
  BY DEF Unregistered, Phase, Holding
<1>2. /\ Moved(p) /\ at'[p] = phase
      /\ inv'[p] = IF phase = "idle" THEN NoInvocation ELSE inv[p]
  <2> HIDE DEF phase
  <2> QED
    BY <1>0, <1>1, ToMoves
<1>3. CASE phase = "unbind"
  <2>1. Unbinds(p)
    BY <1>2, <1>3 DEF Unbinds
  <2> QED
    BY <1>1, <1>2, <2>1, UnbindsFits
<1>4. allocated <= allocated' /\ allocated' \in Ids
  BY <1>0 DEF Ids, Id, None, MaxId
<1>5. CASE phase = "idle"
  <2>1. Gone(p)
    BY <1>2, <1>4, <1>5, StopsGone
  <2> QED
    BY <1>1, <1>2, <1>4, <2>1, GoneFits
<1>6. CASE phase = "restore"
  <2>1. Gone(p)
    BY <1>2, <1>6, RestoresGone
  <2> QED
    BY <1>1, <1>2, <1>4, <2>1, GoneFits
<1> QED
  BY <1>3, <1>5, <1>6

LEMMA StoppedFits ==
  ASSUME IInv, NEW p \in Invocations, NEW memory, To(p, "idle", memory),
         allocated' \in Ids, allocated <= allocated'
  PROVE  Moved(p) /\ Fits(p) /\ at'[p] = "idle"
<1>0. Typed
  BY DEF IInv
<1>1. To(p, "idle", NoInvocation)
  BY DEF To
<1>2. Moved(p) /\ at'[p] = "idle" /\ inv'[p] = NoInvocation
  BY <1>0, <1>1, NothingRemembered, ToMoves DEF Phase
<1> QED
  BY <1>2, StopsGone, GoneFits

\* The lease follows a step of one invocation.
LEMMA LeaseKept ==
  ASSUME IInv, NEW p \in Invocations, Moved(p),
         \/ lease' = lease /\ (at'[p] \in Holding <=> at[p] \in Holding)
         \/ lease' = (IF lease = p THEN Free ELSE lease) /\ at'[p] \notin Holding
         \/ lease = Free /\ lease' = p /\ at'[p] \in Holding
  PROVE  Leased'
  BY RegistrationAssumption DEF IInv, Leased, Moved

LEMMA StartKeeps ==
  ASSUME IInv, NEW p \in Invocations, NEW v \in Verb, Start(p, v)
  PROVE  IInv'
<1> DEFINE m == [NoInvocation EXCEPT !.verb = v, !.held = IF v = "destroy" THEN bindings ELSE {}]
<1>0. Typed /\ bindings \subseteq Id /\ allocated \in Ids
  BY DEF IInv, Typed, TypeOK, Ids
<1>1. m \in Memory
  BY <1>0, NothingRemembered DEF Memory
<1>2. m.basis.id = None /\ m.held \subseteq bindings /\ m.claims = {} /\ m.id = None /\ m.root = None /\ m.verb = v
  BY DEF NoInvocation
<1>3. To(p, "view", m)
  BY DEF Start
<1>4. Moved(p) /\ at'[p] = "view" /\ inv'[p] = m
  <2> HIDE DEF m
  <2> QED
    BY <1>0, <1>1, <1>3, ToMoves DEF Phase
<1>5. allocated' = allocated /\ allocated' \in Ids /\ allocated <= allocated' /\ None <= allocated'
  BY <1>0 DEF Start, Ids, Id, None, MaxId
<1>6. Gone(p)
  <2> HIDE DEF m
  <2> QED
    BY <1>2, <1>4, <1>5 DEF Gone
<1>7. Fits(p)
  BY <1>4, <1>5, <1>6, GoneFits
<1>8. Leased'
  BY <1>4, LeaseKept DEF Start, Holding
<1>9. Typed'
  BY <1>0, <1>4 DEF Start, Typed, TypeOK, Moved, records, holdings
<1> QED
  BY <1>4, <1>7, <1>8, <1>9, Aside DEF Start, records, holdings

LEMMA CrashKeeps ==
  ASSUME IInv, NEW p \in Invocations, Crash(p)
  PROVE  IInv'
<1>0. Typed /\ allocated \in Ids
  BY DEF IInv, Typed, TypeOK, Ids
<1>1. allocated' = allocated /\ allocated' \in Ids /\ allocated <= allocated'
  BY <1>0 DEF Crash, Ids, Id, None, MaxId
<1>2. Moved(p) /\ Fits(p) /\ at'[p] = "idle"
  BY <1>1, StoppedFits DEF Crash
<1>3. Leased'
  BY <1>2, LeaseKept DEF Crash, Unhold, Holding
<1>4. Typed'
  BY <1>0, <1>2 DEF Crash, Unhold, Typed, TypeOK, Moved, records, holdings
<1> QED
  BY <1>2, <1>3, <1>4, Aside DEF Crash, records, holdings

LEMMA ViewKeeps ==
  ASSUME IInv, NEW p \in Invocations, View(p)
  PROVE  IInv'
<1> DEFINE m == [inv[p] EXCEPT !.seen = [evidence |-> evidence, reserved |-> reserved, revision |-> revision]]
<1>0. /\ Typed /\ Recorded /\ inv[p] \in Memory
      /\ \A q \in Invocations : Local(q) /\ Beside(q, p) /\ Beside(p, q)
  BY DEF IInv, Typed
<1>1. m \in Memory
  BY <1>0 DEF Memory, Seen, Typed, TypeOK
<1>2. /\ m.seen.evidence = evidence /\ m.seen.reserved = reserved
      /\ m.basis = inv[p].basis /\ m.held = inv[p].held /\ m.claims = inv[p].claims
      /\ m.id = inv[p].id /\ m.root = inv[p].root /\ m.verb = inv[p].verb
  BY <1>0 DEF Memory
<1>3. To(p, "decide", m)
  BY DEF View
<1>4. at[p] = "view" /\ Moved(p) /\ at'[p] = "decide" /\ inv'[p] = m
  <2> HIDE DEF m
  <2> QED
    BY <1>0, <1>1, <1>3, ToMoves DEF Phase, View
<1> HIDE DEF m
<1>5. /\ UNCHANGED <<evidence, index, dir, op, reserved, bindings, revision, lease, effects, allocated>>
      /\ Current' = Current
  BY DEF View, records, holdings, Current
<1>6. Remembers(p)' /\ Finalizes(p)'
  BY <1>0, <1>2, <1>4, <1>5 DEF Local, Remembers, Handed, Finalizes
<1>7. ASSUME NEW b \in Collected(p)'
      PROVE  evidence = PristineEvidence /\ ~ reserved /\ b \in inv[p].held
  BY <1>2, <1>4 DEF Collected
<1>8. Collects(p)'
  BY <1>0, <1>5, <1>7 DEF Collects, Recorded, Allocated, Projected, Removed, Ended, Current, Indexed, Typed, TypeOK
<1>9. \A b \in Collected(p)' : \A q \in Invocations \ {p} : Spared(b, q)'
  <2>1. TAKE b \in Collected(p)'
  <2>2. TAKE q \in Invocations \ {p}
  <2>3. at'[q] = at[q] /\ inv'[q] = inv[q] /\ Works(q) /\ Supersedes(q) /\ Unlisted(q, p)
    BY <1>0, <1>4 DEF Moved, Local, Beside
  <2>4. evidence # Running /\ ~ reserved /\ b \in inv[p].held
    BY <1>7, Evidences
  <2>5. Doomed(q)'
    BY <1>5, <2>4 DEF Doomed
  <2>6. FreshApply(q) /\ at[q] \in {"raise", "open"} => inv[q].id # b
    BY <2>3, <2>4 DEF Unlisted
  <2>7. at[q] \notin Committed /\ ~ (Removing(q) /\ at[q] \in Superseding)
    BY <2>3, <2>4 DEF Works, Supersedes
  <2> QED
    BY <2>3, <2>5, <2>6, <2>7 DEF Spared, FreshApply, Removing
<1>10. Fits(p)
  BY <1>2, <1>4, <1>6, <1>8, <1>9, CollectorFits
<1>11. Leased'
  BY <1>4, <1>5, LeaseKept DEF Holding
<1>12. Typed'
  BY <1>0, <1>4, <1>5 DEF Typed, TypeOK, Moved
<1> QED
  BY <1>4, <1>5, <1>10, <1>11, <1>12, Aside

LEMMA ListKeeps ==
  ASSUME IInv, NEW p \in Invocations, List(p)
  PROVE  IInv'
<1> DEFINE m == [inv[p] EXCEPT !.held = bindings]
           phase == IF inv[p].kind # "fresh" THEN inv[p].kind
                    ELSE IF FreshApply(p) THEN "protect" ELSE "open"
<1>0. /\ Typed /\ Recorded /\ inv[p] \in Memory /\ bindings \subseteq Id
      /\ \A q \in Invocations : Local(q) /\ Beside(q, p) /\ Beside(p, q)
  BY DEF IInv, Typed, TypeOK
<1>1. m \in Memory
  BY <1>0 DEF Memory
<1>2. /\ m.held = bindings /\ m.basis = inv[p].basis /\ m.claims = inv[p].claims /\ m.kind = inv[p].kind
      /\ m.id = inv[p].id /\ m.root = inv[p].root /\ m.verb = inv[p].verb
  BY <1>0 DEF Memory
<1>3. at[p] = "list" /\ To(p, phase, m)
  BY DEF List
<1>4. \/ FreshApply(p) /\ phase = "protect"
      \/ Removing(p) /\ phase = "open"
      \/ inv[p].kind = "finalize" /\ phase = "finalize"
      \/ inv[p].kind = "release" /\ phase = "release"
  BY <1>0, <1>3 DEF Local, Kinded, FreshApply, Removing
<1>5. Moved(p) /\ at'[p] = phase /\ inv'[p] = m
  <2>1. phase \in Phase /\ phase # "idle"
    BY <1>4 DEF Phase
  <2> HIDE DEF m, phase
  <2> QED
    BY <1>0, <1>1, <1>3, <2>1, ToMoves
<1> HIDE DEF m, phase
<1>6. /\ UNCHANGED <<evidence, index, dir, op, reserved, bindings, revision, lease, effects, allocated>>
      /\ Current' = Current
  BY DEF List, records, holdings, Current
<1>7. /\ (FreshApply(p)' <=> FreshApply(p)) /\ (Removing(p)' <=> Removing(p)) /\ (Resuming(p)' <=> Resuming(p))
      /\ (Finalizing(p)' <=> Finalizing(p)) /\ ~ New(p)' /\ ~ Waiting(p)' /\ ~ Alone(p)'
  BY <1>2, <1>4, <1>5 DEF FreshApply, Removing, Resuming, Finalizing, New, Waiting, Alone, Opened, Committed, Committing,
     Superseding, Working
<1>8. Remembers(p)'
  BY <1>0, <1>2, <1>3, <1>5, <1>6 DEF Local, Remembers, Handed, Recorded, Allocated
<1>9. Kinded(p)' /\ Applying(p)' /\ Supersedes(p)' /\ Resumes(p)' /\ Finalizes(p)'
  <2>1. Kinded(p)'
    BY <1>4, <1>5, <1>7, <1>2 DEF Kinded, Committing, Opened, Finalizing, Removing
  <2>2. Applying(p)'
    BY <1>0, <1>2, <1>3, <1>4, <1>5, <1>6, <1>7 DEF Local, Applying, Committed, Committing, Opened, FreshApply, Removing
  <2>3. Supersedes(p)'
    BY <1>0, <1>2, <1>3, <1>4, <1>5, <1>6, <1>7 DEF Local, Supersedes, Superseding, Committing, Opened, FreshApply, Removing
  <2>4. Resumes(p)'
    BY <1>4, <1>5, <1>7 DEF Resumes, FreshApply, Removing, Resuming
  <2>5. Finalizes(p)'
    BY <1>0, <1>2, <1>3, <1>4, <1>5, <1>6, <1>7 DEF Local, Finalizes, FreshApply, Removing, Finalizing
  <2> QED
    BY <2>1, <2>2, <2>3, <2>4, <2>5
<1>10. Own(p)' /\ Bound(p)' /\ Works(p)' /\ Collects(p)'
  BY <1>4, <1>5, <1>7 DEF Own, Bound, Works, Collects, Collected, Committed, Committing, Working, FreshApply, Removing
<1>11. Local(p)'
  BY <1>8, <1>9, <1>10 DEF Local
<1>12. \A b : Spared(b, p)'
  BY <1>4, <1>5, <1>7 DEF Spared, Committed, Committing, Superseding, FreshApply, Removing
<1>16. Fits(p)
  BY <1>2, <1>4, <1>5, <1>7, <1>11, <1>12, OrdinaryFits DEF Unawaited, FreshApply, Removing
<1>17. Leased'
  BY <1>3, <1>4, <1>5, <1>6, LeaseKept DEF Holding
<1>18. Typed'
  BY <1>0, <1>5, <1>6 DEF Typed, TypeOK, Moved
<1> QED
  BY <1>5, <1>6, <1>16, <1>17, <1>18, Aside

LEMMA TurnedAwayKeeps ==
  ASSUME IInv, NEW p \in Invocations, TurnedAway(p)
  PROVE  IInv'
<1>0. /\ Typed /\ Recorded /\ inv[p] \in Memory /\ Local(p) /\ allocated \in Ids
      /\ \A q \in Invocations : Beside(q, p) /\ Beside(p, q)
  BY DEF IInv, Typed, TypeOK, Ids
<1>1. /\ UNCHANGED <<evidence, index, dir, op, reserved, bindings, revision, effects, allocated>>
      /\ Current' = Current /\ lease # p /\ at[p] \in Entry
  BY DEF TurnedAway, records, holdings, Current
<1>2. allocated' \in Ids /\ allocated <= allocated' /\ at[p] # "idle"
  BY <1>0, <1>1 DEF Ids, Id, None, MaxId, Entry
<1>3. /\ Moved(p) /\ Fits(p) /\ at'[p] \notin Holding
      /\ lease' = IF lease = p THEN Free ELSE lease
  <2>1. CASE at[p] \in {"protect", "open", "unbind"}
    <3>1. Unregistered(p, FALSE, inv[p])
      BY <2>1 DEF TurnedAway
    <3> QED
      BY <1>1, <1>2, <3>1, UnregisteredFits DEF Unregistered, Unhold
  <2>2. CASE at[p] = "register"
    <3>1. Unregistered(p, FreshApply(p), inv[p])
      BY <2>2 DEF TurnedAway
    <3>2. FreshApply(p) => New(p)
      BY <2>2 DEF New, Opened
    <3>3. FreshApply(p) \in BOOLEAN
      BY DEF FreshApply
    <3> QED
      BY <1>1, <1>2, <3>1, <3>2, <3>3, UnregisteredFits DEF Unregistered, Unhold
  <2>3. CASE at[p] \in {"finalize", "release", "complete", "pristine", "restore"}
    <3>1. To(p, "idle", inv[p]) /\ UNCHANGED lease
      BY <2>3 DEF TurnedAway
    <3> QED
      BY <1>1, <1>2, <3>1, StoppedFits DEF Holding
  <2>4. CASE at[p] \in {"reclaim", "collect"}
    <3>1. UNCHANGED lease /\ \E h \in SUBSET inv[p].held : To(p, "collect", [inv[p] EXCEPT !.held = h])
      <4>1. CASE at[p] = "reclaim"
        <5>1. UNCHANGED lease /\ To(p, "collect", inv[p])
          BY <4>1 DEF TurnedAway
        <5>2. inv[p] = [inv[p] EXCEPT !.held = inv[p].held]
          BY <1>0 DEF Memory
        <5> QED
          BY <5>1, <5>2
      <4>2. CASE at[p] = "collect"
        <5>1. UNCHANGED lease /\ \E b \in inv[p].held : To(p, "collect", [inv[p] EXCEPT !.held = inv[p].held \ {b}])
          BY <4>2 DEF TurnedAway
        <5> QED
          BY <5>1
      <4> QED
        BY <2>4, <4>1, <4>2
    <3>2. PICK h \in SUBSET inv[p].held : To(p, "collect", [inv[p] EXCEPT !.held = h])
      BY <3>1
    <3> DEFINE m == [inv[p] EXCEPT !.held = h]
    <3>3. m \in Memory
      BY <1>0 DEF Memory
    <3>4. /\ m.held = h /\ m.basis = inv[p].basis /\ m.claims = inv[p].claims /\ m.kind = inv[p].kind
          /\ m.id = inv[p].id /\ m.root = inv[p].root /\ m.verb = inv[p].verb
      BY <1>0 DEF Memory
    <3> HIDE DEF m
    <3>5. Moved(p) /\ at'[p] = "collect" /\ inv'[p] = m
      BY <1>0, <3>2, <3>3, ToMoves DEF Phase, m
    <3>6. Remembers(p)' /\ Finalizes(p)'
      BY <1>0, <1>1, <1>2, <3>4, <3>5 DEF Local, Remembers, Handed, Finalizes
    <3>7. Collected(p)' \subseteq Collected(p)
      BY <2>4, <3>4, <3>5 DEF Collected
    <3>8. Collects(p)'
      BY <1>0, <1>1, <3>7 DEF Local, Collects
    <3>9. \A b \in Collected(p)' : \A q \in Invocations \ {p} : Spared(b, q)'
      <4>1. TAKE b \in Collected(p)'
      <4>2. TAKE q \in Invocations \ {p}
      <4>3. at'[q] = at[q] /\ inv'[q] = inv[q] /\ Spared(b, q)
        BY <1>0, <3>5, <3>7 DEF Moved, Beside, Spares
      <4> QED
        BY <1>1, <4>3 DEF Spared, FreshApply, Removing, Waiting, Doomed, Claimed
    <3>10. Fits(p)
      BY <3>4, <3>5, <3>6, <3>8, <3>9, CollectorFits
    <3> QED
      BY <1>1, <3>1, <3>5, <3>10 DEF Holding
  <2> QED
    BY <1>1, <2>1, <2>2, <2>3, <2>4 DEF Entry
<1>4. Leased'
  BY <1>3, LeaseKept
<1>5. Typed'
  BY <1>0, <1>1, <1>3 DEF Typed, TypeOK, Moved
<1> QED
  BY <1>1, <1>3, <1>4, <1>5, Aside

\* What each decision has read.
LEMMA Decisions ==
  ASSUME IInv, NEW v \in Verb, NEW seen \in Seen, NEW kind,
         kind = IF index = None THEN DecideOverNone(v, seen) ELSE DecideOver(v, seen, Current)
  PROVE  /\ kind \in Kind \ {"none"}
         /\ kind = "fresh" /\ v = "apply" /\ index # None => Removed(Current)
         /\ kind = "fresh" /\ v = "destroy" =>
              index # None /\ ~ Ended(Current) /\ (Current.verb = "apply" \/ Current.state = "failed")
         /\ kind = "release" => index = None
         /\ kind = "finalize" => index # None /\ Current.block = "done"
         /\ kind = "resume" => index # None /\ Current.state # "done" /\ Current.block # "done"
         /\ kind = "settle" /\ v = "destroy" => seen.evidence = PristineEvidence /\ ~ seen.reserved
<1>0. Recorded /\ Typed
  BY DEF IInv
<1>1. CASE index = None
  BY <1>1 DEF DecideOverNone, Kind, Verb
<1>2. CASE index # None
  <2>1. index \in Id /\ Current = op[index] /\ Current \in Operation
    BY <1>0, <1>2 DEF Recorded, Indexed, Current, Typed, TypeOK
  <2>2. Current.state = "done" => Current.block = "done"
    BY <1>0, <1>2, <2>1 DEF Recorded, Allocated, Indexed
  <2>3. Current.verb \in Verb /\ kind = DecideOver(v, seen, Current)
    BY <1>2, <2>1 DEF Operation
  <2>4. Current.verb = "destroy" /\ Finalized(seen, Current) => seen.evidence = PristineEvidence /\ ~ seen.reserved
    BY DEF Finalized, EvidenceFor
  <2> HIDE DEF Current
  <2> QED
    BY <1>2, <2>2, <2>3, <2>4 DEF DecideOver, Kind, Verb, Removed, Ended
<1> QED
  BY <1>1, <1>2

LEMMA DecideKeeps ==
  ASSUME IInv, NEW p \in Invocations, Decide(p)
  PROVE  IInv'
<1> DEFINE v    == inv[p].verb
           kind == IF index = None THEN DecideOverNone(v, inv[p].seen)
                                   ELSE DecideOver(v, inv[p].seen, Current)
           m == [inv[p] EXCEPT !.kind = kind,
                               !.basis = [id |-> index, record |-> Current],
                               !.seen = IF kind = "release" \/ (kind = "fresh" /\ v = "apply") THEN @
                                        ELSE NoInvocation.seen,
                               !.id = IF kind \in {"resume", "finalize"} THEN index ELSE None,
                               !.root = IF index = None \/ (kind = "fresh" /\ v = "apply") THEN None
                                        ELSE Current.root]
           n == [m EXCEPT !.held = IF inv[p].finalized THEN {} ELSE @]
<1>0. /\ Typed /\ Recorded /\ inv[p] \in Memory /\ at[p] = "decide" /\ allocated \in Ids /\ index \in Ids
      /\ Local(p) /\ \A q \in Invocations : Local(q) /\ Beside(q, p) /\ Beside(p, q)
  BY DEF IInv, Typed, TypeOK, Decide, Ids
<1>1. v \in Verb /\ inv[p].seen \in Seen
  BY <1>0 DEF Local, Remembers, Memory
<1>2. /\ kind \in Kind \ {"none"}
      /\ kind = "fresh" /\ v = "apply" /\ index # None => Removed(Current)
      /\ kind = "fresh" /\ v = "destroy" =>
           index # None /\ ~ Ended(Current) /\ (Current.verb = "apply" \/ Current.state = "failed")
      /\ kind = "release" => index = None
      /\ kind = "finalize" => index # None /\ Current.block = "done"
      /\ kind = "resume" => index # None /\ Current.state # "done" /\ Current.block # "done"
      /\ kind = "settle" /\ v = "destroy" => inv[p].seen.evidence = PristineEvidence /\ ~ inv[p].seen.reserved
  <2> HIDE DEF v
  <2> QED
    BY <1>1, Decisions
<1>3. /\ index # None => Current \in Operation /\ Current.root \in Id /\ Current.root <= allocated
      /\ Current \in Operation \union {NoOperation} /\ None <= allocated /\ index <= allocated
  <2>1. index # None => index \in Id /\ op[index] \in Operation /\ op[index].root <= allocated
    BY <1>0 DEF Recorded, Allocated, Indexed, Typed, TypeOK, Ids
  <2>2. index # None => op[index].root \in Id
    BY <2>1 DEF Operation
  <2>3. None <= allocated /\ index <= allocated
    BY <1>0 DEF Recorded, Allocated, Ids, Id, None, MaxId
  <2> QED
    BY <2>1, <2>2, <2>3 DEF Current
<1> HIDE DEF kind
<1>4. m \in Memory /\ n \in Memory
  <2>1. NoInvocation.seen \in Seen
    BY NothingRemembered DEF Memory
  <2>2. [id |-> index, record |-> Current] \in Basis
    BY <1>0, <1>3 DEF Basis
  <2>3. m \in Memory
    BY <1>0, <1>1, <1>2, <1>3, <2>1, <2>2 DEF Memory, Ids
  <2> HIDE DEF m
  <2> QED
    BY <2>3 DEF Memory
<1>5. /\ m.kind = kind /\ m.verb = v /\ m.basis.id = index /\ m.basis.record = Current
      /\ m.held = inv[p].held /\ m.claims = inv[p].claims /\ m.id \in {index, None}
      /\ kind \in {"resume", "finalize"} => m.id = index
      /\ m.root = IF index = None \/ (kind = "fresh" /\ v = "apply") THEN None ELSE Current.root
  BY <1>0 DEF Memory
<1>6. /\ n.kind = kind /\ n.verb = v /\ n.basis.id = index /\ n.held \subseteq inv[p].held /\ n.claims = inv[p].claims
      /\ n.id = m.id /\ n.root = m.root
  <2> HIDE DEF m
  <2> QED
    BY <1>4, <1>5 DEF Memory
<1>7. \/ To(p, "idle", m) \/ To(p, "idle", n)
      \/ kind \in {"fresh", "release"} /\ To(p, "list", m)
      \/ kind = "finalize" /\ (To(p, "list", m) \/ To(p, "finalize", m) )
      \/ kind = "resume" /\ To(p, "open", m)
      \/ kind = "settle" /\ v = "destroy" /\ To(p, "reclaim", n)
  <2>1. /\ CASE kind = "fresh" /\ v = "apply" ->
                  IF applies < MaxApplies THEN To(p, "list", m) /\ applies' = applies + 1
                                          ELSE To(p, "idle", m) /\ UNCHANGED applies
             [] (kind = "fresh" /\ v = "destroy") \/ kind = "release" -> To(p, "list", m) /\ UNCHANGED applies
             [] kind = "finalize" ->
                  /\ To(p, IF inv[p].finalized THEN "idle"
                           ELSE IF Current.verb = "destroy" THEN "list" ELSE "finalize", m)
                  /\ UNCHANGED applies
             [] kind = "resume" -> To(p, "open", m) /\ UNCHANGED applies
             [] kind = "settle" ->
                  /\ To(p, IF v = "apply" THEN "idle" ELSE "reclaim", n)
                  /\ UNCHANGED applies
             [] kind = "refuse" -> To(p, "idle", m) /\ UNCHANGED applies
    BY DEF Decide, kind
  <2> HIDE DEF m, n
  <2>2. CASE kind = "fresh"
    BY <1>1, <2>1, <2>2 DEF Verb
  <2>3. CASE kind = "release"
    BY <2>1, <2>3
  <2>4. CASE kind = "finalize"
    BY <2>1, <2>4
  <2>5. CASE kind = "resume"
    BY <2>1, <2>5
  <2>6. CASE kind = "settle"
    BY <1>1, <2>1, <2>6 DEF Verb
  <2>7. CASE kind = "refuse"
    BY <2>1, <2>7
  <2> QED
    BY <1>2, <2>2, <2>3, <2>4, <2>5, <2>6, <2>7 DEF Kind
<1> HIDE DEF m, n
<1>8. /\ UNCHANGED <<evidence, index, dir, op, reserved, bindings, revision, lease, effects, allocated>>
      /\ Current' = Current
  BY DEF Decide, records, holdings, Current
<1>9. allocated' \in Ids /\ allocated <= allocated'
  BY <1>0, <1>8 DEF Ids, Id, None, MaxId
<1>10. Moved(p) /\ Fits(p) /\ at'[p] \notin Holding
  <2>1. CASE To(p, "idle", m) \/ To(p, "idle", n)
    BY <1>9, <2>1, StoppedFits DEF Holding
  <2>2. ASSUME inv'[p] \in {m, n}, at'[p] # "idle" PROVE Remembers(p)'
    BY <1>0, <1>1, <1>3, <1>5, <1>6, <1>8, <2>2 DEF Local, Remembers, Handed
  <2>3. CASE kind = "settle" /\ v = "destroy" /\ To(p, "reclaim", n)
    <3>1. Moved(p) /\ at'[p] = "reclaim" /\ inv'[p] = n
      BY <1>0, <1>4, <2>3, ToMoves DEF Phase
    <3>2. Collected(p)' \subseteq Collected(p)
      BY <1>0, <1>2, <1>6, <2>3, <3>1 DEF Collected
    <3>3. Collects(p)' /\ Finalizes(p)'
      BY <1>0, <1>6, <1>8, <2>3, <3>1, <3>2 DEF Local, Collects, Finalizes, Finalizing
    <3>4. \A b \in Collected(p)' : \A q \in Invocations \ {p} : Spared(b, q)'
      <4>1. TAKE b \in Collected(p)'
      <4>2. TAKE q \in Invocations \ {p}
      <4>3. at'[q] = at[q] /\ inv'[q] = inv[q] /\ Spared(b, q)
        BY <1>0, <3>1, <3>2 DEF Moved, Beside, Spares
      <4> QED
        BY <1>8, <4>3 DEF Spared, FreshApply, Removing, Waiting, Doomed, Claimed
    <3> QED
      BY <1>6, <2>2, <3>1, <3>3, <3>4, CollectorFits DEF Holding
  <2>4. CASE \/ kind \in {"fresh", "release"} /\ To(p, "list", m)
             \/ kind = "finalize" /\ (To(p, "list", m) \/ To(p, "finalize", m))
             \/ kind = "resume" /\ To(p, "open", m)
    <3>1. /\ Moved(p) /\ inv'[p] = m
          /\ \/ kind \in {"fresh", "release"} /\ at'[p] = "list"
             \/ kind = "finalize" /\ at'[p] \in {"list", "finalize"}
             \/ kind = "resume" /\ at'[p] = "open"
      BY <1>0, <1>4, <2>4, ToMoves DEF Phase
    <3>2. /\ FreshApply(p)' <=> (kind = "fresh" /\ v = "apply")
          /\ Removing(p)' <=> (kind = "fresh" /\ v = "destroy")
          /\ Resuming(p)' <=> kind = "resume"
          /\ Finalizing(p)' <=> kind = "finalize"
      BY <1>5, <3>1 DEF FreshApply, Removing, Resuming, Finalizing
    <3>3. ~ New(p)' /\ ~ Waiting(p)' /\ ~ Alone(p)'
      BY <3>1, <3>2 DEF New, Waiting, Alone, Opened, Committed, Committing, Superseding, Working
    <3>4. Kinded(p)'
      BY <1>1, <1>5, <3>1, <3>2 DEF Kinded, Committing, Opened, Verb
    <3>5. Applying(p)'
      BY <1>2, <1>5, <1>8, <3>1, <3>2 DEF Applying, Committed, Committing, Opened
    <3>6. Supersedes(p)'
      BY <1>2, <1>5, <1>8, <3>1, <3>2 DEF Supersedes, Superseding, Committing, Opened
    <3>7. Resumes(p)' /\ Finalizes(p)'
      BY <1>2, <1>5, <1>8, <3>1, <3>2 DEF Resumes, Finalizes
    <3>8. Own(p)' /\ Bound(p)' /\ Works(p)' /\ Collects(p)'
      BY <3>1, <3>2, <3>3 DEF Own, Bound, Works, Collects, Collected, Committed, Committing, Working
    <3>9. Local(p)'
      BY <2>2, <3>1, <3>4, <3>5, <3>6, <3>7, <3>8 DEF Local
    <3>10. \A b : Spared(b, p)'
      BY <3>1, <3>2, <3>3 DEF Spared, Committed, Committing, Superseding
    <3> QED
      BY <1>5, <3>1, <3>2, <3>3, <3>9, <3>10, OrdinaryFits DEF Unawaited, Holding
  <2> QED
    BY <1>7, <2>1, <2>3, <2>4
<1>11. Leased'
  BY <1>0, <1>8, <1>10, LeaseKept DEF Holding
<1>12. Typed'
  BY <1>0, <1>8, <1>10 DEF Typed, TypeOK, Moved
<1> QED
  BY <1>8, <1>10, <1>11, <1>12, Aside

LEMMA RegisterKeeps ==
  ASSUME IInv, NEW p \in Invocations, Register(p)
  PROVE  IInv'
<1> DEFINE m == [inv[p] EXCEPT !.known = Claimed]
<1>0. /\ Typed /\ Recorded /\ inv[p] \in Memory /\ at[p] = "register" /\ lease = Free /\ lease' = p /\ Verified(p)
      /\ Local(p) /\ \A q \in Invocations : Local(q) /\ Beside(q, p) /\ Beside(p, q)
  BY DEF IInv, Typed, Register
<1>1. /\ UNCHANGED <<evidence, index, dir, op, reserved, bindings, revision, effects, allocated>>
      /\ Current' = Current
  BY DEF Register, records, holdings, Current
<1>2. /\ m \in Memory /\ m.kind = inv[p].kind /\ m.verb = inv[p].verb /\ m.id = inv[p].id /\ m.root = inv[p].root
      /\ m.basis = inv[p].basis /\ m.held = inv[p].held /\ m.claims = inv[p].claims /\ m.seen = inv[p].seen
  BY <1>0 DEF Memory, Claimed
<1>3. VerifyBasis(p) /\ (FreshApply(p) => Reprove(p))
  BY <1>0 DEF Verified, Reprove, VerifyFreshApply
<1>4. \/ FreshApply(p) /\ To(p, "reserve", inv[p])
      \/ Removing(p) /\ Current.block = "running" /\ To(p, "resolve", inv[p])
      \/ Removing(p) /\ To(p, "announce", inv[p])
      \/ Resuming(p) /\ To(p, "reraise", m)
  <2>1. FreshApply(p) \/ Removing(p) \/ Resuming(p)
    BY <1>0 DEF Local, Kinded, Opened
  <2>2. CASE FreshApply(p)
    BY <2>2 DEF Register, FreshApply
  <2>3. CASE Removing(p)
    <3>1. index # None
      BY <1>0, <1>3, <2>3 DEF Local, Supersedes, Opened, VerifyBasis
    <3>2. Current \in Operation
      BY <1>0, <3>1 DEF Current, Typed, TypeOK, Recorded, Indexed
    <3>3. Unproved(Current.block) => Current.block = "running"
      BY <3>2 DEF Operation, Unproved
    <3>4. To(p, IF Unproved(Current.block) THEN "resolve" ELSE "announce", inv[p])
      BY <2>3 DEF Register, Removing, FreshApply
    <3> QED
      BY <2>3, <3>3, <3>4
  <2>4. CASE Resuming(p)
    BY <2>4 DEF Register, Resuming
  <2> QED
    BY <2>1, <2>2, <2>3, <2>4
<1> HIDE DEF m
<1>5. /\ Moved(p) /\ inv'[p] \in {m, inv[p]}
      /\ \/ FreshApply(p) /\ at'[p] = "reserve"
         \/ Removing(p) /\ Current.block = "running" /\ at'[p] = "resolve"
         \/ Removing(p) /\ at'[p] = "announce"
         \/ Resuming(p) /\ at'[p] = "reraise"
  BY <1>0, <1>2, <1>4, ToMoves DEF Phase
<1>6. /\ inv'[p].kind = inv[p].kind /\ inv'[p].verb = inv[p].verb /\ inv'[p].id = inv[p].id
      /\ inv'[p].root = inv[p].root /\ inv'[p].basis = inv[p].basis /\ inv'[p].held = inv[p].held
      /\ inv'[p].claims = inv[p].claims /\ inv'[p].seen = inv[p].seen
  BY <1>2, <1>5
<1>7. /\ (FreshApply(p)' <=> FreshApply(p)) /\ (Removing(p)' <=> Removing(p)) /\ (Resuming(p)' <=> Resuming(p))
      /\ (FreshApply(p) => ~ Removing(p) /\ ~ Resuming(p)) /\ (Removing(p) => ~ Resuming(p)) /\ ~ Waiting(p)'
  BY <1>5, <1>6 DEF FreshApply, Removing, Resuming, Waiting, Opened
<1>8. ASSUME FreshApply(p)
      PROVE  /\ New(p) /\ ~ Doomed(p) /\ inv[p].id \in bindings /\ evidence = Running
             /\ index = inv[p].basis.id /\ revision = inv[p].seen.revision
  <2>1. New(p) /\ Waiting(p)
    BY <1>0, <1>8 DEF New, Waiting, Opened
  <2>2. inv[p].id \in inv[p].claims /\ (inv[p].id \in bindings \/ Doomed(p))
    BY <1>0, <1>8, <2>1 DEF Local, Bound
  <2>3. /\ index = inv[p].basis.id /\ revision = inv[p].seen.revision /\ evidence = Running
        /\ Claimed = inv[p].claims
    BY <1>3, <1>8 DEF Reprove, VerifyFreshApply, VerifyBasis
  <2>4. dir[inv[p].id] # "absent"
    BY <2>2, <2>3 DEF Claimed
  <2> QED
    BY <2>1, <2>2, <2>3, <2>4 DEF Doomed
<1>9. ASSUME ~ FreshApply(p)
      PROVE  /\ index # None /\ index = inv[p].basis.id /\ Current = inv[p].basis.record
             /\ inv[p].root = Current.root /\ ~ Removed(Current) /\ ~ Ended(Current)
             /\ Current.root \in bindings /\ reserved
             /\ Removing(p) => Current.verb = "apply" \/ Current.state = "failed"
             /\ Resuming(p) => Current.state # "done" /\ Current.block # "done" /\ inv[p].id = index
  <2>1. Removing(p) \/ Resuming(p)
    BY <1>5, <1>9
  <2>2. index = inv[p].basis.id /\ Current = inv[p].basis.record
    BY <1>3 DEF VerifyBasis
  <2>3. CASE Removing(p)
    <3>1. index # None /\ inv[p].root = Current.root /\ ~ Ended(Current) /\ (Current.verb = "apply" \/ Current.state = "failed")
      BY <1>0, <2>2, <2>3 DEF Local, Supersedes, Opened
    <3> QED
      BY <1>0, <1>7, <2>2, <2>3, <3>1 DEF Recorded, HoldingsKept, Removed, Ended
  <2>4. CASE Resuming(p)
    <3>1. /\ index # None /\ inv[p].root = Current.root /\ inv[p].id = index
          /\ Current.state # "done" /\ Current.block # "done"
      BY <1>0, <2>2, <2>4 DEF Local, Resumes, Opened
    <3> QED
      BY <1>0, <1>7, <2>2, <2>4, <3>1 DEF Recorded, HoldingsKept, Removed, Ended
  <2> QED
    BY <2>1, <2>3, <2>4
<1>10. Local(p)'
  <2>1. Remembers(p)' /\ Kinded(p)'
    BY <1>0, <1>1, <1>5, <1>6, <1>7 DEF Local, Remembers, Handed, Kinded, Committing, Opened
  <2>2. Applying(p)' /\ Own(p)'
    BY <1>0, <1>1, <1>5, <1>6, <1>7, <1>8 DEF Local, Applying, Own, New, Opened, Committed, Committing
  <2>3. Supersedes(p)'
    <3>1. SUFFICES ASSUME Removing(p) PROVE Supersedes(p)'
      BY <1>7 DEF Supersedes
    <3>2. at'[p] \in {"resolve", "announce"} /\ (at'[p] = "resolve" => Current.block = "running")
      BY <1>5, <1>7, <3>1
    <3>3. at'[p] = "resolve" => Current.state # "done"
      <4>1. index # None => (Current.state = "done" => Current.block = "done")
        BY <1>0 DEF Recorded, Allocated, Indexed, Current, Typed, TypeOK
      <4> QED
        BY <1>7, <1>9, <3>1, <3>2, <4>1
    <3> QED
      BY <1>1, <1>6, <1>7, <1>9, <3>1, <3>2, <3>3 DEF Supersedes, Superseding, Committing, Opened
  <2>4. Resumes(p)'
    BY <1>1, <1>5, <1>6, <1>7, <1>9 DEF Resumes, Opened
  <2>5. Bound(p)' /\ Finalizes(p)' /\ Collects(p)'
    BY <1>5, <1>7 DEF Bound, Finalizes, Collects, Collected
  <2>6. Works(p)'
    BY <1>1, <1>5, <1>7, <1>8 DEF Works, Working, Committed, Committing
  <2> QED
    BY <2>1, <2>2, <2>3, <2>4, <2>5, <2>6 DEF Local
<1>11. \A q \in Invocations \ {p} : Unawaited(p, q)'
  <2>1. TAKE q \in Invocations \ {p}
  <2>2. SUFFICES ASSUME ~ FreshApply(p), Waiting(q) PROVE inv[q].basis.id # index
    BY <1>1, <1>5, <1>7 DEF Unawaited, Alone, Moved, Waiting, FreshApply, Working, Superseding, Committing
  <2>3. Applying(q) /\ FreshApply(q) /\ at[q] \in Opened
    BY <1>0, <2>2 DEF Local, Waiting
  <2> QED
    BY <1>9, <2>2, <2>3 DEF Applying
<1>12. \A q \in Invocations \ {p} : \A b \in Collected(q) : Spared(b, p)'
  <2>1. TAKE q \in Invocations \ {p}
  <2>2. TAKE b \in Collected(q)
  <2>3. Spared(b, p) /\ (index # None /\ Current.root = b => Ended(Current))
    BY <1>0 DEF Beside, Spares, Local, Collects
  <2>4. FreshApply(p) => inv[p].id # b
    BY <1>0, <1>8, <2>3 DEF Spared, Waiting, Opened
  <2>5. Removing(p) => inv[p].root # b
    BY <1>7, <1>9, <2>3
  <2> QED
    BY <1>6, <1>7, <2>4, <2>5 DEF Spared
<1>13. New(p)' => New(p)
  BY <1>5, <1>7, <1>8 DEF New, Opened, Committed, Committing
<1>14. at'[p] \notin {"raise", "open", "decide", "reclaim", "collect", "complete"} /\ at'[p] \in Holding
  BY <1>5 DEF Holding
<1>15. Fits(p)
  BY <1>5, <1>6, <1>7, <1>10, <1>11, <1>12, <1>13, <1>14, OrdinaryFits
<1>16. Leased'
  BY <1>0, <1>5, <1>14, LeaseKept
<1>17. Typed'
  BY <1>0, <1>1, <1>5 DEF Typed, TypeOK, Moved
<1> QED
  BY <1>1, <1>5, <1>15, <1>16, <1>17, Aside

-----------------------------------------------------------------------------
(* What durable steps leave the others *)

LEMMA InTransaction ==
  ASSUME IInv, NEW p \in Invocations, at[p] \in Holding
  PROVE  lease = p /\ lease \in {p, Free} /\ at[p] # "idle"
  BY DEF IInv, Leased, Holding

\* Evidence and reservations: whoever waits is doomed or finds the evidence it raised.
LEMMA EvidenceCourteous ==
  ASSUME IInv, NEW p \in Invocations, Moved(p), UNCHANGED <<index, op, dir, bindings>>,
         \A q \in Invocations \ {p} : Waiting(q) =>
           \/ evidence' # Running \/ evidence' = evidence
           \/ index # inv[q].basis.id \/ ~ (Claimed \subseteq inv[q].claims)
  PROVE  RecordsKept(p) /\ Courteous(p)
<1>1. RecordsKept(p)
  BY DEF RecordsKept, Current
<1>2. ASSUME NEW q \in Invocations \ {p}, Waiting(q), Doomed(q) PROVE Doomed(q)'
  BY <1>2 DEF Doomed, Moved, Claimed
<1>3. \A q \in Invocations : Bound(q)
  BY DEF IInv, Local
<1> QED
  BY <1>1, <1>2, <1>3 DEF Courteous, Bound, Waiting, Opened

\* Records: whoever waits is as doomed as it was.
LEMMA RecordsCourteous ==
  ASSUME IInv, NEW p \in Invocations, Moved(p), UNCHANGED <<evidence, index, dir, bindings>>
  PROVE  Courteous(p)
<1>1. ASSUME NEW q \in Invocations \ {p}, Waiting(q), Doomed(q) PROVE Doomed(q)'
  BY <1>1 DEF Doomed, Moved, Claimed
<1>2. \A q \in Invocations : Bound(q)
  BY DEF IInv, Local
<1> QED
  BY <1>1, <1>2 DEF Courteous, Bound, Waiting, Opened

\* Bindings: the one given back or made is nobody's that is not doomed.
LEMMA BindingsCourteous ==
  ASSUME IInv, NEW p \in Invocations, Moved(p), UNCHANGED <<evidence, index, op, dir>>, NEW b \in Ids,
         bindings' \in {bindings, bindings \ {b}, bindings \union {b}},
         \A q \in Invocations \ {p} : Waiting(q) /\ inv[q].id = b =>
            Doomed(q) /\ (at[q] = "open" => bindings' \subseteq bindings)
  PROVE  RecordsKept(p) /\ Courteous(p)
<1>1. RecordsKept(p)
  BY DEF RecordsKept, Current
<1>2. ASSUME NEW q \in Invocations \ {p}, Waiting(q), Doomed(q) PROVE Doomed(q)'
  BY <1>2 DEF Doomed, Moved, Claimed
<1>3. \A q \in Invocations : Bound(q)
  BY DEF IInv, Local
<1> QED
  BY <1>1, <1>2, <1>3 DEF Courteous, Bound, Waiting, Opened

\* Directories, beside pristine or other evidence: one that is nobody's who
\* waits is written, or all that hold nothing are reclaimed.
LEMMA DirectoriesCourteous ==
  ASSUME IInv, NEW p \in Invocations, Moved(p), UNCHANGED bindings,
         evidence' \in {evidence, PristineEvidence},
         NEW i \in Ids, NEW d \in {"absent", "claim", "plan", "operation"},
         \/ i \in Id /\ dir' = [dir EXCEPT ![i] = d] /\ (d = "absent" => dir[i] = "absent")
         \/ dir' \in Reclaim(dir, i),
         \A q \in Invocations \ {p} : Waiting(q) => inv[q].id # i,
         index' = index \/ (New(p) /\ index' = inv[p].id)
  PROVE  Courteous(p)
<1>0. /\ Typed /\ \A q \in Invocations : Bound(q) /\ inv[q].id \in Ids /\ inv[q].claims \subseteq Id
      /\ \A q \in Invocations : Beside(p, q)
  BY DEF IInv, Local, Typed, Memory
<1>1. ASSUME NEW q \in Invocations \ {p}, Waiting(q)
      PROVE  /\ dir'[inv[q].id] \in {dir[inv[q].id], "absent"}
             /\ Doomed(q) => Doomed(q)'
  <2>1. /\ inv'[q] = inv[q] /\ inv[q].id \in inv[q].claims /\ inv[q].id \in Id /\ inv[q].id # i
        /\ dir[inv[q].id] \in {"claim", "absent"} /\ dir \in [Id -> {"absent", "claim", "plan", "operation"}]
    BY <1>0, <1>1 DEF Moved, Bound, Typed, TypeOK
  <2>2. evidence # Running => evidence' # Running
    BY Evidences
  <2>3. index # inv[q].basis.id => index' # inv[q].basis.id
    BY <1>0 DEF Beside, Apart
  <2>4. CASE i \in Id /\ dir' = [dir EXCEPT ![i] = d] /\ (d = "absent" => dir[i] = "absent")
    <3>1. dir'[inv[q].id] = dir[inv[q].id] /\ Claimed \subseteq Claimed'
      BY <2>1, <2>4 DEF Claimed
    <3> QED
      BY <2>1, <2>2, <2>3, <3>1 DEF Doomed
  <2>5. CASE dir' = dir
    BY <2>1, <2>2, <2>3, <2>5 DEF Doomed, Claimed
  <2>6. CASE dir' = [j \in Id |-> IF dir[j] = "claim" /\ j # i THEN "absent" ELSE dir[j]]
    BY <2>1, <2>6 DEF Doomed
  <2> QED
    BY <2>4, <2>5, <2>6 DEF Reclaim
<1> QED
  BY <1>0, <1>1 DEF Courteous, Bound, Waiting, Opened

-----------------------------------------------------------------------------
(* A fresh apply protects and binds *)

\* Whatever an invocation may give back was handed out.
LEMMA CollectedHanded ==
  ASSUME IInv, NEW q \in Invocations, NEW b \in Collected(q)
  PROVE  b \in Ids /\ b <= allocated /\ b # allocated + 1
<1>1. Remembers(q) /\ inv[q].held \subseteq Id /\ inv[q].root \in Ids /\ allocated \in Ids
  BY DEF IInv, Local, Typed, TypeOK, Memory, Ids
<1>2. b \in Ids /\ b <= allocated
  BY <1>1 DEF Collected, Remembers, Handed, Ids
<1> QED
  BY <1>1, <1>2 DEF Ids, Id, None, MaxId

LEMMA ClaimKeeps ==
  ASSUME IInv, NEW p \in Invocations, Claim(p)
  PROVE  IInv'
<1> DEFINE id == allocated + 1
<1>0. /\ Typed /\ Recorded /\ inv[p] \in Memory /\ at[p] = "protect" /\ lease = Free /\ VerifyFreshApply(p)
      /\ allocated \in Ids /\ id \in Id /\ allocated' = id
      /\ Local(p) /\ \A q \in Invocations : Local(q) /\ Beside(q, p) /\ Beside(p, q)
  BY DEF IInv, Typed, TypeOK, Claim, Verified, Ids
<1>1. allocated' \in Ids /\ allocated <= allocated' /\ \A i \in Ids : i <= allocated => i # id /\ i <= allocated'
  BY <1>0 DEF Ids, Id, None, MaxId
<1>2. PICK r \in Written, raised \in BOOLEAN :
        /\ dir' = [dir EXCEPT ![id] = Becomes(r, "absent", "claim")]
        /\ LET m == [inv[p] EXCEPT !.id = id, !.root = id, !.known = Claimed \union {id}, !.raised = raised]
           IN IF r = "ok" THEN To(p, "raise", m) /\ lease' = p ELSE Unregistered(p, FALSE, m)
  BY DEF Claim
<1> DEFINE m == [inv[p] EXCEPT !.id = id, !.root = id, !.known = Claimed \union {id}, !.raised = raised]
<1>3. /\ m \in Memory /\ m.id = id /\ m.root = id /\ m.raised = raised
      /\ m.kind = inv[p].kind /\ m.verb = inv[p].verb /\ m.basis = inv[p].basis /\ m.held = inv[p].held
      /\ m.claims = inv[p].claims /\ m.seen = inv[p].seen
  BY <1>0 DEF Memory, Claimed, Ids
<1>4. \/ r = "ok" /\ To(p, "raise", m) /\ lease' = p
      \/ r # "ok" /\ To(p, IF raised THEN "restore" ELSE "idle", m) /\ lease' = Free
  BY <1>0, <1>2, <1>3, RegistrationAssumption DEF Unregistered, Unhold
<1>5. UNCHANGED <<evidence, index, op, reserved, bindings, revision, effects>> /\ Current' = Current
  BY DEF Claim, holdings, Current
<1> HIDE DEF m
<1>6. /\ Moved(p) /\ inv'[p] = IF at'[p] = "idle" THEN NoInvocation ELSE m
      /\ \/ at'[p] = "raise" /\ r = "ok" /\ lease' = p
         \/ at'[p] \in {"restore", "idle"} /\ lease' = Free
  BY <1>0, <1>3, <1>4, ToMoves DEF Phase
<1>7. dir[id] = "absent" /\ Becomes(r, "absent", "claim") \in {"absent", "claim"}
  <2>1. dir[id] # "absent" => id <= allocated
    BY <1>0 DEF Recorded, Allocated
  <2> QED
    BY <1>0, <1>1, <2>1 DEF Becomes, Ids
<1>8. index \in Ids /\ index <= allocated /\ index <= allocated'
  BY <1>0, <1>1 DEF Recorded, Allocated, Typed, TypeOK, Ids
<1>9. Typed'
  BY <1>0, <1>2, <1>5, <1>6, <1>7 DEF Typed, TypeOK, Moved
<1>10. Recorded'
  <2>1. Allocated'
    <3>1. \A i \in Id : i <= allocated => i <= allocated'
      BY <1>1 DEF Ids
    <3>2. \A i \in Id : dir'[i] # "absent" => i = id \/ dir[i] # "absent"
      BY <1>0, <1>2 DEF Typed, TypeOK
    <3>3. id <= allocated'
      BY <1>0 DEF Id
    <3>4. bindings \subseteq Id /\ \A i \in Id : op[i] # NoOperation => op[i].root \in Id
      BY <1>0 DEF Typed, TypeOK, Operation
    <3> QED
      BY <1>0, <1>5, <1>8, <3>1, <3>2, <3>3, <3>4 DEF Recorded, Allocated, Handed
  <2> QED
    BY <1>0, <1>5, <2>1 DEF Recorded, Indexed, Projected, HoldingsKept, InputFrozen, EffectsOwned
<1>11. RecordsKept(p)
  BY <1>5 DEF RecordsKept
<1>12. \A q \in Invocations : /\ inv[q].id # id /\ inv[q].root # id /\ inv[q].basis.id # id
                             /\ id \notin inv[q].held /\ id \notin inv[q].claims
  <2>1. TAKE q \in Invocations
  <2>2. /\ Remembers(q) /\ inv[q].id \in Ids /\ inv[q].root \in Ids /\ inv[q].basis.id \in Ids
        /\ inv[q].held \subseteq Ids /\ inv[q].claims \subseteq Ids
    BY <1>0 DEF Local, Typed, Memory, Basis, Ids
  <2> HIDE DEF id
  <2> QED
    BY <1>1, <2>2 DEF Remembers, Handed
<1>13. Courteous(p)
  <2>1. \A q \in Invocations \ {p} : Waiting(q) => inv[q].id # id
    BY <1>12
  <2>2. id \in Ids
    BY <1>0 DEF Ids
  <2>3. PICK d \in {"absent", "claim"} : dir' = [dir EXCEPT ![id] = d]
    BY <1>2, <1>7
  <2> HIDE DEF id
  <2> QED
    BY <1>0, <1>5, <1>6, <1>7, <2>1, <2>2, <2>3, DirectoriesCourteous
<1>14. Fits(p)
  <2>1. CASE at'[p] = "idle"
    BY <1>1, <1>6, <2>1, StopsGone, GoneFits
  <2>2. CASE at'[p] = "restore"
    <3>1. Gone(p)
      <4>1. inv[p].verb \in Verb /\ id <= allocated'
        BY <1>0 DEF Local, Remembers, Id
      <4> QED
        BY <1>3, <1>6, <2>2, <4>1 DEF Gone
    <3> QED
      BY <1>1, <1>6, <3>1, GoneFits
  <2>3. CASE at'[p] = "raise"
    <3>1. inv'[p] = m /\ FreshApply(p) /\ FreshApply(p)' /\ ~ Removing(p)' /\ ~ Waiting(p)' /\ ~ Alone(p)' /\ New(p)'
      BY <1>0, <1>3, <1>6, <2>3 DEF Local, Kinded, FreshApply, Removing, Waiting, Opened, Alone, Working, New
    <3>2. Remembers(p)'
      <4>1. /\ Remembers(p) /\ inv[p].basis.id \in Ids /\ inv[p].held \subseteq Ids /\ inv[p].claims \subseteq Ids
        BY <1>0 DEF Local, Memory, Basis, Ids
      <4>2. id <= allocated'
        BY <1>0 DEF Id
      <4> QED
        BY <1>0, <1>1, <1>3, <2>3, <3>1, <4>1, <4>2 DEF Remembers, Handed
    <3>3. Kinded(p)' /\ Applying(p)'
      BY <1>0, <1>3, <1>5, <2>3, <3>1 DEF Local, Kinded, Applying, Committing, Committed, Opened
    <3>4. Own(p)'
      <4>1. index # id /\ id # None
        BY <1>0, <1>1, <1>8 DEF Id, None
      <4>2. index # None => Current.root # id
        <5>1. index # None => Current.root \in Id /\ Current.root <= allocated
          BY <1>0 DEF Recorded, Allocated, Indexed, Current, Typed, TypeOK, Operation
        <5> QED
          BY <1>1, <5>1 DEF Ids
      <4> QED
        BY <1>3, <1>5, <3>1, <4>1, <4>2 DEF Own
    <3>5. Bound(p)'
      <4>1. dir'[id] = "claim"
        BY <1>0, <1>2, <1>6, <2>3 DEF Becomes, Typed, TypeOK
      <4>2. id \notin bindings
        BY <1>0, <1>1 DEF Recorded, Allocated, Handed, Typed, TypeOK, Ids
      <4> QED
        BY <1>3, <1>5, <2>3, <3>1, <4>1, <4>2 DEF Bound
    <3>6. Supersedes(p)' /\ Resumes(p)' /\ Finalizes(p)' /\ Works(p)' /\ Collects(p)' /\ Collected(p)' = {}
      BY <2>3, <3>1 DEF Supersedes, Resumes, Finalizes, Works, Collects, Collected, Working, Committed, Committing, Opened
    <3>7. Local(p)'
      BY <3>2, <3>3, <3>4, <3>5, <3>6 DEF Local
    <3>8. ASSUME NEW q \in Invocations PROVE Beside(p, q)'
      <4>1. Unlisted(p, q)'
        BY <1>3, <1>6, <1>12, <3>1 DEF Unlisted, Moved
      <4> QED
        BY <1>3, <3>1, <3>6, <4>1, ApartKept, <1>6 DEF Beside, Unawaited, Spares
    <3>9. ASSUME NEW q \in Invocations \ {p} PROVE Beside(q, p)'
      <4>1. at'[q] = at[q] /\ inv'[q] = inv[q] /\ Beside(q, p)
        BY <1>0, <1>6 DEF Moved
      <4>2. Unlisted(q, p)' /\ Unawaited(q, p)'
        BY <1>3, <3>1, <4>1 DEF Beside, Unlisted, Unawaited, FreshApply
      <4>3. Collected(q)' = Collected(q)
        BY <4>1 DEF Collected
      <4>4. Spares(q, p)'
        BY <1>3, <3>1, <4>3, CollectedHanded DEF Spares, Spared
      <4> QED
        BY <1>3, <1>6, <3>1, <4>2, <4>4, ApartKept DEF Beside
    <3> QED
      BY <3>7, <3>8, <3>9 DEF Fits
  <2> QED
    BY <1>6, <2>1, <2>2, <2>3
<1>15. Leased'
  BY <1>0, <1>6, LeaseKept, RegistrationAssumption DEF Holding
<1> QED
  BY <1>0, <1>1, <1>6, <1>9, <1>10, <1>11, <1>13, <1>14, <1>15, Together

LEMMA RaiseKeeps ==
  ASSUME IInv, NEW p \in Invocations, Raise(p)
  PROVE  IInv'
<1> DEFINE m == [inv[p] EXCEPT !.claims = Claimed]
<1>0. /\ Typed /\ Recorded /\ inv[p] \in Memory /\ at[p] = "raise" /\ FreshApply(p) /\ New(p)
      /\ Local(p) /\ \A q \in Invocations : Local(q) /\ Beside(q, p) /\ Beside(p, q)
  BY DEF IInv, Typed, Raise, Local, Kinded, New
<1>1. lease = p /\ lease \in {p, Free} /\ at[p] # "idle"
  BY <1>0, InTransaction DEF Holding
<1>2. PICK r : /\ evidence' = Becomes(r, evidence, Running)
               /\ IF r = "ok" THEN To(p, "open", m) /\ Unhold(p) ELSE Unregistered(p, FALSE, inv[p])
  BY DEF Raise
<1>3. /\ UNCHANGED <<index, dir, op, reserved, bindings, revision, effects, allocated>>
      /\ Current' = Current /\ Claimed' = Claimed /\ evidence' \in {evidence, Running}
  BY <1>2 DEF Raise, records, holdings, Current, Claimed, Becomes
<1>4. /\ m \in Memory /\ m.id = inv[p].id /\ m.root = inv[p].root /\ m.kind = inv[p].kind /\ m.verb = inv[p].verb
      /\ m.basis = inv[p].basis /\ m.held = inv[p].held /\ m.claims = Claimed
  BY <1>0 DEF Memory, Claimed
<1>5. allocated \in Ids /\ allocated' \in Ids /\ allocated <= allocated'
  BY <1>0, <1>3 DEF Typed, TypeOK, Ids, Id, None, MaxId
<1>6. Moved(p) /\ Fits(p) /\ at'[p] \notin Holding /\ lease' = IF lease = p THEN Free ELSE lease
  <2>1. CASE r # "ok"
    BY <1>1, <1>2, <1>3, <2>1, UnregisteredFits DEF Unregistered, Unhold
  <2>2. CASE r = "ok"
    <3> HIDE DEF m
    <3>1. Moved(p) /\ at'[p] = "open" /\ inv'[p] = m /\ lease' = IF lease = p THEN Free ELSE lease
      BY <1>0, <1>2, <1>4, <2>2, ToMoves DEF Phase, Unhold
    <3>2. FreshApply(p)' /\ ~ Removing(p)' /\ ~ Resuming(p)' /\ Waiting(p)' /\ ~ Alone(p)' /\ New(p)'
      BY <1>0, <1>4, <3>1 DEF FreshApply, Removing, Resuming, Waiting, Opened, Alone, Working, New
    <3>3. dir[inv[p].id] = "claim" /\ inv[p].id \in Claimed /\ Claimed \subseteq Id
      <4>1. dir[inv[p].id] = "claim" /\ inv[p].id \in Ids /\ inv[p].id # None
        BY <1>0 DEF Local, Bound, Own, Memory
      <4> QED
        BY <4>1 DEF Claimed, Ids
    <3>4. Remembers(p)'
      <4>1. Handed(Claimed)
        BY <1>0 DEF Recorded, Allocated, Handed, Claimed
      <4> QED
        BY <1>0, <1>3, <1>4, <3>1, <4>1 DEF Local, Remembers, Handed
    <3>5. Kinded(p)' /\ Applying(p)' /\ Own(p)'
      BY <1>0, <1>3, <1>4, <3>1, <3>2 DEF Local, Kinded, Applying, Own, Committing, Committed, Opened
    <3>6. Bound(p)'
      BY <1>0, <1>3, <1>4, <3>1, <3>2, <3>3 DEF Local, Bound
    <3>7. Supersedes(p)' /\ Resumes(p)' /\ Finalizes(p)' /\ Works(p)' /\ Collects(p)' /\ Collected(p)' = {}
      BY <3>1, <3>2 DEF Supersedes, Resumes, Finalizes, Works, Collects, Collected, Working, Committed, Committing
    <3>8. Local(p)'
      BY <3>4, <3>5, <3>6, <3>7 DEF Local
    <3>9. ASSUME NEW q \in Invocations PROVE Beside(p, q)'
      <4>1. Unlisted(p, q)'
        BY <1>0, <1>4, <3>1 DEF Beside, Unlisted, Moved
      <4> QED
        BY <1>0, <1>4, <3>1, <3>2, <3>7, <4>1, ApartKept DEF Beside, Unawaited, Spares
    <3>10. ASSUME NEW q \in Invocations \ {p} PROVE Beside(q, p)'
      <4>1. at'[q] = at[q] /\ inv'[q] = inv[q] /\ Beside(q, p) /\ at[q] \notin Holding
        BY <1>0, <1>1, <3>1, Elsewhere DEF Moved, IInv
      <4>2. Unlisted(q, p)' /\ Unawaited(q, p)'
        BY <1>4, <3>1, <4>1 DEF Beside, Unlisted, Unawaited, FreshApply, Alone, Holding, Working, Superseding, Committing
      <4>3. Collected(q)' = Collected(q)
        BY <4>1 DEF Collected
      <4>4. \A b \in Collected(q) : inv[p].id # b
        BY <1>0 DEF Beside, Spares, Spared
      <4>5. Spares(q, p)'
        BY <1>4, <3>1, <3>2, <4>3, <4>4 DEF Spares, Spared
      <4> QED
        BY <1>0, <1>4, <3>1, <3>2, <4>2, <4>5, ApartKept DEF Beside
    <3> QED
      BY <3>1, <3>8, <3>9, <3>10 DEF Fits, Holding
  <2> QED
    BY <2>1, <2>2
<1>7. RecordsKept(p) /\ Courteous(p)
  <2>1. ASSUME NEW q \in Invocations \ {p}, Waiting(q) PROVE ~ (Claimed \subseteq inv[q].claims)
    <3>1. inv[p].id \notin inv[q].claims
      BY <1>0, <2>1 DEF Beside, Unlisted
    <3>2. dir[inv[p].id] = "claim" /\ inv[p].id \in Id
      BY <1>0 DEF Local, Bound, Own, Memory, Ids
    <3> QED
      BY <3>1, <3>2 DEF Claimed
  <2> QED
    BY <1>3, <1>6, <2>1, EvidenceCourteous
<1>8. Typed'
  BY <1>0, <1>1, <1>3, <1>6, Evidences DEF Typed, TypeOK, Moved
<1>9. Recorded'
  BY <1>0, <1>3, Evidences DEF Recorded, Allocated, Handed, Indexed, Projected, HoldingsKept, InputFrozen, EffectsOwned
<1>10. Leased'
  BY <1>6, LeaseKept
<1> QED
  BY <1>1, <1>5, <1>6, <1>7, <1>8, <1>9, <1>10, Together

LEMMA OpenKeeps ==
  ASSUME IInv, NEW p \in Invocations, Open(p)
  PROVE  IInv'
<1>0. /\ Typed /\ Recorded /\ inv[p] \in Memory /\ at[p] = "open" /\ lease = Free /\ lease \in {p, Free}
      /\ Local(p) /\ \A q \in Invocations : Local(q) /\ Beside(q, p) /\ Beside(p, q)
  BY DEF IInv, Typed, Open
<1>1. PICK r \in Written, reopened \in BOOLEAN :
        /\ bindings' = IF FreshApply(p) THEN Becomes(r, bindings, bindings \union {inv[p].id}) ELSE bindings
        /\ IF r = "ok" /\ reopened THEN To(p, "register", inv[p]) /\ UNCHANGED lease
                                   ELSE Unregistered(p, r = "ok" /\ FreshApply(p), inv[p])
  <2>1. PICK r \in IF FreshApply(p) THEN Written ELSE {"ok"} : \E reopened \in BOOLEAN :
          /\ bindings' = IF FreshApply(p) THEN Becomes(r, bindings, bindings \union {inv[p].id}) ELSE bindings
          /\ IF r = "ok" /\ reopened THEN To(p, "register", inv[p]) /\ UNCHANGED lease
                                     ELSE Unregistered(p, r = "ok" /\ FreshApply(p), inv[p])
    BY Zenon DEF Open
  <2>2. r \in Written
    BY <2>1 DEF Written
  <2> QED
    BY <2>1, <2>2
<1>2. /\ UNCHANGED <<evidence, index, dir, op, reserved, revision, effects, allocated>>
      /\ Current' = Current /\ Claimed' = Claimed
  BY DEF Open, records, Current, Claimed
<1>3. FreshApply(p) => New(p) /\ Waiting(p) /\ inv[p].id # None /\ inv[p].id \in Id
  <2>1. FreshApply(p) => New(p) /\ Waiting(p)
    BY <1>0 DEF New, Opened, Waiting
  <2>2. inv[p].id \in Ids
    BY <1>0 DEF Memory
  <2> QED
    BY <1>0, <2>1, <2>2 DEF Local, Own, Ids
<1>4. /\ bindings' \in {bindings, bindings \union {inv[p].id}} /\ bindings \subseteq bindings'
      /\ ~ FreshApply(p) => bindings' = bindings
      /\ FreshApply(p) /\ r = "ok" => inv[p].id \in bindings'
  BY <1>1 DEF Becomes
<1>5. allocated \in Ids /\ allocated' \in Ids /\ allocated <= allocated'
  BY <1>0, <1>2 DEF Typed, TypeOK, Ids, Id, None, MaxId
<1>6. Moved(p) /\ Fits(p) /\ at'[p] \notin Holding /\ lease' = Free
  <2>1. CASE ~ (r = "ok" /\ reopened)
    <3>1. Unregistered(p, r = "ok" /\ FreshApply(p), inv[p])
      BY <1>1, <2>1
    <3>2. (r = "ok" /\ FreshApply(p)) \in BOOLEAN
      OBVIOUS
    <3>3. lease' = Free
      BY <1>0, <3>1, RegistrationAssumption DEF Unregistered, Unhold
    <3> QED
      BY <1>0, <1>2, <1>3, <3>1, <3>2, <3>3, UnregisteredFits
  <2>2. CASE r = "ok" /\ reopened
    <3>1. Moved(p) /\ at'[p] = "register" /\ inv'[p] = inv[p] /\ lease' = Free
      BY <1>0, <1>1, <2>2, ToMoves DEF Phase
    <3>2. /\ (FreshApply(p)' <=> FreshApply(p)) /\ (Removing(p)' <=> Removing(p)) /\ (Resuming(p)' <=> Resuming(p))
          /\ (New(p)' <=> New(p)) /\ (Waiting(p)' <=> Waiting(p)) /\ ~ Alone(p)'
      BY <1>0, <3>1 DEF FreshApply, Removing, Resuming, New, Waiting, Alone, Opened, Committed, Committing, Superseding, Working
    <3>3. Remembers(p)' /\ Kinded(p)' /\ Applying(p)' /\ Own(p)'
      BY <1>0, <1>2, <3>1, <3>2 DEF Local, Remembers, Handed, Kinded, Applying, Own, Opened, Committed, Committing
    <3>4. Bound(p)'
      BY <1>0, <1>2, <1>4, <2>2, <3>1, <3>2 DEF Local, Bound
    <3>5. Supersedes(p)' /\ Resumes(p)' /\ Finalizes(p)' /\ Works(p)' /\ Collects(p)'
      BY <1>0, <1>2, <3>1, <3>2 DEF Local, Supersedes, Resumes, Finalizes, Works, Collects, Collected, Opened, Committed,
         Committing, Superseding, Working
    <3>6. Local(p)'
      BY <3>3, <3>4, <3>5 DEF Local
    <3>7. \A q \in Invocations \ {p} : \A b \in Collected(q) : Spared(b, p)'
      <4>1. TAKE q \in Invocations \ {p}
      <4>2. TAKE b \in Collected(q)
      <4>3. Spared(b, p)
        BY <1>0 DEF Beside, Spares
      <4> QED
        BY <1>0, <3>1, <3>2, <4>3 DEF Spared, Waiting, Committed, Committing, Superseding
    <3>8. \A q \in Invocations \ {p} : Unawaited(p, q)'
      BY <3>2 DEF Unawaited
    <3> QED
      BY <1>0, <3>1, <3>2, <3>6, <3>7, <3>8, OrdinaryFits DEF Holding
  <2> QED
    BY <2>1, <2>2
<1>7. RecordsKept(p) /\ Courteous(p)
  <2>1. FreshApply(p) => \A q \in Invocations \ {p} : Waiting(q) => inv[q].id # inv[p].id
    BY <1>0, <1>3 DEF Beside, Apart, New, Waiting
  <2>2. CASE FreshApply(p)
    <3>1. \A q \in Invocations \ {p} : Waiting(q) /\ inv[q].id = inv[p].id =>
            Doomed(q) /\ (at[q] = "open" => bindings' \subseteq bindings)
      BY <2>1, <2>2
    <3>2. bindings' \in {bindings, bindings \ {inv[p].id}, bindings \union {inv[p].id}}
      BY <1>4
    <3> QED
      <4>1. inv[p].id \in Ids
        BY <1>0 DEF Memory
      <4> QED
        BY <1>2, <1>6, <3>1, <3>2, <4>1, BindingsCourteous
  <2>3. CASE ~ FreshApply(p)
    BY <1>2, <1>4, <1>6, <2>3, EvidenceCourteous
  <2> QED
    BY <2>2, <2>3
<1>8. Typed'
  <2>1. bindings' \subseteq Id
    BY <1>0, <1>3, <1>4 DEF Typed, TypeOK
  <2> QED
    BY <1>0, <1>2, <1>6, <2>1 DEF Typed, TypeOK, Moved
<1>9. Recorded'
  <2>1. Handed(bindings)'
    BY <1>0, <1>2, <1>4 DEF Handed, Recorded, Allocated, Local, Remembers
  <2> QED
    BY <1>0, <1>2, <1>4, <2>1 DEF Recorded, Allocated, Handed, Indexed, Projected, HoldingsKept, InputFrozen, EffectsOwned
<1>10. Leased'
  BY <1>0, <1>6, LeaseKept, RegistrationAssumption DEF Holding
<1> QED
  BY <1>0, <1>5, <1>6, <1>7, <1>8, <1>9, <1>10, Together

LEMMA ReserveKeeps ==
  ASSUME IInv, NEW p \in Invocations, Reserve(p)
  PROVE  IInv'
<1>0. /\ Typed /\ Recorded /\ inv[p] \in Memory /\ at[p] = "reserve" /\ FreshApply(p) /\ New(p) /\ Local(p)
  BY DEF IInv, Typed, Reserve, Local, Kinded, New, Committed
<1>1. lease = p /\ lease \in {p, Free} /\ at[p] # "idle"
  BY <1>0, InTransaction DEF Holding
<1>2. PICK r : /\ reserved' = Becomes(r, reserved, TRUE)
               /\ IF r = "ok" THEN To(p, "plan", inv[p]) /\ UNCHANGED lease ELSE Unregistered(p, TRUE, inv[p])
  BY DEF Reserve
<1>3. /\ UNCHANGED <<evidence, index, dir, op, bindings, revision, effects, allocated>>
      /\ Current' = Current /\ (reserved => reserved') /\ (r = "ok" => reserved') /\ reserved' \in BOOLEAN
  BY <1>0, <1>2 DEF Reserve, records, Current, Becomes, Typed, TypeOK
<1>4. allocated \in Ids /\ allocated' \in Ids /\ allocated <= allocated'
  BY <1>0, <1>3 DEF Typed, TypeOK, Ids, Id, None, MaxId
<1>5. /\ Moved(p) /\ Fits(p)
      /\ (lease' = p /\ at'[p] \in Holding) \/ (lease' = Free /\ at'[p] \notin Holding)
  <2>1. CASE r # "ok"
    <3>1. Unregistered(p, TRUE, inv[p])
      BY <1>2, <2>1
    <3> QED
      BY <1>0, <1>1, <1>3, <3>1, UnregisteredFits DEF Unregistered, Unhold
  <2>2. CASE r = "ok"
    <3>1. Moved(p) /\ at'[p] = "plan" /\ inv'[p] = inv[p] /\ lease' = p
      BY <1>0, <1>1, <1>2, <2>2, ToMoves DEF Phase
    <3>2. FreshApply(p)' /\ ~ Removing(p)' /\ ~ Resuming(p)' /\ ~ Waiting(p)' /\ ~ Alone(p)' /\ New(p)'
      BY <1>0, <3>1 DEF FreshApply, Removing, Resuming, Waiting, Opened, Alone, Working, New, Committed, Committing
    <3>3. Remembers(p)' /\ Kinded(p)' /\ Applying(p)' /\ Own(p)'
      BY <1>0, <1>3, <3>1, <3>2 DEF Local, Remembers, Handed, Kinded, Applying, Own, Opened, Committed, Committing
    <3>4. Bound(p)' /\ Supersedes(p)' /\ Resumes(p)' /\ Finalizes(p)' /\ Collects(p)'
      BY <3>1, <3>2 DEF Bound, Supersedes, Resumes, Finalizes, Collects, Collected
    <3>5. Works(p)'
      BY <1>0, <1>3, <2>2, <3>1, <3>2 DEF Local, Works, Applying, Own, Working, Committed, Committing
    <3>6. Local(p)'
      BY <3>3, <3>4, <3>5 DEF Local
    <3>7. Onward(p)
      BY <1>0, <3>1, <3>2 DEF Onward, Holding, Committed, Removing, FreshApply
    <3> QED
      BY <1>1, <3>1, <3>6, <3>7, OnwardFits DEF Holding
  <2> QED
    BY <2>1, <2>2
<1>6. RecordsKept(p) /\ Courteous(p)
  BY <1>3, <1>5, EvidenceCourteous
<1>7. Typed'
  BY <1>0, <1>1, <1>3, <1>5 DEF Typed, TypeOK, Moved
<1>8. Recorded'
  <2>1. evidence # PristineEvidence
    BY <1>0, Evidences DEF Local, Works, Committed
  <2> QED
    BY <1>0, <1>3, <2>1 DEF Recorded, Allocated, Handed, Indexed, Projected, HoldingsKept, InputFrozen, EffectsOwned
<1>9. Leased'
  BY <1>0, <1>1, <1>5, LeaseKept DEF Holding
<1> QED
  BY <1>1, <1>4, <1>5, <1>6, <1>7, <1>8, <1>9, Together

-----------------------------------------------------------------------------
(* The superseded operation *)

\* The record of the operation the index names is written, its identity kept.
Rewritten ==
  /\ index \in Id /\ index' = index /\ op' \in [Id -> Operation \union {NoOperation}]
  /\ Current \in Operation /\ Current' \in Operation /\ op[index] = Current /\ op'[index] = Current'
  /\ Current'.verb = Current.verb /\ Current'.root = Current.root
  /\ Current'.planned = Current.planned /\ Current'.revision = Current.revision
  /\ \A i \in Id \ {index} : op'[i] = op[i]

LEMMA StateWritten ==
  ASSUME IInv, index # None, index' = index, NEW s \in {"running", "unknown", "failed", "done"},
         op' = [op EXCEPT ![index].state = s]
  PROVE  Rewritten /\ Current'.state = s /\ Current'.block = Current.block /\ (s = Current.state => Current' = Current)
<1>1. /\ index \in Id /\ op \in [Id -> Operation \union {NoOperation}] /\ Current = op[index]
      /\ Current' = op'[index] /\ op[index] \in Operation
  BY DEF IInv, Typed, TypeOK, Recorded, Indexed, Current
<1>2. op'[index] = [op[index] EXCEPT !.state = s] /\ \A i \in Id \ {index} : op'[i] = op[i]
  BY <1>1
<1>3. /\ op'[index] \in Operation /\ op'[index].state = s /\ op'[index].block = op[index].block
      /\ op'[index].verb = op[index].verb /\ op'[index].root = op[index].root
      /\ op'[index].planned = op[index].planned /\ op'[index].revision = op[index].revision
      /\ (s = op[index].state => op'[index] = op[index])
  BY <1>1, <1>2 DEF Operation
<1>4. op' \in [Id -> Operation \union {NoOperation}]
  BY <1>1, <1>2, <1>3
<1> QED
  BY <1>1, <1>2, <1>3, <1>4 DEF Rewritten

LEMMA BlockWritten ==
  ASSUME IInv, index # None, index' = index, NEW b \in {"pending", "running", "failed", "done"},
         op' = [op EXCEPT ![index].block = b]
  PROVE  Rewritten /\ Current'.block = b /\ Current'.state = Current.state
<1>1. /\ index \in Id /\ op \in [Id -> Operation \union {NoOperation}] /\ Current = op[index]
      /\ Current' = op'[index] /\ op[index] \in Operation
  BY DEF IInv, Typed, TypeOK, Recorded, Indexed, Current
<1>2. op'[index] = [op[index] EXCEPT !.block = b] /\ \A i \in Id \ {index} : op'[i] = op[i]
  BY <1>1
<1>3. /\ op'[index] \in Operation /\ op'[index].block = b /\ op'[index].state = op[index].state
      /\ op'[index].verb = op[index].verb /\ op'[index].root = op[index].root
      /\ op'[index].planned = op[index].planned /\ op'[index].revision = op[index].revision
  BY <1>1, <1>2 DEF Operation
<1>4. op' \in [Id -> Operation \union {NoOperation}]
  BY <1>1, <1>2, <1>3
<1> QED
  BY <1>1, <1>2, <1>3, <1>4 DEF Rewritten

LEMMA RewrittenRecorded ==
  ASSUME IInv, Rewritten, UNCHANGED <<evidence, dir, reserved, bindings, revision, allocated>>,
         Current'.state = "done" => Current'.block = "done",
         EffectsOwned', Ended(Current') => Current'.root \notin effects',
         evidence = PristineEvidence => Removed(Current'),
         evidence.operation = "applied" => Current'.verb = "apply" /\ Current'.state = "done",
         ~ Ended(Current') => Current'.root \in bindings /\ reserved,
         Current'.verb = "apply" /\ Current'.state # "done" => Current'.revision = revision
  PROVE  Recorded'
<1>0. Recorded /\ index # None /\ index' # None /\ index \in Id /\ index' = index
  BY DEF IInv, Rewritten, Id, None
<1>1. op[index] # NoOperation /\ op'[index] # NoOperation
  BY <1>0 DEF Recorded, Indexed, Rewritten, Operation, NoOperation, Verb
<1>2. Allocated'
  BY <1>0, <1>1 DEF Recorded, Allocated, Handed, Rewritten
<1>3. Indexed' /\ Projected' /\ HoldingsKept'
  BY <1>0, <1>1 DEF Recorded, Indexed, Projected, HoldingsKept, Rewritten, Ended
<1>4. InputFrozen'
  BY <1>0, <1>1 DEF Recorded, InputFrozen, Rewritten
<1> QED
  BY <1>2, <1>3, <1>4 DEF Recorded

\* What is known while an operation is superseded.
LEMMA WhileSuperseding ==
  ASSUME IInv, NEW p \in Invocations, at[p] \in {"resolve", "record", "reproject", "announce"}
  PROVE  /\ Removing(p) /\ ~ FreshApply(p) /\ ~ Resuming(p) /\ lease = p /\ at[p] # "idle"
         /\ index # None /\ index \in Id /\ Current = op[index] /\ Current \in Operation
         /\ inv[p].root = Current.root /\ reserved /\ inv[p].root \in bindings
         /\ Current.state = "done" => Current.block = "done"
         /\ \A q \in Invocations \ {p} : Waiting(q) => inv[q].basis.id # index
         /\ EffectsOwned /\ allocated \in Ids /\ inv[p] \in Memory /\ Typed /\ Recorded /\ Local(p)
<1>1. Local(p) /\ Typed /\ Recorded /\ \A q \in Invocations \ {p} : Unawaited(p, q)
  BY DEF IInv, Beside
<1>2. Removing(p) /\ ~ FreshApply(p) /\ ~ Resuming(p)
  BY <1>1 DEF Local, Kinded, Removing, FreshApply, Resuming
<1>3. index # None /\ inv[p].root = Current.root /\ reserved /\ inv[p].root \in bindings
  BY <1>1, <1>2 DEF Local, Supersedes, Superseding
<1>4. index \in Id /\ Current = op[index] /\ Current \in Operation /\ (Current.state = "done" => Current.block = "done")
  BY <1>1, <1>3 DEF Current, Typed, TypeOK, Recorded, Indexed, Allocated
<1>5. lease = p /\ at[p] # "idle"
  BY InTransaction DEF Holding
<1>6. Alone(p)
  BY <1>2 DEF Alone, Superseding
<1> QED
  BY <1>1, <1>2, <1>3, <1>4, <1>5, <1>6 DEF Unawaited, Typed, TypeOK, Recorded, Indexed, Ids

\* A step that goes on superseding.
LEMMA SupersedingFits ==
  ASSUME IInv, NEW p \in Invocations, at[p] \in {"resolve", "record", "reproject", "announce"},
         at'[p] \in {"resolve", "record", "reproject", "announce"}, Moved(p), inv'[p] = inv[p],
         index' = index, Current'.root = Current.root, reserved', inv[p].root \in bindings',
         allocated' = allocated,
         at'[p] \in {"resolve", "record"} => Current'.state # "done",
         at'[p] = "resolve" => Current'.block = "running"
  PROVE  Fits(p)
<1>0. /\ Removing(p) /\ ~ FreshApply(p) /\ ~ Resuming(p) /\ lease = p /\ index # None /\ inv[p].root = Current.root /\ Local(p)
      /\ at[p] # "idle"
  BY WhileSuperseding
<1>1. Removing(p)' /\ ~ FreshApply(p)' /\ ~ Resuming(p)' /\ ~ Waiting(p)' /\ ~ New(p)'
  BY <1>0 DEF Removing, FreshApply, Resuming, Waiting, New, Committing
<1>2. Remembers(p)' /\ Kinded(p)'
  BY <1>0, <1>1 DEF Local, Remembers, Handed, Kinded, Committing, Opened
<1>3. Applying(p)' /\ Own(p)' /\ Bound(p)' /\ Resumes(p)' /\ Finalizes(p)' /\ Works(p)' /\ Collects(p)'
  BY <1>1 DEF Applying, Own, Bound, Resumes, Finalizes, Works, Collects, Collected, Working, Committed, Committing
<1>4. Supersedes(p)'
  BY <1>0, <1>1 DEF Supersedes, Superseding, Committing, Opened
<1>5. Local(p)'
  BY <1>2, <1>3, <1>4 DEF Local
<1>6. Onward(p)
  <2>1. at[p] \in Holding /\ at'[p] \in Holding \ {"raise"} /\ at[p] \in Superseding
    BY DEF Holding, Superseding
  <2>2. Alone(p)
    BY <1>0, <2>1 DEF Alone
  <2> QED
    BY <1>0, <1>1, <2>1, <2>2 DEF Onward
<1> QED
  BY <1>0, <1>5, <1>6, OnwardFits

LEMMA ResolveKeeps ==
  ASSUME IInv, NEW p \in Invocations, Resolve(p)
  PROVE  IInv'
<1>0. at[p] = "resolve" /\ Current.state # "done" /\ Current.block = "running"
  <2>1. at[p] = "resolve" /\ Local(p)
    BY DEF IInv, Resolve
  <2> QED
    BY <2>1, WhileSuperseding DEF Local, Supersedes
<1>1. /\ Removing(p) /\ ~ FreshApply(p) /\ ~ Resuming(p) /\ lease = p /\ at[p] # "idle"
      /\ index # None /\ index \in Id /\ Current = op[index] /\ Current \in Operation
      /\ inv[p].root = Current.root /\ reserved /\ inv[p].root \in bindings
      /\ EffectsOwned /\ allocated \in Ids /\ inv[p] \in Memory /\ Typed /\ Recorded
  BY <1>0, WhileSuperseding
<1>2. PICK r \in Written :
        IF Current.verb = "apply" /\ Current.state = "failed"
        THEN /\ op' = [op EXCEPT ![index].state = Becomes(r, op[index].state, "running")]
             /\ IF r = "ok" THEN To(p, "reproject", inv[p]) /\ UNCHANGED lease
                            ELSE Unregistered(p, FALSE, inv[p])
        ELSE /\ \E b \in Observable(Current) : op' = [op EXCEPT ![index].block = Becomes(r, op[index].block, b)]
             /\ IF r = "ok" THEN To(p, "record", inv[p]) /\ UNCHANGED lease
                            ELSE Unregistered(p, FALSE, inv[p])
  BY DEF Resolve
<1>3. UNCHANGED <<evidence, index, dir, reserved, bindings, revision, effects, allocated>>
  BY DEF Resolve, holdings
<1>4. /\ Rewritten /\ ~ Ended(Current) /\ ~ Removed(Current) /\ Current'.state # "done"
      /\ Ended(Current') => Current'.root \notin effects
  <2>1. CASE Current.verb = "apply" /\ Current.state = "failed"
    <3> DEFINE s == Becomes(r, op[index].state, "running")
    <3>1. op' = [op EXCEPT ![index].state = s] /\ s \in {"failed", "running"}
      BY <1>1, <1>2, <2>1 DEF Becomes
    <3> HIDE DEF s
    <3>2. Rewritten /\ Current'.state = s /\ Current'.block = Current.block
      BY <1>1, <1>3, <3>1, StateWritten
    <3> QED
      BY <1>0, <3>1, <3>2, <2>1 DEF Ended, Removed, Rewritten
  <2>2. CASE ~ (Current.verb = "apply" /\ Current.state = "failed")
    <3>1. PICK b \in Observable(Current) : op' = [op EXCEPT ![index].block = Becomes(r, op[index].block, b)]
      BY <1>2, <2>2
    <3> DEFINE c == Becomes(r, op[index].block, b)
    <3>2. /\ op' = [op EXCEPT ![index].block = c] /\ c \in {"running", "failed", "done"}
          /\ c = "done" => (Current.verb = "apply" <=> Current.root \in effects)
      BY <1>0, <1>1, <3>1 DEF Becomes, Observable
    <3> HIDE DEF c
    <3>3. Rewritten /\ Current'.block = c /\ Current'.state = Current.state
      BY <1>1, <1>3, <3>2, BlockWritten
    <3> QED
      BY <1>0, <3>2, <3>3 DEF Ended, Removed, Rewritten
  <2> QED
    BY <2>1, <2>2
<1>5. /\ Moved(p) /\ Fits(p)
      /\ (lease' = p /\ at'[p] \in Holding) \/ (lease' = Free /\ at'[p] \notin Holding)
  <2>1. CASE r # "ok"
    <3>1. Unregistered(p, FALSE, inv[p])
      BY <1>2, <2>1
    <3> QED
      BY <1>1, <1>3, <3>1, UnregisteredFits DEF Unregistered, Unhold
  <2>2. CASE r = "ok"
    <3>1. Moved(p) /\ at'[p] \in {"record", "reproject"} /\ inv'[p] = inv[p] /\ lease' = p
      BY <1>1, <1>2, <2>2, ToMoves DEF Phase
    <3>2. Fits(p)
      BY <1>0, <1>1, <1>3, <1>4, <3>1, SupersedingFits DEF Rewritten
    <3> QED
      BY <3>1, <3>2 DEF Holding
  <2> QED
    BY <2>1, <2>2
<1>6. RecordsKept(p) /\ Courteous(p)
  BY <1>1, <1>3, <1>4, <1>5, RecordsCourteous DEF RecordsKept, Rewritten
<1>7. Typed'
  BY <1>1, <1>3, <1>4, <1>5 DEF Typed, TypeOK, Moved, Rewritten
<1>8. Recorded'
  <2>1. evidence # PristineEvidence /\ evidence.operation # "applied"
    BY <1>0, <1>1, <1>4 DEF Recorded, Projected
  <2>2. EffectsOwned'
    BY <1>1, <1>3, <1>4 DEF EffectsOwned, Rewritten
  <2>3. Current.verb = "apply" => Current.revision = revision
    BY <1>0, <1>1 DEF Recorded, InputFrozen
  <2>4. Current'.root \in bindings /\ reserved
    BY <1>1, <1>4 DEF Rewritten
  <2>5. Current'.verb = "apply" => Current'.revision = revision
    BY <1>4, <2>3 DEF Rewritten
  <2> QED
    BY <1>3, <1>4, <2>1, <2>2, <2>4, <2>5, RewrittenRecorded
<1>9. Leased'
  BY <1>0, <1>1, <1>5, LeaseKept DEF Holding
<1>10. allocated <= allocated'
  BY <1>1, <1>3 DEF Ids, Id, None, MaxId
<1> QED
  BY <1>1, <1>5, <1>6, <1>7, <1>8, <1>9, <1>10, Together

LEMMA RecordKeeps ==
  ASSUME IInv, NEW p \in Invocations, Record(p)
  PROVE  IInv'
<1> DEFINE next == NextOperationState({Current.block}, FALSE)
<1>0. at[p] = "record" /\ Current.state # "done"
  <2>1. at[p] = "record" /\ Local(p)
    BY DEF IInv, Record
  <2> QED
    BY <2>1, WhileSuperseding DEF Local, Supersedes
<1>1. /\ Removing(p) /\ ~ FreshApply(p) /\ ~ Resuming(p) /\ lease = p /\ at[p] # "idle"
      /\ index # None /\ index \in Id /\ Current = op[index] /\ Current \in Operation
      /\ inv[p].root = Current.root /\ reserved /\ inv[p].root \in bindings
      /\ EffectsOwned /\ allocated \in Ids /\ inv[p] \in Memory /\ Typed /\ Recorded
  BY <1>0, WhileSuperseding
<1>2. PICK r \in Written :
        /\ op' = [op EXCEPT ![index].state = Becomes(r, op[index].state, next)]
        /\ IF r = "ok"
           THEN To(p, IF next = Current.state THEN "announce" ELSE "reproject", inv[p]) /\ UNCHANGED lease
           ELSE Unregistered(p, FALSE, inv[p])
  <2>1. PICK r \in (IF next = Current.state THEN {"ok"} ELSE Written) :
        /\ op' = [op EXCEPT ![index].state = Becomes(r, op[index].state, next)]
        /\ IF r = "ok"
           THEN To(p, IF next = Current.state THEN "announce" ELSE "reproject", inv[p]) /\ UNCHANGED lease
           ELSE Unregistered(p, FALSE, inv[p])
    BY DEF Record
  <2>2. r \in Written
    BY <2>1 DEF Written
  <2> QED
    BY <2>1, <2>2
<1>3. UNCHANGED <<evidence, index, dir, reserved, bindings, revision, effects, allocated>>
  BY DEF Record, holdings
<1>4. next \in {"running", "failed", "done"} /\ (next = "done" => Current.block = "done")
  BY <1>1 DEF NextOperationState, Operation
<1> HIDE DEF next
<1>5. /\ Rewritten /\ ~ Removed(Current) /\ Current'.block = Current.block
      /\ Current'.state = "done" => Current'.block = "done"
      /\ r = "ok" /\ next = Current.state => Current' = Current
  <2> DEFINE s == Becomes(r, op[index].state, next)
  <2>1. /\ op' = [op EXCEPT ![index].state = s] /\ s \in {"running", "unknown", "failed", "done"}
        /\ s \in {Current.state, next}
    BY <1>1, <1>2, <1>4 DEF Becomes, Operation
  <2> HIDE DEF s
  <2>2. Rewritten /\ Current'.state = s /\ Current'.block = Current.block /\ (s = Current.state => Current' = Current)
    BY <1>1, <1>3, <2>1, StateWritten
  <2> QED
    BY <1>0, <1>4, <2>1, <2>2 DEF Removed
<1>6. /\ Moved(p) /\ Fits(p)
      /\ (lease' = p /\ at'[p] \in Holding) \/ (lease' = Free /\ at'[p] \notin Holding)
  <2>1. CASE r # "ok"
    <3>1. Unregistered(p, FALSE, inv[p])
      BY <1>2, <2>1
    <3> QED
      BY <1>1, <1>3, <3>1, UnregisteredFits DEF Unregistered, Unhold
  <2>2. CASE r = "ok"
    <3>1. Moved(p) /\ at'[p] \in {"announce", "reproject"} /\ inv'[p] = inv[p] /\ lease' = p
      BY <1>1, <1>2, <2>2, ToMoves DEF Phase
    <3>2. Fits(p)
      BY <1>0, <1>1, <1>3, <1>5, <3>1, SupersedingFits DEF Rewritten
    <3> QED
      BY <3>1, <3>2 DEF Holding
  <2> QED
    BY <2>1, <2>2
<1>7. RecordsKept(p) /\ Courteous(p)
  BY <1>1, <1>3, <1>5, <1>6, RecordsCourteous DEF RecordsKept, Rewritten, Ended
<1>8. Typed'
  BY <1>1, <1>3, <1>5, <1>6 DEF Typed, TypeOK, Moved, Rewritten
<1>9. Recorded'
  <2>1. evidence # PristineEvidence /\ evidence.operation # "applied"
    BY <1>0, <1>1, <1>5 DEF Recorded, Projected
  <2>2. EffectsOwned'
    BY <1>1, <1>3, <1>5 DEF EffectsOwned, Rewritten
  <2>3. Ended(Current') => Current'.root \notin effects'
    BY <1>1, <1>3, <1>5 DEF Recorded, Indexed, Rewritten, Ended
  <2>4. Current'.root \in bindings /\ reserved
    BY <1>1, <1>5 DEF Rewritten
  <2>5. Current'.verb = "apply" => Current'.revision = revision
    BY <1>0, <1>1, <1>5 DEF Rewritten, Recorded, InputFrozen
  <2> QED
    BY <1>3, <1>5, <2>1, <2>2, <2>3, <2>4, <2>5, RewrittenRecorded
<1>10. Leased'
  BY <1>0, <1>1, <1>6, LeaseKept DEF Holding
<1>11. allocated <= allocated'
  BY <1>1, <1>3 DEF Ids, Id, None, MaxId
<1> QED
  BY <1>1, <1>6, <1>7, <1>8, <1>9, <1>10, <1>11, Together

\* Evidence that follows the record of the operation the index names.
LEMMA EvidenceFollows ==
  ASSUME IInv, index # None
  PROVE  /\ EvidenceFor(Current.verb, Current.state) \in Evidence
         /\ EvidenceFor(Current.verb, Current.state).operation = "none" =>
              EvidenceFor(Current.verb, Current.state) = PristineEvidence
         /\ EvidenceFor(Current.verb, Current.state) = PristineEvidence => Removed(Current)
         /\ EvidenceFor(Current.verb, Current.state).operation = "applied" =>
              Current.verb = "apply" /\ Current.state = "done"
<1>1. Current \in Operation
  BY DEF IInv, Typed, TypeOK, Recorded, Indexed, Current
<1>2. Current.verb \in Verb /\ Current.state \in {"running", "unknown", "failed", "done"}
  BY <1>1 DEF Operation
<1> HIDE DEF Current
<1>3. CASE Current.verb = "destroy" /\ Current.state = "done"
  BY <1>3, Evidences DEF EvidenceFor, Removed
<1>4. CASE ~ (Current.verb = "destroy" /\ Current.state = "done")
  <2>1. \E x \in {"applied", "failed", "unknown", "pending"} :
          /\ EvidenceFor(Current.verb, Current.state) = [operation |-> x, ownership |-> "retained"]
          /\ x = "applied" => Current.state = "done"
    BY <1>2, <1>4 DEF EvidenceFor
  <2> QED
    BY <1>2, <1>4, <2>1 DEF Evidence, PristineEvidence, Verb
<1> QED
  BY <1>3, <1>4

\* A change of the evidence alone that claims no more than the records show.
LEMMA EvidenceRecorded ==
  ASSUME IInv, UNCHANGED <<index, dir, op, reserved, bindings, revision, effects>>,
         allocated' \in Ids, allocated <= allocated',
         \/ evidence' \in {evidence, Running}
         \/ index # None /\ evidence' = EvidenceFor(Current.verb, Current.state)
  PROVE  Recorded' /\ evidence' \in Evidence
<1>0. Recorded /\ Typed /\ Current' = Current /\ allocated \in Ids
  BY DEF IInv, Current, Typed, TypeOK, Ids
<1>1. Projected' /\ evidence' \in Evidence
  <2>1. CASE evidence' = evidence
    BY <1>0, <2>1 DEF Recorded, Projected, Typed, TypeOK
  <2>2. CASE evidence' = Running
    BY <2>2, Evidences DEF Projected
  <2>3. CASE index # None /\ evidence' = EvidenceFor(Current.verb, Current.state)
    BY <1>0, <2>3, EvidenceFollows DEF Projected
  <2> QED
    BY <2>1, <2>2, <2>3
<1>2. Allocated'
  <2>1. \A i \in Ids : i <= allocated => i <= allocated'
    BY <1>0 DEF Ids, Id, None, MaxId
  <2>2. bindings \subseteq Id /\ index \in Ids /\ Id \subseteq Ids /\ \A i \in Id : op[i] # NoOperation => op[i].root \in Id
    BY <1>0 DEF Typed, TypeOK, Operation, Ids
  <2> QED
    BY <1>0, <2>1, <2>2 DEF Recorded, Allocated, Handed
<1>3. Indexed' /\ HoldingsKept' /\ InputFrozen'
  BY <1>0 DEF Recorded, Indexed, EffectsOwned, HoldingsKept, InputFrozen
<1> QED
  BY <1>1, <1>2, <1>3 DEF Recorded

LEMMA ReprojectKeeps ==
  ASSUME IInv, NEW p \in Invocations, Reproject(p)
  PROVE  IInv'
<1>0. at[p] = "reproject"
  BY DEF Reproject
<1>1. /\ Removing(p) /\ ~ FreshApply(p) /\ ~ Resuming(p) /\ lease = p /\ at[p] # "idle"
      /\ index # None /\ Current \in Operation /\ (Current.state = "done" => Current.block = "done")
      /\ inv[p].root = Current.root /\ reserved /\ inv[p].root \in bindings
      /\ allocated \in Ids /\ inv[p] \in Memory /\ Typed
      /\ \A q \in Invocations \ {p} : Waiting(q) => inv[q].basis.id # index
  BY <1>0, WhileSuperseding
<1>2. PICK r \in Written :
        /\ evidence' = Becomes(r, evidence, EvidenceFor(Current.verb, Current.state))
        /\ IF r = "ok"
           THEN To(p, IF Unproved(Current.block) THEN "resolve" ELSE "announce", inv[p]) /\ UNCHANGED lease
           ELSE Unregistered(p, FALSE, inv[p])
  BY DEF Reproject
<1>3. /\ UNCHANGED <<index, dir, op, reserved, bindings, revision, effects, allocated>> /\ Current' = Current
      /\ evidence' \in {evidence, EvidenceFor(Current.verb, Current.state)}
  BY <1>2 DEF Reproject, records, holdings, Becomes, Current
<1>4. allocated' \in Ids /\ allocated <= allocated'
  BY <1>1, <1>3 DEF Ids, Id, None, MaxId
<1>5. /\ Moved(p) /\ Fits(p)
      /\ (lease' = p /\ at'[p] \in Holding) \/ (lease' = Free /\ at'[p] \notin Holding)
  <2>1. CASE r # "ok"
    <3>1. Unregistered(p, FALSE, inv[p])
      BY <1>2, <2>1
    <3> QED
      BY <1>1, <1>3, <3>1, UnregisteredFits DEF Unregistered, Unhold
  <2>2. CASE r = "ok"
    <3>1. /\ Moved(p) /\ at'[p] \in {"announce", "resolve"} /\ inv'[p] = inv[p] /\ lease' = p
          /\ at'[p] = "resolve" => Unproved(Current.block)
      BY <1>1, <1>2, <2>2, ToMoves DEF Phase
    <3>2. at'[p] = "resolve" => Current.block = "running" /\ Current.state # "done"
      BY <1>1, <3>1 DEF Unproved, Operation
    <3>3. Fits(p)
      BY <1>0, <1>1, <1>3, <3>1, <3>2, SupersedingFits
    <3> QED
      BY <3>1, <3>3 DEF Holding
  <2> QED
    BY <2>1, <2>2
<1>6. RecordsKept(p) /\ Courteous(p)
  BY <1>1, <1>3, <1>5, EvidenceCourteous
<1>7. Recorded' /\ evidence' \in Evidence
  BY <1>1, <1>3, <1>4, EvidenceRecorded
<1>8. Typed'
  BY <1>1, <1>3, <1>5, <1>7 DEF Typed, TypeOK, Moved
<1>9. Leased'
  BY <1>0, <1>1, <1>5, LeaseKept DEF Holding
<1> QED
  BY <1>1, <1>4, <1>5, <1>6, <1>7, <1>8, <1>9, Together

LEMMA AnnounceKeeps ==
  ASSUME IInv, NEW p \in Invocations, Announce(p)
  PROVE  IInv'
<1> DEFINE id == allocated + 1
           m == [inv[p] EXCEPT !.id = id, !.known = Claimed \union {id}, !.raised = evidence # Running]
<1>0. at[p] = "announce" /\ id \in Id /\ allocated' = id
  BY DEF Announce
<1>1. /\ Removing(p) /\ ~ FreshApply(p) /\ ~ Resuming(p) /\ lease = p /\ at[p] # "idle"
      /\ index # None /\ Current \in Operation /\ (Current.state = "done" => Current.block = "done")
      /\ inv[p].root = Current.root /\ reserved /\ inv[p].root \in bindings
      /\ allocated \in Ids /\ inv[p] \in Memory /\ Typed /\ Recorded /\ Local(p)
      /\ \A q \in Invocations \ {p} : Waiting(q) => inv[q].basis.id # index
  BY <1>0, WhileSuperseding
<1>2. PICK r : /\ evidence' = Becomes(r, evidence, Running)
               /\ IF r = "ok" THEN To(p, "plan", m) /\ UNCHANGED lease ELSE Unregistered(p, FALSE, m)
  BY DEF Announce
<1>3. /\ UNCHANGED <<index, dir, op, reserved, bindings, revision, effects>> /\ Current' = Current
      /\ evidence' \in {evidence, Running} /\ (r = "ok" => evidence' = Running)
  BY <1>2 DEF Announce, records, holdings, Becomes, Current
<1>4. allocated' \in Ids /\ allocated <= allocated' /\ \A i \in Ids : i <= allocated => i # id /\ i <= allocated'
  BY <1>0, <1>1 DEF Ids, Id, None, MaxId
<1>5. /\ m \in Memory /\ m.id = id /\ m.root = inv[p].root /\ m.raised \in BOOLEAN
      /\ m.kind = inv[p].kind /\ m.verb = inv[p].verb /\ m.basis = inv[p].basis /\ m.held = inv[p].held
      /\ m.claims = inv[p].claims
  BY <1>0, <1>1 DEF Memory, Claimed, Ids
<1>6. \/ r = "ok" /\ To(p, "plan", m) /\ lease' = p
      \/ r # "ok" /\ To(p, IF m.raised THEN "restore" ELSE "idle", m) /\ lease' = Free
  BY <1>1, <1>2 DEF Unregistered, Unhold
<1> HIDE DEF m
<1>7. /\ Moved(p) /\ inv'[p] = IF at'[p] = "idle" THEN NoInvocation ELSE m
      /\ \/ at'[p] = "plan" /\ r = "ok" /\ lease' = p
         \/ at'[p] \in {"restore", "idle"} /\ lease' = Free
  BY <1>1, <1>5, <1>6, ToMoves DEF Phase
<1>8. Remembers(p) /\ inv[p].basis.id \in Ids /\ inv[p].root \in Ids /\ inv[p].held \subseteq Ids /\ inv[p].claims \subseteq Ids
  BY <1>1 DEF Local, Memory, Basis, Ids
<1>9. id <= allocated' /\ inv[p].root <= allocated'
  BY <1>0, <1>4, <1>8 DEF Id, Remembers
<1>10. Fits(p)
  <2>1. CASE at'[p] = "idle"
    BY <1>4, <1>7, <2>1, StopsGone, GoneFits
  <2>2. CASE at'[p] = "restore"
    <3>1. Gone(p)
      BY <1>1, <1>5, <1>7, <1>8, <1>9, <2>2 DEF Gone, Remembers
    <3> QED
      BY <1>4, <1>7, <3>1, GoneFits
  <2>3. CASE at'[p] = "plan"
    <3>1. inv'[p] = m /\ Removing(p)' /\ ~ FreshApply(p)' /\ ~ Resuming(p)' /\ ~ Waiting(p)' /\ New(p)'
      BY <1>1, <1>5, <1>7, <2>3 DEF FreshApply, Removing, Resuming, Waiting, New, Committing
    <3>2. Remembers(p)'
      BY <1>1, <1>4, <1>5, <1>8, <1>9, <2>3, <3>1 DEF Remembers, Handed
    <3>3. Kinded(p)' /\ Applying(p)' /\ Bound(p)' /\ Resumes(p)' /\ Finalizes(p)' /\ Collects(p)'
      BY <2>3, <3>1 DEF Kinded, Applying, Bound, Resumes, Finalizes, Collects, Collected, Opened, Committing
    <3>4. Own(p)'
      <4>1. index \in Ids /\ index <= allocated /\ id # None
        BY <1>0, <1>1 DEF Recorded, Allocated, Typed, TypeOK, Ids, Id, None
      <4>2. Current.root \in Ids /\ Current.root <= allocated
        BY <1>1, <1>8 DEF Remembers
      <4> QED
        BY <1>3, <1>4, <1>5, <3>1, <4>1, <4>2 DEF Own
    <3>5. Supersedes(p)'
      BY <1>1, <1>3, <1>5, <2>3, <3>1 DEF Supersedes, Opened
    <3>6. Works(p)'
      BY <1>1, <1>3, <1>5, <1>7, <2>3, <3>1 DEF Works, Working
    <3>7. Local(p)'
      BY <3>2, <3>3, <3>4, <3>5, <3>6 DEF Local
    <3>8. Onward(p)
      <4>1. at[p] \in Holding /\ at'[p] \in Holding \ {"raise"} /\ at[p] \in Superseding
        BY <1>0, <2>3 DEF Holding, Superseding
      <4>2. Alone(p)
        BY <1>1, <4>1 DEF Alone
      <4> QED
        BY <1>1, <1>3, <1>5, <3>1, <4>1, <4>2 DEF Onward
    <3> QED
      BY <1>1, <1>7, <3>7, <3>8, OnwardFits
  <2> QED
    BY <1>7, <2>1, <2>2, <2>3
<1>11. RecordsKept(p) /\ Courteous(p)
  BY <1>1, <1>3, <1>7, EvidenceCourteous
<1>12. Recorded' /\ evidence' \in Evidence
  BY <1>1, <1>3, <1>4, EvidenceRecorded
<1>13. Typed'
  BY <1>0, <1>1, <1>3, <1>7, <1>12 DEF Typed, TypeOK, Moved
<1>14. Leased'
  BY <1>0, <1>1, <1>7, LeaseKept DEF Holding
<1> QED
  BY <1>1, <1>4, <1>7, <1>10, <1>11, <1>12, <1>13, <1>14, Together

-----------------------------------------------------------------------------
(* A resumed operation *)

LEMMA WhileResuming ==
  ASSUME IInv, NEW p \in Invocations, at[p] \in {"reraise", "reopen"}
  PROVE  /\ Resuming(p) /\ ~ FreshApply(p) /\ ~ Removing(p) /\ Alone(p) /\ lease = p /\ at[p] # "idle"
         /\ index # None /\ index \in Id /\ index = inv[p].id /\ Current = op[index] /\ Current \in Operation
         /\ inv[p].root = Current.root /\ Current.state # "done" /\ Current.block # "done"
         /\ \A q \in Invocations \ {p} : Waiting(q) => inv[q].basis.id # index
         /\ EffectsOwned /\ allocated \in Ids /\ inv[p] \in Memory /\ Typed /\ Recorded /\ Local(p)
<1>1. Local(p) /\ Typed /\ Recorded /\ \A q \in Invocations \ {p} : Unawaited(p, q)
  BY DEF IInv, Beside
<1>2. Resuming(p) /\ ~ FreshApply(p) /\ ~ Removing(p) /\ Alone(p)
  BY <1>1 DEF Local, Kinded, Removing, FreshApply, Resuming, Alone
<1>3. index # None /\ index = inv[p].id /\ inv[p].root = Current.root /\ Current.state # "done" /\ Current.block # "done"
  BY <1>1, <1>2 DEF Local, Resumes
<1>4. index \in Id /\ Current = op[index] /\ Current \in Operation
  BY <1>1, <1>3 DEF Current, Typed, TypeOK, Recorded, Indexed
<1>5. lease = p /\ at[p] # "idle"
  BY InTransaction DEF Holding
<1> QED
  BY <1>1, <1>2, <1>3, <1>4, <1>5 DEF Unawaited, Typed, TypeOK, Recorded, Indexed, Ids

LEMMA ReraiseKeeps ==
  ASSUME IInv, NEW p \in Invocations, Reraise(p)
  PROVE  IInv'
<1> DEFINE m == [inv[p] EXCEPT !.raised = evidence # Running]
<1>0. at[p] = "reraise"
  BY DEF Reraise
<1>1. /\ Resuming(p) /\ ~ FreshApply(p) /\ ~ Removing(p) /\ Alone(p) /\ lease = p /\ at[p] # "idle"
      /\ index # None /\ index = inv[p].id /\ inv[p].root = Current.root
      /\ Current.state # "done" /\ Current.block # "done"
      /\ \A q \in Invocations \ {p} : Waiting(q) => inv[q].basis.id # index
      /\ allocated \in Ids /\ inv[p] \in Memory /\ Typed /\ Local(p)
  BY <1>0, WhileResuming
<1>2. PICK r : /\ evidence' = Becomes(r, evidence, Running)
               /\ IF r = "ok" THEN To(p, "reopen", m) /\ UNCHANGED lease ELSE Unregistered(p, FALSE, m)
  BY DEF Reraise
<1>3. /\ UNCHANGED <<index, dir, op, reserved, bindings, revision, effects, allocated>> /\ Current' = Current
      /\ evidence' \in {evidence, Running} /\ (r = "ok" => evidence' = Running)
  BY <1>2 DEF Reraise, records, holdings, Becomes, Current
<1>4. allocated' \in Ids /\ allocated <= allocated'
  BY <1>1, <1>3 DEF Ids, Id, None, MaxId
<1>5. /\ m \in Memory /\ m.id = inv[p].id /\ m.root = inv[p].root /\ m.raised \in BOOLEAN
      /\ m.kind = inv[p].kind /\ m.verb = inv[p].verb /\ m.basis = inv[p].basis /\ m.held = inv[p].held
      /\ m.claims = inv[p].claims
  BY <1>1 DEF Memory
<1>6. \/ r = "ok" /\ To(p, "reopen", m) /\ lease' = p
      \/ r # "ok" /\ To(p, IF m.raised THEN "restore" ELSE "idle", m) /\ lease' = Free
  BY <1>1, <1>2 DEF Unregistered, Unhold
<1> HIDE DEF m
<1>7. /\ Moved(p) /\ inv'[p] = IF at'[p] = "idle" THEN NoInvocation ELSE m
      /\ \/ at'[p] = "reopen" /\ r = "ok" /\ lease' = p
         \/ at'[p] \in {"restore", "idle"} /\ lease' = Free
  BY <1>1, <1>5, <1>6, ToMoves DEF Phase
<1>8. Fits(p)
  <2>1. CASE at'[p] = "idle"
    BY <1>4, <1>7, <2>1, StopsGone, GoneFits
  <2>2. CASE at'[p] = "restore"
    <3>1. Gone(p)
      BY <1>1, <1>3, <1>5, <1>7, <2>2 DEF Gone, Local, Remembers
    <3> QED
      BY <1>4, <1>7, <3>1, GoneFits
  <2>3. CASE at'[p] = "reopen"
    <3>1. inv'[p] = m /\ Resuming(p)' /\ ~ Removing(p)' /\ ~ FreshApply(p)' /\ ~ New(p)'
      BY <1>1, <1>5, <1>7, <2>3 DEF FreshApply, Removing, Resuming, New
    <3>2. Remembers(p)' /\ Kinded(p)'
      BY <1>1, <1>3, <1>5, <2>3, <3>1 DEF Local, Remembers, Handed, Kinded, Committing, Opened
    <3>3. Applying(p)' /\ Own(p)' /\ Bound(p)' /\ Supersedes(p)' /\ Finalizes(p)' /\ Collects(p)'
      BY <2>3, <3>1 DEF Applying, Own, Bound, Supersedes, Finalizes, Collects, Collected, Waiting
    <3>4. Resumes(p)' /\ Works(p)'
      BY <1>1, <1>3, <1>5, <1>7, <2>3, <3>1 DEF Resumes, Works, Opened, Working, Committing
    <3>5. Local(p)'
      BY <3>2, <3>3, <3>4 DEF Local
    <3>6. Onward(p)
      BY <1>0, <1>1, <1>3, <1>5, <2>3, <3>1 DEF Onward, Holding
    <3> QED
      BY <1>1, <1>7, <3>5, <3>6, OnwardFits
  <2> QED
    BY <1>7, <2>1, <2>2, <2>3
<1>9. RecordsKept(p) /\ Courteous(p)
  BY <1>1, <1>3, <1>7, EvidenceCourteous
<1>10. Recorded' /\ evidence' \in Evidence
  BY <1>1, <1>3, <1>4, EvidenceRecorded
<1>11. Typed'
  BY <1>1, <1>3, <1>7, <1>10 DEF Typed, TypeOK, Moved
<1>12. Leased'
  BY <1>0, <1>1, <1>7, LeaseKept DEF Holding
<1> QED
  BY <1>1, <1>4, <1>7, <1>8, <1>9, <1>10, <1>11, <1>12, Together

\* What the invocation of a registered operation still remembers.
LEMMA RegisteredMemory ==
  ASSUME IInv, NEW p \in Invocations
  PROVE  /\ Registered(p) \in Memory /\ Registered(p).id = inv[p].id /\ Registered(p).root = inv[p].root
         /\ Registered(p).kind = inv[p].kind /\ Registered(p).verb = inv[p].verb
         /\ Registered(p).held = inv[p].held /\ Registered(p).claims = {} /\ Registered(p).basis.id = None
         /\ Registered(p).block = "pending"
<1>1. inv[p] \in Memory /\ NoInvocation \in Memory /\ NoInvocation.block = "pending"
  BY NothingRemembered DEF IInv, Typed, NoInvocation
<1> QED
  BY <1>1, NothingRemembered DEF Registered, Memory

\* A transaction that begins to work.
LEMMA WorkBegins ==
  ASSUME IInv, NEW p \in Invocations, lease = p, Moved(p), at'[p] = "work", inv'[p] = Registered(p),
         (at[p] = "reopen" /\ index' = index) \/ (at[p] = "index" /\ index' = inv[p].id),
         index' # None, index' = inv[p].id, Current'.root = inv[p].root,
         Current'.state = "running", Current'.block # "done", evidence' = Running, allocated' = allocated
  PROVE  Fits(p)
<1>0. Local(p) /\ Typed /\ None <= allocated
  BY DEF IInv, Typed, TypeOK, Id, None, MaxId
<1>1. /\ inv'[p].id = inv[p].id /\ inv'[p].root = inv[p].root /\ inv'[p].kind = inv[p].kind
      /\ inv'[p].verb = inv[p].verb /\ inv'[p].held = inv[p].held /\ inv'[p].claims = {}
      /\ inv'[p].basis.id = None
  BY RegisteredMemory
<1>2. /\ (FreshApply(p)' <=> FreshApply(p)) /\ (Removing(p)' <=> Removing(p)) /\ (Resuming(p)' <=> Resuming(p))
      /\ ~ New(p)' /\ ~ Waiting(p)'
  BY <1>1 DEF FreshApply, Removing, Resuming, New, Waiting, Opened, Committed, Committing
<1>3. Remembers(p)' /\ Kinded(p)'
  BY <1>0, <1>1, <1>2 DEF Local, Remembers, Handed, Kinded, Committing, Opened
<1>4. Applying(p)' /\ Own(p)' /\ Bound(p)' /\ Supersedes(p)' /\ Resumes(p)' /\ Finalizes(p)' /\ Collects(p)'
  BY <1>1, <1>2 DEF Applying, Own, Bound, Supersedes, Resumes, Finalizes, Collects, Collected, Opened, Committed,
     Committing, Superseding
<1>5. Works(p)'
  BY <1>1, <1>2 DEF Works, Working, Committing
<1>6. Local(p)'
  BY <1>3, <1>4, <1>5 DEF Local
<1>7. (at[p] = "reopen" => Alone(p)) /\ (at[p] = "index" => New(p))
  BY <1>0 DEF Alone, New, Local, Kinded, Committed, Committing
<1>8. Onward(p)
  BY <1>1, <1>2, <1>7 DEF Onward, Holding, Committed, Committing, Superseding
<1> QED
  BY <1>6, <1>8, OnwardFits

LEMMA ReopenKeeps ==
  ASSUME IInv, NEW p \in Invocations, Reopen(p)
  PROVE  IInv'
<1>0. at[p] = "reopen"
  BY DEF Reopen
<1>1. /\ Resuming(p) /\ ~ FreshApply(p) /\ ~ Removing(p) /\ Alone(p) /\ lease = p /\ at[p] # "idle"
      /\ index # None /\ index = inv[p].id /\ inv[p].root = Current.root
      /\ Current.state # "done" /\ Current.block # "done" /\ Current = op[index] /\ Current \in Operation
      /\ \A q \in Invocations \ {p} : Waiting(q) => inv[q].basis.id # index
      /\ EffectsOwned /\ allocated \in Ids /\ inv[p] \in Memory /\ Typed /\ Local(p) /\ Recorded
  BY <1>0, WhileResuming
<1>2. PICK r : /\ op' = [op EXCEPT ![index].state = Becomes(r, op[index].state, "running")]
               /\ IF r = "ok" THEN To(p, "work", Registered(p)) /\ UNCHANGED lease
                              ELSE Unregistered(p, FALSE, inv[p])
  BY DEF Reopen
<1>3. UNCHANGED <<evidence, index, dir, reserved, bindings, revision, effects, allocated>>
  BY DEF Reopen, holdings
<1>4. /\ Rewritten /\ ~ Removed(Current) /\ Current'.block = Current.block
      /\ Current'.state # "done" /\ (r = "ok" => Current'.state = "running")
  <2> DEFINE s == Becomes(r, op[index].state, "running")
  <2>1. /\ op' = [op EXCEPT ![index].state = s] /\ s \in {"running", "unknown", "failed", "done"} /\ s # "done"
        /\ r = "ok" => s = "running"
    BY <1>1, <1>2 DEF Becomes, Operation
  <2> HIDE DEF s
  <2>2. Rewritten /\ Current'.state = s /\ Current'.block = Current.block
    BY <1>1, <1>3, <2>1, StateWritten
  <2> QED
    BY <1>1, <2>1, <2>2 DEF Removed
<1>5. /\ Moved(p) /\ Fits(p)
      /\ (lease' = p /\ at'[p] \in Holding) \/ (lease' = Free /\ at'[p] \notin Holding)
  <2>1. CASE r # "ok"
    <3>1. Unregistered(p, FALSE, inv[p])
      BY <1>2, <2>1
    <3> QED
      BY <1>1, <1>3, <3>1, UnregisteredFits DEF Unregistered, Unhold
  <2>2. CASE r = "ok"
    <3>1. Moved(p) /\ at'[p] = "work" /\ inv'[p] = Registered(p) /\ lease' = p
      BY <1>1, <1>2, <2>2, RegisteredMemory, ToMoves DEF Phase
    <3>2. evidence = Running
      BY <1>0, <1>1 DEF Local, Works
    <3>3. Current'.root = inv[p].root
      BY <1>1, <1>4 DEF Rewritten
    <3>4. Fits(p)
      BY <1>0, <1>1, <1>3, <1>4, <2>2, <3>1, <3>2, <3>3, WorkBegins
    <3> QED
      BY <3>1, <3>4 DEF Holding
  <2> QED
    BY <2>1, <2>2
<1>6. RecordsKept(p) /\ Courteous(p)
  BY <1>1, <1>3, <1>4, <1>5, RecordsCourteous DEF RecordsKept, Rewritten, Ended
<1>7. Typed'
  BY <1>1, <1>3, <1>4, <1>5 DEF Typed, TypeOK, Moved, Rewritten
<1>8. Recorded'
  <2>1. evidence # PristineEvidence /\ evidence.operation # "applied"
    BY <1>0, <1>1, <1>4 DEF Recorded, Projected
  <2>2. EffectsOwned'
    BY <1>1, <1>3, <1>4 DEF EffectsOwned, Rewritten
  <2>3. ~ Ended(Current) /\ ~ Ended(Current')
    BY <1>1, <1>4 DEF Rewritten, Ended
  <2>4. Current'.root \in bindings /\ reserved
    BY <1>1, <1>4, <2>3 DEF Rewritten, Recorded, HoldingsKept, Ended
  <2>5. Current'.verb = "apply" => Current'.revision = revision
    BY <1>0, <1>1, <1>4 DEF Rewritten, Recorded, InputFrozen
  <2> QED
    BY <1>3, <1>4, <2>1, <2>2, <2>3, <2>4, <2>5, RewrittenRecorded
<1>9. Leased'
  BY <1>0, <1>1, <1>5, LeaseKept DEF Holding
<1>10. allocated <= allocated'
  BY <1>1, <1>3 DEF Ids, Id, None, MaxId
<1> QED
  BY <1>1, <1>5, <1>6, <1>7, <1>8, <1>9, <1>10, Together

-----------------------------------------------------------------------------
(* A registration is written *)

LEMMA WhileCommitting ==
  ASSUME IInv, NEW p \in Invocations, at[p] \in Committing
  PROVE  /\ FreshApply(p) \/ Removing(p)
         /\ FreshApply(p) <=> ~ Removing(p)
         /\ ~ Resuming(p) /\ New(p) /\ lease = p /\ at[p] # "idle"
         /\ inv[p].id \in Id /\ inv[p].id # None /\ inv[p].id # index /\ inv[p].root \in Id
         /\ evidence = Running /\ reserved /\ inv[p].root \in bindings
         /\ Removing(p) => index # None /\ inv[p].root = Current.root
         /\ FreshApply(p) => /\ index = inv[p].basis.id /\ Current = inv[p].basis.record
                             /\ index # None => Removed(Current)
                             /\ revision = inv[p].seen.revision /\ inv[p].root = inv[p].id
         /\ allocated \in Ids /\ inv[p].id <= allocated /\ inv[p].root <= allocated
         /\ inv[p] \in Memory /\ Typed /\ Recorded /\ Local(p)
<1>1. Local(p) /\ Typed /\ Recorded /\ inv[p] \in Memory /\ at[p] \in Committed
  BY DEF IInv, Typed, Committed
<1>2. (FreshApply(p) \/ Removing(p)) /\ (FreshApply(p) <=> ~ Removing(p)) /\ ~ Resuming(p)
  BY <1>1 DEF Local, Kinded, FreshApply, Removing, Resuming
<1>3. New(p)
  BY <1>1, <1>2 DEF New
<1>4. lease = p /\ at[p] # "idle"
  BY InTransaction DEF Holding, Committing
<1>5. inv[p].id \in Id /\ inv[p].id # None /\ inv[p].id # index /\ (FreshApply(p) => inv[p].root = inv[p].id)
  BY <1>1, <1>3 DEF Local, Own, Memory, Ids
<1>6. evidence = Running /\ reserved /\ inv[p].root \in bindings /\ inv[p].root \in Id
  BY <1>1 DEF Local, Works, Typed, TypeOK
<1>7. Removing(p) => index # None /\ inv[p].root = Current.root
  BY <1>1 DEF Local, Supersedes, Superseding
<1>8. FreshApply(p) => /\ index = inv[p].basis.id /\ Current = inv[p].basis.record
                       /\ index # None => Removed(Current)
                       /\ revision = inv[p].seen.revision
  BY <1>1 DEF Local, Applying
<1>9. allocated \in Ids /\ inv[p].id <= allocated /\ inv[p].root <= allocated
  BY <1>1 DEF Local, Remembers, Typed, TypeOK, Ids
<1> QED
  BY <1>1, <1>2, <1>3, <1>4, <1>5, <1>6, <1>7, <1>8, <1>9

LEMMA UnpublishedFits ==
  ASSUME IInv, NEW p \in Invocations, at[p] \in Committing, Unpublished(p, FALSE),
         index' = index, Current' = Current, allocated' = allocated
  PROVE  Moved(p) /\ Fits(p) /\ lease' = Free /\ at'[p] \notin Holding
<1>0. New(p) /\ lease = p /\ at[p] # "idle" /\ allocated \in Ids
  BY WhileCommitting
<1>1. allocated' \in Ids /\ allocated <= allocated'
  BY <1>0 DEF Ids, Id, None, MaxId
<1>2. CASE Unregistered(p, FreshApply(p), inv[p])
  <2>1. FreshApply(p) \in BOOLEAN
    BY DEF FreshApply
  <2> QED
    BY <1>0, <1>2, <2>1, UnregisteredFits DEF Unregistered, Unhold
<1>3. CASE To(p, "idle", inv[p]) /\ Unhold(p)
  BY <1>0, <1>1, <1>3, StoppedFits DEF Unhold, Holding
<1> QED
  BY <1>2, <1>3 DEF Unpublished

LEMMA CommittingFits ==
  ASSUME IInv, NEW p \in Invocations, at[p] \in Committing, Moved(p), inv'[p] = inv[p],
         at'[p] \in {"operation", "index"}, Current' = Current,
         UNCHANGED <<evidence, index, reserved, bindings, revision, allocated>>,
         at'[p] = "index" =>
            LET o == op'[inv[p].id]
            IN /\ o # NoOperation /\ o.verb = inv[p].verb /\ o.root = inv[p].root
               /\ o.state = "running" /\ o.block = "pending" /\ o.revision = revision
  PROVE  Fits(p)
<1>0. /\ (FreshApply(p) \/ Removing(p)) /\ ~ Resuming(p) /\ New(p) /\ lease = p /\ at[p] # "idle"
      /\ evidence = Running /\ reserved /\ inv[p].root \in bindings /\ Local(p)
      /\ at[p] \in Committed /\ at'[p] \in Committed /\ at[p] \in Superseding /\ at'[p] \in Superseding
      /\ at'[p] \in Committing /\ at[p] \in Holding /\ at'[p] \in Holding \ {"raise"}
  BY WhileCommitting DEF Committed, Superseding, Committing, Holding
<1>1. /\ (FreshApply(p)' <=> FreshApply(p)) /\ (Removing(p)' <=> Removing(p)) /\ ~ Resuming(p)'
      /\ New(p)' /\ ~ Waiting(p)' /\ (Alone(p)' => Alone(p))
  BY <1>0 DEF FreshApply, Removing, Resuming, New, Waiting, Opened, Alone, Working, Committing
<1>2. Remembers(p)' /\ Kinded(p)'
  BY <1>0, <1>1 DEF Local, Remembers, Handed, Kinded, Committing, Opened
<1>3. Applying(p)' /\ Own(p)'
  BY <1>0, <1>1 DEF Local, Applying, Own
<1>4. Bound(p)' /\ Resumes(p)' /\ Finalizes(p)' /\ Collects(p)'
  BY <1>1 DEF Bound, Resumes, Finalizes, Collects, Collected
<1>5. Supersedes(p)'
  BY <1>0, <1>1 DEF Local, Supersedes, Opened
<1>6. Works(p)'
  BY <1>0, <1>1 DEF Works, Working
<1>7. Local(p)'
  BY <1>2, <1>3, <1>4, <1>5, <1>6 DEF Local
<1>8. Onward(p)
  BY <1>0, <1>1 DEF Onward
<1> QED
  BY <1>0, <1>7, <1>8, OnwardFits

LEMMA WritePlanKeeps ==
  ASSUME IInv, NEW p \in Invocations, WritePlan(p)
  PROVE  IInv'
<1>0. at[p] = "plan" /\ at[p] \in Committing /\ at[p] \in Holding
  BY DEF WritePlan, Committing, Holding
<1>1. /\ New(p) /\ lease = p /\ at[p] # "idle" /\ inv[p].id \in Id /\ inv[p].id \in Ids /\ inv[p].id <= allocated
      /\ allocated \in Ids /\ inv[p] \in Memory /\ Typed /\ Recorded
      /\ \A q \in Invocations : Beside(p, q)
  BY <1>0, WhileCommitting DEF IInv, Ids
<1>2. PICK d \in {dir[inv[p].id], "claim", "plan"} :
        /\ dir' = [dir EXCEPT ![inv[p].id] = d]
        /\ \/ To(p, "operation", inv[p]) /\ UNCHANGED lease
           \/ Unpublished(p, FALSE)
  BY DEF WritePlan
<1>3. /\ UNCHANGED <<evidence, index, op, reserved, bindings, revision, effects, allocated>> /\ Current' = Current
  BY DEF WritePlan, holdings, Current
<1>4. d \in {"absent", "claim", "plan", "operation"} /\ (d = "absent" => dir[inv[p].id] = "absent")
  BY <1>1, <1>2 DEF Typed, TypeOK
<1>5. /\ Moved(p) /\ Fits(p)
      /\ (lease' = p /\ at'[p] \in Holding) \/ (lease' = Free /\ at'[p] \notin Holding)
  <2>1. CASE Unpublished(p, FALSE)
    BY <1>0, <1>3, <2>1, UnpublishedFits
  <2>2. CASE To(p, "operation", inv[p]) /\ UNCHANGED lease
    <3>1. Moved(p) /\ at'[p] = "operation" /\ inv'[p] = inv[p] /\ lease' = p
      BY <1>1, <2>2, ToMoves DEF Phase
    <3>2. Fits(p)
      BY <1>0, <1>3, <3>1, CommittingFits
    <3> QED
      BY <3>1, <3>2 DEF Holding
  <2> QED
    BY <1>2, <2>1, <2>2
<1>6. RecordsKept(p) /\ Courteous(p)
  <2>1. \A q \in Invocations \ {p} : Waiting(q) => inv[q].id # inv[p].id
    BY <1>1 DEF Beside, Apart, New, Waiting
  <2>2. RecordsKept(p)
    BY <1>3 DEF RecordsKept
  <2> QED
    BY <1>1, <1>2, <1>3, <1>4, <1>5, <2>1, <2>2, DirectoriesCourteous
<1>7. Typed'
  BY <1>1, <1>2, <1>3, <1>4, <1>5 DEF Typed, TypeOK, Moved
<1>8. Recorded'
  <2>1. \A i \in Id : dir'[i] # "absent" => i = inv[p].id \/ dir[i] # "absent"
    BY <1>1, <1>2 DEF Typed, TypeOK
  <2> QED
    BY <1>1, <1>3, <2>1 DEF Recorded, Allocated, Handed, Indexed, Projected, HoldingsKept, InputFrozen, EffectsOwned
<1>9. Leased'
  BY <1>0, <1>1, <1>5, LeaseKept
<1>10. allocated <= allocated'
  BY <1>1, <1>3 DEF Ids, Id, None, MaxId
<1> QED
  BY <1>1, <1>5, <1>6, <1>7, <1>8, <1>9, <1>10, Together

LEMMA WriteOperationKeeps ==
  ASSUME IInv, NEW p \in Invocations, WriteOperation(p)
  PROVE  IInv'
<1> DEFINE o == [verb |-> inv[p].verb, state |-> "running", block |-> "pending", root |-> inv[p].root,
                 planned  |-> IF FreshApply(p) THEN inv[p].seen.revision ELSE Current.planned,
                 revision |-> revision]
<1>0. at[p] = "operation" /\ at[p] \in Committing /\ at[p] \in Holding
  BY DEF WriteOperation, Committing, Holding
<1>1. /\ New(p) /\ lease = p /\ at[p] # "idle" /\ inv[p].id \in Id /\ inv[p].id \in Ids /\ inv[p].id <= allocated
      /\ inv[p].root \in Id /\ inv[p].root <= allocated /\ inv[p].id # index
      /\ allocated \in Ids /\ inv[p] \in Memory /\ Typed /\ Recorded /\ Local(p)
      /\ (FreshApply(p) <=> ~ Removing(p)) /\ (FreshApply(p) => revision = inv[p].seen.revision)
      /\ (Removing(p) => index # None)
      /\ \A q \in Invocations : Beside(p, q)
  BY <1>0, WhileCommitting DEF IInv, Ids
<1>2. PICK r \in Written :
        /\ dir' = [dir EXCEPT ![inv[p].id] = Becomes(r, dir[inv[p].id], "operation")]
        /\ op' = [op EXCEPT ![inv[p].id] = Becomes(r, op[inv[p].id], o)]
        /\ IF r = "ok" THEN To(p, "index", inv[p]) /\ UNCHANGED lease ELSE Unpublished(p, FALSE)
  BY DEF WriteOperation
<1>3. UNCHANGED <<evidence, index, reserved, bindings, revision, effects, allocated>>
  BY DEF WriteOperation, holdings
<1>4. /\ o \in Operation /\ o.verb = inv[p].verb /\ o.state = "running" /\ o.block = "pending" /\ o.root = inv[p].root
      /\ o.revision = revision /\ (o.verb = "apply" => o.planned = o.revision)
  <2>1. inv[p].verb \in Verb /\ inv[p].seen.revision \in 0..MaxRevision /\ revision \in 0..MaxRevision
    BY <1>1 DEF Local, Remembers, Memory, Seen, Typed, TypeOK
  <2>2. Removing(p) => Current.planned \in 0..MaxRevision
    BY <1>1 DEF Current, Typed, TypeOK, Recorded, Indexed, Operation
  <2>3. o \in Operation
    BY <1>1, <2>1, <2>2 DEF Operation
  <2>4. o.verb = "apply" => FreshApply(p)
    BY <1>1 DEF FreshApply, Removing
  <2> QED
    BY <1>1, <2>3, <2>4
<1> HIDE DEF o
<1>5. o # NoOperation
  BY <1>4 DEF Operation, NoOperation, Verb
<1>6. /\ op'[inv[p].id] \in {op[inv[p].id], o} /\ (r = "ok" => op'[inv[p].id] = o)
      /\ \A i \in Id \ {inv[p].id} : op'[i] = op[i]
      /\ op' \in [Id -> Operation \union {NoOperation}]
  BY <1>1, <1>2, <1>4 DEF Becomes, Typed, TypeOK
<1>7. Current' = Current
  BY <1>1, <1>3, <1>6 DEF Current, Typed, TypeOK
<1>8. PICK d \in {"absent", "claim", "plan", "operation"} :
        dir' = [dir EXCEPT ![inv[p].id] = d] /\ (d = "absent" => dir[inv[p].id] = "absent")
  BY <1>1, <1>2 DEF Becomes, Typed, TypeOK
<1>9. /\ Moved(p) /\ Fits(p)
      /\ (lease' = p /\ at'[p] \in Holding) \/ (lease' = Free /\ at'[p] \notin Holding)
  <2>1. CASE r # "ok"
    BY <1>0, <1>2, <1>3, <1>7, <2>1, UnpublishedFits
  <2>2. CASE r = "ok"
    <3>1. Moved(p) /\ at'[p] = "index" /\ inv'[p] = inv[p] /\ lease' = p
      BY <1>1, <1>2, <2>2, ToMoves DEF Phase
    <3>2. Fits(p)
      BY <1>0, <1>3, <1>4, <1>5, <1>6, <1>7, <2>2, <3>1, CommittingFits
    <3> QED
      BY <3>1, <3>2 DEF Holding
  <2> QED
    BY <2>1, <2>2
<1>10. RecordsKept(p) /\ Courteous(p)
  <2>1. \A q \in Invocations \ {p} : Waiting(q) => inv[q].id # inv[p].id
    BY <1>1 DEF Beside, Apart, New, Waiting
  <2>2. RecordsKept(p)
    BY <1>3, <1>7 DEF RecordsKept
  <2> QED
    BY <1>1, <1>3, <1>8, <1>9, <2>1, <2>2, DirectoriesCourteous
<1>11. Typed'
  BY <1>1, <1>3, <1>6, <1>8, <1>9 DEF Typed, TypeOK, Moved
<1>12. Recorded'
  <2>1. \A i \in Id : dir'[i] # "absent" => i = inv[p].id \/ dir[i] # "absent"
    BY <1>1, <1>8 DEF Typed, TypeOK
  <2>2. \A i \in Id : op'[i] = op[i] \/ (i = inv[p].id /\ op'[i] = o)
    BY <1>6
  <2>3. Allocated'
    BY <1>1, <1>3, <1>4, <2>1, <2>2 DEF Recorded, Allocated, Handed
  <2>4. InputFrozen'
    BY <1>1, <1>3, <1>4, <1>7, <2>2 DEF Recorded, InputFrozen
  <2>5. Indexed'
    <3>1. index # None => op'[index] = op[index]
      BY <1>1, <1>6 DEF Typed, TypeOK
    <3> QED
      BY <1>1, <1>3, <1>7, <3>1 DEF Recorded, Indexed, EffectsOwned
  <2> QED
    BY <1>1, <1>3, <1>7, <2>3, <2>4, <2>5 DEF Recorded, Projected, HoldingsKept
<1>13. Leased'
  BY <1>0, <1>1, <1>9, LeaseKept
<1>14. allocated <= allocated'
  BY <1>1, <1>3 DEF Ids, Id, None, MaxId
<1> QED
  BY <1>1, <1>9, <1>10, <1>11, <1>12, <1>13, <1>14, Together

LEMMA WriteIndexKeeps ==
  ASSUME IInv, NEW p \in Invocations, WriteIndex(p)
  PROVE  IInv'
<1> DEFINE o == op[inv[p].id]
<1>0. at[p] = "index" /\ at[p] \in Committing /\ at[p] \in Holding
  BY DEF WriteIndex, Committing, Holding
<1>1. /\ New(p) /\ lease = p /\ at[p] # "idle" /\ inv[p].id \in Id /\ inv[p].id # None /\ inv[p].id \in Ids
      /\ inv[p].id <= allocated /\ inv[p].id # index /\ inv[p].root \in bindings /\ reserved /\ evidence = Running
      /\ allocated \in Ids /\ inv[p] \in Memory /\ Typed /\ Recorded /\ Local(p)
      /\ (FreshApply(p) \/ Removing(p))
      /\ (Removing(p) => index # None /\ inv[p].root = Current.root)
      /\ (FreshApply(p) => (index # None => Removed(Current)))
      /\ \A q \in Invocations : Beside(p, q)
  BY <1>0, WhileCommitting DEF IInv, Ids
<1>2. PICK r \in Written :
        /\ index' = Becomes(r, index, inv[p].id)
        /\ IF r = "ok" THEN /\ dir' \in Reclaim(dir, inv[p].id)
                            /\ To(p, "work", Registered(p)) /\ UNCHANGED lease
                       ELSE Unpublished(p, r = "landed") /\ UNCHANGED dir
  BY DEF WriteIndex
<1>3. UNCHANGED <<evidence, op, reserved, bindings, revision, effects, allocated>>
  BY DEF WriteIndex, holdings
<1>4. /\ o # NoOperation /\ o.verb = inv[p].verb /\ o.root = inv[p].root
      /\ o.state = "running" /\ o.block = "pending" /\ o.revision = revision
  BY <1>0, <1>1 DEF Local, Works
<1>5. \/ r = "lost" /\ index' = index /\ Current' = Current
      \/ r \in {"ok", "landed"} /\ index' = inv[p].id /\ Current' = o
  BY <1>1, <1>2, <1>3 DEF Becomes, Current, Written
<1>6. allocated' = allocated /\ allocated' \in Ids /\ allocated <= allocated'
  BY <1>1, <1>3 DEF Ids, Id, None, MaxId
<1>7. dir' \in Reclaim(dir, inv[p].id)
  BY <1>2 DEF Reclaim
<1> HIDE DEF o
<1>8. /\ Moved(p) /\ Fits(p)
      /\ (lease' = p /\ at'[p] \in Holding) \/ (lease' = Free /\ at'[p] \notin Holding)
  <2>1. CASE r = "lost"
    <3>1. Unpublished(p, FALSE) /\ index' = index /\ Current' = Current
      BY <1>2, <1>5, <2>1
    <3> QED
      BY <1>0, <1>6, <3>1, UnpublishedFits
  <2>2. CASE r = "landed"
    <3>1. To(p, "idle", inv[p]) /\ Unhold(p)
      BY <1>2, <2>2 DEF Unpublished
    <3> QED
      BY <1>1, <1>6, <3>1, StoppedFits DEF Unhold, Holding
  <2>3. CASE r = "ok"
    <3>1. Moved(p) /\ at'[p] = "work" /\ inv'[p] = Registered(p) /\ lease' = p
      BY <1>1, <1>2, <2>3, RegisteredMemory, ToMoves DEF Phase
    <3>2. Fits(p)
      BY <1>0, <1>1, <1>3, <1>4, <1>5, <2>3, <3>1, WorkBegins
    <3> QED
      BY <3>1, <3>2 DEF Holding
  <2> QED
    BY <2>1, <2>2, <2>3 DEF Written
<1>9. RecordsKept(p)
  BY <1>0, <1>4, <1>5 DEF RecordsKept
<1>10. Courteous(p)
  <2>1. \A q \in Invocations \ {p} : Waiting(q) => inv[q].id # inv[p].id
    BY <1>1 DEF Beside, Apart, New, Waiting
  <2>2. index' = index \/ index' = inv[p].id
    BY <1>5
  <2> QED
    BY <1>1, <1>3, <1>7, <1>8, <2>1, <2>2, DirectoriesCourteous
<1>11. dir' \in [Id -> {"absent", "claim", "plan", "operation"}] /\ \A i \in Id : dir'[i] # "absent" => dir[i] # "absent"
  BY <1>1, <1>7 DEF Reclaim, Typed, TypeOK
<1>12. Typed'
  BY <1>1, <1>3, <1>5, <1>8, <1>11 DEF Typed, TypeOK, Moved
<1>13. Recorded'
  <2>1. Allocated'
    BY <1>1, <1>3, <1>5, <1>11 DEF Recorded, Allocated, Handed
  <2>2. CASE r = "lost"
    BY <1>1, <1>3, <1>5, <2>1, <2>2 DEF Recorded, Indexed, Projected, HoldingsKept, InputFrozen, EffectsOwned
  <2>3. CASE r \in {"ok", "landed"}
    <3>1. index' = inv[p].id /\ index' # None /\ Current' = o /\ ~ Ended(o)
      BY <1>1, <1>4, <1>5, <2>3 DEF Ended
    <3>2. EffectsOwned'
      <4>1. CASE Removing(p)
        BY <1>1, <1>3, <1>4, <3>1, <4>1 DEF Recorded, Indexed, EffectsOwned
      <4>2. CASE FreshApply(p)
        <5>1. index # None => Ended(Current)
          BY <1>1, <4>2 DEF Recorded, Allocated, Indexed, Current, Removed, Ended, Typed, TypeOK
        <5>2. effects = {}
          BY <1>1, <5>1 DEF Recorded, Indexed, EffectsOwned
        <5> QED
          BY <1>3, <5>2 DEF EffectsOwned
      <4> QED
        BY <1>1, <4>1, <4>2
    <3>3. Indexed'
      BY <1>3, <1>4, <3>1, <3>2 DEF Indexed, o
    <3>4. Projected'
      BY <1>1, <1>3, Evidences DEF Projected
    <3>5. HoldingsKept'
      BY <1>1, <1>3, <1>4, <3>1 DEF HoldingsKept
    <3>6. InputFrozen'
      BY <1>1, <1>3, <1>4, <3>1 DEF Recorded, InputFrozen
    <3> QED
      BY <2>1, <3>3, <3>4, <3>5, <3>6 DEF Recorded
  <2> QED
    BY <1>5, <2>2, <2>3
<1>14. Leased'
  BY <1>0, <1>1, <1>8, LeaseKept
<1> QED
  BY <1>1, <1>6, <1>8, <1>9, <1>10, <1>12, <1>13, <1>14, Together

-----------------------------------------------------------------------------
(* The work *)

LEMMA WhileWorking ==
  ASSUME IInv, NEW p \in Invocations, at[p] \in Working
  PROVE  /\ Alone(p) /\ lease = p /\ at[p] # "idle" /\ evidence = Running /\ evidence # PristineEvidence
         /\ evidence.operation # "applied"
         /\ index # None /\ index \in Id /\ index = inv[p].id /\ Current = op[index] /\ Current \in Operation
         /\ op[inv[p].id] = Current /\ inv[p].root = Current.root
         /\ Current.state = "done" => Current.block = "done"
         /\ at[p] # "project" => Current.state = "running"
         /\ at[p] \in {"work", "working"} => Current.block # "done"
         /\ \A q \in Invocations \ {p} : Waiting(q) => inv[q].basis.id # index
         /\ EffectsOwned /\ allocated \in Ids /\ inv[p] \in Memory /\ Typed /\ Recorded /\ Local(p)
<1>1. Local(p) /\ Typed /\ Recorded /\ inv[p] \in Memory /\ \A q \in Invocations \ {p} : Unawaited(p, q)
  BY DEF IInv, Beside, Typed
<1>2. Alone(p)
  BY DEF Alone
<1>3. /\ index # None /\ index = inv[p].id /\ inv[p].root = Current.root /\ evidence = Running
      /\ at[p] # "project" => Current.state = "running"
      /\ at[p] \in {"work", "working"} => Current.block # "done"
  BY <1>1 DEF Local, Works, Working
<1>4. index \in Id /\ Current = op[index] /\ Current \in Operation /\ (Current.state = "done" => Current.block = "done")
  BY <1>1, <1>3 DEF Current, Typed, TypeOK, Recorded, Indexed, Allocated
<1>5. lease = p /\ at[p] # "idle"
  BY InTransaction DEF Holding, Working
<1>6. allocated \in Ids /\ EffectsOwned
  BY <1>1 DEF Typed, TypeOK, Recorded, Indexed, Ids
<1> QED
  BY <1>1, <1>2, <1>3, <1>4, <1>5, <1>6, Evidences DEF Unawaited

LEMMA WorkingFits ==
  ASSUME IInv, NEW p \in Invocations, at[p] \in Working, at'[p] \in Working, Moved(p),
         inv'[p].kind = inv[p].kind, inv'[p].verb = inv[p].verb, inv'[p].id = inv[p].id,
         inv'[p].root = inv[p].root, inv'[p].held = inv[p].held, inv'[p].claims \subseteq inv[p].claims,
         inv'[p].basis.id \in {inv[p].basis.id, None},
         UNCHANGED <<evidence, index, allocated>>, Current'.root = Current.root,
         at'[p] # "project" => Current'.state = "running",
         at'[p] \in {"work", "working"} => Current'.block # "done",
         at'[p] = "finish" => (inv'[p].block = "done" => Current'.block = "done")
  PROVE  Fits(p)
<1>0. /\ Alone(p) /\ lease = p /\ at[p] # "idle" /\ evidence = Running /\ index # None
      /\ index = inv[p].id /\ inv[p].root = Current.root /\ Local(p) /\ allocated \in Ids
      /\ at[p] \in Holding /\ at'[p] \in Holding \ {"raise"}
  BY WhileWorking DEF Working, Holding
<1>1. ~ New(p)' /\ ~ Waiting(p)' /\ (Removing(p)' <=> Removing(p)) /\ (FreshApply(p)' <=> FreshApply(p))
  BY DEF New, Waiting, Removing, FreshApply, Working, Opened, Committed, Committing
<1>2. Remembers(p)'
  <2>1. None <= allocated
    BY <1>0 DEF Ids, Id, None, MaxId
  <2> QED
    BY <1>0, <2>1 DEF Local, Remembers, Handed
<1>3. /\ Kinded(p)' /\ Applying(p)' /\ Own(p)' /\ Bound(p)' /\ Supersedes(p)' /\ Resumes(p)' /\ Finalizes(p)'
      /\ Collects(p)'
  BY <1>1 DEF Kinded, Applying, Own, Bound, Supersedes, Resumes, Finalizes, Collects, Collected, Opened, Committed,
     Committing, Superseding, Working
<1>4. Works(p)'
  BY <1>0 DEF Works, Working, Committing
<1>5. Local(p)'
  BY <1>2, <1>3, <1>4 DEF Local
<1>6. Onward(p)
  BY <1>0, <1>1 DEF Onward, Working, Committed, Committing, Superseding
<1> QED
  BY <1>0, <1>5, <1>6, OnwardFits

LEMMA WorkKeeps ==
  ASSUME IInv, NEW p \in Invocations, Work(p)
  PROVE  IInv'
<1>0. at[p] = "work" /\ at[p] \in Working /\ at[p] \in Holding
  BY DEF Work, Working, Holding
<1>1. /\ lease = p /\ evidence # PristineEvidence /\ evidence.operation # "applied"
      /\ index # None /\ index = inv[p].id /\ Current = op[index] /\ Current \in Operation
      /\ op[inv[p].id] = Current /\ inv[p].root = Current.root
      /\ Current.state = "running" /\ Current.block # "done"
      /\ EffectsOwned /\ allocated \in Ids /\ inv[p] \in Memory /\ Typed /\ Recorded
  BY <1>0, WhileWorking
<1>2. UNCHANGED <<evidence, index, dir, reserved, bindings, revision, lease, allocated>>
  BY DEF Work, holdings
<1>3. /\ \E c \in {"pending", "running", "failed", "done"}, b \in {"pending", "running", "failed", "unknown", "done"},
             phase \in {"work", "working", "finish"} :
           /\ op' = [op EXCEPT ![index].block = c]
           /\ To(p, phase, [inv[p] EXCEPT !.block = b])
           /\ phase \in {"work", "working"} => c # "done"
           /\ b = "done" /\ phase = "finish" => c = "done"
           /\ c = "done" => (Current.verb = "apply" <=> Current.root \in effects) /\ effects' = effects
      /\ effects' \subseteq effects \union {Current.root}
      /\ effects' \in SUBSET Id
  <2>1. Current.block \in {"pending", "running", "failed"} /\ Current.root \in Id /\ effects \subseteq Id
        /\ inv[p].block \in {"pending", "running", "failed", "unknown", "done"}
    BY <1>1 DEF Operation, Typed, TypeOK, Memory
  <2>2. op = [op EXCEPT ![index].block = Current.block]
    BY <1>1 DEF Typed, TypeOK, Operation
  <2>3. inv[p] = [inv[p] EXCEPT !.block = inv[p].block]
    BY <1>1 DEF Memory
  <2>4. CASE Unproved(Current.block)
    <3>1. \/ \E b \in Observable(Current) :
               /\ op' = [op EXCEPT ![index].block = b]
               /\ To(p, IF b = "done" THEN "finish" ELSE "work", [inv[p] EXCEPT !.block = b])
               /\ UNCHANGED effects
          \/ \E b \in {"running", "unknown"} :
               To(p, "finish", [inv[p] EXCEPT !.block = b]) /\ UNCHANGED <<op, effects>>
      BY <1>1, <2>4 DEF Work
    <3>2. CASE \E b \in {"running", "unknown"} :
                 To(p, "finish", [inv[p] EXCEPT !.block = b]) /\ UNCHANGED <<op, effects>>
      BY <2>1, <2>2, <3>2
    <3>3. CASE \E b \in Observable(Current) :
               /\ op' = [op EXCEPT ![index].block = b]
               /\ To(p, IF b = "done" THEN "finish" ELSE "work", [inv[p] EXCEPT !.block = b])
               /\ UNCHANGED effects
      <4>1. PICK b \in Observable(Current) :
               /\ op' = [op EXCEPT ![index].block = b]
               /\ To(p, IF b = "done" THEN "finish" ELSE "work", [inv[p] EXCEPT !.block = b])
               /\ UNCHANGED effects
        BY <3>3
      <4>2. b \in {"failed", "done"} /\ (b = "done" => (Current.verb = "apply" <=> Current.root \in effects))
        BY DEF Observable
      <4> QED
        BY <2>1, <4>1, <4>2
    <3> QED
      BY <3>1, <3>2, <3>3
  <2>5. CASE ~ Unproved(Current.block)
    <3>1. PICK r \in Written :
            /\ op' = [op EXCEPT ![index].block = Becomes(r, op[index].block, "running")]
            /\ IF r = "ok"
               THEN /\ To(p, "working", inv[p])
                    /\ effects' = IF Current.verb = "apply" THEN effects \union {Current.root} ELSE effects
               ELSE /\ \E b \in {Becomes(r, op[index].block, "running"), "unknown"} :
                         To(p, "finish", [inv[p] EXCEPT !.block = b])
                    /\ UNCHANGED effects
      BY <1>1, <2>5 DEF Work
    <3> DEFINE c == Becomes(r, op[index].block, "running")
    <3>2. c \in {"pending", "running", "failed"} /\ op' = [op EXCEPT ![index].block = c]
      BY <1>1, <2>1, <3>1 DEF Becomes
    <3> HIDE DEF c
    <3>3. CASE r = "ok"
      BY <2>1, <2>3, <3>1, <3>2, <3>3
    <3>4. CASE r # "ok"
      <4>1. PICK b \in {c, "unknown"} : To(p, "finish", [inv[p] EXCEPT !.block = b])
        BY <3>1, <3>4 DEF c
      <4>2. b # "done" /\ b \in {"pending", "running", "failed", "unknown", "done"} /\ c # "done"
        BY <3>2, <4>1
      <4> QED
        BY <2>1, <3>1, <3>2, <3>4, <4>1, <4>2
    <3> QED
      BY <3>3, <3>4
  <2> QED
    BY <2>4, <2>5
<1>4. PICK c \in {"pending", "running", "failed", "done"}, b \in {"pending", "running", "failed", "unknown", "done"},
           phase \in {"work", "working", "finish"} :
        /\ op' = [op EXCEPT ![index].block = c]
        /\ To(p, phase, [inv[p] EXCEPT !.block = b])
        /\ phase \in {"work", "working"} => c # "done"
        /\ b = "done" /\ phase = "finish" => c = "done"
        /\ c = "done" => (Current.verb = "apply" <=> Current.root \in effects) /\ effects' = effects
  BY <1>3
<1>5. Rewritten /\ Current'.block = c /\ Current'.state = Current.state
  BY <1>1, <1>2, <1>4, BlockWritten
<1>6. /\ Moved(p) /\ at'[p] = phase /\ at'[p] \in Working /\ inv'[p].block = b
      /\ inv'[p].kind = inv[p].kind /\ inv'[p].verb = inv[p].verb /\ inv'[p].id = inv[p].id
      /\ inv'[p].root = inv[p].root /\ inv'[p].held = inv[p].held /\ inv'[p].claims = inv[p].claims
      /\ inv'[p].basis = inv[p].basis
  <2> DEFINE m == [inv[p] EXCEPT !.block = b]
  <2>1. /\ m \in Memory /\ m.block = b /\ m.kind = inv[p].kind /\ m.verb = inv[p].verb /\ m.id = inv[p].id
        /\ m.root = inv[p].root /\ m.held = inv[p].held /\ m.claims = inv[p].claims /\ m.basis = inv[p].basis
    BY <1>1 DEF Memory
  <2>2. To(p, phase, m) /\ phase \in Phase /\ phase # "idle" /\ phase \in Working
    BY <1>4 DEF Phase, Working
  <2> HIDE DEF m
  <2>3. Moved(p) /\ at'[p] = phase /\ inv'[p] = m
    BY <1>1, <2>1, <2>2, ToMoves
  <2> QED
    BY <2>1, <2>2, <2>3
<1>7. Fits(p)
  <2>1. Current'.root = Current.root
    BY <1>5 DEF Rewritten
  <2> QED
    BY <1>0, <1>1, <1>2, <1>4, <1>5, <1>6, <2>1, WorkingFits
<1>8. RecordsKept(p) /\ Courteous(p)
  BY <1>1, <1>2, <1>5, <1>6, RecordsCourteous DEF RecordsKept, Rewritten, Ended, Removed
<1>9. Typed'
  BY <1>1, <1>2, <1>3, <1>5, <1>6 DEF Typed, TypeOK, Moved, Rewritten
<1>10. Recorded'
  <2>1. EffectsOwned'
    BY <1>1, <1>2, <1>3, <1>5 DEF EffectsOwned, Rewritten
  <2>2. Ended(Current') => Current'.root \notin effects'
    BY <1>4, <1>5 DEF Ended, Rewritten
  <2>3. ~ Ended(Current) /\ Current'.state = "running"
    BY <1>1, <1>5 DEF Ended
  <2>4. Current'.root \in bindings /\ reserved
    BY <1>1, <1>5, <2>3 DEF Rewritten, Recorded, HoldingsKept, Ended
  <2>5. Current'.verb = "apply" => Current'.revision = revision
    BY <1>1, <1>5 DEF Rewritten, Recorded, InputFrozen
  <2> QED
    BY <1>1, <1>2, <1>5, <2>1, <2>2, <2>3, <2>4, <2>5, RewrittenRecorded
<1>11. Leased'
  BY <1>0, <1>1, <1>2, <1>4, <1>6, LeaseKept DEF Holding
<1>12. allocated <= allocated'
  BY <1>1, <1>2 DEF Ids, Id, None, MaxId
<1> QED
  BY <1>1, <1>6, <1>7, <1>8, <1>9, <1>10, <1>11, <1>12, Together


LEMMA SettleKeeps ==
  ASSUME IInv, NEW p \in Invocations, Settle(p)
  PROVE  IInv'
<1> DEFINE removed == IF Current.verb = "destroy" THEN effects \ {Current.root} ELSE effects
<1>0. at[p] = "working" /\ at[p] \in Working /\ at[p] \in Holding
  BY DEF Settle, Working, Holding
<1>1. /\ lease = p /\ evidence # PristineEvidence /\ evidence.operation # "applied"
      /\ index # None /\ index = inv[p].id /\ Current = op[index] /\ Current \in Operation
      /\ op[inv[p].id] = Current /\ inv[p].root = Current.root
      /\ Current.state = "running" /\ Current.block # "done"
      /\ EffectsOwned /\ allocated \in Ids /\ inv[p] \in Memory /\ Typed /\ Recorded
  BY <1>0, WhileWorking
<1>2. UNCHANGED <<evidence, index, dir, reserved, bindings, revision, lease, allocated>>
  BY DEF Settle, holdings
<1>3. PICK c \in {"pending", "running", "failed", "done"}, b \in {"failed", "unknown", "done"} :
        /\ op' = [op EXCEPT ![index].block = c]
        /\ To(p, "finish", [inv[p] EXCEPT !.block = b])
        /\ b = "done" => c = "done"
        /\ c = "done" => effects' = removed
        /\ effects' \subseteq effects
  <2>1. Current.block \in {"pending", "running", "failed"}
    BY <1>1 DEF Operation
  <2>2. op = [op EXCEPT ![index].block = Current.block]
    BY <1>1 DEF Typed, TypeOK, Operation
  <2>3. removed \subseteq effects
    OBVIOUS
  <2>4. \/ /\ op' = [op EXCEPT ![index].block = "done"] /\ effects' = removed
           /\ To(p, "finish", [inv[p] EXCEPT !.block = "done"])
        \/ /\ effects' \in {effects, removed}
           /\ op' = [op EXCEPT ![index].block = "failed"]
           /\ To(p, "finish", [inv[p] EXCEPT !.block = "failed"])
        \/ /\ effects' \in {effects, removed}
           /\ op' = op
           /\ To(p, "finish", [inv[p] EXCEPT !.block = "unknown"])
    BY <1>1 DEF Settle
  <2> HIDE DEF removed
  <2> QED
    BY <2>1, <2>2, <2>3, <2>4
<1>4. Rewritten /\ Current'.block = c /\ Current'.state = Current.state
  BY <1>1, <1>2, <1>3, BlockWritten
<1>5. /\ Moved(p) /\ at'[p] = "finish" /\ inv'[p].block = b
      /\ inv'[p].kind = inv[p].kind /\ inv'[p].verb = inv[p].verb /\ inv'[p].id = inv[p].id
      /\ inv'[p].root = inv[p].root /\ inv'[p].held = inv[p].held /\ inv'[p].claims = inv[p].claims
      /\ inv'[p].basis = inv[p].basis
  <2> DEFINE m == [inv[p] EXCEPT !.block = b]
  <2>1. /\ m \in Memory /\ m.block = b /\ m.kind = inv[p].kind /\ m.verb = inv[p].verb /\ m.id = inv[p].id
        /\ m.root = inv[p].root /\ m.held = inv[p].held /\ m.claims = inv[p].claims /\ m.basis = inv[p].basis
    BY <1>1 DEF Memory
  <2>2. To(p, "finish", m)
    BY <1>3
  <2> HIDE DEF m
  <2>3. Moved(p) /\ at'[p] = "finish" /\ inv'[p] = m
    BY <1>1, <2>1, <2>2, ToMoves DEF Phase
  <2> QED
    BY <2>1, <2>3
<1>6. Fits(p)
  <2>1. Current'.root = Current.root /\ at'[p] \in Working
    BY <1>4, <1>5 DEF Rewritten, Working
  <2> QED
    BY <1>0, <1>1, <1>2, <1>3, <1>4, <1>5, <2>1, WorkingFits
<1>7. RecordsKept(p) /\ Courteous(p)
  BY <1>1, <1>2, <1>4, <1>5, RecordsCourteous DEF RecordsKept, Rewritten, Ended, Removed
<1>8. Typed'
  BY <1>1, <1>2, <1>3, <1>4, <1>5 DEF Typed, TypeOK, Moved, Rewritten
<1>9. Recorded'
  <2>1. EffectsOwned'
    BY <1>1, <1>2, <1>3, <1>4 DEF EffectsOwned, Rewritten
  <2>2. Ended(Current') => Current'.root \notin effects'
    BY <1>3, <1>4 DEF Ended, Rewritten
  <2>3. ~ Ended(Current) /\ Current'.state = "running"
    BY <1>1, <1>4 DEF Ended
  <2>4. Current'.root \in bindings /\ reserved
    BY <1>1, <1>4, <2>3 DEF Rewritten, Recorded, HoldingsKept, Ended
  <2>5. Current'.verb = "apply" => Current'.revision = revision
    BY <1>1, <1>4 DEF Rewritten, Recorded, InputFrozen
  <2> QED
    BY <1>1, <1>2, <1>4, <2>1, <2>2, <2>3, <2>4, <2>5, RewrittenRecorded
<1>10. Leased'
  BY <1>0, <1>1, <1>2, <1>5, LeaseKept DEF Holding
<1>11. allocated <= allocated'
  BY <1>1, <1>2 DEF Ids, Id, None, MaxId
<1> QED
  BY <1>1, <1>5, <1>6, <1>7, <1>8, <1>9, <1>10, <1>11, Together

\* What an invocation collects once its transaction is over spares everybody.
LEMMA LeavingFits ==
  ASSUME IInv, NEW p \in Invocations, at[p] \in Working, Leave(p),
         index' = index, Current'.root = Current.root, allocated' = allocated
  PROVE  Moved(p) /\ Fits(p) /\ lease' = Free /\ at'[p] \notin Holding
<1>0. /\ lease = p /\ at[p] # "idle" /\ index # None /\ inv[p].root = Current.root
      /\ allocated \in Ids /\ inv[p] \in Memory /\ Typed /\ Leased /\ Local(p)
      /\ \A q \in Invocations \ {p} : Waiting(q) => inv[q].basis.id # index
      /\ \A q \in Invocations : Unlisted(q, p)
  BY WhileWorking DEF IInv, Beside
<1>1. allocated' \in Ids /\ allocated <= allocated' /\ None <= allocated
  BY <1>0 DEF Ids, Id, None, MaxId
<1>2. lease' = Free
  BY <1>0 DEF Leave, Unhold
<1>3. CASE inv[p].kind # "fresh"
  <2>1. To(p, "idle", inv[p])
    BY <1>3 DEF Leave
  <2> QED
    BY <1>1, <1>2, <2>1, StoppedFits DEF Holding
<1>4. CASE inv[p].kind = "fresh"
  <2> DEFINE m == [Registered(p) EXCEPT !.held = inv[p].held \ {inv[p].root}]
  <2>1. To(p, "collect", m) /\ m \in Memory
    BY <1>0, <1>4, RegisteredMemory DEF Leave, Memory
  <2>2. /\ m.id = inv[p].id /\ m.root = inv[p].root /\ m.kind = inv[p].kind /\ m.verb = inv[p].verb
        /\ m.held = inv[p].held \ {inv[p].root} /\ m.claims = {} /\ m.basis.id = None
    BY RegisteredMemory DEF Memory
  <2> HIDE DEF m
  <2>3. Moved(p) /\ at'[p] = "collect" /\ inv'[p] = m
    BY <1>0, <2>1, ToMoves DEF Phase
  <2>4. Remembers(p)' /\ Finalizes(p)'
    BY <1>0, <1>1, <2>2, <2>3 DEF Local, Remembers, Handed, Finalizes, Finalizing
  <2>5. Collected(p)' = inv[p].held \ {inv[p].root}
    BY <2>2, <2>3 DEF Collected
  <2>6. Collects(p)'
    BY <1>0, <2>5 DEF Collects
  <2>7. ASSUME NEW b \in Collected(p)', NEW q \in Invocations \ {p}
        PROVE  Spared(b, q)'
    <3>1. at'[q] = at[q] /\ inv'[q] = inv[q] /\ at[q] \notin Holding
      BY <1>0, <2>3, Elsewhere DEF Moved
    <3>2. Waiting(q) => Doomed(q)'
      BY <1>0, <3>1 DEF Doomed
    <3>3. FreshApply(q) /\ at[q] = "open" => inv[q].id # b
      BY <1>0, <2>5 DEF Unlisted
    <3> QED
      BY <3>1, <3>2, <3>3 DEF Spared, Waiting, FreshApply, Removing, Holding, Committed, Committing, Superseding
  <2>8. Fits(p)
    BY <2>2, <2>3, <2>4, <2>6, <2>7, CollectorFits
  <2> QED
    BY <1>2, <2>3, <2>8 DEF Holding
<1> QED
  BY <1>3, <1>4

LEMMA FinishKeeps ==
  ASSUME IInv, NEW p \in Invocations, Finish(p)
  PROVE  IInv'
<1>0. at[p] = "finish" /\ at[p] \in Working /\ at[p] \in Holding
  BY DEF Finish, Working, Holding
<1>1. /\ lease = p /\ evidence # PristineEvidence /\ evidence.operation # "applied"
      /\ index # None /\ index = inv[p].id /\ Current = op[index] /\ Current \in Operation
      /\ op[inv[p].id] = Current /\ inv[p].root = Current.root /\ Current.state = "running"
      /\ EffectsOwned /\ allocated \in Ids /\ inv[p] \in Memory /\ Typed /\ Recorded /\ Local(p)
  BY <1>0, WhileWorking
<1>2. PICK r \in Written :
        /\ op' = [op EXCEPT ![index].state = Becomes(r, op[index].state, NextOperationState({inv[p].block}, FALSE))]
        /\ IF r = "ok" THEN To(p, "project", Registered(p)) /\ UNCHANGED lease ELSE Leave(p)
  BY <1>1 DEF Finish
<1>3. UNCHANGED <<evidence, index, dir, reserved, bindings, revision, effects, allocated>>
  BY DEF Finish, holdings
<1>4. /\ Rewritten /\ Current'.block = Current.block /\ (Current'.state = "done" => Current.block = "done")
  <2> DEFINE s == Becomes(r, op[index].state, NextOperationState({inv[p].block}, FALSE))
  <2>1. /\ NextOperationState({inv[p].block}, FALSE) \in {"running", "unknown", "failed", "done"}
        /\ NextOperationState({inv[p].block}, FALSE) = "done" => inv[p].block = "done"
    BY <1>1 DEF NextOperationState, Unproved, Memory
  <2>2. inv[p].block = "done" => Current.block = "done"
    BY <1>0, <1>1 DEF Local, Works
  <2>3. /\ op' = [op EXCEPT ![index].state = s] /\ s \in {"running", "unknown", "failed", "done"}
        /\ s = "done" => Current.block = "done"
    BY <1>1, <1>2, <2>1, <2>2 DEF Becomes, Operation
  <2> HIDE DEF s
  <2> QED
    BY <1>1, <1>3, <2>3, StateWritten
<1>5. /\ Moved(p) /\ Fits(p)
      /\ (lease' = p /\ at'[p] \in Holding) \/ (lease' = Free /\ at'[p] \notin Holding)
  <2>0. Current'.root = Current.root
    BY <1>4 DEF Rewritten
  <2>1. CASE r # "ok"
    BY <1>0, <1>2, <1>3, <2>0, <2>1, LeavingFits
  <2>2. CASE r = "ok"
    <3>1. Moved(p) /\ at'[p] = "project" /\ inv'[p] = Registered(p) /\ lease' = p
      BY <1>1, <1>2, <2>2, RegisteredMemory, ToMoves DEF Phase
    <3>2. at'[p] \in Working /\ at'[p] \in Holding
      BY <3>1 DEF Working, Holding
    <3>3. /\ inv'[p].kind = inv[p].kind /\ inv'[p].verb = inv[p].verb /\ inv'[p].id = inv[p].id
          /\ inv'[p].root = inv[p].root /\ inv'[p].held = inv[p].held /\ inv'[p].claims = {}
          /\ inv'[p].basis.id = None
      BY <3>1, RegisteredMemory
    <3>4. Fits(p)
      BY <1>0, <1>3, <2>0, <3>1, <3>2, <3>3, WorkingFits
    <3> QED
      BY <3>1, <3>2, <3>4
  <2> QED
    BY <2>1, <2>2
<1>6. RecordsKept(p) /\ Courteous(p)
  BY <1>1, <1>3, <1>4, <1>5, RecordsCourteous DEF RecordsKept, Rewritten, Ended, Removed
<1>7. Typed'
  <2>1. lease' \in Invocations \union {Free}
    BY <1>5
  <2> QED
    BY <1>1, <1>3, <1>4, <1>5, <2>1 DEF Typed, TypeOK, Moved, Rewritten
<1>8. Recorded'
  <2>1. EffectsOwned'
    BY <1>1, <1>3, <1>4 DEF EffectsOwned, Rewritten
  <2>2. Ended(Current') <=> Ended(Current)
    BY <1>4 DEF Rewritten, Ended
  <2>3. Ended(Current') => Current'.root \notin effects'
    BY <1>1, <1>3, <1>4, <2>2 DEF Recorded, Indexed, Rewritten
  <2>4. ~ Ended(Current') => Current'.root \in bindings /\ reserved
    BY <1>1, <1>4, <2>2 DEF Rewritten, Recorded, HoldingsKept, Ended
  <2>5. Current'.verb = "apply" => Current'.revision = revision
    BY <1>1, <1>4 DEF Rewritten, Recorded, InputFrozen
  <2> QED
    BY <1>1, <1>3, <1>4, <2>1, <2>3, <2>4, <2>5, RewrittenRecorded
<1>9. Leased'
  BY <1>0, <1>1, <1>5, LeaseKept
<1>10. allocated <= allocated'
  BY <1>1, <1>3 DEF Ids, Id, None, MaxId
<1> QED
  BY <1>1, <1>5, <1>6, <1>7, <1>8, <1>9, <1>10, Together


\* The reservation of an operation that ended, or of none, is given back.
LEMMA ReservationRecorded ==
  ASSUME IInv, UNCHANGED <<evidence, index, dir, op, bindings, revision, effects, allocated>>,
         reserved' \in {reserved, FALSE}, index # None => Removed(Current)
  PROVE  Recorded' /\ reserved' \in BOOLEAN
<1>0. Typed /\ Recorded
  BY DEF IInv
<1>1. Current' = Current /\ (index # None => Ended(Current))
  BY <1>0 DEF Current, Recorded, Allocated, Indexed, Removed, Ended, Typed, TypeOK
<1>2. reserved' \in BOOLEAN /\ (~ reserved => ~ reserved')
  <2>1. reserved \in BOOLEAN /\ FALSE \in BOOLEAN
    BY <1>0 DEF Typed, TypeOK
  <2>2. CASE reserved' = reserved
    BY <2>1, <2>2
  <2>3. CASE reserved' = FALSE
    BY <2>1, <2>3
  <2> QED
    BY <2>2, <2>3
<1>3. Allocated' /\ Indexed' /\ InputFrozen'
  BY <1>0, <1>1 DEF Recorded, Allocated, Handed, Indexed, EffectsOwned, InputFrozen
<1>4. Projected'
  BY <1>0, <1>1, <1>2 DEF Recorded, Projected
<1>5. HoldingsKept'
  BY <1>1 DEF HoldingsKept, Ended
<1> QED
  BY <1>2, <1>3, <1>4, <1>5 DEF Recorded

\* A removal that completed gives back a binding nobody else needs.
LEMMA CompletingFits ==
  ASSUME IInv, NEW p \in Invocations, lease = p, Moved(p), at'[p] = "complete", at[p] # "idle",
         inv'[p].basis.id = index, inv'[p].basis.record = Current, inv'[p].kind = inv[p].kind,
         inv'[p].root = inv[p].root, inv'[p].id = inv[p].id, inv'[p].verb = inv[p].verb,
         inv'[p].held = inv[p].held, inv'[p].claims = inv[p].claims,
         UNCHANGED <<index, op, allocated>>,
         index # None, inv[p].root = Current.root, Removed(Current)
  PROVE  Fits(p)
<1>0. Typed /\ Leased /\ Recorded /\ Local(p) /\ \A q \in Invocations : Own(q)
  BY DEF IInv, Local
<1>1. Current' = Current /\ Ended(Current)
  BY <1>0 DEF Current, Recorded, Allocated, Indexed, Removed, Ended, Typed, TypeOK
<1>2. Remembers(p)' /\ Finalizes(p)'
  BY <1>0 DEF Local, Remembers, Handed, Finalizes, Finalizing, Recorded, Allocated
<1>3. \A b \in Collected(p)' : b = Current.root
  BY DEF Collected
<1>4. Collects(p)'
  BY <1>1, <1>3 DEF Collects
<1>5. ASSUME NEW b \in Collected(p)', NEW q \in Invocations \ {p}
      PROVE  Spared(b, q)'
  <2>1. at'[q] = at[q] /\ inv'[q] = inv[q] /\ at[q] \notin Holding
    BY <1>0, Elsewhere DEF Moved
  <2>2. Waiting(q) => inv[q].id # b
    BY <1>0, <1>3 DEF Own, New, Waiting
  <2> QED
    BY <2>1, <2>2 DEF Spared, Waiting, FreshApply, Removing, Holding, Committed, Committing, Superseding, Opened
<1> QED
  BY <1>2, <1>4, <1>5, CollectorFits

LEMMA ProjectKeeps ==
  ASSUME IInv, NEW p \in Invocations, Project(p)
  PROVE  IInv'
<1>0. at[p] = "project" /\ at[p] \in Working /\ at[p] \in Holding
  BY DEF Project, Working, Holding
<1>1. /\ lease = p /\ at[p] # "idle"
      /\ index # None /\ index = inv[p].id /\ Current = op[index]
      /\ op[inv[p].id] = Current /\ inv[p].root = Current.root
      /\ \A q \in Invocations \ {p} : Waiting(q) => inv[q].basis.id # index
      /\ allocated \in Ids /\ inv[p] \in Memory /\ Current \in Operation /\ index \in Id /\ Typed /\ Recorded
  BY <1>0, WhileWorking
<1>2. /\ UNCHANGED <<index, dir, op, bindings, revision, effects, allocated>>
      /\ Current' = Current
  BY DEF Project, records, Current
<1>3. allocated' \in Ids /\ allocated <= allocated'
  BY <1>1, <1>2 DEF Ids, Id, None, MaxId
<1>4. CASE Removed(Current)
  <2>1. PICK r \in Written :
          /\ reserved' = Becomes(r, reserved, FALSE)
          /\ IF r = "ok" THEN /\ To(p, "complete", [inv[p] EXCEPT !.basis = [id |-> index, record |-> Current]])
                              /\ Unhold(p)
                         ELSE Leave(p)
    BY <1>1, <1>4 DEF Project, Removed
  <2>2. UNCHANGED evidence
    BY <1>1, <1>4 DEF Project, Removed
  <2>3. Moved(p) /\ Fits(p) /\ lease' = Free /\ at'[p] \notin Holding
    <3>1. CASE r # "ok"
      BY <1>0, <1>2, <2>1, <3>1, LeavingFits
    <3>2. CASE r = "ok"
      <4> DEFINE m == [inv[p] EXCEPT !.basis = [id |-> index, record |-> Current]]
      <4>1. /\ m.basis = [id |-> index, record |-> Current] /\ m.kind = inv[p].kind /\ m.verb = inv[p].verb
            /\ m.id = inv[p].id /\ m.root = inv[p].root /\ m.held = inv[p].held /\ m.claims = inv[p].claims
            /\ m \in Memory
        BY <1>1 DEF Memory, Basis, Ids
      <4>2. To(p, "complete", m) /\ lease' = Free
        BY <1>1, <2>1, <3>2 DEF Unhold
      <4> HIDE DEF m
      <4>3. Moved(p) /\ at'[p] = "complete" /\ inv'[p] = m
        BY <1>1, <4>1, <4>2, ToMoves DEF Phase
      <4>4. Fits(p)
        BY <1>1, <1>2, <1>4, <4>1, <4>3, CompletingFits
      <4> QED
        BY <4>2, <4>3, <4>4 DEF Holding
    <3> QED
      BY <3>1, <3>2
  <2>4. RecordsKept(p) /\ Courteous(p)
    BY <1>2, <2>2, <2>3, RecordsCourteous DEF RecordsKept
  <2>5. Recorded' /\ reserved' \in BOOLEAN
    <3>1. reserved' \in {reserved, FALSE}
      BY <2>1 DEF Becomes
    <3> QED
      BY <1>2, <1>4, <2>2, <3>1, ReservationRecorded
  <2>6. Typed'
    BY <1>1, <1>2, <2>2, <2>3, <2>5 DEF Typed, TypeOK, Moved
  <2>7. Leased'
    BY <1>1, <2>3, LeaseKept
  <2> QED
    BY <1>1, <1>3, <2>3, <2>4, <2>5, <2>6, <2>7, Together
<1>5. CASE ~ Removed(Current)
  <2>1. PICK r \in Written : evidence' = Becomes(r, evidence, EvidenceFor(Current.verb, Current.state)) /\ Leave(p)
    BY <1>1, <1>5 DEF Project, Removed
  <2>2. /\ UNCHANGED reserved
        /\ evidence' \in {evidence, EvidenceFor(Current.verb, Current.state)}
    BY <1>1, <1>5, <2>1 DEF Project, Removed, Becomes
  <2>3. Moved(p) /\ Fits(p) /\ lease' = Free /\ at'[p] \notin Holding
    BY <1>0, <1>2, <2>1, LeavingFits
  <2>4. RecordsKept(p) /\ Courteous(p)
    BY <1>1, <1>2, <2>3, EvidenceCourteous
  <2>5. Recorded' /\ evidence' \in Evidence
    BY <1>1, <1>2, <1>3, <2>2, EvidenceRecorded
  <2>6. Typed'
    BY <1>1, <1>2, <2>2, <2>3, <2>5 DEF Typed, TypeOK, Moved
  <2>7. Leased'
    BY <1>1, <2>3, LeaseKept
  <2> QED
    BY <1>1, <1>3, <2>3, <2>4, <2>5, <2>6, <2>7, Together
<1> QED
  BY <1>4, <1>5
-----------------------------------------------------------------------------
(* Finalization and completion *)

LEMMA FinalizeKeeps ==
  ASSUME IInv, NEW p \in Invocations, Finalize(p)
  PROVE  IInv'
<1>0. at[p] = "finalize" /\ lease = Free /\ at[p] \notin Holding
  BY DEF Finalize, Holding
<1>1. /\ Typed /\ Recorded /\ Local(p) /\ inv[p] \in Memory /\ allocated \in Ids
  BY DEF IInv, Typed, TypeOK, Ids
<1>2. index = inv[p].basis.id /\ Current = inv[p].basis.record
  BY <1>0 DEF Finalize, Verified, VerifyBasis
<1>3. /\ Finalizing(p) /\ index # None /\ inv[p].root = Current.root /\ Current.block = "done"
  BY <1>0, <1>1, <1>2 DEF Local, Kinded, Finalizes
<1>4. index \in Id /\ Current = op[index] /\ Current \in Operation
  BY <1>1, <1>3 DEF Current, Typed, TypeOK, Recorded, Indexed
<1>5. PICK r \in Written :
        /\ op' = [op EXCEPT ![index].state = Becomes(r, op[index].state, "done")]
        /\ IF r = "ok" THEN To(p, "settle", inv[p]) /\ lease' = p
                       ELSE To(p, "idle", inv[p]) /\ UNCHANGED lease
        /\ Current.state = "done" => r = "ok"
  <2>1. PICK r \in (IF Current.state = "done" THEN {"ok"} ELSE Written) :
        /\ op' = [op EXCEPT ![index].state = Becomes(r, op[index].state, "done")]
        /\ IF r = "ok" THEN To(p, "settle", inv[p]) /\ lease' = p
                       ELSE To(p, "idle", inv[p]) /\ UNCHANGED lease
    BY DEF Finalize
  <2>2. r \in Written /\ (Current.state = "done" => r = "ok")
    BY <2>1 DEF Written
  <2> QED
    BY <2>1, <2>2
<1>6. UNCHANGED <<evidence, index, dir, reserved, bindings, revision, effects, allocated>>
  BY DEF Finalize, holdings
<1>7. allocated' \in Ids /\ allocated <= allocated'
  BY <1>1, <1>6 DEF Ids, Id, None, MaxId
<1>8. /\ Rewritten /\ Current'.block = Current.block /\ (r = "ok" => Current'.state = "done")
      /\ Current.state = "done" => Current' = Current
      /\ Current'.state \in {Current.state, "done"}
  <2> DEFINE s == Becomes(r, op[index].state, "done")
  <2>1. /\ op' = [op EXCEPT ![index].state = s] /\ s \in {"running", "unknown", "failed", "done"}
        /\ s \in {Current.state, "done"} /\ (r = "ok" => s = "done")
    BY <1>4, <1>5 DEF Becomes, Operation
  <2> HIDE DEF s
  <2> QED
    BY <1>3, <1>6, <2>1, StateWritten
<1>9. /\ Moved(p) /\ Fits(p)
      /\ (lease' = p /\ at'[p] \in Holding) \/ (lease' = Free /\ at'[p] \notin Holding)
  <2>1. CASE r # "ok"
    BY <1>0, <1>5, <1>7, <2>1, StoppedFits DEF Holding
  <2>2. CASE r = "ok"
    <3>1. Moved(p) /\ at'[p] = "settle" /\ inv'[p] = inv[p] /\ lease' = p
      BY <1>1, <1>5, <2>2, ToMoves DEF Phase
    <3>2. /\ ~ FreshApply(p)' /\ ~ Removing(p)' /\ ~ Resuming(p)' /\ Finalizing(p)' /\ ~ New(p)' /\ ~ Waiting(p)'
          /\ ~ Alone(p)'
      BY <1>3, <3>1 DEF FreshApply, Removing, Resuming, Finalizing, New, Waiting, Alone, Working
    <3>3. Remembers(p)' /\ Kinded(p)'
      BY <1>0, <1>1, <1>6, <3>1, <3>2 DEF Local, Remembers, Handed, Kinded, Committing, Opened
    <3>4. Applying(p)' /\ Own(p)' /\ Bound(p)' /\ Supersedes(p)' /\ Resumes(p)' /\ Works(p)' /\ Collects(p)'
      BY <3>1, <3>2 DEF Applying, Own, Bound, Supersedes, Resumes, Works, Collects, Collected, Working, Committed,
         Committing
    <3>5. Finalizes(p)'
      BY <1>3, <1>6, <1>8, <2>2, <3>1, <3>2 DEF Finalizes, Rewritten
    <3>6. Local(p)'
      BY <3>3, <3>4, <3>5 DEF Local
    <3>7. \A q \in Invocations \ {p} : Unawaited(p, q)' /\ \A b \in Collected(q) : Spared(b, p)'
      BY <3>1, <3>2 DEF Unawaited, Spared
    <3>8. Fits(p)
      BY <3>1, <3>2, <3>6, <3>7, OrdinaryFits
    <3> QED
      BY <3>1, <3>8 DEF Holding
  <2> QED
    BY <2>1, <2>2
<1>10. RecordsKept(p) /\ Courteous(p)
  BY <1>3, <1>6, <1>8, <1>9, RecordsCourteous DEF RecordsKept, Rewritten, Ended, Removed
<1>11. Typed'
  BY <1>1, <1>6, <1>8, <1>9 DEF Typed, TypeOK, Moved, Rewritten
<1>12. Recorded'
  <2>1. EffectsOwned'
    BY <1>1, <1>6, <1>8 DEF EffectsOwned, Recorded, Indexed, Rewritten
  <2>2. Ended(Current') <=> Ended(Current)
    BY <1>8 DEF Rewritten, Ended
  <2>3. Ended(Current') => Current'.root \notin effects'
    BY <1>1, <1>3, <1>6, <1>8, <2>2 DEF Recorded, Indexed, Rewritten
  <2>4. ~ Ended(Current') => Current'.root \in bindings /\ reserved
    BY <1>1, <1>3, <1>8, <2>2 DEF Rewritten, Recorded, HoldingsKept, Ended
  <2>5. Current'.verb = "apply" /\ Current'.state # "done" => Current'.revision = revision
    BY <1>1, <1>3, <1>8 DEF Rewritten, Recorded, InputFrozen
  <2>6. /\ evidence = PristineEvidence => Removed(Current')
        /\ evidence.operation = "applied" => Current'.verb = "apply" /\ Current'.state = "done"
    BY <1>1, <1>3, <1>8 DEF Recorded, Projected, Removed
  <2> QED
    BY <1>3, <1>6, <1>8, <2>1, <2>3, <2>4, <2>5, <2>6, RewrittenRecorded
<1>13. Leased'
  BY <1>0, <1>9, LeaseKept
<1> QED
  BY <1>0, <1>7, <1>9, <1>10, <1>11, <1>12, <1>13, Together


LEMMA SettleFinalKeeps ==
  ASSUME IInv, NEW p \in Invocations, SettleFinal(p)
  PROVE  IInv'
<1>0. at[p] = "settle" /\ at[p] \in Holding /\ lease = p /\ at[p] # "idle"
  BY InTransaction DEF SettleFinal, Holding
<1>1. /\ Typed /\ Recorded /\ Local(p) /\ inv[p] \in Memory /\ allocated \in Ids
  BY DEF IInv, Typed, TypeOK, Ids
<1>2. index # None /\ inv[p].root = Current.root /\ Current.state = "done"
  BY <1>0, <1>1 DEF Local, Finalizes
<1>3. index \in Id /\ Current \in Operation
  BY <1>1, <1>2 DEF Current, Typed, TypeOK, Recorded, Indexed
<1>4. /\ UNCHANGED <<index, dir, op, bindings, revision, effects, allocated>>
      /\ Current' = Current /\ lease' = Free
  BY <1>0 DEF SettleFinal, records, Current, Unhold
<1>5. allocated' \in Ids /\ allocated <= allocated'
  BY <1>1, <1>4 DEF Ids, Id, None, MaxId
<1>6. CASE Current.verb = "apply"
  <2> DEFINE m == [NoInvocation EXCEPT !.verb = inv[p].verb, !.finalized = TRUE]
  <2>1. PICK r \in Written :
          /\ evidence' = Becomes(r, evidence, EvidenceFor(Current.verb, Current.state))
          /\ To(p, IF r = "ok" THEN "view" ELSE "idle", m)
    BY <1>2, <1>6 DEF SettleFinal
  <2>2. /\ UNCHANGED reserved
        /\ evidence' \in {evidence, EvidenceFor(Current.verb, Current.state)}
    BY <1>6, <2>1 DEF SettleFinal, Becomes
  <2>3. EvidenceFor(Current.verb, Current.state) # Running
    BY <1>2, <1>6, Evidences DEF EvidenceFor
  <2>4. /\ m \in Memory /\ m.verb = inv[p].verb /\ m.id = None /\ m.root = None /\ m.held = {} /\ m.claims = {}
        /\ m.basis.id = None
    BY <1>1, NothingRemembered DEF Memory
  <2> HIDE DEF m
  <2>5. /\ Moved(p) /\ at'[p] \in {"view", "idle"}
        /\ inv'[p] = IF at'[p] = "idle" THEN NoInvocation ELSE m
    BY <1>1, <2>1, <2>4, ToMoves DEF Phase
  <2>6. Fits(p)
    <3>1. None <= allocated'
      BY <1>5 DEF Ids, Id, None, MaxId
    <3>2. CASE at'[p] = "idle"
      BY <1>5, <2>5, <3>2, StopsGone, GoneFits
    <3>3. CASE at'[p] = "view"
      <4>1. Gone(p)
        BY <1>0, <1>1, <2>4, <2>5, <3>1, <3>3 DEF Gone, Local, Remembers
      <4> QED
        BY <1>5, <2>5, <4>1, GoneFits
    <3> QED
      BY <2>5, <3>2, <3>3
  <2>7. RecordsKept(p) /\ Courteous(p)
    BY <1>4, <2>2, <2>3, <2>5, EvidenceCourteous
  <2>8. Recorded' /\ evidence' \in Evidence
    BY <1>2, <1>4, <1>5, <2>2, EvidenceRecorded
  <2>9. Typed'
    BY <1>1, <1>4, <2>2, <2>5, <2>8 DEF Typed, TypeOK, Moved
  <2>10. Leased'
    BY <1>0, <1>4, <2>5, LeaseKept DEF Holding
  <2> QED
    BY <1>0, <1>5, <2>5, <2>6, <2>7, <2>8, <2>9, <2>10, Together
<1>7. CASE Current.verb # "apply"
  <2>0. Removed(Current)
    BY <1>2, <1>3, <1>7 DEF Removed, Operation, Verb
  <2> DEFINE m == [inv[p] EXCEPT !.basis = [id |-> index, record |-> Current]]
  <2>1. PICK r \in (IF reserved THEN Written ELSE {"ok"}) :
          /\ reserved' = Becomes(r, reserved, FALSE)
          /\ To(p, IF r = "ok" THEN "complete" ELSE "idle", m)
    BY <1>7 DEF SettleFinal
  <2>2. UNCHANGED evidence /\ reserved' \in {reserved, FALSE}
    BY <1>7, <2>1 DEF SettleFinal, Becomes
  <2>3. /\ m.basis = [id |-> index, record |-> Current] /\ m.kind = inv[p].kind /\ m.verb = inv[p].verb
        /\ m.id = inv[p].id /\ m.root = inv[p].root /\ m.held = inv[p].held /\ m.claims = inv[p].claims
        /\ m \in Memory
    BY <1>1, <1>3 DEF Memory, Basis, Ids
  <2> HIDE DEF m
  <2>4. /\ Moved(p) /\ at'[p] \in {"complete", "idle"}
        /\ inv'[p] = IF at'[p] = "idle" THEN NoInvocation ELSE m
    BY <1>1, <2>1, <2>3, ToMoves DEF Phase
  <2>5. Fits(p)
    <3>1. CASE at'[p] = "idle"
      BY <1>5, <2>4, <3>1, StopsGone, GoneFits
    <3>2. CASE at'[p] = "complete"
      BY <1>0, <1>2, <1>4, <2>0, <2>3, <2>4, <3>2, CompletingFits
    <3> QED
      BY <2>4, <3>1, <3>2
  <2>6. RecordsKept(p) /\ Courteous(p)
    BY <1>4, <2>2, <2>4, RecordsCourteous DEF RecordsKept
  <2>7. Recorded' /\ reserved' \in BOOLEAN
    BY <1>4, <2>0, <2>2, ReservationRecorded
  <2>8. Typed'
    BY <1>1, <1>4, <2>2, <2>4, <2>7 DEF Typed, TypeOK, Moved
  <2>9. Leased'
    BY <1>0, <1>4, <2>4, LeaseKept DEF Holding
  <2> QED
    BY <1>0, <1>5, <2>4, <2>5, <2>6, <2>7, <2>8, <2>9, Together
<1> QED
  BY <1>6, <1>7

\* A binding that no operation the index names depends on is given back.
LEMMA BindingsRecorded ==
  ASSUME IInv, UNCHANGED <<evidence, index, dir, op, reserved, revision, effects, allocated>>, NEW b,
         bindings' \in {bindings, bindings \ {b}}, index # None /\ Current.root = b => Ended(Current)
  PROVE  Recorded' /\ bindings' \subseteq Id
<1>0. Typed /\ Recorded
  BY DEF IInv
<1>1. Current' = Current
  BY DEF Current
<1>2. bindings' \subseteq bindings /\ (index # None /\ ~ Ended(Current) => (Current.root \in bindings => Current.root \in bindings'))
  OBVIOUS
<1>3. Allocated' /\ Indexed' /\ InputFrozen' /\ Projected'
  BY <1>0, <1>1, <1>2 DEF Recorded, Allocated, Handed, Indexed, EffectsOwned, InputFrozen, Projected
<1>4. HoldingsKept'
  BY <1>0, <1>1, <1>2 DEF Recorded, HoldingsKept, Ended
<1> QED
  BY <1>0, <1>2, <1>3, <1>4 DEF Recorded, Typed, TypeOK

LEMMA CompleteKeeps ==
  ASSUME IInv, NEW p \in Invocations, Complete(p)
  PROVE  IInv'
<1>0. at[p] = "complete" /\ lease = Free /\ at[p] \notin Holding
  BY DEF Complete, Holding
<1>1. /\ Typed /\ Recorded /\ Local(p) /\ inv[p] \in Memory /\ allocated \in Ids /\ inv[p].root \in Ids
      /\ \A q \in Invocations : Beside(p, q)
  BY DEF IInv, Typed, TypeOK, Ids, Memory
<1>2. PICK r \in Written :
        /\ bindings' = Becomes(r, bindings, bindings \ {inv[p].root})
        /\ To(p, IF r = "ok" THEN "pristine" ELSE "idle", inv[p])
  BY DEF Complete
<1>3. /\ UNCHANGED <<evidence, index, dir, op, reserved, revision, lease, effects, allocated>>
      /\ Current' = Current /\ bindings' \in {bindings, bindings \ {inv[p].root}}
  BY <1>2 DEF Complete, records, Current, Becomes
<1>4. allocated' \in Ids /\ allocated <= allocated'
  BY <1>1, <1>3 DEF Ids, Id, None, MaxId
<1>5. inv[p].root \in Collected(p)
  BY <1>0 DEF Collected
<1>6. /\ Moved(p) /\ at'[p] \in {"pristine", "idle"} /\ inv'[p] = IF at'[p] = "idle" THEN NoInvocation ELSE inv[p]
  BY <1>1, <1>2, ToMoves DEF Phase
<1>7. Fits(p)
  <2>1. CASE at'[p] = "idle"
    BY <1>4, <1>6, <2>1, StopsGone, GoneFits
  <2>2. CASE at'[p] = "pristine"
    <3>1. inv'[p] = inv[p]
      BY <1>6, <2>2
    <3>2. ~ New(p)' /\ ~ Waiting(p)' /\ ~ Alone(p)'
      BY <2>2 DEF New, Waiting, Alone, Opened, Committed, Committing, Superseding, Working
    <3>3. Remembers(p)' /\ Finalizes(p)'
      BY <1>0, <1>1, <1>3, <2>2, <3>1 DEF Local, Remembers, Handed, Finalizes
    <3>4. /\ Kinded(p)' /\ Applying(p)' /\ Own(p)' /\ Bound(p)' /\ Supersedes(p)' /\ Resumes(p)' /\ Works(p)'
          /\ Collects(p)'
      BY <2>2, <3>2 DEF Kinded, Applying, Own, Bound, Supersedes, Resumes, Works, Collects, Collected, Working,
         Committed, Committing, Superseding, Opened
    <3>5. Local(p)'
      BY <3>3, <3>4 DEF Local
    <3>6. \A q \in Invocations \ {p} : Unawaited(p, q)' /\ \A b \in Collected(q) : Spared(b, p)'
      BY <2>2, <3>2 DEF Unawaited, Spared, Superseding, Committed, Committing
    <3> QED
      BY <1>6, <2>2, <3>1, <3>2, <3>5, <3>6, OrdinaryFits
  <2> QED
    BY <1>6, <2>1, <2>2
<1>8. RecordsKept(p) /\ Courteous(p)
  <2>1. \A q \in Invocations \ {p} : Waiting(q) /\ inv[q].id = inv[p].root => Doomed(q)
    BY <1>1, <1>5 DEF Beside, Spares, Spared
  <2>2. bindings' \subseteq bindings
    BY <1>3
  <2> QED
    BY <1>1, <1>3, <1>6, <2>1, <2>2, BindingsCourteous
<1>9. Recorded' /\ bindings' \subseteq Id
  <2>1. index # None /\ Current.root = inv[p].root => Ended(Current)
    BY <1>1, <1>5 DEF Local, Collects
  <2> QED
    BY <1>3, <2>1, BindingsRecorded
<1>10. Typed'
  BY <1>1, <1>3, <1>6, <1>9 DEF Typed, TypeOK, Moved
<1>11. Leased'
  BY <1>0, <1>3, <1>6, LeaseKept DEF Holding
<1> QED
  BY <1>0, <1>4, <1>6, <1>7, <1>8, <1>9, <1>10, <1>11, Together

LEMMA GiveBackKeeps ==
  ASSUME IInv, NEW p \in Invocations, GiveBack(p)
  PROVE  IInv'
<1>0. at[p] \in {"pristine", "release"} /\ lease = Free /\ at[p] \notin Holding /\ at[p] # "idle"
  BY DEF GiveBack, Holding
<1>1. /\ Typed /\ Recorded /\ Local(p) /\ inv[p] \in Memory /\ allocated \in Ids
  BY DEF IInv, Typed, TypeOK, Ids
<1>2. index # None => Removed(Current)
  <2>1. index = inv[p].basis.id /\ Current = inv[p].basis.record
    <3>1. Verified(p)
      BY DEF GiveBack
    <3> QED
      BY <1>0, <3>1 DEF Verified, VerifyBasis
  <2> QED
    BY <1>0, <1>1, <2>1 DEF Local, Kinded, Finalizes
<1>3. PICK r \in (IF reserved THEN Written ELSE {"ok"}) :
        /\ reserved' = Becomes(r, reserved, FALSE)
        /\ IF r = "ok" THEN To(p, "lower", inv[p]) /\ lease' = p
                       ELSE To(p, "idle", inv[p]) /\ UNCHANGED lease
  BY DEF GiveBack
<1>4. /\ UNCHANGED <<evidence, index, dir, op, bindings, revision, effects, allocated>>
      /\ Current' = Current /\ reserved' \in {reserved, FALSE} /\ (r = "ok" => reserved' = FALSE)
  BY <1>3 DEF GiveBack, records, Current, Becomes
<1>5. allocated' \in Ids /\ allocated <= allocated'
  BY <1>1, <1>4 DEF Ids, Id, None, MaxId
<1>6. /\ Moved(p) /\ Fits(p)
      /\ (lease' = p /\ at'[p] \in Holding) \/ (lease' = Free /\ at'[p] \notin Holding)
  <2>1. CASE r # "ok"
    BY <1>0, <1>3, <1>5, <2>1, StoppedFits DEF Holding
  <2>2. CASE r = "ok"
    <3>1. Moved(p) /\ at'[p] = "lower" /\ inv'[p] = inv[p] /\ lease' = p
      BY <1>1, <1>3, <2>2, ToMoves DEF Phase
    <3>2. ~ New(p)' /\ ~ Waiting(p)' /\ ~ Alone(p)'
      BY <3>1 DEF New, Waiting, Alone, Opened, Committed, Committing, Superseding, Working
    <3>3. Remembers(p)'
      BY <1>0, <1>1, <1>4, <3>1 DEF Local, Remembers, Handed
    <3>4. Finalizes(p)'
      BY <1>2, <1>4, <2>2, <3>1 DEF Finalizes
    <3>5. /\ Kinded(p)' /\ Applying(p)' /\ Own(p)' /\ Bound(p)' /\ Supersedes(p)' /\ Resumes(p)' /\ Works(p)'
          /\ Collects(p)'
      BY <3>1, <3>2 DEF Kinded, Applying, Own, Bound, Supersedes, Resumes, Works, Collects, Collected, Working,
         Committed, Committing, Superseding, Opened
    <3>6. Local(p)'
      BY <3>3, <3>4, <3>5 DEF Local
    <3>7. \A q \in Invocations \ {p} : Unawaited(p, q)' /\ \A b \in Collected(q) : Spared(b, p)'
      BY <3>1, <3>2 DEF Unawaited, Spared, Superseding, Committed, Committing
    <3>8. Fits(p)
      BY <3>1, <3>2, <3>6, <3>7, OrdinaryFits
    <3> QED
      BY <3>1, <3>8 DEF Holding
  <2> QED
    BY <2>1, <2>2
<1>7. RecordsKept(p) /\ Courteous(p)
  BY <1>4, <1>6, RecordsCourteous DEF RecordsKept
<1>8. Recorded' /\ reserved' \in BOOLEAN
  BY <1>2, <1>4, ReservationRecorded
<1>9. Typed'
  BY <1>1, <1>4, <1>6, <1>8 DEF Typed, TypeOK, Moved
<1>10. Leased'
  BY <1>0, <1>6, LeaseKept
<1> QED
  BY <1>0, <1>5, <1>6, <1>7, <1>8, <1>9, <1>10, Together


\* Pristine evidence, and the directories it reclaims, over a context whose
\* operation is gone.
LEMMA PristineKeeps ==
  ASSUME IInv, NEW p \in Invocations, Moved(p),
         UNCHANGED <<index, op, reserved, bindings, revision, effects, allocated>>,
         evidence' \in {evidence, PristineEvidence}, dir' \in Reclaim(dir, index),
         evidence' # evidence => IF index = None THEN ~ reserved ELSE Removed(Current)
  PROVE  /\ Recorded' /\ RecordsKept(p) /\ Courteous(p)
         /\ evidence' \in Evidence /\ dir' \in [Id -> {"absent", "claim", "plan", "operation"}]
<1>0. Typed /\ Recorded /\ index \in Ids /\ \A q \in Invocations : Own(q)
  BY DEF IInv, Local, Typed, TypeOK, Ids
<1>1. Current' = Current
  BY DEF Current
<1>2. dir' \in [Id -> {"absent", "claim", "plan", "operation"}] /\ \A i \in Id : dir'[i] # "absent" => dir[i] # "absent"
  BY <1>0 DEF Reclaim, Typed, TypeOK
<1>3. Allocated' /\ Indexed' /\ HoldingsKept' /\ InputFrozen'
  BY <1>0, <1>1, <1>2 DEF Recorded, Allocated, Handed, Indexed, EffectsOwned, HoldingsKept, InputFrozen
<1>4. Projected'
  BY <1>0, <1>1, Evidences DEF Recorded, Projected
<1>5. Courteous(p)
  <2>1. \A q \in Invocations \ {p} : Waiting(q) => inv[q].id # index
    BY <1>0 DEF Own, New, Waiting
  <2> QED
    BY <1>0, <2>1, DirectoriesCourteous
<1> QED
  BY <1>0, <1>1, <1>2, <1>3, <1>4, <1>5, Evidences DEF Recorded, RecordsKept, Typed, TypeOK

LEMMA LowerKeeps ==
  ASSUME IInv, NEW p \in Invocations, Lower(p)
  PROVE  IInv'
<1> DEFINE m == [Registered(p) EXCEPT !.held = inv[p].held \ {inv[p].root}]
<1>0. at[p] = "lower" /\ at[p] \in Holding /\ lease = p /\ at[p] # "idle"
  BY InTransaction DEF Lower, Holding
<1>1. /\ Typed /\ Leased /\ Recorded /\ Local(p) /\ inv[p] \in Memory /\ allocated \in Ids
      /\ \A q \in Invocations : Unlisted(q, p)
  BY DEF IInv, Typed, TypeOK, Ids, Beside
<1>2. ~ reserved /\ (index # None => Removed(Current))
  BY <1>0, <1>1 DEF Local, Finalizes
<1>3. PICK r \in Written :
        /\ evidence' = Becomes(r, evidence, PristineEvidence)
        /\ dir' \in IF r = "ok" THEN Reclaim(dir, index) ELSE {dir}
        /\ To(p, IF r = "ok" /\ inv[p].kind # "resume" THEN "collect" ELSE "idle", m)
  BY RegisteredMemory DEF Lower
<1>4. /\ UNCHANGED <<index, op, reserved, bindings, revision, effects, allocated>>
      /\ Current' = Current /\ lease' = Free
      /\ evidence' \in {evidence, PristineEvidence} /\ (r = "ok" => evidence' = PristineEvidence)
      /\ dir' \in Reclaim(dir, index)
  BY <1>0, <1>3 DEF Lower, holdings, Current, Unhold, Becomes, Reclaim
<1>5. allocated' \in Ids /\ allocated <= allocated' /\ None <= allocated
  BY <1>1, <1>4 DEF Ids, Id, None, MaxId
<1>6. /\ m.id = inv[p].id /\ m.root = inv[p].root /\ m.kind = inv[p].kind /\ m.verb = inv[p].verb
      /\ m.held = inv[p].held \ {inv[p].root} /\ m.claims = {} /\ m.basis.id = None /\ m \in Memory
  <2>1. inv[p].held \ {inv[p].root} \in SUBSET Id
    BY <1>1 DEF Memory
  <2> QED
    BY <2>1, RegisteredMemory DEF Memory
<1> HIDE DEF m
<1>7. /\ Moved(p) /\ at'[p] \in {"collect", "idle"} /\ inv'[p] = (IF at'[p] = "idle" THEN NoInvocation ELSE m)
      /\ at'[p] = "collect" => r = "ok"
  BY <1>1, <1>3, <1>6, ToMoves DEF Phase
<1>8. Fits(p)
  <2>1. CASE at'[p] = "idle"
    BY <1>5, <1>7, <2>1, StopsGone, GoneFits
  <2>2. CASE at'[p] = "collect"
    <3>1. inv'[p] = m /\ evidence' # Running
      BY <1>4, <1>7, <2>2, Evidences
    <3>2. Remembers(p)' /\ Finalizes(p)'
      BY <1>0, <1>1, <1>4, <1>5, <1>6, <2>2, <3>1 DEF Local, Remembers, Handed, Finalizes
    <3>3. Collected(p)' \subseteq inv[p].held
      BY <1>6, <2>2, <3>1 DEF Collected
    <3>4. Collects(p)'
      <4>1. index # None => Ended(Current)
        BY <1>1, <1>2 DEF Current, Recorded, Allocated, Indexed, Removed, Ended, Typed, TypeOK
      <4> QED
        BY <1>4, <4>1 DEF Collects
    <3>5. ASSUME NEW b \in Collected(p)', NEW q \in Invocations \ {p}
          PROVE  Spared(b, q)'
      <4>1. at'[q] = at[q] /\ inv'[q] = inv[q] /\ at[q] \notin Holding
        BY <1>0, <1>1, <1>7, Elsewhere DEF Moved
      <4>2. Doomed(q)'
        BY <3>1 DEF Doomed
      <4>3. FreshApply(q) /\ at[q] = "open" => inv[q].id # b
        BY <1>1, <3>3 DEF Unlisted
      <4> QED
        BY <4>1, <4>2, <4>3 DEF Spared, Waiting, FreshApply, Removing, Holding, Committed, Committing, Superseding
    <3> QED
      BY <1>6, <1>7, <2>2, <3>1, <3>2, <3>4, <3>5, CollectorFits
  <2> QED
    BY <1>7, <2>1, <2>2
<1>9. /\ Recorded' /\ RecordsKept(p) /\ Courteous(p)
      /\ evidence' \in Evidence /\ dir' \in [Id -> {"absent", "claim", "plan", "operation"}]
  BY <1>2, <1>4, <1>7, PristineKeeps
<1>10. Typed'
  BY <1>1, <1>4, <1>7, <1>9 DEF Typed, TypeOK, Moved
<1>11. Leased'
  BY <1>0, <1>4, <1>7, LeaseKept DEF Holding
<1> QED
  BY <1>0, <1>5, <1>7, <1>8, <1>9, <1>10, <1>11, Together

\* What is left to collect is as good to collect as it was.
LEMMA CollectingOn ==
  ASSUME IInv, NEW p \in Invocations, lease \in {p, Free}, at[p] \in {"reclaim", "collect"}, Moved(p), Courteous(p),
         at'[p] = "collect", inv'[p].held \subseteq inv[p].held, inv'[p].claims \subseteq inv[p].claims,
         inv'[p].id = inv[p].id, inv'[p].root = inv[p].root, inv'[p].verb = inv[p].verb,
         inv'[p].basis.id \in {inv[p].basis.id, None},
         UNCHANGED <<index, op, allocated>>
  PROVE  Fits(p)
<1>0. /\ Typed /\ Leased /\ Local(p) /\ Current' = Current /\ \A q \in Invocations : Beside(p, q)
      /\ None <= allocated
  BY DEF IInv, Current, Typed, TypeOK, Id, None, MaxId
<1>1. Remembers(p)' /\ Finalizes(p)'
  BY <1>0 DEF Local, Remembers, Handed, Finalizes
<1>2. Collected(p)' \subseteq Collected(p)
  BY DEF Collected
<1>3. Collects(p)'
  BY <1>0, <1>2 DEF Local, Collects
<1>4. ASSUME NEW b \in Collected(p)', NEW q \in Invocations \ {p}
      PROVE  Spared(b, q)'
  <2>1. at'[q] = at[q] /\ inv'[q] = inv[q] /\ Spared(b, q)
    BY <1>0, <1>2 DEF Moved, Beside, Spares
  <2>2. Waiting(q) => (Doomed(q) => Doomed(q)')
    BY DEF Courteous
  <2>3. (Waiting(q)' <=> Waiting(q)) /\ (FreshApply(q)' <=> FreshApply(q)) /\ (Removing(q)' <=> Removing(q))
    BY <2>1 DEF Waiting, FreshApply, Removing
  <2> QED
    BY <2>1, <2>2, <2>3 DEF Spared
<1> QED
  BY <1>1, <1>3, <1>4, CollectorFits

LEMMA ReclaimIdleKeeps ==
  ASSUME IInv, NEW p \in Invocations, ReclaimIdle(p)
  PROVE  IInv'
<1>0. at[p] = "reclaim" /\ lease = Free /\ at[p] \notin Holding
  BY DEF ReclaimIdle, Holding
<1>1. Typed /\ allocated \in Ids
  BY DEF IInv, Typed, TypeOK, Ids
<1>2. /\ UNCHANGED <<evidence, index, op, reserved, bindings, revision, lease, effects, allocated>>
      /\ dir' \in Reclaim(dir, index) /\ To(p, "collect", Registered(p))
  BY DEF ReclaimIdle, holdings, Reclaim
<1>3. allocated <= allocated'
  BY <1>1, <1>2 DEF Ids, Id, None, MaxId
<1>4. Moved(p) /\ at'[p] = "collect" /\ inv'[p] = Registered(p)
  BY <1>1, <1>2, RegisteredMemory, ToMoves DEF Phase
<1>5. /\ Recorded' /\ RecordsKept(p) /\ Courteous(p)
      /\ evidence' \in Evidence /\ dir' \in [Id -> {"absent", "claim", "plan", "operation"}]
  BY <1>2, <1>4, PristineKeeps
<1>6. Fits(p)
  BY <1>0, <1>2, <1>4, <1>5, RegisteredMemory, CollectingOn
<1>7. Typed'
  BY <1>1, <1>2, <1>4, <1>5 DEF Typed, TypeOK, Moved
<1>8. Leased'
  BY <1>0, <1>2, <1>4, LeaseKept DEF Holding
<1> QED
  BY <1>0, <1>3, <1>4, <1>5, <1>6, <1>7, <1>8, Together


\* Some binding of a collection is the first.
LEMMA FirstHeld ==
  ASSUME NEW S \in SUBSET Id, S # {}
  PROVE  \E b \in S : \A c \in S : b <= c
<1> DEFINE less == OpToRel(<, Nat)
<1>0. S \subseteq Nat
  BY DEF Id
<1>1. IsWellFoundedOn(less, Nat)
  BY NatLessThanWellFounded
<1>2. \A x, y \in Nat : x < y => <<x, y>> \in less
  BY DEF OpToRel
<1> HIDE DEF less
<1>3. PICK b \in S : \A c \in S : ~ (<<c, b>> \in less)
  BY <1>0, <1>1, WFMin
<1>4. ASSUME NEW c \in S PROVE b <= c
  <2>1. b \in Nat /\ c \in Nat
    BY <1>0
  <2>2. ~ (c < b)
    BY <1>2, <1>3, <2>1
  <2> QED
    BY <2>1, <2>2
<1> QED
  BY <1>4

LEMMA CollectKeeps ==
  ASSUME IInv, NEW p \in Invocations, Collect(p)
  PROVE  IInv'
<1>0. at[p] = "collect" /\ at[p] \notin Holding /\ at[p] # "idle"
  BY DEF Collect, Holding
<1>1. /\ Typed /\ Leased /\ Recorded /\ Local(p) /\ inv[p] \in Memory /\ allocated \in Ids
      /\ \A q \in Invocations : Beside(p, q)
  BY DEF IInv, Typed, TypeOK, Ids
<1>2. /\ UNCHANGED <<evidence, index, dir, op, reserved, revision, lease, effects, allocated>>
      /\ Current' = Current
  BY DEF Collect, records, Current
<1>3. allocated' \in Ids /\ allocated <= allocated' /\ None <= allocated'
  BY <1>1, <1>2 DEF Ids, Id, None, MaxId
<1>4. CASE inv[p].held = {}
  <2> DEFINE m == [NoInvocation EXCEPT !.verb = inv[p].verb, !.finalized = TRUE]
  <2>1. UNCHANGED bindings /\ To(p, IF inv[p].kind = "finalize" THEN "view" ELSE "idle", m)
    BY <1>4 DEF Collect
  <2>2. /\ m \in Memory /\ m.verb = inv[p].verb /\ m.id = None /\ m.root = None /\ m.held = {} /\ m.claims = {}
        /\ m.basis.id = None
    BY <1>1, NothingRemembered DEF Memory
  <2> HIDE DEF m
  <2>3. /\ Moved(p) /\ at'[p] \in {"view", "idle"}
        /\ inv'[p] = IF at'[p] = "idle" THEN NoInvocation ELSE m
    BY <1>1, <2>1, <2>2, ToMoves DEF Phase
  <2>4. Fits(p)
    <3>1. CASE at'[p] = "idle"
      BY <1>3, <2>3, <3>1, StopsGone, GoneFits
    <3>2. CASE at'[p] = "view"
      <4>1. Gone(p)
        BY <1>0, <1>1, <1>3, <2>2, <2>3, <3>2 DEF Gone, Local, Remembers
      <4> QED
        BY <1>3, <2>3, <4>1, GoneFits
    <3> QED
      BY <2>3, <3>1, <3>2
  <2>5. Typed'
    BY <1>1, <1>2, <2>1, <2>3 DEF Typed, TypeOK, Moved
  <2>6. Leased'
    BY <1>0, <1>2, <2>3, LeaseKept DEF Holding
  <2> QED
    BY <1>2, <2>1, <2>3, <2>4, <2>5, <2>6, Aside
<1>5. CASE inv[p].held # {}
  <2> DEFINE b == CHOOSE b \in inv[p].held : \A c \in inv[p].held : b <= c
             m == [inv[p] EXCEPT !.held = inv[p].held \ {b}]
  <2>1. b \in inv[p].held /\ b \in Ids
    <3>1. inv[p].held \in SUBSET Id
      BY <1>1 DEF Memory
    <3> QED
      BY <1>5, <3>1, FirstHeld DEF Ids
  <2>2. /\ lease = Free /\ bindings' \in {bindings, bindings \ {b}} /\ To(p, "collect", m)
    BY <1>5 DEF Collect, Becomes
  <2> HIDE DEF b
  <2>3. /\ m.id = inv[p].id /\ m.root = inv[p].root /\ m.verb = inv[p].verb /\ m.basis = inv[p].basis
        /\ m.held \subseteq inv[p].held /\ m.claims = inv[p].claims /\ m \in Memory
    <3>1. inv[p].held \ {b} \in SUBSET Id
      BY <1>1 DEF Memory
    <3> QED
      BY <1>1, <3>1 DEF Memory
  <2> HIDE DEF m
  <2>4. Moved(p) /\ at'[p] = "collect" /\ inv'[p] = m
    BY <1>1, <2>2, <2>3, ToMoves DEF Phase
  <2>5. b \in Collected(p)
    BY <1>0, <2>1 DEF Collected
  <2>6. RecordsKept(p) /\ Courteous(p)
    <3>1. \A q \in Invocations \ {p} : Waiting(q) /\ inv[q].id = b => Doomed(q)
      BY <1>1, <2>5 DEF Beside, Spares, Spared
    <3>2. bindings' \subseteq bindings
      BY <2>2
    <3> QED
      BY <1>2, <2>1, <2>2, <2>4, <3>1, <3>2, BindingsCourteous
  <2>7. Fits(p)
    BY <1>0, <1>2, <2>2, <2>3, <2>4, <2>6, CollectingOn
  <2>8. Recorded' /\ bindings' \subseteq Id
    <3>1. index # None /\ Current.root = b => Ended(Current)
      BY <1>1, <2>5 DEF Local, Collects
    <3> QED
      BY <1>2, <2>2, <3>1, BindingsRecorded
  <2>9. Typed'
    BY <1>1, <1>2, <2>4, <2>8 DEF Typed, TypeOK, Moved
  <2>10. Leased'
    BY <1>0, <1>2, <2>4, LeaseKept DEF Holding
  <2> QED
    BY <1>3, <2>2, <2>4, <2>6, <2>7, <2>8, <2>9, <2>10, Together
<1> QED
  BY <1>4, <1>5
-----------------------------------------------------------------------------
(* What is given back, and the context's owner *)

LEMMA UnbindKeeps ==
  ASSUME IInv, NEW p \in Invocations, Unbind(p)
  PROVE  IInv'
<1>0. at[p] = "unbind" /\ lease = Free /\ at[p] \notin Holding /\ at[p] # "idle"
  BY DEF Unbind, Holding
<1>1. /\ Typed /\ Local(p) /\ inv[p] \in Memory /\ allocated \in Ids /\ inv[p].id \in Ids
      /\ \A q \in Invocations : Beside(p, q)
  BY DEF IInv, Typed, TypeOK, Ids, Memory
<1>2. New(p)
  BY <1>0, <1>1 DEF Local, Kinded, New
<1>3. /\ UNCHANGED <<evidence, index, dir, op, reserved, revision, effects, allocated>>
      /\ bindings' \in {bindings, bindings \ {inv[p].id}} /\ Unregistered(p, FALSE, inv[p])
  BY DEF Unbind, records, Becomes
<1>4. allocated <= allocated'
  BY <1>1, <1>3 DEF Ids, Id, None, MaxId
<1>5. Moved(p) /\ Fits(p) /\ at'[p] \notin Holding /\ lease' = Free
  BY <1>0, <1>3, UnregisteredFits DEF Unregistered, Unhold
<1>6. RecordsKept(p) /\ Courteous(p)
  <2>1. \A q \in Invocations \ {p} : Waiting(q) => inv[q].id # inv[p].id
    BY <1>1, <1>2 DEF Beside, Apart, New, Waiting
  <2> QED
    BY <1>1, <1>3, <1>5, <2>1, BindingsCourteous
<1>7. Recorded' /\ bindings' \subseteq Id
  <2>1. ~ (index # None /\ Current.root = inv[p].id)
    BY <1>1, <1>2 DEF Local, Own
  <2> QED
    BY <1>3, <2>1, BindingsRecorded
<1>8. Typed'
  BY <1>1, <1>3, <1>5, <1>7 DEF Typed, TypeOK, Moved
<1>9. Leased'
  BY <1>0, <1>5, LeaseKept
<1> QED
  BY <1>0, <1>4, <1>5, <1>6, <1>7, <1>8, <1>9, Together

LEMMA RestoreEvidenceKeeps ==
  ASSUME IInv, NEW p \in Invocations, RestoreEvidence(p)
  PROVE  IInv'
<1> DEFINE implied == IF index = None THEN PristineEvidence ELSE EvidenceFor(Current.verb, Current.state)
<1>0. at[p] = "restore" /\ lease = Free /\ at[p] \notin Holding
  BY DEF RestoreEvidence, Holding
<1>1. Typed /\ allocated \in Ids /\ \A q \in Invocations : Local(q)
  BY DEF IInv, Typed, TypeOK, Ids
<1>2. /\ UNCHANGED <<index, op, reserved, bindings, revision, lease, effects, allocated>>
      /\ Current' = Current /\ To(p, "idle", inv[p])
  BY DEF RestoreEvidence, holdings, Current
<1>3. allocated' \in Ids /\ allocated <= allocated'
  BY <1>1, <1>2 DEF Ids, Id, None, MaxId
<1>4. Moved(p) /\ Fits(p) /\ at'[p] = "idle"
  BY <1>2, <1>3, StoppedFits
<1>5. /\ evidence' \in {evidence, implied}
      /\ dir' = dir \/ (implied = PristineEvidence /\ dir' \in Reclaim(dir, index))
      /\ evidence' # evidence => ~ KeepsRunning(p)
  BY DEF RestoreEvidence, Becomes
<1>6. /\ Recorded' /\ RecordsKept(p) /\ Courteous(p)
      /\ evidence' \in Evidence /\ dir' \in [Id -> {"absent", "claim", "plan", "operation"}]
  <2>1. CASE implied = PristineEvidence
    <3>1. dir' \in Reclaim(dir, index)
      BY <1>5 DEF Reclaim
    <3>2. evidence' # evidence => IF index = None THEN ~ reserved ELSE Removed(Current)
      BY <1>5, <2>1, EvidenceFollows DEF KeepsRunning
    <3> QED
      BY <1>2, <1>4, <1>5, <2>1, <3>1, <3>2, PristineKeeps
  <2>2. CASE implied # PristineEvidence
    <3>1. index # None /\ implied = EvidenceFor(Current.verb, Current.state) /\ dir' = dir
      BY <1>5, <2>2
    <3>2. ~ Removed(Current)
      BY <2>2, <3>1 DEF EvidenceFor, Removed
    <3>3. \A q \in Invocations : Waiting(q) => index # inv[q].basis.id
      BY <1>1, <3>1, <3>2 DEF Local, Applying, Waiting
    <3>4. RecordsKept(p) /\ Courteous(p)
      BY <1>2, <1>4, <3>1, <3>3, EvidenceCourteous
    <3>5. Recorded' /\ evidence' \in Evidence
      BY <1>2, <1>3, <1>5, <3>1, EvidenceRecorded
    <3> QED
      BY <1>1, <3>1, <3>4, <3>5 DEF Typed, TypeOK
  <2> QED
    BY <2>1, <2>2
<1>7. Typed'
  BY <1>1, <1>2, <1>4, <1>6 DEF Typed, TypeOK, Moved
<1>8. Leased'
  BY <1>0, <1>2, <1>4, LeaseKept DEF Holding
<1> QED
  BY <1>0, <1>3, <1>4, <1>6, <1>7, <1>8, Together

LEMMA UpdateKeeps ==
  ASSUME IInv, Update
  PROVE  IInv'
<1>0. /\ Typed /\ Leased /\ Recorded /\ (\A p \in Invocations : Local(p)) /\ \A p, q \in Invocations : Beside(p, q)
  BY DEF IInv
<1>1. /\ UNCHANGED <<evidence, index, dir, op, reserved, bindings, lease, effects, at, inv, allocated>>
      /\ Current' = Current /\ lease = Free /\ revision < MaxRevision /\ revision' = revision + 1
      /\ evidence.operation \in {"none", "applied"}
  BY DEF Update, records, holdings, Current, Guard
<1>2. Typed' /\ Leased'
  <2>1. revision' \in 0..MaxRevision
    BY <1>0, <1>1, RegistrationAssumption DEF Typed, TypeOK
  <2> QED
    BY <1>0, <1>1, <2>1 DEF Typed, TypeOK, Leased
<1>3. Recorded'
  <2>1. index # None /\ Current.verb = "apply" => Current.state = "done"
    BY <1>0, <1>1 DEF Recorded, Projected, Removed
  <2> QED
    BY <1>0, <1>1, <2>1 DEF Recorded, Allocated, Handed, Indexed, EffectsOwned, Projected, HoldingsKept, InputFrozen
<1>4. ASSUME NEW p \in Invocations PROVE Local(p)'
  <2>1. at[p] \notin Holding /\ Local(p)
    BY <1>0, <1>1, RegistrationAssumption DEF Leased
  <2>2. Doomed(p)' <=> Doomed(p)
    BY <1>1 DEF Doomed, Claimed
  <2>3. Remembers(p)' /\ Kinded(p)' /\ Own(p)'
    BY <1>1, <2>1 DEF Local, Remembers, Kinded, Own, New, FreshApply, Removing, Resuming, Finalizing, Handed
  <2>4. Applying(p)'
    BY <1>1, <2>1 DEF Local, Applying, FreshApply, Holding, Committed, Committing
  <2>5. Bound(p)'
    BY <1>1, <2>1, <2>2 DEF Local, Bound, Waiting, FreshApply
  <2>6. Supersedes(p)' /\ Resumes(p)' /\ Finalizes(p)'
    BY <1>1, <2>1 DEF Local, Supersedes, Resumes, Finalizes, Removing, Resuming, Finalizing
  <2>7. Works(p)'
    BY <1>1, <2>1 DEF Works, Holding, Working, Committed, Committing
  <2>8. Collects(p)'
    BY <1>1, <2>1 DEF Local, Collects, Collected
  <2> QED
    BY <2>3, <2>4, <2>5, <2>6, <2>7, <2>8 DEF Local
<1>5. ASSUME NEW p \in Invocations, NEW q \in Invocations PROVE Beside(p, q)'
  <2>1. Beside(p, q) /\ (Doomed(q)' <=> Doomed(q))
    BY <1>0, <1>1 DEF Doomed, Claimed
  <2> QED
    BY <1>1, <2>1 DEF Beside, Apart, Unlisted, Unawaited, Alone, Spares, Spared, Collected, New, Waiting, FreshApply, Removing
<1> QED
  BY <1>2, <1>3, <1>4, <1>5 DEF IInv
-----------------------------------------------------------------------------
(* The theorems *)

LEMMA InitKeeps == Init => IInv
<1> SUFFICES ASSUME Init PROVE IInv
  OBVIOUS
<1>1. \A p \in Invocations : at[p] = "idle" /\ inv[p] = NoInvocation
  BY DEF Init
<1>2. Typed
  <2>1. at \in [Invocations -> Phase] /\ inv \in [Invocations -> Memory]
    BY NothingRemembered DEF Init, Phase
  <2>2. /\ evidence \in Evidence /\ index \in Id \union {None} /\ allocated \in Id \union {None}
        /\ bindings \subseteq Id /\ effects \subseteq Id /\ lease \in Invocations \union {Free}
    BY Evidences DEF Init
  <2>3. revision \in 0..MaxRevision
    BY RegistrationAssumption DEF Init
  <2>4. /\ dir \in [Id -> {"absent", "claim", "plan", "operation"}]
        /\ op \in [Id -> Operation \union {NoOperation}]
    BY DEF Init
  <2>5. reserved \in BOOLEAN
    BY DEF Init
  <2> QED
    BY <2>1, <2>2, <2>3, <2>4, <2>5 DEF Typed, TypeOK
<1>3. Leased
  BY <1>1, RegistrationAssumption DEF Init, Leased, Holding
<1>4. Recorded
  <2>1. \A i \in Id : op[i] = NoOperation /\ dir[i] = "absent"
    BY DEF Init
  <2>2. Allocated
    BY <2>1 DEF Init, Allocated, Handed, None
  <2> QED
    BY <2>1, <2>2, Evidences DEF Init, Recorded, Indexed, EffectsOwned, Projected, HoldingsKept, InputFrozen
<1>5. ASSUME NEW p \in Invocations
      PROVE  Local(p) /\ Collected(p) = {} /\ ~ New(p) /\ ~ Alone(p) /\ ~ FreshApply(p)
  <2>1. /\ at[p] = "idle" /\ inv[p].kind = "none" /\ inv[p].held = {} /\ inv[p].claims = {}
        /\ inv[p].id = None /\ inv[p].root = None /\ inv[p].basis.id = None
    BY <1>1, NothingRemembered DEF NoInvocation
  <2>2. ~ FreshApply(p) /\ ~ Removing(p) /\ ~ Resuming(p) /\ ~ Finalizing(p)
    BY <2>1 DEF FreshApply, Removing, Resuming, Finalizing
  <2>3. ~ New(p) /\ ~ Waiting(p) /\ ~ Alone(p) /\ Collected(p) = {}
    BY <2>1, <2>2 DEF New, Waiting, Alone, Collected, Working
  <2>4. Remembers(p)
    BY <2>1 DEF Init, Remembers, Handed, None
  <2>5. /\ Kinded(p) /\ Applying(p) /\ Own(p) /\ Bound(p) /\ Supersedes(p) /\ Resumes(p) /\ Finalizes(p) /\ Works(p)
        /\ Collects(p)
    BY <2>1, <2>2, <2>3 DEF Kinded, Applying, Own, Bound, Supersedes, Resumes, Finalizes, Works, Collects, Working,
       Committed, Committing, Opened
  <2> QED
    BY <2>2, <2>3, <2>4, <2>5 DEF Local
<1>6. \A p, q \in Invocations : Beside(p, q)
  BY <1>1, <1>5 DEF Beside, Apart, Unlisted, Unawaited, Spares
<1> QED
  BY <1>2, <1>3, <1>4, <1>5, <1>6 DEF IInv

LEMMA StutterKeeps ==
  ASSUME IInv,
         UNCHANGED <<evidence, index, dir, op, reserved, bindings, revision, lease, effects, at, inv, allocated>>
  PROVE  IInv'
<1>0. /\ Typed /\ Leased /\ Recorded /\ (\A p \in Invocations : Local(p)) /\ (\A p, q \in Invocations : Beside(p, q))
      /\ Current' = Current
  BY DEF IInv, Current
<1>1. Typed' /\ Leased'
  BY <1>0 DEF Typed, TypeOK, Leased
<1>2. Recorded'
  BY <1>0 DEF Recorded, Allocated, Handed, Indexed, EffectsOwned, Projected, HoldingsKept, InputFrozen
<1>3. ASSUME NEW p \in Invocations PROVE Local(p)'
  <2>1. Local(p) /\ (Doomed(p)' <=> Doomed(p))
    BY <1>0 DEF Doomed, Claimed
  <2>2. Remembers(p)' /\ Kinded(p)' /\ Applying(p)' /\ Own(p)'
    BY <1>0, <2>1 DEF Local, Remembers, Kinded, Applying, Own, New, FreshApply, Removing, Resuming, Finalizing, Handed
  <2>3. Bound(p)'
    BY <2>1 DEF Local, Bound, Waiting, FreshApply
  <2>4. Supersedes(p)' /\ Resumes(p)' /\ Finalizes(p)' /\ Works(p)'
    BY <1>0, <2>1 DEF Local, Supersedes, Resumes, Finalizes, Works, Removing, Resuming, Finalizing
  <2>5. Collects(p)'
    BY <1>0, <2>1 DEF Local, Collects, Collected
  <2> QED
    BY <2>2, <2>3, <2>4, <2>5 DEF Local
<1>4. ASSUME NEW p \in Invocations, NEW q \in Invocations PROVE Beside(p, q)'
  <2>1. Beside(p, q) /\ (Doomed(q)' <=> Doomed(q))
    BY <1>0 DEF Doomed, Claimed
  <2> QED
    BY <2>1 DEF Beside, Apart, Unlisted, Unawaited, Alone, Spares, Spared, Collected, New, Waiting, FreshApply, Removing
<1> QED
  BY <1>1, <1>2, <1>3, <1>4 DEF IInv

LEMMA NextKeeps == IInv /\ [Next]_vars => IInv'
<1> SUFFICES ASSUME IInv, [Next]_vars PROVE IInv'
  OBVIOUS
<1>1. ASSUME NEW p \in Invocations, Step(p) PROVE IInv'
  BY <1>1, ViewKeeps, DecideKeeps, ListKeeps, TurnedAwayKeeps, ClaimKeeps, RaiseKeeps, OpenKeeps, RegisterKeeps,
     ReserveKeeps, ResolveKeeps, RecordKeeps, ReprojectKeeps, AnnounceKeeps, WritePlanKeeps, WriteOperationKeeps,
     WriteIndexKeeps, ReraiseKeeps, ReopenKeeps, WorkKeeps, SettleKeeps, FinishKeeps, ProjectKeeps, FinalizeKeeps,
     SettleFinalKeeps, CompleteKeeps, GiveBackKeeps, LowerKeeps, ReclaimIdleKeeps, CollectKeeps, UnbindKeeps,
     RestoreEvidenceKeeps, Zenon DEF Step
<1>2. CASE UNCHANGED vars
  BY <1>2, StutterKeeps DEF vars, records, holdings
<1> QED
  BY <1>1, <1>2, CrashKeeps, StartKeeps, UpdateKeeps DEF Next

(* The invariant holds throughout, whatever is killed, refused or lost where. *)
THEOREM Invariance == Spec => []IInv
  BY InitKeeps, NextKeeps, PTL DEF Spec

(* Every variable keeps its type. *)
THEOREM TypeCorrect == Spec => []TypeOK
<1>1. IInv => TypeOK
  BY DEF IInv, Typed
<1> QED
  BY <1>1, Invariance, PTL

(***************************************************************************)
(* A context that may be deleted abandons nothing: no effect is on a host, *)
(* no operation unfinished, no reservation unaccounted for                 *)
(* (registration.go: restoreEvidence; contextguard's Check).               *)
(***************************************************************************)
THEOREM NothingAbandoned == Spec => []DisposalSafe
<1>1. IInv => DisposalSafe
  <2> SUFFICES ASSUME IInv, evidence = PristineEvidence
               PROVE  /\ effects = {}
                      /\ IF index = None THEN ~ reserved ELSE Current.verb = "destroy" /\ Current.state = "done"
    BY DEF DisposalSafe, Guard
  <2>1. Typed /\ Recorded
    BY DEF IInv
  <2>2. IF index = None THEN ~ reserved ELSE Removed(Current)
    BY <2>1 DEF Recorded, Projected
  <2>3. index # None => Ended(Current)
    BY <2>1, <2>2 DEF Current, Recorded, Allocated, Indexed, Removed, Ended, Typed, TypeOK
  <2>4. effects = {}
    BY <2>1, <2>3 DEF Recorded, Indexed, EffectsOwned
  <2> QED
    BY <2>2, <2>4 DEF Removed
<1> QED
  BY <1>1, Invariance, PTL

(***************************************************************************)
(* The operation the index names keeps the binding and the reservation its *)
(* effects need, whatever another invocation collects, releases or         *)
(* restores beside it (register_run.go, finalization.go, executor.go).     *)
(***************************************************************************)
THEOREM HoldingsNeverTaken == Spec => []HoldingsKept
<1>1. IInv => HoldingsKept
  BY DEF IInv, Recorded
<1> QED
  BY <1>1, Invariance, PTL

(* No registration replaces an operation whose effects it does not own (registration.go: publish). *)
THEOREM EffectsReached == Spec => []EffectsOwned
<1>1. IInv => EffectsOwned
  BY DEF IInv, Recorded, Indexed
<1> QED
  BY <1>1, Invariance, PTL

(***************************************************************************)
(* An apply works from the revision its plan was compiled from: no update  *)
(* and no raced registration moves the input under it (registration.go:    *)
(* verifyFreshApply; contextguard's Check).                                *)
(***************************************************************************)
THEOREM InputNeverMoved == Spec => []InputFrozen
<1>1. IInv => InputFrozen
  BY DEF IInv, Recorded
<1> QED
  BY <1>1, Invariance, PTL

-----------------------------------------------------------------------------
(* Every step of an invocation counts down *)

(***************************************************************************)
(* A phase's place is what the phases after it may still take.  Four are   *)
(* met again: a collection for each binding held, the work of a block that *)
(* is observed first, and the two phases of a superseded apply that takes  *)
(* the state its unproved block gives it before that block is observed     *)
(* (Detour).  A finalization decides again, once (MayRepeat).              *)
(***************************************************************************)
Place(a) ==
  CASE a \in {"idle", "restore", "collect"} -> 0
    [] a = "unbind"                         -> 1
    [] a \in {"lower", "reclaim"}           -> MaxId + 1
    [] a \in {"pristine", "release"}        -> MaxId + 2
    [] a = "complete"                       -> MaxId + 3
    [] a \in {"project", "settle"}          -> MaxId + 4
    [] a \in {"finish", "finalize"}         -> MaxId + 5
    [] a = "working"                        -> MaxId + 6
    [] a = "work"                           -> MaxId + 7
    [] a \in {"index", "reopen"}            -> MaxId + 9
    [] a \in {"operation", "reraise"}       -> MaxId + 10
    [] a = "plan"                           -> MaxId + 11
    [] a \in {"reserve", "announce"}        -> MaxId + 12
    [] a = "reproject"                      -> MaxId + 13
    [] a = "record"                         -> MaxId + 14
    [] a = "resolve"                        -> MaxId + 15
    [] a = "register"                       -> MaxId + 18
    [] a = "open"                           -> MaxId + 19
    [] a = "raise"                          -> MaxId + 20
    [] a = "protect"                        -> MaxId + 21
    [] a = "list"                           -> MaxId + 22
    [] a = "decide"                         -> MaxId + 23
    [] a = "view"                           -> MaxId + 24

Detour(p) ==
  CASE at[p] = "collect"   -> Cardinality(inv[p].held)
    [] at[p] = "work"      -> IF Unproved(op[inv[p].id].block) THEN 1 ELSE 0
    [] at[p] = "reproject" -> IF Unproved(Current.block) THEN 3 ELSE 0
    [] at[p] = "resolve"   -> IF Current.verb = "apply" /\ Current.state = "failed" THEN 2 ELSE 0
    [] OTHER               -> 0

MayRepeat(p) == IF at[p] \in {"view", "decide"} THEN ~ inv[p].finalized ELSE inv[p].kind = "finalize"

Rank(p) == Place(at[p]) + Detour(p) + (IF MayRepeat(p) THEN MaxId + 25 ELSE 0)

\* A superseded operation's block is proved where its state is read from it,
\* and its state was written where it is projected before that.
Reread(p) ==
  /\ at[p] = "record" => ~ Unproved(Current.block)
  /\ at[p] = "reproject" /\ Unproved(Current.block) => Current.state = "running"

Descends(p) ==
  /\ at'[p] # "idle" => Rank(p)' < Rank(p)
  /\ Reread(p)'

LEMMA Places ==
  /\ MaxId \in Nat
  /\ Place("idle") = 0 /\ Place("restore") = 0 /\ Place("collect") = 0 /\ Place("unbind") = 1
  /\ Place("lower") = MaxId + 1 /\ Place("reclaim") = MaxId + 1
  /\ Place("pristine") = MaxId + 2 /\ Place("release") = MaxId + 2 /\ Place("complete") = MaxId + 3
  /\ Place("project") = MaxId + 4 /\ Place("settle") = MaxId + 4
  /\ Place("finish") = MaxId + 5 /\ Place("finalize") = MaxId + 5
  /\ Place("working") = MaxId + 6 /\ Place("work") = MaxId + 7
  /\ Place("index") = MaxId + 9 /\ Place("reopen") = MaxId + 9
  /\ Place("operation") = MaxId + 10 /\ Place("reraise") = MaxId + 10 /\ Place("plan") = MaxId + 11
  /\ Place("reserve") = MaxId + 12 /\ Place("announce") = MaxId + 12
  /\ Place("reproject") = MaxId + 13 /\ Place("record") = MaxId + 14 /\ Place("resolve") = MaxId + 15
  /\ Place("register") = MaxId + 18 /\ Place("open") = MaxId + 19 /\ Place("raise") = MaxId + 20
  /\ Place("protect") = MaxId + 21 /\ Place("list") = MaxId + 22 /\ Place("decide") = MaxId + 23
  /\ Place("view") = MaxId + 24
<1>1. MaxId \in Nat
  BY RegistrationAssumption DEF MaxId
<1> QED
  BY <1>1 DEF Place

LEMMA PlaceBounded ==
  ASSUME NEW a \in Phase
  PROVE  Place(a) \in 0..(MaxId + 24)
  BY Places DEF Phase

LEMMA HeldBounded ==
  ASSUME NEW S \in SUBSET Id
  PROVE  IsFiniteSet(S) /\ Cardinality(S) \in 0..MaxId
<1>1. IsFiniteSet(Id) /\ Cardinality(Id) = MaxId
  <2>1. 1 \in Int /\ MaxId \in Int /\ MaxId \in Nat
    BY Places
  <2>2. IsFiniteSet(1..MaxId) /\ Cardinality(1..MaxId) = IF 1 > MaxId THEN 0 ELSE MaxId - 1 + 1
    BY <2>1, FS_Interval
  <2> QED
    BY <2>1, <2>2 DEF Id
<1> QED
  BY <1>1, Places, FS_Subset, FS_CardinalityType

LEMMA DetourBounded ==
  ASSUME Typed, NEW p \in Invocations
  PROVE  /\ Detour(p) \in 0..(MaxId + 3)
         /\ at[p] # "collect" => Detour(p) \in 0..3
         /\ at[p] = "collect" => Detour(p) = Cardinality(inv[p].held) /\ Detour(p) \in 0..MaxId
         /\ at[p] \notin {"collect", "work", "reproject", "resolve"} => Detour(p) = 0
<1>1. inv[p].held \in SUBSET Id
  BY DEF Typed, Memory
<1>2. Cardinality(inv[p].held) \in 0..MaxId
  BY <1>1, HeldBounded
<1> QED
  BY <1>2, Places DEF Detour

\* What a step leaves p at, and with.
LEMMA Goes ==
  ASSUME Typed, NEW p \in Invocations, NEW phase, NEW memory, To(p, phase, memory)
  PROVE  /\ at'[p] = phase /\ (phase # "idle" => inv'[p] = memory)
         /\ \A q \in Invocations \ {p} : at'[q] = at[q] /\ inv'[q] = inv[q]
  BY DEF Typed, TypeOK, To

Idling == {"view", "decide", "collect", "work", "reproject", "resolve", "record"}

\* A phase nothing is met again in, and of lower place.
LEMMA GoesOn ==
  ASSUME Typed, NEW p \in Invocations, NEW phase, NEW memory, To(p, phase, memory),
         phase \in Phase \ Idling, at[p] \in Phase \ {"idle", "view", "decide"},
         memory.kind = inv[p].kind,
         phase # "idle" => Place(phase) < Place(at[p])
  PROVE  Descends(p)
<1>1. at'[p] = phase /\ (phase # "idle" => inv'[p] = memory)
  BY Goes
<1>2. Reread(p)'
  BY <1>1 DEF Reread, Idling
<1>3. ASSUME phase # "idle" PROVE Rank(p)' < Rank(p)
  <2>1. Detour(p)' = 0
    BY <1>1 DEF Detour, Idling
  <2>2. MayRepeat(p)' <=> MayRepeat(p)
    BY <1>1, <1>3 DEF MayRepeat, Idling
  <2>3. Detour(p) \in Nat /\ Place(phase) \in Nat /\ Place(at[p]) \in Nat /\ MaxId \in Nat
    BY DetourBounded, PlaceBounded, Places
  <2>4. Rank(p)' = Place(phase) + 0 + (IF MayRepeat(p) THEN MaxId + 25 ELSE 0)
    BY <1>1, <2>1, <2>2 DEF Rank
  <2>5. Rank(p) = Place(at[p]) + Detour(p) + (IF MayRepeat(p) THEN MaxId + 25 ELSE 0)
    BY DEF Rank
  <2> HIDE DEF Place, Detour, MayRepeat
  <2> QED
    BY <1>3, <2>3, <2>4, <2>5
<1> QED
  BY <1>1, <1>2, <1>3 DEF Descends

\* To the collection, from a phase before it.
LEMMA GoesCollecting ==
  ASSUME Typed, NEW p \in Invocations, NEW memory, To(p, "collect", memory),
         at[p] \in Phase \ {"idle", "view", "decide", "restore", "collect", "unbind"},
         memory.kind = inv[p].kind, memory.held \subseteq inv[p].held
  PROVE  Descends(p)
<1>1. at'[p] = "collect" /\ inv'[p] = memory
  BY Goes
<1>2. Reread(p)'
  BY <1>1 DEF Reread
<1>3. Detour(p)' \in 0..MaxId
  <2>1. inv[p].held \in SUBSET Id
    BY DEF Typed, Memory
  <2>2. Detour(p)' = Cardinality(memory.held)
    BY <1>1 DEF Detour
  <2> QED
    BY <2>1, <2>2, HeldBounded
<1>4. MayRepeat(p)' <=> MayRepeat(p)
  BY <1>1 DEF MayRepeat
<1>5. Place("collect") = 0 /\ MaxId \in Nat /\ Place(at[p]) >= MaxId + 1 /\ Place(at[p]) \in Nat
  BY Places, PlaceBounded DEF Phase
<1>6. Detour(p) \in Nat
  BY DetourBounded
<1>7. PICK d \in 0..MaxId : d = Detour(p)'
  BY <1>3
<1>8. Rank(p)' = 0 + d + (IF MayRepeat(p) THEN MaxId + 25 ELSE 0)
  BY <1>1, <1>4, <1>5, <1>7 DEF Rank
<1>9. Rank(p) = Place(at[p]) + Detour(p) + (IF MayRepeat(p) THEN MaxId + 25 ELSE 0)
  BY DEF Rank
<1>10. Rank(p)' < Rank(p)
  BY <1>5, <1>6, <1>8, <1>9
<1> QED
  BY <1>2, <1>10 DEF Descends

\* To a registration's remains, from any phase before them.
LEMMA GivesUp ==
  ASSUME Typed, NEW p \in Invocations, NEW bound \in BOOLEAN, NEW memory, Unregistered(p, bound, memory),
         at[p] \in Phase \ {"idle", "view", "decide", "restore", "collect", "lower", "reclaim"},
         at[p] = "unbind" => ~ bound,
         memory.kind = inv[p].kind
  PROVE  Descends(p)
<1>1. PICK phase \in {"unbind", "restore", "idle"} :
        To(p, phase, memory) /\ (at[p] = "unbind" => phase # "unbind")
  BY Zenon DEF Unregistered
<1>2. phase \in Phase \ Idling
  BY <1>1 DEF Phase, Idling
<1>3. at[p] # "unbind" => Place(at[p]) >= MaxId + 2 /\ Place(at[p]) \in Nat
  BY Places, PlaceBounded DEF Phase
<1>4. phase # "idle" => Place(phase) < Place(at[p])
  BY <1>1, <1>3, Places
<1> QED
  BY <1>1, <1>2, <1>4, GoesOn

\* A collection goes on with one binding less.
LEMMA Shrinks ==
  ASSUME Typed, NEW p \in Invocations, at[p] = "collect", NEW b \in inv[p].held,
         To(p, "collect", [inv[p] EXCEPT !.held = @ \ {b}])
  PROVE  Descends(p)
<1>1. inv[p] \in Memory /\ inv[p].held \in SUBSET Id
  BY DEF Typed, Memory
<1>2. at'[p] = "collect" /\ inv'[p].held = inv[p].held \ {b} /\ inv'[p].kind = inv[p].kind
  BY <1>1, Goes DEF Memory
<1>3. IsFiniteSet(inv[p].held) /\ Cardinality(inv[p].held) \in Nat
  BY <1>1, HeldBounded, Places
<1>4. Cardinality(inv[p].held \ {b}) = Cardinality(inv[p].held) - 1
  BY <1>3, FS_RemoveElement
<1>5. (MayRepeat(p)' <=> MayRepeat(p)) /\ Reread(p)'
  BY <1>2 DEF MayRepeat, Reread
<1>6. Detour(p)' = Cardinality(inv[p].held) - 1 /\ Detour(p) = Cardinality(inv[p].held)
  BY <1>2, <1>4 DEF Detour
<1>7. Rank(p)' = 0 + (Cardinality(inv[p].held) - 1) + (IF MayRepeat(p) THEN MaxId + 25 ELSE 0)
  BY <1>2, <1>5, <1>6, Places DEF Rank
<1>8. Rank(p) = 0 + Cardinality(inv[p].held) + (IF MayRepeat(p) THEN MaxId + 25 ELSE 0)
  BY <1>6, Places DEF Rank
<1>9. Rank(p)' < Rank(p)
  BY <1>3, <1>7, <1>8, Places
<1> QED
  BY <1>5, <1>9 DEF Descends

LEMMA PhaseTyped ==
  ASSUME Typed, NEW p \in Invocations
  PROVE  /\ at[p] \in Phase /\ inv[p] \in Memory /\ Registered(p).kind = inv[p].kind
         /\ Registered(p).held = inv[p].held
  BY DEF Typed, TypeOK, Registered

\* The decision, and what it reads.
LEMMA ViewDescends ==
  ASSUME IInv, NEW p \in Invocations, View(p)
  PROVE  Descends(p)
<1>0. Typed /\ inv[p] \in Memory
  BY PhaseTyped DEF IInv
<1>1. PICK memory : To(p, "decide", memory) /\ memory.finalized = inv[p].finalized
  BY <1>0 DEF View, Memory
<1>2. at[p] = "view" /\ at'[p] = "decide" /\ inv'[p] = memory
  BY <1>0, <1>1, Goes DEF View
<1>3. (MayRepeat(p)' <=> MayRepeat(p)) /\ Detour(p)' = 0 /\ Detour(p) = 0 /\ Reread(p)'
  BY <1>1, <1>2 DEF MayRepeat, Detour, Reread
<1>4. Rank(p)' = MaxId + 23 + 0 + (IF MayRepeat(p) THEN MaxId + 25 ELSE 0)
  BY <1>2, <1>3, Places DEF Rank
<1>5. Rank(p) = MaxId + 24 + 0 + (IF MayRepeat(p) THEN MaxId + 25 ELSE 0)
  BY <1>2, <1>3, Places DEF Rank
<1>6. Rank(p)' < Rank(p)
  BY <1>4, <1>5, Places
<1> QED
  BY <1>3, <1>6 DEF Descends

LEMMA Decided ==
  ASSUME IInv, NEW p \in Invocations, Decide(p)
  PROVE  \E phase, memory :
          /\ phase \in {"idle", "list", "finalize", "open", "reclaim"}
          /\ To(p, phase, memory)
          /\ memory.kind = "finalize" /\ phase # "idle" => ~ inv[p].finalized
<1>0. Typed /\ inv[p] \in Memory
  BY PhaseTyped DEF IInv
<1>1. at[p] = "decide"
  BY DEF Decide
<1> DEFINE v    == inv[p].verb
           kind == IF index = None THEN DecideOverNone(v, inv[p].seen)
                                   ELSE DecideOver(v, inv[p].seen, Current)
           m == [inv[p] EXCEPT !.kind = kind,
                               !.basis = [id |-> index, record |-> Current],
                               !.seen = IF kind = "release" \/ (kind = "fresh" /\ v = "apply") THEN @
                                        ELSE NoInvocation.seen,
                               !.id = IF kind \in {"resume", "finalize"} THEN index ELSE None,
                               !.root = IF index = None \/ (kind = "fresh" /\ v = "apply") THEN None
                                        ELSE Current.root]
           n == [m EXCEPT !.held = IF inv[p].finalized THEN {} ELSE @]
<1>2. v \in Verb /\ inv[p].seen \in Seen
  BY <1>0, <1>1 DEF IInv, Local, Remembers, Memory
<1>3. kind \in Kind \ {"none"}
  <2> HIDE DEF v
  <2> QED
    BY <1>2, Decisions
<1>4. m.kind = kind /\ n.kind = kind
  BY <1>0 DEF Memory
<1>5. /\ CASE kind = "fresh" /\ v = "apply" ->
                IF applies < MaxApplies THEN To(p, "list", m) /\ applies' = applies + 1
                                        ELSE To(p, "idle", m) /\ UNCHANGED applies
           [] (kind = "fresh" /\ v = "destroy") \/ kind = "release" -> To(p, "list", m) /\ UNCHANGED applies
           [] kind = "finalize" ->
                /\ To(p, IF inv[p].finalized THEN "idle"
                         ELSE IF Current.verb = "destroy" THEN "list" ELSE "finalize", m)
                /\ UNCHANGED applies
           [] kind = "resume" -> To(p, "open", m) /\ UNCHANGED applies
           [] kind = "settle" ->
                /\ To(p, IF v = "apply" THEN "idle" ELSE "reclaim", n)
                /\ UNCHANGED applies
           [] kind = "refuse" -> To(p, "idle", m) /\ UNCHANGED applies
  BY DEF Decide
<1> HIDE DEF v, kind, m, n
<1>6. CASE kind = "fresh"
  <2>1. To(p, "list", m) \/ To(p, "idle", m)
    BY <1>2, <1>5, <1>6 DEF Verb
  <2> QED
    BY <1>4, <1>6, <2>1
<1>7. CASE kind = "release"
  BY <1>4, <1>5, <1>7
<1>8. CASE kind = "finalize"
  <2>1. CASE inv[p].finalized
    BY <1>5, <1>8, <2>1
  <2>2. CASE ~ inv[p].finalized
    <3>1. To(p, "list", m) \/ To(p, "finalize", m)
      BY <1>5, <1>8, <2>2
    <3> QED
      BY <2>2, <3>1
  <2> QED
    BY <2>1, <2>2
<1>9. CASE kind = "resume"
  BY <1>4, <1>5, <1>9
<1>10. CASE kind = "settle"
  <2>1. To(p, "reclaim", n) \/ To(p, "idle", n)
    BY <1>5, <1>10
  <2> QED
    BY <1>4, <1>10, <2>1
<1>11. CASE kind = "refuse"
  BY <1>4, <1>5, <1>11
<1> QED
  BY <1>3, <1>6, <1>7, <1>8, <1>9, <1>10, <1>11 DEF Kind

LEMMA DecideDescends ==
  ASSUME IInv, NEW p \in Invocations, Decide(p)
  PROVE  Descends(p)
<1>0. Typed /\ inv[p] \in Memory
  BY PhaseTyped DEF IInv
<1>1. at[p] = "decide"
  BY DEF Decide
<1>2. PICK phase, memory :
        /\ phase \in {"idle", "list", "finalize", "open", "reclaim"}
        /\ To(p, phase, memory)
        /\ memory.kind = "finalize" /\ phase # "idle" => ~ inv[p].finalized
  BY Decided
<1>3. at'[p] = phase /\ (phase # "idle" => inv'[p] = memory)
  BY <1>0, <1>2, Goes
<1>4. Reread(p)'
  BY <1>2, <1>3 DEF Reread
<1>5. ASSUME phase # "idle" PROVE Rank(p)' < Rank(p)
  <2>1. Detour(p)' = 0 /\ Detour(p) = 0
    BY <1>1, <1>2, <1>3, <1>5 DEF Detour
  <2>2. MayRepeat(p)' => MayRepeat(p)
    BY <1>1, <1>2, <1>3, <1>5 DEF MayRepeat
  <2>3. Place(phase) \in Nat /\ Place(phase) < MaxId + 23
    BY <1>2, Places
  <2>4. Rank(p)' = Place(phase) + 0 + (IF MayRepeat(p)' THEN MaxId + 25 ELSE 0)
    BY <1>3, <2>1 DEF Rank
  <2>5. Rank(p) = MaxId + 23 + 0 + (IF MayRepeat(p) THEN MaxId + 25 ELSE 0)
    BY <1>1, <2>1, Places DEF Rank
  <2> QED
    BY <2>2, <2>3, <2>4, <2>5, Places
<1> QED
  BY <1>3, <1>4, <1>5 DEF Descends

LEMMA ListDescends ==
  ASSUME IInv, NEW p \in Invocations, List(p)
  PROVE  Descends(p)
<1>0. Typed /\ inv[p] \in Memory /\ Kinded(p)
  BY PhaseTyped DEF IInv, Local
<1>1. at[p] = "list"
  BY DEF List
<1>2. PICK phase, memory :
        /\ phase \in {"release", "finalize", "protect", "open"}
        /\ To(p, phase, memory) /\ memory.kind = inv[p].kind
  <2> DEFINE phase == IF inv[p].kind # "fresh" THEN inv[p].kind ELSE IF FreshApply(p) THEN "protect" ELSE "open"
             memory == [inv[p] EXCEPT !.held = bindings]
  <2>1. To(p, phase, memory)
    BY DEF List
  <2>2. phase \in {"release", "finalize", "protect", "open"}
    BY <1>0, <1>1 DEF Kinded, FreshApply, Removing
  <2>3. memory.kind = inv[p].kind
    BY <1>0 DEF Memory
  <2> HIDE DEF phase, memory
  <2> QED
    BY <2>1, <2>2, <2>3
<1>3. phase \in Phase \ Idling /\ "list" \in Phase
  BY <1>2 DEF Phase, Idling
<1>4. Place(phase) < Place("list")
  BY <1>2, Places
<1> QED
  BY <1>0, <1>1, <1>2, <1>3, <1>4, GoesOn

LEMMA TurnedAwayDescends ==
  ASSUME IInv, NEW p \in Invocations, TurnedAway(p)
  PROVE  Descends(p)
<1>0. Typed /\ inv[p] \in Memory /\ at[p] \in Phase
  BY PhaseTyped DEF IInv
<1>1. at[p] \in Entry
  BY DEF TurnedAway
<1>2. CASE at[p] \in {"protect", "open", "register", "unbind"}
  <2>1. PICK bound \in BOOLEAN : Unregistered(p, bound, inv[p]) /\ (at[p] = "unbind" => ~ bound)
    BY <1>2 DEF TurnedAway, FreshApply
  <2> QED
    BY <1>0, <1>2, <2>1, GivesUp
<1>3. CASE at[p] = "reclaim"
  <2>1. To(p, "collect", inv[p])
    BY <1>3 DEF TurnedAway
  <2> QED
    BY <1>0, <1>3, <2>1, GoesCollecting
<1>4. CASE at[p] = "collect"
  <2>1. PICK b \in inv[p].held : To(p, "collect", [inv[p] EXCEPT !.held = @ \ {b}])
    BY <1>4 DEF TurnedAway
  <2> QED
    BY <1>0, <1>4, <2>1, Shrinks
<1>5. CASE at[p] \in {"finalize", "release", "complete", "pristine", "restore"}
  <2>1. To(p, "idle", inv[p])
    BY <1>5 DEF TurnedAway
  <2>2. at'[p] = "idle"
    BY <1>0, <2>1, Goes
  <2> QED
    BY <2>2 DEF Descends, Reread
<1> QED
  BY <1>1, <1>2, <1>3, <1>4, <1>5 DEF Entry

\* Either of the two ways a step of a registration goes.
LEMMA GoesOrGivesUp ==
  ASSUME Typed, NEW p \in Invocations, NEW phase, NEW memory, NEW bound \in BOOLEAN,
         To(p, phase, memory) \/ Unregistered(p, bound, memory),
         phase \in Phase \ Idling,
         at[p] \in Phase \ {"idle", "view", "decide", "restore", "collect", "lower", "reclaim", "unbind"},
         memory.kind = inv[p].kind,
         phase # "idle" => Place(phase) < Place(at[p])
  PROVE  Descends(p)
<1>1. CASE To(p, phase, memory)
  BY <1>1, GoesOn
<1>2. CASE Unregistered(p, bound, memory)
  BY <1>2, GivesUp
<1> QED
  BY <1>1, <1>2

LEMMA FreshDescends ==
  ASSUME IInv, NEW p \in Invocations, Claim(p) \/ Raise(p) \/ Open(p) \/ Reserve(p) \/ Announce(p) \/ Reraise(p)
  PROVE  Descends(p)
<1>0. Typed /\ inv[p] \in Memory /\ at[p] \in Phase
  BY PhaseTyped DEF IInv
<1>1. PICK phase, memory, bound :
        /\ phase \in {"raise", "open", "register", "plan", "reopen"} /\ bound \in BOOLEAN
        /\ at[p] \in {"protect", "raise", "open", "reserve", "announce", "reraise"}
        /\ Place(phase) < Place(at[p]) /\ memory.kind = inv[p].kind
        /\ To(p, phase, memory) \/ Unregistered(p, bound, memory)
  <2>1. CASE Claim(p)
    <3>1. at[p] = "protect"
      BY <2>1 DEF Claim
    <3>2. PICK memory :
            memory.kind = inv[p].kind /\ (To(p, "raise", memory) \/ Unregistered(p, FALSE, memory))
      BY <1>0, <2>1 DEF Claim, Memory
    <3>3. Place("raise") < Place("protect")
      BY Places
    <3> QED
      BY <3>1, <3>2, <3>3
  <2>2. CASE Raise(p)
    <3>1. at[p] = "raise"
      BY <2>2 DEF Raise
    <3>2. PICK memory :
            memory.kind = inv[p].kind /\ (To(p, "open", memory) \/ Unregistered(p, FALSE, memory))
      BY <1>0, <2>2 DEF Raise, Memory
    <3>3. Place("open") < Place("raise")
      BY Places
    <3> QED
      BY <3>1, <3>2, <3>3
  <2>3. CASE Open(p)
    <3>1. at[p] = "open"
      BY <2>3 DEF Open
    <3>2. \E bound \in BOOLEAN : To(p, "register", inv[p]) \/ Unregistered(p, bound, inv[p])
      BY <2>3 DEF Open, FreshApply
    <3>3. Place("register") < Place("open")
      BY Places
    <3> QED
      BY <3>1, <3>2, <3>3
  <2>4. CASE Reserve(p)
    <3>1. at[p] = "reserve"
      BY <2>4 DEF Reserve
    <3>2. To(p, "plan", inv[p]) \/ Unregistered(p, TRUE, inv[p])
      BY <2>4 DEF Reserve
    <3>3. Place("plan") < Place("reserve")
      BY Places
    <3> QED
      BY <3>1, <3>2, <3>3
  <2>5. CASE Announce(p)
    <3>1. at[p] = "announce"
      BY <2>5 DEF Announce
    <3>2. PICK memory :
            memory.kind = inv[p].kind /\ (To(p, "plan", memory) \/ Unregistered(p, FALSE, memory))
      BY <1>0, <2>5 DEF Announce, Memory
    <3>3. Place("plan") < Place("announce")
      BY Places
    <3> QED
      BY <3>1, <3>2, <3>3
  <2>6. CASE Reraise(p)
    <3>1. at[p] = "reraise"
      BY <2>6 DEF Reraise
    <3>2. PICK memory :
            memory.kind = inv[p].kind /\ (To(p, "reopen", memory) \/ Unregistered(p, FALSE, memory))
      BY <1>0, <2>6 DEF Reraise, Memory
    <3>3. Place("reopen") < Place("reraise")
      BY Places
    <3> QED
      BY <3>1, <3>2, <3>3
  <2> QED
    BY <2>1, <2>2, <2>3, <2>4, <2>5, <2>6
<1>2. phase \in Phase \ Idling
  BY <1>1 DEF Phase, Idling
<1>3. at[p] \notin {"idle", "view", "decide", "restore", "collect", "lower", "reclaim", "unbind"}
  BY <1>1
<1> QED
  BY <1>0, <1>1, <1>2, <1>3, GoesOrGivesUp

LEMMA WrittenDescends ==
  ASSUME IInv, NEW p \in Invocations, WritePlan(p) \/ WriteOperation(p)
  PROVE  Descends(p)
<1>0. Typed /\ inv[p] \in Memory /\ at[p] \in Phase /\ FreshApply(p) \in BOOLEAN
  BY PhaseTyped DEF IInv, FreshApply
<1>1. PICK phase \in {"operation", "index"} :
        /\ Place(phase) < Place(at[p]) /\ at[p] \in {"plan", "operation"}
        /\ \/ To(p, phase, inv[p]) \/ To(p, "idle", inv[p])
           \/ Unregistered(p, FreshApply(p), inv[p])
  <2>1. CASE WritePlan(p)
    BY <2>1, Places DEF WritePlan, Unpublished
  <2>2. CASE WriteOperation(p)
    BY <2>2, Places DEF WriteOperation, Unpublished
  <2> QED
    BY <2>1, <2>2
<1>2. phase \in Phase \ Idling /\ "idle" \in Phase \ Idling
  BY <1>1 DEF Phase, Idling
<1>3. CASE To(p, "idle", inv[p])
  BY <1>0, <1>1, <1>2, <1>3, GoesOn
<1>4. CASE To(p, phase, inv[p]) \/ Unregistered(p, FreshApply(p), inv[p])
  BY <1>0, <1>1, <1>2, <1>4, GoesOrGivesUp
<1> QED
  BY <1>1, <1>3, <1>4

\* To a phase that may be met again, by the detour it takes there.
LEMMA Arrives ==
  ASSUME Typed, NEW p \in Invocations, NEW phase, NEW memory, To(p, phase, memory),
         phase \in Phase \ {"idle", "view", "decide"}, at[p] \in Phase \ {"idle", "view", "decide"},
         memory.kind = inv[p].kind, NEW d \in Nat, Detour(p)' = d, Place(phase) + d < Place(at[p]) + Detour(p),
         Reread(p)'
  PROVE  Descends(p)
<1>1. at'[p] = phase /\ inv'[p] = memory
  BY Goes
<1>2. MayRepeat(p)' <=> MayRepeat(p)
  BY <1>1 DEF MayRepeat
<1>3. Detour(p) \in Nat /\ Place(phase) \in Nat /\ Place(at[p]) \in Nat /\ MaxId \in Nat
  BY DetourBounded, PlaceBounded, Places
<1>4. Rank(p)' = Place(phase) + d + (IF MayRepeat(p) THEN MaxId + 25 ELSE 0)
  BY <1>1, <1>2 DEF Rank
<1>5. Rank(p) = Place(at[p]) + Detour(p) + (IF MayRepeat(p) THEN MaxId + 25 ELSE 0)
  BY DEF Rank
<1> HIDE DEF Place, Detour, MayRepeat
<1>6. Rank(p)' < Rank(p)
  BY <1>3, <1>4, <1>5
<1> QED
  BY <1>6 DEF Descends

LEMMA StopsDescending ==
  ASSUME Typed, NEW p \in Invocations, NEW memory, To(p, "idle", memory)
  PROVE  Descends(p)
  BY Goes DEF Descends, Reread

LEMMA RegisterDescends ==
  ASSUME IInv, NEW p \in Invocations, Register(p)
  PROVE  Descends(p)
<1>0. Typed /\ inv[p] \in Memory /\ at[p] = "register" /\ at[p] \in Phase /\ UNCHANGED records
  BY PhaseTyped DEF IInv, Register
<1>1. Current' = Current
  BY <1>0 DEF records, Current
<1>2. CASE inv[p].kind # "fresh" \/ FreshApply(p) \/ ~ Unproved(Current.block)
  <2>1. PICK phase, memory :
          /\ phase \in {"reserve", "announce", "reraise"}
          /\ To(p, phase, memory) /\ memory.kind = inv[p].kind
    <3> DEFINE m == [inv[p] EXCEPT !.known = Claimed]
    <3>1. m.kind = inv[p].kind
      BY <1>0 DEF Memory
    <3>2. CASE inv[p].kind # "fresh"
      <4>1. To(p, "reraise", m)
        BY <3>2 DEF Register
      <4> HIDE DEF m
      <4> QED
        BY <3>1, <4>1
    <3>3. CASE inv[p].kind = "fresh"
      <4>1. To(p, "reserve", inv[p]) \/ To(p, "announce", inv[p])
        BY <1>2, <3>3 DEF Register
      <4> QED
        BY <4>1
    <3> QED
      BY <3>2, <3>3
  <2>2. phase \in Phase \ Idling /\ Place(phase) < Place("register")
    BY <2>1, Places DEF Phase, Idling
  <2> QED
    BY <1>0, <2>1, <2>2, GoesOn
<1>3. CASE inv[p].kind = "fresh" /\ ~ FreshApply(p) /\ Unproved(Current.block)
  <2>1. To(p, "resolve", inv[p])
    BY <1>3 DEF Register
  <2>2. at'[p] = "resolve"
    BY <1>0, <2>1, Goes
  <2>3. PICK d \in {0, 2} : Detour(p)' = d
    BY <1>1, <2>2 DEF Detour
  <2>4. Reread(p)' /\ Detour(p) = 0
    BY <1>0, <2>2 DEF Reread, Detour
  <2>5. d \in Nat /\ Place("resolve") + d < Place(at[p]) + Detour(p)
    BY <1>0, <2>3, <2>4, Places
  <2>6. "resolve" \in Phase \ {"idle", "view", "decide"} /\ at[p] \notin {"idle", "view", "decide"}
    BY <1>0 DEF Phase
  <2> QED
    BY <1>0, <2>1, <2>3, <2>4, <2>5, <2>6, Arrives
<1> QED
  BY <1>2, <1>3

\* A failed apply takes two phases more before its block is observed.
LEMMA ResolveDescends ==
  ASSUME IInv, NEW p \in Invocations, Resolve(p)
  PROVE  Descends(p)
<1>0. at[p] = "resolve" /\ Current.block = "running" /\ index' = index
  <2>1. at[p] = "resolve" /\ Local(p) /\ index' = index
    BY DEF IInv, Resolve
  <2> QED
    BY <2>1, WhileSuperseding DEF Local, Supersedes
<1>1. Typed /\ inv[p] \in Memory /\ at[p] \in Phase /\ index # None /\ Current = op[index] /\ FALSE \in BOOLEAN
  BY <1>0, WhileSuperseding, PhaseTyped
<1>2. at[p] \notin {"idle", "view", "decide", "restore", "collect", "lower", "reclaim", "unbind"}
  BY <1>0
<1>3. {"reproject", "record"} \subseteq Phase \ {"idle", "view", "decide"}
  BY DEF Phase
<1>4. PICK r \in Written :
        IF Current.verb = "apply" /\ Current.state = "failed"
        THEN /\ op' = [op EXCEPT ![index].state = Becomes(r, op[index].state, "running")]
             /\ IF r = "ok" THEN To(p, "reproject", inv[p]) /\ UNCHANGED lease
                            ELSE Unregistered(p, FALSE, inv[p])
        ELSE /\ \E b \in Observable(Current) : op' = [op EXCEPT ![index].block = Becomes(r, op[index].block, b)]
             /\ IF r = "ok" THEN To(p, "record", inv[p]) /\ UNCHANGED lease
                            ELSE Unregistered(p, FALSE, inv[p])
  BY DEF Resolve
<1>5. CASE r # "ok"
  <2>1. Unregistered(p, FALSE, inv[p])
    BY <1>4, <1>5
  <2> QED
    BY <1>1, <1>2, <2>1, GivesUp
<1>6. CASE r = "ok" /\ Current.verb = "apply" /\ Current.state = "failed"
  <2>1. To(p, "reproject", inv[p]) /\ op' = [op EXCEPT ![index].state = "running"]
    BY <1>4, <1>6 DEF Becomes
  <2>2. Current'.state = "running" /\ Current'.block = "running"
    BY <1>0, <1>1, <2>1, StateWritten
  <2>3. at'[p] = "reproject"
    BY <1>1, <2>1, Goes
  <2>4. Detour(p)' = 3 /\ Detour(p) = 2 /\ Reread(p)'
    BY <1>0, <1>6, <2>2, <2>3 DEF Detour, Reread, Unproved
  <2>5. Place("reproject") + 3 < Place(at[p]) + Detour(p)
    BY <1>0, <2>4, Places
  <2> QED
    BY <1>1, <1>2, <1>3, <2>1, <2>4, <2>5, Arrives
<1>7. CASE r = "ok" /\ ~ (Current.verb = "apply" /\ Current.state = "failed")
  <2>1. PICK b \in Observable(Current) : op' = [op EXCEPT ![index].block = b]
    BY <1>4, <1>7 DEF Becomes
  <2>2. To(p, "record", inv[p]) /\ b \in {"failed", "done"}
    BY <1>4, <1>7, <2>1 DEF Observable
  <2>3. Current'.block = b
    BY <1>0, <1>1, <2>1, <2>2, BlockWritten
  <2>4. at'[p] = "record"
    BY <1>1, <2>2, Goes
  <2>5. Detour(p)' = 0 /\ Detour(p) = 0 /\ Reread(p)'
    BY <1>0, <1>7, <2>2, <2>3, <2>4 DEF Detour, Reread, Unproved
  <2>6. Place("record") + 0 < Place(at[p]) + Detour(p)
    BY <1>0, <2>5, Places
  <2> QED
    BY <1>1, <1>2, <1>3, <2>2, <2>5, <2>6, Arrives
<1> QED
  BY <1>5, <1>6, <1>7

LEMMA RecordDescends ==
  ASSUME IInv, NEW p \in Invocations, Reread(p), Record(p)
  PROVE  Descends(p)
<1>0. at[p] = "record" /\ ~ Unproved(Current.block) /\ index' = index
  BY DEF Record, Reread
<1>1. /\ Typed /\ inv[p] \in Memory /\ at[p] \in Phase /\ index # None /\ Current = op[index]
      /\ Current \in Operation /\ FALSE \in BOOLEAN
  BY <1>0, WhileSuperseding, PhaseTyped
<1>2. at[p] \notin {"idle", "view", "decide", "restore", "collect", "lower", "reclaim", "unbind"}
  BY <1>0
<1> DEFINE next == NextOperationState({Current.block}, FALSE)
<1>3. PICK r \in Written :
        /\ op' = [op EXCEPT ![index].state = Becomes(r, op[index].state, next)]
        /\ IF r = "ok"
           THEN To(p, IF next = Current.state THEN "announce" ELSE "reproject", inv[p])
           ELSE Unregistered(p, FALSE, inv[p])
  BY DEF Record, Written
<1>4. next \in {"running", "unknown", "failed", "done"}
  BY DEF NextOperationState
<1> HIDE DEF next
<1>5. CASE r # "ok"
  <2>1. Unregistered(p, FALSE, inv[p])
    BY <1>3, <1>5
  <2> QED
    BY <1>1, <1>2, <2>1, GivesUp
<1>6. CASE r = "ok" /\ next = Current.state
  <2>1. To(p, "announce", inv[p])
    BY <1>3, <1>6
  <2>2. "announce" \in Phase \ Idling /\ Place("announce") < Place(at[p])
    BY <1>0, Places DEF Phase, Idling
  <2> QED
    BY <1>1, <1>2, <2>1, <2>2, GoesOn
<1>7. CASE r = "ok" /\ next # Current.state
  <2>1. To(p, "reproject", inv[p]) /\ op' = [op EXCEPT ![index].state = next]
    BY <1>3, <1>7 DEF Becomes
  <2>2. Current'.block = Current.block
    BY <1>0, <1>1, <1>4, <2>1, StateWritten
  <2>3. at'[p] = "reproject"
    BY <1>1, <2>1, Goes
  <2>4. Detour(p)' = 0 /\ Detour(p) = 0 /\ Reread(p)'
    BY <1>0, <2>2, <2>3 DEF Detour, Reread, Unproved
  <2>5. Place("reproject") + 0 < Place(at[p]) + Detour(p) /\ "reproject" \in Phase \ {"idle", "view", "decide"}
    BY <1>0, <2>4, Places DEF Phase
  <2> QED
    BY <1>1, <1>2, <2>1, <2>4, <2>5, Arrives
<1> QED
  BY <1>5, <1>6, <1>7

LEMMA ReprojectDescends ==
  ASSUME IInv, NEW p \in Invocations, Reread(p), Reproject(p)
  PROVE  Descends(p)
<1>0. at[p] = "reproject" /\ UNCHANGED records /\ (Unproved(Current.block) => Current.state = "running")
  BY DEF Reproject, Reread
<1>1. Typed /\ inv[p] \in Memory /\ at[p] \in Phase /\ FALSE \in BOOLEAN /\ Current' = Current
  BY <1>0, PhaseTyped DEF IInv, records, Current
<1>2. at[p] \notin {"idle", "view", "decide", "restore", "collect", "lower", "reclaim", "unbind"}
  BY <1>0
<1>3. CASE Unregistered(p, FALSE, inv[p])
  BY <1>1, <1>2, <1>3, GivesUp
<1>4. CASE To(p, "announce", inv[p])
  <2>1. "announce" \in Phase \ Idling /\ Place("announce") < Place(at[p])
    BY <1>0, Places DEF Phase, Idling
  <2> QED
    BY <1>1, <1>2, <1>4, <2>1, GoesOn
<1>5. CASE To(p, "resolve", inv[p]) /\ Unproved(Current.block)
  <2>1. at'[p] = "resolve"
    BY <1>1, <1>5, Goes
  <2>2. Detour(p)' = 0 /\ Detour(p) = 3 /\ Reread(p)'
    BY <1>0, <1>1, <1>5, <2>1 DEF Detour, Reread
  <2>3. Place("resolve") + 0 < Place(at[p]) + Detour(p) /\ "resolve" \in Phase \ {"idle", "view", "decide"}
    BY <1>0, <2>2, Places DEF Phase
  <2> QED
    BY <1>1, <1>2, <1>5, <2>2, <2>3, Arrives
<1> QED
  BY <1>3, <1>4, <1>5 DEF Reproject

\* A transaction that begins to work may have to observe its block first.
LEMMA BeginsDescending ==
  ASSUME Typed, NEW p \in Invocations, To(p, "work", Registered(p)), at[p] \in {"index", "reopen"}
  PROVE  Descends(p)
<1>1. at'[p] = "work" /\ Registered(p).kind = inv[p].kind /\ at[p] \in Phase
  BY Goes, PhaseTyped
<1>2. PICK d \in {0, 1} : Detour(p)' = d
  BY <1>1 DEF Detour
<1>3. Reread(p)' /\ Detour(p) = 0
  BY <1>1 DEF Reread, Detour
<1>4. d \in Nat /\ Place("work") + d < Place(at[p]) + Detour(p) /\ "work" \in Phase \ {"idle", "view", "decide"}
  BY <1>2, <1>3, Places DEF Phase
<1> QED
  BY <1>1, <1>2, <1>3, <1>4, Arrives

LEMMA RegisteredDescends ==
  ASSUME IInv, NEW p \in Invocations, WriteIndex(p) \/ Reopen(p)
  PROVE  Descends(p)
<1>0. /\ Typed /\ inv[p] \in Memory /\ at[p] \in Phase /\ FreshApply(p) \in BOOLEAN /\ FALSE \in BOOLEAN
      /\ at[p] \in {"index", "reopen"}
  BY PhaseTyped DEF IInv, FreshApply, WriteIndex, Reopen
<1>1. PICK bound \in BOOLEAN :
        \/ To(p, "work", Registered(p))
        \/ To(p, "idle", inv[p])
        \/ Unregistered(p, bound, inv[p])
  <2>1. CASE WriteIndex(p)
    BY <1>0, <2>1 DEF WriteIndex, Unpublished
  <2>2. CASE Reopen(p)
    BY <2>2 DEF Reopen
  <2> QED
    BY <2>1, <2>2
<1>2. CASE To(p, "work", Registered(p))
  BY <1>0, <1>2, BeginsDescending
<1>3. CASE To(p, "idle", inv[p])
  BY <1>0, <1>3, StopsDescending
<1>4. CASE Unregistered(p, bound, inv[p])
  BY <1>0, <1>4, GivesUp
<1> QED
  BY <1>1, <1>2, <1>3, <1>4

\* The block is worked on once it is proved, and observed once before that.
LEMMA WorkDescends ==
  ASSUME IInv, NEW p \in Invocations, Work(p)
  PROVE  Descends(p)
<1>0. at[p] = "work" /\ at[p] \in Working /\ index' = index
  BY DEF Work, Working
<1>1. /\ Typed /\ inv[p] \in Memory /\ at[p] \in Phase /\ index # None /\ index = inv[p].id
      /\ op[inv[p].id] = Current /\ op[index] = Current
  BY <1>0, WhileWorking, PhaseTyped
<1>2. \A b : [inv[p] EXCEPT !.block = b].kind = inv[p].kind /\ [inv[p] EXCEPT !.block = b].id = inv[p].id
  BY <1>1 DEF Memory
<1>3. {"working", "finish"} \subseteq Phase \ Idling /\ "work" \in Phase \ {"idle", "view", "decide"}
  BY DEF Phase, Idling
<1>4. \/ To(p, "working", inv[p])
      \/ \E b : To(p, "finish", [inv[p] EXCEPT !.block = b])
      \/ Unproved(Current.block) /\ op' = [op EXCEPT ![index].block = "failed"]
         /\ To(p, "work", [inv[p] EXCEPT !.block = "failed"])
  <2>1. CASE Unproved(Current.block)
    <3>1. \/ \E b \in Observable(Current) :
               /\ op' = [op EXCEPT ![index].block = b]
               /\ To(p, IF b = "done" THEN "finish" ELSE "work", [inv[p] EXCEPT !.block = b])
          \/ \E b \in {"running", "unknown"} : To(p, "finish", [inv[p] EXCEPT !.block = b])
      BY <1>1, <2>1 DEF Work
    <3> QED
      BY <2>1, <3>1 DEF Observable
  <2>2. CASE ~ Unproved(Current.block)
    BY <1>1, <2>2 DEF Work
  <2> QED
    BY <2>1, <2>2
<1>5. CASE To(p, "working", inv[p])
  <2>1. Place("working") < Place(at[p])
    BY <1>0, Places
  <2> QED
    BY <1>0, <1>1, <1>3, <1>5, <2>1, GoesOn
<1>6. CASE \E b : To(p, "finish", [inv[p] EXCEPT !.block = b])
  <2>1. Place("finish") < Place(at[p])
    BY <1>0, Places
  <2>2. PICK b : To(p, "finish", [inv[p] EXCEPT !.block = b])
    BY <1>6
  <2> QED
    BY <1>0, <1>1, <1>2, <1>3, <2>1, <2>2, GoesOn
<1>7. CASE /\ Unproved(Current.block) /\ op' = [op EXCEPT ![index].block = "failed"]
           /\ To(p, "work", [inv[p] EXCEPT !.block = "failed"])
  <2> DEFINE m == [inv[p] EXCEPT !.block = "failed"]
  <2>0. To(p, "work", m) /\ m.id = inv[p].id /\ m.kind = inv[p].kind
    BY <1>2, <1>7
  <2> HIDE DEF m
  <2>1. at'[p] = "work" /\ inv'[p].id = inv[p].id
    BY <1>1, <2>0, Goes
  <2>2. Current'.block = "failed"
    BY <1>0, <1>1, <1>7, BlockWritten
  <2>3. op'[inv'[p].id] = Current'
    BY <1>0, <1>1, <2>1 DEF Current
  <2>4. Detour(p)' = 0 /\ Detour(p) = 1 /\ Reread(p)'
    BY <1>0, <1>1, <1>7, <2>1, <2>2, <2>3 DEF Detour, Reread, Unproved
  <2>5. Place("work") + 0 < Place(at[p]) + Detour(p)
    BY <1>0, <2>4, Places
  <2> QED
    BY <1>0, <1>1, <1>3, <2>0, <2>4, <2>5, Arrives
<1> QED
  BY <1>4, <1>5, <1>6, <1>7

LEMMA LeavesDescending ==
  ASSUME Typed, NEW p \in Invocations, Leave(p), at[p] \in {"finish", "project"}
  PROVE  Descends(p)
<1>0. at[p] \in Phase /\ inv[p] \in Memory /\ Registered(p).kind = inv[p].kind /\ Registered(p).held = inv[p].held
      /\ Registered(p) \in Memory
  <2>1. NoInvocation \in Memory
    BY NothingRemembered
  <2> QED
    BY <2>1, PhaseTyped DEF Registered, Memory
<1>1. CASE To(p, "collect", [Registered(p) EXCEPT !.held = @ \ {inv[p].root}])
  <2> DEFINE m == [Registered(p) EXCEPT !.held = @ \ {inv[p].root}]
  <2>1. m.kind = inv[p].kind /\ m.held \subseteq inv[p].held
    BY <1>0 DEF Memory
  <2>2. To(p, "collect", m)
    BY <1>1
  <2> HIDE DEF m
  <2> QED
    BY <1>0, <2>1, <2>2, GoesCollecting
<1>2. CASE To(p, "idle", inv[p])
  BY <1>2, StopsDescending
<1> QED
  BY <1>1, <1>2 DEF Leave

LEMMA SettledDescends ==
  ASSUME IInv, NEW p \in Invocations, Settle(p) \/ Finish(p) \/ Project(p)
  PROVE  Descends(p)
<1>0. Typed /\ inv[p] \in Memory /\ at[p] \in {"working", "finish", "project"} /\ at[p] \in Phase
  BY PhaseTyped DEF IInv, Settle, Finish, Project
<1>1. CASE Leave(p) /\ at[p] # "working"
  BY <1>0, <1>1, LeavesDescending
<1>2. CASE ~ (Leave(p) /\ at[p] # "working")
  <2>1. PICK phase, memory :
          /\ phase \in {"finish", "project", "complete"} /\ Place(phase) < Place(at[p])
          /\ To(p, phase, memory) /\ memory.kind = inv[p].kind
    <3>1. CASE Settle(p)
      <4>1. at[p] = "working" /\ \E b : To(p, "finish", [inv[p] EXCEPT !.block = b])
        BY <3>1 DEF Settle
      <4>2. \A b : [inv[p] EXCEPT !.block = b].kind = inv[p].kind
        BY <1>0 DEF Memory
      <4>3. Place("finish") < Place("working")
        BY Places
      <4> QED
        BY <4>1, <4>2, <4>3
    <3>2. CASE Finish(p)
      <4>1. at[p] = "finish" /\ To(p, "project", Registered(p))
        BY <1>2, <3>2 DEF Finish
      <4>2. Registered(p).kind = inv[p].kind /\ Place("project") < Place("finish")
        BY <1>0, PhaseTyped, Places
      <4> QED
        BY <4>1, <4>2
    <3>3. CASE Project(p)
      <4>1. at[p] = "project" /\ \E o : To(p, "complete", [inv[p] EXCEPT !.basis = [id |-> inv[p].id, record |-> o]])
        BY <1>2, <3>3 DEF Project
      <4>2. \A o : [inv[p] EXCEPT !.basis = [id |-> inv[p].id, record |-> o]].kind = inv[p].kind
        BY <1>0 DEF Memory
      <4>3. Place("complete") < Place("project")
        BY Places
      <4> QED
        BY <4>1, <4>2, <4>3
    <3> QED
      BY <3>1, <3>2, <3>3
  <2>2. phase \in Phase \ Idling
    BY <2>1 DEF Phase, Idling
  <2> QED
    BY <1>0, <2>1, <2>2, GoesOn
<1> QED
  BY <1>1, <1>2

\* A finalization decides again, and decides no other.
LEMMA RepeatsOnce ==
  ASSUME Typed, NEW p \in Invocations, at[p] \in {"settle", "collect"}, inv[p].kind = "finalize",
         To(p, "view", [NoInvocation EXCEPT !.verb = inv[p].verb, !.finalized = TRUE])
  PROVE  Descends(p)
<1> DEFINE m == [NoInvocation EXCEPT !.verb = inv[p].verb, !.finalized = TRUE]
<1>1. m.finalized = TRUE
  BY DEF NoInvocation
<1>2. To(p, "view", m)
  OBVIOUS
<1> HIDE DEF m
<1>3. at'[p] = "view" /\ inv'[p].finalized = TRUE
  BY <1>1, <1>2, Goes
<1>4. Detour(p)' = 0 /\ ~ MayRepeat(p)' /\ MayRepeat(p) /\ Reread(p)'
  BY <1>3 DEF Detour, MayRepeat, Reread
<1>5. Rank(p)' = MaxId + 24 + 0 + 0
  BY <1>3, <1>4, Places DEF Rank
<1>6. Rank(p) = Place(at[p]) + Detour(p) + (MaxId + 25)
  BY <1>4 DEF Rank
<1>7. Place(at[p]) \in Nat /\ Detour(p) \in Nat
  BY DetourBounded, Places
<1>8. Rank(p)' < Rank(p)
  BY <1>5, <1>6, <1>7, Places
<1> QED
  BY <1>4, <1>8 DEF Descends

LEMMA FinalDescends ==
  ASSUME IInv, NEW p \in Invocations, Finalize(p) \/ SettleFinal(p)
  PROVE  Descends(p)
<1>0. Typed /\ inv[p] \in Memory /\ at[p] \in {"finalize", "settle"} /\ at[p] \in Phase /\ Kinded(p)
  BY PhaseTyped DEF IInv, Local, Finalize, SettleFinal
<1>1. {"settle", "complete"} \subseteq Phase \ Idling
  BY DEF Phase, Idling
<1>2. CASE \E memory : To(p, "idle", memory)
  <2>1. PICK memory : To(p, "idle", memory)
    BY <1>2
  <2> QED
    BY <1>0, <2>1, StopsDescending
<1>3. CASE To(p, "settle", inv[p]) /\ at[p] = "finalize"
  <2>1. Place("settle") < Place("finalize")
    BY Places
  <2> QED
    BY <1>0, <1>1, <1>3, <2>1, GoesOn
<1>4. CASE at[p] = "settle" /\ To(p, "complete", [inv[p] EXCEPT !.basis = [id |-> index, record |-> Current]])
  <2> DEFINE m == [inv[p] EXCEPT !.basis = [id |-> index, record |-> Current]]
  <2>1. m.kind = inv[p].kind
    BY <1>0 DEF Memory
  <2>2. To(p, "complete", m)
    BY <1>4
  <2>3. Place("complete") < Place("settle")
    BY Places
  <2> HIDE DEF m
  <2> QED
    BY <1>0, <1>1, <1>4, <2>1, <2>2, <2>3, GoesOn
<1>5. CASE at[p] = "settle" /\ To(p, "view", [NoInvocation EXCEPT !.verb = inv[p].verb, !.finalized = TRUE])
  <2>1. inv[p].kind = "finalize"
    BY <1>0, <1>5 DEF Kinded, Finalizing
  <2> QED
    BY <1>0, <1>5, <2>1, RepeatsOnce
<1>6. CASE Finalize(p)
  BY <1>2, <1>3, <1>6 DEF Finalize
<1>7. CASE SettleFinal(p)
  BY <1>2, <1>4, <1>5, <1>7 DEF SettleFinal
<1> QED
  BY <1>6, <1>7

LEMMA ReleaseDescends ==
  ASSUME IInv, NEW p \in Invocations, Complete(p) \/ GiveBack(p) \/ RestoreEvidence(p)
  PROVE  Descends(p)
<1>0. Typed /\ inv[p] \in Memory /\ at[p] \in {"complete", "pristine", "release", "restore"} /\ at[p] \in Phase
  BY PhaseTyped DEF IInv, Complete, GiveBack, RestoreEvidence
<1>1. \/ To(p, "idle", inv[p])
      \/ at[p] = "complete" /\ To(p, "pristine", inv[p])
      \/ at[p] \in {"pristine", "release"} /\ To(p, "lower", inv[p])
  BY DEF Complete, GiveBack, RestoreEvidence
<1>2. CASE To(p, "idle", inv[p])
  BY <1>0, <1>2, StopsDescending
<1>3. CASE at[p] = "complete" /\ To(p, "pristine", inv[p])
  <2>1. "pristine" \in Phase \ Idling /\ Place("pristine") < Place("complete")
    BY Places DEF Phase, Idling
  <2> QED
    BY <1>0, <1>3, <2>1, GoesOn
<1>4. CASE at[p] \in {"pristine", "release"} /\ To(p, "lower", inv[p])
  <2>1. "lower" \in Phase \ Idling /\ Place("lower") < Place(at[p])
    BY <1>4, Places DEF Phase, Idling
  <2> QED
    BY <1>0, <1>4, <2>1, GoesOn
<1> QED
  BY <1>1, <1>2, <1>3, <1>4

LEMMA LowerDescends ==
  ASSUME IInv, NEW p \in Invocations, Lower(p) \/ ReclaimIdle(p)
  PROVE  Descends(p)
<1>0. Typed /\ inv[p] \in Memory /\ at[p] \in {"lower", "reclaim"} /\ at[p] \in Phase /\ Registered(p) \in Memory
      /\ Registered(p).kind = inv[p].kind /\ Registered(p).held = inv[p].held
  BY PhaseTyped, RegisteredMemory DEF IInv, Lower, ReclaimIdle
<1>1. CASE Lower(p)
  <2> DEFINE m == [Registered(p) EXCEPT !.held = @ \ {inv[p].root}]
  <2>1. m.kind = inv[p].kind /\ m.held \subseteq inv[p].held
    BY <1>0 DEF Memory
  <2>2. To(p, "collect", m) \/ To(p, "idle", m)
    BY <1>1 DEF Lower
  <2> HIDE DEF m
  <2>3. CASE To(p, "collect", m)
    BY <1>0, <2>1, <2>3, GoesCollecting
  <2>4. CASE To(p, "idle", m)
    BY <1>0, <2>4, StopsDescending
  <2> QED
    BY <2>2, <2>3, <2>4
<1>2. CASE ReclaimIdle(p)
  <2>1. To(p, "collect", Registered(p))
    BY <1>2 DEF ReclaimIdle
  <2> QED
    BY <1>0, <2>1, GoesCollecting
<1> QED
  BY <1>1, <1>2

LEMMA CollectDescends ==
  ASSUME IInv, NEW p \in Invocations, Collect(p)
  PROVE  Descends(p)
<1>0. Typed /\ inv[p] \in Memory /\ at[p] = "collect" /\ inv[p].held \in SUBSET Id
  BY PhaseTyped DEF IInv, Collect, Memory
<1>1. CASE inv[p].held = {}
  <2>1. CASE inv[p].kind = "finalize"
    <3>1. To(p, "view", [NoInvocation EXCEPT !.verb = inv[p].verb, !.finalized = TRUE])
      BY <1>1, <2>1 DEF Collect
    <3> QED
      BY <1>0, <2>1, <3>1, RepeatsOnce
  <2>2. CASE inv[p].kind # "finalize"
    <3>1. To(p, "idle", [NoInvocation EXCEPT !.verb = inv[p].verb, !.finalized = TRUE])
      BY <1>1, <2>2 DEF Collect
    <3> QED
      BY <1>0, <3>1, StopsDescending
  <2> QED
    BY <2>1, <2>2
<1>2. CASE inv[p].held # {}
  <2> DEFINE b == CHOOSE b \in inv[p].held : \A c \in inv[p].held : b <= c
  <2>1. b \in inv[p].held
    <3>1. \E c \in inv[p].held : \A d \in inv[p].held : c <= d
      BY <1>0, <1>2, FirstHeld
    <3> QED
      BY <3>1
  <2>2. To(p, "collect", [inv[p] EXCEPT !.held = @ \ {b}])
    BY <1>2 DEF Collect
  <2> HIDE DEF b
  <2> QED
    BY <1>0, <2>1, <2>2, Shrinks
<1> QED
  BY <1>1, <1>2

LEMMA UnbindDescends ==
  ASSUME IInv, NEW p \in Invocations, Unbind(p)
  PROVE  Descends(p)
<1>1. Typed /\ at[p] = "unbind" /\ at[p] \in Phase /\ FALSE \in BOOLEAN /\ Unregistered(p, FALSE, inv[p])
  BY PhaseTyped DEF IInv, Unbind
<1> QED
  BY <1>1, GivesUp

LEMMA StepDescends ==
  ASSUME IInv, NEW p \in Invocations, Reread(p), Step(p)
  PROVE  Descends(p)
  BY ViewDescends, DecideDescends, ListDescends, TurnedAwayDescends, FreshDescends, RegisterDescends,
     ResolveDescends, RecordDescends, ReprojectDescends, WrittenDescends, RegisteredDescends, WorkDescends,
     SettledDescends, FinalDescends, ReleaseDescends, LowerDescends, CollectDescends, UnbindDescends DEF Step

\* A step moves its own invocation alone.
LEMMA StepMoves ==
  ASSUME IInv, NEW p \in Invocations, Step(p)
  PROVE  \E phase, memory : To(p, phase, memory)
<1>1. CASE Decide(p)
  BY <1>1, Decided
<1>2. CASE View(p)
  BY <1>2 DEF View
<1>3. CASE List(p)
  BY <1>3 DEF List
<1>4. CASE TurnedAway(p)
  BY <1>4 DEF TurnedAway, Unregistered, Entry
<1>5. CASE Claim(p)
  BY <1>5 DEF Claim, Unregistered
<1>6. CASE Raise(p)
  BY <1>6 DEF Raise, Unregistered
<1>7. CASE Open(p)
  BY <1>7 DEF Open, Unregistered
<1>8. CASE Register(p)
  BY <1>8 DEF Register
<1>9. CASE Reserve(p)
  BY <1>9 DEF Reserve, Unregistered
<1>10. CASE Resolve(p)
  BY <1>10 DEF Resolve, Unregistered
<1>11. CASE Record(p)
  BY <1>11 DEF Record, Unregistered
<1>12. CASE Reproject(p)
  BY <1>12 DEF Reproject, Unregistered
<1>13. CASE Announce(p)
  BY <1>13 DEF Announce, Unregistered
<1>14. CASE WritePlan(p)
  BY <1>14 DEF WritePlan, Unpublished, Unregistered
<1>15. CASE WriteOperation(p)
  BY <1>15 DEF WriteOperation, Unpublished, Unregistered
<1>16. CASE WriteIndex(p)
  BY <1>16 DEF WriteIndex, Unpublished, Unregistered
<1>17. CASE Reraise(p)
  BY <1>17 DEF Reraise, Unregistered
<1>18. CASE Reopen(p)
  BY <1>18 DEF Reopen, Unregistered
<1>19. CASE Work(p)
  BY <1>19 DEF Work
<1>20. CASE Settle(p)
  BY <1>20 DEF Settle
<1>21. CASE Finish(p)
  BY <1>21 DEF Finish, Leave
<1>22. CASE Project(p)
  BY <1>22 DEF Project, Leave
<1>23. CASE Finalize(p)
  BY <1>23 DEF Finalize
<1>24. CASE SettleFinal(p)
  BY <1>24 DEF SettleFinal
<1>25. CASE Complete(p)
  BY <1>25 DEF Complete
<1>26. CASE GiveBack(p)
  BY <1>26 DEF GiveBack
<1>27. CASE Lower(p)
  BY <1>27 DEF Lower
<1>28. CASE ReclaimIdle(p)
  BY <1>28 DEF ReclaimIdle
<1>29. CASE Collect(p)
  BY <1>29 DEF Collect
<1>30. CASE Unbind(p)
  BY <1>30 DEF Unbind, Unregistered
<1>31. CASE RestoreEvidence(p)
  BY <1>31 DEF RestoreEvidence
<1> QED
  BY <1>1, <1>2, <1>3, <1>4, <1>5, <1>6, <1>7, <1>8, <1>9, <1>10, <1>11, <1>12, <1>13, <1>14, <1>15, <1>16, <1>17, <1>18, <1>19, <1>20, <1>21, <1>22, <1>23, <1>24, <1>25, <1>26, <1>27, <1>28, <1>29, <1>30, <1>31 DEF Step

\* The index and the operations are written under the lease.
LEMMA WritesLeased ==
  ASSUME Leased, NEW p \in Invocations, Step(p), lease # p, lease # Free
  PROVE  index' = index /\ op' = op
<1>0. at[p] \notin Holding
  BY DEF Leased
<1>1. CASE View(p)
  BY <1>1 DEF View, records
<1>2. CASE Decide(p)
  BY <1>2 DEF Decide, records
<1>3. CASE List(p)
  BY <1>3 DEF List, records
<1>4. CASE TurnedAway(p)
  BY <1>4 DEF TurnedAway, records
<1>5. CASE Claim(p)
  BY <1>5 DEF Claim, records
<1>6. CASE Raise(p)
  BY <1>0, <1>6 DEF Raise, Holding
<1>7. CASE Open(p)
  BY <1>7 DEF Open, records
<1>8. CASE Register(p)
  BY <1>8 DEF Register, records
<1>9. CASE Reserve(p)
  BY <1>0, <1>9 DEF Reserve, Holding
<1>10. CASE Resolve(p)
  BY <1>0, <1>10 DEF Resolve, Holding
<1>11. CASE Record(p)
  BY <1>0, <1>11 DEF Record, Holding
<1>12. CASE Reproject(p)
  BY <1>0, <1>12 DEF Reproject, Holding
<1>13. CASE Announce(p)
  BY <1>0, <1>13 DEF Announce, Holding
<1>14. CASE WritePlan(p)
  BY <1>0, <1>14 DEF WritePlan, Holding
<1>15. CASE WriteOperation(p)
  BY <1>0, <1>15 DEF WriteOperation, Holding
<1>16. CASE WriteIndex(p)
  BY <1>0, <1>16 DEF WriteIndex, Holding
<1>17. CASE Reraise(p)
  BY <1>0, <1>17 DEF Reraise, Holding
<1>18. CASE Reopen(p)
  BY <1>0, <1>18 DEF Reopen, Holding
<1>19. CASE Work(p)
  BY <1>0, <1>19 DEF Work, Holding
<1>20. CASE Settle(p)
  BY <1>0, <1>20 DEF Settle, Holding
<1>21. CASE Finish(p)
  BY <1>0, <1>21 DEF Finish, Holding
<1>22. CASE Project(p)
  BY <1>0, <1>22 DEF Project, Holding
<1>23. CASE Finalize(p)
  BY <1>23 DEF Finalize, records
<1>24. CASE SettleFinal(p)
  BY <1>0, <1>24 DEF SettleFinal, Holding
<1>25. CASE Complete(p)
  BY <1>25 DEF Complete, records
<1>26. CASE GiveBack(p)
  BY <1>26 DEF GiveBack, records
<1>27. CASE Lower(p)
  BY <1>0, <1>27 DEF Lower, Holding
<1>28. CASE ReclaimIdle(p)
  BY <1>28 DEF ReclaimIdle, records
<1>29. CASE Collect(p)
  BY <1>29 DEF Collect, records
<1>30. CASE Unbind(p)
  BY <1>30 DEF Unbind, records
<1>31. CASE RestoreEvidence(p)
  BY <1>31 DEF RestoreEvidence, records
<1> QED
  BY <1>1, <1>2, <1>3, <1>4, <1>5, <1>6, <1>7, <1>8, <1>9, <1>10, <1>11, <1>12, <1>13, <1>14, <1>15, <1>16, <1>17, <1>18, <1>19, <1>20, <1>21, <1>22, <1>23, <1>24, <1>25, <1>26, <1>27, <1>28, <1>29, <1>30, <1>31 DEF Step

\* What p's step leaves of another invocation's count.
LEMMA OthersKept ==
  ASSUME IInv, NEW p \in Invocations, Step(p) \/ Crash(p) \/ (\E v \in Verb : Start(p, v)),
         NEW q \in Invocations \ {p}, Reread(q)
  PROVE  Rank(q)' = Rank(q) /\ Reread(q)'
<1>0. Typed /\ Leased
  BY DEF IInv
<1>1. \E phase, memory : To(p, phase, memory)
  BY StepMoves DEF Crash, Start
<1>2. at'[q] = at[q] /\ inv'[q] = inv[q]
  BY <1>0, <1>1, Goes
<1>3. CASE at[q] \in {"work", "record", "reproject", "resolve"}
  <2>1. lease = q /\ lease # Free
    BY <1>0, <1>3, RegistrationAssumption DEF Leased, Holding
  <2>2. index' = index /\ op' = op
    BY <1>0, <2>1, WritesLeased DEF Crash, Start, records
  <2>3. Current' = Current
    BY <2>2 DEF Current
  <2> QED
    BY <1>2, <2>2, <2>3 DEF Rank, Detour, MayRepeat, Reread
<1>4. CASE at[q] \notin {"work", "record", "reproject", "resolve"}
  BY <1>2, <1>4 DEF Rank, Detour, MayRepeat, Reread
<1> QED
  BY <1>3, <1>4

LEMMA StandsStill ==
  ASSUME UNCHANGED <<at, inv, index, op>>, NEW p \in Invocations, Reread(p)
  PROVE  Rank(p)' = Rank(p) /\ Reread(p)'
<1>1. Current' = Current
  BY DEF Current
<1> QED
  BY <1>1 DEF Rank, Detour, MayRepeat, Reread

\* What is left to do is bounded by the identities there are.
RankBounded == \A p \in Invocations : Rank(p) \in 0..(2 * MaxId + 49)

LEMMA RanksBounded == Typed => RankBounded
<1> SUFFICES ASSUME Typed, NEW p \in Invocations PROVE Rank(p) \in 0..(2 * MaxId + 49)
  BY DEF RankBounded
<1>1. at[p] \in Phase /\ MaxId \in Nat
  BY PhaseTyped, Places
<1>2. Place(at[p]) \in Nat /\ Detour(p) \in Nat
  BY <1>1, PlaceBounded, DetourBounded
<1>3. Place(at[p]) + Detour(p) <= MaxId + 24
  <2>1. CASE at[p] = "collect"
    BY <1>1, <2>1, Places, DetourBounded
  <2>2. CASE at[p] \in {"work", "reproject", "resolve"}
    BY <1>1, <2>2, Places, DetourBounded
  <2>3. CASE at[p] \notin {"collect", "work", "reproject", "resolve"}
    <3>1. Detour(p) = 0 /\ Place(at[p]) <= MaxId + 24
      BY <1>1, <2>3, PlaceBounded, DetourBounded
    <3> QED
      BY <1>1, <1>2, <3>1
  <2> QED
    BY <2>1, <2>2, <2>3
<1>4. PICK c \in {0, MaxId + 25} : Rank(p) = Place(at[p]) + Detour(p) + c
  BY DEF Rank
<1> HIDE DEF Place, Detour
<1> QED
  BY <1>1, <1>2, <1>3, <1>4

\* A step leaves its invocation less to do, and no other's more or less.
CountsDown ==
  \A p \in Invocations :
    /\ Step(p) /\ at'[p] # "idle" => Rank(p)' < Rank(p)
    /\ ~ Step(p) /\ at[p] # "idle" /\ at'[p] # "idle" => Rank(p)' = Rank(p)

LEMMA NextCounts ==
  ASSUME IInv, \A p \in Invocations : Reread(p), [Next]_vars
  PROVE  CountsDown /\ \A p \in Invocations : Reread(p)'
<1>1. ASSUME NEW p \in Invocations
      PROVE  /\ Step(p) /\ at'[p] # "idle" => Rank(p)' < Rank(p)
             /\ ~ Step(p) /\ at[p] # "idle" /\ at'[p] # "idle" => Rank(p)' = Rank(p)
             /\ Reread(p)'
  <2>1. CASE Step(p)
    BY <2>1, StepDescends DEF Descends
  <2>2. CASE ~ Step(p) /\ (Update \/ UNCHANGED vars)
    BY <2>2, StandsStill DEF Update, vars, records
  <2>3. CASE ~ Step(p) /\ (Crash(p) \/ \E v \in Verb : Start(p, v))
    <3>1. \E memory : (at[p] = "idle" /\ To(p, "view", memory)) \/ To(p, "idle", memory)
      BY <2>3 DEF Crash, Start
    <3>2. at[p] = "idle" \/ at'[p] = "idle"
      BY <3>1, Goes DEF IInv
    <3>3. at'[p] \in {"view", "idle"}
      BY <3>1, Goes DEF IInv
    <3>4. Reread(p)'
      BY <3>3 DEF Reread
    <3> QED
      BY <2>3, <3>2, <3>4
  <2>4. CASE \E q \in Invocations \ {p} : Step(q) \/ Crash(q) \/ \E v \in Verb : Start(q, v)
    <3>1. CASE ~ Step(p)
      BY <2>4, <3>1, OthersKept
    <3> QED
      BY <2>1, <3>1
  <2> QED
    BY <2>1, <2>2, <2>3, <2>4 DEF Next
<1> QED
  BY <1>1 DEF CountsDown

(***************************************************************************)
(* No retry, observation or second decision goes round: each step an       *)
(* invocation takes leaves it less to do, from a count bounded by the      *)
(* identities there are, and nothing the others, the owner or a kill does  *)
(* between its steps changes what is left (executor.go: execute;           *)
(* finalization.go: finalizeFirst).                                        *)
(***************************************************************************)
THEOREM InvocationsCountDown == Spec => []RankBounded /\ [][CountsDown]_vars
<1> DEFINE Rereads == \A p \in Invocations : Reread(p)
<1>1. Init => Rereads
  BY DEF Init, Reread
<1>2. IInv /\ Rereads /\ [Next]_vars => Rereads' /\ CountsDown
  BY NextCounts
<1>3. IInv => RankBounded
  BY RanksBounded DEF IInv
<1> HIDE DEF Rereads
<1> QED
  BY <1>1, <1>2, <1>3, Invariance, PTL DEF Spec
=============================================================================
