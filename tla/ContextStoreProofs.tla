------------------------- MODULE ContextStoreProofs -------------------------
(***************************************************************************)
(* ContextStore's properties for every set of revisions, every bound on    *)
(* them, on directories and on faults.                                     *)
(*                                                                         *)
(* A command can stop anywhere and a power loss can follow, so what must   *)
(* hold is a statement about every version a power loss may leave, taken   *)
(* in any combination (Disk), whatever the command under the lock is       *)
(* doing; what that command may rely on at each step is Control.           *)
(***************************************************************************)
EXTENDS ContextStore, TLAPS

Entry == [name: Inode \union {None}, stage: Inode \union {None}]

Versions(S) == [now: S, may: SUBSET S]

\* What is visible is one of the versions a power loss may leave.
DiskTyped ==
  /\ registry \in Versions(Record) /\ container \in Versions(Entry)
  /\ tree \in [Inode -> Versions(Tree)] /\ claims \in Versions(Claim)
  /\ registry.now \in registry.may /\ container.now \in container.may /\ claims.now \in claims.may
  /\ \A i \in Inode : tree[i].now \in tree[i].may

Locals ==
  /\ fresh \in BOOLEAN /\ drawn \in Revision \union {None}
  /\ made \in 0..MaxInode /\ faults \in 0..MaxFaults

Typed == DiskTyped /\ Locals

-----------------------------------------------------------------------------
(* What a record may meet after a power loss. *)

AllReserved(i) == \A t \in tree[i].may : t.reservation = "whole"

\* A record r and a version c of contexts/ account for one another.
Accounted(r, c) ==
  /\ c.name = None \/ c.stage = None
  /\ c.name # None => \/ r.mode # "none" /\ r.inode = c.name
                      \/ r.mode = "initializing" /\ r.inode = None /\ AllReserved(c.name)
  /\ c.name = None => r.mode \in {"none", "deleting"} \/ (r.mode = "initializing" /\ r.inode = None)
  /\ c.stage # None => r.mode = "initializing" /\ r.inode = None

\* What a context that reads ready and selects v needs of its directory.
Whole(t, v) ==
  /\ t.reservation = "whole" /\ t.config = "whole" /\ t.evidence = "whole"
  /\ v # None => t.revisions[v] = "whole"
  /\ t.applied # None => t.revisions[t.applied] = "whole"

Fine(r) ==
  /\ \A c \in container.may : Accounted(r, c)
  /\ r.mode = "ready" => \A t \in tree[r.inode].may : Whole(t, r.revision)
  /\ "sure" \in claims.may => r.mode \in {"ready", "deleting"}
  /\ r.mode = "initializing" => r.revision = None

NoneReady == \A r \in registry.may : r.mode # "ready"

\* An operation is recorded in its evidence.
Evident(t) == t.evidence = "absent" => t.applied = None

Disk ==
  /\ \A r \in registry.may : Fine(r)
  /\ rec.mode \in {"none", "initializing"} => NoneReady
  /\ \A i \in Inode : \A t \in tree[i].may : Evident(t)
  /\ claims.now = "none" => "sure" \notin claims.may

-----------------------------------------------------------------------------
(* What the command under the root lock relies on. *)

Reserving == {"stages", "open", "stage", "reservation", "publish", "attribute", "record", "config", "evidence"}
Publishing == {"config", "evidence", "revision", "reclaim", "manifest", "snapshot", "entry", "commit", "collect"}

\* An initialization reserves, and its directory comes into being.
Reservation ==
  /\ pc = "reserve" => drawn = None /\ rec.mode = IF fresh THEN "none" ELSE "initializing"
  /\ pc \in Reserving => drawn = None /\ rec.mode = "initializing" /\ Synced(registry)
  /\ pc \in {"stage", "reservation", "publish"} => name = None /\ rec.inode = None
  /\ pc \in {"reservation", "publish"} => stage # None /\ Synced(container)
  /\ pc = "publish" => AllReserved(stage)
  /\ pc \in {"attribute", "record"} => name # None /\ rec.inode = None
  /\ pc = "record" => Synced(container)

\* A directory is filled and published.
Publication ==
  /\ pc \in Publishing => name # None /\ rec.inode = name /\ rec.mode \in {"initializing", "ready"}
  /\ pc \in Publishing /\ rec.mode = "initializing" =>
       LET t == tree[name].now
       IN /\ Synced(registry) /\ t.reservation = "whole"
          /\ pc # "config" => t.config = "whole"
          /\ pc \notin {"config", "evidence"} => t.evidence = "whole" /\ t.applied = None
          /\ pc \in {"entry", "commit"} => Synced(tree[name])
  /\ pc = "entry" => rec.mode = "initializing"
  /\ pc = "manifest" => drawn \in Revision
  /\ pc \in {"snapshot", "entry", "commit"} /\ drawn # None =>
       \A t \in tree[name].may : t.revisions[drawn] = "whole"
  /\ pc \in {"reclaim", "collect"} => Synced(registry)

\* A deletion goes from the record to the directory and back.
Deletion ==
  /\ pc = "delete stages" => rec.mode = "initializing"
  /\ pc = "intent" => rec.mode = "deleting"
  /\ pc = "locate" => rec.mode # "none" /\ stage = None /\ (rec.mode = "deleting" => Synced(registry))
  /\ pc = "absent" => name = None /\ stage = None
  /\ pc = "mark" => /\ name # None /\ rec.mode \in {"initializing", "ready"}
                    /\ rec.inode = name \/ (rec.inode = None /\ Synced(container))
  /\ pc \in {"claims", "tree", "rmdir"} =>
       Synced(registry) /\ rec.mode = "deleting" /\ name # None /\ rec.inode = name
  /\ pc \in {"unclaim", "forget"} => \A c \in container.may : c.name = None /\ c.stage = None
  /\ pc = "forget" => "sure" \notin claims.may

Control == Reservation /\ Publication /\ Deletion

IInv == Typed /\ Disk /\ Control

-----------------------------------------------------------------------------
(* The effects. *)

\* A tree that i may come to hold.
Suits(i, t) ==
  /\ Evident(t)
  /\ \A r \in registry.may :
       /\ r.mode = "ready" /\ r.inode = i => Whole(t, r.revision)
       /\ r.inode = None /\ (\E c \in container.may : c.name = i) => t.reservation = "whole"

Constants == Revision \subseteq Nat \ {0} /\ None \notin Inode /\ None \notin Revision /\ Inode \subseteq Nat

LEMMA ConstantFacts == Constants
  BY BoundAssumption DEF Constants, None, Inode

LEMMA DurableVersions ==
  ASSUME NEW S, NEW v \in S
  PROVE  Durable(v) \in Versions(S) /\ Durable(v).now = v /\ Durable(v).may = {v}
  BY DEF Durable, Versions

LEMMA InterruptedVersions ==
  ASSUME NEW S, NEW d \in Versions(S), NEW vs \in Seq(S), NEW e \in Interrupted(d, vs)
  PROVE  /\ e \in Versions(S) /\ e.now \in e.may
         /\ \E k \in DOMAIN vs : e.now = vs[k]
         /\ \A v \in e.may : v \in d.may \/ \E k \in DOMAIN vs : v = vs[k]
<1>1. PICK k \in DOMAIN vs : e = [now |-> vs[k], may |-> d.may \union {vs[i] : i \in 1..k}]
  BY DEF Interrupted
<1>2. k \in 1..Len(vs) /\ DOMAIN vs = 1..Len(vs) /\ Len(vs) \in Nat /\ \A i \in 1..Len(vs) : vs[i] \in S
  OBVIOUS
<1>3. 1..k \subseteq DOMAIN vs /\ k \in 1..k
  BY <1>2
<1>4. d.may \in SUBSET S
  BY DEF Versions
<1>5. e.may \in SUBSET S /\ e.now \in S
  BY <1>1, <1>2, <1>3, <1>4
<1> QED
  BY <1>1, <1>3, <1>5 DEF Versions

LEMMA InterruptedOnce ==
  ASSUME NEW S, NEW d \in Versions(S), NEW v \in S, NEW e \in Interrupted(d, <<v>>)
  PROVE  e \in Versions(S) /\ e.now = v /\ e.may = d.may \union {v}
<1>1. e = [now |-> v, may |-> d.may \union {v}]
  <2>1. PICK k \in DOMAIN <<v>> : e = [now |-> <<v>>[k], may |-> d.may \union {<<v>>[i] : i \in 1..k}]
    BY DEF Interrupted
  <2>2. k = 1 /\ <<v>>[1] = v
    OBVIOUS
  <2>3. 1..1 = {1}
    OBVIOUS
  <2>4. {<<v>>[i] : i \in {1}} = {v}
    OBVIOUS
  <2> QED
    BY <2>1, <2>2, <2>3, <2>4
<1> QED
  BY <1>1 DEF Versions

\* The registry is replaced.
LEMMA SaveStep ==
  ASSUME IInv, NEW r \in Record, NEW next, save(r, next),
         Fine(r), r.mode \in {"none", "initializing"} => NoneReady
  PROVE  /\ DiskTyped' /\ Disk' /\ faults' \in 0..MaxFaults
         /\ UNCHANGED <<container, tree, claims>>
         /\ pc' = "idle" \/ (pc' = next /\ registry' = Durable(r))
<1>1. /\ registry' \in Versions(Record) /\ registry'.now = r /\ r \in registry'.may
      /\ \A q \in registry'.may : q \in registry.may \/ q = r
  <2>1. CASE registry' = Durable(r)
    BY <2>1, DurableVersions
  <2>2. CASE registry' \in Interrupted(registry, <<r>>)
    <3>1. registry \in Versions(Record)
      BY DEF IInv, Typed, DiskTyped
    <3> QED
      BY <2>2, <3>1, InterruptedOnce
  <2> QED
    BY <2>1, <2>2 DEF save
<1>2. UNCHANGED <<container, tree, claims>>
  BY DEF save
<1>3. faults' \in 0..MaxFaults /\ (pc' = "idle" \/ (pc' = next /\ registry' = Durable(r)))
  BY BoundAssumption DEF save, Fails, Continues, IInv, Typed, Locals
<1>4. DiskTyped'
  BY <1>1, <1>2 DEF IInv, Typed, DiskTyped
<1>5. \A q \in registry'.may : Fine(q)'
  BY <1>1, <1>2 DEF IInv, Disk, Fine, Accounted, AllReserved
<1>6. r.mode \in {"none", "initializing"} => NoneReady'
  BY <1>1 DEF NoneReady
<1>7. Disk'
  BY <1>1, <1>2, <1>5, <1>6 DEF IInv, Disk, rec
<1> QED
  BY <1>2, <1>3, <1>4, <1>7

\* The registry is made durable as it is.
LEMMA SyncIntentStep ==
  ASSUME IInv, NEW next, syncIntent(next)
  PROVE  /\ DiskTyped' /\ Disk' /\ faults' \in 0..MaxFaults
         /\ UNCHANGED <<container, tree, claims>>
         /\ pc' = next /\ registry' = Durable(rec)
<1>1. /\ registry' \in Versions(Record) /\ registry'.now = rec /\ registry'.may = {rec} /\ rec \in registry.may
  BY DurableVersions DEF syncIntent, IInv, Typed, DiskTyped, Versions, rec
<1>2. UNCHANGED <<container, tree, claims>>
  BY DEF syncIntent
<1>3. faults' \in 0..MaxFaults /\ pc' = next /\ registry' = Durable(rec)
  BY DEF syncIntent, Continues, IInv, Typed, Locals
<1>4. DiskTyped'
  BY <1>1, <1>2 DEF IInv, Typed, DiskTyped
<1>5. \A q \in registry'.may : Fine(q)'
  BY <1>1, <1>2 DEF IInv, Disk, Fine, Accounted, AllReserved
<1>6. Disk'
  BY <1>1, <1>2, <1>5 DEF IInv, Disk, rec, NoneReady
<1> QED
  BY <1>2, <1>3, <1>4, <1>6

\* contexts/ changes to c.
LEMMA PlaceStep ==
  ASSUME IInv, NEW c \in Entry, NEW next, place(c, next), \A r \in registry.may : Accounted(r, c)
  PROVE  /\ DiskTyped' /\ Disk' /\ faults' \in 0..MaxFaults
         /\ UNCHANGED <<registry, tree, claims>>
         /\ pc' = "idle" \/ (pc' = next /\ container' = Durable(c))
<1>1. /\ container' \in Versions(Entry) /\ container'.now \in container'.may
      /\ \A e \in container'.may : e \in container.may \/ e = c
  <2>1. CASE container' = Durable(c)
    BY <2>1, DurableVersions
  <2>2. CASE container' \in Interrupted(container, <<c>>)
    <3>1. container \in Versions(Entry)
      BY DEF IInv, Typed, DiskTyped
    <3> QED
      BY <2>2, <3>1, InterruptedOnce
  <2> QED
    BY <2>1, <2>2 DEF place
<1>2. UNCHANGED <<registry, tree, claims>>
  BY DEF place
<1>3. faults' \in 0..MaxFaults /\ (pc' = "idle" \/ (pc' = next /\ container' = Durable(c)))
  BY BoundAssumption DEF place, Fails, Continues, IInv, Typed, Locals
<1>4. DiskTyped'
  BY <1>1, <1>2 DEF IInv, Typed, DiskTyped
<1>5. \A r \in registry'.may : Fine(r)'
  BY <1>1, <1>2 DEF IInv, Disk, Fine, Accounted, AllReserved
<1>6. Disk'
  BY <1>2, <1>5 DEF IInv, Disk, rec, NoneReady
<1> QED
  BY <1>2, <1>3, <1>4, <1>6

\* contexts/ is made durable as it is.
LEMMA SyncContainerStep ==
  ASSUME IInv, NEW next, syncContainer(next)
  PROVE  /\ DiskTyped' /\ Disk' /\ faults' \in 0..MaxFaults
         /\ UNCHANGED <<registry, tree, claims>>
         /\ pc' = next /\ container' = Durable(container.now)
<1>1. /\ container' \in Versions(Entry) /\ container'.now \in container'.may
      /\ \A e \in container'.may : e \in container.may
  BY DurableVersions DEF syncContainer, IInv, Typed, DiskTyped, Versions
<1>2. UNCHANGED <<registry, tree, claims>>
  BY DEF syncContainer
<1>3. faults' \in 0..MaxFaults /\ pc' = next /\ container' = Durable(container.now)
  BY DEF syncContainer, Continues, IInv, Typed, Locals
<1>4. DiskTyped'
  BY <1>1, <1>2 DEF IInv, Typed, DiskTyped
<1>5. \A r \in registry'.may : Fine(r)'
  BY <1>1, <1>2 DEF IInv, Disk, Fine, Accounted, AllReserved
<1>6. Disk'
  BY <1>2, <1>5 DEF IInv, Disk, rec, NoneReady
<1> QED
  BY <1>2, <1>3, <1>4, <1>6

\* A directory comes to hold versions that suit it.
LEMMA TreeStep ==
  ASSUME IInv, NEW i \in Inode, NEW d \in Versions(Tree), d.now \in d.may,
         \A t \in d.may : t \in tree[i].may \/ Suits(i, t),
         tree' = [tree EXCEPT ![i] = d], UNCHANGED <<registry, container, claims>>
  PROVE  DiskTyped' /\ Disk'
<1>1. /\ tree' \in [Inode -> Versions(Tree)] /\ tree'[i] = d
      /\ \A j \in Inode : j # i => tree'[j] = tree[j]
  BY DEF IInv, Typed, DiskTyped
<1>2. DiskTyped'
  BY <1>1 DEF IInv, Typed, DiskTyped
<1>3. \A j \in Inode : \A t \in tree'[j].may : Evident(t)
  BY <1>1 DEF IInv, Disk, Suits
<1>4. ASSUME NEW r \in registry.may
      PROVE  Fine(r)'
  <2>0. r \in Record /\ Fine(r)
    BY DEF IInv, Typed, DiskTyped, Versions, Disk
  <2>1. ASSUME NEW c \in container.may
        PROVE  Accounted(r, c)'
    <3>0. Accounted(r, c) /\ c \in Entry
      BY <2>0 DEF Fine, IInv, Typed, DiskTyped, Versions
    <3>1. c.name # None => c.name \in Inode
      BY <3>0 DEF Entry
    <3>2. c.name # None /\ r.inode = None /\ AllReserved(c.name) => AllReserved(c.name)'
      BY <1>1, <3>1 DEF AllReserved, Suits
    <3> QED
      BY <3>0, <3>2 DEF Accounted
  <2>2. r.mode = "ready" => r.inode \in Inode
    <3>1. container.now \in container.may /\ container.now \in Entry
      BY DEF IInv, Typed, DiskTyped, Versions
    <3> QED
      BY <2>0, <3>1, ConstantFacts DEF Fine, Accounted, Entry, Constants
  <2>3. r.mode = "ready" => \A t \in tree'[r.inode].may : Whole(t, r.revision)
    BY <1>1, <2>0, <2>2 DEF Fine, Suits
  <2> QED
    BY <2>0, <2>1, <2>3 DEF Fine
<1>5. Disk'
  BY <1>3, <1>4 DEF IInv, Disk, rec, NoneReady
<1> QED
  BY <1>2, <1>5

LEMMA HoldStep ==
  ASSUME IInv, NEW i \in Inode, NEW vs \in Seq(Tree), Len(vs) > 0, NEW next, hold(i, vs, next),
         \A k \in 1..Len(vs) : Suits(i, vs[k])
  PROVE  /\ DiskTyped' /\ Disk' /\ faults' \in 0..MaxFaults
         /\ UNCHANGED <<registry, container, claims>>
         /\ pc' = "idle" \/ (pc' = next /\ tree' = [tree EXCEPT ![i] = Durable(vs[Len(vs)])])
<1>1. UNCHANGED <<registry, container, claims>>
  BY DEF hold
<1>2. faults' \in 0..MaxFaults /\ (pc' = "idle" \/ (pc' = next /\ tree' = [tree EXCEPT ![i] = Durable(vs[Len(vs)])]))
  BY BoundAssumption DEF hold, Fails, Continues, IInv, Typed, Locals
<1>3. tree[i] \in Versions(Tree) /\ DOMAIN vs = 1..Len(vs) /\ Len(vs) \in 1..Len(vs) /\ vs[Len(vs)] \in Tree
  BY DEF IInv, Typed, DiskTyped
<1>4. DiskTyped' /\ Disk'
  <2>1. CASE tree' = [tree EXCEPT ![i] = Durable(vs[Len(vs)])]
    <3>1. Durable(vs[Len(vs)]) \in Versions(Tree) /\ Durable(vs[Len(vs)]).now = vs[Len(vs)] /\ Durable(vs[Len(vs)]).may = {vs[Len(vs)]}
      BY <1>3, DurableVersions
    <3> QED
      BY <1>1, <1>3, <2>1, <3>1, TreeStep
  <2>2. ASSUME NEW d \in Interrupted(tree[i], vs), tree' = [tree EXCEPT ![i] = d]
        PROVE  DiskTyped' /\ Disk'
    <3>1. /\ d \in Versions(Tree) /\ d.now \in d.may
          /\ \A t \in d.may : t \in tree[i].may \/ \E k \in DOMAIN vs : t = vs[k]
      BY <1>3, <2>2, InterruptedVersions
    <3>2. \A t \in d.may : t \in tree[i].may \/ Suits(i, t)
      BY <1>3, <3>1
    <3> QED
      BY <1>1, <2>2, <3>1, <3>2, TreeStep
  <2> QED
    BY <2>1, <2>2 DEF hold
<1> QED
  BY <1>1, <1>2, <1>4

LEMMA WriteExclusiveStep ==
  ASSUME IInv, NEW i \in Inode, NEW torn \in Tree, NEW whole \in Tree, NEW next,
         writeExclusive(i, torn, whole, next), Suits(i, torn), Suits(i, whole)
  PROVE  /\ DiskTyped' /\ Disk' /\ faults' \in 0..MaxFaults
         /\ UNCHANGED <<registry, container, claims>>
         /\ pc' = "idle" \/ (pc' = next /\ tree' = [tree EXCEPT ![i] = Durable(whole)])
<1>1. CASE hold(i, <<torn, whole>>, next)
  <2> DEFINE vs == <<torn, whole>>
  <2>1. vs \in Seq(Tree) /\ Len(vs) = 2 /\ vs[1] = torn /\ vs[2] = whole
    OBVIOUS
  <2>2. \A k \in 1..Len(vs) : Suits(i, vs[k])
    <3>1. SUFFICES ASSUME NEW k \in 1..2 PROVE Suits(i, vs[k])
      BY <2>1
    <3>2. k = 1 \/ k = 2
      OBVIOUS
    <3> QED
      BY <2>1, <3>2
  <2>3. hold(i, vs, next)
    BY <1>1
  <2> HIDE DEF vs
  <2>4. /\ DiskTyped' /\ Disk' /\ faults' \in 0..MaxFaults
        /\ UNCHANGED <<registry, container, claims>>
        /\ pc' = "idle" \/ (pc' = next /\ tree' = [tree EXCEPT ![i] = Durable(vs[Len(vs)])])
    <3>1. Len(vs) > 0
      BY <2>1
    <3> QED
      BY <2>1, <2>2, <2>3, <3>1, HoldStep
  <2>5. vs[Len(vs)] = whole
    BY <2>1
  <2> QED
    BY <2>4, <2>5
<1>2. CASE /\ tree' = [tree EXCEPT ![i].may = @ \union {torn, whole}]
           /\ Fails
           /\ UNCHANGED <<registry, container, claims>>
  <2> DEFINE d == [tree[i] EXCEPT !.may = @ \union {torn, whole}]
  <2>1. tree[i] \in Versions(Tree) /\ tree[i].now \in tree[i].may
    BY DEF IInv, Typed, DiskTyped
  <2>2. d \in Versions(Tree) /\ d.now = tree[i].now /\ d.may = tree[i].may \union {torn, whole}
    BY <2>1 DEF Versions
  <2>3. tree' = [tree EXCEPT ![i] = d]
    BY <1>2
  <2> HIDE DEF d
  <2>4. DiskTyped' /\ Disk'
    BY <1>2, <2>1, <2>2, <2>3, TreeStep
  <2>5. pc' = "idle" /\ faults' \in 0..MaxFaults
    BY <1>2, BoundAssumption DEF Fails, IInv, Typed, Locals
  <2> QED
    BY <1>2, <2>4, <2>5
<1> QED
  BY <1>1, <1>2 DEF writeExclusive

\* The claims are taken or dropped.
LEMMA ClaimsStep ==
  ASSUME IInv, claims' \in Versions(Claim), claims'.now \in claims'.may,
         "sure" \in claims'.may => "sure" \in claims.may \/ \A r \in registry.may : r.mode \in {"ready", "deleting"},
         claims'.now = "none" => "sure" \notin claims'.may,
         UNCHANGED <<registry, container, tree>>
  PROVE  DiskTyped' /\ Disk'
<1>1. DiskTyped'
  BY DEF IInv, Typed, DiskTyped
<1>2. \A r \in registry'.may : Fine(r)'
  BY DEF IInv, Disk, Fine, Accounted, AllReserved
<1>3. Disk'
  BY <1>2 DEF IInv, Disk, rec, NoneReady
<1> QED
  BY <1>1, <1>3

\* A claim dropped without its sync is no longer a sure one.
LEMMA LeftVersions ==
  ASSUME IInv
  PROVE  Left \in Versions(Claim) /\ Left.now = "none" /\ "none" \in Left.may /\ "sure" \notin Left.may
<1>1. claims.may \subseteq Claim
  BY DEF IInv, Typed, DiskTyped, Versions
<1>2. {IF c = "sure" THEN "left" ELSE c : c \in claims.may} \subseteq Claim \ {"sure"}
  BY <1>1 DEF Claim
<1>3. {"none"} \union {IF c = "sure" THEN "left" ELSE c : c \in claims.may} \in SUBSET (Claim \ {"sure"})
  BY <1>2 DEF Claim
<1> QED
  BY <1>3 DEF Left, Versions, Claim

LEMMA DropStep ==
  ASSUME IInv, NEW next, dropContextClaims(next)
  PROVE  /\ DiskTyped' /\ Disk' /\ faults' \in 0..MaxFaults
         /\ UNCHANGED <<registry, container, tree>>
         /\ pc' = "idle" \/ (pc' = next /\ "sure" \notin claims'.may)
<1>1. UNCHANGED <<registry, container, tree>>
  BY DEF dropContextClaims
<1>2. "none" \in Claim /\ claims \in Versions(Claim) /\ claims.now \in claims.may
  BY DEF Claim, IInv, Typed, DiskTyped
<1>3. /\ claims' \in Versions(Claim) /\ claims'.now \in claims'.may /\ "sure" \notin claims'.may
      /\ pc' = "idle" \/ pc' = next
      /\ faults' \in 0..MaxFaults
  <2>1. CASE claims' = Durable("none") /\ Continues(next)
    <3>1. claims' \in Versions(Claim) /\ claims'.now = "none" /\ claims'.may = {"none"}
      BY <1>2, <2>1, DurableVersions
    <3> QED
      BY <2>1, <3>1 DEF Continues, IInv, Typed, Locals
  <2>2. CASE claims.now = "none" /\ claims' = claims /\ Continues(next)
    BY <1>2, <2>2 DEF Continues, IInv, Typed, Locals, Disk
  <2>3. CASE claims' = Left /\ Fails
    <3>1. pc' = "idle" /\ faults' \in 0..MaxFaults
      BY <2>3, BoundAssumption DEF Fails, IInv, Typed, Locals
    <3> QED
      BY <2>3, <3>1, LeftVersions
  <2> QED
    BY <2>1, <2>2, <2>3 DEF dropContextClaims
<1>4. DiskTyped' /\ Disk'
  BY <1>1, <1>3, ClaimsStep
<1> QED
  BY <1>1, <1>3, <1>4

LEMMA SameDisk ==
  ASSUME IInv, UNCHANGED disk
  PROVE  DiskTyped' /\ Disk'
<1>1. DiskTyped'
  BY DEF IInv, Typed, DiskTyped, disk
<1>2. \A r \in registry'.may : Fine(r)'
  BY DEF IInv, Disk, Fine, Accounted, AllReserved, disk
<1>3. Disk'
  BY <1>2 DEF IInv, Disk, rec, NoneReady, disk
<1> QED
  BY <1>1, <1>3

LEMMA IdleControl ==
  ASSUME pc' = "idle"
  PROVE  Control'
  BY DEF Control, Reservation, Publication, Deletion, Reserving, Publishing

\* What every step finds.
LEMMA Found ==
  ASSUME IInv
  PROVE  /\ rec \in Record /\ rec \in registry.may /\ Fine(rec)
         /\ container.now \in Entry /\ container.now \in container.may
         /\ Accounted(rec, container.now)
         /\ name \in Inode \union {None} /\ stage \in Inode \union {None}
         /\ name # None => /\ name \in Inode /\ tree[name] \in Versions(Tree)
                           /\ tree[name].now \in Tree /\ tree[name].now \in tree[name].may
         /\ rec.mode = "ready" => name # None /\ rec.inode = name
<1>1. rec \in Record /\ rec \in registry.may /\ Fine(rec)
  BY DEF rec, IInv, Typed, DiskTyped, Versions, Disk
<1>2. container.now \in Entry /\ container.now \in container.may
  BY DEF IInv, Typed, DiskTyped, Versions
<1>3. Accounted(rec, container.now)
  BY <1>1, <1>2 DEF Fine
<1>4. name \in Inode \union {None} /\ stage \in Inode \union {None}
  BY <1>2 DEF name, stage, Entry
<1>5. name # None => /\ name \in Inode /\ tree[name] \in Versions(Tree)
                     /\ tree[name].now \in Tree /\ tree[name].now \in tree[name].may
  BY <1>4 DEF IInv, Typed, DiskTyped, Versions
<1>6. rec.mode = "ready" => name # None /\ rec.inode = name
  BY <1>3 DEF Accounted, name
<1> QED
  BY <1>1, <1>2, <1>3, <1>4, <1>5, <1>6

-----------------------------------------------------------------------------
(* Initialization. *)

LEMMA BeginInitInv ==
  ASSUME IInv, BeginInit
  PROVE  IInv'
<1>1. DiskTyped' /\ Disk'
  BY SameDisk DEF BeginInit, Skips
<1>2. Locals'
  BY DEF BeginInit, Skips, IInv, Typed, Locals
<1>3. Control'
  BY DEF BeginInit, Skips, disk, rec, Control, Reservation, Publication, Deletion, Reserving, Publishing
<1> QED
  BY <1>1, <1>2, <1>3 DEF IInv, Typed

LEMMA ReserveContextNameInv ==
  ASSUME IInv, reserveContextName
  PROVE  IInv'
<1> DEFINE r == [NoRecord EXCEPT !.mode = "initializing"]
<1>0. r = [mode |-> "initializing", inode |-> None, revision |-> None] /\ r \in Record
  BY DEF NoRecord, Record, Mode
<1>1. pc = "reserve" /\ drawn = None /\ rec.mode = IF fresh THEN "none" ELSE "initializing"
  BY DEF reserveContextName, IInv, Control, Reservation
<1>2. UNCHANGED <<fresh, drawn, made>>
  BY DEF reserveContextName
<1>3. CASE fresh
  <2>1. Fine(r) /\ NoneReady
    BY <1>0, <1>1, <1>3, Found DEF Fine, Accounted, IInv, Disk
  <2>2. save(r, "stages")
    BY <1>3 DEF reserveContextName
  <2> HIDE DEF r
  <2>3. /\ DiskTyped' /\ Disk' /\ faults' \in 0..MaxFaults
        /\ pc' = "idle" \/ (pc' = "stages" /\ registry' = Durable(r))
    BY <1>0, <2>1, <2>2, SaveStep
  <2>4. ASSUME pc' = "stages", registry' = Durable(r)
        PROVE  Control'
    BY <1>0, <1>1, <1>2, <2>4
    DEF Control, Reservation, Publication, Deletion, Reserving, Publishing, rec, Synced, Durable
  <2> QED
    BY <1>2, <2>3, <2>4, IdleControl DEF IInv, Typed, Locals
<1>4. CASE ~ fresh
  <2>1. syncIntent("stages")
    BY <1>4 DEF reserveContextName, IInv, Typed, Locals
  <2>2. /\ DiskTyped' /\ Disk' /\ faults' \in 0..MaxFaults
        /\ pc' = "stages" /\ registry' = Durable(rec)
    BY <2>1, SyncIntentStep
  <2>3. Control'
    BY <1>1, <1>2, <1>4, <2>2
    DEF Control, Reservation, Publication, Deletion, Reserving, Publishing, rec, Synced, Durable, IInv, Typed, Locals
  <2> QED
    BY <1>2, <2>2, <2>3 DEF IInv, Typed, Locals
<1> QED
  BY <1>3, <1>4

LEMMA CollectInitializationStagesInv ==
  ASSUME IInv, collectInitializationStages
  PROVE  IInv'
<1> DEFINE next == IF pc = "stages" THEN "open" ELSE "locate"
           c == [container.now EXCEPT !.stage = None]
<1>0. UNCHANGED <<fresh, drawn, made>> /\ rec.mode = "initializing" /\ pc \in {"stages", "delete stages"}
  BY DEF collectInitializationStages, IInv, Control, Reservation, Deletion, Reserving
<1>1. c \in Entry /\ c.name = name /\ c.stage = None
  BY Found DEF Entry, name
<1>2. ASSUME pc' = next, UNCHANGED registry, container'.now.stage = None
      PROVE  Control'
  BY <1>0, <1>2
  DEF Control, Reservation, Publication, Deletion, Reserving, Publishing, rec, stage, Synced, IInv
<1>3. CASE stage # None
  <2>1. \A r \in registry.may : Accounted(r, c)
    BY <1>1, <1>3, Found DEF IInv, Disk, Fine, Accounted, name, stage
  <2>2. place(c, next)
    BY <1>3 DEF collectInitializationStages
  <2> HIDE DEF c, next
  <2>3. /\ DiskTyped' /\ Disk' /\ faults' \in 0..MaxFaults
        /\ UNCHANGED <<registry, tree, claims>>
        /\ pc' = "idle" \/ (pc' = next /\ container' = Durable(c))
    BY <1>1, <2>1, <2>2, PlaceStep
  <2>4. ASSUME pc' = next, container' = Durable(c)
        PROVE  Control'
    BY <1>1, <1>2, <2>3, <2>4 DEF Durable
  <2> QED
    BY <1>0, <2>3, <2>4, IdleControl DEF IInv, Typed, Locals
<1>4. CASE stage = None
  <2>1. Skips(next)
    BY <1>4 DEF collectInitializationStages
  <2>2. DiskTyped' /\ Disk' /\ Control'
    BY <1>2, <1>4, <2>1, SameDisk DEF Skips, disk, stage
  <2> QED
    BY <1>0, <2>1, <2>2 DEF Skips, IInv, Typed, Locals
<1> QED
  BY <1>3, <1>4

LEMMA OpenContextReservationInv ==
  ASSUME IInv, openContextReservation
  PROVE  IInv'
<1>0. /\ UNCHANGED <<fresh, drawn, made>> /\ drawn = None
      /\ rec.mode = "initializing" /\ Synced(registry)
  BY DEF openContextReservation, IInv, Control, Reservation, Reserving
<1>1. UNCHANGED disk /\ UNCHANGED faults
  BY DEF openContextReservation, Skips, Refuses
<1>2. \/ pc' = "idle"
      \/ pc' = "stage" /\ name = None /\ rec.inode = None
      \/ pc' = "attribute" /\ name # None /\ rec.inode = None /\ Reserved
      \/ pc' = "config" /\ name # None /\ rec.inode = name /\ Reserved
  BY DEF openContextReservation, Skips, Refuses
<1>3. Control'
  <2>1. CASE pc' = "stage" /\ name = None /\ rec.inode = None
    BY <1>0, <1>1, <2>1
    DEF Control, Reservation, Publication, Deletion, Reserving, Publishing, rec, name, Synced, disk
  <2>2. CASE pc' = "attribute" /\ name # None /\ rec.inode = None /\ Reserved
    BY <1>0, <1>1, <2>2
    DEF Control, Reservation, Publication, Deletion, Reserving, Publishing, rec, name, Synced, disk
  <2>3. CASE pc' = "config" /\ name # None /\ rec.inode = name /\ Reserved
    BY <1>0, <1>1, <2>3
    DEF Control, Reservation, Publication, Deletion, Reserving, Publishing, rec, name, Synced, disk, Reserved
  <2> QED
    BY <1>2, <2>1, <2>2, <2>3, IdleControl
<1> QED
  BY <1>0, <1>1, <1>3, SameDisk DEF IInv, Typed, Locals

LEMMA CreateStageInv ==
  ASSUME IInv, createStage
  PROVE  IInv'
<1> DEFINE c == [container.now EXCEPT !.stage = made + 1]
<1>0. /\ pc = "stage" /\ UNCHANGED <<fresh, drawn>> /\ made' = made + 1 /\ made < MaxInode /\ made \in 0..MaxInode
      /\ name = None /\ rec.inode = None /\ rec.mode = "initializing" /\ Synced(registry) /\ drawn = None
  BY DEF createStage, IInv, Control, Reservation, Reserving, Typed, Locals
<1>1. made + 1 \in Inode /\ made' \in 0..MaxInode
  BY <1>0, BoundAssumption DEF Inode
<1>2. c \in Entry /\ c.name = None /\ c.stage = made + 1
  BY <1>0, <1>1, Found DEF Entry, name
<1>3. \A r \in registry.may : Accounted(r, c)
  BY <1>0, <1>2 DEF Synced, Accounted, rec
<1>4. place(c, "reservation")
  BY DEF createStage
<1> HIDE DEF c
<1>5. /\ DiskTyped' /\ Disk' /\ faults' \in 0..MaxFaults
      /\ UNCHANGED <<registry, tree, claims>>
      /\ pc' = "idle" \/ (pc' = "reservation" /\ container' = Durable(c))
  BY <1>2, <1>3, <1>4, PlaceStep
<1>6. ASSUME pc' = "reservation", container' = Durable(c)
      PROVE  Control'
  <2>1. name' = None /\ stage' # None /\ Synced(container)'
    BY <1>1, <1>2, <1>6, ConstantFacts DEF name, stage, Durable, Synced, Constants
  <2> QED
    BY <1>0, <1>5, <1>6, <2>1
    DEF Control, Reservation, Publication, Deletion, Reserving, Publishing, rec, Synced
<1> QED
  BY <1>0, <1>1, <1>5, <1>6, IdleControl DEF IInv, Typed, Locals

LEMMA WriteReservationInv ==
  ASSUME IInv, writeReservation
  PROVE  IInv'
<1> DEFINE torn == [EmptyTree EXCEPT !.reservation = "torn"]
           whole == [EmptyTree EXCEPT !.reservation = "whole"]
<1>0. /\ pc = "reservation" /\ UNCHANGED <<fresh, drawn, made>> /\ drawn = None
      /\ name = None /\ stage # None /\ Synced(container)
      /\ rec.inode = None /\ rec.mode = "initializing" /\ Synced(registry)
  BY DEF writeReservation, IInv, Control, Reservation, Reserving
<1>1. stage \in Inode
  BY <1>0, Found
<1>2. /\ torn \in Tree /\ whole \in Tree /\ whole.reservation = "whole"
      /\ torn.applied = None /\ whole.applied = None
  BY DEF EmptyTree, Tree, File
<1>3. Suits(stage, torn) /\ Suits(stage, whole)
  BY <1>0, <1>2 DEF Suits, Evident, Synced, rec, name
<1>4. writeExclusive(stage, torn, whole, "publish")
  BY DEF writeReservation, writeExclusive
<1> HIDE DEF torn, whole
<1>5. /\ DiskTyped' /\ Disk' /\ faults' \in 0..MaxFaults
      /\ UNCHANGED <<registry, container, claims>>
      /\ pc' = "idle" \/ (pc' = "publish" /\ tree' = [tree EXCEPT ![stage] = Durable(whole)])
  BY <1>1, <1>2, <1>3, <1>4, WriteExclusiveStep
<1>6. ASSUME pc' = "publish", tree' = [tree EXCEPT ![stage] = Durable(whole)]
      PROVE  Control'
  <2>1. stage' = stage /\ tree'[stage].may = {whole}
    BY <1>1, <1>5, <1>6 DEF stage, Durable, IInv, Typed, DiskTyped
  <2>2. AllReserved(stage)'
    BY <1>2, <2>1 DEF AllReserved
  <2> QED
    BY <1>0, <1>5, <1>6, <2>2
    DEF Control, Reservation, Publication, Deletion, Reserving, Publishing, rec, name, stage, Synced
<1> QED
  BY <1>0, <1>5, <1>6, IdleControl DEF IInv, Typed, Locals

LEMMA PublishDirectoryInv ==
  ASSUME IInv, publishDirectory
  PROVE  IInv'
<1> DEFINE c == [name |-> stage, stage |-> None]
<1>0. /\ pc = "publish" /\ UNCHANGED <<fresh, drawn, made>> /\ drawn = None
      /\ stage # None /\ AllReserved(stage)
      /\ rec.inode = None /\ rec.mode = "initializing" /\ Synced(registry)
  BY DEF publishDirectory, IInv, Control, Reservation, Reserving
<1>1. c \in Entry /\ c.name = stage /\ c.stage = None
  BY Found DEF Entry
<1>2. \A r \in registry.may : Accounted(r, c)
  BY <1>0, <1>1 DEF Synced, Accounted, rec
<1>3. place(c, "attribute")
  BY DEF publishDirectory
<1> HIDE DEF c
<1>4. /\ DiskTyped' /\ Disk' /\ faults' \in 0..MaxFaults
      /\ UNCHANGED <<registry, tree, claims>>
      /\ pc' = "idle" \/ (pc' = "attribute" /\ container' = Durable(c))
  BY <1>1, <1>2, <1>3, PlaceStep
<1>5. ASSUME pc' = "attribute", container' = Durable(c)
      PROVE  Control'
  <2>1. name' # None
    BY <1>0, <1>1, <1>5 DEF name, Durable
  <2> QED
    BY <1>0, <1>4, <1>5, <2>1
    DEF Control, Reservation, Publication, Deletion, Reserving, Publishing, rec, Synced
<1> QED
  BY <1>0, <1>4, <1>5, IdleControl DEF IInv, Typed, Locals

LEMMA AttributeInv ==
  ASSUME IInv, attribute
  PROVE  IInv'
<1>0. /\ pc = "attribute" /\ UNCHANGED <<fresh, drawn, made>> /\ drawn = None /\ name # None
      /\ rec.inode = None /\ rec.mode = "initializing" /\ Synced(registry) /\ syncContainer("record")
  BY DEF attribute, IInv, Control, Reservation, Reserving
<1>1. /\ DiskTyped' /\ Disk' /\ faults' \in 0..MaxFaults
      /\ UNCHANGED <<registry, tree, claims>>
      /\ pc' = "record" /\ container' = Durable(container.now)
  BY <1>0, SyncContainerStep
<1>2. Control'
  BY <1>0, <1>1
  DEF Control, Reservation, Publication, Deletion, Reserving, Publishing, rec, name, Synced, Durable
<1> QED
  BY <1>0, <1>1, <1>2 DEF IInv, Typed, Locals

LEMMA RecordIdentityInv ==
  ASSUME IInv, recordIdentity
  PROVE  IInv'
<1> DEFINE r == [rec EXCEPT !.inode = name]
<1>0. /\ pc = "record" /\ UNCHANGED <<fresh, drawn, made>> /\ drawn = None /\ name # None
      /\ rec.inode = None /\ rec.mode = "initializing" /\ Synced(registry) /\ Synced(container)
  BY DEF recordIdentity, IInv, Control, Reservation, Reserving
<1>1. r \in Record /\ r.mode = "initializing" /\ r.inode = name
  BY <1>0, Found DEF Record
<1>2. Fine(r)
  BY <1>0, <1>1, Found DEF Fine, Accounted, Synced, name
<1>3. NoneReady
  BY <1>0 DEF NoneReady, Synced, rec
<1>4. save(r, "config")
  BY DEF recordIdentity
<1>5. AllReserved(name)
  BY <1>0, Found DEF Accounted, name
<1>6. tree[name].now.reservation = "whole"
  BY <1>0, <1>5, Found DEF AllReserved
<1> HIDE DEF r
<1>7. /\ DiskTyped' /\ Disk' /\ faults' \in 0..MaxFaults
      /\ UNCHANGED <<container, tree, claims>>
      /\ pc' = "idle" \/ (pc' = "config" /\ registry' = Durable(r))
  BY <1>1, <1>2, <1>3, <1>4, SaveStep
<1>8. ASSUME pc' = "config", registry' = Durable(r)
      PROVE  Control'
  <2>1. rec' = r /\ Synced(registry)' /\ name' = name
    BY <1>7, <1>8 DEF rec, Synced, Durable, name
  <2> QED
    BY <1>0, <1>1, <1>6, <1>7, <1>8, <2>1
    DEF Control, Reservation, Publication, Deletion, Reserving, Publishing
<1> QED
  BY <1>0, <1>7, <1>8, IdleControl DEF IInv, Typed, Locals

LEMMA PublishingFound ==
  ASSUME IInv, pc \in Publishing
  PROVE  /\ name \in Inode /\ name # None /\ rec.inode = name /\ rec.mode \in {"initializing", "ready"}
         /\ tree[name] \in Versions(Tree) /\ tree[name].now \in Tree /\ tree[name].now \in tree[name].may
         /\ tree[name].now.reservation = "whole" /\ Evident(tree[name].now)
         /\ \A r \in registry.may : r.mode = "ready" =>
              rec.mode = "ready" /\ r.inode = name /\ \A t \in tree[name].may : Whole(t, r.revision)
         /\ \A t \in Tree :
              (/\ Evident(t) /\ t.reservation = "whole"
               /\ \A r \in registry.may : r.mode = "ready" => Whole(t, r.revision))
              => Suits(name, t)
<1>1. name # None /\ rec.inode = name /\ rec.mode \in {"initializing", "ready"}
  BY DEF IInv, Control, Publication
<1>2. /\ name \in Inode /\ tree[name] \in Versions(Tree)
      /\ tree[name].now \in Tree /\ tree[name].now \in tree[name].may
  BY <1>1, Found
<1>3. tree[name].now.reservation = "whole"
  <2>1. CASE rec.mode = "initializing"
    BY <2>1 DEF IInv, Control, Publication
  <2>2. CASE rec.mode = "ready"
    BY <1>1, <1>2, <2>2, Found DEF Fine, Whole
  <2> QED
    BY <1>1, <2>1, <2>2
<1>4. Evident(tree[name].now)
  BY <1>2 DEF IInv, Disk
<1>5. ASSUME NEW r \in registry.may, r.mode = "ready"
      PROVE  rec.mode = "ready" /\ r.inode = name /\ \A t \in tree[name].may : Whole(t, r.revision)
  <2>1. Fine(r) /\ rec.mode = "ready"
    BY <1>1, <1>5 DEF IInv, Disk, NoneReady
  <2>2. r.inode = name
    BY <1>1, <1>5, <2>1, Found DEF Fine, Accounted, name
  <2> QED
    BY <1>5, <2>1, <2>2 DEF Fine
<1>6. ASSUME NEW t \in Tree, Evident(t), t.reservation = "whole",
             \A r \in registry.may : r.mode = "ready" => Whole(t, r.revision)
      PROVE  Suits(name, t)
  BY <1>6 DEF Suits
<1> QED
  BY <1>1, <1>2, <1>3, <1>4, <1>5, <1>6

LEMMA WriteConfigInv ==
  ASSUME IInv, writeConfig
  PROVE  IInv'
<1> DEFINE t == tree[name].now
           torn == [t EXCEPT !.config = "torn"]
           whole == [t EXCEPT !.config = "whole"]
<1>0. /\ pc = "config" /\ UNCHANGED <<fresh, drawn, made>> /\ drawn = None
      /\ rec.mode = "initializing" /\ Synced(registry) /\ pc \in Publishing
  BY DEF writeConfig, IInv, Control, Reservation, Reserving, Publishing
<1>1. name \in Inode /\ name # None /\ rec.inode = name /\ t \in Tree /\ t.reservation = "whole" /\ Evident(t)
  BY <1>0, PublishingFound
<1>2. /\ torn \in Tree /\ whole \in Tree /\ Evident(torn) /\ Evident(whole)
      /\ torn.reservation = "whole" /\ whole.reservation = "whole" /\ whole.config = "whole"
  BY <1>1 DEF Tree, File, Evident
<1>3. Suits(name, torn) /\ Suits(name, whole)
  <2>1. \A r \in registry.may : r.mode # "ready"
    BY <1>0 DEF Synced, rec
  <2> HIDE DEF torn, whole
  <2> QED
    BY <1>0, <1>2, <2>1, PublishingFound
<1>4. CASE t.config = "absent"
  <2>1. writeExclusive(name, torn, whole, "evidence")
    BY <1>4 DEF writeConfig
  <2> HIDE DEF torn, whole
  <2>2. /\ DiskTyped' /\ Disk' /\ faults' \in 0..MaxFaults
        /\ UNCHANGED <<registry, container, claims>>
        /\ pc' = "idle" \/ (pc' = "evidence" /\ tree' = [tree EXCEPT ![name] = Durable(whole)])
    BY <1>1, <1>2, <1>3, <2>1, WriteExclusiveStep
  <2>3. ASSUME pc' = "evidence", tree' = [tree EXCEPT ![name] = Durable(whole)]
        PROVE  Control'
    <3>1. name' = name /\ rec' = rec /\ tree'[name].now = whole
      BY <1>1, <2>2, <2>3 DEF name, rec, Durable, IInv, Typed, DiskTyped
    <3> QED
      BY <1>0, <1>1, <1>2, <2>2, <2>3, <3>1
      DEF Control, Reservation, Publication, Deletion, Reserving, Publishing, Synced
  <2> QED
    BY <1>0, <2>2, <2>3, IdleControl DEF IInv, Typed, Locals
<1>5. CASE t.config # "absent"
  <2>1. UNCHANGED disk /\ UNCHANGED faults /\ (pc' = "idle" \/ (pc' = "evidence" /\ t.config = "whole"))
    BY <1>5 DEF writeConfig, Skips, Refuses
  <2>2. ASSUME pc' = "evidence", t.config = "whole"
        PROVE  Control'
    BY <1>0, <1>1, <2>1, <2>2
    DEF Control, Reservation, Publication, Deletion, Reserving, Publishing, Synced, disk, name, rec
  <2> QED
    BY <1>0, <2>1, <2>2, SameDisk, IdleControl DEF IInv, Typed, Locals
<1> QED
  BY <1>4, <1>5

LEMMA WriteEvidenceInv ==
  ASSUME IInv, writeEvidence
  PROVE  IInv'
<1> DEFINE t == tree[name].now
           torn == [t EXCEPT !.evidence = "torn"]
           whole == [t EXCEPT !.evidence = "whole"]
<1>0. /\ pc = "evidence" /\ UNCHANGED <<fresh, drawn, made>> /\ drawn = None
      /\ rec.mode = "initializing" /\ Synced(registry) /\ pc \in Publishing
  BY DEF writeEvidence, IInv, Control, Reservation, Reserving, Publishing
<1>1. name \in Inode /\ name # None /\ rec.inode = name /\ t \in Tree /\ t.reservation = "whole" /\ Evident(t)
  BY <1>0, PublishingFound
<1>2. t.config = "whole"
  BY <1>0 DEF IInv, Control, Publication
<1>3. ASSUME t.evidence = "absent"
      PROVE  IInv'
  <2>1. /\ torn \in Tree /\ whole \in Tree /\ Evident(torn) /\ Evident(whole)
        /\ torn.reservation = "whole" /\ whole.reservation = "whole"
        /\ whole.config = "whole" /\ whole.evidence = "whole" /\ whole.applied = None
    BY <1>1, <1>2, <1>3 DEF Tree, File, Evident
  <2>2. PICK next \in {"revision", "snapshot"} : writeExclusive(name, torn, whole, next)
    BY <1>3 DEF writeEvidence
  <2> HIDE DEF torn, whole
  <2>3. Suits(name, torn) /\ Suits(name, whole)
    <3>1. \A r \in registry.may : r.mode # "ready"
      BY <1>0 DEF Synced, rec
    <3> QED
      BY <1>0, <2>1, <3>1, PublishingFound
  <2>4. /\ DiskTyped' /\ Disk' /\ faults' \in 0..MaxFaults
        /\ UNCHANGED <<registry, container, claims>>
        /\ pc' = "idle" \/ (pc' = next /\ tree' = [tree EXCEPT ![name] = Durable(whole)])
    BY <1>1, <2>1, <2>2, <2>3, WriteExclusiveStep
  <2>5. ASSUME pc' = next, tree' = [tree EXCEPT ![name] = Durable(whole)]
        PROVE  Control'
    <3>1. name' = name /\ rec' = rec /\ tree'[name].now = whole
      BY <1>1, <2>4, <2>5 DEF name, rec, Durable, IInv, Typed, DiskTyped
    <3> QED
      BY <1>0, <1>1, <2>1, <2>2, <2>4, <2>5, <3>1
      DEF Control, Reservation, Publication, Deletion, Reserving, Publishing, Synced
  <2> QED
    BY <1>0, <2>4, <2>5, IdleControl DEF IInv, Typed, Locals
<1>4. ASSUME t.evidence # "absent"
      PROVE  IInv'
  <2>1. /\ UNCHANGED disk /\ UNCHANGED faults
        /\ pc' = "idle" \/ (pc' \in {"revision", "snapshot"} /\ t.evidence = "whole" /\ t.applied = None)
    BY <1>4 DEF writeEvidence, Skips, Refuses
  <2>2. ASSUME pc' \in {"revision", "snapshot"}, t.evidence = "whole", t.applied = None
        PROVE  Control'
    BY <1>0, <1>1, <1>2, <2>1, <2>2
    DEF Control, Reservation, Publication, Deletion, Reserving, Publishing, Synced, disk, name, rec
  <2> QED
    BY <1>0, <2>1, <2>2, SameDisk, IdleControl DEF IInv, Typed, Locals
<1> QED
  BY <1>3, <1>4

-----------------------------------------------------------------------------
(* Publication of a revision. *)

\* One version of a directory becomes durable.
LEMMA HoldOnce ==
  ASSUME IInv, NEW i \in Inode, NEW t \in Tree, NEW next, hold(i, <<t>>, next), Suits(i, t)
  PROVE  /\ DiskTyped' /\ Disk' /\ faults' \in 0..MaxFaults
         /\ UNCHANGED <<registry, container, claims>>
         /\ pc' = "idle" \/ (pc' = next /\ tree' = [tree EXCEPT ![i] = Durable(t)])
<1> DEFINE vs == <<t>>
<1>1. vs \in Seq(Tree) /\ Len(vs) = 1 /\ vs[1] = t /\ Len(vs) > 0
  OBVIOUS
<1>2. \A k \in 1..Len(vs) : Suits(i, vs[k])
  <2>1. 1..1 = {1}
    OBVIOUS
  <2> QED
    BY <1>1, <2>1
<1>3. hold(i, vs, next)
  OBVIOUS
<1> HIDE DEF vs
<1>4. /\ DiskTyped' /\ Disk' /\ faults' \in 0..MaxFaults
      /\ UNCHANGED <<registry, container, claims>>
      /\ pc' = "idle" \/ (pc' = next /\ tree' = [tree EXCEPT ![i] = Durable(vs[Len(vs)])])
  BY <1>1, <1>2, <1>3, HoldStep
<1> QED
  BY <1>1, <1>4

\* What the steps that change revisions keep of the directory.
Complete(t) ==
  /\ t.reservation = "whole"
  /\ rec.mode = "initializing" => t.config = "whole" /\ t.evidence = "whole" /\ t.applied = None

LEMMA CompleteFound ==
  ASSUME IInv, pc \in Publishing \ {"config", "evidence"}
  PROVE  Complete(tree[name].now) /\ (rec.mode = "initializing" => Synced(registry))
<1>1. pc \in Publishing
  OBVIOUS
<1> QED
  BY <1>1, PublishingFound DEF Complete, IInv, Control, Publication

\* A revision of the directory changes, and publication goes on.
LEMMA RevisionControl ==
  ASSUME IInv, pc \in Publishing \ {"config", "evidence"}, NEW t \in Tree, Complete(t),
         tree' = [tree EXCEPT ![name] = Durable(t)], UNCHANGED <<registry, container>>,
         pc' \in {"revision", "reclaim", "manifest", "snapshot", "collect"},
         pc' = "manifest" => drawn' \in Revision,
         pc' = "snapshot" /\ drawn' # None => t.revisions[drawn'] = "whole",
         pc' \in {"reclaim", "collect"} => Synced(registry)
  PROVE  Control'
<1>1. name \in Inode /\ name # None /\ rec.inode = name /\ rec.mode \in {"initializing", "ready"}
  BY PublishingFound
<1>2. rec.mode = "initializing" => Synced(registry)
  BY CompleteFound
<1>3. name' = name /\ rec' = rec /\ tree'[name].now = t /\ tree'[name].may = {t}
  BY <1>1 DEF name, rec, Durable, IInv, Typed, DiskTyped
<1>4. Reservation' /\ Deletion'
  BY DEF Reservation, Deletion, Reserving
<1>5. Publication'
  BY <1>1, <1>2, <1>3 DEF Publication, Publishing, Complete, Synced
<1> QED
  BY <1>4, <1>5 DEF Control

LEMMA CollectRevisionInv ==
  ASSUME IInv, pc \in Publishing \ {"config", "evidence"}, Synced(registry),
         NEW r \in Collectable, NEW next \in {"reclaim", "collect"}, collectRevision(r, next),
         UNCHANGED <<fresh, drawn, made>>
  PROVE  IInv'
<1> DEFINE t == tree[name].now
           partial == [t EXCEPT !.revisions[r] = "partial"]
           absent == [t EXCEPT !.revisions[r] = "absent"]
<1>1. r \in Revision /\ r # rec.revision /\ t.applied = None
  BY DEF Collectable, Unselected, Retained
<1>2. /\ name \in Inode /\ t \in Tree /\ t.reservation = "whole" /\ Evident(t)
      /\ \A q \in registry.may : q.mode = "ready" => Whole(t, q.revision)
  BY PublishingFound
<1>3. /\ partial \in Tree /\ absent \in Tree
      /\ \A s \in {partial, absent} :
           /\ s.reservation = t.reservation /\ s.config = t.config /\ s.evidence = t.evidence /\ s.applied = t.applied
           /\ \A q \in Revision : q # r => s.revisions[q] = t.revisions[q]
  BY <1>1, <1>2 DEF Tree
<1>4. hold(name, <<partial, absent>>, next)
  BY DEF collectRevision
<1>5. writeExclusive(name, partial, absent, next)
  BY <1>4 DEF writeExclusive
<1>6. Complete(t)
  BY CompleteFound
<1> HIDE DEF t, partial, absent
<1>7. ASSUME NEW s \in {partial, absent}
      PROVE  Suits(name, s)
  <2>1. s \in Tree /\ Evident(s) /\ s.reservation = "whole"
    BY <1>2, <1>3 DEF Evident
  <2>2. \A q \in registry.may : q.mode = "ready" => Whole(s, q.revision)
    <3>1. SUFFICES ASSUME NEW q \in registry.may, q.mode = "ready"
                   PROVE  Whole(s, q.revision)
      OBVIOUS
    <3>2. q = rec /\ Whole(t, q.revision) /\ q.revision \in Revision \union {None}
      BY <1>2, <3>1, Found DEF Synced, rec, Record
    <3> QED
      BY <1>1, <1>3, <3>2 DEF Whole
  <2> QED
    BY <2>1, <2>2, PublishingFound
<1>8. /\ DiskTyped' /\ Disk' /\ faults' \in 0..MaxFaults
      /\ UNCHANGED <<registry, container, claims>>
      /\ pc' = "idle" \/ (pc' = next /\ tree' = [tree EXCEPT ![name] = Durable(absent)])
  BY <1>2, <1>3, <1>5, <1>7, WriteExclusiveStep
<1>9. ASSUME pc' = next, tree' = [tree EXCEPT ![name] = Durable(absent)]
      PROVE  Control'
  <2>1. absent \in Tree /\ Complete(absent)
    BY <1>3, <1>6 DEF Complete
  <2> QED
    BY <1>8, <1>9, <2>1, RevisionControl
<1> QED
  BY <1>8, <1>9, IdleControl DEF IInv, Typed, Locals

LEMMA BeginUpdateInv ==
  ASSUME IInv, BeginUpdate
  PROVE  IInv'
<1>1. /\ pc' = "revision" /\ fresh' = FALSE /\ drawn' = None /\ rec.mode = "ready"
      /\ UNCHANGED disk /\ UNCHANGED <<faults, made>>
  BY DEF BeginUpdate, Skips
<1>2. name # None /\ rec.inode = name
  BY <1>1, Found
<1>3. Control'
  BY <1>1, <1>2
  DEF Control, Reservation, Publication, Deletion, Reserving, Publishing, disk, name, rec
<1> QED
  BY <1>1, <1>3, SameDisk DEF IInv, Typed, Locals

LEMMA NewRevisionInv ==
  ASSUME IInv, newRevision
  PROVE  IInv'
<1>0. pc = "revision" /\ UNCHANGED <<fresh, made>> /\ pc \in Publishing \ {"config", "evidence"}
  BY DEF newRevision, Publishing
<1>1. CASE Cardinality(Retained) < MaxRevisions
  <2>1. PICK r \in Revision \ Retained :
          /\ drawn' = r
          /\ hold(name, <<[tree[name].now EXCEPT !.revisions[r] = "partial"]>>, "manifest")
    BY <1>1 DEF newRevision
  <2> DEFINE t == tree[name].now
             partial == [t EXCEPT !.revisions[r] = "partial"]
  <2>2. /\ name \in Inode /\ t \in Tree /\ t.reservation = "whole" /\ Evident(t)
        /\ \A q \in registry.may : q.mode = "ready" => Whole(t, q.revision)
    BY <1>0, PublishingFound
  <2>3. t.revisions[r] = "absent"
    BY DEF Retained
  <2>4. /\ partial \in Tree
        /\ partial.reservation = t.reservation /\ partial.config = t.config
        /\ partial.evidence = t.evidence /\ partial.applied = t.applied
        /\ \A q \in Revision : q # r => partial.revisions[q] = t.revisions[q]
    BY <2>2 DEF Tree
  <2>5. hold(name, <<partial>>, "manifest") /\ Complete(t)
    BY <1>0, <2>1, CompleteFound
  <2>6. t.applied \in Revision \union {None}
    BY <2>2 DEF Tree
  <2> HIDE DEF t, partial
  <2>7. Suits(name, partial)
    <3>1. Evident(partial)
      BY <2>2, <2>4 DEF Evident
    <3>2. \A q \in registry.may : q.mode = "ready" => Whole(partial, q.revision)
      <4>1. SUFFICES ASSUME NEW q \in registry.may, q.mode = "ready"
                     PROVE  Whole(partial, q.revision)
        OBVIOUS
      <4>2. Whole(t, q.revision) /\ q.revision \in Revision \union {None}
        BY <2>2, <4>1 DEF IInv, Typed, DiskTyped, Versions, Record
      <4> QED
        BY <2>3, <2>4, <2>6, <4>2 DEF Whole
    <3> QED
      BY <1>0, <2>2, <2>4, <3>1, <3>2, PublishingFound
  <2>8. /\ DiskTyped' /\ Disk' /\ faults' \in 0..MaxFaults
        /\ UNCHANGED <<registry, container, claims>>
        /\ pc' = "idle" \/ (pc' = "manifest" /\ tree' = [tree EXCEPT ![name] = Durable(partial)])
    BY <2>2, <2>4, <2>5, <2>7, HoldOnce
  <2>9. ASSUME pc' = "manifest", tree' = [tree EXCEPT ![name] = Durable(partial)]
        PROVE  Control'
    <3>1. Complete(partial)
      BY <2>4, <2>5 DEF Complete
    <3> QED
      BY <1>0, <2>1, <2>4, <2>8, <2>9, <3>1, RevisionControl
  <2> QED
    BY <1>0, <2>1, <2>8, <2>9, IdleControl DEF IInv, Typed, Locals
<1>2. CASE ~ Cardinality(Retained) < MaxRevisions
  <2>1. syncIntent("reclaim") /\ UNCHANGED drawn
    BY <1>2 DEF newRevision
  <2>2. /\ DiskTyped' /\ Disk' /\ faults' \in 0..MaxFaults
        /\ UNCHANGED <<container, tree, claims>>
        /\ pc' = "reclaim" /\ registry' = Durable(rec)
    BY <2>1, SyncIntentStep
  <2>3. rec' = rec /\ Synced(registry)' /\ name' = name
    BY <2>2 DEF Durable, Synced, rec, name
  <2>4. Complete(tree[name].now) /\ rec.inode = name /\ name # None /\ rec.mode \in {"initializing", "ready"}
    BY <1>0, CompleteFound, PublishingFound
  <2>5. Control'
    BY <2>2, <2>3, <2>4
    DEF Control, Reservation, Publication, Deletion, Reserving, Publishing, Complete
  <2> QED
    BY <1>0, <2>1, <2>2, <2>5 DEF IInv, Typed, Locals
<1> QED
  BY <1>1, <1>2

LEMMA ReclaimRevisionsInv ==
  ASSUME IInv, reclaimRevisions
  PROVE  IInv'
<1>0. /\ pc = "reclaim" /\ UNCHANGED <<fresh, drawn, made>> /\ pc \in Publishing \ {"config", "evidence"}
      /\ Synced(registry)
  BY DEF reclaimRevisions, Publishing, IInv, Control, Publication
<1>1. CASE Collectable # {}
  BY <1>0, <1>1, CollectRevisionInv DEF reclaimRevisions
<1>2. CASE Collectable = {}
  <2>1. UNCHANGED disk /\ UNCHANGED faults /\ pc' \in {"idle", "revision"}
    BY <1>2 DEF reclaimRevisions, Skips, Refuses
  <2>2. Complete(tree[name].now) /\ rec.inode = name /\ name # None /\ rec.mode \in {"initializing", "ready"}
    BY <1>0, CompleteFound, PublishingFound
  <2>3. Control'
    BY <1>0, <2>1, <2>2
    DEF Control, Reservation, Publication, Deletion, Reserving, Publishing, Complete, Synced, disk, name, rec
  <2> QED
    BY <1>0, <2>1, <2>3, SameDisk DEF IInv, Typed, Locals
<1> QED
  BY <1>1, <1>2

LEMMA WriteManifestInv ==
  ASSUME IInv, writeManifest
  PROVE  IInv'
<1> DEFINE t == tree[name].now
           whole == [t EXCEPT !.revisions[drawn] = "whole"]
<1>0. /\ pc = "manifest" /\ UNCHANGED <<fresh, drawn, made>> /\ pc \in Publishing \ {"config", "evidence"}
      /\ drawn \in Revision
  BY DEF writeManifest, Publishing, IInv, Control, Publication
<1>1. /\ name \in Inode /\ t \in Tree /\ t.reservation = "whole" /\ Evident(t) /\ Complete(t)
      /\ \A q \in registry.may : q.mode = "ready" => Whole(t, q.revision)
  BY <1>0, PublishingFound, CompleteFound
<1>2. /\ whole \in Tree
      /\ whole.reservation = t.reservation /\ whole.config = t.config
      /\ whole.evidence = t.evidence /\ whole.applied = t.applied /\ t.applied \in Revision \union {None}
      /\ \A q \in Revision : t.revisions[q] = "whole" => whole.revisions[q] = "whole"
      /\ whole.revisions[drawn] = "whole"
  BY <1>0, <1>1 DEF Tree
<1>3. hold(name, <<whole>>, "snapshot")
  BY DEF writeManifest
<1> HIDE DEF t, whole
<1>4. Suits(name, whole)
  <2>1. Evident(whole)
    BY <1>1, <1>2 DEF Evident
  <2>2. \A q \in registry.may : q.mode = "ready" => Whole(whole, q.revision)
    <3>1. SUFFICES ASSUME NEW q \in registry.may, q.mode = "ready"
                   PROVE  Whole(whole, q.revision)
      OBVIOUS
    <3>2. Whole(t, q.revision) /\ q.revision \in Revision \union {None}
      BY <1>1, <3>1 DEF IInv, Typed, DiskTyped, Versions, Record
    <3> QED
      BY <1>2, <3>2 DEF Whole
  <2> QED
    BY <1>0, <1>1, <1>2, <2>1, <2>2, PublishingFound
<1>5. /\ DiskTyped' /\ Disk' /\ faults' \in 0..MaxFaults
      /\ UNCHANGED <<registry, container, claims>>
      /\ pc' = "idle" \/ (pc' = "snapshot" /\ tree' = [tree EXCEPT ![name] = Durable(whole)])
  BY <1>1, <1>2, <1>3, <1>4, HoldOnce
<1>6. ASSUME pc' = "snapshot", tree' = [tree EXCEPT ![name] = Durable(whole)]
      PROVE  Control'
  <2>1. Complete(whole)
    BY <1>1, <1>2 DEF Complete
  <2> QED
    BY <1>0, <1>2, <1>5, <1>6, <2>1, RevisionControl
<1> QED
  BY <1>0, <1>5, <1>6, IdleControl DEF IInv, Typed, Locals

LEMMA SyncTreeInv ==
  ASSUME IInv, syncTree
  PROVE  IInv'
<1> DEFINE t == tree[name].now
<1>0. /\ pc = "snapshot" /\ UNCHANGED <<fresh, drawn, made>> /\ pc \in Publishing \ {"config", "evidence"}
      /\ UNCHANGED <<registry, container, claims, faults>>
      /\ drawn # None => \A s \in tree[name].may : s.revisions[drawn] = "whole"
  BY DEF syncTree, Publishing, IInv, Control, Publication, Continues, Skips, disk
<1>1. /\ name \in Inode /\ name # None /\ rec.inode = name /\ t \in Tree /\ t \in tree[name].may
      /\ Complete(t) /\ (rec.mode = "initializing" => Synced(registry)) /\ rec.mode \in {"initializing", "ready"}
  BY <1>0, PublishingFound, CompleteFound
<1>2. CASE rec.mode = "initializing"
  <2>1. tree' = [tree EXCEPT ![name] = Durable(t)] /\ pc' = "entry"
    BY <1>2 DEF syncTree, Continues
  <2>2. Durable(t) \in Versions(Tree) /\ Durable(t).now = t /\ Durable(t).may = {t}
    BY <1>1, DurableVersions
  <2>3. DiskTyped' /\ Disk'
    BY <1>0, <1>1, <2>1, <2>2, TreeStep
  <2>4. name' = name /\ rec' = rec /\ tree'[name] = Durable(t)
    BY <1>0, <1>1, <2>1 DEF name, rec, IInv, Typed, DiskTyped
  <2>5. Control'
    BY <1>0, <1>1, <1>2, <2>1, <2>2, <2>4
    DEF Control, Reservation, Publication, Deletion, Reserving, Publishing, Complete, Synced
  <2> QED
    BY <1>0, <2>3, <2>5 DEF IInv, Typed, Locals
<1>3. CASE rec.mode # "initializing"
  <2>1. UNCHANGED disk /\ pc' = "commit"
    BY <1>3 DEF syncTree, Skips
  <2>2. Control'
    BY <1>0, <1>1, <1>3, <2>1
    DEF Control, Reservation, Publication, Deletion, Reserving, Publishing, disk, name, rec
  <2> QED
    BY <1>0, <2>1, <2>2, SameDisk DEF IInv, Typed, Locals
<1> QED
  BY <1>2, <1>3

LEMMA SyncEntryInv ==
  ASSUME IInv, syncEntry
  PROVE  IInv'
<1>0. /\ pc = "entry" /\ UNCHANGED <<fresh, drawn, made>> /\ pc \in Publishing \ {"config", "evidence"}
      /\ rec.mode = "initializing" /\ Synced(tree[name]) /\ syncContainer("commit")
      /\ drawn # None => \A s \in tree[name].may : s.revisions[drawn] = "whole"
  BY DEF syncEntry, Publishing, IInv, Control, Publication
<1>1. name # None /\ rec.inode = name /\ Complete(tree[name].now) /\ Synced(registry)
  BY <1>0, PublishingFound, CompleteFound
<1>2. /\ DiskTyped' /\ Disk' /\ faults' \in 0..MaxFaults
      /\ UNCHANGED <<registry, tree, claims>>
      /\ pc' = "commit" /\ container' = Durable(container.now)
  BY <1>0, SyncContainerStep
<1>3. name' = name /\ rec' = rec
  BY <1>2 DEF name, rec, Durable
<1>4. Control'
  BY <1>0, <1>1, <1>2, <1>3
  DEF Control, Reservation, Publication, Deletion, Reserving, Publishing, Complete, Synced
<1> QED
  BY <1>0, <1>2, <1>4 DEF IInv, Typed, Locals

LEMMA CommitInv ==
  ASSUME IInv, Commit
  PROVE  IInv'
<1> DEFINE r == [rec EXCEPT !.mode = "ready", !.revision = IF drawn # None THEN drawn ELSE @]
<1>0. /\ pc = "commit" /\ UNCHANGED <<fresh, drawn, made>> /\ pc \in Publishing \ {"config", "evidence"}
      /\ rec.mode = "initializing" => Synced(tree[name])
      /\ drawn # None => \A s \in tree[name].may : s.revisions[drawn] = "whole"
      /\ drawn \in Revision \union {None}
  BY DEF Commit, Publishing, IInv, Control, Publication, Typed, Locals
<1>1. /\ name # None /\ rec.inode = name /\ rec.mode \in {"initializing", "ready"}
      /\ Complete(tree[name].now)
  BY <1>0, PublishingFound, CompleteFound
<1>2. /\ r \in Record /\ r.mode = "ready" /\ r.inode = name
      /\ r.revision = IF drawn # None THEN drawn ELSE rec.revision
  BY <1>0, <1>1, Found DEF Record, Mode
<1>3. save(r, "collect")
  BY DEF Commit
<1> HIDE DEF r
<1>4. \A c \in container.may : Accounted(r, c)
  BY <1>1, <1>2, Found DEF Fine, Accounted
<1>5. \A t \in tree[name].may : Whole(t, r.revision)
  <2>1. CASE rec.mode = "initializing"
    <3>1. rec.revision = None
      BY <2>1, Found DEF Fine
    <3> QED
      BY <1>0, <1>1, <1>2, <2>1, <3>1 DEF Complete, Synced, Whole
  <2>2. CASE rec.mode = "ready"
    <3>1. \A t \in tree[name].may : Whole(t, rec.revision)
      BY <1>1, <2>2, Found DEF Fine
    <3> QED
      BY <1>0, <1>2, <3>1 DEF Whole
  <2> QED
    BY <1>1, <2>1, <2>2
<1>6. Fine(r)
  BY <1>2, <1>4, <1>5 DEF Fine
<1>7. /\ DiskTyped' /\ Disk' /\ faults' \in 0..MaxFaults
      /\ UNCHANGED <<container, tree, claims>>
      /\ pc' = "idle" \/ (pc' = "collect" /\ registry' = Durable(r))
  BY <1>2, <1>3, <1>6, SaveStep
<1>8. ASSUME pc' = "collect", registry' = Durable(r)
      PROVE  Control'
  <2>1. rec' = r /\ Synced(registry)' /\ name' = name
    BY <1>7, <1>8 DEF rec, name, Synced, Durable
  <2> QED
    BY <1>1, <1>2, <1>8, <2>1
    DEF Control, Reservation, Publication, Deletion, Reserving, Publishing
<1> QED
  BY <1>0, <1>7, <1>8, IdleControl DEF IInv, Typed, Locals

LEMMA CollectRevisionsInv ==
  ASSUME IInv, collectRevisions
  PROVE  IInv'
<1>0. /\ pc = "collect" /\ UNCHANGED <<fresh, drawn, made>> /\ pc \in Publishing \ {"config", "evidence"}
      /\ Synced(registry)
  BY DEF collectRevisions, Publishing, IInv, Control, Publication
<1>1. CASE Collectable # {}
  BY <1>0, <1>1, CollectRevisionInv DEF collectRevisions
<1>2. CASE Collectable = {}
  <2>1. UNCHANGED disk /\ UNCHANGED faults /\ pc' = "idle"
    BY <1>2 DEF collectRevisions, Skips
  <2> QED
    BY <1>0, <2>1, SameDisk, IdleControl DEF IInv, Typed, Locals
<1> QED
  BY <1>1, <1>2

-----------------------------------------------------------------------------
(* Deletion. *)

LEMMA BeginDeleteInv ==
  ASSUME IInv, BeginDelete
  PROVE  IInv'
<1>1. /\ UNCHANGED disk /\ UNCHANGED <<fresh, drawn, made, faults>>
      /\ \/ pc' = "intent" /\ rec.mode = "deleting"
         \/ pc' = "delete stages" /\ rec.mode = "initializing"
         \/ pc' = "locate" /\ rec.mode = "ready"
  BY Found DEF BeginDelete, Skips, Record, Mode
<1>2. rec.mode = "ready" => stage = None
  BY Found DEF Accounted, stage
<1>3. Control'
  BY <1>1, <1>2
  DEF Control, Reservation, Publication, Deletion, Reserving, Publishing, disk, rec, stage
<1> QED
  BY <1>1, <1>3, SameDisk DEF IInv, Typed, Locals

LEMMA EstablishDeletionInv ==
  ASSUME IInv, establishDeletion
  PROVE  IInv'
<1>0. /\ pc = "intent" /\ UNCHANGED <<fresh, drawn, made>> /\ rec.mode = "deleting" /\ syncIntent("locate")
  BY DEF establishDeletion, IInv, Control, Deletion
<1>1. stage = None
  BY <1>0, Found DEF Accounted, stage
<1>2. /\ DiskTyped' /\ Disk' /\ faults' \in 0..MaxFaults
      /\ UNCHANGED <<container, tree, claims>>
      /\ pc' = "locate" /\ registry' = Durable(rec)
  BY <1>0, SyncIntentStep
<1>3. Control'
  BY <1>0, <1>1, <1>2
  DEF Control, Reservation, Publication, Deletion, Reserving, Publishing, rec, stage, Synced, Durable
<1> QED
  BY <1>0, <1>2, <1>3 DEF IInv, Typed, Locals

LEMMA LocateDirectoryInv ==
  ASSUME IInv, locateDirectory
  PROVE  IInv'
<1>0. /\ pc = "locate" /\ UNCHANGED <<fresh, drawn, made>>
      /\ rec.mode # "none" /\ stage = None /\ (rec.mode = "deleting" => Synced(registry))
  BY DEF locateDirectory, IInv, Control, Deletion
<1>1. \/ Refuses
      \/ Skips("absent") /\ name = None
      \/ Skips("claims") /\ name # None /\ name = rec.inode /\ rec.mode = "deleting"
      \/ Skips("mark") /\ name # None /\ name = rec.inode /\ rec.mode # "deleting"
      \/ syncContainer("mark") /\ name # None /\ rec.inode = None
  BY DEF locateDirectory
<1>2. ASSUME Refuses
      PROVE  IInv'
  BY <1>0, <1>2, SameDisk, IdleControl DEF Refuses, IInv, Typed, Locals
<1>3. ASSUME Skips("absent"), name = None
      PROVE  IInv'
  <2>1. Control'
    BY <1>0, <1>3
    DEF Control, Reservation, Publication, Deletion, Reserving, Publishing, name, stage, disk, Skips
  <2> QED
    BY <1>0, <1>3, <2>1, SameDisk DEF Skips, IInv, Typed, Locals
<1>4. ASSUME Skips("claims"), name # None, name = rec.inode, rec.mode = "deleting"
      PROVE  IInv'
  <2>1. Control'
    BY <1>0, <1>4
    DEF Control, Reservation, Publication, Deletion, Reserving, Publishing, name, rec, Synced, disk, Skips
  <2> QED
    BY <1>0, <1>4, <2>1, SameDisk DEF Skips, IInv, Typed, Locals
<1>5. ASSUME Skips("mark"), name # None, name = rec.inode, rec.mode # "deleting"
      PROVE  IInv'
  <2>1. rec.mode \in {"initializing", "ready"}
    BY <1>0, <1>5, Found DEF Record, Mode
  <2>2. Control'
    BY <1>5, <2>1
    DEF Control, Reservation, Publication, Deletion, Reserving, Publishing, name, rec, disk, Skips
  <2> QED
    BY <1>0, <1>5, <2>2, SameDisk DEF Skips, IInv, Typed, Locals
<1>6. ASSUME syncContainer("mark"), name # None, rec.inode = None
      PROVE  IInv'
  <2>1. rec.mode = "initializing"
    BY <1>6, Found DEF Accounted, name
  <2>2. /\ DiskTyped' /\ Disk' /\ faults' \in 0..MaxFaults
        /\ UNCHANGED <<registry, tree, claims>>
        /\ pc' = "mark" /\ container' = Durable(container.now)
    BY <1>6, SyncContainerStep
  <2>3. Control'
    BY <1>6, <2>1, <2>2
    DEF Control, Reservation, Publication, Deletion, Reserving, Publishing, name, rec, Synced, Durable
  <2> QED
    BY <1>0, <2>2, <2>3 DEF IInv, Typed, Locals
<1> QED
  BY <1>1, <1>2, <1>3, <1>4, <1>5, <1>6

LEMMA MarkDeletingInv ==
  ASSUME IInv, markDeleting
  PROVE  IInv'
<1> DEFINE r == [rec EXCEPT !.mode = "deleting", !.inode = name]
<1>0. /\ pc = "mark" /\ UNCHANGED <<fresh, drawn, made>> /\ name # None
      /\ rec.mode \in {"initializing", "ready"}
      /\ rec.inode = name \/ (rec.inode = None /\ Synced(container))
  BY DEF markDeleting, IInv, Control, Deletion
<1>1. r \in Record /\ r.mode = "deleting" /\ r.inode = name
  BY <1>0, Found DEF Record, Mode
<1>2. save(r, "claims")
  BY DEF markDeleting
<1> HIDE DEF r
<1>3. Fine(r)
  <2>1. ASSUME NEW c \in container.may
        PROVE  Accounted(r, c)
    <3>1. CASE rec.inode = name
      BY <1>0, <1>1, <3>1, Found DEF Fine, Accounted
    <3>2. CASE Synced(container)
      BY <1>0, <1>1, <3>2, Found DEF Accounted, Synced, name
    <3> QED
      BY <1>0, <3>1, <3>2
  <2> QED
    BY <1>1, <2>1 DEF Fine
<1>4. /\ DiskTyped' /\ Disk' /\ faults' \in 0..MaxFaults
      /\ UNCHANGED <<container, tree, claims>>
      /\ pc' = "idle" \/ (pc' = "claims" /\ registry' = Durable(r))
  BY <1>1, <1>2, <1>3, SaveStep
<1>5. ASSUME pc' = "claims", registry' = Durable(r)
      PROVE  Control'
  <2>1. rec' = r /\ Synced(registry)' /\ name' = name
    BY <1>4, <1>5 DEF rec, name, Synced, Durable
  <2> QED
    BY <1>0, <1>1, <1>5, <2>1
    DEF Control, Reservation, Publication, Deletion, Reserving, Publishing
<1> QED
  BY <1>0, <1>4, <1>5, IdleControl DEF IInv, Typed, Locals

LEMMA ReleaseClaimsInv ==
  ASSUME IInv, releaseClaims
  PROVE  IInv'
<1> DEFINE next == IF pc = "claims" THEN "tree" ELSE "forget"
<1>0. /\ pc \in {"claims", "unclaim"} /\ UNCHANGED <<fresh, drawn, made>> /\ dropContextClaims(next)
      /\ pc = "claims" => Synced(registry) /\ rec.mode = "deleting" /\ name # None /\ rec.inode = name
      /\ pc = "unclaim" => \A c \in container.may : c.name = None /\ c.stage = None
  BY DEF releaseClaims, IInv, Control, Deletion
<1>1. /\ DiskTyped' /\ Disk' /\ faults' \in 0..MaxFaults
      /\ UNCHANGED <<registry, container, tree>>
      /\ pc' = "idle" \/ (pc' = next /\ "sure" \notin claims'.may)
  <2> HIDE DEF next
  <2> QED
    BY <1>0, DropStep
<1>2. ASSUME pc' = next, "sure" \notin claims'.may
      PROVE  Control'
  <2>1. CASE pc = "claims"
    BY <1>0, <1>1, <1>2, <2>1
    DEF Control, Reservation, Publication, Deletion, Reserving, Publishing, Synced, rec, name
  <2>2. CASE pc = "unclaim"
    BY <1>0, <1>1, <1>2, <2>2
    DEF Control, Reservation, Publication, Deletion, Reserving, Publishing, Durable
  <2> QED
    BY <1>0, <2>1, <2>2
<1> QED
  BY <1>0, <1>1, <1>2, IdleControl DEF IInv, Typed, Locals

LEMMA RemoveTreeInv ==
  ASSUME IInv, removeTree
  PROVE  IInv'
<1> DEFINE t == tree[name].now
           vs == Removals(t)
<1>0. /\ pc = "tree" /\ UNCHANGED <<fresh, drawn, made>> /\ hold(name, vs, "rmdir")
      /\ Synced(registry) /\ rec.mode = "deleting" /\ name # None /\ rec.inode = name
  BY DEF removeTree, IInv, Control, Deletion
<1>1. name \in Inode /\ t \in Tree /\ Evident(t)
  BY <1>0, Found DEF IInv, Disk
<1>2. \A s : Evident(s) => Suits(name, s)
  BY <1>0 DEF Suits, Synced, rec
<1>3. vs \in Seq(Tree) /\ Len(vs) = 4 /\ \A k \in 1..4 : Evident(vs[k])
  <2> DEFINE v1 == [t EXCEPT !.revisions = EmptyTree.revisions]
             v2 == [t EXCEPT !.revisions = EmptyTree.revisions, !.evidence = "absent", !.applied = None]
             v3 == [EmptyTree EXCEPT !.config = t.config]
  <2>1. v1 \in Tree /\ Evident(v1)
    BY <1>1 DEF Tree, EmptyTree, Evident
  <2>2. v2 \in Tree /\ Evident(v2)
    BY <1>1 DEF Tree, File, EmptyTree, Evident
  <2>3. v3 \in Tree /\ Evident(v3)
    BY <1>1 DEF Tree, File, EmptyTree, Evident
  <2>4. EmptyTree \in Tree /\ Evident(EmptyTree)
    BY DEF Tree, File, EmptyTree, Evident
  <2>5. vs = <<v1, v2, v3, EmptyTree>>
    BY DEF Removals
  <2> HIDE DEF v1, v2, v3, vs
  <2>6. vs \in Seq(Tree) /\ Len(vs) = 4 /\ vs[1] = v1 /\ vs[2] = v2 /\ vs[3] = v3 /\ vs[4] = EmptyTree
    BY <2>1, <2>2, <2>3, <2>4, <2>5
  <2>7. \A k \in 1..4 : k = 1 \/ k = 2 \/ k = 3 \/ k = 4
    OBVIOUS
  <2>8. \A k \in 1..4 : Evident(vs[k])
    <3>1. SUFFICES ASSUME NEW k \in 1..4 PROVE Evident(vs[k])
      OBVIOUS
    <3> QED
      BY <2>1, <2>2, <2>3, <2>4, <2>6, <2>7
  <2> QED
    BY <2>6, <2>8
<1> HIDE DEF vs
<1>4. /\ DiskTyped' /\ Disk' /\ faults' \in 0..MaxFaults
      /\ UNCHANGED <<registry, container, claims>>
      /\ pc' = "idle" \/ pc' = "rmdir"
  <2>1. Len(vs) > 0 /\ \A k \in 1..Len(vs) : Suits(name, vs[k])
    BY <1>2, <1>3
  <2> QED
    BY <1>0, <1>1, <1>3, <2>1, HoldStep
<1>5. ASSUME pc' = "rmdir"
      PROVE  Control'
  BY <1>0, <1>4, <1>5
  DEF Control, Reservation, Publication, Deletion, Reserving, Publishing, Synced, rec, name
<1> QED
  BY <1>0, <1>4, <1>5, IdleControl DEF IInv, Typed, Locals

LEMMA RemoveDirectoryInv ==
  ASSUME IInv, removeDirectory
  PROVE  IInv'
<1> DEFINE c == [container.now EXCEPT !.name = None]
<1>0. /\ pc = "rmdir" /\ UNCHANGED <<fresh, drawn, made>>
      /\ Synced(registry) /\ rec.mode = "deleting" /\ name # None /\ rec.inode = name
  BY DEF removeDirectory, IInv, Control, Deletion
<1>1. c \in Entry /\ c.name = None /\ c.stage = None
  BY <1>0, Found DEF Entry, Accounted, name
<1>2. \A r \in registry.may : Accounted(r, c)
  BY <1>0, <1>1 DEF Accounted, Synced, rec
<1>3. place(c, "unclaim")
  BY DEF removeDirectory
<1> HIDE DEF c
<1>4. /\ DiskTyped' /\ Disk' /\ faults' \in 0..MaxFaults
      /\ UNCHANGED <<registry, tree, claims>>
      /\ pc' = "idle" \/ (pc' = "unclaim" /\ container' = Durable(c))
  BY <1>1, <1>2, <1>3, PlaceStep
<1>5. ASSUME pc' = "unclaim", container' = Durable(c)
      PROVE  Control'
  BY <1>1, <1>5
  DEF Control, Reservation, Publication, Deletion, Reserving, Publishing, Durable
<1> QED
  BY <1>0, <1>4, <1>5, IdleControl DEF IInv, Typed, Locals

LEMMA SyncAbsentDirectoryInv ==
  ASSUME IInv, syncAbsentDirectory
  PROVE  IInv'
<1>0. /\ pc = "absent" /\ UNCHANGED <<fresh, drawn, made>> /\ name = None /\ stage = None
      /\ syncContainer("unclaim")
  BY DEF syncAbsentDirectory, IInv, Control, Deletion
<1>1. /\ DiskTyped' /\ Disk' /\ faults' \in 0..MaxFaults
      /\ UNCHANGED <<registry, tree, claims>>
      /\ pc' = "unclaim" /\ container' = Durable(container.now)
  BY <1>0, SyncContainerStep
<1>2. Control'
  BY <1>0, <1>1
  DEF Control, Reservation, Publication, Deletion, Reserving, Publishing, Durable, name, stage
<1> QED
  BY <1>0, <1>1, <1>2 DEF IInv, Typed, Locals

LEMMA ForgetNameInv ==
  ASSUME IInv, forgetName
  PROVE  IInv'
<1>0. /\ pc = "forget" /\ UNCHANGED <<fresh, drawn, made>> /\ save(NoRecord, "idle")
      /\ "sure" \notin claims.may /\ \A c \in container.may : c.name = None /\ c.stage = None
  BY DEF forgetName, IInv, Control, Deletion
<1>1. NoRecord \in Record /\ NoRecord.mode = "none" /\ NoRecord.inode = None
  BY DEF NoRecord, Record, Mode
<1>2. Fine(NoRecord)
  BY <1>0, <1>1 DEF Fine, Accounted
<1>3. NoneReady
  BY <1>0, Found DEF NoneReady, IInv, Disk, Fine, Accounted
<1>4. DiskTyped' /\ Disk' /\ faults' \in 0..MaxFaults /\ pc' = "idle"
  BY <1>0, <1>1, <1>2, <1>3, SaveStep
<1> QED
  BY <1>0, <1>4, IdleControl DEF IInv, Typed, Locals

-----------------------------------------------------------------------------
(* What else happens. *)

LEMMA OperateInv ==
  ASSUME IInv, Operate
  PROVE  IInv'
<1> DEFINE s == tree[name].now
           t == [s EXCEPT !.applied = IF @ = None THEN rec.revision ELSE None]
<1>0. /\ pc' = "idle" /\ UNCHANGED <<registry, container, claims, fresh, drawn, made, faults>>
      /\ rec.mode = "ready" /\ rec.revision # None /\ s.evidence = "whole"
      /\ tree' = [tree EXCEPT ![name] = Durable(t)]
  BY DEF Operate
<1>1. /\ name \in Inode /\ s \in Tree /\ s \in tree[name].may /\ rec.inode = name
      /\ rec.revision \in Revision \union {None} /\ Fine(rec)
  BY <1>0, Found DEF Record
<1>2. /\ t \in Tree /\ t.reservation = s.reservation /\ t.config = s.config
      /\ t.evidence = s.evidence /\ t.revisions = s.revisions
      /\ t.applied \in {None, rec.revision}
  BY <1>1 DEF Tree
<1> HIDE DEF s, t
<1>3. s.reservation = "whole" /\ s.revisions[rec.revision] = "whole"
  BY <1>0, <1>1 DEF Fine, Whole
<1>4. Suits(name, t)
  <2>1. Evident(t)
    BY <1>0, <1>2 DEF Evident
  <2>2. ASSUME NEW r \in registry.may, r.mode = "ready", r.inode = name
        PROVE  Whole(t, r.revision)
    <3>1. Whole(s, r.revision)
      BY <1>1, <2>2 DEF IInv, Disk, Fine
    <3> QED
      BY <1>2, <1>3, <3>1 DEF Whole
  <2> QED
    BY <1>2, <1>3, <2>1, <2>2 DEF Suits
<1>5. Durable(t) \in Versions(Tree) /\ Durable(t).now = t /\ Durable(t).may = {t}
  BY <1>2, DurableVersions
<1>6. DiskTyped' /\ Disk'
  BY <1>0, <1>1, <1>4, <1>5, TreeStep
<1> QED
  BY <1>0, <1>6, IdleControl DEF IInv, Typed, Locals

LEMMA BindInv ==
  ASSUME IInv, Bind
  PROVE  IInv'
<1> DEFINE claim == IF Synced(registry) THEN "sure" ELSE "unsure"
<1>0. /\ pc' = "idle" /\ UNCHANGED <<registry, container, tree, fresh, drawn, made, faults>>
      /\ rec.mode = "ready" /\ claims' = Durable(claim)
  BY DEF Bind
<1>1. claim \in Claim
  BY DEF Claim
<1>2. claims' \in Versions(Claim) /\ claims'.now = claim /\ claims'.may = {claim}
  BY <1>0, <1>1, DurableVersions
<1>3. "sure" \in claims'.may => \A r \in registry.may : r.mode \in {"ready", "deleting"}
  BY <1>0, <1>2 DEF Synced, rec
<1>4. DiskTyped' /\ Disk'
  BY <1>0, <1>2, <1>3, ClaimsStep
<1> QED
  BY <1>0, <1>4, IdleControl DEF IInv, Typed, Locals

LEMMA StopInv ==
  ASSUME IInv, Stop
  PROVE  IInv'
<1>1. UNCHANGED disk /\ UNCHANGED <<fresh, drawn, made>> /\ pc' = "idle" /\ faults' \in 0..MaxFaults
  BY BoundAssumption DEF Stop, Fails, IInv, Typed, Locals
<1> QED
  BY <1>1, SameDisk, IdleControl DEF IInv, Typed, Locals

LEMMA PowerLossInv ==
  ASSUME IInv, PowerLoss
  PROVE  IInv'
<1>0. pc' = "idle" /\ UNCHANGED <<fresh, drawn, made>> /\ faults' \in 0..MaxFaults
  BY BoundAssumption DEF PowerLoss, IInv, Typed, Locals
<1>1. PICK r \in registry.may, c \in container.may, h \in claims.may :
        registry' = Durable(r) /\ container' = Durable(c) /\ claims' = Durable(h)
  BY DEF PowerLoss
<1>2. PICK t \in [Inode -> UNION {tree[i].may : i \in Inode}] :
        /\ \A i \in Inode : t[i] \in tree[i].may
        /\ tree' = [i \in Inode |-> Durable(t[i])]
  BY DEF PowerLoss
<1>3. r \in Record /\ c \in Entry /\ h \in Claim /\ \A i \in Inode : t[i] \in Tree
  BY <1>1, <1>2 DEF IInv, Typed, DiskTyped, Versions
<1>4. /\ registry' \in Versions(Record) /\ registry'.now = r /\ registry'.may = {r}
      /\ container' \in Versions(Entry) /\ container'.now = c /\ container'.may = {c}
      /\ claims' \in Versions(Claim) /\ claims'.now = h /\ claims'.may = {h}
  BY <1>1, <1>3, DurableVersions
<1>5. /\ tree' \in [Inode -> Versions(Tree)]
      /\ \A i \in Inode : tree'[i].now = t[i] /\ tree'[i].may = {t[i]}
  BY <1>2, <1>3, DurableVersions
<1>6. DiskTyped'
  BY <1>4, <1>5 DEF DiskTyped
<1>7. Fine(r) /\ Accounted(r, c)
  BY <1>1 DEF IInv, Disk, Fine
<1>8. Accounted(r, c)'
  <2>1. c.name # None => c.name \in Inode
    BY <1>3 DEF Entry
  <2>2. c.name # None /\ AllReserved(c.name) => AllReserved(c.name)'
    BY <1>2, <1>5, <2>1 DEF AllReserved
  <2> QED
    BY <1>7, <2>2 DEF Accounted
<1>9. r.mode = "ready" => \A s \in tree'[r.inode].may : Whole(s, r.revision)
  <2>1. r.mode = "ready" => r.inode \in Inode
    BY <1>3, <1>7 DEF Accounted, Entry
  <2> QED
    BY <1>2, <1>5, <1>7, <2>1 DEF Fine
<1>10. Fine(r)'
  BY <1>1, <1>4, <1>7, <1>8, <1>9 DEF Fine
<1>11. \A i \in Inode : \A s \in tree'[i].may : Evident(s)
  BY <1>2, <1>5 DEF IInv, Disk
<1>12. Disk'
  BY <1>4, <1>10, <1>11 DEF Disk, NoneReady, rec
<1> QED
  BY <1>0, <1>6, <1>12, IdleControl DEF IInv, Typed, Locals

LEMMA InitInv ==
  ASSUME Init
  PROVE  IInv
<1> DEFINE c == [name |-> None, stage |-> None]
<1>1. /\ NoRecord \in Record /\ c \in Entry /\ EmptyTree \in Tree /\ "none" \in Claim
      /\ NoRecord.mode = "none" /\ Evident(EmptyTree)
  BY DEF NoRecord, Record, Mode, Entry, EmptyTree, Tree, File, Claim, Evident
<1>2. /\ registry \in Versions(Record) /\ registry.now = NoRecord /\ registry.may = {NoRecord}
      /\ container \in Versions(Entry) /\ container.now = c /\ container.may = {c}
      /\ claims \in Versions(Claim) /\ claims.now = "none" /\ claims.may = {"none"}
  BY <1>1, DurableVersions DEF Init
<1>3. /\ tree \in [Inode -> Versions(Tree)]
      /\ \A i \in Inode : tree[i].now = EmptyTree /\ tree[i].may = {EmptyTree}
  BY <1>1, DurableVersions DEF Init
<1>4. Typed
  <2>1. DiskTyped
    BY <1>2, <1>3 DEF DiskTyped
  <2>2. Locals
    <3>1. fresh \in BOOLEAN
      BY DEF Init
    <3>2. drawn \in Revision \union {None}
      BY DEF Init
    <3>3. made \in 0..MaxInode /\ faults \in 0..MaxFaults
      <4>1. made = 0 /\ faults = 0
        BY DEF Init
      <4> QED
        BY <4>1, BoundAssumption
    <3> QED
      BY <3>1, <3>2, <3>3 DEF Locals
  <2> QED
    BY <2>1, <2>2 DEF Typed
<1>5. Disk
  BY <1>1, <1>2, <1>3 DEF Disk, Fine, Accounted, NoneReady, rec
<1>6. Control
  BY DEF Init, Control, Reservation, Publication, Deletion, Reserving, Publishing
<1> QED
  BY <1>4, <1>5, <1>6 DEF IInv

LEMMA StepInv ==
  ASSUME IInv, [Next]_vars
  PROVE  IInv'
<1>1. CASE InitNext
  BY <1>1, BeginInitInv, ReserveContextNameInv, CollectInitializationStagesInv, OpenContextReservationInv,
     CreateStageInv, WriteReservationInv, PublishDirectoryInv, AttributeInv, RecordIdentityInv,
     WriteConfigInv, WriteEvidenceInv DEF InitNext
<1>2. CASE PublishNext
  BY <1>2, BeginUpdateInv, NewRevisionInv, ReclaimRevisionsInv, WriteManifestInv, SyncTreeInv,
     SyncEntryInv, CommitInv, CollectRevisionsInv DEF PublishNext
<1>3. CASE DeleteNext
  BY <1>3, BeginDeleteInv, EstablishDeletionInv, LocateDirectoryInv, MarkDeletingInv, ReleaseClaimsInv,
     RemoveTreeInv, RemoveDirectoryInv, SyncAbsentDirectoryInv, ForgetNameInv DEF DeleteNext
<1>4. CASE UNCHANGED vars
  <2>1. UNCHANGED disk /\ UNCHANGED <<pc, fresh, drawn, made, faults>>
    BY <1>4 DEF vars, disk
  <2>2. Control'
    <3>1. Control /\ UNCHANGED <<registry, container, tree, claims>>
      BY <2>1 DEF disk, IInv
    <3>2. Reservation'
      BY <2>1, <3>1 DEF Control, Reservation, rec, name, stage, Synced, AllReserved
    <3>3. Publication'
      BY <2>1, <3>1 DEF Control, Publication, rec, name, Synced
    <3>4. Deletion'
      BY <2>1, <3>1 DEF Control, Deletion, rec, name, stage, Synced
    <3> QED
      BY <3>2, <3>3, <3>4 DEF Control
  <2> QED
    BY <2>1, <2>2, SameDisk DEF IInv, Typed, Locals
<1> QED
  BY <1>1, <1>2, <1>3, <1>4, OperateInv, BindInv, StopInv, PowerLossInv DEF Next

-----------------------------------------------------------------------------
(***************************************************************************)
(* Whatever an initialization, an update and a deletion do, wherever they  *)
(* stop, and at every loss of power, every version the disk may be left in *)
(* fits every other, and the command under the root lock finds what its    *)
(* next step relies on.                                                    *)
(***************************************************************************)
THEOREM Inductive == Spec => []IInv
<1>1. Init => IInv
  BY InitInv
<1>2. IInv /\ [Next]_vars => IInv'
  BY StepInv
<1> QED
  BY <1>1, <1>2, PTL DEF Spec

(***************************************************************************)
(* The registry, the container, the directories and the claims keep their  *)
(* types, and so do the command's own variables.                           *)
(***************************************************************************)
THEOREM ContextTyped == Spec => []TypeOK
<1>1. IInv => TypeOK
  BY Found DEF IInv, Typed, DiskTyped, Locals, Versions, TypeOK, rec
<1> QED
  BY <1>1, Inductive, PTL

(***************************************************************************)
(* A context that reads ready has its directory, reservation,              *)
(* configuration, evidence, the revision it selects and the one an         *)
(* operation was planned from, whole (Commit, collectRevisions,            *)
(* markDeleting).                                                          *)
(***************************************************************************)
THEOREM ContextWhole == Spec => []ReadyWhole
<1>1. ASSUME IInv, rec.mode = "ready"
      PROVE  ReadyWhole
  <2>1. name # None /\ rec.inode = name /\ tree[name].now \in tree[name].may /\ Fine(rec)
    BY <1>1, Found
  <2>2. Whole(tree[name].now, rec.revision)
    BY <1>1, <2>1 DEF Fine
  <2> QED
    BY <2>1, <2>2 DEF ReadyWhole, Mapped, Whole
<1>2. IInv => ReadyWhole
  BY <1>1 DEF ReadyWhole
<1> QED
  BY <1>2, Inductive, PTL

(***************************************************************************)
(* No command finds a name stranded: a directory at the name is its        *)
(* record's or attributed by its reservation, a recorded directory is      *)
(* there unless it is being deleted, and a stage has an initialization     *)
(* (reserveContextName, Reserve, syncAbsentDirectory).                     *)
(***************************************************************************)
THEOREM NameAccounted == Spec => []DirectoryAccounted
<1>1. IInv => DirectoryAccounted
  <2>1. SUFFICES ASSUME IInv PROVE DirectoryAccounted
    OBVIOUS
  <2>2. Accounted(rec, container.now) /\ (name # None => tree[name].now \in tree[name].may)
    BY <2>1, Found
  <2>3. name # None /\ AllReserved(name) => Reserved
    BY <2>2 DEF AllReserved, Reserved
  <2> QED
    BY <2>2, <2>3 DEF Accounted, DirectoryAccounted, Absent, name, stage
<1> QED
  BY <1>1, Inductive, PTL

(***************************************************************************)
(* A claim made for a durably ready context is held for an absent or       *)
(* initializing one only when a deletion stopped between renaming the      *)
(* controller record without it and syncing it: the drops before the tree  *)
(* goes and before the name is forgotten, whether they publish or find     *)
(* nothing to publish, leave no other behind (releaseClaims, forgetName).  *)
(***************************************************************************)
THEOREM ClaimsKept == Spec => []OnlyLeftClaimDangles
<1>1. IInv => OnlyLeftClaimDangles
  <2>1. SUFFICES ASSUME IInv PROVE OnlyLeftClaimDangles
    OBVIOUS
  <2>2. claims.now \in claims.may /\ Fine(rec)
    BY <2>1, Found DEF IInv, Typed, DiskTyped
  <2> QED
    BY <2>2 DEF Fine, OnlyLeftClaimDangles
<1> QED
  BY <1>1, Inductive, PTL
=============================================================================
