---------------------------- MODULE ContextStore ----------------------------
(***************************************************************************)
(* One context name of the store (internal/workspace/contextfs): the       *)
(* registry record that reserves it, the directory it names, what that     *)
(* directory holds, and the claims the controller record keeps for it,     *)
(* over every initialization, update and deletion, each of which may stop  *)
(* at any step, and every loss of power.                                   *)
(*                                                                         *)
(* A change is visible at once and durable once its directory was synced.  *)
(* Each of the four is therefore what is visible and what a power loss may *)
(* leave: the versions since the last sync. Every command holds the root   *)
(* lock from its first step to its last, so what another command finds is  *)
(* where a step stopped: before its change, at a version of it, or after   *)
(* the sync that ends it.                                                  *)
(***************************************************************************)
EXTENDS Integers, Sequences, FiniteSets

CONSTANTS
  Revision,       \* the revision IDs a publication may draw
  MaxRevisions,   \* maxRevisions: revisions a context retains
  MaxInode,       \* bound on the directories ever created at the name
  MaxFaults       \* bound on stopped commands and power losses

ASSUME BoundAssumption ==
  /\ Revision \subseteq Nat \ {0}
  /\ MaxRevisions \in Nat /\ MaxInode \in Nat /\ MaxFaults \in Nat

None == 0
Inode == 1..MaxInode

Mode == {"none", "initializing", "ready", "deleting"}
Record == [mode: Mode, inode: Inode \union {None}, revision: Revision \union {None}]
NoRecord == [mode |-> "none", inode |-> None, revision |-> None]

\* A file written in place is torn until its bytes are synced; a revision
\* is partial until its manifest is. `applied' is the revision an
\* operation recorded in the context was planned from.
File == {"absent", "torn", "whole"}
Tree == [reservation: File, config: File, evidence: File,
         revisions: [Revision -> {"absent", "partial", "whole"}],
         applied: Revision \union {None}]
EmptyTree == [reservation |-> "absent", config |-> "absent", evidence |-> "absent",
              revisions |-> [r \in Revision |-> "absent"], applied |-> None]

\* A claim is sure when the ready record it was made for was durable, and
\* left once a deletion that renamed the record without it stopped before
\* the sync: the code cannot tell the two apart, the properties can.
Claim == {"none", "sure", "unsure", "left"}

VARIABLES
  registry,    \* registry.json: the name's record
  container,   \* contexts/: the directory at the name, and an initialization's stage
  tree,        \* what each directory holds
  claims,      \* controller/: the binding and reservations held for the name
  pc,          \* the step the command under the root lock takes next
  fresh,       \* the initialization reserved the name itself
  drawn,       \* the revision the command publishes
  made,        \* directories created so far
  faults

disk == <<registry, container, tree, claims>>
vars == <<registry, container, tree, claims, pc, fresh, drawn, made, faults>>

Durable(v) == [now |-> v, may |-> {v}]

\* Where a change of d through the versions vs may stop.
Interrupted(d, vs) ==
  {[now |-> vs[k], may |-> d.may \union {vs[i] : i \in 1..k}] : k \in DOMAIN vs}

Synced(d) == d.may = {d.now}

Init ==
  /\ registry = Durable(NoRecord)
  /\ container = Durable([name |-> None, stage |-> None])
  /\ tree = [i \in Inode |-> Durable(EmptyTree)]
  /\ claims = Durable("none")
  /\ pc = "idle" /\ fresh = FALSE /\ drawn = None /\ made = 0 /\ faults = 0

rec == registry.now
name == container.now.name
stage == container.now.stage

-----------------------------------------------------------------------------
(* Effects. Each one goes on once it is durable, or stops its command. *)

Fails == faults < MaxFaults /\ faults' = faults + 1 /\ pc' = "idle"
Continues(next) == pc' = next /\ UNCHANGED faults

\* save: the registry is renamed into place and the root synced.
save(r, next) ==
  /\ \/ registry' = Durable(r) /\ Continues(next)
     \/ registry' \in Interrupted(registry, <<r>>) /\ Fails
  /\ UNCHANGED <<container, tree, claims>>

\* syncIntent: an interrupted rename may be visible without being durable.
syncIntent(next) ==
  /\ registry' = Durable(rec) /\ Continues(next)
  /\ UNCHANGED <<container, tree, claims>>

\* An entry of contexts/ is made, renamed or removed, and the container synced.
place(c, next) ==
  /\ \/ container' = Durable(c) /\ Continues(next)
     \/ container' \in Interrupted(container, <<c>>) /\ Fails
  /\ UNCHANGED <<registry, tree, claims>>

syncContainer(next) ==
  /\ container' = Durable(container.now) /\ Continues(next)
  /\ UNCHANGED <<registry, tree, claims>>

\* What a directory holds changes through the versions vs, the last one synced.
\* A walk that removes entries syncs each removal; taking only the last for
\* synced leaves more to a power loss.
hold(i, vs, next) ==
  /\ \/ tree' = [tree EXCEPT ![i] = Durable(vs[Len(vs)])] /\ Continues(next)
     \/ /\ \E d \in Interrupted(tree[i], vs) : tree' = [tree EXCEPT ![i] = d]
        /\ Fails
  /\ UNCHANGED <<registry, container, claims>>

\* writeExclusive, whose failure after creation discards the file it created.
writeExclusive(i, torn, whole, next) ==
  \/ hold(i, <<torn, whole>>, next)
  \/ /\ tree' = [tree EXCEPT ![i].may = @ \union {torn, whole}]
     /\ Fails
     /\ UNCHANGED <<registry, container, claims>>

\* Mutant: the claims are dropped without syncing the controller's directory.
dropContextClaimsUnsynced(next) ==
  /\ claims' = [now |-> "none", may |-> claims.may \union {"none"}] /\ Continues(next)
  /\ UNCHANGED <<registry, container, tree>>

\* The claims visible before and after a rename that was not synced.
Left == [now |-> "none", may |-> {"none"} \union {IF c = "sure" THEN "left" ELSE c : c \in claims.may}]

\* The record is published only when it differs from the one read: claims
\* already gone from it are synced only with a tool area that retires.
dropContextClaims(next) ==
  /\ \/ claims' = Durable("none") /\ Continues(next)
     \/ claims.now = "none" /\ claims' = claims /\ Continues(next)
     \/ claims.now # "none" /\ claims' = Left /\ Fails
  /\ UNCHANGED <<registry, container, tree>>

\* A command stops without a change: a refusal, an error, a cancellation or a kill.
Refuses == pc' = "idle" /\ UNCHANGED <<disk, faults>>
Skips(next) == pc' = next /\ UNCHANGED <<disk, faults>>

-----------------------------------------------------------------------------
(* What a transaction verifies before it begins. *)

\* validateControllerReferences, which every transaction runs.
Referenced == claims.now # "none" => rec.mode \in {"ready", "deleting"}

\* verifyContextMapping and openManifest of a ready context.
Mapped ==
  /\ name # None /\ name = rec.inode
  /\ tree[name].now.reservation = "whole" /\ tree[name].now.config = "whole"
  /\ rec.revision # None => tree[name].now.revisions[rec.revision] = "whole"

Verified == Referenced /\ (rec.mode = "ready" => Mapped)

\* verifyReservation: only its reservation attributes an unrecorded directory.
Reserved == tree[name].now.reservation = "whole"

-----------------------------------------------------------------------------
(* Initialization: Reserve, Publish and Commit. *)

BeginInit ==
  /\ pc = "idle" /\ Verified /\ rec.mode \in {"none", "initializing"}
  /\ fresh' = (rec.mode = "none") /\ drawn' = None
  /\ Skips("reserve")
  /\ UNCHANGED made

reserveContextName ==
  /\ pc = "reserve"
  /\ IF fresh THEN save([NoRecord EXCEPT !.mode = "initializing"], "stages")
              ELSE syncIntent("stages")
  /\ UNCHANGED <<fresh, drawn, made>>

collectInitializationStages ==
  /\ pc \in {"stages", "delete stages"}
  /\ LET next == IF pc = "stages" THEN "open" ELSE "locate"
     IN IF stage # None THEN place([container.now EXCEPT !.stage = None], next) ELSE Skips(next)
  /\ UNCHANGED <<fresh, drawn, made>>

openContextReservation ==
  /\ pc = "open"
  /\ CASE name = None /\ rec.inode = None -> Skips("stage")
       [] name # None /\ ~ fresh /\ rec.inode \in {None, name} /\ Reserved ->
            Skips(IF rec.inode = None THEN "attribute" ELSE "config")
       [] OTHER -> Refuses
  /\ UNCHANGED <<fresh, drawn, made>>

(* createContextDirectory: a stage, its reservation, and the rename. *)
createStage ==
  /\ pc = "stage" /\ made < MaxInode
  /\ made' = made + 1
  /\ place([container.now EXCEPT !.stage = made + 1], "reservation")
  /\ UNCHANGED <<fresh, drawn>>

writeReservation ==
  /\ pc = "reservation"
  /\ hold(stage, <<[EmptyTree EXCEPT !.reservation = "torn"], [EmptyTree EXCEPT !.reservation = "whole"]>>, "publish")
  /\ UNCHANGED <<fresh, drawn, made>>

publishDirectory ==
  /\ pc = "publish"
  /\ place([name |-> stage, stage |-> None], "attribute")
  /\ UNCHANGED <<fresh, drawn, made>>

\* Mutant: the identity is recorded while the entry that bears it is not durable.
attributeUnsynced ==
  /\ pc = "attribute"
  /\ Skips("record")
  /\ UNCHANGED <<fresh, drawn, made>>

(* Reserve: the container is durable before the registry names the directory. *)
attribute ==
  /\ pc = "attribute"
  /\ syncContainer("record")
  /\ UNCHANGED <<fresh, drawn, made>>

recordIdentity ==
  /\ pc = "record"
  /\ save([rec EXCEPT !.inode = name], "config")
  /\ UNCHANGED <<fresh, drawn, made>>

(* populateContextReservation: what an earlier initialization left is kept *)
(* when it is what this one would write.                                   *)
writeConfig ==
  /\ pc = "config"
  /\ LET t == tree[name].now
     IN CASE t.config = "absent" ->
               writeExclusive(name, [t EXCEPT !.config = "torn"], [t EXCEPT !.config = "whole"], "evidence")
          [] t.config = "whole"  -> Skips("evidence")
          [] OTHER               -> Refuses
  /\ UNCHANGED <<fresh, drawn, made>>

writeEvidence ==
  /\ pc = "evidence"
  /\ LET t == tree[name].now
     IN CASE t.evidence = "absent" ->
               \E next \in {"revision", "snapshot"} :
                 writeExclusive(name, [t EXCEPT !.evidence = "torn"], [t EXCEPT !.evidence = "whole"], next)
          [] t.evidence = "whole" /\ t.applied = None ->
               \E next \in {"revision", "snapshot"} : Skips(next)
          [] OTHER -> Refuses
  /\ UNCHANGED <<fresh, drawn, made>>

-----------------------------------------------------------------------------
(* Publication of an input revision, by an initialization or an update. *)

Retained == {r \in Revision : tree[name].now.revisions[r] # "absent"}
Unselected == Retained \ {rec.revision}

BeginUpdate ==
  /\ pc = "idle" /\ Verified /\ rec.mode = "ready"
  /\ fresh' = FALSE /\ drawn' = None
  /\ Skips("revision")
  /\ UNCHANGED made

\* collectRevision: the revision's files go first, its directory last.
collectRevision(r, next) ==
  LET t == tree[name].now
  IN hold(name, <<[t EXCEPT !.revisions[r] = "partial"], [t EXCEPT !.revisions[r] = "absent"]>>, next)

\* Mutant: any context's unselected revisions are collected.
CollectableAlways == Unselected

\* collectRevisions: only pristine evidence proves no operation needs one.
Collectable == IF tree[name].now.applied = None THEN Unselected ELSE {}

(* Publish: a full tree is reclaimed once the selection that spares a     *)
(* revision is durable.                                                    *)
newRevision ==
  /\ pc = "revision"
  /\ IF Cardinality(Retained) < MaxRevisions
       THEN \E r \in Revision \ Retained :
              /\ drawn' = r
              /\ hold(name, <<[tree[name].now EXCEPT !.revisions[r] = "partial"]>>, "manifest")
       ELSE syncIntent("reclaim") /\ UNCHANGED drawn
  /\ UNCHANGED <<fresh, made>>

reclaimRevisions ==
  /\ pc = "reclaim"
  /\ IF Collectable # {} THEN \E r \in Collectable : collectRevision(r, "reclaim")
     ELSE IF Cardinality(Retained) < MaxRevisions THEN Skips("revision") ELSE Refuses
  /\ UNCHANGED <<fresh, drawn, made>>

writeManifest ==
  /\ pc = "manifest"
  /\ hold(name, <<[tree[name].now EXCEPT !.revisions[drawn] = "whole"]>>, "snapshot")
  /\ UNCHANGED <<fresh, drawn, made>>

\* Mutant: a file a stopped initialization left is taken for durable.
syncTreeNever ==
  /\ pc = "snapshot"
  /\ Skips(IF rec.mode = "initializing" THEN "entry" ELSE "commit")
  /\ UNCHANGED <<fresh, drawn, made>>

(* Commit: an initializing context's whole tree and then its entry are made *)
(* durable before the registry reads ready.                                 *)
syncTree ==
  /\ pc = "snapshot"
  /\ IF rec.mode = "initializing"
       THEN /\ tree' = [tree EXCEPT ![name] = Durable(@.now)]
            /\ Continues("entry") /\ UNCHANGED <<registry, container, claims>>
       ELSE Skips("commit")
  /\ UNCHANGED <<fresh, drawn, made>>

syncEntry ==
  /\ pc = "entry"
  /\ syncContainer("commit")
  /\ UNCHANGED <<fresh, drawn, made>>

Commit ==
  /\ pc = "commit"
  /\ save([rec EXCEPT !.mode = "ready", !.revision = IF drawn # None THEN drawn ELSE @], "collect")
  /\ UNCHANGED <<fresh, drawn, made>>

collectRevisions ==
  /\ pc = "collect"
  /\ IF Collectable = {} THEN Skips("idle")
     ELSE \E r \in Collectable : collectRevision(r, "collect")
  /\ UNCHANGED <<fresh, drawn, made>>

-----------------------------------------------------------------------------
(* Deletion. It leaves its own context's mapping unverified. *)

BeginDelete ==
  /\ pc = "idle" /\ Referenced /\ rec.mode # "none"
  /\ Skips(CASE rec.mode = "deleting"     -> "intent"
             [] rec.mode = "initializing" -> "delete stages"
             [] OTHER                     -> "locate")
  /\ UNCHANGED <<fresh, drawn, made>>

establishDeletion ==
  /\ pc = "intent"
  /\ syncIntent("locate")
  /\ UNCHANGED <<fresh, drawn, made>>

Absent == rec.mode = "deleting" \/ (rec.mode = "initializing" /\ rec.inode = None)

locateDirectory ==
  /\ pc = "locate"
  /\ CASE name = None /\ Absent -> Skips("absent")
       [] name # None /\ name = rec.inode ->
            Skips(IF rec.mode = "deleting" THEN "claims" ELSE "mark")
       [] name # None /\ rec.inode = None /\ Reserved -> syncContainer("mark")
       [] OTHER -> Refuses
  /\ UNCHANGED <<fresh, drawn, made>>

markDeleting ==
  /\ pc = "mark"
  /\ save([rec EXCEPT !.mode = "deleting", !.inode = name], "claims")
  /\ UNCHANGED <<fresh, drawn, made>>

releaseClaims ==
  /\ pc \in {"claims", "unclaim"}
  /\ dropContextClaims(IF pc = "claims" THEN "tree" ELSE "forget")
  /\ UNCHANGED <<fresh, drawn, made>>

(* deletionOrder: the input, the state with its reservation last, and the  *)
(* configuration, every removal synced.                                    *)
Removals(t) ==
  << [t EXCEPT !.revisions = EmptyTree.revisions],
     [t EXCEPT !.revisions = EmptyTree.revisions, !.evidence = "absent", !.applied = None],
     [EmptyTree EXCEPT !.config = t.config],
     EmptyTree >>

removeTree ==
  /\ pc = "tree"
  /\ hold(name, Removals(tree[name].now), "rmdir")
  /\ UNCHANGED <<fresh, drawn, made>>

removeDirectory ==
  /\ pc = "rmdir"
  /\ place([container.now EXCEPT !.name = None], "unclaim")
  /\ UNCHANGED <<fresh, drawn, made>>

\* Mutant: a directory found gone is taken for durably gone.
syncAbsentDirectoryVisible ==
  /\ pc = "absent"
  /\ Skips("unclaim")
  /\ UNCHANGED <<fresh, drawn, made>>

syncAbsentDirectory ==
  /\ pc = "absent"
  /\ syncContainer("unclaim")
  /\ UNCHANGED <<fresh, drawn, made>>

forgetName ==
  /\ pc = "forget"
  /\ save(NoRecord, "idle")
  /\ UNCHANGED <<fresh, drawn, made>>

-----------------------------------------------------------------------------
(* What else happens to the context. *)

\* An apply and its removal, whose own records are those of Registration.
Operate ==
  /\ pc = "idle" /\ Verified /\ rec.mode = "ready" /\ rec.revision # None
  /\ tree[name].now.evidence = "whole"
  /\ LET t == tree[name].now
     IN tree' = [tree EXCEPT ![name] = Durable([t EXCEPT !.applied = IF @ = None THEN rec.revision ELSE None])]
  /\ UNCHANGED <<registry, container, claims, pc, fresh, drawn, made, faults>>

\* The controller record takes a binding for a ready context.
Bind ==
  /\ pc = "idle" /\ Verified /\ rec.mode = "ready" /\ claims.now = "none"
  /\ claims' = Durable(IF Synced(registry) THEN "sure" ELSE "unsure")
  /\ UNCHANGED <<registry, container, tree, pc, fresh, drawn, made, faults>>

Stop ==
  /\ pc # "idle" /\ Fails
  /\ UNCHANGED <<disk, fresh, drawn, made>>

PowerLoss ==
  /\ pc = "idle" /\ faults < MaxFaults
  /\ \E r \in registry.may, c \in container.may, h \in claims.may :
       registry' = Durable(r) /\ container' = Durable(c) /\ claims' = Durable(h)
  /\ \E t \in [Inode -> UNION {tree[i].may : i \in Inode}] :
       /\ \A i \in Inode : t[i] \in tree[i].may
       /\ tree' = [i \in Inode |-> Durable(t[i])]
  /\ faults' = faults + 1
  /\ UNCHANGED <<pc, fresh, drawn, made>>

InitNext == BeginInit \/ reserveContextName \/ collectInitializationStages \/ openContextReservation
            \/ createStage \/ writeReservation \/ publishDirectory \/ attribute \/ recordIdentity
            \/ writeConfig \/ writeEvidence

PublishNext == BeginUpdate \/ newRevision \/ reclaimRevisions \/ writeManifest
               \/ syncTree \/ syncEntry \/ Commit \/ collectRevisions

DeleteNext == BeginDelete \/ establishDeletion \/ locateDirectory \/ markDeleting \/ releaseClaims
              \/ removeTree \/ removeDirectory \/ syncAbsentDirectory \/ forgetName

Next == InitNext \/ PublishNext \/ DeleteNext \/ Operate \/ Bind \/ Stop \/ PowerLoss

Spec == Init /\ [][Next]_vars

-----------------------------------------------------------------------------
TypeOK ==
  /\ registry.now \in Record /\ registry.may \subseteq Record
  /\ {name, stage} \subseteq Inode \union {None}
  /\ \A i \in Inode : tree[i].now \in Tree /\ tree[i].may \subseteq Tree
  /\ claims.now \in Claim /\ claims.may \subseteq Claim
  /\ fresh \in BOOLEAN /\ drawn \in Revision \union {None} /\ made \in 0..MaxInode /\ faults \in 0..MaxFaults

(***************************************************************************)
(* A context that reads ready is whole, wherever commands stopped and      *)
(* power was lost before: its directory, its reservation, configuration    *)
(* and evidence, the revision it selects and the one an operation in it    *)
(* was planned from (Commit, markDeleting, collectRevisions).              *)
(***************************************************************************)
ReadyWhole ==
  rec.mode = "ready" =>
    /\ Mapped /\ tree[name].now.evidence = "whole"
    /\ LET r == tree[name].now.applied
       IN r # None => tree[name].now.revisions[r] = "whole"

(***************************************************************************)
(* The registry and the container agree on every state a command can find: *)
(* a directory at the name is the one its record names, or one only an     *)
(* initialization's reservation attributes to it, and a recorded directory *)
(* is there unless its deletion is recorded. So no name is stranded: each  *)
(* record can be deleted, and a name without one can be initialized        *)
(* (reserveContextName, Reserve, syncAbsentDirectory).                     *)
(***************************************************************************)
DirectoryAccounted ==
  pc = "idle" =>
    /\ name # None => \/ rec.mode # "none" /\ rec.inode = name
                      \/ rec.mode = "initializing" /\ rec.inode = None /\ Reserved
    /\ name = None => rec.mode = "none" \/ Absent
    /\ stage # None => rec.mode = "initializing"

(***************************************************************************)
(* A claim made for a context whose ready record was durable is never held *)
(* for an absent or initializing one, which every transaction of the whole *)
(* store would refuse (dropContextClaims, Delete).                         *)
(***************************************************************************)
NoDanglingClaim == claims.now \in {"sure", "left"} => rec.mode \in {"ready", "deleting"}

(***************************************************************************)
(* Such a claim outlives its context only where the deletion that dropped  *)
(* it stopped between the rename of the controller record and its sync: no *)
(* other stop, retry and power loss brings one back once the name is       *)
(* forgotten (releaseClaims before forgetName, Bind).                      *)
(***************************************************************************)
OnlyLeftClaimDangles == claims.now = "sure" => rec.mode \in {"ready", "deleting"}
=============================================================================
