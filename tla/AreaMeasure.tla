----------------------------- MODULE AreaMeasure -----------------------------
(***************************************************************************)
(* The cached measurement of an operation area                             *)
(* (contextfs/operations_linux_amd64.go).                                  *)
(*                                                                         *)
(* A caching area scans its subtree once and then counts its own writes.   *)
(* Its writers run beside one another: an attempt's adapter output flushes *)
(* beside the engine's records.  The mutex covers the measurement, not the *)
(* writes, so a write may land while a scan walks the subtree, and a write *)
(* that fails may have landed all the same.                                *)
(*                                                                         *)
(* A record, a log or a directory is a name with a size.  A record has one *)
(* writer at a time, so the proof of what it holds and the write that      *)
(* follows are one step.                                                   *)
(***************************************************************************)
EXTENDS Integers, FiniteSets

CONSTANTS
  Writer, Name,
  MaxSize,          \* bound on the size of an entry, in units of bytes
  MaxEntries, MaxBytes,
  MaxGeneration     \* bound on the scans of a behaviour

Free == "none"   \* no writer

ASSUME MeasureAssumption ==
  /\ IsFiniteSet(Writer) /\ Writer # {} /\ Free \notin Writer /\ IsFiniteSet(Name)
  /\ MaxSize \in Nat /\ MaxEntries \in Nat /\ MaxBytes \in Nat /\ MaxGeneration \in Nat

Absent == -1

VARIABLES
  size,        \* what the subtree holds at each name, or Absent
  valid, generation, entries, bytes,   \* the measurement
  mutex,       \* the writer that scans under the measurement's mutex, or Free
  scan,        \* its walk: the names to visit, what it counted
  step,        \* of each writer: "idle", "asking", "admitted", "landed" or "failed"
  write        \* its write: operation, name, size, generation, change

measure == <<valid, generation, entries, bytes>>
vars == <<size, measure, mutex, scan, step, write>>

Operation == {"create", "replace", "append", "remove"}

NoWrite == [op |-> "none", name |-> "none", size |-> 0, generation |-> 0, entries |-> 0, bytes |-> 0]

NoScan == [left |-> {}, entries |-> 0, bytes |-> 0]

Present == {n \in Name : size[n] # Absent}

\* The units of bytes it holds, each by its name and its place.
Stored == {u \in Name \X (1..MaxSize) : u[2] <= size[u[1]]}
Bytes == Cardinality(Stored)

Init ==
  /\ size \in [Name -> {Absent, 0}] /\ Cardinality(Present) <= MaxEntries
  /\ valid = FALSE /\ generation = 0 /\ entries = 0 /\ bytes = 0
  /\ mutex = Free /\ scan = NoScan
  /\ step = [w \in Writer |-> "idle"] /\ write = [w \in Writer |-> NoWrite]

-----------------------------------------------------------------------------
(* Admission *)

(* WriteExclusive and newDirectory, Replace, Append, RemoveRecord and RemoveDirectory begin. *)
Begin(w, op, n, s) ==
  /\ step[w] = "idle"
  /\ op = "create" => size[n] = Absent
  /\ op \in {"replace", "remove"} => size[n] # Absent
  /\ op = "remove" => s = 0
  /\ \A v \in Writer : step[v] # "idle" /\ write[v].name = n => {op, write[v].op} \subseteq {"create", "append"}
  /\ step' = [step EXCEPT ![w] = "asking"]
  /\ write' = [write EXCEPT ![w] = [NoWrite EXCEPT !.op = op, !.name = n, !.size = s]]
  /\ UNCHANGED <<size, measure, mutex, scan>>

\* What a write asks for: the entry it creates and the bytes it adds.
Added(w) == IF size[write[w].name] = Absent THEN 1 ELSE 0

Grown(w) ==
  IF write[w].op = "replace"
  THEN IF write[w].size > size[write[w].name] THEN write[w].size - size[write[w].name] ELSE 0
  ELSE write[w].size

\* Mutant: the entry the write creates is not counted.
AnswerLate(w, e, b, g) ==
  /\ step' = [step EXCEPT ![w] = IF e > MaxEntries \/ b + Grown(w) > MaxBytes THEN "failed" ELSE "admitted"]
  /\ write' = [write EXCEPT ![w].generation = g]

\* capacity's answer for a measurement: the write is counted into it, or refused.
Answer(w, e, b, g) ==
  /\ step' = [step EXCEPT ![w] = IF e + Added(w) > MaxEntries \/ b + Grown(w) > MaxBytes
                                 THEN "failed" ELSE "admitted"]
  /\ write' = [write EXCEPT ![w].generation = g]

(* capacity over a measurement that stands, and generation for a removal. *)
Admit(w) ==
  /\ step[w] = "asking" /\ mutex = Free
  /\ \/ /\ write[w].op = "remove"
        /\ step' = [step EXCEPT ![w] = "admitted"]
        /\ write' = [write EXCEPT ![w].generation = generation]
     \/ /\ write[w].op # "remove" /\ valid
        /\ Answer(w, entries, bytes, generation)
  /\ UNCHANGED <<size, measure, mutex, scan>>

(* measured takes the mutex and scans where none stands. *)
StartScan(w) ==
  /\ step[w] = "asking" /\ write[w].op # "remove"
  /\ mutex = Free /\ ~ valid /\ generation < MaxGeneration
  /\ mutex' = w
  /\ scan' = [left |-> Name, entries |-> 0, bytes |-> 0]
  /\ UNCHANGED <<size, measure, step, write>>

(* It visits a name, which other writers may create, change or remove before and after. *)
Visit(w) ==
  /\ mutex = w
  /\ \E n \in scan.left :
       scan' = [left    |-> scan.left \ {n},
                entries |-> scan.entries + (IF size[n] = Absent THEN 0 ELSE 1),
                bytes   |-> scan.bytes + (IF size[n] = Absent THEN 0 ELSE size[n])]
  /\ UNCHANGED <<size, measure, mutex, step, write>>

(* The scan is the next generation's measurement, and the write is admitted against it. *)
EndScan(w) ==
  /\ mutex = w /\ scan.left = {}
  /\ mutex' = Free /\ scan' = NoScan
  /\ valid' = TRUE /\ generation' = generation + 1
  /\ entries' = scan.entries /\ bytes' = scan.bytes
  /\ Answer(w, scan.entries, scan.bytes, generation + 1)
  /\ UNCHANGED size

(* An entry that does not resolve fails the scan, and the write with it. *)
ScanFails(w) ==
  /\ mutex = w
  /\ mutex' = Free /\ scan' = NoScan
  /\ step' = [step EXCEPT ![w] = "failed"]
  /\ UNCHANGED <<size, measure, write>>

-----------------------------------------------------------------------------
(* The write *)

\* What the write leaves at its name.
Written(w) ==
  LET n == write[w].name
  IN CASE write[w].op = "remove" -> Absent
       [] write[w].op = "append" -> write[w].size + (IF size[n] = Absent THEN 0 ELSE size[n])
       [] OTHER                  -> write[w].size

SizeOf(s) == IF s = Absent THEN 0 ELSE s
CountOf(s) == IF s = Absent THEN 0 ELSE 1

\* A creation finds its name free, and an entry stays within its own limit.
Lands(w) ==
  /\ write[w].op = "create" => size[write[w].name] = Absent
  /\ Written(w) <= MaxSize

(* It lands, and reports success: an append that raced a creation counts no entry. *)
Land(w) ==
  LET n == write[w].name
  IN /\ step[w] = "admitted" /\ Lands(w)
     /\ size' = [size EXCEPT ![n] = Written(w)]
     /\ write' = [write EXCEPT ![w].entries = CountOf(Written(w)) - CountOf(size[n]),
                               ![w].bytes = SizeOf(Written(w)) - SizeOf(size[n])]
     /\ step' = [step EXCEPT ![w] = "landed"]
     /\ UNCHANGED <<measure, mutex, scan>>

(* It fails: nothing landed, or all of it did, or an append's file alone. *)
Fail(w) ==
  /\ step[w] = "admitted"
  /\ \/ UNCHANGED size
     \/ Lands(w) /\ size' = [size EXCEPT ![write[w].name] = Written(w)]
     \/ /\ write[w].op = "append" /\ size[write[w].name] = Absent
        /\ size' = [size EXCEPT ![write[w].name] = 0]
  /\ step' = [step EXCEPT ![w] = "failed"]
  /\ UNCHANGED <<measure, mutex, scan, write>>

-----------------------------------------------------------------------------
(* Counting *)

(* settle: counted into the measurement it was admitted against, which another one discards. *)
Settle(w) ==
  LET counted == valid /\ write[w].generation = generation
  IN /\ step[w] = "landed" /\ mutex = Free
     /\ valid' = (valid /\ write[w].generation = generation)
     /\ entries' = entries + (IF counted THEN write[w].entries ELSE 0)
     /\ bytes' = bytes + (IF counted THEN write[w].bytes ELSE 0)
     /\ step' = [step EXCEPT ![w] = "idle"] /\ write' = [write EXCEPT ![w] = NoWrite]
     /\ UNCHANGED <<size, generation, mutex, scan>>

\* Mutant: a failed write discards nothing.
ForgetNothing(w) ==
  /\ step[w] = "failed" /\ mutex = Free
  /\ step' = [step EXCEPT ![w] = "idle"] /\ write' = [write EXCEPT ![w] = NoWrite]
  /\ UNCHANGED <<size, measure, mutex, scan>>

(* forget: a failed write may have landed, so the measurement is discarded. *)
Forget(w) ==
  /\ step[w] = "failed" /\ mutex = Free
  /\ valid' = FALSE
  /\ step' = [step EXCEPT ![w] = "idle"] /\ write' = [write EXCEPT ![w] = NoWrite]
  /\ UNCHANGED <<size, generation, entries, bytes, mutex, scan>>

Next ==
  \E w \in Writer :
    \/ \E op \in Operation, n \in Name, s \in 0..MaxSize : Begin(w, op, n, s)
    \/ Admit(w) \/ StartScan(w) \/ Visit(w) \/ EndScan(w) \/ ScanFails(w)
    \/ Land(w) \/ Fail(w) \/ Settle(w) \/ Forget(w)

Spec == Init /\ [][Next]_vars

-----------------------------------------------------------------------------
(* Properties *)

(* Every variable has its type. *)
TypeOK ==
  /\ size \in [Name -> Absent..MaxSize]
  /\ valid \in BOOLEAN /\ generation \in 0..MaxGeneration /\ entries \in Nat /\ bytes \in Nat
  /\ mutex \in Writer \union {Free} /\ scan.left \subseteq Name
  /\ \A w \in Writer : step[w] \in {"idle", "asking", "admitted", "landed", "failed"}

Quiet == \A w \in Writer : step[w] \in {"idle", "asking"}

(***************************************************************************)
(* However the writers' scans, landings, failures and counts interleave, a *)
(* measurement that stands once no write is under way is what the subtree  *)
(* holds, so the next write is admitted or refused for what is there.      *)
(***************************************************************************)
MeasureExact ==
  valid /\ Quiet => entries = Cardinality(Present) /\ bytes = Bytes

(***************************************************************************)
(* Writers admitted beside one another may together pass the bound, but    *)
(* never by more than one entry for each of the others: a stale count      *)
(* admits no later write.                                                  *)
(***************************************************************************)
BoundKept == Cardinality(Present) <= MaxEntries + Cardinality(Writer) - 1
=============================================================================
