-------------------------- MODULE AreaMeasureProofs --------------------------
(***************************************************************************)
(* Proofs about AreaMeasure, for any number of writers and names: what a   *)
(* measurement counts, entries and bytes, is what the subtree holds, and   *)
(* writers that are admitted beside one another pass the bound by one      *)
(* entry each at most.                                                     *)
(*                                                                         *)
(* What separates a measurement from the subtree is the writes that landed *)
(* and are not counted yet.  One admitted against this very measurement    *)
(* owes it what it changed; one that failed, or was admitted against       *)
(* another, may owe it an entry and will discard it.  A scan is separated  *)
(* the same way by the writes that landed since it began, none of which is *)
(* settled before it ends.  The bytes are counted as the units of bytes    *)
(* each name stores (Stored), and a write's change as units it added or    *)
(* took away.                                                              *)
(*                                                                         *)
(* The counts never go below zero, since they hold beside what removals    *)
(* still have to take from them whatever no write under way can take       *)
(* (Standing), and a walk has counted every name it passed that none was   *)
(* writing (Walking).                                                      *)
(***************************************************************************)
EXTENDS AreaMeasure, FiniteSetTheorems, TLAPS

Step == {"idle", "asking", "admitted", "landed", "failed"}

Writes == [op : Operation \union {"none"}, name : Name \union {"none"}, size : Nat, generation : Nat,
           entries : {-1, 0, 1}, bytes : Int]

Typed ==
  /\ size \in [Name -> Absent..MaxSize]
  /\ valid \in BOOLEAN /\ generation \in Nat /\ entries \in Int
  /\ mutex \in Writer \union {Free}
  /\ scan \in [left : SUBSET Name, entries : Nat, bytes : Int]
  /\ step \in [Writer -> Step] /\ write \in [Writer -> Writes]
  /\ \A w \in Writer : step[w] # "idle" => write[w].op \in Operation /\ write[w].name \in Name

\* Writes that are not counted, and may have left an entry more.
Uncounted ==
  {w \in Writer : \/ step[w] = "failed"
                  \/ step[w] = "landed" /\ (write[w].generation = generation => write[w].entries = 1)}

\* Removals that are not counted, of an entry this measurement holds.
Undone == {w \in Writer : step[w] = "landed" /\ write[w].generation = generation /\ write[w].entries = -1}

\* Writes that are over and not settled.
Settling == {w \in Writer : step[w] \in {"landed", "failed"}}

\* Writes that are admitted and would leave an entry more.
Coming == {w \in Writer : step[w] = "admitted" /\ write[w].op # "remove" /\ size[write[w].name] = Absent}

\* Every one of them is counted in the end.
Trusted == \A w \in Settling : step[w] = "landed" /\ write[w].generation = generation

Scanning == mutex # Free => ~ valid /\ step[mutex] = "asking"

Apart ==
  \A v, w \in Writer :
    v # w /\ step[v] # "idle" /\ step[w] # "idle" /\ write[v].name = write[w].name
      => {write[v].op, write[w].op} \subseteq {"create", "append"}

Stamped == \A w \in Writer : step[w] \in {"admitted", "landed"} => write[w].generation <= generation

Measured ==
  valid => /\ Cardinality(Present) <= entries + Cardinality(Uncounted) - Cardinality(Undone)
           /\ Trusted => Cardinality(Present) = entries + Cardinality(Uncounted) - Cardinality(Undone)

Walked ==
  mutex # Free => /\ Cardinality(Present \ scan.left) <= scan.entries + Cardinality(Settling)
                  /\ Settling = {} => Cardinality(Present \ scan.left) = scan.entries

Within == Cardinality(Present) + Cardinality(Coming) <= MaxEntries + Cardinality(Writer) - 1

IInv == Typed /\ Scanning /\ Apart /\ Stamped /\ Measured /\ Walked /\ Within

-----------------------------------------------------------------------------
(* Counting *)

LEMMA Finite ==
  ASSUME NEW S \in SUBSET Writer
  PROVE  IsFiniteSet(S) /\ Cardinality(S) \in Nat /\ Cardinality(S) <= Cardinality(Writer) /\ Cardinality(Writer) \in Nat
  BY MeasureAssumption, FS_Subset, FS_CardinalityType

LEMMA FiniteNames ==
  ASSUME NEW S \in SUBSET Name
  PROVE  IsFiniteSet(S) /\ Cardinality(S) \in Nat
  BY MeasureAssumption, FS_Subset, FS_CardinalityType

\* Two sets that differ at one element at most.
LEMMA DifferAtOne ==
  ASSUME NEW S, NEW T, IsFiniteSet(S), IsFiniteSet(T), NEW x, S \ {x} = T \ {x}
  PROVE  /\ (x \in S <=> x \in T) => S = T /\ Cardinality(S) = Cardinality(T)
         /\ x \in S /\ x \notin T => Cardinality(S) = Cardinality(T) + 1
         /\ Cardinality(S) <= Cardinality(T) + 1
<1>1. Cardinality(S) \in Nat /\ Cardinality(T) \in Nat
  BY FS_CardinalityType
<1>2. (x \in S <=> x \in T) => S = T
  OBVIOUS
<1>3. x \in S /\ x \notin T => S = T \union {x}
  OBVIOUS
<1>4. x \notin S /\ x \in T => T = S \union {x}
  OBVIOUS
<1>5. x \in S /\ x \notin T => Cardinality(S) = Cardinality(T) + 1
  BY <1>3, FS_AddElement
<1>6. x \notin S /\ x \in T => Cardinality(T) = Cardinality(S) + 1
  BY <1>4, FS_AddElement
<1>7. Cardinality(S) <= Cardinality(T) + 1
  <2>1. CASE x \in S /\ x \notin T
    BY <1>1, <1>5, <2>1
  <2>2. CASE x \notin S /\ x \in T
    BY <1>1, <1>6, <2>2
  <2>3. CASE x \in S <=> x \in T
    BY <1>1, <1>2, <2>3
  <2> QED
    BY <2>1, <2>2, <2>3
<1> QED
  BY <1>2, <1>5, <1>7

\* What one name's change does to the entries, all of them and those of a part.
LEMMA Changed ==
  ASSUME Typed, NEW n \in Name, NEW s \in Absent..MaxSize, size' = [size EXCEPT ![n] = s], NEW L \in SUBSET Name
  PROVE  /\ Cardinality(Present) \in Nat /\ Cardinality(Present') \in Nat
         /\ Cardinality(Present') = Cardinality(Present) + CountOf(s) - CountOf(size[n])
         /\ Cardinality(Present \ L) \in Nat /\ Cardinality(Present' \ L) \in Nat
         /\ Cardinality(Present' \ L) <= Cardinality(Present \ L) + 1
<1>1. /\ size'[n] = s /\ \A m \in Name : m # n => size'[m] = size[m]
  BY DEF Typed
<1>2. Present' \ {n} = Present \ {n} /\ (n \in Present' <=> s # Absent) /\ (n \in Present <=> size[n] # Absent)
  BY <1>1 DEF Present
<1>3. Present \in SUBSET Name /\ Present' \in SUBSET Name /\ Present \ L \in SUBSET Name /\ Present' \ L \in SUBSET Name
  BY DEF Present
<1>4. /\ IsFiniteSet(Present) /\ Cardinality(Present) \in Nat
      /\ IsFiniteSet(Present') /\ Cardinality(Present') \in Nat
      /\ IsFiniteSet(Present \ L) /\ Cardinality(Present \ L) \in Nat
      /\ IsFiniteSet(Present' \ L) /\ Cardinality(Present' \ L) \in Nat
  BY <1>3, FiniteNames
<1>5. (Present' \ L) \ {n} = (Present \ L) \ {n}
  BY <1>2
<1>6. Cardinality(Present' \ L) <= Cardinality(Present \ L) + 1
  BY <1>4, <1>5, DifferAtOne
<1>7. Cardinality(Present') = Cardinality(Present) + CountOf(s) - CountOf(size[n])
  <2>1. CASE s = Absent /\ size[n] # Absent
    <3>1. Cardinality(Present) = Cardinality(Present') + 1
      BY <1>2, <1>4, <2>1, DifferAtOne
    <3> QED
      BY <1>4, <2>1, <3>1 DEF CountOf
  <2>2. CASE s # Absent /\ size[n] = Absent
    <3>1. Cardinality(Present') = Cardinality(Present) + 1
      BY <1>2, <1>4, <2>2, DifferAtOne
    <3> QED
      BY <1>4, <2>2, <3>1 DEF CountOf
  <2>3. CASE s = Absent <=> size[n] = Absent
    <3>1. Cardinality(Present') = Cardinality(Present)
      BY <1>2, <1>4, <2>3, DifferAtOne
    <3>2. CountOf(s) = CountOf(size[n]) /\ CountOf(s) \in {0, 1}
      BY <2>3 DEF CountOf
    <3> QED
      BY <1>4, <3>1, <3>2
  <2> QED
    BY <2>1, <2>2, <2>3
<1> QED
  BY <1>4, <1>6, <1>7

\* The counted sets, and their sizes.
LEMMA Sets ==
  /\ Uncounted \in SUBSET Writer /\ IsFiniteSet(Uncounted) /\ Cardinality(Uncounted) \in Nat
  /\ Undone \in SUBSET Writer /\ IsFiniteSet(Undone) /\ Cardinality(Undone) \in Nat
  /\ Settling \in SUBSET Writer /\ IsFiniteSet(Settling) /\ Cardinality(Settling) \in Nat
  /\ Coming \in SUBSET Writer /\ IsFiniteSet(Coming) /\ Cardinality(Coming) \in Nat
  /\ Present \in SUBSET Name /\ IsFiniteSet(Present) /\ Cardinality(Present) \in Nat
  /\ Cardinality(Writer) \in Nat
<1>1. /\ Uncounted \in SUBSET Writer /\ Undone \in SUBSET Writer /\ Settling \in SUBSET Writer
      /\ Coming \in SUBSET Writer /\ Present \in SUBSET Name
  BY DEF Uncounted, Undone, Settling, Coming, Present
<1> QED
  BY <1>1, Finite, FiniteNames

LEMMA SetsNext ==
  /\ Uncounted' \in SUBSET Writer /\ IsFiniteSet(Uncounted') /\ Cardinality(Uncounted') \in Nat
  /\ Undone' \in SUBSET Writer /\ IsFiniteSet(Undone') /\ Cardinality(Undone') \in Nat
  /\ Settling' \in SUBSET Writer /\ IsFiniteSet(Settling') /\ Cardinality(Settling') \in Nat
  /\ Coming' \in SUBSET Writer /\ IsFiniteSet(Coming') /\ Cardinality(Coming') \in Nat
  /\ Present' \in SUBSET Name /\ IsFiniteSet(Present') /\ Cardinality(Present') \in Nat
<1>1. /\ Uncounted' \in SUBSET Writer /\ Undone' \in SUBSET Writer /\ Settling' \in SUBSET Writer
      /\ Coming' \in SUBSET Writer /\ Present' \in SUBSET Name
  BY DEF Uncounted, Undone, Settling, Coming, Present
<1> QED
  BY <1>1, Finite, FiniteNames

\* One writer's step changes the sets at that writer alone.
LEMMA AtOne ==
  ASSUME NEW w \in Writer, size' = size, generation' = generation,
         \A v \in Writer : v # w => step'[v] = step[v] /\ write'[v] = write[v]
  PROVE  /\ Uncounted' \ {w} = Uncounted \ {w} /\ Undone' \ {w} = Undone \ {w}
         /\ Settling' \ {w} = Settling \ {w} /\ Coming' \ {w} = Coming \ {w}
         /\ Present' = Present
  BY DEF Uncounted, Undone, Settling, Coming, Present

\* A writer that asks, or has nothing to do, is in none of them.
LEMMA Idle ==
  ASSUME NEW w \in Writer, step[w] \in {"idle", "asking"}
  PROVE  w \notin Uncounted /\ w \notin Undone /\ w \notin Settling /\ w \notin Coming
  BY DEF Uncounted, Undone, Settling, Coming

LEMMA IdleNext ==
  ASSUME NEW w \in Writer, step'[w] \in {"idle", "asking"}
  PROVE  w \notin Uncounted' /\ w \notin Undone' /\ w \notin Settling' /\ w \notin Coming'
  BY DEF Uncounted, Undone, Settling, Coming

\* Where the sets and the measurement stay, so do the counts.
LEMMA CountsStay ==
  ASSUME IInv, Uncounted' = Uncounted, Undone' = Undone, Settling' = Settling, Coming' = Coming,
         Present' = Present, UNCHANGED <<valid, entries, mutex, scan>>, Trusted' => Trusted
  PROVE  Measured' /\ Walked' /\ Within'
<1>1. Measured /\ Walked /\ Within
  BY DEF IInv
<1>2. Measured'
  BY <1>1 DEF Measured
<1>3. Walked'
  BY <1>1 DEF Walked
<1>4. Within'
  BY <1>1 DEF Within
<1> QED
  BY <1>2, <1>3, <1>4

-----------------------------------------------------------------------------
(* The steps *)

LEMMA BeginKeeps ==
  ASSUME IInv, NEW w \in Writer, NEW op \in Operation, NEW n \in Name, NEW s \in 0..MaxSize, Begin(w, op, n, s)
  PROVE  IInv'
<1>0. Typed /\ Scanning /\ Apart /\ Stamped
  BY DEF IInv
<1> DEFINE r == [NoWrite EXCEPT !.op = op, !.name = n, !.size = s]
<1>1. /\ step[w] = "idle"
      /\ \A v \in Writer : step[v] # "idle" /\ write[v].name = n => {op, write[v].op} \subseteq {"create", "append"}
      /\ step' = [step EXCEPT ![w] = "asking"] /\ write' = [write EXCEPT ![w] = r]
      /\ UNCHANGED <<size, valid, generation, entries, bytes, mutex, scan>>
  BY DEF Begin, measure
<1>2. r \in Writes /\ r.op = op /\ r.name = n
  <2>1. NoWrite \in Writes
    BY DEF NoWrite, Writes
  <2>2. s \in Nat
    BY MeasureAssumption
  <2> QED
    BY <2>1, <2>2 DEF Writes
<1> HIDE DEF r
<1>3. /\ step'[w] = "asking" /\ write'[w] = r
      /\ \A v \in Writer : v # w => step'[v] = step[v] /\ write'[v] = write[v]
  BY <1>0, <1>1 DEF Typed
<1>4. Typed'
  <2>1. step' \in [Writer -> Step] /\ write' \in [Writer -> Writes]
    BY <1>0, <1>1, <1>2 DEF Typed, Step
  <2>2. \A v \in Writer : step'[v] # "idle" => write'[v].op \in Operation /\ write'[v].name \in Name
    BY <1>0, <1>2, <1>3 DEF Typed
  <2> QED
    BY <1>0, <1>1, <2>1, <2>2 DEF Typed
<1>5. Scanning'
  BY <1>0, <1>1, <1>3, MeasureAssumption DEF Scanning, Typed
<1>6. Apart'
  <2> SUFFICES ASSUME NEW u \in Writer, NEW v \in Writer, u # v, step'[u] # "idle", step'[v] # "idle",
                      write'[u].name = write'[v].name
               PROVE  {write'[u].op, write'[v].op} \subseteq {"create", "append"}
    BY DEF Apart
  <2>1. CASE u # w /\ v # w
    BY <1>0, <1>3, <2>1 DEF Apart
  <2>2. CASE u = w
    BY <1>1, <1>2, <1>3, <2>2
  <2>3. CASE v = w
    BY <1>1, <1>2, <1>3, <2>3
  <2> QED
    BY <2>1, <2>2, <2>3
<1>7. Stamped'
  BY <1>0, <1>1, <1>3 DEF Stamped
<1>8. Measured' /\ Walked' /\ Within'
  <2>1. /\ Uncounted' \ {w} = Uncounted \ {w} /\ Undone' \ {w} = Undone \ {w}
        /\ Settling' \ {w} = Settling \ {w} /\ Coming' \ {w} = Coming \ {w} /\ Present' = Present
    BY <1>1, <1>3, AtOne
  <2>2. w \notin Uncounted /\ w \notin Undone /\ w \notin Settling /\ w \notin Coming
    BY <1>1, Idle
  <2>3. w \notin Uncounted' /\ w \notin Undone' /\ w \notin Settling' /\ w \notin Coming'
    BY <1>3, IdleNext
  <2>4. Uncounted' = Uncounted /\ Undone' = Undone /\ Settling' = Settling /\ Coming' = Coming
    BY <2>1, <2>2, <2>3
  <2>5. Trusted' => Trusted
    BY <1>1, <1>3, <2>2, <2>4 DEF Trusted
  <2> QED
    BY <1>1, <2>1, <2>4, <2>5, CountsStay
<1> QED
  BY <1>4, <1>5, <1>6, <1>7, <1>8 DEF IInv

\* What an answer does to the one that asked.
LEMMA Answered ==
  ASSUME IInv, NEW w \in Writer, step[w] = "asking", NEW g \in Nat, NEW t \in {"failed", "admitted"},
         step' = [step EXCEPT ![w] = t], write' = [write EXCEPT ![w].generation = g],
         size' = size, generation' \in Nat, generation <= generation', g = generation',
         valid' \in BOOLEAN, entries' \in Int, mutex' = Free,
         scan' \in [left : SUBSET Name, entries : Nat, bytes : Int]
  PROVE  /\ Typed' /\ Scanning' /\ Apart' /\ Stamped' /\ Walked' /\ Present' = Present
         /\ step'[w] = t /\ write'[w].op = write[w].op /\ write'[w].name = write[w].name
         /\ \A v \in Writer : v # w => step'[v] = step[v] /\ write'[v] = write[v]
<1>0. Typed /\ Scanning /\ Apart /\ Stamped
  BY DEF IInv
<1>1. write[w] \in Writes /\ [write[w] EXCEPT !.generation = g] \in Writes
  BY <1>0 DEF Typed, Writes
<1>2. /\ step'[w] = t
      /\ write'[w] = [write[w] EXCEPT !.generation = g]
      /\ \A v \in Writer : v # w => step'[v] = step[v] /\ write'[v] = write[v]
  BY <1>0 DEF Typed
<1>3. write'[w].op = write[w].op /\ write'[w].name = write[w].name /\ write'[w].generation = g
  BY <1>1, <1>2 DEF Writes
<1>4. Typed'
  <2>1. step' \in [Writer -> Step] /\ write' \in [Writer -> Writes]
    BY <1>0, <1>1 DEF Typed, Step
  <2>2. \A v \in Writer : step'[v] # "idle" => write'[v].op \in Operation /\ write'[v].name \in Name
    BY <1>0, <1>2, <1>3 DEF Typed
  <2> QED
    BY <1>0, <2>1, <2>2 DEF Typed
<1>5. Scanning' /\ Walked'
  BY DEF Scanning, Walked
<1>6. Apart'
  <2> SUFFICES ASSUME NEW u \in Writer, NEW v \in Writer, u # v, step'[u] # "idle", step'[v] # "idle",
                      write'[u].name = write'[v].name
               PROVE  {write'[u].op, write'[v].op} \subseteq {"create", "append"}
    BY DEF Apart
  <2>1. step[u] # "idle" /\ step[v] # "idle" /\ write[u].name = write[v].name
        /\ write'[u].op = write[u].op /\ write'[v].op = write[v].op
    BY <1>2, <1>3
  <2> QED
    BY <1>0, <2>1 DEF Apart
<1>7. Stamped'
  <2> SUFFICES ASSUME NEW v \in Writer, step'[v] \in {"admitted", "landed"}
               PROVE  write'[v].generation <= generation'
    BY DEF Stamped
  <2>1. CASE v = w
    BY <1>3, <2>1
  <2>2. CASE v # w
    <3>1. write[v].generation <= generation /\ write[v].generation \in Nat /\ generation \in Nat
      BY <1>0, <1>2, <2>2 DEF Stamped, Typed, Writes
    <3> QED
      BY <1>2, <2>2, <3>1
  <2> QED
    BY <2>1, <2>2
<1>8. Present' = Present
  BY DEF Present
<1> QED
  BY <1>2, <1>3, <1>4, <1>5, <1>6, <1>7, <1>8

\* One writer more may come, where those that are uncounted leave it room.
LEMMA RoomForOne ==
  ASSUME NEW S \in SUBSET Writer, NEW w \in Writer, w \notin S, w \notin Coming, S \intersect Coming = {}
  PROVE  Cardinality(S) + Cardinality(Coming) <= Cardinality(Writer) - 1
<1>1. Coming \in SUBSET Writer /\ IsFiniteSet(Coming) /\ IsFiniteSet(S)
      /\ Cardinality(S) \in Nat /\ Cardinality(Coming) \in Nat
  BY Sets, Finite
<1>2. IsFiniteSet(S \union Coming) /\ Cardinality(S \union Coming) = Cardinality(S) + Cardinality(Coming)
  <2>1. /\ IsFiniteSet(S \union Coming)
        /\ Cardinality(S \union Coming) = Cardinality(S) + Cardinality(Coming) - Cardinality(S \intersect Coming)
    BY <1>1, FS_Union
  <2>2. Cardinality(S \intersect Coming) = 0
    BY FS_EmptySet
  <2> QED
    BY <1>1, <2>1, <2>2
<1>3. (S \union Coming) \union {w} \in SUBSET Writer /\ w \notin S \union Coming
  BY <1>1
<1>4. Cardinality((S \union Coming) \union {w}) = Cardinality(S) + Cardinality(Coming) + 1
  BY <1>2, <1>3, FS_AddElement
<1>5. Cardinality((S \union Coming) \union {w}) <= Cardinality(Writer) /\ Cardinality(Writer) \in Nat
  BY <1>3, Finite
<1> QED
  BY <1>1, <1>4, <1>5

\* The answer keeps the bound.
LEMMA AnsweredWithin ==
  ASSUME IInv, NEW w \in Writer, step[w] = "asking", NEW t \in {"failed", "admitted"}, step'[w] = t,
         write'[w].op = write[w].op, write'[w].name = write[w].name,
         \A v \in Writer : v # w => step'[v] = step[v] /\ write'[v] = write[v],
         size' = size, NEW S \in SUBSET Writer, S \intersect Coming = {}, w \notin S,
         NEW e \in Int, Cardinality(Present) <= e + Cardinality(S),
         write[w].op # "remove" /\ t = "admitted" => e + Added(w) <= MaxEntries
  PROVE  Within'
<1>1. /\ Cardinality(Present) + Cardinality(Coming) <= MaxEntries + Cardinality(Writer) - 1
      /\ Present' = Present /\ Coming' \ {w} = Coming \ {w} /\ w \notin Coming
  BY Idle DEF IInv, Within, Present, Coming
<1>2. /\ IsFiniteSet(Coming) /\ Cardinality(Coming) \in Nat /\ IsFiniteSet(Coming')
      /\ Cardinality(Present) \in Nat /\ Cardinality(Writer) \in Nat /\ Cardinality(S) \in Nat /\ MaxEntries \in Nat
  BY Sets, SetsNext, Finite, MeasureAssumption
<1>3. CASE w \notin Coming'
  <2>1. Coming' \ {w} = Coming \ {w} /\ w \notin Coming
    BY <1>1
  <2>2. Coming' = Coming
    BY ONLY <1>3, <2>1
  <2> QED
    BY <1>1, <2>2 DEF Within
<1>4. CASE w \in Coming'
  <2>1. Cardinality(Coming') = Cardinality(Coming) + 1
    BY <1>1, <1>2, <1>4, DifferAtOne
  <2>2. e + 1 <= MaxEntries
    BY <1>4 DEF Coming, Added
  <2>3. Cardinality(S) + Cardinality(Coming) <= Cardinality(Writer) - 1
    BY <1>1, RoomForOne
  <2>4. Cardinality(Present) + (Cardinality(Coming) + 1) <= MaxEntries + Cardinality(Writer) - 1
    BY <1>2, <2>2, <2>3
  <2> QED
    BY <1>1, <2>1, <2>4 DEF Within
<1> QED
  BY <1>3, <1>4

LEMMA AdmitKeeps ==
  ASSUME IInv, NEW w \in Writer, Admit(w)
  PROVE  IInv'
<1>0. Typed /\ Measured
  BY DEF IInv
<1>1. /\ step[w] = "asking" /\ mutex = Free
      /\ UNCHANGED <<size, valid, generation, entries, bytes, mutex, scan>>
  BY DEF Admit, measure
<1>2. PICK t \in {"failed", "admitted"} :
        /\ step' = [step EXCEPT ![w] = t] /\ write' = [write EXCEPT ![w].generation = generation]
        /\ write[w].op = "remove" => t = "admitted"
        /\ write[w].op # "remove" => valid
        /\ write[w].op # "remove" /\ t = "admitted" => ~ (entries + Added(w) > MaxEntries)
  BY DEF Admit, Answer
<1>3. generation \in Nat /\ entries \in Int /\ valid \in BOOLEAN
      /\ scan \in [left : SUBSET Name, entries : Nat, bytes : Int]
  BY <1>0 DEF Typed
<1>4. /\ Typed' /\ Scanning' /\ Apart' /\ Stamped' /\ Walked' /\ Present' = Present
      /\ step'[w] = t /\ write'[w].op = write[w].op /\ write'[w].name = write[w].name
      /\ \A v \in Writer : v # w => step'[v] = step[v] /\ write'[v] = write[v]
  <2>1. /\ size' = size /\ generation' \in Nat /\ generation <= generation' /\ generation = generation'
        /\ entries' \in Int /\ mutex' = Free
        /\ scan' \in [left : SUBSET Name, entries : Nat, bytes : Int]
    BY <1>1, <1>3
  <2>2. valid' \in BOOLEAN
    BY <1>1, <1>3
  <2>3. step' = [step EXCEPT ![w] = t] /\ write' = [write EXCEPT ![w].generation = generation]
    BY <1>2
  <2> QED
    BY <1>1, <1>3, <2>1, <2>2, <2>3, Answered
<1>5. /\ Uncounted' \ {w} = Uncounted \ {w} /\ Undone' \ {w} = Undone \ {w} /\ Settling' \ {w} = Settling \ {w}
      /\ w \notin Uncounted /\ w \notin Undone /\ w \notin Settling
  BY <1>1, <1>4, AtOne, Idle
<1>6. /\ IsFiniteSet(Uncounted) /\ Cardinality(Uncounted) \in Nat /\ IsFiniteSet(Uncounted')
      /\ Cardinality(Undone) \in Nat /\ Cardinality(Present) \in Nat
  BY Sets, SetsNext
<1>7. Undone' = Undone
  <2>1. w \notin Undone'
    BY <1>4 DEF Undone
  <2> QED
    BY <1>5, <2>1
<1>8. Measured'
  <2>1. CASE t = "admitted"
    <3>1. w \notin Uncounted' /\ w \notin Settling'
      BY <1>4, <2>1 DEF Uncounted, Settling
    <3>2. Uncounted' = Uncounted /\ Settling' = Settling
      BY <1>5, <3>1
    <3>3. Trusted' => Trusted
      BY <1>1, <1>4, <1>5, <3>2 DEF Trusted, Settling
    <3> QED
      BY <1>0, <1>1, <1>4, <1>7, <3>2, <3>3 DEF Measured
  <2>2. CASE t = "failed"
    <3>1. w \in Uncounted' /\ w \in Settling' /\ ~ Trusted'
      BY <1>4, <2>2 DEF Uncounted, Settling, Trusted
    <3>2. Cardinality(Uncounted') = Cardinality(Uncounted) + 1
      BY <1>5, <1>6, <3>1, DifferAtOne
    <3>3. valid => Cardinality(Present) <= entries + Cardinality(Uncounted) - Cardinality(Undone)
      BY <1>0 DEF Measured
    <3>4. valid => Cardinality(Present) <= entries + (Cardinality(Uncounted) + 1) - Cardinality(Undone)
      BY <1>3, <1>6, <3>3
    <3> QED
      BY <1>1, <1>4, <1>7, <3>1, <3>2, <3>4 DEF Measured
  <2> QED
    BY <2>1, <2>2
<1>9. Within'
  <2>1. CASE write[w].op = "remove"
    <3>1. w \notin Coming' /\ w \notin Coming
      BY <1>1, <1>4, <2>1, Idle DEF Coming
    <3>2. Coming' = Coming
      BY <1>1, <1>4, <3>1, AtOne
    <3> QED
      BY <1>4, <3>2 DEF IInv, Within
  <2>2. CASE write[w].op # "remove"
    <3>1. Cardinality(Present) <= entries + Cardinality(Uncounted)
      BY <1>0, <1>2, <1>3, <1>6, <2>2 DEF Measured
    <3>2. Uncounted \intersect Coming = {} /\ Uncounted \in SUBSET Writer
      BY DEF Uncounted, Coming
    <3>3. t = "admitted" => entries + Added(w) <= MaxEntries
      <4>1. Added(w) \in {0, 1}
        BY DEF Added
      <4> QED
        BY <1>2, <1>3, <2>2, <4>1, MeasureAssumption
    <3> QED
      BY <1>1, <1>3, <1>4, <1>5, <3>1, <3>2, <3>3, AnsweredWithin
  <2> QED
    BY <2>1, <2>2
<1> QED
  BY <1>4, <1>8, <1>9 DEF IInv

-----------------------------------------------------------------------------
(* The scan *)

LEMMA StartScanKeeps ==
  ASSUME IInv, NEW w \in Writer, StartScan(w)
  PROVE  IInv'
<1>0. Typed /\ Apart /\ Stamped
  BY DEF IInv
<1>1. /\ step[w] = "asking" /\ ~ valid /\ mutex' = w
      /\ scan' = [left |-> Name, entries |-> 0, bytes |-> 0]
      /\ UNCHANGED <<size, valid, generation, entries, bytes, step, write>>
  BY DEF StartScan, measure
<1>2. Uncounted' = Uncounted /\ Undone' = Undone /\ Settling' = Settling /\ Coming' = Coming /\ Present' = Present
  BY <1>1 DEF Uncounted, Undone, Settling, Coming, Present
<1>3. Typed'
  BY <1>0, <1>1 DEF Typed
<1>4. Scanning' /\ Apart' /\ Stamped' /\ Measured'
  BY <1>0, <1>1 DEF Scanning, Apart, Stamped, Measured
<1>5. Walked'
  <2>1. Present' \ scan'.left = {} /\ scan'.entries = 0
    BY <1>1 DEF Present
  <2>2. Cardinality(Present' \ scan'.left) = 0
    BY <2>1, FS_EmptySet
  <2>3. Cardinality(Settling') \in Nat
    BY SetsNext
  <2> QED
    BY <2>1, <2>2, <2>3 DEF Walked
<1>6. Within'
  BY <1>2 DEF IInv, Within
<1> QED
  BY <1>3, <1>4, <1>5, <1>6 DEF IInv

LEMMA VisitKeeps ==
  ASSUME IInv, NEW w \in Writer, Visit(w)
  PROVE  IInv'
<1>0. Typed /\ Scanning /\ Apart /\ Stamped /\ Walked
  BY DEF IInv
<1>1. PICK n \in scan.left :
        scan' = [left    |-> scan.left \ {n},
                 entries |-> scan.entries + (IF size[n] = Absent THEN 0 ELSE 1),
                 bytes   |-> scan.bytes + (IF size[n] = Absent THEN 0 ELSE size[n])]
  BY DEF Visit
<1>2. mutex = w /\ mutex # Free /\ UNCHANGED <<size, valid, generation, entries, bytes, mutex, step, write>>
  BY MeasureAssumption DEF Visit, measure
<1>3. Uncounted' = Uncounted /\ Undone' = Undone /\ Settling' = Settling /\ Coming' = Coming /\ Present' = Present
  BY <1>2 DEF Uncounted, Undone, Settling, Coming, Present
<1>4. /\ scan.left \in SUBSET Name /\ scan.entries \in Nat /\ scan.bytes \in Int /\ n \in Name
      /\ size[n] \in Int
  BY <1>0, <1>1, MeasureAssumption DEF Typed, Absent
<1>5. Typed'
  <2>1. scan' \in [left : SUBSET Name, entries : Nat, bytes : Int]
    BY <1>1, <1>4
  <2> QED
    BY <1>0, <1>2, <2>1 DEF Typed
<1>6. Scanning' /\ Apart' /\ Stamped'
  BY <1>0, <1>2 DEF Scanning, Apart, Stamped
<1>7. Measured'
  BY <1>0, <1>2 DEF Scanning, Measured
<1>8. Walked'
  <2>1. scan'.left = scan.left \ {n} /\ scan'.entries = scan.entries + (IF size[n] = Absent THEN 0 ELSE 1)
    BY <1>1
  <2> DEFINE before == Present \ scan.left
             after == Present \ scan'.left
  <2>2. /\ after \ {n} = before \ {n} /\ n \notin before /\ (n \in after <=> size[n] # Absent)
    BY <1>1, <1>4, <2>1 DEF Present
  <2>3. before \in SUBSET Name /\ after \in SUBSET Name
    BY DEF Present
  <2>4. IsFiniteSet(before) /\ IsFiniteSet(after) /\ Cardinality(before) \in Nat /\ Cardinality(Settling) \in Nat
    BY <2>3, FiniteNames, Sets
  <2>5. Cardinality(after) = Cardinality(before) + (IF size[n] = Absent THEN 0 ELSE 1)
    <3>1. CASE size[n] = Absent
      BY <2>2, <2>4, <3>1, DifferAtOne
    <3>2. CASE size[n] # Absent
      BY <2>2, <2>4, <3>2, DifferAtOne
    <3> QED
      BY <3>1, <3>2
  <2>6. /\ Cardinality(before) <= scan.entries + Cardinality(Settling)
        /\ Settling = {} => Cardinality(before) = scan.entries
    BY <1>0, <1>2 DEF Walked
  <2> HIDE DEF before, after
  <2>7. (IF size[n] = Absent THEN 0 ELSE 1) \in {0, 1}
    OBVIOUS
  <2>8. /\ Cardinality(after) <= scan'.entries + Cardinality(Settling)
        /\ Settling = {} => Cardinality(after) = scan'.entries
    BY <1>4, <2>1, <2>4, <2>5, <2>6, <2>7
  <2> QED
    BY <1>3, <2>8 DEF Walked, after
<1>9. Within'
  BY <1>3 DEF IInv, Within
<1> QED
  BY <1>5, <1>6, <1>7, <1>8, <1>9 DEF IInv

LEMMA EndScanKeeps ==
  ASSUME IInv, NEW w \in Writer, EndScan(w)
  PROVE  IInv'
<1>0. Typed /\ Scanning /\ Stamped /\ Walked
  BY DEF IInv
<1>1. /\ mutex = w /\ mutex # Free /\ scan.left = {} /\ mutex' = Free /\ scan' = NoScan
      /\ valid' = TRUE /\ generation' = generation + 1 /\ entries' = scan.entries /\ size' = size
  BY MeasureAssumption DEF EndScan
<1>2. PICK t \in {"failed", "admitted"} :
        /\ step' = [step EXCEPT ![w] = t] /\ write' = [write EXCEPT ![w].generation = generation + 1]
        /\ t = "admitted" => ~ (scan.entries + Added(w) > MaxEntries)
  BY DEF EndScan, Answer
<1>3. step[w] = "asking" /\ generation \in Nat /\ generation + 1 \in Nat /\ scan.entries \in Nat
  BY <1>0, <1>1 DEF Scanning, Typed
<1>4. /\ Typed' /\ Scanning' /\ Apart' /\ Stamped' /\ Walked' /\ Present' = Present
      /\ step'[w] = t /\ write'[w].op = write[w].op /\ write'[w].name = write[w].name
      /\ \A v \in Writer : v # w => step'[v] = step[v] /\ write'[v] = write[v]
  <2>1. /\ size' = size /\ generation' \in Nat /\ generation <= generation' /\ generation + 1 = generation'
        /\ entries' \in Int /\ mutex' = Free
        /\ scan' \in [left : SUBSET Name, entries : Nat, bytes : Int]
    BY <1>1, <1>3 DEF NoScan
  <2>2. valid' \in BOOLEAN
    BY <1>1
  <2> QED
    BY <1>2, <1>3, <2>1, <2>2, Answered
<1>5. w \notin Uncounted /\ w \notin Undone /\ w \notin Settling /\ w \notin Coming
  BY <1>3, Idle
<1>6. /\ IsFiniteSet(Settling) /\ Cardinality(Settling) \in Nat /\ IsFiniteSet(Uncounted')
      /\ Cardinality(Present) \in Nat /\ Cardinality(Uncounted') \in Nat
  BY Sets, SetsNext
<1>7. /\ Cardinality(Present) <= scan.entries + Cardinality(Settling)
      /\ Settling = {} => Cardinality(Present) = scan.entries
  <2>1. Present \ scan.left = Present
    BY <1>1
  <2> QED
    BY <1>0, <1>1, <2>1 DEF Walked
\* A write that is over was admitted against an earlier measurement.
<1>8. \A v \in Writer : v # w /\ step'[v] = "landed" => write'[v].generation # generation'
  <2> SUFFICES ASSUME NEW v \in Writer, v # w, step'[v] = "landed" PROVE write'[v].generation # generation'
    OBVIOUS
  <2>1. write[v].generation <= generation /\ write[v].generation \in Nat
    BY <1>0, <1>4 DEF Stamped, Typed, Writes
  <2> QED
    BY <1>1, <1>3, <1>4, <2>1
<1>9. Undone' = {} /\ Uncounted' = Settling'
  BY <1>4, <1>8 DEF Undone, Uncounted, Settling
<1>10. Settling' \ {w} = Settling \ {w} /\ Settling \subseteq Settling'
  <2>1. Settling' \ {w} = Settling \ {w}
    BY <1>4 DEF Settling
  <2> QED
    BY <1>5, <2>1
<1>11. Measured'
  <2>1. Cardinality(Undone') = 0
    BY <1>9, FS_EmptySet
  <2>2. Cardinality(Settling) <= Cardinality(Uncounted')
    BY <1>6, <1>9, <1>10, FS_Subset
  <2>3. Cardinality(Present) <= scan.entries + Cardinality(Uncounted') - 0
    BY <1>3, <1>6, <1>7, <2>2
  <2>4. Trusted' => Settling' = {}
    <3>1. ASSUME NEW v \in Settling', Trusted' PROVE FALSE
      <4>1. v \in Writer /\ step'[v] = "landed" /\ write'[v].generation = generation'
        BY <3>1 DEF Trusted, Settling
      <4>2. v = w
        BY <1>8, <4>1
      <4> QED
        BY <1>4, <4>1, <4>2
    <3> QED
      BY <3>1
  <2>5. Trusted' => Cardinality(Present) = scan.entries + Cardinality(Uncounted') - 0
    <3>1. Trusted' => Settling = {} /\ Cardinality(Uncounted') = 0
      BY <1>9, <1>10, <2>4, FS_EmptySet
    <3> QED
      BY <1>3, <1>6, <1>7, <3>1
  <2> QED
    BY <1>1, <1>4, <2>1, <2>3, <2>5 DEF Measured
<1>12. Within'
  <2>1. Settling \intersect Coming = {} /\ Settling \in SUBSET Writer
    BY DEF Settling, Coming
  <2>2. t = "admitted" => scan.entries + Added(w) <= MaxEntries
    <3>1. Added(w) \in {0, 1}
      BY DEF Added
    <3> QED
      BY <1>2, <1>3, <3>1, MeasureAssumption
  <2>3. scan.entries \in Int
    BY <1>3
  <2> QED
    BY <1>1, <1>3, <1>4, <1>5, <1>7, <2>1, <2>2, <2>3, AnsweredWithin
<1> QED
  BY <1>4, <1>11, <1>12 DEF IInv

LEMMA ScanFailsKeeps ==
  ASSUME IInv, NEW w \in Writer, ScanFails(w)
  PROVE  IInv'
<1>0. Typed /\ Scanning /\ Apart /\ Stamped
  BY DEF IInv
<1>1. /\ mutex = w /\ mutex # Free /\ mutex' = Free /\ scan' = NoScan
      /\ step' = [step EXCEPT ![w] = "failed"]
      /\ UNCHANGED <<size, valid, generation, entries, bytes, write>>
  BY MeasureAssumption DEF ScanFails, measure
<1>2. ~ valid /\ step[w] = "asking"
  BY <1>0, <1>1 DEF Scanning
<1>3. step'[w] = "failed" /\ \A v \in Writer : v # w => step'[v] = step[v]
  BY <1>0, <1>1 DEF Typed
<1>4. Typed'
  <2>1. step' \in [Writer -> Step] /\ scan' \in [left : SUBSET Name, entries : Nat, bytes : Int]
    BY <1>0, <1>1 DEF Typed, Step, NoScan
  <2> QED
    BY <1>0, <1>1, <1>2, <1>3, <2>1 DEF Typed
<1>5. Scanning' /\ Measured' /\ Walked'
  BY <1>1, <1>2 DEF Scanning, Measured, Walked
<1>6. Apart'
  BY <1>0, <1>1, <1>2, <1>3 DEF Apart
<1>7. Stamped'
  BY <1>0, <1>1, <1>3 DEF Stamped
<1>8. Within'
  <2>1. Coming' = Coming /\ Present' = Present
    BY <1>1, <1>2, <1>3 DEF Coming, Present
  <2> QED
    BY <2>1 DEF IInv, Within
<1> QED
  BY <1>4, <1>5, <1>6, <1>7, <1>8 DEF IInv

-----------------------------------------------------------------------------
(* The write *)

\* A write is over, and left its name as it was or as it is to be.
LEMMA Over ==
  ASSUME IInv, NEW w \in Writer, step[w] = "admitted", NEW t \in {"landed", "failed"},
         step' = [step EXCEPT ![w] = t], write' \in [Writer -> Writes],
         \A v \in Writer : v # w => write'[v] = write[v],
         write'[w].op = write[w].op, write'[w].name = write[w].name, write'[w].generation = write[w].generation,
         NEW s \in Absent..MaxSize, size' = [size EXCEPT ![write[w].name] = s],
         write[w].op # "remove" => s # Absent \/ size[write[w].name] = Absent,
         write[w].op = "remove" => s = Absent \/ s = size[write[w].name],
         UNCHANGED <<measure, mutex, scan>>
  PROVE  /\ Typed' /\ Scanning' /\ Apart' /\ Stamped' /\ Walked' /\ Within'
         /\ write[w].name \in Name /\ size[write[w].name] \in Absent..MaxSize
         /\ UNCHANGED <<valid, generation, entries, bytes, mutex, scan>>
         /\ step'[w] = t /\ \A v \in Writer : v # w => step'[v] = step[v] /\ write'[v] = write[v]
         /\ Cardinality(Present) \in Nat /\ Cardinality(Present') \in Nat
         /\ Cardinality(Present') = Cardinality(Present) + CountOf(s) - CountOf(size[write[w].name])
<1>0. Typed /\ Scanning /\ Apart /\ Stamped /\ Walked /\ Within
  BY DEF IInv
<1> DEFINE n == write[w].name
<1>1. write[w].op \in Operation /\ n \in Name /\ size[n] \in Absent..MaxSize
  BY <1>0 DEF Typed
<1>2. UNCHANGED <<valid, generation, entries, bytes, mutex, scan>>
  BY DEF measure
<1>3. step'[w] = t /\ \A v \in Writer : v # w => step'[v] = step[v] /\ write'[v] = write[v]
  BY <1>0 DEF Typed
<1>4. size'[n] = s /\ \A m \in Name : m # n => size'[m] = size[m]
  BY <1>0, <1>1 DEF Typed
<1> HIDE DEF n
<1>5. /\ Cardinality(Present) \in Nat /\ Cardinality(Present') \in Nat
      /\ Cardinality(Present') = Cardinality(Present) + CountOf(s) - CountOf(size[n])
      /\ Cardinality(Present \ scan.left) \in Nat /\ Cardinality(Present' \ scan.left) \in Nat
      /\ Cardinality(Present' \ scan.left) <= Cardinality(Present \ scan.left) + 1
  <2>1. scan.left \in SUBSET Name /\ size' = [size EXCEPT ![n] = s]
    BY <1>0 DEF Typed, n
  <2> QED
    BY <1>0, <1>1, <2>1, Changed
<1>6. Typed'
  <2>1. step' \in [Writer -> Step]
    BY <1>0 DEF Typed, Step
  <2>2. size' \in [Name -> Absent..MaxSize]
    BY <1>0, <1>1 DEF Typed
  <2>3. \A v \in Writer : step'[v] # "idle" => write'[v].op \in Operation /\ write'[v].name \in Name
    BY <1>0, <1>1, <1>3 DEF Typed
  <2> QED
    BY <1>0, <1>2, <2>1, <2>2, <2>3 DEF Typed
<1>7. Scanning'
  BY <1>0, <1>2, <1>3 DEF Scanning, Typed
<1>8. Apart'
  <2> SUFFICES ASSUME NEW u \in Writer, NEW v \in Writer, u # v, step'[u] # "idle", step'[v] # "idle",
                      write'[u].name = write'[v].name
               PROVE  {write'[u].op, write'[v].op} \subseteq {"create", "append"}
    BY DEF Apart
  <2>1. step[u] # "idle" /\ step[v] # "idle" /\ write[u].name = write[v].name
        /\ write'[u].op = write[u].op /\ write'[v].op = write[v].op
    BY <1>3
  <2> QED
    BY <1>0, <2>1 DEF Apart
<1>9. Stamped'
  BY <1>0, <1>2, <1>3 DEF Stamped
<1>10. Walked'
  <2>1. SUFFICES ASSUME mutex # Free
                 PROVE  /\ Cardinality(Present' \ scan.left) <= scan.entries + Cardinality(Settling')
                        /\ Settling' # {}
    BY <1>2 DEF Walked
  <2>2. Settling' \ {w} = Settling \ {w} /\ w \in Settling' /\ w \notin Settling
    BY <1>3 DEF Settling
  <2>3. Cardinality(Settling') = Cardinality(Settling) + 1 /\ Cardinality(Settling) \in Nat
    BY <2>2, Sets, SetsNext, DifferAtOne
  <2>4. Cardinality(Present \ scan.left) <= scan.entries + Cardinality(Settling) /\ scan.entries \in Nat
    BY <1>0, <2>1 DEF Walked, Typed
  <2>5. Cardinality(Present' \ scan.left) <= scan.entries + (Cardinality(Settling) + 1)
    BY <1>5, <2>3, <2>4
  <2> QED
    BY <2>2, <2>3, <2>5
<1>11. Within'
  <2>1. Coming' \subseteq Coming \ {w}
    <3> SUFFICES ASSUME NEW v \in Coming' PROVE v \in Coming /\ v # w
      OBVIOUS
    <3>1. v \in Writer /\ v # w /\ step[v] = "admitted" /\ write[v].op # "remove" /\ size'[write[v].name] = Absent
          /\ write[v].name \in Name
      BY <1>0, <1>3 DEF Coming, Typed
    <3>2. size[write[v].name] = Absent
      <4>1. CASE write[v].name # n
        BY <1>4, <3>1, <4>1
      <4>2. CASE write[v].name = n
        <5>1. s = Absent
          BY <1>4, <3>1, <4>2
        <5>2. write[w].op \in {"create", "append"}
          BY <1>0, <3>1, <4>2 DEF Apart, n
        <5> QED
          BY <4>2, <5>1, <5>2 DEF n
      <4> QED
        BY <4>1, <4>2
    <3> QED
      BY <3>1, <3>2 DEF Coming
  <2>2. IsFiniteSet(Coming) /\ Cardinality(Coming) \in Nat /\ IsFiniteSet(Coming') /\ Cardinality(Coming') \in Nat
        /\ Cardinality(Writer) \in Nat /\ MaxEntries \in Nat
    BY Sets, SetsNext, MeasureAssumption
  <2>3. Cardinality(Coming') <= Cardinality(Coming)
    BY <2>1, <2>2, FS_Subset
  <2>4. Cardinality(Present) + Cardinality(Coming) <= MaxEntries + Cardinality(Writer) - 1
    BY <1>0 DEF Within
  <2>5. CASE s # Absent /\ size[n] = Absent
    <3>1. w \in Coming
      BY <2>5 DEF Coming, n
    <3>2. Cardinality(Coming \ {w}) = Cardinality(Coming) - 1 /\ IsFiniteSet(Coming \ {w})
      BY <2>2, <3>1, FS_RemoveElement, FS_Subset
    <3>3. Cardinality(Coming') <= Cardinality(Coming \ {w})
      BY <2>1, <3>2, FS_Subset
    <3>4. Cardinality(Present') = Cardinality(Present) + 1
      BY <1>5, <2>5 DEF CountOf
    <3>5. Cardinality(Present') + Cardinality(Coming') <= MaxEntries + Cardinality(Writer) - 1
      BY <1>5, <2>2, <2>4, <3>2, <3>3, <3>4
    <3> QED
      BY <3>5 DEF Within
  <2>6. CASE s = Absent \/ size[n] # Absent
    <3>1. Cardinality(Present') <= Cardinality(Present)
      <4>1. CountOf(s) \in {0, 1} /\ CountOf(size[n]) \in {0, 1} /\ CountOf(s) <= CountOf(size[n])
        BY <2>6 DEF CountOf
      <4> QED
        BY <1>5, <4>1
    <3>2. Cardinality(Present') + Cardinality(Coming') <= MaxEntries + Cardinality(Writer) - 1
      BY <1>5, <2>2, <2>3, <2>4, <3>1
    <3> QED
      BY <3>2 DEF Within
  <2> QED
    BY <2>5, <2>6
<1> QED
  BY <1>1, <1>2, <1>3, <1>5, <1>6, <1>7, <1>8, <1>9, <1>10, <1>11 DEF n

\* What a write leaves is a size, and nothing where it removes.
LEMMA WrittenSize ==
  ASSUME Typed, NEW w \in Writer, step[w] # "idle", Written(w) <= MaxSize
  PROVE  /\ Written(w) \in Absent..MaxSize
         /\ write[w].op = "remove" => Written(w) = Absent
         /\ write[w].op # "remove" => Written(w) # Absent
<1>1. write[w].op \in Operation /\ write[w].size \in Nat /\ size[write[w].name] \in Absent..MaxSize /\ MaxSize \in Nat
  BY MeasureAssumption DEF Typed, Writes
<1>2. CASE write[w].op = "remove"
  BY <1>1, <1>2 DEF Written, Absent
<1>3. CASE write[w].op = "append"
  <2>1. Written(w) = write[w].size + (IF size[write[w].name] = Absent THEN 0 ELSE size[write[w].name])
    BY <1>3 DEF Written
  <2>2. Written(w) \in Nat
    <3>1. CASE size[write[w].name] = Absent
      BY <1>1, <2>1, <3>1
    <3>2. CASE size[write[w].name] # Absent
      BY <1>1, <2>1, <3>2 DEF Absent
    <3> QED
      BY <3>1, <3>2
  <2> QED
    BY <1>1, <1>3, <2>2 DEF Absent
<1>4. CASE write[w].op \notin {"remove", "append"}
  <2>1. Written(w) = write[w].size
    BY <1>4 DEF Written
  <2> QED
    BY <1>1, <1>4, <2>1 DEF Absent
<1> QED
  BY <1>2, <1>3, <1>4

LEMMA LandKeeps ==
  ASSUME IInv, NEW w \in Writer, Land(w)
  PROVE  IInv'
<1>0. Typed /\ Measured
  BY DEF IInv
<1> DEFINE n == write[w].name
           s == Written(w)
           e == CountOf(s) - CountOf(size[n])
           b == SizeOf(s) - SizeOf(size[n])
<1>1. /\ step[w] = "admitted" /\ s <= MaxSize
      /\ size' = [size EXCEPT ![n] = s]
      /\ write' = [write EXCEPT ![w].entries = e, ![w].bytes = b]
      /\ step' = [step EXCEPT ![w] = "landed"]
      /\ UNCHANGED <<measure, mutex, scan>>
  BY DEF Land, Lands
<1>2. /\ s \in Absent..MaxSize
      /\ write[w].op = "remove" => s = Absent
      /\ write[w].op # "remove" => s # Absent
  BY <1>0, <1>1, WrittenSize
<1>3. size[n] \in Absent..MaxSize
  BY <1>0, <1>1 DEF Typed
<1>4. e \in {-1, 0, 1} /\ b \in Int
  <2>1. CountOf(s) \in {0, 1} /\ CountOf(size[n]) \in {0, 1}
    BY DEF CountOf
  <2>2. SizeOf(s) \in Int /\ SizeOf(size[n]) \in Int
    BY <1>2, <1>3, MeasureAssumption DEF SizeOf, Absent
  <2> QED
    BY <2>1, <2>2
<1> HIDE DEF e, b, s
<1>5. /\ write' \in [Writer -> Writes]
      /\ \A v \in Writer : v # w => write'[v] = write[v]
      /\ write'[w].op = write[w].op /\ write'[w].name = write[w].name
      /\ write'[w].generation = write[w].generation /\ write'[w].entries = e
  <2>1. write[w] \in Writes
    BY <1>0 DEF Typed
  <2>2. [[write[w] EXCEPT !.entries = e] EXCEPT !.bytes = b] \in Writes
    BY <1>4, <2>1 DEF Writes
  <2>3. write'[w] = [[write[w] EXCEPT !.entries = e] EXCEPT !.bytes = b]
        /\ \A v \in Writer : v # w => write'[v] = write[v]
    BY <1>0, <1>1 DEF Typed
  <2>4. write' \in [Writer -> Writes]
    <3>1. \A v \in Writer : write'[v] \in Writes
      BY <1>0, <2>2, <2>3 DEF Typed
    <3>2. write' = [v \in Writer |-> write'[v]]
      BY <1>0, <1>1 DEF Typed
    <3> QED
      BY <3>1, <3>2
  <2> QED
    BY <2>1, <2>3, <2>4 DEF Writes
<1>6. /\ Typed' /\ Scanning' /\ Apart' /\ Stamped' /\ Walked' /\ Within'
      /\ UNCHANGED <<valid, generation, entries, bytes, mutex, scan>>
      /\ step'[w] = "landed" /\ \A v \in Writer : v # w => step'[v] = step[v] /\ write'[v] = write[v]
      /\ Cardinality(Present) \in Nat /\ Cardinality(Present') \in Nat
      /\ Cardinality(Present') = Cardinality(Present) + CountOf(s) - CountOf(size[n])
  BY <1>1, <1>2, <1>5, Over
<1>7. Cardinality(Present') = Cardinality(Present) + e
  <2>1. CountOf(s) \in {0, 1} /\ CountOf(size[n]) \in {0, 1}
    BY DEF CountOf
  <2> QED
    BY <1>6, <2>1 DEF e
<1>8. /\ Uncounted' \ {w} = Uncounted \ {w} /\ Undone' \ {w} = Undone \ {w}
      /\ w \notin Uncounted /\ w \notin Undone
      /\ w \in Uncounted' <=> (write[w].generation = generation => e = 1)
      /\ w \in Undone' <=> write[w].generation = generation /\ e = -1
  BY <1>1, <1>5, <1>6 DEF Uncounted, Undone
<1>9. /\ IsFiniteSet(Uncounted) /\ Cardinality(Uncounted) \in Nat /\ IsFiniteSet(Uncounted')
      /\ IsFiniteSet(Undone) /\ Cardinality(Undone) \in Nat /\ IsFiniteSet(Undone') /\ entries \in Int
  BY <1>0, Sets, SetsNext DEF Typed
<1>10. Trusted' => Trusted /\ write[w].generation = generation
  <2>1. Settling \subseteq Settling' /\ w \in Settling' /\ w \notin Settling
    BY <1>1, <1>6 DEF Settling
  <2> SUFFICES ASSUME \A v \in Settling' : step'[v] = "landed" /\ write'[v].generation = generation'
               PROVE  /\ \A v \in Settling : step[v] = "landed" /\ write[v].generation = generation
                      /\ write[w].generation = generation
    BY DEF Trusted
  <2>2. write[w].generation = generation
    BY <1>5, <1>6, <2>1
  <2>3. ASSUME NEW v \in Settling PROVE step[v] = "landed" /\ write[v].generation = generation
    <3>1. v \in Settling' /\ v # w /\ v \in Writer
      BY <2>1 DEF Settling
    <3> QED
      BY <1>6, <3>1
  <2> QED
    BY <2>2, <2>3
<1>11. Measured'
  <2>1. SUFFICES ASSUME valid
                 PROVE  /\ Cardinality(Present') <= entries + Cardinality(Uncounted') - Cardinality(Undone')
                        /\ Trusted' => Cardinality(Present') = entries + Cardinality(Uncounted') - Cardinality(Undone')
    BY <1>6 DEF Measured
  <2>2. /\ Cardinality(Present) <= entries + Cardinality(Uncounted) - Cardinality(Undone)
        /\ Trusted => Cardinality(Present) = entries + Cardinality(Uncounted) - Cardinality(Undone)
    BY <1>0, <2>1 DEF Measured
  <2>3. CASE write[w].generation # generation
    <3>1. Cardinality(Uncounted') = Cardinality(Uncounted) + 1 /\ Cardinality(Undone') = Cardinality(Undone)
      BY <1>8, <1>9, <2>3, DifferAtOne
    <3>2. Cardinality(Present) + e <= entries + (Cardinality(Uncounted) + 1) - Cardinality(Undone)
      BY <1>4, <1>6, <1>9, <2>2
    <3> QED
      BY <1>7, <1>10, <2>3, <3>1, <3>2
  <2>4. CASE write[w].generation = generation
    <3>1. Cardinality(Uncounted') - Cardinality(Undone') = Cardinality(Uncounted) - Cardinality(Undone) + e
          /\ Cardinality(Uncounted') \in Nat /\ Cardinality(Undone') \in Nat
      <4>1. CASE e = 1
        <5>1. Cardinality(Uncounted') = Cardinality(Uncounted) + 1 /\ Cardinality(Undone') = Cardinality(Undone)
          BY <1>8, <1>9, <2>4, <4>1, DifferAtOne
        <5> QED
          BY <1>9, <4>1, <5>1
      <4>2. CASE e = 0
        <5>1. Cardinality(Uncounted') = Cardinality(Uncounted) /\ Cardinality(Undone') = Cardinality(Undone)
          BY <1>8, <1>9, <2>4, <4>2, DifferAtOne
        <5> QED
          BY <1>9, <4>2, <5>1
      <4>3. CASE e = -1
        <5>1. Cardinality(Uncounted') = Cardinality(Uncounted) /\ Cardinality(Undone') = Cardinality(Undone) + 1
          BY <1>8, <1>9, <2>4, <4>3, DifferAtOne
        <5> QED
          BY <1>9, <4>3, <5>1
      <4> QED
        BY <1>4, <4>1, <4>2, <4>3
    <3>2. /\ Cardinality(Present) + e <= entries + Cardinality(Uncounted') - Cardinality(Undone')
          /\ Trusted => Cardinality(Present) + e = entries + Cardinality(Uncounted') - Cardinality(Undone')
      BY <1>4, <1>6, <1>9, <2>2, <3>1
    <3> QED
      BY <1>7, <1>10, <3>2
  <2> QED
    BY <2>3, <2>4
<1> QED
  BY <1>6, <1>11 DEF IInv

LEMMA FailKeeps ==
  ASSUME IInv, NEW w \in Writer, Fail(w)
  PROVE  IInv'
<1>0. Typed /\ Measured
  BY DEF IInv
<1> DEFINE n == write[w].name
<1>1. /\ step[w] = "admitted" /\ step' = [step EXCEPT ![w] = "failed"]
      /\ UNCHANGED <<measure, mutex, scan, write>>
  BY DEF Fail
<1>2. n \in Name /\ size[n] \in Absent..MaxSize /\ 0 \in Absent..MaxSize
  BY <1>0, <1>1, MeasureAssumption DEF Typed, Absent
<1>3. PICK s \in Absent..MaxSize :
        /\ size' = [size EXCEPT ![n] = s]
        /\ write[w].op # "remove" => s # Absent \/ size[n] = Absent
        /\ write[w].op = "remove" => s = Absent \/ s = size[n]
  <2>1. CASE UNCHANGED size
    <3>1. size' = [size EXCEPT ![n] = size[n]]
      BY <1>0, <1>2, <2>1 DEF Typed
    <3> QED
      BY <1>2, <3>1
  <2>2. CASE Lands(w) /\ size' = [size EXCEPT ![n] = Written(w)]
    <3>1. Written(w) <= MaxSize
      BY <2>2 DEF Lands
    <3>2. /\ Written(w) \in Absent..MaxSize
          /\ write[w].op = "remove" => Written(w) = Absent
          /\ write[w].op # "remove" => Written(w) # Absent
      BY <1>0, <1>1, <3>1, WrittenSize
    <3> QED
      BY <2>2, <3>2
  <2>3. CASE write[w].op = "append" /\ size[n] = Absent /\ size' = [size EXCEPT ![n] = 0]
    BY <1>2, <2>3
  <2> QED
    BY <2>1, <2>2, <2>3 DEF Fail
<1>4. /\ write' \in [Writer -> Writes] /\ write' = write
  BY <1>0, <1>1 DEF Typed
<1>5. /\ Typed' /\ Scanning' /\ Apart' /\ Stamped' /\ Walked' /\ Within'
      /\ UNCHANGED <<valid, generation, entries, bytes, mutex, scan>>
      /\ step'[w] = "failed" /\ \A v \in Writer : v # w => step'[v] = step[v] /\ write'[v] = write[v]
      /\ Cardinality(Present) \in Nat /\ Cardinality(Present') \in Nat
      /\ Cardinality(Present') = Cardinality(Present) + CountOf(s) - CountOf(size[n])
  BY <1>1, <1>3, <1>4, Over
<1>6. Cardinality(Present') <= Cardinality(Present) + 1
  <2>1. CountOf(s) \in {0, 1} /\ CountOf(size[n]) \in {0, 1}
    BY DEF CountOf
  <2> QED
    BY <1>5, <2>1
<1>7. /\ Uncounted' \ {w} = Uncounted \ {w} /\ Undone' = Undone
      /\ w \notin Uncounted /\ w \in Uncounted' /\ ~ Trusted'
  BY <1>1, <1>4, <1>5 DEF Uncounted, Undone, Trusted, Settling
<1>8. /\ IsFiniteSet(Uncounted) /\ Cardinality(Uncounted) \in Nat /\ IsFiniteSet(Uncounted')
      /\ Cardinality(Undone) \in Nat /\ entries \in Int
  BY <1>0, Sets, SetsNext DEF Typed
<1>9. Measured'
  <2>1. SUFFICES ASSUME valid
                 PROVE  Cardinality(Present') <= entries + Cardinality(Uncounted') - Cardinality(Undone)
    BY <1>5, <1>7 DEF Measured
  <2>2. Cardinality(Present) <= entries + Cardinality(Uncounted) - Cardinality(Undone)
    BY <1>0, <2>1 DEF Measured
  <2>3. Cardinality(Uncounted') = Cardinality(Uncounted) + 1
    BY <1>7, <1>8, DifferAtOne
  <2>4. Cardinality(Present') <= entries + (Cardinality(Uncounted) + 1) - Cardinality(Undone)
    <3>1. PICK p \in Nat : p = Cardinality(Present')
      BY <1>5
    <3>2. p <= entries + (Cardinality(Uncounted) + 1) - Cardinality(Undone)
      BY <1>5, <1>6, <1>8, <2>2, <3>1
    <3> QED
      BY <3>1, <3>2
  <2> QED
    BY <2>3, <2>4
<1> QED
  BY <1>5, <1>9 DEF IInv

-----------------------------------------------------------------------------
(* Settling *)

\* A write leaves its writer with nothing to do.
LEMMA Settled ==
  ASSUME IInv, NEW w \in Writer, step[w] \in {"landed", "failed"}, mutex = Free,
         step' = [step EXCEPT ![w] = "idle"], write' = [write EXCEPT ![w] = NoWrite],
         UNCHANGED <<size, generation, mutex, scan>>, valid' \in BOOLEAN, entries' \in Int
  PROVE  /\ Typed' /\ Scanning' /\ Apart' /\ Stamped' /\ Walked' /\ Within'
         /\ Present' = Present /\ Uncounted' = Uncounted \ {w} /\ Undone' = Undone \ {w}
         /\ step'[w] = "idle" /\ \A v \in Writer : v # w => step'[v] = step[v] /\ write'[v] = write[v]
<1>0. Typed /\ Scanning /\ Apart /\ Stamped
  BY DEF IInv
<1>1. step'[w] = "idle" /\ \A v \in Writer : v # w => step'[v] = step[v] /\ write'[v] = write[v]
  BY <1>0 DEF Typed
<1>2. Typed'
  <2>1. NoWrite \in Writes
    BY DEF NoWrite, Writes
  <2>2. step' \in [Writer -> Step] /\ write' \in [Writer -> Writes]
    BY <1>0, <2>1 DEF Typed, Step
  <2>3. \A v \in Writer : step'[v] # "idle" => write'[v].op \in Operation /\ write'[v].name \in Name
    BY <1>0, <1>1 DEF Typed
  <2> QED
    BY <1>0, <2>2, <2>3 DEF Typed
<1>3. Scanning' /\ Walked'
  BY DEF Scanning, Walked
<1>4. Apart'
  BY <1>0, <1>1 DEF Apart
<1>5. Stamped'
  BY <1>0, <1>1 DEF Stamped
<1>6. /\ Uncounted' \ {w} = Uncounted \ {w} /\ Undone' \ {w} = Undone \ {w}
      /\ Coming' \ {w} = Coming \ {w} /\ Present' = Present
  BY <1>1, AtOne
<1>7. w \notin Uncounted' /\ w \notin Undone' /\ w \notin Coming'
  BY <1>1, IdleNext
<1>8. w \notin Coming
  BY DEF Coming
<1>9. Uncounted' = Uncounted \ {w} /\ Undone' = Undone \ {w} /\ Coming' = Coming
  BY <1>6, <1>7, <1>8
<1>10. Within'
  BY <1>6, <1>9 DEF IInv, Within
<1> QED
  BY <1>1, <1>2, <1>3, <1>4, <1>5, <1>6, <1>9, <1>10

LEMMA SettleKeeps ==
  ASSUME IInv, NEW w \in Writer, Settle(w)
  PROVE  IInv'
<1>0. Typed /\ Measured
  BY DEF IInv
<1> DEFINE counted == valid /\ write[w].generation = generation
           e == write[w].entries
<1>1. /\ step[w] = "landed" /\ mutex = Free
      /\ valid' = (valid /\ write[w].generation = generation)
      /\ entries' = entries + (IF counted THEN e ELSE 0)
      /\ step' = [step EXCEPT ![w] = "idle"] /\ write' = [write EXCEPT ![w] = NoWrite]
      /\ UNCHANGED <<size, generation, mutex, scan>>
  BY DEF Settle
<1>2. e \in {-1, 0, 1} /\ entries \in Int
  BY <1>0 DEF Typed, Writes
<1>3. valid' \in BOOLEAN
  BY <1>1
<1>4. entries' \in Int
  <2>1. CASE counted
    BY <1>1, <1>2, <2>1
  <2>2. CASE ~ counted
    BY <1>1, <1>2, <2>2
  <2> QED
    BY <2>1, <2>2
<1>5. /\ Typed' /\ Scanning' /\ Apart' /\ Stamped' /\ Walked' /\ Within'
      /\ Present' = Present /\ Uncounted' = Uncounted \ {w} /\ Undone' = Undone \ {w}
      /\ step'[w] = "idle" /\ \A v \in Writer : v # w => step'[v] = step[v] /\ write'[v] = write[v]
  BY <1>1, <1>3, <1>4, Settled
<1>6. Measured'
  <2>1. SUFFICES ASSUME valid'
                 PROVE  Measured'
    BY DEF Measured
  <2>2. valid /\ write[w].generation = generation
    BY <1>1, <2>1
  <2>3. entries' = entries + e
    BY <1>1, <2>2
  <2>4. /\ Cardinality(Present) <= entries + Cardinality(Uncounted) - Cardinality(Undone)
        /\ Trusted => Cardinality(Present) = entries + Cardinality(Uncounted) - Cardinality(Undone)
    BY <1>0, <2>2 DEF Measured
  <2>5. Trusted' => Trusted
    <3>1. \A v \in Settling : v # w => v \in Settling'
      BY <1>5 DEF Settling
    <3> QED
      BY <1>1, <1>5, <2>2, <3>1 DEF Trusted, Settling
  <2>6. /\ IsFiniteSet(Uncounted) /\ Cardinality(Uncounted) \in Nat
        /\ IsFiniteSet(Undone) /\ Cardinality(Undone) \in Nat /\ Cardinality(Present) \in Nat
    BY Sets
  <2>7. (w \in Uncounted <=> e = 1) /\ (w \in Undone <=> e = -1)
    BY <1>1, <2>2 DEF Uncounted, Undone
  <2>8. Cardinality(Uncounted') - Cardinality(Undone') = Cardinality(Uncounted) - Cardinality(Undone) - e
        /\ Cardinality(Uncounted') \in Nat /\ Cardinality(Undone') \in Nat
    <3>1. CASE e = 1
      <4>1. Cardinality(Uncounted') = Cardinality(Uncounted) - 1 /\ Undone' = Undone /\ Cardinality(Uncounted') \in Nat
        BY <1>5, <2>6, <2>7, <3>1, FS_RemoveElement, SetsNext
      <4> QED
        BY <2>6, <3>1, <4>1
    <3>2. CASE e = 0
      <4>1. Uncounted' = Uncounted /\ Undone' = Undone
        BY <1>5, <2>7, <3>2
      <4> QED
        BY <2>6, <3>2, <4>1
    <3>3. CASE e = -1
      <4>1. Cardinality(Undone') = Cardinality(Undone) - 1 /\ Uncounted' = Uncounted /\ Cardinality(Undone') \in Nat
        BY <1>5, <2>6, <2>7, <3>3, FS_RemoveElement, SetsNext
      <4> QED
        BY <2>6, <3>3, <4>1
    <3> QED
      BY <1>2, <3>1, <3>2, <3>3
  <2>9. /\ Cardinality(Present) <= (entries + e) + Cardinality(Uncounted') - Cardinality(Undone')
        /\ Trusted => Cardinality(Present) = (entries + e) + Cardinality(Uncounted') - Cardinality(Undone')
    BY <1>2, <2>4, <2>6, <2>8
  <2> QED
    BY <1>5, <2>3, <2>5, <2>9 DEF Measured
<1> QED
  BY <1>5, <1>6 DEF IInv

LEMMA ForgetKeeps ==
  ASSUME IInv, NEW w \in Writer, Forget(w)
  PROVE  IInv'
<1>1. /\ step[w] = "failed" /\ mutex = Free /\ valid' = FALSE
      /\ step' = [step EXCEPT ![w] = "idle"] /\ write' = [write EXCEPT ![w] = NoWrite]
      /\ UNCHANGED <<size, generation, entries, bytes, mutex, scan>>
  BY DEF Forget
<1>2. valid' \in BOOLEAN /\ entries' \in Int
  BY <1>1 DEF IInv, Typed
<1>3. Typed' /\ Scanning' /\ Apart' /\ Stamped' /\ Walked' /\ Within'
  BY <1>1, <1>2, Settled
<1>4. Measured'
  BY <1>1 DEF Measured
<1> QED
  BY <1>3, <1>4 DEF IInv

LEMMA StutterKeeps ==
  ASSUME IInv, UNCHANGED vars
  PROVE  IInv'
<1>1. UNCHANGED <<size, valid, generation, entries, bytes, mutex, scan, step, write>>
  BY DEF vars, measure
<1>2. Uncounted' = Uncounted /\ Undone' = Undone /\ Settling' = Settling /\ Coming' = Coming /\ Present' = Present
  BY <1>1 DEF Uncounted, Undone, Settling, Coming, Present
<1>3. Trusted' => Trusted
  BY <1>1, <1>2 DEF Trusted
<1>4. Typed' /\ Scanning' /\ Apart' /\ Stamped'
  BY <1>1 DEF IInv, Typed, Scanning, Apart, Stamped
<1>5. Measured' /\ Walked' /\ Within'
  BY <1>1, <1>2, <1>3, CountsStay
<1> QED
  BY <1>4, <1>5 DEF IInv

LEMMA Initially ==
  ASSUME Init PROVE IInv
<1>1. /\ size \in [Name -> {Absent, 0}] /\ Cardinality(Present) <= MaxEntries
      /\ valid = FALSE /\ generation = 0 /\ entries = 0 /\ mutex = Free /\ scan = NoScan
      /\ step = [w \in Writer |-> "idle"] /\ write = [w \in Writer |-> NoWrite]
  BY DEF Init
<1>2. Typed
  <2>1. NoWrite \in Writes
    BY DEF NoWrite, Writes
  <2>2. size \in [Name -> Absent..MaxSize]
    BY <1>1, MeasureAssumption DEF Absent
  <2>3. step \in [Writer -> Step] /\ write \in [Writer -> Writes]
    BY <1>1, <2>1 DEF Step
  <2>4. scan \in [left : SUBSET Name, entries : Nat, bytes : Int]
    BY <1>1 DEF NoScan
  <2>5. \A w \in Writer : step[w] = "idle"
    BY <1>1
  <2>6. generation \in Nat /\ entries \in Int /\ mutex \in Writer \union {Free}
    BY <1>1
  <2>7. valid \in BOOLEAN
    BY <1>1
  <2> QED
    BY <2>2, <2>3, <2>4, <2>5, <2>6, <2>7 DEF Typed
<1>3. Scanning /\ Apart /\ Stamped /\ Measured /\ Walked
  BY <1>1 DEF Scanning, Apart, Stamped, Measured, Walked
<1>4. Within
  <2>1. Coming = {}
    BY <1>1 DEF Coming
  <2>2. Cardinality(Coming) = 0
    BY <2>1, FS_EmptySet
  <2>3. Cardinality(Writer) >= 1 /\ Cardinality(Writer) \in Nat
    BY MeasureAssumption, FS_EmptySet, FS_CardinalityType
  <2>4. Cardinality(Present) \in Nat /\ MaxEntries \in Nat
    BY Sets, MeasureAssumption
  <2> QED
    BY <1>1, <2>2, <2>3, <2>4 DEF Within
<1> QED
  BY <1>2, <1>3, <1>4 DEF IInv

(***************************************************************************)
(* The accounts of the measurement, of a scan and of the bound hold of     *)
(* every state, for any number of writers and names.                       *)
(***************************************************************************)
THEOREM Invariance == Spec => []IInv
<1>1. Init => IInv
  BY Initially
<1>2. IInv /\ [Next]_vars => IInv'
  <2> SUFFICES ASSUME IInv, [Next]_vars PROVE IInv'
    OBVIOUS
  <2>1. ASSUME NEW w \in Writer, \E op \in Operation, n \in Name, s \in 0..MaxSize : Begin(w, op, n, s) PROVE IInv'
    BY <2>1, BeginKeeps
  <2>2. ASSUME NEW w \in Writer, Admit(w) PROVE IInv'
    BY <2>2, AdmitKeeps
  <2>3. ASSUME NEW w \in Writer, StartScan(w) \/ Visit(w) \/ EndScan(w) \/ ScanFails(w) PROVE IInv'
    BY <2>3, StartScanKeeps, VisitKeeps, EndScanKeeps, ScanFailsKeeps
  <2>4. ASSUME NEW w \in Writer, Land(w) \/ Fail(w) PROVE IInv'
    BY <2>4, LandKeeps, FailKeeps
  <2>5. ASSUME NEW w \in Writer, Settle(w) \/ Forget(w) PROVE IInv'
    BY <2>5, SettleKeeps, ForgetKeeps
  <2>6. CASE UNCHANGED vars
    BY <2>6, StutterKeeps
  <2> QED
    BY <2>1, <2>2, <2>3, <2>4, <2>5, <2>6 DEF Next
<1> QED
  BY <1>1, <1>2, PTL DEF Spec

-----------------------------------------------------------------------------
(* The bytes *)

\* What the writes that landed and are not counted added, and what they took away.
Gained == {u \in Writer \X (1..MaxSize) : step[u[1]] = "landed" /\ u[2] <= write[u[1]].bytes}
Lost == {u \in Writer \X (1..MaxSize) : step[u[1]] = "landed" /\ u[2] <= 0 - write[u[1]].bytes}

\* What a scan has walked past.
Passed == {u \in Stored : u[1] \notin scan.left}

Sized == \A w \in Writer : step[w] = "landed" => write[w].bytes \in (0 - MaxSize)..MaxSize

Weighed == valid /\ Trusted => Cardinality(Stored) = bytes + Cardinality(Gained) - Cardinality(Lost)

Surveyed == mutex # Free /\ Settling = {} => Cardinality(Passed) = scan.bytes

Weights == bytes \in Int /\ Sized /\ Weighed /\ Surveyed

\* Of a set of units, x has the first a.
Has(U, x, a) == \A k \in 1..MaxSize : <<x, k>> \in U <=> k <= a

\* A set of units holds a part's own beside the others.
LEMMA PartOf ==
  ASSUME NEW D, IsFiniteSet(D), NEW U \in SUBSET (D \X (1..MaxSize)), NEW x \in D, NEW a \in 0..MaxSize,
         Has(U, x, a),
         NEW R, R = {u \in U : u[1] # x}
  PROVE  Cardinality(U) = Cardinality(R) + a /\ Cardinality(U) \in Nat /\ Cardinality(R) \in Nat
<1> DEFINE P == {x} \X (1..a)
<1>1. MaxSize \in Int /\ a \in Int /\ 1 \in Int /\ a >= 0 /\ a <= MaxSize
  BY MeasureAssumption
<1>2. IsFiniteSet(1..MaxSize) /\ IsFiniteSet(1..a) /\ Cardinality(1..a) = a
  <2>1. IsFiniteSet(1..MaxSize) /\ IsFiniteSet(1..a)
    BY <1>1, FS_Interval
  <2>2. Cardinality(1..a) = IF 1 > a THEN 0 ELSE a - 1 + 1
    BY <1>1, FS_Interval
  <2> QED
    BY <1>1, <2>1, <2>2
<1>3. IsFiniteSet(D \X (1..MaxSize))
  BY <1>2, FS_Product
<1>4. IsFiniteSet(U) /\ IsFiniteSet(R)
  BY <1>3, FS_Subset
<1>5. IsFiniteSet({x}) /\ Cardinality({x}) = 1
  BY FS_Singleton
<1>6. IsFiniteSet(P) /\ Cardinality(P) = a
  <2>1. IsFiniteSet(P) /\ Cardinality(P) = Cardinality({x}) * Cardinality(1..a)
    BY <1>2, <1>5, FS_Product
  <2>2. Cardinality(P) = 1 * a
    BY <1>2, <1>5, <2>1
  <2> QED
    BY <1>1, <2>1, <2>2
<1>7. U = R \union P
  <2>1. ASSUME NEW u \in U PROVE u \in R \union P
    <3>1. u = <<u[1], u[2]>> /\ u[2] \in 1..MaxSize
      OBVIOUS
    <3>2. CASE u[1] = x
      <4>1. u[2] <= a
        BY <3>1, <3>2 DEF Has
      <4>2. u[2] \in 1..a
        BY <1>1, <3>1, <4>1
      <4> QED
        BY <3>1, <3>2, <4>2
    <3> QED
      BY <3>2
  <2>2. ASSUME NEW u \in P PROVE u \in U
    <3>1. u = <<x, u[2]>> /\ u[2] \in 1..a
      OBVIOUS
    <3>2. u[2] \in 1..MaxSize /\ u[2] <= a
      BY <1>1, <3>1
    <3> QED
      BY <3>1, <3>2 DEF Has
  <2> QED
    BY <2>1, <2>2
<1>8. R \intersect P = {}
  OBVIOUS
<1> HIDE DEF P
<1>9. Cardinality(R) \in Nat /\ Cardinality(U) \in Nat /\ Cardinality(R \intersect P) = 0
  BY <1>4, <1>8, FS_CardinalityType, FS_EmptySet
<1>10. Cardinality(R \union P) = Cardinality(R) + Cardinality(P) - Cardinality(R \intersect P)
  BY <1>4, <1>6, FS_Union
<1>11. Cardinality(U) = Cardinality(R) + a
  <2>1. Cardinality(U) = Cardinality(R) + a - 0
    BY <1>6, <1>7, <1>9, <1>10
  <2> QED
    BY <1>1, <1>9, <2>1
<1> QED
  BY <1>9, <1>11

\* Two sets of units that differ in one part differ by it.
LEMMA PartChanged ==
  ASSUME NEW D, IsFiniteSet(D), NEW x \in D,
         NEW U \in SUBSET (D \X (1..MaxSize)), NEW V \in SUBSET (D \X (1..MaxSize)),
         {u \in U : u[1] # x} = {u \in V : u[1] # x},
         NEW a \in 0..MaxSize, Has(U, x, a), NEW b \in 0..MaxSize, Has(V, x, b)
  PROVE  Cardinality(V) = Cardinality(U) + b - a /\ Cardinality(U) \in Nat /\ Cardinality(V) \in Nat
<1> DEFINE R == {u \in U : u[1] # x}
<1>1. R = {u \in U : u[1] # x} /\ R = {u \in V : u[1] # x}
  OBVIOUS
<1> HIDE DEF R
<1>2. Cardinality(U) = Cardinality(R) + a /\ Cardinality(U) \in Nat /\ Cardinality(R) \in Nat
  BY <1>1, PartOf
<1>3. Cardinality(V) = Cardinality(R) + b /\ Cardinality(V) \in Nat
  BY <1>1, PartOf
<1>4. a \in Int /\ b \in Int
  BY MeasureAssumption
<1> QED
  BY <1>2, <1>3, <1>4

LEMMA FiniteUnits == IsFiniteSet(Writer \X (1..MaxSize)) /\ IsFiniteSet(Name \X (1..MaxSize))
<1>1. IsFiniteSet(1..MaxSize)
  BY MeasureAssumption, FS_Interval
<1> QED
  BY <1>1, MeasureAssumption, FS_Product

LEMMA UnitsCounted ==
  /\ Cardinality(Stored) \in Nat /\ Cardinality(Stored') \in Nat
  /\ Cardinality(Gained) \in Nat /\ Cardinality(Gained') \in Nat
  /\ Cardinality(Lost) \in Nat /\ Cardinality(Lost') \in Nat
<1>1. /\ Stored \in SUBSET (Name \X (1..MaxSize)) /\ Stored' \in SUBSET (Name \X (1..MaxSize))
      /\ Gained \in SUBSET (Writer \X (1..MaxSize)) /\ Gained' \in SUBSET (Writer \X (1..MaxSize))
      /\ Lost \in SUBSET (Writer \X (1..MaxSize)) /\ Lost' \in SUBSET (Writer \X (1..MaxSize))
  BY DEF Stored, Gained, Lost
<1> QED
  BY <1>1, FiniteUnits, FS_Subset, FS_CardinalityType

\* A step that lands and settles nothing leaves the accounts.
LEMMA WeightsStay ==
  ASSUME IInv, Weights, NEW w \in Writer,
         \A v \in Writer : v # w => step'[v] = step[v] /\ write'[v] = write[v],
         step[w] \notin {"landed", "failed"}, step'[w] # "landed",
         UNCHANGED <<size, valid, generation, bytes, mutex, scan>>
  PROVE  Weights'
<1>1. Stored' = Stored /\ Passed' = Passed
  BY DEF Stored, Passed
<1>2. Gained' = Gained
  BY DEF Gained
<1>3. Lost' = Lost
  BY DEF Lost
<1>4. Settling \subseteq Settling' /\ w \notin Settling
  BY DEF Settling
<1>5. Trusted' => Trusted
  <2>1. \A v \in Settling : v # w /\ v \in Writer /\ v \in Settling'
    BY <1>4 DEF Settling
  <2> QED
    BY <2>1 DEF Trusted
<1>6. bytes' \in Int
  BY DEF Weights
<1>7. Sized'
  BY DEF Weights, Sized
<1>8. Weighed'
  BY <1>1, <1>2, <1>3, <1>5 DEF Weights, Weighed
<1>9. Surveyed'
  BY <1>1, <1>4 DEF Weights, Surveyed
<1> QED
  BY <1>6, <1>7, <1>8, <1>9 DEF Weights

LEMMA AskingWeighs ==
  ASSUME IInv, Weights, NEW w \in Writer,
         \/ \E op \in Operation, n \in Name, s \in 0..MaxSize : Begin(w, op, n, s)
         \/ Admit(w)
  PROVE  Weights'
<1>1. UNCHANGED <<size, valid, generation, bytes, mutex, scan>>
  BY DEF Begin, Admit, measure
<1>2. /\ step[w] \in {"idle", "asking"} /\ step'[w] # "landed"
      /\ \A v \in Writer : v # w => step'[v] = step[v] /\ write'[v] = write[v]
  BY DEF Begin, Admit, Answer, IInv, Typed
<1> QED
  BY <1>1, <1>2, WeightsStay

LEMMA StartScanWeighs ==
  ASSUME IInv, Weights, NEW w \in Writer, StartScan(w)
  PROVE  Weights'
<1>1. /\ ~ valid /\ scan' = [left |-> Name, entries |-> 0, bytes |-> 0]
      /\ UNCHANGED <<size, valid, generation, entries, bytes, step, write>>
  BY DEF StartScan, measure
<1>2. Surveyed'
  <2>1. Passed' = {}
    BY <1>1 DEF Passed, Stored
  <2>2. Cardinality(Passed') = 0 /\ scan'.bytes = 0
    BY <1>1, <2>1, FS_EmptySet
  <2> QED
    BY <2>2 DEF Surveyed
<1> QED
  BY <1>1, <1>2 DEF Weights, Sized, Weighed

\* What a name stores.
LEMMA StoredAt ==
  ASSUME Typed, NEW n \in Name
  PROVE  SizeOf(size[n]) \in 0..MaxSize /\ Has(Stored, n, SizeOf(size[n]))
<1>1. size[n] \in Absent..MaxSize /\ MaxSize \in Nat
  BY MeasureAssumption DEF Typed
<1>2. SizeOf(size[n]) \in 0..MaxSize
  BY <1>1 DEF SizeOf, Absent
<1>3. \A k \in 1..MaxSize : k <= size[n] <=> k <= SizeOf(size[n])
  BY <1>1 DEF SizeOf, Absent
<1> QED
  BY <1>2, <1>3 DEF Has, Stored

LEMMA VisitWeighs ==
  ASSUME IInv, Weights, NEW w \in Writer, Visit(w)
  PROVE  Weights'
<1>0. Typed /\ Scanning
  BY DEF IInv
<1>1. PICK n \in scan.left :
        scan' = [left    |-> scan.left \ {n},
                 entries |-> scan.entries + (IF size[n] = Absent THEN 0 ELSE 1),
                 bytes   |-> scan.bytes + (IF size[n] = Absent THEN 0 ELSE size[n])]
  BY DEF Visit
<1>2. mutex = w /\ mutex # Free /\ UNCHANGED <<size, valid, generation, entries, bytes, mutex, step, write>>
  BY MeasureAssumption DEF Visit, measure
<1>3. ~ valid /\ n \in Name /\ scan.bytes \in Int
  BY <1>0, <1>1, <1>2 DEF Scanning, Typed
<1>4. Stored' = Stored /\ Settling' = Settling
  BY <1>2 DEF Stored, Settling
<1>5. Surveyed'
  <2>1. SUFFICES ASSUME Settling = {} PROVE Cardinality(Passed') = scan'.bytes
    BY <1>4 DEF Surveyed
  <2>2. Cardinality(Passed) = scan.bytes
    BY <1>2, <2>1 DEF Weights, Surveyed
  <2>3. scan'.left = scan.left \ {n} /\ scan'.bytes = scan.bytes + SizeOf(size[n])
    BY <1>1 DEF SizeOf
  <2>4. Passed \in SUBSET (Name \X (1..MaxSize)) /\ Passed' \in SUBSET (Name \X (1..MaxSize))
    BY DEF Passed, Stored
  <2>5. {u \in Passed : u[1] # n} = {u \in Passed' : u[1] # n}
    BY <1>4, <2>3 DEF Passed
  <2>6. 0 \in 0..MaxSize /\ Has(Passed, n, 0)
    BY <1>1, MeasureAssumption DEF Passed, Has
  <2>7. SizeOf(size[n]) \in 0..MaxSize /\ Has(Stored, n, SizeOf(size[n]))
    BY <1>0, <1>3, StoredAt
  <2>8. Has(Passed', n, SizeOf(size[n]))
    <3>1. \A k \in 1..MaxSize : <<n, k>> \in Passed' <=> <<n, k>> \in Stored
      BY <1>4, <2>3 DEF Passed
    <3> QED
      BY <2>7, <3>1 DEF Has
  <2>9. Cardinality(Passed') = Cardinality(Passed) + SizeOf(size[n]) - 0
    BY <1>3, <2>4, <2>5, <2>6, <2>7, <2>8, PartChanged, MeasureAssumption
  <2> QED
    BY <1>3, <2>2, <2>3, <2>7, <2>9, MeasureAssumption
<1> QED
  BY <1>2, <1>3, <1>5 DEF Weights, Sized, Weighed

LEMMA EndScanWeighs ==
  ASSUME IInv, Weights, NEW w \in Writer, EndScan(w)
  PROVE  Weights'
<1>0. Typed /\ Scanning /\ Stamped
  BY DEF IInv
<1>1. /\ mutex = w /\ mutex # Free /\ scan.left = {} /\ mutex' = Free
      /\ generation' = generation + 1 /\ bytes' = scan.bytes /\ size' = size
  BY MeasureAssumption DEF EndScan
<1>2. /\ step[w] = "asking" /\ step'[w] # "landed" /\ generation \in Nat /\ scan.bytes \in Int
      /\ \A v \in Writer : v # w => step'[v] = step[v] /\ write'[v] = write[v]
  BY <1>0, <1>1 DEF EndScan, Answer, Scanning, Typed
<1>3. Weighed'
  <2>1. SUFFICES ASSUME Trusted'
                 PROVE  Cardinality(Stored') = bytes' + Cardinality(Gained') - Cardinality(Lost')
    BY DEF Weighed
  <2>2. Settling' = {}
    <3>1. ASSUME NEW v \in Settling' PROVE FALSE
      <4>1. v \in Writer /\ step'[v] = "landed" /\ write'[v].generation = generation'
        BY <2>1, <3>1 DEF Trusted, Settling
      <4>2. v # w
        BY <1>2, <4>1
      <4>3. write[v].generation <= generation /\ write[v].generation \in Nat
        BY <1>0, <1>2, <4>1, <4>2 DEF Stamped, Typed, Writes
      <4> QED
        BY <1>1, <1>2, <4>1, <4>2, <4>3
    <3> QED
      BY <3>1
  <2>3. Settling = {}
    <3>1. Settling \subseteq Settling'
      BY <1>2 DEF Settling
    <3> QED
      BY <2>2, <3>1
  <2>4. Cardinality(Passed) = scan.bytes
    BY <1>1, <2>3 DEF Weights, Surveyed
  <2>5. Passed = Stored /\ Stored' = Stored
    BY <1>1 DEF Passed, Stored
  <2>6. Gained' = {} /\ Lost' = {}
    BY <2>2 DEF Gained, Lost, Settling
  <2>7. Cardinality(Gained') = 0 /\ Cardinality(Lost') = 0
    BY <2>6, FS_EmptySet
  <2> QED
    BY <1>1, <1>2, <2>4, <2>5, <2>7
<1>4. Sized'
  BY <1>2 DEF Weights, Sized
<1>5. bytes' \in Int /\ Surveyed'
  BY <1>1, <1>2 DEF Surveyed
<1> QED
  BY <1>3, <1>4, <1>5 DEF Weights

LEMMA ScanFailsWeighs ==
  ASSUME IInv, Weights, NEW w \in Writer, ScanFails(w)
  PROVE  Weights'
<1>1. /\ mutex' = Free /\ ~ valid' /\ bytes' = bytes
  BY MeasureAssumption DEF ScanFails, measure, IInv, Scanning
<1>2. \A v \in Writer : step'[v] = "landed" => step[v] = "landed" /\ write'[v] = write[v]
  BY DEF ScanFails, IInv, Typed
<1>3. Sized'
  BY <1>2 DEF Weights, Sized
<1> QED
  BY <1>1, <1>3 DEF Weights, Weighed, Surveyed

\* What a write that landed adds, or takes away.
More(b) == IF b > 0 THEN b ELSE 0
Less(b) == IF b < 0 THEN 0 - b ELSE 0

LEMMA Amounts ==
  ASSUME NEW b \in (0 - MaxSize)..MaxSize
  PROVE  /\ More(b) \in 0..MaxSize /\ Less(b) \in 0..MaxSize /\ More(b) - Less(b) = b
         /\ \A k \in 1..MaxSize : (k <= b <=> k <= More(b)) /\ (k <= 0 - b <=> k <= Less(b))
<1>1. MaxSize \in Nat /\ b \in Int /\ 0 - MaxSize <= b /\ b <= MaxSize
  BY MeasureAssumption
<1>2. CASE b > 0
  BY <1>1, <1>2 DEF More, Less
<1>3. CASE b < 0
  BY <1>1, <1>3 DEF More, Less
<1>4. CASE b = 0
  BY <1>1, <1>4 DEF More, Less
<1> QED
  BY <1>1, <1>2, <1>3, <1>4

\* What one writer's write has in the accounts.
Share(w) == IF step[w] = "landed" THEN write[w].bytes ELSE 0

LEMMA ShareHas ==
  ASSUME NEW w, NEW U, NEW V, NEW b \in (0 - MaxSize)..MaxSize,
         \A k \in 1..MaxSize : (<<w, k>> \in U <=> k <= b) /\ (<<w, k>> \in V <=> k <= 0 - b)
  PROVE  Has(U, w, More(b)) /\ Has(V, w, Less(b))
<1>1. \A k \in 1..MaxSize : (k <= b <=> k <= More(b)) /\ (k <= 0 - b <=> k <= Less(b))
  BY Amounts
<1> QED
  BY <1>1 DEF Has

LEMMA ShareOf ==
  ASSUME Sized, NEW w \in Writer
  PROVE  /\ Share(w) \in (0 - MaxSize)..MaxSize
         /\ Has(Gained, w, More(Share(w))) /\ Has(Lost, w, Less(Share(w)))
<1>1. Share(w) \in (0 - MaxSize)..MaxSize
  BY MeasureAssumption DEF Sized, Share
<1>2. \A k \in 1..MaxSize : ~ (k <= 0) /\ ~ (k <= 0 - 0)
  BY MeasureAssumption
<1>3. \A k \in 1..MaxSize : <<w, k>> \in Gained <=> k <= Share(w)
  BY <1>2 DEF Gained, Share
<1>4. \A k \in 1..MaxSize : <<w, k>> \in Lost <=> k <= 0 - Share(w)
  BY <1>2 DEF Lost, Share
<1> QED
  BY <1>1, <1>3, <1>4, ShareHas

LEMMA ShareOfNext ==
  ASSUME Sized', NEW w \in Writer
  PROVE  /\ Share(w)' \in (0 - MaxSize)..MaxSize
         /\ Has(Gained', w, More(Share(w)')) /\ Has(Lost', w, Less(Share(w)'))
<1>1. Share(w)' \in (0 - MaxSize)..MaxSize
  BY MeasureAssumption DEF Sized, Share
<1>2. \A k \in 1..MaxSize : ~ (k <= 0) /\ ~ (k <= 0 - 0)
  BY MeasureAssumption
<1>3. \A k \in 1..MaxSize : <<w, k>> \in Gained' <=> k <= Share(w)'
  BY <1>2 DEF Gained, Share
<1>4. \A k \in 1..MaxSize : <<w, k>> \in Lost' <=> k <= 0 - Share(w)'
  BY <1>2 DEF Lost, Share
<1> QED
  BY <1>1, <1>3, <1>4, ShareHas

\* One writer's step changes the accounts by what its share changes.
LEMMA ShareChanged ==
  ASSUME Sized, Sized', NEW w \in Writer,
         \A v \in Writer : v # w => step'[v] = step[v] /\ write'[v] = write[v]
  PROVE  /\ Cardinality(Gained') - Cardinality(Lost')
              = Cardinality(Gained) - Cardinality(Lost) + Share(w)' - Share(w)
         /\ Share(w) \in Int /\ Share(w)' \in Int
<1>1. PICK a \in (0 - MaxSize)..MaxSize : a = Share(w) /\ Has(Gained, w, More(a)) /\ Has(Lost, w, Less(a))
  BY ShareOf
<1>2. PICK b \in (0 - MaxSize)..MaxSize : b = Share(w)' /\ Has(Gained', w, More(b)) /\ Has(Lost', w, Less(b))
  BY ShareOfNext
<1>3. /\ Gained \in SUBSET (Writer \X (1..MaxSize)) /\ Gained' \in SUBSET (Writer \X (1..MaxSize))
      /\ Lost \in SUBSET (Writer \X (1..MaxSize)) /\ Lost' \in SUBSET (Writer \X (1..MaxSize))
  BY DEF Gained, Lost
<1>4. {u \in Gained : u[1] # w} = {u \in Gained' : u[1] # w}
  BY DEF Gained
<1>5. {u \in Lost : u[1] # w} = {u \in Lost' : u[1] # w}
  BY DEF Lost
<1>6. /\ More(a) \in 0..MaxSize /\ Less(a) \in 0..MaxSize /\ More(a) - Less(a) = a
      /\ More(b) \in 0..MaxSize /\ Less(b) \in 0..MaxSize /\ More(b) - Less(b) = b
  BY Amounts
<1>7. Cardinality(Gained') = Cardinality(Gained) + More(b) - More(a)
  BY <1>1, <1>2, <1>3, <1>4, <1>6, PartChanged, MeasureAssumption
<1>8. Cardinality(Lost') = Cardinality(Lost) + Less(b) - Less(a)
  BY <1>1, <1>2, <1>3, <1>5, <1>6, PartChanged, MeasureAssumption
<1>9. MaxSize \in Nat /\ a \in Int /\ b \in Int
  BY MeasureAssumption
<1>10. Cardinality(Gained') - Cardinality(Lost') = Cardinality(Gained) - Cardinality(Lost) + b - a
  BY <1>6, <1>7, <1>8, <1>9, UnitsCounted
<1> QED
  BY <1>1, <1>2, <1>9, <1>10

LEMMA LandWeighs ==
  ASSUME IInv, Weights, NEW w \in Writer, Land(w)
  PROVE  Weights'
<1>0. Typed /\ Typed'
  BY LandKeeps DEF IInv
<1> DEFINE n == write[w].name
           s == Written(w)
           b == SizeOf(s) - SizeOf(size[n])
<1>1. /\ step[w] = "admitted" /\ s <= MaxSize /\ size' = [size EXCEPT ![n] = s]
      /\ UNCHANGED <<valid, generation, entries, bytes, mutex, scan>>
  BY DEF Land, Lands, measure
<1>2. /\ step'[w] = "landed" /\ write'[w].bytes = b /\ write'[w].generation = write[w].generation
      /\ \A v \in Writer : v # w => step'[v] = step[v] /\ write'[v] = write[v]
  BY <1>0 DEF Land, Typed, Writes
<1>3. n \in Name /\ s \in Absent..MaxSize
  BY <1>0, <1>1, WrittenSize DEF Typed
<1>4. size'[n] = s /\ \A m \in Name : m # n => size'[m] = size[m]
  BY <1>0, <1>1, <1>3 DEF Typed
<1>5. SizeOf(s) \in 0..MaxSize /\ Has(Stored', n, SizeOf(s))
  <2>1. MaxSize \in Nat
    BY MeasureAssumption
  <2>2. SizeOf(s) \in 0..MaxSize /\ \A k \in 1..MaxSize : k <= s <=> k <= SizeOf(s)
    BY <1>3, <2>1 DEF SizeOf, Absent
  <2> QED
    BY <1>3, <1>4, <2>2 DEF Has, Stored
<1>6. SizeOf(size[n]) \in 0..MaxSize /\ Has(Stored, n, SizeOf(size[n]))
  BY <1>0, <1>3, StoredAt
<1>7. b \in (0 - MaxSize)..MaxSize /\ b \in Int
  BY <1>5, <1>6, MeasureAssumption
<1>8. Sized'
  BY <1>2, <1>7 DEF Weights, Sized
<1>9. Cardinality(Stored') = Cardinality(Stored) + SizeOf(s) - SizeOf(size[n])
  <2>1. Stored \in SUBSET (Name \X (1..MaxSize)) /\ Stored' \in SUBSET (Name \X (1..MaxSize))
    BY DEF Stored
  <2>2. {u \in Stored : u[1] # n} = {u \in Stored' : u[1] # n}
    BY <1>4 DEF Stored
  <2> QED
    BY <1>3, <1>5, <1>6, <2>1, <2>2, PartChanged, MeasureAssumption
<1>10. Cardinality(Stored') = Cardinality(Stored) + b
  BY <1>5, <1>6, <1>9, UnitsCounted, MeasureAssumption
<1>11. Share(w) = 0 /\ Share(w)' = b
  BY <1>1, <1>2 DEF Share
<1> HIDE DEF b, s, n
<1>12. Cardinality(Gained') - Cardinality(Lost') = Cardinality(Gained) - Cardinality(Lost) + b
  <2>1. Cardinality(Gained') - Cardinality(Lost') = Cardinality(Gained) - Cardinality(Lost) + b - 0
    BY <1>2, <1>8, <1>11, ShareChanged DEF Weights
  <2> QED
    BY <1>7, <2>1, UnitsCounted
<1>13. Trusted' => Trusted
  <2>1. \A v \in Settling : v \in Settling' /\ v # w /\ v \in Writer
    BY <1>1, <1>2 DEF Settling
  <2> QED
    BY <1>1, <1>2, <2>1 DEF Trusted
<1>14. Weighed'
  <2>1. SUFFICES ASSUME valid, Trusted
                 PROVE  Cardinality(Stored') = bytes + Cardinality(Gained') - Cardinality(Lost')
    BY <1>1, <1>13 DEF Weighed
  <2>2. Cardinality(Stored) = bytes + Cardinality(Gained) - Cardinality(Lost) /\ bytes \in Int
    BY <2>1 DEF Weights, Weighed
  <2> QED
    BY <1>7, <1>10, <1>12, <2>2, UnitsCounted
<1>15. Surveyed'
  <2>1. w \in Settling'
    BY <1>2 DEF Settling
  <2> QED
    BY <2>1 DEF Surveyed
<1>16. bytes' \in Int
  BY <1>1 DEF Weights
<1> QED
  BY <1>8, <1>14, <1>15, <1>16 DEF Weights

LEMMA FailWeighs ==
  ASSUME IInv, Weights, NEW w \in Writer, Fail(w)
  PROVE  Weights'
<1>1. /\ bytes' = bytes /\ write' = write /\ step'[w] = "failed"
      /\ \A v \in Writer : v # w => step'[v] = step[v]
  BY DEF Fail, measure, IInv, Typed
<1>2. w \in Settling' /\ ~ Trusted'
  BY <1>1 DEF Settling, Trusted
<1>3. Sized'
  BY <1>1 DEF Weights, Sized
<1>4. Weighed' /\ Surveyed'
  BY <1>2 DEF Weighed, Surveyed
<1> QED
  BY <1>1, <1>3, <1>4 DEF Weights

LEMMA SettleWeighs ==
  ASSUME IInv, Weights, NEW w \in Writer, Settle(w)
  PROVE  Weights'
<1>0. Typed
  BY DEF IInv
<1> DEFINE b == write[w].bytes
<1>1. /\ step[w] = "landed" /\ mutex' = Free
      /\ valid' = (valid /\ write[w].generation = generation)
      /\ bytes' = bytes + (IF valid /\ write[w].generation = generation THEN b ELSE 0)
      /\ UNCHANGED <<size, generation>>
  BY DEF Settle
<1>2. step'[w] = "idle" /\ \A v \in Writer : v # w => step'[v] = step[v] /\ write'[v] = write[v]
  BY <1>0 DEF Settle, Typed
<1>3. b \in Int /\ bytes \in Int
  BY <1>1, MeasureAssumption DEF Weights, Sized
<1>4. bytes' \in Int
  BY <1>1, <1>3
<1>5. Sized'
  BY <1>2 DEF Weights, Sized
<1>6. Share(w) = b /\ Share(w)' = 0
  BY <1>1, <1>2 DEF Share
<1> HIDE DEF b
<1>7. Cardinality(Gained') - Cardinality(Lost') = Cardinality(Gained) - Cardinality(Lost) + 0 - b
  BY <1>2, <1>5, <1>6, ShareChanged DEF Weights
<1>8. Weighed'
  <2>1. SUFFICES ASSUME valid', Trusted'
                 PROVE  Cardinality(Stored') = bytes' + Cardinality(Gained') - Cardinality(Lost')
    BY DEF Weighed
  <2>2. valid /\ write[w].generation = generation
    BY <1>1, <2>1
  <2>3. bytes' = bytes + b
    BY <1>1, <2>2
  <2>4. Trusted
    <3>1. \A v \in Settling : v # w => v \in Settling' /\ v \in Writer
      BY <1>2 DEF Settling
    <3> QED
      BY <1>1, <1>2, <2>1, <2>2, <3>1 DEF Trusted
  <2>5. Cardinality(Stored) = bytes + Cardinality(Gained) - Cardinality(Lost)
    BY <2>2, <2>4 DEF Weights, Weighed
  <2>6. Stored' = Stored
    BY <1>1 DEF Stored
  <2>7. Cardinality(Stored) = (bytes + b) + Cardinality(Gained') - Cardinality(Lost')
    BY <1>3, <1>7, <2>5, UnitsCounted
  <2> QED
    BY <2>3, <2>6, <2>7
<1>9. Surveyed'
  BY <1>1 DEF Surveyed
<1> QED
  BY <1>4, <1>5, <1>8, <1>9 DEF Weights

LEMMA ForgetWeighs ==
  ASSUME IInv, Weights, NEW w \in Writer, Forget(w)
  PROVE  Weights'
<1>1. mutex' = Free /\ ~ valid' /\ bytes' = bytes
  BY DEF Forget
<1>2. \A v \in Writer : step'[v] = "landed" => step[v] = "landed" /\ write'[v] = write[v]
  BY DEF Forget, IInv, Typed
<1>3. Sized'
  BY <1>2 DEF Weights, Sized
<1> QED
  BY <1>1, <1>3 DEF Weights, Weighed, Surveyed

\* The bytes are accounted for in every state.
THEOREM Weighing == Spec => []Weights
<1>1. Init => Weights
  BY DEF Init, Weights, Sized, Weighed, Surveyed
<1>2. IInv /\ Weights /\ [Next]_vars => Weights'
  <2> SUFFICES ASSUME IInv, Weights, [Next]_vars PROVE Weights'
    OBVIOUS
  <2>1. ASSUME NEW w \in Writer, \E op \in Operation, n \in Name, s \in 0..MaxSize : Begin(w, op, n, s)
        PROVE  Weights'
    BY <2>1, AskingWeighs
  <2>2. ASSUME NEW w \in Writer, Admit(w) PROVE Weights'
    BY <2>2, AskingWeighs
  <2>3. ASSUME NEW w \in Writer, StartScan(w) \/ Visit(w) \/ EndScan(w) \/ ScanFails(w) PROVE Weights'
    BY <2>3, StartScanWeighs, VisitWeighs, EndScanWeighs, ScanFailsWeighs
  <2>4. ASSUME NEW w \in Writer, Land(w) \/ Fail(w) PROVE Weights'
    BY <2>4, LandWeighs, FailWeighs
  <2>5. ASSUME NEW w \in Writer, Settle(w) \/ Forget(w) PROVE Weights'
    BY <2>5, SettleWeighs, ForgetWeighs
  <2>6. CASE UNCHANGED vars
    <3>1. UNCHANGED <<size, valid, generation, entries, bytes, mutex, scan, step, write>>
      BY <2>6 DEF vars, measure
    <3>2. /\ Stored' = Stored /\ Gained' = Gained /\ Lost' = Lost /\ Passed' = Passed
          /\ Settling' = Settling
      BY <3>1 DEF Stored, Gained, Lost, Passed, Settling
    <3>3. Trusted' => Trusted
      BY <3>1, <3>2 DEF Trusted
    <3> QED
      BY <3>1, <3>2, <3>3 DEF Weights, Sized, Weighed, Surveyed
  <2> QED
    BY <2>1, <2>2, <2>3, <2>4, <2>5, <2>6 DEF Next
<1> QED
  BY <1>1, <1>2, Invariance, PTL DEF Spec

(***************************************************************************)
(* However the writers' scans, landings, failures and counts interleave, a *)
(* measurement that stands once no write is under way is what the subtree  *)
(* holds, in entries and in bytes (operations_linux_amd64.go, measured,    *)
(* settle and forget).                                                     *)
(***************************************************************************)
THEOREM MeasuredExactly == Spec => []MeasureExact
<1>1. IInv /\ Weights => MeasureExact
  <2> SUFFICES ASSUME IInv, Weights, valid, Quiet
               PROVE  entries = Cardinality(Present) /\ bytes = Cardinality(Stored)
    BY DEF MeasureExact, Bytes
  <2>1. Uncounted = {} /\ Undone = {} /\ Gained = {} /\ Lost = {} /\ Trusted
    BY DEF Quiet, Uncounted, Undone, Gained, Lost, Trusted, Settling
  <2>2. /\ Cardinality(Uncounted) = 0 /\ Cardinality(Undone) = 0
        /\ Cardinality(Gained) = 0 /\ Cardinality(Lost) = 0
    BY <2>1, FS_EmptySet
  <2>3. Cardinality(Present) = entries + 0 - 0 /\ entries \in Int
    BY <2>1, <2>2 DEF IInv, Measured, Typed
  <2>4. Cardinality(Stored) = bytes + 0 - 0 /\ bytes \in Int
    BY <2>1, <2>2 DEF Weights, Weighed
  <2> QED
    BY <2>3, <2>4
<1> QED
  BY <1>1, Invariance, Weighing, PTL

(***************************************************************************)
(* Writers admitted beside one another pass the bound by one entry for     *)
(* each of the others at most (operations_linux_amd64.go, capacity).       *)
(***************************************************************************)
THEOREM BoundAlmostKept == Spec => []BoundKept
<1>1. IInv => BoundKept
  <2> SUFFICES ASSUME IInv PROVE BoundKept
    OBVIOUS
  <2>1. /\ Cardinality(Present) \in Nat /\ Cardinality(Coming) \in Nat
        /\ Cardinality(Writer) \in Nat /\ MaxEntries \in Nat
    BY Sets, MeasureAssumption
  <2>2. Cardinality(Present) + Cardinality(Coming) <= MaxEntries + Cardinality(Writer) - 1
    BY DEF IInv, Within
  <2> QED
    BY <2>1, <2>2 DEF BoundKept
<1> QED
  BY <1>1, Invariance, PTL

-----------------------------------------------------------------------------
(* The counts never go below zero *)

(***************************************************************************)
(* A write that is settled takes from the measurement what it removed, so  *)
(* the measurement must hold that much: it counts every entry and unit it  *)
(* may still be asked to take back (Standing).  That is what the names     *)
(* hold whose pending writes will all be counted into it (Firm), less what *)
(* those writes have yet to add, and beside it what was removed and not    *)
(* counted.  Another pending write discards the measurement when it is     *)
(* settled, and its name owes nothing.  A scan counts what the names hold  *)
(* that no write pends at (Calm).                                          *)
(***************************************************************************)
Calm == {n \in Name : \A w \in Settling : write[w].name # n}

Firm ==
  {n \in Name : \A w \in Settling :
                  write[w].name = n => step[w] = "landed" /\ write[w].generation = generation}

\* Of the entries the subtree holds, those the measurement has counted.
Sure == {n \in Firm : size[n] # Absent /\ \A w \in Settling : write[w].name = n => write[w].entries # 1}

\* What the writes that landed at a name added and are not counted with, and what it held before.
GainedAt(n) == {u \in Gained : write[u[1]].name = n}
Before(n) == SizeOf(size[n]) - Cardinality(GainedAt(n))

SureUnits == {u \in Firm \X (1..MaxSize) : u[2] <= Before(u[1])}

\* The units taken away, and not yet from this measurement.
Owing ==
  {u \in Writer \X (1..MaxSize) :
     step[u[1]] = "landed" /\ write[u[1]].generation = generation /\ u[2] <= 0 - write[u[1]].bytes}

Standing ==
  valid => /\ Cardinality(Sure) + Cardinality(Undone) <= entries
           /\ Cardinality(SureUnits) + Cardinality(Owing) <= bytes

\* What a scan must have counted of the names it has walked past.
CalmNames == {n \in Calm \ scan.left : size[n] # Absent}
CalmUnits == {u \in Stored : u[1] \in Calm \ scan.left}

Walking ==
  mutex # Free => /\ Cardinality(CalmNames) <= scan.entries
                  /\ Cardinality(CalmUnits) <= scan.bytes
                  /\ generation < MaxGeneration

Counts ==
  /\ generation <= MaxGeneration /\ entries \in Nat /\ bytes \in Nat
  /\ Standing /\ Walking

LEMMA CountsFinite ==
  /\ IsFiniteSet(Sure) /\ Cardinality(Sure) \in Nat /\ IsFiniteSet(Sure') /\ Cardinality(Sure') \in Nat
  /\ IsFiniteSet(SureUnits) /\ Cardinality(SureUnits) \in Nat /\ Cardinality(SureUnits') \in Nat
  /\ IsFiniteSet(Owing) /\ Cardinality(Owing) \in Nat /\ Cardinality(Owing') \in Nat
  /\ IsFiniteSet(CalmNames) /\ Cardinality(CalmNames) \in Nat
  /\ IsFiniteSet(CalmNames') /\ Cardinality(CalmNames') \in Nat
  /\ IsFiniteSet(CalmUnits) /\ Cardinality(CalmUnits) \in Nat /\ Cardinality(CalmUnits') \in Nat
<1>1. /\ Sure \in SUBSET Name /\ Sure' \in SUBSET Name
      /\ CalmNames \in SUBSET Name /\ CalmNames' \in SUBSET Name
  BY DEF Sure, Firm, CalmNames, Calm
<1>2. /\ SureUnits \in SUBSET (Name \X (1..MaxSize)) /\ SureUnits' \in SUBSET (Name \X (1..MaxSize))
      /\ CalmUnits \in SUBSET (Name \X (1..MaxSize)) /\ CalmUnits' \in SUBSET (Name \X (1..MaxSize))
  BY DEF SureUnits, Firm, CalmUnits, Stored
<1>3. Owing \in SUBSET (Writer \X (1..MaxSize)) /\ Owing' \in SUBSET (Writer \X (1..MaxSize))
  BY DEF Owing
<1> QED
  BY <1>1, <1>2, <1>3, FiniteNames, FiniteUnits, FS_Subset, FS_CardinalityType

\* A set of units that is within another one has no more of them.
LEMMA Fewer ==
  ASSUME NEW U, NEW V, IsFiniteSet(V), U \subseteq V
  PROVE  Cardinality(U) <= Cardinality(V) /\ Cardinality(U) \in Nat /\ Cardinality(V) \in Nat
  BY FS_Subset, FS_CardinalityType

\* PartChanged where a part may be counted down below nothing.
LEMMA Shifted ==
  ASSUME NEW D, IsFiniteSet(D), NEW x \in D,
         NEW U \in SUBSET (D \X (1..MaxSize)), NEW V \in SUBSET (D \X (1..MaxSize)),
         {u \in U : u[1] # x} = {u \in V : u[1] # x},
         NEW a \in Int, a <= MaxSize, Has(U, x, a), NEW b \in Int, b <= MaxSize, Has(V, x, b)
  PROVE  /\ Cardinality(V) = Cardinality(U) + More(b) - More(a)
         /\ Cardinality(U) \in Nat /\ Cardinality(V) \in Nat
<1>1. MaxSize \in Nat
  BY MeasureAssumption
<1>2. More(a) \in 0..MaxSize /\ More(b) \in 0..MaxSize
  BY <1>1 DEF More
<1>3. \A k \in 1..MaxSize : (k <= a <=> k <= More(a)) /\ (k <= b <=> k <= More(b))
  BY <1>1 DEF More
<1>4. Has(U, x, More(a)) /\ Has(V, x, More(b))
  BY <1>3 DEF Has
<1> HIDE DEF More
<1> QED
  BY <1>2, <1>4, PartChanged

LEMMA PendingCounted ==
  ASSUME NEW n
  PROVE  /\ Cardinality(GainedAt(n)) \in Nat /\ Cardinality(GainedAt(n)') \in Nat
         /\ GainedAt(n) \in SUBSET (Writer \X (1..MaxSize))
         /\ GainedAt(n)' \in SUBSET (Writer \X (1..MaxSize))
<1>1. /\ GainedAt(n) \in SUBSET (Writer \X (1..MaxSize))
      /\ GainedAt(n)' \in SUBSET (Writer \X (1..MaxSize))
  BY DEF GainedAt, Gained
<1> QED
  BY <1>1, FiniteUnits, FS_Subset, FS_CardinalityType

\* A scan goes on beside a step that changes no name but one a write is left pending at.
LEMMA StillWalking ==
  ASSUME Walking, NEW w \in Writer,
         \A v \in Writer : v # w => step'[v] = step[v] /\ write'[v] = write[v],
         step[w] \notin {"landed", "failed"},
         \A m \in Name : size'[m] # size[m] => step'[w] \in {"landed", "failed"} /\ write'[w].name = m,
         UNCHANGED <<generation, mutex, scan>>, scan.entries \in Int, scan.bytes \in Int
  PROVE  Walking'
<1>1. Settling \subseteq Settling' /\ \A v \in Settling : v \in Writer /\ v # w /\ write'[v] = write[v]
  BY DEF Settling
<1>2. Calm' \subseteq Calm
  BY <1>1 DEF Calm
<1>3. \A m \in Calm' : m \in Name /\ size'[m] = size[m]
  BY DEF Calm, Settling
<1>4. CalmNames' \subseteq CalmNames
  BY <1>2, <1>3 DEF CalmNames
<1>5. CalmUnits' \subseteq CalmUnits
  BY <1>2, <1>3 DEF CalmUnits, Stored
<1>6. Cardinality(CalmNames') <= Cardinality(CalmNames) /\ Cardinality(CalmUnits') <= Cardinality(CalmUnits)
  BY <1>4, <1>5, CountsFinite, Fewer
<1> QED
  BY <1>6, CountsFinite DEF Walking

\* A measurement stands beside a step that leaves the names, or leaves one of them owing nothing.
LEMMA StillStanding ==
  ASSUME Counts, NEW w \in Writer,
         \A v \in Writer : v # w => step'[v] = step[v] /\ write'[v] = write[v],
         step[w] \notin {"landed", "failed"},
         step'[w] = "landed" => write'[w].generation # generation,
         \A m \in Name : size'[m] # size[m] => step'[w] \in {"landed", "failed"} /\ write'[w].name = m,
         UNCHANGED <<valid, generation, entries, bytes>>
  PROVE  Standing'
<1>1. Settling \subseteq Settling' /\ \A v \in Settling : v \in Writer /\ v # w /\ write'[v] = write[v] /\ step'[v] = step[v]
  BY DEF Settling
<1>2. Firm' \subseteq Firm
  BY <1>1 DEF Firm
<1>3. \A m \in Firm' : /\ m \in Name /\ size'[m] = size[m]
                       /\ step'[w] \in {"landed", "failed"} => write'[w].name # m
  BY DEF Firm, Settling
<1>4. Sure' \subseteq Sure
  BY <1>1, <1>2, <1>3 DEF Sure
<1>5. \A m \in Firm' : GainedAt(m)' = GainedAt(m)
  BY <1>3 DEF GainedAt, Gained
<1>6. \A m \in Firm' : Before(m)' = Before(m)
  BY <1>3, <1>5 DEF Before
<1>7. SureUnits' \subseteq SureUnits
  BY <1>2, <1>6 DEF SureUnits
<1>8. Undone' \subseteq Undone /\ Owing' \subseteq Owing
  BY DEF Undone, Owing
<1>9. /\ Cardinality(Sure') <= Cardinality(Sure) /\ Cardinality(SureUnits') <= Cardinality(SureUnits)
      /\ Cardinality(Undone') <= Cardinality(Undone) /\ Cardinality(Owing') <= Cardinality(Owing)
  BY <1>4, <1>7, <1>8, CountsFinite, Sets, Fewer
<1> QED
  BY <1>9, CountsFinite, Sets, SetsNext DEF Counts, Standing

LEMMA AskingCounts ==
  ASSUME IInv, Counts, NEW w \in Writer,
         \/ \E op \in Operation, n \in Name, s \in 0..MaxSize : Begin(w, op, n, s)
         \/ Admit(w)
  PROVE  Counts'
<1>0. Typed
  BY DEF IInv
<1>1. UNCHANGED <<size, valid, generation, entries, bytes, mutex, scan>>
  BY DEF Begin, Admit, measure
<1>2. /\ step[w] \in {"idle", "asking"} /\ step'[w] # "landed"
      /\ \A v \in Writer : v # w => step'[v] = step[v] /\ write'[v] = write[v]
  BY <1>0 DEF Begin, Admit, Answer, Typed
<1>3. Standing'
  BY <1>1, <1>2, StillStanding
<1>4. Walking'
  BY <1>0, <1>1, <1>2, StillWalking DEF Counts, Typed
<1> QED
  BY <1>1, <1>3, <1>4 DEF Counts

LEMMA StartScanCounts ==
  ASSUME IInv, Counts, NEW w \in Writer, StartScan(w)
  PROVE  Counts'
<1>1. /\ ~ valid /\ generation < MaxGeneration /\ scan' = [left |-> Name, entries |-> 0, bytes |-> 0]
      /\ UNCHANGED <<size, valid, generation, entries, bytes, step, write>>
  BY DEF StartScan, measure
<1>2. CalmNames' = {} /\ CalmUnits' = {}
  BY <1>1 DEF CalmNames, CalmUnits, Calm
<1>3. Cardinality(CalmNames') = 0 /\ Cardinality(CalmUnits') = 0
  BY <1>2, FS_EmptySet
<1>4. Walking'
  BY <1>1, <1>3 DEF Walking
<1> QED
  BY <1>1, <1>4 DEF Counts, Standing

LEMMA VisitCounts ==
  ASSUME IInv, Counts, NEW w \in Writer, Visit(w)
  PROVE  Counts'
<1>0. Typed /\ Scanning
  BY DEF IInv
<1>1. PICK n \in scan.left :
        scan' = [left    |-> scan.left \ {n},
                 entries |-> scan.entries + (IF size[n] = Absent THEN 0 ELSE 1),
                 bytes   |-> scan.bytes + (IF size[n] = Absent THEN 0 ELSE size[n])]
  BY DEF Visit
<1>2. mutex = w /\ mutex # Free /\ UNCHANGED <<size, valid, generation, entries, bytes, mutex, step, write>>
  BY MeasureAssumption DEF Visit, measure
<1>3. ~ valid /\ n \in Name /\ scan.entries \in Int /\ scan.bytes \in Int
  BY <1>0, <1>1, <1>2 DEF Scanning, Typed
<1>4. Calm' = Calm /\ Stored' = Stored
  BY <1>2 DEF Calm, Settling, Stored
<1>5. /\ scan'.left = scan.left \ {n} /\ scan'.bytes = scan.bytes + SizeOf(size[n])
      /\ scan'.entries = scan.entries + CountOf(size[n])
  BY <1>1 DEF SizeOf, CountOf
<1>6. Cardinality(CalmNames) <= scan.entries /\ Cardinality(CalmUnits) <= scan.bytes /\ generation < MaxGeneration
  BY <1>2 DEF Counts, Walking
<1>7. Cardinality(CalmNames') <= scan'.entries
  <2>1. CASE size[n] = Absent
    <3>1. CalmNames' = CalmNames
      BY <1>2, <1>4, <1>5, <2>1 DEF CalmNames
    <3>2. scan'.entries = scan.entries
      BY <1>1, <1>3, <2>1
    <3> QED
      BY <1>6, <3>1, <3>2
  <2>2. CASE size[n] # Absent
    <3>1. CalmNames' \ {n} = CalmNames \ {n}
      BY <1>2, <1>4, <1>5 DEF CalmNames
    <3>2. Cardinality(CalmNames') <= Cardinality(CalmNames) + 1
      BY <3>1, CountsFinite, DifferAtOne
    <3>3. scan'.entries = scan.entries + 1
      BY <1>1, <2>2
    <3> QED
      BY <1>3, <1>6, <3>2, <3>3, CountsFinite
  <2> QED
    BY <2>1, <2>2
<1>8. Cardinality(CalmUnits') <= scan'.bytes
  <2>1. CalmUnits \in SUBSET (Name \X (1..MaxSize)) /\ CalmUnits' \in SUBSET (Name \X (1..MaxSize))
    BY DEF CalmUnits, Stored
  <2>2. {u \in CalmUnits : u[1] # n} = {u \in CalmUnits' : u[1] # n}
    BY <1>4, <1>5 DEF CalmUnits
  <2>3. 0 \in Int /\ 0 <= MaxSize /\ Has(CalmUnits, n, 0)
    BY <1>1, MeasureAssumption DEF CalmUnits, Has
  <2>4. SizeOf(size[n]) \in 0..MaxSize /\ Has(Stored, n, SizeOf(size[n]))
    BY <1>0, <1>3, StoredAt
  <2>5. CASE n \in Calm
    <3>1. \A k \in 1..MaxSize : <<n, k>> \in CalmUnits' <=> <<n, k>> \in Stored
      BY <1>4, <1>5, <2>5 DEF CalmUnits
    <3>2. Has(CalmUnits', n, SizeOf(size[n]))
      BY <2>4, <3>1 DEF Has
    <3>3. Cardinality(CalmUnits') = Cardinality(CalmUnits) + SizeOf(size[n]) - 0
      BY <1>3, <2>1, <2>2, <2>3, <2>4, <3>2, PartChanged, MeasureAssumption
    <3> QED
      BY <1>3, <1>5, <1>6, <2>4, <3>3, CountsFinite, MeasureAssumption
  <2>6. CASE n \notin Calm
    <3>1. CalmUnits' = CalmUnits
      BY <1>4, <1>5, <2>6 DEF CalmUnits
    <3> QED
      BY <1>3, <1>5, <1>6, <2>4, <3>1, CountsFinite, MeasureAssumption
  <2> QED
    BY <2>5, <2>6
<1>9. Walking'
  BY <1>2, <1>6, <1>7, <1>8 DEF Walking
<1> QED
  BY <1>2, <1>3, <1>9 DEF Counts, Standing

LEMMA EndScanCounts ==
  ASSUME IInv, Counts, NEW w \in Writer, EndScan(w)
  PROVE  Counts'
<1>0. Typed /\ Scanning /\ Stamped
  BY DEF IInv
<1>1. /\ mutex = w /\ mutex # Free /\ scan.left = {} /\ mutex' = Free
      /\ generation' = generation + 1 /\ entries' = scan.entries /\ bytes' = scan.bytes /\ size' = size
  BY MeasureAssumption DEF EndScan
<1>2. /\ step[w] = "asking" /\ step'[w] # "landed" /\ generation \in Nat
      /\ scan.entries \in Int /\ scan.bytes \in Int
      /\ \A v \in Writer : v # w => step'[v] = step[v] /\ write'[v] = write[v]
  BY <1>0, <1>1 DEF EndScan, Answer, Scanning, Typed
<1>3. /\ Cardinality(CalmNames) <= scan.entries /\ Cardinality(CalmUnits) <= scan.bytes
      /\ generation < MaxGeneration
  BY <1>1 DEF Counts, Walking
<1>4. entries' \in Nat /\ bytes' \in Nat /\ generation' <= MaxGeneration
  BY <1>1, <1>2, <1>3, CountsFinite, MeasureAssumption
<1>5. ASSUME NEW v \in Writer PROVE ~ (step'[v] = "landed" /\ write'[v].generation = generation')
  <2>1. CASE v = w
    BY <1>2, <2>1
  <2>2. CASE v # w
    <3>1. step[v] = "landed" => write[v].generation <= generation /\ write[v].generation \in Nat
      BY <1>0 DEF Stamped, Typed, Writes
    <3> QED
      BY <1>1, <1>2, <2>2, <3>1
  <2> QED
    BY <2>1, <2>2
<1>6. Undone' = {} /\ Owing' = {}
  BY <1>5 DEF Undone, Owing
<1>7. Firm' \subseteq Calm
  <2>1. Settling' \subseteq Writer /\ Settling \subseteq Settling'
    BY <1>2 DEF Settling
  <2>2. Firm' \subseteq Calm'
    BY <1>5, <2>1 DEF Firm, Calm
  <2>3. \A v \in Settling : write'[v] = write[v]
    BY <1>2 DEF Settling
  <2>4. Calm' \subseteq Calm
    BY <2>1, <2>3 DEF Calm
  <2> QED
    BY <2>2, <2>4
<1>8. Sure' \subseteq CalmNames
  BY <1>1, <1>7 DEF Sure, CalmNames, Calm
<1>9. SureUnits' \subseteq CalmUnits
  <2>1. SUFFICES ASSUME NEW u \in SureUnits' PROVE u \in CalmUnits
    OBVIOUS
  <2>2. u \in Name \X (1..MaxSize) /\ u[1] \in Firm' /\ u[2] <= Before(u[1])'
    BY DEF SureUnits, Firm
  <2>3. u[1] \in Name /\ u[2] \in 1..MaxSize /\ size[u[1]] \in Absent..MaxSize
    BY <1>0, <2>2 DEF Typed
  <2>4. PICK c \in Nat : c = Cardinality(GainedAt(u[1])')
    BY PendingCounted
  <2>5. u[2] <= SizeOf(size[u[1]]) - c
    BY <1>1, <2>2, <2>4 DEF Before
  <2>6. u[2] <= size[u[1]]
    BY <2>3, <2>4, <2>5, MeasureAssumption DEF SizeOf, Absent
  <2> QED
    BY <1>1, <1>7, <2>2, <2>6 DEF CalmUnits, Stored
<1>10. /\ Cardinality(Sure') <= Cardinality(CalmNames) /\ Cardinality(SureUnits') <= Cardinality(CalmUnits)
       /\ Cardinality(Undone') = 0 /\ Cardinality(Owing') = 0
  BY <1>6, <1>8, <1>9, CountsFinite, Fewer, FS_EmptySet
<1>11. Standing'
  BY <1>1, <1>2, <1>3, <1>10, CountsFinite DEF Standing
<1> QED
  BY <1>1, <1>4, <1>11 DEF Counts, Walking

LEMMA ScanFailsCounts ==
  ASSUME IInv, Counts, NEW w \in Writer, ScanFails(w)
  PROVE  Counts'
<1>1. mutex' = Free /\ ~ valid' /\ UNCHANGED <<generation, entries, bytes>>
  BY MeasureAssumption DEF ScanFails, measure, IInv, Scanning
<1> QED
  BY <1>1 DEF Counts, Standing, Walking

\* What a write that lands does to its entry's count and its units.
LEMMA Landing ==
  ASSUME IInv, Weights, NEW w \in Writer, Land(w)
  PROVE  \E n \in Name, s \in Absent..MaxSize, e \in {-1, 0, 1}, b \in (0 - MaxSize)..MaxSize :
        /\ n = write[w].name /\ e = CountOf(s) - CountOf(size[n]) /\ b = SizeOf(s) - SizeOf(size[n])
        /\ size'[n] = s /\ \A m \in Name : m # n => size'[m] = size[m]
        /\ step[w] = "admitted" /\ step'[w] = "landed"
        /\ write'[w].name = n /\ write'[w].generation = write[w].generation
        /\ write'[w].entries = e /\ write'[w].bytes = b
        /\ \A v \in Writer : v # w => step'[v] = step[v] /\ write'[v] = write[v]
        /\ UNCHANGED <<valid, generation, entries, bytes, mutex, scan>>
        /\ e = -1 <=> s = Absent /\ size[n] # Absent
        /\ e = 1 <=> s # Absent /\ size[n] = Absent
        /\ e = -1 \/ b < 0 => write[w].op \in {"replace", "remove"}
<1>0. Typed
  BY DEF IInv
<1> DEFINE n == write[w].name
           s == Written(w)
           e == CountOf(s) - CountOf(size[n])
           b == SizeOf(s) - SizeOf(size[n])
<1>1. /\ step[w] = "admitted" /\ Lands(w) /\ s <= MaxSize
      /\ size' = [size EXCEPT ![n] = s]
      /\ write' = [write EXCEPT ![w].entries = e, ![w].bytes = b]
      /\ step' = [step EXCEPT ![w] = "landed"]
      /\ UNCHANGED <<valid, generation, entries, bytes, mutex, scan>>
  BY DEF Land, Lands, measure
<1>2. /\ s \in Absent..MaxSize
      /\ write[w].op = "remove" => s = Absent
      /\ write[w].op # "remove" => s # Absent
  BY <1>0, <1>1, WrittenSize
<1>3. n \in Name /\ size[n] \in Absent..MaxSize /\ write[w].size \in Nat /\ MaxSize \in Nat
      /\ write[w].op \in Operation
  BY <1>0, <1>1, MeasureAssumption DEF Typed, Writes
<1>4. write[w].op = "create" => size[n] = Absent
  BY <1>1 DEF Lands
<1>5. write[w].op = "append" => s = write[w].size + SizeOf(size[n])
  BY DEF Written, SizeOf
<1> HIDE DEF s
<1>6. SizeOf(s) \in 0..MaxSize /\ SizeOf(size[n]) \in 0..MaxSize
  BY <1>2, <1>3 DEF SizeOf, Absent
<1>7. b \in (0 - MaxSize)..MaxSize
  BY <1>3, <1>6
<1>8. /\ e \in {-1, 0, 1}
      /\ e = -1 <=> s = Absent /\ size[n] # Absent
      /\ e = 1 <=> s # Absent /\ size[n] = Absent
  BY DEF CountOf
<1>9. e = -1 \/ b < 0 => write[w].op \in {"replace", "remove"}
  <2>1. CASE write[w].op = "create"
    <3>1. SizeOf(size[n]) = 0 /\ size[n] = Absent
      BY <1>4, <2>1 DEF SizeOf
    <3> HIDE DEF n
    <3>2. ~ (b < 0)
      BY <1>3, <1>6, <3>1
    <3> QED
      BY <1>8, <3>1, <3>2
  <2>2. CASE write[w].op = "append"
    <3>1. s = write[w].size + SizeOf(size[n]) /\ s # Absent
      BY <1>2, <1>5, <2>2
    <3>2. SizeOf(s) = s
      BY <3>1 DEF SizeOf
    <3>3. ~ (b < 0)
      BY <1>3, <1>6, <3>1, <3>2
    <3> QED
      BY <1>8, <3>1, <3>3
  <2> QED
    BY <1>3, <2>1, <2>2 DEF Operation
<1> HIDE DEF e, b
<1>10. /\ step'[w] = "landed" /\ write'[w].entries = e /\ write'[w].bytes = b
       /\ write'[w].name = n /\ write'[w].generation = write[w].generation
       /\ \A v \in Writer : v # w => step'[v] = step[v] /\ write'[v] = write[v]
  BY <1>0, <1>1 DEF Typed, Writes
<1>11. size'[n] = s /\ \A m \in Name : m # n => size'[m] = size[m]
  BY <1>0, <1>1, <1>3 DEF Typed
<1>12. n \in Name /\ s \in Absent..MaxSize /\ e \in {-1, 0, 1} /\ b \in (0 - MaxSize)..MaxSize
  BY <1>2, <1>3, <1>7, <1>8
<1>13. n = write[w].name /\ e = CountOf(s) - CountOf(size[n]) /\ b = SizeOf(s) - SizeOf(size[n])
  BY DEF e, b
<1> HIDE DEF n
<1> USE <1>12
<1> WITNESS n \in Name, s \in Absent..MaxSize, e \in {-1, 0, 1}, b \in (0 - MaxSize)..MaxSize
<1> QED
  BY <1>1, <1>8, <1>9, <1>10, <1>11, <1>13

\* Landing against the measurement that stands: what it takes away is owed, what it adds is not counted.
LEMMA LandStands ==
  ASSUME IInv, Weights, Counts, NEW w \in Writer, Land(w), valid, write[w].generation = generation
  PROVE  Standing'
<1>0. Typed /\ Apart
  BY DEF IInv
<1>1. PICK n \in Name, s \in Absent..MaxSize, e \in {-1, 0, 1}, b \in (0 - MaxSize)..MaxSize :
        /\ n = write[w].name /\ e = CountOf(s) - CountOf(size[n]) /\ b = SizeOf(s) - SizeOf(size[n])
        /\ size'[n] = s /\ \A m \in Name : m # n => size'[m] = size[m]
        /\ step[w] = "admitted" /\ step'[w] = "landed"
        /\ write'[w].name = n /\ write'[w].generation = write[w].generation
        /\ write'[w].entries = e /\ write'[w].bytes = b
        /\ \A v \in Writer : v # w => step'[v] = step[v] /\ write'[v] = write[v]
        /\ UNCHANGED <<valid, generation, entries, bytes, mutex, scan>>
        /\ e = -1 <=> s = Absent /\ size[n] # Absent
        /\ e = 1 <=> s # Absent /\ size[n] = Absent
        /\ e = -1 \/ b < 0 => write[w].op \in {"replace", "remove"}
  BY Landing
<1>2. /\ Cardinality(Sure) + Cardinality(Undone) <= entries
      /\ Cardinality(SureUnits) + Cardinality(Owing) <= bytes
  BY DEF Counts, Standing
<1>3. Settling' = Settling \union {w} /\ w \notin Settling
  BY <1>1 DEF Settling
<1>4. \A v \in Settling : v \in Writer /\ v # w /\ step'[v] = step[v] /\ write'[v] = write[v]
  BY <1>1, <1>3 DEF Settling
<1>5. Firm' = Firm
  BY <1>1, <1>3, <1>4 DEF Firm
<1>6. ASSUME write[w].op \in {"replace", "remove"}, NEW v \in Settling PROVE write[v].name # n
  <2>1. v \in Writer /\ v # w /\ step[v] # "idle" /\ step[w] # "idle"
    BY <1>1, <1>4 DEF Settling
  <2>2. write[v].name = write[w].name => {write[v].op, write[w].op} \subseteq {"create", "append"}
    BY <1>0, <2>1 DEF Apart
  <2> QED
    BY <1>1, <1>6, <2>2
<1>7. Cardinality(Sure') + Cardinality(Undone') <= Cardinality(Sure) + Cardinality(Undone)
  <2>1. CASE e = -1
    <3>1. n \in Firm /\ n \in Sure
      BY <1>1, <1>6, <2>1 DEF Firm, Sure
    <3>2. \A m \in Sure' : m \in Sure /\ m # n
      <4>1. ASSUME NEW m \in Sure' PROVE m \in Sure /\ m # n
        <5>1. m \in Firm /\ size'[m] # Absent /\ \A v \in Settling' : write'[v].name = m => write'[v].entries # 1
          BY <1>5, <4>1 DEF Sure
        <5>2. m # n
          BY <1>1, <2>1, <5>1
        <5>3. size[m] # Absent
          BY <1>1, <5>1, <5>2 DEF Firm
        <5> QED
          BY <1>3, <1>4, <5>1, <5>2, <5>3 DEF Sure
      <4> QED
        BY <4>1
    <3>3. Sure' \subseteq Sure \ {n}
      BY <3>2
    <3>4. Cardinality(Sure \ {n}) = Cardinality(Sure) - 1 /\ IsFiniteSet(Sure \ {n})
      BY <3>1, CountsFinite, FS_RemoveElement
    <3>5. Cardinality(Sure') <= Cardinality(Sure) - 1
      BY <3>3, <3>4, Fewer
    <3>6. Undone' = Undone \union {w} /\ w \notin Undone
      BY <1>1, <2>1 DEF Undone
    <3>7. Cardinality(Undone') = Cardinality(Undone) + 1
      BY <3>6, Sets, FS_AddElement
    <3> QED
      BY <3>5, <3>7, CountsFinite, Sets
  <2>2. CASE e # -1
    <3>1. \A m \in Sure' : m \in Sure
      <4>1. ASSUME NEW m \in Sure' PROVE m \in Sure
        <5>1. m \in Firm /\ size'[m] # Absent /\ \A v \in Settling' : write'[v].name = m => write'[v].entries # 1
          BY <1>5, <4>1 DEF Sure
        <5>2. size[m] # Absent
          <6>1. CASE m = n
            BY <1>1, <1>3, <5>1, <6>1
          <6>2. CASE m # n
            BY <1>1, <5>1, <6>2 DEF Firm
          <6> QED
            BY <6>1, <6>2
        <5> QED
          BY <1>3, <1>4, <5>1, <5>2 DEF Sure
      <4> QED
        BY <4>1
    <3>2. Undone' = Undone
      BY <1>1, <2>2 DEF Undone
    <3>3. Cardinality(Sure') <= Cardinality(Sure)
      BY <3>1, CountsFinite, Fewer
    <3> QED
      BY <3>2, <3>3, CountsFinite, Sets
  <2> QED
    BY <2>1, <2>2
<1>8. MaxSize \in Nat /\ b \in Int /\ SizeOf(s) \in 0..MaxSize /\ SizeOf(size[n]) \in 0..MaxSize
  BY <1>0, MeasureAssumption DEF SizeOf, Absent, Typed
<1>9. \A m \in Name : m # n => GainedAt(m)' = GainedAt(m)
  BY <1>1 DEF GainedAt, Gained
<1>10. \A m \in Name : m # n => Before(m)' = Before(m)
  BY <1>1, <1>9 DEF Before
<1>11. Cardinality(SureUnits') + Cardinality(Owing') <= Cardinality(SureUnits) + Cardinality(Owing)
  <2>1. CASE b < 0
    <3>1. GainedAt(n) = {}
      <4>1. \A v \in Writer : step[v] = "landed" => write[v].name # n
        BY <1>1, <1>6, <2>1 DEF Settling
      <4> QED
        BY <4>1 DEF GainedAt, Gained
    <3>2. GainedAt(n)' = {}
      <4>1. \A k \in 1..MaxSize : ~ (k <= b)
        BY <1>8, <2>1
      <4>2. \A u \in GainedAt(n)' : u \in Writer \X (1..MaxSize) /\ u[1] # w
        BY <1>1, <4>1 DEF GainedAt, Gained
      <4> QED
        BY <1>1, <3>1, <4>2 DEF GainedAt, Gained
    <3>3. Before(n) = SizeOf(size[n]) /\ Before(n)' = SizeOf(s)
      <4>1. Cardinality(GainedAt(n)) = 0 /\ Cardinality(GainedAt(n)') = 0
        BY <3>1, <3>2, FS_EmptySet
      <4> QED
        BY <1>1, <1>8, <4>1 DEF Before
    <3>4. n \in Firm
      BY <1>1, <1>6, <2>1 DEF Firm
    <3>5. Has(SureUnits, n, SizeOf(size[n])) /\ Has(SureUnits', n, SizeOf(s))
      BY <1>5, <3>3, <3>4 DEF Has, SureUnits
    <3>6. SureUnits \in SUBSET (Name \X (1..MaxSize)) /\ SureUnits' \in SUBSET (Name \X (1..MaxSize))
      BY DEF SureUnits, Firm
    <3>7. {u \in SureUnits : u[1] # n} = {u \in SureUnits' : u[1] # n}
      BY <1>5, <1>10 DEF SureUnits, Firm
    <3>8. Cardinality(SureUnits') = Cardinality(SureUnits) + SizeOf(s) - SizeOf(size[n])
      BY <1>8, <3>5, <3>6, <3>7, PartChanged, MeasureAssumption
    <3>9. Has(Owing, w, 0) /\ Has(Owing', w, 0 - b)
      <4>1. \A k \in 1..MaxSize : ~ (k <= 0)
        BY <1>8
      <4> QED
        BY <1>1, <4>1 DEF Has, Owing
    <3>10. {u \in Owing : u[1] # w} = {u \in Owing' : u[1] # w}
      BY <1>1 DEF Owing
    <3>11. Owing \in SUBSET (Writer \X (1..MaxSize)) /\ Owing' \in SUBSET (Writer \X (1..MaxSize))
      BY DEF Owing
    <3>12. 0 \in 0..MaxSize /\ 0 - b \in 0..MaxSize
      BY <1>8, <2>1
    <3>13. Cardinality(Owing') = Cardinality(Owing) + (0 - b) - 0
      BY <3>9, <3>10, <3>11, <3>12, PartChanged, MeasureAssumption
    <3> QED
      BY <1>1, <1>8, <3>8, <3>13, CountsFinite
  <2>2. CASE ~ (b < 0)
    <3>1. Cardinality(GainedAt(n)') = Cardinality(GainedAt(n)) + b - 0
      <4>1. \A k \in 1..MaxSize : ~ (k <= 0)
        BY <1>8
      <4>2. Has(GainedAt(n), w, 0) /\ Has(GainedAt(n)', w, b)
        BY <1>1, <4>1 DEF Has, GainedAt, Gained
      <4>3. {u \in GainedAt(n) : u[1] # w} = {u \in GainedAt(n)' : u[1] # w}
        BY <1>1 DEF GainedAt, Gained
      <4>4. 0 \in 0..MaxSize /\ b \in 0..MaxSize
        BY <1>8, <2>2
      <4> QED
        BY <4>2, <4>3, <4>4, PendingCounted, PartChanged, MeasureAssumption
    <3>2. Before(n)' = Before(n)
      <4>1. PICK c \in Nat : c = Cardinality(GainedAt(n))
        BY PendingCounted
      <4>2. Before(n) = SizeOf(size[n]) - c /\ Before(n)' = SizeOf(s) - (c + b - 0)
        BY <1>1, <3>1, <4>1 DEF Before
      <4> QED
        BY <1>1, <1>8, <4>1, <4>2
    <3>3. SureUnits' = SureUnits
      BY <1>5, <1>10, <3>2 DEF SureUnits, Firm
    <3>4. \A k \in 1..MaxSize : ~ (k <= 0 - b)
      BY <1>8, <2>2
    <3>5. Owing' = Owing
      BY <1>1, <3>4 DEF Owing
    <3> QED
      BY <3>3, <3>5, CountsFinite
  <2> QED
    BY <2>1, <2>2
<1> QED
  BY <1>1, <1>2, <1>7, <1>11, CountsFinite, Sets, SetsNext DEF Standing, Counts

LEMMA LandCounts ==
  ASSUME IInv, Weights, Counts, NEW w \in Writer, Land(w)
  PROVE  Counts'
<1>0. Typed
  BY DEF IInv
<1>1. /\ step[w] = "admitted" /\ step'[w] = "landed"
      /\ write'[w].name = write[w].name /\ write'[w].generation = write[w].generation
      /\ \A v \in Writer : v # w => step'[v] = step[v] /\ write'[v] = write[v]
      /\ \A m \in Name : m # write[w].name => size'[m] = size[m]
      /\ UNCHANGED <<valid, generation, entries, bytes, mutex, scan>>
  BY Landing
<1>2. Walking'
  BY <1>0, <1>1, StillWalking DEF Counts, Typed
<1>3. Standing'
  <2>1. CASE ~ valid
    BY <1>1, <2>1 DEF Standing
  <2>2. CASE valid /\ write[w].generation = generation
    BY <2>2, LandStands
  <2>3. CASE valid /\ write[w].generation # generation
    BY <1>1, <2>3, StillStanding
  <2> QED
    BY <2>1, <2>2, <2>3
<1> QED
  BY <1>1, <1>2, <1>3 DEF Counts

LEMMA FailCounts ==
  ASSUME IInv, Counts, NEW w \in Writer, Fail(w)
  PROVE  Counts'
<1>0. Typed
  BY DEF IInv
<1>1. /\ step[w] = "admitted" /\ step'[w] = "failed" /\ write' = write
      /\ \A v \in Writer : v # w => step'[v] = step[v] /\ write'[v] = write[v]
      /\ UNCHANGED <<valid, generation, entries, bytes, mutex, scan>>
  BY <1>0 DEF Fail, measure, Typed
<1>2. \A m \in Name : m # write[w].name => size'[m] = size[m]
  BY <1>0 DEF Fail, Typed
<1>3. Walking'
  BY <1>0, <1>1, <1>2, StillWalking DEF Counts, Typed
<1>4. Standing'
  BY <1>1, <1>2, StillStanding
<1> QED
  BY <1>1, <1>3, <1>4 DEF Counts

\* A write that is counted into the measurement it was admitted against.
LEMMA SettleStands ==
  ASSUME IInv, Weights, Counts, NEW w \in Writer, Settle(w), valid, write[w].generation = generation
  PROVE  entries' \in Nat /\ bytes' \in Nat /\ Standing'
<1>0. Typed
  BY DEF IInv
<1>1. PICK n \in Name, e \in {-1, 0, 1}, b \in (0 - MaxSize)..MaxSize :
        /\ n = write[w].name /\ e = write[w].entries /\ b = write[w].bytes
        /\ step[w] = "landed"
  <2>1. /\ step[w] = "landed" /\ write[w].name \in Name /\ write[w].entries \in {-1, 0, 1}
    BY <1>0 DEF Settle, Typed, Writes
  <2>2. write[w].bytes \in (0 - MaxSize)..MaxSize
    BY <2>1 DEF Weights, Sized
  <2> QED
    BY <2>1, <2>2
<1>2. /\ step'[w] = "idle" /\ entries' = entries + e /\ bytes' = bytes + b
      /\ \A v \in Writer : v # w => step'[v] = step[v] /\ write'[v] = write[v]
      /\ UNCHANGED <<size, generation>>
  BY <1>0, <1>1 DEF Settle, Typed
<1>3. /\ Cardinality(Sure) + Cardinality(Undone) <= entries /\ entries \in Nat
      /\ Cardinality(SureUnits) + Cardinality(Owing) <= bytes /\ bytes \in Nat
  BY DEF Counts, Standing
<1>4. Settling' = Settling \ {w} /\ w \in Settling /\ Settling \subseteq Writer
  BY <1>1, <1>2 DEF Settling
<1>5. Firm' = Firm
  BY <1>1, <1>2, <1>4 DEF Firm
<1>6. MaxSize \in Nat /\ b \in Int
  BY MeasureAssumption
<1>7. Cardinality(Sure') + Cardinality(Undone') <= Cardinality(Sure) + Cardinality(Undone) + e
  <2>1. Sure' \ {n} = Sure \ {n} /\ (e # 1 => Sure' = Sure)
    BY <1>1, <1>2, <1>4, <1>5 DEF Sure
  <2>2. Undone' = Undone \ {w} /\ (w \in Undone <=> e = -1)
    BY <1>1, <1>2 DEF Undone
  <2>3. CASE e = 1
    <3>1. Cardinality(Sure') <= Cardinality(Sure) + 1
      BY <2>1, CountsFinite, DifferAtOne
    <3>2. Undone' = Undone
      BY <2>2, <2>3
    <3> QED
      BY <2>3, <3>1, <3>2, CountsFinite, Sets
  <2>4. CASE e = 0
    <3>1. Undone' = Undone /\ Sure' = Sure
      BY <2>1, <2>2, <2>4
    <3> QED
      BY <2>4, <3>1, CountsFinite, Sets
  <2>5. CASE e = -1
    <3>1. Cardinality(Undone \ {w}) = Cardinality(Undone) - 1
      BY <2>2, <2>5, Sets, FS_RemoveElement
    <3>2. Undone' = Undone \ {w} /\ Sure' = Sure
      BY <2>1, <2>2, <2>5
    <3> QED
      BY <2>5, <3>1, <3>2, CountsFinite, Sets
  <2> QED
    BY <2>3, <2>4, <2>5
<1>8. \A m \in Name : m # n => Before(m)' = Before(m)
  <2>1. \A m \in Name : m # n => GainedAt(m)' = GainedAt(m)
    BY <1>1, <1>2 DEF GainedAt, Gained
  <2> QED
    BY <1>2, <2>1 DEF Before
<1>9. Cardinality(SureUnits') + Cardinality(Owing') <= Cardinality(SureUnits) + Cardinality(Owing) + b
  <2>1. CASE b > 0
    <3>1. Cardinality(GainedAt(n)') = Cardinality(GainedAt(n)) + 0 - b
      <4>1. \A k \in 1..MaxSize : ~ (k <= 0)
        BY <1>6
      <4>2. Has(GainedAt(n), w, b) /\ Has(GainedAt(n)', w, 0)
        BY <1>1, <1>2, <4>1 DEF Has, GainedAt, Gained
      <4>3. {u \in GainedAt(n) : u[1] # w} = {u \in GainedAt(n)' : u[1] # w}
        BY <1>2 DEF GainedAt, Gained
      <4>4. 0 \in 0..MaxSize /\ b \in 0..MaxSize
        BY <1>6, <2>1
      <4> QED
        BY <4>2, <4>3, <4>4, PendingCounted, PartChanged, MeasureAssumption
    <3>2. PICK a \in Int : a = Before(n) /\ Before(n)' = a + b /\ a <= MaxSize /\ a + b <= MaxSize
      <4>1. PICK c \in Nat, d \in Nat : c = Cardinality(GainedAt(n)) /\ d = Cardinality(GainedAt(n)')
        BY PendingCounted
      <4>2. SizeOf(size[n]) \in 0..MaxSize
        BY <1>0, StoredAt
      <4>3. Before(n) = SizeOf(size[n]) - c /\ Before(n)' = SizeOf(size[n]) - d /\ d = c + 0 - b
        BY <1>2, <3>1, <4>1 DEF Before
      <4> QED
        BY <1>6, <4>1, <4>2, <4>3
    <3>3. Cardinality(SureUnits') <= Cardinality(SureUnits) + b
      <4>1. SureUnits \in SUBSET (Name \X (1..MaxSize)) /\ SureUnits' \in SUBSET (Name \X (1..MaxSize))
        BY DEF SureUnits, Firm
      <4>2. {u \in SureUnits : u[1] # n} = {u \in SureUnits' : u[1] # n}
        BY <1>5, <1>8 DEF SureUnits, Firm
      <4>3. CASE n \in Firm
        <5>1. Has(SureUnits, n, a) /\ Has(SureUnits', n, a + b)
          BY <1>5, <3>2, <4>3 DEF Has, SureUnits
        <5>2. Cardinality(SureUnits') = Cardinality(SureUnits) + More(a + b) - More(a)
          BY <1>6, <3>2, <4>1, <4>2, <5>1, Shifted, MeasureAssumption
        <5>3. More(a + b) - More(a) <= b /\ More(a + b) \in Int /\ More(a) \in Int
          BY <1>6, <2>1, <3>2 DEF More
        <5> QED
          BY <1>6, <5>2, <5>3, CountsFinite
      <4>4. CASE n \notin Firm
        <5>1. SureUnits' = SureUnits
          BY <1>5, <1>8, <4>4 DEF SureUnits, Firm
        <5> QED
          BY <1>6, <2>1, <5>1, CountsFinite
      <4> QED
        BY <4>3, <4>4
    <3>4. Owing' = Owing
      <4>1. \A k \in 1..MaxSize : ~ (k <= 0 - b)
        BY <1>6, <2>1
      <4>2. \A u \in Owing : u[1] # w
        BY <1>1, <4>1 DEF Owing
      <4> QED
        BY <1>2, <4>2 DEF Owing
    <3> QED
      BY <1>6, <3>3, <3>4, CountsFinite
  <2>2. CASE ~ (b > 0)
    <3>1. GainedAt(n)' = GainedAt(n)
      <4>1. \A k \in 1..MaxSize : ~ (k <= b)
        BY <1>6, <2>2
      <4>2. \A u \in GainedAt(n) : u[1] # w
        BY <1>1, <4>1 DEF GainedAt, Gained
      <4> QED
        BY <1>2, <4>2 DEF GainedAt, Gained
    <3>2. Before(n)' = Before(n)
      BY <1>2, <3>1 DEF Before
    <3>3. SureUnits' = SureUnits
      BY <1>5, <1>8, <3>2 DEF SureUnits, Firm
    <3>4. Cardinality(Owing') = Cardinality(Owing) + 0 - (0 - b)
      <4>1. \A k \in 1..MaxSize : ~ (k <= 0)
        BY <1>6
      <4>2. Has(Owing, w, 0 - b) /\ Has(Owing', w, 0)
        BY <1>1, <1>2, <4>1 DEF Has, Owing
      <4>3. {u \in Owing : u[1] # w} = {u \in Owing' : u[1] # w}
        BY <1>2 DEF Owing
      <4>4. Owing \in SUBSET (Writer \X (1..MaxSize)) /\ Owing' \in SUBSET (Writer \X (1..MaxSize))
        BY DEF Owing
      <4>5. 0 \in 0..MaxSize /\ 0 - b \in 0..MaxSize
        BY <1>6, <2>2
      <4> QED
        BY <4>2, <4>3, <4>4, <4>5, PartChanged, MeasureAssumption
    <3> QED
      BY <1>6, <3>3, <3>4, CountsFinite
  <2> QED
    BY <2>1, <2>2
<1>10. /\ Cardinality(Sure') + Cardinality(Undone') <= entries' /\ entries' \in Nat
  BY <1>2, <1>3, <1>7, CountsFinite, Sets, SetsNext
<1>11. Cardinality(SureUnits') + Cardinality(Owing') <= bytes' /\ bytes' \in Nat
  BY <1>2, <1>3, <1>6, <1>9, CountsFinite
<1> QED
  BY <1>10, <1>11 DEF Standing

LEMMA SettleCounts ==
  ASSUME IInv, Weights, Counts, NEW w \in Writer, Settle(w)
  PROVE  Counts'
<1>1. mutex' = Free /\ generation' = generation
  BY DEF Settle
<1>2. CASE valid /\ write[w].generation = generation
  BY <1>1, <1>2, SettleStands DEF Counts, Walking
<1>3. CASE ~ (valid /\ write[w].generation = generation)
  <2>1. ~ valid' /\ entries' = entries + 0 /\ bytes' = bytes + 0
    BY <1>3 DEF Settle
  <2>2. entries' = entries /\ bytes' = bytes
    BY <2>1 DEF Counts
  <2> QED
    BY <1>1, <2>1, <2>2 DEF Counts, Standing, Walking
<1> QED
  BY <1>2, <1>3

LEMMA ForgetCounts ==
  ASSUME IInv, Counts, NEW w \in Writer, Forget(w)
  PROVE  Counts'
<1>1. mutex' = Free /\ ~ valid' /\ UNCHANGED <<generation, entries, bytes>>
  BY DEF Forget
<1> QED
  BY <1>1 DEF Counts, Standing, Walking

LEMMA CountsKept ==
  ASSUME IInv, Weights, Counts, [Next]_vars
  PROVE  Counts'
<1>1. ASSUME NEW w \in Writer, \E op \in Operation, n \in Name, s \in 0..MaxSize : Begin(w, op, n, s)
      PROVE  Counts'
  BY <1>1, AskingCounts
<1>2. ASSUME NEW w \in Writer, Admit(w) PROVE Counts'
  BY <1>2, AskingCounts
<1>3. ASSUME NEW w \in Writer, StartScan(w) \/ Visit(w) \/ EndScan(w) \/ ScanFails(w) PROVE Counts'
  BY <1>3, StartScanCounts, VisitCounts, EndScanCounts, ScanFailsCounts
<1>4. ASSUME NEW w \in Writer, Land(w) \/ Fail(w) PROVE Counts'
  BY <1>4, LandCounts, FailCounts
<1>5. ASSUME NEW w \in Writer, Settle(w) \/ Forget(w) PROVE Counts'
  BY <1>5, SettleCounts, ForgetCounts
<1>6. CASE UNCHANGED vars
  <2>1. UNCHANGED <<size, valid, generation, entries, bytes, mutex, scan, step, write>>
    BY <1>6 DEF vars, measure
  <2>2. Settling' = Settling /\ Stored' = Stored /\ Gained' = Gained /\ Undone' = Undone /\ Owing' = Owing
    BY <2>1 DEF Settling, Stored, Gained, Undone, Owing
  <2>3. Calm' = Calm /\ Firm' = Firm
    BY <2>1, <2>2 DEF Calm, Firm
  <2>4. Sure' = Sure /\ CalmNames' = CalmNames /\ CalmUnits' = CalmUnits
    BY <2>1, <2>2, <2>3 DEF Sure, CalmNames, CalmUnits
  <2>5. \A n \in Name : GainedAt(n)' = GainedAt(n)
    BY <2>1, <2>2 DEF GainedAt
  <2>6. \A n \in Name : Before(n)' = Before(n)
    BY <2>1, <2>5 DEF Before
  <2>7. SureUnits' = SureUnits
    BY <2>3, <2>6 DEF SureUnits, Firm
  <2> QED
    BY <2>1, <2>2, <2>4, <2>7 DEF Counts, Standing, Walking
<1> QED
  BY <1>1, <1>2, <1>3, <1>4, <1>5, <1>6 DEF Next

(***************************************************************************)
(* However landings, failures and counts interleave, the measurement's     *)
(* counts stay counts: settling a removal or a shorter replacement never   *)
(* takes from them what they do not hold (operations_linux_amd64.go,       *)
(* settle), and the walk and every write are of their type.                *)
(***************************************************************************)
THEOREM TypeCorrect == Spec => []TypeOK
<1>1. Init => Counts
  <2> SUFFICES ASSUME Init PROVE Counts
    OBVIOUS
  <2>1. generation = 0 /\ entries = 0 /\ bytes = 0 /\ ~ valid /\ mutex = Free
    BY DEF Init
  <2> QED
    BY <2>1, MeasureAssumption DEF Counts, Standing, Walking
<1>2. IInv /\ Weights /\ Counts /\ [Next]_vars => Counts'
  BY CountsKept
<1>3. IInv /\ Counts => TypeOK
  <2> SUFFICES ASSUME IInv, Counts PROVE TypeOK
    OBVIOUS
  <2>1. Typed
    BY DEF IInv
  <2>2. generation \in 0..MaxGeneration /\ entries \in Nat /\ bytes \in Nat
    BY <2>1, MeasureAssumption DEF Typed, Counts
  <2>3. \A w \in Writer : step[w] \in {"idle", "asking", "admitted", "landed", "failed"}
    BY <2>1 DEF Typed, Step
  <2> QED
    BY <2>1, <2>2, <2>3 DEF Typed, TypeOK
<1> QED
  BY <1>1, <1>2, <1>3, Invariance, Weighing, PTL DEF Spec
=============================================================================
