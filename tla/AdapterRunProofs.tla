-------------------------- MODULE AdapterRunProofs --------------------------
(***************************************************************************)
(* AdapterRun's safety properties for any number of tools, any lines and   *)
(* any number of faults.                                                   *)
(*                                                                         *)
(* The invariant has three parts.  Life follows the processes and how far  *)
(* the session knows of them.  Acks says that an acknowledgement not yet   *)
(* read answers the last line written, so that the playbook cannot take it *)
(* for another record's.  Ruled says that what the session has ruled is    *)
(* what the lines it took say, read in order: as long as nothing but the   *)
(* adapter's exit ended it, the judge is still where those lines put it.   *)
(***************************************************************************)
EXTENDS AdapterRun, FiniteSetTheorems, TLAPS

-----------------------------------------------------------------------------
(* The invariant. *)

\* What the session knows of the processes is so.
Reaping ==
  /\ adapter = "none" <=> playbook = "none"
  /\ run.phase = "opening" => adapter = "none"
  /\ Supervised => adapter # "none"
  /\ run.waited # "awaited" => adapter \in Exits
  /\ run.stopping /\ run.waited # "awaited" => run.groupKilled
  /\ run.groupKilled => adapter \in Exits /\ playbook \in Exits
  /\ run.waited = "reaped" => ~ OutputHeld
  /\ run.waited = "reaped" /\ ~ run.ended => adapter = "zero"
  /\ run.waited = "cut" => run.ended
  /\ adapter = "zero" => playbook = "zero"

\* What the reading goroutine met.
Reading ==
  /\ taken <= reader.read /\ reader.read <= Len(written)
  /\ \A i \in 1..reader.read : written[i] # "unreadable"
  /\ reader.state = "ended" => ~ ChannelHeld /\ reader.read = Len(written)
  /\ reader.state = "refused" => reader.read < Len(written) /\ written[reader.read + 1] = "unreadable"
  /\ reader.state = "closed" /\ adapter # "none" => run.drain = "passed"
  /\ ~ run.reading => reader.state # "reading" /\ taken = reader.read
  /\ ~ run.reading /\ reader.state = "refused" => run.ended /\ ~ run.exited

\* What a supervised run ends with.
Failures == {"Invalid", "Incomplete", "Named", "FailedExit", "Retained", "RetainedOutput", "Uncertain"}

\* How the session ended, or has not.
Ending ==
  /\ run.exited => run.ended /\ adapter = "failed" /\ (run.kind = "FailedExit" \/ run.canceled)
  /\ Supervised /\ ~ run.ended => run.kind = "none"
  /\ run.drain = "passed" => run.ended
  /\ judge.unpublished => run.ended
  /\ run.completed <=> judge.completed
  /\ run.undelivered => ~ ChannelHeld /\ taken = Len(written) /\ ~ run.completed
  /\ Returned /\ adapter # "none" =>
       ~ run.reading /\ run.waited # "awaited" /\ run.kind = outcome(run)
  /\ adapter # "none" => run.kind \in IF run.ended THEN Failures \union {"Canceled"}
                                      ELSE {"none", "NoResult", "Completed", "Canceled"}
  /\ adapter = "none" =>
       /\ ~ run.stopping /\ ~ effect /\ ~ granted /\ proceeds = 0 /\ written = <<>> /\ ~ judge.published
       /\ run.kind \in {"none", "ResultChannel", "AuthorizationChannel", "Aborted", "NotStarted"}

\* Nothing has happened before the adapter is started.
Opening == run.phase = "opening" => Init

Life == Reaping /\ Reading /\ Ending /\ Opening

\* No acknowledgement is written any more.
NoMore ==
  ~ Supervised \/ ~ run.reading \/ run.ended \/ run.canceled \/ run.undelivered \/ judge.refused

\* The acknowledgement of the effect's record was written, so far as the session knows.
Authorized ==
  /\ judge.published
  /\ ~ Lifecycle => \/ judge.effectAuthorized
                    \/ /\ judge.effectRequested /\ run.ended /\ ~ run.exited
                       /\ run.kind = "Uncertain" \/ (Returned /\ run.kind = "Canceled")

Acks ==
  /\ Lifecycle => ~ judge.refused
  /\ ~ run.input => NoMore
  /\ playbook \in {"none", "working", "failing"} => proceeds = 0
  /\ playbook = "failing" => NoMore
  /\ ~ NoMore => \A k \in DOMAIN written : k > taken /\ written[k] \in Waits =>
                   k = Len(written) /\ playbook \in {"waiting"} \union Exits
  /\ proceeds > 0 => /\ proceeds = 1 /\ taken = Len(written) /\ Len(written) > 0
                     /\ Last(written) = EffectRecord => Authorized
  /\ granted \/ effect => Authorized
  /\ judge.prepared => judge.published \/ run.ended \/ run.undelivered

\* The first n lines are in place, and none refuses.
Sound(n) == \A i \in 1..n : InPlace(written, i) /\ written[i] # "refused"

\* The i-th line is the first that ends the protocol.
Ends(i) == Sound(i - 1) /\ (~ InPlace(written, i) \/ written[i] = "refused")

Continued(n) == {k \in 1..n : written[k] = "continue"}

\* The judge stands where the lines taken put it.
Matches ==
  LET lines == Before(written, taken + 1)
  IN  /\ judge.loaded <=> "loaded" \in lines
      /\ judge.prepared <=> "prepared" \in lines
      /\ judge.completed <=> "completed" \in lines
      /\ judge.refused <=> "internal" \in lines
      /\ judge.continuations = Cardinality(Continued(taken))

\* What a line that ends the protocol makes of the run.
KindOf(i) ==
  IF written[i] = "unreadable" THEN "Incomplete"
  ELSE IF InPlace(written, i) THEN "Named" ELSE "Invalid"

\* Something other than the lines and the exit had a part in it.
Spoiled ==
  run.canceled \/ run.drain = "passed" \/ run.waited = "cut" \/ run.kind = "Uncertain" \/ judge.unpublished

Ruled ==
  ~ Spoiled /\ adapter # "none" =>
    /\ ~ run.ended \/ run.exited => Sound(taken) /\ Matches
    /\ run.ended /\ ~ run.exited =>
         \E i \in DOMAIN written : Ends(i) /\ run.kind = KindOf(i)

IInv == TypeOK /\ Life /\ Acks /\ Ruled

-----------------------------------------------------------------------------
(* What the session's own steps make of it. *)

Sessions == [kind: Kinds \cup {"none"}, ended: BOOLEAN, exited: BOOLEAN, undelivered: BOOLEAN,
             canceled: BOOLEAN, completed: BOOLEAN, stopping: BOOLEAN, groupKilled: BOOLEAN,
             drain: {"off", "armed", "passed"}, waited: {"awaited", "reaped", "cut"},
             reading: BOOLEAN, input: BOOLEAN, phase: {"opening", "supervised", "returned"}]

\* A stop that met the reap killed the group.
Killed(s) == s.stopping /\ s.waited # "awaited" => s.groupKilled

\* t is s, its adapter stopped or its input closed.
Stops(s, t) ==
  /\ t \in Sessions
  /\ t.kind = s.kind /\ t.ended = s.ended /\ t.exited = s.exited /\ t.undelivered = s.undelivered
  /\ t.completed = s.completed /\ t.waited = s.waited /\ t.reading = s.reading /\ t.phase = s.phase
  /\ t.drain = "passed" <=> s.drain = "passed"
  /\ s.stopping => t.stopping
  /\ s.groupKilled => t.groupKilled
  /\ t.input => s.input
  /\ Killed(s) => Killed(t)

LEMMA StopFact ==
  ASSUME NEW s \in Sessions
  PROVE Stops(s, stop(s)) /\ ~ stop(s).input /\ stop(s).canceled = s.canceled
<1>1. CASE s.stopping
  BY <1>1 DEF stop, Stops, Sessions, Killed
<1>2. CASE ~ s.stopping /\ s.waited = "awaited"
  BY <1>2 DEF stop, Stops, Sessions, Killed, arm
<1>3. CASE ~ s.stopping /\ s.waited # "awaited"
  BY <1>3 DEF stop, Stops, Sessions, Killed, arm, killGroup
<1> QED
  BY <1>1, <1>2, <1>3

LEMMA BreachFact ==
  ASSUME NEW s \in Sessions
  PROVE Stops(s, breach(s)) /\ ~ breach(s).input /\ breach(s).canceled = s.canceled
<1>1. CASE Lifecycle
  BY <1>1, StopFact DEF breach
<1>2. CASE ~ Lifecycle
  BY <1>2 DEF breach, Stops, Sessions, Killed
<1> QED
  BY <1>1, <1>2

LEMMA CancelFact ==
  ASSUME NEW s \in Sessions
  PROVE Stops(s, cancel(s)) /\ cancel(s).canceled /\ (~ s.canceled => ~ cancel(s).input)
<1>1. CASE s.canceled
  BY <1>1 DEF cancel, Stops, Sessions, Killed
<1>2. CASE ~ s.canceled
  <2> DEFINE c == [s EXCEPT !.canceled = TRUE]
  <2>1. c \in Sessions /\ Stops(s, c) /\ c.canceled
    BY DEF Sessions, Stops, Killed
  <2> HIDE DEF c
  <2>2. Stops(c, stop(c)) /\ ~ stop(c).input /\ stop(c).canceled
    BY <2>1, StopFact
  <2>3. cancel(s) = stop(c)
    BY <1>2 DEF cancel, c
  <2> QED
    BY <2>1, <2>2, <2>3, <1>2 DEF Stops
<1> QED
  BY <1>1, <1>2

LEMMA DrainedFact ==
  ASSUME NEW s \in Sessions, Killed(s)
  PROVE LET t == drained(s)
        IN  /\ t \in Sessions /\ t.drain = "passed" /\ t.ended /\ Killed(t)
            /\ IF s.ended THEN t.kind = s.kind ELSE t.kind = "Retained"
            /\ t.exited = s.exited /\ t.undelivered = s.undelivered /\ t.canceled = s.canceled
            /\ t.completed = s.completed /\ t.waited = s.waited /\ t.reading = s.reading
            /\ t.input = s.input /\ t.phase = s.phase
            /\ s.groupKilled => t.groupKilled
  BY DEF drained, killGroup, end, Sessions, Killed, Kinds

LEMMA ReapedFact ==
  ASSUME NEW s \in Sessions, NEW cut \in BOOLEAN, NEW exit \in Exits, s.waited = "awaited"
  PROVE LET t == reaped(s, cut, exit)
        IN  /\ t \in Sessions /\ t.waited = (IF cut THEN "cut" ELSE "reaped") /\ Killed(t)
            /\ s.ended => t.ended /\ t.kind = s.kind /\ t.exited = s.exited
            /\ ~ s.ended /\ exit = "failed" => t.ended /\ t.exited /\ t.kind = "FailedExit"
            /\ ~ s.ended /\ exit = "zero" => (t.ended <=> cut) /\ t.exited = s.exited
            /\ ~ s.ended /\ exit = "zero" => t.kind = IF cut THEN "RetainedOutput" ELSE s.kind
            /\ t.undelivered = s.undelivered /\ t.canceled = s.canceled
            /\ t.completed = s.completed /\ t.reading = s.reading
            /\ t.input = s.input /\ t.phase = s.phase
            /\ t.drain = "passed" <=> s.drain = "passed"
            /\ s.groupKilled => t.groupKilled
<1> DEFINE w == [s EXCEPT !.waited = IF cut THEN "cut" ELSE "reaped"]
           a == arm(killGroup(w))
<1>1. /\ a \in Sessions /\ a.waited = (IF cut THEN "cut" ELSE "reaped") /\ Killed(a)
      /\ a.ended = s.ended /\ a.kind = s.kind /\ a.exited = s.exited
      /\ a.undelivered = s.undelivered /\ a.canceled = s.canceled
      /\ a.completed = s.completed /\ a.reading = s.reading
      /\ a.input = s.input /\ a.phase = s.phase
      /\ a.drain = "passed" <=> s.drain = "passed"
      /\ s.groupKilled => a.groupKilled
  BY DEF Sessions, arm, killGroup, Killed
<1> HIDE DEF a
<1>2. reaped(s, cut, exit) =
        CASE s.ended -> a
          [] ~s.ended /\ exit = "failed" -> [end(a, "FailedExit") EXCEPT !.exited = TRUE]
          [] ~s.ended /\ exit = "zero" /\ cut -> end(a, "RetainedOutput")
          [] OTHER -> a
  BY DEF reaped, a
<1>3. CASE s.ended
  BY <1>1, <1>2, <1>3
<1>4. CASE ~ s.ended /\ exit = "failed"
  <2>1. reaped(s, cut, exit) = [end(a, "FailedExit") EXCEPT !.exited = TRUE]
    BY <1>2, <1>4
  <2>2. LET t == [end(a, "FailedExit") EXCEPT !.exited = TRUE]
        IN  /\ t \in Sessions /\ t.ended /\ t.exited /\ t.kind = "FailedExit" /\ Killed(t)
            /\ t.waited = a.waited /\ t.undelivered = a.undelivered /\ t.canceled = a.canceled
            /\ t.completed = a.completed /\ t.reading = a.reading /\ t.input = a.input
            /\ t.phase = a.phase /\ t.drain = a.drain /\ t.groupKilled = a.groupKilled
    BY <1>1 DEF end, Sessions, Kinds, Killed
  <2> QED
    BY <1>1, <1>4, <2>1, <2>2
<1>5. CASE ~ s.ended /\ exit = "zero" /\ cut
  <2>1. reaped(s, cut, exit) = end(a, "RetainedOutput")
    BY <1>2, <1>5
  <2>2. LET t == end(a, "RetainedOutput")
        IN  /\ t \in Sessions /\ t.ended /\ t.kind = "RetainedOutput" /\ t.exited = a.exited /\ Killed(t)
            /\ t.waited = a.waited /\ t.undelivered = a.undelivered /\ t.canceled = a.canceled
            /\ t.completed = a.completed /\ t.reading = a.reading /\ t.input = a.input
            /\ t.phase = a.phase /\ t.drain = a.drain /\ t.groupKilled = a.groupKilled
    BY <1>1 DEF end, Sessions, Kinds, Killed
  <2> QED
    BY <1>1, <1>5, <2>1, <2>2
<1>6. CASE ~ s.ended /\ exit = "zero" /\ ~ cut
  <2>1. reaped(s, cut, exit) = a
    BY <1>2, <1>6
  <2> QED
    BY <1>1, <1>6, <2>1
<1> QED
  BY <1>3, <1>4, <1>5, <1>6 DEF Exits

LEMMA ReadEndedFact ==
  ASSUME NEW s \in Sessions, NEW how \in {"ended", "refused", "closed"}, Killed(s)
  PROVE LET t == readEnded(s, how)
        IN  /\ t \in Sessions /\ ~ t.reading /\ Killed(t)
            /\ s.ended => t.ended
            /\ s.ended /\ ~ s.exited => ~ t.exited /\ t.kind = s.kind
            /\ how = "ended" => t.ended = s.ended /\ t.exited = s.exited /\ t.kind = s.kind
            /\ how # "ended" => t.ended
            /\ how = "refused" => ~ t.exited
            /\ how = "refused" /\ (~ s.ended \/ s.exited) => t.kind = "Incomplete"
            /\ how = "closed" /\ s.ended => t.exited = s.exited /\ t.kind = s.kind
            /\ how = "closed" /\ ~ s.ended => ~ t.exited /\ t.kind = "Incomplete"
            /\ t.undelivered = s.undelivered /\ t.canceled = s.canceled
            /\ t.completed = s.completed /\ t.waited = s.waited /\ t.phase = s.phase
            /\ t.drain = "passed" <=> s.drain = "passed"
            /\ s.groupKilled => t.groupKilled
<1> DEFINE u == [s EXCEPT !.reading = FALSE]
           i == [end(u, "Incomplete") EXCEPT !.exited = FALSE]
<1>1. u \in Sessions /\ i \in Sessions
  BY DEF Sessions, end, Kinds
<1>2. Stops(u, breach(u)) /\ breach(u).canceled = u.canceled /\ Stops(i, breach(i)) /\ breach(i).canceled = i.canceled
  BY <1>1, BreachFact
<1>3. CASE how = "ended"
  <2>1. readEnded(s, how) = u
    BY <1>3 DEF readEnded
  <2> QED
    BY <2>1, <1>1, <1>3 DEF Sessions, Killed
<1>4. CASE how # "ended" /\ (~ s.ended \/ (s.exited /\ how # "closed"))
  <2>1. readEnded(s, how) = breach(i)
    BY <1>4 DEF readEnded
  <2>2. /\ i.ended /\ ~ i.exited /\ i.kind = "Incomplete" /\ ~ i.reading /\ Killed(i)
        /\ i.undelivered = s.undelivered /\ i.canceled = s.canceled
        /\ i.completed = s.completed /\ i.waited = s.waited /\ i.phase = s.phase
        /\ i.drain = s.drain /\ i.groupKilled = s.groupKilled
    BY DEF Sessions, end, Killed
  <2> HIDE DEF i, u
  <2> QED
    BY <2>1, <2>2, <1>2, <1>4 DEF Stops
<1>5. CASE how # "ended" /\ ~ (~ s.ended \/ (s.exited /\ how # "closed"))
  <2>1. readEnded(s, how) = breach(u)
    BY <1>5 DEF readEnded
  <2>2. /\ u.ended = s.ended /\ u.exited = s.exited /\ u.kind = s.kind /\ ~ u.reading /\ Killed(u)
        /\ u.undelivered = s.undelivered /\ u.canceled = s.canceled
        /\ u.completed = s.completed /\ u.waited = s.waited /\ u.phase = s.phase
        /\ u.drain = s.drain /\ u.groupKilled = s.groupKilled
    BY DEF Sessions, end, Killed
  <2> HIDE DEF i, u
  <2> QED
    BY <2>1, <2>2, <1>2, <1>5 DEF Stops
<1> QED
  BY <1>3, <1>4, <1>5

LEMMA LinesKept ==
  ASSUME UNCHANGED written, judge'.of = judge.of
  PROVE /\ \A i : InPlace(written, i)' = InPlace(written, i)
        /\ \A n : Sound(n)' = Sound(n)
        /\ \A i : Ends(i)' = Ends(i) /\ KindOf(i)' = KindOf(i)
<1>1. \A i : InPlace(written, i)' = InPlace(written, i)
  BY DEF InPlace, Before, Lifecycle
<1>2. \A n : Sound(n)' = Sound(n)
  BY <1>1 DEF Sound
<1> QED
  BY <1>1, <1>2 DEF KindOf, Ends

\* A step that takes no record and leaves the lines alone.
LEMMA RuledOn ==
  ASSUME Ruled, UNCHANGED <<judge, written, taken>>, adapter' # "none" => adapter # "none",
         ~ Spoiled' => /\ ~ Spoiled
                       /\ ~ run'.ended \/ run'.exited => ~ run.ended \/ run.exited
                       /\ run'.ended /\ ~ run'.exited =>
                            \/ run.ended /\ ~ run.exited /\ run'.kind = run.kind
                            \/ \E i \in DOMAIN written : Ends(i) /\ run'.kind = KindOf(i)
  PROVE Ruled'
<1>1. Matches' = Matches
  BY DEF Matches, Before, Continued
<1> QED
  BY <1>1, LinesKept DEF Ruled, Ends

LEMMA RuledKept ==
  ASSUME Ruled, UNCHANGED <<run, judge, written, taken>>, adapter' # "none" => adapter # "none"
  PROVE Ruled'
  BY RuledOn DEF Spoiled

LEMMA DeadlineKeeps == IInv /\ Deadline => IInv'
<1> SUFFICES ASSUME IInv, Deadline PROVE IInv'
  OBVIOUS
<1>0. TypeOK /\ Reaping /\ Reading /\ Ending /\ Opening /\ Acks /\ Ruled
  BY DEF IInv, Life
<1>1. TypeOK'
  BY <1>0 DEF TypeOK, Deadline, procs, Lines, Phases, Lifecycle, MaxRecords, Exits, AdapterRuns, PlaybookRuns
<1>2. Reaping'
  BY <1>0 DEF TypeOK, Reaping, Deadline, procs, Supervised, OutputHeld, AdapterRuns, PlaybookRuns, Exits
<1>3. Reading'
  BY <1>0 DEF TypeOK, Reaping, Reading, Deadline, procs, ChannelHeld, AdapterRuns, PlaybookRuns, Exits
<1>4. Ending'
  BY <1>0 DEF TypeOK, Reaping, Ending, Deadline, procs, Supervised, Returned, outcome, ChannelHeld, AdapterRuns, PlaybookRuns, Exits
<1>5. Acks'
  BY <1>0 DEF TypeOK, Reaping, Acks, Deadline, procs, NoMore, Authorized, Lifecycle, EffectRecord, Supervised, Returned, AdapterRuns, PlaybookRuns, Exits
<1>6. Ruled'
  BY <1>0, RuledKept DEF Reaping, Deadline, procs, AdapterRuns, PlaybookRuns, Exits
<1>7. Opening'
  BY <1>0 DEF TypeOK, Opening, Reaping, Init, Deadline, Supervised, PlaybookRuns, AdapterRuns, Exits
<1> QED
  BY <1>1, <1>2, <1>3, <1>4, <1>5, <1>6, <1>7 DEF IInv, Life

LEMMA ProceedKeeps == IInv /\ Proceed => IInv'
<1> SUFFICES ASSUME IInv, Proceed PROVE IInv'
  OBVIOUS
<1>0. TypeOK /\ Reaping /\ Reading /\ Ending /\ Opening /\ Acks /\ Ruled
  BY DEF IInv, Life
<1>1. TypeOK'
  <2>1. granted' \in BOOLEAN
    BY <1>0 DEF TypeOK, Proceed
  <2>2. proceeds' \in 0..1
    BY <1>0 DEF TypeOK, Proceed
  <2> QED
    BY <1>0, <2>1, <2>2 DEF TypeOK, Proceed, procs, Lines, Phases, Lifecycle, MaxRecords, Exits, AdapterRuns, PlaybookRuns
<1>2. Reaping'
  BY <1>0 DEF TypeOK, Reaping, Proceed, procs, Supervised, OutputHeld, AdapterRuns, PlaybookRuns, Exits
<1>3. Reading'
  BY <1>0 DEF TypeOK, Reaping, Reading, Proceed, procs, ChannelHeld, AdapterRuns, PlaybookRuns, Exits
<1>4. Ending'
  BY <1>0 DEF TypeOK, Reaping, Ending, Proceed, procs, Supervised, Returned, outcome, ChannelHeld, AdapterRuns, PlaybookRuns, Exits
<1>5. Acks'
  BY <1>0 DEF TypeOK, Reaping, Acks, Proceed, InputOpen, procs, NoMore, Authorized, Lifecycle, EffectRecord, Supervised, Returned, AdapterRuns, PlaybookRuns, Exits
<1>6. Ruled'
  BY <1>0, RuledKept DEF Reaping, Proceed, procs, AdapterRuns, PlaybookRuns, Exits
<1>7. Opening'
  BY <1>0 DEF TypeOK, Opening, Reaping, Init, Proceed, Supervised, PlaybookRuns, AdapterRuns, Exits
<1> QED
  BY <1>1, <1>2, <1>3, <1>4, <1>5, <1>6, <1>7 DEF IInv, Life

LEMMA ActKeeps == IInv /\ Act => IInv'
<1> SUFFICES ASSUME IInv, Act PROVE IInv'
  OBVIOUS
<1>0. TypeOK /\ Reaping /\ Reading /\ Ending /\ Opening /\ Acks /\ Ruled
  BY DEF IInv, Life
<1>1. TypeOK'
  BY <1>0 DEF TypeOK, Act, procs, Lines, Phases, Lifecycle, MaxRecords, Exits, AdapterRuns, PlaybookRuns
<1>2. Reaping'
  BY <1>0 DEF TypeOK, Reaping, Act, procs, Supervised, OutputHeld, AdapterRuns, PlaybookRuns, Exits
<1>3. Reading'
  BY <1>0 DEF TypeOK, Reaping, Reading, Act, procs, ChannelHeld, AdapterRuns, PlaybookRuns, Exits
<1>4. Ending'
  BY <1>0 DEF TypeOK, Reaping, Ending, Act, procs, Supervised, Returned, outcome, ChannelHeld, AdapterRuns, PlaybookRuns, Exits
<1>5. Acks'
  BY <1>0 DEF TypeOK, Reaping, Acks, Act, procs, NoMore, Authorized, Lifecycle, EffectRecord, Supervised, Returned, AdapterRuns, PlaybookRuns, Exits
<1>6. Ruled'
  BY <1>0, RuledKept DEF Reaping, Act, procs, AdapterRuns, PlaybookRuns, Exits
<1>7. Opening'
  BY <1>0 DEF TypeOK, Opening, Reaping, Init, Act, Supervised, PlaybookRuns, AdapterRuns, Exits
<1> QED
  BY <1>1, <1>2, <1>3, <1>4, <1>5, <1>6, <1>7 DEF IInv, Life

LEMMA ForkKeeps == IInv /\ Fork => IInv'
<1> SUFFICES ASSUME IInv, Fork PROVE IInv'
  OBVIOUS
<1>0. TypeOK /\ Reaping /\ Reading /\ Ending /\ Opening /\ Acks /\ Ruled
  BY DEF IInv, Life
<1>1. TypeOK'
  BY <1>0 DEF TypeOK, Fork, procs, Lines, Phases, Lifecycle, MaxRecords, Exits, AdapterRuns, PlaybookRuns
<1>2. Reaping'
  BY <1>0 DEF TypeOK, Reaping, Fork, procs, Supervised, OutputHeld, AdapterRuns, PlaybookRuns, Exits
<1>3. Reading'
  BY <1>0 DEF TypeOK, Reaping, Reading, Fork, procs, ChannelHeld, AdapterRuns, PlaybookRuns, Exits
<1>4. Ending'
  BY <1>0 DEF TypeOK, Reaping, Ending, Fork, procs, Supervised, Returned, outcome, ChannelHeld, AdapterRuns, PlaybookRuns, Exits
<1>5. Acks'
  BY <1>0 DEF TypeOK, Reaping, Acks, Fork, procs, NoMore, Authorized, Lifecycle, EffectRecord, Supervised, Returned, AdapterRuns, PlaybookRuns, Exits
<1>6. Ruled'
  BY <1>0, RuledKept DEF Reaping, Fork, procs, AdapterRuns, PlaybookRuns, Exits
<1>7. Opening'
  BY <1>0 DEF TypeOK, Opening, Reaping, Init, Fork, Supervised, PlaybookRuns, AdapterRuns, Exits
<1> QED
  BY <1>1, <1>2, <1>3, <1>4, <1>5, <1>6, <1>7 DEF IInv, Life

LEMMA WorkersEndKeeps == IInv /\ WorkersEnd => IInv'
<1> SUFFICES ASSUME IInv, WorkersEnd PROVE IInv'
  OBVIOUS
<1>0. TypeOK /\ Reaping /\ Reading /\ Ending /\ Opening /\ Acks /\ Ruled
  BY DEF IInv, Life
<1>1. TypeOK'
  BY <1>0 DEF TypeOK, WorkersEnd, procs, Lines, Phases, Lifecycle, MaxRecords, Exits, AdapterRuns, PlaybookRuns
<1>2. Reaping'
  BY <1>0 DEF TypeOK, Reaping, WorkersEnd, procs, Supervised, OutputHeld, AdapterRuns, PlaybookRuns, Exits
<1>3. Reading'
  BY <1>0 DEF TypeOK, Reaping, Reading, WorkersEnd, procs, ChannelHeld, AdapterRuns, PlaybookRuns, Exits
<1>4. Ending'
  BY <1>0 DEF TypeOK, Reaping, Ending, WorkersEnd, procs, Supervised, Returned, outcome, ChannelHeld, AdapterRuns, PlaybookRuns, Exits
<1>5. Acks'
  BY <1>0 DEF TypeOK, Reaping, Acks, WorkersEnd, procs, NoMore, Authorized, Lifecycle, EffectRecord, Supervised, Returned, AdapterRuns, PlaybookRuns, Exits
<1>6. Ruled'
  BY <1>0, RuledKept DEF Reaping, WorkersEnd, procs, AdapterRuns, PlaybookRuns, Exits
<1>7. Opening'
  BY <1>0 DEF TypeOK, Opening, Reaping, Init, WorkersEnd, Supervised, PlaybookRuns, AdapterRuns, Exits
<1> QED
  BY <1>1, <1>2, <1>3, <1>4, <1>5, <1>6, <1>7 DEF IInv, Life

LEMMA PlaybookEndsKeeps == IInv /\ PlaybookEnds => IInv'
<1> SUFFICES ASSUME IInv, PlaybookEnds PROVE IInv'
  OBVIOUS
<1>0. TypeOK /\ Reaping /\ Reading /\ Ending /\ Opening /\ Acks /\ Ruled
  BY DEF IInv, Life
<1>1. TypeOK'
  BY <1>0 DEF TypeOK, PlaybookEnds, procs, Lines, Phases, Lifecycle, MaxRecords, Exits, AdapterRuns, PlaybookRuns
<1>2. Reaping'
  BY <1>0 DEF TypeOK, Reaping, PlaybookEnds, procs, Supervised, OutputHeld, AdapterRuns, PlaybookRuns, Exits
<1>3. Reading'
  BY <1>0 DEF TypeOK, Reaping, Reading, PlaybookEnds, procs, ChannelHeld, AdapterRuns, PlaybookRuns, Exits
<1>4. Ending'
  BY <1>0 DEF TypeOK, Reaping, Ending, PlaybookEnds, procs, Supervised, Returned, outcome, ChannelHeld, AdapterRuns, PlaybookRuns, Exits
<1>5. Acks'
  BY <1>0 DEF TypeOK, Reaping, Acks, PlaybookEnds, procs, NoMore, Authorized, Lifecycle, EffectRecord, Supervised, Returned, AdapterRuns, PlaybookRuns, Exits
<1>6. Ruled'
  BY <1>0, RuledKept DEF Reaping, PlaybookEnds, procs, AdapterRuns, PlaybookRuns, Exits
<1>7. Opening'
  BY <1>0 DEF TypeOK, Opening, Reaping, Init, PlaybookEnds, Supervised, PlaybookRuns, AdapterRuns, Exits
<1> QED
  BY <1>1, <1>2, <1>3, <1>4, <1>5, <1>6, <1>7 DEF IInv, Life

LEMMA SupervisorEndsKeeps == IInv /\ SupervisorEnds => IInv'
<1> SUFFICES ASSUME IInv, SupervisorEnds PROVE IInv'
  OBVIOUS
<1>0. TypeOK /\ Reaping /\ Reading /\ Ending /\ Opening /\ Acks /\ Ruled
  BY DEF IInv, Life
<1>1. TypeOK'
  <2>1. faults' \in 0..MaxFaults
    BY <1>0, BoundAssumption DEF TypeOK, SupervisorEnds
  <2> QED
    BY <1>0, <2>1 DEF TypeOK, SupervisorEnds, procs, Lines, Phases, Lifecycle, MaxRecords, Exits, AdapterRuns, PlaybookRuns
<1>2. Reaping'
  BY <1>0 DEF TypeOK, Reaping, SupervisorEnds, procs, Supervised, OutputHeld, AdapterRuns, PlaybookRuns, Exits
<1>3. Reading'
  BY <1>0 DEF TypeOK, Reaping, Reading, SupervisorEnds, procs, ChannelHeld, AdapterRuns, PlaybookRuns, Exits
<1>4. Ending'
  BY <1>0 DEF TypeOK, Reaping, Ending, SupervisorEnds, procs, Supervised, Returned, outcome, ChannelHeld, AdapterRuns, PlaybookRuns, Exits
<1>5. Acks'
  BY <1>0 DEF TypeOK, Reaping, Acks, SupervisorEnds, procs, NoMore, Authorized, Lifecycle, EffectRecord, Supervised, Returned, AdapterRuns, PlaybookRuns, Exits
<1>6. Ruled'
  BY <1>0, RuledKept DEF Reaping, SupervisorEnds, procs, AdapterRuns, PlaybookRuns, Exits
<1>7. Opening'
  BY <1>0 DEF TypeOK, Opening, Reaping, Init, SupervisorEnds, Supervised, PlaybookRuns, AdapterRuns, Exits
<1> QED
  BY <1>1, <1>2, <1>3, <1>4, <1>5, <1>6, <1>7 DEF IInv, Life

LEMMA SupervisorKilledKeeps == IInv /\ SupervisorKilled => IInv'
<1> SUFFICES ASSUME IInv, SupervisorKilled PROVE IInv'
  OBVIOUS
<1>0. TypeOK /\ Reaping /\ Reading /\ Ending /\ Opening /\ Acks /\ Ruled
  BY DEF IInv, Life
<1>1. TypeOK'
  <2>1. faults' \in 0..MaxFaults
    BY <1>0, BoundAssumption DEF TypeOK, SupervisorKilled
  <2> QED
    BY <1>0, <2>1 DEF TypeOK, SupervisorKilled, procs, Lines, Phases, Lifecycle, MaxRecords, Exits, AdapterRuns, PlaybookRuns
<1>2. Reaping'
  BY <1>0 DEF TypeOK, Reaping, SupervisorKilled, procs, Supervised, OutputHeld, AdapterRuns, PlaybookRuns, Exits
<1>3. Reading'
  BY <1>0 DEF TypeOK, Reaping, Reading, SupervisorKilled, procs, ChannelHeld, AdapterRuns, PlaybookRuns, Exits
<1>4. Ending'
  BY <1>0 DEF TypeOK, Reaping, Ending, SupervisorKilled, procs, Supervised, Returned, outcome, ChannelHeld, AdapterRuns, PlaybookRuns, Exits
<1>5. Acks'
  BY <1>0 DEF TypeOK, Reaping, Acks, SupervisorKilled, procs, NoMore, Authorized, Lifecycle, EffectRecord, Supervised, Returned, AdapterRuns, PlaybookRuns, Exits
<1>6. Ruled'
  BY <1>0, RuledKept DEF Reaping, SupervisorKilled, procs, AdapterRuns, PlaybookRuns, Exits
<1>7. Opening'
  BY <1>0 DEF TypeOK, Opening, Reaping, Init, SupervisorKilled, Supervised, PlaybookRuns, AdapterRuns, Exits
<1> QED
  BY <1>1, <1>2, <1>3, <1>4, <1>5, <1>6, <1>7 DEF IInv, Life

LEMMA TerminateKeeps == IInv /\ Terminate => IInv'
<1> SUFFICES ASSUME IInv, Terminate PROVE IInv'
  OBVIOUS
<1>0. TypeOK /\ Reaping /\ Reading /\ Ending /\ Opening /\ Acks /\ Ruled
  BY DEF IInv, Life
<1>1. TypeOK'
  BY <1>0 DEF TypeOK, Terminate, procs, Lines, Phases, Lifecycle, MaxRecords, Exits, AdapterRuns, PlaybookRuns
<1>2. Reaping'
  BY <1>0 DEF TypeOK, Reaping, Terminate, procs, Supervised, OutputHeld, AdapterRuns, PlaybookRuns, Exits
<1>3. Reading'
  BY <1>0 DEF TypeOK, Reaping, Reading, Terminate, procs, ChannelHeld, AdapterRuns, PlaybookRuns, Exits
<1>4. Ending'
  BY <1>0 DEF TypeOK, Reaping, Ending, Terminate, procs, Supervised, Returned, outcome, ChannelHeld, AdapterRuns, PlaybookRuns, Exits
<1>5. Acks'
  BY <1>0 DEF TypeOK, Reaping, Acks, Terminate, procs, NoMore, Authorized, Lifecycle, EffectRecord, Supervised, Returned, AdapterRuns, PlaybookRuns, Exits
<1>6. Ruled'
  BY <1>0, RuledKept DEF Reaping, Terminate, procs, AdapterRuns, PlaybookRuns, Exits
<1>7. Opening'
  BY <1>0 DEF TypeOK, Opening, Reaping, Init, Terminate, Supervised, PlaybookRuns, AdapterRuns, Exits
<1> QED
  BY <1>1, <1>2, <1>3, <1>4, <1>5, <1>6, <1>7 DEF IInv, Life

LEMMA OrphanedKeeps == IInv /\ Orphaned => IInv'
<1> SUFFICES ASSUME IInv, Orphaned PROVE IInv'
  OBVIOUS
<1>0. TypeOK /\ Reaping /\ Reading /\ Ending /\ Opening /\ Acks /\ Ruled
  BY DEF IInv, Life
<1>1. TypeOK'
  BY <1>0 DEF TypeOK, Orphaned, procs, Lines, Phases, Lifecycle, MaxRecords, Exits, AdapterRuns, PlaybookRuns
<1>2. Reaping'
  BY <1>0 DEF TypeOK, Reaping, Orphaned, procs, Supervised, OutputHeld, AdapterRuns, PlaybookRuns, Exits
<1>3. Reading'
  BY <1>0 DEF TypeOK, Reaping, Reading, Orphaned, procs, ChannelHeld, AdapterRuns, PlaybookRuns, Exits
<1>4. Ending'
  BY <1>0 DEF TypeOK, Reaping, Ending, Orphaned, procs, Supervised, Returned, outcome, ChannelHeld, AdapterRuns, PlaybookRuns, Exits
<1>5. Acks'
  BY <1>0 DEF TypeOK, Reaping, Acks, Orphaned, procs, NoMore, Authorized, Lifecycle, EffectRecord, Supervised, Returned, AdapterRuns, PlaybookRuns, Exits
<1>6. Ruled'
  BY <1>0, RuledKept DEF Reaping, Orphaned, procs, AdapterRuns, PlaybookRuns, Exits
<1>7. Opening'
  BY <1>0 DEF TypeOK, Opening, Reaping, Init, Orphaned, Supervised, PlaybookRuns, AdapterRuns, Exits
<1> QED
  BY <1>1, <1>2, <1>3, <1>4, <1>5, <1>6, <1>7 DEF IInv, Life

LEMMA RefuseKeeps == IInv /\ Refuse => IInv'
<1> SUFFICES ASSUME IInv, Refuse PROVE IInv'
  OBVIOUS
<1>0. TypeOK /\ Init
  BY DEF IInv, Life, Opening, Refuse
<1>a. PICK kind \in {"ResultChannel", "AuthorizationChannel", "Aborted", "NotStarted"} :
        run' = [end(run, kind) EXCEPT !.phase = "returned"]
  BY DEF Refuse
<1>b. /\ run'.kind = kind /\ run'.ended /\ ~ run'.exited /\ ~ run'.undelivered /\ ~ run'.canceled
      /\ ~ run'.completed /\ ~ run'.stopping /\ ~ run'.groupKilled /\ run'.drain = "off"
      /\ run'.waited = "awaited" /\ run'.reading /\ run'.input /\ run'.phase = "returned"
  BY <1>0, <1>a DEF Init, end
<1>c. UNCHANGED <<judge, done, adapter, playbook, held, granted, effect, written, proceeds, reader, taken, faults>>
  BY DEF Refuse, procs
<1>1. TypeOK'
  <2>1. run' \in Sessions
    BY <1>0, <1>a DEF TypeOK, Sessions, end, Kinds
  <2> QED
    BY <1>0, <1>c, <2>1 DEF TypeOK, Sessions, Lines, Phases, Lifecycle, MaxRecords
<1>2. Reaping'
  BY <1>0, <1>b, <1>c DEF Init, Reaping, Supervised, OutputHeld, AdapterRuns, PlaybookRuns, Exits
<1>3. Reading'
  BY <1>0, <1>b, <1>c DEF Init, Reading
<1>4. Ending'
  BY <1>0, <1>b, <1>c DEF Init, Ending, Supervised, Returned
<1>5. Acks'
  BY <1>0, <1>b, <1>c DEF Init, Acks, NoMore, Lifecycle, Supervised
<1>6. Ruled'
  BY <1>0, <1>c DEF Init, Ruled
<1>7. Opening'
  BY <1>b DEF Opening
<1> QED
  BY <1>1, <1>2, <1>3, <1>4, <1>5, <1>6, <1>7 DEF IInv, Life

LEMMA StartKeeps == IInv /\ Start => IInv'
<1> SUFFICES ASSUME IInv, Start PROVE IInv'
  OBVIOUS
<1>0. TypeOK /\ Init
  BY DEF IInv, Life, Opening, Start
<1>1. TypeOK'
  BY <1>0 DEF TypeOK, Start, Lines, Phases, Lifecycle, MaxRecords
<1>2. Reaping'
  BY <1>0 DEF Init, Reaping, Start, Supervised, OutputHeld, AdapterRuns, PlaybookRuns, Exits
<1>3. Reading'
  BY <1>0 DEF Init, Reading, Start
<1>4. Ending'
  BY <1>0 DEF Init, Ending, Start, Supervised, Returned
<1>5. Acks'
  BY <1>0 DEF Init, Acks, Start, NoMore, Lifecycle
<1>6. Ruled'
  <2>1. /\ ~ judge'.loaded /\ ~ judge'.prepared /\ ~ judge'.completed /\ ~ judge'.refused
        /\ judge'.continuations = 0 /\ taken' = 0 /\ written' = <<>> /\ ~ run'.ended
    BY <1>0 DEF Init, Start
  <2>2. Sound(taken)'
    BY <2>1 DEF Sound
  <2>3. Continued(taken)' = {} /\ Before(written, taken + 1)' = {}
    BY <2>1 DEF Continued, Before
  <2>4. Cardinality(Continued(taken)') = 0
    BY <2>3, FS_EmptySet
  <2>5. Matches'
    BY <2>1, <2>3, <2>4 DEF Matches
  <2> QED
    BY <2>1, <2>2, <2>5 DEF Ruled
<1>7. Opening'
  BY <1>0 DEF Start, Opening, Init
<1> QED
  BY <1>1, <1>2, <1>3, <1>4, <1>5, <1>6, <1>7 DEF IInv, Life

LEMMA ReturnKeeps == IInv /\ Return => IInv'
<1> SUFFICES ASSUME IInv, Return PROVE IInv'
  OBVIOUS
<1>0. TypeOK /\ Reaping /\ Reading /\ Ending /\ Opening /\ Acks /\ Ruled
  BY DEF IInv, Life
<1>a. /\ run'.kind = outcome(run) /\ run'.phase = "returned"
      /\ run'.ended = run.ended /\ run'.exited = run.exited /\ run'.undelivered = run.undelivered
      /\ run'.canceled = run.canceled /\ run'.completed = run.completed /\ run'.stopping = run.stopping
      /\ run'.groupKilled = run.groupKilled /\ run'.drain = run.drain /\ run'.waited = run.waited
      /\ run'.reading = run.reading /\ run'.input = run.input
  BY <1>0 DEF TypeOK, Return
<1>b. outcome(run)' = outcome(run)
  BY <1>0, <1>a DEF outcome, TypeOK
<1>c. ~ run.canceled => IF run.ended THEN run'.kind = run.kind ELSE run'.kind \in {"NoResult", "Completed"}
  BY <1>0, <1>a DEF outcome, TypeOK
<1>d. UNCHANGED <<judge, done, adapter, playbook, held, granted, effect, written, proceeds, reader, taken, faults>>
  BY DEF Return, procs
<1>e. Supervised /\ ~ run.reading /\ run.waited # "awaited"
  BY DEF Return
<1>1. TypeOK'
  <2>1. outcome(run) \in Kinds \union {"none"}
    BY <1>0 DEF outcome, TypeOK, Kinds
  <2>2. run' \in Sessions
    BY <1>0, <2>1 DEF Return, TypeOK, Sessions
  <2> QED
    BY <1>0, <1>d, <2>2 DEF TypeOK, Sessions, Lines, Phases, Lifecycle, MaxRecords
<1>2. Reaping'
  BY <1>0, <1>a, <1>d, <1>e DEF Reaping, Supervised, OutputHeld, PlaybookRuns
<1>3. Reading'
  BY <1>0, <1>a, <1>d DEF Reading, ChannelHeld, AdapterRuns, PlaybookRuns
<1>4. Ending'
  <2>1. run'.exited => run'.kind = "FailedExit" \/ run'.canceled
    BY <1>0, <1>a, <1>c DEF Ending
  <2>2. adapter # "none"
    BY <1>0, <1>e DEF Reaping
  <2>3. run'.kind \in IF run.ended THEN Failures \union {"Canceled"} ELSE {"none", "NoResult", "Completed", "Canceled"}
    <3>1. run.canceled => run'.kind = "Canceled"
      BY <1>0, <1>a DEF outcome, TypeOK
    <3> QED
      BY <1>0, <1>c, <2>2, <3>1 DEF Ending
  <2> QED
    BY <1>0, <1>a, <1>b, <1>d, <1>e, <2>1, <2>2, <2>3 DEF Ending, Supervised, Returned, ChannelHeld, AdapterRuns, PlaybookRuns
<1>5. Acks'
  <2>1. Authorized => Authorized'
    <3>1. run'.canceled => run'.kind = "Canceled"
      BY <1>0, <1>a DEF outcome, TypeOK
    <3> QED
      BY <1>0, <1>a, <1>c, <1>d, <1>e, <3>1 DEF Authorized, Lifecycle, Returned, Supervised
  <2>2. NoMore'
    BY <1>a DEF NoMore, Supervised
  <2> QED
    BY <1>0, <1>a, <1>d, <2>1, <2>2 DEF Acks, Lifecycle, EffectRecord
<1>6. Ruled'
  <2>1. ~ Spoiled' => ~ Spoiled
    BY <1>0, <1>a, <1>c, <1>d, <1>e DEF Spoiled, Ending
  <2> QED
    BY <1>0, <1>a, <1>c, <1>d, <2>1, RuledOn DEF Spoiled
<1>7. Opening'
  BY <1>a DEF Opening
<1> QED
  BY <1>1, <1>2, <1>3, <1>4, <1>5, <1>6, <1>7 DEF IInv, Life

LEMMA ReadKeeps == IInv /\ Read => IInv'
<1> SUFFICES ASSUME IInv, Read PROVE IInv'
  OBVIOUS
<1>0. TypeOK /\ Reaping /\ Reading /\ Ending /\ Opening /\ Acks /\ Ruled
  BY DEF IInv, Life
<1>a. UNCHANGED <<run, judge, done, adapter, playbook, held, granted, effect, written, proceeds, taken, faults>>
  BY DEF Read, procs
<1>b. /\ run.phase # "opening" /\ reader.state = "reading"
      /\ \/ reader.read < Len(written) /\ written[reader.read + 1] # "unreadable" /\ reader' = [reader EXCEPT !.read = @ + 1]
         \/ /\ reader.read < Len(written) /\ written[reader.read + 1] = "unreadable"
            /\ reader' = [reader EXCEPT !.state = "refused"]
         \/ reader.read = Len(written) /\ ~ ChannelHeld /\ reader' = [reader EXCEPT !.state = "ended"]
         \/ ~ ChannelOpen /\ reader' = [reader EXCEPT !.state = "closed"]
  BY DEF Read
<1>c. /\ reader \in [read: 0..MaxRecords, state: {"reading", "ended", "refused", "closed"}]
      /\ Len(written) \in Nat /\ MaxRecords \in Nat /\ Len(written) <= MaxRecords /\ taken \in 0..reader.read
  BY <1>0, BoundAssumption DEF TypeOK, MaxRecords
<1>d. /\ reader' \in [read: 0..MaxRecords, state: {"reading", "ended", "refused", "closed"}]
      /\ reader'.read \in {reader.read, reader.read + 1} /\ reader'.read <= Len(written)
      /\ reader'.state # "reading" => reader'.read = reader.read
  BY <1>0, <1>b, <1>c DEF Reading
<1>1. TypeOK'
  <2>1. taken' \in 0..(reader'.read)
    BY <1>a, <1>c, <1>d
  <2> QED
    BY <1>0, <1>a, <1>d, <2>1 DEF TypeOK, Lines, Phases, Lifecycle, MaxRecords
<1>2. Reaping'
  BY <1>0, <1>a DEF Reaping, Supervised, OutputHeld, PlaybookRuns
<1>3. Reading'
  <2>1. (~ ChannelOpen /\ adapter # "none") => run.drain = "passed" \/ ~ Supervised
    BY DEF ChannelOpen
  <2>2. run.reading
    BY <1>0, <1>b DEF Reading
  <2>3. Supervised \/ adapter = "none"
    BY <1>0, <1>b, <2>2 DEF Ending, TypeOK, Supervised, Returned
  <2>4. \A i \in 1..(reader'.read) : written[i] # "unreadable"
    BY <1>0, <1>b, <1>c, <1>d DEF Reading
  <2>5. reader'.state = "ended" => ~ ChannelHeld /\ reader'.read = Len(written)
    BY <1>b, <1>c
  <2>6. reader'.state = "refused" => reader'.read < Len(written) /\ written[reader'.read + 1] = "unreadable"
    BY <1>b, <1>c
  <2>7. reader'.state = "closed" => ~ ChannelOpen
    BY <1>b, <1>c
  <2>8. ChannelHeld' = ChannelHeld
    BY <1>a DEF ChannelHeld, AdapterRuns, PlaybookRuns
  <2>9. taken <= reader'.read /\ reader'.read <= Len(written)
    BY <1>c, <1>d
  <2> QED
    BY <1>a, <2>1, <2>2, <2>3, <2>4, <2>5, <2>6, <2>7, <2>8, <2>9 DEF Reading
<1>4. Ending'
  BY <1>0, <1>a DEF Ending, Supervised, Returned, outcome, ChannelHeld, AdapterRuns, PlaybookRuns
<1>5. Acks'
  BY <1>0, <1>a DEF Acks, NoMore, Authorized, Lifecycle, EffectRecord, Supervised, Returned
<1>6. Ruled'
  BY <1>0, <1>a, RuledKept
<1>7. Opening'
  BY <1>a, <1>b DEF Opening
<1> QED
  BY <1>1, <1>2, <1>3, <1>4, <1>5, <1>6, <1>7 DEF IInv, Life


-----------------------------------------------------------------------------
(* A line appended leaves the judgement of those before it alone. *)

LEMMA AppendPlace ==
  ASSUME NEW S, NEW w \in Seq(S), NEW l \in S, NEW i \in 1..Len(w)
  PROVE InPlace(Append(w, l), i) = InPlace(w, i)
<1>1. Append(w, l)[i] = w[i] /\ \A k \in 1..(i - 1) : Append(w, l)[k] = w[k]
  OBVIOUS
<1>2. Before(Append(w, l), i) = Before(w, i)
  BY <1>1 DEF Before
<1>3. {k \in 1..(i - 1) : Append(w, l)[k] = "continue"} = {k \in 1..(i - 1) : w[k] = "continue"}
  BY <1>1
<1> QED
  BY <1>1, <1>2, <1>3 DEF InPlace

LEMMA WriteKeeps == IInv /\ Write => IInv'
<1> SUFFICES ASSUME IInv, Write PROVE IInv'
  OBVIOUS
<1>0. TypeOK /\ Reaping /\ Reading /\ Ending /\ Opening /\ Acks /\ Ruled
  BY DEF IInv, Life
<1>a. PICK line \in Lines :
        /\ playbook \in {"working", "failing"}
        /\ written' = IF ChannelOpen THEN Append(written, line) ELSE written
        /\ playbook' = CASE line \notin Waits -> playbook
                         [] line \in Waits /\ ChannelOpen -> "waiting"
                         [] OTHER -> "failing"
  BY DEF Write
<1>b. UNCHANGED <<run, judge, done, adapter, held, proceeds, granted, effect, reader, taken, faults>>
  BY DEF Write
<1>c. /\ written \in Seq(Lines) /\ Len(written) \in Nat /\ Len(written) < MaxRecords /\ MaxRecords \in Nat
      /\ reader.read \in Nat /\ taken \in Nat /\ taken <= reader.read /\ reader.read <= Len(written)
  <2>1. MaxRecords \in Nat /\ written \in Seq(Lines) /\ Len(written) \in Nat /\ Len(written) < MaxRecords
    <3>1. MaxRecords \in Nat
      BY BoundAssumption DEF MaxRecords
    <3>2. Len(written) < MaxRecords
      BY DEF Write
    <3> QED
      BY <1>0, <3>1, <3>2 DEF TypeOK
  <2>2. reader.read \in Nat /\ taken \in Nat
    BY <1>0, <2>1 DEF TypeOK
  <2> QED
    BY <1>0, <2>1, <2>2 DEF Reading
<1>d. /\ written' \in Seq(Lines) /\ Len(written') \in {Len(written), Len(written) + 1}
      /\ \A k \in 1..Len(written) : written'[k] = written[k]
  BY <1>a, <1>c
<1>e. playbook' \in {"working", "failing", "waiting"} /\ PlaybookRuns /\ PlaybookRuns'
  BY <1>a DEF PlaybookRuns
<1>f. adapter # "none" /\ adapter # "zero" /\ ~ run.groupKilled /\ run.waited # "reaped"
  BY <1>0, <1>a, <1>e DEF Reaping, Exits, OutputHeld
<1>1. TypeOK'
  <2>1. Lines' = Lines /\ MaxRecords' = MaxRecords
    BY <1>b DEF Lines, Phases, Lifecycle, MaxRecords
  <2>2. Len(written') <= MaxRecords
    BY <1>c, <1>d
  <2> QED
    BY <1>0, <1>b, <1>d, <1>e, <2>1, <2>2 DEF TypeOK
<1>2. Reaping'
  BY <1>0, <1>b, <1>e, <1>f DEF Reaping, Supervised
<1>3. Reading'
  <2>1. reader.state # "ended"
    BY <1>0, <1>e DEF Reading, ChannelHeld
  <2>2. reader.state = "refused" => reader.read < Len(written') /\ written'[reader.read + 1] = "unreadable"
    <3>1. reader.state = "refused" => reader.read < Len(written) /\ written[reader.read + 1] = "unreadable"
      BY <1>0 DEF Reading
    <3>2. reader.read < Len(written) => reader.read + 1 \in 1..Len(written) /\ reader.read < Len(written')
      BY <1>c, <1>d
    <3> QED
      BY <1>d, <3>1, <3>2
  <2>3. \A i \in 1..reader.read : written'[i] # "unreadable"
    BY <1>0, <1>c, <1>d DEF Reading
  <2>4. taken <= reader.read /\ reader.read <= Len(written')
    BY <1>c, <1>d
  <2> QED
    BY <1>0, <1>b, <2>1, <2>2, <2>3, <2>4 DEF Reading
<1>4. Ending'
  <2>1. ~ run.undelivered
    BY <1>0, <1>e DEF Ending, ChannelHeld
  <2> QED
    BY <1>0, <1>b, <1>f, <2>1 DEF Ending, Supervised, Returned, outcome
<1>5. Acks'
  <2>1. proceeds = 0
    BY <1>0, <1>a DEF Acks
  <2>2. NoMore' = NoMore /\ Authorized' = Authorized
    BY <1>b DEF NoMore, Authorized, Supervised, Returned, Lifecycle
  <2>3. ~ NoMore => playbook = "working" /\ ChannelOpen
    BY <1>0, <1>a DEF Acks, NoMore, ChannelOpen, Ending
  <2>4. playbook' = "failing" => NoMore
    BY <1>0, <1>a, <2>3 DEF Acks
  <2>5. ASSUME ~ NoMore, NEW k \in DOMAIN written', k > taken, written'[k] \in Waits
        PROVE k = Len(written') /\ playbook' = "waiting"
    <3>1. written' = Append(written, line)
      BY <1>a, <2>3, <2>5
    <3>2. k \notin 1..Len(written)
      BY <1>0, <1>c, <1>d, <2>3, <2>5 DEF Acks, Exits
    <3>3. k = Len(written) + 1
      BY <1>c, <2>5, <3>1, <3>2
    <3>4. written'[k] = line
      BY <1>c, <3>1, <3>3
    <3> QED
      BY <1>a, <1>c, <2>3, <2>5, <3>1, <3>3, <3>4
  <2> QED
    BY <1>0, <1>b, <2>1, <2>2, <2>4, <2>5 DEF Acks, Lifecycle
<1>6. Ruled'
  <2>1. \A i \in 1..Len(written) : InPlace(written, i)' <=> InPlace(written, i)
    <3>1. \A i \in 1..Len(written) : InPlace(written', i) = InPlace(written, i)
      BY <1>a, <1>c, AppendPlace
    <3>2. \A i : InPlace(written, i)' = InPlace(written', i)
      BY <1>b DEF InPlace, Before, Lifecycle
    <3> QED
      BY <3>1, <3>2
  <2>2. \A n \in 0..Len(written) : Sound(n)' <=> Sound(n)
    BY <1>c, <1>d, <2>1 DEF Sound
  <2>3. \A i \in 1..Len(written) : (Ends(i)' <=> Ends(i)) /\ KindOf(i)' = KindOf(i)
    BY <1>c, <1>d, <2>1, <2>2 DEF Ends, KindOf
  <2>4. Before(written, taken + 1)' = Before(written, taken + 1)
    <3>1. (taken + 1) - 1 = taken /\ \A k \in 1..taken : written'[k] = written[k]
      BY <1>c, <1>d
    <3> QED
      BY <1>b, <3>1 DEF Before
  <2>5. Continued(taken)' = Continued(taken)
    BY <1>b, <1>c, <1>d DEF Continued
  <2>6. Matches' = Matches
    BY <1>b, <2>4, <2>5 DEF Matches
  <2>7. DOMAIN written = 1..Len(written) /\ 1..Len(written) \subseteq DOMAIN written'
    BY <1>c, <1>d
  <2>8. Spoiled' = Spoiled
    BY <1>b DEF Spoiled
  <2>9. ASSUME ~ Spoiled, run.ended, ~ run.exited
        PROVE \E i \in DOMAIN written' : Ends(i)' /\ run.kind = KindOf(i)'
    BY <1>0, <1>f, <2>3, <2>7, <2>9 DEF Ruled
  <2>10. Sound(taken)' = Sound(taken)
    BY <1>b, <1>c, <2>2 DEF Sound
  <2> QED
    BY <1>0, <1>b, <1>f, <2>6, <2>8, <2>9, <2>10 DEF Ruled
<1>7. Opening'
  BY <1>0, <1>b, <1>f DEF Opening, Reaping
<1> QED
  BY <1>1, <1>2, <1>3, <1>4, <1>5, <1>6, <1>7 DEF IInv, Life

-----------------------------------------------------------------------------
(* The session's steps that take no record. *)

\* What the signals of a step do to the processes.
LEMMA SignalFact ==
  ASSUME TypeOK, Reaping, Supervised, NEW t \in Sessions, Signal(t), run.groupKilled => t.groupKilled
  PROVE /\ adapter' = adapter \/ (AdapterRuns /\ adapter' \in {"terminating", "failed"})
        /\ playbook' = playbook \/ (PlaybookRuns /\ playbook' = "failed")
        /\ t.groupKilled => adapter' \in Exits /\ playbook' \in Exits
        /\ UNCHANGED <<held, granted, effect, written>>
        /\ adapter # "none" /\ adapter' # "none" /\ playbook # "none" /\ playbook' # "none"
        /\ adapter' \in {"none", "running", "terminating"} \cup Exits
        /\ playbook' \in {"none", "working", "waiting", "failing"} \cup Exits
<1>1. adapter # "none" /\ playbook # "none"
  BY DEF Reaping
<1>2. adapter' = adapter \/ (AdapterRuns /\ adapter' \in {"terminating", "failed"})
  BY DEF Signal, AdapterRuns
<1>3. playbook' = playbook \/ (PlaybookRuns /\ playbook' = "failed")
  BY DEF Signal
<1>4. CASE t.groupKilled /\ ~ run.groupKilled
  BY <1>1, <1>2, <1>3, <1>4 DEF Signal, TypeOK, AdapterRuns, PlaybookRuns, Exits
<1>5. CASE ~ (t.groupKilled /\ ~ run.groupKilled)
  <2>1. t.groupKilled => adapter \in Exits /\ playbook \in Exits
    BY <1>5 DEF Reaping, TypeOK, Sessions
  <2> QED
    BY <1>1, <1>2, <1>3, <2>1 DEF Signal, TypeOK, AdapterRuns, PlaybookRuns, Exits
<1> QED
  BY <1>4, <1>5

LEMMA QuietStep ==
  ASSUME IInv, Supervised, NEW t \in Sessions, Session(t),
         UNCHANGED <<judge, done, proceeds, reader, taken, faults>>,
         Killed(t), t.phase = "supervised", run.groupKilled => t.groupKilled,
         t.completed = run.completed, t.undelivered = run.undelivered, run.canceled => t.canceled,
         run.ended => t.ended, run.ended /\ ~ run.exited => ~ t.exited /\ t.kind = run.kind,
         t.exited => t.ended /\ adapter = "failed" /\ (t.kind = "FailedExit" \/ t.canceled),
         ~ t.ended => t.kind = "none", t.ended => t.kind \in Failures \/ (run.ended /\ t.kind = run.kind),
         t.drain = "passed" => t.ended, run.drain = "passed" => t.drain = "passed",
         ~ t.input => ~ run.input \/ t.canceled \/ t.ended \/ ~ t.reading,
         \/ t.waited = run.waited
         \/ run.waited = "awaited" /\ adapter \in Exits /\ (t.waited = "reaped" => ~ OutputHeld),
         t.waited = "reaped" /\ ~ t.ended => adapter = "zero",
         t.waited = "cut" => t.ended,
         t.reading => run.reading,
         ~ t.reading => ~ run.reading \/ (reader.state # "reading" /\ taken = reader.read),
         ~ t.reading /\ reader.state = "refused" => t.ended /\ ~ t.exited,
         ~ Spoiled' => /\ ~ Spoiled
                       /\ ~ t.ended \/ t.exited => ~ run.ended \/ run.exited
                       /\ t.ended /\ ~ t.exited =>
                            \/ run.ended /\ ~ run.exited /\ t.kind = run.kind
                            \/ \E i \in DOMAIN written : Ends(i) /\ t.kind = KindOf(i)
  PROVE IInv'
<1>0. TypeOK /\ Reaping /\ Reading /\ Ending /\ Opening /\ Acks /\ Ruled
  BY DEF IInv, Life
<1>a. /\ adapter' = adapter \/ (AdapterRuns /\ adapter' \in {"terminating", "failed"})
      /\ playbook' = playbook \/ (PlaybookRuns /\ playbook' = "failed")
      /\ t.groupKilled => adapter' \in Exits /\ playbook' \in Exits
      /\ UNCHANGED <<held, granted, effect, written>>
      /\ adapter # "none" /\ adapter' # "none" /\ playbook # "none" /\ playbook' # "none"
      /\ adapter' \in {"none", "running", "terminating"} \cup Exits
      /\ playbook' \in {"none", "working", "waiting", "failing"} \cup Exits
  BY <1>0, SignalFact DEF Session
<1>b. run' = t
  BY DEF Session
<1>c. (ChannelHeld' => ChannelHeld) /\ (OutputHeld' => OutputHeld)
  BY <1>a DEF ChannelHeld, OutputHeld, AdapterRuns, PlaybookRuns
<1>1. TypeOK'
  BY <1>0, <1>a, <1>b DEF TypeOK, Sessions, Lines, Phases, Lifecycle, MaxRecords
<1>2. Reaping'
  <2>1. adapter' = "zero" => playbook' = "zero"
    BY <1>0, <1>a DEF Reaping, PlaybookRuns
  <2>2. adapter \in Exits => adapter' = adapter
    BY <1>a DEF AdapterRuns, Exits
  <2>3. t.waited # "awaited" => adapter \in Exits
    BY <1>0 DEF Reaping
  <2>4. t.waited = "reaped" => ~ OutputHeld
    BY <1>0 DEF Reaping
  <2> QED
    BY <1>0, <1>a, <1>b, <1>c, <2>1, <2>2, <2>3, <2>4 DEF Reaping, Killed, Supervised, Exits
<1>3. Reading'
  BY <1>0, <1>a, <1>b, <1>c DEF Reading
<1>4. Ending'
  <2>1. adapter = "failed" => adapter' = "failed"
    BY <1>a DEF AdapterRuns
  <2> QED
    BY <1>0, <1>a, <1>b, <1>c, <2>1 DEF Ending, Supervised, Returned
<1>5. Acks'
  <2>1. NoMore => NoMore'
    BY <1>b DEF NoMore, Supervised
  <2>2. Authorized => Authorized'
    BY <1>b DEF Authorized, Lifecycle, Supervised, Returned
  <2>3. ~ t.input => NoMore'
    BY <1>0, <1>b, <2>1 DEF Acks, NoMore
  <2>4. playbook' \in {"none", "working", "failing"} => playbook = playbook'
    BY <1>a
  <2>5. playbook \in {"waiting"} \union Exits => playbook' \in {"waiting"} \union Exits
    BY <1>a DEF Exits
  <2>6. Lifecycle' = Lifecycle /\ EffectRecord' = EffectRecord
    BY DEF Lifecycle, EffectRecord
  <2>7. judge.prepared => judge.published \/ t.ended \/ t.undelivered
    BY <1>0 DEF Acks
  <2> QED
    BY <1>0, <1>a, <1>b, <2>1, <2>2, <2>3, <2>4, <2>5, <2>6, <2>7 DEF Acks
<1>6. Ruled'
  BY <1>0, <1>a, <1>b, RuledOn
<1>7. Opening'
  BY <1>b DEF Opening
<1> QED
  BY <1>1, <1>2, <1>3, <1>4, <1>5, <1>6, <1>7 DEF IInv, Life

LEMMA SessionFact ==
  ASSUME IInv
  PROVE TypeOK /\ Reaping /\ Reading /\ Ending /\ Opening /\ Acks /\ Ruled /\ run \in Sessions /\ Killed(run)
  BY DEF IInv, Life, TypeOK, Sessions, Killed, Reaping

LEMMA CancelledKeeps == IInv /\ Cancelled => IInv'
<1> SUFFICES ASSUME IInv, Cancelled PROVE IInv'
  OBVIOUS
<1> DEFINE t == cancel(run)
<1>0. TypeOK /\ Reaping /\ Reading /\ Ending /\ run \in Sessions /\ Killed(run)
  BY SessionFact
<1>1. Stops(run, t) /\ t.canceled
  BY <1>0, CancelFact
<1>2. /\ Supervised /\ Session(t) /\ UNCHANGED <<judge, done, proceeds, reader, taken, faults>>
  BY DEF Cancelled
<1>3. run' = t
  BY <1>2 DEF Session
<1> HIDE DEF t
<1>4. Spoiled'
  BY <1>1, <1>3 DEF Spoiled
<1>5. /\ t \in Sessions
      /\ t.kind = run.kind /\ t.ended = run.ended /\ t.exited = run.exited /\ t.undelivered = run.undelivered
      /\ t.completed = run.completed /\ t.waited = run.waited /\ t.reading = run.reading /\ t.phase = "supervised"
      /\ t.drain = "passed" <=> run.drain = "passed"
      /\ run.groupKilled => t.groupKilled
      /\ Killed(t)
  BY <1>0, <1>1, <1>2 DEF Stops, Supervised
<1>6. /\ run.exited => run.ended /\ adapter = "failed" /\ (run.kind = "FailedExit" \/ run.canceled)
      /\ ~ run.ended => run.kind = "none"
      /\ run.drain = "passed" => run.ended
      /\ run.waited = "reaped" /\ ~ run.ended => adapter = "zero"
      /\ run.waited = "cut" => run.ended
      /\ ~ run.reading /\ reader.state = "refused" => run.ended /\ ~ run.exited
  BY <1>0, <1>2 DEF Ending, Reaping, Reading
<1> QED
  BY <1>1, <1>2, <1>4, <1>5, <1>6, QuietStep

LEMMA DrainedKeeps == IInv /\ Drained => IInv'
<1> SUFFICES ASSUME IInv, Drained PROVE IInv'
  OBVIOUS
<1> DEFINE t == drained(run)
<1>0. TypeOK /\ Reaping /\ Reading /\ Ending /\ run \in Sessions /\ Killed(run)
  BY SessionFact
<1>1. /\ t \in Sessions /\ t.drain = "passed" /\ t.ended /\ Killed(t)
      /\ IF run.ended THEN t.kind = run.kind ELSE t.kind = "Retained"
      /\ t.exited = run.exited /\ t.undelivered = run.undelivered /\ t.canceled = run.canceled
      /\ t.completed = run.completed /\ t.waited = run.waited /\ t.reading = run.reading
      /\ t.input = run.input /\ t.phase = run.phase
      /\ run.groupKilled => t.groupKilled
  BY <1>0, DrainedFact
<1>2. Supervised /\ Session(t) /\ UNCHANGED <<judge, done, proceeds, reader, taken, faults>>
  BY DEF Drained
<1>3. run' = t /\ t.phase = "supervised"
  BY <1>1, <1>2 DEF Session, Supervised
<1> HIDE DEF t
<1>4. Spoiled'
  BY <1>1, <1>3 DEF Spoiled
<1>5. /\ run.exited => run.ended /\ adapter = "failed" /\ (run.kind = "FailedExit" \/ run.canceled)
      /\ run.waited = "reaped" /\ ~ run.ended => adapter = "zero"
      /\ ~ run.reading /\ reader.state = "refused" => run.ended /\ ~ run.exited
  BY <1>0 DEF Ending, Reaping, Reading
<1>6. t.kind \in Failures \/ (run.ended /\ t.kind = run.kind)
  BY <1>1 DEF Failures
<1> QED
  BY <1>1, <1>2, <1>3, <1>4, <1>5, <1>6, QuietStep

LEMMA ReapedKeeps == IInv /\ Reaped => IInv'
<1> SUFFICES ASSUME IInv, Reaped PROVE IInv'
  OBVIOUS
<1> DEFINE t == reaped(run, OutputHeld, adapter)
<1>0. TypeOK /\ Reaping /\ Reading /\ Ending /\ run \in Sessions /\ Killed(run)
  BY SessionFact
<1>2. /\ Supervised /\ run.waited = "awaited" /\ adapter \in Exits
      /\ Session(t) /\ UNCHANGED <<judge, done, proceeds, reader, taken, faults>>
  BY DEF Reaped
<1>1. /\ t \in Sessions /\ t.waited = (IF OutputHeld THEN "cut" ELSE "reaped") /\ Killed(t)
      /\ run.ended => t.ended /\ t.kind = run.kind /\ t.exited = run.exited
      /\ ~ run.ended /\ adapter = "failed" => t.ended /\ t.exited /\ t.kind = "FailedExit"
      /\ ~ run.ended /\ adapter = "zero" => (t.ended <=> OutputHeld) /\ t.exited = run.exited
      /\ ~ run.ended /\ adapter = "zero" => t.kind = IF OutputHeld THEN "RetainedOutput" ELSE run.kind
      /\ t.undelivered = run.undelivered /\ t.canceled = run.canceled
      /\ t.completed = run.completed /\ t.reading = run.reading
      /\ t.input = run.input /\ t.phase = run.phase
      /\ t.drain = "passed" <=> run.drain = "passed"
      /\ run.groupKilled => t.groupKilled
  <2>1. OutputHeld \in BOOLEAN
    BY DEF OutputHeld, PlaybookRuns
  <2> QED
    BY <1>0, <1>2, <2>1, ReapedFact
<1>3. run' = t /\ t.phase = "supervised"
  BY <1>1, <1>2 DEF Session, Supervised
<1> HIDE DEF t
<1>4. /\ run.exited => run.ended /\ adapter = "failed" /\ (run.kind = "FailedExit" \/ run.canceled)
      /\ ~ run.ended => run.kind = "none"
      /\ run.drain = "passed" => run.ended
      /\ ~ run.reading /\ reader.state = "refused" => run.ended /\ ~ run.exited
  BY <1>0, <1>2 DEF Ending, Reading
<1>5. /\ t.exited => t.ended /\ adapter = "failed" /\ (t.kind = "FailedExit" \/ t.canceled)
      /\ ~ t.ended => t.kind = "none"
      /\ t.drain = "passed" => t.ended
      /\ t.waited = "reaped" => ~ OutputHeld
      /\ t.waited = "reaped" /\ ~ t.ended => adapter = "zero"
      /\ t.waited = "cut" => t.ended
  BY <1>1, <1>2, <1>4 DEF Exits
<1>6. ~ Spoiled' => ~ Spoiled /\ ~ OutputHeld
  BY <1>1, <1>2, <1>3, <1>4 DEF Spoiled
<1>7. ~ OutputHeld => /\ ~ t.ended \/ t.exited => ~ run.ended \/ run.exited
                      /\ t.ended /\ ~ t.exited => run.ended /\ ~ run.exited /\ t.kind = run.kind
  BY <1>1, <1>2, <1>4 DEF Exits
<1>8. t.ended => t.kind \in Failures \/ (run.ended /\ t.kind = run.kind)
  BY <1>1, <1>2 DEF Failures, Exits
<1> QED
  BY <1>1, <1>2, <1>3, <1>4, <1>5, <1>6, <1>7, <1>8, QuietStep

LEMMA ReadEndedKeeps == IInv /\ ReadEnded => IInv'
<1> SUFFICES ASSUME IInv, ReadEnded PROVE IInv'
  OBVIOUS
<1> DEFINE t == readEnded(run, reader.state)
<1>0. TypeOK /\ Reaping /\ Reading /\ Ending /\ Ruled /\ run \in Sessions /\ Killed(run)
  BY SessionFact
<1>2. /\ Supervised /\ run.reading /\ reader.state \in {"ended", "refused", "closed"} /\ taken = reader.read
      /\ Session(t) /\ UNCHANGED <<judge, done, proceeds, reader, taken, faults>>
  BY <1>0 DEF ReadEnded, TypeOK
<1>1. /\ t \in Sessions /\ ~ t.reading /\ Killed(t)
      /\ run.ended => t.ended
      /\ run.ended /\ ~ run.exited => ~ t.exited /\ t.kind = run.kind
      /\ reader.state = "ended" => t.ended = run.ended /\ t.exited = run.exited /\ t.kind = run.kind
      /\ reader.state # "ended" => t.ended
      /\ reader.state = "refused" => ~ t.exited
      /\ reader.state = "refused" /\ (~ run.ended \/ run.exited) => t.kind = "Incomplete"
      /\ reader.state = "closed" /\ run.ended => t.exited = run.exited /\ t.kind = run.kind
      /\ reader.state = "closed" /\ ~ run.ended => ~ t.exited /\ t.kind = "Incomplete"
      /\ t.undelivered = run.undelivered /\ t.canceled = run.canceled
      /\ t.completed = run.completed /\ t.waited = run.waited /\ t.phase = run.phase
      /\ t.drain = "passed" <=> run.drain = "passed"
      /\ run.groupKilled => t.groupKilled
  BY <1>0, <1>2, ReadEndedFact
<1>3. run' = t /\ t.phase = "supervised"
  BY <1>1, <1>2 DEF Session, Supervised
<1> HIDE DEF t
<1>4. /\ run.exited => run.ended /\ adapter = "failed" /\ (run.kind = "FailedExit" \/ run.canceled)
      /\ ~ run.ended => run.kind = "none"
      /\ run.drain = "passed" => run.ended
      /\ run.waited = "reaped" /\ ~ run.ended => adapter = "zero"
      /\ run.waited = "cut" => run.ended
      /\ adapter # "none"
      /\ reader.state = "closed" => run.drain = "passed"
  BY <1>0, <1>2 DEF Ending, Reading, Reaping
<1>5. /\ t.exited => t.ended /\ adapter = "failed" /\ (t.kind = "FailedExit" \/ t.canceled)
      /\ ~ t.ended => t.kind = "none"
      /\ t.drain = "passed" => t.ended
      /\ t.waited = "reaped" /\ ~ t.ended => adapter = "zero"
      /\ t.waited = "cut" => t.ended
      /\ reader.state = "refused" => t.ended /\ ~ t.exited
  BY <1>1, <1>2, <1>4
<1>6. ~ Spoiled' => /\ ~ Spoiled
                    /\ ~ t.ended \/ t.exited => ~ run.ended \/ run.exited
                    /\ t.ended /\ ~ t.exited =>
                         \/ run.ended /\ ~ run.exited /\ t.kind = run.kind
                         \/ \E i \in DOMAIN written : Ends(i) /\ t.kind = KindOf(i)
  <2> SUFFICES ASSUME ~ Spoiled'
               PROVE /\ ~ Spoiled
                     /\ ~ t.ended \/ t.exited => ~ run.ended \/ run.exited
                     /\ t.ended /\ ~ t.exited =>
                          \/ run.ended /\ ~ run.exited /\ t.kind = run.kind
                          \/ \E i \in DOMAIN written : Ends(i) /\ t.kind = KindOf(i)
    OBVIOUS
  <2>1. reader.state # "closed" /\ ~ run.canceled /\ run.drain # "passed" /\ run.waited # "cut" /\ ~ judge.unpublished
    BY <1>1, <1>2, <1>3, <1>4 DEF Spoiled
  <2>2. run.kind # "Uncertain"
    BY <1>1, <1>2, <1>3, <1>4, <2>1 DEF Spoiled
  <2>3. ~ Spoiled
    BY <2>1, <2>2 DEF Spoiled
  <2>4. CASE reader.state = "ended"
    BY <1>1, <2>3, <2>4
  <2>5. CASE reader.state = "refused" /\ run.ended /\ ~ run.exited
    BY <1>1, <2>3, <2>5
  <2>6. CASE reader.state = "refused" /\ (~ run.ended \/ run.exited)
    <3>1. /\ reader.read < Len(written) /\ written[reader.read + 1] = "unreadable"
          /\ Len(written) \in Nat /\ reader.read \in Nat /\ written \in Seq(Lines)
      <4>1. MaxRecords \in Nat
        BY BoundAssumption DEF MaxRecords
      <4>2. reader.read \in Nat /\ written \in Seq(Lines)
        BY <1>0, <4>1 DEF TypeOK
      <4> QED
        BY <1>0, <2>6, <4>2 DEF Reading
    <3>2. Sound(reader.read)
      BY <1>0, <1>2, <1>4, <2>3, <2>6 DEF Ruled
    <3>3. reader.read + 1 \in DOMAIN written /\ (reader.read + 1) - 1 = reader.read
      BY <3>1
    <3>4. ~ InPlace(written, reader.read + 1)
      BY <3>1 DEF InPlace
    <3>5. Ends(reader.read + 1) /\ KindOf(reader.read + 1) = "Incomplete"
      BY <3>1, <3>2, <3>3, <3>4 DEF Ends, KindOf
    <3> QED
      BY <1>1, <2>3, <2>6, <3>3, <3>5
  <2> QED
    BY <1>2, <2>1, <2>4, <2>5, <2>6
<1>7. t.ended => t.kind \in Failures \/ (run.ended /\ t.kind = run.kind)
  BY <1>1, <1>2 DEF Failures
<1> QED
  BY <1>1, <1>2, <1>3, <1>4, <1>5, <1>6, <1>7, QuietStep

-----------------------------------------------------------------------------
(* A record taken: the verdict, and what the session makes of it. *)

Judges == [of: Runners, loaded: BOOLEAN, prepared: BOOLEAN,
           completed: BOOLEAN, refused: BOOLEAN, published: BOOLEAN, unpublished: BOOLEAN, continuations: 0..Tools,
           effectRequested: BOOLEAN, effectAuthorized: BOOLEAN]

Place(record) == IF Lifecycle THEN LifecyclePlace(judge, record) ELSE ControllerPlace(judge, record)

\* What a verdict says of a record, and what the judge has read with it.
Rules(v, record, open, gone, kept) ==
  /\ v.valid \in BOOLEAN /\ v.failure \in BOOLEAN /\ v.acknowledge \in BOOLEAN /\ v.judge \in Judges
  /\ v.valid <=> ~ judge.completed /\ ~ judge.refused /\ open /\ Place(record)
  /\ v.failure <=> v.valid /\ (record = "refused" \/ (record = "prepared" /\ ~ gone /\ ~ kept))
  /\ v.acknowledge => record \in Waits
  /\ v.judge.of = judge.of
  /\ v.judge.loaded <=> IF record = "loaded" THEN v.valid ELSE judge.loaded
  /\ v.judge.prepared => judge.prepared \/ (record = "prepared" /\ v.valid)
  /\ judge.prepared \/ (record = "prepared" /\ v.valid /\ ~ v.failure) => v.judge.prepared
  /\ v.judge.published <=> judge.published \/ (record = "prepared" /\ v.valid /\ ~ gone /\ kept)
  /\ v.judge.unpublished <=> judge.unpublished \/ (record = "prepared" /\ v.valid /\ ~ gone /\ ~ kept)
  /\ v.judge.completed <=> judge.completed \/ (record = "completed" /\ v.valid)
  /\ v.judge.refused <=> judge.refused \/ (record = "internal" /\ v.valid)
  /\ v.judge.continuations = judge.continuations + (IF record = "continue" /\ v.valid THEN 1 ELSE 0)
  /\ judge.effectRequested \/ (record = "continue" /\ v.valid /\ ~ gone) => v.judge.effectRequested
  /\ v.judge.effectAuthorized = judge.effectAuthorized

LEMMA VerdictFact ==
  ASSUME judge \in Judges, Lifecycle => ~ judge.refused, NEW record \in Phases,
         NEW open \in BOOLEAN, NEW gone \in BOOLEAN, NEW kept \in BOOLEAN
  PROVE Rules(Judge(judge, record, open, gone, kept), record, open, gone, kept)
<1>0. Tools \in Nat /\ judge.continuations \in 0..Tools
  BY BoundAssumption DEF Judges
<1>1. CASE Lifecycle
  <2> DEFINE valid == ~ judge.completed /\ open /\ LifecyclePlace(judge, record)
             asked == record = "prepared" /\ valid /\ ~ gone
             v == lifecycleJudge(judge, record, open, gone, kept)
  <2>1. valid \in BOOLEAN /\ record \in {"loaded", "group", "prepared", "completed", "refused", "internal"}
    BY <1>1 DEF Phases
  <2>c. record = "internal" => ~ valid
    BY DEF LifecyclePlace
  <2>2. /\ v.valid = valid
        /\ v.failure = ((asked /\ ~ kept) \/ (record = "refused" /\ valid))
        /\ v.acknowledge = (record = "loaded" \/ (record = "prepared" /\ valid /\ (asked => kept)))
        /\ v.judge = [judge EXCEPT
            !.loaded = IF record = "loaded" THEN valid ELSE judge.loaded,
            !.prepared = judge.prepared \/ (record = "prepared" /\ valid),
            !.published = judge.published \/ (asked /\ kept),
            !.unpublished = judge.unpublished \/ (asked /\ ~ kept),
            !.completed = judge.completed \/ (record = "completed" /\ valid)]
    BY DEF lifecycleJudge, Judges
  <2>3. valid <=> ~ judge.completed /\ ~ judge.refused /\ open /\ Place(record)
    BY <1>1 DEF Place
  <2>4. Judge(judge, record, open, gone, kept) = v
    BY <1>1 DEF Judge
  <2> DEFINE l == IF record = "loaded" THEN valid ELSE judge.loaded
             p == judge.prepared \/ (record = "prepared" /\ valid)
             q == judge.published \/ (asked /\ kept)
             u == judge.unpublished \/ (asked /\ ~ kept)
             c == judge.completed \/ (record = "completed" /\ valid)
  <2>a. l \in BOOLEAN /\ p \in BOOLEAN /\ q \in BOOLEAN /\ u \in BOOLEAN /\ c \in BOOLEAN
    BY <2>1 DEF Judges
  <2>b. v.judge = [judge EXCEPT !.loaded = l, !.prepared = p, !.published = q, !.unpublished = u, !.completed = c]
    BY <2>2
  <2> HIDE DEF v, valid, l, p, q, u, c
  <2>5. /\ v.judge \in Judges
        /\ v.judge.of = judge.of
        /\ v.judge.loaded = l /\ v.judge.prepared = p /\ v.judge.published = q
        /\ v.judge.unpublished = u /\ v.judge.completed = c
        /\ v.judge.refused = judge.refused
        /\ v.judge.continuations = judge.continuations
        /\ v.judge.effectRequested = judge.effectRequested
        /\ v.judge.effectAuthorized = judge.effectAuthorized
    BY <2>a, <2>b DEF Judges
  <2>6. v.judge.continuations = judge.continuations + (IF record = "continue" /\ v.valid THEN 1 ELSE 0)
    BY <1>0, <2>1, <2>5
  <2> QED
    BY <2>1, <2>c, <2>2, <2>3, <2>4, <2>5, <2>6 DEF Rules, Waits, l, p, q, u, c
<1>2. CASE ~ Lifecycle
  <2> DEFINE valid == ~ judge.completed /\ ~ judge.refused /\ open /\ ControllerPlace(judge, record)
             asked == record = "prepared" /\ valid /\ ~ gone
             continued == record = "continue" /\ valid
             v == controllerJudge(judge, record, open, gone, kept)
  <2>1. valid \in BOOLEAN
    OBVIOUS
  <2>2. /\ v.valid = valid
        /\ v.failure = ((asked /\ ~ kept) \/ (record = "refused" /\ valid))
        /\ v.acknowledge = (record \in Waits)
        /\ v.judge = [judge EXCEPT
            !.loaded = IF record = "loaded" THEN valid ELSE judge.loaded,
            !.prepared = judge.prepared \/ (record = "prepared" /\ valid /\ (gone \/ kept)),
            !.published = judge.published \/ (asked /\ kept),
            !.unpublished = judge.unpublished \/ (asked /\ ~ kept),
            !.continuations = IF continued THEN judge.continuations + 1 ELSE judge.continuations,
            !.completed = judge.completed \/ (record = "completed" /\ valid),
            !.refused = judge.refused \/ (record = "internal" /\ valid),
            !.effectRequested = judge.effectRequested \/ (continued /\ ~ gone)]
    BY DEF controllerJudge, Judges
  <2>3. valid <=> ~ judge.completed /\ ~ judge.refused /\ open /\ Place(record)
    BY <1>2 DEF Place
  <2>4. Judge(judge, record, open, gone, kept) = v
    BY <1>2 DEF Judge
  <2>a. continued => judge.continuations < Tools
    BY DEF ControllerPlace
  <2>b. (IF continued THEN judge.continuations + 1 ELSE judge.continuations) \in 0..Tools
    BY <1>0, <2>a
  <2> DEFINE l == IF record = "loaded" THEN valid ELSE judge.loaded
             p == judge.prepared \/ (record = "prepared" /\ valid /\ (gone \/ kept))
             q == judge.published \/ (asked /\ kept)
             u == judge.unpublished \/ (asked /\ ~ kept)
             n == IF continued THEN judge.continuations + 1 ELSE judge.continuations
             c == judge.completed \/ (record = "completed" /\ valid)
             f == judge.refused \/ (record = "internal" /\ valid)
             r == judge.effectRequested \/ (continued /\ ~ gone)
  <2>c. /\ l \in BOOLEAN /\ p \in BOOLEAN /\ q \in BOOLEAN /\ u \in BOOLEAN
        /\ c \in BOOLEAN /\ f \in BOOLEAN /\ r \in BOOLEAN
    BY <2>1 DEF Judges
  <2>d. v.judge = [judge EXCEPT !.loaded = l, !.prepared = p, !.published = q, !.unpublished = u,
                                !.continuations = n, !.completed = c, !.refused = f, !.effectRequested = r]
    BY <2>2
  <2>e. n = judge.continuations + (IF record = "continue" /\ v.valid THEN 1 ELSE 0)
    <3>1. continued <=> record = "continue" /\ v.valid
      BY <2>1, <2>2
    <3> HIDE DEF v, continued
    <3>2. CASE continued
      BY <1>0, <3>1, <3>2
    <3>3. CASE ~ continued
      BY <1>0, <3>1, <3>3
    <3> QED
      BY <3>2, <3>3
  <2> DEFINE T == 0..Tools
  <2>f. n \in T
    BY <2>b
  <2>g. judge \in [of: Runners, loaded: BOOLEAN, prepared: BOOLEAN,
                   completed: BOOLEAN, refused: BOOLEAN, published: BOOLEAN, unpublished: BOOLEAN,
                   continuations: T, effectRequested: BOOLEAN, effectAuthorized: BOOLEAN]
    BY DEF Judges
  <2> HIDE DEF v, valid, l, p, q, u, n, c, f, r, T
  <2>5. /\ v.judge \in Judges
        /\ v.judge.of = judge.of
        /\ v.judge.loaded = l /\ v.judge.prepared = p /\ v.judge.published = q
        /\ v.judge.unpublished = u /\ v.judge.completed = c /\ v.judge.refused = f
        /\ v.judge.continuations = n /\ v.judge.effectRequested = r
        /\ v.judge.effectAuthorized = judge.effectAuthorized
    <3>1. /\ v.judge \in [of: Runners, loaded: BOOLEAN, prepared: BOOLEAN,
                          completed: BOOLEAN, refused: BOOLEAN, published: BOOLEAN, unpublished: BOOLEAN,
                          continuations: T, effectRequested: BOOLEAN, effectAuthorized: BOOLEAN]
          /\ v.judge.of = judge.of
          /\ v.judge.loaded = l /\ v.judge.prepared = p /\ v.judge.published = q
          /\ v.judge.unpublished = u /\ v.judge.completed = c /\ v.judge.refused = f
          /\ v.judge.continuations = n /\ v.judge.effectRequested = r
          /\ v.judge.effectAuthorized = judge.effectAuthorized
      <4> DEFINE half == [judge EXCEPT !.loaded = l, !.prepared = p, !.published = q, !.unpublished = u]
      <4>1. v.judge = [half EXCEPT !.continuations = n, !.completed = c, !.refused = f, !.effectRequested = r]
        BY <2>d, Zenon
      <4>2. /\ half \in [of: Runners, loaded: BOOLEAN, prepared: BOOLEAN,
                          completed: BOOLEAN, refused: BOOLEAN, published: BOOLEAN, unpublished: BOOLEAN,
                          continuations: T, effectRequested: BOOLEAN, effectAuthorized: BOOLEAN]
            /\ half.of = judge.of
            /\ half.loaded = l /\ half.prepared = p /\ half.published = q /\ half.unpublished = u
            /\ half.effectAuthorized = judge.effectAuthorized
        BY <2>c, <2>g
      <4> HIDE DEF half
      <4> DEFINE whole == [half EXCEPT !.continuations = n, !.completed = c, !.refused = f, !.effectRequested = r]
      <4>3. /\ whole \in [of: Runners, loaded: BOOLEAN, prepared: BOOLEAN,
                           completed: BOOLEAN, refused: BOOLEAN, published: BOOLEAN, unpublished: BOOLEAN,
                           continuations: T, effectRequested: BOOLEAN, effectAuthorized: BOOLEAN]
            /\ whole.of = half.of
            /\ whole.loaded = half.loaded /\ whole.prepared = half.prepared /\ whole.published = half.published
            /\ whole.unpublished = half.unpublished /\ whole.effectAuthorized = half.effectAuthorized
            /\ whole.continuations = n /\ whole.completed = c /\ whole.refused = f /\ whole.effectRequested = r
        BY <2>c, <2>f, <4>2
      <4> HIDE DEF whole
      <4> QED
        BY <4>1, <4>2, <4>3 DEF whole
    <3> QED
      BY <3>1 DEF Judges, T
  <2>6. v.acknowledge \in BOOLEAN /\ v.failure \in BOOLEAN /\ v.valid \in BOOLEAN
    BY <2>1, <2>2 DEF Judges
  <2> QED
    BY <2>1, <2>2, <2>3, <2>4, <2>5, <2>6, <2>e DEF Rules, l, p, q, u, c, f, r
<1> QED
  BY <1>1, <1>2

\* The session as the verdict leaves it.
LEMMA JudgedFact ==
  ASSUME NEW s \in Sessions, NEW record, NEW v, v.valid \in BOOLEAN, v.failure \in BOOLEAN
  PROVE LET t == judged(s, record, v)
        IN  /\ t \in Sessions
            /\ t.undelivered = s.undelivered /\ t.canceled = s.canceled /\ t.stopping = s.stopping
            /\ t.groupKilled = s.groupKilled /\ t.drain = s.drain /\ t.waited = s.waited
            /\ t.reading = s.reading /\ t.input = s.input /\ t.phase = s.phase
            /\ t.completed <=> s.completed \/ (v.valid /\ ~ v.failure /\ record = "completed")
            /\ ~ v.valid \/ v.failure => t.ended /\ ~ t.exited
            /\ ~ v.valid => t.kind = IF ~ s.ended \/ s.exited THEN "Invalid" ELSE s.kind
            /\ v.valid /\ v.failure => t.kind = "Named"
            /\ v.valid /\ ~ v.failure => t.ended = s.ended /\ t.exited = s.exited /\ t.kind = s.kind
<1>1. CASE ~ v.valid /\ (~ s.ended \/ s.exited)
  <2>1. judged(s, record, v) = [end(s, "Invalid") EXCEPT !.exited = FALSE]
    BY <1>1 DEF judged
  <2> QED
    BY <1>1, <2>1 DEF Sessions, end, Kinds
<1>5. CASE ~ v.valid /\ ~ (~ s.ended \/ s.exited)
  <2>1. judged(s, record, v) = [s EXCEPT !.exited = FALSE]
    BY <1>5 DEF judged
  <2> QED
    BY <1>5, <2>1 DEF Sessions
<1>2. CASE v.valid /\ v.failure
  <2>1. judged(s, record, v) = [end(s, "Named") EXCEPT !.exited = FALSE]
    BY <1>2 DEF judged
  <2> QED
    BY <1>2, <2>1 DEF Sessions, end, Kinds
<1>3. CASE v.valid /\ ~ v.failure /\ record = "completed"
  <2>1. judged(s, record, v) = [s EXCEPT !.completed = TRUE]
    BY <1>3 DEF judged
  <2> QED
    BY <1>3, <2>1 DEF Sessions
<1>4. CASE v.valid /\ ~ v.failure /\ record # "completed"
  <2>1. judged(s, record, v) = s
    BY <1>4 DEF judged
  <2> QED
    BY <1>4, <2>1
<1> QED
  BY <1>1, <1>2, <1>3, <1>4, <1>5

\* The judge admits a record exactly where the protocol has its place.
LEMMA ValidFact ==
  ASSUME Matches, taken \in Nat, written[taken + 1] \in Phases, Lifecycle => ~ judge.refused
  PROVE ~ judge.completed /\ ~ judge.refused /\ Place(written[taken + 1]) <=> InPlace(written, taken + 1)
<1> DEFINE record == written[taken + 1]
           lines == Before(written, taken + 1)
           n == Cardinality(Continued(taken))
<1>1. /\ judge.loaded <=> "loaded" \in lines
      /\ judge.prepared <=> "prepared" \in lines
      /\ judge.completed <=> "completed" \in lines
      /\ judge.refused <=> "internal" \in lines
      /\ judge.continuations = n
  BY DEF Matches
<1>2. n = Cardinality({k \in 1..((taken + 1) - 1) : written[k] = "continue"})
  <2>1. (taken + 1) - 1 = taken
    OBVIOUS
  <2> QED
    BY <2>1 DEF Continued
<1>3. InPlace(written, taken + 1) <=>
        /\ record # "unreadable"
        /\ lines \cap {"completed", "internal"} = {}
        /\ (record = "loaded") = ("loaded" \notin lines)
        /\ record = "prepared" => judge.of # "unprepared" /\ "prepared" \notin lines
        /\ record = "continue" => "prepared" \in lines /\ n < Tools
        /\ ~Lifecycle /\ record = "completed" => "prepared" \in lines /\ n = Tools
        /\ ~Lifecycle /\ record = "refused" => n > 0
        /\ Lifecycle => record # "internal"
  BY <1>2 DEF InPlace
<1> HIDE DEF record, lines, n
<1>4. lines \cap {"completed", "internal"} = {} <=> "completed" \notin lines /\ "internal" \notin lines
  OBVIOUS
<1>5. CASE Lifecycle
  <2>1. record \in {"loaded", "group", "prepared", "completed", "refused", "internal"}
    BY <1>5 DEF Phases, record
  <2>2. Place(record) <=> LifecyclePlace(judge, record)
    BY <1>5 DEF Place
  <2> QED
    BY <1>1, <1>3, <1>4, <1>5, <2>1, <2>2 DEF LifecyclePlace, record
<1>6. CASE ~ Lifecycle
  <2>1. record \in {"loaded", "prepared", "continue", "completed", "refused", "internal"}
    BY <1>6 DEF Phases, record
  <2>2. Place(record) <=> ControllerPlace(judge, record)
    BY <1>6 DEF Place, ControllerPlace
  <2>3. ASSUME ~ judge.completed, ~ judge.refused
        PROVE ControllerPlace(judge, record) <=> InPlace(written, taken + 1)
    <3>1. CASE record = "loaded"
      BY <1>1, <1>3, <1>4, <2>3, <3>1 DEF ControllerPlace
    <3>2. CASE record = "prepared"
      BY <1>1, <1>3, <1>4, <1>6, <2>3, <3>2 DEF ControllerPlace, Lifecycle
    <3>3. CASE record = "continue"
      BY <1>1, <1>3, <1>4, <2>3, <3>3 DEF ControllerPlace
    <3>4. CASE record = "completed"
      BY <1>1, <1>3, <1>4, <1>6, <2>3, <3>4 DEF ControllerPlace
    <3>5. CASE record = "refused"
      BY <1>1, <1>3, <1>4, <1>6, <2>3, <3>5 DEF ControllerPlace
    <3>6. CASE record = "internal"
      BY <1>1, <1>3, <1>4, <1>6, <2>3, <3>6 DEF ControllerPlace
    <3> QED
      BY <2>1, <3>1, <3>2, <3>3, <3>4, <3>5, <3>6
  <2> QED
    BY <1>1, <1>3, <1>4, <2>2, <2>3 DEF record
<1> QED
  BY <1>5, <1>6

\* The judge that took a record in its place still stands where the lines put it.
LEMMA MatchesOn ==
  ASSUME Matches, taken \in Nat, Lifecycle => ~ judge.refused, taken' = taken + 1, UNCHANGED written,
         NEW v, NEW record, record = written[taken + 1], record \in Phases,
         NEW open, NEW gone, NEW kept, Rules(v, record, open, gone, kept), v.valid, ~ v.failure,
         judge'.of = judge.of, judge'.loaded = v.judge.loaded, judge'.prepared = v.judge.prepared,
         judge'.completed = v.judge.completed, judge'.refused = v.judge.refused,
         judge'.continuations = v.judge.continuations
  PROVE Matches'
<1> DEFINE lines == Before(written, taken + 1)
           more == Before(written', taken' + 1)
<1>1. /\ judge.loaded <=> "loaded" \in lines
      /\ judge.prepared <=> "prepared" \in lines
      /\ judge.completed <=> "completed" \in lines
      /\ judge.refused <=> "internal" \in lines
      /\ judge.continuations = Cardinality(Continued(taken))
  BY DEF Matches
<1>2. more = lines \union {record}
  <2>1. (taken + 1) - 1 = taken /\ (taken' + 1) - 1 = taken + 1 /\ 1..(taken + 1) = 1..taken \union {taken + 1}
    OBVIOUS
  <2> QED
    BY <2>1 DEF Before
<1>3. Cardinality(Continued(taken)') = Cardinality(Continued(taken)) + (IF record = "continue" THEN 1 ELSE 0)
  <2>1. IsFiniteSet(Continued(taken))
    <3>1. IsFiniteSet(1..taken)
      BY FS_Interval
    <3> QED
      BY <3>1, FS_Subset DEF Continued
  <2>2. Continued(taken)' = IF record = "continue" THEN Continued(taken) \union {taken + 1} ELSE Continued(taken)
    BY DEF Continued
  <2>3. taken + 1 \notin Continued(taken)
    BY DEF Continued
  <2>4. Cardinality(Continued(taken)) \in Nat
    BY <2>1, FS_CardinalityType
  <2>5. CASE record = "continue"
    BY <2>1, <2>2, <2>3, <2>5, FS_AddElement
  <2>6. CASE record # "continue"
    BY <2>2, <2>4, <2>6
  <2> QED
    BY <2>5, <2>6
<1> HIDE DEF lines, more
<1>4. judge'.continuations = Cardinality(Continued(taken)')
  BY <1>1, <1>3 DEF Rules
<1>5. /\ judge'.loaded <=> "loaded" \in more
      /\ judge'.prepared <=> "prepared" \in more
      /\ judge'.completed <=> "completed" \in more
      /\ judge'.refused <=> "internal" \in more
  BY <1>1, <1>2 DEF Rules
<1> QED
  BY <1>4, <1>5 DEF Matches, more

\* The run is open for an acknowledgement, and the verdict asks for one.
Answering(v, record) ==
  v.valid /\ ~ v.failure /\ record \in Waits /\ ~ run.ended /\ ~ run.canceled

\* The session is as the verdict leaves it, but for what its acknowledgement met.
Takes(v, record, t) ==
  /\ t \in Sessions
  /\ Killed(t) /\ t.phase = "supervised" /\ (run.groupKilled => t.groupKilled)
  /\ t.waited = run.waited /\ t.reading = run.reading
  /\ t.drain = "passed" <=> run.drain = "passed"
  /\ run.canceled => t.canceled
  /\ t.completed <=> run.completed \/ (record = "completed" /\ v.valid)
  /\ run.ended => t.ended
  /\ ~ v.valid \/ v.failure => t.ended /\ ~ t.exited
  /\ run.ended /\ ~ run.exited => ~ t.exited /\ t.kind = run.kind
  /\ (~ run.ended \/ run.exited) /\ ~ v.valid => t.kind = "Invalid"
  /\ v.failure => t.kind = "Named"
  /\ v.valid /\ ~ v.failure =>
       \/ t.ended = run.ended /\ t.exited = run.exited /\ t.kind = run.kind
       \/ t.kind = "Uncertain" /\ t.ended /\ ~ t.exited /\ Answering(v, record)
  /\ t.undelivered => ~ ChannelHeld /\ Answering(v, record)

LEMMA TakenStep ==
  ASSUME IInv, Supervised, run.reading, taken < reader.read,
         NEW kept \in BOOLEAN, NEW v, NEW record, record = written[taken + 1],
         Rules(v, record, (~ run.ended \/ run.exited) /\ ~ run.canceled, run.exited, kept),
         NEW t, Takes(v, record, t), Session(t), taken' = taken + 1, UNCHANGED <<done, reader>>,
         judge' \in Judges, judge'.of = judge.of, judge'.loaded = v.judge.loaded,
         judge'.prepared = v.judge.prepared, judge'.completed = v.judge.completed,
         judge'.refused = v.judge.refused, judge'.published = v.judge.published,
         judge'.unpublished = v.judge.unpublished, judge'.continuations = v.judge.continuations,
         judge'.effectRequested = v.judge.effectRequested,
         judge.effectAuthorized => judge'.effectAuthorized,
         ~ t.input => ~ run.input \/ t.ended \/ t.canceled \/ t.undelivered \/ judge'.refused,
         faults' \in 0..MaxFaults,
         \/ proceeds' = proceeds
         \/ /\ proceeds' = proceeds + 1 /\ Answering(v, record)
            /\ record = "continue" => judge'.effectAuthorized \/ (t.ended /\ ~ t.exited /\ t.kind = "Uncertain")
  PROVE IInv'
<1>0. TypeOK /\ Reaping /\ Reading /\ Ending /\ Opening /\ Acks /\ Ruled /\ run \in Sessions /\ Killed(run)
  BY SessionFact
<1>a. /\ adapter' = adapter \/ (AdapterRuns /\ adapter' \in {"terminating", "failed"})
      /\ playbook' = playbook \/ (PlaybookRuns /\ playbook' = "failed")
      /\ t.groupKilled => adapter' \in Exits /\ playbook' \in Exits
      /\ UNCHANGED <<held, granted, effect, written>>
      /\ adapter # "none" /\ adapter' # "none" /\ playbook # "none" /\ playbook' # "none"
      /\ adapter' \in {"none", "running", "terminating"} \cup Exits
      /\ playbook' \in {"none", "working", "waiting", "failing"} \cup Exits
  BY <1>0, SignalFact DEF Session, Takes
<1>b. run' = t
  BY DEF Session
<1>c. (ChannelHeld' => ChannelHeld) /\ (OutputHeld' => OutputHeld)
  BY <1>a DEF ChannelHeld, OutputHeld, AdapterRuns, PlaybookRuns
<1>d. /\ taken \in Nat /\ reader.read \in Nat /\ Len(written) \in Nat /\ written \in Seq(Lines)
      /\ taken < Len(written) /\ reader.read <= Len(written)
  <2>1. MaxRecords \in Nat
    BY BoundAssumption DEF MaxRecords
  <2>2. taken \in Nat /\ reader.read \in Nat /\ Len(written) \in Nat /\ written \in Seq(Lines)
    BY <1>0, <2>1 DEF TypeOK
  <2> QED
    BY <1>0, <2>2 DEF Reading
<1>e. ~ run.undelivered /\ proceeds = 0
  <2>1. taken # Len(written)
    BY <1>d
  <2>2. ~ (proceeds > 0) /\ ~ run.undelivered
    BY <1>0, <2>1 DEF Acks, Ending
  <2> QED
    BY <1>0, <2>2 DEF TypeOK
<1>f. taken + 1 \in DOMAIN written /\ taken + 1 \in 1..reader.read /\ taken + 1 > taken /\ taken + 1 <= reader.read
  BY <1>d
<1>g. record \in Phases
  <2>1. record \in Lines
    BY <1>d, <1>f
  <2>2. record # "unreadable"
    BY <1>0, <1>f DEF Reading
  <2> QED
    BY <2>1, <2>2 DEF Lines
<1>h. Answering(v, record) =>
        /\ ~ NoMore /\ taken + 1 = Len(written) /\ playbook \in {"waiting"} \union Exits /\ ~ run.completed
  <2> SUFFICES ASSUME Answering(v, record)
               PROVE /\ ~ NoMore /\ taken + 1 = Len(written) /\ playbook \in {"waiting"} \union Exits
                     /\ ~ run.completed
    OBVIOUS
  <2>1. ~ judge.refused /\ ~ judge.completed
    BY DEF Answering, Rules
  <2>2. ~ NoMore /\ ~ run.completed
    BY <1>0, <1>e, <2>1 DEF NoMore, Answering, Ending
  <2> QED
    BY <1>0, <1>f, <2>2 DEF Acks, Answering
<1>i. /\ run.exited => run.ended /\ adapter = "failed" /\ (run.kind = "FailedExit" \/ run.canceled)
      /\ ~ run.ended => run.kind = "none"
      /\ run.drain = "passed" => run.ended
      /\ judge.unpublished => run.ended
      /\ run.completed <=> judge.completed
      /\ run.waited = "cut" => run.ended
      /\ run.waited = "reaped" => ~ OutputHeld
      /\ run.waited = "reaped" /\ ~ run.ended => adapter = "zero"
  BY <1>0 DEF Ending, Reaping
<1>1. TypeOK'
  <2>1. taken' \in 0..(reader'.read)
    BY <1>d
  <2>2. proceeds' \in 0..1
    BY <1>e
  <2>3. Lines' = Lines /\ MaxRecords' = MaxRecords
    BY DEF Lines, Phases, Lifecycle, MaxRecords
  <2>4. run' \in Sessions
    BY <1>b DEF Takes
  <2> QED
    BY <1>0, <1>a, <2>1, <2>2, <2>3, <2>4 DEF TypeOK, Sessions, Judges
<1>2. Reaping'
  <2>1. adapter' = "zero" => playbook' = "zero"
    BY <1>0, <1>a DEF Reaping, PlaybookRuns
  <2>2. adapter \in Exits => adapter' = adapter
    BY <1>a DEF AdapterRuns, Exits
  <2>3. t.waited # "awaited" => adapter \in Exits
    BY <1>0 DEF Reaping, Takes
  <2>4. t.waited = "reaped" /\ ~ t.ended => adapter = "zero"
    BY <1>i DEF Takes
  <2>5. /\ t.waited = "cut" => t.ended
        /\ t.waited = "reaped" => ~ OutputHeld
    BY <1>i DEF Takes
  <2>6. Killed(t) /\ t.phase = "supervised"
    BY DEF Takes
  <2> QED
    BY <1>a, <1>b, <1>c, <2>1, <2>2, <2>3, <2>4, <2>5, <2>6 DEF Reaping, Killed, Supervised, Exits
<1>3. Reading'
  <2>1. t.reading /\ (t.drain = "passed" <=> run.drain = "passed")
    BY DEF Takes
  <2> QED
    BY <1>0, <1>a, <1>b, <1>c, <1>f, <2>1 DEF Reading
<1>4. Ending'
  <2>1. t.exited => run.exited /\ t.kind = run.kind
    BY DEF Takes, Rules
  <2>2. adapter = "failed" => adapter' = "failed"
    BY <1>a DEF AdapterRuns
  <2>3. ~ t.ended => t.kind = "none"
    BY <1>i DEF Takes
  <2>4. judge'.unpublished => t.ended
    BY <1>i DEF Takes, Rules
  <2>5. t.completed <=> judge'.completed
    BY <1>i DEF Takes, Rules
  <2>6. t.undelivered => ~ ChannelHeld /\ taken' = Len(written) /\ ~ t.completed
    BY <1>h DEF Takes, Answering, Waits
  <2>7. t.drain = "passed" => t.ended
    BY <1>i DEF Takes
  <2>8. t.exited => t.ended /\ adapter' = "failed" /\ (t.kind = "FailedExit" \/ t.canceled)
    BY <1>i, <2>1, <2>2 DEF Takes
  <2>9. t.phase = "supervised"
    BY DEF Takes
  <2>10. t.ended => t.kind \in Failures \union {"Canceled"}
    <3>1. run.ended => run.kind \in Failures \union {"Canceled"}
      BY <1>0, <1>a DEF Ending
    <3> QED
      BY <3>1 DEF Takes, Rules, Failures
  <2> QED
    BY <1>a, <1>b, <1>c, <2>3, <2>4, <2>5, <2>6, <2>7, <2>8, <2>9, <2>10 DEF Ending, Supervised, Returned
<1>5. Acks'
  <2>1. NoMore => NoMore'
    BY <1>b, <1>e DEF NoMore, Takes, Rules
  <2>2. Authorized => Authorized'
    BY <1>b DEF Authorized, Lifecycle, Supervised, Returned, Takes, Rules
  <2>3. ~ t.input => NoMore'
    BY <1>0, <1>b, <2>1 DEF Acks, NoMore
  <2>4. Lifecycle' = Lifecycle /\ EffectRecord' = EffectRecord
    BY DEF Lifecycle, EffectRecord
  <2>5. Lifecycle => ~ judge'.refused
    BY <1>0, <1>g DEF Acks, Rules, Place, LifecyclePlace
  <2>6. playbook' \in {"none", "working", "failing"} => playbook = playbook' /\ proceeds' = 0
    BY <1>a, <1>e, <1>h DEF Exits
  <2>7. playbook' = "failing" => NoMore
    BY <1>0, <2>6 DEF Acks
  <2>8. playbook \in {"waiting"} \union Exits => playbook' \in {"waiting"} \union Exits
    BY <1>a DEF Exits
  <2>9. ASSUME ~ NoMore', NEW k \in DOMAIN written, k > taken + 1, written[k] \in Waits
        PROVE k = Len(written) /\ playbook' \in {"waiting"} \union Exits
    <3>1. k > taken
      BY <1>d, <2>9
    <3> QED
      BY <1>0, <2>1, <2>8, <2>9, <3>1 DEF Acks
  <2>10. judge'.prepared => judge'.published \/ t.ended \/ t.undelivered
    BY <1>0, <1>e, <1>i DEF Acks, Takes, Rules
  <2>11. ASSUME proceeds' > 0
         PROVE /\ proceeds' = 1 /\ taken' = Len(written) /\ Len(written) > 0
               /\ Last(written) = EffectRecord => Authorized'
    <3>1. proceeds' = proceeds + 1 /\ Answering(v, record)
      BY <1>e, <2>11
    <3>2. taken + 1 = Len(written) /\ proceeds' = 1 /\ Len(written) > 0
      BY <1>d, <1>e, <1>h, <3>1
    <3>3. Last(written) = record
      BY <3>2 DEF Last
    <3>4. ASSUME record = EffectRecord PROVE Authorized'
      <4>1. ~ run.exited
        BY <1>i, <3>1 DEF Answering
      <4>2. CASE Lifecycle
        <5>1. judge'.published
          BY <3>1, <3>4, <4>1, <4>2 DEF EffectRecord, Answering, Rules
        <5> QED
          BY <2>4, <4>2, <5>1 DEF Authorized
      <4>3. CASE ~ Lifecycle
        <5>1. record = "continue" /\ v.valid
          BY <3>1, <3>4, <4>3 DEF EffectRecord, Answering
        <5>2. Place(record) <=> judge.loaded /\ judge.prepared /\ judge.continuations < Tools
          BY <4>3, <5>1 DEF Place, ControllerPlace
        <5>3. judge.prepared
          BY <5>1, <5>2 DEF Rules
        <5>4. judge'.published /\ judge'.effectRequested
          BY <1>0, <1>e, <3>1, <4>1, <5>1, <5>3 DEF Acks, Answering, Rules
        <5>5. judge'.effectAuthorized \/ (t.ended /\ ~ t.exited /\ t.kind = "Uncertain")
          BY <1>e, <3>1, <5>1
        <5> QED
          BY <1>b, <5>4, <5>5 DEF Authorized
      <4> QED
        BY <4>2, <4>3
    <3> QED
      BY <3>2, <3>3, <3>4
  <2> QED
    BY <1>0, <1>a, <1>b, <2>2, <2>3, <2>4, <2>5, <2>6, <2>7, <2>1, <2>9, <2>10, <2>11 DEF Acks
<1>6. Ruled'
  <2> SUFFICES ASSUME ~ Spoiled'
               PROVE /\ ~ t.ended \/ t.exited => Sound(taken)' /\ Matches'
                     /\ t.ended /\ ~ t.exited => \E i \in DOMAIN written : Ends(i)' /\ t.kind = KindOf(i)'
    BY <1>a, <1>b DEF Ruled
  <2>1. ~ t.canceled /\ t.drain # "passed" /\ t.waited # "cut" /\ t.kind # "Uncertain" /\ ~ judge'.unpublished
    BY <1>b DEF Spoiled
  <2>2. ~ Spoiled
    BY <1>i, <2>1 DEF Spoiled, Takes, Rules
  <2>3. /\ \A i : InPlace(written, i)' = InPlace(written, i)
        /\ \A n : Sound(n)' = Sound(n)
        /\ \A i : Ends(i)' = Ends(i) /\ KindOf(i)' = KindOf(i)
    BY <1>a, LinesKept
  <2>4. CASE run.ended /\ ~ run.exited
    <3>1. t.ended /\ ~ t.exited /\ t.kind = run.kind
      BY <2>4 DEF Takes
    <3> QED
      BY <1>0, <1>a, <2>2, <2>3, <2>4, <3>1 DEF Ruled
  <2>5. CASE ~ run.ended \/ run.exited
    <3>1. Sound(taken) /\ Matches
      BY <1>0, <1>a, <2>2, <2>5 DEF Ruled
    <3>2. v.valid <=> InPlace(written, taken + 1)
      <4>1. ~ run.canceled
        BY <2>2 DEF Spoiled
      <4> QED
        BY <1>0, <1>d, <1>g, <2>5, <3>1, <4>1, ValidFact DEF Acks, Rules
    <3>3. (taken + 1) - 1 = taken
      BY <1>d
    <3>4. record # "unreadable"
      BY <1>g DEF Phases
    <3>5. CASE ~ v.valid
      <4>1. Ends(taken + 1) /\ KindOf(taken + 1) = "Invalid"
        BY <3>1, <3>2, <3>3, <3>4, <3>5 DEF Ends, KindOf
      <4>2. t.ended /\ ~ t.exited /\ t.kind = "Invalid"
        BY <2>5, <3>5 DEF Takes
      <4> QED
        BY <1>f, <2>3, <4>1, <4>2
    <3>6. CASE v.failure
      <4>1. v.valid /\ record = "refused"
        BY <2>1, <3>6 DEF Rules
      <4>2. Ends(taken + 1) /\ KindOf(taken + 1) = "Named"
        BY <3>1, <3>2, <3>3, <3>4, <4>1 DEF Ends, KindOf
      <4>3. t.ended /\ ~ t.exited /\ t.kind = "Named"
        BY <3>6 DEF Takes
      <4> QED
        BY <1>f, <2>3, <4>2, <4>3
    <3>7. CASE v.valid /\ ~ v.failure
      <4>1. record # "refused"
        BY <3>7 DEF Rules
      <4>2. Sound(taken + 1)
        <5>1. \A i \in 1..(taken + 1) : i \in 1..taken \/ i = taken + 1
          BY <1>d
        <5> QED
          BY <3>1, <3>2, <3>7, <4>1, <5>1 DEF Sound
      <4>3. Sound(taken)'
        BY <2>3, <4>2, <1>a DEF Sound
      <4>4. Matches'
        BY <1>0, <1>a, <1>d, <1>g, <3>1, <3>7, MatchesOn DEF Acks
      <4>5. ~ (t.ended /\ ~ t.exited)
        BY <2>1, <2>5, <3>7 DEF Takes
      <4> QED
        BY <4>3, <4>4, <4>5
    <3> QED
      BY <3>5, <3>6, <3>7
  <2> QED
    BY <2>4, <2>5
<1>7. Opening'
  BY <1>b DEF Opening, Takes
<1> QED
  BY <1>1, <1>2, <1>3, <1>4, <1>5, <1>6, <1>7 DEF IInv, Life

LEMMA JudgedTakes ==
  ASSUME run \in Sessions, Killed(run), Supervised, ~ run.undelivered, run.exited => run.ended,
         NEW v, NEW record, NEW kept,
         Rules(v, record, (~ run.ended \/ run.exited) /\ ~ run.canceled, run.exited, kept)
  PROVE LET r == judged(run, record, v)
        IN  /\ Takes(v, record, r) /\ ~ r.undelivered /\ r.canceled = run.canceled /\ r.input = run.input
            /\ ~ r.ended => v.valid /\ ~ v.failure /\ ~ run.ended
<1> DEFINE r == judged(run, record, v)
<1>1. /\ r \in Sessions
      /\ r.undelivered = run.undelivered /\ r.canceled = run.canceled /\ r.stopping = run.stopping
      /\ r.groupKilled = run.groupKilled /\ r.drain = run.drain /\ r.waited = run.waited
      /\ r.reading = run.reading /\ r.input = run.input /\ r.phase = run.phase
      /\ r.completed <=> run.completed \/ (v.valid /\ ~ v.failure /\ record = "completed")
      /\ ~ v.valid \/ v.failure => r.ended /\ ~ r.exited
      /\ ~ v.valid => r.kind = IF ~ run.ended \/ run.exited THEN "Invalid" ELSE run.kind
      /\ v.valid /\ v.failure => r.kind = "Named"
      /\ v.valid /\ ~ v.failure => r.ended = run.ended /\ r.exited = run.exited /\ r.kind = run.kind
  <2>1. v.valid \in BOOLEAN /\ v.failure \in BOOLEAN
    BY DEF Rules
  <2> QED
    BY <2>1, JudgedFact
<1> HIDE DEF r
<1>2. Killed(r)
  BY <1>1 DEF Killed
<1>3. /\ run.ended /\ ~ run.exited => ~ v.valid
      /\ v.failure => v.valid /\ record # "completed"
  BY DEF Rules
<1> QED
  BY <1>1, <1>2, <1>3 DEF Takes, Supervised, r

LEMMA StopsTakes ==
  ASSUME NEW v, NEW record, NEW s, Takes(v, record, s), NEW t, Stops(s, t), s.canceled => t.canceled
  PROVE Takes(v, record, t)
  BY DEF Takes, Stops

LEMMA ReceiveKeeps ==
  ASSUME IInv, NEW kept \in BOOLEAN, Receive(kept)
  PROVE IInv'
<1> DEFINE record == written[taken + 1]
           open == (~ run.ended \/ run.exited) /\ ~ run.canceled
           v == Judge(judge, record, open, run.exited \/ run.undelivered, kept)
           r == judged(run, record, v)
           seen == IF done THEN cancel(r) ELSE r
           refusal == v.valid /\ record \in {"refused", "internal"}
<1>0. TypeOK /\ Reaping /\ Reading /\ Ending /\ Acks /\ run \in Sessions /\ Killed(run)
  BY SessionFact
<1>a. Supervised /\ run.reading /\ taken < reader.read /\ taken' = taken + 1 /\ UNCHANGED <<done, reader>>
  BY DEF Receive
<1>b. \/ /\ refusal
         /\ Session([seen EXCEPT !.input = FALSE])
         /\ judge' = v.judge
         /\ UNCHANGED <<proceeds, faults>>
      \/ /\ ~ refusal
         /\ seen.ended \/ seen.canceled \/ seen.undelivered
         /\ Session(breach(seen))
         /\ judge' = v.judge
         /\ UNCHANGED <<proceeds, faults>>
      \/ /\ ~ refusal
         /\ ~ (seen.ended \/ seen.canceled \/ seen.undelivered)
         /\ IF v.acknowledge THEN acknowledged(seen, v.judge, record)
            ELSE Session(seen) /\ judge' = v.judge /\ UNCHANGED <<proceeds, faults>>
  BY DEF Receive
<1>c. ~ run.undelivered /\ (run.exited => run.ended)
  <2>1. MaxRecords \in Nat
    BY BoundAssumption DEF MaxRecords
  <2>2. taken \in Nat /\ reader.read \in Nat /\ Len(written) \in Nat
    BY <1>0, <2>1 DEF TypeOK
  <2>3. taken # Len(written)
    BY <1>0, <1>a, <2>2 DEF Reading
  <2> QED
    BY <1>0, <2>3 DEF Ending
<1>d. record \in Phases
  <2>1. MaxRecords \in Nat
    BY BoundAssumption DEF MaxRecords
  <2>2. taken \in Nat /\ reader.read \in Nat /\ Len(written) \in Nat /\ written \in Seq(Lines)
    BY <1>0, <2>1 DEF TypeOK
  <2>3. taken + 1 \in DOMAIN written /\ taken + 1 \in 1..reader.read
    BY <1>0, <1>a, <2>2 DEF Reading
  <2>4. record \in Lines /\ record # "unreadable"
    BY <1>0, <2>2, <2>3 DEF Reading
  <2> QED
    BY <2>4 DEF Lines
<1>e. Rules(v, record, open, run.exited, kept)
  <2>1. open \in BOOLEAN /\ run.exited \in BOOLEAN
    BY <1>0 DEF Sessions
  <2>2. (run.exited \/ run.undelivered) = run.exited
    BY <1>0, <1>c DEF Sessions
  <2>3. judge \in Judges /\ (Lifecycle => ~ judge.refused)
    BY <1>0 DEF TypeOK, Judges, Acks
  <2> HIDE DEF open, record
  <2>4. Rules(Judge(judge, record, open, run.exited, kept), record, open, run.exited, kept)
    BY <1>d, <2>1, <2>3, VerdictFact
  <2> QED
    BY <2>2, <2>4
<1>f. faults \in 0..MaxFaults /\ MaxFaults \in Nat
  BY <1>0, BoundAssumption DEF TypeOK
<1> HIDE DEF record, open, v
<1>g. /\ Takes(v, record, r) /\ ~ r.undelivered /\ r.canceled = run.canceled /\ r.input = run.input
      /\ ~ r.ended => v.valid /\ ~ v.failure /\ ~ run.ended
  BY <1>0, <1>a, <1>c, <1>e, JudgedTakes DEF open
<1> HIDE DEF r
<1>h. /\ Takes(v, record, seen) /\ ~ seen.undelivered
      /\ ~ seen.canceled => seen = r /\ ~ run.canceled
      /\ ~ seen.ended => v.valid /\ ~ v.failure /\ ~ run.ended
      /\ ~ seen.input => ~ run.input \/ seen.canceled
  <2>1. CASE done
    <3>1. r \in Sessions
      BY <1>g DEF Takes
    <3>2. Stops(r, cancel(r)) /\ cancel(r).canceled
      BY <3>1, CancelFact
    <3>3. seen = cancel(r)
      BY <2>1
    <3> QED
      BY <1>g, <3>2, <3>3, StopsTakes DEF Stops
  <2>2. CASE ~ done
    BY <1>g, <2>2
  <2> QED
    BY <2>1, <2>2
<1> HIDE DEF seen
<1>i. v.judge \in Judges /\ v.judge.of = judge.of /\ v.judge.effectAuthorized = judge.effectAuthorized
  BY <1>e DEF Rules
<1>1. ASSUME NEW t, Takes(v, record, t), Session(t), judge' = v.judge, UNCHANGED <<proceeds, faults>>,
             ~ t.input => ~ run.input \/ t.ended \/ t.canceled \/ t.undelivered \/ v.judge.refused
      PROVE IInv'
  BY <1>a, <1>e, <1>f, <1>i, <1>1, TakenStep DEF record, open
<1>2. CASE /\ refusal
           /\ Session([seen EXCEPT !.input = FALSE])
           /\ judge' = v.judge
           /\ UNCHANGED <<proceeds, faults>>
  <2> DEFINE t == [seen EXCEPT !.input = FALSE]
  <2>1. Stops(seen, t) /\ t.canceled = seen.canceled
    BY <1>h DEF Takes, Stops, Sessions, Killed
  <2> HIDE DEF t
  <2>2. Takes(v, record, t)
    BY <1>h, <2>1, StopsTakes
  <2>3. t.ended \/ v.judge.refused
    <3>1. CASE record = "refused"
      BY <1>2, <1>e, <2>2, <3>1 DEF Rules, Takes
    <3>2. CASE record = "internal"
      BY <1>2, <1>e, <3>2 DEF Rules
    <3> QED
      BY <1>2, <3>1, <3>2
  <2> QED
    BY <1>1, <1>2, <2>2, <2>3 DEF t
<1>3. CASE /\ seen.ended \/ seen.canceled \/ seen.undelivered
           /\ Session(breach(seen))
           /\ judge' = v.judge
           /\ UNCHANGED <<proceeds, faults>>
  <2>1. Stops(seen, breach(seen)) /\ breach(seen).canceled = seen.canceled
    BY <1>h, BreachFact DEF Takes
  <2>2. Takes(v, record, breach(seen))
    BY <1>h, <2>1, StopsTakes
  <2> QED
    BY <1>1, <1>3, <2>1, <2>2 DEF Stops
<1>4. CASE /\ ~ (seen.ended \/ seen.canceled \/ seen.undelivered)
           /\ ~ v.acknowledge
           /\ Session(seen) /\ judge' = v.judge /\ UNCHANGED <<proceeds, faults>>
  BY <1>1, <1>4, <1>h
<1>5. CASE /\ ~ (seen.ended \/ seen.canceled \/ seen.undelivered)
           /\ v.acknowledge /\ acknowledged(seen, v.judge, record)
  <2>1. Answering(v, record) /\ (~ seen.input => ~ run.input)
    BY <1>5, <1>e, <1>h DEF Answering, Rules
  <2>2. CASE /\ Session(seen)
             /\ proceeds' = proceeds + 1
             /\ judge' = [v.judge EXCEPT !.effectAuthorized = @ \/ record = "continue"]
             /\ UNCHANGED faults
    <3>1. PICK b \in BOOLEAN : b <=> v.judge.effectAuthorized \/ record = "continue"
      <4>1. WITNESS (v.judge.effectAuthorized \/ record = "continue") \in BOOLEAN
      <4> QED
        OBVIOUS
    <3>2. judge' = [v.judge EXCEPT !.effectAuthorized = b]
      BY <2>2, <3>1
    <3>3. /\ judge' \in Judges /\ judge'.effectAuthorized = b
          /\ judge'.of = v.judge.of /\ judge'.loaded = v.judge.loaded
          /\ judge'.prepared = v.judge.prepared /\ judge'.completed = v.judge.completed
          /\ judge'.refused = v.judge.refused /\ judge'.published = v.judge.published
          /\ judge'.unpublished = v.judge.unpublished /\ judge'.continuations = v.judge.continuations
          /\ judge'.effectRequested = v.judge.effectRequested
      BY <1>i, <3>2 DEF Judges
    <3>4. /\ judge.effectAuthorized => judge'.effectAuthorized
          /\ record = "continue" => judge'.effectAuthorized
      BY <1>i, <3>1, <3>3
    <3> QED
      BY <1>a, <1>e, <1>f, <1>h, <1>i, <2>1, <2>2, <3>3, <3>4, TakenStep DEF record, open
  <2>3. CASE /\ ~ ChannelHeld
             /\ Session(breach([seen EXCEPT !.undelivered = TRUE]))
             /\ judge' = v.judge
             /\ UNCHANGED <<proceeds, faults>>
    <3> DEFINE u == [seen EXCEPT !.undelivered = TRUE]
    <3>1. /\ u \in Sessions /\ u.undelivered /\ Killed(u) = Killed(seen)
          /\ u.kind = seen.kind /\ u.ended = seen.ended /\ u.exited = seen.exited /\ u.canceled = seen.canceled
          /\ u.completed = seen.completed /\ u.groupKilled = seen.groupKilled /\ u.drain = seen.drain
          /\ u.waited = seen.waited /\ u.reading = seen.reading /\ u.phase = seen.phase
      BY <1>h DEF Takes, Sessions, Killed
    <3> HIDE DEF u
    <3>2. Takes(v, record, u)
      BY <1>h, <2>1, <2>3, <3>1 DEF Takes
    <3>3. Stops(u, breach(u)) /\ breach(u).canceled = u.canceled
      BY <3>1, BreachFact
    <3>4. Takes(v, record, breach(u)) /\ breach(u).undelivered
      BY <3>1, <3>2, <3>3, StopsTakes DEF Stops
    <3> QED
      BY <1>1, <2>3, <3>4 DEF u
  <2>4. CASE /\ faults < MaxFaults /\ faults' = faults + 1
             /\ Session(end(seen, "Uncertain"))
             /\ proceeds' \in {proceeds, proceeds + 1}
             /\ judge' = v.judge
    <3> DEFINE u == end(seen, "Uncertain")
    <3>1. /\ u \in Sessions /\ u.undelivered = seen.undelivered /\ Killed(u) = Killed(seen)
          /\ u.kind = "Uncertain" /\ u.ended /\ u.exited = seen.exited /\ u.canceled = seen.canceled
          /\ u.completed = seen.completed /\ u.groupKilled = seen.groupKilled /\ u.drain = seen.drain
          /\ u.waited = seen.waited /\ u.reading = seen.reading /\ u.phase = seen.phase
      BY <1>h DEF Takes, Sessions, Killed, end, Kinds
    <3> HIDE DEF u
    <3>2. ~ u.exited
      BY <1>5, <1>c, <1>h, <2>1, <3>1 DEF Takes, Answering
    <3>3. Takes(v, record, u)
      BY <1>h, <2>1, <3>1, <3>2 DEF Takes, Answering
    <3>4. faults' \in 0..MaxFaults
      BY <1>f, <2>4
    <3> QED
      BY <1>a, <1>e, <1>i, <2>1, <2>4, <3>1, <3>2, <3>3, <3>4, TakenStep DEF record, open, u
  <2> QED
    BY <1>5, <2>2, <2>3, <2>4 DEF acknowledged
<1> QED
  BY <1>b, <1>2, <1>3, <1>4, <1>5

-----------------------------------------------------------------------------
(* The invariant holds. *)

LEMMA InitFits == Init => IInv
<1> SUFFICES ASSUME Init PROVE IInv
  OBVIOUS
<1>0. adapter = "none" /\ playbook = "none" /\ run.phase = "opening"
  BY DEF Init
<1>1. TypeOK
  <2>1. Tools \in Nat /\ MaxRecords \in Nat /\ MaxFaults \in Nat
    BY BoundAssumption DEF MaxRecords
  <2>2. run \in Sessions
    BY DEF Init, Sessions
  <2>3. judge \in Judges
    <3>1. PICK runner \in Runners :
            judge = [of |-> runner, loaded |-> FALSE, prepared |-> FALSE, completed |-> FALSE,
                     refused |-> FALSE, published |-> FALSE, unpublished |-> FALSE,
                     continuations |-> 0, effectRequested |-> FALSE, effectAuthorized |-> FALSE]
      BY DEF Init
    <3>2. 0 \in 0..Tools
      BY <2>1
    <3> QED
      BY <3>1, <3>2 DEF Judges
  <2>4. /\ written \in Seq(Lines) /\ Len(written) <= MaxRecords
        /\ reader \in [read: 0..MaxRecords, state: {"reading", "ended", "refused", "closed"}]
        /\ taken \in 0..reader.read /\ faults \in 0..MaxFaults /\ proceeds \in 0..1
    BY <2>1 DEF Init
  <2> QED
    BY <2>2, <2>3, <2>4 DEF Init, TypeOK, Sessions, Judges
<1>2. Reaping
  BY DEF Init, Reaping, Supervised, OutputHeld, PlaybookRuns
<1>3. Reading
  BY DEF Init, Reading
<1>4. Ending
  BY DEF Init, Ending, Supervised, Returned
<1>5. Acks
  BY DEF Init, Acks, NoMore, Supervised, Lifecycle
<1>6. Ruled
  BY <1>0 DEF Ruled
<1>7. Opening
  BY DEF Opening
<1> QED
  BY <1>1, <1>2, <1>3, <1>4, <1>5, <1>6, <1>7 DEF IInv, Life

LEMMA StutterKeeps == IInv /\ UNCHANGED vars => IInv'
<1> SUFFICES ASSUME IInv, UNCHANGED vars PROVE IInv'
  OBVIOUS
<1>0. TypeOK /\ Reaping /\ Reading /\ Ending /\ Opening /\ Acks /\ Ruled
  BY DEF IInv, Life
<1> USE DEF vars
<1>1. TypeOK'
  BY <1>0 DEF TypeOK, Lines, Phases, Lifecycle, MaxRecords
<1>2. Reaping'
  BY <1>0 DEF Reaping, Supervised, OutputHeld, PlaybookRuns
<1>3. Reading'
  BY <1>0 DEF Reading, ChannelHeld, AdapterRuns, PlaybookRuns
<1>4. Ending'
  BY <1>0 DEF Ending, Supervised, Returned, outcome, ChannelHeld, AdapterRuns, PlaybookRuns
<1>5. Acks'
  BY <1>0 DEF Acks, NoMore, Authorized, Lifecycle, EffectRecord, Supervised, Returned
<1>6. Ruled'
  BY <1>0, RuledKept
<1>7. Opening'
  BY <1>0 DEF Opening, Init
<1> QED
  BY <1>1, <1>2, <1>3, <1>4, <1>5, <1>6, <1>7 DEF IInv, Life

LEMMA NextKeeps == IInv /\ [Next]_vars => IInv'
  BY StutterKeeps, RefuseKeeps, StartKeeps, ReadKeeps, DeadlineKeeps, CancelledKeeps, DrainedKeeps, ReapedKeeps,
     ReadEndedKeeps, ReturnKeeps, ReceiveKeeps, WriteKeeps, ProceedKeeps, ActKeeps, ForkKeeps, WorkersEndKeeps,
     PlaybookEndsKeeps, SupervisorEndsKeeps, SupervisorKilledKeeps, TerminateKeeps, OrphanedKeeps
     DEF Next, SessionNext, AdapterNext

\* The processes, acknowledgements and rulings of a run stay in step with what
\* the session knows of them, in every reachable state.
THEOREM Invariance == Spec => []IInv
  BY InitFits, NextKeeps, PTL DEF Spec

-----------------------------------------------------------------------------
(* What follows from it. *)

\* What the session, the judge and the channels hold has its type.
THEOREM TypeCorrect == Spec => []TypeOK
<1>1. IInv => TypeOK
  BY DEF IInv
<1> QED
  BY <1>1, Invariance, PTL

\* No effect runs that its preparation was not recorded for: the playbook can
\* only have read the acknowledgement of its effect's record, and the session
\* writes that one after the caller kept the preparation (Judge, acknowledge).
THEOREM EffectsPrepared == Spec => []EffectPrepared
<1>1. IInv => EffectPrepared
  BY DEF IInv, Acks, Authorized, EffectPrepared
<1> QED
  BY <1>1, Invariance, PTL

\* A stopped run returns only over a dead supervisor and a dead playbook,
\* whichever of the reap and the drain came first (stop, killGroup).
THEOREM StoppedRunsEnded == Spec => []StoppedEnded
<1>1. IInv => StoppedEnded
  BY DEF IInv, Life, Reaping, Ending, StoppedEnded
<1> QED
  BY <1>1, Invariance, PTL

\* A controller run recorded as failed carried no effect out (unauthorized,
\* controllerOutcome).
THEOREM FailuresUntouched == Spec => []FailedUntouched
<1>1. IInv => FailedUntouched
  <2> SUFFICES ASSUME IInv, ~ Lifecycle, Returned, effect, controllerOutcome(run.kind) = "failed" PROVE FALSE
    BY DEF FailedUntouched
  <2>0. TypeOK /\ Reaping /\ Reading /\ Ending /\ Opening /\ Acks /\ Ruled
    BY DEF IInv, Life
  <2>1. adapter # "none" /\ Authorized
    BY <2>0 DEF Ending, Acks
  <2>2. run.kind \in Failures \union {"none", "NoResult", "Completed", "Canceled"}
    BY <2>0, <2>1 DEF Ending
  <2>3. ~ unauthorized(run.kind)
    BY <2>1 DEF unauthorized, Authorized
  <2> QED
    BY <2>1, <2>2, <2>3 DEF controllerOutcome, Authorized, Failures
<1> QED
  BY <1>1, Invariance, PTL

\* Once the session stopped reading at the channel's end, it has ruled on every line.
LEMMA AllTaken ==
  ASSUME IInv, Returned, adapter # "none", ~ Spoiled, ~ run.ended \/ run.exited
  PROVE /\ Breaking(written) = {} /\ reader.state = "ended" /\ ~ ChannelHeld
        /\ judge.completed <=> "completed" \in Range(written)
<1>0. TypeOK /\ Reaping /\ Reading /\ Ending /\ Opening /\ Acks /\ Ruled
  BY DEF IInv, Life
<1>1. ~ run.reading /\ run.drain # "passed"
  BY <1>0 DEF Ending, Spoiled
<1>2. reader.state = "ended" /\ taken = reader.read
  BY <1>0, <1>1 DEF Reading, TypeOK
<1>3. taken = Len(written) /\ ~ ChannelHeld
  BY <1>0, <1>2 DEF Reading
<1>4. Sound(taken) /\ Matches
  BY <1>0 DEF Ruled
<1>5. written \in Seq(Lines) /\ Len(written) \in Nat /\ DOMAIN written = 1..Len(written)
  BY <1>0 DEF TypeOK
<1>6. Breaking(written) = {}
  BY <1>3, <1>4, <1>5 DEF Breaking, Sound
<1>7. Before(written, taken + 1) = Range(written)
  <2>1. (taken + 1) - 1 = Len(written)
    BY <1>3, <1>5
  <2> QED
    BY <1>5, <2>1 DEF Before, Range
<1> QED
  BY <1>2, <1>3, <1>4, <1>6, <1>7 DEF Matches

\* A completed run left nothing behind and read one whole protocol (outcome,
\* reaped, drained).
THEOREM CompletionsProved == Spec => []CompletedProved
<1>1. IInv => CompletedProved
  <2> SUFFICES ASSUME IInv, Returned, run.kind = "Completed"
               PROVE /\ adapter = "zero" /\ playbook = "zero"
                     /\ held = {} /\ run.waited = "reaped"
                     /\ Breaking(written) = {} /\ "completed" \in Range(written)
                     /\ reader.state = "ended"
    BY DEF CompletedProved
  <2>0. TypeOK /\ Reaping /\ Reading /\ Ending /\ Opening /\ Acks /\ Ruled
    BY DEF IInv, Life
  <2>1. adapter # "none"
    BY <2>0 DEF Ending
  <2>2. ~ run.ended /\ run.kind = outcome(run) /\ run.waited # "awaited"
    BY <2>0, <2>1 DEF Ending, Failures
  <2>3. ~ run.canceled /\ run.completed
    BY <2>0, <2>2 DEF outcome, TypeOK
  <2>4. run.waited = "reaped"
    BY <2>0, <2>2 DEF Reaping, TypeOK
  <2>5. ~ Spoiled
    BY <2>0, <2>2, <2>3, <2>4 DEF Spoiled, Ending
  <2>6. adapter = "zero" /\ playbook = "zero" /\ ~ OutputHeld
    BY <2>0, <2>2, <2>4 DEF Reaping
  <2>7. /\ Breaking(written) = {} /\ reader.state = "ended" /\ ~ ChannelHeld
        /\ judge.completed <=> "completed" \in Range(written)
    BY <2>1, <2>2, <2>5, AllTaken
  <2>8. held = {}
    BY <2>0, <2>6, <2>7 DEF ChannelHeld, OutputHeld, TypeOK
  <2> QED
    BY <2>0, <2>3, <2>4, <2>6, <2>7, <2>8 DEF Ending
<1> QED
  BY <1>1, Invariance, PTL

\* The line the session ended on is the first that ends the protocol.
LEMMA FirstEnds ==
  ASSUME TypeOK, NEW i \in DOMAIN written, Ends(i)
  PROVE Breaking(written) # {} /\ First = i
<1>1. written \in Seq(Lines) /\ Len(written) \in Nat /\ DOMAIN written = 1..Len(written)
  BY DEF TypeOK
<1>2. i \in Breaking(written)
  BY DEF Ends, Breaking
<1>3. \A k \in Breaking(written) : i <= k
  <2> SUFFICES ASSUME NEW k \in Breaking(written), ~ (i <= k) PROVE FALSE
    OBVIOUS
  <2>1. k \in 1..(i - 1)
    BY <1>1 DEF Breaking
  <2> QED
    BY <2>1 DEF Ends, Sound, Breaking
<1>4. First \in Breaking(written) /\ \A k \in Breaking(written) : First <= k
  BY <1>2, <1>3 DEF First
<1>5. First \in Nat /\ First <= i /\ i <= First
  BY <1>1, <1>2, <1>3, <1>4 DEF Breaking
<1> QED
  BY <1>1, <1>2, <1>5

\* The run ends as its lines and its adapter's exit say, whichever of them
\* the session happened to take first (session.exited, receive, readEnded).
THEOREM OrderIrrelevant == Spec => []WhicheverReadFirst
<1>1. IInv => WhicheverReadFirst
  <2> SUFFICES ASSUME IInv, Returned, adapter # "none", ~ run.canceled, run.drain # "passed",
                      run.waited # "cut", run.kind # "Uncertain", ~ judge.unpublished
               PROVE run.kind = ReferenceKind
    BY DEF WhicheverReadFirst
  <2>0. TypeOK /\ Reaping /\ Reading /\ Ending /\ Opening /\ Acks /\ Ruled
    BY DEF IInv, Life
  <2>1. ~ Spoiled
    BY DEF Spoiled
  <2>2. CASE run.ended /\ ~ run.exited
    <3>1. PICK i \in DOMAIN written : Ends(i) /\ run.kind = KindOf(i)
      BY <2>0, <2>1, <2>2 DEF Ruled
    <3>2. Breaking(written) # {} /\ First = i
      BY <2>0, <3>1, FirstEnds
    <3>3. written[i] = "unreadable" => ~ InPlace(written, i)
      BY DEF InPlace
    <3> QED
      BY <3>1, <3>2, <3>3 DEF ReferenceKind, KindOf
  <2>3. CASE ~ run.ended \/ run.exited
    <3>1. /\ Breaking(written) = {} /\ reader.state = "ended" /\ ~ ChannelHeld
          /\ judge.completed <=> "completed" \in Range(written)
      BY <2>1, <2>3, AllTaken
    <3>2. CASE run.exited
      BY <2>0, <3>1, <3>2 DEF Ending, ReferenceKind
    <3>3. CASE ~ run.ended /\ ~ run.exited
      <4>1. adapter = "zero"
        BY <2>0, <3>3 DEF Reaping, Ending, TypeOK
      <4>2. run.kind = IF run.completed THEN "Completed" ELSE "NoResult"
        BY <2>0, <3>3 DEF Ending, outcome, TypeOK
      <4> QED
        BY <2>0, <3>1, <4>1, <4>2 DEF ReferenceKind, Ending
    <3> QED
      BY <2>3, <3>2, <3>3
  <2> QED
    BY <2>2, <2>3
<1> QED
  BY <1>1, Invariance, PTL
-----------------------------------------------------------------------------
(* A run returns: it is never stuck, and every step of its own counts down. *)

\* The drain timer is armed with the stop or the reap, and its passing kills
\* what was told to stop.
Armed(s) ==
  /\ s.drain # "off" <=> s.stopping \/ s.waited # "awaited"
  /\ s.stopping /\ s.drain = "passed" => s.groupKilled

\* What the steps of a session never undo.
Onward(s, t) ==
  /\ t \in Sessions /\ t.phase = s.phase
  /\ s.drain # "off" => t.drain # "off"
  /\ s.drain = "passed" => t.drain = "passed"
  /\ t.waited = "awaited" => s.waited = "awaited"
  /\ t.reading => s.reading
  /\ s.canceled => t.canceled
  /\ s.stopping => t.stopping
  /\ t.canceled => s.canceled \/ t.stopping
  /\ Armed(s) => Armed(t)

\* What neither the drain nor the wait notices.
Alike(s, t) ==
  /\ t \in Sessions
  /\ t.phase = s.phase /\ t.drain = s.drain /\ t.waited = s.waited /\ t.reading = s.reading
  /\ t.canceled = s.canceled /\ t.stopping = s.stopping /\ t.groupKilled = s.groupKilled

LEMMA AlikeOnward ==
  ASSUME NEW s \in Sessions, NEW t, Alike(s, t)
  PROVE Onward(s, t)
  BY DEF Alike, Onward, Armed

LEMMA OnwardTwice ==
  ASSUME NEW s, NEW t, NEW u, Onward(s, t), Onward(t, u)
  PROVE Onward(s, u)
  BY DEF Onward

LEMMA StopOnward ==
  ASSUME NEW s \in Sessions
  PROVE Onward(s, stop(s)) /\ stop(s).stopping
<1>1. CASE s.stopping
  <2>1. Alike(s, stop(s))
    BY <1>1 DEF stop, Alike, Sessions
  <2> QED
    BY <1>1, <2>1, AlikeOnward DEF Alike
<1>2. CASE ~ s.stopping /\ s.waited = "awaited"
  <2>1. /\ stop(s) \in Sessions /\ stop(s).stopping /\ stop(s).groupKilled = s.groupKilled
        /\ stop(s).drain = IF s.drain = "off" THEN "armed" ELSE s.drain
        /\ stop(s).phase = s.phase /\ stop(s).waited = s.waited /\ stop(s).reading = s.reading
        /\ stop(s).canceled = s.canceled
    BY <1>2 DEF stop, Sessions, arm
  <2> QED
    BY <1>2, <2>1 DEF Onward, Armed
<1>3. CASE ~ s.stopping /\ s.waited # "awaited"
  <2>1. /\ stop(s) \in Sessions /\ stop(s).stopping /\ stop(s).groupKilled
        /\ stop(s).drain = IF s.drain = "off" THEN "armed" ELSE s.drain
        /\ stop(s).phase = s.phase /\ stop(s).waited = s.waited /\ stop(s).reading = s.reading
        /\ stop(s).canceled = s.canceled
    BY <1>3 DEF stop, Sessions, arm, killGroup
  <2> QED
    BY <1>3, <2>1 DEF Onward, Armed
<1> QED
  BY <1>1, <1>2, <1>3

LEMMA BreachOnward ==
  ASSUME NEW s \in Sessions
  PROVE Onward(s, breach(s))
<1>1. CASE Lifecycle
  BY <1>1, StopOnward DEF breach
<1>2. CASE ~ Lifecycle
  BY <1>2 DEF breach, Onward, Armed, Sessions
<1> QED
  BY <1>1, <1>2

LEMMA CancelOnward ==
  ASSUME NEW s \in Sessions
  PROVE Onward(s, cancel(s)) /\ cancel(s).canceled
<1>1. CASE s.canceled
  BY <1>1 DEF cancel, Onward
<1>2. CASE ~ s.canceled
  <2> DEFINE c == [s EXCEPT !.canceled = TRUE]
  <2>1. /\ c \in Sessions /\ c.canceled
        /\ c.phase = s.phase /\ c.drain = s.drain /\ c.waited = s.waited /\ c.reading = s.reading
        /\ c.stopping = s.stopping /\ c.groupKilled = s.groupKilled
    BY DEF Sessions
  <2>2. cancel(s) = stop(c)
    BY <1>2 DEF cancel
  <2> HIDE DEF c
  <2>3. Onward(c, stop(c)) /\ stop(c).stopping
    BY <2>1, StopOnward
  <2> QED
    BY <2>1, <2>2, <2>3, <1>2 DEF Onward, Armed
<1> QED
  BY <1>1, <1>2

LEMMA DrainedOnward ==
  ASSUME NEW s \in Sessions, s.drain = "armed"
  PROVE Onward(s, drained(s)) /\ drained(s).drain = "passed"
<1> DEFINE t == drained(s)
<1>1. /\ t \in Sessions /\ t.drain = "passed" /\ t.stopping = s.stopping
      /\ t.groupKilled = (s.groupKilled \/ s.stopping)
      /\ t.phase = s.phase /\ t.waited = s.waited /\ t.reading = s.reading /\ t.canceled = s.canceled
  BY DEF drained, killGroup, end, Sessions, Kinds
<1> HIDE DEF t
<1>2. Onward(s, t)
  BY <1>1 DEF Onward, Armed
<1> QED
  BY <1>1, <1>2 DEF t

LEMMA ReapedOnward ==
  ASSUME NEW s \in Sessions, NEW cut \in BOOLEAN, NEW exit \in Exits, s.waited = "awaited"
  PROVE Onward(s, reaped(s, cut, exit)) /\ reaped(s, cut, exit).waited # "awaited"
<1> DEFINE w == [s EXCEPT !.waited = IF cut THEN "cut" ELSE "reaped"]
           a == arm(killGroup(w))
<1>0. /\ a \in Sessions /\ a.waited = (IF cut THEN "cut" ELSE "reaped")
      /\ a.drain = (IF s.drain = "off" THEN "armed" ELSE s.drain)
      /\ a.groupKilled = (s.groupKilled \/ s.stopping)
      /\ a.stopping = s.stopping /\ a.phase = s.phase /\ a.reading = s.reading /\ a.canceled = s.canceled
  BY DEF Sessions, arm, killGroup
<1> HIDE DEF a
<1>1. Onward(s, a) /\ a.waited # "awaited"
  BY <1>0 DEF Onward, Armed
<1>2. reaped(s, cut, exit) =
        CASE s.ended -> a
          [] ~s.ended /\ exit = "failed" -> [end(a, "FailedExit") EXCEPT !.exited = TRUE]
          [] ~s.ended /\ exit = "zero" /\ cut -> end(a, "RetainedOutput")
          [] OTHER -> a
  BY DEF reaped, a
<1>3. \/ reaped(s, cut, exit) = a
      \/ reaped(s, cut, exit) = [end(a, "FailedExit") EXCEPT !.exited = TRUE]
      \/ reaped(s, cut, exit) = end(a, "RetainedOutput")
  BY <1>2
<1>4. Alike(a, a) /\ Alike(a, end(a, "RetainedOutput")) /\ Alike(a, [end(a, "FailedExit") EXCEPT !.exited = TRUE])
  BY <1>1 DEF Onward, Alike, end, Sessions, Kinds
<1>5. Alike(a, reaped(s, cut, exit))
  BY <1>3, <1>4
<1>6. Onward(a, reaped(s, cut, exit))
  BY <1>1, <1>5, AlikeOnward DEF Onward
<1> QED
  BY <1>1, <1>5, <1>6, OnwardTwice DEF Alike

LEMMA ReadEndedOnward ==
  ASSUME NEW s \in Sessions, NEW how
  PROVE Onward(s, readEnded(s, how)) /\ ~ readEnded(s, how).reading
<1> DEFINE u == [s EXCEPT !.reading = FALSE]
           i == [end(u, "Incomplete") EXCEPT !.exited = FALSE]
<1>1. /\ u \in Sessions /\ ~ u.reading
      /\ u.phase = s.phase /\ u.drain = s.drain /\ u.waited = s.waited
      /\ u.canceled = s.canceled /\ u.stopping = s.stopping /\ u.groupKilled = s.groupKilled
      /\ i \in Sessions /\ ~ i.reading
      /\ i.phase = s.phase /\ i.drain = s.drain /\ i.waited = s.waited
      /\ i.canceled = s.canceled /\ i.stopping = s.stopping /\ i.groupKilled = s.groupKilled
  BY DEF Sessions, end, Kinds
<1>2. readEnded(s, how) \in {u, breach(i), breach(u)}
  BY DEF readEnded
<1> HIDE DEF u, i
<1>3. /\ u \in Sessions /\ Onward(s, u) /\ ~ u.reading
      /\ i \in Sessions /\ Onward(s, i) /\ ~ i.reading
  BY <1>1 DEF Onward, Armed
<1>4. Onward(u, breach(u)) /\ Onward(i, breach(i))
  BY <1>3, BreachOnward
<1>5. ~ breach(u).reading /\ ~ breach(i).reading
  BY <1>3, <1>4 DEF Onward, Sessions
<1> QED
  BY <1>3, <1>2, <1>4, <1>5, OnwardTwice

LEMMA JudgedOnward ==
  ASSUME NEW s \in Sessions, NEW record, NEW v
  PROVE Alike(s, judged(s, record, v))
<1> DEFINE e == end(s, "Invalid")
           n == end(s, "Named")
           i == IF ~s.ended \/ s.exited THEN e ELSE s
<1>1. Alike(s, s) /\ Alike(s, e) /\ Alike(s, n)
  BY DEF Alike, Sessions, end, Kinds
<1>2. Alike(s, [e EXCEPT !.exited = FALSE]) /\ Alike(s, [n EXCEPT !.exited = FALSE])
  BY DEF Alike, Sessions, end, Kinds
<1>3. Alike(s, [s EXCEPT !.exited = FALSE]) /\ Alike(s, [s EXCEPT !.completed = TRUE])
  BY DEF Alike, Sessions
<1>4. judged(s, record, v) \in {[i EXCEPT !.exited = FALSE], [n EXCEPT !.exited = FALSE],
                                [s EXCEPT !.completed = TRUE], s}
  BY DEF judged
<1>5. i = e \/ i = s
  OBVIOUS
<1> HIDE DEF e, n, i
<1> QED
  BY <1>1, <1>2, <1>3, <1>4, <1>5

\* The judge of a run is its runner's throughout.
LEMMA JudgeOf ==
  ASSUME TypeOK, NEW record, NEW open, NEW exited, NEW kept
  PROVE LET j == Judge(judge, record, open, exited, kept).judge
        IN  j.of = judge.of /\ [j EXCEPT !.effectAuthorized = @ \/ record = "continue"].of = judge.of
<1>1. CASE Lifecycle
  BY <1>1 DEF Judge, lifecycleJudge, TypeOK
<1>2. CASE ~ Lifecycle
  BY <1>2 DEF Judge, controllerJudge, TypeOK
<1> QED
  BY <1>1, <1>2

LEMMA ReceiveOnward ==
  ASSUME IInv, NEW kept, Receive(kept)
  PROVE Onward(run, run') /\ judge'.of = judge.of
<1> DEFINE record == written[taken + 1]
           v == Judge(judge, record, (~run.ended \/ run.exited) /\ ~run.canceled, run.exited \/ run.undelivered, kept)
           r == judged(run, record, v)
           seen == IF done THEN cancel(r) ELSE r
           refusal == v.valid /\ record \in {"refused", "internal"}
           a == [v.judge EXCEPT !.effectAuthorized = @ \/ record = "continue"]
<1>1. TypeOK /\ run \in Sessions
  BY SessionFact
<1>2. v.judge.of = judge.of /\ a.of = judge.of
  BY <1>1, JudgeOf
<1>3. Onward(run, r)
  <2>1. Alike(run, r)
    BY <1>1, JudgedOnward
  <2> QED
    BY <1>1, <2>1, AlikeOnward
<1>4. Onward(run, seen)
  <2> HIDE DEF r
  <2>1. Onward(r, cancel(r))
    BY <1>3, CancelOnward DEF Onward
  <2> QED
    BY <1>3, <2>1, OnwardTwice
<1>5. \/ run' \in {[seen EXCEPT !.input = FALSE], breach(seen), seen} /\ judge' = v.judge
      \/ acknowledged(seen, v.judge, record)
  <2> HIDE DEF v, seen
  <2>1. \/ /\ Session([seen EXCEPT !.input = FALSE]) /\ judge' = v.judge
        \/ /\ Session(breach(seen)) /\ judge' = v.judge
        \/ IF v.acknowledge THEN acknowledged(seen, v.judge, record)
           ELSE Session(seen) /\ judge' = v.judge /\ UNCHANGED <<proceeds, faults>>
    BY DEF Receive, v, r, seen
  <2> QED
    BY <2>1 DEF Session
<1>6. \/ run' \in {[seen EXCEPT !.input = FALSE], breach(seen), seen}
      \/ run' \in {breach([seen EXCEPT !.undelivered = TRUE]), end(seen, "Uncertain")}
  BY <1>5 DEF acknowledged, Session
<1>7. judge' = v.judge \/ judge' = a
  BY <1>5 DEF acknowledged
<1> HIDE DEF seen, v, a
<1>8. Onward(seen, run')
  <2> DEFINE u == [seen EXCEPT !.undelivered = TRUE]
  <2>1. seen \in Sessions
    BY <1>4 DEF Onward
  <2>2. Alike(seen, [seen EXCEPT !.input = FALSE]) /\ Alike(seen, seen) /\ Alike(seen, u)
    BY <2>1 DEF Alike, Sessions
  <2>3. Alike(seen, end(seen, "Uncertain"))
    BY <2>1 DEF Alike, Sessions, end, Kinds
  <2>4. Onward(seen, breach(seen))
    BY <2>1, BreachOnward
  <2>5. Onward(seen, breach(u))
    <3> HIDE DEF u
    <3>1. Onward(seen, u) /\ u \in Sessions
      BY <2>1, <2>2, AlikeOnward DEF Alike
    <3>2. Onward(u, breach(u))
      BY <3>1, BreachOnward
    <3> QED
      BY <3>1, <3>2, OnwardTwice
  <2>6. Alike(seen, run') \/ Onward(seen, run')
    BY <1>6, <2>2, <2>3, <2>4, <2>5
  <2> QED
    BY <2>1, <2>6, AlikeOnward
<1> QED
  BY <1>2, <1>4, <1>7, <1>8, OnwardTwice

\* A step of the session that takes no record is onward, and the last of its kind.
LEMMA SessionOnward ==
  ASSUME IInv
  PROVE /\ Cancelled => Onward(run, run') /\ run'.canceled
        /\ Drained => Onward(run, run') /\ run'.drain = "passed"
        /\ Reaped => Onward(run, run') /\ run'.waited # "awaited"
        /\ ReadEnded => Onward(run, run') /\ ~ run'.reading
<1>1. TypeOK /\ run \in Sessions
  BY SessionFact
<1>2. Cancelled => Onward(run, run') /\ run'.canceled
  BY <1>1, CancelOnward DEF Cancelled, Session
<1>3. Drained => Onward(run, run') /\ run'.drain = "passed"
  BY <1>1, DrainedOnward DEF Drained, Session
<1>4. Reaped => Onward(run, run') /\ run'.waited # "awaited"
  <2>1. OutputHeld \in BOOLEAN
    BY DEF OutputHeld, PlaybookRuns
  <2> QED
    BY <1>1, <2>1, ReapedOnward DEF Reaped, Session
<1>5. ReadEnded => Onward(run, run') /\ ~ run'.reading
  BY <1>1, ReadEndedOnward DEF ReadEnded, Session
<1> QED
  BY <1>2, <1>3, <1>4, <1>5

\* A cancelled session has told its adapter to end.
EndInSight == Armed(run) /\ (run.canceled => run.stopping)

LEMMA EndInSightKept == IInv /\ EndInSight /\ [Next]_vars => EndInSight'
<1> SUFFICES ASSUME IInv, EndInSight, [Next]_vars PROVE EndInSight'
  OBVIOUS
<1>1. run \in Sessions
  BY SessionFact
<1>2. CASE Cancelled \/ Drained \/ Reaped \/ ReadEnded
  BY <1>2, SessionOnward DEF Onward, EndInSight
<1>3. ASSUME NEW kept, Receive(kept) PROVE EndInSight'
  BY <1>3, ReceiveOnward DEF Onward, EndInSight
<1>4. CASE Refuse \/ Start \/ Return
  <2>1. /\ run'.drain = run.drain /\ run'.stopping = run.stopping /\ run'.waited = run.waited
        /\ run'.groupKilled = run.groupKilled /\ run'.canceled = run.canceled
    BY <1>1, <1>4 DEF Refuse, Start, Return, Sessions, end
  <2> QED
    BY <2>1 DEF EndInSight, Armed
<1>5. CASE Read \/ Deadline \/ AdapterNext \/ UNCHANGED vars
  BY <1>5 DEF Read, Deadline, AdapterNext, Write, Proceed, Act, Fork, WorkersEnd, PlaybookEnds, SupervisorEnds,
              SupervisorKilled, Terminate, Orphaned, vars, EndInSight
<1> QED
  BY <1>2, <1>3, <1>4, <1>5 DEF Next, SessionNext

\* Whenever the run has not returned, the guard of a step of the session, of
\* its reader or of its context's end holds: NeverStuck, said of the guards.
RunReady ==
  \/ run.phase = "opening"                                                \* Refuse, Start
  \/ /\ Supervised
     /\ \/ ~ done                                                         \* Deadline
        \/ done /\ ~ run.canceled                                         \* Cancelled
        \/ run.drain = "armed"                                            \* Drained
        \/ run.waited = "awaited" /\ adapter \in Exits                    \* Reaped
        \/ run.reading /\ reader.state # "reading" /\ taken = reader.read \* ReadEnded
        \/ run.reading /\ taken < reader.read                             \* Receive
        \/ ~ run.reading /\ run.waited # "awaited"                        \* Return
        \/ reader.state = "reading" /\ ~ ChannelOpen                      \* Read

\* A run that has not returned always has a step of its own to take, whatever
\* its adapter's processes do: a cancelled session has told its adapter to
\* end, so the drain timer is armed or has killed the group, and once it has
\* the channel is closed and the reap is due (stop, arm, drained).
THEOREM NeverWaitsForEver == Spec => [](~ Returned => RunReady)
<1>1. Init => EndInSight
  BY DEF Init, EndInSight, Armed
<1>2. IInv /\ EndInSight => (~ Returned => RunReady)
  <2> SUFFICES ASSUME IInv, EndInSight, ~ Returned, ~ RunReady PROVE FALSE
    OBVIOUS
  <2>1. TypeOK /\ Reaping /\ Reading
    BY SessionFact
  <2>2. Supervised
    BY <2>1 DEF TypeOK, RunReady, Supervised, Returned
  <2>3. run.drain = "passed" /\ run.stopping /\ run.groupKilled
    BY <2>1, <2>2 DEF RunReady, EndInSight, Armed, TypeOK
  <2>4. adapter \in Exits /\ reader.state # "reading"
    BY <2>1, <2>2, <2>3 DEF RunReady, Reaping, ChannelOpen
  <2>5. run.reading
    BY <2>2, <2>4 DEF RunReady
  <2>6. taken = reader.read \/ taken < reader.read
    <3>1. MaxRecords \in Nat
      BY BoundAssumption DEF MaxRecords
    <3>2. taken \in Nat /\ reader.read \in Nat /\ taken <= reader.read
      BY <2>1, <3>1 DEF TypeOK, Reading
    <3> QED
      BY <3>2
  <2> QED
    BY <2>2, <2>4, <2>5, <2>6 DEF RunReady
<1> QED
  BY <1>1, <1>2, EndInSightKept, Invariance, PTL DEF Spec

Count(b) == IF b THEN 1 ELSE 0

PhaseLeft(s) == IF s.phase = "opening" THEN 2 ELSE IF s.phase = "supervised" THEN 1 ELSE 0

DrainLeft(s) == IF s.drain = "off" THEN 2 ELSE IF s.drain = "armed" THEN 1 ELSE 0

\* What the session still has to do, beside taking records.
SessionLeft(s) ==
  PhaseLeft(s) + DrainLeft(s) + Count(s.waited = "awaited") + Count(s.reading) + Count(~ s.canceled)

\* What the run still has to do: every record is read once and taken once.
Remaining ==
  SessionLeft(run) + Count(~ done) + Count(reader.state = "reading")
  + (MaxRecords - reader.read) + (MaxRecords - taken)

LEMMA CountFact == \A b \in BOOLEAN : Count(b) \in 0..1
  BY DEF Count

LEMMA LeftFact ==
  ASSUME NEW s \in Sessions
  PROVE /\ PhaseLeft(s) \in 0..2 /\ DrainLeft(s) \in 0..2 /\ SessionLeft(s) \in 0..7
        /\ Count(s.waited = "awaited") \in 0..1 /\ Count(s.reading) \in 0..1 /\ Count(~ s.canceled) \in 0..1
<1>1. PhaseLeft(s) \in 0..2 /\ DrainLeft(s) \in 0..2
  BY DEF PhaseLeft, DrainLeft
<1>2. Count(s.waited = "awaited") \in 0..1 /\ Count(s.reading) \in 0..1 /\ Count(~ s.canceled) \in 0..1
  BY DEF Count
<1> QED
  BY <1>1, <1>2 DEF SessionLeft

\* What is left never grows, and shrinks when one thing is done.
LEMMA OnwardLeft ==
  ASSUME NEW s \in Sessions, NEW t, Onward(s, t)
  PROVE /\ SessionLeft(t) \in Nat /\ SessionLeft(s) \in Nat /\ SessionLeft(t) <= SessionLeft(s)
        /\ \/ ~ s.canceled /\ t.canceled
           \/ s.drain = "armed" /\ t.drain = "passed"
           \/ s.waited = "awaited" /\ t.waited # "awaited"
           \/ s.reading /\ ~ t.reading
           => SessionLeft(t) < SessionLeft(s)
<1>1. t \in Sessions
  BY DEF Onward
<1>2. /\ PhaseLeft(s) \in 0..2 /\ DrainLeft(s) \in 0..2 /\ SessionLeft(s) \in 0..7
      /\ Count(s.waited = "awaited") \in 0..1 /\ Count(s.reading) \in 0..1 /\ Count(~ s.canceled) \in 0..1
      /\ PhaseLeft(t) \in 0..2 /\ DrainLeft(t) \in 0..2 /\ SessionLeft(t) \in 0..7
      /\ Count(t.waited = "awaited") \in 0..1 /\ Count(t.reading) \in 0..1 /\ Count(~ t.canceled) \in 0..1
  BY <1>1, LeftFact
<1>3. PhaseLeft(t) = PhaseLeft(s)
  BY DEF Onward, PhaseLeft
<1>4. DrainLeft(t) <= DrainLeft(s) /\ (s.drain = "armed" /\ t.drain = "passed" => DrainLeft(t) < DrainLeft(s))
  BY <1>1 DEF Onward, DrainLeft, Sessions
<1>5. /\ Count(t.waited = "awaited") <= Count(s.waited = "awaited")
      /\ s.waited = "awaited" /\ t.waited # "awaited" => Count(t.waited = "awaited") < Count(s.waited = "awaited")
  BY DEF Onward, Count
<1>6. /\ Count(t.reading) <= Count(s.reading)
      /\ s.reading /\ ~ t.reading => Count(t.reading) < Count(s.reading)
  BY DEF Onward, Count
<1>7. /\ Count(~ t.canceled) <= Count(~ s.canceled)
      /\ ~ s.canceled /\ t.canceled => Count(~ t.canceled) < Count(~ s.canceled)
  BY DEF Onward, Count
<1>8. /\ SessionLeft(s) = PhaseLeft(s) + DrainLeft(s) + Count(s.waited = "awaited") + Count(s.reading) + Count(~ s.canceled)
      /\ SessionLeft(t) = PhaseLeft(t) + DrainLeft(t) + Count(t.waited = "awaited") + Count(t.reading) + Count(~ t.canceled)
  BY DEF SessionLeft
<1> QED
  BY <1>2, <1>3, <1>4, <1>5, <1>6, <1>7, <1>8

\* The steps the run takes of its own, whatever its adapter does.
RunStep == Refuse \/ Start \/ SessionNext \/ Read \/ Deadline

RemainingBounded == Remaining \in 0..(2 * MaxRecords + 9)

LEMMA RemainingFact ==
  ASSUME IInv
  PROVE /\ SessionLeft(run) \in 0..7 /\ Count(~ done) \in 0..1 /\ Count(reader.state = "reading") \in 0..1
        /\ MaxRecords \in Nat /\ reader.read \in 0..MaxRecords /\ taken \in 0..MaxRecords /\ taken <= reader.read
        /\ reader \in [read: 0..MaxRecords, state: {"reading", "ended", "refused", "closed"}]
        /\ RemainingBounded
<1>1. TypeOK /\ Reading /\ run \in Sessions
  BY SessionFact
<1>2. SessionLeft(run) \in 0..7
  BY <1>1, LeftFact
<1>3. Count(~ done) \in 0..1 /\ Count(reader.state = "reading") \in 0..1
  BY DEF Count
<1>4. MaxRecords \in Nat
  BY BoundAssumption DEF MaxRecords
<1>5. /\ reader \in [read: 0..MaxRecords, state: {"reading", "ended", "refused", "closed"}]
      /\ reader.read \in 0..MaxRecords /\ taken \in 0..MaxRecords /\ taken <= reader.read
  BY <1>1, <1>4 DEF TypeOK, Reading
<1>6. RemainingBounded
  BY <1>2, <1>3, <1>4, <1>5 DEF RemainingBounded, Remaining
<1> QED
  BY <1>2, <1>3, <1>4, <1>5, <1>6

\* A step that leaves the reading and the taking alone.
LEMMA SessionShrinks ==
  ASSUME IInv, UNCHANGED <<judge, reader>>, done => done', taken' = taken,
         SessionLeft(run') \in Nat, SessionLeft(run') <= SessionLeft(run),
         SessionLeft(run') < SessionLeft(run) \/ (~ done /\ done')
  PROVE Remaining' < Remaining
<1>1. MaxRecords' = MaxRecords
  BY DEF MaxRecords, Lifecycle
<1>2. Remaining' = SessionLeft(run') + Count(~ done') + Count(reader.state = "reading")
                   + (MaxRecords - reader.read) + (MaxRecords - taken)
  BY <1>1 DEF Remaining, SessionLeft, PhaseLeft, DrainLeft
<1>3. /\ Count(~ done') \in Nat /\ Count(~ done') <= Count(~ done)
      /\ ~ done /\ done' => Count(~ done') < Count(~ done)
  BY DEF Count
<1> QED
  BY <1>1, <1>2, <1>3, RemainingFact DEF Remaining

LEMMA RunStepShrinks == IInv /\ RunStep => Remaining' < Remaining
<1> SUFFICES ASSUME IInv, RunStep PROVE Remaining' < Remaining
  OBVIOUS
<1>1. run \in Sessions /\ TypeOK /\ SessionLeft(run) \in Nat
  BY SessionFact, LeftFact
<1>2. CASE Cancelled \/ Drained \/ Reaped \/ ReadEnded
  <2>1. /\ Onward(run, run')
        /\ \/ ~ run.canceled /\ run'.canceled
           \/ run.drain = "armed" /\ run'.drain = "passed"
           \/ run.waited = "awaited" /\ run'.waited # "awaited"
           \/ run.reading /\ ~ run'.reading
    BY <1>2, SessionOnward DEF Cancelled, Drained, Reaped, ReadEnded
  <2>2. SessionLeft(run') \in Nat /\ SessionLeft(run') < SessionLeft(run)
    BY <1>1, <2>1, OnwardLeft
  <2>3. UNCHANGED <<judge, done, reader, taken>>
    BY <1>2 DEF Cancelled, Drained, Reaped, ReadEnded
  <2> QED
    BY <1>1, <2>2, <2>3, SessionShrinks
<1>3. CASE Refuse \/ Start \/ Return
  <2> DEFINE Moved(t) == /\ t \in Sessions /\ t.drain = run.drain /\ t.waited = run.waited
                         /\ t.reading = run.reading /\ t.canceled = run.canceled
  <2>1. ASSUME Refuse PROVE Moved(run') /\ PhaseLeft(run') < PhaseLeft(run)
    <3>1. PICK kind \in {"ResultChannel", "AuthorizationChannel", "Aborted", "NotStarted"} :
            run' = [end(run, kind) EXCEPT !.phase = "returned"]
      BY <2>1 DEF Refuse
    <3>2. Moved(run') /\ run'.phase = "returned" /\ run.phase = "opening"
      BY <1>1, <2>1, <3>1 DEF Refuse, Sessions, end, Kinds
    <3> QED
      BY <3>2 DEF PhaseLeft
  <2>2. ASSUME Start PROVE Moved(run') /\ PhaseLeft(run') < PhaseLeft(run)
    <3>1. Moved(run') /\ run'.phase = "supervised" /\ run.phase = "opening"
      BY <1>1, <2>2 DEF Start, Sessions
    <3> QED
      BY <3>1 DEF PhaseLeft
  <2>3. ASSUME Return PROVE Moved(run') /\ PhaseLeft(run') < PhaseLeft(run)
    <3>1. outcome(run) \in Kinds \cup {"none"}
      BY <1>1 DEF outcome, Sessions, Kinds
    <3>2. Moved(run') /\ run'.phase = "returned" /\ run.phase = "supervised"
      BY <1>1, <2>3, <3>1 DEF Return, Sessions, Supervised
    <3> QED
      BY <3>2 DEF PhaseLeft
  <2>4. Moved(run') /\ PhaseLeft(run') < PhaseLeft(run)
    BY <1>3, <2>1, <2>2, <2>3
  <2>5. /\ DrainLeft(run') = DrainLeft(run) /\ Count(run'.waited = "awaited") = Count(run.waited = "awaited")
        /\ Count(run'.reading) = Count(run.reading) /\ Count(~ run'.canceled) = Count(~ run.canceled)
    BY <2>4 DEF DrainLeft, Count
  <2>6. /\ SessionLeft(run) = PhaseLeft(run) + DrainLeft(run) + Count(run.waited = "awaited")
                              + Count(run.reading) + Count(~ run.canceled)
        /\ SessionLeft(run') = PhaseLeft(run') + DrainLeft(run') + Count(run'.waited = "awaited")
                               + Count(run'.reading) + Count(~ run'.canceled)
    BY DEF SessionLeft
  <2>7. SessionLeft(run') \in Nat /\ SessionLeft(run') < SessionLeft(run)
    BY <1>1, <2>4, <2>5, <2>6, LeftFact
  <2>8. UNCHANGED <<judge, done, reader, taken>>
    BY <1>3 DEF Refuse, Start, Return
  <2> QED
    BY <1>1, <2>7, <2>8, SessionShrinks
<1>4. CASE Deadline
  <2>1. SessionLeft(run') = SessionLeft(run) /\ ~ done /\ done' /\ UNCHANGED <<judge, reader, taken>>
    BY <1>4 DEF Deadline
  <2> QED
    BY <1>1, <2>1, SessionShrinks
<1>5. ASSUME NEW kept, Receive(kept) PROVE Remaining' < Remaining
  <2>1. Onward(run, run') /\ judge'.of = judge.of
    BY <1>5, ReceiveOnward
  <2>2. SessionLeft(run') \in Nat /\ SessionLeft(run') <= SessionLeft(run)
    BY <1>1, <2>1, OnwardLeft
  <2>3. UNCHANGED <<done, reader>> /\ taken' = taken + 1
    BY <1>5 DEF Receive
  <2>4. MaxRecords' = MaxRecords
    BY <2>1 DEF MaxRecords, Lifecycle
  <2>5. Remaining' = SessionLeft(run') + Count(~ done) + Count(reader.state = "reading")
                     + (MaxRecords - reader.read) + (MaxRecords - (taken + 1))
    BY <2>3, <2>4 DEF Remaining, SessionLeft, PhaseLeft, DrainLeft
  <2> QED
    BY <1>1, <2>2, <2>5, RemainingFact DEF Remaining
<1>6. CASE Read
  <2>1. UNCHANGED <<run, judge, done, taken>>
    BY <1>6 DEF Read
  <2>2. MaxRecords' = MaxRecords
    BY <2>1 DEF MaxRecords, Lifecycle
  <2>3. \/ reader' = [reader EXCEPT !.read = @ + 1]
        \/ reader.state = "reading" /\ reader' \in {[reader EXCEPT !.state = s] : s \in {"refused", "ended", "closed"}}
    BY <1>6 DEF Read
  <2>4. \/ reader'.read = reader.read + 1 /\ reader'.state = reader.state
        \/ reader'.read = reader.read /\ reader.state = "reading" /\ reader'.state # "reading"
    BY <2>3, RemainingFact
  <2>5. Remaining' = SessionLeft(run) + Count(~ done) + Count(reader'.state = "reading")
                     + (MaxRecords - reader'.read) + (MaxRecords - taken)
    BY <2>1, <2>2 DEF Remaining
  <2>6. CASE reader'.read = reader.read + 1 /\ reader'.state = reader.state
    BY <2>5, <2>6, RemainingFact DEF Remaining
  <2>7. CASE reader'.read = reader.read /\ reader.state = "reading" /\ reader'.state # "reading"
    <3>1. Count(reader.state = "reading") = 1 /\ Count(reader'.state = "reading") = 0
      BY <2>7 DEF Count
    <3> QED
      BY <2>5, <2>7, <3>1, RemainingFact DEF Remaining
  <2> QED
    BY <2>4, <2>6, <2>7
<1> QED
  BY <1>2, <1>3, <1>4, <1>5, <1>6 DEF RunStep, SessionNext

\* A run takes at most two steps of its own for every record its adapter may
\* write, and nine more: each of them leaves less to be done, and nothing the
\* adapter, its playbook or its workers do gives the run more to do.  With a
\* step of its own always ready, the run returns once its steps are taken
\* (arm, WaitDelay, the deadline).
THEOREM StepsCountDown ==
  Spec => /\ []RemainingBounded
          /\ [][/\ RunStep => Remaining' < Remaining
                /\ AdapterNext => Remaining' = Remaining]_vars
<1>1. IInv => RemainingBounded
  BY RemainingFact
<1>2. IInv => [/\ RunStep => Remaining' < Remaining
               /\ AdapterNext => Remaining' = Remaining]_vars
  <2>1. AdapterNext => UNCHANGED <<run, judge, done, reader, taken>>
    BY DEF AdapterNext, Write, Proceed, Act, Fork, WorkersEnd, PlaybookEnds, SupervisorEnds, SupervisorKilled,
           Terminate, Orphaned
  <2>2. AdapterNext => Remaining' = Remaining
    BY <2>1 DEF Remaining, SessionLeft, PhaseLeft, DrainLeft, MaxRecords, Lifecycle
  <2> QED
    BY <2>2, RunStepShrinks
<1> QED
  BY <1>1, <1>2, Invariance, PTL
=============================================================================
