----------------------------- MODULE AdapterRun -----------------------------
(***************************************************************************)
(* One adapter process and the session that supervises it                  *)
(* (internal/adapterprotocol), under either of the two judges that read    *)
(* its protocol: the lifecycle runner's and the controller stage's.        *)
(*                                                                         *)
(* The session's select takes whichever of four things is ready: the       *)
(* context's end, the drain timer, the reaped adapter and the next record. *)
(* A record written before the adapter's exit may be taken after it, an    *)
(* acknowledgement may find no reader, and a descendant may keep the       *)
(* result channel or the adapter's output long after the adapter is gone.  *)
(*                                                                         *)
(* The adapter (external) is its supervisor and the playbook it forks. The *)
(* playbook writes any records its decoder knows, waits for `proceed'      *)
(* after each one that asks for it, and carries out its effect only when   *)
(* the record that precedes the effect was acknowledged. Everything else   *)
(* of it is free: it crashes, exits, forks workers and is killed at will.  *)
(***************************************************************************)
EXTENDS Integers, FiniteSets, Sequences, SequencesExt

CONSTANTS Tools,        \* the tools of a controller request
          MaxExtra,     \* bound: lines beyond those of a whole protocol
          MaxStrays,    \* bound: lines out of place, after the first of them
          MaxFaults     \* bound: kills of the supervisor, workers it leaves, failed writes

ASSUME BoundAssumption == Tools \in Nat \ {0} /\ MaxExtra \in Nat /\ MaxStrays \in Nat /\ MaxFaults \in Nat

Kinds == {"Completed", "Canceled", "Invalid", "Incomplete", "Named", "FailedExit", "Retained",
          "RetainedOutput", "Uncertain", "NoResult", "ResultChannel", "AuthorizationChannel",
          "NotStarted", "Aborted"}

VARIABLES
    run,        \* the session
    judge,      \* which runner's judge it is, and its reading so far
    done,       \* the context has ended: canceled or past its deadline
    adapter,    \* the supervisor: not started, running, terminating, or its exit
    playbook,   \* the playbook: working, waiting for proceed, failing, or its exit
    held,       \* what workers hold: the result channel, the adapter's output
    proceeds,   \* acknowledgements written and not yet read
    granted,    \* the playbook read the acknowledgement of its effect's record
    effect,     \* the adapter carried its effect out
    written,    \* every line written to the result channel
    reader,     \* the reading goroutine: how many lines it read, and how it stands
    taken,      \* how many records the session took
    faults      \* faults so far

procs == <<adapter, playbook, held, granted, effect, written>>
vars == <<run, judge, done, adapter, playbook, held, proceeds, granted, effect, written, reader, taken, faults>>

(* A lifecycle run that no preparation is recorded for is "unprepared": one  *)
(* that only reads, or whose request offers nowhere to record it.            *)
Runners == {"lifecycle", "unprepared", "controller"}

Lifecycle == judge.of # "controller"

(* What a line of the result channel is to the decoder: a record of a phase  *)
(* the runner admits, or "unreadable". A refusal with a remedy is "refused"; *)
(* one without is "internal", which no lifecycle request names.              *)
Phases == IF Lifecycle
            THEN {"loaded", "group", "prepared", "completed", "refused", "internal"}
            ELSE {"loaded", "prepared", "continue", "completed", "refused", "internal"}
Lines == Phases \cup {"unreadable"}

(* The records whose writer waits for `proceed'. *)
Waits == {"loaded", "prepared", "continue"}

(* The record whose acknowledgement lets the adapter carry out its effect. *)
EffectRecord == IF Lifecycle THEN "prepared" ELSE "continue"

(* The lines of a whole protocol, with one group record, and the extra ones. *)
MaxRecords == MaxExtra + (IF Lifecycle THEN 4 ELSE 3 + Tools)

Exits == {"zero", "failed"}

TypeOK ==
    /\ run \in [kind: Kinds \cup {"none"}, ended: BOOLEAN, exited: BOOLEAN, undelivered: BOOLEAN,
                canceled: BOOLEAN, completed: BOOLEAN, stopping: BOOLEAN, groupKilled: BOOLEAN,
                drain: {"off", "armed", "passed"}, waited: {"awaited", "reaped", "cut"},
                reading: BOOLEAN, input: BOOLEAN, phase: {"opening", "supervised", "returned"}]
    /\ judge \in [of: Runners, loaded: BOOLEAN, prepared: BOOLEAN,
                  completed: BOOLEAN, refused: BOOLEAN, published: BOOLEAN, unpublished: BOOLEAN, continuations: 0..Tools,
                  effectRequested: BOOLEAN, effectAuthorized: BOOLEAN]
    /\ done \in BOOLEAN
    /\ adapter \in {"none", "running", "terminating"} \cup Exits
    /\ playbook \in {"none", "working", "waiting", "failing"} \cup Exits
    /\ held \subseteq {"channel", "output"}
    /\ proceeds \in 0..1 /\ granted \in BOOLEAN /\ effect \in BOOLEAN
    /\ written \in Seq(Lines) /\ Len(written) <= MaxRecords
    /\ reader \in [read: 0..MaxRecords, state: {"reading", "ended", "refused", "closed"}]
    /\ taken \in 0..reader.read
    /\ faults \in 0..MaxFaults

Init ==
    /\ run = [kind |-> "none", ended |-> FALSE, exited |-> FALSE, undelivered |-> FALSE,
              canceled |-> FALSE, completed |-> FALSE, stopping |-> FALSE, groupKilled |-> FALSE,
              drain |-> "off", waited |-> "awaited", reading |-> TRUE, input |-> TRUE,
              phase |-> "opening"]
    /\ judge \in {[of |-> runner, loaded |-> FALSE, prepared |-> FALSE, completed |-> FALSE,
                   refused |-> FALSE, published |-> FALSE, unpublished |-> FALSE,
                   continuations |-> 0, effectRequested |-> FALSE, effectAuthorized |-> FALSE]
                      : runner \in Runners}
    /\ done = FALSE /\ adapter = "none" /\ playbook = "none" /\ held = {}
    /\ proceeds = 0 /\ granted = FALSE /\ effect = FALSE /\ written = <<>>
    /\ reader = [read |-> 0, state |-> "reading"] /\ taken = 0 /\ faults = 0

(* What the lines alone say of the run, however the session met them. *)

Before(lines, i) == {lines[k] : k \in 1..(i - 1)}

(* The line stands where its protocol allows it. *)
InPlace(lines, i) ==
    LET line == lines[i]
        continued == Cardinality({k \in 1..(i - 1) : lines[k] = "continue"})
    IN  /\ line # "unreadable"
        /\ Before(lines, i) \cap {"completed", "internal"} = {}
        /\ (line = "loaded") = ("loaded" \notin Before(lines, i))
        /\ line = "prepared" => judge.of # "unprepared" /\ "prepared" \notin Before(lines, i)
        /\ line = "continue" => "prepared" \in Before(lines, i) /\ continued < Tools
        /\ ~Lifecycle /\ line = "completed" => "prepared" \in Before(lines, i) /\ continued = Tools
        /\ ~Lifecycle /\ line = "refused" => continued > 0
        /\ Lifecycle => line # "internal"

(* The lines that end the protocol, and those after it has ended. *)
Breaking(lines) == {i \in DOMAIN lines : ~InPlace(lines, i) \/ lines[i] = "refused"}

AdapterRuns == adapter \in {"running", "terminating"}
PlaybookRuns == playbook \in {"working", "waiting", "failing"}

(* Some process holds the result channel, and with it the acknowledgement's. *)
ChannelHeld == AdapterRuns \/ PlaybookRuns \/ "channel" \in held
OutputHeld == PlaybookRuns \/ "output" \in held

Supervised == run.phase = "supervised"
Returned == run.phase = "returned"

(* The runner's ends of both channels. *)
ChannelOpen == Supervised /\ run.drain /= "passed"
InputOpen == Supervised /\ run.input

-----------------------------------------------------------------------------
(* The session's own steps (process_linux_amd64.go), as functions of it. *)

end(s, kind) == [s EXCEPT !.ended = TRUE, !.kind = kind]

arm(s) == IF s.drain = "off" THEN [s EXCEPT !.drain = "armed"] ELSE s

killGroup(s) == IF s.stopping THEN [s EXCEPT !.groupKilled = TRUE] ELSE s

stopUnreaped(s) == IF s.stopping THEN [s EXCEPT !.input = FALSE]
                   ELSE arm([s EXCEPT !.input = FALSE, !.stopping = TRUE])

stopUnarmed(s) == [s EXCEPT !.input = FALSE, !.stopping = TRUE]

(* A group already reaped is killed at once, any other with its adapter. *)
stop(s) ==
    LET closed == [s EXCEPT !.input = FALSE]
        armed == arm([closed EXCEPT !.stopping = TRUE])
    IN  IF s.stopping THEN closed
        ELSE IF s.waited = "awaited" THEN armed ELSE killGroup(armed)

breach(s) == IF Lifecycle THEN stop(s) ELSE [s EXCEPT !.input = FALSE]

(* Neither judge spares its tree on cancellation. *)
cancel(s) == IF s.canceled THEN s ELSE stop([s EXCEPT !.canceled = TRUE])

drained(s) ==
    LET killed == killGroup([s EXCEPT !.drain = "passed"])
    IN  IF s.ended THEN killed ELSE end(killed, "Retained")

reapedUncut(s, cut, exit) ==
    LET armed == arm(killGroup([s EXCEPT !.waited = IF cut THEN "cut" ELSE "reaped"]))
    IN  IF ~s.ended /\ exit = "failed" THEN [end(armed, "FailedExit") EXCEPT !.exited = TRUE] ELSE armed

(* cut: a descendant held the adapter's output past the wait's delay, which *)
(* Wait reports only for a zero exit.                                       *)
reaped(s, cut, exit) ==
    LET armed == arm(killGroup([s EXCEPT !.waited = IF cut THEN "cut" ELSE "reaped"]))
    IN  CASE s.ended -> armed
          [] ~s.ended /\ exit = "failed" -> [end(armed, "FailedExit") EXCEPT !.exited = TRUE]
          [] ~s.ended /\ exit = "zero" /\ cut -> end(armed, "RetainedOutput")
          [] OTHER -> armed

readEndedAfter(s, how) ==
    LET unread == [s EXCEPT !.reading = FALSE]
    IN  CASE how = "ended" -> unread
          [] how # "ended" /\ ~s.ended -> breach(end(unread, "Incomplete"))
          [] OTHER -> breach(unread)

(* how: the read ended at the channel's end, on a line the decoder refused, *)
(* or because the drain closed the channel.                                 *)
readEnded(s, how) ==
    LET unread == [s EXCEPT !.reading = FALSE]
        incomplete == [end(unread, "Incomplete") EXCEPT !.exited = FALSE]
    IN  CASE how = "ended" -> unread
          [] how # "ended" /\ (~s.ended \/ (s.exited /\ how # "closed")) -> breach(incomplete)
          [] OTHER -> breach(unread)

outcome(s) ==
    CASE s.canceled -> "Canceled"
      [] ~s.canceled /\ s.ended -> s.kind
      [] ~s.canceled /\ ~s.ended /\ (~s.completed \/ s.undelivered) -> "NoResult"
      [] OTHER -> "Completed"

-----------------------------------------------------------------------------
(* The judges. A judgement is the verdict and what the judge has read by     *)
(* then. `kept' is whether the caller recorded the preparation, asked only   *)
(* for a valid one whose adapter is still there.                             *)

LifecyclePlace(j, record) ==
    CASE record = "loaded" -> ~j.loaded
      [] record = "prepared" -> j.loaded /\ ~j.prepared /\ j.of # "unprepared"
      [] record = "internal" -> FALSE
      [] OTHER -> j.loaded

lifecycleJudgeAll(j, record, open, exited, kept) ==
    LET valid == ~j.completed /\ open /\ LifecyclePlace(j, record)
        asked == record = "prepared" /\ valid /\ ~exited
    IN  [valid |-> valid, failure |-> (asked /\ ~kept) \/ (record = "refused" /\ valid),
         acknowledge |-> valid /\ (asked => kept),
         judge |-> [j EXCEPT
            !.loaded = IF record = "loaded" THEN valid ELSE @,
            !.prepared = @ \/ (record = "prepared" /\ valid),
            !.published = @ \/ (asked /\ kept),
            !.unpublished = @ \/ (asked /\ ~kept),
            !.completed = @ \/ (record = "completed" /\ valid)]]

lifecycleJudge(j, record, open, exited, kept) ==
    LET valid == ~j.completed /\ open /\ LifecyclePlace(j, record)
        asked == record = "prepared" /\ valid /\ ~exited
    IN  [valid |-> valid,
         failure |-> (asked /\ ~kept) \/ (record = "refused" /\ valid),
         acknowledge |-> record = "loaded" \/ (record = "prepared" /\ valid /\ (asked => kept)),
         judge |-> [j EXCEPT
            !.loaded = IF record = "loaded" THEN valid ELSE @,
            !.prepared = @ \/ (record = "prepared" /\ valid),
            !.published = @ \/ (asked /\ kept),
            !.unpublished = @ \/ (asked /\ ~kept),
            !.completed = @ \/ (record = "completed" /\ valid)]]

ControllerPlace(j, record) ==
    CASE record = "loaded" -> ~j.loaded
      [] record = "prepared" -> j.loaded /\ ~j.prepared
      [] record = "continue" -> j.loaded /\ j.prepared /\ j.continuations < Tools
      [] record = "completed" -> j.loaded /\ j.prepared /\ j.continuations = Tools
      [] record = "refused" -> j.loaded /\ j.continuations > 0
      [] record = "internal" -> j.loaded

controllerJudge(j, record, open, exited, kept) ==
    LET valid == ~j.completed /\ ~j.refused /\ open /\ ControllerPlace(j, record)
        asked == record = "prepared" /\ valid /\ ~exited
        continued == record = "continue" /\ valid
    IN  [valid |-> valid,
         failure |-> (asked /\ ~kept) \/ (record = "refused" /\ valid),
         acknowledge |-> record \in Waits,
         judge |-> [j EXCEPT
            !.loaded = IF record = "loaded" THEN valid ELSE @,
            !.prepared = @ \/ (record = "prepared" /\ valid /\ (exited \/ kept)),
            !.published = @ \/ (asked /\ kept),
            !.unpublished = @ \/ (asked /\ ~kept),
            !.continuations = IF continued THEN @ + 1 ELSE @,
            !.completed = @ \/ (record = "completed" /\ valid),
            !.refused = @ \/ (record = "internal" /\ valid),
            !.effectRequested = @ \/ (continued /\ ~exited)]]

Judge(j, record, open, exited, kept) ==
    IF Lifecycle THEN lifecycleJudge(j, record, open, exited, kept)
                 ELSE controllerJudge(j, record, open, exited, kept)

(* What a record the judge ruled on does to the session. *)
judged(s, record, verdict) ==
    LET invalid == IF ~s.ended \/ s.exited THEN end(s, "Invalid") ELSE s
    IN  CASE ~verdict.valid -> [invalid EXCEPT !.exited = FALSE]
          [] verdict.valid /\ verdict.failure -> [end(s, "Named") EXCEPT !.exited = FALSE]
          [] verdict.valid /\ ~verdict.failure /\ record = "completed" -> [s EXCEPT !.completed = TRUE]
          [] OTHER -> s

unauthorizedHidden(kind) ==
    LET uncertain == judge.effectRequested /\ kind = "Uncertain"
    IN  judge.published /\ ~judge.effectAuthorized /\ ~uncertain

(* A controller run that failed before any acknowledgement of an effect was *)
(* delivered, so far as the session can prove.                              *)
unauthorized(kind) ==
    LET uncertain == judge.effectRequested /\ kind \in {"Uncertain", "Canceled"}
    IN  judge.published /\ ~judge.effectAuthorized /\ ~uncertain

(* What the controller stage records of the run: the effect completed, none *)
(* happened, or nobody knows.                                               *)
controllerOutcome(kind) ==
    CASE kind = "Completed" -> "completed"
      [] kind \in {"Aborted", "ResultChannel", "AuthorizationChannel", "NotStarted"} -> "failed"
      [] kind = "Canceled" -> IF unauthorized(kind) THEN "failed" ELSE "unknown"
      [] OTHER -> IF ~unauthorized(kind) /\ judge.published THEN "unknown" ELSE "failed"

-----------------------------------------------------------------------------
(* The signals a step of the session sends. The supervisor ends its tree on  *)
(* the first; the second ends the supervisor's group, never a worker in a    *)
(* session of its own.                                                       *)
Signal(t) ==
    LET killed == t.groupKilled /\ ~run.groupKilled
        signalled == t.stopping /\ ~run.stopping
    IN  /\ adapter' = IF AdapterRuns /\ killed THEN "failed"
                      ELSE IF adapter = "running" /\ signalled THEN "terminating" ELSE adapter
        /\ playbook' = IF PlaybookRuns /\ killed THEN "failed" ELSE playbook
        /\ UNCHANGED <<held, granted, effect, written>>

Session(t) == run' = t /\ Signal(t)

(* Run opens both channels, asks its caller and starts the adapter. *)
Refuse ==
    /\ run.phase = "opening"
    /\ \E kind \in {"ResultChannel", "AuthorizationChannel", "Aborted", "NotStarted"} :
          /\ kind = "Aborted" => ~Lifecycle
          /\ run' = [end(run, kind) EXCEPT !.phase = "returned"]
    /\ UNCHANGED <<judge, done, procs, proceeds, reader, taken, faults>>

Start ==
    /\ run.phase = "opening"
    /\ run' = [run EXCEPT !.phase = "supervised"]
    /\ adapter' = "running" /\ playbook' = "working"
    /\ UNCHANGED <<judge, done, held, granted, effect, written, proceeds, reader, taken, faults>>

Cancelled ==
    /\ Supervised /\ done /\ ~run.canceled
    /\ Session(cancel(run))
    /\ UNCHANGED <<judge, done, proceeds, reader, taken, faults>>

Drained ==
    /\ Supervised /\ run.drain = "armed"
    /\ Session(drained(run))
    /\ UNCHANGED <<judge, done, proceeds, reader, taken, faults>>

(* Wait returns once the adapter exited and its output ended, or was cut. *)
Reaped ==
    /\ Supervised /\ run.waited = "awaited" /\ adapter \in Exits
    /\ Session(reaped(run, OutputHeld, adapter))
    /\ UNCHANGED <<judge, done, proceeds, reader, taken, faults>>

ReadEnded ==
    /\ Supervised /\ run.reading
    /\ reader.state # "reading" /\ taken = reader.read
    /\ Session(readEnded(run, reader.state))
    /\ UNCHANGED <<judge, done, proceeds, reader, taken, faults>>

(* The write of an acknowledgement, as far as it got: it is delivered to     *)
(* whoever holds the channel, it finds no one, or it fails and may have      *)
(* arrived all the same.                                                     *)
acknowledged(s, j, record) ==
    \/ /\ ChannelHeld
       /\ Session(s)
       /\ proceeds' = proceeds + 1
       /\ judge' = [j EXCEPT !.effectAuthorized = @ \/ record = "continue"]
       /\ UNCHANGED faults
    \/ /\ ~ChannelHeld
       /\ Session(breach([s EXCEPT !.undelivered = TRUE]))
       /\ judge' = j
       /\ UNCHANGED <<proceeds, faults>>
    \/ /\ faults < MaxFaults /\ faults' = faults + 1
       /\ Session(end(s, "Uncertain"))
       /\ proceeds' \in {proceeds, proceeds + 1}
       /\ judge' = j

(* A context that ends during the judgement is seen before the write. *)
Receive(kept) ==
    /\ Supervised /\ run.reading /\ taken < reader.read
    /\ LET record == written[taken + 1]
           verdict == Judge(judge, record, (~run.ended \/ run.exited) /\ ~run.canceled,
                            run.exited \/ run.undelivered, kept)
           ruled == judged(run, record, verdict)
           seen == IF done THEN cancel(ruled) ELSE ruled
       IN  /\ ~kept => record = "prepared"
           /\ taken' = taken + 1
           /\ \/ /\ verdict.valid /\ record \in {"refused", "internal"}
                 /\ Session([seen EXCEPT !.input = FALSE])
                 /\ judge' = verdict.judge
                 /\ UNCHANGED <<proceeds, faults>>
              \/ /\ ~(verdict.valid /\ record \in {"refused", "internal"})
                 /\ seen.ended \/ seen.canceled \/ seen.undelivered
                 /\ Session(breach(seen))
                 /\ judge' = verdict.judge
                 /\ UNCHANGED <<proceeds, faults>>
              \/ /\ ~(verdict.valid /\ record \in {"refused", "internal"})
                 /\ ~(seen.ended \/ seen.canceled \/ seen.undelivered)
                 /\ IF verdict.acknowledge THEN acknowledged(seen, verdict.judge, record)
                    ELSE /\ Session(seen)
                         /\ judge' = verdict.judge
                         /\ UNCHANGED <<proceeds, faults>>
    /\ UNCHANGED <<done, reader>>

Return ==
    /\ Supervised /\ ~run.reading /\ run.waited # "awaited"
    /\ run' = [run EXCEPT !.phase = "returned", !.kind = outcome(run)]
    /\ UNCHANGED <<judge, done, procs, proceeds, reader, taken, faults>>

(* The reading goroutine. *)
Read ==
    /\ run.phase # "opening" /\ reader.state = "reading"
    /\ \/ /\ ChannelOpen /\ reader.read < Len(written)
          /\ reader' = IF written[reader.read + 1] = "unreadable" THEN [reader EXCEPT !.state = "refused"]
                       ELSE [reader EXCEPT !.read = @ + 1]
       \/ /\ ChannelOpen /\ reader.read = Len(written) /\ ~ChannelHeld
          /\ reader' = [reader EXCEPT !.state = "ended"]
       \/ /\ ~ChannelOpen
          /\ reader' = [reader EXCEPT !.state = "closed"]
    /\ UNCHANGED <<run, judge, done, procs, proceeds, taken, faults>>

-----------------------------------------------------------------------------
(* The adapter's processes, and the context. *)

Deadline ==
    /\ Supervised /\ ~done
    /\ done' = TRUE
    /\ UNCHANGED <<run, judge, procs, proceeds, reader, taken, faults>>

(* A playbook on its way out may still name its refusal. *)
Write ==
    /\ Len(written) < MaxRecords
    /\ \E line \in Lines :
          /\ \/ playbook = "working"
             \/ playbook = "failing" /\ line \in {"refused", "internal"}
          /\ Cardinality(Breaking(Append(written, line))) <= MaxStrays + 1
          /\ written' = IF ChannelOpen THEN Append(written, line) ELSE written
          /\ playbook' = CASE line \notin Waits -> playbook
                           [] line \in Waits /\ ChannelOpen -> "waiting"
                           [] OTHER -> "failing"
    /\ UNCHANGED <<run, judge, done, adapter, held, proceeds, granted, effect, reader, taken, faults>>

Proceed ==
    /\ playbook = "waiting"
    /\ \/ /\ proceeds > 0
          /\ proceeds' = proceeds - 1 /\ playbook' = "working"
          /\ granted' = (Last(written) = EffectRecord)
       \/ /\ proceeds = 0 /\ ~InputOpen
          /\ playbook' = "failing"
          /\ UNCHANGED <<proceeds, granted>>
    /\ UNCHANGED <<run, judge, done, adapter, held, effect, written, reader, taken, faults>>

Act ==
    /\ playbook = "working" /\ granted /\ ~effect
    /\ effect' = TRUE
    /\ UNCHANGED <<run, judge, done, adapter, playbook, held, granted, proceeds, written, reader, taken, faults>>

Fork ==
    /\ playbook = "working" /\ held = {}
    /\ held' \in {{"channel"}, {"output"}, {"channel", "output"}}
    /\ UNCHANGED <<run, judge, done, adapter, playbook, granted, effect, proceeds, written, reader, taken, faults>>

WorkersEnd ==
    /\ held # {}
    /\ held' = {}
    /\ UNCHANGED <<run, judge, done, adapter, playbook, granted, effect, proceeds, written, reader, taken, faults>>

PlaybookEnds ==
    /\ PlaybookRuns
    /\ \/ playbook' = "failed"
       \/ playbook = "working" /\ playbook' = "zero"
    /\ UNCHANGED <<run, judge, done, adapter, held, granted, effect, proceeds, written, reader, taken, faults>>

(* The supervisor takes its playbook's status and waits for every worker. *)
SupervisorEnds ==
    /\ adapter = "running" /\ playbook \in Exits
    /\ adapter' = playbook
    /\ \/ held = {} /\ UNCHANGED faults
       \/ held # {} /\ faults < MaxFaults /\ faults' = faults + 1
    /\ UNCHANGED <<run, judge, done, playbook, held, granted, effect, proceeds, written, reader, taken>>

SupervisorKilled ==
    /\ AdapterRuns /\ faults < MaxFaults
    /\ adapter' = "failed" /\ faults' = faults + 1
    /\ UNCHANGED <<run, judge, done, playbook, held, granted, effect, proceeds, written, reader, taken>>

(* A signalled supervisor ends its tree, and then itself. *)
Terminate ==
    /\ adapter = "terminating"
    /\ adapter' = "failed" /\ held' = {}
    /\ playbook' = IF PlaybookRuns THEN "failed" ELSE playbook
    /\ UNCHANGED <<run, judge, done, granted, effect, proceeds, written, reader, taken, faults>>

(* A lifecycle playbook whose supervisor is gone ends its workers and itself. *)
Orphaned ==
    /\ Lifecycle /\ adapter \in Exits /\ PlaybookRuns
    /\ playbook' = "failed" /\ held' = {}
    /\ UNCHANGED <<run, judge, done, adapter, granted, effect, proceeds, written, reader, taken, faults>>

-----------------------------------------------------------------------------
SessionNext == Cancelled \/ Drained \/ Reaped \/ ReadEnded \/ Return \/ \E kept \in BOOLEAN : Receive(kept)

AdapterNext == Write \/ Proceed \/ Act \/ Fork \/ WorkersEnd \/ PlaybookEnds
               \/ SupervisorEnds \/ SupervisorKilled \/ Terminate \/ Orphaned

Next == Refuse \/ Start \/ SessionNext \/ Read \/ Deadline \/ AdapterNext

Spec == Init /\ [][Next]_vars

-----------------------------------------------------------------------------
First == CHOOSE i \in Breaking(written) : \A k \in Breaking(written) : i <= k

ReferenceKind ==
    IF Breaking(written) # {}
      THEN CASE written[First] = "unreadable" -> "Incomplete"
             [] InPlace(written, First) -> "Named"
             [] OTHER -> "Invalid"
      ELSE IF adapter = "failed" THEN "FailedExit"
      ELSE IF "completed" \in Range(written) THEN "Completed" ELSE "NoResult"

(* A record written before the adapter's exit counts as if it had been read  *)
(* first: unless the run was canceled, a timer cut the adapter's channels, a *)
(* write failed or the caller refused the preparation, the run ends as its   *)
(* lines and the exit say, whichever of them the session happened to take    *)
(* first (session.exited, receive, readEnded, acknowledge).                  *)
WhicheverReadFirst ==
    /\ Returned /\ adapter # "none"
    /\ ~run.canceled /\ run.drain # "passed" /\ run.waited # "cut"
    /\ run.kind # "Uncertain" /\ ~judge.unpublished
    => run.kind = ReferenceKind

(* A completed run left nothing behind: its adapter exited zero, the whole   *)
(* tree let the channel and the output go, the playbook ended of itself, and *)
(* its lines are one whole protocol (outcome, reaped, drained).              *)
CompletedProved ==
    Returned /\ run.kind = "Completed" =>
        /\ adapter = "zero" /\ playbook = "zero"
        /\ held = {} /\ run.waited = "reaped"
        /\ Breaking(written) = {} /\ "completed" \in Range(written)
        /\ reader.state = "ended"

(* No effect runs that its preparation was not recorded for, whatever the   *)
(* deaths, late reads and lost acknowledgements (Judge, acknowledge).       *)
EffectPrepared == effect => judge.published

(* A controller run recorded as failed changed nothing, and nothing it left *)
(* running ever will: a kept preparation is replaced by the next run.       *)
FailedUntouched ==
    ~Lifecycle /\ Returned /\ controllerOutcome(run.kind) = "failed" => ~effect

(* A run that set out to stop its adapter returns only once the supervisor  *)
(* and the playbook are gone, whichever of the reap and the drain came      *)
(* first, and in whatever order they met the stop (stop, killGroup).        *)
StoppedEnded == Returned /\ run.stopping => adapter \in Exits /\ playbook \in Exits

(* A run returns whatever its adapter's processes do, though workers hold   *)
(* everything and the adapter ignores every signal but a kill: until it has, *)
(* the session or its reader has a step of its own to take, and each of them *)
(* is taken once per run or once per record (arm, WaitDelay, the deadline).  *)
NeverStuck == ~Returned => ENABLED (Refuse \/ Start \/ SessionNext \/ Read \/ Deadline)
=============================================================================
