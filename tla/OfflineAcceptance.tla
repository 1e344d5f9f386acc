------------------------- MODULE OfflineAcceptance -------------------------
(***************************************************************************)
(* scripts/run_fp001d_offline.ps1: the one authorised offline acceptance   *)
(* run of a preserved runtime.  The operator's script runs the stages      *)
(* (bootstrap, venv, install, dependency check, inference) while a         *)
(* background job samples the network into network.jsonl; then             *)
(* collect_runtime_evidence.py judges the log, verify_runtime_preservation *)
(* reproduces the judgement, and the script records its verdict.  The      *)
(* script may fail anywhere or be killed, the job may hang, die or outlive *)
(* the wait for it, and the network may come up at any time.               *)
(*                                                                         *)
(* Time is kept as ages that stop growing once they are past every bound   *)
(* they are compared with.                                                 *)
(***************************************************************************)
EXTENDS Integers

CONSTANTS None,
          Stages,      \* how many stages the script executes
          Gap,         \* the longest accepted time between two samples
          Limit,       \* the script's bound on the whole execution
          MaxDelay     \* bound: time from a sample's timestamp to its row

MaxAge == Gap + MaxDelay + 1
SampleRecords == [isolated : BOOLEAN, stamped : BOOLEAN, age : 0..MaxDelay, late : BOOLEAN]
LogRecords == [rows : 0..2, sound : BOOLEAN, age : 0..MaxAge, covers : BOOLEAN,
               matched : BOOLEAN]
FileRecords == [run : BOOLEAN, interpreter : BOOLEAN, evidence : BOOLEAN]
SeenRecords == [bootstraps : Nat, up : 0..(2 * Gap + 1), exposed : BOOLEAN, lingered : BOOLEAN]
Verdicts == {"BLOCKED", "FAILED", "PASSED"}

ASSUME OfflineAssumption ==
    /\ Stages \in Nat \ {0} /\ Gap \in Nat \ {0}
    /\ Limit \in Nat /\ MaxDelay \in Nat
    /\ None \notin SampleRecords \union Verdicts

Samplers == {"script", "monitor"}

VARIABLES
    connected,   \* is the network up?
    netlog,      \* network.jsonl: rows (0, 1 or 2, for more), sound, age of the last row's
                 \* timestamp, covers: that timestamp is not before $Ended, matched: as it
                 \* was when run.json recorded its digest
    violation,   \* does network-violation.txt exist?
    stop,        \* does stop-monitor.txt exist?
    sample,      \* sample[x]: the snapshot x is taking, or None
    watch,       \* the background job: none, running or stopped
    script,      \* how far the script is
    stage,       \* the stage it executes next, or executes
    process,     \* that stage's process: none, running, or its exit code
    watching,    \* does the script still hold the job ($Watch)?
    status,      \* $FinalStatus
    files,       \* what the run has left: the run directory, the interpreter, run.json
    result,      \* operator-result.json
    elapsed,     \* time since $ExecutionStarted
    seen         \* auxiliary: bootstraps started; up: how long the network has been up
                 \* within the execution; exposed: it was up for more than 2 * Gap;
                 \* lingered: the job was still running when the script gave it up

network == <<connected, netlog, violation, stop, sample, watch>>
operator == <<script, stage, process, watching, status, files, result, elapsed>>
vars == <<network, operator, seen>>

Capped(n, max) == IF n < max THEN n + 1 ELSE max

Init == /\ connected \in BOOLEAN
        /\ netlog = [rows |-> 0, sound |-> TRUE, age |-> 0, covers |-> FALSE,
                     matched |-> FALSE]
        /\ violation = FALSE /\ stop = FALSE
        /\ sample = [x \in Samplers |-> None]
        /\ watch = "none"
        /\ script = "idle" /\ stage = 0 /\ process = "none" /\ watching = FALSE
        /\ status = "BLOCKED"
        /\ files = [run |-> FALSE, interpreter |-> FALSE, evidence |-> FALSE]
        /\ result = None
        /\ elapsed = 0
        /\ seen = [bootstraps |-> 0, up |-> 0, exposed |-> FALSE, lingered |-> FALSE]

-----------------------------------------------------------------------------
(* Get-Fp001dNetworkSnapshot and its row: read the adapters and routes,     *)
(* take the time, append.                                                   *)

Read(x) == /\ sample[x] = None
           /\ sample' = [sample EXCEPT ![x] =
                           [isolated |-> ~connected, stamped |-> FALSE, age |-> 0, late |-> FALSE]]
           /\ UNCHANGED <<connected, netlog, violation, stop, watch>>

Stamp(x) == /\ sample[x] # None /\ ~sample[x].stamped
            /\ sample' = [sample EXCEPT ![x].stamped = TRUE, ![x].late = stop]
            /\ UNCHANGED <<connected, netlog, violation, stop, watch, operator, seen>>

\* Mutant: gaps between the rows are not looked at.
WithAnyRow(s) ==
    [rows |-> IF netlog.rows = 0 THEN 1 ELSE 2, sound |-> netlog.sound /\ s.isolated,
     age |-> s.age, covers |-> s.late, matched |-> FALSE]

\* The row of a sample; validate_observations compares neighbouring rows.
WithRow(s) ==
    LET gap == netlog.age - s.age
    IN [rows |-> IF netlog.rows = 0 THEN 1 ELSE 2,
        sound |-> netlog.sound /\ s.isolated /\ (netlog.rows = 0 \/ (0 <= gap /\ gap <= Gap)),
        age |-> s.age, covers |-> s.late,
        matched |-> FALSE]

\* A row that cannot be appended and a network that is up are violations.
Append(x) ==
    /\ sample[x] # None /\ sample[x].stamped
    /\ \/ netlog' = WithRow(sample[x]) /\ violation' = (violation \/ ~sample[x].isolated)
       \/ violation' = TRUE /\ UNCHANGED netlog
    /\ sample' = [sample EXCEPT ![x] = None]
    /\ UNCHANGED <<connected, stop, watch, operator, seen>>

SnapshotFails(x) == /\ sample[x] # None /\ ~sample[x].stamped
                    /\ violation' = TRUE
                    /\ sample' = [sample EXCEPT ![x] = None]
                    /\ UNCHANGED <<connected, netlog, stop, watch, operator, seen>>

-----------------------------------------------------------------------------
(* The background job.                                                      *)

MonitorSamples == /\ watch = "running" /\ ~stop
                  /\ Read("monitor")
                  /\ UNCHANGED <<operator, seen>>

MonitorStops == /\ watch = "running" /\ sample["monitor"] = None /\ stop
                /\ watch' = "stopped"
                /\ UNCHANGED <<connected, netlog, violation, stop, sample, operator, seen>>

MonitorDies == /\ watch = "running"
               /\ watch' = "stopped"
               /\ sample' = [sample EXCEPT !["monitor"] = None]
               /\ UNCHANGED <<connected, netlog, violation, stop, operator, seen>>

-----------------------------------------------------------------------------
(* The script.                                                              *)

At(place) == script = place

\* catch: whatever is thrown leads to the finally block with the status so far.
Throw == /\ script' = "finally"
         /\ UNCHANGED <<stage, watching, status, files, result, elapsed>>

\* Mutant: an existing run directory is used again.
Reinvoke == /\ At("idle")
            /\ script' = "preflight" /\ files' = [files EXCEPT !.run = TRUE]
            /\ status' = "BLOCKED"
            /\ UNCHANGED <<network, stage, process, watching, result, elapsed, seen>>

\* One run: an existing run directory refuses the invocation.
Invoke == /\ At("idle") /\ ~files.run
          /\ script' = "preflight" /\ files' = [files EXCEPT !.run = TRUE]
          /\ status' = "BLOCKED"
          /\ UNCHANGED <<network, stage, process, watching, result, elapsed, seen>>

\* Account, confirmations, fresh destinations, preserved artifacts.
Preflight == /\ At("preflight")
             /\ \/ Throw /\ UNCHANGED <<network, process>>
                \/ /\ ~files.interpreter
                   /\ script' = "first_sample"
                   /\ Read("script")
                   /\ UNCHANGED <<stage, process, watching, status, files, result, elapsed>>
             /\ UNCHANGED seen

\* The check that surrounds every stage.
Isolated == ~violation /\ (watching => watch = "running")

\* The first sample is written: start the job; from here on a failure is FAILED.
StartMonitor ==
    /\ At("first_sample") /\ sample["script"] = None
    /\ IF ~Isolated
       THEN Throw /\ UNCHANGED <<watch, process, seen>>
       ELSE /\ watch' = "running" /\ watching' = TRUE
            /\ script' = "stage" /\ stage' = 1
            /\ status' = "FAILED" /\ elapsed' = 0
            /\ seen' = [seen EXCEPT !.up = 0]
            /\ UNCHANGED <<process, files, result>>
    /\ UNCHANGED <<connected, netlog, violation, stop, sample>>

\* Execute: isolation, budget, process.  Anything here may also throw.
BeginStage ==
    /\ At("stage") /\ stage <= Stages
    /\ \/ Throw /\ UNCHANGED <<process, seen>>
       \/ /\ Isolated
          /\ script' = "executing" /\ process' = "running"
          /\ seen' = IF stage = 1 THEN [seen EXCEPT !.bootstraps = @ + 1] ELSE seen
          /\ UNCHANGED <<stage, watching, status, files, result, elapsed>>
    /\ UNCHANGED network

\* The installer writes the interpreter some time after it was started.
ProcessWrites == /\ process = "running" /\ stage = 1 /\ ~files.interpreter
                 /\ files' = [files EXCEPT !.interpreter = TRUE]
                 /\ UNCHANGED <<network, script, stage, process, watching, status, result,
                                elapsed, seen>>

ProcessExits == /\ process = "running"
                /\ process' \in {"zero", "nonzero"}
                /\ process' = "zero" /\ stage = 1 => files.interpreter
                /\ UNCHANGED <<network, script, stage, watching, status, files, result,
                               elapsed, seen>>

\* The poll: a violation, a lost job, the time bound or the storage ceiling stops
\* the process.
Poll == /\ At("executing") /\ process = "running"
        /\ Throw
        /\ process' = "none"
        /\ UNCHANGED <<network, seen>>

MustStop == ~Isolated \/ elapsed > Limit

EndStage ==
    /\ At("executing") /\ process \in {"zero", "nonzero"}
    /\ IF Isolated /\ process = "zero"
       THEN /\ script' = "stage" /\ stage' = stage + 1
            /\ UNCHANGED <<watching, status, files, result, elapsed>>
       ELSE Throw
    /\ process' = "none"
    /\ UNCHANGED <<network, seen>>

\* $Ended, execution.json, the stop file: one step, so that no row is stamped between
\* the end that execution.json states and the stop file.
FinishStages == /\ At("stage") /\ stage > Stages
                /\ script' = "stopping" /\ stop' = TRUE
                /\ UNCHANGED <<connected, netlog, violation, sample, watch, stage, process,
                               watching, status, files, result, elapsed, seen>>

\* Mutant: the wait for the job has no timeout.
WaitForever == /\ At("stopping") /\ watch = "stopped"
               /\ script' = "last_sample" /\ watching' = FALSE
               /\ Read("script")
               /\ UNCHANGED <<stage, process, status, files, result, elapsed, seen>>

\* Wait-Job -Timeout 10 returns, with the job stopped or not, and the script
\* forgets the job and takes the last sample itself.
WaitForMonitor == /\ At("stopping")
                  /\ script' = "last_sample" /\ watching' = FALSE
                  /\ Read("script")
                  /\ seen' = [seen EXCEPT !.lingered = (watch = "running")]
                  /\ UNCHANGED <<stage, process, status, files, result, elapsed>>

\* collect: enough rows, all isolated, no gap, and they cover the execution;
\* run.json records the log's digest.
Collect ==
    /\ At("last_sample") /\ sample["script"] = None
    /\ IF Isolated /\ netlog.rows = 2 /\ netlog.sound /\ netlog.covers
       THEN /\ netlog' = [netlog EXCEPT !.matched = TRUE]
            /\ files' = [files EXCEPT !.evidence = TRUE]
            /\ script' = "verifying"
            /\ UNCHANGED <<stage, watching, status, result, elapsed>>
       ELSE Throw /\ UNCHANGED netlog
    /\ UNCHANGED <<connected, violation, stop, sample, watch, process, seen>>

\* verify_runtime_preservation: the digests hold and collecting again agrees.
Verify ==
    /\ At("verifying")
    /\ IF netlog.matched /\ netlog.sound /\ netlog.covers
       THEN /\ script' = "finally" /\ status' = "PASSED"
            /\ UNCHANGED <<stage, watching, files, result, elapsed>>
       ELSE Throw
    /\ UNCHANGED <<network, process, seen>>

\* Anything the script does between and after its stages may throw: inventory of
\* the host, writing a file, storage, the collector's and the verifier's other checks.
ScriptFails == /\ script \in {"stage", "stopping", "last_sample", "verifying"}
               /\ Throw
               /\ sample' = [sample EXCEPT !["script"] = None]
               /\ UNCHANGED <<connected, netlog, violation, stop, watch, process, seen>>

\* finally: stop a job still held, write the verdict.
Finally == /\ At("finally")
           /\ result' = status
           /\ script' = "done"
           /\ watch' = IF watching /\ watch = "running" THEN "stopped" ELSE watch
           /\ sample' = IF watching THEN [sample EXCEPT !["monitor"] = None] ELSE sample
           /\ watching' = FALSE
           /\ UNCHANGED <<connected, netlog, violation, stop, stage, process, status, files,
                          elapsed, seen>>

\* The operator's next invocation.
Return == /\ At("done")
          /\ script' = "idle"
          /\ UNCHANGED <<network, stage, process, watching, status, files, result, elapsed, seen>>

\* The script is killed.  The sampling job may live on; a process of a stage that
\* does is not followed any further.
Kill == /\ script \notin {"idle", "done"}
        /\ script' = "idle" /\ watching' = FALSE
        /\ process' = "none"
        /\ watch' \in IF watch = "running" THEN {"running", "stopped"} ELSE {watch}
        /\ sample' = [x \in Samplers |->
                        IF x = "script" \/ watch' # "running" THEN None ELSE sample[x]]
        /\ UNCHANGED <<connected, netlog, violation, stop, stage, status, files, result,
                       elapsed, seen>>

-----------------------------------------------------------------------------
Plug == /\ connected' = ~connected
        /\ seen' = [seen EXCEPT !.up = 0]
        /\ UNCHANGED <<netlog, violation, stop, sample, watch, operator>>

Executing == script \in {"stage", "executing"}

\* A second passes, unless a row is overdue.
Tick ==
    /\ \A x \in Samplers : sample[x] # None /\ sample[x].stamped => sample[x].age < MaxDelay
    /\ sample' = [x \in Samplers |->
                    IF sample[x] # None /\ sample[x].stamped
                    THEN [sample[x] EXCEPT !.age = @ + 1] ELSE sample[x]]
    /\ netlog' = [netlog EXCEPT !.age = Capped(@, MaxAge)]
    /\ elapsed' = Capped(elapsed, Limit + 1)
    /\ LET up == IF connected /\ Executing THEN Capped(seen.up, 2 * Gap + 1) ELSE 0
       IN seen' = [seen EXCEPT !.up = up, !.exposed = @ \/ up > 2 * Gap]
    /\ UNCHANGED <<connected, violation, stop, watch, script, stage, process, watching, status,
                   files, result>>

ScriptStep ==
    \/ Preflight \/ StartMonitor \/ BeginStage \/ EndStage
    \/ FinishStages \/ WaitForMonitor \/ Collect \/ Verify \/ Finally

Next == \/ Invoke \/ ScriptStep \/ ScriptFails \/ Return \/ Kill
        \/ ProcessWrites \/ ProcessExits \/ Poll
        \/ \E x \in Samplers : Stamp(x) \/ Append(x) \/ SnapshotFails(x)
        \/ MonitorSamples \/ MonitorStops \/ MonitorDies
        \/ Plug \/ Tick

\* The script runs, polls, and finishes its own samples; rows are written; time
\* passes.  Nothing is assumed of the job, of the processes or of the network.
Spec == /\ Init /\ [][Next]_vars
        /\ WF_vars(ScriptStep)
        /\ WF_vars(MustStop /\ Poll)
        /\ WF_vars(Stamp("script") \/ SnapshotFails("script"))
        /\ \A x \in Samplers : WF_vars(Append(x))
        /\ WF_vars(Tick)

-----------------------------------------------------------------------------
\* The type invariant.
TypeOK ==
    /\ connected \in BOOLEAN /\ violation \in BOOLEAN /\ stop \in BOOLEAN
    /\ netlog \in LogRecords
    /\ sample \in [Samplers -> SampleRecords \union {None}]
    /\ watch \in {"none", "running", "stopped"}
    /\ script \in {"idle", "preflight", "first_sample", "stage", "executing", "stopping",
                   "last_sample", "verifying", "finally", "done"}
    /\ stage \in 0..(Stages + 1)
    /\ process \in {"none", "running", "zero", "nonzero"}
    /\ watching \in BOOLEAN
    /\ status \in Verdicts /\ result \in Verdicts \union {None}
    /\ files \in FileRecords
    /\ elapsed \in 0..(Limit + 1)
    /\ seen \in SeenRecords

\* A run is only PASSED if the network was never up for longer than two sampling
\* gaps while the stages ran, although each sample reads the network before it
\* takes the time, and the job may hang between any two of them.
PassedWasOffline == result = "PASSED" => ~seen.exposed

\* The bootstrap runs at most once, over every failure, kill and later invocation;
\* BLOCKED says that it never ran; PASSED says that evidence was collected, and a
\* log that changed or a violation that appeared after the verdict can only come
\* from a job that outlived the wait for it.
VerdictHonest ==
    /\ seen.bootstraps <= 1
    /\ result = "BLOCKED" => seen.bootstraps = 0
    /\ result = "PASSED" =>
         /\ seen.bootstraps = 1 /\ files.evidence
         /\ (netlog.matched /\ ~violation) \/ seen.lingered

\* Every invocation ends, with its verdict written unless it was killed: a hanging
\* stage runs into the time bound, a hanging job into the wait's timeout.
RunEnds == (script # "idle") ~> (script = "idle" \/ result # None)
=============================================================================
