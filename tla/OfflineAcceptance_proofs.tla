---------------------- MODULE OfflineAcceptance_proofs ----------------------
(***************************************************************************)
(* For every number of stages, sampling gap, time bound and delay: the     *)
(* verdict is honest, and a run that PASSED was offline.                   *)
(*                                                                         *)
(* PassedWasOffline needs the argument that the samples are dense enough.  *)
(* The job reads the network after its previous row's timestamp, so while  *)
(* the stages run the network has been up no longer than since one gap     *)
(* before the last row (Dense).  Once it has been up for more than two     *)
(* gaps the log cannot be repaired (Doomed): the last row, and every row   *)
(* still to come that has a timestamp from before the exposure, are more   *)
(* than a gap older than any timestamp taken afterwards.                   *)
(***************************************************************************)
EXTENDS OfflineAcceptance, TLAPS

\* How far the script is, what it has done and what it says.
Places == {"stage", "executing", "stopping", "last_sample", "verifying"}
Progress ==
    /\ script # "idle" => files.run
    /\ ~files.run => seen.bootstraps = 0 /\ result = None /\ status = "BLOCKED"
    /\ script \in {"preflight", "first_sample"} => seen.bootstraps = 0 /\ status = "BLOCKED"
    /\ script \in Places => status = "FAILED"
    /\ script \in Places \ {"stage"} => seen.bootstraps = 1
    /\ script = "executing" => stage \in 1..Stages
    /\ script = "verifying" => files.evidence
    /\ script = "stage" => stage >= 1 /\ seen.bootstraps = IF stage = 1 THEN 0 ELSE 1
    /\ seen.bootstraps \in 0..1
    /\ status = "BLOCKED" => seen.bootstraps = 0
    /\ status = "PASSED" => seen.bootstraps = 1 /\ files.evidence
                            /\ script \in {"finally", "done", "idle"}
    /\ result # None => script \in {"done", "idle"} /\ result = status

\* Only a running job samples; after the script's last look at it, a log can only
\* change through a job that lingered.
Quiet ==
    /\ watch # "running" => sample["monitor"] = None
    /\ \A x \in Samplers : sample[x] # None /\ ~sample[x].stamped => sample[x].age = 0
    /\ script \in {"last_sample", "verifying"} \/ status = "PASSED" =>
         seen.lingered \/ watch # "running"
    /\ script = "verifying" \/ status = "PASSED" =>
         /\ sample["script"] = None
         /\ seen.lingered \/ (netlog.matched /\ ~violation)

\* Up to the end of the stages nothing is stopped or covered.
Early == {"preflight", "first_sample", "stage", "executing"}
Before ==
    /\ script \in Early \/ ~files.run =>
         /\ ~stop /\ ~netlog.covers
         /\ \A x \in Samplers : sample[x] # None => ~sample[x].late
    /\ script \in {"preflight", "first_sample"} \/ ~files.run => watch # "running"
    /\ script = "preflight" \/ ~files.run => sample["script"] = None
    /\ script = "first_sample" => sample["script"] # None \/ violation \/ netlog.rows # 0
    /\ Executing => sample["script"] = None /\ (violation \/ netlog.rows # 0)
    /\ ~connected => seen.up = 0

Sound == ~violation /\ netlog.sound

\* While the stages run: since when the network may have been up unnoticed.
Dense ==
    Executing /\ Sound =>
      /\ seen.up <= netlog.age + Gap
      /\ sample["monitor"] # None /\ sample["monitor"].isolated =>
           seen.up <= netlog.age \/ netlog.age = MaxAge

\* since: how long ago the network had been up for too long.
Unrepairable(since) ==
    /\ netlog.age >= Gap + 1 + since
    /\ \A x \in Samplers :
         sample[x] # None /\ sample[x].stamped /\ sample[x].isolated =>
           \/ sample[x].age <= since
           \/ sample[x].age >= Gap + 1 + since /\ ~sample[x].late

Doomed == Sound => /\ netlog.rows # 0 /\ ~netlog.covers
                   /\ \E since \in 0..MaxDelay : Unrepairable(since)

Exposure == seen.exposed => Doomed /\ script # "verifying" /\ status # "PASSED"

IInv == TypeOK /\ Progress /\ Quiet /\ Before /\ Dense /\ Exposure

-----------------------------------------------------------------------------
\* The initial states satisfy the invariant.
LEMMA InitIInv == Init => IInv
<1> SUFFICES ASSUME Init PROVE IInv
  OBVIOUS
<1> USE OfflineAssumption
<1>1. netlog \in LogRecords
  BY DEF Init, LogRecords, MaxAge
<1>2. files \in FileRecords /\ seen \in SeenRecords
  BY DEF Init, FileRecords, SeenRecords
<1>3. TypeOK
  <2>1. sample \in [Samplers -> SampleRecords \union {None}]
    BY DEF Init
  <2>2. status \in Verdicts /\ result \in Verdicts \union {None}
    BY DEF Init, Verdicts
  <2>3. stage \in 0..(Stages + 1) /\ elapsed \in 0..(Limit + 1)
    BY DEF Init
  <2> QED  BY <1>1, <1>2, <2>1, <2>2, <2>3, Zenon DEF Init, TypeOK
<1>4. Progress /\ Quiet /\ Before /\ Dense /\ Exposure
  BY DEF Init, Progress, Quiet, Before, Dense, Exposure, Places, Early, Executing, Samplers,
         Verdicts
<1> QED  BY <1>3, <1>4 DEF IInv

\* Fewer rows on their way do not repair a log.
LEMMA StillDoomed ==
    ASSUME Doomed, UNCHANGED netlog, violation' = violation \/ violation' = TRUE,
           \A x \in Samplers : \/ sample'[x] = sample[x] \/ sample'[x] = None
                               \/ ~sample'[x].stamped \/ sample'[x].age = 0
    PROVE Doomed'
<1> SUFFICES ASSUME Sound' PROVE Doomed'
  BY DEF Doomed
<1>1. Sound
  BY DEF Sound
<1>2. PICK since \in 0..MaxDelay : Unrepairable(since)
  BY <1>1 DEF Doomed
<1>3. Unrepairable(since)'
  BY <1>2 DEF Unrepairable
<1> QED  BY <1>1, <1>3 DEF Doomed

\* What a change of one field leaves of the auxiliary record.
LEMMA UpFields ==
    ASSUME NEW s \in SeenRecords, NEW t, NEW u \in 0..(2 * Gap + 1),
           t = [s EXCEPT !.up = u]
    PROVE /\ t \in SeenRecords
          /\ t.bootstraps = s.bootstraps /\ t.up = u
          /\ t.exposed = s.exposed /\ t.lingered = s.lingered
  BY DEF SeenRecords

LEMMA BootstrapFields ==
    ASSUME NEW s \in SeenRecords, NEW t,
           t = [s EXCEPT !.bootstraps = @ + 1]
    PROVE /\ t \in SeenRecords
          /\ t.bootstraps = s.bootstraps + 1 /\ t.up = s.up
          /\ t.exposed = s.exposed /\ t.lingered = s.lingered
  BY DEF SeenRecords

LEMMA LingerFields ==
    ASSUME NEW s \in SeenRecords, NEW t, NEW b \in BOOLEAN,
           t = [s EXCEPT !.lingered = b]
    PROVE /\ t \in SeenRecords
          /\ t.bootstraps = s.bootstraps /\ t.up = s.up
          /\ t.exposed = s.exposed /\ t.lingered = b
  BY DEF SeenRecords

\* The beginning of a sample.
Begun(x) == /\ sample' \in [Samplers -> SampleRecords \union {None}]
            /\ sample[x] = None /\ sample'[x] # None
            /\ ~sample'[x].stamped /\ ~sample'[x].late /\ sample'[x].age = 0
            /\ sample'[x].isolated => ~connected
            /\ \A y \in Samplers \ {x} : sample'[y] = sample[y]

LEMMA ReadBegins == ASSUME IInv, NEW x \in Samplers, Read(x) PROVE Begun(x)
<1> DEFINE s == [isolated |-> ~connected, stamped |-> FALSE, age |-> 0, late |-> FALSE]
<1>1. s \in SampleRecords /\ ~s.stamped /\ ~s.late /\ s.age = 0
  BY OfflineAssumption DEF SampleRecords
<1>2. s # None
  BY <1>1, OfflineAssumption
<1>3. s.isolated => ~connected
  OBVIOUS
<1>4. sample[x] = None /\ sample' = [sample EXCEPT ![x] = s]
  BY DEF Read
<1> HIDE DEF s
<1> QED  BY <1>1, <1>2, <1>3, <1>4 DEF Begun, IInv, TypeOK

\* The operator invokes the script.
LEMMA InvokeIInv == ASSUME IInv, Invoke PROVE IInv'
<1> USE OfflineAssumption
<1>a. /\ files' \in FileRecords /\ files'.run = TRUE
      /\ files.evidence => files'.evidence
  BY DEF IInv, TypeOK, Invoke, FileRecords
<1>1. TypeOK'
  BY <1>a DEF IInv, TypeOK, Invoke, network, At, Verdicts
<1>2. Progress'
  BY <1>a DEF IInv, TypeOK, Progress, Invoke, network, At, Places, Verdicts
<1>3. Quiet'
  BY <1>a DEF IInv, TypeOK, Progress, Quiet, Invoke, network, At, Places, Verdicts, Samplers
<1>4. Before'
  BY <1>a DEF IInv, TypeOK, Progress, Quiet, Before, Invoke, network, At, Early, Executing,
     Samplers
<1>5. Dense'
  BY <1>a DEF IInv, TypeOK, LogRecords, Before, Dense, Sound, Invoke, network, At, Executing,
     Samplers
<1>6. Exposure'
  BY <1>a, StillDoomed DEF IInv, TypeOK, Progress, Exposure, Invoke, network, At, Places,
     Samplers
<1> QED  BY <1>1, <1>2, <1>3, <1>4, <1>5, <1>6 DEF IInv

\* The job is started.
LEMMA StartMonitorIInv == ASSUME IInv, StartMonitor PROVE IInv'
<1> USE OfflineAssumption
<1>s. /\ seen' \in SeenRecords /\ seen'.bootstraps = seen.bootstraps
      /\ seen'.exposed = seen.exposed /\ seen'.lingered = seen.lingered
      /\ (Executing' => seen'.up = 0)
  <2>1. \/ seen' = seen /\ ~Executing'
        \/ seen' = [seen EXCEPT !.up = 0]
    BY DEF StartMonitor, Throw, Executing
  <2>2. seen \in SeenRecords /\ 0 \in 0..(2 * Gap + 1)
    BY DEF IInv, TypeOK
  <2> QED  BY <2>1, <2>2, UpFields, BootstrapFields, LingerFields
<1>t. stage' \in 0..(Stages + 1) /\ elapsed' \in 0..(Limit + 1)
  BY DEF StartMonitor, Throw, IInv, TypeOK
<1>1. TypeOK'
  BY <1>s, <1>t, Zenon DEF IInv, TypeOK, StartMonitor, Throw, Isolated, At, Verdicts
<1>2. Progress'
  BY <1>s DEF IInv, TypeOK, Progress, StartMonitor, Throw, Isolated, At, Places, Verdicts
<1>3. Quiet'
  BY <1>s DEF IInv, TypeOK, Progress, Quiet, StartMonitor, Throw, Isolated, At, Places,
     Verdicts, Samplers
<1>4. Before'
  BY <1>s DEF IInv, TypeOK, Progress, Quiet, Before, StartMonitor, Throw, Isolated, At, Early,
     Executing, Samplers
<1>5. Dense'
  BY <1>s DEF IInv, TypeOK, LogRecords, Before, Dense, Sound, StartMonitor, Throw, Isolated,
     At, Executing, Samplers
<1>6. Exposure'
  BY <1>s, StillDoomed DEF IInv, TypeOK, Progress, Exposure, StartMonitor, Throw, Isolated,
     At, Places, Samplers
<1> QED  BY <1>1, <1>2, <1>3, <1>4, <1>5, <1>6 DEF IInv

\* A stage begins.
LEMMA BeginStageIInv == ASSUME IInv, BeginStage PROVE IInv'
<1> USE OfflineAssumption
<1>s. /\ seen' \in SeenRecords /\ seen'.bootstraps =
           IF script' = "executing" /\ stage = 1 THEN seen.bootstraps + 1 ELSE seen.bootstraps
      /\ seen'.exposed = seen.exposed /\ seen'.lingered = seen.lingered /\ seen'.up = seen.up
  <2>1. IF script' = "executing" /\ stage = 1 THEN seen' = [seen EXCEPT !.bootstraps = @ + 1]
        ELSE seen' = seen
    BY DEF BeginStage, Throw
  <2>2. seen \in SeenRecords /\ 0 \in 0..(2 * Gap + 1)
    BY DEF IInv, TypeOK
  <2> QED  BY <2>1, <2>2, UpFields, BootstrapFields, LingerFields
<1>1. TypeOK'
  BY <1>s DEF IInv, TypeOK, BeginStage, Throw, Isolated, network, At
<1>2. Progress'
  BY <1>s DEF IInv, TypeOK, Progress, BeginStage, Throw, Isolated, network, At, Places, Verdicts
<1>3. Quiet'
  BY <1>s DEF IInv, TypeOK, Progress, Quiet, BeginStage, Throw, Isolated, network, At, Places,
     Verdicts, Samplers
<1>4. Before'
  BY <1>s DEF IInv, TypeOK, Progress, Quiet, Before, BeginStage, Throw, Isolated, network, At,
     Early, Executing, Samplers
<1>5. Dense'
  BY <1>s DEF IInv, TypeOK, LogRecords, Before, Dense, Sound, BeginStage, Throw, Isolated,
     network, At, Executing, Samplers
<1>6. Exposure'
  BY <1>s, StillDoomed DEF IInv, TypeOK, Progress, Exposure, BeginStage, Throw, Isolated,
     network, At, Places, Samplers
<1> QED  BY <1>1, <1>2, <1>3, <1>4, <1>5, <1>6 DEF IInv

\* A stage ends.
LEMMA EndStageIInv == ASSUME IInv, EndStage PROVE IInv'
<1> USE OfflineAssumption
<1>1. TypeOK'
  BY DEF IInv, TypeOK, EndStage, Throw, Isolated, network, At, Progress
<1>2. Progress'
  BY DEF IInv, TypeOK, Progress, EndStage, Throw, Isolated, network, At, Places, Verdicts
<1>3. Quiet'
  BY DEF IInv, TypeOK, Progress, Quiet, EndStage, Throw, Isolated, network, At, Places,
     Verdicts, Samplers
<1>4. Before'
  BY DEF IInv, TypeOK, Progress, Quiet, Before, EndStage, Throw, Isolated, network, At, Early,
     Executing, Samplers
<1>5. Dense'
  BY DEF IInv, TypeOK, LogRecords, Before, Dense, Sound, EndStage, Throw, Isolated, network,
     At, Executing, Samplers
<1>6. Exposure'
  BY StillDoomed DEF IInv, TypeOK, Progress, Exposure, EndStage, Throw, Isolated, network, At,
     Places, Samplers
<1> QED  BY <1>1, <1>2, <1>3, <1>4, <1>5, <1>6 DEF IInv

\* A stage is stopped.
LEMMA PollIInv == ASSUME IInv, Poll PROVE IInv'
<1> USE OfflineAssumption
<1>1. TypeOK'
  BY DEF IInv, TypeOK, Poll, Throw, network, At
<1>2. Progress'
  BY DEF IInv, TypeOK, Progress, Poll, Throw, network, At, Places, Verdicts
<1>3. Quiet'
  BY DEF IInv, TypeOK, Progress, Quiet, Poll, Throw, network, At, Places, Verdicts, Samplers
<1>4. Before'
  BY DEF IInv, TypeOK, Progress, Quiet, Before, Poll, Throw, network, At, Early, Executing,
     Samplers
<1>5. Dense'
  BY DEF IInv, TypeOK, LogRecords, Before, Dense, Sound, Poll, Throw, network, At, Executing,
     Samplers
<1>6. Exposure'
  BY StillDoomed DEF IInv, TypeOK, Progress, Exposure, Poll, Throw, network, At, Places,
     Samplers
<1> QED  BY <1>1, <1>2, <1>3, <1>4, <1>5, <1>6 DEF IInv

\* The stages are over.
LEMMA FinishStagesIInv == ASSUME IInv, FinishStages PROVE IInv'
<1> USE OfflineAssumption
<1>1. TypeOK'
  BY DEF IInv, TypeOK, FinishStages, At
<1>2. Progress'
  BY DEF IInv, TypeOK, Progress, FinishStages, At, Places, Verdicts
<1>3. Quiet'
  BY DEF IInv, TypeOK, Progress, Quiet, FinishStages, At, Places, Verdicts, Samplers
<1>4. Before'
  BY DEF IInv, TypeOK, Progress, Quiet, Before, FinishStages, At, Early, Executing, Samplers
<1>5. Dense'
  BY DEF IInv, TypeOK, LogRecords, Before, Dense, Sound, FinishStages, At, Executing, Samplers
<1>6. Exposure'
  BY StillDoomed DEF IInv, TypeOK, Progress, Exposure, FinishStages, At, Places, Samplers
<1> QED  BY <1>1, <1>2, <1>3, <1>4, <1>5, <1>6 DEF IInv

\* The evidence is verified.
LEMMA VerifyIInv == ASSUME IInv, Verify PROVE IInv'
<1> USE OfflineAssumption
<1>1. TypeOK'
  BY DEF IInv, TypeOK, Verify, Throw, network, At, Verdicts
<1>2. Progress'
  BY DEF IInv, TypeOK, Progress, Verify, Throw, network, At, Places, Verdicts
<1>3. Quiet'
  BY DEF IInv, TypeOK, Progress, Quiet, Verify, Throw, network, At, Places, Verdicts, Samplers
<1>4. Before'
  BY DEF IInv, TypeOK, Progress, Quiet, Before, Verify, Throw, network, At, Early, Executing,
     Samplers
<1>5. Dense'
  BY DEF IInv, TypeOK, LogRecords, Before, Dense, Sound, Verify, Throw, network, At,
     Executing, Samplers
<1>6. Exposure'
  BY StillDoomed DEF IInv, TypeOK, Progress, Exposure, Verify, Throw, network, At, Places,
     Samplers
<1> QED  BY <1>1, <1>2, <1>3, <1>4, <1>5, <1>6 DEF IInv

\* The script fails between its stages.
LEMMA ScriptFailsIInv == ASSUME IInv, ScriptFails PROVE IInv'
<1> USE OfflineAssumption
<1>1. TypeOK'
  BY DEF IInv, TypeOK, ScriptFails, Throw
<1>2. Progress'
  BY DEF IInv, TypeOK, Progress, ScriptFails, Throw, Places, Verdicts
<1>3. Quiet'
  BY DEF IInv, TypeOK, Progress, Quiet, ScriptFails, Throw, Places, Verdicts, Samplers
<1>4. Before'
  BY DEF IInv, TypeOK, Progress, Quiet, Before, ScriptFails, Throw, Early, Executing, Samplers
<1>5. Dense'
  BY DEF IInv, TypeOK, LogRecords, Before, Dense, Sound, ScriptFails, Throw, Executing, Samplers
<1>6. Exposure'
  BY StillDoomed DEF IInv, TypeOK, Progress, Exposure, ScriptFails, Throw, Places, Samplers
<1> QED  BY <1>1, <1>2, <1>3, <1>4, <1>5, <1>6 DEF IInv

\* The verdict is written.
LEMMA FinallyIInv == ASSUME IInv, Finally PROVE IInv'
<1> USE OfflineAssumption
<1>1. TypeOK'
  BY DEF IInv, TypeOK, Finally, At
<1>2. Progress'
  BY DEF IInv, TypeOK, Progress, Finally, At, Places, Verdicts
<1>3. Quiet'
  BY DEF IInv, TypeOK, Progress, Quiet, Finally, At, Places, Verdicts, Samplers
<1>4. Before'
  BY DEF IInv, TypeOK, Progress, Quiet, Before, Finally, At, Early, Executing, Samplers
<1>5. Dense'
  BY DEF IInv, TypeOK, LogRecords, Before, Dense, Sound, Finally, At, Executing, Samplers
<1>6. Exposure'
  BY StillDoomed DEF IInv, TypeOK, Progress, Exposure, Finally, At, Places, Samplers
<1> QED  BY <1>1, <1>2, <1>3, <1>4, <1>5, <1>6 DEF IInv

\* The script returns.
LEMMA ReturnIInv == ASSUME IInv, Return PROVE IInv'
<1> USE OfflineAssumption
<1>1. TypeOK'
  BY DEF IInv, TypeOK, Return, network, At
<1>2. Progress'
  BY DEF IInv, TypeOK, Progress, Return, network, At, Places, Verdicts
<1>3. Quiet'
  BY DEF IInv, TypeOK, Progress, Quiet, Return, network, At, Places, Verdicts, Samplers
<1>4. Before'
  BY DEF IInv, TypeOK, Progress, Quiet, Before, Return, network, At, Early, Executing, Samplers
<1>5. Dense'
  BY DEF IInv, TypeOK, LogRecords, Before, Dense, Sound, Return, network, At, Executing,
     Samplers
<1>6. Exposure'
  BY StillDoomed DEF IInv, TypeOK, Progress, Exposure, Return, network, At, Places, Samplers
<1> QED  BY <1>1, <1>2, <1>3, <1>4, <1>5, <1>6 DEF IInv

\* The script is killed.
LEMMA KillIInv == ASSUME IInv, Kill PROVE IInv'
<1> USE OfflineAssumption
<1>1. TypeOK'
  BY DEF IInv, TypeOK, Kill
<1>2. Progress'
  BY DEF IInv, TypeOK, Progress, Kill, Places, Verdicts
<1>3. Quiet'
  BY DEF IInv, TypeOK, Progress, Quiet, Kill, Places, Verdicts, Samplers
<1>4. Before'
  BY DEF IInv, TypeOK, Progress, Quiet, Before, Kill, Early, Executing, Samplers
<1>5. Dense'
  BY DEF IInv, TypeOK, LogRecords, Before, Dense, Sound, Kill, Executing, Samplers
<1>6. Exposure'
  BY StillDoomed DEF IInv, TypeOK, Progress, Exposure, Kill, Places, Samplers
<1> QED  BY <1>1, <1>2, <1>3, <1>4, <1>5, <1>6 DEF IInv

\* The installer writes the interpreter.
LEMMA ProcessWritesIInv == ASSUME IInv, ProcessWrites PROVE IInv'
<1> USE OfflineAssumption
<1>a. /\ files' \in FileRecords /\ files'.run = files.run
      /\ files.evidence => files'.evidence
  BY DEF IInv, TypeOK, ProcessWrites, FileRecords
<1>1. TypeOK'
  BY <1>a DEF IInv, TypeOK, ProcessWrites, network
<1>2. Progress'
  BY <1>a DEF IInv, TypeOK, Progress, ProcessWrites, network, Places, Verdicts
<1>3. Quiet'
  BY <1>a DEF IInv, TypeOK, Progress, Quiet, ProcessWrites, network, Places, Verdicts, Samplers
<1>4. Before'
  BY <1>a DEF IInv, TypeOK, Progress, Quiet, Before, ProcessWrites, network, Early, Executing,
     Samplers
<1>5. Dense'
  BY <1>a DEF IInv, TypeOK, LogRecords, Before, Dense, Sound, ProcessWrites, network,
     Executing, Samplers
<1>6. Exposure'
  BY <1>a, StillDoomed DEF IInv, TypeOK, Progress, Exposure, ProcessWrites, network, Places,
     Samplers
<1> QED  BY <1>1, <1>2, <1>3, <1>4, <1>5, <1>6 DEF IInv

\* A stage's process exits.
LEMMA ProcessExitsIInv == ASSUME IInv, ProcessExits PROVE IInv'
<1> USE OfflineAssumption
<1>1. TypeOK'
  BY DEF IInv, TypeOK, ProcessExits, network
<1>2. Progress'
  BY DEF IInv, TypeOK, Progress, ProcessExits, network, Places, Verdicts
<1>3. Quiet'
  BY DEF IInv, TypeOK, Progress, Quiet, ProcessExits, network, Places, Verdicts, Samplers
<1>4. Before'
  BY DEF IInv, TypeOK, Progress, Quiet, Before, ProcessExits, network, Early, Executing,
     Samplers
<1>5. Dense'
  BY DEF IInv, TypeOK, LogRecords, Before, Dense, Sound, ProcessExits, network, Executing,
     Samplers
<1>6. Exposure'
  BY StillDoomed DEF IInv, TypeOK, Progress, Exposure, ProcessExits, network, Places, Samplers
<1> QED  BY <1>1, <1>2, <1>3, <1>4, <1>5, <1>6 DEF IInv

\* The preflight ends and the first sample is begun.
LEMMA PreflightIInv == ASSUME IInv, Preflight PROVE IInv'
<1> USE OfflineAssumption
<1>r. \/ /\ script' = "finally"
         /\ UNCHANGED <<network, process, stage, watching, status, files, result, elapsed>>
      \/ /\ script' = "first_sample" /\ Begun("script")
         /\ UNCHANGED <<connected, netlog, violation, stop, watch, process, stage, watching,
                        status, files, result, elapsed>>
  BY ReadBegins DEF Preflight, Throw, Samplers, Read
<1>1. TypeOK'
  BY <1>r DEF IInv, TypeOK, Preflight, Begun, Throw, network, At
<1>2. Progress'
  BY <1>r DEF IInv, TypeOK, Progress, Preflight, Begun, Throw, network, At, Places, Verdicts
<1>3. Quiet'
  BY <1>r DEF IInv, TypeOK, Progress, Quiet, Preflight, Begun, Throw, network, At, Places,
     Verdicts, Samplers
<1>4. Before'
  BY <1>r DEF IInv, TypeOK, Progress, Quiet, Before, Preflight, Begun, Throw, network, At,
     Early, Executing, Samplers
<1>5. Dense'
  BY <1>r DEF IInv, TypeOK, LogRecords, Before, Dense, Sound, Preflight, Begun, Throw,
     network, At, Executing, Samplers
<1>6. Exposure'
  BY <1>r, StillDoomed DEF IInv, TypeOK, Progress, Exposure, Preflight, Begun, Throw, network,
     At, Places, Samplers
<1> QED  BY <1>1, <1>2, <1>3, <1>4, <1>5, <1>6 DEF IInv

\* The job begins a sample.
LEMMA MonitorSamplesIInv == ASSUME IInv, MonitorSamples PROVE IInv'
<1> USE OfflineAssumption
<1>r. Begun("monitor") /\ UNCHANGED <<connected, netlog, violation, stop, watch>>
  BY ReadBegins DEF MonitorSamples, Samplers, Read
<1>1. TypeOK'
  BY <1>r DEF IInv, TypeOK, MonitorSamples, Begun, operator
<1>2. Progress'
  BY <1>r DEF IInv, TypeOK, Progress, MonitorSamples, Begun, operator, Places, Verdicts
<1>3. Quiet'
  BY <1>r DEF IInv, TypeOK, Progress, Quiet, MonitorSamples, Begun, operator, Places,
     Verdicts, Samplers
<1>4. Before'
  BY <1>r DEF IInv, TypeOK, Progress, Quiet, Before, MonitorSamples, Begun, operator, Early,
     Executing, Samplers
<1>5. Dense'
  BY <1>r DEF IInv, TypeOK, LogRecords, Before, Dense, Sound, MonitorSamples, Begun, operator,
     Executing, Samplers
<1>6. Exposure'
  BY <1>r, StillDoomed DEF IInv, TypeOK, Progress, Exposure, MonitorSamples, Begun, operator,
     Places, Samplers
<1> QED  BY <1>1, <1>2, <1>3, <1>4, <1>5, <1>6 DEF IInv

\* The job stops.
LEMMA MonitorStopsIInv == ASSUME IInv, MonitorStops PROVE IInv'
<1> USE OfflineAssumption
<1>1. TypeOK'
  BY DEF IInv, TypeOK, MonitorStops, operator
<1>2. Progress'
  BY DEF IInv, TypeOK, Progress, MonitorStops, operator, Places, Verdicts
<1>3. Quiet'
  BY DEF IInv, TypeOK, Progress, Quiet, MonitorStops, operator, Places, Verdicts, Samplers
<1>4. Before'
  BY DEF IInv, TypeOK, Progress, Quiet, Before, MonitorStops, operator, Early, Executing,
     Samplers
<1>5. Dense'
  BY DEF IInv, TypeOK, LogRecords, Before, Dense, Sound, MonitorStops, operator, Executing,
     Samplers
<1>6. Exposure'
  BY StillDoomed DEF IInv, TypeOK, Progress, Exposure, MonitorStops, operator, Places, Samplers
<1> QED  BY <1>1, <1>2, <1>3, <1>4, <1>5, <1>6 DEF IInv

\* The job dies.
LEMMA MonitorDiesIInv == ASSUME IInv, MonitorDies PROVE IInv'
<1> USE OfflineAssumption
<1>1. TypeOK'
  BY DEF IInv, TypeOK, MonitorDies, operator
<1>2. Progress'
  BY DEF IInv, TypeOK, Progress, MonitorDies, operator, Places, Verdicts
<1>3. Quiet'
  BY DEF IInv, TypeOK, Progress, Quiet, MonitorDies, operator, Places, Verdicts, Samplers
<1>4. Before'
  BY DEF IInv, TypeOK, Progress, Quiet, Before, MonitorDies, operator, Early, Executing,
     Samplers
<1>5. Dense'
  BY DEF IInv, TypeOK, LogRecords, Before, Dense, Sound, MonitorDies, operator, Executing,
     Samplers
<1>6. Exposure'
  BY StillDoomed DEF IInv, TypeOK, Progress, Exposure, MonitorDies, operator, Places, Samplers
<1> QED  BY <1>1, <1>2, <1>3, <1>4, <1>5, <1>6 DEF IInv

\* The network comes up or goes down.
LEMMA PlugIInv == ASSUME IInv, Plug PROVE IInv'
<1> USE OfflineAssumption
<1>s. /\ seen' \in SeenRecords /\ seen'.bootstraps = seen.bootstraps
      /\ seen'.exposed = seen.exposed /\ seen'.lingered = seen.lingered /\ seen'.up = 0
  <2>1. seen' = [seen EXCEPT !.up = 0]
    BY DEF Plug
  <2>2. seen \in SeenRecords /\ 0 \in 0..(2 * Gap + 1)
    BY DEF IInv, TypeOK
  <2> QED  BY <2>1, <2>2, UpFields, BootstrapFields, LingerFields
<1>1. TypeOK'
  BY <1>s DEF IInv, TypeOK, Plug, operator
<1>2. Progress'
  BY <1>s DEF IInv, TypeOK, Progress, Plug, operator, Places, Verdicts
<1>3. Quiet'
  BY <1>s DEF IInv, TypeOK, Progress, Quiet, Plug, operator, Places, Verdicts, Samplers
<1>4. Before'
  BY <1>s DEF IInv, TypeOK, Progress, Quiet, Before, Plug, operator, Early, Executing, Samplers
<1>5. Dense'
  BY <1>s DEF IInv, TypeOK, LogRecords, Before, Dense, Sound, Plug, operator, Executing,
     Samplers
<1>6. Exposure'
  BY <1>s, StillDoomed DEF IInv, TypeOK, Progress, Exposure, Plug, operator, Places, Samplers
<1> QED  BY <1>1, <1>2, <1>3, <1>4, <1>5, <1>6 DEF IInv

\* The script stops waiting for the job and takes the last sample.
LEMMA WaitForMonitorIInv == ASSUME IInv, WaitForMonitor PROVE IInv'
<1> USE OfflineAssumption
<1>r. Begun("script")
  BY ReadBegins DEF WaitForMonitor, Samplers
<1>s. /\ seen' \in SeenRecords /\ seen'.bootstraps = seen.bootstraps /\ seen'.up = seen.up
      /\ seen'.exposed = seen.exposed
      /\ watch = "running" => seen'.lingered
  <2> DEFINE b == watch = "running"
  <2>1. seen' = [seen EXCEPT !.lingered = b] /\ b \in BOOLEAN /\ seen \in SeenRecords
    BY DEF WaitForMonitor, IInv, TypeOK
  <2>2. (watch = "running") => b
    OBVIOUS
  <2> HIDE DEF b
  <2> QED  BY <2>1, <2>2, LingerFields
<1>w. /\ script = "stopping" /\ script' = "last_sample" /\ watching' = FALSE
      /\ UNCHANGED <<connected, netlog, violation, stop, watch, stage, process, status, files,
                     result, elapsed>>
  BY DEF WaitForMonitor, At, Read
<1>1. TypeOK'
  BY <1>r, <1>s, <1>w DEF IInv, TypeOK, Begun
<1>2. Progress'
  BY <1>s, <1>w DEF IInv, TypeOK, Progress, Places
<1>3. Quiet'
  BY <1>r, <1>s, <1>w DEF IInv, TypeOK, Progress, Quiet, Places, Samplers, Begun
<1>4. Before'
  BY <1>r, <1>s, <1>w DEF IInv, TypeOK, Progress, Before, Early, Executing, Samplers, Begun
<1>5. Dense'
  BY <1>w DEF Dense, Executing
<1>6. Exposure'
  BY <1>r, <1>s, <1>w, StillDoomed DEF IInv, Exposure, Samplers, Begun
<1> QED  BY <1>1, <1>2, <1>3, <1>4, <1>5, <1>6 DEF IInv

\* The evidence is collected; the log of an exposed run is refused.
LEMMA CollectIInv == ASSUME IInv, Collect PROVE IInv'
<1> USE OfflineAssumption
<1>w. /\ script = "last_sample" /\ sample["script"] = None
      /\ UNCHANGED <<connected, violation, stop, sample, watch, process, seen, stage, watching,
                     status, result, elapsed>>
  BY DEF Collect, At, Throw
<1>1. CASE Isolated /\ netlog.rows = 2 /\ netlog.sound /\ netlog.covers
  <2>1. /\ netlog' = [netlog EXCEPT !.matched = TRUE]
        /\ files' = [files EXCEPT !.evidence = TRUE] /\ script' = "verifying"
    BY <1>1 DEF Collect
  <2>2. /\ netlog' \in LogRecords /\ netlog'.matched
        /\ netlog'.rows = netlog.rows /\ netlog'.sound = netlog.sound
        /\ netlog'.age = netlog.age /\ netlog'.covers = netlog.covers
    BY <2>1 DEF IInv, TypeOK, LogRecords
  <2>3. files' \in FileRecords /\ files'.run = files.run /\ files'.evidence
    BY <2>1 DEF IInv, TypeOK, FileRecords
  <2>4. ~violation /\ ~seen.exposed
    BY <1>1 DEF Isolated, IInv, Exposure, Doomed, Sound
  <2>5. TypeOK'
    BY <1>w, <2>1, <2>2, <2>3 DEF IInv, TypeOK
  <2>6. Progress'
    BY <1>w, <2>1, <2>3 DEF IInv, TypeOK, Progress, Places
  <2>7. Quiet'
    BY <1>w, <2>1, <2>2, <2>4 DEF IInv, TypeOK, Progress, Quiet, Places, Samplers
  <2>8. Before'
    BY <1>w, <2>1, <2>2, <2>3 DEF IInv, TypeOK, Progress, Before, Early, Executing, Samplers
  <2>9. Dense' /\ Exposure'
    BY <1>w, <2>1, <2>4 DEF Dense, Exposure, Executing
  <2> QED  BY <2>5, <2>6, <2>7, <2>8, <2>9 DEF IInv
<1>2. CASE ~(Isolated /\ netlog.rows = 2 /\ netlog.sound /\ netlog.covers)
  <2>1. script' = "finally" /\ UNCHANGED <<netlog, files>>
    BY <1>2 DEF Collect, Throw
  <2>2. TypeOK'
    BY <1>w, <2>1 DEF IInv, TypeOK
  <2>3. Progress'
    BY <1>w, <2>1 DEF IInv, TypeOK, Progress, Places
  <2>4. Quiet'
    BY <1>w, <2>1 DEF IInv, TypeOK, Progress, Quiet, Places, Samplers
  <2>5. Before'
    BY <1>w, <2>1 DEF IInv, TypeOK, Progress, Before, Early, Executing, Samplers
  <2>6. Dense'
    BY <1>w, <2>1 DEF Dense, Executing
  <2>7. Exposure'
    BY <1>w, <2>1, StillDoomed DEF IInv, TypeOK, Progress, Exposure, Places, Samplers
  <2> QED  BY <2>2, <2>3, <2>4, <2>5, <2>6, <2>7 DEF IInv
<1> QED  BY <1>1, <1>2

\* A sample takes the time.
LEMMA StampIInv == ASSUME IInv, NEW x \in Samplers, Stamp(x) PROVE IInv'
<1> USE OfflineAssumption
<1>w. UNCHANGED <<connected, netlog, violation, stop, watch, script, stage, process, watching,
                  status, files, result, elapsed, seen>>
  BY DEF Stamp, operator
<1>x. /\ sample[x] # None /\ ~sample[x].stamped
      /\ sample' = [sample EXCEPT ![x] = sample'[x]]
      /\ sample'[x] \in SampleRecords /\ sample'[x] # None
      /\ sample'[x].isolated = sample[x].isolated /\ sample'[x].age = 0
      /\ sample'[x].late = stop /\ sample'[x].stamped
  <2>1. sample[x] \in SampleRecords /\ ~sample[x].stamped /\ sample[x].age = 0 /\ sample[x] # None
        /\ stop \in BOOLEAN
    BY DEF Stamp, IInv, TypeOK, Quiet
  <2>2. sample' = [sample EXCEPT ![x] = [sample[x] EXCEPT !.stamped = TRUE, !.late = stop]]
    BY DEF Stamp
  <2>3. [sample[x] EXCEPT !.stamped = TRUE, !.late = stop] \in SampleRecords
    BY <2>1 DEF SampleRecords
  <2>4. sample'[x] = [sample[x] EXCEPT !.stamped = TRUE, !.late = stop]
        /\ sample' = [sample EXCEPT ![x] = sample'[x]]
    BY <2>2 DEF IInv, TypeOK
  <2>5. sample'[x] # None
    BY <2>3, <2>4
  <2> QED  BY <2>1, <2>3, <2>4, <2>5 DEF SampleRecords
<1>y. \A y \in Samplers : y # x => sample'[y] = sample[y]
  BY <1>x DEF IInv, TypeOK
<1>1. TypeOK'
  BY <1>w, <1>x DEF IInv, TypeOK
<1>2. Progress'
  BY <1>w DEF IInv, Progress
<1>3. Quiet'
  BY <1>w, <1>x, <1>y DEF IInv, Quiet, Samplers
<1>4. Before'
  BY <1>w, <1>x, <1>y DEF IInv, Before, Executing, Samplers
<1>5. Dense'
  BY <1>w, <1>x, <1>y DEF IInv, Dense, Executing, Sound, Samplers
<1>6. Exposure'
  BY <1>w, <1>x, <1>y, StillDoomed DEF IInv, Exposure
<1> QED  BY <1>1, <1>2, <1>3, <1>4, <1>5, <1>6 DEF IInv

\* A sample fails.
LEMMA SnapshotFailsIInv == ASSUME IInv, NEW x \in Samplers, SnapshotFails(x) PROVE IInv'
<1> USE OfflineAssumption
<1>w. /\ violation' = TRUE /\ sample' = [sample EXCEPT ![x] = None] /\ sample[x] # None
      /\ UNCHANGED <<connected, netlog, stop, watch, script, stage, process, watching,
                     status, files, result, elapsed, seen>>
  BY DEF SnapshotFails, operator
<1>1. TypeOK'
  BY <1>w DEF IInv, TypeOK
<1>2. Progress'
  BY <1>w DEF IInv, Progress
<1>3. Quiet'
  BY <1>w DEF IInv, TypeOK, Quiet, Samplers
<1>4. Before'
  BY <1>w DEF IInv, TypeOK, Before, Executing, Samplers
<1>5. Dense' /\ Exposure'
  BY <1>w DEF IInv, Dense, Exposure, Doomed, Sound
<1> QED  BY <1>1, <1>2, <1>3, <1>4, <1>5 DEF IInv

\* A row is appended: its sample was read after the last row's timestamp, so the
\* network had been down until then; in a doomed log only a row from before the
\* exposure is no gap away from the last.
LEMMA AppendIInv == ASSUME IInv, NEW x \in Samplers, Append(x) PROVE IInv'
<1> USE OfflineAssumption
<1>w. /\ sample' = [sample EXCEPT ![x] = None] /\ sample[x] # None /\ sample[x].stamped
      /\ UNCHANGED <<connected, stop, watch, script, stage, process, watching,
                     status, files, result, elapsed, seen>>
  BY DEF Append, operator
<1>y. sample'[x] = None /\ \A y \in Samplers : y # x => sample'[y] = sample[y]
  BY <1>w DEF IInv, TypeOK
<1>s. sample[x] \in SampleRecords /\ sample[x].age \in 0..MaxDelay
  BY <1>w DEF IInv, TypeOK, SampleRecords
<1>1. CASE violation' = TRUE /\ UNCHANGED netlog
  <2>1. TypeOK'
    BY <1>1, <1>w DEF IInv, TypeOK
  <2>2. Progress'
    BY <1>w DEF IInv, Progress
  <2>3. Quiet'
    BY <1>1, <1>w, <1>y DEF IInv, TypeOK, Quiet, Samplers
  <2>4. Before'
    BY <1>1, <1>w, <1>y DEF IInv, TypeOK, Before, Executing, Samplers
  <2>5. Dense' /\ Exposure'
    BY <1>1, <1>w DEF IInv, Dense, Exposure, Doomed, Sound
  <2> QED  BY <2>1, <2>2, <2>3, <2>4, <2>5 DEF IInv
<1>2. CASE netlog' = WithRow(sample[x]) /\ violation' = (violation \/ ~sample[x].isolated)
  <2>1. /\ netlog' \in LogRecords /\ netlog'.rows # 0
        /\ netlog'.age = sample[x].age /\ netlog'.covers = sample[x].late
    BY <1>2, <1>s DEF WithRow, LogRecords, SampleRecords, MaxAge, IInv, TypeOK
  <2>2. Sound' => /\ Sound /\ sample[x].isolated
                  /\ netlog.rows = 0 \/ netlog.age <= sample[x].age + Gap
    <3> SUFFICES ASSUME Sound' PROVE /\ Sound /\ sample[x].isolated
                                     /\ netlog.rows = 0 \/ netlog.age <= sample[x].age + Gap
      OBVIOUS
    <3>1. netlog.sound /\ sample[x].isolated /\ ~violation
      BY <1>2 DEF WithRow, Sound
    <3>2. netlog.rows = 0 \/ netlog.age - sample[x].age <= Gap
      BY <1>2 DEF WithRow, Sound
    <3>3. netlog.age \in Nat
      BY DEF IInv, TypeOK, LogRecords, MaxAge
    <3> QED  BY <3>1, <3>2, <3>3, <1>s DEF Sound
  <2>3. TypeOK'
    <3>1. violation' \in BOOLEAN
      BY <1>2
    <3> QED  BY <1>w, <2>1, <3>1 DEF IInv, TypeOK
  <2>4. Progress'
    BY <1>w DEF IInv, Progress
  <2>5. Quiet'
    BY <1>w, <1>y DEF IInv, TypeOK, Quiet, Samplers
  <2>6. Before'
    BY <1>2, <1>w, <1>y, <2>1 DEF IInv, TypeOK, Before, Executing, Early, Samplers
  <2>7. Dense'
    <3> SUFFICES ASSUME Executing, Sound'
                 PROVE seen.up <= netlog'.age + Gap /\ sample'["monitor"] = None
      BY <1>w DEF Dense, Executing
    <3>1. x = "monitor" /\ sample[x].isolated /\ Sound
      BY <1>w, <2>2 DEF IInv, Before, Samplers
    <3>2. netlog.rows # 0
      BY <3>1 DEF IInv, Before, Sound
    <3>3. netlog.age \in Nat /\ seen.up \in Nat
      BY DEF IInv, TypeOK, LogRecords, SeenRecords, MaxAge
    <3>4. seen.up <= netlog.age \/ netlog.age = MaxAge
      BY <1>w, <3>1 DEF IInv, Dense
    <3> QED  BY <1>s, <1>y, <2>1, <2>2, <3>1, <3>2, <3>3, <3>4 DEF MaxAge
  <2>8. Exposure'
    <3> SUFFICES ASSUME seen.exposed, Sound' PROVE Doomed'
      BY <1>w DEF IInv, Exposure, Doomed
    <3>1. PICK since \in 0..MaxDelay : Unrepairable(since)
      BY <2>2 DEF IInv, Exposure, Doomed
    <3>2. netlog.rows # 0 /\ netlog.age \in Nat
      BY <2>2 DEF IInv, Exposure, Doomed, TypeOK, LogRecords, MaxAge
    <3>3. sample[x].age >= Gap + 1 + since /\ ~sample[x].late
      BY <1>w, <1>s, <2>2, <3>1, <3>2 DEF Unrepairable
    <3>4. Unrepairable(since)'
      BY <1>y, <2>1, <3>1, <3>3 DEF Unrepairable
    <3> QED  BY <2>1, <3>3, <3>4 DEF Doomed
  <2> QED  BY <2>3, <2>4, <2>5, <2>6, <2>7, <2>8 DEF IInv
<1> QED  BY <1>1, <1>2 DEF Append

\* A second passes.  When the network has been up for too long, the job's sample on
\* its way, if it is isolated, is either no row that can follow the last one or so
\* old that no later one can follow it.
LEMMA TickIInv == ASSUME IInv, Tick PROVE IInv'
<1> USE OfflineAssumption
<1> DEFINE up == IF connected /\ Executing THEN Capped(seen.up, 2 * Gap + 1) ELSE 0
<1>w. UNCHANGED <<connected, violation, stop, watch, script, stage, process, watching, status,
                  files, result>>
  BY DEF Tick
<1>a. netlog.age \in 0..MaxAge /\ seen.up \in 0..(2 * Gap + 1) /\ MaxAge = Gap + MaxDelay + 1
  BY DEF IInv, TypeOK, LogRecords, SeenRecords, MaxAge
<1>l. /\ netlog' \in LogRecords
      /\ netlog'.age = IF netlog.age < MaxAge THEN netlog.age + 1 ELSE MaxAge
      /\ netlog'.rows = netlog.rows /\ netlog'.sound = netlog.sound
      /\ netlog'.covers = netlog.covers /\ netlog'.matched = netlog.matched
  <2> DEFINE n == Capped(netlog.age, MaxAge)
  <2>1. n \in 0..MaxAge /\ n = IF netlog.age < MaxAge THEN netlog.age + 1 ELSE MaxAge
    BY <1>a DEF Capped
  <2>2. netlog' = [netlog EXCEPT !.age = n] /\ netlog \in LogRecords
    BY DEF Tick, IInv, TypeOK
  <2> HIDE DEF n
  <2> QED  BY <2>1, <2>2 DEF LogRecords
<1>u. /\ up \in 0..(2 * Gap + 1) /\ up <= seen.up + 1
      /\ ~(connected /\ Executing) => up = 0
  BY <1>a DEF Capped
<1>e. /\ seen' \in SeenRecords /\ seen'.bootstraps = seen.bootstraps
      /\ seen'.up = up /\ seen'.lingered = seen.lingered
      /\ seen'.exposed <=> (seen.exposed \/ up > 2 * Gap)
  <2> HIDE DEF up
  <2> DEFINE b == seen.exposed \/ up > 2 * Gap
  <2>1. seen' = [seen EXCEPT !.up = up, !.exposed = b] /\ seen \in SeenRecords /\ b \in BOOLEAN
    BY DEF Tick, up, IInv, TypeOK
  <2>2. b <=> (seen.exposed \/ up > 2 * Gap)
    OBVIOUS
  <2> HIDE DEF b
  <2>3. seen' \in SeenRecords /\ seen'.bootstraps = seen.bootstraps
        /\ seen'.up = up /\ seen'.lingered = seen.lingered /\ seen'.exposed = b
    BY <1>u, <2>1 DEF SeenRecords
  <2> QED  BY <2>2, <2>3
<1> HIDE DEF up
<1>x. /\ sample' \in [Samplers -> SampleRecords \union {None}]
      /\ \A x \in Samplers :
           /\ sample'[x] = None <=> sample[x] = None
           /\ sample[x] # None =>
                /\ sample'[x].isolated = sample[x].isolated
                /\ sample'[x].stamped = sample[x].stamped
                /\ sample'[x].late = sample[x].late
                /\ sample[x].age \in Nat
                /\ sample'[x].age = IF sample[x].stamped THEN sample[x].age + 1 ELSE sample[x].age
                /\ sample[x].stamped => sample[x].age < MaxDelay
  <2>1. ASSUME NEW x \in Samplers, sample[x] # None
        PROVE /\ sample'[x] \in SampleRecords /\ sample'[x] # None
              /\ sample'[x].isolated = sample[x].isolated
              /\ sample'[x].stamped = sample[x].stamped
              /\ sample'[x].late = sample[x].late
              /\ sample[x].age \in Nat
              /\ sample'[x].age = IF sample[x].stamped THEN sample[x].age + 1 ELSE sample[x].age
              /\ sample[x].stamped => sample[x].age < MaxDelay
    <3>1. sample[x] \in SampleRecords
      BY <2>1 DEF IInv, TypeOK
    <3>2. CASE sample[x].stamped
      <4>1. sample'[x] = [sample[x] EXCEPT !.age = @ + 1] /\ sample[x].age < MaxDelay
        BY <2>1, <3>2 DEF Tick
      <4>2. sample[x].age \in Nat /\ sample[x].age + 1 \in 0..MaxDelay
        BY <3>1, <4>1 DEF SampleRecords
      <4>3. sample'[x] \in SampleRecords
        BY <3>1, <4>1, <4>2 DEF SampleRecords
      <4>4. sample'[x] # None
        BY <4>3
      <4> QED  BY <3>1, <3>2, <4>1, <4>2, <4>3, <4>4 DEF SampleRecords
    <3>3. CASE ~sample[x].stamped
      <4>1. sample'[x] = sample[x]
        BY <3>3 DEF Tick
      <4> QED  BY <2>1, <3>1, <3>3, <4>1 DEF SampleRecords
    <3> QED  BY <3>2, <3>3
  <2>2. \A x \in Samplers : sample[x] = None => sample'[x] = None
    BY DEF Tick
  <2>3. DOMAIN sample' = Samplers /\ sample' = [x \in Samplers |-> sample'[x]]
    BY DEF Tick
  <2> QED  BY <2>1, <2>2, <2>3
<1>1. TypeOK'
  <2>1. elapsed' \in 0..(Limit + 1)
    BY DEF Tick, Capped, IInv, TypeOK
  <2> QED  BY <1>w, <1>l, <1>e, <1>x, <2>1 DEF IInv, TypeOK
<1>2. Progress'
  BY <1>w, <1>e DEF IInv, Progress
<1>3. Quiet'
  BY <1>w, <1>l, <1>e, <1>x DEF IInv, Quiet, Samplers
<1>4. Before'
  BY <1>w, <1>l, <1>e, <1>u, <1>x DEF IInv, Before, Executing, Samplers
<1>5. Dense'
  <2> SUFFICES ASSUME Executing, Sound
               PROVE /\ up <= netlog'.age + Gap
                     /\ sample["monitor"] # None /\ sample["monitor"].isolated =>
                          up <= netlog'.age \/ netlog'.age = MaxAge
    BY <1>w, <1>l, <1>e, <1>x DEF Dense, Executing, Sound, Samplers
  <2>1. seen.up <= netlog.age + Gap
        /\ (sample["monitor"] # None /\ sample["monitor"].isolated =>
             seen.up <= netlog.age \/ netlog.age = MaxAge)
    BY DEF IInv, Dense
  <2> QED  BY <1>a, <1>l, <1>u, <2>1
<1>6. Exposure'
  <2>s. Sound' <=> Sound
    BY <1>w, <1>l DEF Sound
  <2> SUFFICES ASSUME seen'.exposed PROVE Doomed' /\ script # "verifying" /\ status # "PASSED"
    BY <1>w DEF Exposure
  <2>1. CASE seen.exposed
    <3>1. Doomed /\ script # "verifying" /\ status # "PASSED"
      BY <2>1 DEF IInv, Exposure
    <3> SUFFICES ASSUME Sound PROVE Doomed'
      BY <2>s, <3>1 DEF Doomed
    <3>2. netlog.rows # 0 /\ ~netlog.covers
      BY <3>1 DEF Doomed
    <3>3. PICK since \in 0..MaxDelay : Unrepairable(since)
      BY <3>1 DEF Doomed
    <3> DEFINE later == IF since < MaxDelay THEN since + 1 ELSE MaxDelay
    <3>4. later \in 0..MaxDelay /\ (later = since + 1 \/ later = MaxDelay) /\ later <= since + 1
      OBVIOUS
    <3> HIDE DEF later
    <3>5. netlog'.age >= Gap + 1 + later
      BY <1>a, <1>l, <3>3, <3>4 DEF Unrepairable
    <3>6. ASSUME NEW x \in Samplers,
                 sample'[x] # None, sample'[x].stamped, sample'[x].isolated
          PROVE \/ sample'[x].age <= later
                \/ sample'[x].age >= Gap + 1 + later /\ ~sample'[x].late
      <4>1. /\ sample[x] # None /\ sample[x].stamped /\ sample[x].isolated
            /\ sample'[x].late = sample[x].late /\ sample[x].age \in Nat
            /\ sample'[x].age = sample[x].age + 1 /\ sample[x].age < MaxDelay
        BY <1>x, <3>6
      <4>2. sample[x].age <= since \/ (sample[x].age >= Gap + 1 + since /\ ~sample[x].late)
        BY <3>3, <4>1 DEF Unrepairable
      <4> DEFINE a == sample[x].age
      <4>3. a \in Nat /\ a < MaxDelay /\ sample'[x].age = a + 1
        BY <4>1
      <4>4. CASE a <= since
        <5> HIDE DEF a
        <5> QED  BY <3>4, <4>3, <4>4
      <4>5. CASE a >= Gap + 1 + since /\ ~sample'[x].late
        <5>1. a + 1 >= Gap + 1 + later
          <6> HIDE DEF a
          <6> QED  BY <3>4, <4>3, <4>5
        <5> QED  BY <4>3, <4>5, <5>1
      <4> QED  BY <4>1, <4>2, <4>4, <4>5
    <3>7. Unrepairable(later)'
      BY <3>5, <3>6 DEF Unrepairable
    <3> QED  BY <1>l, <3>2, <3>4, <3>7 DEF Doomed
  <2>2. CASE up > 2 * Gap
    <3>1. up = 2 * Gap + 1 /\ connected /\ Executing
      BY <1>u, <2>2
    <3>2. script # "verifying" /\ status # "PASSED"
      BY <3>1 DEF Executing, IInv, Progress, Places
    <3> SUFFICES ASSUME Sound PROVE Doomed'
      BY <2>s, <3>2 DEF Doomed
    <3>3. /\ netlog.rows # 0 /\ ~netlog.covers /\ sample["script"] = None
          /\ sample["monitor"] # None => ~sample["monitor"].late
      BY <3>1 DEF IInv, Before, Executing, Early, Sound, Samplers
    <3>4. /\ up <= netlog'.age + Gap
          /\ sample'["monitor"] # None /\ sample'["monitor"].isolated =>
               up <= netlog'.age \/ netlog'.age = MaxAge
      BY <1>5, <1>w, <1>e, <2>s, <3>1 DEF Dense, Executing
    <3>5. netlog'.age \in Nat /\ netlog'.age >= Gap + 1
      BY <1>a, <1>l, <3>1, <3>4
    <3>6. sample'["script"] = None
      BY <1>x, <3>3 DEF Samplers
    <3> DEFINE m == sample'["monitor"]
               row == m # None /\ m.stamped /\ m.isolated
    <3>7. row => ~m.late /\ m.age \in 0..MaxDelay
                 /\ (netlog'.age >= 2 * Gap + 1 \/ netlog'.age = MaxAge)
      <4> SUFFICES ASSUME row PROVE ~m.late /\ m.age \in 0..MaxDelay
                 /\ (netlog'.age >= 2 * Gap + 1 \/ netlog'.age = MaxAge)
        OBVIOUS
      <4>1. m \in SampleRecords /\ ~m.late
        BY <1>x, <3>3 DEF Samplers
      <4> QED  BY <1>a, <3>1, <3>4, <3>5, <4>1 DEF SampleRecords
    <3>8. \A since : /\ netlog'.age >= Gap + 1 + since
                     /\ row => m.age <= since \/ (m.age >= Gap + 1 + since /\ ~m.late)
                     => Unrepairable(since)'
      BY <3>6 DEF Unrepairable, Samplers
    <3> HIDE DEF m
    <3>9. CASE ~row \/ m.age >= Gap + 1
      <4>1. Unrepairable(0)'
        BY <3>5, <3>7, <3>8, <3>9
      <4> QED  BY <1>l, <3>3, <4>1 DEF Doomed
    <3>10. CASE row /\ m.age < Gap + 1
      <4>1. m.age \in 0..MaxDelay /\ netlog'.age >= Gap + 1 + m.age
        BY <1>a, <3>5, <3>7, <3>10
      <4>2. PICK since \in 0..MaxDelay : since = m.age
        BY <4>1
      <4>3. Unrepairable(since)'
        BY <3>8, <4>1, <4>2
      <4> QED  BY <1>l, <3>3, <4>3 DEF Doomed
    <3>11. row => m.age \in Nat
      BY <3>7
    <3> QED  BY <3>9, <3>10, <3>11
  <2> QED  BY <1>e, <2>1, <2>2
<1> QED  BY <1>1, <1>2, <1>3, <1>4, <1>5, <1>6 DEF IInv

-----------------------------------------------------------------------------
\* Every state of the run: its type, how far the script is, which samples are on
\* their way, and what the log can still say.
THEOREM Invariance == Spec => []IInv
<1>1. IInv /\ [Next]_vars => IInv'
  <2> SUFFICES ASSUME IInv, [Next]_vars PROVE IInv'
    OBVIOUS
  <2>1. CASE Invoke \/ Return \/ Kill \/ ScriptFails
    BY <2>1, InvokeIInv, ReturnIInv, KillIInv, ScriptFailsIInv
  <2>2. CASE ScriptStep
    BY <2>2, PreflightIInv, StartMonitorIInv, BeginStageIInv, EndStageIInv, FinishStagesIInv,
       WaitForMonitorIInv, CollectIInv, VerifyIInv, FinallyIInv DEF ScriptStep
  <2>3. CASE ProcessWrites \/ ProcessExits \/ Poll
    BY <2>3, ProcessWritesIInv, ProcessExitsIInv, PollIInv
  <2>4. ASSUME NEW x \in Samplers, Stamp(x) \/ Append(x) \/ SnapshotFails(x) PROVE IInv'
    BY <2>4, StampIInv, AppendIInv, SnapshotFailsIInv
  <2>5. CASE MonitorSamples \/ MonitorStops \/ MonitorDies
    BY <2>5, MonitorSamplesIInv, MonitorStopsIInv, MonitorDiesIInv
  <2>6. CASE Plug \/ Tick
    BY <2>6, PlugIInv, TickIInv
  <2>7. CASE UNCHANGED vars
    <3>1. UNCHANGED <<connected, netlog, violation, stop, sample, watch, script, stage, process,
                      watching, status, files, result, elapsed, seen>>
      BY <2>7 DEF vars, network, operator
    <3>2. TypeOK' /\ Progress' /\ Quiet' /\ Before'
      BY <3>1 DEF IInv, TypeOK, Progress, Quiet, Before, Executing
    <3>3. Dense' /\ Exposure'
      BY <3>1 DEF IInv, Dense, Exposure, Executing, Sound, Doomed, Unrepairable
    <3> QED  BY <3>2, <3>3 DEF IInv
  <2> QED  BY <2>1, <2>2, <2>3, <2>4, <2>5, <2>6, <2>7 DEF Next
<1> QED  BY InitIInv, <1>1, PTL DEF Spec

\* Every variable keeps its type.
THEOREM TypeCorrect == Spec => []TypeOK
<1>1. IInv => TypeOK
  BY DEF IInv
<1> QED  BY Invariance, <1>1, PTL

\* The verdict the script writes is true of the whole run, whatever failed, was
\* killed or was invoked again: run_fp001d_offline.ps1's finally block.
THEOREM HonestVerdict == Spec => []VerdictHonest
<1>1. IInv => VerdictHonest
  BY OfflineAssumption DEF IInv, Progress, Quiet, Verdicts, VerdictHonest
<1> QED  BY Invariance, <1>1, PTL

\* validate_observations' bound on the gaps is enough: a run that PASSED was never
\* on the network for more than two gaps.
THEOREM OfflineProved == Spec => []PassedWasOffline
<1>1. IInv => PassedWasOffline
  BY OfflineAssumption DEF IInv, Progress, Exposure, Verdicts, PassedWasOffline
<1> QED  BY Invariance, <1>1, PTL
=============================================================================
