------------------------------- MODULE Sweep -------------------------------
(***************************************************************************)
(* The VRAM experiments: a script starts one vLLM server after another,    *)
(* one per configuration (native or cachegen, a prompt size), waits until  *)
(* the port answers, lets a monitor thread sample the GPU while it sends a *)
(* request, measures what went to disk, stops the server and records a     *)
(* result.  Two of the scripts can be started again and skip what is done. *)
(***************************************************************************)
EXTENDS Integers, Sequences, FiniteSets, FiniteSetsExt, Functions

CONSTANTS
    Plans,        \* what is run, as described at PlanType
    MaxSamples    \* bound on the samples of one monitor

\* script: which program; configs: the mode of each configuration, in order.
\* may: "slow_stop" (a server outlives SIGTERM and the 3 s after it), "slow"
\* (a start takes longer than the wait), "die" (a server dies), "chatty" (a
\* server writes more than a pipe holds), "late" (a measurement takes longer
\* than the 2 s of join), "interrupt" (the script is killed, started again).
PlanType ==
    [script: {"vram", "sweep", "quick", "extended", "highfreq", "full", "logs", "progress",
              "complete"},
     configs: Seq({"native", "cachegen"}),
     may: SUBSET {"slow_stop", "slow", "die", "chatty", "late", "interrupt"}]

VARIABLES
    plan, step, at,   \* the script: where it is, in which configuration
    servers,          \* vLLM processes: configuration, start of the script, state
    orphan,           \* an engine process that outlived its parent
    disk,             \* directory -> configurations whose chunks it holds
    mon,              \* FullVRAMMonitorLoop
    run,              \* what the current experiment has measured so far
    rec, file,        \* results in memory; results on disk
    opened,           \* configuration whose result is being written, or 0
    past              \* history: what went wrong so far, restarts
vars == <<plan, step, at, servers, orphan, disk, mon, run, rec, file, opened, past>>

-----------------------------------------------------------------------------
(* The scripts.  first, last: how servers are killed before the start and   *)
(* after the measurement; fail: at a start that failed; reports: a failed    *)
(* start has a result; clears: the cache directory is really emptied; pipe:  *)
(* the server's output goes to a pipe; resume: results skipped next time.    *)

Vram == [first |-> "term", last |-> "term", fail |-> "none", reports |-> TRUE, clears |-> TRUE,
         pipe |-> FALSE, monitors |-> TRUE, resume |-> {}]
SweepExperiment == Vram
QuickTest == [Vram EXCEPT !.first = "kill", !.reports = FALSE]
ExtendedTest == QuickTest
HighFreqTest == QuickTest
Full == [first |-> "kill", last |-> "proc", fail |-> "proc", reports |-> TRUE, clears |-> TRUE,
         pipe |-> FALSE, monitors |-> FALSE, resume |-> {"ok"}]
WithLogs == [Full EXCEPT !.first = "all", !.reports = FALSE, !.clears = FALSE, !.resume = {}]
\* rm runs in a shell that gets no arguments: nothing is removed.
Progress == [first |-> "none", last |-> "all", fail |-> "proc", reports |-> TRUE, clears |-> FALSE,
             pipe |-> TRUE, monitors |-> FALSE, resume |-> {"ok", "fail"}]
Complete == [Progress EXCEPT !.reports = FALSE, !.resume = {}]
Scripts ==
    [vram |-> Vram, sweep |-> SweepExperiment, quick |-> QuickTest, extended |-> ExtendedTest,
     highfreq |-> HighFreqTest, full |-> Full, logs |-> WithLogs, progress |-> Progress,
     complete |-> Complete]
Script == Scripts[plan.script]
May(m) == m \in plan.may
Configs == DOMAIN plan.configs

\* Where a server writes, and where the script looks and clears: native runs
\* with remote_serde torch, in a directory of that name.
WritesTo(m) == IF m = "native" THEN "torch" ELSE "cachegen"
LooksAt(m) == IF Script.pipe THEN WritesTo(m) ELSE m

-----------------------------------------------------------------------------
(* The GPU and the monitor.  VRAM is counted in units of which a loading    *)
(* server holds 20, one that is ready 60 (20 of them the KV cache), one     *)
(* with a request 80, an engine without its parent 20.                      *)

Holds(s) == CASE s.st = "loading" -> 20 [] s.st = "busy" -> 80 [] OTHER -> 60
UsedVram == MapThenSumSet(Holds, servers) + (IF orphan THEN 20 ELSE 0)
Bound == {s \in servers : s.st \in {"ready", "busy", "stopping"}}
Answers == {s \in Bound : s.st # "busy"}
\* /metrics: the KV cache of the server that answers, how much of it is used.
KvStats == IF Bound = {} THEN [alloc |-> 0, num |-> 0]
           ELSE [alloc |-> 20, num |-> IF \E s \in Bound : s.st = "busy" THEN 1 ELSE 0]

AtLeast0(x) == IF x < 0 THEN 0 ELSE x
NoBase == [used |-> -1, kv |-> 0, act |-> 0, cuda |-> 0]

\* FullVRAMMonitor.measure of run_vram_experiment.  The usage ratio is num / 2.
\* torch is that of the script, which holds no tensor: activations are 0.
MeasureVram(used, kv, base) ==
    LET placed == kv.alloc > 0 /\ kv.alloc <= used
        model == IF base # NoBase THEN (IF base.kv <= base.used THEN base.used - base.kv ELSE base.used)
                 ELSE IF placed THEN used - kv.alloc ELSE (used * 15) \div 20
        kvUsed == IF base # NoBase \/ placed
                  THEN (IF kv.num > 0 THEN (kv.alloc * kv.num) \div 2 ELSE kv.alloc)
                  ELSE (used * 3) \div 20
        cuda == IF base # NoBase \/ placed THEN AtLeast0(used - model - kvUsed) ELSE (used * 2) \div 20
    IN  [used |-> used, kv |-> kv.alloc, act |-> 0, cuda |-> cuda, sum |-> model + kvUsed + cuda]

\* That of run_sweep_experiment: weights 20 and runtime 5 are estimates, what
\* the baseline had stays.  Used blocks are all blocks: num_gpu_blocks_free is
\* not among the metrics.
MeasureSweep(used, kv, base) ==
    LET weights == IF base = NoBase /\ kv.alloc = 0 THEN 0 ELSE 20
        act == IF base # NoBase THEN base.act
               ELSE IF kv.alloc > 0 THEN AtLeast0(used - kv.alloc - 25) ELSE 0
        cuda == IF base # NoBase THEN base.cuda ELSE IF kv.alloc > 0 THEN 5 ELSE 0
    IN  [used |-> used, kv |-> kv.alloc, act |-> act, cuda |-> cuda,
         sum |-> weights + kv.alloc + act + cuda]
Measure(used, kv, base) ==
    IF plan.script = "vram" THEN MeasureVram(used, kv, base) ELSE MeasureSweep(used, kv, base)
Baseline(s) == [used |-> s.used, kv |-> s.kv, act |-> s.act, cuda |-> s.cuda]

\* running; pending: the measurement under way; samples seen so far: their
\* number, the largest use and the largest increase, and the last one.
MonOff == [running |-> FALSE, alive |-> FALSE, base |-> NoBase, pending |-> -1, sum |-> 0,
           n |-> 0, max |-> 0, rise |-> 0, last |-> -1, diff |-> FALSE]
NewRun == [of |-> 0, server |-> 0, gen |-> 0, before |-> 0, ok |-> FALSE, wrote |-> FALSE, n |-> 0]

Init ==
    /\ plan \in Plans
    /\ step = "pick" /\ at = 1
    /\ servers = {} /\ orphan = FALSE
    /\ disk = [d \in {"native", "torch", "cachegen"} |-> {}]
    /\ mon = MonOff /\ run = NewRun
    /\ rec = [c \in {} |-> NewRun] /\ file = [c \in Configs |-> "none"] /\ opened = 0
    /\ past = [outlived |-> FALSE, died |-> FALSE, torn |-> FALSE, late |-> FALSE,
               stale |-> FALSE, kept |-> {}, starts |-> 1]

GPU == <<servers, orphan>>
Results == <<rec, file, opened>>
Goto(s) == step' = s /\ UNCHANGED <<plan, at>>

-----------------------------------------------------------------------------
(* One configuration after the other.                                       *)

Skipped(c) == file[c] \in Script.resume

OldRun(c) == [NewRun EXCEPT !.of = -1, !.ok = file[c] = "ok"]
\* A configuration that is done: its result is taken from the file.
Skip ==
    /\ step = "pick" /\ at <= Len(plan.configs) /\ Skipped(at)
    /\ at' = at + 1
    /\ rec' = [c \in DOMAIN rec \cup {at} |-> IF c = at THEN OldRun(c) ELSE rec[c]]
    /\ UNCHANGED <<plan, step, GPU, disk, mon, run, file, opened, past>>

\* pkill with SIGTERM, a wait of 3 s.
Terminate(slow) ==
    IF slow THEN servers' = {[s EXCEPT !.st = "stopping"] : s \in servers} /\ UNCHANGED orphan
    ELSE servers' = {} /\ UNCHANGED orphan
\* Mutant: servers of earlier configurations are left alone.
StopServersNone(how) == UNCHANGED <<servers, orphan, past>>
\* The process that was started for the current configuration.
Proc == {s \in servers : s.of = at /\ s.gen = past.starts}
\* How a script gets rid of its servers.  "proc": Popen.kill reaches only the
\* process itself, its engine stays; "kill" reaches both.
StopServers(how) ==
    CASE how = "none" -> UNCHANGED <<servers, orphan, past>>
      [] how = "term" ->
            \E slow \in (IF May("slow_stop") /\ servers # {} THEN BOOLEAN ELSE {FALSE}) :
                /\ Terminate(slow)
                /\ past' = [past EXCEPT !.outlived = @ \/ slow]
      [] how = "kill" -> servers' = {} /\ orphan' = FALSE /\ UNCHANGED past
      [] how = "all" -> servers' = {} /\ UNCHANGED <<orphan, past>>
      [] how = "proc" ->
            /\ servers' = servers \ Proc
            /\ orphan' = (orphan \/ Proc # {}) /\ UNCHANGED past

\* The directory is emptied first, then the servers are stopped; run_full_sweep
\* and the probes do it the other way round.
Prepare ==
    /\ step = "pick" /\ at <= Len(plan.configs) /\ ~Skipped(at)
    /\ run' = [NewRun EXCEPT !.of = at]
    /\ disk' = IF Script.clears THEN [disk EXCEPT ![LooksAt(plan.configs[at])] = {}] ELSE disk
    /\ StopServers(Script.first)
    /\ mon' = MonOff
    /\ Goto("launch") /\ UNCHANGED Results
Launch ==
    /\ step = "launch"
    /\ servers' = servers \cup {[of |-> at, gen |-> past.starts, st |-> "loading"]}
    /\ Goto("wait") /\ UNCHANGED <<orphan, disk, mon, run, Results, past>>

\* wait_for_vllm: whoever answers on the port counts.
Ready ==
    /\ step = "wait" /\ Answers # {}
    /\ \E s \in Answers :
          run' = [run EXCEPT !.server = s.of, !.gen = s.gen,
                             !.before = Cardinality(disk[LooksAt(plan.configs[at])])]
    /\ Goto(IF Script.monitors THEN "monitor" ELSE "request")
    /\ UNCHANGED <<GPU, disk, mon, Results, past>>
\* Mutant: the wait goes on as long as the process lives.
NotReadyDead ==
    /\ step = "wait" /\ Answers = {}
    /\ Proc = {}
    /\ StopServers(Script.fail)
    /\ rec' = IF ~Script.reports THEN rec
              ELSE [c \in DOMAIN rec \cup {at} |-> IF c = at THEN run ELSE rec[c]]
    /\ Goto("save") /\ UNCHANGED <<disk, mon, run, file, opened>>
\* The wait ends without an answer: an error result in some scripts.
NotReady ==
    /\ step = "wait" /\ Answers = {}
    /\ May("slow") \/ \A s \in Proc : s.st = "stuck"
    /\ StopServers(Script.fail)
    /\ rec' = IF ~Script.reports THEN rec
              ELSE [c \in DOMAIN rec \cup {at} |-> IF c = at THEN run ELSE rec[c]]
    /\ Goto("save") /\ UNCHANGED <<disk, mon, run, file, opened>>

-----------------------------------------------------------------------------
(* The experiment.                                                          *)

StartMonitor ==
    /\ step = "monitor"
    /\ mon' = [MonOff EXCEPT !.running = TRUE, !.alive = TRUE,
                             !.base = Baseline(Measure(UsedVram, KvStats, NoBase))]
    /\ Goto("request") /\ UNCHANGED <<GPU, disk, run, Results, past>>

\* _monitor_loop: nvidia-smi and /metrics are asked, then the sample is added.
Sample ==
    /\ mon.running /\ mon.pending < 0 /\ mon.n < MaxSamples
    /\ mon' = [mon EXCEPT !.pending = UsedVram, !.sum = Measure(UsedVram, KvStats, mon.base).sum]
    /\ UNCHANGED <<plan, step, at, GPU, disk, run, Results, past>>
AddSample ==
    /\ mon.alive /\ mon.pending >= 0
    /\ mon' = [mon EXCEPT !.pending = -1, !.n = @ + 1, !.last = mon.pending,
                          !.max = IF mon.pending > @ THEN mon.pending ELSE @,
                          !.rise = IF mon.pending - mon.base.used > @
                                   THEN mon.pending - mon.base.used ELSE @,
                          !.diff = @ \/ mon.sum # mon.pending]
    /\ UNCHANGED <<plan, step, at, GPU, disk, run, Results, past>>

Request ==
    /\ step = "request"
    /\ servers' = {IF s \in Answers /\ s.of = run.server /\ s.gen = run.gen
                   THEN [s EXCEPT !.st = "busy"] ELSE s : s \in servers}
    /\ Goto("reply") /\ UNCHANGED <<orphan, disk, mon, run, Results, past>>
\* The server writes the chunks of the prompt and answers.
Reply ==
    /\ step = "reply"
    /\ \E s \in servers :
          /\ s.st = "busy"
          /\ servers' = (servers \ {s}) \cup {[s EXCEPT !.st = "ready"]}
          /\ disk' = [disk EXCEPT ![WritesTo(plan.configs[s.of])] = @ \cup {s.of}]
    /\ run' = [run EXCEPT !.ok = TRUE, !.wrote = TRUE]
    /\ Goto("settle") /\ UNCHANGED <<orphan, mon, Results, past>>
\* No answer within the timeout of the request, or none at all.
NoReply ==
    /\ step = "reply" /\ \A s \in servers : s.st # "busy"
    /\ Goto("settle") /\ UNCHANGED <<GPU, disk, mon, run, Results, past>>

\* monitor.stop: join waits 2 s for a measurement that may take 10 s.
StopMonitor ==
    /\ step = "settle"
    /\ mon.pending >= 0 => May("late")
    /\ mon' = [mon EXCEPT !.running = FALSE, !.alive = mon.pending >= 0]
    /\ past' = [past EXCEPT !.late = @ \/ mon.pending >= 0]
    /\ Goto("samples") /\ UNCHANGED <<GPU, disk, run, Results>>
\* get_samples.
Samples ==
    /\ step = "samples"
    /\ run' = [run EXCEPT !.n = mon.n]
    /\ Goto("stats") /\ UNCHANGED <<GPU, disk, mon, Results, past>>

\* What was offloaded: the growth of the directory, or all of it.
Offloaded ==
    LET now == Cardinality(disk[LooksAt(plan.configs[at])])
    IN  IF Script.clears THEN now - run.before ELSE now
\* The peak: get_stats takes the largest sample; run_sweep_experiment adds the
\* largest increase to the last sample (to the baseline if there is none).
Peak == IF plan.script = "vram" THEN mon.max
        ELSE (IF mon.last < 0 THEN mon.base.used ELSE mon.last) + mon.rise
Result ==
    [of |-> at, server |-> run.server, gen |-> run.gen, ok |-> run.ok, wrote |-> run.wrote, off |-> Offloaded,
     n |-> run.n, stat |-> mon.n, peak |-> Peak, max |-> mon.max, diff |-> mon.diff]
\* get_stats, the disk, stop_vllm, the result.
Finish ==
    /\ step = "stats"
    /\ rec' = [c \in DOMAIN rec \cup {at} |-> IF c = at THEN Result ELSE rec[c]]
    /\ StopServers(Script.last)
    /\ Goto("save") /\ UNCHANGED <<disk, mon, run, file, opened>>

-----------------------------------------------------------------------------
(* Results on disk.                                                         *)

\* run_full_sweep has a file for each configuration, run_sweep one for all; a
\* file is emptied when it is opened.
Outcome(c) == IF rec[c].ok \/ (plan.script = "progress" /\ rec[c].server # 0) THEN "ok" ELSE "fail"
OpenFile ==
    /\ step = "save" /\ opened = 0 /\ Script.resume # {}
    /\ opened' = at
    /\ file' = IF plan.script = "progress" THEN [c \in Configs |-> "none"]
               ELSE [file EXCEPT ![at] = "none"]
    /\ UNCHANGED <<plan, step, at, GPU, disk, mon, run, rec, past>>
\* What the file holds once it is written.
Written ==
    IF plan.script = "progress"
    THEN [c \in Configs |-> IF c \in DOMAIN rec THEN Outcome(c)
                            ELSE "none"]
    ELSE [file EXCEPT ![at] = Outcome(at)]
WriteFile ==
    /\ step = "save" /\ opened # 0
    /\ file' = Written /\ opened' = 0
    /\ past' = [past EXCEPT !.kept = @ \cup {c \in {at} : Outcome(c) = "ok"}]
    /\ step' = "pick" /\ at' = at + 1
    /\ UNCHANGED <<plan, GPU, disk, mon, run, rec>>
\* The other scripts keep their results in memory until the end.
KeepInMemory ==
    /\ step = "save" /\ Script.resume = {}
    /\ step' = "pick" /\ at' = at + 1
    /\ UNCHANGED <<plan, GPU, disk, mon, run, Results, past>>
End ==
    /\ step = "pick" /\ at > Len(plan.configs)
    /\ Goto("end") /\ UNCHANGED <<GPU, disk, mon, run, Results, past>>

-----------------------------------------------------------------------------
(* The servers, which are not the script's own.                             *)

\* Loaded: the port must be free, and the GPU.
ServerReady(s) ==
    /\ s \in servers /\ s.st = "loading"
    /\ servers' = (servers \ {s}) \cup (IF Bound = {} /\ ~orphan THEN {[s EXCEPT !.st = "ready"]} ELSE {})
    /\ past' = [past EXCEPT !.died = @ \/ Bound # {} \/ orphan]
    /\ UNCHANGED <<plan, step, at, orphan, disk, mon, run, Results>>
ServerDies(s) ==
    /\ s \in servers /\ (s.st = "stopping" \/ May("die"))
    /\ servers' = servers \ {s}
    /\ past' = [past EXCEPT !.died = TRUE]
    /\ UNCHANGED <<plan, step, at, orphan, disk, mon, run, Results>>
\* Its output goes to a pipe that nobody reads.
ServerBlocks(s) ==
    /\ s \in servers /\ Script.pipe /\ May("chatty") /\ s.st \in {"loading", "ready", "busy"}
    /\ servers' = (servers \ {s}) \cup {[s EXCEPT !.st = "stuck"]}
    /\ UNCHANGED <<plan, step, at, orphan, disk, mon, run, Results, past>>

\* The script is killed and started again; its servers go on.
Interrupt ==
    /\ May("interrupt") /\ past.starts = 1 /\ step # "end"
    /\ step' = "pick" /\ at' = 1
    /\ mon' = MonOff /\ run' = NewRun /\ opened' = 0
    /\ rec' = IF plan.script # "progress" THEN [c \in {} |-> NewRun]
              ELSE [c \in {x \in Configs : file[x] # "none"} |-> OldRun(c)]
    /\ past' = [past EXCEPT !.starts = 2, !.torn = opened # 0,
                            !.stale = servers # {}]
    /\ servers' = {IF s.st = "busy" THEN [s EXCEPT !.st = "ready"] ELSE s : s \in servers}
    /\ UNCHANGED <<plan, orphan, disk, file>>

Script_ ==
    \/ Skip \/ Prepare \/ Launch \/ Ready \/ NotReady \/ StartMonitor \/ Request \/ Reply
    \/ NoReply \/ StopMonitor \/ Samples \/ Finish \/ OpenFile \/ WriteFile \/ KeepInMemory \/ End
Servers_ == \E s \in servers : ServerReady(s) \/ ServerDies(s) \/ ServerBlocks(s)
Next == Script_ \/ Sample \/ AddSample \/ Servers_ \/ Interrupt
Spec == Init /\ [][Next]_vars
\* The script goes on, so does its monitor thread, and a server either answers
\* or is given up by the timeouts of the script.
ScriptStep == Script_ \/ AddSample \/ \E s \in servers : ServerReady(s)
FairSpec == Spec /\ WF_vars(ScriptStep)

-----------------------------------------------------------------------------
(* Properties.                                                              *)

Measured == {c \in DOMAIN rec : rec[c].of = c /\ rec[c].server # 0}
\* The server that was measured is the one that was started for the
\* configuration: wait_for_vllm asks the port only.  A server that outlives
\* SIGTERM or an interrupted script can take its place.
OwnServer ==
    \A c \in Measured :
        (rec[c].server = c /\ rec[c].gen = past.starts) \/ past.outlived \/ past.stale
\* What a cachegen result says went to disk is what its server wrote there.
OffloadRight ==
    \A c \in Measured : plan.configs[c] = "cachegen" /\ Script.clears /\ rec[c].server = c
                        /\ ~past.stale => rec[c].off = (IF rec[c].wrote THEN 1 ELSE 0)
\* get_samples and get_stats count the same samples unless the monitor thread
\* outlived its join, and the peak is never below a sample unless a server died meanwhile.
SamplesRight ==
    \A c \in Measured : Script.monitors =>
        /\ rec[c].n = rec[c].stat \/ past.late
        /\ rec[c].peak >= rec[c].max \/ past.died
\* "sum = nvidia-smi used" in run_vram_experiment, while servers come and go
\* only as the script wants.
SumsRight ==
    plan.script = "vram" /\ ~past.died /\ ~past.outlived /\ ~past.stale =>
        \A c \in Measured : ~rec[c].diff
\* Every result says what happened to the server of its configuration.
ResultsRight == OwnServer /\ OffloadRight /\ SamplesRight /\ SumsRight

\* A result that was written is never lost or run again, whenever the script is
\* interrupted; only run_sweep, which rewrites one file, loses all results when
\* it is interrupted in save_progress.  A sweep that ends has every result.
ProgressKept ==
    /\ (\A c \in past.kept : file[c] = "ok") \/ (plan.script = "progress" /\ (past.torn \/ opened # 0))
    /\ step = "end" /\ Script.reports => DOMAIN rec = Configs

\* Every sweep ends: no server, no monitor and no pipe holds it for ever.
SweepEnds == []<>(step = "end")
=============================================================================
