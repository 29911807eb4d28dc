------------------------------ MODULE Service ------------------------------
(***************************************************************************)
(* The service from its start to its end (src/service/src/main.rs and      *)
(* ProcessingPipeline::run): service_main under the service control        *)
(* manager or the console loop, the broadcast of the stop, the threads of  *)
(* the pipeline that look at the shutdown flag, and with them the rotation *)
(* of the capture filter and the tasks that keep the routing's settings.   *)
(*                                                                         *)
(* The manager, the console and the async runtime are external.  A stop    *)
(* reaches the receivers that are subscribed when it is sent.  Dropping    *)
(* the runtime cancels a task where it waits, but not inside a join.  When *)
(* the manager is told STOPPED the dispatcher returns in main, and the     *)
(* process ends with all its threads.  A receive returns only with         *)
(* packets; those FilterRotation does not count come at any time.          *)
(***************************************************************************)
EXTENDS FilterRotation, Settings

CONSTANTS Deployments,  \* how it may be launched, and which of its parts are in use
          StartMayFail  \* TRUE iff the configuration or the driver may not load

Parts == {"auto_probe", "domains_file", "api", "traffic", "sentinel"}

ASSUME ServiceAssumption ==
  /\ Deployments \subseteq [launch : {"scm", "console"}, parts : SUBSET Parts]
  /\ StartMayFail \in BOOLEAN

VARIABLES
  launch,   \* how the process was launched
  inUse,    \* the part of the configuration that matters here
  boot,     \* where the starting, and later the ending, process is
  scm,      \* what the service control manager has been told
  run,      \* the task of ProcessingPipeline::run
  receivers, \* those subscribed to the stop
  inbox,    \* those who have it
  stopped,  \* TRUE once a stop was asked for
  flag,     \* shutdown_flag
  threads,  \* the pipeline's threads that run
  sentinel  \* the sentinel: whether its file is there and what its flag says

lifeVars == <<launch, inUse, boot, scm, run, receivers, inbox, stopped, flag, threads, sentinel>>
serviceVars == <<vars, settingsVars, lifeVars>>

\* The shards' threads and the one that evicts sequence gaps look at the flag alike.
Workers == {"capture", "shards"}
Serving == boot \in {"subscribe", "wait", "dropping"}
Ended == boot = "ended"

\* The network and the file vary only where they are in use.
ServiceInit ==
  /\ Init /\ SettingsInit
  /\ \E d \in Deployments : launch = d.launch /\ inUse = d.parts
  /\ "auto_probe" \notin inUse => net = CHOOSE n \in Networks : TRUE
  /\ "domains_file" \notin inUse => file.text = {}
  /\ boot = IF launch = "scm" THEN "report" ELSE "config"
  /\ scm = "START_PENDING" /\ run = "none"
  /\ receivers = {} /\ inbox = {} /\ stopped = FALSE /\ flag = FALSE
  /\ threads = {}
  /\ sentinel = [file |-> FALSE, running |-> FALSE]

-----------------------------------------------------------------------------
(* The start.                                                              *)

Boot(from, to) == boot = from /\ boot' = to /\ UNCHANGED <<vars, settingsVars, launch, inUse>>

\* RUNNING is reported before anything has been read or started.
ReportRunning ==
  /\ Boot("report", "channel")
  /\ scm' = "RUNNING"
  /\ UNCHANGED <<run, receivers, inbox, stopped, flag, threads, sentinel>>

CreateChannel ==
  /\ Boot("channel", "config")
  /\ UNCHANGED <<scm, run, receivers, inbox, stopped, flag, threads, sentinel>>

\* ServiceEngine::new creates the sentinel's file.
LoadConfig ==
  /\ Boot("config", "start")
  /\ sentinel' = [file |-> TRUE, running |-> TRUE]
  /\ UNCHANGED <<scm, run, receivers, inbox, stopped, flag, threads>>

LoadConfigFails ==
  /\ StartMayFail /\ Boot("config", "ended")
  /\ scm' = IF launch = "scm" THEN "STOPPED" ELSE scm
  /\ UNCHANGED <<run, receivers, inbox, stopped, flag, threads, sentinel>>

\* Without the driver there is no pipeline: the API runs alone.
run_service ==
  /\ Boot("start", IF launch = "scm" THEN "subscribe" ELSE "wait")
  /\ run' \in {"spawned"} \cup (IF StartMayFail THEN {"none"} ELSE {})
  /\ UNCHANGED <<scm, receivers, inbox, stopped, flag, threads, sentinel>>

\* Only now does service_main listen for the stop.
Subscribe ==
  /\ Boot("subscribe", "wait")
  /\ receivers' = receivers \cup {"main"}
  /\ UNCHANGED <<scm, run, inbox, stopped, flag, threads, sentinel>>

-----------------------------------------------------------------------------
(* ProcessingPipeline::run.                                                *)

RunTask(from, to) ==
  /\ Serving /\ run = from /\ run' = to
  /\ UNCHANGED <<vars, settingsVars, launch, inUse, boot, scm, stopped, sentinel>>

SpawnThreads ==
  /\ RunTask("spawned", "listening")
  /\ receivers' = receivers \cup {"governor"}
  /\ threads' = Workers
  /\ UNCHANGED <<inbox, flag>>

\* The receiver is made at the end: it hears only what is sent from now on.
Listen ==
  /\ RunTask("listening", "waiting")
  /\ receivers' = receivers \cup {"run"}
  /\ UNCHANGED <<inbox, flag, threads>>

\* It is sent the stop, or, in the console, learns that the sender is gone.
Heard(receiver) ==
  receiver \in inbox \/ (receiver \in receivers /\ launch = "console" /\ boot = "dropping")

SetFlag ==
  /\ Heard("run") /\ RunTask("waiting", "joining")
  /\ flag' = TRUE
  /\ UNCHANGED <<receivers, inbox, threads>>

Joined ==
  /\ threads = {} /\ RunTask("joining", "done")
  /\ UNCHANGED <<receivers, inbox, flag, threads>>

\* A thread looks at the flag between two pieces of work; the capture thread's may be a
\* receive that has not returned.
ThreadExit(t) ==
  /\ ~Ended /\ flag /\ t \in threads
  /\ t = "capture" => guard = 0
  /\ threads' = threads \ {t}
  /\ UNCHANGED <<vars, settingsVars, launch, inUse, boot, scm, run, receivers, inbox, stopped,
                 flag, sentinel>>

-----------------------------------------------------------------------------
(* Traffic, and what the other tasks do meanwhile.                         *)

ReadsRegardless == "capture" \in threads  \* variant: a loop that never looks at the flag
Reads == "capture" \in threads /\ ~flag

\* The driver captures once there is a pipeline.  A receive under way ends with packets; a
\* new one begins only while the flag is down.
Capture ==
  /\ ~Ended /\ "traffic" \in inUse
  /\ \/ Reads /\ Load
     \/ \E n \in 1 .. RecvBatch : ReadBatch(n)
     \/ run # "none" /\ Arrive
  /\ UNCHANGED <<settingsVars, lifeVars>>

\* The receive returns with packets that are not counted here.
ReturnWithOthers ==
  /\ ~Ended /\ guard # 0 /\ kqueue[guard] = <<>>
  /\ ReleaseGuard(kqueue)
  /\ UNCHANGED <<mode, dwell, filterOf, opened, divert, updating, arrived, read, failures,
                 settingsVars, lifeVars>>

\* The governor ends at the stop, never in the middle of a rotation.
Govern ==
  /\ ~Ended /\ "traffic" \in inUse
  /\ "governor" \in receivers /\ (Heard("governor") => updating)
  /\ Governor
  /\ UNCHANGED <<settingsVars, lifeVars>>

\* Tasks of start_stats_loop exist only with a pipeline and while the runtime lives.
TaskRuns(part) == part \in inUse /\ boot \in {"subscribe", "wait"} /\ run # "none"

Watcher == TaskRuns("domains_file") /\ WatcherStep /\ UNCHANGED <<vars, lifeVars>>

Settle ==
  /\ \/ TaskRuns("domains_file") /\ (EditFile \/ RemoveFile)
     \/ TaskRuns("api") /\ (geoblock_edit \/ \E q \in Requests : ProxyStep(q))
     \/ TaskRuns("auto_probe") /\ (Probing \/ Conclude)
  /\ UNCHANGED <<vars, lifeVars>>

\* The sentinel's monitor notices that the file is gone; nothing asks it.
SentinelStep ==
  /\ Serving /\ "sentinel" \in inUse
  /\ \/ sentinel.file /\ sentinel' = [sentinel EXCEPT !.file = FALSE]
     \/ ~sentinel.file /\ sentinel.running /\ sentinel' = [sentinel EXCEPT !.running = FALSE]
  /\ UNCHANGED <<vars, settingsVars, launch, inUse, boot, scm, run, receivers, inbox, stopped,
                 flag, threads>>

-----------------------------------------------------------------------------
(* The stop and the end.                                                   *)

\* The handler sends the stop if there is a channel by now, and reports STOPPED.
service_control_handler ==
  /\ launch = "scm" /\ ~stopped /\ ~Ended /\ scm = "RUNNING"
  /\ stopped' = TRUE
  /\ inbox' = IF boot # "channel" THEN receivers ELSE inbox
  /\ scm' = "STOPPED"
  /\ UNCHANGED <<vars, settingsVars, launch, inUse, boot, run, receivers, flag, threads,
                 sentinel>>

\* Ctrl+C ends the process at once until run_foreground waits for it.
CtrlC ==
  /\ launch = "console" /\ ~stopped /\ ~Ended
  /\ stopped' = TRUE
  /\ inbox' = IF boot = "wait" THEN receivers ELSE inbox
  /\ boot' = IF boot = "wait" THEN "dropping" ELSE "ended"
  /\ UNCHANGED <<vars, settingsVars, launch, inUse, scm, run, receivers, flag, threads,
                 sentinel>>

\* block_on returns; STOPPED is reported before the runtime is dropped.
StopHeard ==
  /\ "main" \in inbox
  /\ Boot("wait", "dropping")
  /\ scm' = "STOPPED"
  /\ UNCHANGED <<run, receivers, inbox, stopped, flag, threads, sentinel>>

\* The runtime is dropped while the task waits, or before it first ran.
CancelRun ==
  /\ boot = "dropping" /\ run \in {"spawned", "listening", "waiting"}
  /\ run' = "none"
  /\ UNCHANGED <<vars, settingsVars, launch, inUse, boot, scm, receivers, inbox, stopped, flag,
                 threads, sentinel>>

\* The engine, with the sentinel in it, is dropped only on a return from main.
End ==
  /\ Boot("dropping", "ended")
  /\ run \in {"none", "done"}
  /\ sentinel' = [sentinel EXCEPT !.file = FALSE]
  /\ UNCHANGED <<scm, run, receivers, inbox, stopped, flag, threads>>

\* StartServiceCtrlDispatcherW returns and main ends the process.
DispatcherReturns ==
  /\ launch = "scm" /\ scm = "STOPPED" /\ ~Ended
  /\ boot' = "ended"
  /\ UNCHANGED <<vars, settingsVars, launch, inUse, scm, run, receivers, inbox, stopped, flag,
                 threads, sentinel>>

-----------------------------------------------------------------------------
Start == \/ ReportRunning \/ CreateChannel \/ LoadConfig \/ LoadConfigFails \/ run_service
         \/ Subscribe
Pipeline == SpawnThreads \/ Listen \/ SetFlag \/ Joined \/ \E t \in Workers : ThreadExit(t)
Finish == StopHeard \/ CancelRun \/ End \/ DispatcherReturns

ServiceNext ==
  \/ Start \/ Pipeline \/ Capture \/ ReturnWithOthers \/ Govern \/ Watcher \/ Settle
  \/ SentinelStep
  \/ service_control_handler \/ CtrlC \/ Finish

ServiceSpec == ServiceInit /\ [][ServiceNext]_serviceVars

\* Tasks and threads that can go on do so, and packets keep coming in.
FairService ==
  /\ ServiceSpec
  /\ WF_serviceVars(Start) /\ WF_serviceVars(Pipeline) /\ WF_serviceVars(Finish)
  /\ WF_serviceVars(ReturnWithOthers) /\ WF_serviceVars(Capture)
  /\ WF_serviceVars(Watcher)

-----------------------------------------------------------------------------
(* Properties.                                                             *)

\* A stop, whenever it is asked for, ends the process: whoever missed the broadcast and
\* whatever the capture thread is doing, as long as packets keep coming in.
StopEnds == stopped ~> Ended

\* An edit of the domains file made after the watcher has first noted its time is read,
\* or a later one is, unless the file goes, cannot be read, or the service stops.
EditIsLoaded ==
  \A e \in 1 .. EditBound :
    watcher.at # "start" /\ watcher.seen < e /\ file.time = e
      ~> loaded >= e \/ ~file.there \/ watcher.failed \/ stopped

\* What the service manager is told to have stopped no longer captures.
StoppedMeansStopped == scm = "STOPPED" => threads = {}

\* Deleting the sentinel's file stops the engine.
SentinelStops == Serving /\ ~sentinel.file ~> flag \/ Ended
=============================================================================
