-------------------------- MODULE ReadinessMonitor --------------------------
(***************************************************************************)
(* The runtime readiness monitor: the watchdog asks a collector task for   *)
(* fresh platform evidence (llps_readiness_monitor_worker.c) and stops the *)
(* server when the evidence is bad or does not come in time (llps_state.c, *)
(* llps_readiness_runtime_monitor_tick).  Collecting is a blocking call    *)
(* that may take any time; the watchdog never waits for it.                *)
(*                                                                         *)
(* A step is what a task does between two suspension points.  The server   *)
(* runs once per process, with require_readiness set.  Evidence is good or *)
(* bad; the failure masks and the counters are left out.  Time is the age  *)
(* of the last request, in watchdog intervals, up to the timeout.          *)
(***************************************************************************)
EXTENDS Integers

CONSTANTS
  Timeout,      \* LLPS_READINESS_RUNTIME_MONITOR_WORKER_TIMEOUT_NS
  GenMax,       \* the largest generation (UINT64_MAX in the code)
  SendMayFail   \* llam_channel_send may fail on an open channel

ASSUME ReadinessAssumption ==
  /\ Timeout \in Nat
  /\ GenMax \in Nat \ {0}
  /\ SendMayFail \in BOOLEAN

VARIABLES
  chan,      \* request_channel: "none", "open" or "closed"
  msg,       \* the channel of capacity 1 holds a message
  started,   \* collector_started
  pending,   \* request_pending
  busy,      \* worker_busy
  reqGen,    \* request_generation
  resGen,    \* result_generation
  conGen,    \* consumed_generation
  resValid,  \* result_valid
  resOk,     \* result_status = LLPS_OK
  age,       \* clock minus request_time_ns, at most Timeout + 1
  col,       \* the collector task
  colGen,    \* its generation
  wd,        \* the watchdog task
  srv,       \* the server task
  stop       \* the shutdown flag

requestVars == <<msg, pending, reqGen, age>>
resultVars == <<resGen, resValid, resOk>>
collectorVars == <<col, colGen, busy, started>>
vars == <<requestVars, resultVars, collectorVars, chan, conGen, wd, srv, stop>>

Gens == 0..GenMax
ColPcs == {"none", "recv", "collect", "ended"}
WdPcs == {"none", "top", "tick", "pass", "fail", "sleep", "done"}
SrvPcs == {"start", "serve", "done"}

-----------------------------------------------------------------------------
(* The server task *)

\* Mutant of WorkerStop: the channel stays open.
WorkerStopNot == UNCHANGED chan

\* llps_readiness_runtime_monitor_worker_stop
WorkerStop == chan' = IF chan = "none" THEN "none" ELSE "closed"

\* llps_readiness_runtime_monitor_worker_start succeeds, and so do the spawn
\* options and the watchdog; or one of those two fails and the server cleans
\* up, leaving a watchdog only if its detach failed.
ServerStart ==
  /\ srv = "start"
  /\ col' = "recv" /\ started' = TRUE
  /\ \/ srv' = "serve" /\ wd' = "top" /\ chan' = "open" /\ UNCHANGED stop
     \/ srv' = "done" /\ wd' \in {"none", "top"} /\ chan' = "closed" /\ stop' = TRUE
  /\ UNCHANGED <<requestVars, resultVars, colGen, busy, conGen>>

\* The worker could not be started.  A collector that could not be detached
\* finds its channel closed.
ServerStartFails ==
  /\ srv = "start"
  /\ srv' = "done" /\ stop' = TRUE
  /\ \/ chan' = "none" /\ UNCHANGED col
     \/ chan' = "closed" /\ col' = "recv"
  /\ UNCHANGED <<requestVars, resultVars, colGen, busy, started, conGen, wd>>

\* llps_run_server leaves its loop, for the flag or for a fault of its own:
\* llps_server_cleanup.
ServerStops ==
  /\ srv = "serve"
  /\ srv' = "done" /\ stop' = TRUE
  /\ WorkerStop
  /\ UNCHANGED <<requestVars, resultVars, collectorVars, conGen, wd>>

-----------------------------------------------------------------------------
(* The collector: llps_readiness_runtime_monitor_worker_task *)

\* llps_readiness_runtime_monitor_worker_take_request
CollectorTakes ==
  /\ col = "recv" /\ msg
  /\ col' = "collect" /\ colGen' = reqGen
  /\ msg' = FALSE /\ pending' = FALSE /\ busy' = TRUE
  /\ UNCHANGED <<resultVars, reqGen, age, started, chan, conGen, wd, srv, stop>>

\* llps_readiness_runtime_monitor_worker_note_bad_message: not the message
\* that was sent.
CollectorBadMessage ==
  /\ col = "recv" /\ msg
  /\ msg' = FALSE
  /\ resGen' = (resGen + 1) % (GenMax + 1)
  /\ resValid' = TRUE /\ resOk' = FALSE
  /\ UNCHANGED <<pending, reqGen, age, collectorVars, chan, conGen, wd, srv, stop>>

\* The receive fails: the channel is closed, or LLAM has a fault.
CollectorEnds ==
  /\ col = "recv"
  /\ col' = "ended" /\ started' = FALSE
  /\ UNCHANGED <<requestVars, resultVars, colGen, busy, chan, conGen, wd, srv, stop>>

\* llps_readiness_runtime_monitor_worker_publish_result; a blocking call that
\* failed counts as bad evidence.
CollectorPublishes ==
  /\ col = "collect"
  /\ col' = "recv"
  /\ resGen' = colGen /\ resValid' = TRUE /\ resOk' \in BOOLEAN
  /\ busy' = FALSE
  /\ UNCHANGED <<requestVars, colGen, started, chan, conGen, wd, srv, stop>>

Collector ==
  CollectorTakes \/ CollectorBadMessage \/ CollectorEnds \/ CollectorPublishes

-----------------------------------------------------------------------------
(* llps_readiness_runtime_monitor_worker_poll, by the watchdog *)

\* llps_readiness_runtime_monitor_worker_take_result
ResultReady == resValid /\ resGen # conGen
TakeResult == conGen' = IF ResultReady THEN resGen ELSE conGen

\* Mutant of PendingOrBusy: a request counts only until it is taken.
PendingOnly == pending

PendingOrBusy == pending \/ busy

\* Mutant of TimedOut: a request that was taken never times out.
TimedOutPending == pending /\ age > Timeout

\* llps_readiness_runtime_monitor_worker_request_timed_out
TimedOut == age > Timeout

\* Generation 0 means none.
NextGen == IF reqGen = GenMax THEN 1 ELSE reqGen + 1

\* llps_readiness_runtime_monitor_worker_submit: its answer is ignored.
Submit ==
  /\ reqGen' = NextGen /\ age' = 0
  /\ \/ chan = "open" /\ ~msg /\ msg' = TRUE /\ pending' = TRUE
     \/ (chan = "closed" \/ SendMayFail) /\ pending' = FALSE /\ UNCHANGED msg

PollBroken ==
  \/ ~started
  \/ ResultReady /\ ~resOk
  \/ PendingOrBusy /\ TimedOut

\* The poll reports a failure.
PollFails ==
  /\ PollBroken
  /\ TakeResult
  /\ wd' = "fail"
  /\ UNCHANGED requestVars

\* The poll is content: with a result it consumed, or without (the flag is
\* looked at next).  It asks for the next evidence unless a request is under
\* way.
PollContent ==
  /\ ~PollBroken
  /\ TakeResult
  /\ wd' = IF ResultReady THEN "pass" ELSE IF stop THEN "done" ELSE "sleep"
  /\ IF PendingOrBusy THEN UNCHANGED requestVars ELSE Submit

-----------------------------------------------------------------------------
(* The watchdog: llps_task_watchdog and llps_readiness_runtime_monitor_tick *)

\* The flag is checked; the scrubs that follow may be preempted, fail, and
\* request the shutdown.
WatchdogTop ==
  /\ wd = "top"
  /\ IF stop THEN wd' = "done" /\ UNCHANGED stop
             ELSE wd' = "tick" /\ stop' \in BOOLEAN
  /\ UNCHANGED <<requestVars, resultVars, collectorVars, chan, conGen, srv>>

\* No majority for the configuration: shut down at once.
TickNoConfig ==
  /\ wd = "tick"
  /\ wd' = "done" /\ stop' = TRUE
  /\ UNCHANGED <<requestVars, resultVars, collectorVars, chan, conGen, srv>>

\* One of the software gates fails: the failure is recorded.
TickGateFails ==
  /\ wd = "tick"
  /\ wd' = "fail"
  /\ UNCHANGED <<requestVars, resultVars, collectorVars, chan, conGen, srv, stop>>

TickPolls ==
  /\ wd = "tick"
  /\ PollFails \/ PollContent
  /\ UNCHANGED <<resultVars, collectorVars, chan, srv, stop>>

\* The evidence record of a pass is written, or lost: then the server stops.
PassRecorded ==
  /\ wd = "pass"
  /\ stop' \in {stop, TRUE}
  /\ wd' = IF stop' THEN "done" ELSE "sleep"
  /\ UNCHANGED <<requestVars, resultVars, collectorVars, chan, conGen, srv>>

\* llps_readiness_monitor_record_failure
FailureRecorded ==
  /\ wd = "fail"
  /\ stop' = TRUE /\ wd' = "done"
  /\ UNCHANGED <<requestVars, resultVars, collectorVars, chan, conGen, srv>>

WatchdogWakes ==
  /\ wd = "sleep"
  /\ wd' = IF stop THEN "done" ELSE "top"
  /\ UNCHANGED <<requestVars, resultVars, collectorVars, chan, conGen, srv, stop>>

Watchdog ==
  \/ WatchdogTop \/ TickNoConfig \/ TickGateFails \/ TickPolls
  \/ PassRecorded \/ FailureRecorded \/ WatchdogWakes

-----------------------------------------------------------------------------
\* SIGINT, SIGTERM, or another part of the server that fails closed.
Signal ==
  /\ ~stop /\ stop' = TRUE
  /\ UNCHANGED <<requestVars, resultVars, collectorVars, chan, conGen, wd, srv>>

\* One watchdog interval passes.
Tick ==
  /\ age <= Timeout
  /\ age' = age + 1
  /\ UNCHANGED <<msg, pending, reqGen, resultVars, collectorVars, chan, conGen,
                 wd, srv, stop>>

\* Static storage; llps_readiness_runtime_monitor_worker_reset_state keeps it.
Init ==
  /\ chan = "none" /\ msg = FALSE
  /\ started = FALSE /\ pending = FALSE /\ busy = FALSE
  /\ reqGen = 0 /\ resGen = 0 /\ conGen = 0
  /\ resValid = FALSE /\ resOk = TRUE
  /\ age = 0
  /\ col = "none" /\ colGen = 0
  /\ wd = "none" /\ srv = "start" /\ stop = FALSE

Next ==
  \/ ServerStart \/ ServerStartFails \/ ServerStops
  \/ Collector
  \/ Watchdog
  \/ Signal \/ Tick

Spec == Init /\ [][Next]_vars

\* The scheduler runs ready tasks, the server looks at the flag at least every
\* 100 ms, time passes.  Nothing is assumed of the length of a collection.
Fairness ==
  /\ WF_vars(ServerStart \/ ServerStartFails)
  /\ WF_vars(stop /\ ServerStops)
  /\ WF_vars(Watchdog)
  /\ WF_vars(CollectorTakes \/ CollectorBadMessage)
  /\ WF_vars(chan = "closed" /\ (CollectorTakes \/ CollectorEnds))
  /\ WF_vars(Tick)

FairSpec == Spec /\ Fairness

-----------------------------------------------------------------------------
\* Generations stay within their width and every variable keeps its type.
TypeOK ==
  /\ chan \in {"none", "open", "closed"}
  /\ msg \in BOOLEAN /\ started \in BOOLEAN
  /\ pending \in BOOLEAN /\ busy \in BOOLEAN
  /\ reqGen \in Gens /\ resGen \in Gens /\ conGen \in Gens /\ colGen \in Gens
  /\ resValid \in BOOLEAN /\ resOk \in BOOLEAN
  /\ age \in 0..(Timeout + 1)
  /\ col \in ColPcs /\ wd \in WdPcs /\ srv \in SrvPcs
  /\ stop \in BOOLEAN

\* Good evidence that the next poll will count is the answer to the latest
\* request, and no other collection is under way: a late answer is never taken
\* for a newer one.
EvidenceIsCurrent ==
  ResultReady /\ resOk => resGen = reqGen /\ ~PendingOrBusy /\ col # "collect"

\* A server that goes on gets fresh good evidence again and again, also when a
\* collection never returns (llps.h: "Nonzero makes readiness fail-closed").
EvidenceOrStop == []<>(wd = "pass") \/ <>stop

=============================================================================
