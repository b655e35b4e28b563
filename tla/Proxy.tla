------------------------------- MODULE Proxy -------------------------------
(***************************************************************************)
(* The session life cycle of LLPS (src/src/core/llps_state.c): one accept  *)
(* task, one watchdog, and for each session a connection task that owns    *)
(* the slot and two pump tasks that move bytes.  All are LLAM coroutines   *)
(* of one worker, so a step of this specification is what a task does      *)
(* between two points where it can be suspended: a poll, a sleep, a join,  *)
(* or the write-and-fsync of an IP audit record.                           *)
(*                                                                         *)
(* Abstracted: bytes (a pump holds data or does not), time (a session is   *)
(* stale once its last activity is older than the idle timeout), the       *)
(* client and backend hosts, rate limiting (a client may be dropped), the  *)
(* triplicated storage of the flag, the free list and the sessions, and    *)
(* close_reason (data of the audit record).                                *)
(***************************************************************************)
EXTENDS Integers, Sequences, FiniteSets

CONSTANTS
  MaxClients,       \* max_clients: number of session slots
  ClientIps,        \* client addresses
  NoIp,             \* the empty client_ip of a free slot
  MaxSessionsPerIp, \* max_sessions_per_client_ip, 0 = no limit
  AcceptBatchMax,   \* accept_batch_max
  RequestMax,       \* the largest request number (UINT64_MAX in the code)
  PrefaceEnabled,   \* client_preface_timeout_ms # 0
  JoinMayFail       \* llam_task_group_join may return before the pumps ended

ASSUME ProxyAssumption ==
  /\ MaxClients \in Nat \ {0}
  /\ NoIp \notin ClientIps
  /\ MaxSessionsPerIp \in Nat
  /\ AcceptBatchMax \in Nat \ {0}
  /\ RequestMax \in Nat
  /\ PrefaceEnabled \in BOOLEAN
  /\ JoinMayFail \in BOOLEAN

VARIABLES
  stop,       \* the shutdown flag (module ControlFlag)
  state,      \* session.state: "FREE" or "ACTIVE"
  ip,         \* session.client_ip
  req,        \* session.request_no, 0 when free
  cfd, bfd,   \* client_fd, backend_fd: "none", "open", "shut" (SHUT_RDWR)
  stale,      \* last_activity_ns is older than the idle timeout
  free,       \* g_free_sessions[0 .. g_free_sessions_count - 1]
  conn,       \* connection task of each slot
  pump,       \* pump tasks of each slot
  srv,        \* the accept task
  running,    \* server_running
  batch,      \* batch_count of llps_server_accept_batch
  srvSlot,    \* the slot the accept task is working on
  reqNo,      \* g_request_no
  wd,         \* the watchdog task
  cand,       \* slots stale at the watchdog's clock reading and not touched since
  trail,      \* IP audit events of each request, in file order
  auditLost,  \* history: an audit record could not be written
  lateAccepts \* history: clients accepted after the shutdown was requested

Slots == 0..(MaxClients - 1)
NoSlot == MaxClients
Dirs == {"C2S", "S2C"}
Requests == 1..RequestMax

ConnPcs == {"none", "start", "preface", "connect", "flush", "connectAudit",
            "join", "joinFail", "failAudit", "closeAudit"}
PumpPcs == {"none", "prepare", "read", "write", "done"}
SrvPcs == {"start", "loop", "poll", "accept", "dropAudit", "acceptAudit",
           "spawnAudit", "closeAudit", "done"}
WdPcs == {"none", "top", "scan", "sleep", "done"}
FdStates == {"none", "open", "shut"}
Events == {"DROP", "ACCEPT", "CONNECT", "FAIL", "CLOSE"}

sessionVars == <<state, ip, req, cfd, bfd, stale>>
serverVars == <<srv, running, batch, srvSlot, reqNo>>
watchdogVars == <<wd, cand>>
auditVars == <<trail, auditLost>>
vars == <<stop, sessionVars, free, conn, pump, serverVars, watchdogVars,
          auditVars, lateAccepts>>

Live(p) == p \in {"prepare", "read", "write"}
Shut(fd) == IF fd = "open" THEN "shut" ELSE fd

-----------------------------------------------------------------------------
(* Helpers of llps_state.c *)

\* Mutant of ShutFds: the backend is forgotten.
ShutClientFds(slots) ==
  /\ cfd' = [s \in Slots |-> IF s \in slots THEN Shut(cfd[s]) ELSE cfd[s]]
  /\ UNCHANGED bfd

\* llps_force_shutdown_session_fds on every slot of a set.
ShutFds(slots) ==
  /\ cfd' = [s \in Slots |-> IF s \in slots THEN Shut(cfd[s]) ELSE cfd[s]]
  /\ bfd' = [s \in Slots |-> IF s \in slots THEN Shut(bfd[s]) ELSE bfd[s]]

ActiveSlots == {s \in Slots : state[s] = "ACTIVE"}

\* llps_shutdown_all_sessions
ShutdownAllSessions == ShutFds(ActiveSlots)

\* llps_session_touch, and the clock reading of llps_session_prepare_active:
\* the slot is fresh again, also for a watchdog round that is under way.
Touch(s) ==
  /\ stale' = [stale EXCEPT ![s] = FALSE]
  /\ cand' = cand \ {s}

\* llps_record_ip_audit_event returns for request r.  A failed write requests
\* the shutdown.
Audit(r, event, written) ==
  IF written
  THEN /\ trail' = [trail EXCEPT ![r] = Append(@, event)]
       /\ UNCHANGED <<stop, auditLost>>
  ELSE /\ auditLost' = TRUE
       /\ stop' = TRUE
       /\ UNCHANGED trail

\* Mutant of LimitExceeded: the new session is not counted.
LimitOffByOne(addr) ==
  /\ MaxSessionsPerIp # 0
  /\ Cardinality({s \in ActiveSlots : ip[s] = addr}) > MaxSessionsPerIp

\* llps_client_ip_session_limit_exceeded
LimitExceeded(addr) ==
  /\ MaxSessionsPerIp # 0
  /\ Cardinality({s \in ActiveSlots : ip[s] = addr}) >= MaxSessionsPerIp

\* llps_find_free_session pops entries until one of them is a free slot.
FreeIndexes == {i \in 1..Len(free) : state[free[i]] = "FREE"}
PopIndex == CHOOSE i \in FreeIndexes : \A j \in FreeIndexes : j <= i

\* Mutant of ReturnToFreeList: the capacity test is off by one.
ReturnUnlessNearlyFull(s) ==
  IF (\E i \in 1..Len(free) : free[i] = s) \/ Len(free) + 1 >= MaxClients
  THEN UNCHANGED free
  ELSE free' = Append(free, s)

\* llps_return_session_to_freelist
ReturnToFreeList(s) ==
  IF (\E i \in 1..Len(free) : free[i] = s) \/ Len(free) >= MaxClients
  THEN UNCHANGED free
  ELSE free' = Append(free, s)

\* llps_close_session after its CLOSE record: close the fds, reset the slot to
\* ST_FREE and give it back.
CloseSession(s) ==
  /\ cfd' = [cfd EXCEPT ![s] = "none"]
  /\ bfd' = [bfd EXCEPT ![s] = "none"]
  /\ state' = [state EXCEPT ![s] = "FREE"]
  /\ req' = [req EXCEPT ![s] = 0]
  /\ Touch(s)
  /\ ip' = [ip EXCEPT ![s] = NoIp]
  /\ ReturnToFreeList(s)

-----------------------------------------------------------------------------
(* The accept task: llps_run_server *)

\* llps_server_cleanup
ServerCleanup ==
  /\ srv' = "done"
  /\ stop' = TRUE
  /\ ShutdownAllSessions
  /\ UNCHANGED <<state, ip, req, stale, running, batch, srvSlot, reqNo>>

\* Readiness worker, spawn options and watchdog are started; when any of it
\* fails the server cleans up, with the watchdog running if only its detach
\* failed.
ServerStart ==
  /\ srv = "start"
  /\ \E spawned \in BOOLEAN : wd' = IF spawned THEN "top" ELSE "none"
  /\ \/ /\ wd' = "top"
        /\ srv' = "loop"
        /\ UNCHANGED <<stop, sessionVars, running, batch, srvSlot, reqNo>>
     \/ ServerCleanup
  /\ UNCHANGED <<free, conn, pump, cand, auditVars, lateAccepts>>

ServerLoop ==
  /\ srv = "loop"
  /\ IF running /\ ~stop
     THEN /\ srv' = "poll"
          /\ UNCHANGED <<stop, sessionVars, running, batch, srvSlot, reqNo>>
     ELSE ServerCleanup
  /\ UNCHANGED <<free, conn, pump, watchdogVars, auditVars, lateAccepts>>

\* llps_server_poll_accept_ready: a client is waiting, the poll timed out, or
\* the poll (or the configuration check after it) failed.
ServerPoll ==
  /\ srv = "poll"
  /\ \/ /\ srv' = "accept" /\ batch' = 0
        /\ UNCHANGED <<stop, sessionVars, running, srvSlot, reqNo>>
     \/ /\ srv' = "loop"
        /\ UNCHANGED <<stop, sessionVars, running, batch, srvSlot, reqNo>>
     \/ ServerCleanup
  /\ UNCHANGED <<free, conn, pump, watchdogVars, auditVars, lateAccepts>>

\* accept() fails: nothing to accept, a backed-off error, or (keepRunning
\* FALSE) a listener fault.
ServerAcceptFails ==
  /\ srv = "accept"
  /\ \E keepRunning \in BOOLEAN : running' = keepRunning
  /\ srv' = "loop" /\ batch' = 0
  /\ UNCHANGED <<stop, sessionVars, free, conn, pump, srvSlot, reqNo,
                 watchdogVars, auditVars, lateAccepts>>

\* The request counter is exhausted: llps_next_request_no fails.
ServerRequestsExhausted ==
  /\ srv = "accept"
  /\ reqNo = RequestMax
  /\ stop' = TRUE /\ running' = FALSE
  /\ srv' = "loop" /\ batch' = 0
  /\ UNCHANGED <<sessionVars, free, conn, pump, srvSlot, reqNo, watchdogVars,
                 auditVars, lateAccepts>>

\* accept() and llps_next_request_no succeed.
AcceptRequest ==
  /\ srv = "accept"
  /\ reqNo < RequestMax
  /\ reqNo' = reqNo + 1
  /\ lateAccepts' = IF stop THEN lateAccepts + 1 ELSE lateAccepts

\* The client is refused: rate limit or fd setup (at any time), the per-address
\* session limit, or an empty pool; the fd is closed after the DROP record.
\* Either limit refuses, and requests the shutdown, when the configuration has
\* no majority.
ServerDropClient ==
  /\ AcceptRequest
  /\ stop' \in {stop, TRUE}
  /\ srv' = "dropAudit"
  /\ UNCHANGED <<sessionVars, free, conn, pump, running, batch, srvSlot,
                 watchdogVars, auditVars>>

\* llps_server_assign_session up to the ACCEPT record.
ServerAssignSession(addr) ==
  /\ AcceptRequest
  /\ ~LimitExceeded(addr)
  /\ FreeIndexes # {}
  /\ LET s == free[PopIndex] IN
     /\ free' = SubSeq(free, 1, PopIndex - 1)
     /\ state' = [state EXCEPT ![s] = "ACTIVE"]
     /\ ip' = [ip EXCEPT ![s] = addr]
     /\ req' = [req EXCEPT ![s] = reqNo']
     /\ cfd' = [cfd EXCEPT ![s] = "open"]
     /\ bfd' = [bfd EXCEPT ![s] = "none"]
     /\ Touch(s)
     /\ srvSlot' = s
  /\ srv' = "acceptAudit"
  /\ UNCHANGED <<stop, conn, pump, running, batch, wd, auditVars>>

\* Mutant of NextInBatch: one client too many.
NextInBatchInclusive(keepRunning) ==
  /\ running' = keepRunning
  /\ IF keepRunning /\ batch + 1 <= AcceptBatchMax
     THEN srv' = "accept" /\ batch' = batch + 1
     ELSE srv' = "loop" /\ batch' = 0
  /\ srvSlot' = NoSlot

\* The next client of the batch, or back to the server loop.
NextInBatch(keepRunning) ==
  /\ running' = keepRunning
  /\ IF keepRunning /\ batch + 1 < AcceptBatchMax
     THEN srv' = "accept" /\ batch' = batch + 1
     ELSE srv' = "loop" /\ batch' = 0
  /\ srvSlot' = NoSlot

ServerDropAudited ==
  /\ srv = "dropAudit"
  /\ \E written \in BOOLEAN :
       /\ Audit(reqNo, "DROP", written)
       /\ NextInBatch(written)
  /\ UNCHANGED <<sessionVars, free, conn, pump, reqNo, watchdogVars,
                 lateAccepts>>

\* The ACCEPT record is out: llps_server_spawn_connection.  A task that cannot
\* be detached still runs, on fds that were shut down.
ServerSpawnConnection ==
  /\ srv = "acceptAudit"
  /\ Audit(req[srvSlot], "ACCEPT", TRUE)
  /\ conn' = [conn EXCEPT ![srvSlot] = "start"]
  /\ \E detached \in BOOLEAN : ShutFds(IF detached THEN {} ELSE {srvSlot})
  /\ NextInBatch(running)
  /\ UNCHANGED <<state, ip, req, stale, free, pump, reqNo, watchdogVars,
                 lateAccepts>>

\* Mutant of ServerSpawnFails: no FAIL record.
ServerSpawnFailsSilently ==
  /\ srv = "acceptAudit"
  /\ Audit(req[srvSlot], "ACCEPT", TRUE)
  /\ srv' = "closeAudit"
  /\ UNCHANGED <<sessionVars, free, conn, pump, running, batch, srvSlot, reqNo,
                 watchdogVars, lateAccepts>>

\* No connection task: llps_server_spawn_connection records the failure and
\* closes the session itself.
ServerSpawnFails ==
  /\ srv = "acceptAudit"
  /\ Audit(req[srvSlot], "ACCEPT", TRUE)
  /\ srv' = "spawnAudit"
  /\ UNCHANGED <<sessionVars, free, conn, pump, running, batch, srvSlot, reqNo,
                 watchdogVars, lateAccepts>>

\* Mutant of ServerAcceptAuditFails: the session is not closed.
ServerAcceptAuditLeaks ==
  /\ srv = "acceptAudit"
  /\ Audit(req[srvSlot], "ACCEPT", FALSE)
  /\ NextInBatch(FALSE)
  /\ UNCHANGED <<sessionVars, free, conn, pump, reqNo, watchdogVars,
                 lateAccepts>>

\* The ACCEPT record could not be written: the session is closed and the
\* server stops.
ServerAcceptAuditFails ==
  /\ srv = "acceptAudit"
  /\ Audit(req[srvSlot], "ACCEPT", FALSE)
  /\ running' = FALSE
  /\ srv' = "closeAudit"
  /\ UNCHANGED <<sessionVars, free, conn, pump, batch, srvSlot, reqNo,
                 watchdogVars, lateAccepts>>

ServerSpawnFailAudited ==
  /\ srv = "spawnAudit"
  /\ \E written \in BOOLEAN : Audit(req[srvSlot], "FAIL", written)
  /\ srv' = "closeAudit"
  /\ UNCHANGED <<sessionVars, free, conn, pump, running, batch, srvSlot, reqNo,
                 watchdogVars, lateAccepts>>

ServerCloseSession ==
  /\ srv = "closeAudit"
  /\ \E written \in BOOLEAN : Audit(req[srvSlot], "CLOSE", written)
  /\ CloseSession(srvSlot)
  /\ NextInBatch(running)
  /\ UNCHANGED <<conn, pump, reqNo, wd, lateAccepts>>

Server ==
  \/ ServerStart \/ ServerLoop \/ ServerPoll
  \/ ServerAcceptFails \/ ServerRequestsExhausted \/ ServerDropClient
  \/ \E addr \in ClientIps : ServerAssignSession(addr)
  \/ ServerDropAudited \/ ServerSpawnConnection \/ ServerSpawnFails
  \/ ServerAcceptAuditFails \/ ServerSpawnFailAudited \/ ServerCloseSession

-----------------------------------------------------------------------------
(* The connection task: llps_task_connection *)

ConnGoto(s, next) == conn' = [conn EXCEPT ![s] = next]

\* llps_connection_open_backend_socket and llps_connection_setup_backend_fd:
\* connecting, no socket, or a socket that cannot be set up.
OpenBackend(s) ==
  \/ ConnGoto(s, "connect") /\ bfd' = [bfd EXCEPT ![s] = "open"]
  \/ ConnGoto(s, "failAudit") /\ bfd' \in {bfd, [bfd EXCEPT ![s] = "open"]}

\* Backend address, then the client preface if one is configured.
ConnStart(s) ==
  /\ conn[s] = "start"
  /\ state[s] = "ACTIVE"
  /\ \/ ConnGoto(s, "failAudit") /\ UNCHANGED bfd
     \/ PrefaceEnabled /\ ConnGoto(s, "preface") /\ UNCHANGED bfd
     \/ ~PrefaceEnabled /\ OpenBackend(s)
  /\ UNCHANGED <<stop, state, ip, req, cfd, stale, free, pump, serverVars,
                 watchdogVars, auditVars, lateAccepts>>

\* llps_client_preface_read got some bytes and needs more.
ConnPrefaceProgress(s) ==
  /\ conn[s] = "preface"
  /\ Touch(s)
  /\ UNCHANGED <<stop, state, ip, req, cfd, bfd, free, conn, pump, serverVars,
                 wd, auditVars, lateAccepts>>

\* The preface is complete: on to the backend.
ConnPrefaceReady(s) ==
  /\ conn[s] = "preface"
  /\ Touch(s)
  /\ OpenBackend(s)
  /\ UNCHANGED <<stop, state, ip, req, cfd, free, pump, serverVars, wd,
                 auditVars, lateAccepts>>

\* End of stream, deadline or an invalid handshake.
ConnPrefaceFails(s) ==
  /\ conn[s] = "preface"
  /\ ConnGoto(s, "failAudit")
  /\ UNCHANGED <<stop, sessionVars, free, pump, serverVars, watchdogVars,
                 auditVars, lateAccepts>>

\* llps_connection_connect_backend: connected within the polls, or not.
ConnConnected(s) ==
  /\ conn[s] = "connect"
  /\ ConnGoto(s, "flush")
  /\ Touch(s)
  /\ UNCHANGED <<stop, state, ip, req, cfd, bfd, free, pump, serverVars, wd,
                 auditVars, lateAccepts>>

\* llps_connection_flush_preface: the preface is sent on, BACKEND_CONNECT next.
ConnFlushed(s) ==
  /\ conn[s] = "flush"
  /\ ConnGoto(s, "connectAudit")
  /\ UNCHANGED <<stop, sessionVars, free, pump, serverVars, watchdogVars,
                 auditVars, lateAccepts>>

ConnBackendFails(s) ==
  /\ conn[s] \in {"connect", "flush"}
  /\ ConnGoto(s, "failAudit")
  /\ UNCHANGED <<stop, sessionVars, free, pump, serverVars, watchdogVars,
                 auditVars, lateAccepts>>

\* The BACKEND_CONNECT record is out: pump arguments and pumps.
ConnRunPumps(s) ==
  /\ conn[s] = "connectAudit"
  /\ Audit(req[s], "CONNECT", TRUE)
  /\ ConnGoto(s, "join")
  /\ pump' = [pump EXCEPT ![s] = [d \in Dirs |-> "prepare"]]
  /\ UNCHANGED <<sessionVars, free, serverVars, watchdogVars, lateAccepts>>

\* Client fd setup, the task group or the first pump could not be had.
ConnPumpsFail(s) ==
  /\ conn[s] = "connectAudit"
  /\ Audit(req[s], "CONNECT", TRUE)
  /\ ConnGoto(s, "failAudit")
  /\ UNCHANGED <<sessionVars, free, pump, serverVars, watchdogVars,
                 lateAccepts>>

\* Mutant of ConnSecondPumpFails: the first pump is not joined.
ConnSecondPumpNotJoined(s) ==
  /\ conn[s] = "connectAudit"
  /\ Audit(req[s], "CONNECT", TRUE)
  /\ ConnGoto(s, "failAudit")
  /\ pump' = [pump EXCEPT ![s]["C2S"] = "prepare"]
  /\ ShutFds({s})
  /\ UNCHANGED <<state, ip, req, stale, free, serverVars, watchdogVars,
                 lateAccepts>>

\* The second pump could not be spawned: shut both fds and join the first.
ConnSecondPumpFails(s) ==
  /\ conn[s] = "connectAudit"
  /\ Audit(req[s], "CONNECT", TRUE)
  /\ ConnGoto(s, "joinFail")
  /\ pump' = [pump EXCEPT ![s]["C2S"] = "prepare"]
  /\ ShutFds({s})
  /\ UNCHANGED <<state, ip, req, stale, free, serverVars, watchdogVars,
                 lateAccepts>>

ConnConnectAuditFails(s) ==
  /\ conn[s] = "connectAudit"
  /\ Audit(req[s], "CONNECT", FALSE)
  /\ ConnGoto(s, "closeAudit")
  /\ UNCHANGED <<sessionVars, free, pump, serverVars, watchdogVars,
                 lateAccepts>>

\* llam_task_group_join: returns once the pumps of the group have ended.  Its
\* result is ignored, so a join that fails is treated like one that succeeds.
ConnJoin(s) ==
  /\ conn[s] \in {"join", "joinFail"}
  /\ JoinMayFail \/ \A d \in Dirs : ~Live(pump[s][d])
  /\ ConnGoto(s, IF conn[s] = "join" THEN "closeAudit" ELSE "failAudit")
  /\ pump' = [pump EXCEPT ![s] =
                [d \in Dirs |-> IF @[d] = "done" THEN "none" ELSE @[d]]]
  /\ UNCHANGED <<stop, sessionVars, free, serverVars, watchdogVars, auditVars,
                 lateAccepts>>

\* llps_connection_record_backend_fail, whose result is ignored.
ConnFailAudited(s) ==
  /\ conn[s] = "failAudit"
  /\ \E written \in BOOLEAN : Audit(req[s], "FAIL", written)
  /\ ConnGoto(s, "closeAudit")
  /\ UNCHANGED <<sessionVars, free, pump, serverVars, watchdogVars,
                 lateAccepts>>

\* llps_close_session by the owner; the task ends.
ConnCloseSession(s) ==
  /\ conn[s] = "closeAudit"
  /\ \E written \in BOOLEAN : Audit(req[s], "CLOSE", written)
  /\ CloseSession(s)
  /\ ConnGoto(s, "none")
  /\ UNCHANGED <<pump, serverVars, wd, lateAccepts>>

\* Everything the task does without waiting for a peer for longer than its
\* bounded polls.
ConnProgress(s) ==
  \/ ConnStart(s) \/ ConnPrefaceReady(s) \/ ConnPrefaceFails(s)
  \/ ConnConnected(s) \/ ConnFlushed(s) \/ ConnBackendFails(s)
  \/ ConnRunPumps(s) \/ ConnPumpsFail(s) \/ ConnSecondPumpFails(s)
  \/ ConnConnectAuditFails(s) \/ ConnJoin(s) \/ ConnFailAudited(s)
  \/ ConnCloseSession(s)

Connection(s) == ConnPrefaceProgress(s) \/ ConnProgress(s)

-----------------------------------------------------------------------------
(* A pump task: llps_task_pump *)

PumpGoto(s, d, next) == pump' = [pump EXCEPT ![s][d] = next]
SrcFd(s, d) == IF d = "C2S" THEN cfd[s] ELSE bfd[s]
DstFd(s, d) == IF d = "C2S" THEN bfd[s] ELSE cfd[s]

\* llps_pump_finish after a hard error, and the exit of a pump whose arguments
\* are rejected: shut both fds so that the sibling ends too.
PumpHardStop(s, d) ==
  /\ PumpGoto(s, d, "done")
  /\ ShutFds({s})
  /\ UNCHANGED <<stop, state, ip, req, stale, free, conn, serverVars,
                 watchdogVars, auditVars, lateAccepts>>

\* llps_pump_finish after a clean end: SHUT_WR on the destination, which only
\* the remote host can see.
PumpCleanStop(s, d) ==
  /\ PumpGoto(s, d, "done")
  /\ UNCHANGED <<stop, sessionVars, free, conn, serverVars, watchdogVars,
                 auditVars, lateAccepts>>

\* llps_pump_prepare: the session must be active and both fds valid.
PumpPrepare(s, d) ==
  /\ pump[s][d] = "prepare"
  /\ IF state[s] = "ACTIVE" /\ cfd[s] # "none" /\ bfd[s] # "none"
     THEN /\ PumpGoto(s, d, "read")
          /\ UNCHANGED <<stop, sessionVars, free, conn, serverVars,
                         watchdogVars, auditVars, lateAccepts>>
     ELSE PumpHardStop(s, d)

\* Mutant of PumpMustStop: the shutdown flag is not looked at.
PumpStopsAtEof(s, d) ==
  /\ pump[s][d] = "read"
  /\ \/ state[s] # "ACTIVE" /\ PumpHardStop(s, d)
     \/ state[s] = "ACTIVE" /\ SrcFd(s, d) # "open" /\ PumpCleanStop(s, d)

\* Top of a cycle: an inactive session is a hard error, a requested shutdown
\* a clean end; a shut-down source reads as end of stream.
PumpMustStop(s, d) ==
  /\ pump[s][d] = "read"
  /\ \/ state[s] # "ACTIVE" /\ PumpHardStop(s, d)
     \/ state[s] = "ACTIVE" /\ (stop \/ SrcFd(s, d) # "open")
        /\ PumpCleanStop(s, d)

\* The peer closed its side.
PumpEndOfStream(s, d) ==
  /\ pump[s][d] = "read"
  /\ state[s] = "ACTIVE"
  /\ PumpCleanStop(s, d)

\* Bytes were read, possibly bytes that had arrived before the source was shut
\* down.
PumpRead(s, d) ==
  /\ pump[s][d] = "read"
  /\ state[s] = "ACTIVE" /\ ~stop
  /\ PumpGoto(s, d, "write")
  /\ Touch(s)
  /\ UNCHANGED <<stop, state, ip, req, cfd, bfd, free, conn, serverVars, wd,
                 auditVars, lateAccepts>>

\* llps_pump_write_all succeeded within its step and retry budgets.
PumpWritten(s, d) ==
  /\ pump[s][d] = "write"
  /\ state[s] = "ACTIVE" /\ DstFd(s, d) = "open"
  /\ PumpGoto(s, d, "read")
  /\ UNCHANGED <<stop, sessionVars, free, conn, serverVars, watchdogVars,
                 auditVars, lateAccepts>>

\* Read or write error, exhausted budget, uncorrectable payload.
PumpFails(s, d) ==
  /\ pump[s][d] \in {"read", "write"}
  /\ PumpHardStop(s, d)

Pump(s, d) ==
  \/ PumpPrepare(s, d) \/ PumpMustStop(s, d) \/ PumpEndOfStream(s, d)
  \/ PumpRead(s, d) \/ PumpWritten(s, d) \/ PumpFails(s, d)

\* The steps that do not depend on a peer: preparation, the stop conditions,
\* and the end of a write, which its budgets bound.
PumpProgress(s, d) ==
  \/ PumpPrepare(s, d) \/ PumpMustStop(s, d)
  \/ pump[s][d] = "write" /\ (PumpWritten(s, d) \/ PumpFails(s, d))

-----------------------------------------------------------------------------
(* The watchdog: llps_task_watchdog *)

WatchdogEnds ==
  /\ wd' = "done" /\ cand' = {}
  /\ ShutdownAllSessions
  /\ UNCHANGED <<state, ip, req, stale>>

\* The payload scrub shuts down the sessions it finds corrupt, the idle scan
\* the ones it reaps.
ShutCorruptAnd(reaped) ==
  \E corrupt \in SUBSET ActiveSlots : ShutFds(corrupt \cup reaped)

\* The clock is read, then the flag.  The runtime contract, the scrubs and the
\* readiness monitor may request the shutdown.  The task is suspended amid the
\* scrubs (LLAM_PREEMPT_POLL_EVERY) or in the monitor's evidence record: their
\* effects come before or after that.
WatchdogTop ==
  /\ wd = "top"
  /\ \/ stop /\ WatchdogEnds /\ UNCHANGED stop
     \/ ~stop /\ stop' = TRUE /\ WatchdogEnds
     \/ /\ ~stop
        /\ wd' = "scan"
        /\ cand' = {s \in Slots : stale[s]}
        /\ \/ stop' = TRUE /\ ShutdownAllSessions
           \/ ShutCorruptAnd({}) /\ UNCHANGED stop
        /\ UNCHANGED <<state, ip, req, stale>>
  /\ UNCHANGED <<free, conn, pump, serverVars, auditVars, lateAccepts>>

\* llps_watchdog_scan_idle_sessions with the clock reading of the top, unless
\* the shutdown was requested by then.
WatchdogScan ==
  /\ wd = "scan"
  /\ \/ stop' = TRUE /\ WatchdogEnds
     \/ /\ ~stop
        /\ ShutCorruptAnd(cand \cap ActiveSlots)
        /\ wd' = "sleep" /\ cand' = {}
        /\ UNCHANGED <<stop, state, ip, req, stale>>
  /\ UNCHANGED <<free, conn, pump, serverVars, auditVars, lateAccepts>>

WatchdogWakes ==
  /\ wd = "sleep"
  /\ IF stop
     THEN WatchdogEnds
     ELSE wd' = "top" /\ UNCHANGED <<sessionVars, cand>>
  /\ UNCHANGED <<stop, free, conn, pump, serverVars, auditVars, lateAccepts>>

Watchdog == WatchdogTop \/ WatchdogScan \/ WatchdogWakes

-----------------------------------------------------------------------------
(* The environment *)

\* SIGINT or SIGTERM.
Signal ==
  /\ ~stop
  /\ stop' = TRUE
  /\ UNCHANGED <<sessionVars, free, conn, pump, serverVars, watchdogVars,
                 auditVars, lateAccepts>>

\* The idle timeout of an active session passes without activity.
Age(s) ==
  /\ state[s] = "ACTIVE" /\ ~stale[s]
  /\ stale' = [stale EXCEPT ![s] = TRUE]
  /\ UNCHANGED <<stop, state, ip, req, cfd, bfd, free, conn, pump, serverVars,
                 watchdogVars, auditVars, lateAccepts>>

\* llps_init_prepare_session_pool: slot 0 on top of the free list.
Init ==
  /\ stop = FALSE
  /\ state = [s \in Slots |-> "FREE"]
  /\ ip = [s \in Slots |-> NoIp]
  /\ req = [s \in Slots |-> 0]
  /\ cfd = [s \in Slots |-> "none"]
  /\ bfd = [s \in Slots |-> "none"]
  /\ stale = [s \in Slots |-> FALSE]
  /\ free = [i \in 1..MaxClients |-> MaxClients - i]
  /\ conn = [s \in Slots |-> "none"]
  /\ pump = [s \in Slots |-> [d \in Dirs |-> "none"]]
  /\ srv = "start" /\ running = TRUE /\ batch = 0 /\ srvSlot = NoSlot
  /\ reqNo = 0
  /\ wd = "none" /\ cand = {}
  /\ trail = [r \in Requests |-> <<>>] /\ auditLost = FALSE
  /\ lateAccepts = 0

Next ==
  \/ Server
  \/ \E s \in Slots : Connection(s)
  \/ \E s \in Slots, d \in Dirs : Pump(s, d)
  \/ Watchdog
  \/ Signal
  \/ \E s \in Slots : Age(s)

Spec == Init /\ [][Next]_vars

\* The cooperative scheduler runs every ready task; every wait of a task other
\* than reading from a peer is bounded by a timeout or a retry budget; time
\* passes.  Clients, backends and signals owe nothing.
Fairness ==
  /\ WF_vars(Server)
  /\ WF_vars(Watchdog)
  /\ \A s \in Slots :
       /\ WF_vars(ConnProgress(s))
       /\ WF_vars(Age(s))
       /\ \A d \in Dirs : WF_vars(PumpProgress(s, d))

FairSpec == Spec /\ Fairness

-----------------------------------------------------------------------------
\* Counters stay within their limits, the request number too when it is used up.
TypeOK ==
  /\ stop \in BOOLEAN
  /\ state \in [Slots -> {"FREE", "ACTIVE"}]
  /\ ip \in [Slots -> ClientIps \cup {NoIp}]
  /\ req \in [Slots -> 0..RequestMax]
  /\ cfd \in [Slots -> FdStates]
  /\ bfd \in [Slots -> FdStates]
  /\ stale \in [Slots -> BOOLEAN]
  /\ free \in Seq(Slots)
  /\ conn \in [Slots -> ConnPcs]
  /\ pump \in [Slots -> [Dirs -> PumpPcs]]
  /\ srv \in SrvPcs
  /\ running \in BOOLEAN
  /\ batch \in 0..(AcceptBatchMax - 1)
  /\ srvSlot \in 0..MaxClients
  /\ reqNo \in 0..RequestMax
  /\ wd \in WdPcs
  /\ cand \subseteq Slots
  /\ trail \in [Requests -> Seq(Events)]
  /\ auditLost \in BOOLEAN
  /\ lateAccepts \in Nat

\* The accept task holds a slot from its assignment until the connection task
\* exists or the session is closed.
ServerOwns(s) == /\ srv \in {"acceptAudit", "spawnAudit", "closeAudit"}
                 /\ srvSlot = s

\* llps_internal.h: "ST_FREE means no task may reference this session or its
\* buffers", and llps_close_session leaves no fd behind.
FreeSlotUnreferenced ==
  \A s \in Slots : state[s] = "FREE" =>
    /\ conn[s] = "none" /\ ~ServerOwns(s)
    /\ \A d \in Dirs : ~Live(pump[s][d])
    /\ cfd[s] = "none" /\ bfd[s] = "none"

\* The free list holds exactly the free slots, each once: no slot is leaked on
\* any failure path, none is handed out twice.
FreeListExact ==
  /\ {free[i] : i \in 1..Len(free)} = {s \in Slots : state[s] = "FREE"}
  /\ \A i, j \in 1..Len(free) : free[i] = free[j] => i = j

\* With the types and the bounds of all variables.
PoolExact == TypeOK /\ FreeListExact

\* Every active session has exactly one task that will close it.
ActiveHasOneOwner ==
  \A s \in Slots : state[s] = "ACTIVE" => ServerOwns(s) # (conn[s] # "none")

\* llps_internal.h: "client_fd and backend_fd are closed only by the session
\* owner after both pump tasks have terminated": a live pump never works on an
\* fd number that was closed and may have been reused.
PumpFdsStayOpen ==
  \A s \in Slots : (\E d \in Dirs : Live(pump[s][d])) =>
    /\ state[s] = "ACTIVE"
    /\ cfd[s] # "none" /\ bfd[s] # "none"
    /\ conn[s] \in {"join", "joinFail"}

\* Between them: nothing a task still uses is freed, closed or reused.
NoUseAfterClose == FreeSlotUnreferenced /\ PumpFdsStayOpen

\* max_sessions_per_client_ip holds although the limit is checked long before
\* the sessions of earlier clients are closed.
PerIpLimit ==
  MaxSessionsPerIp # 0 =>
    \A addr \in ClientIps :
      Cardinality({s \in ActiveSlots : ip[s] = addr}) <= MaxSessionsPerIp

\* What the audit file may say about one request while no record was lost.
Stories == {<<"DROP">>, <<"ACCEPT", "FAIL", "CLOSE">>,
            <<"ACCEPT", "CONNECT", "CLOSE">>,
            <<"ACCEPT", "CONNECT", "FAIL", "CLOSE">>}

\* Request r is still being worked on.
InProgress(r) == \/ \E s \in Slots : req[s] = r
                 \/ srv = "dropAudit" /\ reqNo = r

\* The audit trail of every request is one of the stories above, told to the
\* end exactly when nobody works on the request any more; two tasks never
\* write into the story of the same request.
AuditTrailComplete ==
  ~auditLost =>
    \A r \in 1..reqNo :
      IF InProgress(r)
      THEN \E t \in Stories : /\ Len(trail[r]) < Len(t)
                              /\ \A i \in 1..Len(trail[r]) : trail[r][i] = t[i]
      ELSE trail[r] \in Stories

\* After the shutdown was requested the server accepts at most what is left of
\* one batch.
LateAcceptsBounded == lateAccepts <= AcceptBatchMax

Drained ==
  /\ srv = "done" /\ wd \in {"none", "done"}
  /\ \A s \in Slots : state[s] = "FREE" /\ conn[s] = "none"
  /\ \A s \in Slots, d \in Dirs : ~Live(pump[s][d])

\* A requested shutdown ends every task and frees every session, whatever the
\* peers do: no task waits for a peer without a bound or a flag check.
ShutdownDrains == stop ~> Drained

\* A session that is never closed is touched again and again: the watchdog
\* gets rid of every session whose peers fell silent, in every phase of its
\* life (half-closed ones included).
SilentSessionReaped ==
  \A s \in Slots : (<>[](state[s] = "ACTIVE")) => ([]<>(~stale[s]))
=============================================================================
