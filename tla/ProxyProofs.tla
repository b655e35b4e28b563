---------------------------- MODULE ProxyProofs ----------------------------
(***************************************************************************)
(* The session life cycle for every number of slots, clients, requests and *)
(* every batch size: the free list is exact, every active session has one  *)
(* owner, the limits hold, nothing is used after it was closed and the     *)
(* audit trail tells the whole story of every request.                     *)
(*                                                                         *)
(* The argument is about ownership.  A slot leaves the free list when the  *)
(* accept task takes it, is handed to a connection task at most once, and  *)
(* comes back when its owner closes it (SlotInv).  Only the owner changes  *)
(* the session's state and writes its audit records; pumps and watchdog    *)
(* shut fds down, which closes none (FdsKept).  So for each part of the    *)
(* invariant few actions matter, and the frame lemmas dispose of the rest. *)
(***************************************************************************)
EXTENDS Proxy, TLAPS, FiniteSetTheorems, SequenceTheorems, WellFoundedInduction

USE DEF sessionVars, serverVars, watchdogVars, auditVars

\* The accept task has a slot in its hands.
Owning == {"acceptAudit", "spawnAudit", "closeAudit"}

\* The connection task has a backend fd from here on.
WithBackend == {"connect", "flush", "connectAudit", "join", "joinFail"}
Joining == {"join", "joinFail"}

\* The life of a slot: free without a trace, or active with one owner.
SlotInv(s) ==
  /\ state[s] = "FREE" =>
       conn[s] = "none" /\ ~ServerOwns(s) /\ cfd[s] = "none" /\ bfd[s] = "none"
  /\ state[s] = "ACTIVE" =>
       cfd[s] # "none" /\ (ServerOwns(s) <=> conn[s] = "none")
  /\ conn[s] \in WithBackend => bfd[s] # "none"

OwnerInv ==
  /\ srv \in Owning => srvSlot \in Slots
  /\ \A s \in Slots : SlotInv(s)

LifeInv == TypeOK /\ OwnerInv /\ FreeListExact

\* A pump lives only while its connection task waits for it.
PumpsJoined ==
  \A s \in Slots, d \in Dirs : Live(pump[s][d]) => conn[s] \in Joining

\* Late accepts are counted by the batch they belong to.
LateInv ==
  /\ ~stop => lateAccepts = 0
  /\ srv \in {"start", "poll"} => lateAccepts = 0
  /\ srv = "accept" => lateAccepts <= batch
  /\ srv \in {"dropAudit"} \cup Owning => lateAccepts <= batch + 1
  /\ lateAccepts <= AcceptBatchMax

-----------------------------------------------------------------------------
(* The free list *)

\* The last position the search of llps_find_free_session accepts exists.
LEMMA LastIn ==
  ASSUME NEW n \in Nat, NEW S, S \subseteq 1..n, S # {}
  PROVE  LET k == CHOOSE i \in S : \A j \in S : j <= i
         IN  k \in S /\ \A j \in S : j <= k
<1>. DEFINE T == {m \in Nat : n - m \in S}
<1>1. T \subseteq Nat /\ T # {}
  <2>1. PICK i \in S : TRUE
    OBVIOUS
  <2>2. i \in 1..n /\ n - i \in Nat /\ n - (n - i) = i
    BY <2>1
  <2>. QED
    BY <2>1, <2>2
<1>2. PICK m \in T : \A c \in T : ~(<<c, m>> \in OpToRel(<, Nat))
  BY <1>1, NatLessThanWellFounded, WFMin
<1>3. m \in Nat /\ n - m \in S
  BY <1>2
<1>4. ASSUME NEW j \in S, ~(j <= n - m)
      PROVE  FALSE
  <2>1. j \in 1..n /\ n - j \in Nat /\ n - j < m /\ n - (n - j) = j
    BY <1>3, <1>4
  <2>2. n - j \in T
    BY <2>1, <1>4
  <2>3. <<n - j, m>> \in OpToRel(<, Nat)
    BY <2>1, <1>3 DEF OpToRel
  <2>. QED
    BY <2>2, <2>3, <1>2
<1>5. \E i \in S : \A j \in S : j <= i
  BY <1>3, <1>4
<1>. QED
  BY <1>5

-----------------------------------------------------------------------------
(* What the tasks leave alone *)

\* No fd is closed or opened, though some may be shut down.
FdsKept ==
  /\ cfd' \in [Slots -> FdStates] /\ bfd' \in [Slots -> FdStates]
  /\ \A s \in Slots : /\ cfd'[s] = "none" <=> cfd[s] = "none"
                      /\ bfd'[s] = "none" <=> bfd[s] = "none"

\* llps_find_free_session and llps_close_session are the only steps that change
\* the state of a session.
Assigns == \E addr \in ClientIps : ServerAssignSession(addr)
Closes == ServerCloseSession \/ \E s \in Slots : ConnCloseSession(s)
SessionsKept == UNCHANGED <<state, ip, req, free>>

LEMMA ServerFrame ==
  ASSUME Server
  PROVE  /\ UNCHANGED pump
         /\ ServerCloseSession \/ Assigns \/ SessionsKept
         /\ wd' = wd \/ srv = "start"
BY DEF Server, ServerStart, ServerLoop, ServerPoll, ServerAcceptFails,
   ServerRequestsExhausted, ServerDropClient, ServerDropAudited, ServerSpawnConnection,
   ServerSpawnFails, ServerAcceptAuditFails, ServerSpawnFailAudited, ServerCleanup,
   ServerAssignSession, ServerCloseSession, Assigns, SessionsKept

LEMMA ConnFrame ==
  ASSUME NEW s \in Slots, Connection(s)
  PROVE  /\ UNCHANGED <<serverVars, lateAccepts, wd>>
         /\ ConnCloseSession(s) \/ SessionsKept
BY DEF Connection, ConnProgress, ConnPrefaceProgress, ConnStart, ConnPrefaceReady,
   ConnPrefaceFails, ConnConnected, ConnFlushed, ConnBackendFails, ConnRunPumps,
   ConnPumpsFail, ConnSecondPumpFails, ConnConnectAuditFails, ConnJoin, ConnFailAudited,
   ConnCloseSession, SessionsKept

LEMMA PumpFrame ==
  ASSUME NEW s \in Slots, NEW d \in Dirs, Pump(s, d)
  PROVE  UNCHANGED <<serverVars, lateAccepts, wd, conn, auditVars, stop>> /\ SessionsKept
BY DEF Pump, PumpPrepare, PumpMustStop, PumpEndOfStream, PumpRead, PumpWritten, PumpFails,
   PumpHardStop, PumpCleanStop, SessionsKept

LEMMA WatchdogFrame ==
  ASSUME Watchdog
  PROVE  UNCHANGED <<serverVars, lateAccepts, conn, pump, auditVars, stale>> /\ SessionsKept
BY DEF Watchdog, WatchdogTop, WatchdogScan, WatchdogWakes, WatchdogEnds, SessionsKept

\* A signal, the passing of time, or no step at all.
Idle == Signal \/ (\E s \in Slots : Age(s)) \/ UNCHANGED vars

LEMMA IdleFrame ==
  ASSUME Idle
  PROVE  /\ UNCHANGED <<serverVars, lateAccepts, conn, pump, auditVars, watchdogVars, cfd, bfd>>
         /\ SessionsKept
BY DEF Idle, Signal, Age, vars, SessionsKept

\* Every step is a step of one task.
LEMMA Tasks ==
  ASSUME [Next]_vars
  PROVE  \/ Server \/ Watchdog \/ Idle
         \/ \E s \in Slots : Connection(s)
         \/ \E s \in Slots, d \in Dirs : Pump(s, d)
BY DEF Next, Idle

\* All but two kinds of steps keep sessions and free list.
LEMMA SessionFrame ==
  ASSUME [Next]_vars
  PROVE  Assigns \/ Closes \/ SessionsKept
BY Tasks, ServerFrame, ConnFrame, PumpFrame, WatchdogFrame, IdleFrame DEF Closes

\* Records are written by the accept task and by connection tasks.
Records(r) == \E e \in Events, written \in BOOLEAN : Audit(r, e, written)

LEMMA ServerRecords ==
  ASSUME Server
  PROVE  \/ UNCHANGED auditVars /\ (stop' = stop \/ stop' = TRUE)
         \/ srv = "dropAudit" /\ Records(reqNo)
         \/ srv \in Owning /\ Records(req[srvSlot])
BY DEF Server, ServerStart, ServerLoop, ServerPoll, ServerAcceptFails,
   ServerRequestsExhausted, ServerDropClient, ServerDropAudited, ServerSpawnConnection,
   ServerSpawnFails, ServerAcceptAuditFails, ServerSpawnFailAudited, ServerCleanup,
   ServerAssignSession, ServerCloseSession, Records, Events, Owning

LEMMA ConnRecords ==
  ASSUME NEW s \in Slots, Connection(s)
  PROVE  UNCHANGED <<stop, auditVars>> \/ Records(req[s])
BY DEF Connection, ConnProgress, ConnPrefaceProgress, ConnStart, ConnPrefaceReady,
   ConnPrefaceFails, ConnConnected, ConnFlushed, ConnBackendFails, ConnRunPumps,
   ConnPumpsFail, ConnSecondPumpFails, ConnConnectAuditFails, ConnJoin, ConnFailAudited,
   ConnCloseSession, Records, Events

\* The flags only rise and the trail grows by events.
AuditTypes ==
  stop \in BOOLEAN /\ auditLost \in BOOLEAN /\ trail \in [Requests -> Seq(Events)]

LEMMA RecordsTyped ==
  ASSUME AuditTypes, NEW r, Records(r)
  PROVE  AuditTypes' /\ (stop => stop') /\ (auditLost => auditLost')
<1>1. PICK e \in Events, written \in BOOLEAN : Audit(r, e, written)
  BY DEF Records
<1>2. CASE written
  <2>1. trail' = [trail EXCEPT ![r] = Append(@, e)] /\ UNCHANGED <<stop, auditLost>>
    BY <1>1, <1>2 DEF Audit
  <2>2. \A q \in Requests : Append(trail[q], e) \in Seq(Events)
    BY AppendProperties DEF AuditTypes
  <2>. QED
    BY <2>1, <2>2 DEF AuditTypes
<1>3. CASE ~written
  BY <1>1, <1>3 DEF Audit, AuditTypes
<1>. QED
  BY <1>2, <1>3

\* The shutdown flag is never taken back and a lost record never forgotten.
LEMMA FlagsGrow ==
  ASSUME [Next]_vars, AuditTypes
  PROVE  AuditTypes' /\ (stop => stop') /\ (auditLost => auditLost')
<1>1. CASE Server
  BY <1>1, ServerRecords, RecordsTyped DEF AuditTypes
<1>2. CASE \E s \in Slots : Connection(s)
  BY <1>2, ConnRecords, RecordsTyped DEF AuditTypes
<1>3. CASE \E s \in Slots, d \in Dirs : Pump(s, d)
  BY <1>3, PumpFrame DEF AuditTypes
<1>4. CASE Watchdog
  <2>1. UNCHANGED auditVars
    BY <1>4, WatchdogFrame
  <2>2. stop' = stop \/ stop' = TRUE
    BY <1>4 DEF Watchdog, WatchdogTop, WatchdogScan, WatchdogWakes, WatchdogEnds
  <2>. QED
    BY <2>1, <2>2 DEF AuditTypes
<1>5. CASE Idle
  <2>1. UNCHANGED auditVars
    BY <1>5, IdleFrame
  <2>2. stop' = stop \/ stop' = TRUE
    BY <1>5 DEF Idle, Signal, Age, vars
  <2>. QED
    BY <2>1, <2>2 DEF AuditTypes
<1>. QED
  BY <1>1, <1>2, <1>3, <1>4, <1>5, Tasks

-----------------------------------------------------------------------------
(* The accept task's control *)

ServerTypes ==
  /\ srv \in SrvPcs /\ running \in BOOLEAN
  /\ batch \in 0..(AcceptBatchMax - 1)
  /\ srvSlot \in 0..MaxClients
  /\ reqNo \in 0..RequestMax
  /\ lateAccepts \in Nat

\* The end of a client's turn.
LEMMA BatchStep ==
  ASSUME ServerTypes, NEW k \in BOOLEAN, NextInBatch(k), UNCHANGED <<reqNo, lateAccepts>>
  PROVE  /\ ServerTypes'
         /\ srvSlot' = NoSlot
         /\ srv' = "loop" \/ (srv' = "accept" /\ batch' = batch + 1)
<1>1. MaxClients \in Nat /\ AcceptBatchMax \in Nat /\ AcceptBatchMax > 0
  BY ProxyAssumption
<1>2. srvSlot' = NoSlot /\ running' \in BOOLEAN /\ srvSlot' \in 0..MaxClients
  BY <1>1 DEF NextInBatch, NoSlot
<1>3. CASE k /\ batch + 1 < AcceptBatchMax
  BY <1>1, <1>2, <1>3 DEF NextInBatch, ServerTypes, SrvPcs
<1>4. CASE ~(k /\ batch + 1 < AcceptBatchMax)
  BY <1>1, <1>2, <1>4 DEF NextInBatch, ServerTypes, SrvPcs
<1>. QED
  BY <1>3, <1>4

\* What each step of the accept task does to its control.  A batch, once it
\* is left, is entered again only through the server loop, which looks at the
\* shutdown flag.
Turns ==
  \/ srv = "start" /\ srv' \in {"loop", "done"} /\ lateAccepts' = lateAccepts
  \/ srv = "loop" /\ srv' = "poll" /\ ~stop /\ lateAccepts' = lateAccepts
  \/ srv \in {"loop", "poll"} /\ srv' \in {"loop", "done"} /\ lateAccepts' = lateAccepts
  \/ srv = "poll" /\ srv' = "accept" /\ batch' = 0 /\ lateAccepts' = lateAccepts
  \/ srv = "accept" /\ srv' = "loop" /\ lateAccepts' = lateAccepts
  \/ /\ srv = "accept" /\ srv' \in {"dropAudit", "acceptAudit"} /\ batch' = batch
     /\ lateAccepts' = IF stop THEN lateAccepts + 1 ELSE lateAccepts
  \/ srv = "acceptAudit" /\ srv' \in Owning /\ batch' = batch /\ lateAccepts' = lateAccepts
  \/ srv = "spawnAudit" /\ srv' = "closeAudit" /\ batch' = batch /\ lateAccepts' = lateAccepts
  \/ /\ srv \in {"dropAudit"} \cup Owning /\ lateAccepts' = lateAccepts
     /\ srv' = "loop" \/ (srv' = "accept" /\ batch' = batch + 1)

LEMMA ServerControl ==
  ASSUME ServerTypes, free \in Seq(Slots), Server
  PROVE  ServerTypes' /\ Turns
<1>1. /\ MaxClients \in Nat /\ AcceptBatchMax \in Nat /\ AcceptBatchMax > 0
      /\ 0 \in 0..(AcceptBatchMax - 1) /\ RequestMax \in Nat
  BY ProxyAssumption
<1>2. ASSUME ServerCleanup, lateAccepts' = lateAccepts
      PROVE  ServerTypes' /\ srv' = "done" /\ UNCHANGED <<batch, srvSlot, reqNo>>
  BY <1>2 DEF ServerCleanup, ServerTypes, SrvPcs
<1>3. CASE ServerStart
  BY <1>2, <1>3 DEF ServerStart, ServerTypes, SrvPcs, Turns
<1>4. CASE ServerLoop
  BY <1>2, <1>4 DEF ServerLoop, ServerTypes, SrvPcs, Turns
<1>5. CASE ServerPoll
  BY <1>1, <1>2, <1>5 DEF ServerPoll, ServerTypes, SrvPcs, Turns
<1>6. CASE ServerAcceptFails
  BY <1>1, <1>6 DEF ServerAcceptFails, ServerTypes, SrvPcs, Turns
<1>7. CASE ServerRequestsExhausted
  BY <1>1, <1>7 DEF ServerRequestsExhausted, ServerTypes, SrvPcs, Turns
<1>8. ASSUME AcceptRequest
      PROVE  /\ reqNo' \in 0..RequestMax /\ lateAccepts' \in Nat /\ srv = "accept"
             /\ lateAccepts' = IF stop THEN lateAccepts + 1 ELSE lateAccepts
  BY <1>1, <1>8 DEF AcceptRequest, ServerTypes
<1>9. CASE ServerDropClient
  BY <1>8, <1>9 DEF ServerDropClient, ServerTypes, SrvPcs, Turns
<1>10. CASE Assigns
  <2>1. PICK addr \in ClientIps : ServerAssignSession(addr)
    BY <1>10 DEF Assigns
  <2>2. AcceptRequest /\ FreeIndexes # {} /\ srvSlot' = free[PopIndex]
        /\ srv' = "acceptAudit" /\ UNCHANGED <<running, batch>>
    BY <2>1 DEF ServerAssignSession
  <2>3. PopIndex \in 1..Len(free)
    <3>1. FreeIndexes \subseteq 1..Len(free) /\ Len(free) \in Nat
      BY LenProperties DEF FreeIndexes
    <3>. QED
      BY <3>1, <2>2, LastIn DEF PopIndex
  <2>4. srvSlot' \in 0..MaxClients
    BY <1>1, <2>2, <2>3, ElementOfSeq DEF Slots
  <2>. QED
    BY <1>8, <2>2, <2>4 DEF ServerTypes, SrvPcs, Turns
<1>11. CASE ServerDropAudited
  <2>1. PICK k \in BOOLEAN : NextInBatch(k)
    BY <1>11 DEF ServerDropAudited
  <2>. QED
    BY <1>11, <2>1, BatchStep DEF ServerDropAudited, Turns
<1>12. CASE ServerSpawnConnection \/ ServerCloseSession
  <2>1. NextInBatch(running) /\ running \in BOOLEAN /\ srv \in Owning
        /\ UNCHANGED <<reqNo, lateAccepts>>
    BY <1>12 DEF ServerSpawnConnection, ServerCloseSession, ServerTypes, Owning
  <2>. QED
    BY <2>1, BatchStep DEF Turns
<1>13. CASE ServerSpawnFails \/ ServerAcceptAuditFails \/ ServerSpawnFailAudited
  BY <1>13 DEF ServerSpawnFails, ServerAcceptAuditFails, ServerSpawnFailAudited,
     ServerTypes, SrvPcs, Turns, Owning
<1>. QED
  BY <1>3, <1>4, <1>5, <1>6, <1>7, <1>9, <1>10, <1>11, <1>12, <1>13 DEF Server, Assigns

\* The other tasks leave the accept task's control alone.
LEMMA ControlFrame ==
  ASSUME [Next]_vars
  PROVE  Server \/ UNCHANGED <<serverVars, lateAccepts>>
BY Tasks, ConnFrame, PumpFrame, WatchdogFrame, IdleFrame

LEMMA LateStep ==
  ASSUME TypeOK, LateInv, [Next]_vars
  PROVE  LateInv'
<1>1. ServerTypes /\ AuditTypes /\ AcceptBatchMax \in Nat /\ batch + 1 <= AcceptBatchMax
  BY ProxyAssumption DEF TypeOK, ServerTypes, AuditTypes
<1>2. stop => stop'
  BY <1>1, FlagsGrow
<1>3. CASE UNCHANGED <<serverVars, lateAccepts>>
  BY <1>2, <1>3 DEF LateInv
<1>4. CASE Server
  <2>1. Turns /\ ServerTypes'
    BY <1>1, <1>4, ServerControl DEF TypeOK
  <2>. USE <2>1, <1>1, <1>2 DEF LateInv, ServerTypes, Owning
  <2>2. CASE srv \in {"start", "loop", "poll"}
    <3>1. lateAccepts' = lateAccepts /\ srv' \in {"poll", "loop", "done", "accept"}
      BY <2>2 DEF Turns
    <3>2. srv' \in {"poll", "accept"} => lateAccepts = 0 /\ batch' >= 0
      BY <2>2 DEF Turns
    <3>. QED
      BY <3>1, <3>2
  <2>3. CASE srv = "accept" /\ srv' = "loop" /\ lateAccepts' = lateAccepts
    BY <2>3
  <2>4. CASE /\ srv = "accept" /\ srv' \in {"dropAudit", "acceptAudit"} /\ batch' = batch
             /\ lateAccepts' = IF stop THEN lateAccepts + 1 ELSE lateAccepts
    BY <2>4
  <2>5. CASE srv \in {"dropAudit"} \cup Owning
    BY <2>5 DEF Turns
  <2>. QED
    BY <2>2, <2>3, <2>4, <2>5 DEF Turns
<1>. QED
  BY <1>3, <1>4, ControlFrame

-----------------------------------------------------------------------------
(* File descriptors *)

FdTypes == cfd \in [Slots -> FdStates] /\ bfd \in [Slots -> FdStates]

\* Shutting fds down closes none.
LEMMA ShutKeeps ==
  ASSUME FdTypes, NEW S, ShutFds(S)
  PROVE  FdsKept
<1>1. \A fd \in FdStates : Shut(fd) \in FdStates /\ (Shut(fd) = "none" <=> fd = "none")
  BY DEF Shut, FdStates
<1>. QED
  BY <1>1 DEF ShutFds, FdsKept, FdTypes

LEMMA SameFds ==
  ASSUME FdTypes, UNCHANGED <<cfd, bfd>>
  PROVE  FdsKept
BY DEF FdTypes, FdsKept

LEMMA ServerFds ==
  ASSUME FdTypes, Server
  PROVE  ServerCloseSession \/ Assigns \/ FdsKept
BY ShutKeeps, SameFds DEF Server, ServerStart, ServerLoop, ServerPoll, ServerAcceptFails,
   ServerRequestsExhausted, ServerDropClient, ServerDropAudited, ServerSpawnConnection,
   ServerSpawnFails, ServerAcceptAuditFails, ServerSpawnFailAudited, ServerCleanup,
   ShutdownAllSessions, Assigns

LEMMA PumpFds ==
  ASSUME FdTypes, NEW s \in Slots, NEW d \in Dirs, Pump(s, d)
  PROVE  FdsKept
BY ShutKeeps, SameFds DEF Pump, PumpPrepare, PumpMustStop, PumpEndOfStream, PumpRead,
   PumpWritten, PumpFails, PumpHardStop, PumpCleanStop

LEMMA WatchdogFds ==
  ASSUME FdTypes, Watchdog
  PROVE  FdsKept
BY ShutKeeps, SameFds DEF Watchdog, WatchdogTop, WatchdogScan, WatchdogWakes, WatchdogEnds,
   ShutCorruptAnd, ShutdownAllSessions

\* The socket of llps_connection_open_backend_socket.
OpensBackend(s) ==
  /\ conn[s] \in {"start", "preface"} /\ UNCHANGED <<pump, auditVars>>
  /\ cfd' = cfd /\ OpenBackend(s)

LEMMA ConnFds ==
  ASSUME FdTypes, NEW s \in Slots, Connection(s)
  PROVE  ConnCloseSession(s) \/ OpensBackend(s) \/ FdsKept
BY ShutKeeps, SameFds DEF Connection, ConnProgress, ConnPrefaceProgress, ConnStart,
   ConnPrefaceReady, ConnPrefaceFails, ConnConnected, ConnFlushed, ConnBackendFails,
   ConnRunPumps, ConnPumpsFail, ConnSecondPumpFails, ConnConnectAuditFails, ConnJoin,
   ConnFailAudited, OpensBackend

-----------------------------------------------------------------------------
(* The program counters *)

\* A connection task moves only itself, and ends only by closing its session.
LEMMA ConnControl ==
  ASSUME conn \in [Slots -> ConnPcs], NEW s \in Slots, Connection(s)
  PROVE  /\ conn[s] # "none"
         /\ \E p \in ConnPcs :
              /\ conn' = [conn EXCEPT ![s] = p]
              /\ ConnCloseSession(s) \/ p # "none"
              /\ OpensBackend(s) \/ p \notin WithBackend \/ conn[s] \in WithBackend
<1>1. CASE ConnPrefaceProgress(s)
  BY <1>1 DEF ConnPrefaceProgress, ConnPcs, WithBackend
<1>2. CASE ConnStart(s) \/ ConnPrefaceReady(s)
  BY <1>2 DEF ConnStart, ConnPrefaceReady, OpenBackend, OpensBackend, ConnGoto, ConnPcs,
     WithBackend
<1>3. CASE \/ ConnPrefaceFails(s) \/ ConnConnected(s) \/ ConnFlushed(s)
           \/ ConnBackendFails(s) \/ ConnRunPumps(s) \/ ConnPumpsFail(s)
           \/ ConnSecondPumpFails(s) \/ ConnConnectAuditFails(s) \/ ConnFailAudited(s)
  BY <1>3 DEF ConnPrefaceFails, ConnConnected, ConnFlushed, ConnBackendFails,
     ConnRunPumps, ConnPumpsFail, ConnSecondPumpFails, ConnConnectAuditFails,
     ConnFailAudited, ConnGoto, ConnPcs, WithBackend
<1>4. CASE ConnJoin(s)
  BY <1>4 DEF ConnJoin, ConnGoto, ConnPcs, WithBackend
<1>5. CASE ConnCloseSession(s)
  BY <1>5 DEF ConnCloseSession, ConnGoto, ConnPcs, WithBackend
<1>. QED
  BY <1>1, <1>2, <1>3, <1>4, <1>5 DEF Connection, ConnProgress

\* Only the accept task starts a connection task, and only for its own slot.
LEMMA ServerConn ==
  ASSUME Server
  PROVE  \/ UNCHANGED conn
         \/ srv \in Owning /\ srv' \notin Owning /\ conn' = [conn EXCEPT ![srvSlot] = "start"]
BY DEF Server, ServerStart, ServerLoop, ServerPoll, ServerAcceptFails,
   ServerRequestsExhausted, ServerDropClient, ServerDropAudited, ServerSpawnConnection,
   ServerSpawnFails, ServerAcceptAuditFails, ServerSpawnFailAudited, ServerAssignSession,
   ServerCloseSession, NextInBatch, Owning

PumpTypes == pump \in [Slots -> [Dirs -> PumpPcs]]

LEMMA PumpControl ==
  ASSUME PumpTypes, NEW s \in Slots, NEW d \in Dirs, Pump(s, d)
  PROVE  Live(pump[s][d]) /\ \E p \in PumpPcs : pump' = [pump EXCEPT ![s][d] = p]
BY DEF Pump, PumpPrepare, PumpMustStop, PumpEndOfStream, PumpRead, PumpWritten, PumpFails,
   PumpHardStop, PumpCleanStop, PumpGoto, PumpPcs, Live

\* A connection task starts and joins its own pumps.
LEMMA ConnPumps ==
  ASSUME conn \in [Slots -> ConnPcs], PumpTypes, NEW s \in Slots, Connection(s)
  PROVE  /\ \E q \in [Dirs -> PumpPcs] : pump' = [pump EXCEPT ![s] = q]
         /\ \/ conn'[s] \in Joining
            \/ UNCHANGED pump /\ conn[s] \notin Joining
            \/ ConnJoin(s)
<1>1. pump[s] \in [Dirs -> PumpPcs] /\ pump = [pump EXCEPT ![s] = pump[s]]
  BY DEF PumpTypes
<1>2. CASE UNCHANGED pump
  <2>1. conn[s] \notin Joining \/ ConnJoin(s)
    BY DEF Connection, ConnProgress, ConnPrefaceProgress, ConnStart, ConnPrefaceReady,
       ConnPrefaceFails, ConnConnected, ConnFlushed, ConnBackendFails, ConnRunPumps,
       ConnPumpsFail, ConnSecondPumpFails, ConnConnectAuditFails, ConnFailAudited,
       ConnCloseSession, Joining
  <2>. QED
    BY <1>1, <1>2, <2>1
<1>3. CASE ConnRunPumps(s) \/ ConnSecondPumpFails(s)
  <2>1. conn'[s] \in Joining
    BY <1>3 DEF ConnRunPumps, ConnSecondPumpFails, ConnGoto, Joining
  <2>2. [d \in Dirs |-> "prepare"] \in [Dirs -> PumpPcs]
    BY DEF PumpPcs
  <2>3. [pump[s] EXCEPT !["C2S"] = "prepare"] \in [Dirs -> PumpPcs]
    BY <1>1 DEF PumpPcs
  <2>4. CASE ConnRunPumps(s)
    BY <2>1, <2>2, <2>4 DEF ConnRunPumps
  <2>5. CASE ConnSecondPumpFails(s)
    <3>1. pump' = [pump EXCEPT ![s] = [pump[s] EXCEPT !["C2S"] = "prepare"]]
      BY <2>5 DEF ConnSecondPumpFails
    <3>. QED
      BY <2>1, <2>3, <3>1
  <2>. QED
    BY <1>3, <2>4, <2>5
<1>4. CASE ConnJoin(s)
  <2>1. [d \in Dirs |-> IF pump[s][d] = "done" THEN "none" ELSE pump[s][d]]
          \in [Dirs -> PumpPcs]
    BY <1>1 DEF PumpPcs
  <2>. QED
    BY <1>4, <2>1 DEF ConnJoin
<1>. QED
  BY <1>2, <1>3, <1>4 DEF Connection, ConnProgress, ConnPrefaceProgress, ConnStart,
     ConnPrefaceReady, ConnPrefaceFails, ConnConnected, ConnFlushed, ConnBackendFails,
     ConnPumpsFail, ConnConnectAuditFails, ConnFailAudited, ConnCloseSession

-----------------------------------------------------------------------------
(* Types *)

SessionTypes ==
  /\ state \in [Slots -> {"FREE", "ACTIVE"}]
  /\ ip \in [Slots -> ClientIps \cup {NoIp}]
  /\ req \in [Slots -> 0..RequestMax]
  /\ free \in Seq(Slots)

\* What llps_find_free_session finds.
LEMMA PopTypes ==
  ASSUME free \in Seq(Slots), FreeIndexes # {}
  PROVE  /\ PopIndex \in FreeIndexes /\ PopIndex \in 1..Len(free) /\ Len(free) \in Nat
         /\ \A j \in FreeIndexes : j <= PopIndex
         /\ free[PopIndex] \in Slots
         /\ SubSeq(free, 1, PopIndex - 1) \in Seq(Slots)
<1>1. FreeIndexes \subseteq 1..Len(free) /\ Len(free) \in Nat
  BY LenProperties DEF FreeIndexes
<1>2. PopIndex \in FreeIndexes /\ \A j \in FreeIndexes : j <= PopIndex
  BY <1>1, LastIn DEF PopIndex
<1>3. PopIndex \in 1..Len(free) /\ free[PopIndex] \in Slots
  BY <1>1, <1>2, ElementOfSeq
<1>4. SubSeq(free, 1, PopIndex - 1) \in Seq(Slots)
  BY <1>1, <1>3, SubSeqProperties
<1>. QED
  BY <1>1, <1>2, <1>3, <1>4

LEMMA ReturnTypes ==
  ASSUME free \in Seq(Slots), NEW s \in Slots, ReturnToFreeList(s)
  PROVE  free' \in Seq(Slots)
BY AppendProperties DEF ReturnToFreeList

\* A session that is closed has a slot.
LEMMA ClosesOne ==
  ASSUME srv \in Owning => srvSlot \in Slots, Closes
  PROVE  \E s \in Slots : CloseSession(s)
BY DEF Closes, ServerCloseSession, ConnCloseSession, Owning

LEMMA SessionTypesStep ==
  ASSUME TypeOK, OwnerInv, [Next]_vars
  PROVE  SessionTypes'
<1>1. SessionTypes /\ (srv \in Owning => srvSlot \in Slots)
  BY DEF TypeOK, SessionTypes, OwnerInv
<1>2. CASE Assigns
  <2>1. PICK addr \in ClientIps : ServerAssignSession(addr)
    BY <1>2 DEF Assigns
  <2>2. reqNo' \in 0..RequestMax
    BY <2>1, ProxyAssumption DEF ServerAssignSession, AcceptRequest, TypeOK
  <2>3. free[PopIndex] \in Slots /\ SubSeq(free, 1, PopIndex - 1) \in Seq(Slots)
    BY <1>1, <2>1, PopTypes DEF ServerAssignSession, SessionTypes
  <2>. QED
    BY <1>1, <2>1, <2>2, <2>3 DEF ServerAssignSession, SessionTypes
<1>3. CASE Closes
  <2>1. PICK s \in Slots : CloseSession(s)
    BY <1>1, <1>3, ClosesOne
  <2>2. free' \in Seq(Slots)
    BY <1>1, <2>1, ReturnTypes DEF CloseSession, SessionTypes
  <2>3. 0 \in 0..RequestMax
    BY ProxyAssumption
  <2>. QED
    BY <1>1, <2>1, <2>2, <2>3 DEF CloseSession, SessionTypes
<1>4. CASE SessionsKept
  BY <1>1, <1>4 DEF SessionsKept, SessionTypes
<1>. QED
  BY <1>2, <1>3, <1>4, SessionFrame

LEMMA FdTypesStep ==
  ASSUME TypeOK, OwnerInv, [Next]_vars
  PROVE  FdTypes'
<1>1. FdTypes /\ (srv \in Owning => srvSlot \in Slots)
  BY DEF TypeOK, FdTypes, OwnerInv
<1>2. CASE Closes
  <2>1. PICK s \in Slots : CloseSession(s)
    BY <1>1, <1>2, ClosesOne
  <2>. QED
    BY <1>1, <2>1 DEF CloseSession, FdTypes, FdStates
<1>3. CASE Assigns
  BY <1>1, <1>3 DEF Assigns, ServerAssignSession, FdTypes, FdStates
<1>4. ASSUME NEW s \in Slots, OpensBackend(s)
      PROVE  FdTypes'
  BY <1>1, <1>4 DEF OpensBackend, OpenBackend, FdTypes, FdStates
<1>5. CASE FdsKept
  BY <1>5 DEF FdsKept, FdTypes
<1>6. CASE Idle
  BY <1>1, <1>6, IdleFrame, SameFds, <1>5
<1>. QED
  BY <1>1, <1>2, <1>3, <1>4, <1>5, <1>6, Tasks, ServerFds, PumpFds, WatchdogFds, ConnFds
     DEF Closes

LEMMA ControlTypesStep ==
  ASSUME TypeOK, OwnerInv, [Next]_vars
  PROVE  conn' \in [Slots -> ConnPcs] /\ PumpTypes'
<1>1. conn \in [Slots -> ConnPcs] /\ PumpTypes /\ (srv \in Owning => srvSlot \in Slots)
  BY DEF TypeOK, PumpTypes, OwnerInv
<1>2. CASE Server
  <2>1. "start" \in ConnPcs
    BY DEF ConnPcs
  <2>. QED
    BY <1>1, <1>2, <2>1, ServerConn, ServerFrame DEF PumpTypes
<1>3. ASSUME NEW s \in Slots, Connection(s)
      PROVE  conn' \in [Slots -> ConnPcs] /\ PumpTypes'
  <2>1. PICK p \in ConnPcs : conn' = [conn EXCEPT ![s] = p]
    BY <1>1, <1>3, ConnControl
  <2>2. PICK q \in [Dirs -> PumpPcs] : pump' = [pump EXCEPT ![s] = q]
    BY <1>1, <1>3, ConnPumps
  <2>. QED
    BY <1>1, <2>1, <2>2 DEF PumpTypes
<1>4. ASSUME NEW s \in Slots, NEW d \in Dirs, Pump(s, d)
      PROVE  conn' \in [Slots -> ConnPcs] /\ PumpTypes'
  <2>1. PICK p \in PumpPcs : pump' = [pump EXCEPT ![s][d] = p]
    BY <1>1, <1>4, PumpControl
  <2>. QED
    BY <1>1, <1>4, <2>1, PumpFrame DEF PumpTypes
<1>5. CASE Watchdog \/ Idle
  BY <1>1, <1>5, WatchdogFrame, IdleFrame DEF PumpTypes
<1>. QED
  BY <1>2, <1>3, <1>4, <1>5, Tasks

\* The watchdog's own state and the age of the sessions.
WatchTypes ==
  wd \in WdPcs /\ cand \subseteq Slots /\ stale \in [Slots -> BOOLEAN]

LEMMA WatchTypesStep ==
  ASSUME WatchTypes, [Next]_vars
  PROVE  WatchTypes'
<1>1. ASSUME NEW s, Touch(s)
      PROVE  cand' \subseteq Slots /\ stale' \in [Slots -> BOOLEAN]
  BY <1>1 DEF Touch, WatchTypes
<1>2. CASE Server
  <2>1. wd' \in WdPcs
    BY <1>2, ServerFrame DEF Server, ServerStart, ServerLoop, ServerPoll, ServerAcceptFails,
       ServerRequestsExhausted, ServerDropClient, ServerDropAudited, ServerSpawnConnection,
       ServerSpawnFails, ServerAcceptAuditFails, ServerSpawnFailAudited, ServerCleanup,
       ServerAssignSession, ServerCloseSession, WatchTypes, WdPcs
  <2>2. UNCHANGED <<cand, stale>> \/ \E s : Touch(s)
    BY <1>2 DEF Server, ServerStart, ServerLoop, ServerPoll, ServerAcceptFails,
       ServerRequestsExhausted, ServerDropClient, ServerDropAudited, ServerSpawnConnection,
       ServerSpawnFails, ServerAcceptAuditFails, ServerSpawnFailAudited, ServerCleanup,
       ServerAssignSession, ServerCloseSession, CloseSession
  <2>. QED
    BY <2>1, <2>2, <1>1 DEF WatchTypes
<1>3. ASSUME NEW s \in Slots, Connection(s)
      PROVE  WatchTypes'
  <2>1. UNCHANGED <<cand, stale>> \/ Touch(s)
    BY <1>3 DEF Connection, ConnProgress, ConnPrefaceProgress, ConnStart, ConnPrefaceReady,
       ConnPrefaceFails, ConnConnected, ConnFlushed, ConnBackendFails, ConnRunPumps,
       ConnPumpsFail, ConnSecondPumpFails, ConnConnectAuditFails, ConnJoin,
       ConnFailAudited, ConnCloseSession, CloseSession
  <2>. QED
    BY <2>1, <1>1, <1>3, ConnFrame DEF WatchTypes
<1>4. ASSUME NEW s \in Slots, NEW d \in Dirs, Pump(s, d)
      PROVE  WatchTypes'
  <2>1. UNCHANGED <<cand, stale>> \/ Touch(s)
    BY <1>4 DEF Pump, PumpPrepare, PumpMustStop, PumpEndOfStream, PumpRead, PumpWritten,
       PumpFails, PumpHardStop, PumpCleanStop
  <2>. QED
    BY <2>1, <1>1, <1>4, PumpFrame DEF WatchTypes
<1>5. CASE Watchdog
  BY <1>5 DEF Watchdog, WatchdogTop, WatchdogScan, WatchdogWakes, WatchdogEnds, WatchTypes,
     WdPcs
<1>6. CASE Idle
  BY <1>6 DEF Idle, Signal, Age, vars, WatchTypes
<1>. QED
  BY <1>2, <1>3, <1>4, <1>5, <1>6, Tasks

LEMMA TypeStep ==
  ASSUME TypeOK, OwnerInv, [Next]_vars
  PROVE  TypeOK'
<1>1. ServerTypes /\ AuditTypes /\ WatchTypes
  BY DEF TypeOK, ServerTypes, AuditTypes, WatchTypes
<1>2. ServerTypes'
  BY <1>1, ServerControl, ControlFrame DEF TypeOK, ServerTypes
<1>3. AuditTypes' /\ WatchTypes'
  BY <1>1, FlagsGrow, WatchTypesStep
<1>4. SessionTypes' /\ FdTypes' /\ conn' \in [Slots -> ConnPcs] /\ PumpTypes'
  BY SessionTypesStep, FdTypesStep, ControlTypesStep
<1>. QED
  BY <1>2, <1>3, <1>4 DEF TypeOK, ServerTypes, AuditTypes, WatchTypes, SessionTypes, FdTypes,
     PumpTypes

-----------------------------------------------------------------------------
(* The free list *)

LEMMA SlotsFinite ==
  IsFiniteSet(Slots) /\ Cardinality(Slots) = MaxClients
<1>1. MaxClients \in Nat \ {0} /\ 0 \in Int /\ MaxClients - 1 \in Int
  BY ProxyAssumption
<1>2. IsFiniteSet(0..(MaxClients - 1))
  BY <1>1, FS_Interval, ZenonT(30)
<1>3. Cardinality(0..(MaxClients - 1)) =
        IF 0 > MaxClients - 1 THEN 0 ELSE (MaxClients - 1) - 0 + 1
  BY <1>1, FS_Interval, ZenonT(30)
<1>. QED
  BY <1>1, <1>2, <1>3 DEF Slots

\* While a slot is in use the free list has room for it.
LEMMA HasRoom ==
  ASSUME free \in Seq(Slots), FreeListExact, NEW s \in Slots, state[s] # "FREE"
  PROVE  Len(free) < MaxClients
<1>1. MaxClients \in Nat /\ 1 \in Int /\ Len(free) \in Nat /\ Len(free) \in Int
  BY ProxyAssumption, LenProperties
<1>2. \A i \in 1..Len(free) : free[i] \in Slots \ {s}
  BY DEF FreeListExact
<1>3. IsFiniteSet(Slots \ {s}) /\ Cardinality(Slots \ {s}) = MaxClients - 1
  BY SlotsFinite, FS_RemoveElement
<1>. DEFINE f == [i \in 1..Len(free) |-> free[i]]
<1>4. f \in Injection(1..Len(free), Slots \ {s})
  BY <1>2 DEF Injection, IsInjective, FreeListExact
<1>5. Cardinality(1..Len(free)) <= Cardinality(Slots \ {s})
  BY <1>3, <1>4, FS_Injection
<1>6. Cardinality(1..Len(free)) = IF 1 > Len(free) THEN 0 ELSE Len(free) - 1 + 1
  BY <1>1, FS_Interval, ZenonT(30)
<1>. QED
  BY <1>1, <1>3, <1>5, <1>6

\* The top of an exact free list is free, so no entry is skipped.
LEMMA PopTakesTop ==
  ASSUME free \in Seq(Slots), FreeListExact, FreeIndexes # {}
  PROVE  PopIndex = Len(free) /\ Len(free) \in Nat \ {0}
<1>1. FreeIndexes = 1..Len(free)
  BY DEF FreeIndexes, FreeListExact
<1>. QED
  BY <1>1, PopTypes

LEMMA AssignKeepsList ==
  ASSUME TypeOK, FreeListExact, Assigns
  PROVE  FreeListExact'
<1>1. PICK addr \in ClientIps : ServerAssignSession(addr)
  BY DEF Assigns
<1>. DEFINE n == Len(free)
            s == free[n]
<1>2. free \in Seq(Slots) /\ n \in Nat \ {0} /\ s \in Slots /\ PopIndex = n
  BY <1>1, PopTypes, PopTakesTop DEF ServerAssignSession, TypeOK
<1>3. free' = SubSeq(free, 1, n - 1) /\ state' = [state EXCEPT ![s] = "ACTIVE"]
  BY <1>1, <1>2 DEF ServerAssignSession
<1>4. Len(free') = n - 1 /\ \A i \in 1..(n - 1) : free'[i] = free[i]
  BY <1>2, <1>3, SubSeqProperties
<1>5. \A i \in 1..(n - 1) : i \in 1..n /\ i # n /\ free[i] # s
  BY <1>2 DEF FreeListExact
<1>6. \A i \in 1..n : i \in 1..(n - 1) \/ i = n
  BY <1>2
<1>7. \A t \in Slots : state'[t] = "FREE" <=> state[t] = "FREE" /\ t # s
  BY <1>2, <1>3 DEF TypeOK
<1>. HIDE DEF n, s
<1>8. {free[i] : i \in 1..(n - 1)} = {t \in Slots : state[t] = "FREE" /\ t # s}
  <2>1. {free[i] : i \in 1..n} = {t \in Slots : state[t] = "FREE"}
    BY DEF FreeListExact, n
  <2>. QED
    BY <2>1, <1>5, <1>6 DEF s
<1>9. \A i, j \in 1..(n - 1) : free[i] = free[j] => i = j
  BY <1>5 DEF FreeListExact, n
<1>10. {free'[i] : i \in 1..Len(free')} = {t \in Slots : state'[t] = "FREE"}
  BY <1>4, <1>7, <1>8
<1>11. \A i, j \in 1..Len(free') : free'[i] = free'[j] => i = j
  BY <1>4, <1>9
<1>. QED
  BY <1>10, <1>11 DEF FreeListExact

LEMMA CloseKeepsList ==
  ASSUME TypeOK, FreeListExact, NEW s \in Slots, state[s] = "ACTIVE", CloseSession(s)
  PROVE  FreeListExact'
<1>. DEFINE n == Len(free)
<1>1. free \in Seq(Slots) /\ n \in Nat /\ n < MaxClients /\ MaxClients \in Nat
  BY HasRoom, LenProperties, ProxyAssumption DEF TypeOK
<1>2. \A i \in 1..n : free[i] # s
  BY DEF FreeListExact
<1>3. free' = Append(free, s) /\ state' = [state EXCEPT ![s] = "FREE"]
  BY <1>1, <1>2 DEF CloseSession, ReturnToFreeList
<1>4. Len(free') = n + 1 /\ free'[n + 1] = s /\ \A i \in 1..n : free'[i] = free[i]
  BY <1>1, <1>3, AppendProperties
<1>5. \A i \in 1..(n + 1) : i \in 1..n \/ i = n + 1
  BY <1>1
<1>6. n + 1 \in 1..(n + 1) /\ \A i \in 1..n : i \in 1..(n + 1)
  BY <1>1
<1>7. \A t \in Slots : state'[t] = "FREE" <=> state[t] = "FREE" \/ t = s
  BY <1>3 DEF TypeOK
<1>. HIDE DEF n
<1>8. {free[i] : i \in 1..n} = {t \in Slots : state[t] = "FREE"}
  BY DEF FreeListExact, n
<1>9. {free'[i] : i \in 1..(n + 1)} = {t \in Slots : state'[t] = "FREE"}
  BY <1>4, <1>5, <1>6, <1>7, <1>8
<1>10. \A i, j \in 1..(n + 1) : free'[i] = free'[j] => i = j
  <2>1. \A i, j \in 1..n : free[i] = free[j] => i = j
    BY DEF FreeListExact, n
  <2>. QED
    BY <2>1, <1>2, <1>4, <1>5 DEF n
<1>. QED
  BY <1>4, <1>9, <1>10 DEF FreeListExact

\* A session that is closed is active.
LEMMA ClosesActive ==
  ASSUME TypeOK, OwnerInv, Closes
  PROVE  \E s \in Slots : CloseSession(s) /\ state[s] = "ACTIVE"
<1>1. CASE ServerCloseSession
  <2>1. srv = "closeAudit" /\ CloseSession(srvSlot)
    BY <1>1 DEF ServerCloseSession
  <2>2. srvSlot \in Slots /\ ServerOwns(srvSlot)
    BY <2>1 DEF OwnerInv, Owning, ServerOwns
  <2>3. SlotInv(srvSlot)
    BY <2>2 DEF OwnerInv
  <2>. QED
    BY <2>1, <2>2, <2>3 DEF TypeOK, SlotInv
<1>2. ASSUME NEW s \in Slots, ConnCloseSession(s)
      PROVE  CloseSession(s) /\ state[s] = "ACTIVE"
  <2>1. SlotInv(s) /\ conn[s] = "closeAudit" /\ CloseSession(s)
    BY <1>2 DEF OwnerInv, ConnCloseSession
  <2>. QED
    BY <2>1 DEF TypeOK, SlotInv
<1>. QED
  BY <1>1, <1>2 DEF Closes

LEMMA ListStep ==
  ASSUME LifeInv, [Next]_vars
  PROVE  FreeListExact'
<1>1. CASE Assigns
  BY <1>1, AssignKeepsList DEF LifeInv
<1>2. CASE Closes
  BY <1>2, CloseKeepsList, ClosesActive DEF LifeInv
<1>3. CASE SessionsKept
  BY <1>3 DEF SessionsKept, FreeListExact, LifeInv
<1>. QED
  BY <1>1, <1>2, <1>3, SessionFrame

-----------------------------------------------------------------------------
(* Ownership *)

\* The accept task keeps its slot until it assigns, hands over or closes one.
LEMMA ServerHolds ==
  ASSUME Server
  PROVE  \/ Assigns \/ ServerCloseSession \/ ServerSpawnConnection
         \/ /\ UNCHANGED conn
            /\ srv' \in Owning <=> srv \in Owning
            /\ srv \in Owning => srvSlot' = srvSlot
BY DEF Server, ServerStart, ServerLoop, ServerPoll, ServerAcceptFails,
   ServerRequestsExhausted, ServerDropClient, ServerDropAudited, ServerSpawnFails,
   ServerAcceptAuditFails, ServerSpawnFailAudited, ServerCleanup, AcceptRequest,
   NextInBatch, Assigns, Owning

\* What a step must not touch of a slot it is not about.
SlotKept(s) ==
  /\ state'[s] = state[s] /\ conn'[s] = conn[s]
  /\ ServerOwns(s)' <=> ServerOwns(s)
  /\ cfd'[s] = "none" <=> cfd[s] = "none"
  /\ bfd'[s] = "none" <=> bfd[s] = "none"

LEMMA KeptSlot ==
  ASSUME NEW s \in Slots, SlotInv(s), SlotKept(s)
  PROVE  SlotInv(s)'
BY DEF SlotInv, SlotKept

LEMMA CloseKeepsOwners ==
  ASSUME TypeOK, OwnerInv, NEW s \in Slots, CloseSession(s), conn'[s] = "none",
         ~ServerOwns(s)', \A t \in Slots \ {s} : conn'[t] = conn[t],
         \A t \in Slots \ {s} : ServerOwns(t)' <=> ServerOwns(t),
         srv' \in Owning => srvSlot' \in Slots
  PROVE  OwnerInv'
<1>1. /\ state'[s] = "FREE" /\ cfd'[s] = "none" /\ bfd'[s] = "none"
      /\ \A t \in Slots \ {s} : state'[t] = state[t] /\ cfd'[t] = cfd[t] /\ bfd'[t] = bfd[t]
  BY DEF CloseSession, TypeOK
<1>2. SlotInv(s)'
  BY <1>1 DEF SlotInv, WithBackend
<1>3. ASSUME NEW t \in Slots \ {s}
      PROVE  SlotInv(t)'
  BY <1>1, KeptSlot DEF SlotKept, OwnerInv
<1>. QED
  BY <1>2, <1>3 DEF OwnerInv

LEMMA ServerKeepsOwners ==
  ASSUME TypeOK, FreeListExact, OwnerInv, Server
  PROVE  OwnerInv'
<1>1. FdTypes /\ free \in Seq(Slots)
  BY DEF TypeOK, FdTypes
<1>2. CASE Assigns
  <2>1. PICK addr \in ClientIps : ServerAssignSession(addr)
    BY <1>2 DEF Assigns
  <2>2. PICK s \in Slots : s = free[PopIndex] /\ state[s] = "FREE"
    BY <1>1, <2>1, PopTypes DEF ServerAssignSession, FreeIndexes
  <2>3. /\ state' = [state EXCEPT ![s] = "ACTIVE"] /\ cfd' = [cfd EXCEPT ![s] = "open"]
        /\ bfd' = [bfd EXCEPT ![s] = "none"] /\ srvSlot' = s /\ srv' = "acceptAudit"
        /\ srv = "accept" /\ UNCHANGED conn
    BY <2>1, <2>2 DEF ServerAssignSession, AcceptRequest
  <2>4. SlotInv(s)
    BY <2>2 DEF OwnerInv
  <2>5. SlotInv(s)'
    BY <2>2, <2>3, <2>4 DEF SlotInv, ServerOwns, TypeOK, WithBackend
  <2>6. ASSUME NEW t \in Slots, t # s
        PROVE  SlotInv(t)'
    <3>1. SlotKept(t)
      BY <2>2, <2>3, <2>6 DEF SlotKept, ServerOwns, TypeOK
    <3>. QED
      BY <3>1, KeptSlot DEF OwnerInv
  <2>. QED
    BY <2>2, <2>3, <2>5, <2>6 DEF OwnerInv
<1>3. CASE ServerCloseSession
  <2>1. /\ srv \in Owning /\ srvSlot \in Slots /\ CloseSession(srvSlot) /\ UNCHANGED conn
        /\ srv' \notin Owning
    BY <1>3 DEF ServerCloseSession, NextInBatch, Owning, OwnerInv
  <2>2. SlotInv(srvSlot) /\ ServerOwns(srvSlot)
    BY <2>1 DEF OwnerInv, ServerOwns, Owning
  <2>3. conn[srvSlot] = "none"
    BY <2>1, <2>2 DEF SlotInv, TypeOK
  <2>4. \A t \in Slots : ~ServerOwns(t)'
    BY <2>1 DEF ServerOwns, Owning
  <2>5. \A t \in Slots \ {srvSlot} : ~ServerOwns(t)
    BY DEF ServerOwns
  <2>. QED
    BY <2>1, <2>3, <2>4, <2>5, CloseKeepsOwners
<1>4. CASE ServerSpawnConnection
  <2>1. /\ srv \in Owning /\ srvSlot \in Slots /\ state' = state /\ srv' \notin Owning
        /\ conn' = [conn EXCEPT ![srvSlot] = "start"]
    BY <1>4 DEF ServerSpawnConnection, NextInBatch, Owning, OwnerInv
  <2>2. FdsKept
    BY <1>1, <1>4, ShutKeeps DEF ServerSpawnConnection
  <2>3. SlotInv(srvSlot) /\ ServerOwns(srvSlot)
    BY <2>1 DEF OwnerInv, ServerOwns, Owning
  <2>4. \A t \in Slots : ~ServerOwns(t)'
    BY <2>1 DEF ServerOwns, Owning
  <2>5. ASSUME NEW t \in Slots, t = srvSlot
        PROVE  SlotInv(t)'
    BY <2>5, <2>1, <2>2, <2>3, <2>4 DEF SlotInv, FdsKept, TypeOK, WithBackend
  <2>6. ASSUME NEW t \in Slots, t # srvSlot
        PROVE  SlotInv(t)'
    <3>1. SlotKept(t)
      BY <2>1, <2>2, <2>4, <2>6 DEF SlotKept, ServerOwns, TypeOK, FdsKept
    <3>. QED
      BY <3>1, KeptSlot DEF OwnerInv
  <2>. QED
    BY <2>1, <2>5, <2>6 DEF OwnerInv
<1>5. CASE /\ UNCHANGED conn /\ (srv' \in Owning <=> srv \in Owning)
           /\ (srv \in Owning => srvSlot' = srvSlot) /\ SessionsKept /\ FdsKept
  <2>1. ASSUME NEW t \in Slots
        PROVE  SlotInv(t)'
    <3>1. SlotKept(t)
      BY <1>5 DEF SlotKept, ServerOwns, Owning, SessionsKept, FdsKept
    <3>. QED
      BY <3>1, KeptSlot DEF OwnerInv
  <2>. QED
    BY <1>5, <2>1 DEF OwnerInv
<1>. QED
  BY <1>1, <1>2, <1>3, <1>4, <1>5, ServerHolds, ServerFds, ServerFrame

LEMMA ConnKeepsOwners ==
  ASSUME TypeOK, OwnerInv, NEW s \in Slots, Connection(s)
  PROVE  OwnerInv'
<1>1. FdTypes /\ conn \in [Slots -> ConnPcs] /\ SlotInv(s)
  BY DEF TypeOK, FdTypes, OwnerInv
<1>2. UNCHANGED <<srv, srvSlot>> /\ \A t \in Slots : ServerOwns(t)' <=> ServerOwns(t)
  BY ConnFrame DEF ServerOwns
<1>3. PICK p \in ConnPcs :
        /\ conn' = [conn EXCEPT ![s] = p]
        /\ ConnCloseSession(s) \/ p # "none"
        /\ OpensBackend(s) \/ p \notin WithBackend \/ conn[s] \in WithBackend
  BY <1>1, ConnControl
<1>4. conn[s] # "none" /\ state[s] = "ACTIVE" /\ ~ServerOwns(s) /\ cfd[s] # "none"
  <2>1. conn[s] # "none"
    BY <1>1, ConnControl
  <2>. QED
    BY <1>1, <2>1 DEF SlotInv, TypeOK
<1>5. CASE ConnCloseSession(s)
  <2>1. CloseSession(s) /\ conn' = [conn EXCEPT ![s] = "none"]
    BY <1>5 DEF ConnCloseSession, ConnGoto
  <2>. QED
    BY <1>1, <1>2, <1>4, <2>1, CloseKeepsOwners DEF OwnerInv
<1>6. ASSUME ~ConnCloseSession(s)
      PROVE  OwnerInv'
  <2>1. p # "none" /\ state' = state
    BY <1>3, <1>6, ConnFrame DEF SessionsKept
  <2>2. /\ cfd'[s] # "none"
        /\ conn'[s] \in WithBackend => bfd'[s] # "none"
        /\ \A t \in Slots \ {s} : /\ cfd'[t] = "none" <=> cfd[t] = "none"
                                  /\ bfd'[t] = "none" <=> bfd[t] = "none"
    <3>1. CASE OpensBackend(s)
      BY <1>1, <1>4, <3>1 DEF OpensBackend, OpenBackend, ConnGoto, FdTypes, WithBackend
    <3>2. CASE ~OpensBackend(s) /\ FdsKept
      <4>1. p \in WithBackend => bfd[s] # "none"
        BY <1>1, <1>3, <3>2 DEF SlotInv
      <4>. QED
        BY <1>1, <1>3, <1>4, <4>1, <3>2 DEF FdsKept
    <3>. QED
      BY <3>1, <3>2, <1>1, <1>6, ConnFds
  <2>3. SlotInv(s)'
    BY <1>1, <1>2, <1>3, <1>4, <2>1, <2>2 DEF SlotInv
  <2>4. ASSUME NEW t \in Slots, t # s
        PROVE  SlotInv(t)'
    <3>1. SlotKept(t)
      BY <1>1, <1>2, <1>3, <2>1, <2>2, <2>4 DEF SlotKept
    <3>. QED
      BY <3>1, KeptSlot DEF OwnerInv
  <2>. QED
    BY <1>2, <2>3, <2>4 DEF OwnerInv
<1>. QED
  BY <1>5, <1>6

LEMMA OwnerStep ==
  ASSUME LifeInv, [Next]_vars
  PROVE  OwnerInv'
<1>1. FdTypes
  BY DEF LifeInv, TypeOK, FdTypes
<1>2. CASE Server
  BY <1>2, ServerKeepsOwners DEF LifeInv
<1>3. CASE \E s \in Slots : Connection(s)
  BY <1>3, ConnKeepsOwners DEF LifeInv
<1>4. CASE UNCHANGED <<srv, srvSlot, conn, state>> /\ FdsKept
  <2>1. ASSUME NEW t \in Slots
        PROVE  SlotInv(t)'
    <3>1. SlotKept(t)
      BY <1>4 DEF SlotKept, ServerOwns, FdsKept
    <3>. QED
      BY <3>1, KeptSlot DEF OwnerInv, LifeInv
  <2>. QED
    BY <1>4, <2>1 DEF OwnerInv, LifeInv
<1>5. CASE \E s \in Slots, d \in Dirs : Pump(s, d)
  BY <1>1, <1>4, <1>5, PumpFrame, PumpFds DEF SessionsKept
<1>6. CASE Watchdog
  BY <1>1, <1>4, <1>6, WatchdogFrame, WatchdogFds DEF SessionsKept
<1>7. CASE Idle
  BY <1>1, <1>4, <1>7, IdleFrame, SameFds DEF SessionsKept
<1>. QED
  BY <1>2, <1>3, <1>5, <1>6, <1>7, Tasks

LEMMA LifeStep ==
  ASSUME LifeInv, [Next]_vars
  PROVE  LifeInv'
BY TypeStep, OwnerStep, ListStep DEF LifeInv

-----------------------------------------------------------------------------
(* Pumps end before their connection task goes on *)

LEMMA PumpsStep ==
  ASSUME ~JoinMayFail, LifeInv, PumpsJoined, [Next]_vars
  PROVE  PumpsJoined'
<1>1. PumpTypes /\ conn \in [Slots -> ConnPcs] /\ OwnerInv
  BY DEF LifeInv, TypeOK, PumpTypes
<1>2. CASE Server
  <2>1. UNCHANGED pump
    BY <1>2, ServerFrame
  <2>2. ASSUME srv \in Owning, conn' = [conn EXCEPT ![srvSlot] = "start"]
        PROVE  PumpsJoined'
    <3>1. srvSlot \in Slots /\ SlotInv(srvSlot) /\ ServerOwns(srvSlot)
      BY <1>1, <2>2 DEF OwnerInv, ServerOwns, Owning
    <3>2. conn[srvSlot] = "none"
      BY <3>1 DEF SlotInv, LifeInv, TypeOK
    <3>3. \A d \in Dirs : ~Live(pump[srvSlot][d])
      BY <3>1, <3>2 DEF PumpsJoined, Joining
    <3>4. \A t \in Slots : t # srvSlot => conn'[t] = conn[t]
      BY <1>1, <2>2
    <3>. QED
      BY <2>1, <3>3, <3>4 DEF PumpsJoined
  <2>. QED
    BY <1>2, <2>1, <2>2, ServerConn DEF PumpsJoined
<1>3. ASSUME NEW s \in Slots, Connection(s)
      PROVE  PumpsJoined'
  <2>1. PICK q \in [Dirs -> PumpPcs] : pump' = [pump EXCEPT ![s] = q]
    BY <1>1, <1>3, ConnPumps
  <2>2. PICK p \in ConnPcs : conn' = [conn EXCEPT ![s] = p]
    BY <1>1, <1>3, ConnControl
  <2>3. \A t \in Slots : t # s => pump'[t] = pump[t] /\ conn'[t] = conn[t]
    BY <1>1, <2>1, <2>2 DEF PumpTypes
  <2>4. CASE conn'[s] \in Joining
    BY <2>3, <2>4 DEF PumpsJoined
  <2>5. CASE UNCHANGED pump /\ conn[s] \notin Joining
    BY <2>3, <2>5 DEF PumpsJoined
  <2>6. CASE ConnJoin(s)
    <3>1. \A d \in Dirs : ~Live(pump[s][d])
      BY <2>6 DEF ConnJoin
    <3>2. \A d \in Dirs : pump'[s][d] = pump[s][d] \/ pump'[s][d] = "none"
      BY <1>1, <2>6 DEF ConnJoin, PumpTypes
    <3>3. \A d \in Dirs : ~Live(pump'[s][d])
      BY <3>1, <3>2 DEF Live
    <3>. QED
      BY <2>3, <3>3 DEF PumpsJoined
  <2>. QED
    BY <1>1, <1>3, <2>4, <2>5, <2>6, ConnPumps
<1>4. ASSUME NEW s \in Slots, NEW d \in Dirs, Pump(s, d)
      PROVE  PumpsJoined'
  <2>1. PICK p \in PumpPcs : pump' = [pump EXCEPT ![s][d] = p]
    BY <1>1, <1>4, PumpControl
  <2>2. Live(pump[s][d]) /\ UNCHANGED conn
    BY <1>1, <1>4, PumpControl, PumpFrame
  <2>3. \A t \in Slots, e \in Dirs : pump'[t][e] = pump[t][e] \/ (t = s /\ e = d)
    BY <1>1, <2>1 DEF PumpTypes
  <2>. QED
    BY <2>2, <2>3 DEF PumpsJoined
<1>5. CASE Watchdog \/ Idle
  BY <1>5, WatchdogFrame, IdleFrame DEF PumpsJoined
<1>. QED
  BY <1>2, <1>3, <1>4, <1>5, Tasks

-----------------------------------------------------------------------------
(* Sessions per client address *)

SessionsOf(addr) == {s \in ActiveSlots : ip[s] = addr}

LEMMA SessionsFinite ==
  ASSUME NEW S, S \subseteq Slots
  PROVE  IsFiniteSet(S) /\ Cardinality(S) \in Nat
BY SlotsFinite, FS_Subset, FS_CardinalityType

LEMMA AddressStep ==
  ASSUME LifeInv, PerIpLimit, [Next]_vars
  PROVE  PerIpLimit'
<1>1. TypeOK /\ OwnerInv /\ MaxSessionsPerIp \in Nat
  BY ProxyAssumption DEF LifeInv
<1>2. SUFFICES ASSUME MaxSessionsPerIp # 0, NEW addr \in ClientIps
               PROVE  Cardinality(SessionsOf(addr)') <= MaxSessionsPerIp
  BY DEF PerIpLimit, SessionsOf
<1>3. /\ SessionsOf(addr) \subseteq Slots
      /\ Cardinality(SessionsOf(addr)) <= MaxSessionsPerIp
  BY <1>2 DEF PerIpLimit, SessionsOf, ActiveSlots
<1>4. CASE Assigns
  <2>1. PICK a \in ClientIps : ServerAssignSession(a)
    BY <1>4 DEF Assigns
  <2>2. PICK s \in Slots : s = free[PopIndex] /\ state[s] = "FREE"
    BY <1>1, <2>1, PopTypes DEF ServerAssignSession, FreeIndexes, TypeOK
  <2>3. state' = [state EXCEPT ![s] = "ACTIVE"] /\ ip' = [ip EXCEPT ![s] = a]
    BY <2>1, <2>2 DEF ServerAssignSession
  <2>4. \A t \in Slots : t # s => state'[t] = state[t] /\ ip'[t] = ip[t]
    BY <1>1, <2>3 DEF TypeOK
  <2>5. state'[s] = "ACTIVE" /\ ip'[s] = a /\ s \notin SessionsOf(addr)
    BY <1>1, <2>2, <2>3 DEF TypeOK, SessionsOf, ActiveSlots
  <2>6. CASE a = addr
    <3>1. SessionsOf(addr)' = SessionsOf(addr) \cup {s}
      BY <2>2, <2>4, <2>5, <2>6 DEF SessionsOf, ActiveSlots
    <3>2. Cardinality(SessionsOf(addr) \cup {s}) = Cardinality(SessionsOf(addr)) + 1
      BY <1>3, <2>5, SessionsFinite, FS_AddElement
    <3>3. ~(Cardinality(SessionsOf(addr)) >= MaxSessionsPerIp)
      BY <1>2, <2>1, <2>6 DEF ServerAssignSession, LimitExceeded, SessionsOf
    <3>. QED
      BY <1>1, <1>3, <3>1, <3>2, <3>3, SessionsFinite
  <2>7. CASE a # addr
    <3>1. SessionsOf(addr)' = SessionsOf(addr)
      BY <2>2, <2>4, <2>5, <2>7 DEF SessionsOf, ActiveSlots
    <3>. QED
      BY <1>3, <3>1
  <2>. QED
    BY <2>6, <2>7
<1>5. CASE Closes
  <2>1. PICK s \in Slots : CloseSession(s) /\ state[s] = "ACTIVE"
    BY <1>1, <1>5, ClosesActive
  <2>2. state'[s] = "FREE" /\ \A t \in Slots : t # s => state'[t] = state[t] /\ ip'[t] = ip[t]
    BY <1>1, <2>1 DEF CloseSession, TypeOK
  <2>3. SessionsOf(addr)' \subseteq SessionsOf(addr)
    BY <2>2 DEF SessionsOf, ActiveSlots
  <2>4. /\ Cardinality(SessionsOf(addr)') <= Cardinality(SessionsOf(addr))
        /\ Cardinality(SessionsOf(addr)') \in Nat /\ Cardinality(SessionsOf(addr)) \in Nat
    <3>1. IsFiniteSet(SessionsOf(addr)) /\ SessionsOf(addr)' \subseteq Slots
      BY <1>3, <2>3, SessionsFinite
    <3>. QED
      BY <1>3, <2>3, <3>1, SessionsFinite, FS_Subset
  <2>. QED
    BY <1>1, <1>3, <2>4
<1>6. CASE SessionsKept
  BY <1>3, <1>6 DEF SessionsKept, SessionsOf, ActiveSlots
<1>. QED
  BY <1>4, <1>5, <1>6, SessionFrame

-----------------------------------------------------------------------------
(* The audit trail *)

\* What was told of a request when its task gets to each of its records.
Nothing == <<>>
Accepted == <<"ACCEPT">>
Refused == <<"ACCEPT", "FAIL">>
Connected == <<"ACCEPT", "CONNECT">>
Broken == <<"ACCEPT", "CONNECT", "FAIL">>

\* Before the BACKEND_CONNECT record.
Early == {"start", "preface", "connect", "flush", "connectAudit"}

Said(s) ==
  /\ ServerOwns(s) =>
       /\ srv = "acceptAudit" => trail[req[s]] = Nothing
       /\ srv = "spawnAudit" => trail[req[s]] = Accepted
       /\ srv = "closeAudit" => trail[req[s]] = Refused
  /\ conn[s] \in Early => trail[req[s]] = Accepted
  /\ conn[s] \in Joining => trail[req[s]] = Connected
  /\ conn[s] = "failAudit" => trail[req[s]] \in {Accepted, Connected}
  /\ conn[s] = "closeAudit" => trail[req[s]] \in {Refused, Connected, Broken}

\* Request numbers are those of the sessions, each used once.
Numbers ==
  /\ \A s \in Slots : state[s] = "FREE" => req[s] = 0
  /\ \A s \in Slots : state[s] = "ACTIVE" => req[s] \in 1..reqNo
  /\ \A s, t \in Slots : state[s] = "ACTIVE" /\ req[s] = req[t] => s = t
  /\ srv = "dropAudit" => reqNo \in Requests /\ \A s \in Slots : req[s] # reqNo

Told ==
  /\ \A r \in Requests : r > reqNo => trail[r] = Nothing
  /\ srv = "dropAudit" => trail[reqNo] = Nothing
  /\ \A s \in Slots : state[s] = "ACTIVE" => Said(s)
  /\ \A r \in 1..reqNo : ~InProgress(r) => trail[r] \in Stories

AuditInv == Numbers /\ (~auditLost => Told)

LEMMA Spelled ==
  ASSUME NEW a \in Seq(Events), NEW b \in Seq(Events), NEW e \in Events,
         Len(b) = Len(a) + 1, b[Len(a) + 1] = e, \A i \in 1..Len(a) : b[i] = a[i]
  PROVE  Append(a, e) = b
<1>1. /\ Append(a, e) \in Seq(Events) /\ Len(Append(a, e)) = Len(a) + 1 /\ Len(a) \in Nat
      /\ Append(a, e)[Len(a) + 1] = e /\ \A i \in 1..Len(a) : Append(a, e)[i] = a[i]
  BY AppendProperties, LenProperties
<1>2. \A i \in 1..(Len(a) + 1) : i \in 1..Len(a) \/ i = Len(a) + 1
  BY <1>1
<1>3. \A i \in 1..(Len(a) + 1) : Append(a, e)[i] = b[i]
  BY <1>1, <1>2
<1>. QED
  BY <1>1, <1>3, SeqEqual

LEMMA Tales ==
  /\ Append(Nothing, "ACCEPT") = Accepted
  /\ Append(Accepted, "FAIL") = Refused
  /\ Append(Accepted, "CONNECT") = Connected
  /\ Append(Connected, "FAIL") = Broken
  /\ Append(Nothing, "DROP") \in Stories
  /\ Append(Refused, "CLOSE") \in Stories
  /\ Append(Connected, "CLOSE") \in Stories
  /\ Append(Broken, "CLOSE") \in Stories
<1>. DEFINE drop == <<"DROP">>
            refused == <<"ACCEPT", "FAIL", "CLOSE">>
            served == <<"ACCEPT", "CONNECT", "CLOSE">>
            broken == <<"ACCEPT", "CONNECT", "FAIL", "CLOSE">>
<1>1. {"ACCEPT", "CONNECT", "FAIL", "CLOSE", "DROP"} \subseteq Events
  BY DEF Events
<1>2. Nothing \in Seq(Events) /\ Len(Nothing) = 0
  BY DEF Nothing
<1>3. Accepted \in Seq(Events) /\ Len(Accepted) = 1 /\ Accepted[1] = "ACCEPT"
  BY DEF Accepted, Events
<1>4. Refused \in Seq(Events) /\ Len(Refused) = 2 /\ Refused[1] = "ACCEPT" /\ Refused[2] = "FAIL"
  BY DEF Refused, Events
<1>5. /\ Connected \in Seq(Events) /\ Len(Connected) = 2
      /\ Connected[1] = "ACCEPT" /\ Connected[2] = "CONNECT"
  BY DEF Connected, Events
<1>6. /\ Broken \in Seq(Events) /\ Len(Broken) = 3
      /\ Broken[1] = "ACCEPT" /\ Broken[2] = "CONNECT" /\ Broken[3] = "FAIL"
  BY DEF Broken, Events
<1>7. drop \in Seq(Events) /\ Len(drop) = 1 /\ drop[1] = "DROP"
  BY DEF Events
<1>8. /\ refused \in Seq(Events) /\ Len(refused) = 3
      /\ refused[1] = "ACCEPT" /\ refused[2] = "FAIL" /\ refused[3] = "CLOSE"
  BY DEF Events
<1>9. /\ served \in Seq(Events) /\ Len(served) = 3
      /\ served[1] = "ACCEPT" /\ served[2] = "CONNECT" /\ served[3] = "CLOSE"
  BY DEF Events
<1>10. /\ broken \in Seq(Events) /\ Len(broken) = 4
       /\ broken[1] = "ACCEPT" /\ broken[2] = "CONNECT" /\ broken[3] = "FAIL"
       /\ broken[4] = "CLOSE"
  BY DEF Events
<1>11. drop \in Stories /\ refused \in Stories /\ served \in Stories /\ broken \in Stories
  BY DEF Stories
<1>. HIDE DEF drop, refused, served, broken
<1>12. /\ Append(Nothing, "ACCEPT") = Accepted /\ Append(Nothing, "DROP") = drop
       /\ Append(Accepted, "FAIL") = Refused /\ Append(Accepted, "CONNECT") = Connected
  BY <1>1, <1>2, <1>3, <1>4, <1>5, <1>7, Spelled
<1>13. (\A i \in 1..2 : i = 1 \/ i = 2) /\ (\A i \in 1..3 : i = 1 \/ i = 2 \/ i = 3)
  OBVIOUS
<1>14. /\ \A i \in 1..Len(Connected) : Broken[i] = Connected[i] /\ served[i] = Connected[i]
       /\ Len(Broken) = Len(Connected) + 1 /\ Broken[Len(Connected) + 1] = "FAIL"
       /\ Len(served) = Len(Connected) + 1 /\ served[Len(Connected) + 1] = "CLOSE"
  BY <1>5, <1>6, <1>9, <1>13
<1>15. Append(Connected, "FAIL") = Broken /\ Append(Connected, "CLOSE") = served
  <2>1. "FAIL" \in Events /\ "CLOSE" \in Events
    BY <1>1
  <2>2. Connected \in Seq(Events) /\ Broken \in Seq(Events) /\ served \in Seq(Events)
    BY <1>5, <1>6, <1>9
  <2>. QED
    BY <2>1, <2>2, <1>14, Spelled, Zenon
<1>16. /\ \A i \in 1..Len(Refused) : refused[i] = Refused[i]
       /\ Len(refused) = Len(Refused) + 1 /\ refused[Len(Refused) + 1] = "CLOSE"
  BY <1>4, <1>8, <1>13
<1>17. Append(Refused, "CLOSE") = refused
  <2>1. "CLOSE" \in Events
    BY <1>1
  <2>2. Refused \in Seq(Events) /\ refused \in Seq(Events)
    BY <1>4, <1>8
  <2>. QED
    BY <2>1, <2>2, <1>16, Spelled, Zenon
<1>18. /\ \A i \in 1..Len(Broken) : broken[i] = Broken[i]
       /\ Len(broken) = Len(Broken) + 1 /\ broken[Len(Broken) + 1] = "CLOSE"
  BY <1>6, <1>10, <1>13
<1>19. Append(Broken, "CLOSE") = broken
  <2>1. "CLOSE" \in Events
    BY <1>1
  <2>2. Broken \in Seq(Events) /\ broken \in Seq(Events)
    BY <1>6, <1>10
  <2>. QED
    BY <2>1, <2>2, <1>18, Spelled, Zenon
<1>. QED
  BY <1>11, <1>12, <1>15, <1>17, <1>19

\* A story so far, with an end to come.
Begun(x) ==
  \E t \in Stories : Len(x) < Len(t) /\ \A i \in 1..Len(x) : x[i] = t[i]

LEMMA AllBegun ==
  Begun(Nothing) /\ Begun(Accepted) /\ Begun(Refused) /\ Begun(Connected) /\ Begun(Broken)
<1>. DEFINE fail == <<"ACCEPT", "FAIL", "CLOSE">>
            full == <<"ACCEPT", "CONNECT", "FAIL", "CLOSE">>
<1>1. fail \in Stories /\ full \in Stories /\ Len(fail) = 3 /\ Len(full) = 4
  BY DEF Stories
<1>2. Begun(Nothing)
  <2>1. Len(Nothing) = 0 /\ 1..Len(Nothing) = {}
    BY DEF Nothing
  <2>. QED
    BY <1>1, <2>1 DEF Begun
<1>3. Begun(Accepted)
  <2>1. Len(Accepted) = 1 /\ \A i \in 1..Len(Accepted) : Accepted[i] = full[i]
    BY DEF Accepted
  <2>. QED
    BY <1>1, <2>1 DEF Begun
<1>4. Begun(Refused)
  <2>1. Len(Refused) = 2 /\ Len(Refused) < Len(fail)
    BY <1>1 DEF Refused
  <2>2. Refused[1] = fail[1] /\ Refused[2] = fail[2]
    BY DEF Refused
  <2>3. \A i \in 1..Len(Refused) : Refused[i] = fail[i]
    BY <2>1, <2>2
  <2>. QED
    BY <1>1, <2>1, <2>3, Zenon DEF Begun
<1>5. Begun(Connected)
  <2>1. Len(Connected) = 2 /\ \A i \in 1..Len(Connected) : Connected[i] = full[i]
    BY DEF Connected
  <2>. QED
    BY <1>1, <2>1 DEF Begun
<1>6. Begun(Broken)
  <2>1. Len(Broken) = 3 /\ \A i \in 1..Len(Broken) : Broken[i] = full[i]
    BY DEF Broken
  <2>. QED
    BY <1>1, <2>1 DEF Begun
<1>. QED
  BY <1>2, <1>3, <1>4, <1>5, <1>6

\* The steps of the accept task that concern request numbers.
LEMMA ServerNumbers ==
  ASSUME Server
  PROVE  \/ Assigns \/ ServerCloseSession \/ ServerDropClient \/ ServerDropAudited
         \/ UNCHANGED reqNo /\ srv # "dropAudit" /\ srv' # "dropAudit"
BY DEF Server, ServerStart, ServerLoop, ServerPoll, ServerAcceptFails,
   ServerRequestsExhausted, ServerSpawnConnection, ServerSpawnFails,
   ServerAcceptAuditFails, ServerSpawnFailAudited, ServerCleanup, NextInBatch, Assigns

LEMMA NumbersStep ==
  ASSUME LifeInv, Numbers, [Next]_vars
  PROVE  Numbers'
<1>1. /\ TypeOK /\ OwnerInv /\ reqNo \in 0..RequestMax /\ RequestMax \in Nat
      /\ \A s \in Slots : state[s] \in {"FREE", "ACTIVE"} /\ req[s] \in 0..RequestMax
  BY ProxyAssumption DEF LifeInv, TypeOK
<1>2. \A s \in Slots : req[s] <= reqNo
  BY <1>1 DEF Numbers
<1>3. CASE Assigns
  <2>1. PICK a \in ClientIps : ServerAssignSession(a)
    BY <1>3 DEF Assigns
  <2>2. PICK s \in Slots : s = free[PopIndex]
    BY <1>1, <2>1, PopTypes DEF ServerAssignSession, TypeOK
  <2>3. /\ state' = [state EXCEPT ![s] = "ACTIVE"] /\ req' = [req EXCEPT ![s] = reqNo + 1]
        /\ reqNo' = reqNo + 1 /\ srv' = "acceptAudit" /\ reqNo < RequestMax
    BY <2>1, <2>2 DEF ServerAssignSession, AcceptRequest
  <2>4. /\ state'[s] = "ACTIVE" /\ req'[s] = reqNo + 1
        /\ \A t \in Slots : t # s => state'[t] = state[t] /\ req'[t] = req[t]
    BY <1>1, <2>3 DEF TypeOK
  <2>. QED
    BY <1>1, <1>2, <2>3, <2>4 DEF Numbers
<1>4. CASE Closes
  <2>1. PICK s \in Slots : CloseSession(s) /\ state[s] = "ACTIVE"
    BY <1>1, <1>4, ClosesActive
  <2>2. /\ state'[s] = "FREE" /\ req'[s] = 0
        /\ \A t \in Slots : t # s => state'[t] = state[t] /\ req'[t] = req[t]
    BY <1>1, <2>1 DEF CloseSession, TypeOK
  <2>3. UNCHANGED reqNo /\ (srv' = "dropAudit" => srv = "dropAudit")
    BY <1>4, ConnFrame DEF Closes, ServerCloseSession, ConnCloseSession, NextInBatch
  <2>. QED
    BY <1>1, <1>2, <2>2, <2>3 DEF Numbers, Requests
<1>5. CASE ServerDropClient
  <2>1. UNCHANGED <<state, req>> /\ reqNo' = reqNo + 1 /\ reqNo < RequestMax
    BY <1>5 DEF ServerDropClient, AcceptRequest
  <2>. QED
    BY <1>1, <1>2, <2>1 DEF Numbers, Requests
<1>6. ASSUME SessionsKept, UNCHANGED reqNo, srv' = "dropAudit" => srv = "dropAudit"
      PROVE  Numbers'
  BY <1>6 DEF Numbers, SessionsKept
<1>7. CASE Server
  <2>1. CASE ServerDropAudited
    BY <1>6, <2>1 DEF ServerDropAudited, NextInBatch, SessionsKept
  <2>. QED
    BY <1>3, <1>4, <1>5, <1>6, <1>7, <2>1, ServerNumbers, ServerFrame DEF Closes
<1>. QED
  BY <1>4, <1>6, <1>7, Tasks, ConnFrame, PumpFrame, WatchdogFrame, IdleFrame DEF Closes

\* A record that was not lost is the next word of its request's story.
LEMMA Wrote ==
  ASSUME NEW r, NEW e, NEW written \in BOOLEAN, Audit(r, e, written), ~auditLost'
  PROVE  trail' = [trail EXCEPT ![r] = Append(trail[r], e)] /\ written
BY DEF Audit

\* What a step must not touch of the story of another session.
SaidKept(s) == conn'[s] = conn[s] /\ (ServerOwns(s)' => ServerOwns(s) /\ srv' = srv)

\* The owner of session s goes on, and may write a record about its request.
LEMMA ToldOfOne ==
  ASSUME TypeOK, Numbers, Told, NEW s \in Slots, state[s] = "ACTIVE", SessionsKept,
         UNCHANGED reqNo, srv' = "dropAudit" <=> srv = "dropAudit",
         NEW x, trail' = [trail EXCEPT ![req[s]] = x], Said(s)',
         \A t \in Slots : t # s => SaidKept(t)
  PROVE  Told'
<1>1. /\ req[s] \in 1..reqNo /\ req[s] \in Requests
      /\ \A r \in Requests : r # req[s] => trail'[r] = trail[r]
      /\ reqNo \in 0..RequestMax /\ RequestMax \in Nat
  BY ProxyAssumption DEF Numbers, TypeOK, Requests
<1>2. UNCHANGED <<state, req>>
  BY DEF SessionsKept
<1>3. \A r \in Requests : r > reqNo => trail'[r] = Nothing
  BY <1>1 DEF Told, Requests
<1>4. srv' = "dropAudit" => trail'[reqNo] = Nothing
  BY <1>1 DEF Told, Numbers
<1>5. ASSUME NEW t \in Slots, state[t] = "ACTIVE", t # s
      PROVE  Said(t)'
  <2>1. req[t] # req[s] /\ req[t] \in Requests
    BY <1>1, <1>5 DEF Numbers, Requests
  <2>2. trail'[req[t]] = trail[req[t]] /\ req'[t] = req[t] /\ SaidKept(t) /\ Said(t)
    BY <1>1, <1>2, <1>5, <2>1 DEF Told
  <2>. QED
    BY <2>2 DEF Said, SaidKept
<1>6. ASSUME NEW r \in 1..reqNo, ~InProgress(r)'
      PROVE  trail'[r] \in Stories
  <2>1. ~InProgress(r) /\ r # req[s] /\ r \in Requests
    BY <1>1, <1>2, <1>6 DEF InProgress, Requests
  <2>. QED
    BY <1>1, <2>1 DEF Told
<1>. QED
  BY <1>2, <1>3, <1>4, <1>5, <1>6 DEF Told

\* Nobody tells anything.
LEMMA ToldOfNone ==
  ASSUME Told, SessionsKept, UNCHANGED <<reqNo, trail>>,
         srv' = "dropAudit" <=> srv = "dropAudit", \A t \in Slots : SaidKept(t)
  PROVE  Told'
<1>1. UNCHANGED <<state, req>>
  BY DEF SessionsKept
<1>2. ASSUME NEW t \in Slots, state[t] = "ACTIVE"
      PROVE  Said(t)'
  <2>1. SaidKept(t) /\ Said(t)
    BY <1>2 DEF Told
  <2>. QED
    BY <1>1, <2>1 DEF Said, SaidKept
<1>3. \A r : InProgress(r)' <=> InProgress(r)
  BY <1>1 DEF InProgress
<1>. QED
  BY <1>1, <1>2, <1>3 DEF Told

\* llps_close_session: the story of the request ends with its CLOSE record.
LEMMA ToldToTheEnd ==
  ASSUME TypeOK, Numbers, Told, NEW s \in Slots, state[s] = "ACTIVE", CloseSession(s),
         UNCHANGED reqNo, srv' = "dropAudit" <=> srv = "dropAudit",
         trail' = [trail EXCEPT ![req[s]] = Append(trail[req[s]], "CLOSE")],
         trail[req[s]] \in {Refused, Connected, Broken},
         \A t \in Slots : t # s => SaidKept(t)
  PROVE  Told'
<1>1. /\ req[s] \in 1..reqNo /\ req[s] \in Requests
      /\ \A r \in Requests : r # req[s] => trail'[r] = trail[r]
      /\ reqNo \in 0..RequestMax /\ RequestMax \in Nat
  BY ProxyAssumption DEF Numbers, TypeOK, Requests
<1>2. trail'[req[s]] \in Stories
  BY <1>1, Tales DEF TypeOK
<1>3. /\ state'[s] = "FREE" /\ req'[s] = 0
      /\ \A t \in Slots : t # s => state'[t] = state[t] /\ req'[t] = req[t]
  BY DEF CloseSession, TypeOK
<1>4. \A r \in Requests : r > reqNo => trail'[r] = Nothing
  BY <1>1 DEF Told, Requests
<1>5. srv' = "dropAudit" => trail'[reqNo] = Nothing
  BY <1>1 DEF Told, Numbers
<1>6. ASSUME NEW t \in Slots, state'[t] = "ACTIVE"
      PROVE  Said(t)'
  <2>1. t # s /\ state[t] = "ACTIVE" /\ req'[t] = req[t]
    BY <1>3, <1>6
  <2>2. req[t] # req[s] /\ req[t] \in Requests
    BY <1>1, <2>1 DEF Numbers, Requests
  <2>3. trail'[req[t]] = trail[req[t]] /\ SaidKept(t) /\ Said(t)
    BY <1>1, <2>1, <2>2 DEF Told
  <2>. QED
    BY <2>1, <2>3 DEF Said, SaidKept
<1>7. ASSUME NEW r \in 1..reqNo, ~InProgress(r)'
      PROVE  trail'[r] \in Stories
  <2>1. CASE r # req[s]
    <3>1. ~InProgress(r) /\ r \in Requests
      BY <1>1, <1>3, <1>7, <2>1 DEF InProgress, Requests
    <3>. QED
      BY <1>1, <2>1, <3>1 DEF Told
  <2>. QED
    BY <1>2, <2>1
<1>. QED
  BY <1>4, <1>5, <1>6, <1>7 DEF Told

\* A request starts as an assigned session or as a client to drop, untold.
LEMMA ToldNew ==
  ASSUME LifeInv, Numbers, Told, Assigns \/ ServerDropClient
  PROVE  Told'
<1>1. /\ srv = "accept" /\ reqNo' = reqNo + 1 /\ reqNo < RequestMax /\ UNCHANGED <<trail, conn>>
  BY DEF Assigns, ServerAssignSession, ServerDropClient, AcceptRequest
<1>2. /\ TypeOK /\ reqNo \in 0..RequestMax /\ RequestMax \in Nat
      /\ reqNo + 1 \in Requests /\ trail[reqNo + 1] = Nothing
      /\ \A s \in Slots : state[s] = "ACTIVE" => Said(s) /\ ~ServerOwns(s)
  BY <1>1, ProxyAssumption DEF LifeInv, TypeOK, Requests, Told, ServerOwns
<1>3. \A r \in Requests : r > reqNo' => trail'[r] = Nothing
  BY <1>1, <1>2 DEF Told, Requests
<1>4. \A r \in 1..reqNo' : r \in 1..reqNo \/ r = reqNo'
  BY <1>1, <1>2
<1>5. CASE Assigns
  <2>1. PICK a \in ClientIps : ServerAssignSession(a)
    BY <1>5 DEF Assigns
  <2>2. PICK s \in Slots : s = free[PopIndex] /\ state[s] = "FREE"
    BY <1>2, <2>1, PopTypes DEF ServerAssignSession, TypeOK, FreeIndexes
  <2>3. /\ state' = [state EXCEPT ![s] = "ACTIVE"] /\ req' = [req EXCEPT ![s] = reqNo + 1]
        /\ srv' = "acceptAudit" /\ srvSlot' = s
    BY <1>1, <2>1, <2>2 DEF ServerAssignSession
  <2>4. /\ state'[s] = "ACTIVE" /\ req'[s] = reqNo + 1 /\ req[s] = 0
        /\ \A t \in Slots : t # s => state'[t] = state[t] /\ req'[t] = req[t]
    BY <1>2, <2>2, <2>3 DEF TypeOK, Numbers
  <2>5. conn[s] = "none"
    BY <2>2 DEF LifeInv, OwnerInv, SlotInv
  <2>6. Said(s)'
    BY <1>1, <1>2, <2>3, <2>4, <2>5 DEF Said, Early, Joining
  <2>7. ASSUME NEW t \in Slots, state'[t] = "ACTIVE", t # s
        PROVE  Said(t)'
    <3>1. state[t] = "ACTIVE" /\ req'[t] = req[t] /\ ~ServerOwns(t)'
      BY <2>3, <2>4, <2>7 DEF ServerOwns
    <3>2. Said(t)
      BY <1>2, <3>1
    <3>. QED
      BY <1>1, <3>1, <3>2 DEF Said
  <2>8. ASSUME NEW r \in 1..reqNo', ~InProgress(r)'
        PROVE  trail'[r] \in Stories
    <3>1. r \in 1..reqNo
      BY <1>4, <2>4, <2>8, <1>1 DEF InProgress
    <3>2. ~InProgress(r)
      BY <1>1, <1>2, <2>4, <2>8, <3>1 DEF InProgress
    <3>. QED
      BY <1>1, <3>1, <3>2 DEF Told
  <2>. QED
    BY <1>3, <2>3, <2>6, <2>7, <2>8 DEF Told
<1>6. CASE ServerDropClient
  <2>1. srv' = "dropAudit" /\ UNCHANGED <<state, req>>
    BY <1>6 DEF ServerDropClient
  <2>2. ASSUME NEW t \in Slots, state[t] = "ACTIVE"
        PROVE  Said(t)'
    <3>1. ~ServerOwns(t)' /\ Said(t)
      BY <1>2, <2>1, <2>2 DEF ServerOwns
    <3>. QED
      BY <1>1, <2>1, <3>1 DEF Said
  <2>3. ASSUME NEW r \in 1..reqNo', ~InProgress(r)'
        PROVE  trail'[r] \in Stories
    <3>1. r \in 1..reqNo /\ ~InProgress(r)
      BY <1>1, <1>2, <1>4, <2>1, <2>3 DEF InProgress
    <3>. QED
      BY <1>1, <3>1 DEF Told
  <2>. QED
    BY <1>1, <1>2, <1>3, <2>1, <2>2, <2>3 DEF Told
<1>. QED
  BY <1>5, <1>6

\* The DROP record is the whole story of a dropped client.
LEMMA ToldDropped ==
  ASSUME LifeInv, Numbers, Told, ServerDropAudited, ~auditLost'
  PROVE  Told'
<1>1. /\ srv = "dropAudit" /\ UNCHANGED <<state, req, conn, reqNo>>
      /\ srv' \in {"accept", "loop"}
  BY DEF ServerDropAudited, NextInBatch
<1>2. /\ reqNo \in Requests /\ \A s \in Slots : req[s] # reqNo
      /\ trail[reqNo] = Nothing /\ trail \in [Requests -> Seq(Events)]
      /\ RequestMax \in Nat /\ reqNo \in Nat
  BY <1>1, ProxyAssumption DEF Numbers, Told, LifeInv, TypeOK, Requests
<1>3. trail' = [trail EXCEPT ![reqNo] = Append(Nothing, "DROP")]
  BY <1>2, Wrote DEF ServerDropAudited
<1>4. trail'[reqNo] \in Stories /\ \A r \in Requests : r # reqNo => trail'[r] = trail[r]
  BY <1>2, <1>3, Tales
<1>5. \A r \in Requests : r > reqNo => trail'[r] = Nothing
  BY <1>2, <1>4 DEF Told, Requests
<1>6. ASSUME NEW t \in Slots, state[t] = "ACTIVE"
      PROVE  Said(t)'
  <2>1. Said(t) /\ req[t] \in Requests /\ req[t] # reqNo /\ ~ServerOwns(t)'
    BY <1>1, <1>2, <1>6 DEF Told, Numbers, ServerOwns, Requests, LifeInv, TypeOK
  <2>. QED
    BY <1>1, <1>4, <2>1 DEF Said
<1>7. ASSUME NEW r \in 1..reqNo, ~InProgress(r)'
      PROVE  trail'[r] \in Stories
  <2>1. CASE r # reqNo
    <3>1. ~InProgress(r) /\ r \in Requests
      BY <1>1, <1>2, <1>7, <2>1 DEF InProgress, Requests
    <3>. QED
      BY <1>4, <2>1, <3>1 DEF Told
  <2>. QED
    BY <1>4, <2>1
<1>. QED
  BY <1>1, <1>5, <1>6, <1>7 DEF Told

LEMMA ServerTold ==
  ASSUME LifeInv, Numbers, Told, Server, ~auditLost'
  PROVE  Told'
<1>1. TypeOK /\ OwnerInv
  BY DEF LifeInv
<1>2. CASE Assigns \/ ServerDropClient
  BY <1>2, ToldNew
<1>3. CASE ServerDropAudited
  BY <1>3, ToldDropped
<1>4. ASSUME srv \in Owning
      PROVE  /\ srvSlot \in Slots /\ ServerOwns(srvSlot) /\ state[srvSlot] = "ACTIVE"
             /\ conn[srvSlot] = "none" /\ Said(srvSlot)
             /\ \A t \in Slots : t # srvSlot => ~ServerOwns(t)
             /\ req[srvSlot] \in Requests
  <2>1. srvSlot \in Slots /\ ServerOwns(srvSlot) /\ SlotInv(srvSlot)
    BY <1>1, <1>4 DEF OwnerInv, ServerOwns, Owning
  <2>2. state[srvSlot] = "ACTIVE" /\ conn[srvSlot] = "none"
    BY <1>1, <2>1 DEF SlotInv, TypeOK
  <2>. QED
    BY <1>1, <2>1, <2>2, ProxyAssumption DEF Told, ServerOwns, Numbers, Requests, TypeOK
<1>5. CASE ServerSpawnConnection
  <2>1. /\ srv \in Owning /\ srv = "acceptAudit" /\ Audit(req[srvSlot], "ACCEPT", TRUE)
        /\ conn' = [conn EXCEPT ![srvSlot] = "start"] /\ srv' \in {"accept", "loop"}
        /\ SessionsKept /\ UNCHANGED reqNo
    BY <1>5 DEF ServerSpawnConnection, NextInBatch, SessionsKept, Owning
  <2>2. PICK s \in Slots : s = srvSlot
    BY <1>4, <2>1
  <2>3. trail[req[s]] = Nothing /\ req[s] \in Requests
    BY <1>4, <2>1, <2>2 DEF Said
  <2>4. trail' = [trail EXCEPT ![req[s]] = Accepted]
    BY <2>1, <2>2, <2>3, Tales DEF Audit
  <2>5. \A t \in Slots : ~ServerOwns(t)'
    BY <2>1 DEF ServerOwns
  <2>6. trail'[req[s]] = Accepted /\ req'[s] = req[s] /\ conn'[s] = "start"
    BY <1>1, <2>1, <2>2, <2>3, <2>4 DEF SessionsKept, TypeOK
  <2>7. Said(s)'
    BY <2>5, <2>6 DEF Said, Joining
  <2>8. \A t \in Slots : t # s => SaidKept(t)
    BY <1>1, <2>1, <2>2, <2>5 DEF SaidKept, TypeOK
  <2>. QED
    BY <1>1, <1>4, <2>1, <2>2, <2>4, <2>7, <2>8, ToldOfOne
<1>6. CASE ServerSpawnFails \/ ServerSpawnFailAudited
  <2>1. PICK e \in {"ACCEPT", "FAIL"}, written \in BOOLEAN :
          /\ Audit(req[srvSlot], e, written) /\ srv \in Owning
          /\ \/ srv = "acceptAudit" /\ srv' = "spawnAudit" /\ e = "ACCEPT"
             \/ srv = "spawnAudit" /\ srv' = "closeAudit" /\ e = "FAIL"
    BY <1>6 DEF ServerSpawnFails, ServerSpawnFailAudited, Owning
  <2>2. PICK s \in Slots : s = srvSlot
    BY <1>4, <2>1
  <2>3. SessionsKept /\ UNCHANGED <<reqNo, conn, srvSlot>>
    BY <1>6 DEF ServerSpawnFails, ServerSpawnFailAudited, SessionsKept
  <2>4. trail' = [trail EXCEPT ![req[s]] = Append(trail[req[s]], e)] /\ req[s] \in Requests
    BY <1>4, <2>1, <2>2, Wrote
  <2>5. /\ srv = "acceptAudit" => trail[req[s]] = Nothing
        /\ srv = "spawnAudit" => trail[req[s]] = Accepted
    BY <1>4, <2>1, <2>2 DEF Said
  <2>6. trail'[req[s]] = Append(trail[req[s]], e) /\ req'[s] = req[s] /\ conn'[s] = "none"
    BY <1>1, <1>4, <2>1, <2>2, <2>3, <2>4 DEF SessionsKept, TypeOK
  <2>7. Said(s)'
    BY <2>1, <2>5, <2>6, Tales DEF Said, Joining, Early
  <2>8. \A t \in Slots : t # s => SaidKept(t)
    BY <2>2, <2>3 DEF SaidKept, ServerOwns
  <2>. QED
    BY <1>1, <1>4, <2>1, <2>2, <2>3, <2>4, <2>7, <2>8, ToldOfOne
<1>7. CASE ServerAcceptAuditFails
  BY <1>7 DEF ServerAcceptAuditFails, Audit
<1>8. CASE ServerCloseSession
  <2>1. PICK written \in BOOLEAN :
          /\ srv = "closeAudit" /\ srv \in Owning /\ Audit(req[srvSlot], "CLOSE", written)
          /\ CloseSession(srvSlot) /\ srv' \in {"accept", "loop"} /\ UNCHANGED <<reqNo, conn>>
    BY <1>8 DEF ServerCloseSession, NextInBatch, Owning
  <2>2. PICK s \in Slots : s = srvSlot
    BY <1>4, <2>1
  <2>3. trail' = [trail EXCEPT ![req[s]] = Append(trail[req[s]], "CLOSE")]
    BY <2>1, <2>2, Wrote
  <2>4. trail[req[s]] = Refused
    BY <1>4, <2>1, <2>2 DEF Said
  <2>5. \A t \in Slots : SaidKept(t)
    BY <2>1 DEF SaidKept, ServerOwns
  <2>. QED
    BY <1>1, <1>4, <2>1, <2>2, <2>3, <2>4, <2>5, ToldToTheEnd
<1>9. CASE \/ ServerStart \/ ServerLoop \/ ServerPoll \/ ServerAcceptFails
           \/ ServerRequestsExhausted
  <2>1. /\ SessionsKept /\ UNCHANGED <<reqNo, trail, conn>>
        /\ srv # "dropAudit" /\ srv' \notin {"dropAudit"} \cup Owning
    BY <1>9 DEF ServerStart, ServerLoop, ServerPoll, ServerAcceptFails,
       ServerRequestsExhausted, ServerCleanup, SessionsKept, Owning
  <2>2. \A t \in Slots : SaidKept(t)
    BY <2>1 DEF SaidKept, ServerOwns, Owning
  <2>. QED
    BY <2>1, <2>2, ToldOfNone
<1>. QED
  BY <1>2, <1>3, <1>5, <1>6, <1>7, <1>8, <1>9 DEF Server, Assigns

\* How a connection task tells its part.
LEMMA ConnTells ==
  ASSUME conn \in [Slots -> ConnPcs], NEW s \in Slots, Connection(s)
  PROVE  \/ ConnCloseSession(s)
         \/ auditLost'
         \/ /\ UNCHANGED trail
            /\ \/ conn[s] \in Early /\ conn'[s] \in Early \cup {"failAudit"}
               \/ conn[s] = "join" /\ conn'[s] = "closeAudit"
               \/ conn[s] = "joinFail" /\ conn'[s] = "failAudit"
         \/ /\ conn[s] = "connectAudit" /\ conn'[s] \in Joining \cup {"failAudit"}
            /\ Audit(req[s], "CONNECT", TRUE)
         \/ /\ conn[s] = "failAudit" /\ conn'[s] = "closeAudit"
            /\ Audit(req[s], "FAIL", TRUE)
<1>1. CASE ConnPrefaceProgress(s) \/ ConnStart(s) \/ ConnPrefaceReady(s)
  BY <1>1 DEF ConnPrefaceProgress, ConnStart, ConnPrefaceReady, OpenBackend, ConnGoto, Early
<1>2. CASE \/ ConnPrefaceFails(s) \/ ConnConnected(s) \/ ConnFlushed(s)
           \/ ConnBackendFails(s) \/ ConnJoin(s)
  BY <1>2 DEF ConnPrefaceFails, ConnConnected, ConnFlushed, ConnBackendFails, ConnJoin,
     ConnGoto, Early
<1>3. CASE ConnRunPumps(s) \/ ConnPumpsFail(s) \/ ConnSecondPumpFails(s)
  BY <1>3 DEF ConnRunPumps, ConnPumpsFail, ConnSecondPumpFails, ConnGoto, Joining
<1>4. CASE ConnConnectAuditFails(s)
  BY <1>4 DEF ConnConnectAuditFails, Audit
<1>5. CASE ConnFailAudited(s)
  <2>1. PICK written \in BOOLEAN : Audit(req[s], "FAIL", written)
    BY <1>5 DEF ConnFailAudited
  <2>2. conn[s] = "failAudit" /\ conn'[s] = "closeAudit"
    BY <1>5 DEF ConnFailAudited, ConnGoto
  <2>3. CASE written = TRUE
    BY <2>1, <2>2, <2>3
  <2>4. CASE written = FALSE
    BY <2>1, <2>4 DEF Audit
  <2>. QED
    BY <2>3, <2>4
<1>. QED
  BY <1>1, <1>2, <1>3, <1>4, <1>5 DEF Connection, ConnProgress

LEMMA ConnTold ==
  ASSUME LifeInv, Numbers, Told, NEW s \in Slots, Connection(s), ~auditLost'
  PROVE  Told'
<1>1. TypeOK /\ OwnerInv /\ conn \in [Slots -> ConnPcs] /\ SlotInv(s)
  BY DEF LifeInv, TypeOK, OwnerInv
<1>2. UNCHANGED <<srv, srvSlot, reqNo>>
  BY ConnFrame
<1>3. PICK p \in ConnPcs : conn' = [conn EXCEPT ![s] = p]
  BY <1>1, ConnControl
<1>4. \A t \in Slots : t # s => SaidKept(t)
  BY <1>1, <1>2, <1>3 DEF SaidKept, ServerOwns
<1>5. state[s] = "ACTIVE" /\ ~ServerOwns(s) /\ Said(s) /\ req[s] \in Requests
  <2>1. conn[s] # "none"
    BY <1>1, ConnControl
  <2>2. state[s] = "ACTIVE" /\ ~ServerOwns(s)
    BY <1>1, <2>1 DEF SlotInv, TypeOK
  <2>. QED
    BY <1>1, <2>2, ProxyAssumption DEF Told, Numbers, Requests, TypeOK
<1>6. CASE ConnCloseSession(s)
  <2>1. PICK written \in BOOLEAN : Audit(req[s], "CLOSE", written)
    BY <1>6 DEF ConnCloseSession
  <2>2. trail' = [trail EXCEPT ![req[s]] = Append(trail[req[s]], "CLOSE")]
    BY <2>1, Wrote
  <2>3. CloseSession(s) /\ trail[req[s]] \in {Refused, Connected, Broken}
    BY <1>5, <1>6 DEF ConnCloseSession, Said
  <2>. QED
    BY <1>1, <1>2, <1>4, <1>5, <2>2, <2>3, ToldToTheEnd
<1>7. ASSUME ~ConnCloseSession(s)
      PROVE  Told'
  <2>1. SessionsKept /\ req'[s] = req[s] /\ ~ServerOwns(s)'
    BY <1>2, <1>5, <1>7, ConnFrame DEF SessionsKept, ServerOwns
  <2>2. CASE /\ UNCHANGED trail
             /\ \/ conn[s] \in Early /\ conn'[s] \in Early \cup {"failAudit"}
                \/ conn[s] = "join" /\ conn'[s] = "closeAudit"
                \/ conn[s] = "joinFail" /\ conn'[s] = "failAudit"
    <3>1. Said(s)'
      BY <1>5, <2>1, <2>2 DEF Said, Early, Joining
    <3>2. trail' = [trail EXCEPT ![req[s]] = trail[req[s]]]
      BY <1>1, <2>2 DEF TypeOK
    <3>. QED
      BY <1>1, <1>2, <1>4, <1>5, <2>1, <3>1, <3>2, ToldOfOne
  <2>3. CASE /\ conn[s] = "connectAudit" /\ conn'[s] \in Joining \cup {"failAudit"}
             /\ Audit(req[s], "CONNECT", TRUE)
    <3>1. trail' = [trail EXCEPT ![req[s]] = Connected]
      BY <1>5, <2>3, Tales DEF Audit, Said, Early
    <3>2. trail'[req[s]] = Connected
      BY <1>1, <1>5, <3>1 DEF TypeOK
    <3>3. Said(s)'
      BY <2>1, <2>3, <3>2 DEF Said, Joining, Early
    <3>. QED
      BY <1>1, <1>2, <1>4, <1>5, <2>1, <3>1, <3>3, ToldOfOne
  <2>4. CASE /\ conn[s] = "failAudit" /\ conn'[s] = "closeAudit"
             /\ Audit(req[s], "FAIL", TRUE)
    <3>1. trail' = [trail EXCEPT ![req[s]] = Append(trail[req[s]], "FAIL")]
      BY <2>4 DEF Audit
    <3>2. trail'[req[s]] \in {Refused, Broken}
      BY <1>1, <1>5, <2>4, <3>1, Tales DEF TypeOK, Said
    <3>3. Said(s)'
      BY <2>1, <2>4, <3>2 DEF Said, Joining, Early
    <3>. QED
      BY <1>1, <1>2, <1>4, <1>5, <2>1, <3>1, <3>3, ToldOfOne
  <2>. QED
    BY <1>1, <1>7, <2>2, <2>3, <2>4, ConnTells
<1>. QED
  BY <1>6, <1>7

LEMMA AuditStep ==
  ASSUME LifeInv, AuditInv, [Next]_vars
  PROVE  AuditInv'
<1>1. Numbers'
  BY NumbersStep DEF AuditInv
<1>2. SUFFICES ASSUME ~auditLost'
               PROVE  Told'
  BY <1>1 DEF AuditInv
<1>3. Numbers /\ Told
  <2>1. AuditTypes
    BY DEF LifeInv, TypeOK, AuditTypes
  <2>. QED
    BY <2>1, <1>2, FlagsGrow DEF AuditInv
<1>4. CASE Server
  BY <1>2, <1>3, <1>4, ServerTold
<1>5. CASE \E s \in Slots : Connection(s)
  BY <1>2, <1>3, <1>5, ConnTold
<1>6. ASSUME UNCHANGED <<srv, srvSlot, reqNo, trail, conn>>, SessionsKept
      PROVE  Told'
  <2>1. \A t \in Slots : SaidKept(t)
    BY <1>6 DEF SaidKept, ServerOwns
  <2>. QED
    BY <1>3, <1>6, <2>1, ToldOfNone
<1>. QED
  BY <1>4, <1>5, <1>6, Tasks, PumpFrame, WatchdogFrame, IdleFrame

\* What the parts say of a request somebody works on.
LEMMA TrailTold ==
  ASSUME LifeInv, AuditInv
  PROVE  AuditTrailComplete
<1>1. SUFFICES ASSUME ~auditLost, NEW r \in 1..reqNo
               PROVE  IF InProgress(r) THEN Begun(trail[r]) ELSE trail[r] \in Stories
  BY DEF AuditTrailComplete, Begun
<1>2. Numbers /\ Told
  BY <1>1 DEF AuditInv
<1>3. CASE srv = "dropAudit" /\ reqNo = r
  BY <1>2, <1>3, AllBegun DEF Told, InProgress
<1>4. ASSUME NEW s \in Slots, req[s] = r
      PROVE  Begun(trail[r])
  <2>1. state[s] = "ACTIVE" /\ SlotInv(s) /\ Said(s) /\ conn[s] \in ConnPcs
    <3>1. state[s] # "FREE"
      BY <1>1, <1>2, <1>4 DEF Numbers
    <3>. QED
      BY <1>2, <3>1 DEF LifeInv, TypeOK, OwnerInv, Told
  <2>2. \/ ServerOwns(s) /\ srv \in {"acceptAudit", "spawnAudit", "closeAudit"}
        \/ conn[s] \in Early \cup Joining \cup {"failAudit", "closeAudit"}
    BY <2>1 DEF SlotInv, ServerOwns, ConnPcs, Early, Joining
  <2>3. trail[r] \in {Nothing, Accepted, Refused, Connected, Broken}
    BY <1>4, <2>1, <2>2 DEF Said
  <2>. QED
    BY <2>3, AllBegun
<1>5. CASE ~InProgress(r)
  BY <1>1, <1>2, <1>5 DEF Told
<1>. QED
  BY <1>3, <1>4, <1>5 DEF InProgress

-----------------------------------------------------------------------------
(* The theorems *)

LEMMA InitLife ==
  ASSUME Init
  PROVE  LifeInv /\ PumpsJoined /\ LateInv /\ AuditInv
<1>1. /\ MaxClients \in Nat \ {0} /\ AcceptBatchMax \in Nat \ {0} /\ RequestMax \in Nat
  BY ProxyAssumption
<1>2. free \in Seq(Slots) /\ Len(free) = MaxClients
  <2>1. free \in [1..MaxClients -> Slots]
    BY <1>1 DEF Init, Slots
  <2>. QED
    BY <1>1, <2>1 DEF Init
<1>3. FreeListExact
  <2>1. \A i \in 1..MaxClients : free[i] = MaxClients - i
    BY DEF Init
  <2>2. \A s \in Slots : MaxClients - s \in 1..MaxClients /\ free[MaxClients - s] = s
    BY <1>1, <2>1 DEF Slots
  <2>3. {free[i] : i \in 1..MaxClients} = Slots
    BY <1>1, <2>1, <2>2 DEF Slots
  <2>4. \A i, j \in 1..MaxClients : free[i] = free[j] => i = j
    BY <1>1, <2>1
  <2>5. {s \in Slots : state[s] = "FREE"} = Slots
    BY DEF Init
  <2>. QED
    BY <1>2, <2>3, <2>4, <2>5 DEF FreeListExact
<1>4. TypeOK
  <2>1. SessionTypes /\ FdTypes /\ PumpTypes /\ conn \in [Slots -> ConnPcs]
    BY <1>1, <1>2 DEF Init, SessionTypes, FdTypes, PumpTypes, FdStates, ConnPcs, PumpPcs
  <2>2. ServerTypes
    BY <1>1 DEF Init, ServerTypes, SrvPcs, NoSlot
  <2>3. AuditTypes /\ WatchTypes
    <3>1. <<>> \in Seq(Events)
      OBVIOUS
    <3>2. AuditTypes
      BY <3>1, Zenon DEF Init, AuditTypes
    <3>. QED
      BY <3>2 DEF Init, WatchTypes, WdPcs
  <2>. QED
    BY <2>1, <2>2, <2>3 DEF TypeOK, ServerTypes, AuditTypes, WatchTypes, SessionTypes,
       FdTypes, PumpTypes
<1>5. OwnerInv
  BY DEF Init, OwnerInv, SlotInv, Owning, ServerOwns, WithBackend
<1>6. PumpsJoined
  BY DEF Init, PumpsJoined, Live
<1>7. LateInv
  BY <1>1 DEF Init, LateInv, Owning
<1>8. Numbers /\ Told
  BY <1>1 DEF Init, Numbers, Told, Nothing
<1>. QED
  BY <1>3, <1>4, <1>5, <1>6, <1>7, <1>8 DEF LifeInv, AuditInv

\* The life of every slot: types, ownership and free list hold together.
THEOREM LifeKept == Spec => []LifeInv
<1>1. LifeInv /\ [Next]_vars => LifeInv'
  BY LifeStep
<1>. QED
  BY <1>1, InitLife, PTL DEF Spec

\* g_free_sessions holds exactly the free slots, each once, whatever the order
\* in which clients are refused, tasks fail and sessions are closed: a close
\* finds room for its slot and llps_find_free_session never skips an entry.
THEOREM PoolStaysExact == Spec => []PoolExact
<1>1. LifeInv => PoolExact
  BY DEF LifeInv, PoolExact
<1>. QED
  BY <1>1, LifeKept, PTL

\* From its assignment to llps_close_session every active session has exactly
\* one task that will close it, the accept task or its connection task.
THEOREM OneOwner == Spec => []ActiveHasOneOwner
<1>1. LifeInv => ActiveHasOneOwner
  BY DEF LifeInv, OwnerInv, SlotInv, ActiveHasOneOwner
<1>. QED
  BY <1>1, LifeKept, PTL

\* A free slot has no task and no fd, and a live pump works on fds its owner
\* has not closed: provided llam_task_group_join does return only after the
\* pumps have ended, which the code assumes by ignoring its result.
THEOREM NothingUsedAfterClose ==
  ASSUME ~JoinMayFail
  PROVE  Spec => []NoUseAfterClose
<1>1. LifeInv /\ PumpsJoined => NoUseAfterClose
  <2>. SUFFICES ASSUME LifeInv, PumpsJoined
                PROVE  NoUseAfterClose
    OBVIOUS
  <2>1. ASSUME NEW s \in Slots
        PROVE  SlotInv(s) /\ state[s] \in {"FREE", "ACTIVE"}
    BY DEF LifeInv, OwnerInv, TypeOK
  <2>2. FreeSlotUnreferenced
    BY <2>1 DEF FreeSlotUnreferenced, SlotInv, PumpsJoined, Joining
  <2>3. PumpFdsStayOpen
    BY <2>1 DEF PumpFdsStayOpen, SlotInv, PumpsJoined, Joining, WithBackend
  <2>. QED
    BY <2>2, <2>3 DEF NoUseAfterClose
<1>2. LifeInv /\ PumpsJoined /\ [Next]_vars => PumpsJoined'
  BY PumpsStep
<1>3. Init => PumpsJoined
  BY InitLife
<1>. QED
  BY <1>1, <1>2, <1>3, LifeKept, PTL DEF Spec

\* max_sessions_per_client_ip holds at every moment, for every address: between
\* llps_client_ip_session_limit_exceeded and the assignment nothing intervenes.
THEOREM AddressLimited == Spec => []PerIpLimit
<1>1. Init => PerIpLimit
  <2>. SUFFICES ASSUME Init
                PROVE  PerIpLimit
    OBVIOUS
  <2>1. \A addr \in ClientIps : {s \in ActiveSlots : ip[s] = addr} = {}
    BY DEF Init, ActiveSlots
  <2>2. Cardinality({}) = 0
    BY FS_EmptySet
  <2>. QED
    BY <2>1, <2>2, ProxyAssumption DEF PerIpLimit
<1>2. LifeInv /\ PerIpLimit /\ [Next]_vars => PerIpLimit'
  BY AddressStep
<1>. QED
  BY <1>1, <1>2, LifeKept, PTL DEF Spec

\* Once the shutdown is requested at most accept_batch_max clients are still
\* accepted, although llps_server_accept_batch does not look at the flag.
THEOREM LateAcceptsFew == Spec => []LateAcceptsBounded
<1>1. LifeInv /\ LateInv /\ [Next]_vars => LateInv'
  BY LateStep DEF LifeInv
<1>2. LateInv => LateAcceptsBounded
  BY DEF LateInv, LateAcceptsBounded
<1>3. Init => LateInv
  BY InitLife
<1>. QED
  BY <1>1, <1>2, <1>3, LifeKept, PTL DEF Spec

\* As long as no record was lost, the audit file tells of every request one of
\* the four stories, to its end exactly when nobody works on the request any
\* more, whichever tasks wrote it and however they interleaved.
THEOREM TrailComplete == Spec => []AuditTrailComplete
<1>1. LifeInv /\ AuditInv /\ [Next]_vars => AuditInv'
  BY AuditStep
<1>2. LifeInv /\ AuditInv => AuditTrailComplete
  BY TrailTold
<1>3. Init => AuditInv
  BY InitLife
<1>. QED
  BY <1>1, <1>2, <1>3, LifeKept, PTL DEF Spec
=============================================================================
