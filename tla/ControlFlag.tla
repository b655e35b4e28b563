---------------------------- MODULE ControlFlag ----------------------------
(***************************************************************************)
(* The shutdown flag of LLPS (src/src/session/llps_control_flag.c) and the *)
(* two contexts that touch it without any lock:                            *)
(*   - the worker: the one thread that runs llps_init and afterwards every *)
(*     LLAM task.  It clears the flag and self-tests the banks during      *)
(*     llps_init, then only reads it (llps_control_shutdown_is_requested,  *)
(*     which also repairs banks) and sets it (fail-closed paths, cleanup); *)
(*   - signal handlers (main.c handle_signal): SIGINT and SIGTERM run      *)
(*     llps_request_shutdown at an arbitrary instruction of the program.   *)
(* Shared memory is modelled bank by bank.  Writing a bank takes a begin   *)
(* and an end step; in between its fields are mixed, and a mixed bank      *)
(* fails validation (its inverse or CRC cannot match).  When two writers   *)
(* overlap inside a bank the last field writes decide, so the bank ends    *)
(* with either value or stays mixed.                                       *)
(***************************************************************************)
EXTENDS TmrVote

CONSTANTS
  Signals,  \* signal handlers that may run at the same time
  Nested    \* TRUE: handlers interrupt the worker's own thread, so the worker
            \* stands still until they return; FALSE: the kernel delivered the
            \* signal to another thread of the process

ASSUME NestedAssumption == Nested \in BOOLEAN

VARIABLES
  bank,       \* g_control_flag_bank0..2: 0, 1, or Bad (fails validation)
  inflight,   \* values being written into a bank right now
  cached,     \* g_server_shutdown_requested
  hpos,       \* position of each handler in llps_control_flag_write_all
  hmid,       \* handler is between the first and the last field of a bank
  hlate,      \* history: the handler started after llps_init had finished
  pc,         \* worker: where it stands
  ret,        \* worker: where it continues after a write_all or a reconcile
  wpos,       \* worker: loop index over the banks
  wmid,       \* worker: between the first and the last field of a bank
  wval,       \* worker: value being written by write_all, or the majority
  valid,      \* worker: valid[] of reconcile
  snap,       \* worker: snapshots[] of reconcile
  ok,         \* worker: return value of the last reconcile
  result,     \* worker: *out_shutdown_requested of the last reconcile
  saved,      \* worker: saved_banks of the startup self test
  savedFlag,  \* worker: saved_shutdown_requested of the startup self test
  asked,      \* history: which requests were made so far
  known,      \* history: requests complete when the current call started
  dual        \* history: two banks were corrupt at the same time

bankVars == <<bank, inflight>>
handlerVars == <<hpos, hmid, hlate>>
reconcileVars == <<valid, snap, ok, result>>
testVars == <<saved, savedFlag>>
historyVars == <<asked, known, dual>>
workerVars == <<pc, ret, wpos, wmid, wval>>
vars == <<bankVars, cached, handlerVars, workerVars, reconcileVars, testVars,
          historyVars>>

Bad == 2              \* a bank that llps_control_flag_bank_is_valid rejects
BankValues == {0, 1, Bad}
AllWritten == 3       \* loop index after the last bank
Idle == 4             \* the handler is not running

InitPcs == {"boot", "cleared", "save", "st1", "st2", "st2b", "st3", "restore",
            "scrub"}
RunPcs == {"idle", "answer", "stopped"}
LoopPcs == {"write", "read", "repair"}   \* bodies shared through ret
EndPcs == {"exited"}

\* The worker has left llps_init: the server is up (or already stopped).
InRun == pc \in RunPcs \/ (pc \in LoopPcs /\ ret \in RunPcs)

HandlerRunning == \E h \in Signals : hpos[h] # Idle
\* With handlers on the worker's thread the worker waits for them to return.
WorkerMayRun == Nested => ~HandlerRunning

-----------------------------------------------------------------------------
(* Memory *)

\* llps_control_flag_bank_from_value up to the store that completes the bank.
BeginWrite(b, v) ==
  /\ bank' = [bank EXCEPT ![b] = Bad]
  /\ inflight' = [inflight EXCEPT ![b] = @ \cup {v}]

\* What a bank can hold when one of its writers finishes.
WriteOutcomes(b, v) ==
  IF inflight[b] = {v} THEN {v} ELSE inflight[b] \cup {Bad}

EndWrite(b, v, otherInside) ==
  /\ \E x \in WriteOutcomes(b, v) : bank' = [bank EXCEPT ![b] = x]
  /\ inflight' = [inflight EXCEPT ![b] = IF otherInside THEN @ ELSE {}]

WorkerInside(b) == wmid /\ wpos = b
HandlerInside(h, b) == hmid[h] /\ hpos[h] = b

-----------------------------------------------------------------------------
(* Signal handlers: handle_signal -> llps_request_shutdown ->               *)
(* llps_control_request_shutdown -> llps_control_flag_write_all(true)       *)

SignalArrives(h) ==
  /\ hpos[h] = Idle
  /\ hpos' = [hpos EXCEPT ![h] = 0]
  /\ hlate' = [hlate EXCEPT ![h] = InRun]
  /\ asked' = asked \cup {"begun"}
  /\ UNCHANGED <<bankVars, cached, hmid, workerVars, reconcileVars, testVars,
                 known, dual>>

HandlerBeginBank(h) ==
  /\ hpos[h] \in BankIds /\ ~hmid[h]
  /\ BeginWrite(hpos[h], 1)
  /\ hmid' = [hmid EXCEPT ![h] = TRUE]
  /\ UNCHANGED <<cached, hpos, hlate, workerVars, reconcileVars, testVars,
                 historyVars>>

HandlerEndBank(h) ==
  /\ hpos[h] \in BankIds /\ hmid[h]
  /\ EndWrite(hpos[h], 1,
              \/ WorkerInside(hpos[h])
              \/ \E g \in Signals \ {h} : HandlerInside(g, hpos[h]))
  /\ hmid' = [hmid EXCEPT ![h] = FALSE]
  /\ hpos' = [hpos EXCEPT ![h] = @ + 1]
  /\ UNCHANGED <<cached, hlate, workerVars, reconcileVars, testVars,
                 historyVars>>

HandlerReturns(h) ==
  /\ hpos[h] = AllWritten
  /\ cached' = 1
  /\ hpos' = [hpos EXCEPT ![h] = Idle]
  /\ hlate' = [hlate EXCEPT ![h] = FALSE]
  /\ asked' = asked \cup {IF hlate[h] THEN "late" ELSE "early"}
  /\ UNCHANGED <<bankVars, hmid, workerVars, reconcileVars, testVars,
                 known, dual>>

Handler(h) == HandlerBeginBank(h) \/ HandlerEndBank(h) \/ HandlerReturns(h)

-----------------------------------------------------------------------------
(* The worker: llps_control_flag_write_all *)

\* A function returns: its locals are gone.
ReturnToCaller ==
  /\ pc' = ret /\ ret' = "boot"
  /\ wpos' = 0 /\ wval' = 0
  /\ UNCHANGED wmid

CallWriteAll(v, next) ==
  /\ pc' = "write" /\ ret' = next
  /\ wpos' = 0 /\ wval' = v
  /\ UNCHANGED wmid

WriteBegin ==
  /\ pc = "write" /\ wpos \in BankIds /\ ~wmid
  /\ BeginWrite(wpos, wval)
  /\ wmid' = TRUE
  /\ UNCHANGED <<cached, pc, ret, wpos, wval, reconcileVars, testVars,
                 historyVars>>

WriteEnd ==
  /\ pc = "write" /\ wmid
  /\ EndWrite(wpos, wval, \E h \in Signals : HandlerInside(h, wpos))
  /\ wmid' = FALSE
  /\ wpos' = wpos + 1
  /\ UNCHANGED <<cached, pc, ret, wval, reconcileVars, testVars, historyVars>>

WriteReturn ==
  /\ pc = "write" /\ wpos = AllWritten
  /\ cached' = wval
  /\ ReturnToCaller
  /\ asked' = IF wval = 1 /\ InRun THEN asked \cup {"begun", "late"} ELSE asked
  /\ UNCHANGED <<bankVars, reconcileVars, testVars, known, dual>>

-----------------------------------------------------------------------------
(* The worker: llps_control_flag_reconcile *)

CallReconcile(next) ==
  /\ pc' = "read" /\ ret' = next
  /\ wpos' = 0
  /\ UNCHANGED <<wmid, wval>>

ReconcileReturns(rc, value) ==
  /\ ok' = rc /\ result' = value
  /\ valid' = [b \in BankIds |-> FALSE]
  /\ snap' = [b \in BankIds |-> 0]
  /\ ReturnToCaller
  /\ UNCHANGED <<bankVars, testVars, historyVars>>

\* One bank is validated and its value copied.  While a handler of another
\* thread is inside the bank the two reads may see any mixture of fields.
ReadBank ==
  /\ pc = "read" /\ wpos \in BankIds
  /\ \E isValid \in BOOLEAN, v \in {0, 1} :
       /\ inflight[wpos] = {} => /\ isValid = (bank[wpos] # Bad)
                                 /\ isValid => v = bank[wpos]
       /\ valid' = [valid EXCEPT ![wpos] = isValid]
       /\ snap' = [snap EXCEPT ![wpos] = IF isValid THEN v ELSE 0]
  /\ wpos' = wpos + 1
  /\ UNCHANGED <<bankVars, cached, pc, ret, wmid, wval, ok, result, testVars,
                 historyVars>>

\* valid_count < 2, or no two valid banks agree: fail closed.
VoteFails ==
  /\ pc = "read" /\ wpos = AllWritten
  /\ ~HasMajority(valid, snap)
  /\ cached' = 1
  /\ ReconcileReturns(FALSE, 1)

VoteSucceeds ==
  /\ pc = "read" /\ wpos = AllWritten
  /\ HasMajority(valid, snap)
  /\ wval' = snap[FindMatchingPair(valid, snap)]
  /\ pc' = "repair" /\ wpos' = 0
  /\ UNCHANGED <<bankVars, cached, ret, wmid, reconcileVars, testVars,
                 historyVars>>

\* llps_control_flag_repair_divergent_banks
RepairSkip ==
  /\ pc = "repair" /\ wpos \in BankIds /\ ~wmid
  /\ ~Divergent(valid, snap, wval, wpos)
  /\ wpos' = wpos + 1
  /\ UNCHANGED <<bankVars, cached, pc, ret, wmid, wval, reconcileVars,
                 testVars, historyVars>>

RepairBegin ==
  /\ pc = "repair" /\ wpos \in BankIds /\ ~wmid
  /\ Divergent(valid, snap, wval, wpos)
  /\ BeginWrite(wpos, wval)
  /\ wmid' = TRUE
  /\ UNCHANGED <<cached, pc, ret, wpos, wval, reconcileVars, testVars,
                 historyVars>>

RepairEnd ==
  /\ pc = "repair" /\ wmid
  /\ EndWrite(wpos, wval, \E h \in Signals : HandlerInside(h, wpos))
  /\ wmid' = FALSE
  /\ wpos' = wpos + 1
  /\ UNCHANGED <<cached, pc, ret, wval, reconcileVars, testVars, historyVars>>

ReconcileReturn ==
  /\ pc = "repair" /\ wpos = AllWritten
  /\ cached' = wval
  /\ ReconcileReturns(TRUE, wval)

-----------------------------------------------------------------------------
(* The worker during llps_init *)

\* main installed the handlers; llps_init reaches llps_control_clear_shutdown.
ClearShutdown ==
  /\ pc = "boot"
  /\ CallWriteAll(0, "cleared")
  /\ UNCHANGED <<bankVars, cached, reconcileVars, testVars, historyVars>>

\* llps_control_flag_tmr_startup_self_test
SelfTestStart ==
  /\ pc = "cleared"
  /\ savedFlag' = cached
  /\ pc' = "save" /\ wpos' = 0
  /\ UNCHANGED <<bankVars, cached, ret, wmid, wval, reconcileVars, saved,
                 historyVars>>

\* llps_control_flag_save_banks: one raw struct copy per bank, then the first
\* reconcile of the test.
SaveBank ==
  /\ pc = "save" /\ wpos \in BankIds
  /\ saved' = [saved EXCEPT ![wpos] =
                 IF inflight[wpos] = {} THEN bank[wpos] ELSE Bad]
  /\ wpos' = wpos + 1
  /\ UNCHANGED <<bankVars, cached, pc, ret, wmid, wval, reconcileVars,
                 savedFlag, historyVars>>

SaveDone ==
  /\ pc = "save" /\ wpos = AllWritten
  /\ CallReconcile("st1")
  /\ UNCHANGED <<bankVars, cached, reconcileVars, testVars, historyVars>>

\* A corrupting store into magic_start makes the bank invalid at once.
Corrupt(b) ==
  /\ bank' = [bank EXCEPT ![b] = Bad]
  /\ UNCHANGED inflight

\* Leave the test through llps_control_flag_restore_banks; ok holds the verdict.
Restore(passed) ==
  /\ cached' = savedFlag
  /\ ok' = passed
  /\ pc' = "restore" /\ wpos' = 0
  /\ UNCHANGED <<bankVars, ret, wmid, wval, valid, snap, result, testVars,
                 historyVars>>

\* The banks reconcile to the cached flag: corrupt bank 0 and reconcile again.
SelfTestSingle ==
  /\ pc = "st1"
  /\ ok /\ result = savedFlag
  /\ Corrupt(0)
  /\ CallReconcile("st2")
  /\ UNCHANGED <<cached, reconcileVars, testVars, historyVars>>

\* The single corruption was repaired: corrupt banks 0 and 1.
SelfTestDual0 ==
  /\ pc = "st2"
  /\ ok /\ result = savedFlag /\ bank[0] # Bad
  /\ Corrupt(0)
  /\ pc' = "st2b"
  /\ UNCHANGED <<cached, ret, wpos, wmid, wval, reconcileVars, testVars,
                 historyVars>>

SelfTestDual1 ==
  /\ pc = "st2b"
  /\ Corrupt(1)
  /\ CallReconcile("st3")
  /\ UNCHANGED <<cached, reconcileVars, testVars, historyVars>>

\* The dual corruption had to fail closed.
SelfTestEnd ==
  /\ \/ pc = "st1" /\ ~(ok /\ result = savedFlag) /\ Restore(FALSE)
     \/ pc = "st2" /\ ~(ok /\ result = savedFlag /\ bank[0] # Bad)
                   /\ Restore(FALSE)
     \/ pc = "st3" /\ Restore(~ok)

RestoreBegin ==
  /\ pc = "restore" /\ wpos \in BankIds /\ ~wmid
  /\ BeginWrite(wpos, saved[wpos])
  /\ wmid' = TRUE
  /\ UNCHANGED <<cached, pc, ret, wpos, wval, reconcileVars, testVars,
                 historyVars>>

RestoreEnd ==
  /\ pc = "restore" /\ wmid
  /\ EndWrite(wpos, saved[wpos], \E h \in Signals : HandlerInside(h, wpos))
  /\ wmid' = FALSE
  /\ wpos' = wpos + 1
  /\ UNCHANGED <<cached, pc, ret, wval, reconcileVars, testVars, historyVars>>

\* A failed test makes llps_init fail and main return; a passed one goes on to
\* the scrub of llps_init_run_startup_checks, whose reconcile is the last use
\* of the flag in llps_init.
RestoreReturn ==
  /\ pc = "restore" /\ wpos = AllWritten
  /\ IF ok
     THEN CallReconcile("scrub")
     ELSE pc' = "exited" /\ UNCHANGED <<ret, wpos, wmid, wval>>
  /\ saved' = [b \in BankIds |-> Bad] /\ savedFlag' = 0
  /\ UNCHANGED <<bankVars, cached, reconcileVars, historyVars>>

\* llps_tmr_metadata_scrub_all: a flag that is set or has no majority makes
\* llps_init fail.
StartupScrub ==
  /\ pc = "scrub"
  /\ \/ /\ ok /\ result = 0
        /\ pc' = "idle"
        /\ UNCHANGED <<ret, wpos, wmid, wval>>
     \/ /\ ok /\ result = 1
        /\ pc' = "exited"
        /\ UNCHANGED <<ret, wpos, wmid, wval>>
     \/ /\ ~ok
        /\ CallWriteAll(1, "exited")
  /\ UNCHANGED <<bankVars, cached, reconcileVars, testVars, historyVars>>

-----------------------------------------------------------------------------
(* The worker while the server runs *)

\* llps_control_shutdown_is_requested, called by the server loop, the watchdog
\* and every pump cycle.
CheckShutdown ==
  /\ pc = "idle"
  /\ CallReconcile("answer")
  /\ known' = asked
  /\ UNCHANGED <<bankVars, cached, reconcileVars, testVars, asked, dual>>

\* A fail-closed path (audit write failure, scrub failure, listener fault...)
\* requests the shutdown from inside the worker.
WorkerRequestsShutdown ==
  /\ pc = "idle"
  /\ CallWriteAll(1, "idle")
  /\ UNCHANGED <<bankVars, cached, reconcileVars, testVars, historyVars>>

\* Mutant of ActOnAnswer: an answer without a majority is not acted on.
ActOnMajorityOnly ==
  /\ pc = "answer"
  /\ IF ok /\ result = 1
     THEN CallWriteAll(1, "stopped")
     ELSE pc' = "idle" /\ UNCHANGED <<ret, wpos, wmid, wval>>
  /\ known' = {}
  /\ UNCHANGED <<bankVars, cached, reconcileVars, testVars, asked, dual>>

\* The caller acts on the answer: the server loop ends in llps_server_cleanup,
\* which requests the shutdown once more.
ActOnAnswer ==
  /\ pc = "answer"
  /\ IF result = 1
     THEN CallWriteAll(1, "stopped")
     ELSE pc' = "idle" /\ UNCHANGED <<ret, wpos, wmid, wval>>
  /\ known' = {}
  /\ UNCHANGED <<bankVars, cached, reconcileVars, testVars, asked, dual>>

-----------------------------------------------------------------------------
\* A memory fault in a bank nobody is writing; validation detects it.
MemoryFault(b) ==
  /\ inflight[b] = {} /\ bank[b] # Bad
  /\ bank' = [bank EXCEPT ![b] = Bad]
  /\ dual' = (dual \/ \E c \in BankIds \ {b} : bank[c] = Bad)
  /\ UNCHANGED <<inflight, cached, handlerVars, workerVars, reconcileVars,
                 testVars, asked, known>>

InitStep ==
  \/ ClearShutdown \/ SelfTestStart \/ SaveBank \/ SaveDone
  \/ SelfTestSingle \/ SelfTestDual0 \/ SelfTestDual1 \/ SelfTestEnd
  \/ RestoreBegin \/ RestoreEnd \/ RestoreReturn \/ StartupScrub

LoopStep ==
  \/ WriteBegin \/ WriteEnd \/ WriteReturn
  \/ ReadBank \/ VoteFails \/ VoteSucceeds
  \/ RepairSkip \/ RepairBegin \/ RepairEnd \/ ReconcileReturn

RunStep == CheckShutdown \/ WorkerRequestsShutdown \/ ActOnAnswer

Worker ==
  /\ WorkerMayRun
  /\ InitStep \/ LoopStep \/ RunStep
  /\ UNCHANGED handlerVars

\* Zero-initialised globals: no magic, hence no valid bank.
Init ==
  /\ bank = [b \in BankIds |-> Bad]
  /\ inflight = [b \in BankIds |-> {}]
  /\ cached = 0
  /\ hpos = [h \in Signals |-> Idle]
  /\ hmid = [h \in Signals |-> FALSE]
  /\ hlate = [h \in Signals |-> FALSE]
  /\ pc = "boot" /\ ret = "boot"
  /\ wpos = 0 /\ wmid = FALSE /\ wval = 0
  /\ valid = [b \in BankIds |-> FALSE]
  /\ snap = [b \in BankIds |-> 0]
  /\ ok = FALSE /\ result = 1
  /\ saved = [b \in BankIds |-> Bad] /\ savedFlag = 0
  /\ asked = {} /\ known = {} /\ dual = FALSE

Next ==
  \/ \E h \in Signals : SignalArrives(h) \/ Handler(h)
  \/ Worker
  \/ \E b \in BankIds : MemoryFault(b)

Spec == Init /\ [][Next]_vars

\* A handler that runs gets its instructions executed; the worker gets time
\* between two signals (strong, because each signal suspends it).  Signals and
\* memory faults owe nobody anything.
Fairness ==
  /\ \A h \in Signals : WF_vars(Handler(h))
  /\ SF_vars(Worker /\ pc # "idle")
  /\ SF_vars(Worker /\ CheckShutdown)

FairSpec == Spec /\ Fairness

-----------------------------------------------------------------------------
\* Loop indices stay in range and banks, snapshots and positions keep their types.
TypeOK ==
  /\ bank \in [BankIds -> BankValues]
  /\ inflight \in [BankIds -> SUBSET BankValues]
  /\ cached \in {0, 1}
  /\ hpos \in [Signals -> 0..Idle]
  /\ hmid \in [Signals -> BOOLEAN]
  /\ hlate \in [Signals -> BOOLEAN]
  /\ pc \in InitPcs \cup RunPcs \cup LoopPcs \cup EndPcs
  /\ ret \in InitPcs \cup RunPcs \cup EndPcs
  /\ wpos \in 0..AllWritten
  /\ wmid \in BOOLEAN
  /\ wval \in {0, 1}
  /\ valid \in [BankIds -> BOOLEAN]
  /\ snap \in [BankIds -> {0, 1}]
  /\ ok \in BOOLEAN
  /\ result \in {0, 1}
  /\ saved \in [BankIds -> BankValues]
  /\ savedFlag \in {0, 1}
  /\ asked \subseteq {"begun", "early", "late"}
  /\ known \subseteq {"begun", "early", "late"}
  /\ dual \in BOOLEAN

\* A request that completed while the server was running is seen by every
\* llps_control_shutdown_is_requested call that starts later: no stale repair
\* of a reconcile the signal interrupted, and no memory fault, undoes it.
RequestHonoured ==
  pc = "answer" /\ "late" \in known => result = 1

\* Every request made since main installed the handlers is seen by later calls
\* (llps.h: "Request the server to stop accepting connections and shut down").
AnyRequestHonoured ==
  pc = "answer" /\ known \cap {"early", "late"} # {} => result = 1

\* One corrupt bank at a time never stops the server: without a request and
\* without two banks corrupt at once, the answer is "not requested".
SingleFaultMasked ==
  pc = "answer" /\ result = 1 => "begun" \in asked \/ dual

\* Once a request has completed in the running server, the server stops.
RequestStopsServer == "late" \in asked ~> pc = "stopped"
=============================================================================
