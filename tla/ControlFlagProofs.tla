------------------------- MODULE ControlFlagProofs -------------------------
(***************************************************************************)
(* For any number of signal handlers that run on the worker's own thread,  *)
(* a shutdown request that completed in the running server is never lost.  *)
(* For handlers on any thread, a single corrupt bank at a time is never    *)
(* taken for a request.                                                    *)
(***************************************************************************)
EXTENDS ControlFlag, TLAPS, FiniteSetTheorems

-----------------------------------------------------------------------------
(* The inductive invariant *)

\* At most the bank c still says "not requested".
OnlyZero(c) == \A b \in BankIds : bank[b] = 0 => b = c

\* Loops stay in their bounds, and the calls of the running server are the
\* ones below: reconcile for an answer, write_all only to request.
Discipline ==
  /\ \A h \in Signals : hmid[h] => hpos[h] \in BankIds
  /\ wmid => pc \in {"write", "repair", "restore"} /\ wpos \in BankIds
  /\ pc \in {"read", "repair"} /\ ret \in RunPcs => ret = "answer"
  /\ pc = "write" /\ ret \in RunPcs => wval = 1 /\ ret \in {"idle", "stopped"}
  /\ known \subseteq asked
  /\ \A h \in Signals : hlate[h] => InRun
  /\ "late" \in asked => InRun

\* Only somebody inside a bank has a write pending there; in the running
\* server a pending 0 is the worker's.
PendingWrites ==
  \A b \in BankIds :
    /\ inflight[b] # {} =>
         WorkerInside(b) \/ \E h \in Signals : HandlerInside(h, b)
    /\ 0 \in inflight[b] => WorkerInside(b) /\ (InRun => wval = 0)

\* The banks a running handler has left behind are set, except the one the
\* interrupted worker is writing.
HandlerProgress ==
  \A h \in Signals : hpos[h] # Idle =>
    \A b \in BankIds : b < hpos[h] => bank[b] # 0 \/ WorkerInside(b)

\* So are the banks behind the worker's own request.
WorkerProgress ==
  pc = "write" /\ InRun => \A b \in BankIds : b < wpos => bank[b] # 0

\* A repair of the running server touches at most one bank.
RepairsOne ==
  pc = "repair" /\ InRun =>
    /\ \E c \in BankIds :
         \A b \in BankIds : Divergent(valid, snap, wval, b) => b = c
    /\ wmid => Divergent(valid, snap, wval, wpos)

\* After a request at most one bank still says 0, and a call cannot collect
\* two such votes: a call that began before the request may have read stale
\* zeros, but then its repair is the only thing that can write one back.
RequestSticks ==
  "late" \in asked =>
    /\ pc = "read" /\ "late" \notin known => \A b \in BankIds : bank[b] # 0
    /\ pc = "read" /\ "late" \in known =>
         \E c \in BankIds :
           /\ OnlyZero(c)
           /\ \A b \in BankIds : b < wpos /\ valid[b] /\ snap[b] = 0 => b = c
    /\ pc = "repair" =>
         \E c \in BankIds :
           /\ OnlyZero(c)
           /\ wval = 0 =>
                /\ "late" \notin known
                /\ \A b \in BankIds : Divergent(valid, snap, wval, b) => b = c
    /\ pc \notin {"read", "repair"} => \E c \in BankIds : OnlyZero(c)
    /\ pc = "answer" /\ "late" \in known => result = 1

IInv == /\ TypeOK /\ Discipline /\ PendingWrites /\ HandlerProgress
        /\ WorkerProgress /\ RepairsOne /\ RequestSticks

-----------------------------------------------------------------------------
(* Type correctness *)

\* TypeOK is not inductive alone: a bank write in progress must be inside the
\* loop, or its end would push the loop index past the last bank.
TypeInv ==
  /\ TypeOK
  /\ wmid => pc \in {"write", "repair", "restore"} /\ wpos \in BankIds

\* The majority value is the value of a bank.
LEMMA MajorityTyped ==
  ASSUME NEW v \in [BankIds -> BOOLEAN], NEW s \in [BankIds -> {0, 1}],
         HasMajority(v, s)
  PROVE  s[FindMatchingPair(v, s)] \in {0, 1}
BY DEF HasMajority, FindMatchingPair, NoPair, BankIds

\* Every step of the worker keeps the types.
LEMMA WorkerTyped ==
  ASSUME TypeInv, Worker
  PROVE  TypeInv'
<1>. USE DEF TypeInv, TypeOK, BankIds, BankValues, Bad, AllWritten, Idle,
             InitPcs, RunPcs, LoopPcs, EndPcs, bankVars, handlerVars,
             reconcileVars, testVars, historyVars
<1>0. UNCHANGED handlerVars /\ (InitStep \/ LoopStep \/ RunStep)
  BY DEF Worker
<1>1. CASE ClearShutdown
  BY <1>0, <1>1 DEF ClearShutdown, CallWriteAll
<1>2. CASE SelfTestStart
  BY <1>0, <1>2 DEF SelfTestStart
<1>3. CASE SaveBank
  BY <1>0, <1>3 DEF SaveBank
<1>4. CASE SaveDone
  BY <1>0, <1>4 DEF SaveDone, CallReconcile
<1>5. CASE SelfTestSingle
  BY <1>0, <1>5 DEF SelfTestSingle, Corrupt, CallReconcile
<1>6. CASE SelfTestDual0
  BY <1>0, <1>6 DEF SelfTestDual0, Corrupt
<1>7. CASE SelfTestDual1
  BY <1>0, <1>7 DEF SelfTestDual1, Corrupt, CallReconcile
<1>8. CASE SelfTestEnd
  <2>1. PICK passed \in BOOLEAN : Restore(passed)
    BY <1>8 DEF SelfTestEnd
  <2>. QED
    BY <1>0, <2>1 DEF Restore
<1>9. CASE RestoreBegin
  BY <1>0, <1>9 DEF RestoreBegin, BeginWrite
<1>10. CASE RestoreEnd
  <2>1. /\ bank' \in [BankIds -> BankValues]
        /\ inflight' \in [BankIds -> SUBSET BankValues]
    BY <1>10 DEF RestoreEnd, EndWrite, WriteOutcomes
  <2>2. wmid' \in BOOLEAN
    BY <1>10 DEF RestoreEnd
  <2>. QED
    BY <1>0, <1>10, <2>1, <2>2 DEF RestoreEnd
<1>11. CASE RestoreReturn
  BY <1>0, <1>11 DEF RestoreReturn, CallReconcile
<1>12. CASE StartupScrub
  BY <1>0, <1>12 DEF StartupScrub, CallWriteAll
<1>13. CASE WriteBegin
  BY <1>0, <1>13 DEF WriteBegin, BeginWrite
<1>14. CASE WriteEnd
  <2>1. /\ bank' \in [BankIds -> BankValues]
        /\ inflight' \in [BankIds -> SUBSET BankValues]
    BY <1>14 DEF WriteEnd, EndWrite, WriteOutcomes
  <2>2. wmid' \in BOOLEAN
    BY <1>14 DEF WriteEnd
  <2>. QED
    BY <1>0, <1>14, <2>1, <2>2 DEF WriteEnd
<1>15. CASE WriteReturn
  BY <1>0, <1>15 DEF WriteReturn, ReturnToCaller
<1>16. CASE ReadBank
  BY <1>0, <1>16 DEF ReadBank
<1>17. CASE VoteFails
  <2>1. ReconcileReturns(FALSE, 1) /\ cached' = 1
    BY <1>17 DEF VoteFails
  <2>2. valid' \in [BankIds -> BOOLEAN] /\ snap' \in [BankIds -> {0, 1}]
    BY <2>1 DEF ReconcileReturns
  <2>3. ok' \in BOOLEAN
    BY <2>1 DEF ReconcileReturns
  <2>. QED
    BY <1>0, <1>17, <2>1, <2>2, <2>3 DEF VoteFails, ReconcileReturns, ReturnToCaller
<1>18. CASE VoteSucceeds
  BY MajorityTyped, <1>0, <1>18 DEF VoteSucceeds
<1>19. CASE RepairSkip
  BY <1>0, <1>19 DEF RepairSkip
<1>20. CASE RepairBegin
  BY <1>0, <1>20 DEF RepairBegin, BeginWrite
<1>21. CASE RepairEnd
  <2>1. /\ bank' \in [BankIds -> BankValues]
        /\ inflight' \in [BankIds -> SUBSET BankValues]
    BY <1>21 DEF RepairEnd, EndWrite, WriteOutcomes
  <2>2. wmid' \in BOOLEAN
    BY <1>21 DEF RepairEnd
  <2>. QED
    BY <1>0, <1>21, <2>1, <2>2 DEF RepairEnd
<1>22. CASE ReconcileReturn
  BY <1>0, <1>22 DEF ReconcileReturn, ReconcileReturns, ReturnToCaller
<1>23. CASE CheckShutdown
  BY <1>0, <1>23 DEF CheckShutdown, CallReconcile
<1>24. CASE WorkerRequestsShutdown
  BY <1>0, <1>24 DEF WorkerRequestsShutdown, CallWriteAll
<1>25. CASE ActOnAnswer
  BY <1>0, <1>25 DEF ActOnAnswer, CallWriteAll
<1>. QED
  BY <1>0, <1>1, <1>2, <1>3, <1>4, <1>5, <1>6, <1>7, <1>8, <1>9, <1>10, <1>11, <1>12, <1>13, <1>14, <1>15, <1>16, <1>17, <1>18, <1>19, <1>20, <1>21, <1>22, <1>23, <1>24, <1>25 DEF InitStep, LoopStep, RunStep

\* Every step keeps the types.
LEMMA NextTyped == TypeInv /\ [Next]_vars => TypeInv'
<1>. SUFFICES ASSUME TypeInv, [Next]_vars PROVE TypeInv'
  OBVIOUS
<1>. USE DEF TypeInv, TypeOK, BankIds, BankValues, Bad, AllWritten, Idle,
             bankVars, handlerVars, workerVars, reconcileVars, testVars,
             historyVars
<1>1. ASSUME NEW h \in Signals, SignalArrives(h) PROVE TypeInv'
  BY <1>1 DEF SignalArrives, InRun
<1>2. ASSUME NEW h \in Signals, HandlerBeginBank(h) PROVE TypeInv'
  BY <1>2 DEF HandlerBeginBank, BeginWrite
<1>3. ASSUME NEW h \in Signals, HandlerEndBank(h) PROVE TypeInv'
  BY <1>3 DEF HandlerEndBank, EndWrite, WriteOutcomes
<1>4. ASSUME NEW h \in Signals, HandlerReturns(h) PROVE TypeInv'
  BY <1>4 DEF HandlerReturns
<1>5. ASSUME NEW b \in BankIds, MemoryFault(b) PROVE TypeInv'
  BY <1>5 DEF MemoryFault
<1>6. CASE Worker
  BY <1>6, WorkerTyped
<1>7. CASE UNCHANGED vars
  BY <1>7 DEF vars
<1>. QED
  BY <1>1, <1>2, <1>3, <1>4, <1>5, <1>6, <1>7 DEF Next, Handler

\* The initial state is well typed.
LEMMA InitTyped == Init => TypeInv
<1>. SUFFICES ASSUME Init PROVE TypeInv
  OBVIOUS
<1>1. /\ hmid \in [Signals -> BOOLEAN]
      /\ hlate \in [Signals -> BOOLEAN]
      /\ valid \in [BankIds -> BOOLEAN]
      /\ wmid \in BOOLEAN /\ ok \in BOOLEAN /\ dual \in BOOLEAN
  BY DEF Init
<1>2. /\ bank \in [BankIds -> BankValues]
      /\ inflight \in [BankIds -> SUBSET BankValues]
      /\ hpos \in [Signals -> 0..Idle]
      /\ snap \in [BankIds -> {0, 1}]
      /\ saved \in [BankIds -> BankValues]
  BY DEF Init, BankValues, Idle
<1>. QED
  BY <1>1, <1>2 DEF Init, TypeInv, TypeOK, AllWritten, InitPcs, RunPcs,
                    LoopPcs, EndPcs

\* llps_control_flag.c keeps every variable of the model in its range: no loop
\* over the banks leaves it, whatever interrupts it.
THEOREM TypeCorrect == Spec => []TypeOK
<1>1. Init => TypeInv
  BY InitTyped
<1>2. TypeInv => TypeOK
  BY DEF TypeInv
<1>. QED
  BY <1>1, <1>2, NextTyped, PTL DEF Spec

-----------------------------------------------------------------------------
(* A completed request is never lost *)

\* Behind every majority stand two valid banks with the majority value.
LEMMA MajorityPair ==
  ASSUME NEW v \in [BankIds -> BOOLEAN], NEW s, HasMajority(v, s)
  PROVE  \E i, j \in BankIds : /\ i # j /\ v[i] /\ v[j]
                               /\ s[i] = s[FindMatchingPair(v, s)]
                               /\ s[j] = s[FindMatchingPair(v, s)]
BY DEF HasMajority, FindMatchingPair, NoPair, BankIds, Agree

\* When the worker moves and handlers are nested, no handler is running.
LEMMA HandlersIdle ==
  ASSUME Nested, TypeOK, Discipline, WorkerMayRun
  PROVE  \A h \in Signals : hpos[h] = Idle /\ ~hmid[h]
BY DEF TypeOK, Discipline, WorkerMayRun, HandlerRunning, Idle, BankIds

\* Every step of the worker keeps the invariant.
LEMMA WorkerKeeps ==
  ASSUME Nested, IInv, TypeOK', Worker
  PROVE  IInv'
<1>. USE DEF IInv, TypeOK, BankIds, BankValues, Bad, AllWritten, Idle, InitPcs,
             RunPcs, LoopPcs, EndPcs, bankVars, handlerVars, reconcileVars,
             testVars, historyVars
<1>0. /\ UNCHANGED handlerVars
      /\ \A h \in Signals : hpos[h] = Idle /\ ~hmid[h]
      /\ InitStep \/ LoopStep \/ RunStep
  BY HandlersIdle DEF Worker
<1>1. CASE ClearShutdown
  BY <1>0, <1>1
  DEF ClearShutdown, CallWriteAll, Discipline, PendingWrites, HandlerProgress, WorkerProgress,
      RepairsOne, RequestSticks, OnlyZero, InRun, WorkerInside, HandlerInside,
      Divergent
<1>2. CASE SelfTestStart
  BY <1>0, <1>2
  DEF SelfTestStart, Discipline, PendingWrites, HandlerProgress, WorkerProgress,
      RepairsOne, RequestSticks, OnlyZero, InRun, WorkerInside, HandlerInside,
      Divergent
<1>3. CASE SaveBank
  BY <1>0, <1>3
  DEF SaveBank, Discipline, PendingWrites, HandlerProgress, WorkerProgress,
      RepairsOne, RequestSticks, OnlyZero, InRun, WorkerInside, HandlerInside,
      Divergent
<1>4. CASE SaveDone
  BY <1>0, <1>4
  DEF SaveDone, CallReconcile, Discipline, PendingWrites, HandlerProgress, WorkerProgress,
      RepairsOne, RequestSticks, OnlyZero, InRun, WorkerInside, HandlerInside,
      Divergent
<1>5. CASE SelfTestSingle
  BY <1>0, <1>5
  DEF SelfTestSingle, Corrupt, CallReconcile, Discipline, PendingWrites, HandlerProgress, WorkerProgress,
      RepairsOne, RequestSticks, OnlyZero, InRun, WorkerInside, HandlerInside,
      Divergent
<1>6. CASE SelfTestDual0
  BY <1>0, <1>6
  DEF SelfTestDual0, Corrupt, Discipline, PendingWrites, HandlerProgress, WorkerProgress,
      RepairsOne, RequestSticks, OnlyZero, InRun, WorkerInside, HandlerInside,
      Divergent
<1>7. CASE SelfTestDual1
  BY <1>0, <1>7
  DEF SelfTestDual1, Corrupt, CallReconcile, Discipline, PendingWrites, HandlerProgress, WorkerProgress,
      RepairsOne, RequestSticks, OnlyZero, InRun, WorkerInside, HandlerInside,
      Divergent
<1>8. CASE SelfTestEnd
  BY <1>0, <1>8
  DEF SelfTestEnd, Restore, Discipline, PendingWrites, HandlerProgress, WorkerProgress,
      RepairsOne, RequestSticks, OnlyZero, InRun, WorkerInside, HandlerInside,
      Divergent
<1>9. CASE RestoreBegin
  BY <1>0, <1>9
  DEF RestoreBegin, BeginWrite, Discipline, PendingWrites, HandlerProgress, WorkerProgress,
      RepairsOne, RequestSticks, OnlyZero, InRun, WorkerInside, HandlerInside,
      Divergent
<1>10. CASE RestoreEnd
  <2>1. \A b \in BankIds : b # wpos => inflight[b] = {}
    BY <1>0 DEF PendingWrites, WorkerInside, HandlerInside
  <2>2. /\ inflight' = [inflight EXCEPT ![wpos] = {}]
        /\ \E x \in WriteOutcomes(wpos, saved[wpos]) :
             bank' = [bank EXCEPT ![wpos] = x]
    BY <1>0, <1>10 DEF RestoreEnd, EndWrite, HandlerInside
  <2>3. PendingWrites'
    BY <1>10, <2>1, <2>2 DEF RestoreEnd, PendingWrites
  <2>. QED
    BY <1>0, <1>10, <2>2, <2>3
    DEF RestoreEnd, WriteOutcomes, Discipline, PendingWrites, HandlerProgress, WorkerProgress,
         RepairsOne, RequestSticks, OnlyZero, InRun, WorkerInside, HandlerInside,
         Divergent
<1>11. CASE RestoreReturn
  BY <1>0, <1>11
  DEF RestoreReturn, CallReconcile, Discipline, PendingWrites, HandlerProgress, WorkerProgress,
      RepairsOne, RequestSticks, OnlyZero, InRun, WorkerInside, HandlerInside,
      Divergent
<1>12. CASE StartupScrub
  BY <1>0, <1>12
  DEF StartupScrub, CallWriteAll, Discipline, PendingWrites, HandlerProgress, WorkerProgress,
      RepairsOne, RequestSticks, OnlyZero, InRun, WorkerInside, HandlerInside,
      Divergent
<1>13. CASE WriteBegin
  BY <1>0, <1>13
  DEF WriteBegin, BeginWrite, Discipline, PendingWrites, HandlerProgress, WorkerProgress,
      RepairsOne, RequestSticks, OnlyZero, InRun, WorkerInside, HandlerInside,
      Divergent
<1>14. CASE WriteEnd
  <2>1. \A b \in BankIds : b # wpos => inflight[b] = {}
    BY <1>0 DEF PendingWrites, WorkerInside, HandlerInside
  <2>2. /\ inflight' = [inflight EXCEPT ![wpos] = {}]
        /\ \E x \in WriteOutcomes(wpos, wval) :
             bank' = [bank EXCEPT ![wpos] = x]
    BY <1>0, <1>14 DEF WriteEnd, EndWrite, HandlerInside
  <2>3. PendingWrites'
    BY <1>14, <2>1, <2>2 DEF WriteEnd, PendingWrites
  <2>. QED
    BY <1>0, <1>14, <2>2, <2>3
    DEF WriteEnd, WriteOutcomes, Discipline, PendingWrites, HandlerProgress, WorkerProgress,
         RepairsOne, RequestSticks, OnlyZero, InRun, WorkerInside, HandlerInside,
         Divergent
<1>15. CASE WriteReturn
  BY <1>0, <1>15
  DEF WriteReturn, ReturnToCaller, Discipline, PendingWrites, HandlerProgress, WorkerProgress,
      RepairsOne, RequestSticks, OnlyZero, InRun, WorkerInside, HandlerInside,
      Divergent
<1>16. CASE ReadBank
  <2>1. inflight[wpos] = {}
    BY <1>0, <1>16 DEF ReadBank, PendingWrites, WorkerInside, HandlerInside,
                        Discipline
  <2>2. /\ valid' = [valid EXCEPT ![wpos] = bank[wpos] # Bad]
        /\ snap' = [snap EXCEPT ![wpos] =
                      IF bank[wpos] # Bad THEN bank[wpos] ELSE 0]
    BY <1>16, <2>1 DEF ReadBank
  <2>3. RequestSticks'
    BY <1>16, <2>2 DEF ReadBank, RequestSticks, OnlyZero
  <2>. QED
    BY <1>0, <1>16, <2>3 DEF ReadBank, Discipline, PendingWrites,
      HandlerProgress, WorkerProgress, RepairsOne, InRun, WorkerInside,
      HandlerInside
<1>17. CASE VoteFails
  BY <1>0, <1>17
  DEF VoteFails, ReconcileReturns, ReturnToCaller, Discipline, PendingWrites, HandlerProgress, WorkerProgress,
      RepairsOne, RequestSticks, OnlyZero, InRun, WorkerInside, HandlerInside,
      Divergent
<1>18. CASE VoteSucceeds
  <2>1. PICK i \in BankIds, j \in BankIds :
          /\ i # j /\ valid[i] /\ valid[j]
          /\ snap[i] = wval' /\ snap[j] = wval'
    BY <1>18, MajorityPair DEF VoteSucceeds
  <2>2. PICK c \in BankIds : \A b \in BankIds : b # i /\ b # j => b = c
    BY <2>1
  <2>3. \A b \in BankIds : Divergent(valid, snap, wval', b) => b = c
    BY <2>1, <2>2 DEF Divergent
  <2>4. RepairsOne'
    BY <1>18, <2>3 DEF VoteSucceeds, RepairsOne, Divergent, Discipline
  <2>5. RequestSticks'
    BY <1>18, <2>1, <2>3 DEF VoteSucceeds, RequestSticks, OnlyZero, Divergent
  <2>. QED
    BY <1>0, <1>18, <2>4, <2>5 DEF VoteSucceeds, Discipline, PendingWrites,
      HandlerProgress, WorkerProgress, InRun, WorkerInside, HandlerInside
<1>19. CASE RepairSkip
  BY <1>0, <1>19
  DEF RepairSkip, Discipline, PendingWrites, HandlerProgress, WorkerProgress,
      RepairsOne, RequestSticks, OnlyZero, InRun, WorkerInside, HandlerInside,
      Divergent
<1>20. CASE RepairBegin
  BY <1>0, <1>20
  DEF RepairBegin, BeginWrite, Discipline, PendingWrites, HandlerProgress, WorkerProgress,
      RepairsOne, RequestSticks, OnlyZero, InRun, WorkerInside, HandlerInside,
      Divergent
<1>21. CASE RepairEnd
  <2>1. \A b \in BankIds : b # wpos => inflight[b] = {}
    BY <1>0 DEF PendingWrites, WorkerInside, HandlerInside
  <2>2. /\ inflight' = [inflight EXCEPT ![wpos] = {}]
        /\ \E x \in WriteOutcomes(wpos, wval) :
             bank' = [bank EXCEPT ![wpos] = x]
    BY <1>0, <1>21 DEF RepairEnd, EndWrite, HandlerInside
  <2>3. PendingWrites'
    BY <1>21, <2>1, <2>2 DEF RepairEnd, PendingWrites
  <2>4. Discipline' /\ HandlerProgress' /\ WorkerProgress' /\ RepairsOne'
    BY <1>0, <1>21 DEF RepairEnd, Discipline, HandlerProgress, WorkerProgress,
                        RepairsOne, InRun, Divergent
  <2>5. RequestSticks'
    BY <1>21, <2>2 DEF RepairEnd, WriteOutcomes, RequestSticks, RepairsOne,
                        PendingWrites, Discipline, InRun, OnlyZero, Divergent
  <2>. QED
    BY <2>3, <2>4, <2>5
<1>22. CASE ReconcileReturn
  BY <1>0, <1>22
  DEF ReconcileReturn, ReconcileReturns, ReturnToCaller, Discipline, PendingWrites, HandlerProgress, WorkerProgress,
      RepairsOne, RequestSticks, OnlyZero, InRun, WorkerInside, HandlerInside,
      Divergent
<1>23. CASE CheckShutdown
  BY <1>0, <1>23
  DEF CheckShutdown, CallReconcile, Discipline, PendingWrites, HandlerProgress, WorkerProgress,
      RepairsOne, RequestSticks, OnlyZero, InRun, WorkerInside, HandlerInside,
      Divergent
<1>24. CASE WorkerRequestsShutdown
  BY <1>0, <1>24
  DEF WorkerRequestsShutdown, CallWriteAll, Discipline, PendingWrites, HandlerProgress, WorkerProgress,
      RepairsOne, RequestSticks, OnlyZero, InRun, WorkerInside, HandlerInside,
      Divergent
<1>25. CASE ActOnAnswer
  BY <1>0, <1>25
  DEF ActOnAnswer, CallWriteAll, Discipline, PendingWrites, HandlerProgress, WorkerProgress,
      RepairsOne, RequestSticks, OnlyZero, InRun, WorkerInside, HandlerInside,
      Divergent
<1>. QED
  BY <1>0, <1>1, <1>2, <1>3, <1>4, <1>5, <1>6, <1>7, <1>8, <1>9, <1>10, <1>11, <1>12, <1>13, <1>14, <1>15, <1>16, <1>17, <1>18, <1>19, <1>20, <1>21, <1>22, <1>23, <1>24, <1>25
  DEF InitStep, LoopStep, RunStep

\* Every step of a signal handler keeps the invariant.
LEMMA HandlerKeeps ==
  ASSUME IInv, TypeOK', NEW g \in Signals, SignalArrives(g) \/ Handler(g)
  PROVE  IInv'
<1>. USE DEF IInv, TypeOK, BankIds, BankValues, Bad, AllWritten, Idle, InitPcs,
             RunPcs, LoopPcs, EndPcs, bankVars, handlerVars, workerVars,
             reconcileVars, testVars, historyVars
<1>1. CASE SignalArrives(g)
  BY <1>1 DEF SignalArrives, Discipline, PendingWrites, HandlerProgress,
      WorkerProgress, RepairsOne, RequestSticks, OnlyZero, InRun, WorkerInside,
      HandlerInside, Divergent
<1>2. CASE HandlerBeginBank(g)
  <2>1. Discipline' /\ PendingWrites' /\ HandlerProgress'
    BY <1>2 DEF HandlerBeginBank, BeginWrite, Discipline, PendingWrites,
        HandlerProgress, InRun, WorkerInside, HandlerInside
  <2>2. WorkerProgress' /\ RepairsOne' /\ RequestSticks'
    BY <1>2 DEF HandlerBeginBank, BeginWrite, WorkerProgress, RepairsOne,
        RequestSticks, OnlyZero, InRun, Divergent
  <2>. QED
    BY <2>1, <2>2
<1>3. CASE HandlerEndBank(g)
  <2>1. PICK x \in WriteOutcomes(hpos[g], 1) :
          bank' = [bank EXCEPT ![hpos[g]] = x]
    BY <1>3 DEF HandlerEndBank, EndWrite
  <2>2. x = 0 => WorkerInside(hpos[g]) /\ (InRun => wval = 0)
    BY <1>3, <2>1 DEF HandlerEndBank, WriteOutcomes, PendingWrites
  <2>3. Discipline'
    BY <1>3 DEF HandlerEndBank, Discipline, InRun
  <2>4. PendingWrites'
    BY <1>3 DEF HandlerEndBank, EndWrite, PendingWrites, Discipline, InRun,
        WorkerInside, HandlerInside
  <2>5. HandlerProgress'
    BY <1>3, <2>1, <2>2 DEF HandlerEndBank, HandlerProgress, WorkerInside
  <2>6. WorkerProgress' /\ RepairsOne'
    BY <1>3, <2>1, <2>2 DEF HandlerEndBank, WorkerProgress, RepairsOne,
        Discipline, InRun, WorkerInside, Divergent
  <2>7. InRun /\ pc # "repair" =>
          \A b \in BankIds : bank'[b] = 0 => bank[b] = 0
    BY <1>3, <2>1, <2>2 DEF HandlerEndBank, WorkerInside, Discipline, InRun
  <2>8. InRun /\ pc = "repair" =>
          \A b \in BankIds : bank'[b] = 0 =>
            bank[b] = 0 \/ (wval = 0 /\ Divergent(valid, snap, wval, b))
    BY <1>3, <2>1, <2>2 DEF HandlerEndBank, WorkerInside, RepairsOne
  <2>9. RequestSticks'
    BY <1>3, <2>7, <2>8 DEF HandlerEndBank, RequestSticks, OnlyZero, Divergent,
        Discipline, InRun
  <2>. QED
    BY <2>3, <2>4, <2>5, <2>6, <2>9
<1>4. CASE HandlerReturns(g)
  <2>1. Discipline' /\ PendingWrites' /\ HandlerProgress'
    BY <1>4 DEF HandlerReturns, Discipline, PendingWrites, HandlerProgress,
        InRun, WorkerInside, HandlerInside
  <2>2. WorkerProgress' /\ RepairsOne'
    BY <1>4 DEF HandlerReturns, WorkerProgress, RepairsOne, InRun, Divergent
  <2>3. RequestSticks'
    BY <1>4 DEF HandlerReturns, RequestSticks, HandlerProgress, RepairsOne,
        Discipline, OnlyZero, InRun, WorkerInside, Divergent
  <2>. QED
    BY <2>1, <2>2, <2>3
<1>. QED
  BY <1>1, <1>2, <1>3, <1>4 DEF Handler

\* So does a memory fault.
LEMMA FaultKeeps ==
  ASSUME IInv, TypeOK', NEW f \in BankIds, MemoryFault(f)
  PROVE  IInv'
BY DEF MemoryFault, IInv, TypeOK, BankIds, Bad, handlerVars, workerVars,
   reconcileVars, testVars, Discipline, PendingWrites, HandlerProgress,
   WorkerProgress, RepairsOne, RequestSticks, OnlyZero, InRun, WorkerInside,
   HandlerInside, Divergent

\* With handlers on the worker's thread, a shutdown request that completed in
\* the running server is seen by every later
\* llps_control_shutdown_is_requested: for any number of nested handlers and
\* any memory faults, no interrupted repair brings the old value back.
THEOREM RequestNeverLost ==
  ASSUME Nested PROVE Spec => []RequestHonoured
<1>1. Init => IInv
  <2>. SUFFICES ASSUME Init PROVE IInv
    OBVIOUS
  <2>1. TypeOK
    BY InitTyped DEF TypeInv
  <2>2. Discipline /\ PendingWrites /\ HandlerProgress
    BY DEF Init, Discipline, PendingWrites, HandlerProgress, RunPcs
  <2>3. WorkerProgress /\ RepairsOne /\ RequestSticks
    BY DEF Init, WorkerProgress, RepairsOne, RequestSticks
  <2>. QED
    BY <2>1, <2>2, <2>3 DEF IInv
<1>2. IInv /\ [Next]_vars => IInv'
  <2>. SUFFICES ASSUME IInv, [Next]_vars PROVE IInv'
    OBVIOUS
  <2>1. TypeOK'
    BY NextTyped DEF IInv, TypeInv, Discipline
  <2>2. CASE Next
    BY <2>1, <2>2, WorkerKeeps, HandlerKeeps, FaultKeeps DEF Next
  <2>3. CASE UNCHANGED vars
    BY <2>3 DEF vars, bankVars, handlerVars, workerVars, reconcileVars,
        testVars, historyVars, IInv, TypeOK, Discipline, PendingWrites,
        HandlerProgress, WorkerProgress, RepairsOne, RequestSticks, OnlyZero,
        InRun, WorkerInside, HandlerInside, Divergent
  <2>. QED
    BY <2>2, <2>3
<1>3. IInv => RequestHonoured
  BY DEF IInv, RequestSticks, Discipline, RequestHonoured
<1>. QED
  BY <1>1, <1>2, <1>3, PTL DEF Spec

-----------------------------------------------------------------------------
(* One corrupt bank at a time *)

\* At most one bank fails validation.
OneBad == \A b, c \in BankIds : bank[b] = Bad /\ bank[c] = Bad => b = c

\* Nobody has asked, and no fault met a second bad bank.
Undisturbed == "begun" \notin asked /\ ~dual

\* The worker has not started to write a request itself, nor left.
Zeroing == pc \notin {"stopped", "exited"} /\ ~(pc = "write" /\ wval = 1)

\* Who calls the two loops.
Calls ==
  /\ pc = "write" /\ wval = 0 => ret = "cleared"
  /\ pc = "write" /\ wval = 1 => ret \in {"idle", "stopped", "exited"}
  /\ pc \in {"read", "repair"} => ret \in {"st1", "st2", "st3", "scrub", "answer"}
  /\ "begun" \notin asked => \A h \in Signals : hpos[h] = Idle /\ ~hmid[h]

\* The banks say 0 or are bad, and the worker alone writes.
Zeros ==
  /\ wval = 0
  /\ \A b \in BankIds : bank[b] \in {0, Bad} /\ saved[b] \in {0, Bad}
  /\ \A b \in BankIds :
       inflight[b] = IF WorkerInside(b)
                     THEN {IF pc = "restore" THEN saved[b] ELSE 0} ELSE {}
  /\ wmid => bank[wpos] = Bad

\* llps_control_flag_reconcile reads: a bank found bad stays bad until it is
\* repaired, and a bank that went bad after it was read is then the only one.
ReadSound ==
  \A b \in BankIds : b < wpos =>
    /\ valid[b] => snap[b] = 0
    /\ ~valid[b] => bank[b] = Bad
    /\ valid[b] /\ bank[b] = Bad => OneBad

\* ... and repairs: what it has still to write is the bad bank.
RepairSound ==
  /\ OneBad
  /\ \A b \in BankIds : /\ valid[b] => snap[b] = 0
                        /\ b >= wpos /\ ~valid[b] => bank[b] = Bad

\* A reconcile that succeeded leaves at most one bad bank, also after the self
\* test of llps_init has left two; from then on only faults make banks bad.
Settled ==
  \/ pc \in {"idle", "answer"}
  \/ pc \in {"read", "repair"} /\ ret = "answer"
  \/ pc = "scrub" /\ ok

Masked ==
  Undisturbed /\ Zeroing =>
    /\ Zeros
    /\ pc = "read" => ReadSound
    /\ pc = "repair" => RepairSound
    /\ Settled => OneBad
    /\ pc = "answer" => result = 0

MaskInv == TypeInv /\ Calls /\ Masked

\* Two valid banks that agree are all a vote needs.
LEMMA PairIsMajority ==
  ASSUME NEW v \in [BankIds -> BOOLEAN], NEW s,
         NEW i \in BankIds, NEW j \in BankIds, i # j, v[i], v[j], s[i] = s[j]
  PROVE  HasMajority(v, s)
<1>. DEFINE S == {b \in BankIds : v[b]}
<1>1. IsFiniteSet(BankIds)
  <2>1. 0 \in Int /\ 2 \in Int
    OBVIOUS
  <2>. QED
    BY <2>1, FS_Interval, ZenonT(30) DEF BankIds
<1>2. IsFiniteSet(S)
  BY <1>1, FS_Subset
<1>3. IsFiniteSet({i, j}) /\ Cardinality({i, j}) = 2
  <2>1. IsFiniteSet({i}) /\ Cardinality({i}) = 1
    BY FS_Singleton
  <2>2. {i} \cup {j} = {i, j} /\ j \notin {i}
    OBVIOUS
  <2>. QED
    BY <2>1, <2>2, FS_AddElement
<1>4. {i, j} \subseteq S
  OBVIOUS
<1>5. Cardinality({i, j}) <= Cardinality(S)
  BY <1>2, <1>4, FS_Subset
<1>6. Cardinality(S) \in Nat
  BY <1>2, FS_CardinalityType
<1>7. ValidCount(v) >= 2
  BY <1>3, <1>5, <1>6 DEF ValidCount
<1>8. FindMatchingPair(v, s) # NoPair
  BY DEF FindMatchingPair, Agree, NoPair, BankIds
<1>. QED
  BY <1>7, <1>8 DEF HasMajority

\* The steps of the worker, one by one.  Without a request nobody else is
\* inside a bank.
LEMMA WorkerMasks ==
  ASSUME MaskInv, TypeInv', Worker
  PROVE  Calls' /\ Masked'
<1>. USE DEF TypeInv, TypeOK, BankIds, BankValues, Bad, AllWritten, Idle, InitPcs, RunPcs,
             LoopPcs, EndPcs, bankVars, handlerVars, reconcileVars, testVars, historyVars
<1>0. /\ UNCHANGED handlerVars /\ TypeInv /\ Calls /\ Masked
      /\ InitStep \/ LoopStep \/ RunStep
  BY DEF Worker, MaskInv
<1>a. "begun" \notin asked => \A h \in Signals, b \in BankIds : ~HandlerInside(h, b)
  BY <1>0 DEF Calls, HandlerInside
<1>1. CASE ClearShutdown
  BY <1>0, <1>1 DEF ClearShutdown, CallWriteAll, Calls, Masked, Undisturbed, Zeroing, Zeros,
     Settled, OneBad, WorkerInside
<1>2. CASE SelfTestStart
  BY <1>0, <1>2 DEF SelfTestStart, Calls, Masked, Undisturbed, Zeroing, Zeros,
     Settled, OneBad, WorkerInside
<1>3. CASE SaveBank
  BY <1>0, <1>3 DEF SaveBank, Calls, Masked, Undisturbed, Zeroing, Zeros,
     Settled, OneBad, WorkerInside
<1>4. CASE SaveDone
  BY <1>0, <1>4 DEF SaveDone, CallReconcile, Calls, Masked, Undisturbed, Zeroing, Zeros,
     Settled, OneBad, WorkerInside, ReadSound
<1>5. CASE SelfTestSingle
  BY <1>0, <1>5 DEF SelfTestSingle, Corrupt, CallReconcile, Calls, Masked, Undisturbed, Zeroing,
     Zeros, Settled, OneBad, WorkerInside, ReadSound
<1>6. CASE SelfTestDual0
  BY <1>0, <1>6 DEF SelfTestDual0, Corrupt, CallReconcile, Calls, Masked, Undisturbed, Zeroing,
     Zeros, Settled, OneBad, WorkerInside
<1>7. CASE SelfTestDual1
  BY <1>0, <1>7 DEF SelfTestDual1, Corrupt, CallReconcile, Calls, Masked, Undisturbed, Zeroing,
     Zeros, Settled, OneBad, WorkerInside, ReadSound
<1>8. CASE SelfTestEnd
  BY <1>0, <1>8 DEF SelfTestEnd, Restore, Calls, Masked, Undisturbed, Zeroing,
     Zeros, Settled, OneBad, WorkerInside
<1>9. CASE RestoreBegin
  <2>1. Calls' /\ (Undisturbed' => Undisturbed /\ Zeros)
    BY <1>0, <1>9 DEF RestoreBegin, Calls, Masked, Undisturbed, Zeroing
  <2>2. ASSUME Zeros PROVE Zeros'
    <3>1. wpos \in BankIds /\ inflight[wpos] = {}
      BY <2>2, <1>9 DEF RestoreBegin, Zeros, WorkerInside
    <3>2. inflight' = [inflight EXCEPT ![wpos] = {saved[wpos]}]
      BY <3>1, <1>9 DEF RestoreBegin, BeginWrite
    <3>. QED
      BY <2>2, <3>1, <3>2, <1>0, <1>9 DEF RestoreBegin, BeginWrite, Zeros, WorkerInside
  <2>. QED
    BY <2>1, <2>2, <1>9 DEF RestoreBegin, Masked, Settled
<1>10. CASE RestoreEnd
  BY <1>0, <1>10, <1>a DEF RestoreEnd, EndWrite, WriteOutcomes, Calls, Masked, Undisturbed,
     Zeroing, Zeros, Settled, OneBad, WorkerInside
<1>11. CASE RestoreReturn
  BY <1>0, <1>11 DEF RestoreReturn, CallReconcile, Calls, Masked, Undisturbed, Zeroing,
     Zeros, Settled, OneBad, WorkerInside, ReadSound
<1>12. CASE StartupScrub
  BY <1>0, <1>12 DEF StartupScrub, CallWriteAll, Calls, Masked, Undisturbed, Zeroing,
     Zeros, Settled, OneBad, WorkerInside
<1>13. CASE WriteBegin
  <2>1. Calls' /\ (Undisturbed' /\ Zeroing' => Undisturbed /\ Zeros)
    BY <1>0, <1>13 DEF WriteBegin, Calls, Masked, Undisturbed, Zeroing
  <2>2. ASSUME Zeros PROVE Zeros'
    <3>1. wpos \in BankIds /\ inflight[wpos] = {} /\ wval = 0
      BY <2>2, <1>13 DEF WriteBegin, Zeros, WorkerInside
    <3>2. inflight' = [inflight EXCEPT ![wpos] = {0}]
      BY <3>1, <1>13 DEF WriteBegin, BeginWrite
    <3>. QED
      BY <2>2, <3>1, <3>2, <1>0, <1>13 DEF WriteBegin, BeginWrite, Zeros, WorkerInside
  <2>. QED
    BY <2>1, <2>2, <1>13 DEF WriteBegin, Masked, Settled
<1>14. CASE WriteEnd
  BY <1>0, <1>14, <1>a DEF WriteEnd, EndWrite, WriteOutcomes, Calls, Masked, Undisturbed,
     Zeroing, Zeros, Settled, OneBad, WorkerInside
<1>15. CASE WriteReturn
  BY <1>0, <1>15 DEF WriteReturn, ReturnToCaller, InRun, Calls, Masked, Undisturbed, Zeroing,
     Zeros, Settled, OneBad, WorkerInside
<1>16. CASE ReadBank
  BY <1>0, <1>16 DEF ReadBank, Calls, Masked, Undisturbed, Zeroing,
     Zeros, Settled, OneBad, WorkerInside, ReadSound
<1>17. CASE VoteFails
  <2>1. ASSUME Undisturbed, Zeroing, ret = "answer" PROVE FALSE
    <3>1. OneBad /\ ReadSound /\ wpos = 3 /\ ~HasMajority(valid, snap)
      BY <2>1, <1>0, <1>17 DEF VoteFails, Masked, Settled
    <3>2. \A b \in BankIds : IF valid[b] THEN snap[b] = 0 ELSE bank[b] = Bad
      BY <3>1 DEF ReadSound
    <3>3. PICK i, j \in BankIds : i # j /\ valid[i] /\ valid[j] /\ snap[i] = snap[j]
      BY <3>1, <3>2, <1>0 DEF OneBad
    <3>4. HasMajority(valid, snap)
      BY <3>3, <1>0, PairIsMajority
    <3>. QED
      BY <3>1, <3>4
  <2>2. pc' = ret /\ wval' = 0 /\ ok' = FALSE /\ UNCHANGED <<bank, inflight, saved, asked, dual, wmid>>
    BY <1>0, <1>17 DEF VoteFails, ReconcileReturns, ReturnToCaller
  <2>3. pc = "read" /\ ret \in {"st1", "st2", "st3", "scrub", "answer"}
    BY <1>0, <1>17 DEF VoteFails, Calls
  <2>4. Calls'
    BY <2>2, <2>3, <1>0 DEF Calls
  <2>5. Undisturbed' /\ Zeroing' => Undisturbed /\ Zeroing /\ Zeros'
    BY <2>2, <2>3, <1>0 DEF Undisturbed, Zeroing, Masked, Zeros, WorkerInside
  <2>. QED
    BY <2>1, <2>2, <2>3, <2>4, <2>5 DEF Masked, Settled
<1>18. CASE VoteSucceeds
  <2>1. /\ pc = "read" /\ pc' = "repair" /\ wpos = 3 /\ wpos' = 0 /\ wval' \in {0, 1}
        /\ wval' = snap[FindMatchingPair(valid, snap)] /\ HasMajority(valid, snap)
        /\ UNCHANGED <<bank, inflight, saved, asked, dual, wmid, ret, valid, snap, ok>>
    BY <1>0, <1>18, MajorityTyped DEF VoteSucceeds
  <2>2. PICK i, j \in BankIds : /\ i # j /\ valid[i] /\ valid[j]
                                /\ snap[i] = wval' /\ snap[j] = wval'
    BY <2>1, <1>0, MajorityPair
  <2>3. Calls'
    BY <2>1, <1>0 DEF Calls
  <2>4. Undisturbed' /\ Zeroing' => Undisturbed /\ Zeros /\ ReadSound /\ (Settled => OneBad)
    BY <2>1, <1>0 DEF Undisturbed, Zeroing, Masked
  <2>5. ASSUME Zeros, ReadSound PROVE Zeros' /\ RepairSound'
    <3>1. wval' = 0
      BY <2>1, <2>2, <2>5 DEF ReadSound
    <3>2. Zeros'
      BY <2>1, <2>5, <3>1, <1>0 DEF Zeros, WorkerInside
    <3>3. \A b \in BankIds : IF valid[b] THEN snap[b] = 0 ELSE bank[b] = Bad
      BY <2>1, <2>5 DEF ReadSound
    <3>4. OneBad
      BY <2>1, <2>2, <2>5 DEF ReadSound, OneBad
    <3>. QED
      BY <2>1, <3>2, <3>3, <3>4 DEF RepairSound, OneBad
  <2>. QED
    BY <2>1, <2>3, <2>4, <2>5 DEF Masked, Settled, RepairSound
<1>19. CASE RepairSkip
  BY <1>0, <1>19 DEF RepairSkip, Divergent, Calls, Masked, Undisturbed, Zeroing,
     Zeros, Settled, OneBad, WorkerInside, RepairSound
<1>20. CASE RepairBegin
  BY <1>0, <1>20 DEF RepairBegin, Divergent, BeginWrite, Calls, Masked, Undisturbed, Zeroing,
     Zeros, Settled, OneBad, WorkerInside, RepairSound
<1>21. CASE RepairEnd
  BY <1>0, <1>21, <1>a DEF RepairEnd, EndWrite, WriteOutcomes, Calls, Masked, Undisturbed,
     Zeroing, Zeros, Settled, OneBad, WorkerInside, RepairSound
<1>22. CASE ReconcileReturn
  BY <1>0, <1>22 DEF ReconcileReturn, ReconcileReturns, ReturnToCaller, Calls, Masked,
     Undisturbed, Zeroing, Zeros, Settled, OneBad, WorkerInside, RepairSound
<1>23. CASE CheckShutdown
  BY <1>0, <1>23 DEF CheckShutdown, CallReconcile, Calls, Masked, Undisturbed, Zeroing,
     Zeros, Settled, OneBad, WorkerInside, ReadSound
<1>24. CASE WorkerRequestsShutdown
  BY <1>0, <1>24 DEF WorkerRequestsShutdown, CallWriteAll, Calls, Masked, Undisturbed, Zeroing
<1>25. CASE ActOnAnswer
  BY <1>0, <1>25 DEF ActOnAnswer, CallWriteAll, Calls, Masked, Undisturbed, Zeroing,
     Zeros, Settled, OneBad, WorkerInside
<1>. QED
  BY <1>0, <1>1, <1>2, <1>3, <1>4, <1>5, <1>6, <1>7, <1>8, <1>9, <1>10, <1>11, <1>12, <1>13,
     <1>14, <1>15, <1>16, <1>17, <1>18, <1>19, <1>20, <1>21, <1>22, <1>23, <1>24, <1>25
     DEF InitStep, LoopStep, RunStep

LEMMA HandlerMasks ==
  ASSUME MaskInv, NEW g \in Signals, SignalArrives(g) \/ Handler(g)
  PROVE  Calls' /\ Masked'
<1>1. "begun" \in asked' /\ UNCHANGED workerVars
  <2>1. CASE SignalArrives(g)
    BY <2>1 DEF SignalArrives
  <2>2. CASE Handler(g)
    <3>1. hpos[g] # Idle
      <4>1. hpos[g] \in BankIds \/ hpos[g] = AllWritten
        BY <2>2, Zenon DEF Handler, HandlerBeginBank, HandlerEndBank, HandlerReturns
      <4>. QED
        BY <4>1 DEF Idle, AllWritten, BankIds
    <3>2. asked \subseteq asked' /\ UNCHANGED workerVars
      <4>1. CASE HandlerReturns(g)
        BY <4>1 DEF HandlerReturns
      <4>2. CASE HandlerBeginBank(g) \/ HandlerEndBank(g)
        BY <4>2 DEF HandlerBeginBank, HandlerEndBank, historyVars
      <4>. QED
        BY <2>2, <4>1, <4>2 DEF Handler
    <3>. QED
      BY <3>1, <3>2 DEF MaskInv, Calls
  <2>. QED
    BY <2>1, <2>2
<1>. QED
  BY <1>1 DEF MaskInv, Calls, Masked, Undisturbed, workerVars

LEMMA FaultMasks ==
  ASSUME MaskInv, NEW f \in BankIds, MemoryFault(f)
  PROVE  Calls' /\ Masked'
BY DEF MaskInv, MemoryFault, handlerVars, workerVars, reconcileVars, testVars, Calls, Masked,
   Undisturbed, Zeroing, Zeros, Settled, OneBad, WorkerInside, ReadSound, RepairSound,
   TypeInv, TypeOK, BankIds, BankValues, Bad

\* For any number of handlers, on whichever thread they run, and any memory
\* faults: as long as no two banks are bad at once, the running server is told
\* "stop" by llps_control_shutdown_is_requested only if somebody asked.
THEOREM SingleFaultNeverStopsServer == Spec => []SingleFaultMasked
<1>1. Init => MaskInv
  <2>. SUFFICES ASSUME Init PROVE MaskInv
    OBVIOUS
  <2>1. TypeInv
    BY InitTyped
  <2>2. Calls
    BY DEF Init, Calls
  <2>3. Masked
    BY DEF Init, Masked, Zeros, Settled, WorkerInside, Bad, BankIds
  <2>. QED
    BY <2>1, <2>2, <2>3 DEF MaskInv
<1>2. MaskInv /\ [Next]_vars => MaskInv'
  <2>. SUFFICES ASSUME MaskInv, [Next]_vars PROVE MaskInv'
    OBVIOUS
  <2>1. TypeInv'
    BY NextTyped DEF MaskInv
  <2>2. CASE Next
    BY <2>1, <2>2, WorkerMasks, HandlerMasks, FaultMasks DEF Next, MaskInv
  <2>3. CASE UNCHANGED vars
    <3>1. Calls' /\ Masked'
      BY <2>3 DEF vars, bankVars, handlerVars, workerVars, reconcileVars, testVars,
         historyVars, MaskInv, Calls, Masked, Undisturbed, Zeroing, Zeros, Settled, OneBad,
         WorkerInside, ReadSound, RepairSound
    <3>. QED
      BY <2>1, <3>1 DEF MaskInv
  <2>. QED
    BY <2>2, <2>3
<1>3. MaskInv => SingleFaultMasked
  BY DEF MaskInv, Masked, Undisturbed, Zeroing, SingleFaultMasked
<1>. QED
  BY <1>1, <1>2, <1>3, PTL DEF Spec
=============================================================================
