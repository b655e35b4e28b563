------------------------------ MODULE Startup ------------------------------
(***************************************************************************)
(* Start-up, the readiness gates and the evidence they judge, composed     *)
(* with the readiness monitor of the running server.                       *)
(*                                                                         *)
(* main (main.c) first prints a readiness report in a process of its own;  *)
(* the operator copies the digest it prints into the configuration; a      *)
(* second process starts the server.  Each process initialises (llps_init_ *)
(* internal), prepares its memory, and collects evidence about the machine *)
(* (llps_platform_evidence_builder.c): EDAC counters, identity, its own    *)
(* memory latches, the placement of its redundant memory, NUMA domains and *)
(* the MAC key.  Every item is read at a time of its own while the machine *)
(* goes on changing, and a gate reads all of them again to validate what   *)
(* was collected (llps_platform_evidence_runtime.c).                       *)
(*                                                                         *)
(* An item is a small number: 0 and 1 are acceptable, 2 (and 3 for EDAC:   *)
(* absent) are not.  Items only grow while a process runs: error counters  *)
(* count up, a replaced file or a moved page does not come back.  The      *)
(* digest is injective.  The signal lost during initialisation is in       *)
(* ControlFlag; here signals arrive while the server runs.                 *)
(***************************************************************************)
EXTENDS ReadinessMonitor, Sequences

CONSTANTS
  Cfgs,        \* the configurations tried, valid and invalid ones
  Drifts,      \* the changes of the machine tried: items and their new values
  ChangeMax    \* bounds their number

Modes == {"real", "synthetic", "hybrid"}
CfgRecords ==
  [mode : Modes, swEcc : BOOLEAN, swNuma : BOOLEAN, payload : BOOLEAN,
   require : BOOLEAN, ecc : BOOLEAN, sep : BOOLEAN, mac : BOOLEAN]

Items == {"edac", "ident", "latch", "place", "dom", "key"}
Values(a) ==
  IF a = "edac" THEN 0..3 ELSE IF a = "latch" THEN {0, 2} ELSE 0..2

ASSUME StartupAssumption ==
  /\ Cfgs \subseteq CfgRecords
  /\ \A d \in Drifts : DOMAIN d \subseteq Items
  /\ \A d \in Drifts : \A a \in DOMAIN d : d[a] \in Values(a)
  /\ ChangeMax \in Nat

VARIABLES
  cfg,       \* the configuration file but for the pinned digest
  pin,       \* platform_observation_digest: {} or the set of one digest
  mode,      \* "report" or "serve"
  pc,        \* where main is
  gate,      \* who collects: "report", "init" (llps_init) or "main"
  pos,       \* next read of the collection under way; 0: it failed
  ev,        \* the evidence collected so far
  sw,        \* software_tmr_ready, of the report being built
  valid,     \* platform_evidence_valid, of the report being built
  cnt,       \* the failure counters of this process that are not 0
  world,     \* the machine, and this process's memory
  changes,   \* how often it changed
  llam,      \* the LLAM runtime is up
  audit,     \* the audit file is open
  fd,        \* owner of the listen socket: "none", "main" or "server"
  seen,      \* (history) the views since the collection began
  moved      \* (history) the view changed since the report's collection began

bootVars ==
  <<cfg, pin, mode, pc, gate, pos, ev, sw, valid, cnt, world, changes,
    llam, audit, fd, seen, moved>>
all == <<vars, bootVars>>

BothEcc == {"memory", "clean"}

-----------------------------------------------------------------------------
(* The rules between configuration values (llps_config_validate.c) *)

\* llps_runtime_cfg_software_numa_is_valid: synthetic NUMA needs bit 2
SoftwareNumaIsValid(c) == c.swNuma => c.sep

\* llps_runtime_cfg_platform_policy_is_valid
PlatformPolicyIsValid(c) ==
  /\ c.mode = "real" => ~c.swEcc /\ ~c.swNuma
  /\ c.require /\ c.swEcc => c.payload
  /\ c.mode = "synthetic" => (c.ecc => c.swEcc) /\ (c.sep => c.swNuma)
  /\ c.require => c.ecc /\ c.sep

\* llps_runtime_cfg_values_are_valid
ValuesAreValid(c) == SoftwareNumaIsValid(c) /\ PlatformPolicyIsValid(c)

-----------------------------------------------------------------------------
(* What a read of the machine finds *)

\* llps_config_uses_software_memory_domains
UsesSoftwareMemory == cfg.swNuma /\ cfg.mode # "real"

\* llps_edac_probe_ecc: controllers, counters and modes below the sysfs root,
\* into one observation
EdacProbed == world.edac

\* llps_edac_synthesize_ecc: a valid configuration describes clean memory.
\* llps_software_evidence_observation_is_ready holds for every valid
\* configuration: the self tests compute with constants.
EdacSynthesized == 0

EdacRead ==
  IF cfg.swEcc THEN EdacSynthesized
  ELSE IF cfg.mode = "synthetic" THEN 3 ELSE EdacProbed

\* llps_edac_observed_flags
ObservedFlags(v) ==
  IF v \in {0, 1} THEN BothEcc ELSE IF v = 2 THEN {"memory"} ELSE {}

\* Boot, platform and executable fingerprints; in synthetic mode a platform
\* without one gets a substitute (3).
IdentRead ==
  IF cfg.mode = "synthetic" /\ world.ident = 2 THEN 3 ELSE world.ident

\* llps_observe_tmr_memory_residency, llps_observe_tmr_physical_frames: the page
\* frame numbers are part of the observation.
PlaceProbed == world.place

\* Mutant of PlaceRead: the frames of the process are always read.
PlaceReadAlways == PlaceProbed

\* The software memory observation, if configured, replaces both.
PlaceRead == IF UsesSoftwareMemory THEN 0 ELSE PlaceProbed

\* llps_numa_probe_physical_memory_domains, llps_probe_tmr_memory_domains: the
\* nodes, and the ones the pages lie on
DomProbed == world.dom

\* llps_synthesize_tmr_memory_domains
DomSynthesized == 0

\* Asked for by bit 2 of the platform evidence flags only
DomRead ==
  IF ~cfg.sep THEN 0 ELSE IF UsesSoftwareMemory THEN DomSynthesized ELSE DomProbed

\* llps_hmac_key_fingerprint_file
KeyRead == IF cfg.mac THEN world.key ELSE 0

View ==
  [edac |-> EdacRead, ident |-> IdentRead, latch |-> world.latch,
   place |-> PlaceRead, dom |-> DomRead, key |-> KeyRead,
   flags |-> ObservedFlags(EdacRead)]

Nothing ==
  [edac |-> 3, ident |-> 2, latch |-> 2, place |-> 2, dom |-> 2, key |-> 2,
   flags |-> {}]

Bad(e, a) == IF a = "edac" THEN e.edac >= 2 ELSE e[a] = 2

\* Everything a gate asks of the evidence is there.
Healthy(e) == \A a \in Items : ~Bad(e, a)

-----------------------------------------------------------------------------
(* Collecting: llps_collect_platform_safety_evidence_in_context, then the   *)
(* report and its validation.  A sequence of reads, one per step.           *)

Read(op, a) == [op |-> op, of |-> a]

\* llps_make_platform_safety_evidence_raw_in_context, after the probe for the
\* observed flags; llps_platform_evidence_apply_mac reads the key again
BuildReads ==
  <<Read("take", "flags"), Read("take", "key"), Read("take", "edac"),
    Read("take", "ident"), Read("take", "latch"), Read("take", "place"),
    Read("take", "dom"), Read("mac", "key")>>

\* Mutant of CheckReads: the identity is not read again.
CheckReadsNoIdentity ==
  <<Read("count", "dom"), Read("count", "place"), Read("ready", "latch"),
    Read("same", "key"), Read("same", "place"),
    Read("same", "latch"), Read("same", "edac"), Read("same", "dom"),
    Read("same", "key")>>

\* llps_build_memory_safety_report, the MAC of the report's basics, and
\* llps_platform_safety_evidence_is_valid_in_context
CheckReads ==
  <<Read("count", "dom"), Read("count", "place"), Read("ready", "latch"),
    Read("same", "key"), Read("same", "place"), Read("same", "ident"),
    Read("same", "latch"), Read("same", "edac"), Read("same", "dom"),
    Read("same", "key")>>

\* The last of the builder's tests: the flags of the first probe against the
\* second one, and the domains that are attested
BuilderRefuses ==
  \/ ev.flags # {} /\ ev.flags # ObservedFlags(ev.edac)
  \/ Bad(View, "dom")

\* The collection ends with an error status.
CollectionBreaks(r) ==
  \/ r.op = "take" /\ r.of = "key" /\ Bad(View, "key")
  \/ r.op = "take" /\ r.of = "dom" /\ BuilderRefuses
  \/ r.op = "mac" /\ ev.key # View.key

Collects(r) ==
  /\ pos' = IF CollectionBreaks(r) THEN 0 ELSE pos + 1
  /\ ev' = IF r.op = "take" THEN [ev EXCEPT ![r.of] = View[r.of]] ELSE ev

\* llps_platform_evidence_matches_edac asks nothing when no ECC was observed.
SameEdac ==
  ev.flags = {} \/ (ev.edac = View.edac /\ ev.flags = View.flags)

\* llps_platform_evidence_matches_platform_identity, and so on
SameIdent == ev.ident = View.ident
SameLatch == ev.latch = View.latch
SamePlace == ev.place = View.place
SameDom == ev.dom = View.dom
SameKey == ev.key = View.key

Same(a) ==
  CASE a = "edac" -> SameEdac [] a = "ident" -> SameIdent
    [] a = "latch" -> SameLatch [] a = "place" -> SamePlace
    [] a = "dom" -> SameDom [] a = "key" -> SameKey

\* llps_build_memory_safety_report probes, and counts what it finds.
Counts(r) ==
  cnt' = IF r.op = "count" /\ Bad(View, r.of) THEN cnt \cup {r.of} ELSE cnt

Checks(r) ==
  /\ pos' = pos + 1
  /\ Counts(r)
  /\ sw' = (sw /\ (r.op = "ready" => ~Bad(View, r.of)))
  /\ valid' = (valid /\ (r.op = "same" => Same(r.of)))

\* llps_context_requires_payload_ecc
PayloadEccReady == cfg.mode # "real" /\ cfg.swEcc => cfg.payload

\* Mutant of SoftwareReady: failures counted earlier are not looked at.
SoftwareReadyUncounted == sw

\* llps_memory_safety_report_is_software_ready
SoftwareReady == sw /\ cnt = {}

\* llps_readiness_report_fill_edac
EccReady == ev.flags = BothEcc

\* llps_readiness_report_add_identity_missing
IdentityReady == ~Bad(ev, "ident")

\* missing_requirements = 0 (llps_build_readiness_report_in_context): the
\* memory report, the runtime monitor enabled, and the evidence if valid
GatePassed ==
  /\ SoftwareReady /\ cfg.require
  /\ valid /\ EccReady /\ cfg.sep /\ IdentityReady
  /\ PayloadEccReady

\* llps_platform_safety_evidence_request_is_bound_in_context
RequestBound == cfg.ecc => ev.flags = BothEcc

-----------------------------------------------------------------------------
(* Start-up: main, llps_run_proxy_server and llps_init_internal *)

StartsCollecting(g) ==
  /\ pc' = "build" /\ gate' = g
  /\ pos' = 1 /\ ev' = Nothing /\ seen' = {View}

Forget == pos' = 0 /\ ev' = Nothing /\ seen' = {}

\* Command line and configuration file; then the LLAM runtime.
Boot ==
  /\ pc = "boot"
  /\ \/ pc' = "init" /\ llam' = TRUE
     \/ pc' = "exited" /\ UNCHANGED llam
  /\ UNCHANGED <<cfg, pin, mode, gate, pos, ev, sw, valid, cnt, world, changes,
                 audit, fd, seen, moved>>

\* llps_normalize_init_config, llps_init_reset_runtime_state,
\* llps_init_resolve_backend, llps_init_publish_runtime_config
InitConfig ==
  /\ pc = "init"
  /\ pc' \in IF ValuesAreValid(cfg) THEN {"memory", "failed"} ELSE {"failed"}
  /\ UNCHANGED <<cfg, pin, mode, gate, pos, ev, sw, valid, cnt, world, changes,
                 llam, audit, fd, seen, moved>>

\* llps_lock_process_memory, llps_lock_tmr_memory, llps_prefault_tmr_memory,
\* llps_harden_tmr_memory
LockMemory(locked) == world' = [world EXCEPT !.latch = IF locked THEN 0 ELSE 2]

\* llps_bind_tmr_memory_to_configured_domains may fail only where it is asked
\* for.
BindDomains(bound) == ~bound => cfg.sep /\ ~UsesSoftwareMemory

\* llps_init_reset_memory_latches, llps_init_prepare_tmr_memory: failures are
\* only latched and counted.
InitMemory ==
  /\ pc = "memory"
  /\ \E locked \in BOOLEAN, bound \in BOOLEAN :
       /\ LockMemory(locked)
       /\ BindDomains(bound)
       /\ cnt' = (IF locked THEN {} ELSE {"latch"})
                   \cup (IF bound /\ ~Bad(View, "dom") THEN {} ELSE {"dom"})
  /\ pc' = "checks"
  /\ UNCHANGED <<cfg, pin, mode, gate, pos, ev, sw, valid, changes,
                 llam, audit, fd, seen, moved>>

\* Banks, layout, pool, self tests and a scrub; then llps_init ends for a
\* diagnostic start, or asks the gate.
InitChecks ==
  /\ pc = "checks"
  /\ \/ pc' = "failed" /\ UNCHANGED <<gate, pos, ev, seen>>
     \/ mode = "report" /\ StartsCollecting("report")
     \/ mode = "serve" /\ cfg.require /\ StartsCollecting("init")
     \/ mode = "serve" /\ ~cfg.require /\ pc' = "audit"
        /\ UNCHANGED <<gate, pos, ev, seen>>
  /\ moved' = (moved /\ mode = "serve")
  /\ UNCHANGED <<cfg, pin, mode, sw, valid, cnt, world, changes, llam, audit, fd>>

GateBuild ==
  /\ pc = "build" /\ pos \in 1..Len(BuildReads)
  /\ Collects(BuildReads[pos])
  /\ UNCHANGED <<cfg, pin, mode, pc, gate, sw, valid, cnt, world, changes, llam,
                 audit, fd, seen, moved>>

\* The evidence is complete: llps_get_readiness_report begins.
GateBuilt ==
  /\ pc = "build" /\ pos > Len(BuildReads)
  /\ pc' = "check" /\ pos' = 1 /\ sw' = TRUE /\ valid' = TRUE
  /\ UNCHANGED <<cfg, pin, mode, gate, ev, cnt, world, changes, llam, audit, fd,
                 seen, moved>>

\* The collection failed: the start is refused; a report is printed without
\* evidence.
GateBroken ==
  /\ pc = "build" /\ pos = 0
  /\ pc' = IF gate = "report" THEN "printed" ELSE "refused"
  /\ pin' = IF gate = "report" THEN {} ELSE pin
  /\ UNCHANGED <<cfg, mode, gate, pos, ev, sw, valid, cnt, world, changes, llam,
                 audit, fd, seen, moved>>

GateCheck ==
  /\ pc = "check" /\ pos <= Len(CheckReads)
  /\ Checks(CheckReads[pos])
  /\ UNCHANGED <<cfg, pin, mode, pc, gate, ev, world, changes, llam, audit, fd,
                 seen, moved>>

\* llps_print_readiness_report; the operator pins the digest of valid evidence.
ReportPrinted ==
  /\ pc = "check" /\ pos > Len(CheckReads) /\ gate = "report"
  /\ pc' = "printed"
  /\ pin' = IF valid THEN {ev} ELSE {}
  /\ UNCHANGED <<cfg, mode, gate, pos, ev, sw, valid, cnt, world, changes, llam,
                 audit, fd, seen, moved>>

\* llps_require_configured_readiness_report in llps_init, and once more
\* llps_enforce_configured_readiness_gate in main
GateDecides ==
  /\ pc = "check" /\ pos > Len(CheckReads) /\ gate # "report"
  /\ pc' = IF GatePassed /\ pin = {ev} /\ (gate = "init" => RequestBound)
             THEN "accepted" ELSE "refused"
  /\ UNCHANGED <<cfg, pin, mode, gate, pos, ev, sw, valid, cnt, world, changes,
                 llam, audit, fd, seen, moved>>

GateLeft ==
  /\ pc = "accepted"
  /\ pc' = IF gate = "init" THEN "audit" ELSE "listen"
  /\ Forget
  /\ UNCHANGED <<cfg, pin, mode, gate, sw, valid, cnt, world, changes, llam,
                 audit, fd, moved>>

\* llps_ip_audit_init, the end of llps_init; main goes on with its own gate.
InitAudit ==
  /\ pc = "audit"
  /\ \/ pc' = "failed" /\ UNCHANGED <<audit, gate, pos, ev, seen>>
     \/ /\ audit' = TRUE
        /\ IF cfg.require THEN StartsCollecting("main")
                          ELSE pc' = "listen" /\ UNCHANGED <<gate, pos, ev, seen>>
  /\ UNCHANGED <<cfg, pin, mode, sw, valid, cnt, world, changes, llam, fd, moved>>

\* llps_open_proxy_listen_socket
Listen ==
  /\ pc = "listen"
  /\ \/ pc' = "failed" /\ UNCHANGED fd
     \/ pc' = "spawn" /\ fd' = "main"
  /\ UNCHANGED <<cfg, pin, mode, gate, pos, ev, sw, valid, cnt, world, changes,
                 llam, audit, seen, moved>>

\* Mutant of Spawn: the socket stays open when the task cannot be spawned.
SpawnLeaksFd ==
  /\ pc = "spawn"
  /\ pc' \in {"run", "failed"}
  /\ UNCHANGED <<cfg, pin, mode, gate, pos, ev, sw, valid, cnt, world, changes,
                 llam, audit, fd, seen, moved>>

\* llps_spawn_proxy_server_task
Spawn ==
  /\ pc = "spawn"
  /\ \/ pc' = "run" /\ UNCHANGED fd
     \/ pc' = "failed" /\ fd' = "none"
  /\ UNCHANGED <<cfg, pin, mode, gate, pos, ev, sw, valid, cnt, world, changes,
                 llam, audit, seen, moved>>

\* Every failed start, and a report once it is printed.
GiveUp ==
  /\ pc \in {"failed", "refused", "printed"}
  /\ pc' = "exited" /\ audit' = FALSE /\ llam' = FALSE
  /\ Forget
  /\ UNCHANGED <<cfg, pin, mode, gate, sw, valid, cnt, world, changes, fd, moved>>

\* llam_run returns: the server task ended, never ran, or does not monitor.
RunReturns ==
  /\ pc = "run" /\ (srv # "serve" \/ ~cfg.require)
  /\ pc' = "exited"
  /\ fd' = "none" /\ audit' = FALSE /\ llam' = FALSE
  /\ Forget
  /\ UNCHANGED <<cfg, pin, mode, gate, sw, valid, cnt, world, changes, moved>>

\* The operator starts the server after the report: a new process, whose
\* memory may lie in other page frames.
NextProcess ==
  /\ pc = "exited" /\ mode = "report"
  /\ mode' = "serve" /\ pc' = "boot"
  /\ \E p \in 0..1 : world' = [world EXCEPT !.place = p]
  /\ cnt' = {}
  /\ UNCHANGED <<cfg, pin, gate, pos, ev, sw, valid, changes, llam, audit, fd,
                 seen, moved>>

Main ==
  /\ \/ Boot \/ InitConfig \/ InitMemory \/ InitChecks
     \/ GateBuild \/ GateBuilt \/ GateBroken \/ GateCheck \/ ReportPrinted
     \/ GateDecides \/ GateLeft \/ InitAudit \/ Listen \/ Spawn
     \/ GiveUp \/ RunReturns \/ NextProcess
  /\ UNCHANGED vars

-----------------------------------------------------------------------------
\* An error is counted, a page moves, a node or a file changes, a latch of
\* this process is hit; of no interest once the process ends.
WorldChanges ==
  /\ changes < ChangeMax
  /\ mode = "serve" => pc \notin {"failed", "refused", "exited"} /\ ~stop
  /\ changes' = changes + 1
  /\ \E d \in Drifts :
       /\ \A a \in DOMAIN d : d[a] > world[a]
       /\ world' = [a \in Items |-> IF a \in DOMAIN d THEN d[a] ELSE world[a]]
  /\ UNCHANGED <<cfg, pin, mode, pc, gate, pos, ev, sw, valid, cnt, llam, audit,
                 fd, vars>>
  /\ seen' = IF seen = {} THEN {} ELSE seen \cup {View'}
  /\ moved' = (moved \/ View' # View)

-----------------------------------------------------------------------------
(* The running server: ReadinessMonitor with the evidence it collects *)

Monitoring == pc = "run" /\ cfg.require

\* llps_readiness_runtime_fast_latches_ok and ..._counters_ok
FastLatches == world.latch = 0
FastCounters == cnt = {}

\* llps_readiness_runtime_fast_software_ready; reconciling may fail besides
FastSoftwareReady ==
  /\ ~stop /\ FastCounters /\ FastLatches
  /\ cfg.swEcc => cfg.payload

\* llps_readiness_runtime_snapshot_failure_mask
SnapshotComplete ==
  /\ \A a \in {"latch", "place", "dom", "ident"} : ~Bad(ev, a)
  /\ ev.flags = BothEcc

\* Mutant of SnapshotGood: the digest is not compared.
SnapshotGoodUnpinned == SnapshotComplete

\* llps_check_configured_readiness_platform_snapshot: no second reading
SnapshotGood == pin = {ev} /\ SnapshotComplete

\* The server task takes the socket over and its clean-up closes it.
RunServer(Step) ==
  /\ Monitoring /\ Step
  /\ fd' = IF srv' = "done" THEN "none" ELSE "server"
  /\ UNCHANGED <<cfg, pin, mode, pc, gate, pos, ev, sw, valid, cnt, world,
                 changes, llam, audit, seen, moved>>
RunServerStarts == RunServer(ServerStart \/ ServerStartFails)
RunServerStops == RunServer(ServerStops)

RunTakes ==
  /\ Monitoring /\ CollectorTakes
  /\ pos' = 1 /\ ev' = Nothing /\ seen' = {View}
  /\ UNCHANGED <<cfg, pin, mode, pc, gate, sw, valid, cnt, world, changes, llam,
                 audit, fd, moved>>

RunCollects ==
  /\ Monitoring /\ col = "collect" /\ pos \in 1..Len(BuildReads)
  /\ Collects(BuildReads[pos])
  /\ UNCHANGED <<cfg, pin, mode, pc, gate, sw, valid, cnt, world, changes, llam,
                 audit, fd, seen, moved, vars>>

\* The blocking call may fail as a whole.
RunPublishes ==
  /\ Monitoring /\ CollectorPublishes
  /\ resOk' => pos > Len(BuildReads) /\ SnapshotGood
  /\ UNCHANGED bootVars

RunPolls ==
  /\ Monitoring /\ TickPolls /\ FastSoftwareReady
  /\ IF ResultReady THEN Forget ELSE UNCHANGED <<pos, ev, seen>>
  /\ UNCHANGED <<cfg, pin, mode, pc, gate, sw, valid, cnt, world, changes, llam,
                 audit, fd, moved>>

Runs(Step) == Monitoring /\ Step /\ UNCHANGED bootVars
RunRejects == Runs(CollectorBadMessage)
RunEnds == Runs(CollectorEnds)
RunWatch ==
  Runs(\/ WatchdogTop \/ TickNoConfig \/ TickGateFails
       \/ PassRecorded \/ FailureRecorded \/ WatchdogWakes)
RunSignal == Runs(Signal)
RunTick == Runs(Tick)

Run ==
  \/ RunServerStarts \/ RunServerStops
  \/ RunTakes \/ RunRejects \/ RunCollects \/ RunPublishes \/ RunEnds
  \/ RunPolls \/ RunWatch \/ RunSignal \/ RunTick

StartupInit ==
  /\ Init
  /\ cfg \in Cfgs
  /\ pin = {} /\ mode \in {"report", "serve"}
  /\ pc = "boot" /\ gate = "init"
  /\ pos = 0 /\ ev = Nothing /\ sw = FALSE /\ valid = FALSE /\ cnt = {}
  /\ world = [a \in Items |-> IF a = "latch" THEN 2 ELSE 0] /\ changes = 0
  /\ llam = FALSE /\ audit = FALSE /\ fd = "none"
  /\ seen = {} /\ moved = FALSE

StartupNext == Main \/ WorldChanges \/ Run

StartupSpec == StartupInit /\ [][StartupNext]_all

\* As in ReadinessMonitor; no collection is assumed to end.
StartupFairness ==
  /\ WF_all(RunServerStarts)
  /\ WF_all(stop /\ RunServerStops)
  /\ WF_all(RunPolls \/ RunWatch)
  /\ WF_all(RunTakes \/ RunRejects)
  /\ WF_all(chan = "closed" /\ (RunTakes \/ RunEnds))
  /\ WF_all(RunTick)

StartupFairSpec == StartupSpec /\ StartupFairness

-----------------------------------------------------------------------------
Pcs == {"boot", "init", "memory", "checks", "build", "check", "printed",
        "accepted", "refused", "audit", "listen", "spawn", "run", "failed",
        "exited"}
Evidence ==
  [edac : 0..3, ident : 0..3, latch : {0, 2}, place : 0..2, dom : 0..2,
   key : 0..2, flags : SUBSET BothEcc]

\* Counters exist for memory faults only, and a position is one of a read.
StartupTypeOK ==
  /\ cfg \in Cfgs /\ mode \in {"report", "serve"} /\ pc \in Pcs
  /\ gate \in {"report", "init", "main"}
  /\ pos \in 0..(Len(CheckReads) + 1)
  /\ ev \in Evidence /\ pin \subseteq Evidence
  /\ sw \in BOOLEAN /\ valid \in BOOLEAN
  /\ cnt \subseteq {"latch", "dom", "place"}
  /\ changes \in 0..ChangeMax
  /\ \A a \in Items : world[a] \in Values(a)
  /\ llam \in BOOLEAN /\ audit \in BOOLEAN /\ moved \in BOOLEAN
  /\ fd \in {"none", "main", "server"}

\* Evidence that is used describes a state the machine was in at one moment,
\* although its items are read one after the other: what the report prints, as
\* all items are read again, and what the monitor counts as good, as it is the
\* pinned one.
EvidenceIsSnapshot ==
  /\ pc = "printed" => pin \subseteq seen
  /\ pc = "run" /\ ResultReady /\ resOk => pin = {ev} /\ ev \in seen

\* A gate lets the start go on only with evidence that is the pinned one, that
\* describes one moment, and in which nothing is missing.
AcceptedIsHealthy ==
  pc = "accepted" => pin = {ev} /\ ev \in seen /\ Healthy(ev) /\ cnt = {}

\* A gate refuses a valid configuration only for the machine: something moved
\* under the collection, is missing, was counted, or is not what was pinned.
\* With the software memory observation the digest the report process printed
\* is the one the server process finds, unless the machine changed in between.
RefusedForAReason ==
  pc = "refused" =>
    /\ ~(seen = {View} /\ pin = {View} /\ Healthy(View) /\ cnt = {})
    /\ pin # {} /\ UsesSoftwareMemory =>
         moved \/ cnt # {} \/ \E e \in pin : ~Healthy(e)

\* Wherever a start fails or a server ends, the process released what it
\* acquired, and all variables keep their types.
StartupInv ==
  /\ TypeOK /\ StartupTypeOK
  /\ pc = "exited" => ~llam /\ ~audit /\ fd = "none"

\* A server whose machine is no longer the pinned one, or that has bad evidence
\* not yet polled, stops, also when the collection that would show it hangs.
DriftStops ==
  (wd # "none" /\ (pin # {View} \/ (ResultReady /\ ~resOk))) ~> stop

\* A server that goes on gets fresh good evidence again and again, also when a
\* collection never returns (llps.h: "Nonzero makes readiness fail-closed").
FreshEvidenceOrStop == (wd # "none") ~> (wd = "pass" \/ stop)

\* The collector does not outlive the server by more than one collection, which
\* may hang until the process ends.
CollectorEndsWithServer ==
  (srv = "done") ~>
    (col \in {"none", "ended"} \/ pc = "exited" \/ [](col = "collect"))
=============================================================================
