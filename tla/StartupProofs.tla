--------------------------- MODULE StartupProofs ---------------------------
(***************************************************************************)
(* Start-up for every set of configurations, every way the machine drifts  *)
(* and every interleaving with the readiness monitor: what is released,    *)
(* what a gate lets pass, why it refuses, and that evidence read item by   *)
(* item describes one moment.                                              *)
(*                                                                         *)
(* The argument: items only grow (Leq).  A gate reads every item twice, so *)
(* an item that reads the same was that at every moment between the last   *)
(* read of the first pass and the first read of the second; when nothing   *)
(* differs the evidence is the view of that moment (Checking).  The        *)
(* monitor reads once, but after the pinned moment: evidence equal to the  *)
(* pinned one is the view of the moment its collection began (Monitored).  *)
(***************************************************************************)
EXTENDS Startup, TLAPS

-----------------------------------------------------------------------------
(* The readiness worker, for every timeout and every number of generations: the
   good evidence a poll counts is the answer to the latest request. *)

\* The flags tell where a request is: in the channel, with the collector, or
\* answered.  Until it is answered there is no good evidence to count.
RequestPlace ==
  /\ busy <=> col = "collect"
  /\ msg => pending
  /\ busy => ~pending /\ colGen = reqGen
  /\ PendingOrBusy => ~(ResultReady /\ resOk)
  /\ ResultReady /\ resOk => resGen = reqGen
  /\ srv = "start" => col = "none"

IInv == TypeOK /\ RequestPlace

LEMMA InitIInv == Init => IInv
<1>. SUFFICES ASSUME Init PROVE IInv
  OBVIOUS
<1>1. TypeOK
  <2>1. /\ msg \in BOOLEAN /\ started \in BOOLEAN /\ pending \in BOOLEAN
        /\ busy \in BOOLEAN /\ resValid \in BOOLEAN /\ resOk \in BOOLEAN
        /\ stop \in BOOLEAN
    BY DEF Init
  <2>2. /\ reqGen \in Gens /\ resGen \in Gens /\ conGen \in Gens
        /\ colGen \in Gens /\ age \in 0..(Timeout + 1)
    BY ReadinessAssumption DEF Init, Gens
  <2>3. /\ chan \in {"none", "open", "closed"}
        /\ col \in ColPcs /\ wd \in WdPcs /\ srv \in SrvPcs
    BY DEF Init, ColPcs, WdPcs, SrvPcs
  <2>. QED
    BY <2>1, <2>2, <2>3 DEF TypeOK
<1>2. RequestPlace
  BY DEF Init, RequestPlace, PendingOrBusy, ResultReady
<1>. QED
  BY <1>1, <1>2 DEF IInv

\* A poll only asks again when nothing is under way, and then it has just
\* consumed whatever result there was.
LEMMA PollKeepsPlace ==
  ASSUME IInv, TickPolls
  PROVE  RequestPlace'
<1>1. UNCHANGED <<resGen, resValid, resOk, col, colGen, busy, srv>>
  BY DEF TickPolls, resultVars, collectorVars
<1>2. conGen' = resGen \/ (conGen' = conGen /\ ~ResultReady)
  BY DEF TickPolls, PollFails, PollContent, TakeResult
<1>3. ~ResultReady'
  BY <1>1, <1>2 DEF ResultReady
<1>4. CASE UNCHANGED requestVars
  BY <1>1, <1>3, <1>4 DEF IInv, RequestPlace, requestVars, PendingOrBusy
<1>5. CASE ~PendingOrBusy /\ Submit
  <2>1. ~busy /\ (msg' => pending')
    BY <1>5 DEF PendingOrBusy, Submit, IInv, RequestPlace
  <2>. QED
    BY <1>1, <1>3, <2>1 DEF IInv, RequestPlace, PendingOrBusy
<1>. QED
  BY <1>4, <1>5 DEF TickPolls, PollFails, PollContent

LEMMA NextIInv ==
  ASSUME IInv, [Next]_vars
  PROVE  IInv'
<1>. USE ReadinessAssumption
<1>1. TypeOK'
  <2>. USE DEF TypeOK, Gens, ColPcs, WdPcs, SrvPcs
  <2>. TypeOK
    BY DEF IInv
  <2>1. CASE ServerStart
    BY <2>1 DEF ServerStart, requestVars, resultVars
  <2>2. CASE ServerStartFails
    BY <2>2 DEF ServerStartFails, requestVars, resultVars
  <2>3. CASE ServerStops
    BY <2>3 DEF ServerStops, WorkerStop, requestVars, resultVars, collectorVars
  <2>4. CASE CollectorTakes
    <3>1. msg' \in BOOLEAN /\ pending' \in BOOLEAN /\ busy' \in BOOLEAN
      BY <2>4 DEF CollectorTakes
    <3>2. colGen' \in Gens /\ col' \in ColPcs
      BY <2>4 DEF CollectorTakes
    <3>. QED
      BY <2>4, <3>1, <3>2 DEF CollectorTakes, resultVars
  <2>5. CASE CollectorBadMessage
    <3>1. msg' \in BOOLEAN /\ resValid' \in BOOLEAN /\ resOk' \in BOOLEAN
      BY <2>5 DEF CollectorBadMessage
    <3>2. resGen' \in Gens
      BY <2>5 DEF CollectorBadMessage
    <3>. QED
      BY <2>5, <3>1, <3>2 DEF CollectorBadMessage, collectorVars
  <2>6. CASE CollectorEnds
    <3>1. started' \in BOOLEAN
      BY <2>6 DEF CollectorEnds
    <3>. QED
      BY <2>6, <3>1 DEF CollectorEnds, requestVars, resultVars
  <2>7. CASE CollectorPublishes
    <3>1. busy' \in BOOLEAN /\ resValid' \in BOOLEAN /\ resOk' \in BOOLEAN
      BY <2>7 DEF CollectorPublishes
    <3>2. resGen' \in Gens /\ col' \in ColPcs
      BY <2>7 DEF CollectorPublishes
    <3>. QED
      BY <2>7, <3>1, <3>2 DEF CollectorPublishes, requestVars
  <2>8. CASE WatchdogTop
    BY <2>8 DEF WatchdogTop, requestVars, resultVars, collectorVars
  <2>9. CASE TickNoConfig
    BY <2>9 DEF TickNoConfig, requestVars, resultVars, collectorVars
  <2>10. CASE TickGateFails
    BY <2>10 DEF TickGateFails, requestVars, resultVars, collectorVars
  <2>11. CASE TickPolls
    <3>1. UNCHANGED <<resultVars, collectorVars, chan, srv, stop>>
      BY <2>11 DEF TickPolls
    <3>2. conGen' \in Gens
      BY <2>11 DEF TickPolls, PollFails, PollContent, TakeResult
    <3>3. wd' \in WdPcs
      BY <2>11 DEF TickPolls, PollFails, PollContent
    <3>4. CASE UNCHANGED requestVars
      BY <3>1, <3>2, <3>3, <3>4 DEF requestVars, resultVars, collectorVars
    <3>5. CASE Submit
      <4>1. msg' \in BOOLEAN /\ pending' \in BOOLEAN
        BY <3>5 DEF Submit
      <4>2. reqGen' \in Gens /\ age' \in 0..(Timeout + 1)
        BY <3>5 DEF Submit, NextGen
      <4>. QED
        BY <3>1, <3>2, <3>3, <4>1, <4>2 DEF resultVars, collectorVars
    <3>. QED
      BY <2>11, <3>4, <3>5 DEF TickPolls, PollFails, PollContent
  <2>12. CASE PassRecorded
    <3>1. stop' \in BOOLEAN
      BY <2>12 DEF PassRecorded
    <3>2. wd' \in WdPcs
      BY <2>12 DEF PassRecorded
    <3>. QED
      BY <2>12, <3>1, <3>2 DEF PassRecorded, requestVars, resultVars, collectorVars
  <2>13. CASE FailureRecorded
    BY <2>13 DEF FailureRecorded, requestVars, resultVars, collectorVars
  <2>14. CASE WatchdogWakes
    BY <2>14 DEF WatchdogWakes, requestVars, resultVars, collectorVars
  <2>15. CASE Signal
    BY <2>15 DEF Signal, requestVars, resultVars, collectorVars
  <2>16. CASE Tick
    BY <2>16 DEF Tick, resultVars, collectorVars
  <2>17. CASE UNCHANGED vars
    BY <2>17 DEF vars, requestVars, resultVars, collectorVars
  <2>. HIDE DEF TypeOK
  <2>. QED
    BY <2>1, <2>2, <2>3, <2>4, <2>5, <2>6, <2>7, <2>8, <2>9, <2>10, <2>11, <2>12,
       <2>13, <2>14, <2>15, <2>16, <2>17 DEF Next, Collector, Watchdog
<1>2. RequestPlace'
  <2>. USE DEF RequestPlace, PendingOrBusy, ResultReady
  <2>. RequestPlace
    BY DEF IInv
  <2>1. CASE ServerStart \/ ServerStartFails
    <3>1. /\ srv = "start" /\ srv' # "start" /\ col' # "collect"
          /\ UNCHANGED <<requestVars, resultVars, busy, conGen>>
      BY <2>1 DEF ServerStart, ServerStartFails
    <3>. QED
      BY <3>1 DEF requestVars, resultVars
  <2>2. CASE CollectorTakes
    BY <2>2 DEF CollectorTakes, resultVars
  <2>3. CASE CollectorBadMessage
    BY <2>3 DEF CollectorBadMessage, collectorVars
  <2>4. CASE CollectorEnds
    BY <2>4 DEF CollectorEnds, requestVars, resultVars
  <2>5. CASE CollectorPublishes
    BY <2>5 DEF CollectorPublishes, requestVars
  <2>6. CASE TickPolls
    BY <2>6, PollKeepsPlace
  <2>7. CASE /\ UNCHANGED <<requestVars, resultVars, collectorVars, conGen>>
             /\ srv' = srv \/ srv' = "done"
    BY <2>7 DEF requestVars, resultVars, collectorVars
  <2>8. CASE Tick
    BY <2>8 DEF Tick, resultVars, collectorVars
  <2>. HIDE DEF RequestPlace
  <2>. QED
    BY <2>1, <2>2, <2>3, <2>4, <2>5, <2>6, <2>7, <2>8
    DEF Next, Collector, Watchdog, ServerStops, WatchdogTop, TickNoConfig,
        TickGateFails, PassRecorded, FailureRecorded, WatchdogWakes, Signal, vars
<1>. QED
  BY <1>1, <1>2 DEF IInv

\* The good evidence that llps_readiness_runtime_monitor_worker_poll counts is
\* the answer to the latest request, with no collection under way, for every
\* timeout, however late or reordered the tasks run.
THEOREM EvidenceCurrent == Spec => []EvidenceIsCurrent
<1>1. IInv => EvidenceIsCurrent
  BY DEF IInv, RequestPlace, EvidenceIsCurrent, PendingOrBusy
<1>. QED
  BY <1>1, InitIInv, NextIInv, PTL DEF Spec

-----------------------------------------------------------------------------
(* The inductive invariant *)

Leq(e, f) == \A a \in Items : e[a] <= f[a]

\* What a view of the machine is, and evidence that is one.
Sound(e) == e \in Evidence /\ e.flags = ObservedFlags(e.edac)

\* The positions of the reads: BuildReads, and the last ones of CheckReads.
TakenAt(a) ==
  CASE a = "key" -> 2 [] a = "edac" -> 3 [] a = "ident" -> 4 [] a = "latch" -> 5
    [] a = "place" -> 6 [] a = "dom" -> 7
CheckedAt(a) ==
  CASE a = "place" -> 5 [] a = "ident" -> 6 [] a = "latch" -> 7 [] a = "edac" -> 8
    [] a = "dom" -> 9 [] a = "key" -> 10

\* Where main is and what it has acquired.
Stages ==
  /\ world = [a \in Items |-> world[a]]
  /\ pc \notin {"boot", "init", "failed", "exited"} => ValuesAreValid(cfg)
  /\ pc \in {"build", "check"} => (gate = "report" <=> mode = "report")
  /\ pc \in {"build", "check"} /\ mode = "serve" => cfg.require
  /\ pc \in {"accepted", "refused"} => mode = "serve" /\ gate # "report" /\ cfg.require
  /\ pc = "printed" => mode = "report"
  /\ pc \in {"audit", "listen", "spawn", "run"} => mode = "serve"
  /\ mode = "report" /\ pc \notin {"printed", "exited"} => pin = {}
  /\ resValid \/ col = "collect" => mode = "serve" /\ pc \in {"run", "exited"}
  /\ fd # "none" => pc \in {"spawn", "run"}
  /\ pc \in {"boot", "exited"} => ~llam /\ ~audit
  /\ seen # {} => pc \in {"build", "check", "printed", "accepted", "refused", "run"}
  /\ pc \in {"build", "check", "printed", "accepted", "refused"} => seen # {}

\* The views since the collection began, in their order.
Views ==
  /\ seen # {} => View \in seen
  /\ \A s \in seen : Sound(s) /\ Leq(s, View)

\* The first pass of a collection: items read so far are not ahead of the
\* machine.
Built(k) ==
  /\ \A a \in Items : TakenAt(a) < k => ev[a] <= View[a]
  /\ k > 1 => (ev.flags = {} => View.edac = 3)
  /\ k > 2 => ev.key # 2
  /\ k > 3 => (ev.flags = {} => ev.edac = 3)
  /\ k > 7 => ev.flags = ObservedFlags(ev.edac) /\ ev.dom # 2

Building ==
  (pc = "build" \/ (pc = "run" /\ col = "collect")) /\ pos >= 1 => pos <= 9 /\ Built(pos)

\* The second pass: m is the moment between both.
Checked(k, m) ==
  /\ Leq(ev, m)
  /\ valid => \A a \in Items : CheckedAt(a) < k => ev[a] = m[a]
  /\ k > 2 /\ cnt = {} => m.place # 2
  /\ k > 3 /\ sw => m.latch # 2

Checking ==
  pc = "check" =>
    /\ pos \in 1..11
    /\ ev.flags = ObservedFlags(ev.edac) /\ ev.dom # 2 /\ ev.key # 2
    /\ \E m \in seen : Checked(pos, m)

\* A collection of the monitor does not fall behind the moment it began.
Monitored ==
  pc = "run" /\ col = "collect" /\ pos >= 1 =>
    \E s \in seen : /\ \A p \in pin : Leq(p, s)
                    /\ \A a \in Items : TakenAt(a) < pos => s[a] <= ev[a]

\* As long as the machine did not move, a gate finds what is there.
Quiet ==
  seen = {View} =>
    /\ pc = "build" => /\ \A a \in Items : TakenAt(a) < pos => ev[a] = View[a]
                       /\ pos > 1 => ev.flags = View.flags
                       /\ Healthy(View) => pos # 0
    /\ pc = "check" => ev = View /\ valid /\ (Healthy(View) => sw)

\* The pinned digest is one of a view, and the machine has not gone back.
Pinned ==
  /\ \A p \in pin : Sound(p)
  /\ pc \in {"listen", "spawn", "run"} /\ cfg.require =>
       \E p \in pin : pin = {p} /\ Leq(p, View)

\* A machine that did not move since the report is the one that was pinned,
\* but for what a counter or the pinned evidence itself tells.
Unmoved ==
  ~moved =>
    /\ pc \in {"build", "check", "printed", "accepted", "refused"} => seen = {View}
    /\ mode = "report" => pin \subseteq {View}
    /\ mode = "serve" /\ UsesSoftwareMemory =>
         IF pc \in {"boot", "init", "memory"} THEN pin \subseteq {View}
         ELSE \A e \in pin : Healthy(e) /\ cnt = {} => e = View

SInv ==
  /\ IInv /\ StartupTypeOK
  /\ Stages /\ Views /\ Building /\ Checking /\ Monitored /\ Quiet /\ Pinned /\ Unmoved
  /\ EvidenceIsSnapshot /\ AcceptedIsHealthy /\ RefusedForAReason

-----------------------------------------------------------------------------
(* Views of the machine *)

LEMMA ViewIs ==
  /\ View.edac = EdacRead /\ View.ident = IdentRead /\ View.latch = world.latch
  /\ View.place = PlaceRead /\ View.dom = DomRead /\ View.key = KeyRead
  /\ View.flags = ObservedFlags(EdacRead)
BY DEF View

LEMMA Flags ==
  ASSUME NEW v \in 0..3
  PROVE  /\ ObservedFlags(v) \in SUBSET BothEcc
         /\ ObservedFlags(v) = {} <=> v = 3
         /\ ObservedFlags(v) = BothEcc <=> v <= 1
BY DEF ObservedFlags, BothEcc

\* What is read of a machine with these values.
LEMMA ViewSound ==
  ASSUME \A a \in Items : world[a] \in Values(a)
  PROVE  Sound(View)
<1>1. /\ world.edac \in 0..3 /\ world.latch \in {0, 2} /\ world.ident \in 0..2
      /\ world.place \in 0..2 /\ world.dom \in 0..2 /\ world.key \in 0..2
  BY DEF Items, Values
<1>2. /\ EdacRead \in 0..3 /\ IdentRead \in 0..3 /\ PlaceRead \in 0..2
      /\ DomRead \in 0..2 /\ KeyRead \in 0..2
  BY <1>1 DEF EdacRead, EdacProbed, EdacSynthesized, IdentRead, PlaceRead, PlaceProbed,
              DomRead, DomProbed, DomSynthesized, KeyRead
<1>3. ObservedFlags(EdacRead) \in SUBSET BothEcc
  BY <1>2, Flags
<1>. QED
  BY <1>1, <1>2, <1>3, ViewIs DEF View, Sound, Evidence

\* The views of a machine whose items grow.
LEMMA ViewGrows ==
  ASSUME \A a \in Items : world[a] \in Values(a), \A a \in Items : world'[a] \in Values(a),
         \A a \in Items : world[a] <= world'[a], cfg' = cfg
  PROVE  Leq(View, View')
<1>1. /\ world.edac \in 0..3 /\ world.latch \in {0, 2} /\ world.ident \in 0..2
      /\ world.place \in 0..2 /\ world.dom \in 0..2 /\ world.key \in 0..2
  BY DEF Items, Values
<1>2. /\ world'.edac \in 0..3 /\ world'.latch \in {0, 2} /\ world'.ident \in 0..2
      /\ world'.place \in 0..2 /\ world'.dom \in 0..2 /\ world'.key \in 0..2
  BY DEF Items, Values
<1>3. /\ world.edac <= world'.edac /\ world.latch <= world'.latch
      /\ world.ident <= world'.ident /\ world.place <= world'.place
      /\ world.dom <= world'.dom /\ world.key <= world'.key
  BY DEF Items
<1>4. /\ View.edac <= View'.edac
  BY <1>1, <1>2, <1>3 DEF View, EdacRead, EdacProbed, EdacSynthesized
<1>5. View.ident <= View'.ident
  BY <1>1, <1>2, <1>3 DEF View, IdentRead
<1>6. View.latch <= View'.latch
  BY <1>1, <1>2, <1>3 DEF View
<1>7. View.place <= View'.place
  BY <1>1, <1>2, <1>3 DEF View, PlaceRead, PlaceProbed, UsesSoftwareMemory
<1>8. View.dom <= View'.dom
  BY <1>1, <1>2, <1>3 DEF View, DomRead, DomProbed, DomSynthesized, UsesSoftwareMemory
<1>9. View.key <= View'.key
  BY <1>1, <1>2, <1>3 DEF View, KeyRead
<1>. HIDE DEF View
<1>. QED
  BY <1>4, <1>5, <1>6, <1>7, <1>8, <1>9 DEF Leq, Items

LEMMA ViewStays ==
  ASSUME world' = world, cfg' = cfg
  PROVE  View' = View /\ UsesSoftwareMemory' = UsesSoftwareMemory
BY DEF View, EdacRead, EdacProbed, EdacSynthesized, IdentRead, PlaceRead, PlaceProbed,
       DomRead, DomProbed, DomSynthesized, KeyRead, UsesSoftwareMemory, ObservedFlags

LEMMA Items6 ==
  ASSUME NEW e \in Evidence
  PROVE  /\ \A a \in Items : e[a] \in 0..3
         /\ e = [edac |-> e["edac"], ident |-> e["ident"], latch |-> e["latch"],
                 place |-> e["place"], dom |-> e["dom"], key |-> e["key"], flags |-> e.flags]
<1>1. \A a \in Items : e[a] \in 0..3
  BY DEF Evidence, Items
<1>. QED
  BY <1>1 DEF Evidence

LEMMA LeqTrans ==
  ASSUME NEW e \in Evidence, NEW f \in Evidence, NEW g \in Evidence, Leq(e, f), Leq(f, g)
  PROVE  Leq(e, g)
BY Items6 DEF Leq

LEMMA LeqRefl ==
  ASSUME NEW e \in Evidence
  PROVE  Leq(e, e)
BY Items6 DEF Leq

\* Two sound pieces of evidence with the same items are the same.
LEMMA SameItems ==
  ASSUME NEW e, NEW f, Sound(e), Sound(f), \A a \in Items : e[a] = f[a]
  PROVE  e = f
<1>1. e \in Evidence /\ f \in Evidence
  BY DEF Sound
<1>2. /\ e["edac"] = f["edac"] /\ e["ident"] = f["ident"] /\ e["latch"] = f["latch"]
      /\ e["place"] = f["place"] /\ e["dom"] = f["dom"] /\ e["key"] = f["key"]
  BY DEF Items
<1>3. e.flags = f.flags
  BY <1>2 DEF Sound
<1>. QED
  BY <1>1, <1>2, <1>3, Items6

LEMMA LeqBoth ==
  ASSUME NEW e, NEW f, Sound(e), Sound(f), Leq(e, f), Leq(f, e)
  PROVE  e = f
<1>1. \A a \in Items : e[a] \in 0..3 /\ f[a] \in 0..3
  BY Items6 DEF Sound
<1>2. \A a \in Items : e[a] = f[a]
  BY <1>1 DEF Leq
<1>. QED
  BY <1>2, SameItems

-----------------------------------------------------------------------------
(* The monitor runs as in ReadinessMonitor. *)

LEMMA MonitorStep ==
  ASSUME StartupNext
  PROVE  [Next]_vars
<1>1. CASE Main
  BY <1>1 DEF Main
<1>2. CASE WorldChanges
  BY <1>2 DEF WorldChanges, vars, bootVars, requestVars, resultVars, collectorVars
<1>3. CASE RunServerStarts \/ RunServerStops
  BY <1>3 DEF RunServerStarts, RunServerStops, RunServer, Next
<1>4. CASE RunTakes \/ RunRejects \/ RunPublishes \/ RunEnds
  BY <1>4 DEF RunTakes, RunRejects, RunPublishes, RunEnds, Runs, Next, Collector
<1>5. CASE RunCollects
  BY <1>5 DEF RunCollects, vars
<1>6. CASE RunPolls \/ RunWatch
  BY <1>6 DEF RunPolls, RunWatch, Runs, Next, Watchdog
<1>7. CASE RunSignal \/ RunTick
  BY <1>7 DEF RunSignal, RunTick, Runs, Next
<1>. QED
  BY <1>1, <1>2, <1>3, <1>4, <1>5, <1>6, <1>7 DEF StartupNext, Run

-----------------------------------------------------------------------------
(* Steps of main outside the gates *)

Outer == {"boot", "init", "memory", "checks", "audit", "listen", "spawn", "run", "failed",
          "exited"}

LEMMA Positions == Len(BuildReads) = 8 /\ Len(CheckReads) = 10
BY DEF BuildReads, CheckReads

LEMMA SInvFacts ==
  ASSUME SInv
  PROVE  /\ Sound(View)
         /\ ev \in Evidence /\ \A s \in seen : s \in Evidence
         /\ pos \in 0..11
BY ViewSound, Positions DEF SInv, StartupTypeOK, Views, Sound

LEMMA NothingIs == Nothing \in Evidence
BY DEF Nothing, Evidence, BothEcc

\* Nothing of a gate is left, and the monitor has not begun.
LEMMA Outside ==
  ASSUME SInv, pc' \in Outer, seen' = {}, pc' # "exited" => ~resValid' /\ col' # "collect"
  PROVE  /\ Views' /\ Building' /\ Checking' /\ Monitored' /\ Quiet'
         /\ EvidenceIsSnapshot' /\ AcceptedIsHealthy' /\ RefusedForAReason'
<1>1. pc' \notin {"build", "check", "printed", "accepted", "refused"}
  BY DEF Outer
<1>2. pc' = "run" => ~resValid' /\ col' # "collect"
  OBVIOUS
<1>3. Views' /\ Building' /\ Checking' /\ Monitored' /\ Quiet'
  BY <1>1, <1>2 DEF Views, Building, Checking, Monitored, Quiet
<1>4. EvidenceIsSnapshot' /\ AcceptedIsHealthy' /\ RefusedForAReason'
  BY <1>1, <1>2 DEF EvidenceIsSnapshot, AcceptedIsHealthy, RefusedForAReason, ResultReady
<1>. QED
  BY <1>3, <1>4

\* Boot, InitConfig, Listen, Spawn: only pc and what main owns.
LEMMA Moves ==
  ASSUME SInv, UNCHANGED <<vars, cfg, pin, mode, gate, pos, ev, sw, valid, cnt, world, changes,
                           seen, moved>>,
         pc' \in Outer, seen = {}, StartupTypeOK', Stages',
         pc' \in {"listen", "spawn", "run"} => pc \in {"listen", "spawn", "run"},
         pc' # "exited" => pc # "run",
         (pc \in {"boot", "init", "memory"}) = (pc' \in {"boot", "init", "memory"})
           \/ mode = "report" \/ pc' = "failed" \/ pc' = "exited"
  PROVE  SInv'
<1>0. /\ IInv' /\ View' = View /\ UsesSoftwareMemory' = UsesSoftwareMemory
      /\ UNCHANGED <<resValid, col>>
  BY ViewStays, NextIInv DEF SInv, vars, resultVars, collectorVars
<1>1. pc' # "exited" => ~resValid' /\ col' # "collect"
  BY <1>0 DEF SInv, Stages, Outer
<1>2. Pinned'
  BY <1>0 DEF SInv, Pinned
<1>3. Unmoved'
  BY <1>0 DEF SInv, Unmoved, Outer, Healthy, Bad
<1>. QED
  BY <1>0, <1>1, <1>2, <1>3, Outside DEF SInv

LEMMA BootHolds ==
  ASSUME SInv, Boot, UNCHANGED vars
  PROVE  SInv'
<1>1. /\ UNCHANGED <<cfg, pin, mode, gate, pos, ev, sw, valid, cnt, world, changes, audit, fd,
                     seen, moved>>
      /\ pc = "boot" /\ pc' \in {"init", "exited"} /\ llam' \in BOOLEAN
      /\ pc' = "exited" => llam' = llam
  BY DEF Boot, SInv, StartupTypeOK
<1>2. StartupTypeOK'
  BY <1>1 DEF SInv, StartupTypeOK, Pcs
<1>3. Stages'
  BY <1>1 DEF SInv, Stages, vars, resultVars, collectorVars
<1>. QED
  BY <1>1, <1>2, <1>3, Moves DEF SInv, Stages, Outer

LEMMA InitConfigHolds ==
  ASSUME SInv, InitConfig, UNCHANGED vars
  PROVE  SInv'
<1>1. /\ UNCHANGED <<cfg, pin, mode, gate, pos, ev, sw, valid, cnt, world, changes, llam, audit,
                     fd, seen, moved>>
      /\ pc = "init" /\ pc' \in {"memory", "failed"}
      /\ pc' = "memory" => ValuesAreValid(cfg)
  BY DEF InitConfig
<1>2. StartupTypeOK'
  BY <1>1 DEF SInv, StartupTypeOK, Pcs
<1>3. Stages'
  BY <1>1 DEF SInv, Stages, vars, resultVars, collectorVars, ValuesAreValid,
              SoftwareNumaIsValid, PlatformPolicyIsValid
<1>. QED
  BY <1>1, <1>2, <1>3, Moves DEF SInv, Stages, Outer

LEMMA ListenHolds ==
  ASSUME SInv, Listen, UNCHANGED vars
  PROVE  SInv'
<1>1. /\ UNCHANGED <<cfg, pin, mode, gate, pos, ev, sw, valid, cnt, world, changes, llam, audit,
                     seen, moved>>
      /\ pc = "listen" /\ pc' \in {"spawn", "failed"} /\ fd' \in {"none", "main", "server"}
      /\ pc' = "failed" => fd' = fd
  BY DEF Listen, SInv, StartupTypeOK
<1>2. StartupTypeOK'
  BY <1>1 DEF SInv, StartupTypeOK, Pcs
<1>3. Stages'
  BY <1>1 DEF SInv, Stages, vars, resultVars, collectorVars
<1>. QED
  BY <1>1, <1>2, <1>3, Moves DEF SInv, Stages, Outer

LEMMA SpawnHolds ==
  ASSUME SInv, Spawn, UNCHANGED vars
  PROVE  SInv'
<1>1. /\ UNCHANGED <<cfg, pin, mode, gate, pos, ev, sw, valid, cnt, world, changes, llam, audit,
                     seen, moved>>
      /\ pc = "spawn" /\ pc' \in {"run", "failed"} /\ fd' \in {"none", "main", "server"}
      /\ pc' = "failed" => fd' = "none"
  BY DEF Spawn, SInv, StartupTypeOK
<1>2. StartupTypeOK'
  BY <1>1 DEF SInv, StartupTypeOK, Pcs
<1>3. Stages'
  BY <1>1 DEF SInv, Stages, vars, resultVars, collectorVars
<1>. QED
  BY <1>1, <1>2, <1>3, Moves DEF SInv, Stages, Outer

\* GateLeft, GiveUp, RunReturns: the evidence is forgotten.
LEMMA Forgets ==
  ASSUME SInv, Forget, UNCHANGED <<vars, cfg, pin, mode, gate, sw, valid, cnt, world, changes,
                                   moved>>,
         pc \notin {"boot", "init", "memory"}, pc' \in {"audit", "listen", "exited"},
         StartupTypeOK', Stages',
         pc' = "listen" /\ cfg.require => \E p \in pin : pin = {p} /\ Leq(p, View)
  PROVE  SInv'
<1>0. /\ IInv' /\ View' = View /\ UsesSoftwareMemory' = UsesSoftwareMemory
      /\ UNCHANGED <<resValid, col>> /\ seen' = {}
  BY ViewStays, NextIInv DEF SInv, vars, resultVars, collectorVars, Forget
<1>1. pc' # "exited" => ~resValid' /\ col' # "collect"
  BY <1>0 DEF Stages
<1>2. Pinned'
  BY <1>0 DEF SInv, Pinned
<1>3. Unmoved'
  BY <1>0 DEF SInv, Unmoved, Healthy, Bad
<1>. QED
  BY <1>0, <1>1, <1>2, <1>3, Outside DEF SInv, Outer

LEMMA GateLeftHolds ==
  ASSUME SInv, GateLeft, UNCHANGED vars
  PROVE  SInv'
<1>1. /\ UNCHANGED <<cfg, pin, mode, gate, sw, valid, cnt, world, changes, llam, audit, fd,
                     moved>>
      /\ pc = "accepted" /\ pc' \in {"audit", "listen"} /\ Forget
  BY DEF GateLeft
<1>2. StartupTypeOK'
  BY <1>1, NothingIs, Positions DEF SInv, StartupTypeOK, Pcs, Forget
<1>3. Stages'
  BY <1>1 DEF SInv, Stages, vars, resultVars, collectorVars, Forget
<1>4. pin = {ev} /\ Leq(ev, View)
  BY <1>1 DEF SInv, AcceptedIsHealthy, Views
<1>. QED
  BY <1>1, <1>2, <1>3, <1>4, Forgets

LEMMA GiveUpHolds ==
  ASSUME SInv, GiveUp, UNCHANGED vars
  PROVE  SInv'
<1>1. /\ UNCHANGED <<cfg, pin, mode, gate, sw, valid, cnt, world, changes, fd, moved>>
      /\ pc \in {"failed", "refused", "printed"} /\ pc' = "exited" /\ Forget
      /\ llam' = FALSE /\ audit' = FALSE
  BY DEF GiveUp
<1>0. llam' \in BOOLEAN /\ audit' \in BOOLEAN
  BY <1>1
<1>2. StartupTypeOK'
  BY <1>0, <1>1, NothingIs, Positions DEF SInv, StartupTypeOK, Pcs, Forget
<1>3. Stages'
  BY <1>1 DEF SInv, Stages, vars, resultVars, collectorVars, Forget
<1>. QED
  BY <1>1, <1>2, <1>3, Forgets

LEMMA RunReturnsHolds ==
  ASSUME SInv, RunReturns, UNCHANGED vars
  PROVE  SInv'
<1>1. /\ UNCHANGED <<cfg, pin, mode, gate, sw, valid, cnt, world, changes, moved>>
      /\ pc = "run" /\ pc' = "exited" /\ Forget
      /\ llam' = FALSE /\ audit' = FALSE /\ fd' = "none"
  BY DEF RunReturns
<1>0. llam' \in BOOLEAN /\ audit' \in BOOLEAN
  BY <1>1
<1>2. StartupTypeOK'
  BY <1>0, <1>1, NothingIs, Positions DEF SInv, StartupTypeOK, Pcs, Forget
<1>3. Stages'
  BY <1>1 DEF SInv, Stages, vars, resultVars, collectorVars, Forget
<1>. QED
  BY <1>1, <1>2, <1>3, Forgets

\* The software memory observation hides where the new process lies.
LEMMA NextProcessHolds ==
  ASSUME SInv, NextProcess, UNCHANGED vars
  PROVE  SInv'
<1>1. /\ UNCHANGED <<cfg, pin, gate, pos, ev, sw, valid, changes, llam, audit, fd, seen, moved>>
      /\ pc = "exited" /\ mode = "report" /\ mode' = "serve" /\ pc' = "boot" /\ cnt' = {}
      /\ IInv' /\ seen = {}
  BY NextIInv DEF NextProcess, SInv, Stages
<1>2. PICK p \in 0..1 : world' = [world EXCEPT !.place = p]
  BY DEF NextProcess
<1>3. /\ world' = [a \in Items |-> world'[a]] /\ world'.place = p
      /\ \A a \in Items \ {"place"} : world'[a] = world[a]
      /\ \A a \in Items : world'[a] \in Values(a)
  <2>1. DOMAIN world = Items /\ "place" \in Items
    BY DEF SInv, Stages, Items
  <2>2. p \in Values("place")
    BY DEF Values
  <2>. QED
    BY <1>2, <2>1, <2>2 DEF SInv, Stages, StartupTypeOK
<1>4. UsesSoftwareMemory' = UsesSoftwareMemory
  BY <1>1 DEF UsesSoftwareMemory
<1>5. UsesSoftwareMemory => View' = View
  <2>1. /\ world'.edac = world.edac /\ world'.ident = world.ident /\ world'.latch = world.latch
        /\ world'.dom = world.dom /\ world'.key = world.key
    BY <1>3 DEF Items
  <2>. QED
    BY <1>1, <2>1 DEF View, EdacRead, EdacProbed, EdacSynthesized, IdentRead, PlaceRead,
                      DomRead, DomProbed, DomSynthesized, KeyRead, UsesSoftwareMemory,
                      ObservedFlags
<1>6. StartupTypeOK'
  BY <1>1, <1>3 DEF SInv, StartupTypeOK, Pcs
<1>7. Stages'
  BY <1>1, <1>3 DEF SInv, Stages, vars, resultVars, collectorVars
<1>8. Pinned' /\ Unmoved'
  BY <1>1, <1>4, <1>5 DEF SInv, Pinned, Unmoved
<1>9. ~resValid' /\ col' # "collect"
  BY <1>1 DEF SInv, Stages, vars, resultVars, collectorVars
<1>. QED
  BY <1>1, <1>6, <1>7, <1>8, <1>9, Outside DEF SInv, Outer

\* Whatever could not be locked is counted.
LEMMA InitMemoryHolds ==
  ASSUME SInv, InitMemory, UNCHANGED vars
  PROVE  SInv'
<1>1. /\ UNCHANGED <<cfg, pin, mode, gate, pos, ev, sw, valid, changes, llam, audit, fd, seen,
                     moved>>
      /\ pc = "memory" /\ pc' = "checks" /\ IInv' /\ seen = {}
  BY NextIInv DEF InitMemory, SInv, Stages
<1>2. PICK locked \in BOOLEAN, bound \in BOOLEAN :
        /\ LockMemory(locked)
        /\ cnt' = (IF locked THEN {} ELSE {"latch"})
                    \cup (IF bound /\ ~Bad(View, "dom") THEN {} ELSE {"dom"})
  BY DEF InitMemory
<1>3. /\ world' = [a \in Items |-> world'[a]] /\ world'.latch = (IF locked THEN 0 ELSE 2)
      /\ \A a \in Items \ {"latch"} : world'[a] = world[a]
      /\ \A a \in Items : world'[a] \in Values(a)
  <2>1. DOMAIN world = Items /\ "latch" \in Items
    BY DEF SInv, Stages, Items
  <2>2. (IF locked THEN 0 ELSE 2) \in Values("latch")
    BY DEF Values
  <2>3. world' = [world EXCEPT !["latch"] = IF locked THEN 0 ELSE 2]
    BY <1>2 DEF LockMemory
  <2>. QED
    BY <2>1, <2>2, <2>3 DEF SInv, Stages, StartupTypeOK
<1>4. UsesSoftwareMemory' = UsesSoftwareMemory
  BY <1>1 DEF UsesSoftwareMemory
<1>5. cnt' \subseteq {"latch", "dom", "place"} /\ (cnt' = {} => locked)
  BY <1>2
<1>6. locked /\ View.latch = 0 => View' = View
  <2>1. /\ world'.edac = world.edac /\ world'.ident = world.ident /\ world'.place = world.place
        /\ world'.dom = world.dom /\ world'.key = world.key
    BY <1>3 DEF Items
  <2>2. locked /\ View.latch = 0 => world'.latch = world.latch
    BY <1>3 DEF View
  <2>. QED
    BY <1>1, <2>1, <2>2 DEF View, EdacRead, EdacProbed, EdacSynthesized, IdentRead, PlaceRead,
                      PlaceProbed, DomRead, DomProbed, DomSynthesized, KeyRead,
                      UsesSoftwareMemory, ObservedFlags
<1>7. StartupTypeOK'
  BY <1>1, <1>3, <1>5 DEF SInv, StartupTypeOK, Pcs
<1>8. Stages'
  BY <1>1, <1>3 DEF SInv, Stages, vars, resultVars, collectorVars, ValuesAreValid,
                    SoftwareNumaIsValid, PlatformPolicyIsValid
<1>9. Pinned'
  BY <1>1 DEF SInv, Pinned
<1>10. Unmoved'
  <2>1. ASSUME ~moved, mode = "serve", UsesSoftwareMemory, NEW e \in pin, Healthy(e), cnt' = {}
        PROVE  e = View'
    <3>1. e = View
      BY <1>1, <2>1 DEF SInv, Unmoved
    <3>2. e.latch # 2 /\ e.latch \in {0, 2}
      BY <2>1 DEF Healthy, Bad, Items, SInv, StartupTypeOK, Evidence
    <3>. QED
      BY <1>5, <1>6, <2>1, <3>1, <3>2
  <2>2. mode = "report" => pin = {}
    BY <1>1 DEF SInv, Stages
  <2>3. \A e \in pin : Healthy(e)' = Healthy(e)
    BY DEF Healthy, Bad
  <2>. QED
    BY <1>1, <1>4, <2>1, <2>2, <2>3 DEF SInv, Unmoved
<1>11. ~resValid' /\ col' # "collect"
  BY <1>1 DEF SInv, Stages, vars, resultVars, collectorVars
<1>. QED
  BY <1>1, <1>7, <1>8, <1>9, <1>10, <1>11, Outside DEF SInv, Outer

-----------------------------------------------------------------------------
(* The gates: a collection begins *)

LEMMA ReadsAt ==
  /\ \A a \in Items : TakenAt(a) \in 2..7 /\ CheckedAt(a) \in 5..10
  /\ BuildReads[1] = Read("take", "flags") /\ BuildReads[2] = Read("take", "key")
  /\ BuildReads[3] = Read("take", "edac") /\ BuildReads[4] = Read("take", "ident")
  /\ BuildReads[5] = Read("take", "latch") /\ BuildReads[6] = Read("take", "place")
  /\ BuildReads[7] = Read("take", "dom") /\ BuildReads[8] = Read("mac", "key")
BY DEF TakenAt, CheckedAt, Items, BuildReads

LEMMA CollectingStarts ==
  ASSUME SInv, NEW g \in {"report", "init", "main"}, StartsCollecting(g),
         UNCHANGED <<vars, cfg, pin, mode, sw, valid, cnt, world, changes, llam, fd>>,
         audit' \in BOOLEAN, moved' \in BOOLEAN, g = "report" <=> mode = "report",
         mode = "serve" => cfg.require, pc \in {"checks", "audit"},
         ~moved' => ~moved \/ mode = "report"
  PROVE  SInv'
<1>1. /\ IInv' /\ View' = View /\ UsesSoftwareMemory' = UsesSoftwareMemory
      /\ UNCHANGED <<resValid, col>> /\ Sound(View)
      /\ pc' = "build" /\ gate' = g /\ pos' = 1 /\ ev' = Nothing /\ seen' = {View}
      /\ fd = "none" /\ ValuesAreValid(cfg) /\ ~resValid /\ col # "collect"
  BY ViewStays, NextIInv, SInvFacts
  DEF SInv, Stages, vars, resultVars, collectorVars, StartsCollecting
<1>2. mode = "report" => pin = {}
  BY DEF SInv, Stages
<1>3. StartupTypeOK'
  BY <1>1, NothingIs, Positions DEF SInv, StartupTypeOK, Pcs
<1>4. Stages'
  BY <1>1, <1>2 DEF SInv, Stages, ValuesAreValid, SoftwareNumaIsValid, PlatformPolicyIsValid
<1>5. Views'
  <2>1. Leq(View, View)
    BY <1>1, LeqRefl DEF Sound
  <2>2. seen' = {View} /\ View' = View
    BY <1>1
  <2>3. \A s \in seen' : s = View
    BY <2>2
  <2>4. (\A s \in seen' : Sound(s) /\ Leq(s, View)) /\ View \in seen'
    BY <1>1, <2>1, <2>2, <2>3
  <2>. QED
    BY <2>2, <2>4 DEF Views, Sound, Leq, ObservedFlags
<1>6. Building' /\ Checking' /\ Monitored'
  BY <1>1, ReadsAt DEF Building, Checking, Monitored, Built
<1>7. Quiet'
  BY <1>1, ReadsAt DEF Quiet
<1>8. Pinned'
  BY <1>1 DEF SInv, Pinned
<1>9. Unmoved'
  BY <1>1, <1>2 DEF SInv, Unmoved, Healthy, Bad
<1>10. EvidenceIsSnapshot' /\ AcceptedIsHealthy' /\ RefusedForAReason'
  BY <1>1 DEF EvidenceIsSnapshot, AcceptedIsHealthy, RefusedForAReason
<1>. QED
  BY <1>1, <1>3, <1>4, <1>5, <1>6, <1>7, <1>8, <1>9, <1>10 DEF SInv

\* A start that fails before the server has anything to forget.
LEMMA Fails ==
  ASSUME SInv, UNCHANGED <<vars, cfg, pin, mode, gate, pos, ev, sw, valid, cnt, world, changes,
                           llam, audit, fd, seen>>,
         moved' \in BOOLEAN, ~moved' => ~moved \/ mode = "report",
         pc \in {"checks", "audit"}, pc' \in {"failed", "audit"}, pc' = "audit" => mode = "serve"
  PROVE  SInv'
<1>1. /\ IInv' /\ View' = View /\ UsesSoftwareMemory' = UsesSoftwareMemory
      /\ UNCHANGED <<resValid, col>> /\ seen = {} /\ ~resValid /\ col # "collect"
  BY ViewStays, NextIInv DEF SInv, Stages, vars, resultVars, collectorVars
<1>2. mode = "report" => pin = {}
  BY DEF SInv, Stages
<1>3. StartupTypeOK'
  BY DEF SInv, StartupTypeOK, Pcs
<1>4. Stages'
  BY <1>1 DEF SInv, Stages, ValuesAreValid, SoftwareNumaIsValid, PlatformPolicyIsValid
<1>5. Pinned'
  BY <1>1 DEF SInv, Pinned
<1>6. Unmoved'
  BY <1>1, <1>2 DEF SInv, Unmoved, Healthy, Bad
<1>. QED
  BY <1>1, <1>3, <1>4, <1>5, <1>6, Outside DEF SInv, Outer

LEMMA InitChecksHolds ==
  ASSUME SInv, InitChecks, UNCHANGED vars
  PROVE  SInv'
<1>1. /\ UNCHANGED <<cfg, pin, mode, sw, valid, cnt, world, changes, llam, audit, fd>>
      /\ pc = "checks" /\ moved' = (moved /\ mode = "serve") /\ moved' \in BOOLEAN
      /\ audit' \in BOOLEAN /\ mode \in {"report", "serve"}
      /\ ~moved' => ~moved \/ mode = "report"
  BY DEF InitChecks, SInv, StartupTypeOK
<1>2. CASE pc' \in {"failed", "audit"} /\ UNCHANGED <<gate, pos, ev, seen>>
           /\ (pc' = "audit" => mode = "serve")
  BY <1>1, <1>2, Fails
<1>3. CASE mode = "report" /\ StartsCollecting("report")
  BY <1>1, <1>3, CollectingStarts
<1>4. CASE mode = "serve" /\ cfg.require /\ StartsCollecting("init")
  BY <1>1, <1>4, CollectingStarts
<1>. QED
  BY <1>2, <1>3, <1>4 DEF InitChecks

LEMMA InitAuditHolds ==
  ASSUME SInv, InitAudit, UNCHANGED vars
  PROVE  SInv'
<1>1. /\ UNCHANGED <<cfg, pin, mode, sw, valid, cnt, world, changes, llam, fd, moved>>
      /\ pc = "audit" /\ mode = "serve" /\ moved' \in BOOLEAN
      /\ ~moved' => ~moved \/ mode = "report"
  BY DEF InitAudit, SInv, Stages, StartupTypeOK
<1>2. CASE pc' = "failed" /\ UNCHANGED <<audit, gate, pos, ev, seen>>
  BY <1>1, <1>2, Fails
<1>3. CASE audit' = TRUE /\ cfg.require /\ StartsCollecting("main")
  <2>1. audit' \in BOOLEAN
    BY <1>3
  <2>. QED
    BY <1>1, <1>3, <2>1, CollectingStarts
<1>4. CASE audit' = TRUE /\ ~cfg.require /\ pc' = "listen" /\ UNCHANGED <<gate, pos, ev, seen>>
  <2>0. audit' \in BOOLEAN
    BY <1>4
  <2>1. /\ IInv' /\ View' = View /\ UsesSoftwareMemory' = UsesSoftwareMemory
        /\ UNCHANGED <<resValid, col>> /\ seen = {} /\ ~resValid /\ col # "collect"
    BY <1>1, <1>4, ViewStays, NextIInv DEF SInv, Stages, vars, resultVars, collectorVars
  <2>2. StartupTypeOK'
    BY <1>1, <1>4, <2>0 DEF SInv, StartupTypeOK, Pcs
  <2>3. Stages'
    BY <1>1, <1>4, <2>1 DEF SInv, Stages, ValuesAreValid, SoftwareNumaIsValid,
                            PlatformPolicyIsValid
  <2>4. Pinned'
    BY <1>1, <1>4, <2>1 DEF SInv, Pinned
  <2>5. Unmoved'
    BY <1>1, <1>4, <2>1 DEF SInv, Unmoved, Healthy, Bad
  <2>. QED
    BY <1>1, <1>4, <2>1, <2>2, <2>3, <2>4, <2>5, Outside DEF SInv, Outer
<1>. QED
  BY <1>2, <1>3, <1>4 DEF InitAudit

-----------------------------------------------------------------------------
(* The first pass *)

LEMMA TakesItem ==
  ASSUME NEW e \in Evidence, NEW v \in Evidence, NEW x \in Items \cup {"flags"},
         NEW f, f = [e EXCEPT ![x] = v[x]]
  PROVE  /\ f \in Evidence /\ f[x] = v[x]
         /\ \A y \in (Items \cup {"flags"}) \ {x} : f[y] = e[y]
BY DEF Evidence, Items

\* One read of a collection, by a gate or by the monitor.
LEMMA Takes ==
  ASSUME SInv, pos \in 1..8, Built(pos), Collects(BuildReads[pos]), View' = View
  PROVE  /\ ev' \in Evidence /\ pos' \in {0, pos + 1}
         /\ pos' >= 1 => Built(pos)'
         /\ \A a \in Items : TakenAt(a) < pos' =>
              ev'[a] = View[a] \/ (TakenAt(a) < pos /\ ev'[a] = ev[a])
         /\ pos' > 1 => ev'.flags = View.flags \/ (pos > 1 /\ ev'.flags = ev.flags)
         /\ pos' = 0 => \/ ~Healthy(View)
                        \/ pos = 7 /\ ev.flags # {} /\ ev.flags # ObservedFlags(ev.edac)
                        \/ pos = 8 /\ ev.key # View.key
<1>. DEFINE r == BuildReads[pos]
<1>1. /\ ev \in Evidence /\ View \in Evidence /\ Sound(View)
      /\ \A a \in Items : TakenAt(a) \in 2..7
  BY SInvFacts, ReadsAt DEF Sound
<1>2. /\ pos' = IF CollectionBreaks(r) THEN 0 ELSE pos + 1
      /\ ev' = IF r.op = "take" THEN [ev EXCEPT ![r.of] = View[r.of]] ELSE ev
  BY DEF Collects
<1>3. r.of \in Items \cup {"flags"} /\ (r.op = "take" <=> pos # 8)
      /\ (pos \in 2..7 => r.of \in Items /\ TakenAt(r.of) = pos)
      /\ (pos = 1 => r.of = "flags") /\ (pos = 8 => r.op = "mac" /\ r.of = "key")
      /\ \A a \in Items : TakenAt(a) = pos => a = r.of
  BY ReadsAt DEF Read, Items, TakenAt
<1>4. /\ ev' \in Evidence
      /\ pos # 8 => /\ ev'[r.of] = View[r.of]
                    /\ \A y \in (Items \cup {"flags"}) \ {r.of} : ev'[y] = ev[y]
      /\ pos = 8 => ev' = ev
  BY <1>1, <1>2, <1>3, TakesItem
<1>. HIDE DEF r
<1>5. \A a \in Items : TakenAt(a) < pos + 1 =>
              ev'[a] = View[a] \/ (TakenAt(a) < pos /\ ev'[a] = ev[a])
  <2>. SUFFICES ASSUME NEW a \in Items, TakenAt(a) < pos + 1
                PROVE  ev'[a] = View[a] \/ (TakenAt(a) < pos /\ ev'[a] = ev[a])
    OBVIOUS
  <2>1. CASE pos = 8
    BY <1>1, <1>4, <2>1
  <2>2. CASE pos # 8 /\ a = r.of
    BY <1>4, <2>2
  <2>3. CASE pos # 8 /\ a # r.of
    BY <1>1, <1>3, <1>4, <2>3
  <2>. QED
    BY <2>1, <2>2, <2>3
<1>6. ev'.flags = View.flags \/ (pos > 1 /\ ev'.flags = ev.flags)
  <2>1. CASE pos = 1
    BY <1>3, <1>4, <2>1
  <2>2. CASE pos > 1 /\ pos # 8
    BY <1>3, <1>4, <2>2 DEF Items
  <2>3. CASE pos = 8
    BY <1>4, <2>3
  <2>. QED
    BY <2>1, <2>2, <2>3
<1>7. pos' = 0 => \/ ~Healthy(View)
                  \/ pos = 7 /\ ev.flags # {} /\ ev.flags # ObservedFlags(ev.edac)
                  \/ pos = 8 /\ ev.key # View.key
  <2>1. ASSUME CollectionBreaks(r)
        PROVE  \/ Bad(View, "key") \/ Bad(View, "dom")
               \/ pos = 7 /\ ev.flags # {} /\ ev.flags # ObservedFlags(ev.edac)
               \/ pos = 8 /\ ev.key # View.key
    <3>1. r.of = "dom" /\ r.op = "take" => pos = 7
      BY ReadsAt DEF r, Read
    <3>. QED
      BY <1>3, <2>1, <3>1 DEF CollectionBreaks, BuilderRefuses
  <2>. QED
    BY <1>2, <2>1 DEF Healthy, Items
<1>8. ASSUME pos' >= 1
      PROVE  Built(pos)'
  <2>0. pos' = pos + 1 /\ ~CollectionBreaks(r)
    BY <1>2, <1>8
  <2>1. \A a \in Items : TakenAt(a) < pos' => ev'[a] <= View'[a]
    <3>1. \A a \in Items : View[a] \in 0..3
      BY <1>1, Items6
    <3>. QED
      BY <1>5, <2>0, <3>1 DEF Built
  <2>2. View.flags = {} => View.edac = 3
    BY <1>1, Flags DEF Sound, Evidence
  <2>3. pos' > 1 => (ev'.flags = {} => View'.edac = 3)
    BY <1>6, <2>2 DEF Built
  <2>4. pos' > 2 => ev'.key # 2
    <3>1. CASE pos = 2
      <4>1. r = Read("take", "key")
        BY <3>1, ReadsAt DEF r
      <4>2. View["key"] # 2 /\ ev'["key"] = View["key"]
        BY <1>4, <2>0, <3>1, <4>1 DEF CollectionBreaks, Bad, Read
      <4>. QED
        BY <4>2
    <3>2. CASE pos > 2
      <4>1. ev'["key"] = ev["key"]
        <5>1. pos # 8 => r.of # "key"
          BY <3>2, ReadsAt DEF r, Read
        <5>. QED
          BY <1>4, <5>1 DEF Items
      <4>. QED
        BY <3>2, <4>1 DEF Built
    <3>. QED
      BY <2>0, <3>1, <3>2
  <2>5. pos' > 3 => (ev'.flags = {} => ev'.edac = 3)
    <3>1. CASE pos = 3
      <4>1. r = Read("take", "edac")
        BY <3>1, ReadsAt DEF r
      <4>2. ev'["edac"] = View["edac"]
        BY <1>4, <3>1, <4>1 DEF Read
      <4>. QED
        BY <2>0, <2>3, <3>1, <4>2
    <3>2. CASE pos > 3
      <4>1. ev'["edac"] = ev["edac"] /\ ev'["flags"] = ev["flags"]
        <5>1. pos # 8 => r.of # "edac" /\ r.of # "flags"
          BY <3>2, ReadsAt DEF r, Read
        <5>. QED
          BY <1>4, <5>1 DEF Items
      <4>. QED
        BY <3>2, <4>1 DEF Built
    <3>. QED
      BY <2>0, <3>1, <3>2
  <2>6. pos' > 7 => ev'.flags = ObservedFlags(ev'.edac) /\ ev'.dom # 2
    <3>1. CASE pos = 7
      <4>1. r = Read("take", "dom")
        BY <3>1, ReadsAt DEF r
      <4>2. /\ ev'["dom"] = View["dom"] /\ ev'["edac"] = ev["edac"]
            /\ ev'["flags"] = ev["flags"]
        BY <1>4, <3>1, <4>1 DEF Read, Items
      <4>3. /\ View["dom"] # 2
            /\ ev.flags = {} \/ ev.flags = ObservedFlags(ev.edac)
        BY <2>0, <4>1 DEF CollectionBreaks, BuilderRefuses, Bad, Read
      <4>4. ev.flags = {} => ObservedFlags(ev.edac) = {}
        BY <3>1, Flags DEF Built
      <4>. QED
        BY <4>2, <4>3, <4>4
    <3>2. CASE pos = 8
      <4>1. ev' = ev
        BY <1>4, <3>2
      <4>2. ev.flags = ObservedFlags(ev.edac) /\ ev.dom # 2
        BY <3>2 DEF Built
      <4>. QED
        BY <4>1, <4>2
    <3>. QED
      BY <2>0, <3>1, <3>2
  <2>. QED
    BY <2>1, <2>3, <2>4, <2>5, <2>6 DEF Built
<1>9. pos' \in {0, pos + 1}
  BY <1>2
<1>10. \A a \in Items : TakenAt(a) < pos' =>
          ev'[a] = View[a] \/ (TakenAt(a) < pos /\ ev'[a] = ev[a])
  BY <1>1, <1>5, <1>9
<1>. QED
  BY <1>4, <1>6, <1>7, <1>8, <1>9, <1>10

LEMMA GateBuildHolds ==
  ASSUME SInv, GateBuild, UNCHANGED vars
  PROVE  SInv'
<1>1. /\ UNCHANGED <<cfg, pin, mode, pc, gate, sw, valid, cnt, world, changes, llam, audit, fd,
                     seen, moved>>
      /\ pc = "build" /\ pos \in 1..8 /\ Collects(BuildReads[pos])
  BY Positions DEF GateBuild
<1>2. /\ IInv' /\ View' = View /\ UsesSoftwareMemory' = UsesSoftwareMemory
      /\ UNCHANGED <<resValid, col>> /\ Built(pos) /\ Sound(View)
  BY <1>1, ViewStays, NextIInv, SInvFacts
  DEF SInv, vars, resultVars, collectorVars, Building
<1>3. /\ ev' \in Evidence /\ pos' \in {0, pos + 1}
      /\ pos' >= 1 => Built(pos)'
      /\ \A a \in Items : TakenAt(a) < pos' =>
           ev'[a] = View[a] \/ (TakenAt(a) < pos /\ ev'[a] = ev[a])
      /\ pos' > 1 => ev'.flags = View.flags \/ (pos > 1 /\ ev'.flags = ev.flags)
      /\ pos' = 0 => \/ ~Healthy(View)
                     \/ pos = 7 /\ ev.flags # {} /\ ev.flags # ObservedFlags(ev.edac)
                     \/ pos = 8 /\ ev.key # View.key
  BY <1>1, <1>2, Takes
<1>4. StartupTypeOK'
  BY <1>1, <1>3, Positions DEF SInv, StartupTypeOK
<1>5. Stages'
  BY <1>1, <1>2 DEF SInv, Stages, ValuesAreValid, SoftwareNumaIsValid, PlatformPolicyIsValid
<1>6. Views'
  BY <1>1, <1>2 DEF SInv, Views, Sound, Leq, ObservedFlags
<1>7. Building' /\ Checking' /\ Monitored'
  BY <1>1, <1>3 DEF Building, Checking, Monitored
<1>8. Quiet'
  <2>. SUFFICES ASSUME seen = {View}
                PROVE  /\ \A a \in Items : TakenAt(a) < pos' => ev'[a] = View[a]
                       /\ pos' > 1 => ev'.flags = View.flags
                       /\ Healthy(View) => pos' # 0
    BY <1>1, <1>2 DEF Quiet, Healthy, Bad
  <2>1. /\ \A a \in Items : TakenAt(a) < pos => ev[a] = View[a]
        /\ pos > 1 => ev.flags = View.flags
    BY <1>1 DEF SInv, Quiet
  <2>2. pos = 7 => ev.flags = ObservedFlags(ev.edac)
    <3>1. pos = 7 => ev["edac"] = View["edac"]
      BY <2>1 DEF Items, TakenAt
    <3>. QED
      BY <1>2, <2>1, <3>1 DEF Sound
  <2>3. pos = 8 => ev["key"] = View["key"]
    BY <2>1 DEF Items, TakenAt
  <2>4. Healthy(View) => pos' # 0
    BY <1>3, <2>2, <2>3
  <2>5. \A a \in Items : TakenAt(a) < pos' => ev'[a] = View[a]
    BY <1>3, <2>1
  <2>. QED
    BY <1>3, <2>1, <2>4, <2>5
<1>9. Pinned'
  BY <1>1, <1>2 DEF SInv, Pinned
<1>10. Unmoved'
  BY <1>1, <1>2 DEF SInv, Unmoved, Healthy, Bad
<1>11. EvidenceIsSnapshot' /\ AcceptedIsHealthy' /\ RefusedForAReason'
  BY <1>1 DEF EvidenceIsSnapshot, AcceptedIsHealthy, RefusedForAReason
<1>. QED
  BY <1>2, <1>4, <1>5, <1>6, <1>7, <1>8, <1>9, <1>10, <1>11 DEF SInv

\* Between both passes.
LEMMA GateBuiltHolds ==
  ASSUME SInv, GateBuilt, UNCHANGED vars
  PROVE  SInv'
<1>1. /\ UNCHANGED <<cfg, pin, mode, gate, ev, cnt, world, changes, llam, audit, fd, seen, moved>>
      /\ pc = "build" /\ pos > 8 /\ pc' = "check" /\ pos' = 1 /\ sw' = TRUE /\ valid' = TRUE
  BY Positions DEF GateBuilt
<1>2. /\ IInv' /\ View' = View /\ UsesSoftwareMemory' = UsesSoftwareMemory
      /\ UNCHANGED <<resValid, col>> /\ Sound(View) /\ pos = 9 /\ Built(9) /\ ev \in Evidence
      /\ seen # {} /\ View \in seen
  BY <1>1, ViewStays, NextIInv, SInvFacts
  DEF SInv, vars, resultVars, collectorVars, Building, Stages, Views
<1>3. /\ \A a \in Items : ev[a] <= View[a]
      /\ ev.flags = ObservedFlags(ev.edac) /\ ev.dom # 2 /\ ev.key # 2
  BY <1>2, ReadsAt DEF Built
<1>0. sw' \in BOOLEAN /\ valid' \in BOOLEAN
  BY <1>1
<1>4. StartupTypeOK'
  BY <1>0, <1>1, Positions DEF SInv, StartupTypeOK, Pcs
<1>5. Stages'
  BY <1>1, <1>2 DEF SInv, Stages, ValuesAreValid, SoftwareNumaIsValid, PlatformPolicyIsValid
<1>6. Views'
  BY <1>1, <1>2 DEF SInv, Views, Sound, Leq, ObservedFlags
<1>7. Checking'
  <2>1. ASSUME NEW m, m = View
        PROVE  Checked(pos, m)'
    BY <1>1, <1>3, <2>1, ReadsAt DEF Checked, Leq
  <2>2. ev'.flags = ObservedFlags(ev'.edac) /\ ev'.dom # 2 /\ ev'.key # 2 /\ pos' \in 1..11
    BY <1>1, <1>3
  <2>. QED
    BY <1>1, <1>2, <2>1, <2>2 DEF Checking
<1>8. Building' /\ Monitored'
  BY <1>1 DEF Building, Monitored
<1>9. Quiet'
  <2>1. ASSUME seen = {View} PROVE ev = View
    <3>1. \A a \in Items : ev[a] = View[a]
      BY <1>1, <1>2, <2>1, ReadsAt DEF SInv, Quiet
    <3>2. Sound(ev)
      BY <1>2, <1>3 DEF Sound
    <3>. QED
      BY <1>2, <3>1, <3>2, SameItems
  <2>. QED
    BY <1>1, <1>2, <2>1 DEF Quiet
<1>10. Pinned'
  BY <1>1, <1>2 DEF SInv, Pinned
<1>11. Unmoved'
  BY <1>1, <1>2 DEF SInv, Unmoved, Healthy, Bad
<1>12. EvidenceIsSnapshot' /\ AcceptedIsHealthy' /\ RefusedForAReason'
  BY <1>1 DEF EvidenceIsSnapshot, AcceptedIsHealthy, RefusedForAReason
<1>. QED
  BY <1>2, <1>4, <1>5, <1>6, <1>7, <1>8, <1>9, <1>10, <1>11, <1>12 DEF SInv

\* A refusal of a gate in a server that finds something amiss.
LEMMA Refuses ==
  ASSUME SInv, pc \in {"build", "check"}, mode = "serve", gate # "report",
         UNCHANGED <<vars, cfg, pin, mode, gate, pos, ev, sw, valid, cnt, world, changes, llam,
                     audit, fd, seen, moved>>,
         pc' = "refused",
         ~(seen = {View} /\ pin = {View} /\ Healthy(View) /\ cnt = {})
  PROVE  SInv'
<1>1. /\ IInv' /\ View' = View /\ UsesSoftwareMemory' = UsesSoftwareMemory
      /\ UNCHANGED <<resValid, col>> /\ cfg.require
  BY ViewStays, NextIInv DEF SInv, vars, resultVars, collectorVars, Stages
<1>2. StartupTypeOK'
  BY DEF SInv, StartupTypeOK, Pcs
<1>3. Stages'
  BY <1>1 DEF SInv, Stages, ValuesAreValid, SoftwareNumaIsValid, PlatformPolicyIsValid
<1>4. Views'
  BY <1>1 DEF SInv, Views, Sound, Leq, ObservedFlags
<1>5. Building' /\ Checking' /\ Monitored' /\ Quiet'
  BY DEF Building, Checking, Monitored, Quiet
<1>6. Pinned'
  BY <1>1 DEF SInv, Pinned
<1>7. Unmoved'
  BY <1>1 DEF SInv, Unmoved, Healthy, Bad
<1>8. pin # {} /\ UsesSoftwareMemory => moved \/ cnt # {} \/ \E e \in pin : ~Healthy(e)
  <2>. SUFFICES ASSUME pin # {}, UsesSoftwareMemory, ~moved, cnt = {}, \A e \in pin : Healthy(e)
                PROVE  FALSE
    OBVIOUS
  <2>1. seen = {View} /\ \A e \in pin : e = View
    BY DEF SInv, Unmoved
  <2>2. pin = {View}
    BY <2>1
  <2>. QED
    BY <2>1, <2>2
<1>9. RefusedForAReason'
  <2>1. \A e : Healthy(e)' = Healthy(e)
    BY DEF Healthy, Bad
  <2>2. Healthy(View') = Healthy(View)
    BY <1>1
  <2>. QED
    BY <1>1, <1>8, <2>1, <2>2 DEF RefusedForAReason, Healthy, Bad
<1>10. EvidenceIsSnapshot' /\ AcceptedIsHealthy'
  BY DEF EvidenceIsSnapshot, AcceptedIsHealthy
<1>. QED
  BY <1>1, <1>2, <1>3, <1>4, <1>5, <1>6, <1>7, <1>9, <1>10 DEF SInv

LEMMA GateBrokenHolds ==
  ASSUME SInv, GateBroken, UNCHANGED vars
  PROVE  SInv'
<1>1. /\ UNCHANGED <<cfg, mode, gate, pos, ev, sw, valid, cnt, world, changes, llam, audit, fd,
                     seen, moved>>
      /\ pc = "build" /\ pos = 0
      /\ pc' = IF gate = "report" THEN "printed" ELSE "refused"
      /\ pin' = IF gate = "report" THEN {} ELSE pin
      /\ gate = "report" <=> mode = "report"
      /\ mode \in {"report", "serve"}
  BY DEF GateBroken, SInv, Stages, StartupTypeOK
<1>2. CASE gate # "report"
  <2>1. ~(seen = {View} /\ Healthy(View))
    BY <1>1 DEF SInv, Quiet
  <2>. QED
    BY <1>1, <1>2, <2>1, Refuses
<1>3. CASE gate = "report"
  <2>1. /\ IInv' /\ View' = View /\ UsesSoftwareMemory' = UsesSoftwareMemory
        /\ UNCHANGED <<resValid, col>>
    BY <1>1, ViewStays, NextIInv DEF SInv, vars, resultVars, collectorVars
  <2>2. StartupTypeOK'
    BY <1>1, <1>3 DEF SInv, StartupTypeOK, Pcs
  <2>3. Stages'
    BY <1>1, <1>3, <2>1 DEF SInv, Stages, ValuesAreValid, SoftwareNumaIsValid,
                            PlatformPolicyIsValid
  <2>4. Views'
    BY <1>1, <2>1 DEF SInv, Views, Sound, Leq, ObservedFlags
  <2>5. Building' /\ Checking' /\ Monitored' /\ Quiet'
    BY <1>1, <1>3 DEF Building, Checking, Monitored, Quiet
  <2>6. Pinned'
    BY <1>1, <1>3 DEF Pinned
  <2>7. Unmoved'
    BY <1>1, <1>3, <2>1 DEF SInv, Unmoved
  <2>8. EvidenceIsSnapshot' /\ AcceptedIsHealthy' /\ RefusedForAReason'
    BY <1>1, <1>3 DEF EvidenceIsSnapshot, AcceptedIsHealthy, RefusedForAReason
  <2>. QED
    BY <2>1, <2>2, <2>3, <2>4, <2>5, <2>6, <2>7, <2>8 DEF SInv
<1>. QED
  BY <1>2, <1>3

-----------------------------------------------------------------------------
(* The second pass *)

LEMMA ChecksAt ==
  /\ CheckReads[1] = Read("count", "dom") /\ CheckReads[2] = Read("count", "place")
  /\ CheckReads[3] = Read("ready", "latch") /\ CheckReads[4] = Read("same", "key")
  /\ CheckReads[5] = Read("same", "place") /\ CheckReads[6] = Read("same", "ident")
  /\ CheckReads[7] = Read("same", "latch") /\ CheckReads[8] = Read("same", "edac")
  /\ CheckReads[9] = Read("same", "dom") /\ CheckReads[10] = Read("same", "key")
BY DEF CheckReads

\* An item that reads the same again was that in between.
LEMMA SameIs ==
  ASSUME SInv, pc = "check", NEW a \in Items, Same(a)
  PROVE  ev[a] = View[a]
<1>1. /\ ev \in Evidence /\ View \in Evidence /\ Sound(View)
  BY SInvFacts DEF Sound
<1>2. CASE a # "edac"
  BY <1>2 DEF Same, SameIdent, SameLatch, SamePlace, SameDom, SameKey, Items
<1>3. CASE a = "edac"
  <2>1. CASE ev.flags # {}
    BY <1>3, <2>1 DEF Same, SameEdac
  <2>2. CASE ev.flags = {}
    <3>1. PICK m \in seen : Leq(ev, m)
      BY DEF SInv, Checking, Checked
    <3>2. m \in Evidence /\ Leq(m, View)
      BY DEF SInv, Views, Sound
    <3>3. Leq(ev, View)
      BY <1>1, <3>1, <3>2, LeqTrans
    <3>4. ev["edac"] <= View["edac"] /\ ev["edac"] \in 0..3 /\ View["edac"] \in 0..3
      BY <1>1, <3>3, Items6 DEF Leq, Items
    <3>5. ev.edac = 3
      <4>1. ev.flags = ObservedFlags(ev.edac)
        BY DEF SInv, Checking
      <4>. QED
        BY <2>2, <3>4, <4>1, Flags
    <3>. QED
      BY <1>3, <3>4, <3>5
  <2>. QED
    BY <2>1, <2>2
<1>. QED
  BY <1>2, <1>3

LEMMA SameFinds ==
  ASSUME Sound(View), ev = View, NEW a \in Items
  PROVE  Same(a)
BY DEF Same, SameEdac, SameIdent, SameLatch, SamePlace, SameDom, SameKey, Items

LEMMA GateCheckHolds ==
  ASSUME SInv, GateCheck, UNCHANGED vars
  PROVE  SInv'
<1>1. /\ UNCHANGED <<cfg, pin, mode, pc, gate, ev, world, changes, llam, audit, fd, seen, moved>>
      /\ pc = "check" /\ pos \in 1..10 /\ Checks(CheckReads[pos])
  BY Positions DEF GateCheck, SInv, Checking
<1>2. /\ IInv' /\ View' = View /\ UsesSoftwareMemory' = UsesSoftwareMemory
      /\ UNCHANGED <<resValid, col>> /\ Sound(View) /\ View \in Evidence
  BY <1>1, ViewStays, NextIInv, SInvFacts
  DEF SInv, vars, resultVars, collectorVars, Sound
<1>. DEFINE r == CheckReads[pos]
<1>3. /\ pos' = pos + 1
      /\ cnt' = IF r.op = "count" /\ Bad(View, r.of) THEN cnt \cup {r.of} ELSE cnt
      /\ sw' = (sw /\ (r.op = "ready" => ~Bad(View, r.of)))
      /\ valid' = (valid /\ (r.op = "same" => Same(r.of)))
  BY <1>1 DEF Checks, Counts
<1>4. /\ r.op = "count" => r.of \in {"dom", "place"} /\ pos <= 2
      /\ r.op = "ready" => r.of = "latch" /\ pos = 3
      /\ r.op = "same" => r.of \in Items
      /\ pos = 2 => r.op = "count" /\ r.of = "place"
      /\ pos = 3 => r.op = "ready" /\ r.of = "latch"
      /\ \A a \in Items : CheckedAt(a) = pos => r.op = "same" /\ r.of = a
  BY <1>1, ChecksAt DEF Read, Items, CheckedAt
<1>. HIDE DEF r
<1>5. /\ sw' \in BOOLEAN /\ valid' \in BOOLEAN /\ cnt' \subseteq {"latch", "dom", "place"}
      /\ cnt \subseteq cnt' /\ (sw' => sw) /\ (valid' => valid)
  <2>1. sw' \in BOOLEAN /\ valid' \in BOOLEAN /\ (sw' => sw) /\ (valid' => valid)
    BY <1>3 DEF SInv, StartupTypeOK
  <2>2. cnt' \subseteq {"latch", "dom", "place"} /\ cnt \subseteq cnt'
    BY <1>3, <1>4 DEF SInv, StartupTypeOK
  <2>. QED
    BY <2>1, <2>2
<1>6. StartupTypeOK'
  BY <1>1, <1>3, <1>5, Positions DEF SInv, StartupTypeOK
<1>7. Stages'
  BY <1>1, <1>2 DEF SInv, Stages, ValuesAreValid, SoftwareNumaIsValid, PlatformPolicyIsValid
<1>8. Views'
  BY <1>1, <1>2 DEF SInv, Views, Sound, Leq, ObservedFlags
<1>9. Checking'
  <2>1. PICK m \in seen : Checked(pos, m)
    BY <1>1 DEF SInv, Checking
  <2>2. m \in Evidence /\ ev \in Evidence /\ Leq(ev, m) /\ Leq(m, View)
    BY <2>1, SInvFacts DEF SInv, Views, Checked
  <2>3. \A a \in Items : ev[a] \in 0..3 /\ m[a] \in 0..3 /\ View[a] \in 0..3
    BY <1>2, <2>2, Items6
  <2>4. ASSUME valid', NEW a \in Items, CheckedAt(a) < pos + 1
        PROVE  ev[a] = m[a]
    <3>1. CASE CheckedAt(a) < pos
      BY <1>5, <2>1, <2>4, <3>1 DEF Checked
    <3>2. CASE CheckedAt(a) = pos
      <4>1. Same(a)
        BY <1>3, <1>4, <2>4, <3>2
      <4>2. ev[a] = View[a]
        BY <1>1, <4>1, SameIs
      <4>. QED
        BY <2>2, <2>3, <4>2 DEF Leq
    <3>. QED
      BY <1>1, <2>4, <3>1, <3>2, ReadsAt
  <2>5. pos' > 2 /\ cnt' = {} => m.place # 2
    <3>1. CASE pos = 2
      <4>1. cnt' = {} => View["place"] # 2
        BY <1>3, <1>4, <3>1 DEF Bad
      <4>2. View["place"] \in 0..2 /\ m["place"] \in 0..2
        BY <1>2, <2>2 DEF Evidence
      <4>. QED
        BY <2>2, <4>1, <4>2 DEF Leq, Items
    <3>2. CASE pos # 2
      BY <1>1, <1>3, <1>5, <2>1, <3>2 DEF Checked
    <3>. QED
      BY <3>1, <3>2
  <2>6. pos' > 3 /\ sw' => m.latch # 2
    <3>1. CASE pos = 3
      <4>1. sw' => View["latch"] # 2
        BY <1>3, <1>4, <3>1 DEF Bad
      <4>2. View["latch"] \in {0, 2} /\ m["latch"] \in {0, 2}
        BY <1>2, <2>2 DEF Evidence
      <4>. QED
        BY <2>2, <4>1, <4>2 DEF Leq, Items
    <3>2. CASE pos # 3
      BY <1>1, <1>3, <1>5, <2>1, <3>2 DEF Checked
    <3>. QED
      BY <3>1, <3>2
  <2>7. Checked(pos, m)'
    <3>1. Leq(ev', m)
      BY <1>1, <2>2
    <3>. QED
      BY <1>1, <1>3, <2>4, <2>5, <2>6, <3>1 DEF Checked, Leq
  <2>8. /\ pos' \in 1..11 /\ ev'.flags = ObservedFlags(ev'.edac) /\ ev'.dom # 2
        /\ ev'.key # 2
    BY <1>1, <1>3 DEF SInv, Checking
  <2>. QED
    BY <1>1, <2>7, <2>8 DEF Checking
<1>10. Building' /\ Monitored'
  BY <1>1 DEF Building, Monitored
<1>11. Quiet'
  <2>1. ASSUME seen = {View}
        PROVE  ev = View /\ valid' /\ (Healthy(View) => sw')
    <3>1. ev = View /\ valid /\ (Healthy(View) => sw)
      BY <1>1, <2>1 DEF SInv, Quiet
    <3>2. valid'
      BY <1>2, <1>3, <1>4, <3>1, SameFinds
    <3>3. Healthy(View) => ~Bad(View, "latch")
      BY DEF Healthy, Items
    <3>. QED
      BY <1>3, <1>4, <3>1, <3>2, <3>3
  <2>. QED
    BY <1>1, <1>2, <2>1 DEF Quiet, Healthy, Bad
<1>12. Pinned'
  BY <1>1, <1>2 DEF SInv, Pinned
<1>13. Unmoved'
  BY <1>1, <1>2, <1>5 DEF SInv, Unmoved, Healthy, Bad
<1>14. EvidenceIsSnapshot' /\ AcceptedIsHealthy' /\ RefusedForAReason'
  BY <1>1 DEF EvidenceIsSnapshot, AcceptedIsHealthy, RefusedForAReason
<1>. QED
  BY <1>2, <1>6, <1>7, <1>8, <1>9, <1>10, <1>11, <1>12, <1>13, <1>14 DEF SInv

-----------------------------------------------------------------------------
(* The end of the second pass *)

\* When nothing differed, the evidence is the view between both passes.
LEMMA AllSame ==
  ASSUME SInv, pc = "check", pos > 10
  PROVE  /\ valid => ev \in seen /\ Sound(ev)
         /\ valid /\ SoftwareReady => ev.place # 2 /\ ev.latch # 2
<1>1. pos = 11 /\ ev.flags = ObservedFlags(ev.edac) /\ ev \in Evidence
  BY SInvFacts DEF SInv, Checking
<1>2. PICK m \in seen : Checked(11, m)
  BY <1>1 DEF SInv, Checking
<1>3. Sound(ev) /\ Sound(m)
  BY <1>1, <1>2 DEF Sound, SInv, Views
<1>4. valid => \A a \in Items : ev[a] = m[a]
  BY <1>2, ReadsAt DEF Checked
<1>5. valid => ev = m
  BY <1>3, <1>4, SameItems
<1>6. SoftwareReady => m.place # 2 /\ m.latch # 2
  BY <1>2 DEF Checked, SoftwareReady
<1>. QED
  BY <1>2, <1>3, <1>5, <1>6

LEMMA ReportPrintedHolds ==
  ASSUME SInv, ReportPrinted, UNCHANGED vars
  PROVE  SInv'
<1>1. /\ UNCHANGED <<cfg, mode, gate, pos, ev, sw, valid, cnt, world, changes, llam, audit, fd,
                     seen, moved>>
      /\ pc = "check" /\ pos > 10 /\ gate = "report" /\ pc' = "printed"
      /\ pin' = IF valid THEN {ev} ELSE {}
  BY Positions DEF ReportPrinted
<1>2. /\ IInv' /\ View' = View /\ UsesSoftwareMemory' = UsesSoftwareMemory
      /\ UNCHANGED <<resValid, col>> /\ mode = "report" /\ ev \in Evidence
  BY <1>1, ViewStays, NextIInv, SInvFacts
  DEF SInv, Stages, vars, resultVars, collectorVars
<1>3. \A p \in pin' : p = ev /\ ev \in seen /\ Sound(ev)
  BY <1>1, AllSame
<1>4. StartupTypeOK'
  BY <1>1, <1>2 DEF SInv, StartupTypeOK, Pcs
<1>5. Stages'
  BY <1>1, <1>2 DEF SInv, Stages, ValuesAreValid, SoftwareNumaIsValid, PlatformPolicyIsValid
<1>6. Views'
  BY <1>1, <1>2 DEF SInv, Views, Sound, Leq, ObservedFlags
<1>7. Building' /\ Checking' /\ Monitored' /\ Quiet'
  BY <1>1 DEF Building, Checking, Monitored, Quiet
<1>8. Pinned'
  BY <1>1, <1>3 DEF Pinned, Sound, ObservedFlags
<1>9. Unmoved'
  BY <1>1, <1>2, <1>3 DEF SInv, Unmoved
<1>10. EvidenceIsSnapshot' /\ AcceptedIsHealthy' /\ RefusedForAReason'
  BY <1>1, <1>3 DEF EvidenceIsSnapshot, AcceptedIsHealthy, RefusedForAReason
<1>. QED
  BY <1>2, <1>4, <1>5, <1>6, <1>7, <1>8, <1>9, <1>10 DEF SInv

\* A gate finds nothing missing in a healthy machine that does not move.
LEMMA GateWouldPass ==
  ASSUME SInv, pc = "check", cfg.require, seen = {View}, pin = {View}, Healthy(View),
         cnt = {}
  PROVE  GatePassed /\ pin = {ev} /\ RequestBound
<1>1. ev = View /\ valid /\ sw /\ Sound(View)
  BY SInvFacts DEF SInv, Quiet
<1>2. ValuesAreValid(cfg) /\ cfg \in CfgRecords
  BY StartupAssumption DEF SInv, Stages, StartupTypeOK
<1>3. cfg.ecc /\ cfg.sep /\ PayloadEccReady
  BY <1>2 DEF ValuesAreValid, PlatformPolicyIsValid, CfgRecords, PayloadEccReady
<1>4. View.flags = BothEcc
  <2>1. View.edac \in 0..3 /\ ~(View.edac >= 2)
    BY <1>1 DEF Sound, Evidence, Healthy, Bad, Items
  <2>. QED
    BY <1>1, <2>1, Flags DEF Sound
<1>5. EccReady /\ RequestBound /\ IdentityReady
  <2>1. ~Bad(View, "ident")
    BY DEF Healthy, Items
  <2>. QED
    BY <1>1, <1>4, <2>1 DEF EccReady, RequestBound, IdentityReady
<1>. QED
  BY <1>1, <1>3, <1>5 DEF GatePassed, SoftwareReady

LEMMA GateDecidesHolds ==
  ASSUME SInv, GateDecides, UNCHANGED vars
  PROVE  SInv'
<1>1. /\ UNCHANGED <<cfg, pin, mode, gate, pos, ev, sw, valid, cnt, world, changes, llam, audit,
                     fd, seen, moved>>
      /\ pc = "check" /\ pos > 10 /\ gate # "report"
      /\ pc' = IF GatePassed /\ pin = {ev} /\ (gate = "init" => RequestBound)
                 THEN "accepted" ELSE "refused"
  BY Positions DEF GateDecides
<1>2. /\ IInv' /\ View' = View /\ UsesSoftwareMemory' = UsesSoftwareMemory
      /\ UNCHANGED <<resValid, col>> /\ mode = "serve" /\ ev \in Evidence /\ cfg.require
  BY <1>1, ViewStays, NextIInv, SInvFacts
  DEF SInv, Stages, StartupTypeOK, vars, resultVars, collectorVars
<1>3. CASE ~(GatePassed /\ pin = {ev} /\ (gate = "init" => RequestBound))
  <2>1. ~(seen = {View} /\ pin = {View} /\ Healthy(View) /\ cnt = {})
    BY <1>1, <1>2, <1>3, GateWouldPass
  <2>2. pc' = "refused"
    BY <1>1, <1>3
  <2>. QED
    BY <1>1, <1>2, <2>1, <2>2, Refuses
<1>4. CASE GatePassed /\ pin = {ev}
  <2>0. CASE pc' = "refused"
    BY <1>1, <1>2, <1>3, <1>4, <2>0
  <2>1. CASE pc' = "accepted"
    <3>1. valid /\ SoftwareReady /\ EccReady /\ IdentityReady /\ cnt = {}
      BY <1>4 DEF GatePassed, SoftwareReady
    <3>2. ev \in seen /\ Sound(ev) /\ ev.place # 2 /\ ev.latch # 2
      BY <1>1, <3>1, AllSame
    <3>3. Healthy(ev)
      <4>1. ev.edac \in 0..3 /\ ~(ev.edac >= 2)
        BY <3>1, <3>2, Flags DEF EccReady, Sound, Evidence
      <4>2. ev.dom # 2 /\ ev.key # 2
        BY <1>1 DEF SInv, Checking
      <4>3. ev.ident # 2
        BY <3>1 DEF IdentityReady, Bad
      <4>. QED
        BY <3>2, <4>1, <4>2, <4>3 DEF Healthy, Bad, Items
    <3>4. StartupTypeOK'
      BY <1>1, <2>1 DEF SInv, StartupTypeOK, Pcs
    <3>5. Stages'
      BY <1>1, <1>2, <2>1 DEF SInv, Stages, ValuesAreValid, SoftwareNumaIsValid,
                              PlatformPolicyIsValid
    <3>6. Views'
      BY <1>1, <1>2 DEF SInv, Views, Sound, Leq, ObservedFlags
    <3>7. Building' /\ Checking' /\ Monitored' /\ Quiet'
      BY <2>1 DEF Building, Checking, Monitored, Quiet
    <3>8. Pinned'
      BY <1>1, <1>2, <2>1 DEF SInv, Pinned
    <3>9. Unmoved'
      BY <1>1, <1>2, <2>1 DEF SInv, Unmoved, Healthy, Bad
    <3>10. EvidenceIsSnapshot' /\ RefusedForAReason'
      BY <2>1 DEF EvidenceIsSnapshot, RefusedForAReason
    <3>11. AcceptedIsHealthy'
      BY <1>1, <1>4, <3>1, <3>2, <3>3 DEF AcceptedIsHealthy, Healthy, Bad
    <3>. QED
      BY <1>2, <3>4, <3>5, <3>6, <3>7, <3>8, <3>9, <3>10, <3>11 DEF SInv
  <2>. QED
    BY <1>1, <2>0, <2>1
<1>. QED
  BY <1>3, <1>4

-----------------------------------------------------------------------------
(* The machine changes *)

\* As ViewSound, after a step.
LEMMA NextViewSound ==
  ASSUME \A a \in Items : world'[a] \in Values(a)
  PROVE  Sound(View')
<1>1. /\ world'.edac \in 0..3 /\ world'.latch \in {0, 2} /\ world'.ident \in 0..2
      /\ world'.place \in 0..2 /\ world'.dom \in 0..2 /\ world'.key \in 0..2
  BY DEF Items, Values
<1>2. /\ EdacRead' \in 0..3 /\ IdentRead' \in 0..3 /\ PlaceRead' \in 0..2
      /\ DomRead' \in 0..2 /\ KeyRead' \in 0..2
  BY <1>1 DEF EdacRead, EdacProbed, EdacSynthesized, IdentRead, PlaceRead, PlaceProbed,
              DomRead, DomProbed, DomSynthesized, KeyRead
<1>3. ObservedFlags(EdacRead') \in SUBSET BothEcc
  BY <1>2, Flags
<1>4. View' = [edac |-> EdacRead', ident |-> IdentRead', latch |-> world'.latch,
               place |-> PlaceRead', dom |-> DomRead', key |-> KeyRead',
               flags |-> ObservedFlags(EdacRead')]
  BY DEF View, ObservedFlags
<1>. QED
  BY <1>1, <1>2, <1>3, <1>4 DEF Sound, Evidence

LEMMA WorldGrows ==
  ASSUME SInv, WorldChanges
  PROVE  /\ world' = [a \in Items |-> world'[a]]
         /\ \A a \in Items : world'[a] \in Values(a) /\ world[a] <= world'[a]
<1>1. PICK d \in Drifts :
        /\ \A a \in DOMAIN d : d[a] > world[a]
        /\ world' = [a \in Items |-> IF a \in DOMAIN d THEN d[a] ELSE world[a]]
  BY DEF WorldChanges
<1>2. \A a \in DOMAIN d : a \in Items /\ d[a] \in Values(a)
  BY StartupAssumption
<1>3. \A a \in Items : world[a] \in Values(a)
  BY DEF SInv, StartupTypeOK
<1>4. \A a \in Items : Values(a) \subseteq Int
  BY DEF Values
<1>5. ASSUME NEW a \in Items
      PROVE  world'[a] \in Values(a) /\ world[a] <= world'[a]
  <2>1. CASE a \in DOMAIN d
    <3>1. world'[a] = d[a] /\ d[a] > world[a] /\ d[a] \in Values(a)
      BY <1>1, <1>2, <2>1
    <3>2. d[a] \in Int /\ world[a] \in Int
      BY <1>3, <1>4, <3>1
    <3>. QED
      BY <3>1, <3>2
  <2>2. CASE a \notin DOMAIN d
    <3>1. world'[a] = world[a]
      BY <1>1, <2>2
    <3>2. world[a] \in Int
      BY <1>3, <1>4
    <3>. QED
      BY <1>3, <3>1, <3>2
  <2>. QED
    BY <2>1, <2>2
<1>6. world' = [a \in Items |-> world'[a]]
  BY <1>1
<1>. QED
  BY <1>5, <1>6

LEMMA WorldChangesHolds ==
  ASSUME SInv, WorldChanges
  PROVE  SInv'
<1>1. /\ UNCHANGED <<cfg, pin, mode, pc, gate, pos, ev, sw, valid, cnt, llam, audit, fd, vars>>
      /\ changes < ChangeMax /\ changes' = changes + 1
      /\ mode = "serve" => pc \notin {"failed", "refused", "exited"}
      /\ seen' = IF seen = {} THEN {} ELSE seen \cup {View'}
      /\ moved' = (moved \/ View' # View)
  BY DEF WorldChanges
<1>2. /\ world' = [a \in Items |-> world'[a]]
      /\ \A a \in Items : world'[a] \in Values(a)
      /\ \A a \in Items : world[a] <= world'[a]
  BY WorldGrows
<1>3. Leq(View, View')
  BY <1>1, <1>2, ViewGrows DEF SInv, StartupTypeOK
<1>4. Sound(View') /\ Sound(View)
  BY <1>2, NextViewSound, SInvFacts
<1>5. View \in Evidence /\ View' \in Evidence /\ Sound(View')
  BY <1>4 DEF Sound
<1>6. UsesSoftwareMemory' = UsesSoftwareMemory /\ IInv'
      /\ UNCHANGED <<resValid, resGen, resOk, conGen, col>>
  BY <1>1, NextIInv DEF SInv, vars, resultVars, collectorVars, UsesSoftwareMemory
<1>7. \A s \in seen : s \in Evidence /\ Leq(s, View') /\ Sound(s)
  <2>1. \A s \in seen : s \in Evidence /\ Leq(s, View) /\ Sound(s)
    BY DEF SInv, Views, Sound
  <2>. QED
    BY <1>3, <1>5, <2>1, LeqTrans
<1>8. seen \subseteq seen' /\ (seen' = {} <=> seen = {})
  BY <1>1
<1>9. StartupTypeOK'
  <2>1. moved' \in BOOLEAN
    BY <1>1 DEF SInv, StartupTypeOK
  <2>2. changes' \in 0..ChangeMax
    BY <1>1, StartupAssumption DEF SInv, StartupTypeOK
  <2>. QED
    BY <1>1, <1>2, <2>1, <2>2 DEF SInv, StartupTypeOK
<1>10. Stages'
  BY <1>1, <1>2, <1>6, <1>8 DEF SInv, Stages, ValuesAreValid, SoftwareNumaIsValid,
                                PlatformPolicyIsValid
<1>11. Views'
  <2>1. Leq(View', View')
    BY <1>5, LeqRefl
  <2>2. \A s \in seen' : Sound(s) /\ Leq(s, View')
    BY <1>1, <1>5, <1>7, <2>1
  <2>3. seen' # {} => View' \in seen'
    BY <1>1
  <2>. QED
    BY <2>2, <2>3 DEF Views, Sound, Leq, ObservedFlags
<1>12. \A a \in Items : View[a] \in 0..3 /\ View'[a] \in 0..3 /\ View[a] <= View'[a]
  BY <1>3, <1>5, Items6 DEF Leq
<1>13. ASSUME pos \in 0..11, Built(pos)
       PROVE  Built(pos)'
  <2>0. pos' = pos /\ ev' = ev
    BY <1>1
  <2>1. \A a \in Items : ev[a] \in 0..3
    BY Items6, SInvFacts
  <2>2. \A a \in Items : TakenAt(a) < pos => ev[a] <= View'[a]
    BY <1>12, <1>13, <2>1 DEF Built
  <2>3. pos > 1 => (ev.flags = {} => View'.edac = 3)
    BY <1>12, <1>13 DEF Built, Items
  <2>. QED
    BY <1>13, <2>0, <2>2, <2>3 DEF Built
<1>14. Building'
  BY <1>1, <1>6, <1>13, SInvFacts DEF SInv, Building
<1>15. Checking'
  <2>1. ASSUME pc = "check"
        PROVE  \E m \in seen' : Checked(pos, m)'
    <3>1. PICK m \in seen : Checked(pos, m)
      BY <2>1 DEF SInv, Checking
    <3>2. Checked(pos, m)'
      BY <1>1, <3>1 DEF Checked, Leq
    <3>. QED
      BY <1>8, <3>1, <3>2
  <2>. QED
    BY <1>1, <2>1 DEF SInv, Checking, ObservedFlags
<1>16. Monitored'
  <2>1. ASSUME pc = "run", col = "collect", pos >= 1
        PROVE  \E s \in seen' : /\ \A p \in pin : Leq(p, s)
                                /\ \A a \in Items : TakenAt(a) < pos => s[a] <= ev[a]
    BY <1>8, <2>1 DEF SInv, Monitored
  <2>. QED
    BY <1>1, <1>6, <2>1 DEF Monitored, Leq
<1>17. seen' = {View'} => View' = View /\ seen = {View}
  BY <1>1 DEF SInv, Views
<1>18. Quiet'
  <2>. SUFFICES ASSUME seen' = {View'} PROVE Quiet'
    BY DEF Quiet
  <2>. QED
    BY <1>1, <1>17 DEF SInv, Quiet, Healthy, Bad
<1>19. Pinned'
  <2>1. ASSUME NEW p \in pin, Leq(p, View)
        PROVE  Leq(p, View')
    BY <1>3, <1>5, <2>1, LeqTrans DEF SInv, Pinned, Sound
  <2>2. ASSUME pc \in {"listen", "spawn", "run"}, cfg.require
        PROVE  \E p \in pin : pin = {p} /\ Leq(p, View')
    BY <2>1, <2>2 DEF SInv, Pinned
  <2>. QED
    BY <1>1, <2>2 DEF SInv, Pinned, Sound, Leq, ObservedFlags
<1>20. Unmoved'
  <2>1. ~moved' => ~moved /\ View' = View
    BY <1>1 DEF SInv, StartupTypeOK
  <2>. SUFFICES ASSUME ~moved' PROVE Unmoved'
    BY DEF Unmoved
  <2>2. seen = {View} => seen' = {View'}
    BY <1>1, <2>1
  <2>. QED
    BY <1>1, <1>6, <2>1, <2>2 DEF SInv, Unmoved, Healthy, Bad
<1>21. EvidenceIsSnapshot'
  BY <1>1, <1>6, <1>8 DEF SInv, EvidenceIsSnapshot, ResultReady
<1>22. AcceptedIsHealthy'
  BY <1>1, <1>8 DEF SInv, AcceptedIsHealthy, Healthy, Bad
<1>23. RefusedForAReason'
  BY <1>1 DEF SInv, Stages, RefusedForAReason
<1>. QED
  BY <1>6, <1>9, <1>10, <1>11, <1>14, <1>15, <1>16, <1>18, <1>19, <1>20, <1>21, <1>22, <1>23
  DEF SInv

-----------------------------------------------------------------------------
(* The running server *)

Collected ==
  /\ pos \in 0..11 /\ ev \in Evidence
  /\ col = "collect" /\ pos >= 1 =>
       /\ pos <= 9 /\ Built(pos)
       /\ \E s \in seen : /\ \A p \in pin : Leq(p, s)
                          /\ \A a \in Items : TakenAt(a) < pos => s[a] <= ev[a]
  /\ ResultReady /\ resOk => pin = {ev} /\ ev \in seen

\* Steps of the running server change the evidence of the collector only.
LEMMA RunKeeps ==
  ASSUME SInv, Monitoring, [Next]_vars,
         UNCHANGED <<cfg, pin, mode, pc, gate, sw, valid, cnt, world, changes, llam, audit,
                     moved>>,
         fd' \in {"none", "main", "server"}, seen' \in {seen, {}, {View}}, Collected'
  PROVE  SInv'
<1>1. /\ IInv' /\ View' = View /\ UsesSoftwareMemory' = UsesSoftwareMemory
      /\ pc = "run" /\ pc' = "run" /\ mode = "serve" /\ Sound(View) /\ View \in Evidence
  BY ViewStays, NextIInv, SInvFacts DEF SInv, Monitoring, Stages, Sound
<1>2. StartupTypeOK'
  BY Positions DEF SInv, StartupTypeOK, Collected
<1>3. Stages'
  BY <1>1 DEF SInv, Stages, ValuesAreValid, SoftwareNumaIsValid, PlatformPolicyIsValid
<1>4. Views'
  <2>1. Leq(View, View)
    BY <1>1, LeqRefl
  <2>2. \A s \in seen : Sound(s) /\ Leq(s, View)
    BY DEF SInv, Views
  <2>3. \A s \in seen' : Sound(s) /\ Leq(s, View)
    BY <1>1, <2>1, <2>2
  <2>4. seen' # {} => View \in seen'
    BY DEF SInv, Views
  <2>. QED
    BY <1>1, <2>3, <2>4 DEF Views, Sound, Leq, ObservedFlags
<1>5. Building' /\ Monitored'
  BY <1>1 DEF Building, Monitored, Collected
<1>6. Checking' /\ Quiet' /\ AcceptedIsHealthy' /\ RefusedForAReason'
  BY <1>1 DEF Checking, Quiet, AcceptedIsHealthy, RefusedForAReason
<1>7. Pinned'
  BY <1>1 DEF SInv, Pinned
<1>8. Unmoved'
  BY <1>1 DEF SInv, Unmoved, Healthy, Bad
<1>9. EvidenceIsSnapshot'
  BY <1>1 DEF EvidenceIsSnapshot, Collected
<1>. QED
  BY <1>1, <1>2, <1>3, <1>4, <1>5, <1>6, <1>7, <1>8, <1>9 DEF SInv

LEMMA IsCollected ==
  ASSUME SInv, Monitoring
  PROVE  Collected
BY SInvFacts DEF SInv, Monitoring, Collected, Building, Monitored, EvidenceIsSnapshot

\* Steps that leave the evidence alone, and publish nothing good.
LEMMA RunSame ==
  ASSUME SInv, Monitoring, [Next]_vars,
         UNCHANGED <<cfg, pin, mode, pc, gate, pos, ev, sw, valid, cnt, world, changes, llam,
                     audit, seen, moved>>,
         fd' \in {"none", "main", "server"},
         col' = "collect" => col = "collect",
         ResultReady' /\ resOk' => ResultReady /\ resOk
  PROVE  SInv'
<1>1. View' = View
  BY ViewStays
<1>2. Collected'
  BY <1>1, IsCollected DEF Collected, Built, Leq, ObservedFlags
<1>. QED
  BY <1>2, RunKeeps

LEMMA RunServerHolds ==
  ASSUME SInv, RunServerStarts \/ RunServerStops
  PROVE  SInv'
<1>1. [Next]_vars
  BY MonitorStep DEF StartupNext, Run
<1>2. /\ Monitoring /\ fd' \in {"none", "main", "server"}
      /\ UNCHANGED <<cfg, pin, mode, pc, gate, pos, ev, sw, valid, cnt, world, changes, llam,
                     audit, seen, moved>>
  BY DEF RunServerStarts, RunServerStops, RunServer
<1>3. /\ UNCHANGED <<resultVars, conGen>>
      /\ col' = "collect" => col = "collect"
  BY DEF RunServerStarts, RunServerStops, RunServer, ServerStart, ServerStartFails, ServerStops,
         collectorVars
<1>. QED
  BY <1>1, <1>2, <1>3, RunSame DEF resultVars, ResultReady

LEMMA RunOtherHolds ==
  ASSUME SInv, RunRejects \/ RunEnds \/ RunWatch \/ RunSignal \/ RunTick
  PROVE  SInv'
<1>1. [Next]_vars
  BY MonitorStep DEF StartupNext, Run
<1>2. /\ Monitoring /\ fd' \in {"none", "main", "server"}
      /\ UNCHANGED <<cfg, pin, mode, pc, gate, pos, ev, sw, valid, cnt, world, changes, llam,
                     audit, seen, moved>>
  BY DEF RunRejects, RunEnds, RunWatch, RunSignal, RunTick, Runs, bootVars, SInv, StartupTypeOK
<1>3. CASE RunRejects
  <2>1. resOk' = FALSE /\ col' = col
    BY <1>3 DEF RunRejects, Runs, CollectorBadMessage, collectorVars
  <2>. QED
    BY <1>1, <1>2, <2>1, RunSame
<1>4. CASE RunEnds
  <2>1. col' = "ended" /\ UNCHANGED <<resultVars, conGen>>
    BY <1>4 DEF RunEnds, Runs, CollectorEnds
  <2>. QED
    BY <1>1, <1>2, <2>1, RunSame DEF resultVars, ResultReady
<1>5. CASE RunWatch
  <2>1. UNCHANGED <<resultVars, collectorVars, conGen>>
    BY <1>5 DEF RunWatch, Runs, WatchdogTop, TickNoConfig, TickGateFails, PassRecorded,
                FailureRecorded, WatchdogWakes
  <2>. QED
    BY <1>1, <1>2, <2>1, RunSame DEF resultVars, collectorVars, ResultReady
<1>6. CASE RunSignal \/ RunTick
  <2>1. UNCHANGED <<resultVars, collectorVars, conGen>>
    BY <1>6 DEF RunSignal, RunTick, Runs, Signal, Tick
  <2>. QED
    BY <1>1, <1>2, <2>1, RunSame DEF resultVars, collectorVars, ResultReady
<1>. QED
  BY <1>3, <1>4, <1>5, <1>6

\* A collection begins: with the machine as it was pinned, or past that.
LEMMA RunTakesHolds ==
  ASSUME SInv, RunTakes
  PROVE  SInv'
<1>1. [Next]_vars
  BY MonitorStep DEF StartupNext, Run
<1>2. /\ Monitoring /\ col' = "collect" /\ busy' = TRUE
      /\ pos' = 1 /\ ev' = Nothing /\ seen' = {View} /\ fd' \in {"none", "main", "server"}
      /\ UNCHANGED <<cfg, pin, mode, pc, gate, sw, valid, cnt, world, changes, llam, audit,
                     moved>>
  BY DEF RunTakes, CollectorTakes, SInv, StartupTypeOK
<1>3. ~(ResultReady' /\ resOk')
  <2>1. RequestPlace'
    BY <1>1, NextIInv DEF SInv, IInv
  <2>. QED
    BY <1>2, <2>1 DEF RequestPlace, PendingOrBusy
<1>4. \A p \in pin : Leq(p, View)
  BY <1>2 DEF SInv, Pinned, Monitoring
<1>5. Collected'
  <2>1. Built(pos)'
    BY <1>2, ReadsAt DEF Built
  <2>2. \A a \in Items : ~(TakenAt(a) < 1)
    BY ReadsAt
  <2>3. ev' \in Evidence /\ pos' \in 0..11 /\ pos' <= 9
    BY <1>2, NothingIs
  <2>4. View \in seen' /\ (\A p \in pin' : Leq(p, View))
    BY <1>2, <1>4
  <2>5. \E s \in seen' : /\ \A p \in pin' : Leq(p, s)
                         /\ \A a \in Items : TakenAt(a) < pos' => s[a] <= ev'[a]
    BY <1>2, <2>2, <2>4
  <2>. QED
    BY <1>3, <2>1, <2>3, <2>5 DEF Collected, Leq
<1>. QED
  BY <1>1, <1>2, <1>5, RunKeeps

LEMMA RunCollectsHolds ==
  ASSUME SInv, RunCollects
  PROVE  SInv'
<1>1. [Next]_vars
  BY MonitorStep DEF StartupNext, Run
<1>2. /\ Monitoring /\ col = "collect" /\ pos \in 1..8 /\ Collects(BuildReads[pos])
      /\ fd' \in {"none", "main", "server"}
      /\ UNCHANGED <<cfg, pin, mode, pc, gate, sw, valid, cnt, world, changes, llam, audit,
                     seen, moved, vars>>
  BY Positions DEF RunCollects, SInv, StartupTypeOK
<1>3. /\ View' = View /\ Built(pos) /\ Sound(View) /\ View \in Evidence
      /\ UNCHANGED <<resValid, resGen, resOk, conGen, col>>
  BY <1>2, ViewStays, IsCollected, SInvFacts
  DEF Collected, Sound, vars, resultVars, collectorVars
<1>4. /\ ev' \in Evidence /\ pos' \in {0, pos + 1}
      /\ pos' >= 1 => Built(pos)'
      /\ \A a \in Items : TakenAt(a) < pos' =>
           ev'[a] = View[a] \/ (TakenAt(a) < pos /\ ev'[a] = ev[a])
  BY <1>2, <1>3, Takes
<1>5. ~(ResultReady /\ resOk)
  BY <1>2 DEF SInv, IInv, RequestPlace, PendingOrBusy
<1>6. PICK s \in seen : /\ \A p \in pin : Leq(p, s)
                        /\ \A a \in Items : TakenAt(a) < pos => s[a] <= ev[a]
  BY <1>2, IsCollected DEF Collected
<1>7. \A a \in Items : s[a] <= View[a]
  BY <1>6 DEF SInv, Views, Leq
<1>8. \A a \in Items : TakenAt(a) < pos' => s[a] <= ev'[a]
  BY <1>4, <1>6, <1>7
<1>9. Collected'
  <2>1. pos' \in 0..11 /\ pos' <= 9
    BY <1>2, <1>4
  <2>2. \E z \in seen' : /\ \A p \in pin' : Leq(p, z)
                         /\ \A a \in Items : TakenAt(a) < pos' => z[a] <= ev'[a]
    BY <1>2, <1>6, <1>8
  <2>. QED
    BY <1>2, <1>3, <1>4, <1>5, <2>1, <2>2 DEF Collected, ResultReady, Leq
<1>. QED
  BY <1>1, <1>2, <1>9, RunKeeps

\* Evidence equal to the pinned one did not fall behind it and is not ahead of
\* it, so it is the view of the moment its collection began.
LEMMA RunPublishesHolds ==
  ASSUME SInv, RunPublishes
  PROVE  SInv'
<1>1. [Next]_vars
  BY MonitorStep DEF StartupNext, Run
<1>2. /\ Monitoring /\ col = "collect" /\ col' = "recv"
      /\ resOk' => pos > 8 /\ pin = {ev}
      /\ fd' \in {"none", "main", "server"}
      /\ UNCHANGED <<cfg, pin, mode, pc, gate, pos, ev, sw, valid, cnt, world, changes, llam,
                     audit, seen, moved>>
  BY Positions
  DEF RunPublishes, CollectorPublishes, bootVars, SInv, StartupTypeOK, SnapshotGood
<1>3. ASSUME resOk'
      PROVE  pin = {ev} /\ ev \in seen
  <2>1. pin = {ev} /\ pos > 8 /\ pos >= 1
    BY <1>2, <1>3, SInvFacts
  <2>2. PICK s \in seen : /\ \A p \in pin : Leq(p, s)
                          /\ \A a \in Items : TakenAt(a) < pos => s[a] <= ev[a]
    BY <1>2, <2>1, IsCollected DEF Collected
  <2>3. Leq(ev, s) /\ Leq(s, ev)
    BY <2>1, <2>2, ReadsAt, SInvFacts DEF Leq
  <2>4. Sound(ev) /\ Sound(s)
    BY <2>1 DEF SInv, Pinned, Views
  <2>5. ev = s
    BY <2>3, <2>4, LeqBoth
  <2>. QED
    BY <2>1, <2>5
<1>4. Collected'
  BY <1>2, <1>3, SInvFacts DEF Collected
<1>. QED
  BY <1>1, <1>2, <1>4, RunKeeps

LEMMA RunPollsHolds ==
  ASSUME SInv, RunPolls
  PROVE  SInv'
<1>1. [Next]_vars
  BY MonitorStep DEF StartupNext, Run
<1>2. /\ Monitoring /\ fd' \in {"none", "main", "server"}
      /\ IF ResultReady THEN Forget ELSE UNCHANGED <<pos, ev, seen>>
      /\ UNCHANGED <<cfg, pin, mode, pc, gate, sw, valid, cnt, world, changes, llam, audit,
                     moved>>
  BY DEF RunPolls, SInv, StartupTypeOK
<1>3. ~ResultReady' /\ col' = col
  <2>1. UNCHANGED <<resGen, resValid, col>>
    BY DEF RunPolls, TickPolls, resultVars, collectorVars
  <2>2. conGen' = resGen \/ (conGen' = conGen /\ ~ResultReady)
    BY DEF RunPolls, TickPolls, PollFails, PollContent, TakeResult
  <2>. QED
    BY <2>1, <2>2 DEF ResultReady
<1>4. CASE ResultReady
  <2>1. pos' = 0 /\ ev' = Nothing /\ seen' = {}
    BY <1>2, <1>4 DEF Forget
  <2>2. Collected'
    BY <1>3, <2>1, NothingIs DEF Collected
  <2>. QED
    BY <1>1, <1>2, <2>1, <2>2, RunKeeps
<1>5. CASE ~ResultReady
  BY <1>1, <1>2, <1>3, <1>5, RunSame
<1>. QED
  BY <1>4, <1>5

-----------------------------------------------------------------------------
(* The theorems *)

LEMMA InitHolds == StartupInit => SInv
<1>. SUFFICES ASSUME StartupInit PROVE SInv
  OBVIOUS
<1>1. /\ IInv /\ cfg \in Cfgs /\ pin = {} /\ mode \in {"report", "serve"}
      /\ pc = "boot" /\ gate = "init" /\ pos = 0 /\ ev = Nothing /\ cnt = {}
      /\ changes = 0 /\ fd = "none" /\ seen = {} /\ ~moved /\ ~llam /\ ~audit
      /\ world = [a \in Items |-> IF a = "latch" THEN 2 ELSE 0]
      /\ ~resValid /\ col # "collect"
  BY InitIInv DEF StartupInit, Init
<1>2. sw \in BOOLEAN /\ valid \in BOOLEAN /\ llam \in BOOLEAN /\ audit \in BOOLEAN
      /\ moved \in BOOLEAN
  BY DEF StartupInit
<1>3. \A a \in Items : world[a] \in Values(a)
  BY <1>1 DEF Values
<1>4. StartupTypeOK
  BY <1>1, <1>2, <1>3, NothingIs, Positions, StartupAssumption DEF StartupTypeOK, Pcs
<1>5. Stages
  BY <1>1 DEF Stages
<1>6. Views /\ Building /\ Checking /\ Monitored /\ Quiet /\ Pinned /\ Unmoved
  BY <1>1 DEF Views, Building, Checking, Monitored, Quiet, Pinned, Unmoved
<1>7. EvidenceIsSnapshot /\ AcceptedIsHealthy /\ RefusedForAReason
  BY <1>1 DEF EvidenceIsSnapshot, AcceptedIsHealthy, RefusedForAReason
<1>. QED
  BY <1>1, <1>4, <1>5, <1>6, <1>7 DEF SInv

LEMMA StutterHolds ==
  ASSUME SInv, UNCHANGED all
  PROVE  SInv'
<1>1. /\ UNCHANGED <<cfg, pin, mode, pc, gate, pos, ev, sw, valid, cnt, world, changes, llam,
                     audit, fd, seen, moved>>
      /\ UNCHANGED vars /\ UNCHANGED <<resValid, resGen, resOk, conGen, col>>
  BY DEF all, bootVars, vars, resultVars, collectorVars
<1>2. View' = View /\ UsesSoftwareMemory' = UsesSoftwareMemory /\ IInv'
  BY <1>1, ViewStays, NextIInv DEF SInv
<1>3. StartupTypeOK'
  BY <1>1 DEF SInv, StartupTypeOK
<1>4. Stages'
  BY <1>1 DEF SInv, Stages, ValuesAreValid, SoftwareNumaIsValid, PlatformPolicyIsValid
<1>5. Views' /\ Pinned'
  BY <1>1, <1>2 DEF SInv, Views, Pinned, Sound, Leq, ObservedFlags
<1>6. Building'
  BY <1>1, <1>2 DEF SInv, Building, Built, ObservedFlags
<1>7. Checking' /\ Monitored'
  BY <1>1, <1>2 DEF SInv, Checking, Checked, Monitored, Leq, ObservedFlags
<1>8. Quiet' /\ Unmoved'
  BY <1>1, <1>2 DEF SInv, Quiet, Unmoved, Healthy, Bad
<1>9. EvidenceIsSnapshot'
  BY <1>1 DEF SInv, EvidenceIsSnapshot, ResultReady
<1>10. AcceptedIsHealthy' /\ RefusedForAReason'
  BY <1>1, <1>2 DEF SInv, AcceptedIsHealthy, RefusedForAReason, Healthy, Bad
<1>. QED
  BY <1>2, <1>3, <1>4, <1>5, <1>6, <1>7, <1>8, <1>9, <1>10 DEF SInv

LEMMA StepHolds ==
  ASSUME SInv, [StartupNext]_all
  PROVE  SInv'
<1>1. CASE Main
  <2>1. UNCHANGED vars
    BY <1>1 DEF Main
  <2>2. CASE Boot \/ InitConfig \/ InitMemory \/ InitChecks
    BY <2>1, <2>2, BootHolds, InitConfigHolds, InitMemoryHolds, InitChecksHolds
  <2>3. CASE GateBuild \/ GateBuilt \/ GateBroken \/ GateCheck
    BY <2>1, <2>3, GateBuildHolds, GateBuiltHolds, GateBrokenHolds, GateCheckHolds
  <2>4. CASE ReportPrinted \/ GateDecides \/ GateLeft \/ InitAudit
    BY <2>1, <2>4, ReportPrintedHolds, GateDecidesHolds, GateLeftHolds, InitAuditHolds
  <2>5. CASE Listen \/ Spawn \/ GiveUp \/ RunReturns \/ NextProcess
    BY <2>1, <2>5, ListenHolds, SpawnHolds, GiveUpHolds, RunReturnsHolds, NextProcessHolds
  <2>. QED
    BY <1>1, <2>2, <2>3, <2>4, <2>5 DEF Main
<1>2. CASE WorldChanges
  BY <1>2, WorldChangesHolds
<1>3. CASE RunServerStarts \/ RunServerStops
  BY <1>3, RunServerHolds
<1>4. CASE RunTakes \/ RunCollects \/ RunPublishes \/ RunPolls
  BY <1>4, RunTakesHolds, RunCollectsHolds, RunPublishesHolds, RunPollsHolds
<1>5. CASE RunRejects \/ RunEnds \/ RunWatch \/ RunSignal \/ RunTick
  BY <1>5, RunOtherHolds
<1>6. CASE UNCHANGED all
  BY <1>6, StutterHolds
<1>. QED
  BY <1>1, <1>2, <1>3, <1>4, <1>5, <1>6 DEF StartupNext, Run

\* Composed with start-up and the evidence it really collects, the monitor
\* still behaves as ReadinessMonitor specifies it: the composition implements
\* that specification with the identity as refinement mapping.
THEOREM MonitorImplemented == StartupSpec => Spec
<1>1. StartupInit => Init
  BY DEF StartupInit
<1>2. ASSUME [StartupNext]_all
      PROVE  [Next]_vars
  <2>1. CASE StartupNext
    BY <2>1, MonitorStep
  <2>2. CASE UNCHANGED all
    BY <2>2 DEF all
  <2>. QED
    BY <1>2, <2>1, <2>2
<1>. QED
  BY <1>1, <1>2, PTL DEF StartupSpec, Spec

\* Good evidence that the next poll of the running server counts answers the
\* latest request, also when collecting is a sequence of reads of a changing
\* machine.
THEOREM EvidenceStaysCurrent == StartupSpec => []EvidenceIsCurrent
BY MonitorImplemented, EvidenceCurrent, PTL

LEMMA SInvAlways == StartupSpec => []SInv
BY InitHolds, StepHolds, PTL DEF StartupSpec

\* Whatever step of main, llps_run_proxy_server or llps_init fails, and however
\* the server ends, the process has left the LLAM runtime and closed the audit
\* file and the listening socket when it exits.
THEOREM ExitReleasesAll == StartupSpec => []StartupInv
<1>1. SInv => StartupInv
  BY DEF SInv, IInv, Stages, StartupInv
<1>. QED
  BY <1>1, SInvAlways, PTL

\* Evidence read item by item from a machine that changes in any way is, when
\* the report prints it or the monitor counts it as good, the view of one
\* moment.
THEOREM SnapshotsAreReal == StartupSpec => []EvidenceIsSnapshot
<1>1. SInv => EvidenceIsSnapshot
  BY DEF SInv
<1>. QED
  BY <1>1, SInvAlways, PTL

\* No gate of llps_init or main lets a start go on with evidence that is not
\* the pinned one, not that of one moment, or that lacks something.
THEOREM OnlyHealthyStarts == StartupSpec => []AcceptedIsHealthy
<1>1. SInv => AcceptedIsHealthy
  BY DEF SInv
<1>. QED
  BY <1>1, SInvAlways, PTL

\* A gate refuses a valid configuration only for the machine, and with software
\* memory domains the digest of the report process is the one the server
\* process finds, unless the machine changed.
THEOREM RefusalsHaveReasons == StartupSpec => []RefusedForAReason
<1>1. SInv => RefusedForAReason
  BY DEF SInv
<1>. QED
  BY <1>1, SInvAlways, PTL
=============================================================================
