--------------------------- MODULE SessionsProofs ---------------------------
(***************************************************************************)
(* StayMode implements Sessions, for any number of devices and goroutines, *)
(* when restarts are in time.                                              *)
(***************************************************************************)
EXTENDS StayModeProofs

USE StatesAssumption, StayModeAssumption

\* main goes on after wg.Wait() only when the supervisor has left its loop
\* (main.go 482-483, 540).
PostDone == mainPc = "post" => supPc = "done"

LEMMA PostDoneHolds == Spec => []PostDone
<1>1. Init => PostDone
  BY DEF Init, PostDone
<1>2. PostDone /\ [Next]_vars => PostDone'
  BY DEF PostDone, Next, vars, supVars, Main, StartSupervisor, WaitReturns, Exit,
         Monitor, MonNap, MonCheck, MonSetFin, MonTotal, MonCount, Signal, DeliverStop,
         Supervisor, SupAt, SupTop, SupRegister, SupLaunch, SupScan, SupScanEnd,
         SupReadTimeout, SupStoreTimeout, SupRelaunch, SupNap,
         Worker, Device, WorkerStart, WorkerDialError, WorkerConnected, WorkerResetTimeout,
         WorkerTick, WorkerSetErr, WorkerStop, WorkerSetup, WorkerSetupFails, WorkerAnswered,
         Report, WorkerLeaves, Abort, InboundAborts, OthersOfGor
<1>3. QED
  BY <1>1, <1>2, PTL DEF Spec

-----------------------------------------------------------------------------
(* What the refinement mapping sees of a step                              *)

barVars == <<crewBar, talkingBar, leavingBar, stoppedBar, signalled, phaseBar>>

\* A step that touches neither goroutines nor history changes nothing of crew,
\* talking, leaving and stopped; a table that grows had nobody yet.
LEMMA SameCrew ==
  ASSUME UNCHANGED <<gor, leaving, told>>, (told = {} /\ leaving = {}) \/ UNCHANGED name
  PROVE  UNCHANGED <<crewBar, talkingBar, leavingBar, stoppedBar>>
<1>1. \A d \in Devices : CrewOf(d)' = CrewOf(d)
  BY DEF CrewOf, Live
<1>2. UNCHANGED <<crewBar, talkingBar>>
  BY <1>1 DEF crewBar, talkingBar, AtWork
<1>3. UNCHANGED <<leavingBar, stoppedBar>>
  BY DEF leavingBar, stoppedBar
<1>4. QED
  BY <1>2, <1>3

\* A live worker is the only one at its device: entries and devices are one
\* to one (main.go 493-502).
LEMMA CrewIsOne ==
  ASSUME TypeOK, StayInv, NEW g \in Gor, Live(g)
  PROVE  gor[g].dev \in Devices /\ CrewOf(gor[g].dev) = {g}
<1>1. \A h \in Gor : Live(h) => gor[h].id \in Prefix /\ gor[h].dev = name[gor[h].id]
                                /\ gor[h].dev \in Devices
  BY DEF StayInv, BaseInv, OwnEntry, NameInv, Prefix
<1>2. \A h \in Gor : Live(h) /\ gor[h].dev = gor[g].dev => h = g
  BY <1>1 DEF StayInv, BaseInv, NameInv, SlotInv, WorkerInv, OneCollectorPerDevice
<1>3. QED
  BY <1>1, <1>2 DEF CrewOf

\* A device is stopped when its own entry is told, and no other.
LEMMA StoppedIsTold ==
  ASSUME TypeOK, StayInv, NEW i \in Prefix
  PROVE  name[i] \in Devices /\ (name[i] \in stoppedBar <=> i \in told)
<1>1. \A j \in told : j \in Prefix
  BY DEF TypeOK, StayInv, SlotInv, LaunchInv
<1>2. QED
  BY <1>1 DEF stoppedBar, StayInv, BaseInv, NameInv

\* A mark in leaving is the mark of a registered device.
LEMMA LeavingIsNamed ==
  ASSUME TypeOK, StayInv, NEW i \in leaving
  PROVE  i \in Prefix /\ name[i] \in Devices /\ name[i] \in leavingBar
<1>1. i \in Prefix
  BY DEF TypeOK, StayInv, SlotInv, LaunchInv
<1>2. name[i] \in Devices
  BY <1>1 DEF StayInv, BaseInv, NameInv
<1>3. QED
  BY <1>1, <1>2 DEF leavingBar

\* A goroutine nobody uses is put to a device that has nobody.
LEMMA SpawnBegins ==
  ASSUME TypeOK, StayInv, NEW g \in Gor, NEW i \in Prefix,
         Spawn(g, i, name[i]), Owners(i) = {}, i \notin told,
         UNCHANGED <<tableVars, leaving, told, signalled>>,
         phaseBar = "on", phaseBar' = "on"
  PROVE  S!Begin(name[i], g) /\ name[i] \in Devices
<1> DEFINE d == name[i]
<1>1. d \in Devices /\ d \notin stoppedBar
  BY StoppedIsTold
<1>2. /\ ~Live(g) /\ gor'[g] = [pc |-> "spawned", id |-> i, dev |-> d]
      /\ \A h \in Gor \ {g} : gor'[h] = gor[h]
  BY DEF Spawn, TypeOK
<1>3. CrewOf(d) = {}
  BY <1>1 DEF CrewOf, Owners, StayInv, BaseInv, OwnEntry, NameInv, Prefix
<1>4. \A e \in Devices : g \notin CrewOf(e)
  BY <1>2 DEF CrewOf
<1>5. \A e \in Devices : CrewOf(e)' = IF e = d THEN {g} ELSE CrewOf(e)
  <2>1. \A h \in Gor \ {g} : Live(h)' = Live(h) /\ gor'[h].dev = gor[h].dev
    BY <1>2 DEF Live
  <2>2. Live(g)' /\ gor'[g].dev = d
    BY <1>2 DEF Live
  <2>3. QED
    BY <1>2, <1>3, <2>1, <2>2 DEF CrewOf
<1>6. crewBar' = [crewBar EXCEPT ![d] = {g}]
  BY <1>1, <1>5 DEF crewBar
<1>7. UNCHANGED talkingBar
  <2>1. ~AtWork(g)'
    BY <1>2 DEF AtWork
  <2>2. \A h \in Gor \ {g} : AtWork(h)' = AtWork(h)
    BY <1>2 DEF AtWork
  <2>3. \A e \in Devices : (\E h \in CrewOf(e) : AtWork(h))' <=> \E h \in CrewOf(e) : AtWork(h)
    BY <1>3, <1>4, <1>5, <2>1, <2>2 DEF CrewOf
  <2>4. QED
    BY <2>3 DEF talkingBar
<1>8. UNCHANGED <<leavingBar, stoppedBar>>
  BY DEF leavingBar, stoppedBar, tableVars
<1>9. QED
  BY <1>1, <1>3, <1>4, <1>6, <1>7, <1>8 DEF S!Begin, crewBar

-----------------------------------------------------------------------------
(* Every step is a step of Sessions, or changes nothing of it              *)

\* A worker enters its command loop, gives its device up, or does something
\* that nobody else sees.
LEMMA WorkerSteps ==
  ASSUME TypeOK, StayInv, NEW g \in Gor, Worker(g) \/ Device(g)
  PROVE  S!SessionsNext \/ UNCHANGED barVars
<1>1. /\ Live(g) /\ UNCHANGED <<name, mainPc, supVars, signalled, told>>
      /\ \/ gor' = [gor EXCEPT ![g] = Idle]
         \/ \E pc \in GorPcs \ {"free", "spawned", "stopping"} :
              gor' = [gor EXCEPT ![g].pc = pc]
  BY WorkerWrites DEF StayInv, BaseInv
<1>2. ~Ended /\ (gor'[g] = Idle \/ (AtWork(g) => AtWork(g)'))
  BY DEF Worker, Device, WorkerStart, WorkerDialError, WorkerConnected, WorkerResetTimeout,
         WorkerTick, WorkerSetErr, WorkerStop, WorkerSetup, WorkerSetupFails, WorkerAnswered,
         Report, GorAt, AtWork, Goto, Return, TypeOK, Goroutine
<1>3. UNCHANGED <<signalled, phaseBar, stoppedBar>>
  BY <1>1 DEF supVars, phaseBar, Ended, stoppedBar
<1>4. PICK d \in Devices : d = gor[g].dev /\ CrewOf(d) = {g}
  BY <1>1, CrewIsOne
<1>5. \A e \in Devices \ {d} : g \notin CrewOf(e)
  BY <1>4 DEF CrewOf
<1>6. S!Alive
  BY <1>2 DEF S!Alive, phaseBar
<1>7. leaving' = IF AtWork(g) /\ gor'[g] = Idle THEN leaving \cup {gor[g].id} ELSE leaving
  BY WorkerLocal DEF StayInv
<1>8. CASE gor' = [gor EXCEPT ![g] = Idle]
  <2>1. gor'[g] = Idle /\ \A h \in Gor \ {g} : gor'[h] = gor[h]
    BY <1>8 DEF TypeOK
  <2>2. \A e \in Devices : CrewOf(e)' = IF e = d THEN {} ELSE CrewOf(e)
    BY <1>4, <1>5, <2>1 DEF CrewOf, Live, Idle
  <2>3. crewBar' = [crewBar EXCEPT ![d] = {}]
    BY <1>4, <2>2 DEF crewBar
  <2>4. talkingBar' = talkingBar \ {d}
    <3>1. \A e \in Devices : (\E h \in CrewOf(e) : AtWork(h))'
                             <=> e # d /\ \E h \in CrewOf(e) : AtWork(h)
      BY <1>5, <2>1, <2>2 DEF AtWork, CrewOf
    <3>2. QED
      BY <3>1 DEF talkingBar
  <2>5. leavingBar' = IF d \in talkingBar THEN leavingBar \cup {d} ELSE leavingBar
    <3>1. d \in talkingBar <=> AtWork(g)
      BY <1>4 DEF talkingBar
    <3>2. name[gor[g].id] = d
      BY <1>1, <1>4 DEF StayInv, BaseInv, OwnEntry
    <3>3. QED
      BY <1>1, <1>4, <1>7, <2>1, <3>1, <3>2 DEF leavingBar
  <2>6. S!End(d)
    BY <1>3, <1>4, <1>6, <2>3, <2>4, <2>5 DEF S!End, crewBar
  <2>7. QED
    BY <1>4, <2>6 DEF S!SessionsNext
<1>9. ASSUME NEW pc \in GorPcs \ {"free", "spawned", "stopping"},
             gor' = [gor EXCEPT ![g].pc = pc]
      PROVE  S!SessionsNext \/ UNCHANGED barVars
  <2>1. /\ gor'[g].pc = pc /\ gor'[g].dev = d
        /\ \A h \in Gor \ {g} : gor'[h] = gor[h]
    BY <1>4, <1>9 DEF TypeOK, Goroutine
  <2>2. Live(g)' /\ gor'[g] # Idle
    BY <2>1 DEF Live, Idle
  <2>3. \A e \in Devices : CrewOf(e)' = CrewOf(e)
    BY <1>1, <1>4, <2>1, <2>2 DEF CrewOf, Live
  <2>4. UNCHANGED <<crewBar, leavingBar>>
    BY <1>1, <1>7, <2>2, <2>3 DEF crewBar, leavingBar
  <2>5. \A e \in Devices \ {d} : (\E h \in CrewOf(e) : AtWork(h))'
                                <=> \E h \in CrewOf(e) : AtWork(h)
    <3>1. \A h \in Gor \ {g} : AtWork(h)' <=> AtWork(h)
      BY <2>1 DEF AtWork
    <3>2. \A e \in Devices \ {d} : CrewOf(e) \subseteq Gor \ {g}
      BY <1>5 DEF CrewOf
    <3>3. QED
      BY <2>3, <3>1, <3>2
  <2>6. (\E h \in CrewOf(d) : AtWork(h))' <=> AtWork(g)'
    BY <1>4, <2>3
  <2>7. CASE AtWork(g)' <=> AtWork(g)
    <3>1. UNCHANGED talkingBar
      BY <1>4, <2>5, <2>6, <2>7 DEF talkingBar
    <3>2. QED
      BY <1>3, <2>4, <3>1 DEF barVars
  <2>8. CASE ~AtWork(g) /\ AtWork(g)'
    <3>1. talkingBar' = talkingBar \cup {d} /\ d \notin talkingBar
      BY <1>4, <2>5, <2>6, <2>8 DEF talkingBar
    <3>2. S!Connect(d)
      BY <1>3, <1>4, <1>6, <2>4, <3>1 DEF S!Connect, crewBar
    <3>3. QED
      BY <1>4, <3>2 DEF S!SessionsNext
  <2>9. QED
    BY <1>2, <2>2, <2>7, <2>8 DEF AtWork
<1>10. QED
  BY <1>1, <1>8, <1>9

\* The monitor asks and stops, and does nothing else.
LEMMA MonitorSteps ==
  ASSUME TypeOK, StayInv, Monitor \/ Signal \/ \E g \in Gor : DeliverStop(g)
  PROVE  S!SessionsNext \/ UNCHANGED barVars
<1>1. CASE Monitor
  <2>1. UNCHANGED <<mainPc, name, supPc, gor, leaving, told, signalled>>
    BY <1>1 DEF Monitor, MonNap, MonCheck, MonSetFin, MonTotal, MonCount,
                tableVars, supVars, ghostVars
  <2>2. UNCHANGED <<crewBar, talkingBar, leavingBar, stoppedBar>>
    BY <2>1, SameCrew
  <2>3. QED
    BY <2>1, <2>2 DEF barVars, phaseBar, Ended
<1>2. CASE Signal
  <2>1. UNCHANGED <<mainPc, name, supPc, gor, leaving, told>> /\ signalled' = TRUE /\ ~Ended
    BY <1>2 DEF Signal, MonAt, tableVars, supVars
  <2>2. UNCHANGED <<crewBar, talkingBar, leavingBar, stoppedBar>>
    BY <2>1, SameCrew
  <2>3. S!Ask
    BY <2>1, <2>2 DEF S!Ask, S!Alive, phaseBar, Ended
  <2>4. QED
    BY <2>3 DEF S!SessionsNext
<1>3. ASSUME NEW g \in Gor, DeliverStop(g)
      PROVE  S!SessionsNext
  <2> DEFINE d == name[monJ]
  <2>1. /\ UNCHANGED <<mainPc, name, supPc, leaving, signalled>> /\ ~Ended
        /\ monPc = "send" /\ gor[g].pc = "loop" /\ gor[g].id = monJ
        /\ told' = told \cup {monJ}
    BY <1>3 DEF DeliverStop, MonAt, GorAt, tableVars, supVars
  <2>2. /\ gor'[g].pc = "stopping" /\ gor'[g].dev = gor[g].dev
        /\ \A h \in Gor \ {g} : gor'[h] = gor[h]
    BY <1>3 DEF DeliverStop, TypeOK, Goroutine
  <2>3. Live(g) /\ monJ \in Prefix /\ gor[g].dev = d
    BY <2>1 DEF Live, StayInv, BaseInv, OwnEntry, Prefix
  <2>4. d \in Devices /\ CrewOf(d) = {g}
    BY <2>3, CrewIsOne
  <2>5. signalled
    BY <2>1 DEF StayInv, BaseInv, SignalInv
  <2>6. d \notin stoppedBar
    <3>1. monJ \notin told
      BY <2>1, <2>3 DEF StayInv, SlotInv, StopInv, StoppedForGood
    <3>2. QED
      BY <2>3, <3>1, StoppedIsTold
  <2>7. d \in talkingBar
    BY <2>1, <2>4 DEF talkingBar, AtWork
  <2>8. \A e \in Devices : CrewOf(e)' = CrewOf(e)
    BY <2>2, <2>3 DEF CrewOf, Live
  <2>9. UNCHANGED <<crewBar, leavingBar>>
    BY <2>1, <2>8 DEF crewBar, leavingBar
  <2>10. UNCHANGED talkingBar
    <3>1. \A h \in Gor : AtWork(h)' = AtWork(h)
      BY <2>1, <2>2 DEF AtWork
    <3>2. \A e \in Devices : (\E h \in CrewOf(e) : AtWork(h))' <=> \E h \in CrewOf(e) : AtWork(h)
      BY <2>8, <3>1 DEF CrewOf
    <3>3. QED
      BY <3>2 DEF talkingBar
  <2>11. stoppedBar' = stoppedBar \cup {d}
    BY <2>1, <2>4 DEF stoppedBar
  <2>12. S!Stop(d)
    BY <2>1, <2>5, <2>6, <2>7, <2>9, <2>10, <2>11 DEF S!Stop, S!Alive, phaseBar, Ended
  <2>13. QED
    BY <2>4, <2>12 DEF S!SessionsNext
<1>4. QED
  BY <1>1, <1>2, <1>3

\* The supervisor puts workers to devices and leaves its loop.
LEMMA SupervisorSteps ==
  ASSUME TypeOK, StayInv, SignalInv', Supervisor
  PROVE  S!SessionsNext \/ UNCHANGED barVars
<1>1. /\ ~Ended /\ supPc # "done" /\ UNCHANGED <<mainPc, leaving, told, signalled>>
  BY DEF Supervisor, SupAt, SupTop, SupRegister, SupLaunch, SupScan, SupScanEnd,
         SupReadTimeout, SupStoreTimeout, SupRelaunch, SupNap, ghostVars
<1>2. phaseBar = "on" /\ (supPc' # "done" => phaseBar' = "on")
                      /\ (supPc' = "done" => phaseBar' = "over")
  BY <1>1 DEF phaseBar, Ended
<1>3. CASE UNCHANGED gor
  <2>1. (told = {} /\ leaving = {}) \/ UNCHANGED name
    BY DEF StayInv, SlotInv, LaunchInv, Supervisor, SupAt, SupTop, SupRegister, SupLaunch,
           SupScan, SupScanEnd, SupReadTimeout, SupStoreTimeout, SupRelaunch, SupNap, tableVars
  <2>2. UNCHANGED <<crewBar, talkingBar, leavingBar, stoppedBar>>
    BY <1>1, <1>3, <2>1, SameCrew
  <2>3. CASE supPc' # "done"
    BY <1>1, <1>2, <2>2, <2>3 DEF barVars
  <2>4. CASE supPc' = "done"
    <3>1. signalled
      BY <1>1, <2>4 DEF SignalInv
    <3>2. S!Finish
      BY <1>1, <1>2, <2>2, <2>4, <3>1 DEF S!Finish
    <3>3. QED
      BY <3>2 DEF S!SessionsNext
  <2>5. QED
    BY <2>3, <2>4
<1>4. CASE SupLaunch /\ ~UNCHANGED gor
  <2>1. PICK d \in pending, g \in Gor : Spawn(g, GetId(d), d) /\ UNCHANGED supPc
    BY <1>4 DEF SupLaunch
  <2>2. supPc = "launch" /\ UNCHANGED tableVars /\ d \in Devices
    BY <1>4 DEF SupLaunch, SupAt, TypeOK
  <2>3. GetId(d) \in Prefix /\ GetId(d) \in Ids /\ name[GetId(d)] = d
    BY <2>2, GetIdFinds DEF StayInv, BaseInv, NameInv
  <2>4. Owners(GetId(d)) = {} /\ GetId(d) \notin told
    BY <2>1, <2>2, <2>3 DEF Owners, StayInv, BaseInv, OwnEntry, SlotInv, LaunchInv
  <2>5. S!Begin(d, g)
    BY <1>1, <1>2, <2>1, <2>2, <2>3, <2>4, SpawnBegins
  <2>6. QED
    BY <2>2, <2>5 DEF S!SessionsNext
<1>5. CASE SupRelaunch
  <2>1. PICK g \in Gor : Spawn(g, supI, name[supI])
    BY <1>5 DEF SupRelaunch
  <2>2. supPc = "relaunch" /\ supPc' = "nap" /\ UNCHANGED tableVars /\ supI \in Prefix
    BY <1>5 DEF SupRelaunch, SupAt, StayInv, BaseInv, SupInv, Prefix, TypeOK
  <2>3. Owners(supI) = {} /\ supI \notin told
    BY <2>2 DEF StayInv, SlotInv, RestartInv
  <2>4. S!Begin(name[supI], g) /\ name[supI] \in Devices
    BY <1>1, <1>2, <2>1, <2>2, <2>3, SpawnBegins
  <2>5. QED
    BY <2>4 DEF S!SessionsNext
<1>6. QED
  BY <1>3, <1>4, <1>5
     DEF Supervisor, SupTop, SupRegister, SupScan, SupScanEnd, SupReadTimeout,
         SupStoreTimeout, SupNap

\* main leaves when the loop is over; a worker, or an inbound goroutine that a
\* worker has left behind, may end the process.
LEMMA MainSteps ==
  ASSUME TypeOK, StayInv, PostDone, Main \/ InboundAborts \/ \E g \in Gor : Abort(g)
  PROVE  S!SessionsNext \/ UNCHANGED barVars
<1>1. UNCHANGED <<name, gor, leaving, told, signalled>>
  BY DEF Main, StartSupervisor, WaitReturns, Exit, Abort, InboundAborts, tableVars, ghostVars
<1>2. UNCHANGED <<crewBar, talkingBar, leavingBar, stoppedBar>>
  BY <1>1, SameCrew
<1>3. CASE StartSupervisor \/ WaitReturns
  <2>1. UNCHANGED phaseBar
    BY <1>3 DEF StartSupervisor, WaitReturns, phaseBar, Ended, StayInv, BaseInv, SupInv,
                supVars
  <2>2. QED
    BY <1>1, <1>2, <2>1 DEF barVars
<1>4. CASE Exit
  <2>1. phaseBar = "over" /\ phaseBar' = "gone"
    BY <1>4 DEF Exit, PostDone, phaseBar, Ended
  <2>2. S!Leave
    BY <1>1, <1>2, <2>1 DEF S!Leave
  <2>3. QED
    BY <2>2 DEF S!SessionsNext
<1>5. ASSUME NEW g \in Gor, Abort(g)
      PROVE  S!SessionsNext
  <2>1. Live(g) /\ ~Ended /\ mainPc' = "fatal"
    BY <1>5 DEF Abort, GorAt, Live
  <2>2. gor[g].dev \in Devices /\ CrewOf(gor[g].dev) = {g}
    BY <2>1, CrewIsOne
  <2>3. S!Leave
    BY <1>1, <1>2, <2>1, <2>2 DEF S!Leave, S!Alive, phaseBar, Ended, crewBar
  <2>4. QED
    BY <2>3 DEF S!SessionsNext
<1>6. CASE InboundAborts
  <2>1. leaving # {} /\ ~Ended /\ mainPc' = "fatal"
    BY <1>6 DEF InboundAborts
  <2>2. \E d \in Devices : d \in leavingBar
    BY <2>1, LeavingIsNamed
  <2>3. S!Leave
    BY <1>1, <1>2, <2>1, <2>2 DEF S!Leave, S!Alive, phaseBar, Ended
  <2>4. QED
    BY <2>3 DEF S!SessionsNext
<1>7. QED
  BY <1>3, <1>4, <1>5, <1>6 DEF Main

\* The last of a device's earlier workers returns.
LEMMA LeavingSteps ==
  ASSUME TypeOK, StayInv, NEW i \in Ids, WorkerLeaves(i)
  PROVE  S!SessionsNext
<1> DEFINE d == name[i]
<1>1. /\ ~Ended /\ i \in leaving /\ leaving' = leaving \ {i}
      /\ UNCHANGED <<name, mainPc, supPc, gor, signalled, told>>
  BY DEF WorkerLeaves, tableVars, supVars
<1>2. i \in Prefix /\ d \in Devices /\ d \in leavingBar
  BY <1>1, LeavingIsNamed
<1>3. \A j \in leaving : name[j] = d => j = i
  BY <1>2, LeavingIsNamed DEF StayInv, BaseInv, NameInv
<1>4. leavingBar' = leavingBar \ {d}
  BY <1>1, <1>3 DEF leavingBar
<1>5. UNCHANGED <<crewBar, talkingBar, stoppedBar, phaseBar>>
  <2>1. \A e \in Devices : CrewOf(e)' = CrewOf(e)
    BY <1>1 DEF CrewOf, Live
  <2>2. QED
    BY <1>1, <2>1 DEF crewBar, talkingBar, AtWork, stoppedBar, phaseBar, Ended
<1>6. S!Left(d)
  BY <1>1, <1>2, <1>4, <1>5 DEF S!Left, S!Alive, phaseBar, Ended
<1>7. QED
  BY <1>2, <1>6 DEF S!SessionsNext

LEMMA SessionsStart == Init => S!SessionsInit
<1> SUFFICES ASSUME Init PROVE S!SessionsInit
  OBVIOUS
<1>1. \A d \in Devices : CrewOf(d) = {}
  BY DEF Init, CrewOf, Live, Idle
<1>2. crewBar = [d \in Devices |-> {}] /\ talkingBar = {} /\ leavingBar = {} /\ stoppedBar = {}
  BY <1>1 DEF Init, crewBar, talkingBar, leavingBar, stoppedBar
<1>3. signalled = FALSE /\ phaseBar = "on"
  BY DEF Init, phaseBar, Ended
<1>4. QED
  BY <1>2, <1>3 DEF S!SessionsInit

\* When restarts are in time, monitor, supervisor and workers together keep
\* the promise of Sessions (main.go 448-538, ssh_collector_stay.go 20-375).
THEOREM StayImplements == ~Pubkey => (Spec => ImplementsSessions)
<1> SUFFICES ASSUME ~Pubkey PROVE Spec => ImplementsSessions
  OBVIOUS
<1>1. ASSUME TypeOK, StayInv, PostDone, StayInv', [Next]_vars
      PROVE  [S!SessionsNext]_S!sessionVars
  <2>1. CASE UNCHANGED vars
    <3>1. UNCHANGED <<crewBar, talkingBar, leavingBar, stoppedBar>>
      BY <2>1, SameCrew DEF vars, tableVars, ghostVars
    <3>2. QED
      BY <2>1, <3>1 DEF S!sessionVars, vars, ghostVars, supVars, phaseBar, Ended
  <2>2. UNCHANGED barVars => UNCHANGED S!sessionVars
    BY DEF barVars, S!sessionVars
  <2>3. SignalInv'
    BY <1>1 DEF StayInv, BaseInv
  <2>4. QED
    BY <1>1, <2>1, <2>2, <2>3, WorkerSteps, MonitorSteps, SupervisorSteps, MainSteps,
       LeavingSteps DEF Next
<1>2. QED
  BY SessionsStart, TypeCorrect, StayCorrect, PostDoneHolds, <1>1, PTL
     DEF Spec, S!SessionsSpec, ImplementsSessions
=============================================================================
