--------------------------- MODULE StayModeProofs ---------------------------
(***************************************************************************)
(* Proofs about the stay mode, for any number of devices and goroutines.   *)
(***************************************************************************)
EXTENDS StayModeProps, FiniteSetTheorems, TLAPS

USE StatesAssumption, StayModeAssumption

-----------------------------------------------------------------------------
(* Facts about the table                                                   *)

\* There is at least one entry: len(conf.Devices) > 0 (main.go 442).
LEMMA NType == N \in Nat /\ N >= 1
<1>1. N \in Nat
  BY FS_CardinalityType DEF N
<1>2. N # 0
  BY FS_EmptySet DEF N
<1>3. QED
  BY <1>1, <1>2

\* One application of the backoff stays in range and, below the cap, grows
\* (main.go 514-519).
LEMMA BackoffType ==
  \A t \in FirstTimeout .. MaxTimeout :
    /\ Backoff(t) \in FirstTimeout .. MaxTimeout
    /\ Backoff(t) >= t
    /\ t < MaxTimeout => Backoff(t) > t
<1>1. TAKE t \in FirstTimeout .. MaxTimeout
<1>2. TimesPhi(t) \in Int /\ TimesPhi(t) > t
  BY DEF TimesPhi, FirstTimeout
<1>3. QED
  BY <1>2 DEF Backoff, FirstTimeout

\* GetId finds the entry of a registered device: there is only one, so the
\* first is the one (main.go 175-188).
LEMMA GetIdFinds ==
  ASSUME TypeOK, NameInv, NEW d \in Devices,
         \E i \in Prefix : name[i] = d
  PROVE  GetId(d) \in Prefix /\ GetId(d) \in Ids /\ name[GetId(d)] = d
<1> DEFINE hits == {i \in 1 .. length : name[i] = d}
<1>1. PICK k \in Prefix : name[k] = d
  OBVIOUS
<1>2. hits = {k}
  BY <1>1 DEF NameInv, Prefix
<1>3. GetId(d) = CHOOSE i \in hits : \A j \in hits : i <= j
  BY <1>2 DEF GetId
<1>4. GetId(d) = k
  BY <1>1, <1>2, <1>3 DEF Prefix, TypeOK, TableTypeOK
<1>5. QED
  BY <1>1, <1>4, NType DEF Prefix, Ids, TypeOK, TableTypeOK

-----------------------------------------------------------------------------
(* Facts about the goroutines                                              *)

\* The three ways a goroutine's record is written.
LEMMA GorType ==
  ASSUME TypeOK, NEW g \in Gor
  PROVE  /\ \A pc \in GorPcs : [gor EXCEPT ![g].pc = pc] \in [Gor -> Goroutine]
         /\ [gor EXCEPT ![g] = Idle] \in [Gor -> Goroutine]
         /\ \A i \in Ids, d \in Devices :
              [gor EXCEPT ![g] = [pc |-> "spawned", id |-> i, dev |-> d]]
                \in [Gor -> Goroutine]
<1>1. Idle \in Goroutine /\ \A pc \in GorPcs : [gor[g] EXCEPT !.pc = pc] \in Goroutine
  BY NType DEF TypeOK, Goroutine, Idle, GorPcs
<1>2. \A i \in Ids, d \in Devices :
        [pc |-> "spawned", id |-> i, dev |-> d] \in Goroutine
  BY NType DEF Goroutine, GorPcs, Ids
<1>3. QED
  BY <1>1, <1>2 DEF TypeOK

\* What a step of a worker can write: only FIN is written by a worker that was
\* told to stop, and nothing else writes FIN.
LEMMA WorkerWrites ==
  ASSUME TypeOK, OwnEntry, NEW g \in Gor, Worker(g) \/ Device(g)
  PROVE  /\ Live(g) /\ gor[g].id \in Ids /\ gor[g].id \in Prefix
         /\ UNCHANGED <<length, name, mainPc, monVars, supVars, signalled, told>>
         /\ leaving' \in {leaving, leaving \cup {gor[g].id}}
         /\ \/ status' = status
            \/ \E s \in Status :
                 /\ status' = [status EXCEPT ![gor[g].id] = s]
                 /\ s = FIN => gor[g].pc = "stopping"
         /\ timeout' \in {timeout, [timeout EXCEPT ![gor[g].id] = FirstTimeout]}
         /\ \/ gor' = [gor EXCEPT ![g] = Idle]
            \/ \E pc \in GorPcs \ {"free", "spawned", "stopping"} :
                 gor' = [gor EXCEPT ![g].pc = pc]
<1> USE DEF GorAt, tableVars, OthersOfGor, ghostVars, Goto, Return, Report
<1>1. /\ Live(g)
  BY DEF Worker, Device, Live, WorkerStart, WorkerDialError, WorkerConnected,
         WorkerResetTimeout, WorkerTick, WorkerSetErr, WorkerStop,
         WorkerSetup, WorkerSetupFails, WorkerAnswered
<1>2. gor[g].id \in Prefix /\ gor[g].id \in Ids /\ gor[g].id <= length
  BY <1>1, NType DEF OwnEntry, Prefix, Ids, TypeOK, TableTypeOK
<1>3. \A s \in Status : SetStatus(gor[g].id, s) =>
        status' = [status EXCEPT ![gor[g].id] = s]
  BY <1>2 DEF SetStatus
<1>4. {RUN, START, RESTARTERR, ERR} \subseteq Status \ {FIN} /\ FIN \in Status
  BY DEF Status, RUN, START, RESTARTERR, ERR, FIN
<1>5. CASE WorkerStart(g)
  BY <1>1, <1>2, <1>3, <1>4, <1>5 DEF WorkerStart, GorPcs
<1>6. CASE WorkerDialError(g)
  BY <1>1, <1>2, <1>3, <1>4, <1>6 DEF WorkerDialError
<1>7. CASE WorkerConnected(g)
  BY <1>1, <1>2, <1>3, <1>4, <1>7 DEF WorkerConnected, GorPcs
<1>8. CASE WorkerResetTimeout(g)
  BY <1>1, <1>2, <1>8 DEF WorkerResetTimeout, SetTimeout, GorPcs
<1>9. CASE WorkerSetup(g)
  BY <1>1, <1>2, <1>9 DEF WorkerSetup, GorPcs
<1>10. CASE WorkerTick(g)
  BY <1>1, <1>2, <1>10 DEF WorkerTick, GorPcs
<1>11. CASE WorkerSetErr(g)
  BY <1>1, <1>2, <1>3, <1>4, <1>11 DEF WorkerSetErr
<1>12. CASE WorkerStop(g)
  BY <1>1, <1>2, <1>3, <1>4, <1>12 DEF WorkerStop
<1>13. CASE WorkerSetupFails(g) \/ WorkerAnswered(g)
  BY <1>1, <1>2, <1>13 DEF WorkerSetupFails, WorkerAnswered, GorPcs
<1>14. QED
  BY <1>5, <1>6, <1>7, <1>8, <1>9, <1>10, <1>11, <1>12, <1>13 DEF Worker, Device

\* Starting a worker for an entry of the table.
LEMMA SpawnBase ==
  ASSUME TypeOK, OwnEntry, SignalInv, NEW g \in Gor, NEW i \in Prefix,
         Spawn(g, i, name[i]), name[i] \in Devices, UNCHANGED <<tableVars, monPc, told, finish, signalled>>,
         supPc' # "done"
  PROVE  gor' \in [Gor -> Goroutine] /\ OwnEntry' /\ SignalInv'
<1>1. i \in Ids
  BY NType DEF Prefix, Ids, TypeOK, TableTypeOK
<1>2. gor' = [gor EXCEPT ![g] = [pc |-> "spawned", id |-> i, dev |-> name[i]]]
  BY DEF Spawn
<1>3. gor' \in [Gor -> Goroutine]
  BY <1>1, <1>2, GorType
<1>4. \A h \in Gor : gor'[h] = IF h = g THEN [pc |-> "spawned", id |-> i, dev |-> name[i]] ELSE gor[h]
  BY <1>2 DEF TypeOK
<1>5. OwnEntry'
  BY <1>4 DEF OwnEntry, Live, tableVars, Prefix
<1>6. SignalInv'
  BY <1>4 DEF SignalInv, tableVars
<1>7. QED
  BY <1>3, <1>5, <1>6

-----------------------------------------------------------------------------
(* TypeOK and BaseInv are inductive                                        *)

\* A worker's step.
LEMMA WorkerBase ==
  ASSUME TypeOK, BaseInv, NEW g \in Gor, Worker(g) \/ Device(g)
  PROVE  TypeOK' /\ BaseInv'
<1> USE DEF monVars, supVars
<1>1. /\ Live(g) /\ gor[g].id \in Ids /\ gor[g].id \in Prefix
      /\ UNCHANGED <<length, name, mainPc, monVars, supVars, signalled, told>>
      /\ leaving' \in {leaving, leaving \cup {gor[g].id}}
      /\ \/ status' = status
         \/ \E s \in Status :
              /\ status' = [status EXCEPT ![gor[g].id] = s]
              /\ s = FIN => gor[g].pc = "stopping"
      /\ timeout' \in {timeout, [timeout EXCEPT ![gor[g].id] = FirstTimeout]}
      /\ \/ gor' = [gor EXCEPT ![g] = Idle]
         \/ \E pc \in GorPcs \ {"free", "spawned", "stopping"} :
              gor' = [gor EXCEPT ![g].pc = pc]
  BY WorkerWrites DEF BaseInv
<1>2. /\ \A h \in Gor \ {g} : gor'[h] = gor[h]
      /\ \/ gor'[g] = Idle
         \/ /\ gor'[g].pc \in GorPcs \ {"stopping"}
            /\ gor'[g].id = gor[g].id /\ gor'[g].dev = gor[g].dev
  <2>1. gor \in [Gor -> Goroutine]
    BY DEF TypeOK
  <2>2. ASSUME gor' = [gor EXCEPT ![g] = Idle]
        PROVE  gor'[g] = Idle /\ \A h \in Gor \ {g} : gor'[h] = gor[h]
    BY <2>1, <2>2
  <2>3. ASSUME NEW pc \in GorPcs \ {"free", "spawned", "stopping"},
               gor' = [gor EXCEPT ![g].pc = pc]
        PROVE  /\ gor'[g].pc = pc /\ gor'[g].id = gor[g].id
               /\ gor'[g].dev = gor[g].dev
               /\ \A h \in Gor \ {g} : gor'[h] = gor[h]
    BY <2>1, <2>3 DEF Goroutine
  <2>4. QED
    BY <1>1, <2>2, <2>3
<1>3. TypeOK'
  <2>1. gor' \in [Gor -> Goroutine]
    BY <1>1, GorType
  <2>2. status' \in [Ids -> Status]
    BY <1>1 DEF TypeOK, TableTypeOK
  <2>3. timeout' \in [Ids -> FirstTimeout .. MaxTimeout]
    BY <1>1 DEF TypeOK, TableTypeOK, FirstTimeout
  <2>4. QED
    BY <1>1, <2>1, <2>2, <2>3 DEF TypeOK, TableTypeOK
<1>4. SupInv'
  BY <1>1 DEF BaseInv, SupInv
<1>5. SignalInv'
  BY <1>1, <1>2 DEF BaseInv, SignalInv, TypeOK, TableTypeOK, Idle
<1>6. NameInv'
  BY <1>1 DEF BaseInv, NameInv, Prefix
<1>7. OwnEntry'
  BY <1>1, <1>2 DEF BaseInv, OwnEntry, Live, Idle
<1>8. QED
  BY <1>3, <1>4, <1>5, <1>6, <1>7 DEF BaseInv

\* A step of the monitor, the signal and the delivery included.
LEMMA MonitorBase ==
  ASSUME TypeOK, BaseInv, Monitor \/ Signal \/ \E g \in Gor : DeliverStop(g)
  PROVE  TypeOK' /\ BaseInv'
<1> USE NType DEF TypeOK, TableTypeOK, BaseInv, MonAt, MonPcs, tableVars,
                  monVars, supVars, ghostVars, Prefix, Ids
<1>1. CASE MonNap
  BY <1>1 DEF MonNap, SupInv, SignalInv, NameInv, OwnEntry, Live
<1>2. CASE Signal
  BY <1>2 DEF Signal, SupInv, SignalInv, NameInv, OwnEntry, Live
<1>3. CASE MonCheck
  BY <1>3 DEF MonCheck, SupInv, SignalInv, NameInv, OwnEntry, Live
<1>4. ASSUME NEW g \in Gor, DeliverStop(g)
      PROVE  TypeOK' /\ BaseInv'
  <2>1. gor' \in [Gor -> Goroutine]
    BY <1>4, "stopping" \in GorPcs, GorType DEF DeliverStop, GorPcs
  <2>2. \A h \in Gor : gor'[h].id = gor[h].id /\ gor'[h].dev = gor[h].dev
                       /\ (Live(h)' => Live(h))
    BY <1>4 DEF DeliverStop, GorAt, Live, Goroutine
  <2>3. TypeOK'
    <3>1. monJ \in Ids /\ monPc' \in MonPcs
      BY <1>4 DEF DeliverStop, SupInv
    <3>2. /\ UNCHANGED <<tableVars, mainPc, monJ, monTotal, supVars, leaving, signalled>>
          /\ told' = told \cup {monJ}
      BY <1>4 DEF DeliverStop
    <3>3. QED
      BY <2>1, <3>1, <3>2
  <2>4. SupInv' /\ SignalInv' /\ NameInv'
    BY <1>4 DEF DeliverStop, SupInv, SignalInv, NameInv
  <2>5. OwnEntry'
    BY <1>4, <2>2 DEF DeliverStop, OwnEntry
  <2>6. QED
    BY <2>3, <2>4, <2>5
<1>5. CASE MonSetFin
  <2>1. status' \in [Ids -> Status] /\ monJ + 1 \in 1 .. N + 1
    BY <1>5 DEF MonSetFin, SetStatus, Status, FIN, SupInv
  <2>2. TypeOK'
    BY <1>5, <2>1 DEF MonSetFin
  <2>3. SupInv' /\ SignalInv' /\ NameInv' /\ OwnEntry'
    BY <1>5 DEF MonSetFin, SupInv, SignalInv, NameInv, OwnEntry, Live
  <2>4. QED
    BY <2>2, <2>3
<1>6. CASE MonTotal
  BY <1>6 DEF MonTotal, SupInv, SignalInv, NameInv, OwnEntry, Live
<1>7. CASE MonCount
  BY <1>7 DEF MonCount, SupInv, SignalInv, NameInv, OwnEntry, Live
<1>8. QED
  BY <1>1, <1>2, <1>3, <1>4, <1>5, <1>6, <1>7 DEF Monitor

\* A step of main.
LEMMA MainBase ==
  ASSUME TypeOK, BaseInv, Main
  PROVE  TypeOK' /\ BaseInv'
<1> USE NType DEF TypeOK, TableTypeOK, BaseInv, MainPcs, SupPcs, tableVars,
                  monVars, supVars, ghostVars, Prefix, Ids
<1>1. CASE StartSupervisor
  BY <1>1 DEF StartSupervisor, SupInv, SignalInv, NameInv, OwnEntry, Live
<1>2. CASE WaitReturns
  BY <1>2 DEF WaitReturns, SupInv, SignalInv, NameInv, OwnEntry, Live
<1>3. CASE Exit
  BY <1>3 DEF Exit, SupInv, SignalInv, NameInv, OwnEntry, Live
<1>4. QED
  BY <1>1, <1>2, <1>3 DEF Main

\* The supervisor fills the table: every device gets an entry of its own, and
\* the entries and the devices still to come are as many as the devices.
LEMMA RegisterBase ==
  ASSUME TypeOK, BaseInv, SupRegister
  PROVE  TypeOK' /\ BaseInv'
<1> USE NType DEF SupAt, monVars, ghostVars
<1>1. CASE pending = {} /\ pending' = Devices /\ supPc' = "launch" /\ UNCHANGED tableVars
  <2>1. length = N
    BY <1>1, FS_EmptySet DEF SupRegister, BaseInv, SupInv, TypeOK, TableTypeOK
  <2>2. TypeOK'
    BY <1>1 DEF SupRegister, TypeOK, TableTypeOK, tableVars, SupPcs
  <2>3. SupInv' /\ SignalInv' /\ OwnEntry'
    BY <1>1, <2>1 DEF SupRegister, BaseInv, SupInv, SignalInv, OwnEntry, Live, tableVars
  <2>4. NameInv'
    BY <1>1 DEF SupRegister, BaseInv, NameInv, Prefix, tableVars
  <2>5. QED
    BY <2>2, <2>3, <2>4 DEF BaseInv
<1>2. ASSUME NEW d \in pending, AddWorker(d), pending' = pending \ {d}, UNCHANGED supPc
      PROVE  TypeOK' /\ BaseInv'
  <2>1. d \in Devices /\ IsFiniteSet(pending) /\ Cardinality(pending) \in Nat
        /\ Cardinality(pending') = Cardinality(pending) - 1
        /\ Cardinality(pending') \in Nat
    BY <1>2, FS_Subset, FS_RemoveElement, FS_CardinalityType DEF TypeOK
  <2>2. supPc = "register" /\ length + Cardinality(pending) = N
    BY DEF SupRegister, BaseInv, SupInv
  <2>3. length \in Nat /\ length' = length + 1 /\ length' \in 1 .. N
    BY <1>2, <2>1, <2>2 DEF AddWorker, TypeOK, TableTypeOK
  <2>4. name' = [name EXCEPT ![length'] = d] /\ length' \in Ids
        /\ status' = [status EXCEPT ![length'] = NEW_]
        /\ timeout' = [timeout EXCEPT ![length'] = FirstTimeout]
    BY <1>2, <2>3 DEF AddWorker, Ids
  <2>5. TypeOK'
    <3>1. name' \in [Ids -> Devices \cup {NoDevice}] /\ status' \in [Ids -> Status]
          /\ timeout' \in [Ids -> FirstTimeout .. MaxTimeout]
      BY <2>1, <2>4 DEF TypeOK, TableTypeOK, Status, FirstTimeout
    <3>2. QED
      BY <1>2, <2>2, <2>3, <3>1 DEF SupRegister, TypeOK, TableTypeOK
  <2>6. SupInv'
    BY <1>2, <2>1, <2>2, <2>3 DEF SupRegister, BaseInv, SupInv, TypeOK
  <2>7. SignalInv'
    BY <1>2, <2>4 DEF SupRegister, BaseInv, SignalInv, TypeOK, TableTypeOK, NEW_, FIN
  <2>8. /\ \A i \in Prefix : i \in Ids /\ i \in Prefix' /\ i # length' /\ name'[i] = name[i]
        /\ name'[length'] = d
        /\ \A i \in Prefix' : i = length' \/ i \in Prefix
    BY <2>3, <2>4 DEF Prefix, Ids, TypeOK, TableTypeOK
  <2>9. NameInv'
    BY <1>2, <2>1, <2>2, <2>3, <2>8 DEF BaseInv, NameInv, Prefix, TypeOK
  <2>10. OwnEntry'
    BY <2>8 DEF SupRegister, BaseInv, OwnEntry, Live, Prefix
  <2>11. QED
    BY <2>5, <2>6, <2>7, <2>9, <2>10 DEF BaseInv
<1>3. QED
  BY <1>1, <1>2 DEF SupRegister

\* A step of the supervisor.
LEMMA SupervisorBase ==
  ASSUME TypeOK, BaseInv, Supervisor
  PROVE  TypeOK' /\ BaseInv'
<1> USE NType DEF TypeOK, TableTypeOK, BaseInv, SupAt, tableVars, monVars, ghostVars
<1>1. CASE SupTop
  <2>1. TypeOK'
    BY <1>1 DEF SupTop, SupPcs
  <2>2. SupInv'
    BY <1>1 DEF SupTop, SupInv, N
  <2>3. SignalInv' /\ NameInv' /\ OwnEntry'
    BY <1>1 DEF SupTop, SupInv, SignalInv, NameInv, OwnEntry, Live, Prefix
  <2>4. QED
    BY <2>1, <2>2, <2>3
<1>2. CASE SupRegister
  BY <1>2, RegisterBase
<1>3. CASE SupLaunch
  <2>1. ASSUME NEW d \in pending, NEW g \in Gor, Spawn(g, GetId(d), d),
               pending' = pending \ {d}, UNCHANGED supPc
        PROVE  TypeOK' /\ BaseInv'
    <3>1. supPc = "launch" /\ d \in Devices /\ \E i \in Prefix : name[i] = d
      BY <1>3, <2>1 DEF SupLaunch, NameInv
    <3>2. GetId(d) \in Prefix /\ name[GetId(d)] = d
      BY <3>1, GetIdFinds
    <3>3. UNCHANGED <<mainPc, tableVars, monVars, supI, supTimeout, finish, ghostVars>>
      BY <1>3 DEF SupLaunch
    <3>4. gor' \in [Gor -> Goroutine] /\ OwnEntry' /\ SignalInv'
      BY <2>1, <3>1, <3>2, <3>3, SpawnBase
    <3>5. TypeOK' /\ SupInv' /\ NameInv'
      BY <2>1, <3>1, <3>3, <3>4 DEF SupInv, NameInv, Prefix
    <3>6. QED
      BY <3>4, <3>5
  <2>2. CASE pending = {} /\ supPc' = "scan" /\ UNCHANGED <<pending, gor>>
    BY <1>3, <2>2 DEF SupLaunch, SupPcs, SupInv, SignalInv, NameInv, OwnEntry, Live, Prefix
  <2>3. QED
    BY <1>3, <2>1, <2>2 DEF SupLaunch
<1>4. CASE SupScan
  <2>1. supI \in Ids /\ status[supI] \in Status
    BY <1>4 DEF SupScan, Ids
  <2>2. /\ supPc' \in {"scan", "nap", "backoff", "relaunch"}
        /\ supPc' = "scan" => supI' = supI + 1 /\ finish' = finish
        /\ supPc' # "scan" => supI' = supI
        /\ finish' # finish => finish' = finish + 1 /\ supPc' = "nap" /\ status[supI] = FIN
    BY <1>4, <2>1 DEF SupScan, Status, NEW_, RUN, START, RESTARTERR, ERR, FIN
  <2>3. supPc = "scan" /\ length = N /\ supI <= N /\ finish < N + supI - 1
        /\ UNCHANGED <<mainPc, tableVars, monVars, supTimeout, pending, gor, ghostVars>>
    BY <1>4 DEF SupScan, SupInv
  <2>4. TypeOK'
    BY <2>2, <2>3 DEF SupPcs
  <2>5. SupInv'
    BY <2>2, <2>3 DEF SupInv
  <2>6. SignalInv' /\ NameInv' /\ OwnEntry'
    BY <2>1, <2>2, <2>3 DEF SignalInv, NameInv, OwnEntry, Live, Prefix
  <2>7. QED
    BY <2>4, <2>5, <2>6
<1>5. CASE SupScanEnd
  BY <1>5 DEF SupScanEnd, SupPcs, SupInv, SignalInv, NameInv, OwnEntry, Live, Prefix
<1>6. CASE SupReadTimeout
  <2>1. timeout[supI] \in FirstTimeout .. MaxTimeout
    BY <1>6 DEF SupReadTimeout, SupInv, Ids
  <2>2. supTimeout' \in FirstTimeout .. MaxTimeout /\ supTimeout' # 0
    BY <1>6, <2>1, BackoffType DEF SupReadTimeout, FirstTimeout
  <2>3. TypeOK' /\ SupInv'
    BY <1>6, <2>2 DEF SupReadTimeout, SupPcs, SupInv
  <2>4. SignalInv' /\ NameInv' /\ OwnEntry'
    BY <1>6 DEF SupReadTimeout, SignalInv, NameInv, OwnEntry, Live, Prefix
  <2>5. QED
    BY <2>3, <2>4
<1>7. CASE SupStoreTimeout
  <2>1. supTimeout \in FirstTimeout .. MaxTimeout
    BY <1>7 DEF SupStoreTimeout, SupInv
  <2>2. TypeOK' /\ SupInv'
    BY <1>7, <2>1 DEF SupStoreTimeout, SetTimeout, SupPcs, SupInv
  <2>3. SignalInv' /\ NameInv' /\ OwnEntry'
    BY <1>7 DEF SupStoreTimeout, SignalInv, NameInv, OwnEntry, Live, Prefix
  <2>4. QED
    BY <2>2, <2>3
<1>8. CASE SupRelaunch
  <2>1. PICK g \in Gor : Spawn(g, supI, name[supI])
    BY <1>8 DEF SupRelaunch
  <2>2. supI \in Prefix /\ name[supI] \in Devices
    BY <1>8 DEF SupRelaunch, SupInv, NameInv, Prefix
  <2>3. /\ supPc = "relaunch" /\ supPc' = "nap"
        /\ UNCHANGED <<mainPc, tableVars, monVars, supI, supTimeout, finish, pending, ghostVars>>
    BY <1>8 DEF SupRelaunch
  <2>4. gor' \in [Gor -> Goroutine] /\ OwnEntry' /\ SignalInv'
    BY <2>1, <2>2, <2>3, SpawnBase
  <2>5. TypeOK' /\ SupInv' /\ NameInv'
    BY <2>3, <2>4 DEF SupPcs, SupInv, NameInv, Prefix
  <2>6. QED
    BY <2>4, <2>5
<1>9. CASE SupNap
  BY <1>9 DEF SupNap, SupPcs, SupInv, SignalInv, NameInv, OwnEntry, Live, Prefix
<1>10. QED
  BY <1>1, <1>2, <1>3, <1>4, <1>5, <1>6, <1>7, <1>8, <1>9 DEF Supervisor

\* Every step of the system.
LEMMA BaseStep ==
  ASSUME TypeOK, BaseInv, [Next]_vars
  PROVE  TypeOK' /\ BaseInv'
<1>1. ASSUME NEW g \in Gor, Abort(g)
      PROVE  TypeOK' /\ BaseInv'
  BY <1>1 DEF Abort, TypeOK, TableTypeOK, MainPcs, BaseInv, SupInv, SignalInv,
              NameInv, OwnEntry, Live, Prefix, tableVars, monVars, supVars, ghostVars
<1>2. CASE UNCHANGED vars
  BY <1>2 DEF vars, TypeOK, TableTypeOK, BaseInv, SupInv, SignalInv,
              NameInv, OwnEntry, Live, Prefix, tableVars, monVars, supVars, ghostVars
<1>3. CASE InboundAborts \/ \E i \in Ids : WorkerLeaves(i)
  BY <1>3 DEF InboundAborts, WorkerLeaves, TypeOK, TableTypeOK, MainPcs, BaseInv, SupInv,
              SignalInv, NameInv, OwnEntry, Live, Prefix, tableVars, monVars, supVars, ghostVars
<1>4. QED
  BY <1>1, <1>2, <1>3, MainBase, MonitorBase, SupervisorBase, WorkerBase DEF Next

LEMMA BaseStart == Init => TypeOK /\ BaseInv
<1> USE NType DEF Init, TableInit
<1>1. Init => TypeOK
  <2>1. Idle \in Goroutine
    BY DEF Goroutine, Idle, GorPcs
  <2>2. Init => TableTypeOK
    BY DEF TableTypeOK, Status, NEW_, FirstTimeout
  <2>3. QED
    BY <2>1, <2>2, 0 \in 0 .. N, 1 \in 1 .. N + 1, 0 \in 0 .. 2 * N
       DEF TypeOK, MainPcs, MonPcs, SupPcs
<1>2. Init => SupInv /\ SignalInv /\ OwnEntry
  BY DEF SupInv, SignalInv, OwnEntry, Live, Idle, NEW_, FIN
<1>3. Init => NameInv
  BY DEF NameInv, Prefix
<1>4. QED
  BY <1>1, <1>2, <1>3 DEF BaseInv

\* The variables keep their types; no retry timeout leaves 2 .. MAX_TIMEOUT.
THEOREM TypeCorrect == Spec => []TypeOK
<1>1. TypeOK /\ BaseInv /\ [Next]_vars => (TypeOK /\ BaseInv)'
  BY BaseStep
<1>2. QED
  BY BaseStart, <1>1, PTL DEF Spec

THEOREM BaseHolds == Spec => []BaseInv
<1>1. TypeOK /\ BaseInv /\ [Next]_vars => (TypeOK /\ BaseInv)'
  BY BaseStep
<1>2. QED
  BY BaseStart, <1>1, PTL DEF Spec

\* Without a signal the supervisor never leaves its loop: whatever the devices
\* do, and however late restarts are, nothing but the monitor writes FIN first.
THEOREM NoExit == Spec => []NoExitWithoutSignal
<1>1. BaseInv => NoExitWithoutSignal
  BY DEF BaseInv, SignalInv, NoExitWithoutSignal
<1>2. QED
  BY BaseHolds, <1>1, PTL

\* A worker is handed its own device, channel and entry.
THEOREM Own == Spec => []OwnEntry
<1>1. BaseInv => OwnEntry
  BY DEF BaseInv
<1>2. QED
  BY BaseHolds, <1>1, PTL

-----------------------------------------------------------------------------
(* SlotInv is inductive when restarts are in time                          *)

\* What a step of a worker makes of its own entry.
LEMMA WorkerLocal ==
  ASSUME TypeOK, BaseInv, SlotInv, NEW g \in Gor, Worker(g) \/ Device(g)
  PROVE  /\ \/ gor'[g] = Idle
            \/ /\ gor'[g].pc \notin {"free", "spawned", "stopping"}
               /\ status'[gor[g].id] \in StatusAt(gor'[g].pc)
         /\ gor[g].id \in told => gor[g].pc = "stopping" /\ gor'[g] = Idle
                                  /\ status'[gor[g].id] = FIN
         /\ status'[gor[g].id] = START =>
              gor'[g].pc = "dialing"
         /\ timeout' # timeout => gor[g].pc = "reset"
         /\ leaving' = IF AtWork(g) /\ gor'[g] = Idle THEN leaving \cup {gor[g].id}
                       ELSE leaving
<1>1. /\ Live(g) /\ gor[g].id \in Ids /\ gor[g].id <= length
      /\ gor[g].id \in told => gor[g].pc = "stopping"
      /\ status[gor[g].id] \in StatusAt(gor[g].pc)
  BY WorkerWrites, NType
     DEF BaseInv, SlotInv, WorkerInv, StopInv, StoppedForGood, Prefix, TypeOK, TableTypeOK
<1>2. /\ \A pc : Goto(g, pc) => gor'[g].pc = pc
      /\ Return(g) => gor'[g] = Idle
      /\ \A s : SetStatus(gor[g].id, s) => status'[gor[g].id] = s
  BY <1>1 DEF Goto, Return, SetStatus, TypeOK, TableTypeOK, Goroutine
<1>3. \A s : Report(g, s) => /\ gor'[g] = Idle /\ status'[gor[g].id] = s
                             /\ timeout' = timeout /\ leaving' = leaving \cup {gor[g].id}
  BY <1>2 DEF Report
<1>4. \A pc : Goto(g, pc) /\ pc # "free" => gor'[g] # Idle
  BY <1>2 DEF Idle
<1> USE <1>1, <1>2, <1>3, <1>4 DEF GorAt, AtWork, OthersOfGor, ghostVars, StatusAt, tableVars, NEW_, RUN, START, RESTARTERR, ERR, FIN
<1>5. CASE WorkerStart(g)
  BY <1>5 DEF WorkerStart
<1>6. CASE WorkerResetTimeout(g)
  BY <1>6 DEF WorkerResetTimeout
<1>7. CASE WorkerTick(g)
  BY <1>7 DEF WorkerTick
<1>8. CASE WorkerStop(g)
  BY <1>8 DEF WorkerStop
<1>9. CASE WorkerDialError(g)
  BY <1>9 DEF WorkerDialError
<1>10. CASE WorkerConnected(g)
  BY <1>10 DEF WorkerConnected
<1>11. CASE WorkerSetup(g)
  BY <1>11 DEF WorkerSetup
<1>12. CASE WorkerSetupFails(g)
  BY <1>12 DEF WorkerSetupFails
<1>13. CASE WorkerAnswered(g)
  BY <1>13 DEF WorkerAnswered
<1>14. CASE WorkerSetErr(g)
  BY <1>14 DEF WorkerSetErr
<1>15. QED
  BY <1>5, <1>6, <1>7, <1>8, <1>9, <1>10, <1>11, <1>12, <1>13, <1>14
     DEF Worker, Device

\* A worker's step.
LEMMA WorkerSlot ==
  ASSUME TypeOK, BaseInv, SlotInv, NEW g \in Gor, Worker(g) \/ Device(g)
  PROVE  SlotInv'
<1> DEFINE id == gor[g].id
<1>1. /\ Live(g) /\ id \in Ids /\ id \in Prefix
      /\ UNCHANGED <<length, name, supPc, supI, supTimeout, pending, told>>
      /\ leaving' \in {leaving, leaving \cup {id}}
      /\ \A i \in Ids : i # id => status'[i] = status[i] /\ timeout'[i] = timeout[i]
      /\ \A h \in Gor \ {g} : gor'[h] = gor[h]
      /\ gor'[g] = Idle \/ (gor'[g].id = id /\ gor'[g].dev = gor[g].dev)
  <2>1. gor \in [Gor -> Goroutine] /\ status \in [Ids -> Status]
        /\ timeout \in [Ids -> FirstTimeout .. MaxTimeout]
    BY DEF TypeOK, TableTypeOK
  <2>2. OwnEntry
    BY DEF BaseInv
  <2>3. \A pc : gor' = [gor EXCEPT ![g].pc = pc] =>
          gor'[g].id = id /\ gor'[g].dev = gor[g].dev
          /\ \A h \in Gor \ {g} : gor'[h] = gor[h]
    BY <2>1 DEF Goroutine
  <2>4. gor' = [gor EXCEPT ![g] = Idle] \/ \E pc \in GorPcs : gor' = [gor EXCEPT ![g].pc = pc]
    BY <2>2, WorkerWrites
  <2>5. /\ \A h \in Gor \ {g} : gor'[h] = gor[h]
        /\ gor'[g] = Idle \/ (gor'[g].id = id /\ gor'[g].dev = gor[g].dev)
    <3>1. gor' = [gor EXCEPT ![g] = Idle] =>
            gor'[g] = Idle /\ \A h \in Gor \ {g} : gor'[h] = gor[h]
      BY <2>1
    <3>2. QED
      BY <2>3, <2>4, <3>1
  <2>6. Live(g) /\ id \in Ids /\ id \in Prefix
        /\ UNCHANGED <<length, name, supPc, supI, supTimeout, pending, told>>
        /\ leaving' \in {leaving, leaving \cup {id}}
    BY <2>2, WorkerWrites DEF supVars
  <2>7. \A i \in Ids : i # id => status'[i] = status[i] /\ timeout'[i] = timeout[i]
    BY <2>1, <2>2, WorkerWrites
  <2>8. QED
    BY <2>5, <2>6, <2>7
<1>2. /\ \/ gor'[g] = Idle
         \/ /\ gor'[g].pc \notin {"free", "spawned", "stopping"}
            /\ status'[id] \in StatusAt(gor'[g].pc)
      /\ id \in told => gor[g].pc = "stopping" /\ gor'[g] = Idle /\ status'[id] = FIN
      /\ status'[id] = START => gor'[g].pc = "dialing"
  BY WorkerLocal
<1>3. \A h \in Gor : Live(h)' => Live(h) /\ gor'[h].id = gor[h].id /\ gor'[h].dev = gor[h].dev
  BY <1>1, <1>2 DEF Live, Idle
<1>4. \A h \in Gor \ {g} : Live(h) => gor[h].id # id /\ gor[h].id \in Ids
  BY <1>1, NType DEF SlotInv, WorkerInv, OneCollectorPerDevice, BaseInv, OwnEntry,
                     Ids, TypeOK, TableTypeOK
<1>5. \A i \in Ids \ {id} : Owners(i)' = Owners(i)
  BY <1>1, <1>3, <1>4 DEF Owners, Live, Idle
<1>6. WorkerInv'
  <2>1. OneCollectorPerDevice'
    BY <1>3 DEF SlotInv, WorkerInv, OneCollectorPerDevice
  <2>2. \A h \in Gor : Live(h)' => status'[gor'[h].id] \in StatusAt(gor'[h].pc)
    BY <1>1, <1>2, <1>3, <1>4 DEF SlotInv, WorkerInv, Live, Idle
  <2>3. ASSUME NEW i \in Ids, status'[i] = START
        PROVE  \E h \in Owners(i)' : gor'[h].pc = "dialing"
    <3>1. CASE i = id
      <4>1. gor'[g].pc = "dialing"
        BY <1>2, <2>3, <3>1
      <4>2. g \in Owners(i)'
        BY <1>1, <3>1, <4>1 DEF Owners, Live, Idle
      <4>3. QED
        BY <4>1, <4>2
    <3>2. CASE i # id
      <4>1. PICK h \in Owners(i) : gor[h].pc = "dialing"
        BY <1>1, <2>3, <3>2 DEF SlotInv, WorkerInv, StartHasWorker
      <4>2. h # g /\ h \in Owners(i)'
        BY <1>5, <3>2, <4>1 DEF Owners
      <4>3. gor'[h] = gor[h]
        BY <1>1, <4>1, <4>2 DEF Owners
      <4>4. QED
        BY <4>1, <4>2, <4>3
    <3>3. QED
      BY <3>1, <3>2
  <2>4. QED
    BY <2>1, <2>2, <2>3 DEF WorkerInv, StartHasWorker
<1>7. LaunchInv'
  <2>1. supPc = "launch" => name[id] \notin pending
    BY <1>1 DEF SlotInv, LaunchInv, BaseInv, OwnEntry
  <2>2. length = N /\ supPc \notin {"off", "register"}
    BY <1>1, NType DEF SlotInv, LaunchInv, TypeOK, TableTypeOK
  <2>3. QED
    BY <1>1, <1>3, <2>1, <2>2 DEF SlotInv, LaunchInv, Prefix
<1>8. RestartInv'
  <2>1. supPc \in {"backoff", "store", "relaunch"} => supI # id /\ supI \in Ids
    BY <1>1, NType DEF SlotInv, RestartInv, Owners, BaseInv, SupInv, Ids, TypeOK
  <2>2. \A h \in Gor : gor'[h].pc = "spawned" => h # g
    BY <1>2 DEF Idle
  <2>3. QED
    BY <1>1, <1>4, <1>5, <2>1, <2>2 DEF SlotInv, RestartInv, Live
<1>9. StopInv'
  <2>1. StoppedForGood'
    BY <1>1, <1>2, <1>3 DEF SlotInv, StopInv, StoppedForGood, Live, Idle
  <2>2. \A i \in told : i \in Ids
    BY DEF TypeOK
  <2>3. \A i \in told : Owners(i)' = {} => status'[i] = FIN
    BY <1>1, <1>2, <1>5, <2>2 DEF SlotInv, StopInv
  <2>4. QED
    BY <1>1, <2>1, <2>3 DEF StopInv
<1>10. QED
  BY <1>6, <1>7, <1>8, <1>9 DEF SlotInv

\* A step of the monitor, the signal and the delivery included.
LEMMA MonitorSlot ==
  ASSUME TypeOK, BaseInv, SlotInv, Monitor \/ Signal \/ \E g \in Gor : DeliverStop(g)
  PROVE  SlotInv'
<1>1. CASE UNCHANGED <<tableVars, supVars, gor, leaving, told>>
  BY <1>1 DEF SlotInv, WorkerInv, OneCollectorPerDevice, StartHasWorker, LaunchInv,
              RestartInv, StopInv, StoppedForGood, Owners, Live, Prefix, tableVars, supVars
<1>2. CASE MonSetFin
  <2>1. monJ \in Prefix /\ monJ \in Ids /\ monJ <= length
    BY <1>2, NType DEF MonSetFin, MonAt, BaseInv, SupInv, Prefix, Ids, TypeOK, TableTypeOK
  <2>2. /\ UNCHANGED <<length, name, timeout, supVars, gor, leaving, told>>
        /\ status' = [status EXCEPT ![monJ] = FIN]
    BY <1>2, <2>1 DEF MonSetFin, SetStatus, ghostVars
  <2>3. \A i \in Ids : status'[i] = status[i] \/ (status'[i] = FIN /\ i = monJ)
    BY <2>2 DEF TypeOK, TableTypeOK
  <2>4. WorkerInv'
    <3>1. \A g \in Gor : Live(g) => gor[g].id \in Ids /\ status'[gor[g].id] \in StatusAt(gor[g].pc)
      BY <2>3, NType DEF SlotInv, WorkerInv, StatusAt, BaseInv, OwnEntry, Ids, TypeOK, TableTypeOK
    <3>2. QED
      BY <2>2, <2>3, <3>1 DEF SlotInv, WorkerInv, OneCollectorPerDevice, StartHasWorker,
                             Owners, Live, START, FIN
  <2>5. LaunchInv'
    BY <2>1, <2>2, <2>3 DEF SlotInv, LaunchInv, Prefix, supVars, Live
  <2>6. RestartInv'
    <3>1. supPc \in {"backoff", "store", "relaunch"} => supI \in Ids
      BY NType DEF BaseInv, SupInv, Ids, TypeOK
    <3>2. \A g \in Gor : gor[g].pc = "spawned" => gor[g].id \in Ids
      BY NType DEF BaseInv, OwnEntry, Live, Ids, TypeOK, TableTypeOK
    <3>3. QED
      BY <2>2, <2>3, <3>1, <3>2 DEF SlotInv, RestartInv, Owners, Live, supVars, ERR, RESTARTERR, FIN
  <2>7. StopInv'
    BY <2>2, <2>3 DEF SlotInv, StopInv, StoppedForGood, Owners, Live, TypeOK
  <2>8. QED
    BY <2>4, <2>5, <2>6, <2>7 DEF SlotInv
<1>3. ASSUME NEW g \in Gor, DeliverStop(g)
      PROVE  SlotInv'
  <2>1. /\ UNCHANGED <<tableVars, supVars, leaving>>
        /\ gor[g].pc = "loop" /\ gor[g].id = monJ /\ monJ \in Ids /\ monJ \in Prefix
        /\ told' = told \cup {monJ}
    BY <1>3, NType DEF DeliverStop, GorAt, MonAt, BaseInv, SupInv, Prefix, Ids, TypeOK, TableTypeOK
  <2>2. /\ gor'[g].pc = "stopping" /\ gor'[g].id = monJ /\ gor'[g].dev = gor[g].dev
        /\ \A h \in Gor \ {g} : gor'[h] = gor[h]
    BY <1>3, <2>1 DEF DeliverStop, TypeOK, Goroutine
  <2>3. /\ Live(g) /\ \A h \in Gor : gor'[h].id = gor[h].id /\ gor'[h].dev = gor[h].dev /\ Live(h)' = Live(h)
        /\ \A i \in Ids : Owners(i)' = Owners(i)
    BY <2>1, <2>2 DEF Live, Owners
  <2>4. \A h \in Gor \ {g} : Live(h) => gor[h].id # monJ
    BY <2>1, <2>3 DEF SlotInv, WorkerInv, OneCollectorPerDevice
  <2>5. WorkerInv'
    <3>1. OneCollectorPerDevice'
      BY <2>3 DEF SlotInv, WorkerInv, OneCollectorPerDevice
    <3>2. \A h \in Gor : Live(h)' => status'[gor'[h].id] \in StatusAt(gor'[h].pc)
      BY <2>1, <2>2, <2>3 DEF SlotInv, WorkerInv, StatusAt, tableVars
    <3>3. StartHasWorker'
      <4>1. ASSUME NEW i \in Ids, status[i] = START
            PROVE  \E h \in Owners(i)' : gor'[h].pc = "dialing"
        <5>1. PICK h \in Owners(i) : gor[h].pc = "dialing"
          BY <4>1 DEF SlotInv, WorkerInv, StartHasWorker
        <5>2. h # g
          BY <2>1, <5>1
        <5>3. QED
          BY <2>2, <2>3, <5>1, <5>2 DEF Owners
      <4>2. QED
        BY <2>1, <4>1 DEF StartHasWorker, tableVars
    <3>4. QED
      BY <3>1, <3>2, <3>3 DEF WorkerInv
  <2>6. LaunchInv'
    <3>1. length = N /\ supPc \notin {"off", "register"}
      BY <2>3, NType DEF SlotInv, LaunchInv, TypeOK, TableTypeOK
    <3>2. supPc = "launch" => name[monJ] \notin pending
      BY <2>1, <2>3 DEF SlotInv, LaunchInv, BaseInv, OwnEntry
    <3>3. QED
      BY <2>1, <2>3, <3>1, <3>2 DEF SlotInv, LaunchInv, Prefix, tableVars, supVars
  <2>7. RestartInv'
    <3>1. supPc \in {"backoff", "store", "relaunch"} => supI # monJ /\ supI \in Ids
      BY <2>1, <2>3, NType DEF SlotInv, RestartInv, Owners, BaseInv, SupInv, Ids, TypeOK
    <3>2. \A h \in Gor : gor'[h].pc = "spawned" => h # g
      BY <2>2
    <3>3. QED
      BY <2>1, <2>2, <2>3, <3>1, <3>2 DEF SlotInv, RestartInv, tableVars, supVars
  <2>8. StopInv'
    <3>1. \A i \in told' : i \in Ids /\ (Owners(i)' = {} => i # monJ)
      BY <2>1, <2>3 DEF TypeOK, Owners
    <3>2. StoppedForGood'
      BY <2>1, <2>2, <2>3, <2>4 DEF SlotInv, StopInv, StoppedForGood
    <3>3. QED
      BY <2>1, <2>3, <3>1, <3>2 DEF SlotInv, StopInv, tableVars
  <2>9. QED
    BY <2>5, <2>6, <2>7, <2>8 DEF SlotInv
<1>4. QED
  BY <1>1, <1>2, <1>3 DEF Monitor, Signal, MonNap, MonCheck, MonTotal, MonCount, ghostVars

\* A new worker for an entry nobody else owns and nobody was told to stop.
LEMMA SpawnSlot ==
  ASSUME TypeOK, BaseInv, SlotInv, NEW g \in Gor, NEW i \in Prefix,
         Spawn(g, i, name[i]), Owners(i) = {}, i \notin told,
         status[i] \in {NEW_, ERR, RESTARTERR, FIN},
         UNCHANGED <<tableVars, told>>
  PROVE  /\ WorkerInv' /\ StopInv'
         /\ \A h \in Gor \ {g} : gor'[h] = gor[h]
         /\ ~Live(g) /\ gor'[g] = [pc |-> "spawned", id |-> i, dev |-> name[i]]
         /\ \A j \in Ids : j # i => Owners(j)' = Owners(j)
<1>1. /\ ~Live(g) /\ gor'[g] = [pc |-> "spawned", id |-> i, dev |-> name[i]]
      /\ \A h \in Gor \ {g} : gor'[h] = gor[h]
  BY DEF Spawn, TypeOK
<1>2. Live(g)' /\ \A h \in Gor \ {g} : Live(h)' = Live(h)
  BY <1>1 DEF Live
<1>3. \A j : j # i => Owners(j)' = Owners(j)
  BY <1>1, <1>2 DEF Owners
<1>4. g \in Owners(i)'
  BY <1>1, <1>2 DEF Owners
<1>5. WorkerInv'
  <2>1. OneCollectorPerDevice'
    BY <1>1, <1>2 DEF SlotInv, WorkerInv, OneCollectorPerDevice, Owners
  <2>2. \A h \in Gor : Live(h)' => status'[gor'[h].id] \in StatusAt(gor'[h].pc)
    BY <1>1, <1>2 DEF SlotInv, WorkerInv, StatusAt, tableVars
  <2>3. \A j \in Ids : status[j] = START => j # i
    BY DEF START, NEW_, ERR, RESTARTERR, FIN
  <2>4. ASSUME NEW j \in Ids, status[j] = START
        PROVE  \E h \in Owners(j)' : gor'[h].pc = "dialing"
    <3>1. PICK h \in Owners(j) : gor[h].pc = "dialing"
      BY <2>4 DEF SlotInv, WorkerInv, StartHasWorker
    <3>2. h # g /\ h \in Gor /\ h \in Owners(j)'
      BY <1>1, <1>3, <2>3, <2>4, <3>1 DEF Owners
    <3>3. QED
      BY <1>1, <3>1, <3>2
  <2>5. StartHasWorker'
    BY <2>4 DEF StartHasWorker, tableVars
  <2>6. QED
    BY <2>1, <2>2, <2>5 DEF WorkerInv
<1>6. StopInv'
  BY <1>1, <1>2, <1>3 DEF SlotInv, StopInv, StoppedForGood, tableVars
<1>7. QED
  BY <1>1, <1>3, <1>5, <1>6

\* A step of the supervisor.
LEMMA SupervisorSlot ==
  ASSUME ~Pubkey, TypeOK, BaseInv, SlotInv, Supervisor
  PROVE  SlotInv'
<1> USE DEF SupAt, tableVars, ghostVars
<1> DEFINE quiet == UNCHANGED <<length, name, status, told, gor>>
<1>1. quiet => WorkerInv' /\ StopInv'
  BY DEF SlotInv, WorkerInv, OneCollectorPerDevice, StartHasWorker, StopInv,
         StoppedForGood, Owners, Live
<1>2. CASE SupTop
  <2>1. supPc' = "register" => length = 0 /\ length < N
    BY <1>2, NType DEF SupTop
  <2>2. LaunchInv'
    BY <1>2, <2>1, NType DEF SupTop, SlotInv, LaunchInv, Live, Prefix, Ids, TypeOK
  <2>3. RestartInv'
    BY <1>2 DEF SupTop, SlotInv, RestartInv
  <2>4. QED
    BY <1>1, <1>2, <2>2, <2>3 DEF SupTop, SlotInv
<1>3. CASE SupRegister
  <2>1. (\A g \in Gor : ~Live(g)) /\ told = {} /\ leaving = {} /\ \A i \in Ids : status[i] \in {NEW_, FIN}
    BY <1>3 DEF SupRegister, SlotInv, LaunchInv
  <2>2. UNCHANGED <<gor, leaving, told>> /\ supPc' \in {"register", "launch"}
    BY <1>3 DEF SupRegister
  <2>3. /\ \A i \in Ids : status'[i] \in {NEW_, FIN}
        /\ \A i \in Ids \ Prefix' :
             i \in Ids \ Prefix /\ status'[i] = status[i] /\ timeout'[i] = timeout[i]
    <3>1. CASE UNCHANGED tableVars
      BY <2>1, <3>1 DEF Prefix
    <3>2. ASSUME NEW d \in pending, AddWorker(d)
          PROVE  /\ \A i \in Ids : status'[i] \in {NEW_, FIN}
                 /\ \A i \in Ids \ Prefix' :
                      /\ i \in Ids \ Prefix
                      /\ status'[i] = status[i] /\ timeout'[i] = timeout[i]
      BY <2>1, <3>2 DEF AddWorker, Prefix, Ids, TypeOK, TableTypeOK
    <3>3. QED
      BY <1>3, <3>1, <3>2 DEF SupRegister
  <2>4. WorkerInv' /\ StopInv' /\ RestartInv'
    BY <2>1, <2>2, <2>3
       DEF WorkerInv, OneCollectorPerDevice, StartHasWorker, StopInv, StoppedForGood,
           RestartInv, Live, NEW_, FIN, START
  <2>5. LaunchInv'
    BY <2>1, <2>2, <2>3 DEF SlotInv, LaunchInv, Live
  <2>6. QED
    BY <2>4, <2>5 DEF SlotInv
<1>4. CASE SupLaunch
  <2>1. ASSUME NEW d \in pending, NEW g \in Gor, Spawn(g, GetId(d), d),
               pending' = pending \ {d}, UNCHANGED supPc
        PROVE  SlotInv'
    <3>1. UNCHANGED <<tableVars, leaving, told>> /\ supPc = "launch" /\ d \in Devices
          /\ length = N
      BY <1>4 DEF SupLaunch, TypeOK, BaseInv, SupInv
    <3>2. GetId(d) \in Prefix /\ GetId(d) \in Ids /\ name[GetId(d)] = d
      BY <3>1, GetIdFinds DEF BaseInv, NameInv
    <3>3. Owners(GetId(d)) = {}
      BY <3>1, <3>2 DEF Owners, BaseInv, OwnEntry, SlotInv, LaunchInv
    <3>4. GetId(d) \notin told /\ status[GetId(d)] \in {NEW_, FIN}
      BY <3>1, <3>2 DEF SlotInv, LaunchInv
    <3>5. /\ WorkerInv' /\ StopInv'
          /\ \A h \in Gor \ {g} : gor'[h] = gor[h]
          /\ ~Live(g) /\ gor'[g] = [pc |-> "spawned", id |-> GetId(d), dev |-> d]
      BY <2>1, <3>1, <3>2, <3>3, <3>4, SpawnSlot
    <3>6. LaunchInv'
      BY <2>1, <3>1, <3>5, NType DEF SlotInv, LaunchInv, Live, Prefix
    <3>7. RestartInv'
      BY <2>1, <3>1, <3>4, <3>5 DEF SlotInv, RestartInv, NEW_, FIN, ERR, RESTARTERR
    <3>8. QED
      BY <3>5, <3>6, <3>7 DEF SlotInv
  <2>2. CASE supPc' = "scan" /\ UNCHANGED <<pending, gor>>
    BY <1>1, <1>4, <2>2 DEF SupLaunch, SlotInv, LaunchInv, RestartInv, Live, Prefix
  <2>3. QED
    BY <1>4, <2>1, <2>2 DEF SupLaunch
<1>5. CASE SupScan
  <2>1. supPc = "scan" /\ quiet /\ UNCHANGED <<timeout, leaving>> /\ supI \in Ids /\ status[supI] \in Status
    BY <1>5 DEF SupScan, Ids, BaseInv, SupInv, TypeOK, TableTypeOK
  <2>2. /\ supPc' \in {"scan", "nap", "backoff", "relaunch"}
        /\ supPc' \in {"backoff", "relaunch"} => supI' = supI /\ status[supI] \in {ERR, RESTARTERR}
    BY <1>5, <2>1 DEF SupScan, Status, NEW_, RUN, START, RESTARTERR, ERR, FIN
  <2>3. \A g \in Gor : gor[g].pc = "spawned" => status[gor[g].id] \notin {ERR, RESTARTERR}
    BY <2>1 DEF SlotInv, RestartInv
  <2>4. status[supI] \in {ERR, RESTARTERR} => Owners(supI) = {}
    BY <2>1, <2>3 DEF Owners, SlotInv, WorkerInv, StatusAt, NEW_, RUN, START, RESTARTERR, ERR, FIN
  <2>5. status[supI] \in {ERR, RESTARTERR} => supI \notin told
    BY <2>4 DEF SlotInv, StopInv, RESTARTERR, ERR, FIN
  <2>6. RestartInv'
    BY <2>1, <2>2, <2>3, <2>4, <2>5 DEF RestartInv, Owners, Live
  <2>7. LaunchInv'
    BY <2>1, <2>2 DEF SlotInv, LaunchInv, Live, Prefix
  <2>8. QED
    BY <1>1, <2>1, <2>6, <2>7 DEF SlotInv
<1>6. CASE SupScanEnd
  BY <1>1, <1>6 DEF SupScanEnd, SlotInv, LaunchInv, RestartInv, Live, Prefix
<1>7. CASE SupReadTimeout
  BY <1>1, <1>7 DEF SupReadTimeout, SlotInv, LaunchInv, RestartInv, Owners, Live, Prefix
<1>8. CASE SupStoreTimeout
  <2>1. length = N
    BY <1>8 DEF SupStoreTimeout, BaseInv, SupInv
  <2>2. LaunchInv' /\ RestartInv'
    BY <1>8, <2>1 DEF SupStoreTimeout, SlotInv, LaunchInv, RestartInv, Owners, Live, Prefix, Ids
  <2>3. QED
    BY <1>1, <1>8, <2>2 DEF SupStoreTimeout, SlotInv
<1>9. CASE SupRelaunch
  <2>1. PICK g \in Gor : Spawn(g, supI, name[supI])
    BY <1>9 DEF SupRelaunch
  <2>2. UNCHANGED <<tableVars, leaving, told, supI, pending>> /\ supPc = "relaunch" /\ supPc' = "nap"
        /\ supI \in Prefix /\ length = N
    BY <1>9 DEF SupRelaunch, BaseInv, SupInv, Prefix, TypeOK
  <2>3. Owners(supI) = {} /\ supI \notin told /\ status[supI] \in {ERR, RESTARTERR, FIN}
    BY <2>2 DEF SlotInv, RestartInv
  <2>4. /\ WorkerInv' /\ StopInv'
        /\ \A h \in Gor \ {g} : gor'[h] = gor[h]
        /\ gor'[g] = [pc |-> "spawned", id |-> supI, dev |-> name[supI]]
    BY <2>1, <2>2, <2>3, SpawnSlot
  <2>5. LaunchInv'
    BY <2>2, NType DEF SlotInv, LaunchInv, Prefix
  <2>6. RestartInv'
    BY <2>2, <2>4 DEF SlotInv, RestartInv
  <2>7. QED
    BY <2>4, <2>5, <2>6 DEF SlotInv
<1>10. CASE SupNap
  <2>1. \A g \in Gor : gor[g].pc = "spawned" => gor[g].id # supI
    BY <1>10 DEF SupNap, StartedInTime
  <2>2. RestartInv'
    BY <1>10, <2>1 DEF SupNap, SlotInv, RestartInv
  <2>3. QED
    BY <1>1, <1>10, <2>2 DEF SupNap, SlotInv, LaunchInv, Live, Prefix
<1>11. QED
  BY <1>2, <1>3, <1>4, <1>5, <1>6, <1>7, <1>8, <1>9, <1>10 DEF Supervisor

\* Every step of the system.
LEMMA SlotStep ==
  ASSUME ~Pubkey, TypeOK, BaseInv, SlotInv, [Next]_vars
  PROVE  SlotInv'
<1>1. CASE \/ Main \/ (\E g \in Gor : Abort(g)) \/ UNCHANGED vars
           \/ InboundAborts \/ \E i \in Ids : WorkerLeaves(i)
  <2>1. /\ UNCHANGED <<length, name, status, timeout, supI, supTimeout, pending, gor, told>>
        /\ leaving' \subseteq leaving
        /\ supPc' = supPc \/ (supPc = "off" /\ supPc' = "top")
    BY <1>1 DEF Main, StartSupervisor, WaitReturns, Exit, Abort, InboundAborts, WorkerLeaves, vars, tableVars,
                supVars, ghostVars, BaseInv, SupInv
  <2>2. QED
    BY <2>1 DEF SlotInv, WorkerInv, OneCollectorPerDevice, StartHasWorker, LaunchInv,
                RestartInv, StopInv, StoppedForGood, Owners, Live, Prefix
<1>2. QED
  BY <1>1, MonitorSlot, SupervisorSlot, WorkerSlot DEF Next

LEMMA SlotStart == Init => SlotInv
  BY DEF Init, TableInit, SlotInv, WorkerInv, OneCollectorPerDevice, StartHasWorker,
         LaunchInv, RestartInv, StopInv, StoppedForGood, Owners, Live, Idle, Prefix,
         NEW_, START

\* When restarts are in time, the whole inductive invariant holds.
THEOREM StayCorrect == ~Pubkey => (Spec => []StayInv)
<1> SUFFICES ASSUME ~Pubkey PROVE Spec => []StayInv
  OBVIOUS
<1>1. Init => TypeOK /\ BaseInv /\ SlotInv
  BY BaseStart, SlotStart
<1>2. TypeOK /\ BaseInv /\ SlotInv /\ [Next]_vars => (TypeOK /\ BaseInv /\ SlotInv)'
  BY BaseStep, SlotStep
<1>3. TypeOK /\ BaseInv /\ SlotInv => StayInv
  BY DEF StayInv
<1>4. QED
  BY <1>1, <1>2, <1>3, PTL DEF Spec

\* No device is ever given a second worker while it has one that collects or
\* can still write its entry, with inbound commands and without.
THEOREM OneCollector == ~Pubkey => (Spec => []OneCollectorPerDevice)
<1>1. StayInv => OneCollectorPerDevice
  BY DEF StayInv, SlotInv, WorkerInv
<1>2. QED
  BY StayCorrect, <1>1, PTL

\* A device whose worker took the stop message is never dialled again.
THEOREM Stopped == ~Pubkey => (Spec => []StoppedForGood)
<1>1. StayInv => StoppedForGood
  BY DEF StayInv, SlotInv, StopInv
<1>2. QED
  BY StayCorrect, <1>1, PTL

\* START always means that somebody is at work.
THEOREM StartOwned == ~Pubkey => (Spec => []StartHasWorker)
<1>1. StayInv => StartHasWorker
  BY DEF StayInv, SlotInv, WorkerInv
<1>2. QED
  BY StayCorrect, <1>1, PTL

\* The backoff's read and write act as one step although they are two.
THEOREM BackoffAtomic == ~Pubkey => (Spec => BackoffStep)
<1> DEFINE A == \A i \in Ids : timeout'[i] # timeout[i] =>
                  \/ timeout'[i] = Backoff(timeout[i])
                  \/ timeout'[i] = FirstTimeout /\ \E g \in Owners(i) : gor[g].pc = "reset"
<1> SUFFICES ASSUME ~Pubkey PROVE Spec => BackoffStep
  OBVIOUS
<1>1. ASSUME TypeOK, StayInv, [Next]_vars
      PROVE  A
  <2>1. CASE UNCHANGED timeout
    BY <2>1
  <2>2. ASSUME NEW g \in Gor, Worker(g) \/ Device(g)
        PROVE  A
    <3>1. Live(g) /\ timeout' \in {timeout, [timeout EXCEPT ![gor[g].id] = FirstTimeout]}
      BY <1>1, <2>2, WorkerWrites DEF StayInv, BaseInv
    <3>2. timeout' # timeout => gor[g].pc = "reset"
      BY <1>1, <2>2, WorkerLocal DEF StayInv
    <3>3. QED
      BY <1>1, <3>1, <3>2 DEF Owners, TypeOK, TableTypeOK
  <2>3. CASE SupRegister
    <3>1. CASE UNCHANGED tableVars
      BY <3>1 DEF tableVars
    <3>2. ASSUME NEW d \in pending, AddWorker(d)
          PROVE  A
      BY <1>1, <3>2 DEF AddWorker, StayInv, SlotInv, LaunchInv, Prefix, TypeOK, TableTypeOK
    <3>3. QED
      BY <2>3, <3>1, <3>2 DEF SupRegister
  <2>4. CASE SupStoreTimeout
    <3>1. timeout' = [timeout EXCEPT ![supI] = Backoff(timeout[supI])]
      BY <1>1, <2>4 DEF SupStoreTimeout, SetTimeout, SupAt, StayInv, SlotInv, RestartInv
    <3>2. QED
      BY <1>1, <3>1 DEF TypeOK, TableTypeOK
  <2>5. Next => \/ UNCHANGED timeout \/ SupRegister \/ SupStoreTimeout
                \/ \E g \in Gor : Worker(g) \/ Device(g)
    BY DEF Next, Main, StartSupervisor, WaitReturns, Exit, Monitor, Signal, MonNap,
           MonCheck, MonSetFin, MonTotal, MonCount, DeliverStop, Supervisor, SupTop,
           SupLaunch, SupScan, SupScanEnd, SupReadTimeout, SupRelaunch, SupNap,
           Abort, InboundAborts, WorkerLeaves, tableVars, vars
  <2>6. QED
    BY <1>1, <2>1, <2>2, <2>3, <2>4, <2>5 DEF vars, tableVars
<1>2. QED
  BY TypeCorrect, StayCorrect, <1>1, PTL DEF Spec, BackoffStep
=============================================================================
