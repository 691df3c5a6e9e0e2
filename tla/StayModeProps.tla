--------------------------- MODULE StayModeProps ---------------------------
(***************************************************************************)
(* What the stay mode promises, and the invariant its proofs rest on.      *)
(***************************************************************************)
EXTENDS StayMode

\* Every variable has its type; in particular a retry timeout never leaves
\* FirstTimeout .. MAX_TIMEOUT (main.go 513-520).
TypeOK ==
  /\ TableTypeOK
  /\ mainPc \in MainPcs
  /\ monPc \in MonPcs /\ monJ \in 1 .. N + 1 /\ monTotal \in 0 .. N
  /\ supPc \in SupPcs /\ supI \in 1 .. N + 1
  /\ supTimeout \in {0} \cup FirstTimeout .. MaxTimeout
  /\ finish \in 0 .. 2 * N
  /\ pending \subseteq Devices
  /\ gor \in [Gor -> Goroutine]
  /\ leaving \subseteq Ids
  /\ signalled \in BOOLEAN
  /\ told \subseteq Ids

Owners(i) == {g \in Gor : Live(g) /\ gor[g].id = i}

-----------------------------------------------------------------------------
(* Safety                                                                  *)

\* A device never has two workers that run its command list or can still write
\* its entry: the supervisor restarts an entry only after the worker that had
\* it reported ERR or RESTARTERR as its last word, and once, although the
\* status it reads is not set by the go statement but later, by the new worker
\* itself (main.go 505-533).  Connections are not counted: a worker that has
\* reported ERR may still hold its own beside its successor's, and does so for
\* ever when inbound commands are on (ssh_collector_stay.go 271, 318, 372).
OneCollectorPerDevice ==
  \A g, h \in Gor : Live(g) /\ Live(h) /\ gor[g].id = gor[h].id => g = h

\* A worker talks to the device its entry and its channel belong to, although
\* the map is ranged over twice, each time in an order of its own
\* (main.go 493-502, 526-532).
OwnEntry ==
  \A g \in Gor : Live(g) => gor[g].id \in 1 .. length
                            /\ gor[g].dev = name[gor[g].id]

\* An entry the supervisor passes over because it is in START is being worked
\* on: somebody will move it on (main.go 509-511).
StartHasWorker ==
  \A i \in Ids : status[i] = START =>
    \E g \in Owners(i) : gor[g].pc = "dialing"

\* No failure of any device ends the collection: the supervisor leaves its
\* loop only after the monitor has received a signal (main.go 489-491).
NoExitWithoutSignal == supPc = "done" => signalled

\* A worker that took the stop message is the last one of its entry: neither
\* a status read before the stop nor a late write brings the device back
\* (main.go 454-459, ssh_collector_stay.go 358-366).
StoppedForGood ==
  \A g \in Gor : Live(g) /\ gor[g].id \in told => gor[g].pc = "stopping"

\* The two critical sections of a backoff act as one: a timeout only ever
\* becomes the next one after it, or the first one again when its device has
\* been reached (main.go 513-520, ssh_collector_stay.go 112-113).
BackoffStep ==
  [][\A i \in Ids : timeout'[i] # timeout[i] =>
       \/ timeout'[i] = Backoff(timeout[i])
       \/ timeout'[i] = FirstTimeout /\ \E g \in Owners(i) : gor[g].pc = "reset"
    ]_vars

-----------------------------------------------------------------------------
(* The abstract specification                                              *)

\* Goroutines in the command loop, or on their way out of it.
AtWork(g) == gor[g].pc \in {"loop", "batch", "stopping"}

CrewOf(d) == {g \in Gor : Live(g) /\ gor[g].dev = d}

crewBar    == [d \in Devices |-> CrewOf(d)]
talkingBar == {d \in Devices : \E g \in CrewOf(d) : AtWork(g)}
leavingBar == {d \in Devices : \E i \in leaving : name[i] = d}
stoppedBar == {d \in Devices : \E i \in told : name[i] = d}
phaseBar == IF Ended THEN "gone" ELSE IF supPc = "done" THEN "over" ELSE "on"

S == INSTANCE Sessions WITH
       Workers <- Gor, crew <- crewBar, talking <- talkingBar,
       leaving <- leavingBar, stopped <- stoppedBar, asked <- signalled, phase <- phaseBar

\* Monitor, supervisor and workers together do no more to a device than
\* Sessions allows: a worker is put to it only after the last one has left its
\* command loop, even if not yet its session, none after a stop, and there is
\* no stop and no end of the collection before a signal (main.go 448-538,
\* ssh_collector_stay.go 20-375).
ImplementsSessions == S!SessionsSpec

-----------------------------------------------------------------------------
(* The inductive invariant.  TypeOK and BaseInv are inductive whatever the  *)
(* constants are; with them, SlotInv is when restarts are in time (~Pubkey). *)

Prefix == 1 .. length

\* Where the supervisor is in the table, and how far finish can have come.
SupInv ==
  /\ mainPc = "init" => supPc = "off"
  /\ supPc \in {"off", "register", "launch"} => finish = 0
  /\ supPc = "off" => length = 0
  /\ supPc = "top" => length \in {0, N} /\ finish < 2 * N
                     /\ (length = 0 => finish = 0)
  /\ supPc = "register" => length + Cardinality(pending) = N
  /\ supPc \notin {"off", "top", "register"} => length = N
  /\ supPc \in {"scan", "backoff", "store", "relaunch"} =>
       finish < N + supI - 1
  /\ supPc = "nap" => finish < N + supI
  /\ supPc \in {"backoff", "store", "relaunch", "nap"} => supI <= N
  /\ supPc = "done" => finish >= N /\ finish < 2 * N
  /\ supPc = "store" => supTimeout # 0
  /\ monPc \in {"send", "setfin"} => monJ <= length

\* Nothing is FIN, told or counted before a signal.
SignalInv ==
  \/ signalled
  \/ /\ monPc \in {"nap", "wait"}
     /\ told = {} /\ finish = 0 /\ supPc # "done"
     /\ \A i \in Ids : status[i] # FIN
     /\ \A g \in Gor : gor[g].pc # "stopping"

\* The registered names are distinct devices, all of them once registered.
NameInv ==
  /\ \A i \in Prefix : name[i] \in Devices
  /\ \A i, j \in Prefix : name[i] = name[j] => i = j
  /\ supPc = "register" =>
       \A d \in Devices : d \in pending <=> \A i \in Prefix : name[i] # d
  /\ supPc = "launch" => \A d \in Devices : \E i \in Prefix : name[i] = d

BaseInv == SupInv /\ SignalInv /\ NameInv /\ OwnEntry

\* What the entry of a live worker can say, by where the worker stands.
StatusAt(pc) ==
  CASE pc = "spawned" -> {NEW_, ERR, RESTARTERR, FIN}
    [] pc = "dialing" -> {START, FIN}
    [] OTHER -> {RUN, FIN}

WorkerInv ==
  /\ OneCollectorPerDevice
  /\ \A g \in Gor : Live(g) => status[gor[g].id] \in StatusAt(gor[g].pc)
  /\ StartHasWorker

\* Before an entry is launched nothing has happened to it but FIN.
LaunchInv ==
  /\ supPc = "launch" =>
       /\ \A g \in Gor : Live(g) => gor[g].dev \notin pending
       /\ \A i \in Ids : name[i] \in pending =>
            status[i] \in {NEW_, FIN} /\ i \notin told
  /\ length < N => \A g \in Gor : ~Live(g)
  /\ \A i \in Ids \ Prefix :
       status[i] = NEW_ /\ timeout[i] = FirstTimeout /\ i \notin told \cup leaving
  /\ supPc = "register" =>
       told = {} /\ leaving = {} /\ \A i \in Ids : status[i] \in {NEW_, FIN}
  /\ supPc \in {"off", "register"} => \A g \in Gor : ~Live(g)

\* While the supervisor restarts an entry the entry has nobody else; and a
\* worker whose start it could mistake for a failure holds up its pause.
RestartInv ==
  /\ supPc \in {"backoff", "store", "relaunch"} =>
       /\ Owners(supI) = {} /\ supI \notin told
       /\ status[supI] \in {ERR, RESTARTERR, FIN}
  /\ supPc = "store" => supTimeout = Backoff(timeout[supI])
  /\ \A g \in Gor :
       gor[g].pc = "spawned" /\ status[gor[g].id] \in {ERR, RESTARTERR} =>
         supPc = "nap" /\ supI = gor[g].id

StopInv ==
  /\ StoppedForGood
  /\ \A i \in told : Owners(i) = {} => status[i] = FIN

SlotInv == WorkerInv /\ LaunchInv /\ RestartInv /\ StopInv

\* The inductive invariant when restarts are in time: the table, the
\* goroutines and the supervisor's place in its scan agree (main.go 487-536).
StayInv == BaseInv /\ SlotInv

-----------------------------------------------------------------------------
(* Liveness, under FairSpec                                                *)

\* A device that failed is tried again, unless a shutdown reaches its entry
\* first (main.go 512-532).
FailedIsRetried ==
  \A i \in Ids :
    status[i] \in {ERR, RESTARTERR} ~>
      (status[i] \in {START, FIN} \/ supPc = "done" \/ Ended)

\* Once one worker has taken the stop message the process comes to its end,
\* even when the monitor waits for ever to stop the next one: the supervisor
\* goes on counting the entry that is FIN, pass after pass (main.go 506-507).
StopLeadsToExit == told # {} ~> Ended

\* A device that is never reached again is in the end retried at intervals of
\* MAX_TIMEOUT (main.go 152, 513-520); under KindSpec.
BackoffReachesCap ==
  \A i \in Ids :
    <>[](~signalled /\ ~Ended /\ status[i] # RUN) =>
      <>[](timeout[i] = MaxTimeout)

-----------------------------------------------------------------------------
(* What the comments say of a shutdown, and the code does not do           *)

\* "Close function for all goroutins..." (main.go:449): when the monitor has
\* finished, no worker is left collecting.
MonitorClosesAll ==
  monPc = "done" => \A g \in Gor : gor[g].pc # "loop" /\ gor[g].pc # "batch"

\* "It will stay constantly on the nodes." (config.tml:15): an entry that says
\* RUN, which nobody restarts, has a worker.
StaysOnNode == \A i \in Ids : status[i] = RUN => Owners(i) # {}

\* "Collector finished" (main.go:555): what follows runs after the workers.
FinishedMeansStopped ==
  mainPc = "post" => \A g \in Gor : gor[g].pc # "loop" /\ gor[g].pc # "batch"
=============================================================================
