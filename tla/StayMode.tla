------------------------------ MODULE StayMode ------------------------------
(***************************************************************************)
(* The stay mode of the collector (conf.Common.Stay): the three kinds of   *)
(* goroutines that share the States table.                                 *)
(*                                                                         *)
(*   monitor      waits for SIGINT or SIGTERM, hands a stop message to     *)
(*                every running worker over its unbuffered channel and     *)
(*                marks every entry FIN;                                   *)
(*   supervisor   fills the table, starts a worker for each device, and    *)
(*                then scans the table for ever, restarting what failed    *)
(*                and counting what is FIN;                                *)
(*   worker       ssh_collector_constant: dials its device, runs the       *)
(*                command list at every tick, and reports ERR, RESTARTERR  *)
(*                or FIN in its entry.                                     *)
(*                                                                         *)
(* A worker here is its main function and its command loop: what counts of *)
(* the inbound sub-goroutines (module Inbound) is that they may end the    *)
(* process and that with them a worker never returns.                      *)
(*                                                                         *)
(* The report of a worker that leaves its command loop is not its return:  *)
(* with ERR or FIN in its entry it has yet to wait for its sub-goroutines  *)
(* and to close file, session and connection.  It collects nothing and     *)
(* writes to no entry any more, so all that is kept of it is a mark in     *)
(* leaving, while its successor may be at the same device.                 *)
(***************************************************************************)
EXTENDS States

CONSTANTS
  Gor,       \* goroutines that may run a worker at one time (a bound)
  Pubkey,    \* conf.Auth.Pubkey: a worker asks the ssh-agent before line 75
  Plugins,   \* conf.Parser["global"].Enable: replies go to AMQP plugins
  Inbound    \* conf.Inbound.Enable: commands also come from a queue

ASSUME StayModeAssumption ==
  /\ IsFiniteSet(Gor)
  /\ Pubkey \in BOOLEAN /\ Plugins \in BOOLEAN /\ Inbound \in BOOLEAN

VARIABLES
  mainPc,      \* main()
  monPc,       \* the monitor goroutine
  monJ,        \* its loop variable j
  monTotal,    \* its variable total
  supPc,       \* the supervisor goroutine
  supI,        \* its loop variable i
  supTimeout,  \* its variable timeout
  finish,      \* its variable finish
  pending,     \* devices its range loop over conf.Devices has yet to visit
  gor,         \* the worker goroutines that have not reported their end
  leaving,     \* entries with workers that have, and have not returned yet
  signalled,   \* history: a signal has been received by the monitor
  told         \* history: entries whose worker took the stop message

monVars   == <<monPc, monJ, monTotal>>
supVars   == <<supPc, supI, supTimeout, finish, pending>>
\* What no goroutine reads.
ghostVars == <<leaving, signalled, told>>
vars == <<tableVars, mainPc, monVars, supVars, gor, ghostVars>>

MainPcs == {"init", "wait", "post", "exit", "fatal"}
MonPcs  == {"nap", "wait", "check", "send", "setfin", "total", "count", "done"}
SupPcs  == {"off", "top", "register", "launch", "scan", "backoff", "store",
            "relaunch", "nap", "done"}
GorPcs  == {"free", "spawned", "dialing", "reset", "setup", "loop", "batch",
            "stopping"}

Goroutine == [pc : GorPcs, id : 0 .. N, dev : Devices \cup {NoDevice}]

Idle == [pc |-> "free", id |-> 0, dev |-> NoDevice]

\* Goroutine g has been started with go and has not reported its end.
Live(g) == gor[g].pc # "free"

\* The process is over, and with it every goroutine.
Ended == mainPc \in {"exit", "fatal"}

\* Where a goroutine stands, as the guard of its next step.
MonAt(pc)   == ~Ended /\ monPc = pc
SupAt(pc)   == ~Ended /\ supPc = pc
GorAt(g,pc) == ~Ended /\ gor[g].pc = pc

Init ==
  /\ TableInit
  /\ mainPc = "init"
  /\ monPc = "nap" /\ monJ = 1 /\ monTotal = 0
  /\ supPc = "off" /\ supI = 1 /\ supTimeout = 0 /\ finish = 0
  /\ pending = {}
  /\ gor = [g \in Gor |-> Idle] /\ leaving = {}
  /\ signalled = FALSE /\ told = {}

-----------------------------------------------------------------------------
(* main()                                                                  *)

\* The plugins and the inbound channel are set up; the supervisor starts.
StartSupervisor ==
  /\ mainPc = "init"
  /\ mainPc' = "wait"
  /\ supPc' = "top"
  /\ UNCHANGED <<tableVars, monVars, supI, supTimeout, finish, pending, gor,
                 ghostVars>>

\* wg.Wait() returns, "Collector finished": archiving and upload follow.
WaitReturns ==
  /\ mainPc = "wait" /\ supPc = "done"
  /\ mainPc' = "post"
  /\ UNCHANGED <<tableVars, monVars, supVars, gor, ghostVars>>

\* main returns and every goroutine ends with it.
Exit ==
  /\ mainPc = "post"
  /\ mainPc' = "exit"
  /\ UNCHANGED <<tableVars, monVars, supVars, gor, ghostVars>>

Main == StartSupervisor \/ WaitReturns \/ Exit

-----------------------------------------------------------------------------
(* The monitor                                                             *)

MonNap ==
  /\ MonAt("nap")
  /\ monPc' = "wait"
  /\ UNCHANGED <<tableVars, mainPc, monJ, monTotal, supVars, gor, ghostVars>>

\* c is unbuffered: a signal that finds the monitor elsewhere is dropped.
Signal ==
  /\ MonAt("wait")
  /\ monPc' = "check" /\ monJ' = 1
  /\ signalled' = TRUE
  /\ UNCHANGED <<tableVars, mainPc, monTotal, supVars, gor, leaving, told>>

\* The loop condition and, for an entry, the test of its status.
MonCheck ==
  /\ MonAt("check")
  /\ monPc' = IF monJ > length THEN "total"
              ELSE IF status[monJ] = RUN THEN "send" ELSE "setfin"
  /\ UNCHANGED <<tableVars, mainPc, monJ, monTotal, supVars, gor, ghostVars>>

\* chans[j] <- "... stop": both sides of the unbuffered channel go on.
DeliverStop(g) ==
  /\ MonAt("send")
  /\ GorAt(g, "loop") /\ gor[g].id = monJ
  /\ monPc' = "setfin"
  /\ gor' = [gor EXCEPT ![g].pc = "stopping"]
  /\ told' = told \cup {monJ}
  /\ UNCHANGED <<tableVars, mainPc, monJ, monTotal, supVars, leaving, signalled>>

MonSetFin ==
  /\ MonAt("setfin")
  /\ SetStatus(monJ, FIN)
  /\ monJ' = monJ + 1
  /\ monPc' = "check"
  /\ UNCHANGED <<length, name, timeout, mainPc, monTotal, supVars, gor,
                 ghostVars>>

MonTotal ==
  /\ MonAt("total")
  /\ monTotal' = length
  /\ monPc' = "count"
  /\ UNCHANGED <<tableVars, mainPc, monJ, supVars, gor, ghostVars>>

\* Done when every entry counted before is FIN now; otherwise once more.
MonCount ==
  /\ MonAt("count")
  /\ monPc' = IF GetByStatus(FIN) = monTotal THEN "done" ELSE "nap"
  /\ monJ' = 1 /\ monTotal' = 0
  /\ UNCHANGED <<tableVars, mainPc, supVars, gor, ghostVars>>

Monitor == MonNap \/ MonCheck \/ MonSetFin \/ MonTotal \/ MonCount

-----------------------------------------------------------------------------
(* The supervisor                                                          *)

\* go ssh_collector_constant(conf.Devices[d], ..., chans[i], Threads, i, ...)
Spawn(g, i, d) ==
  /\ ~Live(g)
  /\ gor' = [gor EXCEPT ![g] = [pc |-> "spawned", id |-> i, dev |-> d]]

\* Mutant of SupTop: the test for an empty table is missing.
SupTopEmpty ==
  /\ SupAt("top") /\ finish >= length
  /\ supPc' = "done" /\ supI' = 1
  /\ UNCHANGED <<tableVars, mainPc, monVars, supTimeout, finish, pending, gor,
                 ghostVars>>

\* Mutant of SupTop: every pass counts from zero.
SupTopRecount ==
  /\ SupAt("top")
  /\ \/ length # 0 /\ finish >= length /\ supPc' = "done" /\ pending' = {}
     \/ length = 0 /\ supPc' = "register" /\ pending' = Devices
     \/ finish < length /\ supPc' = "scan" /\ pending' = {}
  /\ supI' = 1 /\ finish' = 0
  /\ UNCHANGED <<tableVars, mainPc, monVars, supTimeout, gor, ghostVars>>

\* finish is never reset: an entry is counted again in every pass.
SupTop ==
  /\ SupAt("top")
  /\ \/ /\ finish >= length /\ length # 0
        /\ supPc' = "done"
        /\ UNCHANGED pending
     \/ /\ length = 0
        /\ supPc' = "register"
        /\ pending' = Devices
     \/ /\ finish < length
        /\ supPc' = "scan"
        /\ UNCHANGED pending
  /\ supI' = 1
  /\ UNCHANGED <<tableVars, mainPc, monVars, supTimeout, finish, gor,
                 ghostVars>>

\* for device := range conf.Devices { Threads.AddWorker(device) }
SupRegister ==
  /\ SupAt("register")
  /\ \/ \E d \in pending :
          /\ AddWorker(d)
          /\ pending' = pending \ {d}
          /\ UNCHANGED supPc
     \/ /\ pending = {}
        /\ pending' = Devices
        /\ supPc' = "launch"
        /\ UNCHANGED tableVars
  /\ UNCHANGED <<mainPc, monVars, supI, supTimeout, finish, gor, ghostVars>>

\* A second range over the map: its order owes nothing to the first.
SupLaunch ==
  /\ SupAt("launch")
  /\ \/ \E d \in pending, g \in Gor :
          /\ Spawn(g, GetId(d), d)
          /\ pending' = pending \ {d}
          /\ UNCHANGED supPc
     \/ /\ pending = {}
        /\ supPc' = "scan"
        /\ UNCHANGED <<pending, gor>>
  /\ UNCHANGED <<tableVars, mainPc, monVars, supI, supTimeout, finish,
                 ghostVars>>

\* Mutant of SupScan: ERR is not a case of the switch.
SupScanNoErr ==
  /\ SupAt("scan") /\ supI <= length
  /\ LET s == status[supI] IN
       /\ supPc' = CASE s \in {RUN, START}      -> "scan"
                     [] s \in {FIN, NEW_, ERR} -> "nap"
                     [] s = RESTARTERR          -> "backoff"
       /\ supI' = IF s \in {RUN, START} THEN supI + 1 ELSE supI
       /\ finish' = IF s = FIN THEN finish + 1 ELSE finish
  /\ UNCHANGED <<tableVars, mainPc, monVars, supTimeout, pending, gor,
                 ghostVars>>

\* Mutant of SupScan: START is taken for a failure.
SupScanRestartsStart ==
  /\ SupAt("scan") /\ supI <= length
  /\ LET s == status[supI] IN
       /\ supPc' = CASE s = RUN              -> "scan"
                     [] s \in {FIN, NEW_}    -> "nap"
                     [] s = RESTARTERR      -> "backoff"
                     [] s \in {ERR, START}   -> "relaunch"
       /\ supI' = IF s = RUN THEN supI + 1 ELSE supI
       /\ finish' = IF s = FIN THEN finish + 1 ELSE finish
  /\ UNCHANGED <<tableVars, mainPc, monVars, supTimeout, pending, gor,
                 ghostVars>>

\* The switch on GetStatus(i); RUN and START continue without the pause.
SupScan ==
  /\ SupAt("scan") /\ supI <= length
  /\ LET s == status[supI] IN
       /\ supPc' = CASE s \in {RUN, START} -> "scan"
                     [] s \in {FIN, NEW_}   -> "nap"
                     [] s = RESTARTERR     -> "backoff"
                     [] s = ERR            -> "relaunch"
       /\ supI' = IF s \in {RUN, START} THEN supI + 1 ELSE supI
       /\ finish' = IF s = FIN THEN finish + 1 ELSE finish
  /\ UNCHANGED <<tableVars, mainPc, monVars, supTimeout, pending, gor,
                 ghostVars>>

SupScanEnd ==
  /\ SupAt("scan") /\ supI > length
  /\ supPc' = "top" /\ supI' = 1
  /\ UNCHANGED <<tableVars, mainPc, monVars, supTimeout, finish, pending, gor,
                 ghostVars>>

\* RESTARTERR: GetTimeout and the new value, then SetTimeout.
SupReadTimeout ==
  /\ SupAt("backoff")
  /\ supTimeout' = Backoff(timeout[supI])
  /\ supPc' = "store"
  /\ UNCHANGED <<tableVars, mainPc, monVars, supI, finish, pending, gor,
                 ghostVars>>

\* Mutant of SupStoreTimeout: the factor is applied a second time.
SupStoreTwice ==
  /\ SupAt("store")
  /\ SetTimeout(supI, Backoff(supTimeout))
  /\ supTimeout' = 0
  /\ supPc' = "relaunch"
  /\ UNCHANGED <<length, name, status, mainPc, monVars, supI, finish, pending,
                 gor, ghostVars>>

SupStoreTimeout ==
  /\ SupAt("store")
  /\ SetTimeout(supI, supTimeout)
  /\ supTimeout' = 0
  /\ supPc' = "relaunch"
  /\ UNCHANGED <<length, name, status, mainPc, monVars, supI, finish, pending,
                 gor, ghostVars>>

SupRelaunch ==
  /\ SupAt("relaunch")
  /\ \E g \in Gor : Spawn(g, supI, name[supI])
  /\ supPc' = "nap"
  /\ UNCHANGED <<tableVars, mainPc, monVars, supI, supTimeout, finish,
                 pending, ghostVars>>

(***************************************************************************)
(* Timing assumption.  With a password nothing but computation separates   *)
(* the go statement from SetStatus(id, START), and the pause of one second *)
(* that ends every restart outlasts it.  With a public key the worker has  *)
(* to hear from the ssh-agent first, and no such order is assumed.         *)
(***************************************************************************)
StartedInTime(i) ==
  Pubkey \/ ~ \E g \in Gor : gor[g].pc = "spawned" /\ gor[g].id = i

SupNap ==
  /\ SupAt("nap") /\ StartedInTime(supI)
  /\ supPc' = "scan" /\ supI' = supI + 1
  /\ UNCHANGED <<tableVars, mainPc, monVars, supTimeout, finish, pending, gor,
                 ghostVars>>

Supervisor ==
  \/ SupTop \/ SupRegister \/ SupLaunch \/ SupScan \/ SupScanEnd
  \/ SupReadTimeout \/ SupStoreTimeout \/ SupRelaunch \/ SupNap

-----------------------------------------------------------------------------
(* The worker                                                              *)

Goto(g, pc)   == gor' = [gor EXCEPT ![g].pc = pc]
Return(g)     == gor' = [gor EXCEPT ![g] = Idle]
OthersOfGor   == <<mainPc, monVars, supVars, ghostVars>>

\* The last report of worker g, which leaves its command loop for good.
Report(g, s) ==
  /\ SetStatus(gor[g].id, s)
  /\ Return(g)
  /\ leaving' = leaving \cup {gor[g].id}
  /\ UNCHANGED <<length, name, timeout, mainPc, monVars, supVars, signalled, told>>

\* Mutant of WorkerStart: the entry is not set to START.
WorkerStartSilent(g) ==
  /\ GorAt(g, "spawned")
  /\ Goto(g, "dialing")
  /\ UNCHANGED <<tableVars, OthersOfGor>>

WorkerStart(g) ==
  /\ GorAt(g, "spawned")
  /\ SetStatus(gor[g].id, START)
  /\ Goto(g, "dialing")
  /\ UNCHANGED <<length, name, timeout, OthersOfGor>>

\* Mutant of WorkerDialError: the failure is not reported.
WorkerDialErrorSilent(g) ==
  /\ GorAt(g, "dialing")
  /\ Return(g)
  /\ UNCHANGED <<tableVars, OthersOfGor>>

\* Dial has failed, and GetTimeout(id) seconds have been slept.  There is no
\* connection, and what is left to do after the report concerns nobody.
WorkerDialError(g) ==
  /\ GorAt(g, "dialing")
  /\ SetStatus(gor[g].id, RESTARTERR)
  /\ Return(g)
  /\ UNCHANGED <<length, name, timeout, OthersOfGor>>

WorkerConnected(g) ==
  /\ GorAt(g, "dialing")
  /\ SetStatus(gor[g].id, RUN)
  /\ Goto(g, "reset")
  /\ UNCHANGED <<length, name, timeout, OthersOfGor>>

WorkerResetTimeout(g) ==
  /\ GorAt(g, "reset")
  /\ SetTimeout(gor[g].id, FirstTimeout)
  /\ Goto(g, "setup")
  /\ UNCHANGED <<length, name, status, OthersOfGor>>

\* Session, pty, shell and output file; then the one look at the entry.
WorkerSetup(g) ==
  /\ GorAt(g, "setup")
  /\ IF status[gor[g].id] = FIN THEN Return(g) ELSE Goto(g, "loop")
  /\ UNCHANGED <<tableVars, OthersOfGor>>

\* handleError panics and the deferred recover ends the worker, or the output
\* file cannot be opened.  Neither path touches the entry, so that nobody can
\* come to the device before the connection is closed.
WorkerSetupFails(g) ==
  /\ GorAt(g, "setup")
  /\ Return(g)
  /\ UNCHANGED <<tableVars, OthersOfGor>>

\* <-ticker.C is chosen by the select.
WorkerTick(g) ==
  /\ GorAt(g, "loop")
  /\ Goto(g, "batch")
  /\ UNCHANGED <<tableVars, OthersOfGor>>

\* The device has answered every command of the list.
WorkerAnswered(g) ==
  /\ GorAt(g, "batch")
  /\ Goto(g, "loop")
  /\ UNCHANGED <<tableVars, OthersOfGor>>

\* Mutant of WorkerSetErr: no return after the report.
WorkerSetErrGoesOn(g) ==
  /\ GorAt(g, "batch")
  /\ SetStatus(gor[g].id, ERR)
  /\ Goto(g, "loop")
  /\ UNCHANGED <<length, name, timeout, OthersOfGor>>

\* A command cannot be written: io.EOF.
WorkerSetErr(g) ==
  /\ GorAt(g, "batch")
  /\ Report(g, ERR)

\* Mutant of WorkerStop: the stop is reported as an error.
WorkerStopErr(g) ==
  /\ GorAt(g, "stopping")
  /\ Report(g, ERR)

\* The stop message has been taken from the channel.
WorkerStop(g) ==
  /\ GorAt(g, "stopping")
  /\ Report(g, FIN)

\* Of the workers of entry i that have reported the last returns: wg_func is
\* down to zero and the deferred calls close file, session and connection.
\* With inbound commands it never is, as nobody sends on stopChan.
WorkerLeaves(i) ==
  /\ ~Ended /\ ~Inbound
  /\ i \in leaving
  /\ leaving' = leaving \ {i}
  /\ UNCHANGED <<tableVars, mainPc, monVars, supVars, gor, signalled, told>>

(***************************************************************************)
(* log.Fatal when the ssh-agent is out of reach or the password cannot be  *)
(* decoded, or a panic on the command loop's own goroutine, where nothing  *)
(* recovers: a plugin's channel that cannot be reopened, or two workers in *)
(* the plugins map at once.  Nor does anything recover on the inbound      *)
(* goroutines, which are there from the first select to the end of the     *)
(* process.  The whole process ends.                                       *)
(***************************************************************************)
Abort(g) ==
  /\ \/ GorAt(g, "spawned")
     \/ Plugins /\ GorAt(g, "batch")
     \/ Inbound /\ \E pc \in {"loop", "batch", "stopping"} : GorAt(g, pc)
  /\ mainPc' = "fatal"
  /\ UNCHANGED <<tableVars, monVars, supVars, gor, ghostVars>>

\* The same, on an inbound goroutine of a worker that has reported its end.
InboundAborts ==
  /\ ~Ended /\ Inbound /\ leaving # {}
  /\ mainPc' = "fatal"
  /\ UNCHANGED <<tableVars, monVars, supVars, gor, ghostVars>>

\* What the worker does of its own accord.
Worker(g) == WorkerStart(g) \/ WorkerResetTimeout(g) \/ WorkerTick(g) \/ WorkerStop(g)

\* What it does when its device has answered or failed, which may be never.
Device(g) ==
  \/ WorkerDialError(g) \/ WorkerConnected(g) \/ WorkerSetup(g) \/ WorkerSetupFails(g)
  \/ WorkerAnswered(g) \/ WorkerSetErr(g)

-----------------------------------------------------------------------------
Next ==
  \/ Main \/ Monitor \/ Signal \/ Supervisor
  \/ \E g \in Gor : DeliverStop(g) \/ Worker(g) \/ Device(g) \/ Abort(g)
  \/ InboundAborts \/ \E i \in Ids : WorkerLeaves(i)
  \/ Ended /\ UNCHANGED vars

Spec == Init /\ [][Next]_vars

(***************************************************************************)
(* The Go scheduler runs every goroutine that can run.  Nothing is assumed *)
(* of devices, agent, plugins or signals.                                  *)
(***************************************************************************)
FairSpec ==
  /\ Spec
  /\ WF_vars(Main)
  /\ WF_vars(Monitor)
  /\ WF_vars(Supervisor)
  /\ \A g \in Gor : WF_vars(Worker(g))

(***************************************************************************)
(* The kindest environment: every wait for a device ends one way or other, *)
(* and select, which picks at random among its ready cases, takes a stop   *)
(* message that it is offered again and again.                             *)
(***************************************************************************)
KindSpec ==
  /\ FairSpec
  /\ \A g \in Gor : /\ WF_vars(Device(g))
                    /\ SF_vars(DeliverStop(g))
=============================================================================
