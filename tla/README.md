# A TLA+ model of the SSH collector

The collector (`src/`) logs in to network nodes over SSH, runs a command list on
each, and delivers the replies to files, to an archive, or to parser plugins
over AMQP.  This directory holds the specifications of its concurrent core and
of what it does with the collected data, the TLC configurations that check them
on small instances, and the proofs that hold for any number of nodes.

## 1. The system

| Component | Source | State | Operations | Talks to |
|---|---|---|---|---|
| States table | `main.go` 130-248 | `worker[i]`: name, state, timeout | AddWorker, GetId, Get/SetStatus, Get/SetTimeout, GetByStatus | shared memory of all goroutines of the stay mode, one mutex for the table and one for each entry |
| Monitor | `main.go` 448-469 | `j`, `total`, `current` | waits for SIGINT/SIGTERM, sends the stop message, writes FIN | workers, over one unbuffered channel for each entry |
| Supervisor | `main.go` 481-538 | `finish`, `i`, `timeout` | registers devices, starts workers, scans the table, restarts, counts FIN | workers (go statement), table, main (`wg`) |
| Worker (stay) | `ssh_collector_stay.go` | session, ticker, prompt, its entry | dial, set up, command loop, inbound loop | table, stop channel, device, plugins, broker |
| Collector (one-shot) | `ssh_collector.go` | session, file | dial, set up, run the list once | `wg`, list of files, device |
| Archive and delivery | `main.go` 555-627, `saving.go`, `general.go` | files, archive, copies | zip, remove, copy, upload, remove | file system, upload server |
| Download | `main.go` 629-655, `general.go` 144-210 | target files | fetch one file per device | devices |
| Output plugins | `ext_parser.go` 50-342, `ssh_collector_stay.go` 337-349 | map of plugins, AMQP channels; the broker's auto-delete queues | init, publish, re-init, publish again, close | broker |
| Command loop and prompts | `ssh_collector.go` 20-80, 162-195, `ssh_collector_stay.go` 287-357 | prompt waited for, buffer | write a line, read up to the prompt, flush | device |
| Inbound commands | `ext_parser.go` 344-424, `ssh_collector_stay.go` 150-283 | consumers, queue | consume, acknowledge, execute, publish | broker, second session |
| Configuration, logging, command files | `main.go` 29-128, 277-430, `general.go` 64-83 | `conf` | read once at start | all |
| Examples, build | `example/`, `build.sh` | | | stand-alone |

### What is hard here

* Three kinds of goroutines read and write the status of an entry with no
  protocol but the order in which they run.  The status of a restarted worker is
  set by the worker, not by the go statement, so the supervisor can act on an
  old one; the monitor's FIN can be overwritten by START, RUN or RESTARTERR.
* The stop message goes over an unbuffered channel without a timeout.
* `finish` counts table entries over passes, and main waits for the supervisor
  but not for the workers (`main.go:537` is commented out).
* A worker can end on a path that does not touch its entry, and one that reports ERR
  or FIN has not returned: it still waits for its sub-goroutines and holds its
  connection, for ever when inbound commands are on
  (`ssh_collector_stay.go` 271, 318, 372), while the supervisor starts its successor.
* A backoff is a read and a write in two critical sections; its arithmetic
  truncates and has a cap.
* Files are removed at two places after something else is believed to have
  succeeded (zip, upload), one step at a time, and a run can be interrupted
  or panic between any two steps.
* A `log.Fatal`, or a panic on an inner goroutine, ends the process for every
  device.
* Consumers of inbound commands outlive the worker that started them and share
  its queue with their successors; all nodes share one channel; a message is
  acknowledged before it is executed, and decoded into the map of the one before.
* Workers read and write the map of plugins without a lock, and plugins share
  one AMQP channel until one of them is re-initialised.  Exchange and queues are
  auto-delete; `closePlugin` closes a channel and then the connection, and a worker
  may come in between; a key that does not compile panics.
* A reply is whatever was read up to a prompt: a prompt that is still to be read
  (the login's, a keepalive's, a doubled line's) shifts what comes after it.

`PROJECT.json` lists each hazard at its line with the properties that would
catch it, and says why where there is none.

### What makes each component correct

* Stay mode: at most one worker that collects from a device or can still write its
  entry (connections may outlive it), each on its own entry and channel;
  nothing fails for ever without a retry; retries back off to the cap; a worker
  that has been stopped stays stopped; the loop ends after, and only after, a
  signal.
* One-shot mode: main waits for exactly the collectors that are alive; a finished
  archive is complete.
* Delivery: what is removed is elsewhere first.  This fails in two ways, and in no
  other: closing the archive fails, or the server refuses it.
* Sessions: the reply published for a command is the reply to it.
* Inbound: an acknowledged command is executed once and answered.
* Plugins: a publication reaches the plugin's queue once and in order, also after a
  re-initialisation; one that does not has one of a few named reasons.

## 2. The modules

| Module | What it is | Extends or instantiates |
|---|---|---|
| `States` | the table, its methods and the backoff arithmetic | |
| `StayMode` | monitor, supervisor and workers over the table; `Spec`, `FairSpec`, `KindSpec` | `States` |
| `StayModeProps` | its properties, the inductive invariant, the refinement mapping | `StayMode`, `Sessions` |
| `Sessions` | abstract: what the stay mode promises of each device | |
| `Inbound` | the consumers of inbound commands, over the life cycle of `Sessions` | `Sessions` |
| `InboundProps` | its properties and inductive invariant | `Inbound` |
| `NodeSession` | one session: commands, prompts, replies, in each of the three loops | |
| `NodeSessionProps` | its properties and inductive invariant | `NodeSession` |
| `Plugins` | set-up of the plugins, publication, re-initialisation | |
| `PluginsProps` | its properties and inductive invariant | `Plugins` |
| `OneShot` | a one-shot run: collectors, archive, copy, upload, download | |
| `OneShotProps` | its properties and inductive invariant | `OneShot` |
| `StayModeProofs`, `SessionsProofs`, `InboundProofs`, `OneShotProofs`, `PluginsProofs`,
`NodeSessionProofs` | TLAPS proofs | the `Props` modules |
| `MC...` | instances for TLC | the `Props` modules |

### StayMode and the code

`mainPc`, `monPc`, `supPc` and `gor[g].pc` are the places where main, the monitor,
the supervisor and a worker can be interrupted by another goroutine; between two
of them the code touches nothing shared, or one critical section of the table.
So `SetStatus`, `GetStatus`, `SetTimeout` are atomic, and a test followed by a send
(`MonCheck`, `DeliverStop`, `MonSetFin`) or a read followed by a write
(`SupReadTimeout`, `SupStoreTimeout`) is not.  `gor` maps goroutines to
`[pc, id, dev]`: the arguments `id` and `conf.Devices[device]` of
`ssh_collector_constant` are kept apart because that they belong together is a
property (`OwnEntry`).  Entries count from 1 here and from 0 in the code.

A worker runs `spawned` (line 20, asking the agent or decoding the password),
`dialing`, `reset` (before SetTimeout), `setup`, `loop` (the select), `batch` (the
command list) and `stopping` (the stop message is taken, FIN not yet written).
Where a worker does nothing shared on its own before its next write, the two are
one step: the failed dial and its sleep are part of `dialing` until RESTARTERR is
written, set-up ends with the one look at the entry, and a command that cannot be
written is a step of `batch` that writes ERR.

`SetStatus` with ERR or FIN is a worker's last word and not its return.  After it
the worker waits for its sub-goroutines (`wg_func.Wait`, line 372) and closes file,
session and connection, while the supervisor may already have read ERR and started a
successor. `Report` therefore takes the goroutine out of `gor` and puts its entry
into `leaving`, and `WorkerLeaves` takes the entry out again; nothing is assumed of
when.  `leaving` is a set of entries: how many earlier workers an entry has is not
told.  A worker that returns without a report (`WorkerSetupFails`, FIN seen in
`WorkerSetup`) is at its end at once, since nobody restarts its entry, and one that
could not dial has no connection.  With `Inbound` a worker that has entered its loop
never leaves, because nobody sends on `stopChan` (line 271), and its inbound
goroutines may end the process also after its report (`InboundAborts`).  `signalled`
and `told` (the entries whose worker took the stop message) are read by no
goroutine, and `leaving` only says whose inbound goroutines are still there.

**Timing assumption.**  `StartedInTime`: with a password only computation separates
the go statement from `SetStatus(id, START)`, and the supervisor sleeps a second
after every restart, so it does not look at the entry before.  With `Pubkey` the
agent is asked in between and the assumption is dropped; then
`OneCollectorPerDevice` fails, and with it `FailedIsRetried` and `StopLeadsToExit`
(a second worker of a device overwrites what the first has reported).  This is why
the theorems that need the assumption say `~Pubkey`; those that do not hold with the
agent too.

### Sessions, and how StayMode implements it

`Sessions` says of each device only who collects from it (`crew`), whether that
worker is in the command loop (`talking`), whether earlier ones still hold a session
(`leaving`), and whether it has been stopped (`stopped`); of the whole, whether a
signal has come (`asked`) and whether workers are still started (`phase`).  A worker
begins only at a device where nobody collects and that was not stopped; nothing is
stopped, and the collection is not over, before a signal.  It does not promise that
the device has one session: `End` puts a talking device into `leaving`, `Left` takes
it out, and a `Begin` may come before `Left`.  The mapping, in `StayModeProps`:

| Sessions | StayMode |
|---|---|
| `crew[d]` | `crewBar`: the live goroutines whose `dev` is `d`, whatever entry they write |
| `talking` | `talkingBar`: devices with a goroutine in `loop`, `batch` or `stopping` |
| `leaving` | `leavingBar`: devices whose entry is in `leaving` |
| `stopped` | `stoppedBar`: devices whose entry is in `told` |
| `asked` | `signalled` |
| `phase` | `phaseBar`: `gone` when main has ended, `over` when the supervisor has left its loop |

The go statements of `SupLaunch` and `SupRelaunch` are `Begin`, entering the select
is `Connect`, `DeliverStop` is `Stop`, every last report and every return without
one is `End`, `WorkerLeaves` is `Left` (or a stutter); all other writes to the
table, the scan and the backoff are stutters.

### Inbound and the code

A state of `cons[c]` is one goroutine of lines 153-282: it opens the second session
(`OpenSession`), takes a message and decodes it into the map that outlives it
(`Take`, with the map as `node` and `cmd`), acknowledges (`Ack`), writes the command
(`WriteCommand`), reads up to a prompt and publishes (`Answer`), or has ended
(`RangeEnds`, and the breaks of the loop).  `deaf` is a consumer whose `Consume` was
refused.  `buf` holds what the broker has delivered and the consumer not yet taken;
`queue[d]` is `<host>_in`; `chOpen` is the one channel of all nodes.  Messages are
numbers in the order of sending, and have one of six kinds, by what they make of
the decoding.  `executed`, `acked` and `answered` are history.

The module EXTENDS `Sessions`: a worker's `Connect` starts a consumer, which ends with
none of the other steps, and there is no `Left`, since no worker that has come this far
ever returns.  A panic of a consumer sets `phase` to `gone`.  The composition is of the
two modules, not a refinement; `StayMode` with `Inbound` keeps of a consumer only that
it may end the process and holds its worker.

### NodeSession and the code

`loop` chooses one of the three loops over a session: `once` (`ssh_collector`),
`stay` (the command loop) and `inbound` (the second session).  The node sends
tokens: the output of a line, and a prompt in its two parts, host name and sign, so
that a read can cut a prompt in two.  `buf` is `waitingString`, `want` the mode
whose prompt the regular expression matches; it lives on from tick to tick.  `Read`
is one call of `Read`, the match on everything read since the command, and the flush
of `readSSHInputFile`.  `node` says whether the node is quick (answers within
`Timeout_btw_cmd`, with no more than fits one `Read` of 65535 bytes), takes `"\n\r"`
for two lines, or refuses the enable command.  The code throws away what the first
`Read` of the second session returns (`ssh_collector_stay.go:178`); it stays in
`kept` here, as the piece `first`, only so that `Intact` can account for it.

### Plugins and the code

`plugins` is the shared map from a plugin to the number of its channel, `channels` how
many have been opened, `open` which of them the collector takes for open, and `hit` which
the broker has closed: between `BrokerClosesChannel` and `CloseArrives` a publication
succeeds and is dropped.  Queues and exchange are auto-delete: `bound` are the plugins
whose queue exists, `ReaderLeaves` deletes one with its last consumer and the
exchange with the last queue, and only a re-initialisation declares them again; a
publication without the exchange makes the broker close the channel.  `queue` is what
has come into each queue, also one that has gone.

`initPlugin` visits the entries in any order (`InitDial` for the first of the
scheme, `InitJoin` for the later ones, `InitNet`, `InitFails`).  A worker publishes
(`Publish`), and when the channel is closed closes it again (`ReinitClose`), opens a
new one (`ReinitOpen`), stores it in the map (`Store`) and publishes once more
(`PublishAgain`); every step is interleaved with the other workers', the broker's
and main's `closePlugin`, which is two steps: a channel (`CloseSocket`,
`ext_parser.go:316`), then the connection (`CloseConn`, 317), with workers that find
the channel closed and the connection open in between.  The process has three other
ends than main's: `race` is the fatal error of the run-time that a store may meet
whenever another goroutine may be at the map (`MapRace`), `nochannel` the nil
channel of a re-initialisation on a dead connection, and `badkey` the panic of
`regexp.MustCompile` (334), which needs no more than a key of `BadKeys` in the map
(`CheckPluginPanics`).  `dropped`, `lost`, `overlapped`, `left` and `shut` are
history: where and why a reply may go missing.

### OneShot and the code

`pc` is main's place, `sc[d]` that of the collector of device `d`; `wg` is the WaitGroup
counter.  A reply is a pair of device and command; files, archive, copy and upload
are the sets of replies that can be read from them, so "lost" can be said; `torn` and
`refused` are history, that closing the archive has failed and that the upload server
has refused it.  Every
path of `ssh_collector` is there: a `log.Fatal` (`Die`), a dial error, a recovered panic,
a file that cannot be created, replies lost to the connection or the disk, all of
which but the first reach the deferred `wg.Done()`.  `conf` is any of `Configs`: the
safety run takes all 512 configurations.  `Interrupt` is SIGINT, which the one-shot
mode does not catch, between any two steps.  Abstracted: file names (one for each
device; two devices with one profile and host name would share a file), the
order of the replies in a file, option values such as paths.

## 3. What is checked

| Run | Instance | Shows |
|---|---|---|
| `stay_safety` | 2 devices, 2 goroutines, cap 4, plugins and inbound commands | all safety properties of the stay mode, the inductive invariant, `BackoffStep`, and that it implements `Sessions` |
| `stay_ladder` | 1 device, the real cap 3600 | the backoff climbs to exactly the cap; every failure is retried |
| `stay_stop` | 2 devices, cap 2 | one stopped worker is enough for the process to end |
| `oneshot_safety` | 2 devices, 2 commands, all configurations | main waits for the live collectors; a finished archive is complete; no reply is lost unless closing the archive failed or the server refused it; the inductive invariant |
| `oneshot_finishes` | 2 devices, one bad password, all stages | the run ends |
| `inbound` | 1 node, 2 incarnations, 2 messages of 6 kinds | executed once and in order, lost only with a session, repeated only for a message without a command, answered while nothing fails; the inductive invariant |
| `session` | 3 loops, 8 kinds of node, 3 command files | output is neither lost nor doubled; how far replies lag; when a reader hangs; the inductive invariant |
| `plugins` | 2 AMQP plugins and 2 sockets, one of them with a bad key, 2 workers | when replies are lost, dropped or in the wrong order; whose channel is closed; when the process dies; the inductive invariant |

Bounds.

* Stay mode: two devices give one that is stopped or fails while another runs, and
  the two orders of the two map ranges; two goroutines are enough because one that
  has made its last report is no longer in `gor`, and before that a device has one
  (a third being needed would show as a spawn that is disabled, and so as the
  deadlock or the violated invariant).  The safety run has `Inbound` on, so that no
  worker ever leaves once it was in its loop and any consumer may end the process;
  the others have it off, so that workers leave at any time after their report.  A
  cap of 4 makes the ladder 2, 3, 4 with truncated steps (3.2, 4.9) and an end; the
  ladder run has the real cap, and a step that it cuts (4182 to 3600). `TimesPhi`
  uses 10946/6765 for the golden ratio, which gives the code's integer for every
  timeout up to 3600.
* One-shot: two commands allow a collector to fail between its replies.
* `inbound`: `MaxConsumers` 2 is a consumer and its successor on one queue;
  `MaxSent` 2 is the shortest sequence in which the map remembers something, a
  message overtakes another, or an acknowledged one is not the last.
* `session`: `MaxTicks` 2 lets a prompt live on from one tick to the next;
  `MaxKeepalives` 2 and `MaxInbound` 3 let the lag grow and be made up for; with a
  `FlushLimit` of 2 tokens the buffer is flushed between the parts of a prompt and
  after it.  The files of `MCNodeSession` have comments, empty lines, a list that
  leaves the mode it enters and one that does not.
* `plugins`: two plugins are enough to share, two workers to overlap at one of
  them; with two replies one worker has something that can overtake, while the other
  has one; `MaxFaults` 1 is one channel closed by the broker or one queue whose reader
  leaves, next to refused queues and the loss of the connection, which are not bounded.
  One of the two sockets has a key that does not compile.

Symmetry (devices, goroutines, AMQP plugins of one broker) is used only in runs
whose properties are invariants, action properties and the refinement.  The run
`stay_stop` sees the states without `leaving` (a VIEW): without inbound commands no
guard, no fairness condition and not its property depends on it, and `WorkerLeaves`,
which changes nothing else, is a stutter there.

**Fairness.**  `FairSpec` of `StayMode`: weak fairness of main, monitor, supervisor and
of each worker's own steps, which is what the Go scheduler gives a runnable
goroutine; nothing about devices, signals or channels.  `KindSpec` adds that every
wait for a device ends, one way or the other, and that a select offered the stop
message again and again takes it (Go's select picks at random among ready cases).
Only the run `stay_ladder` uses it, for the two properties about retries.  `FairSpec` of
`OneShot`: main and the collectors run, and waits for a device end.  `FairInbound`:
each consumer runs, its node answers or hangs up, and the broker delivers to each
consumer; nothing about senders, workers or the channel.  `NodeSession` and `Plugins`
state no fairness: that a reader may hang is one of their findings.

Four runs end in a violation, each of a sentence of the repository that the code
does not keep:

| Run | Sentence | What happens |
|---|---|---|
| `stay_monitor_closes_all` | `main.go:449` "Close function for all goroutins..." | a signal before the table is filled: no entry is FIN and none is there, 0 = 0, so the monitor ends; the workers are launched afterwards and collect |
| `stay_stays_on_node` | `config.tml:15` "It will stay constantly on the nodes." | set-up panics after RUN; the entry says RUN for ever and has no worker |
| `stay_finished_means_stopped` | `main.go:555` "Collector finished" | the monitor writes FIN into both entries before their workers write START; one pass counts both and main goes on, while the workers overwrite FIN and collect |
| `plugins_own_broker` | `ext_parser.go:141` "Save for checking repeated AMQP brokers" | only schemes are compared: a plugin for a second broker publishes to the first |

Other behaviour that is modelled, that a reader should know of, and that needs no
interleaving to be seen: an error of `Close` on the archive is dropped and the
originals are removed all the same (`ZipClose`, the `torn` of `ReplyKept`); the upload
server's HTTP status is not looked at before the archive is removed (`PostFile`, the
`refused` of `ReplyKept`); the download offers the password still encoded in base64
(`DownloadSecret`).

The monitor may wait for ever on the channel of a worker that has left its loop with
RUN in its entry (`stay_stays_on_node` shows such an entry).  Once one worker has been
told to stop the process ends all the same (`StopLeadsToExit`).  If the monitor is
stuck before anyone was told, it may be that no entry is ever FIN, and then the
process does not end; no property says otherwise.

Every property has a mutant beside the definition it changes: a plausible bug
under which the property fails.

## 4. What is proved

For every finite set of devices, any goroutines, consumers, messages, commands,
configurations, plugins, workers, nodes and command files; the only assumptions are
the named ones of the modules (`StatesAssumption`, `StayModeAssumption`,
`OneShotAssumption`, `InboundAssumption`, `PluginsAssumption`,
`NodeSessionAssumption`), and `~Pubkey` where a theorem says so:

| Module | Theorem | Statement |
|---|---|---|
| `StayModeProofs` | `TypeCorrect`, `NoExit`, `Own` | `TypeOK`, `NoExitWithoutSignal`, `OwnEntry` |
| | `StayCorrect` | under `~Pubkey`: `StayInv` |
| | `OneCollector`, `Stopped`, `StartOwned` | under `~Pubkey`: `OneCollectorPerDevice`, `StoppedForGood`, `StartHasWorker` |
| | `BackoffAtomic` | under `~Pubkey`: `BackoffStep` |
| `SessionsProofs` | `StayImplements` | under `~Pubkey`: `Spec => S!SessionsSpec` |
| `InboundProofs` | `InboundCorrect`, `InboundType` | `InboundInv`, `TypeOK` |
| | `ExecutedOnceInOrder` | `OnceInOrder` |
| | `AtMostTheLastIsLost` | `AckedIsExecuted` |
| | `OnlyTheLastIsRepeated` | `ExecutesWhatItSays` |
| `OneShotProofs` | `OneShotCorrect`, `OneShotType` | `OneShotInv`, `TypeOK` |
| | `NoLateWriter`, `ArchiveComplete` | `NobodyWritesLater`, `ArchiveHasAll` |
| | `NothingLost` | `ReplyKept` |
| `PluginsProofs` | `PluginsCorrect`, `PluginsType` | `PluginsInv`, `TypeOK` |
| | `RepliesOnceInOrder`, `LossHasReason` | `OnceInOrder`, `LostOnlyWithReason` |
| | `DropHasReason`, `LeakNeedsOverlap` | `DroppedOnlyWithReason`, `LeaksOnlyWhenOverlapped` |
| | `QuietBrokerSafe`, `NeighboursSafe` | `QuietBrokerNoCrash`, `NeverClosesNeighbours` |
| `NodeSessionProofs` | `SessionInvariant`, `SessionType` | `NodeSessionInv`, `TypeOK` |
| | `SessionIntact`, `SessionOwnReply` | `Intact`, `OwnReply` |
| | `SessionLagBound`, `SessionOnlyLastMissing` | `LagBound`, `OnlyLastMissing` |
| | `SessionNoHang` | `NoHang` |

None of the stay mode's theorems assumes that inbound commands are off, or that a
worker returns after its report.

### The stay mode

The argument has two layers.  `BaseInv` is inductive with `TypeOK` whatever the
options are.  `SupInv` says where the supervisor is in the table, that as many
entries and devices yet to come make up all devices while it registers, and how far
`finish` can have come (this bounds it by 2N: a pass adds at most N and starts below
N).  `SignalInv` says that nothing is FIN, told or counted before a signal: no
worker writes FIN unless it was told.  `NameInv` says that names are distinct and all
there once registered, so that `GetId` finds the one entry of a device (lemma
`GetIdFinds`) and `OwnEntry` follows although the map is ranged over twice.

`SlotInv` needs the timing assumption.  `OneCollectorPerDevice` is not inductive: when
the supervisor reads ERR one must know that the worker that reported it collects no
more and writes nothing to its entry afterwards, whatever it still holds.
`WorkerInv` gives, for each place of a worker, what its entry can say; ERR and
RESTARTERR are possible only with no live worker or with one not yet started.
`RestartInv` adds that such a worker keeps the supervisor in the pause after that
very restart; and that from the read of a status to the go statement the entry has
no owner and was not told to stop.  `StopInv` adds that a told entry without a worker
is FIN, so it is never read as ERR.  `LaunchInv` covers the first launch.  Each lemma
of a component (`WorkerBase`, `MonitorBase`, ..., `SupervisorSlot`) has one step for each
action; what a worker's step can write is stated once (`WorkerWrites`, `WorkerLocal`).

The refinement rests on both: entries and devices are one to one (`CrewIsOne`), so
the crew of a device is the owner of its entry (`leaving` is named in the same way,
`LeavingIsNamed`); a go statement is a `Begin` because
`RestartInv` and `LaunchInv` leave its entry without an owner and not told; `PostDone`
is needed for the end, since main ends only after the supervisor has left its loop.

### Inbound commands

None of the three properties is inductive.  `PlaceInv` says that a message is at one
place (in one queue, in one consumer's buffer, or in one consumer's hands) and that
queue, buffer and hands are in order; with `ExecutedInv`, what was executed is
nowhere any more but in the hands of the consumer that executed it, and that one has
not gone back.  So the message written next is new, and greater than all its
consumer has written: `OnceInOrder`.  `MemoryInv` says where the command in a
consumer's map is from: the message in its hands, or one it has executed; this is
what makes `ExecutesWhatItSays` hold at the write.  One lemma shows that a step which
only moves a consumer on keeps everything (`GotoKeeps`); the others are one for each
thing that can move a message (`DeliverKeeps`, `TookKeeps`, `WriteKeeps`,
`ChannelClosesKeeps`, `SendKeeps`) and for a new consumer.

### The one-shot mode

`LiveInv` ties the WaitGroup to the set of live collectors: each step of a collector
either goes on or leaves the set and counts down once (`CollectorMoves`,
`CollectorCounts`), and past main's wait the set is empty.  `FileInv` says that a
file is in the list exactly when it was created, before anything is written to it;
hence the loop over the list adds every reply that there is.  `ArchiveInv` says for
each place of main how far the archive is, and that no original is removed before
the archive is finished.  `ReplyKept` follows from where a reply is at each place.

### The plugins

The properties say what cannot happen without an overlap, so the invariant says what
a worker knows while it is alone at a plugin.  `OwnChannelInv`: only channel 1, the
one all plugins start out with, is shared; a channel about to be stored is in
nobody's hands but the worker's.  `OverlapInv`: two workers at one plugin are noted,
and a worker that has seen its plugin's channel closed still finds it closed unless
another one is noted with it; so a close in `ReinitClose` either does nothing or
hits a channel that a second worker opened for the same plugin.  `ReasonInv` carries
the cause of a closed channel from its opening to the second publication: the
broker, an overlap, a lost connection, or main, which has closed this very channel.
`QuietInv` says that while the broker does nothing and main has closed no channel no
worker is in a re-initialisation.  `StartInv` is about the plugin that was dialled
for: it has had its queue declared, or its queue was refused and its channel is
closed for good.  `BoundInv` says the same of a plugin with a channel of its own,
and that a queue which is gone went with its last reader; from both, a reply that is
dropped on a channel the broker has not closed is one of a plugin that joined, or of
one whose reader left.  `QueueInv` makes `OnceInOrder` inductive: what a worker has
in hand is younger than all it has published.

### A session

`NodeSessionAssumption` only says that a command file is a sequence of lines, and
that the bounds are numbers (`FlushLimit` not 0).  `Intact` is inductive with the
type invariant and `PlaceInv`: a step moves a text from `out` to `buf`, or from
`buf` to `kept`, and what was sent stays the concatenation of the three.  The other
properties are about which prompt ends which wait, and none of them is inductive.

* `PlaceInv` ties the place of a loop to its variables: while it waits, the buffer
  holds no prompt of the mode it waits for, and elsewhere the buffer is empty.
* `LineInv` says that the lines on their way are the last ones written and
  numbered without a gap, so what the node has sent belongs to earlier lines.
* `ModeInv` is about a node that refuses nothing: the mode the loop waits for is the
  one the node will be in when it has read all of `inq`.  It lives on from tick to
  tick, which is why the second part looks at the last line that changes the mode.
* `PromptInv`: a node that has answered all has ended with the prompt after line `n`.
* `CutInv`: the prompt after line `n`, of the mode waited for, is not yet read,
  or a flush has cut a prompt in two.  With the two before it this is `NoHang`: a
  reader with nothing left to read has read that prompt.
* `OwnInv` says where the output of the command waited for can be: its line is on its
  way, or the output is unread, or it is in the buffer.  `OwnReply` follows at a match,
  since a quick node has sent all of it by then.
* `CountInv` counts replies against lines, and `LagBound` prompts: a wait ended by a
  match has taken at least one sign (`MatchFacts`, `SignsSome`).
* `OnceInv` is about the one-shot loop: the node sends three tokens for a line, the
  signs are at the places `3k + 2`, and each reply has taken one more of them.  When
  the loop has ended it has read up to the sign before the last one at least, which is
  `OnlyLastMissing`.

The proof has a step for each way an action touches the texts: a line is written
(`WriteStep`), answered (`AnswerStep`), read without a match (`ReadOnStep`), read
and kept (`KeepStep`), or kept when the session ends (`EofStep`); every other action
only moves the loop (`MoveStep`) or closes the session (`CloseStep`); `ToldStep`
puts them together. That `FlattenSeq`, which is defined by recursion, distributes
over an appended piece (`FlattenUnfolds`, `FlattenAppend`) is an induction over the
length; it is proved by the least index at which two unfoldings differ (`Least`).

Checked by TLC only: the liveness properties, since fairness is beyond the prover:
`StopLeadsToExit`, `FailedIsRetried`, `BackoffReachesCap`, `Finishes` and
`CommandsAnswered`.  Every invariant and action property of a passing run, and the
refinement, is stated by a theorem.  The four violations are TLC's counterexamples.

## 5. Plan

The components the first plan named are modelled, and the refinement and the
inductive invariant of every component are proved.
What would be next, by importance:

1. The consumers of inbound commands with the table in one module: `StayMode` with
   `Inbound` keeps of them that they hold their worker and may end the process, and
   what they do is shown over `Sessions`.
2. When a shutdown ends: a condition on the order of the entries under which
   `StopLeadsToExit` also holds from the signal on.
3. A bound on the replies that one re-initialisation of a plugin can lose, as a
   property of `Plugins`.

## 6. What is not modelled

* Configuration decoding and printing, logging: sequential, before any goroutine
  starts; `ParseConfig` changes nothing.  Options that matter are constants or the
  record `conf`.
* `initOnePlugin`, `closeOnePlugin`, `SetName`: called by nobody.
* A plugin with an empty socket, and a broker for inbound commands that cannot be
  dialled: the program ends in its first lines, before anything runs.
* File names that collide: two devices with one profile and host name.
* SSH, SFTP, AMQP, HTTP and the file system: environment, as nondeterministic
  outcomes of the calls.
* What a node's output says: a reply is a token, or a pair of device and command.
* `example/` and `build.sh`: not part of the program.
* Go's memory model beyond the mutexes and the map of plugins: each method of the
  table takes the lock of what it touches.
