------------------------------ MODULE Plugins -------------------------------
(***************************************************************************)
(* The output plugins of the stay mode (conf.Parser): how initPlugin fills *)
(* the map of plugins, and how the workers publish through it, opening a   *)
(* new AMQP channel for a plugin whose channel is closed.  The map is      *)
(* shared by all workers and has no lock.                                  *)
(*                                                                         *)
(* All AMQP plugins use the connection of the first one that could be set  *)
(* up: initPlugin compares the schemes of two sockets, not the sockets.    *)
(* The broker, and whoever reads its queues, is environment.  Exchange and *)
(* queues are auto-delete: a queue goes with its last reader, the exchange *)
(* with its last queue, and only a re-initialisation declares them again.  *)
(***************************************************************************)
EXTENDS Integers, Sequences, FiniteSets

CONSTANTS
  Parsers,     \* enabled entries of conf.Parser, told apart by Uniq
  NetParsers,  \* those whose socket is not of the scheme amqp
  BadKeys,     \* those whose Key is no regular expression
  Brokers,
  BrokerOf,    \* the broker that a parser's Socket names
  Workers,
  MaxReplies,  \* bound: replies of each worker
  MaxFaults    \* bound: channels the broker closes, and queues it deletes

ASSUME PluginsAssumption ==
  /\ NetParsers \subseteq Parsers /\ BadKeys \subseteq Parsers /\ "none" \notin Parsers
  /\ BrokerOf \in [Parsers -> Brokers]
  /\ MaxReplies \in [Workers -> Nat] /\ MaxFaults \in Nat

VARIABLES
  mainPc,     \* main(), or what has ended the process
  todo,       \* parsers initPlugin has yet to visit
  plugins,    \* the map: the number of a plugin's channel, 0 for a socket
  conn,       \* prevAConn: the parser whose Socket was dialled
  connOpen,   \* the state of that connection
  channels,   \* how many channels have been opened so far
  open,       \* those of them that the collector takes for open
  hit,        \* channels that the broker has closed or no longer hears
  refused,    \* parsers whose queue the broker refuses to declare
  exchange,   \* the exchange exists
  bound,      \* parsers whose queue exists, and is bound to it
  queue,      \* what has come into the queue of each parser that had one
  w,          \* the workers, at the plugin part of their command loop
  dropped,    \* history: where the broker has dropped a reply
  lost,       \* history: where a reply was given up
  overlapped, \* history: plugins two workers re-initialised at one time
  left,       \* history: parsers whose queue went with its last reader
  shut        \* history: the channel that main has closed

channelVars == <<conn, connOpen, channels, open, hit>>
queueVars   == <<refused, exchange, bound, queue>>
brokerVars  == <<channelVars, queueVars>>
ghostVars   == <<dropped, lost, overlapped, left, shut>>
vars == <<mainPc, todo, plugins, brokerVars, w, ghostVars>>

Pcs == {"idle", "publish", "write", "reinit", "open", "store", "again"}

\* A reply is named by its worker and its number.
Reply == Workers \X (Nat \ {0})

\* main has returned, or a worker has ended the process: by a race on the map,
\* on a nil channel, or by a key that does not compile.
Deaths == {"race", "nochannel", "badkey"}
Ended  == mainPc \in Deaths \cup {"exit"}

At(u, pc) == ~Ended /\ w[u].pc = pc

\* The worker's reply, and its way from one place to the next.
Mine(u)     == <<u, w[u].n>>
Goto(u, pc) == w' = [w EXCEPT ![u].pc = pc]
Rest(u)     == w' = [w EXCEPT ![u].pc = "idle", ![u].plugin = "none"]

\* Between the first failed publication and the second one.
Reinits(u, p) == w[u].pc \in {"reinit", "open", "store", "again"} /\ w[u].plugin = p

\* A map with one more entry, or with one replaced.
Put(f, p, x) == [q \in DOMAIN f \cup {p} |-> IF q = p THEN x ELSE f[q]]

Init ==
  /\ mainPc = "init"
  /\ todo = Parsers
  /\ plugins = <<>>
  /\ conn = "none" /\ connOpen = FALSE /\ channels = 0 /\ open = {} /\ hit = {}
  /\ refused \in SUBSET (Parsers \ NetParsers)
  /\ exchange = FALSE /\ bound = {} /\ queue = <<>>
  /\ w = [u \in Workers |-> [pc |-> "idle", n |-> 0, plugin |-> "none", ch |-> 0]]
  /\ dropped = {} /\ lost = {} /\ overlapped = {} /\ left = {} /\ shut = {}

-----------------------------------------------------------------------------
(* initPlugin                                                              *)

\* Exchange and queue of p are declared on a new channel, and bound; that the
\* queue is refused closes the channel.
Declare(p) ==
  /\ channels' = channels + 1
  /\ exchange' = TRUE
  /\ IF p \in refused
     THEN UNCHANGED <<open, bound, queue>>
     ELSE /\ open' = open \cup {channels'}
          /\ bound' = bound \cup {p}
          /\ queue' = IF p \in DOMAIN queue THEN queue ELSE Put(queue, p, <<>>)

\* The range over conf.Parser visits every parser once, in any order.
Visit(p) ==
  /\ mainPc = "init" /\ p \in todo
  /\ todo' = todo \ {p}

\* A socket of the scheme of the previous broker: its channel is used, and
\* nothing is declared.
InitJoin(p) ==
  /\ Visit(p) /\ p \notin NetParsers /\ conn # "none"
  /\ plugins' = Put(plugins, p, 1)
  /\ UNCHANGED <<mainPc, brokerVars, w, ghostVars>>

\* Mutant of InitDial: the queue is not declared.
InitDialNoQueue(p) ==
  /\ Visit(p) /\ p \notin NetParsers /\ conn = "none"
  /\ conn' = p /\ connOpen' = TRUE
  /\ channels' = 1 /\ open' = {1} /\ exchange' = TRUE
  /\ plugins' = Put(plugins, p, 1)
  /\ UNCHANGED <<mainPc, refused, bound, queue, hit, w, ghostVars>>

InitDial(p) ==
  /\ Visit(p) /\ p \notin NetParsers /\ conn = "none"
  /\ conn' = p /\ connOpen' = TRUE
  /\ Declare(p)
  /\ plugins' = Put(plugins, p, 1)
  /\ UNCHANGED <<mainPc, refused, hit, w, ghostVars>>

\* Dial, Channel, ExchangeDeclare or net.Dial fails: the parser is left out.
InitFails(p) ==
  /\ Visit(p)
  /\ p \in NetParsers \/ conn = "none"
  /\ UNCHANGED <<mainPc, plugins, brokerVars, w, ghostVars>>

\* Mutant of InitNet: the class is not set, an earlier plugin's is kept.
InitNetStale(p) ==
  /\ Visit(p) /\ p \in NetParsers
  /\ plugins' = Put(plugins, p, IF conn = "none" THEN 0 ELSE 1)
  /\ UNCHANGED <<mainPc, brokerVars, w, ghostVars>>

InitNet(p) ==
  /\ Visit(p) /\ p \in NetParsers
  /\ plugins' = Put(plugins, p, 0)
  /\ UNCHANGED <<mainPc, brokerVars, w, ghostVars>>

InitReturn ==
  /\ mainPc = "init" /\ todo = {}
  /\ mainPc' = "run"
  /\ UNCHANGED <<todo, plugins, brokerVars, w, ghostVars>>

InitPlugin ==
  \/ \E p \in Parsers : InitJoin(p) \/ InitDial(p) \/ InitFails(p) \/ InitNet(p)
  \/ InitReturn

-----------------------------------------------------------------------------
(* A worker with a reply                                                   *)

\* A worker with a command that it has not asked checkPlugin about.
HasCommand(u) == w[u].pc = "idle" /\ w[u].n < MaxReplies[u]

\* The first plugin in the map's order whose key matches the command.  A
\* command no key matches goes on without a step.
CheckPlugin(u) ==
  /\ ~Ended /\ mainPc # "init" /\ HasCommand(u)
  /\ \E p \in DOMAIN plugins \ BadKeys :
       w' = [w EXCEPT ![u].pc = IF p \in NetParsers THEN "write" ELSE "publish",
                      ![u].n = @ + 1, ![u].plugin = p]
  /\ UNCHANGED <<mainPc, todo, plugins, brokerVars, ghostVars>>

\* regexp.MustCompile meets a key that does not compile before one matches: it
\* panics on the worker's inner goroutine, where nothing recovers.
CheckPluginPanics(u) ==
  /\ ~Ended /\ mainPc # "init" /\ HasCommand(u)
  /\ DOMAIN plugins \cap BadKeys # {}
  /\ mainPc' = "badkey"
  /\ UNCHANGED <<todo, plugins, brokerVars, w, ghostVars>>

\* A plain socket: the result of Write is not looked at.
WriteSocket(u) ==
  /\ At(u, "write")
  /\ Rest(u)
  /\ UNCHANGED <<mainPc, todo, plugins, brokerVars, ghostVars>>

\* publishPlugin on a channel that is open as far as the collector knows.  The
\* routing key is the plugin's Uniq, not mandatory: without a queue the broker
\* drops the message, as it does on a channel it has closed; without an exchange
\* it closes the channel.  publishPlugin learns nothing of this.
Accepted(u) ==
  LET p == w[u].plugin
      k == plugins[p]
  IN  /\ k \in open
      /\ IF p \in bound /\ k \notin hit
         THEN queue' = [queue EXCEPT ![p] = Append(@, Mine(u))] /\ UNCHANGED dropped
         ELSE /\ dropped' = dropped \cup {[plugin |-> p, ch |-> k]}
              /\ UNCHANGED queue
      /\ hit' = IF exchange THEN hit ELSE hit \cup {k}
      /\ UNCHANGED <<conn, connOpen, channels, open, refused, exchange, bound,
                     lost, overlapped, left, shut>>

\* Mutant of Publish: the test of publish_result is the wrong way round.
PublishInverted(u) ==
  /\ At(u, "publish")
  /\ \/ Accepted(u) /\ Goto(u, "reinit")
     \/ /\ plugins[w[u].plugin] \notin open
        /\ Rest(u)
        /\ UNCHANGED <<brokerVars, ghostVars>>
  /\ UNCHANGED <<mainPc, todo, plugins>>

\* The first attempt; a failure is noted with whoever is at the same plugin.
Publish(u) ==
  /\ At(u, "publish")
  /\ \/ Accepted(u) /\ Rest(u)
     \/ LET p == w[u].plugin IN
        /\ plugins[p] \notin open
        /\ Goto(u, "reinit")
        /\ overlapped' = IF \E v \in Workers \ {u} : Reinits(v, p)
                         THEN overlapped \cup {p} ELSE overlapped
        /\ UNCHANGED <<brokerVars, dropped, lost, left, shut>>
  /\ UNCHANGED <<mainPc, todo, plugins>>

\* ReinitOnePluginChannel closes whatever channel the plugin has by now.
ReinitClose(u) ==
  /\ At(u, "reinit")
  /\ open' = open \ {plugins[w[u].plugin]}
  /\ Goto(u, "open")
  /\ UNCHANGED <<mainPc, todo, plugins, conn, connOpen, channels, hit, queueVars, ghostVars>>

\* Channel() on a dead connection returns nil and the next line panics;
\* otherwise exchange and queue are declared on the new channel.
ReinitOpen(u) ==
  /\ At(u, "open")
  /\ IF connOpen
     THEN /\ Declare(w[u].plugin)
          /\ w' = [w EXCEPT ![u].pc = "store", ![u].ch = channels + 1]
          /\ UNCHANGED mainPc
     ELSE mainPc' = "nochannel" /\ UNCHANGED <<channels, open, exchange, bound, queue, w>>
  /\ UNCHANGED <<todo, plugins, conn, connOpen, refused, hit, ghostVars>>

\* Mutant of Store: the returned plugin is not stored.
StoreForgotten(u) ==
  /\ At(u, "store")
  /\ w' = [w EXCEPT ![u].pc = "again", ![u].ch = 0]
  /\ UNCHANGED <<mainPc, todo, plugins, brokerVars, ghostVars>>

Store(u) ==
  /\ At(u, "store")
  /\ plugins' = [plugins EXCEPT ![w[u].plugin] = w[u].ch]
  /\ w' = [w EXCEPT ![u].pc = "again", ![u].ch = 0]
  /\ UNCHANGED <<mainPc, todo, brokerVars, ghostVars>>

\* Mutant of PublishAgain: it goes back to the first attempt.
PublishAgainTwice(u) ==
  /\ At(u, "again")
  /\ \/ Accepted(u) /\ Goto(u, "publish")
     \/ /\ plugins[w[u].plugin] \notin open
        /\ Rest(u)
        /\ UNCHANGED <<brokerVars, ghostVars>>
  /\ UNCHANGED <<mainPc, todo, plugins>>

\* The second attempt, with the channel the map holds then; its result is
\* not looked at.
PublishAgain(u) ==
  /\ At(u, "again")
  /\ Rest(u)
  /\ \/ Accepted(u)
     \/ LET p == w[u].plugin IN
        /\ plugins[p] \notin open
        /\ lost' = lost \cup {[plugin |-> p, ch |-> plugins[p]]}
        /\ UNCHANGED <<brokerVars, dropped, overlapped, left, shut>>
  /\ UNCHANGED <<mainPc, todo, plugins>>

(***************************************************************************)
(* Go's map has no lock: a store that meets any other access to it may end *)
(* the process ("concurrent map read and map write").                      *)
(***************************************************************************)
MapRace(u) ==
  /\ At(u, "store")
  /\ \/ mainPc \in {"closing", "hangup"}
     \/ \E v \in Workers \ {u} : \/ w[v].pc \in {"publish", "write", "reinit", "store", "again"}
                                 \/ HasCommand(v)
  /\ mainPc' = "race"
  /\ UNCHANGED <<todo, plugins, brokerVars, w, ghostVars>>

Worker(u) ==
  \/ CheckPlugin(u) \/ CheckPluginPanics(u) \/ WriteSocket(u) \/ Publish(u)
  \/ ReinitClose(u) \/ ReinitOpen(u) \/ Store(u) \/ PublishAgain(u) \/ MapRace(u)

-----------------------------------------------------------------------------
(* The broker, and main's way out                                          *)

MoreFaults == Cardinality(hit) + Cardinality(left) < MaxFaults

BrokerClosesChannel(k) ==
  /\ ~Ended /\ k \in open \ hit /\ MoreFaults
  /\ hit' = hit \cup {k}
  /\ UNCHANGED <<mainPc, todo, plugins, conn, connOpen, channels, open, queueVars, w, ghostVars>>

\* The collector learns that the broker has closed the channel.
CloseArrives(k) ==
  /\ ~Ended /\ k \in open \cap hit
  /\ open' = open \ {k}
  /\ UNCHANGED <<mainPc, todo, plugins, conn, connOpen, channels, hit, queueVars, w, ghostVars>>

\* The last reader of a queue leaves: auto-delete.
ReaderLeaves(p) ==
  /\ ~Ended /\ p \in bound /\ MoreFaults
  /\ bound' = bound \ {p}
  /\ exchange' = (bound' # {})
  /\ left' = left \cup {p}
  /\ UNCHANGED <<mainPc, todo, plugins, channelVars, refused, queue, w, dropped, lost,
                 overlapped, shut>>

AllClosed ==
  /\ connOpen' = FALSE /\ open' = {}
  /\ UNCHANGED <<todo, plugins, conn, channels, hit, queueVars, w, ghostVars>>

\* The collector learns of the loss; what it publishes between the loss and this
\* step is dropped as it is on a channel of hit.
ConnectionLost ==
  /\ ~Ended /\ connOpen
  /\ AllClosed
  /\ UNCHANGED mainPc

\* main returns while workers may still be collecting: defer closePlugin.
MainReturns ==
  /\ mainPc = "run"
  /\ mainPc' = "closing"
  /\ UNCHANGED <<todo, plugins, brokerVars, w, ghostVars>>

\* The first AMQP plugin in the map's order: its channel ...
CloseSocket ==
  /\ mainPc = "closing" /\ connOpen
  /\ \E p \in DOMAIN plugins \ NetParsers :
       /\ open' = open \ {plugins[p]}
       /\ shut' = shut \cup {plugins[p]}
  /\ mainPc' = "hangup"
  /\ UNCHANGED <<todo, plugins, conn, connOpen, channels, hit, queueVars, w, dropped, lost,
                 overlapped, left>>

\* ... and then the connection of all of them.
CloseConn ==
  /\ mainPc = "hangup"
  /\ AllClosed
  /\ mainPc' = "closing"

\* Nothing is left to close; the process ends with main.
Exit ==
  /\ mainPc = "closing" /\ ~connOpen
  /\ mainPc' = "exit"
  /\ UNCHANGED <<todo, plugins, brokerVars, w, ghostVars>>

-----------------------------------------------------------------------------
Next ==
  \/ InitPlugin \/ MainReturns \/ CloseSocket \/ CloseConn \/ Exit
  \/ \E u \in Workers : Worker(u)
  \/ \E k \in open : BrokerClosesChannel(k) \/ CloseArrives(k)
  \/ \E p \in bound : ReaderLeaves(p)
  \/ ConnectionLost
  \/ Ended /\ UNCHANGED vars

Spec == Init /\ [][Next]_vars
=============================================================================
