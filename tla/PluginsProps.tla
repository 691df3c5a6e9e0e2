---------------------------- MODULE PluginsProps ----------------------------
(***************************************************************************)
(* What becomes of a reply that a plugin's key matches.                    *)
(***************************************************************************)
EXTENDS Plugins

Channels == 1 .. channels

\* Every variable has its type; in particular the map never names a channel
\* that was not opened (ext_parser.go 50-168, 287-291).
TypeOK ==
  /\ mainPc \in {"init", "run", "closing", "hangup", "exit"} \cup Deaths
  /\ todo \subseteq Parsers
  /\ channels \in Nat /\ open \subseteq Channels /\ hit \subseteq Channels
  /\ DOMAIN plugins \subseteq Parsers /\ plugins \in [DOMAIN plugins -> {0} \cup Channels]
  /\ \A p \in DOMAIN plugins : p \in NetParsers <=> plugins[p] = 0
  /\ conn \in Parsers \cup {"none"} /\ connOpen \in BOOLEAN
  /\ refused \subseteq Parsers \ NetParsers
  /\ exchange \in BOOLEAN
  /\ DOMAIN queue \subseteq Parsers \ refused /\ queue \in [DOMAIN queue -> Seq(Reply)]
  /\ bound \subseteq DOMAIN queue /\ left \subseteq DOMAIN queue
  /\ w \in [Workers -> [pc : Pcs, n : Nat, plugin : Parsers \cup {"none"},
                        ch : {0} \cup Channels]]
  /\ dropped \cup lost \subseteq [plugin : Parsers, ch : Channels]
  /\ overlapped \subseteq Parsers /\ shut \subseteq Channels

\* Publishing again never doubles a reply, and a worker's replies reach a
\* queue in the order it had them, whatever the other workers do to the
\* channel in between (ssh_collector_stay.go 341-347).
OnceInOrder ==
  \A p \in DOMAIN queue : \A i, j \in DOMAIN queue[p] :
    i < j /\ queue[p][i][1] = queue[p][j][1] => queue[p][i][2] < queue[p][j][2]

\* A reply whose second publication was refused too met a broker that closes
\* channels or refuses the queue, a lost connection, another worker that
\* re-initialised the same plugin at the same time, or main, which has closed
\* this very channel on its way out
\* (ssh_collector_stay.go 342-346, ext_parser.go 243-292 and 316).
LostOnlyWithReason ==
  \A x \in lost : \/ x.plugin \in refused \cup overlapped
                  \/ x.ch \in hit \cup shut
                  \/ ~connOpen

\* The broker drops a reply without a word only where the plugin has joined the
\* first channel of another one and was never re-initialised, where the last
\* reader of the plugin's queue has left, or on a channel that it has closed:
\* the plugin initPlugin dialled for has its queue from the start, any other
\* from its first re-initialisation (ext_parser.go 76-83, 117-135, 264-282).
DroppedOnlyWithReason ==
  \A x \in dropped : \/ x.plugin # conn /\ x.ch = 1
                     \/ x.plugin \in left
                     \/ x.ch \in hit

\* No channel is left open that nobody can reach, unless two workers have
\* re-initialised one plugin at the same time (ext_parser.go 245-291).
LeaksOnlyWhenOverlapped ==
  \A k \in open : \/ \E p \in DOMAIN plugins : plugins[p] = k
                  \/ \E u \in Workers : w[u].pc = "store" /\ w[u].ch = k
                  \/ overlapped # {}

\* With a broker that keeps the connection, closes no channel and accepts all
\* queues, no worker dies of a race on the map or of a nil channel before main
\* has closed a channel (ext_parser.go 247-261 and 316, ssh_collector_stay.go
\* 345).  A key that does not compile ends the process with any broker.
QuietBrokerNoCrash ==
  mainPc \in {"race", "nochannel"} =>
    hit # {} \/ refused # {} \/ ~connOpen \/ shut # {}

\* Re-initialising a plugin closes an open channel only when two workers are
\* at it at the same time, and never one that another plugin uses, although
\* all plugins start out with the same channel (ext_parser.go 76-83, 245).
NeverClosesNeighbours ==
  [][\A u \in Workers : w[u].pc = "reinit" /\ w'[u].pc = "open" =>
       LET p == w[u].plugin
       IN  plugins[p] \in open =>
             /\ p \in overlapped
             /\ \A q \in DOMAIN plugins \ {p} : plugins[q] # plugins[p]
    ]_vars

-----------------------------------------------------------------------------
(* The invariant the proofs rest on                                        *)

\* The plugins that publish.
Amqp == DOMAIN plugins \ NetParsers

\* What initPlugin leaves behind: while it runs nobody publishes, and the
\* plugin it dialled for has a queue or a closed channel.
StartInv ==
  /\ mainPc = "init" =>
       /\ \A u \in Workers : w[u].pc = "idle" /\ w[u].n = 0
       /\ \A p \in Amqp : plugins[p] = 1
       /\ lost = {} /\ dropped = {}
  /\ conn = "none" => Amqp = {} /\ channels = 0 /\ DOMAIN queue = {} /\ ~connOpen
  /\ conn # "none" => channels # 0
  /\ conn # "none" =>
       /\ conn \in Amqp
       /\ IF conn \in refused
          THEN /\ plugins[conn] \notin open
               /\ \A u \in Workers : w[u].pc = "store" /\ w[u].plugin = conn => w[u].ch \notin open
          ELSE conn \in DOMAIN queue

\* Where a worker is, and with which plugin.
WorkerInv ==
  \A u \in Workers :
    /\ w[u].pc \in {"publish", "reinit", "open", "store", "again"} => w[u].plugin \in Amqp
    /\ w[u].pc # "idle" => w[u].n # 0
    /\ w[u].pc = "store" => w[u].ch # 0

\* Only the channel that all plugins start out with is shared.
OwnChannelInv ==
  /\ \A p, q \in Amqp : p # q /\ plugins[p] = plugins[q] => plugins[p] = 1
  /\ \A u \in Workers :
       /\ w[u].pc = "again" => plugins[w[u].plugin] # 1
       /\ w[u].pc = "store" =>
            /\ w[u].ch # 1 /\ \A p \in Amqp : plugins[p] # w[u].ch
            /\ \A v \in Workers \ {u} : w[v].pc = "store" => w[v].ch # w[u].ch

\* What is known when two workers are at one plugin, and what is otherwise.
OverlapInv ==
  /\ \A u, v \in Workers, p \in Parsers :
       u # v /\ Reinits(u, p) /\ Reinits(v, p) => p \in overlapped
  /\ \A u \in Workers : LET p == w[u].plugin IN
       /\ w[u].pc = "reinit" /\ plugins[p] \in open => p \in overlapped /\ plugins[p] # 1
       /\ w[u].pc \in {"open", "store"} => plugins[p] \notin open \/ p \in overlapped

\* Why a channel just opened for p may be closed already.
Reason(p, k) == p \in refused \cup overlapped \/ k \in hit \cup shut \/ ~connOpen

ReasonInv ==
  \A u \in Workers : LET p == w[u].plugin IN
    /\ w[u].pc = "store" => w[u].ch \in open \/ Reason(p, w[u].ch)
    /\ w[u].pc = "again" => plugins[p] \in open \/ Reason(p, plugins[p])

\* A plugin with a channel of its own has had its queue declared on it, and a
\* queue that is gone went with its last reader.
BoundInv ==
  /\ bound # {} => exchange
  /\ DOMAIN queue \subseteq bound \cup left
  /\ \A p \in Amqp : plugins[p] # 1 /\ plugins[p] \in open => p \in DOMAIN queue
  /\ \A u \in Workers :
       w[u].pc = "store" /\ w[u].ch \in open => w[u].plugin \in DOMAIN queue

\* What a quiet broker never sees.
QuietInv ==
  connOpen /\ hit = {} /\ refused = {} /\ shut = {} =>
    /\ mainPc \notin {"race", "nochannel"}
    /\ open = Channels
    /\ \A u \in Workers : w[u].pc \in {"idle", "publish", "write"}

\* What a worker has published is older than what it has in hand.
QueueInv ==
  \A p \in DOMAIN queue : \A i \in DOMAIN queue[p] : LET u == queue[p][i][1] IN
    /\ queue[p][i][2] <= w[u].n
    /\ w[u].pc # "idle" => queue[p][i][2] < w[u].n

\* All parts together are inductive (ext_parser.go 50-292,
\* ssh_collector_stay.go 337-349).
PluginsInv ==
  /\ TypeOK /\ StartInv /\ WorkerInv /\ OwnChannelInv /\ OverlapInv /\ ReasonInv
  /\ BoundInv /\ QuietInv /\ QueueInv
  /\ OnceInOrder /\ LostOnlyWithReason /\ DroppedOnlyWithReason /\ LeaksOnlyWhenOverlapped

-----------------------------------------------------------------------------
\* "Save for checking repeated AMQP brokers" (ext_parser.go:141): a plugin
\* publishes to the broker its own socket names.
PluginOnOwnBroker ==
  \A p \in DOMAIN plugins \ NetParsers : BrokerOf[conn] = BrokerOf[p]
=============================================================================
