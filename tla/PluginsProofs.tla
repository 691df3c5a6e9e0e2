---------------------------- MODULE PluginsProofs ---------------------------
(***************************************************************************)
(* Proofs about the output plugins, for any number of parsers, workers,    *)
(* replies and closed channels.                                            *)
(***************************************************************************)
EXTENDS PluginsProps, TLAPS

USE PluginsAssumption

WorkerType == [pc : Pcs, n : Nat, plugin : Parsers \cup {"none"},
               ch : {0} \cup Channels]

\* The thirteen parts by name, and what TypeOK says of a worker and a plugin.
LEMMA Parts ==
  ASSUME PluginsInv
  PROVE  /\ TypeOK /\ StartInv /\ WorkerInv /\ OwnChannelInv /\ OverlapInv /\ ReasonInv
         /\ BoundInv /\ QuietInv /\ QueueInv /\ OnceInOrder /\ LostOnlyWithReason
         /\ DroppedOnlyWithReason /\ LeaksOnlyWhenOverlapped
BY DEF PluginsInv

LEMMA Shapes ==
  ASSUME TypeOK
  PROVE  /\ w \in [Workers -> WorkerType]
         /\ \A u \in Workers : /\ w[u].pc \in Pcs /\ w[u].n \in Nat
                               /\ w[u].plugin \in Parsers \cup {"none"}
                               /\ w[u].ch \in Nat /\ w[u].ch \in {0} \cup Channels
         /\ \A p \in Amqp : p \in Parsers /\ plugins[p] \in Channels /\ plugins[p] # 0
         /\ channels + 1 \notin Channels /\ channels + 1 # 0 /\ channels + 1 \in Nat
BY DEF TypeOK, WorkerType, Channels, Amqp

LEMMA QueueShapes ==
  ASSUME TypeOK
  PROVE  \A p \in DOMAIN queue :
           /\ queue[p] \in Seq(Reply) /\ p \notin refused
           /\ \A i \in DOMAIN queue[p] : queue[p][i][1] \in Workers /\ queue[p][i][2] \in Nat
<1>1. \A s : s \in Seq(Reply) => \A i \in DOMAIN s : s[i] \in Reply
  OBVIOUS
<1>2. \A r \in Reply : r[1] \in Workers /\ r[2] \in Nat
  BY DEF Reply
<1>3. \A p \in DOMAIN queue : queue[p] \in Seq(Reply) /\ p \notin refused
  BY DEF TypeOK
<1>4. QED
  BY <1>1, <1>2, <1>3

\* What a worker has in hand stays younger than what it has published.
LEMMA QueueStays ==
  ASSUME TypeOK, QueueInv, UNCHANGED queue, NEW u \in Workers, w[u].pc # "idle",
         \A v \in Workers : v # u => w'[v] = w[v], w'[u].n = w[u].n
  PROVE  QueueInv'
<1>1. ASSUME NEW p \in DOMAIN queue, NEW i \in DOMAIN queue[p]
      PROVE  LET v == queue[p][i][1] IN
               /\ queue[p][i][2] <= w'[v].n
               /\ w'[v].pc # "idle" => queue[p][i][2] < w'[v].n
  <2>1. queue[p][i][1] \in Workers
    BY QueueShapes
  <2>2. CASE queue[p][i][1] = u
    BY <2>2 DEF QueueInv
  <2>3. CASE queue[p][i][1] # u
    BY <2>1, <2>3 DEF QueueInv
  <2>4. QED
    BY <2>2, <2>3
<1>2. QED
  BY <1>1 DEF QueueInv

\* A worker that only goes on.
LEMMA GotoFacts ==
  ASSUME TypeOK, NEW u \in Workers, NEW pc \in Pcs, Goto(u, pc)
  PROVE  /\ \A v \in Workers : v # u => w'[v] = w[v]
         /\ w'[u].pc = pc /\ w'[u].n = w[u].n /\ w'[u].plugin = w[u].plugin
         /\ w'[u].ch = w[u].ch
         /\ w' \in [Workers -> WorkerType]
<1>1. w \in [Workers -> WorkerType]
  BY Shapes
<1>2. QED
  BY <1>1 DEF Goto, WorkerType

\* A worker that has done with its reply.
LEMMA RestFacts ==
  ASSUME TypeOK, NEW u \in Workers, Rest(u)
  PROVE  /\ \A v \in Workers : v # u => w'[v] = w[v]
         /\ w'[u].pc = "idle" /\ w'[u].n = w[u].n /\ w'[u].plugin = "none"
         /\ w'[u].ch = w[u].ch
         /\ w' \in [Workers -> WorkerType]
<1>1. w \in [Workers -> WorkerType]
  BY Shapes
<1>2. w[u] \in WorkerType
  BY <1>1
<1> DEFINE r == [w[u] EXCEPT !.pc = "idle", !.plugin = "none"]
<1>3. w' = [w EXCEPT ![u] = r]
  BY <1>1 DEF Rest
<1>4. /\ r.pc = "idle" /\ r.n = w[u].n /\ r.plugin = "none" /\ r.ch = w[u].ch
      /\ r \in WorkerType
  BY <1>2 DEF WorkerType, Pcs
<1> HIDE DEF r
<1>5. QED
  BY <1>1, <1>3, <1>4

\* Channels are closed: the broker does it, the collector learns of it, or main
\* closes one on its way out.
LEMMA ClosesKeeps ==
  ASSUME PluginsInv, open' \subseteq open, hit \subseteq hit', hit' \subseteq Channels,
         shut \subseteq shut', shut' \subseteq Channels, hit' \cup shut' # {},
         \A k \in open \ open' : k \in hit' \cup shut',
         mainPc' = mainPc \/ (mainPc = "closing" /\ mainPc' = "hangup"),
         UNCHANGED <<todo, plugins, conn, connOpen, channels, queueVars, w, dropped, lost,
                     overlapped, left>>
  PROVE  PluginsInv'
<1>1. /\ TypeOK /\ StartInv /\ WorkerInv /\ OwnChannelInv /\ OverlapInv /\ ReasonInv
      /\ BoundInv /\ QuietInv /\ QueueInv /\ OnceInOrder /\ LostOnlyWithReason
      /\ DroppedOnlyWithReason /\ LeaksOnlyWhenOverlapped
  BY Parts
<1>2. /\ open' \subseteq open /\ hit \subseteq hit' /\ hit' \subseteq Channels
      /\ shut \subseteq shut' /\ shut' \subseteq Channels /\ hit' \cup shut' # {}
      /\ \A k \in open \ open' : k \in hit' \cup shut'
      /\ mainPc' = mainPc \/ (mainPc = "closing" /\ mainPc' = "hangup")
      /\ UNCHANGED <<todo, plugins, conn, connOpen, channels, refused, exchange, bound, queue>>
      /\ UNCHANGED <<w, dropped, lost, overlapped, left>>
  BY DEF queueVars
<1>3. UNCHANGED <<Channels, Amqp>>
  BY <1>2 DEF Channels, Amqp
<1>4. TypeOK'
  BY <1>1, <1>2, <1>3, Shapes DEF TypeOK, Channels
<1>5. StartInv'
  BY <1>1, <1>2, <1>3, Shapes DEF StartInv, Amqp
<1>6. WorkerInv'
  BY <1>1, <1>2, <1>3, Shapes DEF WorkerInv, Amqp
<1>7. OwnChannelInv'
  BY <1>1, <1>2, <1>3, Shapes DEF OwnChannelInv, Amqp, WorkerInv
<1>8. OverlapInv'
  BY <1>1, <1>2, <1>3, Shapes DEF OverlapInv, Reinits, OwnChannelInv, WorkerInv, Amqp
<1>9. ReasonInv'
  BY <1>1, <1>2, <1>3, Shapes
     DEF ReasonInv, Reason, OverlapInv, Reinits, OwnChannelInv, WorkerInv
<1>10. QuietInv'
  BY <1>1, <1>2, <1>3, Shapes DEF QuietInv, Channels
<1>11. QueueInv'
  BY <1>1, <1>2, <1>3, Shapes, QueueShapes DEF QueueInv
<1>12. OnceInOrder'
  BY <1>1, <1>2, <1>3, Shapes DEF OnceInOrder, QueueInv
<1>13. LostOnlyWithReason'
  BY <1>1, <1>2, <1>3, Shapes DEF LostOnlyWithReason, ReasonInv, Reason
<1>14. DroppedOnlyWithReason'
  BY <1>1, <1>2, <1>3, Shapes DEF DroppedOnlyWithReason, StartInv
<1>15. LeaksOnlyWhenOverlapped'
  BY <1>1, <1>2, <1>3, Shapes DEF LeaksOnlyWhenOverlapped, OverlapInv
<1>b. BoundInv'
  BY <1>1, <1>2, <1>3, Shapes DEF BoundInv, Amqp, WorkerInv, StartInv
<1>16. QED
  BY <1>4, <1>5, <1>6, <1>7, <1>8, <1>9, <1>10, <1>11, <1>12, <1>13, <1>14, <1>15,
     <1>b DEF PluginsInv

\* The broker closes a channel.
LEMMA BrokerClosesKeeps ==
  ASSUME PluginsInv, NEW k \in open, BrokerClosesChannel(k) \/ CloseArrives(k)
  PROVE  PluginsInv'
<1>1. TypeOK /\ k \in Channels
  BY Parts DEF TypeOK
<1>2. /\ open' \subseteq open /\ hit \subseteq hit' /\ hit' \subseteq Channels /\ k \in hit'
      /\ \A j \in open \ open' : j \in hit'
      /\ UNCHANGED <<mainPc, todo, plugins, conn, connOpen, channels, queueVars, w, ghostVars>>
  BY <1>1 DEF BrokerClosesChannel, CloseArrives, TypeOK
<1>3. UNCHANGED <<dropped, lost, overlapped, left, shut>> /\ shut' \subseteq Channels
  BY <1>1, <1>2 DEF ghostVars, TypeOK
<1>4. /\ open' \subseteq open /\ hit \subseteq hit' /\ hit' \subseteq Channels
      /\ shut \subseteq shut' /\ shut' \subseteq Channels /\ hit' \cup shut' # {}
      /\ \A j \in open \ open' : j \in hit' \cup shut'
      /\ mainPc' = mainPc
      /\ UNCHANGED <<todo, plugins, conn, connOpen, channels, queueVars, w, dropped, lost,
                     overlapped, left>>
  BY <1>2, <1>3
<1>5. QED
  BY <1>4, ClosesKeeps

\* main closes the channel of a plugin.
LEMMA CloseSocketKeeps ==
  ASSUME PluginsInv, CloseSocket
  PROVE  PluginsInv'
<1>1. PICK p \in Amqp : open' = open \ {plugins[p]} /\ shut' = shut \cup {plugins[p]}
  BY DEF CloseSocket, Amqp
<1>2. TypeOK /\ plugins[p] \in Channels /\ hit \subseteq Channels /\ shut \subseteq Channels
  BY Parts, Shapes DEF TypeOK
<1>3. /\ open' \subseteq open /\ hit' = hit /\ shut' \subseteq Channels /\ plugins[p] \in shut'
      /\ \A j \in open \ open' : j \in shut'
      /\ mainPc = "closing" /\ mainPc' = "hangup"
      /\ UNCHANGED <<todo, plugins, conn, connOpen, channels, queueVars, w, dropped, lost,
                     overlapped, left>>
  BY <1>1, <1>2 DEF CloseSocket
<1>4. QED
  BY <1>1, <1>2, <1>3, ClosesKeeps

\* The last reader of a queue leaves.
LEMMA ReaderLeavesKeeps ==
  ASSUME PluginsInv, NEW r \in bound, ReaderLeaves(r)
  PROVE  PluginsInv'
<1>1. /\ TypeOK /\ StartInv /\ WorkerInv /\ OwnChannelInv /\ OverlapInv /\ ReasonInv
      /\ BoundInv /\ QuietInv /\ QueueInv /\ OnceInOrder /\ LostOnlyWithReason
      /\ DroppedOnlyWithReason /\ LeaksOnlyWhenOverlapped
  BY Parts
<1>2. /\ bound' = bound \ {r} /\ exchange' = (bound' # {}) /\ left' = left \cup {r}
      /\ UNCHANGED <<mainPc, todo, plugins, conn, connOpen, channels, open, hit, refused, queue>>
      /\ UNCHANGED <<w, dropped, lost, overlapped, shut>>
  BY DEF ReaderLeaves, channelVars
<1>3. UNCHANGED <<Channels, Amqp>>
  BY <1>2 DEF Channels, Amqp
<1>4. TypeOK'
  BY <1>1, <1>2, <1>3, Shapes DEF TypeOK, Channels
<1>5. StartInv'
  BY <1>1, <1>2, <1>3, Shapes DEF StartInv, Amqp
<1>6. WorkerInv'
  BY <1>1, <1>2, <1>3, Shapes DEF WorkerInv, Amqp
<1>7. OwnChannelInv'
  BY <1>1, <1>2, <1>3, Shapes DEF OwnChannelInv, Amqp, WorkerInv
<1>8. OverlapInv'
  BY <1>1, <1>2, <1>3, Shapes DEF OverlapInv, Reinits, OwnChannelInv, WorkerInv, Amqp
<1>9. ReasonInv'
  BY <1>1, <1>2, <1>3, Shapes
     DEF ReasonInv, Reason, OverlapInv, Reinits, OwnChannelInv, WorkerInv
<1>10. QuietInv'
  BY <1>1, <1>2, <1>3, Shapes DEF QuietInv, Channels
<1>11. QueueInv'
  BY <1>1, <1>2, <1>3, Shapes, QueueShapes DEF QueueInv
<1>12. OnceInOrder'
  BY <1>1, <1>2, <1>3, Shapes DEF OnceInOrder, QueueInv
<1>13. LostOnlyWithReason'
  BY <1>1, <1>2, <1>3, Shapes DEF LostOnlyWithReason, ReasonInv, Reason
<1>14. DroppedOnlyWithReason'
  BY <1>1, <1>2, <1>3, Shapes DEF DroppedOnlyWithReason, StartInv
<1>15. LeaksOnlyWhenOverlapped'
  BY <1>1, <1>2, <1>3, Shapes DEF LeaksOnlyWhenOverlapped, OverlapInv
<1>b. BoundInv'
  BY <1>1, <1>2, <1>3, Shapes DEF BoundInv, Amqp, WorkerInv, StartInv
<1>16. QED
  BY <1>4, <1>5, <1>6, <1>7, <1>8, <1>9, <1>10, <1>11, <1>12, <1>13, <1>14, <1>15,
     <1>b DEF PluginsInv

\* The connection is lost, or main closes it.
LEMMA AllClosedKeeps ==
  ASSUME PluginsInv, ConnectionLost \/ CloseConn
  PROVE  PluginsInv'
<1>1. /\ TypeOK /\ StartInv /\ WorkerInv /\ OwnChannelInv /\ OverlapInv /\ ReasonInv
      /\ BoundInv /\ QuietInv /\ QueueInv /\ OnceInOrder /\ LostOnlyWithReason
      /\ DroppedOnlyWithReason /\ LeaksOnlyWhenOverlapped
  BY Parts
<1>2. /\ open' = {} /\ connOpen' = FALSE
      /\ mainPc' = mainPc \/ (mainPc = "hangup" /\ mainPc' = "closing")
      /\ UNCHANGED <<todo, plugins, conn, channels, refused, exchange, bound, queue, hit>>
      /\ UNCHANGED <<w, dropped, lost, overlapped, left, shut>>
  <2>1. AllClosed
    BY DEF ConnectionLost, CloseConn
  <2>2. mainPc' = mainPc \/ (mainPc = "hangup" /\ mainPc' = "closing")
    BY DEF ConnectionLost, CloseConn
  <2>3. QED
    BY <2>1, <2>2 DEF AllClosed, queueVars, ghostVars
<1>3. UNCHANGED <<Channels, Amqp>>
  BY <1>2 DEF Channels, Amqp
<1>4. TypeOK'
  BY <1>1, <1>2, <1>3, Shapes DEF TypeOK, Channels
<1>5. StartInv'
  BY <1>1, <1>2, <1>3, Shapes DEF StartInv, Amqp
<1>6. WorkerInv'
  BY <1>1, <1>2, <1>3, Shapes DEF WorkerInv, Amqp
<1>7. OwnChannelInv'
  BY <1>1, <1>2, <1>3, Shapes DEF OwnChannelInv, Amqp, WorkerInv
<1>8. OverlapInv'
  BY <1>1, <1>2, <1>3, Shapes DEF OverlapInv, Reinits, OwnChannelInv, WorkerInv, Amqp
<1>9. ReasonInv'
  BY <1>1, <1>2, <1>3, Shapes
     DEF ReasonInv, Reason, OverlapInv, Reinits, OwnChannelInv, WorkerInv
<1>10. QuietInv'
  BY <1>1, <1>2, <1>3, Shapes DEF QuietInv, Channels
<1>11. QueueInv'
  BY <1>1, <1>2, <1>3, Shapes, QueueShapes DEF QueueInv
<1>12. OnceInOrder'
  BY <1>1, <1>2, <1>3, Shapes DEF OnceInOrder, QueueInv
<1>13. LostOnlyWithReason'
  BY <1>1, <1>2, <1>3, Shapes DEF LostOnlyWithReason, ReasonInv, Reason
<1>14. DroppedOnlyWithReason'
  BY <1>1, <1>2, <1>3, Shapes DEF DroppedOnlyWithReason, StartInv
<1>15. LeaksOnlyWhenOverlapped'
  BY <1>1, <1>2, <1>3, Shapes DEF LeaksOnlyWhenOverlapped, OverlapInv
<1>b. BoundInv'
  BY <1>1, <1>2, <1>3, Shapes DEF BoundInv, Amqp, WorkerInv, StartInv
<1>16. QED
  BY <1>4, <1>5, <1>6, <1>7, <1>8, <1>9, <1>10, <1>11, <1>12, <1>13, <1>14, <1>15,
     <1>b DEF PluginsInv

\* A plain socket.
LEMMA WriteSocketKeeps ==
  ASSUME PluginsInv, NEW u \in Workers, WriteSocket(u)
  PROVE  PluginsInv'
<1>1. /\ TypeOK /\ StartInv /\ WorkerInv /\ OwnChannelInv /\ OverlapInv /\ ReasonInv
      /\ BoundInv /\ QuietInv /\ QueueInv /\ OnceInOrder /\ LostOnlyWithReason
      /\ DroppedOnlyWithReason /\ LeaksOnlyWhenOverlapped
  BY Parts
<1>2. /\ \A v \in Workers : v # u => w'[v] = w[v]
      /\ w'[u].pc = "idle" /\ w'[u].n = w[u].n /\ w'[u].plugin = "none"
      /\ w'[u].ch = w[u].ch
      /\ w' \in [Workers -> WorkerType]
  BY <1>1, RestFacts DEF WriteSocket
<1>3. /\ UNCHANGED <<mainPc, todo, plugins, brokerVars, ghostVars>>
      /\ w[u].pc = "write"
  BY DEF WriteSocket, At
<1>4. /\ UNCHANGED <<Channels, Amqp, conn, connOpen, channels, open, hit, refused>>
      /\ UNCHANGED <<exchange, bound, queue, dropped, lost, overlapped, left, shut>>
  BY <1>3 DEF Channels, Amqp, brokerVars, channelVars, queueVars, ghostVars
<1>5. TypeOK'
  BY <1>1, <1>2, <1>3, <1>4 DEF TypeOK, WorkerType
<1>6. StartInv'
  BY <1>1, <1>2, <1>3, <1>4, Shapes DEF StartInv, Amqp
<1>7. WorkerInv'
  BY <1>1, <1>2, <1>3, <1>4, Shapes DEF WorkerInv, Amqp
<1>8. OwnChannelInv'
  BY <1>1, <1>2, <1>3, <1>4, Shapes DEF OwnChannelInv, Amqp, WorkerInv
<1>9. OverlapInv'
  BY <1>1, <1>2, <1>3, <1>4, Shapes DEF OverlapInv, Reinits, OwnChannelInv, WorkerInv, Amqp
<1>10. ReasonInv'
  BY <1>1, <1>2, <1>3, <1>4, Shapes
     DEF ReasonInv, Reason, OverlapInv, Reinits, OwnChannelInv, WorkerInv
<1>11. QuietInv'
  BY <1>1, <1>2, <1>3, <1>4, Shapes DEF QuietInv, Channels
<1>12. QueueInv'
  BY <1>1, <1>2, <1>3, <1>4, QueueStays
<1>13. OnceInOrder'
  BY <1>1, <1>2, <1>3, <1>4, Shapes DEF OnceInOrder, QueueInv
<1>14. LostOnlyWithReason'
  BY <1>1, <1>2, <1>3, <1>4, Shapes DEF LostOnlyWithReason, ReasonInv, Reason
<1>15. DroppedOnlyWithReason'
  BY <1>1, <1>2, <1>3, <1>4, Shapes DEF DroppedOnlyWithReason, StartInv
<1>16. LeaksOnlyWhenOverlapped'
  BY <1>1, <1>2, <1>3, <1>4, Shapes DEF LeaksOnlyWhenOverlapped, OverlapInv
<1>b. BoundInv'
  BY <1>1, <1>2, <1>3, <1>4, Shapes DEF BoundInv, Amqp, WorkerInv, StartInv
<1>17. QED
  BY <1>5, <1>6, <1>7, <1>8, <1>9, <1>10, <1>11, <1>12, <1>13, <1>14, <1>15, <1>16,
     <1>b DEF PluginsInv

\* A reply, and the plugin for it.
LEMMA CheckPluginKeeps ==
  ASSUME PluginsInv, NEW u \in Workers, CheckPlugin(u)
  PROVE  PluginsInv'
<1>1. /\ TypeOK /\ StartInv /\ WorkerInv /\ OwnChannelInv /\ OverlapInv /\ ReasonInv
      /\ BoundInv /\ QuietInv /\ QueueInv /\ OnceInOrder /\ LostOnlyWithReason
      /\ DroppedOnlyWithReason /\ LeaksOnlyWhenOverlapped
  BY Parts
<1>2. PICK p \in DOMAIN plugins :
        w' = [w EXCEPT ![u].pc = IF p \in NetParsers THEN "write" ELSE "publish",
                       ![u].n = @ + 1, ![u].plugin = p]
  BY DEF CheckPlugin
<1>3. /\ UNCHANGED <<mainPc, todo, plugins, brokerVars, ghostVars>>
      /\ w[u].pc = "idle" /\ ~Ended /\ mainPc # "init"
  BY DEF CheckPlugin, HasCommand
<1>4. /\ UNCHANGED <<Channels, Amqp, conn, connOpen, channels, open, hit, refused>>
      /\ UNCHANGED <<exchange, bound, queue, dropped, lost, overlapped, left, shut>>
  BY <1>3 DEF Channels, Amqp, brokerVars, channelVars, queueVars, ghostVars
<1>5. /\ \A v \in Workers : v # u => w'[v] = w[v]
      /\ w'[u].pc = (IF p \in NetParsers THEN "write" ELSE "publish")
      /\ w'[u].n = w[u].n + 1 /\ w'[u].plugin = p /\ w'[u].ch = w[u].ch
      /\ w' \in [Workers -> WorkerType]
  <2>1. w \in [Workers -> WorkerType] /\ p \in Parsers
        /\ w[u].n \in Nat /\ w[u].n + 1 \in Nat
    BY <1>1, <1>3, Shapes DEF TypeOK
  <2>2. w[u] \in WorkerType
    BY <2>1
  <2> DEFINE pc == IF p \in NetParsers THEN "write" ELSE "publish"
             r  == [w[u] EXCEPT !.pc = pc, !.n = @ + 1, !.plugin = p]
  <2>3. w' = [w EXCEPT ![u] = r]
    BY <1>2, <2>1
  <2>4. /\ r.pc = pc /\ r.n = w[u].n + 1 /\ r.plugin = p /\ r.ch = w[u].ch
        /\ r \in WorkerType
    BY <2>1, <2>2 DEF WorkerType, Pcs
  <2> HIDE DEF r
  <2>5. QED
    BY <2>1, <2>3, <2>4
<1>6. TypeOK'
  BY <1>1, <1>3, <1>4, <1>5 DEF TypeOK, WorkerType
<1>7. StartInv'
  BY <1>1, <1>2, <1>3, <1>4, <1>5, Shapes DEF StartInv, Amqp
<1>8. WorkerInv'
  BY <1>1, <1>2, <1>3, <1>4, <1>5, Shapes DEF WorkerInv, Amqp
<1>9. OwnChannelInv'
  BY <1>1, <1>2, <1>3, <1>4, <1>5, Shapes DEF OwnChannelInv, Amqp, WorkerInv
<1>10. OverlapInv'
  BY <1>1, <1>3, <1>4, <1>5, Shapes DEF OverlapInv, Reinits, OwnChannelInv, WorkerInv, Amqp
<1>11. ReasonInv'
  BY <1>1, <1>2, <1>3, <1>4, <1>5, Shapes
     DEF ReasonInv, Reason, OverlapInv, Reinits, OwnChannelInv, WorkerInv
<1>12. QuietInv'
  BY <1>1, <1>2, <1>3, <1>4, <1>5, Shapes DEF QuietInv, Channels
<1>13. QueueInv'
  BY <1>1, <1>2, <1>3, <1>4, <1>5, Shapes, QueueShapes DEF QueueInv
<1>14. OnceInOrder'
  BY <1>1, <1>2, <1>3, <1>4, <1>5, Shapes DEF OnceInOrder, QueueInv
<1>15. LostOnlyWithReason'
  BY <1>1, <1>2, <1>3, <1>4, <1>5, Shapes DEF LostOnlyWithReason, ReasonInv, Reason
<1>16. DroppedOnlyWithReason'
  BY <1>1, <1>2, <1>3, <1>4, <1>5, Shapes DEF DroppedOnlyWithReason, StartInv
<1>17. LeaksOnlyWhenOverlapped'
  BY <1>1, <1>2, <1>3, <1>4, <1>5, Shapes DEF LeaksOnlyWhenOverlapped, OverlapInv
<1>b. BoundInv'
  BY <1>1, <1>2, <1>3, <1>4, <1>5, Shapes DEF BoundInv, Amqp, WorkerInv, StartInv
<1>18. QED
  BY <1>6, <1>7, <1>8, <1>9, <1>10, <1>11, <1>12, <1>13, <1>14, <1>15, <1>16, <1>17,
     <1>b DEF PluginsInv

\* The first attempt meets a closed channel.
LEMMA PublishFailsKeeps ==
  ASSUME PluginsInv, NEW u \in Workers, Publish(u),
         plugins[w[u].plugin] \notin open
  PROVE  PluginsInv'
<1>1. /\ TypeOK /\ StartInv /\ WorkerInv /\ OwnChannelInv /\ OverlapInv /\ ReasonInv
      /\ BoundInv /\ QuietInv /\ QueueInv /\ OnceInOrder /\ LostOnlyWithReason
      /\ DroppedOnlyWithReason /\ LeaksOnlyWhenOverlapped
  BY Parts
<1>2. /\ \A v \in Workers : v # u => w'[v] = w[v]
      /\ w'[u].pc = "reinit" /\ w'[u].n = w[u].n /\ w'[u].plugin = w[u].plugin
      /\ w'[u].ch = w[u].ch
      /\ w' \in [Workers -> WorkerType]
  BY <1>1, GotoFacts DEF Publish, Accepted, Pcs
<1>3. /\ UNCHANGED <<mainPc, todo, plugins, brokerVars, dropped, lost, left, shut>>
      /\ w[u].pc = "publish" /\ ~Ended
      /\ overlapped' = IF \E v \in Workers \ {u} : Reinits(v, w[u].plugin)
                       THEN overlapped \cup {w[u].plugin} ELSE overlapped
  BY DEF Publish, Accepted, At
<1>4. /\ UNCHANGED <<Channels, Amqp, conn, connOpen, channels, open, hit, refused>>
      /\ UNCHANGED <<exchange, bound, queue>>
  BY <1>3 DEF Channels, Amqp, brokerVars, channelVars, queueVars
<1>5. /\ w[u].plugin \in Amqp /\ w[u].plugin \in Parsers /\ overlapped \subseteq overlapped'
      /\ overlapped' \subseteq Parsers
  BY <1>1, <1>3, Shapes DEF WorkerInv, TypeOK
<1>6. TypeOK'
  BY <1>1, <1>2, <1>3, <1>4, <1>5 DEF TypeOK, WorkerType
<1>7. StartInv'
  BY <1>1, <1>2, <1>3, <1>4, <1>5, Shapes DEF StartInv, Amqp
<1>8. WorkerInv'
  BY <1>1, <1>2, <1>3, <1>4, <1>5, Shapes DEF WorkerInv, Amqp
<1>9. OwnChannelInv'
  BY <1>1, <1>2, <1>3, <1>4, <1>5, Shapes DEF OwnChannelInv, Amqp, WorkerInv
<1>10. OverlapInv'
  BY <1>1, <1>2, <1>3, <1>4, <1>5, Shapes
     DEF OverlapInv, Reinits, OwnChannelInv, WorkerInv, Amqp
<1>11. ReasonInv'
  BY <1>1, <1>2, <1>3, <1>4, <1>5, Shapes
     DEF ReasonInv, Reason, OverlapInv, Reinits, OwnChannelInv, WorkerInv
<1>12. QuietInv'
  BY <1>1, <1>2, <1>3, <1>4, <1>5, Shapes DEF QuietInv, Channels
<1>13. QueueInv'
  BY <1>1, <1>2, <1>3, <1>4, <1>5, QueueStays
<1>14. OnceInOrder'
  BY <1>1, <1>2, <1>3, <1>4, <1>5, Shapes DEF OnceInOrder, QueueInv
<1>15. LostOnlyWithReason'
  BY <1>1, <1>2, <1>3, <1>4, <1>5, Shapes DEF LostOnlyWithReason, ReasonInv, Reason
<1>16. DroppedOnlyWithReason'
  BY <1>1, <1>2, <1>3, <1>4, <1>5, Shapes DEF DroppedOnlyWithReason, StartInv
<1>17. LeaksOnlyWhenOverlapped'
  BY <1>1, <1>2, <1>3, <1>4, <1>5, Shapes DEF LeaksOnlyWhenOverlapped, OverlapInv
<1>b. BoundInv'
  BY <1>1, <1>2, <1>3, <1>4, <1>5, Shapes DEF BoundInv, Amqp, WorkerInv, StartInv
<1>18. QED
  BY <1>6, <1>7, <1>8, <1>9, <1>10, <1>11, <1>12, <1>13, <1>14, <1>15, <1>16, <1>17,
     <1>b DEF PluginsInv

\* The plugin's channel is closed.
LEMMA ReinitCloseKeeps ==
  ASSUME PluginsInv, NEW u \in Workers, ReinitClose(u)
  PROVE  PluginsInv'
<1>1. /\ TypeOK /\ StartInv /\ WorkerInv /\ OwnChannelInv /\ OverlapInv /\ ReasonInv
      /\ BoundInv /\ QuietInv /\ QueueInv /\ OnceInOrder /\ LostOnlyWithReason
      /\ DroppedOnlyWithReason /\ LeaksOnlyWhenOverlapped
  BY Parts
<1>2. /\ \A v \in Workers : v # u => w'[v] = w[v]
      /\ w'[u].pc = "open" /\ w'[u].n = w[u].n /\ w'[u].plugin = w[u].plugin
      /\ w'[u].ch = w[u].ch
      /\ w' \in [Workers -> WorkerType]
  BY <1>1, GotoFacts DEF ReinitClose, Pcs
<1>3. /\ UNCHANGED <<mainPc, todo, plugins, conn, connOpen, channels, hit, queueVars, ghostVars>>
      /\ w[u].pc = "reinit" /\ ~Ended
      /\ open' = open \ {plugins[w[u].plugin]}
  BY DEF ReinitClose, At
<1>4. /\ UNCHANGED <<Channels, Amqp, refused>>
      /\ UNCHANGED <<exchange, bound, queue, dropped, lost, overlapped, left, shut>>
  BY <1>3 DEF Channels, Amqp, queueVars, ghostVars
<1>5. w[u].plugin \in Amqp /\ w[u].plugin \in Parsers
  BY <1>1, <1>3, Shapes DEF WorkerInv
<1>6. TypeOK'
  BY <1>1, <1>2, <1>3, <1>4, <1>5 DEF TypeOK, WorkerType
<1>7. StartInv'
  BY <1>1, <1>2, <1>3, <1>4, <1>5, Shapes DEF StartInv, Amqp
<1>8. WorkerInv'
  BY <1>1, <1>2, <1>3, <1>4, <1>5, Shapes DEF WorkerInv, Amqp
<1>9. OwnChannelInv'
  BY <1>1, <1>2, <1>3, <1>4, <1>5, Shapes DEF OwnChannelInv, Amqp, WorkerInv
<1>10. OverlapInv'
  BY <1>1, <1>2, <1>3, <1>4, <1>5, Shapes
     DEF OverlapInv, Reinits, OwnChannelInv, WorkerInv, Amqp
<1>11. ReasonInv'
  BY <1>1, <1>2, <1>3, <1>4, <1>5, Shapes
     DEF ReasonInv, Reason, OverlapInv, Reinits, OwnChannelInv, WorkerInv
<1>12. QuietInv'
  BY <1>1, <1>2, <1>3, <1>4, <1>5, Shapes DEF QuietInv, Channels
<1>13. QueueInv'
  BY <1>1, <1>2, <1>3, <1>4, <1>5, QueueStays
<1>14. OnceInOrder'
  BY <1>1, <1>2, <1>3, <1>4, <1>5, Shapes DEF OnceInOrder, QueueInv
<1>15. LostOnlyWithReason'
  BY <1>1, <1>2, <1>3, <1>4, <1>5, Shapes DEF LostOnlyWithReason, ReasonInv, Reason
<1>16. DroppedOnlyWithReason'
  BY <1>1, <1>2, <1>3, <1>4, <1>5, Shapes DEF DroppedOnlyWithReason, StartInv
<1>17. LeaksOnlyWhenOverlapped'
  BY <1>1, <1>2, <1>3, <1>4, <1>5, Shapes DEF LeaksOnlyWhenOverlapped, OverlapInv
<1>b. BoundInv'
  BY <1>1, <1>2, <1>3, <1>4, <1>5, Shapes DEF BoundInv, Amqp, WorkerInv, StartInv
<1>18. QED
  BY <1>6, <1>7, <1>8, <1>9, <1>10, <1>11, <1>12, <1>13, <1>14, <1>15, <1>16, <1>17,
     <1>b DEF PluginsInv

\* Steps of main that leave plugins and workers alone, and those that end the
\* process.
LEMMA MainKeeps ==
  ASSUME PluginsInv, UNCHANGED <<plugins, brokerVars, w, ghostVars>>, todo' \subseteq todo,
         mainPc' \in {"init", "run", "closing", "hangup", "exit"} \cup Deaths,
         mainPc' = "init" => mainPc = "init",
         mainPc' \in {"race", "nochannel"} =>
           mainPc' = mainPc \/ ~connOpen \/ \E u \in Workers : w[u].pc = "store"
  PROVE  PluginsInv'
<1>1. /\ TypeOK /\ StartInv /\ WorkerInv /\ OwnChannelInv /\ OverlapInv /\ ReasonInv
      /\ BoundInv /\ QuietInv /\ QueueInv /\ OnceInOrder /\ LostOnlyWithReason
      /\ DroppedOnlyWithReason /\ LeaksOnlyWhenOverlapped
  BY Parts
<1>2. /\ UNCHANGED <<Channels, Amqp, plugins, conn, connOpen, channels, open, hit, refused, w>>
      /\ UNCHANGED <<exchange, bound, queue, dropped, lost, overlapped, left, shut>>
  BY DEF Channels, Amqp, brokerVars, channelVars, queueVars, ghostVars
<1>3. TypeOK'
  BY <1>1, <1>2, Shapes DEF TypeOK, Channels
<1>4. StartInv'
  BY <1>1, <1>2, Shapes DEF StartInv, Amqp
<1>5. WorkerInv'
  BY <1>1, <1>2, Shapes DEF WorkerInv, Amqp
<1>6. OwnChannelInv'
  BY <1>1, <1>2, Shapes DEF OwnChannelInv, Amqp, WorkerInv
<1>7. OverlapInv'
  BY <1>1, <1>2, Shapes DEF OverlapInv, Reinits, OwnChannelInv, WorkerInv, Amqp
<1>8. ReasonInv'
  BY <1>1, <1>2, Shapes DEF ReasonInv, Reason, OverlapInv, Reinits, OwnChannelInv, WorkerInv
<1>9. QuietInv'
  BY <1>1, <1>2, Shapes DEF QuietInv, Channels
<1>10. QueueInv'
  BY <1>1, <1>2, Shapes, QueueShapes DEF QueueInv
<1>11. OnceInOrder'
  BY <1>1, <1>2, Shapes DEF OnceInOrder, QueueInv
<1>12. LostOnlyWithReason'
  BY <1>1, <1>2, Shapes DEF LostOnlyWithReason, ReasonInv, Reason
<1>13. DroppedOnlyWithReason'
  BY <1>1, <1>2, Shapes DEF DroppedOnlyWithReason, StartInv
<1>14. LeaksOnlyWhenOverlapped'
  BY <1>1, <1>2, Shapes DEF LeaksOnlyWhenOverlapped, OverlapInv
<1>b. BoundInv'
  BY <1>1, <1>2, Shapes DEF BoundInv, Amqp, WorkerInv, StartInv
<1>15. QED
  BY <1>3, <1>4, <1>5, <1>6, <1>7, <1>8, <1>9, <1>10, <1>11, <1>12, <1>13, <1>14,
     <1>b DEF PluginsInv

\* A plugin joins, or is a plain socket.
LEMMA InitJoinKeeps ==
  ASSUME PluginsInv, NEW p \in Parsers, InitJoin(p) \/ InitNet(p)
  PROVE  PluginsInv'
<1>1. /\ TypeOK /\ StartInv /\ WorkerInv /\ OwnChannelInv /\ OverlapInv /\ ReasonInv
      /\ BoundInv /\ QuietInv /\ QueueInv /\ OnceInOrder /\ LostOnlyWithReason
      /\ DroppedOnlyWithReason /\ LeaksOnlyWhenOverlapped
  BY Parts
<1>2. PICK x \in {0, 1} :
             /\ plugins' = [q \in DOMAIN plugins \cup {p} |-> IF q = p THEN x ELSE plugins[q]]
             /\ p \in NetParsers <=> x = 0
             /\ x = 1 => conn # "none"
  BY DEF InitJoin, InitNet, Visit, Put
<1>3. /\ UNCHANGED <<mainPc, conn, connOpen, channels, open, hit, refused, w>>
      /\ UNCHANGED <<exchange, bound, queue, dropped, lost, overlapped, left, shut>>
      /\ mainPc = "init" /\ todo' \subseteq todo
  BY DEF InitJoin, InitNet, Visit, brokerVars, channelVars, queueVars, ghostVars
<1>4. /\ UNCHANGED Channels /\ x \in {0} \cup Channels
  <2>1. UNCHANGED Channels
    BY <1>3 DEF Channels
  <2>2. CASE x = 0
    BY <2>1, <2>2
  <2>3. CASE x = 1
    <3>1. conn # "none"
      BY <1>2, <2>3
    <3>2. channels # 0 /\ channels \in Nat
      BY <1>1, <3>1 DEF StartInv, TypeOK
    <3>3. 1 \in Channels
      BY <3>2 DEF Channels
    <3>4. QED
      BY <2>1, <2>3, <3>3
  <2>4. QED
    BY <2>2, <2>3
<1>5. /\ DOMAIN plugins' = DOMAIN plugins \cup {p} /\ plugins'[p] = x
      /\ \A q \in DOMAIN plugins : q # p => plugins'[q] = plugins[q]
      /\ plugins' \in [DOMAIN plugins' -> {0} \cup Channels']
  <2>1. plugins' = [q \in DOMAIN plugins \cup {p} |-> IF q = p THEN x ELSE plugins[q]]
    BY <1>2 DEF Put
  <2>2. /\ DOMAIN plugins' = DOMAIN plugins \cup {p} /\ plugins'[p] = x
        /\ \A q \in DOMAIN plugins : q # p => plugins'[q] = plugins[q]
    BY <2>1
  <2>3. plugins \in [DOMAIN plugins -> {0} \cup Channels] /\ x \in {0} \cup Channels'
    BY <1>1, <1>4 DEF TypeOK
  <2>4. \A q \in DOMAIN plugins \cup {p} :
          (IF q = p THEN x ELSE plugins[q]) \in {0} \cup Channels'
    BY <1>1, <1>4, <2>3
  <2>5. plugins' \in [DOMAIN plugins \cup {p} -> {0} \cup Channels']
    BY <2>1, <2>4
  <2>6. QED
    BY <2>2, <2>5
<1>6. \A u \in Workers : w[u].pc = "idle" /\ w[u].n = 0 /\ w'[u] = w[u]
  BY <1>1, <1>3 DEF StartInv
<1>7. /\ Amqp' = IF x = 0 THEN Amqp \ {p} ELSE Amqp \cup {p}
      /\ \A q \in Amqp' : plugins'[q] = 1
  <2>1. /\ DOMAIN plugins' = DOMAIN plugins \cup {p}
        /\ p \in NetParsers <=> x = 0
    BY <1>2, <1>5
  <2>2. Amqp' = IF x = 0 THEN Amqp \ {p} ELSE Amqp \cup {p}
    BY <2>1 DEF Amqp
  <2>3. \A q \in Amqp : plugins[q] = 1 /\ q \in DOMAIN plugins
    BY <1>1, <1>3 DEF StartInv, Amqp
  <2>4. QED
    BY <2>2, <2>3, <1>2, <1>5
<1>8. \A q \in DOMAIN plugins : plugins'[q] = plugins[q]
  BY <1>1, <1>2, <1>3, <1>5 DEF TypeOK, StartInv, Amqp
<1>9. TypeOK'
  BY <1>1, <1>2, <1>3, <1>4, <1>5, <1>6, <1>7, <1>8, Shapes DEF TypeOK, Channels
<1>10. StartInv'
  BY <1>1, <1>2, <1>3, <1>4, <1>5, <1>6, <1>7, <1>8, Shapes DEF StartInv, Amqp
<1>11. WorkerInv'
  BY <1>1, <1>2, <1>3, <1>4, <1>5, <1>6, <1>7, <1>8, Shapes DEF WorkerInv, Amqp
<1>12. OwnChannelInv'
  BY <1>1, <1>2, <1>3, <1>4, <1>5, <1>6, <1>7, <1>8, Shapes DEF OwnChannelInv, Amqp, WorkerInv
<1>13. OverlapInv'
  BY <1>1, <1>2, <1>3, <1>4, <1>5, <1>6, <1>7, <1>8, Shapes
     DEF OverlapInv, Reinits, OwnChannelInv, WorkerInv, Amqp
<1>14. ReasonInv'
  BY <1>1, <1>2, <1>3, <1>4, <1>5, <1>6, <1>7, <1>8, Shapes
     DEF ReasonInv, Reason, OverlapInv, Reinits, OwnChannelInv, WorkerInv
<1>15. QuietInv'
  BY <1>1, <1>2, <1>3, <1>4, <1>5, <1>6, <1>7, <1>8, Shapes DEF QuietInv, Channels
<1>16. QueueInv'
  BY <1>1, <1>2, <1>3, <1>4, <1>5, <1>6, <1>7, <1>8, Shapes, QueueShapes DEF QueueInv
<1>17. OnceInOrder'
  BY <1>1, <1>2, <1>3, <1>4, <1>5, <1>6, <1>7, <1>8, Shapes DEF OnceInOrder, QueueInv
<1>18. LostOnlyWithReason'
  BY <1>1, <1>2, <1>3, <1>4, <1>5, <1>6, <1>7, <1>8, Shapes
     DEF LostOnlyWithReason, ReasonInv, Reason
<1>19. DroppedOnlyWithReason'
  BY <1>1, <1>2, <1>3, <1>4, <1>5, <1>6, <1>7, <1>8, Shapes DEF DroppedOnlyWithReason, StartInv
<1>20. LeaksOnlyWhenOverlapped'
  BY <1>1, <1>2, <1>3, <1>4, <1>5, <1>6, <1>7, <1>8, Shapes
     DEF LeaksOnlyWhenOverlapped, OverlapInv
<1>b. BoundInv'
  BY <1>1, <1>2, <1>3, <1>4, <1>5, <1>6, <1>7, <1>8, Shapes
     DEF BoundInv, Amqp, WorkerInv, StartInv
<1>21. QED
  BY <1>9, <1>10, <1>11, <1>12, <1>13, <1>14, <1>15, <1>16, <1>17, <1>18, <1>19, <1>20,
     <1>b DEF PluginsInv

\* The first plugin is set up.
LEMMA InitDialKeeps ==
  ASSUME PluginsInv, NEW p \in Parsers, InitDial(p)
  PROVE  PluginsInv'
<1>1. /\ TypeOK /\ StartInv /\ WorkerInv /\ OwnChannelInv /\ OverlapInv /\ ReasonInv
      /\ BoundInv /\ QuietInv /\ QueueInv /\ OnceInOrder /\ LostOnlyWithReason
      /\ DroppedOnlyWithReason /\ LeaksOnlyWhenOverlapped
  BY Parts
<1>2. /\ conn = "none" /\ channels = 0 /\ Amqp = {} /\ DOMAIN queue = {} /\ open = {}
      /\ bound = {} /\ left = {} /\ shut = {}
      /\ mainPc = "init" /\ todo' \subseteq todo /\ p \notin NetParsers /\ p # "none"
  <2>1. conn = "none" /\ mainPc = "init" /\ todo' \subseteq todo /\ p \notin NetParsers
    BY DEF InitDial, Visit
  <2>2. /\ channels = 0 /\ open \subseteq Channels /\ Amqp = {} /\ DOMAIN queue = {}
        /\ bound \subseteq DOMAIN queue /\ left \subseteq DOMAIN queue /\ shut \subseteq Channels
    BY <1>1, <2>1 DEF StartInv, TypeOK
  <2>3. QED
    BY <2>1, <2>2 DEF Channels
<1>3. /\ conn' = p /\ connOpen' = TRUE /\ channels' = 1
      /\ open' = IF p \in refused THEN {} ELSE {1}
      /\ UNCHANGED <<mainPc, refused, hit, w, ghostVars>>
      /\ plugins' = [q \in DOMAIN plugins \cup {p} |-> IF q = p THEN 1 ELSE plugins[q]]
      /\ exchange' = TRUE /\ bound' = {p} \ refused
      /\ p \in refused => queue' = queue
      /\ p \notin refused => queue' = [q \in {p} |-> <<>>]
  BY <1>2 DEF InitDial, Declare, Put
<1>4. /\ Channels' = {1} /\ Channels = {} /\ hit = {}
      /\ UNCHANGED <<dropped, lost, overlapped, left, shut>>
  BY <1>1, <1>2, <1>3 DEF Channels, ghostVars, TypeOK
<1>5. /\ DOMAIN plugins' = DOMAIN plugins \cup {p} /\ plugins'[p] = 1
      /\ \A q \in DOMAIN plugins : q # p => plugins'[q] = plugins[q]
      /\ plugins' \in [DOMAIN plugins' -> {0} \cup Channels']
  <2>1. plugins' = [q \in DOMAIN plugins \cup {p} |-> IF q = p THEN 1 ELSE plugins[q]]
    BY <1>3 DEF Put
  <2>2. /\ DOMAIN plugins' = DOMAIN plugins \cup {p} /\ plugins'[p] = 1
        /\ \A q \in DOMAIN plugins : q # p => plugins'[q] = plugins[q]
    BY <2>1
  <2>3. plugins \in [DOMAIN plugins -> {0} \cup Channels] /\ 1 \in {0} \cup Channels'
    BY <1>1, <1>4 DEF TypeOK
  <2>4. \A q \in DOMAIN plugins \cup {p} :
          (IF q = p THEN 1 ELSE plugins[q]) \in {0} \cup Channels'
    BY <1>1, <1>4, <2>3
  <2>5. plugins' \in [DOMAIN plugins \cup {p} -> {0} \cup Channels']
    BY <2>1, <2>4
  <2>6. QED
    BY <2>2, <2>5
<1>6. /\ DOMAIN queue' = {p} \ refused
      /\ \A q \in DOMAIN queue' : queue'[q] = <<>>
      /\ queue' \in [DOMAIN queue' -> Seq(Reply)]
  <2>1. CASE p \in refused
    BY <1>1, <1>2, <1>3, <2>1 DEF TypeOK
  <2>2. CASE p \notin refused
    <3>1. queue' = [q \in {p} |-> <<>>] /\ refused' = refused
      BY <1>3, <2>2
    <3>2. DOMAIN queue' = {p} /\ \A q \in DOMAIN queue' : queue'[q] = <<>>
      BY <3>1
    <3>3. queue' \in [{p} -> Seq(Reply)]
      BY <3>1
    <3>4. QED
      BY <2>2, <3>1, <3>2, <3>3
  <2>3. QED
    BY <2>1, <2>2
<1>7. \A u \in Workers : w[u].pc = "idle" /\ w'[u] = w[u]
  BY <1>1, <1>2, <1>3 DEF StartInv
<1>8. Amqp' = {p}
  BY <1>2, <1>5 DEF Amqp
<1>9. TypeOK'
  BY <1>1, <1>2, <1>3, <1>4, <1>5, <1>6, <1>7, <1>8, Shapes DEF TypeOK, Channels
<1>10. StartInv'
  BY <1>1, <1>2, <1>3, <1>4, <1>5, <1>6, <1>7, <1>8, Shapes DEF StartInv, Amqp
<1>11. WorkerInv'
  BY <1>1, <1>2, <1>3, <1>4, <1>5, <1>6, <1>7, <1>8, Shapes DEF WorkerInv, Amqp
<1>12. OwnChannelInv'
  BY <1>1, <1>2, <1>3, <1>4, <1>5, <1>6, <1>7, <1>8, Shapes DEF OwnChannelInv, Amqp, WorkerInv
<1>13. OverlapInv'
  BY <1>1, <1>2, <1>3, <1>4, <1>5, <1>6, <1>7, <1>8, Shapes
     DEF OverlapInv, Reinits, OwnChannelInv, WorkerInv, Amqp
<1>14. ReasonInv'
  BY <1>1, <1>2, <1>3, <1>4, <1>5, <1>6, <1>7, <1>8, Shapes
     DEF ReasonInv, Reason, OverlapInv, Reinits, OwnChannelInv, WorkerInv
<1>15. QuietInv'
  BY <1>1, <1>2, <1>3, <1>4, <1>5, <1>6, <1>7, <1>8, Shapes DEF QuietInv, Channels
<1>16. QueueInv'
  BY <1>1, <1>2, <1>3, <1>4, <1>5, <1>6, <1>7, <1>8, Shapes, QueueShapes DEF QueueInv
<1>17. OnceInOrder'
  BY <1>1, <1>2, <1>3, <1>4, <1>5, <1>6, <1>7, <1>8, Shapes DEF OnceInOrder, QueueInv
<1>18. LostOnlyWithReason'
  BY <1>1, <1>2, <1>4 DEF StartInv, LostOnlyWithReason
<1>19. DroppedOnlyWithReason'
  BY <1>1, <1>2, <1>3, <1>4, <1>5, <1>6, <1>7, <1>8, Shapes DEF DroppedOnlyWithReason, StartInv
<1>20. LeaksOnlyWhenOverlapped'
  BY <1>1, <1>2, <1>3, <1>4, <1>5, <1>6, <1>7, <1>8, Shapes
     DEF LeaksOnlyWhenOverlapped, OverlapInv
<1>b. BoundInv'
  BY <1>1, <1>2, <1>3, <1>4, <1>5, <1>6, <1>7, <1>8, Shapes
     DEF BoundInv, Amqp, WorkerInv, StartInv
<1>21. QED
  BY <1>9, <1>10, <1>11, <1>12, <1>13, <1>14, <1>15, <1>16, <1>17, <1>18, <1>19, <1>20,
     <1>b DEF PluginsInv

\* The new channel replaces the old one in the map.
LEMMA StoreKeeps ==
  ASSUME PluginsInv, NEW u \in Workers, Store(u)
  PROVE  PluginsInv'
<1>1. /\ TypeOK /\ StartInv /\ WorkerInv /\ OwnChannelInv /\ OverlapInv /\ ReasonInv
      /\ BoundInv /\ QuietInv /\ QueueInv /\ OnceInOrder /\ LostOnlyWithReason
      /\ DroppedOnlyWithReason /\ LeaksOnlyWhenOverlapped
  BY Parts
<1>2. /\ UNCHANGED <<mainPc, todo, brokerVars, ghostVars>>
      /\ w[u].pc = "store" /\ ~Ended
      /\ plugins' = [plugins EXCEPT ![w[u].plugin] = w[u].ch]
      /\ w' = [w EXCEPT ![u].pc = "again", ![u].ch = 0]
  BY DEF Store, At
<1>3. /\ UNCHANGED <<Channels, conn, connOpen, channels, open, hit, refused>>
      /\ UNCHANGED <<exchange, bound, queue, dropped, lost, overlapped, left, shut>>
  BY <1>2 DEF Channels, brokerVars, channelVars, queueVars, ghostVars
<1>4. /\ w[u].plugin \in Amqp /\ w[u].plugin \in Parsers /\ w[u].ch \in Channels /\ w[u].ch # 0
      /\ mainPc # "init"
  BY <1>1, <1>2, Shapes DEF WorkerInv, StartInv
<1>5. /\ \A v \in Workers : v # u => w'[v] = w[v]
      /\ w'[u].pc = "again" /\ w'[u].n = w[u].n /\ w'[u].plugin = w[u].plugin
      /\ w'[u].ch = 0
      /\ w' \in [Workers -> WorkerType]
  <2>1. w \in [Workers -> WorkerType]
    BY <1>1, Shapes
  <2>2. w[u] \in WorkerType
    BY <2>1
  <2> DEFINE r == [w[u] EXCEPT !.pc = "again", !.ch = 0]
  <2>3. w' = [w EXCEPT ![u] = r]
    BY <1>2, <2>1
  <2>4. /\ r.pc = "again" /\ r.n = w[u].n /\ r.plugin = w[u].plugin /\ r.ch = 0
        /\ r \in WorkerType
    BY <2>2 DEF WorkerType, Pcs
  <2> HIDE DEF r
  <2>5. QED
    BY <2>1, <2>3, <2>4
<1>6. /\ DOMAIN plugins' = DOMAIN plugins /\ plugins'[w[u].plugin] = w[u].ch
      /\ \A q \in DOMAIN plugins : q # w[u].plugin => plugins'[q] = plugins[q]
      /\ plugins' \in [DOMAIN plugins -> {0} \cup Channels]
      /\ Amqp' = Amqp
  <2>1. plugins \in [DOMAIN plugins -> {0} \cup Channels] /\ w[u].plugin \in DOMAIN plugins
    BY <1>1, <1>4 DEF TypeOK, Amqp
  <2>2. /\ DOMAIN plugins' = DOMAIN plugins /\ plugins'[w[u].plugin] = w[u].ch
        /\ \A q \in DOMAIN plugins : q # w[u].plugin => plugins'[q] = plugins[q]
        /\ plugins' \in [DOMAIN plugins -> {0} \cup Channels]
    BY <1>2, <1>4, <2>1
  <2>3. QED
    BY <2>2 DEF Amqp
<1>7. TypeOK'
  BY <1>1, <1>2, <1>3, <1>4, <1>5, <1>6 DEF TypeOK, WorkerType
<1>8. StartInv'
  BY <1>1, <1>2, <1>3, <1>4, <1>5, <1>6, Shapes DEF StartInv, Amqp
<1>9. WorkerInv'
  BY <1>1, <1>2, <1>3, <1>4, <1>5, <1>6, Shapes DEF WorkerInv, Amqp
<1>10. OwnChannelInv'
  BY <1>1, <1>2, <1>3, <1>4, <1>5, <1>6, Shapes DEF OwnChannelInv, Amqp, WorkerInv
<1>11. OverlapInv'
  BY <1>1, <1>2, <1>3, <1>4, <1>5, <1>6, Shapes
     DEF OverlapInv, Reinits, OwnChannelInv, WorkerInv, Amqp
<1>12. ReasonInv'
  BY <1>1, <1>2, <1>3, <1>4, <1>5, <1>6, Shapes
     DEF ReasonInv, Reason, OverlapInv, Reinits, OwnChannelInv, WorkerInv
<1>13. QuietInv'
  BY <1>1, <1>2, <1>3, <1>4, <1>5, <1>6, Shapes DEF QuietInv, Channels
<1>14. QueueInv'
  BY <1>1, <1>2, <1>3, <1>4, <1>5, <1>6, QueueStays
<1>15. OnceInOrder'
  BY <1>1, <1>2, <1>3, <1>4, <1>5, <1>6, Shapes DEF OnceInOrder, QueueInv
<1>16. LostOnlyWithReason'
  BY <1>1, <1>2, <1>3, <1>4, <1>5, <1>6, Shapes DEF LostOnlyWithReason, ReasonInv, Reason
<1>17. DroppedOnlyWithReason'
  BY <1>1, <1>2, <1>3, <1>4, <1>5, <1>6, Shapes DEF DroppedOnlyWithReason, StartInv
<1>18. LeaksOnlyWhenOverlapped'
  BY <1>1, <1>2, <1>3, <1>4, <1>5, <1>6, Shapes DEF LeaksOnlyWhenOverlapped, OverlapInv
<1>b. BoundInv'
  BY <1>1, <1>2, <1>3, <1>4, <1>5, <1>6, Shapes DEF BoundInv, Amqp, WorkerInv, StartInv
<1>19. QED
  BY <1>7, <1>8, <1>9, <1>10, <1>11, <1>12, <1>13, <1>14, <1>15, <1>16, <1>17, <1>18,
     <1>b DEF PluginsInv

\* The second attempt meets a closed channel.
LEMMA PublishAgainFailsKeeps ==
  ASSUME PluginsInv, NEW u \in Workers, PublishAgain(u),
         plugins[w[u].plugin] \notin open
  PROVE  PluginsInv'
<1>1. /\ TypeOK /\ StartInv /\ WorkerInv /\ OwnChannelInv /\ OverlapInv /\ ReasonInv
      /\ BoundInv /\ QuietInv /\ QueueInv /\ OnceInOrder /\ LostOnlyWithReason
      /\ DroppedOnlyWithReason /\ LeaksOnlyWhenOverlapped
  BY Parts
<1>2. /\ \A v \in Workers : v # u => w'[v] = w[v]
      /\ w'[u].pc = "idle" /\ w'[u].n = w[u].n /\ w'[u].plugin = "none"
      /\ w'[u].ch = w[u].ch
      /\ w' \in [Workers -> WorkerType]
  BY <1>1, RestFacts DEF PublishAgain
<1>3. /\ UNCHANGED <<mainPc, todo, plugins, brokerVars, dropped, overlapped, left, shut>>
      /\ w[u].pc = "again" /\ ~Ended
      /\ lost' = lost \cup {[plugin |-> w[u].plugin, ch |-> plugins[w[u].plugin]]}
  BY DEF PublishAgain, Accepted, At
<1>4. /\ UNCHANGED <<Channels, Amqp, conn, connOpen, channels, open, hit, refused>>
      /\ UNCHANGED <<exchange, bound, queue>>
  BY <1>3 DEF Channels, Amqp, brokerVars, channelVars, queueVars
<1>5. /\ w[u].plugin \in Amqp /\ w[u].plugin \in Parsers /\ plugins[w[u].plugin] \in Channels
      /\ mainPc # "init"
  BY <1>1, <1>3, Shapes DEF WorkerInv, StartInv
<1>6. lost' \subseteq [plugin : Parsers, ch : Channels]
  <2>1. lost \subseteq [plugin : Parsers, ch : Channels]
    BY <1>1 DEF TypeOK
  <2>2. QED
    BY <1>3, <1>5, <2>1
<1>7. TypeOK'
  BY <1>1, <1>2, <1>3, <1>4, <1>5, <1>6 DEF TypeOK, WorkerType
<1>8. StartInv'
  BY <1>1, <1>2, <1>3, <1>4, <1>5, <1>6, Shapes DEF StartInv, Amqp
<1>9. WorkerInv'
  BY <1>1, <1>2, <1>3, <1>4, <1>5, <1>6, Shapes DEF WorkerInv, Amqp
<1>10. OwnChannelInv'
  BY <1>1, <1>2, <1>3, <1>4, <1>5, <1>6, Shapes DEF OwnChannelInv, Amqp, WorkerInv
<1>11. OverlapInv'
  BY <1>1, <1>2, <1>3, <1>4, <1>5, <1>6, Shapes
     DEF OverlapInv, Reinits, OwnChannelInv, WorkerInv, Amqp
<1>12. ReasonInv'
  BY <1>1, <1>2, <1>3, <1>4, <1>5, <1>6, Shapes
     DEF ReasonInv, Reason, OverlapInv, Reinits, OwnChannelInv, WorkerInv
<1>13. QuietInv'
  BY <1>1, <1>2, <1>3, <1>4, <1>5, <1>6, Shapes DEF QuietInv, Channels
<1>14. QueueInv'
  BY <1>1, <1>2, <1>3, <1>4, <1>5, <1>6, QueueStays
<1>15. OnceInOrder'
  BY <1>1, <1>2, <1>3, <1>4, <1>5, <1>6, Shapes DEF OnceInOrder, QueueInv
<1>16. LostOnlyWithReason'
  BY <1>1, <1>2, <1>3, <1>4, <1>5, <1>6, Shapes DEF LostOnlyWithReason, ReasonInv, Reason
<1>17. DroppedOnlyWithReason'
  BY <1>1, <1>2, <1>3, <1>4, <1>5, <1>6, Shapes DEF DroppedOnlyWithReason, StartInv
<1>18. LeaksOnlyWhenOverlapped'
  BY <1>1, <1>2, <1>3, <1>4, <1>5, <1>6, Shapes DEF LeaksOnlyWhenOverlapped, OverlapInv
<1>b. BoundInv'
  BY <1>1, <1>2, <1>3, <1>4, <1>5, <1>6, Shapes DEF BoundInv, Amqp, WorkerInv, StartInv
<1>19. QED
  BY <1>7, <1>8, <1>9, <1>10, <1>11, <1>12, <1>13, <1>14, <1>15, <1>16, <1>17, <1>18,
     <1>b DEF PluginsInv

\* A new channel for the plugin, its queue declared.
LEMMA ReinitOpenKeeps ==
  ASSUME PluginsInv, NEW u \in Workers, ReinitOpen(u), connOpen
  PROVE  PluginsInv'
<1>1. /\ TypeOK /\ StartInv /\ WorkerInv /\ OwnChannelInv /\ OverlapInv /\ ReasonInv
      /\ BoundInv /\ QuietInv /\ QueueInv /\ OnceInOrder /\ LostOnlyWithReason
      /\ DroppedOnlyWithReason /\ LeaksOnlyWhenOverlapped
  BY Parts
<1>2. /\ UNCHANGED <<mainPc, todo, plugins, conn, connOpen, refused, hit, ghostVars>>
      /\ w[u].pc = "open" /\ ~Ended
      /\ channels' = channels + 1
      /\ open' = IF w[u].plugin \in refused THEN open ELSE open \cup {channels + 1}
      /\ exchange' = TRUE
      /\ bound' = IF w[u].plugin \in refused THEN bound ELSE bound \cup {w[u].plugin}
      /\ w' = [w EXCEPT ![u].pc = "store", ![u].ch = channels + 1]
  BY DEF ReinitOpen, At, Declare
<1>3. /\ w[u].plugin \in Amqp /\ w[u].plugin \in Parsers /\ mainPc # "init"
      /\ conn # "none" /\ channels # 0
  BY <1>1, <1>2, Shapes DEF WorkerInv, StartInv
<1>4. /\ UNCHANGED <<Amqp, dropped, lost, overlapped, left, shut>> /\ channels \in Nat
      /\ Channels' = Channels \cup {channels + 1} /\ channels + 1 \notin Channels
      /\ channels + 1 # 1 /\ channels + 1 # 0
  BY <1>1, <1>2, <1>3 DEF Channels, Amqp, ghostVars, TypeOK
<1>5. /\ \A v \in Workers : v # u => w'[v] = w[v]
      /\ w'[u].pc = "store" /\ w'[u].n = w[u].n /\ w'[u].plugin = w[u].plugin
      /\ w'[u].ch = channels + 1
      /\ w' \in [Workers -> [pc : Pcs, n : Nat, plugin : Parsers \cup {"none"},
                             ch : {0} \cup Channels']]
  <2>1. w \in [Workers -> WorkerType]
    BY <1>1, Shapes
  <2>2. w \in [Workers -> [pc : Pcs, n : Nat, plugin : Parsers \cup {"none"},
                           ch : {0} \cup Channels']]
    BY <1>4, <2>1 DEF WorkerType
  <2>3. channels + 1 \in {0} \cup Channels' /\ "store" \in Pcs
    BY <1>4 DEF Pcs
  <2> DEFINE r == [w[u] EXCEPT !.pc = "store", !.ch = channels + 1]
  <2>4. w' = [w EXCEPT ![u] = r]
    BY <1>2, <2>1
  <2>5. /\ r.pc = "store" /\ r.n = w[u].n /\ r.plugin = w[u].plugin
        /\ r.ch = channels + 1
        /\ r \in [pc : Pcs, n : Nat, plugin : Parsers \cup {"none"}, ch : {0} \cup Channels']
    BY <2>2, <2>3
  <2> HIDE DEF r
  <2>6. QED
    BY <2>2, <2>4, <2>5
<1>6. /\ DOMAIN queue' = DOMAIN queue \cup ({w[u].plugin} \ refused)
      /\ \A q \in DOMAIN queue : queue'[q] = queue[q]
      /\ \A q \in DOMAIN queue' \ DOMAIN queue : queue'[q] = <<>>
      /\ queue' \in [DOMAIN queue' -> Seq(Reply)]
  <2>1. queue \in [DOMAIN queue -> Seq(Reply)] /\ DOMAIN queue \cap refused = {}
    BY <1>1 DEF TypeOK
  <2>2. CASE w[u].plugin \in refused \cup DOMAIN queue
    <3>1. queue' = queue
      BY <2>2 DEF ReinitOpen, Declare
    <3>2. QED
      BY <2>1, <2>2, <3>1
  <2>3. CASE w[u].plugin \notin refused \cup DOMAIN queue
    <3>1. queue' = [q \in DOMAIN queue \cup {w[u].plugin} |->
                      IF q = w[u].plugin THEN <<>> ELSE queue[q]]
      BY <2>3 DEF ReinitOpen, Declare, Put
    <3>2. \A q \in DOMAIN queue \cup {w[u].plugin} :
            (IF q = w[u].plugin THEN <<>> ELSE queue[q]) \in Seq(Reply)
      BY <2>1
    <3>3. queue' \in [DOMAIN queue \cup {w[u].plugin} -> Seq(Reply)]
      BY <3>1, <3>2
    <3>4. QED
      BY <2>3, <3>1, <3>3
  <2>4. QED
    BY <2>2, <2>3
<1>7. TypeOK'
  BY <1>1, <1>2, <1>3, <1>4, <1>5, <1>6, Shapes DEF TypeOK, Channels
<1>8. StartInv'
  BY <1>1, <1>2, <1>3, <1>4, <1>5, <1>6, Shapes DEF StartInv, Amqp
<1>9. WorkerInv'
  BY <1>1, <1>2, <1>3, <1>4, <1>5, <1>6, Shapes DEF WorkerInv, Amqp
<1>10. OwnChannelInv'
  BY <1>1, <1>2, <1>3, <1>4, <1>5, <1>6, Shapes DEF OwnChannelInv, Amqp, WorkerInv
<1>11. OverlapInv'
  BY <1>1, <1>2, <1>3, <1>4, <1>5, <1>6, Shapes
     DEF OverlapInv, Reinits, OwnChannelInv, WorkerInv, Amqp
<1>12. ReasonInv'
  BY <1>1, <1>2, <1>3, <1>4, <1>5, <1>6, Shapes
     DEF ReasonInv, Reason, OverlapInv, Reinits, OwnChannelInv, WorkerInv
<1>13. QuietInv'
  BY <1>1, <1>2, <1>3, <1>4, <1>5, <1>6, Shapes DEF QuietInv, Channels
<1>14. QueueInv'
  <2>1. SUFFICES ASSUME NEW q \in DOMAIN queue', NEW i \in DOMAIN queue'[q]
                 PROVE  LET v == queue'[q][i][1] IN
                          /\ queue'[q][i][2] <= w'[v].n
                          /\ w'[v].pc # "idle" => queue'[q][i][2] < w'[v].n
    BY DEF QueueInv
  <2>2. q \in DOMAIN queue /\ queue'[q] = queue[q]
    BY <1>6, <2>1
  <2>3. queue[q][i][1] \in Workers
    BY <1>1, <2>1, <2>2, QueueShapes
  <2>4. CASE queue[q][i][1] = u
    BY <1>1, <1>2, <1>5, <2>1, <2>2, <2>4 DEF QueueInv
  <2>5. CASE queue[q][i][1] # u
    BY <1>1, <1>5, <2>1, <2>2, <2>3, <2>5 DEF QueueInv
  <2>6. QED
    BY <2>4, <2>5
<1>15. OnceInOrder'
  BY <1>1, <1>2, <1>3, <1>4, <1>5, <1>6, Shapes DEF OnceInOrder, QueueInv
<1>16. LostOnlyWithReason'
  BY <1>1, <1>2, <1>3, <1>4, <1>5, <1>6, Shapes DEF LostOnlyWithReason, ReasonInv, Reason
<1>17. DroppedOnlyWithReason'
  BY <1>1, <1>2, <1>3, <1>4, <1>5, <1>6, Shapes DEF DroppedOnlyWithReason, StartInv
<1>18. LeaksOnlyWhenOverlapped'
  BY <1>1, <1>2, <1>3, <1>4, <1>5, <1>6, Shapes DEF LeaksOnlyWhenOverlapped, OverlapInv
<1>b. BoundInv'
  <2>1. exchange' /\ DOMAIN queue' \subseteq bound' \cup left'
    BY <1>1, <1>2, <1>4, <1>6 DEF BoundInv
  <2>2. DOMAIN queue \subseteq DOMAIN queue' /\ open' \subseteq open \cup {channels + 1}
    BY <1>2, <1>6
  <2>3. ASSUME NEW p \in Amqp, plugins[p] # 1, plugins[p] \in open'
        PROVE  p \in DOMAIN queue'
    BY <1>1, <1>4, <2>2, <2>3, Shapes DEF BoundInv
  <2>4. ASSUME NEW v \in Workers, w'[v].pc = "store", w'[v].ch \in open'
        PROVE  w'[v].plugin \in DOMAIN queue'
    <3>1. CASE v = u
      <4>1. channels + 1 \notin open
        BY <1>1, <1>4 DEF TypeOK
      <4>2. w[u].plugin \notin refused
        BY <1>2, <1>5, <2>4, <3>1, <4>1
      <4>3. QED
        BY <1>5, <1>6, <3>1, <4>2
    <3>2. CASE v # u
      <4>1. w[v].ch \in {0} \cup Channels /\ w'[v] = w[v]
        BY <1>1, <1>5, <3>2, Shapes
      <4>2. w[v].ch \in open
        BY <1>4, <2>2, <2>4, <4>1
      <4>3. QED
        BY <1>1, <2>2, <2>4, <4>1, <4>2 DEF BoundInv
    <3>3. QED
      BY <3>1, <3>2
  <2>5. QED
    BY <1>2, <1>4, <2>1, <2>3, <2>4 DEF BoundInv
<1>19. QED
  BY <1>7, <1>8, <1>9, <1>10, <1>11, <1>12, <1>13, <1>14, <1>15, <1>16, <1>17, <1>18,
     <1>b DEF PluginsInv

\* An element of a queue that grew is an old one or the one appended.
LEMMA AppendAt ==
  ASSUME NEW S, NEW s \in Seq(S), NEW e \in S, NEW i \in DOMAIN Append(s, e)
  PROVE  \/ i \in DOMAIN s /\ Append(s, e)[i] = s[i]
         \/ /\ Append(s, e)[i] = e /\ i = Len(s) + 1
            /\ \A j \in DOMAIN s : j < i
OBVIOUS

\* A reply that reaches the queue of its plugin.
LEMMA AppendKeeps ==
  ASSUME PluginsInv, NEW u \in Workers, Accepted(u), Rest(u),
         w[u].pc \in {"publish", "again"}, w[u].plugin \in bound, plugins[w[u].plugin] \notin hit,
         UNCHANGED <<mainPc, todo, plugins>>, ~Ended
  PROVE  PluginsInv'
<1>1. /\ TypeOK /\ StartInv /\ WorkerInv /\ OwnChannelInv /\ OverlapInv /\ ReasonInv
      /\ BoundInv /\ QuietInv /\ QueueInv /\ OnceInOrder /\ LostOnlyWithReason
      /\ DroppedOnlyWithReason /\ LeaksOnlyWhenOverlapped
  BY Parts
<1>2. /\ \A v \in Workers : v # u => w'[v] = w[v]
      /\ w'[u].pc = "idle" /\ w'[u].n = w[u].n /\ w'[u].plugin = "none"
      /\ w'[u].ch = w[u].ch
      /\ w' \in [Workers -> WorkerType]
  BY <1>1, RestFacts
<1>3. /\ UNCHANGED <<Channels, Amqp, conn, connOpen, channels, open, refused, exchange, bound>>
      /\ UNCHANGED <<lost, overlapped, left, shut>>
  BY DEF Channels, Amqp, Accepted
<1>4. /\ w[u].plugin \in Amqp /\ w[u].plugin \in Parsers /\ plugins[w[u].plugin] \in open
      /\ mainPc # "init"
  BY <1>1, Shapes DEF WorkerInv, StartInv, Accepted
<1>5. Mine(u) = <<u, w[u].n>> /\ Mine(u) \in Reply
  <2>1. w[u].n \in Nat \ {0}
    BY <1>1, Shapes DEF WorkerInv
  <2>2. QED
    BY <2>1 DEF Mine, Reply
<1>6. /\ queue' = [queue EXCEPT ![w[u].plugin] = Append(@, Mine(u))]
      /\ UNCHANGED <<dropped, hit>> /\ w[u].plugin \in DOMAIN queue
  BY <1>1 DEF Accepted, BoundInv, TypeOK
<1>7. /\ DOMAIN queue' = DOMAIN queue /\ queue' \in [DOMAIN queue -> Seq(Reply)]
      /\ \A q \in DOMAIN queue : q # w[u].plugin => queue'[q] = queue[q]
      /\ queue'[w[u].plugin] = Append(queue[w[u].plugin], Mine(u))
  <2>1. queue \in [DOMAIN queue -> Seq(Reply)]
    BY <1>1 DEF TypeOK
  <2>2. Append(queue[w[u].plugin], Mine(u)) \in Seq(Reply)
    BY <1>5, <1>6, <2>1
  <2>3. QED
    BY <1>6, <2>1, <2>2
<1>a. UNCHANGED <<dropped, hit>> /\ DOMAIN queue' = DOMAIN queue
  BY <1>6, <1>7
<1>8. \A q \in DOMAIN queue : \A i \in DOMAIN queue'[q] :
        \/ i \in DOMAIN queue[q] /\ queue'[q][i] = queue[q][i]
        \/ /\ q = w[u].plugin /\ queue'[q][i] = <<u, w[u].n>>
           /\ i = Len(queue[q]) + 1 /\ \A j \in DOMAIN queue[q] : j < i
  <2>1. SUFFICES ASSUME NEW q \in DOMAIN queue, NEW i \in DOMAIN queue'[q]
                 PROVE  \/ i \in DOMAIN queue[q] /\ queue'[q][i] = queue[q][i]
                        \/ /\ q = w[u].plugin /\ queue'[q][i] = <<u, w[u].n>>
                           /\ i = Len(queue[q]) + 1 /\ \A j \in DOMAIN queue[q] : j < i
    OBVIOUS
  <2>2. queue[q] \in Seq(Reply)
    BY <1>1, QueueShapes
  <2>3. CASE q = w[u].plugin
    <3>1. queue'[q] = Append(queue[q], Mine(u)) /\ Mine(u) = <<u, w[u].n>>
      BY <1>5, <1>7, <2>3
    <3>2. QED
      BY <1>5, <2>2, <2>3, <3>1, AppendAt
  <2>4. CASE q # w[u].plugin
    BY <1>7, <2>4
  <2>5. QED
    BY <2>3, <2>4
<1>9. TypeOK'
  BY <1>1, <1>2, <1>3, <1>4, <1>5, <1>6, <1>7, <1>8 DEF TypeOK, WorkerType
<1>10. StartInv'
  BY <1>1, <1>2, <1>3, <1>4, <1>a, Shapes DEF StartInv, Amqp
<1>11. WorkerInv'
  BY <1>1, <1>2, <1>3, <1>4, <1>a, Shapes DEF WorkerInv, Amqp
<1>12. OwnChannelInv'
  BY <1>1, <1>2, <1>3, <1>4, <1>a, Shapes DEF OwnChannelInv
<1>13. OverlapInv'
  BY <1>1, <1>2, <1>3, <1>4, <1>a, Shapes DEF OverlapInv, Reinits
<1>14. ReasonInv'
  BY <1>1, <1>2, <1>3, <1>4, <1>a, Shapes
     DEF ReasonInv, Reason, OverlapInv, Reinits, OwnChannelInv, WorkerInv
<1>15. QuietInv'
  BY <1>1, <1>2, <1>3, <1>4, <1>a, Shapes DEF QuietInv, Channels
<1>16. QueueInv'
  <2>1. SUFFICES ASSUME NEW q \in DOMAIN queue, NEW i \in DOMAIN queue'[q]
                 PROVE  LET v == queue'[q][i][1] IN
                          /\ queue'[q][i][2] <= w'[v].n
                          /\ w'[v].pc # "idle" => queue'[q][i][2] < w'[v].n
    BY <1>7 DEF QueueInv
  <2>2. CASE queue'[q][i] = <<u, w[u].n>>
    BY <1>1, <1>2, <2>2, Shapes
  <2>3. CASE i \in DOMAIN queue[q] /\ queue'[q][i] = queue[q][i]
    <3>1. queue[q][i][1] \in Workers /\ queue[q][i][2] <= w[queue[q][i][1]].n
      BY <1>1, <2>3, QueueShapes DEF QueueInv
    <3>2. CASE queue[q][i][1] = u
      BY <1>2, <2>3, <3>1, <3>2
    <3>3. CASE queue[q][i][1] # u
      BY <1>1, <1>2, <2>3, <3>1, <3>3 DEF QueueInv
    <3>4. QED
      BY <3>2, <3>3
  <2>4. QED
    BY <1>8, <2>2, <2>3
<1>17. OnceInOrder'
  <2>1. SUFFICES ASSUME NEW q \in DOMAIN queue, NEW i \in DOMAIN queue'[q],
                        NEW j \in DOMAIN queue'[q], i < j, queue'[q][i][1] = queue'[q][j][1]
                 PROVE  queue'[q][i][2] < queue'[q][j][2]
    BY <1>7 DEF OnceInOrder
  <2>2. /\ i \in Int /\ j \in Int /\ Len(queue[q]) \in Nat
        /\ \A k \in DOMAIN queue[q] : k \in Int
    <3>1. queue[q] \in Seq(Reply) /\ queue'[q] \in Seq(Reply)
      BY <1>1, <1>7, QueueShapes
    <3>2. QED
      BY <3>1
  <2>3. i \in DOMAIN queue[q] /\ queue'[q][i] = queue[q][i]
    <3>1. SUFFICES ASSUME i = Len(queue[q]) + 1, \A k \in DOMAIN queue[q] : k < i
                   PROVE  FALSE
      BY <1>8
    <3>2. j = Len(queue[q]) + 1 \/ j \in DOMAIN queue[q]
      BY <1>8
    <3>3. QED
      BY <2>1, <2>2, <3>1, <3>2
  <2>4. CASE j \in DOMAIN queue[q] /\ queue'[q][j] = queue[q][j]
    BY <1>1, <2>1, <2>3, <2>4 DEF OnceInOrder
  <2>5. CASE q = w[u].plugin /\ queue'[q][j] = <<u, w[u].n>>
    BY <1>1, <2>1, <2>3, <2>5, Shapes DEF QueueInv
  <2>6. QED
    BY <1>8, <2>4, <2>5
<1>18. LostOnlyWithReason'
  BY <1>1, <1>2, <1>3, <1>4, <1>a, Shapes DEF LostOnlyWithReason, ReasonInv, Reason
<1>19. DroppedOnlyWithReason'
  BY <1>1, <1>2, <1>3, <1>4, <1>a, Shapes DEF DroppedOnlyWithReason, StartInv
<1>20. LeaksOnlyWhenOverlapped'
  BY <1>1, <1>2, <1>3, <1>4 DEF LeaksOnlyWhenOverlapped
<1>b. BoundInv'
  BY <1>1, <1>2, <1>3, <1>4, <1>a, Shapes DEF BoundInv, Amqp, WorkerInv, StartInv
<1>21. QED
  BY <1>9, <1>10, <1>11, <1>12, <1>13, <1>14, <1>15, <1>16, <1>17, <1>18, <1>19, <1>20,
     <1>b DEF PluginsInv

\* A reply that the broker drops, and one that makes it close the channel too.
LEMMA DropKeeps ==
  ASSUME PluginsInv, NEW u \in Workers, Accepted(u), Rest(u),
         w[u].pc \in {"publish", "again"},
         ~(w[u].plugin \in bound /\ plugins[w[u].plugin] \notin hit),
         UNCHANGED <<mainPc, todo, plugins>>, ~Ended
  PROVE  PluginsInv'
<1>1. /\ TypeOK /\ StartInv /\ WorkerInv /\ OwnChannelInv /\ OverlapInv /\ ReasonInv
      /\ BoundInv /\ QuietInv /\ QueueInv /\ OnceInOrder /\ LostOnlyWithReason
      /\ DroppedOnlyWithReason /\ LeaksOnlyWhenOverlapped
  BY Parts
<1>2. /\ \A v \in Workers : v # u => w'[v] = w[v]
      /\ w'[u].pc = "idle" /\ w'[u].n = w[u].n /\ w'[u].plugin = "none"
      /\ w'[u].ch = w[u].ch
      /\ w' \in [Workers -> WorkerType]
  BY <1>1, RestFacts
<1>3. /\ UNCHANGED <<Channels, Amqp, conn, connOpen, channels, open, refused, exchange, bound>>
      /\ UNCHANGED <<lost, overlapped, left, shut>>
  BY DEF Channels, Amqp, Accepted
<1>4. /\ w[u].plugin \in Amqp /\ w[u].plugin \in Parsers /\ plugins[w[u].plugin] \in open
      /\ mainPc # "init"
  BY <1>1, Shapes DEF WorkerInv, StartInv, Accepted
<1>5. /\ UNCHANGED queue
      /\ dropped' = dropped \cup {[plugin |-> w[u].plugin, ch |-> plugins[w[u].plugin]]}
      /\ hit' = IF exchange THEN hit ELSE hit \cup {plugins[w[u].plugin]}
  BY DEF Accepted
<1>6. /\ hit \subseteq hit' /\ hit' \subseteq Channels
      /\ hit' \ hit \subseteq {plugins[w[u].plugin]} /\ plugins[w[u].plugin] \in Channels
      /\ dropped' \subseteq [plugin : Parsers, ch : Channels]
  <2>1. hit \subseteq Channels /\ dropped \subseteq [plugin : Parsers, ch : Channels]
    BY <1>1 DEF TypeOK
  <2>2. plugins[w[u].plugin] \in Channels
    BY <1>1, <1>4, Shapes
  <2>3. QED
    BY <1>4, <1>5, <2>1, <2>2
<1>7. \/ w[u].plugin # conn /\ plugins[w[u].plugin] = 1
      \/ w[u].plugin \in left
      \/ plugins[w[u].plugin] \in hit
  <2>1. CASE w[u].plugin \in DOMAIN queue
    BY <1>1, <2>1 DEF BoundInv
  <2>2. CASE w[u].plugin \notin DOMAIN queue
    <3>1. plugins[w[u].plugin] = 1
      BY <1>1, <1>4, <2>2 DEF BoundInv
    <3>2. w[u].plugin # conn
      BY <1>1, <1>4, <2>2 DEF StartInv
    <3>3. QED
      BY <3>1, <3>2
  <2>3. QED
    BY <2>1, <2>2
<1>8. TypeOK'
  BY <1>1, <1>2, <1>3, <1>4, <1>5, <1>6, <1>7 DEF TypeOK, WorkerType
<1>9. StartInv'
  BY <1>1, <1>2, <1>3, <1>4, <1>5, Shapes DEF StartInv, Amqp
<1>10. WorkerInv'
  BY <1>1, <1>2, <1>3, <1>4, <1>5, <1>6, <1>7, Shapes DEF WorkerInv, Amqp
<1>11. OwnChannelInv'
  BY <1>1, <1>2, <1>3, <1>4, <1>5, <1>6, <1>7, Shapes DEF OwnChannelInv, Amqp, WorkerInv
<1>12. OverlapInv'
  BY <1>1, <1>2, <1>3, <1>4, <1>5, <1>6, <1>7, Shapes
     DEF OverlapInv, Reinits, OwnChannelInv, WorkerInv, Amqp
<1>13. ReasonInv'
  BY <1>1, <1>2, <1>3, <1>4, <1>5, <1>6, <1>7, Shapes
     DEF ReasonInv, Reason, OverlapInv, Reinits, OwnChannelInv, WorkerInv
<1>14. QuietInv'
  BY <1>1, <1>2, <1>3, <1>4, <1>5, <1>6, <1>7, Shapes DEF QuietInv, Channels
<1>15. QueueInv'
  BY <1>1, <1>2, <1>3, <1>4, <1>5, <1>6, <1>7, QueueStays
<1>16. OnceInOrder'
  BY <1>1, <1>2, <1>3, <1>4, <1>5, <1>6, <1>7, Shapes DEF OnceInOrder, QueueInv
<1>17. LostOnlyWithReason'
  BY <1>1, <1>2, <1>3, <1>4, <1>5, <1>6, <1>7, Shapes DEF LostOnlyWithReason, ReasonInv, Reason
<1>18. DroppedOnlyWithReason'
  BY <1>1, <1>2, <1>3, <1>4, <1>5, <1>6, <1>7, Shapes DEF DroppedOnlyWithReason, StartInv
<1>19. LeaksOnlyWhenOverlapped'
  BY <1>1, <1>2, <1>3, <1>4, <1>5, <1>6, <1>7, Shapes DEF LeaksOnlyWhenOverlapped, OverlapInv
<1>b. BoundInv'
  BY <1>1, <1>2, <1>3, <1>4, <1>5, <1>6, <1>7, Shapes DEF BoundInv, Amqp, WorkerInv, StartInv
<1>20. QED
  BY <1>8, <1>9, <1>10, <1>11, <1>12, <1>13, <1>14, <1>15, <1>16, <1>17, <1>18, <1>19,
     <1>b DEF PluginsInv

\* The start: no plugin, no channel, no reply.
LEMMA InitHolds == Init => PluginsInv
<1>1. ASSUME Init PROVE PluginsInv
  <2>1. /\ Amqp = {} /\ Channels = {} /\ DOMAIN plugins = {} /\ DOMAIN queue = {}
        /\ plugins \in [DOMAIN plugins -> {0} \cup Channels]
        /\ queue \in [DOMAIN queue -> Seq(Reply)]
    BY <1>1 DEF Init, Amqp, Channels
  <2>2. /\ mainPc = "init" /\ conn = "none" /\ connOpen = FALSE /\ channels = 0 /\ open = {}
        /\ lost = {} /\ dropped = {} /\ hit = {} /\ overlapped = {}
        /\ exchange = FALSE /\ bound = {} /\ left = {} /\ shut = {}
        /\ \A u \in Workers : w[u].pc = "idle" /\ w[u].n = 0
    BY <1>1 DEF Init
  <2>3. TypeOK
    <3>1. w \in [Workers -> [pc : Pcs, n : Nat, plugin : Parsers \cup {"none"},
                             ch : {0} \cup Channels]]
      <4>1. "idle" \in Pcs /\ 0 \in Nat
        BY DEF Pcs
      <4>2. QED
        BY <1>1, <4>1 DEF Init
    <3>2. todo \subseteq Parsers /\ refused \subseteq Parsers \ NetParsers
      BY <1>1 DEF Init
    <3>3. QED
      BY <2>1, <2>2, <3>1, <3>2 DEF TypeOK
  <2>4. StartInv /\ WorkerInv /\ OwnChannelInv
    BY <2>1, <2>2 DEF StartInv, WorkerInv, OwnChannelInv
  <2>5. OverlapInv /\ ReasonInv /\ BoundInv /\ QuietInv
    BY <2>1, <2>2 DEF OverlapInv, Reinits, ReasonInv, BoundInv, QuietInv
  <2>6. QueueInv /\ OnceInOrder /\ LostOnlyWithReason /\ DroppedOnlyWithReason
    BY <2>1, <2>2 DEF QueueInv, OnceInOrder, LostOnlyWithReason, DroppedOnlyWithReason
  <2>7. LeaksOnlyWhenOverlapped
    BY <2>2 DEF LeaksOnlyWhenOverlapped
  <2>8. QED
    BY <2>3, <2>4, <2>5, <2>6, <2>7 DEF PluginsInv
<1>2. QED
  BY <1>1

\* Every step keeps the invariant.
LEMMA StepKeeps == PluginsInv /\ [Next]_vars => PluginsInv'
<1> SUFFICES ASSUME PluginsInv, [Next]_vars PROVE PluginsInv'
  OBVIOUS
<1>0. mainPc \in {"init", "run", "closing", "hangup", "exit"} \cup Deaths
  BY Parts DEF TypeOK
<1>1. CASE InitPlugin
  <2>1. CASE \E p \in Parsers : InitJoin(p) \/ InitNet(p)
    BY <2>1, InitJoinKeeps
  <2>2. CASE \E p \in Parsers : InitDial(p)
    BY <2>2, InitDialKeeps
  <2>3. CASE \E p \in Parsers : InitFails(p)
    BY <2>3, MainKeeps DEF InitFails, Visit
  <2>4. CASE InitReturn
    BY <2>4, MainKeeps DEF InitReturn
  <2>5. QED
    BY <1>1, <2>1, <2>2, <2>3, <2>4 DEF InitPlugin
<1>2. CASE MainReturns \/ Exit
  BY <1>2, MainKeeps DEF MainReturns, Exit
<1>3. CASE ConnectionLost \/ CloseConn
  BY <1>3, AllClosedKeeps
<1>4. CASE \/ \E k \in open : BrokerClosesChannel(k) \/ CloseArrives(k)
           \/ \E p \in bound : ReaderLeaves(p)
           \/ CloseSocket
  BY <1>4, BrokerClosesKeeps, ReaderLeavesKeeps, CloseSocketKeeps
<1>5. ASSUME NEW u \in Workers, Worker(u) PROVE PluginsInv'
  <2>1. CASE CheckPlugin(u)
    BY <2>1, CheckPluginKeeps
  <2>2. CASE WriteSocket(u)
    BY <2>2, WriteSocketKeeps
  <2>3. ASSUME Accepted(u), Rest(u), w[u].pc \in {"publish", "again"},
               UNCHANGED <<mainPc, todo, plugins>>, ~Ended
        PROVE  PluginsInv'
    BY <2>3, AppendKeeps, DropKeeps
  <2>4. CASE Publish(u)
    <3>1. CASE plugins[w[u].plugin] \notin open
      BY <2>4, <3>1, PublishFailsKeeps
    <3>2. CASE plugins[w[u].plugin] \in open
      BY <2>3, <2>4, <3>2 DEF Publish, At
    <3>3. QED
      BY <3>1, <3>2
  <2>5. CASE ReinitClose(u)
    BY <2>5, ReinitCloseKeeps
  <2>6. CASE ReinitOpen(u)
    <3>1. CASE connOpen
      BY <2>6, <3>1, ReinitOpenKeeps
    <3>2. CASE ~connOpen
      <4>1. /\ UNCHANGED <<plugins, brokerVars, w, ghostVars, todo>> /\ mainPc' = "nochannel"
        BY <2>6, <3>2 DEF ReinitOpen, brokerVars, channelVars, queueVars
      <4>2. QED
        BY <3>2, <4>1, MainKeeps DEF Deaths
    <3>3. QED
      BY <3>1, <3>2
  <2>7. CASE Store(u)
    BY <2>7, StoreKeeps
  <2>8. CASE PublishAgain(u)
    <3>1. CASE plugins[w[u].plugin] \notin open
      BY <2>8, <3>1, PublishAgainFailsKeeps
    <3>2. CASE plugins[w[u].plugin] \in open
      BY <2>3, <2>8, <3>2 DEF PublishAgain, At
    <3>3. QED
      BY <3>1, <3>2
  <2>9. CASE MapRace(u)
    BY <2>9, MainKeeps DEF MapRace, At, Deaths
  <2>10. CASE CheckPluginPanics(u)
    BY <2>10, MainKeeps DEF CheckPluginPanics, Deaths
  <2>11. QED
    BY <1>5, <2>1, <2>2, <2>4, <2>5, <2>6, <2>7, <2>8, <2>9, <2>10 DEF Worker
<1>6. CASE UNCHANGED vars
  BY <1>0, <1>6, MainKeeps DEF vars
<1>7. QED
  BY <1>1, <1>2, <1>3, <1>4, <1>5, <1>6 DEF Next

\* The inductive invariant holds (ext_parser.go 50-292, ssh_collector_stay.go
\* 337-349).
THEOREM PluginsCorrect == Spec => []PluginsInv
<1>1. Init => PluginsInv
  BY InitHolds
<1>2. PluginsInv /\ [Next]_vars => PluginsInv'
  BY StepKeeps
<1>3. QED
  BY <1>1, <1>2, PTL DEF Spec

\* What the invariant says one by one: the types, the order of the replies,
\* why a reply is lost or dropped, and why a channel is left behind.
THEOREM PluginsType == Spec => []TypeOK
<1>1. PluginsInv => TypeOK
  BY Parts
<1>2. QED
  BY <1>1, PluginsCorrect, PTL

\* A worker's replies are queued at most once and in their order
\* (ssh_collector_stay.go 341-347).
THEOREM RepliesOnceInOrder == Spec => []OnceInOrder
<1>1. PluginsInv => OnceInOrder
  BY Parts
<1>2. QED
  BY <1>1, PluginsCorrect, PTL

\* A second refusal has a cause outside the worker, main's closing of the
\* plugin's channel among them (ssh_collector_stay.go 342-346, ext_parser.go
\* 243-292 and 316).
THEOREM LossHasReason == Spec => []LostOnlyWithReason
<1>1. PluginsInv => LostOnlyWithReason
  BY Parts
<1>2. QED
  BY <1>1, PluginsCorrect, PTL

\* A reply is dropped for want of a queue only by a plugin that joined and was
\* never re-initialised, or after the queue's last reader has left
\* (ext_parser.go 76-83, 107, 117-135, 264-282).
THEOREM DropHasReason == Spec => []DroppedOnlyWithReason
<1>1. PluginsInv => DroppedOnlyWithReason
  BY Parts
<1>2. QED
  BY <1>1, PluginsCorrect, PTL

\* No channel is orphaned by one worker alone (ext_parser.go 245-291).
THEOREM LeakNeedsOverlap == Spec => []LeaksOnlyWhenOverlapped
<1>1. PluginsInv => LeaksOnlyWhenOverlapped
  BY Parts
<1>2. QED
  BY <1>1, PluginsCorrect, PTL

\* With a quiet broker no worker re-initialises a plugin before main has closed
\* a channel, so neither the map nor a nil channel ends the process
\* (ext_parser.go 247-261 and 316, ssh_collector_stay.go 345).
THEOREM QuietBrokerSafe == Spec => []QuietBrokerNoCrash
<1>1. PluginsInv => QuietBrokerNoCrash
  BY Parts DEF QuietInv, QuietBrokerNoCrash, TypeOK
<1>2. QED
  BY <1>1, PluginsCorrect, PTL

\* A re-initialisation leaves the channels of other plugins alone
\* (ext_parser.go 76-83, 245).
THEOREM NeighboursSafe == Spec => NeverClosesNeighbours
<1>1. ASSUME PluginsInv, NEW u \in Workers, w[u].pc = "reinit",
             plugins[w[u].plugin] \in open
      PROVE  /\ w[u].plugin \in overlapped
             /\ \A q \in DOMAIN plugins \ {w[u].plugin} : plugins[q] # plugins[w[u].plugin]
  <2>1. /\ TypeOK /\ OverlapInv /\ OwnChannelInv /\ WorkerInv
    BY <1>1, Parts
  <2>2. w[u].plugin \in overlapped /\ plugins[w[u].plugin] # 1 /\ w[u].plugin \in Amqp
    BY <1>1, <2>1 DEF OverlapInv, WorkerInv
  <2>3. ASSUME NEW q \in DOMAIN plugins, q # w[u].plugin, plugins[q] = plugins[w[u].plugin]
        PROVE  FALSE
    <3>1. q \in Amqp
      BY <2>1, <2>2, <2>3 DEF TypeOK, Amqp
    <3>2. QED
      BY <2>1, <2>2, <2>3, <3>1 DEF OwnChannelInv
  <2>4. QED
    BY <2>2, <2>3
<1>2. PluginsInv /\ [Next]_vars =>
        [\A u \in Workers : w[u].pc = "reinit" /\ w'[u].pc = "open" =>
           LET p == w[u].plugin
           IN  plugins[p] \in open =>
                 /\ p \in overlapped
                 /\ \A q \in DOMAIN plugins \ {p} : plugins[q] # plugins[p]
        ]_vars
  BY <1>1
<1>3. QED
  BY <1>2, PluginsCorrect, PTL DEF Spec, NeverClosesNeighbours
=============================================================================
