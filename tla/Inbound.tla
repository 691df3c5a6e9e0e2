------------------------------ MODULE Inbound -------------------------------
(***************************************************************************)
(* Inbound commands (conf.Inbound.Enable) on top of Sessions: every worker *)
(* that enters its command loop starts a goroutine with a second SSH       *)
(* session and a consumer of the queue "<host>_in", which acknowledges a   *)
(* message, writes its command to the session and publishes the reply.     *)
(*                                                                         *)
(* Nobody ends a consumer: it outlives the command loop of its worker, and *)
(* when its own loop is over the broker goes on delivering to it, because  *)
(* neither consumer nor channel is cancelled.  The channel is one for all  *)
(* nodes.  The broker, the senders and the node are environment.           *)
(***************************************************************************)
EXTENDS Sessions, Integers, Sequences

CONSTANTS
  Kinds,         \* the messages that senders put into a queue (see Kind)
  MaxConsumers,  \* bound: incarnations of all workers together
  MaxSent        \* bound: messages

(***************************************************************************)
(* "good"     this node, and a command                                     *)
(* "foreign"  another node's name                                          *)
(* "nonode"   a command, but no "node"                                     *)
(* "nocmd"    this node, but no "command"                                  *)
(* "mistyped" a "node" or a "command" that is not a string                 *)
(* "garbage"  not a JSON object                                            *)
(***************************************************************************)
Kind == {"good", "foreign", "nonode", "nocmd", "mistyped", "garbage"}

ASSUME InboundAssumption ==
  /\ Kinds \subseteq Kind
  /\ MaxConsumers \in Nat /\ MaxSent \in Nat

VARIABLES
  cons,      \* the consumers, in the order in which they were started
  kind,      \* the messages sent so far
  queue,     \* the queue of each node
  chOpen,    \* inbound.amqpChannel is open
  acked,     \* messages the broker has been told are done
  executed,  \* history: which consumer wrote whose command for which message
  answered   \* history: messages whose reply was published

inboundVars == <<cons, kind, queue, chOpen, acked, executed, answered>>
vars        == <<sessionVars, inboundVars>>

Pcs == {"opening", "idle", "ack", "write", "read", "ended", "deaf"}

Nodes == {"none", "own", "other"}

\* data is the map that json.Unmarshal fills; it lives as long as the
\* consumer, and a key that a message lacks keeps its value.
Fresh(d) == [dev |-> d, pc |-> "opening", up |-> TRUE, buf |-> <<>>, msg |-> 0,
             node |-> "none", cmd |-> 0]

InboundInit ==
  /\ SessionsInit
  /\ cons = <<>> /\ kind = <<>>
  /\ queue = [d \in Devices |-> <<>>]
  /\ chOpen \in BOOLEAN          \* a refused declaration closes the channel
  /\ acked = {} /\ executed = <<>> /\ answered = {}

-----------------------------------------------------------------------------
(* The workers                                                             *)

\* go func(): from here on the consumer is on its own.
WorkerConnects(d) ==
  /\ Connect(d)
  /\ Len(cons) < MaxConsumers
  /\ cons' = Append(cons, Fresh(d))
  /\ UNCHANGED <<kind, queue, chOpen, acked, executed, answered>>

\* Neither the stop message nor the end of the command loop reaches the
\* consumer: stopChan has no sender, and wg_func.Wait() keeps conn open.  So
\* no worker that has come this far ever leaves, and Left is no step here.
OtherSessionSteps ==
  /\ \/ Ask \/ Finish \/ Leave
     \/ \E d \in Devices : Stop(d) \/ End(d) \/ \E v \in Workers : Begin(d, v)
  /\ UNCHANGED inboundVars

-----------------------------------------------------------------------------
(* The consumer                                                            *)

At(c, pc)   == Alive /\ cons[c].pc = pc
Goto(c, pc) == cons' = [cons EXCEPT ![c].pc = pc]

\* A panic on a goroutine that recovers nothing.
Panic == phase' = "gone" /\ UNCHANGED <<crew, talking, leaving, stopped, asked>>

\* The second session.  handleError panics when it cannot be set up; a
\* refused Consume is logged and leaves a channel nothing ever comes from.
OpenSession(c) ==
  /\ At(c, "opening")
  /\ \/ /\ Panic
        /\ UNCHANGED cons
     \/ /\ cons[c].up
        /\ Goto(c, IF chOpen THEN "idle" ELSE "deaf")
        /\ UNCHANGED sessionVars
  /\ UNCHANGED <<kind, queue, chOpen, acked, executed, answered>>

\* What inbound_cmd.data says once message m has been decoded into it.
NodeAfter(c, m) ==
  CASE kind[m] = "nonode"   -> cons[c].node
    [] kind[m] = "foreign"  -> "other"
    [] kind[m] = "mistyped" -> "none"
    [] OTHER                -> "own"

CmdAfter(c, m) == IF kind[m] = "nocmd" THEN cons[c].cmd ELSE m

\* The message is off the channel, and the map holds what it holds now.
Took(c, node, cmd, pc) ==
  cons' = [cons EXCEPT ![c] =
             [dev |-> @.dev, up |-> @.up, pc |-> pc, node |-> node, cmd |-> cmd,
              buf |-> Tail(@.buf), msg |-> Head(@.buf)]]

\* Mutant of Take: a decoding error is logged, and the loop goes on.
TakeGoesOn(c) ==
  /\ At(c, "idle") /\ cons[c].buf # <<>>
  /\ LET m    == Head(cons[c].buf)
         node == IF kind[m] = "garbage" THEN cons[c].node ELSE NodeAfter(c, m)
         cmd  == IF kind[m] = "garbage" THEN cons[c].cmd ELSE CmdAfter(c, m)
     IN \/ /\ node = "none" \/ cmd = 0
           /\ Panic
           /\ UNCHANGED cons
        \/ /\ node # "none" /\ cmd # 0
           /\ Took(c, node, cmd, IF node = "own" THEN "ack" ELSE "ended")
           /\ UNCHANGED sessionVars
  /\ UNCHANGED <<kind, queue, chOpen, acked, executed, answered>>

\* Mutant of Take: the type assertions are of the two-valued form, and an
\* absent key gives the zero value.
TakeUnchecked(c) ==
  /\ At(c, "idle") /\ cons[c].buf # <<>>
  /\ LET m == Head(cons[c].buf)
     IN IF kind[m] = "garbage"
        THEN Took(c, cons[c].node, cons[c].cmd, "ended")
        ELSE Took(c, NodeAfter(c, m), CmdAfter(c, m),
                  IF NodeAfter(c, m) = "own" THEN "ack" ELSE "ended")
  /\ UNCHANGED <<sessionVars, kind, queue, chOpen, acked, executed, answered>>

\* Decoding, the two type assertions, and the test of the node.  What cannot
\* be decoded or is for another node ends the loop, unacknowledged; a key
\* that was never there panics.
Take(c) ==
  /\ At(c, "idle") /\ cons[c].buf # <<>>
  /\ LET m    == Head(cons[c].buf)
         node == NodeAfter(c, m)
         cmd  == CmdAfter(c, m)
     IN \/ /\ kind[m] = "garbage"
           /\ Took(c, cons[c].node, cons[c].cmd, "ended")
           /\ UNCHANGED sessionVars
        \/ /\ kind[m] # "garbage" /\ (node = "none" \/ cmd = 0)
           /\ Panic
           /\ UNCHANGED cons
        \/ /\ kind[m] # "garbage" /\ node # "none" /\ cmd # 0
           /\ Took(c, node, cmd, IF node = "own" THEN "ack" ELSE "ended")
           /\ UNCHANGED sessionVars
  /\ UNCHANGED <<kind, queue, chOpen, acked, executed, answered>>

\* Mutant of Ack: multiple is set, all that was delivered is acknowledged.
AckMultiple(c) ==
  /\ At(c, "ack")
  /\ acked' = IF chOpen THEN acked \cup {cons[c].msg}
                               \cup {cons[c].buf[i] : i \in DOMAIN cons[c].buf}
              ELSE acked
  /\ Goto(c, "write")
  /\ UNCHANGED <<sessionVars, kind, queue, chOpen, executed, answered>>

\* d.Ack(false); an error is logged.
Ack(c) ==
  /\ At(c, "ack")
  /\ acked' = IF chOpen THEN acked \cup {cons[c].msg} ELSE acked
  /\ Goto(c, "write")
  /\ UNCHANGED <<sessionVars, kind, queue, chOpen, executed, answered>>

\* Mutant of WriteCommand: the error is logged, and the reply waited for.
WriteCommandGoesOn(c) ==
  /\ At(c, "write")
  /\ IF cons[c].up
     THEN executed' = Append(executed, [msg |-> cons[c].msg, cmd |-> cons[c].cmd, by |-> c])
     ELSE UNCHANGED executed
  /\ Goto(c, "read")
  /\ UNCHANGED <<sessionVars, kind, queue, chOpen, acked, answered>>

\* The command goes to the second session, or that is gone and the loop ends.
WriteCommand(c) ==
  /\ At(c, "write")
  /\ \/ /\ cons[c].up
        /\ executed' = Append(executed, [msg |-> cons[c].msg, cmd |-> cons[c].cmd, by |-> c])
        /\ Goto(c, "read")
     \/ /\ ~cons[c].up
        /\ Goto(c, "ended")
        /\ UNCHANGED executed
  /\ UNCHANGED <<sessionVars, kind, queue, chOpen, acked, answered>>

\* An error, of a channel that is closed, is logged.
PublishInbound(c) ==
  answered' = IF chOpen THEN answered \cup {cons[c].msg} ELSE answered

\* Mutant of Answer: what met a dead session is put back into the queue.
AnswerRequeues(c) ==
  /\ At(c, "read")
  /\ IF cons[c].up
     THEN /\ PublishInbound(c)
          /\ UNCHANGED queue
     ELSE /\ queue' = [queue EXCEPT ![cons[c].dev] = Append(@, cons[c].msg)]
          /\ UNCHANGED answered
  /\ Goto(c, "idle")
  /\ UNCHANGED <<sessionVars, kind, chOpen, acked, executed>>

\* Mutant of Answer: the loop is left after the first reply.
AnswerEnds(c) ==
  /\ At(c, "read")
  /\ PublishInbound(c)
  /\ Goto(c, "ended")
  /\ UNCHANGED <<sessionVars, kind, queue, chOpen, acked, executed>>

\* readSSHInput returns with the prompt or with the end of the session, and
\* what it has is published.
Answer(c) ==
  /\ At(c, "read")
  /\ PublishInbound(c)
  /\ Goto(c, "idle")
  /\ UNCHANGED <<sessionVars, kind, queue, chOpen, acked, executed>>

\* The range over msgs ends with the channel.
RangeEnds(c) ==
  /\ At(c, "idle") /\ ~chOpen /\ cons[c].buf = <<>>
  /\ Goto(c, "ended")
  /\ UNCHANGED <<sessionVars, kind, queue, chOpen, acked, executed, answered>>

Consumer(c) ==
  \/ OpenSession(c) \/ Take(c) \/ Ack(c) \/ WriteCommand(c) \/ Answer(c) \/ RangeEnds(c)

-----------------------------------------------------------------------------
(* Broker, senders and nodes                                               *)

\* A queue whose consumers went with the channel is deleted.
Send(d, k) ==
  /\ Alive /\ Len(kind) < MaxSent
  /\ kind' = Append(kind, k)
  /\ queue' = IF chOpen THEN [queue EXCEPT ![d] = Append(@, Len(kind) + 1)] ELSE queue
  /\ UNCHANGED <<sessionVars, cons, chOpen, acked, executed, answered>>

\* Any consumer of the queue may be next, also one that no longer reads:
\* there is no limit to what it may have unacknowledged.
Deliver(c) ==
  LET d == cons[c].dev IN
  /\ Alive /\ chOpen /\ cons[c].pc \notin {"opening", "deaf"}
  /\ queue[d] # <<>>
  /\ queue' = [queue EXCEPT ![d] = Tail(@)]
  /\ cons' = [cons EXCEPT ![c].buf = Append(@, Head(queue[d]))]
  /\ UNCHANGED <<sessionVars, kind, chOpen, acked, executed, answered>>

\* Nobody opens the channel again; what was in flight is dropped.
ChannelCloses ==
  /\ Alive /\ chOpen
  /\ chOpen' = FALSE
  /\ queue' = [d \in Devices |-> <<>>]
  /\ cons' = [c \in DOMAIN cons |-> [cons[c] EXCEPT !.buf = <<>>]]
  /\ UNCHANGED <<sessionVars, kind, acked, executed, answered>>

\* The connection of an incarnation, or its second session, is gone.
HangUp(c) ==
  /\ Alive /\ cons[c].up
  /\ cons' = [cons EXCEPT ![c].up = FALSE]
  /\ UNCHANGED <<sessionVars, kind, queue, chOpen, acked, executed, answered>>

-----------------------------------------------------------------------------
InboundNext ==
  \/ OtherSessionSteps \/ ChannelCloses
  \/ \E d \in Devices : WorkerConnects(d) \/ \E k \in Kinds : Send(d, k)
  \/ \E c \in DOMAIN cons : Consumer(c) \/ Deliver(c) \/ HangUp(c)

InboundSpec == InboundInit /\ [][InboundNext]_vars

\* Consumers run, nodes answer or hang up, and the broker delivers.
FairInbound ==
  /\ InboundSpec
  /\ \A c \in 1 .. MaxConsumers :
       /\ WF_vars(c \in DOMAIN cons /\ Consumer(c))
       /\ WF_vars(c \in DOMAIN cons /\ Deliver(c))
=============================================================================
