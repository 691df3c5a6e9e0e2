---------------------------- MODULE InboundProps ----------------------------
(***************************************************************************)
(* What becomes of a command that a sender puts into the queue of a node.  *)
(***************************************************************************)
EXTENDS Inbound, Functions

Sent == DOMAIN kind

ConsumerType == [dev : Devices, pc : Pcs, up : BOOLEAN, buf : Seq(Sent),
                 msg : {0} \cup Sent, node : Nodes, cmd : {0} \cup Sent]

\* Every variable has its type; in particular the memory of a consumer holds
\* a command as soon as it holds a node that it acts on
\* (ssh_collector_stay.go 208-219).
TypeOK ==
  /\ kind \in Seq(Kinds)
  /\ queue \in [Devices -> Seq(Sent)]
  /\ chOpen \in BOOLEAN /\ acked \subseteq Sent /\ answered \subseteq Sent
  /\ cons \in Seq(ConsumerType)
  /\ \A c \in DOMAIN cons : cons[c].pc \in {"ack", "write", "read"} =>
       cons[c].node = "own" /\ cons[c].cmd # 0 /\ cons[c].msg # 0
  /\ executed \in Seq([msg : Sent, cmd : Sent, by : DOMAIN cons])

\* No message makes a node execute a command twice, and a consumer executes
\* in the order of its queue: whatever consumer of whatever incarnation gets
\* it, a message is never handed on (ssh_collector_stay.go 205-259).
OnceInOrder ==
  \A i, j \in DOMAIN executed : i < j =>
    /\ executed[i].msg # executed[j].msg
    /\ executed[i].by = executed[j].by => executed[i].msg < executed[j].msg

\* An acknowledged command was executed or is about to be, or its consumer
\* found its session dead: each incarnation of a worker loses at most the one
\* command it had acknowledged (ssh_collector_stay.go 221-237).
AckedIsExecuted ==
  \A m \in acked :
    \/ \E i \in DOMAIN executed : executed[i].msg = m
    \/ \E c \in DOMAIN cons :
         cons[c].msg = m /\ \/ cons[c].pc = "write"
                            \/ cons[c].pc = "ended" /\ ~cons[c].up

\* A node executes what a message says.  Only a message without a command
\* makes it execute another one, and then the last that the same consumer has
\* executed: decoding merges into the map of the message before
\* (ssh_collector_stay.go 163, 212-217).
ExecutesWhatItSays ==
  \A i \in DOMAIN executed :
    LET e == executed[i]
    IN  e.cmd # e.msg => /\ kind[e.msg] = "nocmd"
                         /\ \E j \in 1 .. i - 1 : /\ executed[j].by = e.by
                                                  /\ executed[j].cmd = e.cmd

-----------------------------------------------------------------------------
(* The invariant the proofs rest on                                        *)

Sorted(s)  == \A i, j \in DOMAIN s : i < j => s[i] < s[j]
Held(c)    == Range(cons[c].buf)
Waiting(d) == Range(queue[d])

\* Messages are in order wherever they wait.
InOrder(c) ==
  /\ Sorted(cons[c].buf)
  /\ \A m \in Held(c) : cons[c].msg < m
  /\ \A m \in Waiting(cons[c].dev) : cons[c].msg < m /\ \A k \in Held(c) : k < m

\* A message is at one place: in one queue, or with one consumer.
Apart(c, e) ==
  /\ Held(c) \cap Held(e) = {}
  /\ cons[c].msg \notin Held(e)
  /\ cons[c].msg # 0 => cons[c].msg # cons[e].msg

PlaceInv ==
  /\ \A d \in Devices :
       /\ Sorted(queue[d])
       /\ \A e \in Devices : d # e => Waiting(d) \cap Waiting(e) = {}
       /\ \A c \in DOMAIN cons : Waiting(d) \cap (Held(c) \cup {cons[c].msg}) = {}
  /\ \A c \in DOMAIN cons :
       /\ InOrder(c)
       /\ \A e \in DOMAIN cons : c # e => Apart(c, e)

\* What was executed waits nowhere, and its consumer has not gone back.
ExecutedInv ==
  \A i \in DOMAIN executed : LET x == executed[i] IN
    /\ x.msg <= cons[x.by].msg
    /\ cons[x.by].pc \in {"ack", "write"} => x.msg < cons[x.by].msg
    /\ \A d \in Devices : x.msg \notin Waiting(d)
    /\ \A c \in DOMAIN cons : x.msg \notin Held(c) /\ (c # x.by => x.msg # cons[c].msg)

Ran(c) == \E i \in DOMAIN executed : executed[i].by = c /\ executed[i].cmd = cons[c].cmd

\* Where the command in a consumer's memory is from.
MemoryInv ==
  \A c \in DOMAIN cons :
    CASE cons[c].pc \in {"opening", "deaf"} -> cons[c].cmd = 0
      [] cons[c].pc \in {"idle", "read"}    -> cons[c].cmd = 0 \/ Ran(c)
      [] cons[c].pc \in {"ack", "write"}    ->
           cons[c].cmd = cons[c].msg \/ (kind[cons[c].msg] = "nocmd" /\ Ran(c))
      [] OTHER -> TRUE

\* All parts together are inductive (ssh_collector_stay.go 150-283).
InboundInv ==
  /\ TypeOK /\ PlaceInv /\ ExecutedInv /\ MemoryInv
  /\ OnceInOrder /\ AckedIsExecuted /\ ExecutesWhatItSays

-----------------------------------------------------------------------------
\* What can come between a command and its answer.
Trouble ==
  \/ ~Alive \/ ~chOpen
  \/ \E m \in Sent : kind[m] # "good"
  \/ \E c \in DOMAIN cons : ~cons[c].up

\* While sessions and channel live and senders send what they should, a
\* command for a node that has been connected once is answered, whatever
\* number of consumers the node has and even after its worker was stopped
\* (ssh_collector_stay.go 150-283).
CommandsAnswered ==
  \A m \in 1 .. MaxSent : \A c \in 1 .. MaxConsumers :
    (/\ m \in Sent /\ c \in DOMAIN cons /\ cons[c].pc = "idle"
     /\ m \in Range(queue[cons[c].dev]))
      ~> (m \in answered \/ Trouble)
=============================================================================
