---------------------------- MODULE InboundProofs ---------------------------
(***************************************************************************)
(* Proofs about inbound commands, for any number of devices, incarnations  *)
(* and messages of every kind.                                             *)
(***************************************************************************)
EXTENDS InboundProps, TLAPS

USE InboundAssumption

-----------------------------------------------------------------------------
(* Queues                                                                  *)

LEMMA SeqFacts ==
  ASSUME NEW S, NEW s \in Seq(S)
  PROVE  /\ Len(s) \in Nat /\ DOMAIN s = 1 .. Len(s)
         /\ s \in [DOMAIN s -> S]
         /\ s # <<>> => 1 \in DOMAIN s /\ Head(s) = s[1] /\ Head(s) \in S
OBVIOUS

LEMMA TailFacts ==
  ASSUME NEW S, NEW s \in Seq(S), s # <<>>
  PROVE  /\ Tail(s) \in Seq(S)
         /\ DOMAIN Tail(s) = 1 .. Len(s) - 1
         /\ \A i \in DOMAIN Tail(s) : Tail(s)[i] = s[i + 1] /\ i + 1 \in DOMAIN s
OBVIOUS

LEMMA AppendFacts ==
  ASSUME NEW S, NEW s \in Seq(S), NEW m \in S
  PROVE  /\ Append(s, m) \in Seq(S)
         /\ DOMAIN Append(s, m) = DOMAIN s \cup {Len(s) + 1}
         /\ \A i \in DOMAIN s : Append(s, m)[i] = s[i]
         /\ Append(s, m)[Len(s) + 1] = m
         /\ Len(s) + 1 \notin DOMAIN s
OBVIOUS

\* Taking the first of a sorted queue leaves the greater ones, in order.
LEMMA SortedTail ==
  ASSUME NEW s \in Seq(Nat), Sorted(s), s # <<>>
  PROVE  /\ Sorted(Tail(s))
         /\ Range(s) = Range(Tail(s)) \cup {Head(s)}
         /\ \A m \in Range(Tail(s)) : Head(s) < m
<1>1. /\ DOMAIN s = 1 .. Len(s) /\ Len(s) \in Nat /\ 1 \in DOMAIN s /\ Head(s) = s[1]
      /\ DOMAIN Tail(s) = 1 .. Len(s) - 1
      /\ \A i \in DOMAIN Tail(s) : Tail(s)[i] = s[i + 1] /\ i + 1 \in DOMAIN s
  BY SeqFacts, TailFacts
<1>2. Sorted(Tail(s))
  BY <1>1 DEF Sorted
<1>3. \A m \in Range(Tail(s)) : m \in Range(s) /\ Head(s) < m
  BY <1>1 DEF Sorted, Range
<1>4. ASSUME NEW m \in Range(s)
      PROVE  m = Head(s) \/ m \in Range(Tail(s))
  <2>1. PICK i \in DOMAIN s : m = s[i]
    BY DEF Range
  <2>2. CASE i = 1
    BY <1>1, <2>1, <2>2
  <2>3. CASE i # 1
    <3>1. i - 1 \in DOMAIN Tail(s) /\ Tail(s)[i - 1] = m
      BY <1>1, <2>1, <2>3
    <3>2. QED
      BY <3>1 DEF Range
  <2>4. QED
    BY <2>2, <2>3
<1>5. Head(s) \in Range(s)
  BY <1>1 DEF Range
<1>6. QED
  BY <1>2, <1>3, <1>4, <1>5

\* Adding a greater one keeps a queue sorted.
LEMMA SortedAppend ==
  ASSUME NEW s \in Seq(Nat), NEW m \in Nat, Sorted(s), \A k \in Range(s) : k < m
  PROVE  /\ Sorted(Append(s, m))
         /\ Range(Append(s, m)) = Range(s) \cup {m}
<1>1. /\ DOMAIN s = 1 .. Len(s) /\ Len(s) \in Nat
      /\ DOMAIN Append(s, m) = DOMAIN s \cup {Len(s) + 1}
      /\ \A i \in DOMAIN s : Append(s, m)[i] = s[i]
      /\ Append(s, m)[Len(s) + 1] = m
  BY SeqFacts, AppendFacts
<1>2. \A i \in DOMAIN s : s[i] < m
  BY DEF Range
<1>3. Sorted(Append(s, m))
  BY <1>1, <1>2 DEF Sorted
<1>4. QED
  BY <1>1, <1>3 DEF Range

-----------------------------------------------------------------------------
(* Steps that move nothing                                                 *)

\* The consumers as a function, and the messages as an interval.
LEMMA Shapes ==
  ASSUME TypeOK
  PROVE  /\ cons \in [DOMAIN cons -> ConsumerType]
         /\ DOMAIN cons = 1 .. Len(cons) /\ Len(cons) \in Nat
         /\ Sent = 1 .. Len(kind) /\ Len(kind) \in Nat /\ Sent \subseteq Nat
         /\ \A c \in DOMAIN cons :
              /\ cons[c].dev \in Devices /\ cons[c].pc \in Pcs /\ cons[c].up \in BOOLEAN
              /\ cons[c].buf \in Seq(Sent) /\ cons[c].buf \in Seq(Nat)
              /\ cons[c].msg \in Nat /\ cons[c].msg \in {0} \cup Sent
              /\ cons[c].node \in Nodes
              /\ cons[c].cmd \in {0} \cup Sent
         /\ \A d \in Devices : queue[d] \in Seq(Sent) /\ queue[d] \in Seq(Nat)
         /\ executed \in [DOMAIN executed -> [msg : Sent, cmd : Sent, by : DOMAIN cons]]
         /\ DOMAIN executed = 1 .. Len(executed) /\ Len(executed) \in Nat
<1>1. /\ cons \in [DOMAIN cons -> ConsumerType]
      /\ DOMAIN cons = 1 .. Len(cons) /\ Len(cons) \in Nat
  BY SeqFacts DEF TypeOK
<1>2. Sent = 1 .. Len(kind) /\ Len(kind) \in Nat /\ Sent \subseteq Nat
  <2>1. DOMAIN kind = 1 .. Len(kind) /\ Len(kind) \in Nat
    BY SeqFacts DEF TypeOK
  <2>2. QED
    BY <2>1 DEF Sent
<1>3. \A s : s \in Seq(Sent) => s \in Seq(Nat)
  BY <1>2
<1>4. \A c \in DOMAIN cons :
        /\ cons[c].dev \in Devices /\ cons[c].pc \in Pcs /\ cons[c].up \in BOOLEAN
        /\ cons[c].buf \in Seq(Sent) /\ cons[c].msg \in {0} \cup Sent
        /\ cons[c].node \in Nodes /\ cons[c].cmd \in {0} \cup Sent
  BY <1>1 DEF ConsumerType
<1>5. /\ executed \in [DOMAIN executed -> [msg : Sent, cmd : Sent, by : DOMAIN cons]]
      /\ DOMAIN executed = 1 .. Len(executed) /\ Len(executed) \in Nat
  BY SeqFacts DEF TypeOK
<1>6. \A d \in Devices : queue[d] \in Seq(Sent)
  BY DEF TypeOK
<1>7. QED
  BY <1>1, <1>2, <1>3, <1>4, <1>5, <1>6

LEMMA ConsumersAreASequence ==
  ASSUME TypeOK, NEW f \in [DOMAIN cons -> ConsumerType]
  PROVE  f \in Seq(ConsumerType)
<1>1. DOMAIN cons = 1 .. Len(cons) /\ Len(cons) \in Nat
  BY Shapes
<1>2. QED
  BY <1>1

\* Every message that waits somewhere has been sent.
LEMMA WaitingIsSent ==
  ASSUME TypeOK
  PROVE  /\ \A d \in Devices : Waiting(d) \subseteq Sent
         /\ \A c \in DOMAIN cons : Held(c) \subseteq Sent
         /\ 0 \notin Sent
<1>1. \A s : s \in Seq(Sent) => Range(s) \subseteq Sent
  BY DEF Range
<1>2. QED
  BY <1>1, Shapes DEF Held, Waiting

\* No message moves.
LEMMA PlacesKept ==
  ASSUME TypeOK, PlaceInv, UNCHANGED queue, DOMAIN cons' = DOMAIN cons,
         \A e \in DOMAIN cons : /\ cons'[e].dev = cons[e].dev
                                /\ cons'[e].buf = cons[e].buf
                                /\ cons'[e].msg = cons[e].msg
  PROVE  /\ PlaceInv'
         /\ \A e \in DOMAIN cons : Held(e)' = Held(e)
         /\ \A d \in Devices : Waiting(d)' = Waiting(d)
<1>1. /\ \A e \in DOMAIN cons : Held(e)' = Held(e)
      /\ \A d \in Devices : Waiting(d)' = Waiting(d) /\ queue'[d] = queue[d]
  BY DEF Held, Waiting
<1>2. ASSUME NEW e \in DOMAIN cons
      PROVE  InOrder(e)'
  <2>1. InOrder(e) /\ cons[e].dev \in Devices
    BY Shapes DEF PlaceInv
  <2>2. QED
    BY <1>1, <2>1 DEF InOrder
<1>3. \A e, f \in DOMAIN cons : e # f => Apart(e, f)'
  BY <1>1 DEF PlaceInv, Apart
<1>4. QED
  BY <1>1, <1>2, <1>3 DEF PlaceInv

\* What is left of the consumers when one of them moves on.
LEMMA GotoFacts ==
  ASSUME TypeOK, NEW c \in DOMAIN cons, NEW p \in Pcs, Goto(c, p)
  PROVE  /\ DOMAIN cons' = DOMAIN cons /\ cons'[c].pc = p
         /\ \A e \in DOMAIN cons :
                 /\ cons'[e].dev = cons[e].dev /\ cons'[e].buf = cons[e].buf
                 /\ cons'[e].msg = cons[e].msg /\ cons'[e].cmd = cons[e].cmd
                 /\ cons'[e].up = cons[e].up /\ cons'[e].node = cons[e].node
                 /\ e # c => cons'[e].pc = cons[e].pc
         /\ cons' \in [DOMAIN cons -> ConsumerType]
<1>1. cons \in [DOMAIN cons -> ConsumerType]
  BY Shapes
<1>2. QED
  BY <1>1 DEF Goto, ConsumerType

\* A step of a consumer that only moves it on in its loop.
LEMMA GotoKeeps ==
  ASSUME InboundInv, NEW c \in DOMAIN cons, NEW p \in Pcs, Goto(c, p),
         <<cons[c].pc, p>> \in {<<"opening", "idle">>, <<"opening", "deaf">>,
                                <<"ack", "write">>, <<"write", "ended">>,
                                <<"read", "idle">>, <<"idle", "ended">>},
         cons[c].pc = "write" => ~cons[c].up,
         UNCHANGED <<kind, queue, chOpen, executed>>, answered' \in SUBSET Sent,
         \/ UNCHANGED acked
         \/ p = "write" /\ acked' = acked \cup {cons[c].msg}
  PROVE  InboundInv'
<1>1. TypeOK /\ PlaceInv /\ ExecutedInv /\ MemoryInv
      /\ OnceInOrder /\ AckedIsExecuted /\ ExecutesWhatItSays
  BY DEF InboundInv
<1>2. /\ DOMAIN cons' = DOMAIN cons /\ cons'[c].pc = p
      /\ \A e \in DOMAIN cons :
           /\ cons'[e].dev = cons[e].dev /\ cons'[e].buf = cons[e].buf
           /\ cons'[e].msg = cons[e].msg /\ cons'[e].cmd = cons[e].cmd
           /\ cons'[e].up = cons[e].up /\ cons'[e].node = cons[e].node
           /\ e # c => cons'[e].pc = cons[e].pc
      /\ cons' \in [DOMAIN cons -> ConsumerType]
  BY <1>1, GotoFacts
<1>3. \/ cons[c].pc = "opening" /\ p \in {"idle", "deaf"}
      \/ cons[c].pc = "ack" /\ p = "write"
      \/ cons[c].pc = "write" /\ p = "ended"
      \/ cons[c].pc = "read" /\ p = "idle"
      \/ cons[c].pc = "idle" /\ p = "ended"
  OBVIOUS
<1>4. TypeOK'
  <2>1. Sent' = Sent /\ DOMAIN cons' = DOMAIN cons /\ ConsumerType' = ConsumerType
    BY <1>2 DEF Sent, ConsumerType
  <2>2. cons' \in Seq(ConsumerType)
    BY <1>1, <1>2, ConsumersAreASequence
  <2>3. acked' \subseteq Sent
    <3>1. acked \subseteq Sent /\ (p = "write" => cons[c].msg \in Sent)
      BY <1>1, <1>3, Shapes DEF TypeOK
    <3>2. QED
      BY <3>1
  <2>4. \A e \in DOMAIN cons : cons'[e].pc \in {"ack", "write", "read"} =>
          cons'[e].node = "own" /\ cons'[e].cmd # 0 /\ cons'[e].msg # 0
    BY <1>1, <1>2 DEF TypeOK
  <2>5. QED
    BY <1>1, <2>1, <2>2, <2>3, <2>4 DEF TypeOK
<1>5. /\ PlaceInv'
      /\ \A e \in DOMAIN cons : Held(e)' = Held(e)
      /\ \A d \in Devices : Waiting(d)' = Waiting(d)
  BY <1>1, <1>2, PlacesKept
<1>6. ExecutedInv'
  <2>1. \A i \in DOMAIN executed : executed[i].by \in DOMAIN cons
    BY <1>1, Shapes
  <2>2. \A e \in DOMAIN cons : cons'[e].pc \in {"ack", "write"} =>
          cons[e].pc \in {"ack", "write"}
    BY <1>2, <1>3
  <2>3. QED
    BY <1>1, <1>2, <1>5, <2>1, <2>2 DEF ExecutedInv
<1>7. MemoryInv'
  <2>1. \A e \in DOMAIN cons : Ran(e)' = Ran(e)
    BY <1>2 DEF Ran
  <2>2. SUFFICES ASSUME NEW e \in DOMAIN cons
                 PROVE  CASE cons'[e].pc \in {"opening", "deaf"} -> cons'[e].cmd = 0
                          [] cons'[e].pc \in {"idle", "read"} -> cons'[e].cmd = 0 \/ Ran(e)
                          [] cons'[e].pc \in {"ack", "write"} ->
                               \/ cons'[e].cmd = cons'[e].msg
                               \/ kind[cons'[e].msg] = "nocmd" /\ Ran(e)
                          [] OTHER -> TRUE
    BY <1>2, <2>1 DEF MemoryInv
  <2>3. CASE e # c
    BY <1>1, <1>2, <2>3 DEF MemoryInv
  <2>4. CASE e = c
    BY <1>1, <1>2, <1>3, <2>4 DEF MemoryInv
  <2>5. QED
    BY <2>3, <2>4
<1>8. OnceInOrder' /\ ExecutesWhatItSays'
  BY <1>1 DEF OnceInOrder, ExecutesWhatItSays
<1>9. AckedIsExecuted'
  BY <1>1, <1>2, <1>3 DEF AckedIsExecuted
<1>10. QED
  BY <1>4, <1>5, <1>6, <1>7, <1>8, <1>9 DEF InboundInv

\* The command is written.
LEMMA WriteKeeps ==
  ASSUME InboundInv, NEW c \in DOMAIN cons, WriteCommand(c), cons[c].up
  PROVE  InboundInv'
<1>1. TypeOK /\ PlaceInv /\ ExecutedInv /\ MemoryInv
      /\ OnceInOrder /\ AckedIsExecuted /\ ExecutesWhatItSays
  BY DEF InboundInv
<1> DEFINE n == Len(executed) + 1
           x == [msg |-> cons[c].msg, cmd |-> cons[c].cmd, by |-> c]
<1>2. /\ cons[c].pc = "write" /\ Goto(c, "read") /\ executed' = Append(executed, x)
      /\ UNCHANGED <<kind, queue, chOpen, acked, answered>>
  BY DEF WriteCommand, At
<1>3. /\ DOMAIN cons' = DOMAIN cons /\ cons'[c].pc = "read"
      /\ \A e \in DOMAIN cons :
           /\ cons'[e].dev = cons[e].dev /\ cons'[e].buf = cons[e].buf
           /\ cons'[e].msg = cons[e].msg /\ cons'[e].cmd = cons[e].cmd
           /\ cons'[e].up = cons[e].up /\ cons'[e].node = cons[e].node
           /\ e # c => cons'[e].pc = cons[e].pc
      /\ cons' \in [DOMAIN cons -> ConsumerType]
  <2>1. "read" \in Pcs /\ Goto(c, "read")
    BY <1>2 DEF Pcs
  <2>2. QED
    BY <1>1, <2>1, GotoFacts
<1>4. x \in [msg : Sent, cmd : Sent, by : DOMAIN cons]
  BY <1>1, <1>2, Shapes DEF TypeOK
<1>5. /\ DOMAIN executed' = DOMAIN executed \cup {n} /\ n \notin DOMAIN executed
      /\ DOMAIN executed = 1 .. n - 1 /\ n \in Nat
      /\ \A i \in DOMAIN executed : executed'[i] = executed[i]
      /\ executed'[n] = x
      /\ executed' \in Seq([msg : Sent, cmd : Sent, by : DOMAIN cons])
  <2>1. executed \in Seq([msg : Sent, cmd : Sent, by : DOMAIN cons])
    BY <1>1 DEF TypeOK
  <2>2. QED
    BY <1>2, <1>4, <2>1, AppendFacts, SeqFacts
<1> HIDE DEF n
<1>6. TypeOK'
  <2>1. Sent' = Sent /\ ConsumerType' = ConsumerType
    BY <1>2 DEF Sent, ConsumerType
  <2>2. cons' \in Seq(ConsumerType)
    BY <1>1, <1>3, ConsumersAreASequence
  <2>3. \A e \in DOMAIN cons : cons'[e].pc \in {"ack", "write", "read"} =>
          cons'[e].node = "own" /\ cons'[e].cmd # 0 /\ cons'[e].msg # 0
    <3>1. \A e \in DOMAIN cons : cons[e].pc \in {"ack", "write", "read"} =>
            cons[e].node = "own" /\ cons[e].cmd # 0 /\ cons[e].msg # 0
      BY <1>1 DEF TypeOK
    <3>2. QED
      BY <1>2, <1>3, <3>1
  <2>4. executed' \in Seq([msg : Sent', cmd : Sent', by : DOMAIN cons'])
    <3>1. DOMAIN cons' = DOMAIN cons
      BY <1>3
    <3>2. executed' \in Seq([msg : Sent, cmd : Sent, by : DOMAIN cons])
      BY <1>5
    <3>3. QED
      BY ONLY <2>1, <3>1, <3>2
  <2>5. /\ queue' \in [Devices -> Seq(Sent')] /\ kind' \in Seq(Kinds)
        /\ chOpen' \in BOOLEAN /\ acked' \subseteq Sent' /\ answered' \subseteq Sent'
    BY <1>1, <1>2, <2>1 DEF TypeOK
  <2>6. \A e \in DOMAIN cons' : cons'[e].pc \in {"ack", "write", "read"} =>
          cons'[e].node = "own" /\ cons'[e].cmd # 0 /\ cons'[e].msg # 0
    BY <1>3, <2>3
  <2>7. QED
    BY <2>1, <2>2, <2>4, <2>5, <2>6 DEF TypeOK
<1>7. /\ PlaceInv'
      /\ \A e \in DOMAIN cons : Held(e)' = Held(e)
      /\ \A d \in Devices : Waiting(d)' = Waiting(d)
  BY <1>1, <1>2, <1>3, PlacesKept
<1>8. /\ \A i \in DOMAIN executed : executed[i].by \in DOMAIN cons /\ executed[i].msg \in Nat
      /\ cons[c].msg \in Nat /\ cons[c].msg # 0
  BY <1>1, <1>2, Shapes DEF TypeOK
<1>9. ExecutedInv'
  <2>1. ASSUME NEW i \in DOMAIN executed
        PROVE  LET y == executed[i] IN
                 /\ y.msg <= cons'[y.by].msg
                 /\ cons'[y.by].pc \in {"ack", "write"} => y.msg < cons'[y.by].msg
                 /\ \A d \in Devices : y.msg \notin Waiting(d)
                 /\ \A e \in DOMAIN cons : y.msg \notin Held(e)
                                             /\ (e # y.by => y.msg # cons'[e].msg)
    BY <1>1, <1>3, <1>8 DEF ExecutedInv
  <2>2. \A d \in Devices : cons[c].msg \notin Waiting(d)
    BY <1>1 DEF PlaceInv
  <2>3. \A e \in DOMAIN cons : cons[c].msg \notin Held(e) /\ (e # c => cons[c].msg # cons[e].msg)
    BY <1>1, <1>8 DEF PlaceInv, Apart, InOrder
  <2>4. QED
    BY <1>3, <1>5, <1>7, <1>8, <2>1, <2>2, <2>3 DEF ExecutedInv
<1>10. \A e \in DOMAIN cons : Ran(e) => Ran(e)'
  BY <1>3, <1>5 DEF Ran
<1>11. MemoryInv'
  <2>1. Ran(c)'
    BY <1>3, <1>5 DEF Ran
  <2>2. ASSUME NEW e \in DOMAIN cons, e # c
        PROVE  CASE cons'[e].pc \in {"opening", "deaf"} -> cons'[e].cmd = 0
                 [] cons'[e].pc \in {"idle", "read"} -> cons'[e].cmd = 0 \/ Ran(e)'
                 [] cons'[e].pc \in {"ack", "write"} ->
                      \/ cons'[e].cmd = cons'[e].msg
                      \/ kind[cons'[e].msg] = "nocmd" /\ Ran(e)'
                 [] OTHER -> TRUE
    BY <1>1, <1>3, <1>10, <2>2 DEF MemoryInv
  <2>3. QED
    BY <1>2, <1>3, <2>1, <2>2 DEF MemoryInv
<1>12. OnceInOrder'
  <2>1. ASSUME NEW i \in DOMAIN executed
        PROVE  executed[i].msg # x.msg /\ (executed[i].by = c => executed[i].msg < x.msg)
    BY <1>1, <1>2, <1>8 DEF ExecutedInv
  <2>2. QED
    BY <1>1, <1>5, <2>1 DEF OnceInOrder
<1>13. AckedIsExecuted'
  <2>1. ASSUME NEW m \in acked
        PROVE  \/ \E i \in DOMAIN executed' : executed'[i].msg = m
               \/ \E e \in DOMAIN cons' :
                    cons'[e].msg = m /\ \/ cons'[e].pc = "write"
                                        \/ cons'[e].pc = "ended" /\ ~cons'[e].up
    <3>1. CASE \E i \in DOMAIN executed : executed[i].msg = m
      BY <1>5, <3>1
    <3>2. CASE m = cons[c].msg
      BY <1>5, <3>2
    <3>3. CASE \E e \in DOMAIN cons : e # c /\ cons[e].msg = m
                                      /\ \/ cons[e].pc = "write"
                                         \/ cons[e].pc = "ended" /\ ~cons[e].up
      BY <1>3, <3>3
    <3>4. QED
      BY <1>1, <3>1, <3>2, <3>3 DEF AckedIsExecuted
  <2>2. QED
    BY <1>2, <2>1 DEF AckedIsExecuted
<1>14. ExecutesWhatItSays'
  <2>1. x.cmd # x.msg => /\ kind[x.msg] = "nocmd"
                         /\ \E j \in DOMAIN executed : /\ executed[j].by = c
                                                       /\ executed[j].cmd = x.cmd
    BY <1>1, <1>2 DEF MemoryInv, Ran
  <2>2. x.cmd # x.msg => \E j \in 1 .. n - 1 : /\ executed'[j].by = c
                                               /\ executed'[j].cmd = x.cmd
    BY <1>5, <2>1
  <2>3. ASSUME NEW i \in DOMAIN executed, executed[i].cmd # executed[i].msg
        PROVE  /\ kind[executed[i].msg] = "nocmd"
               /\ \E j \in 1 .. i - 1 : /\ executed'[j].by = executed[i].by
                                        /\ executed'[j].cmd = executed[i].cmd
    <3>1. PICK j \in 1 .. i - 1 : /\ executed[j].by = executed[i].by
                                  /\ executed[j].cmd = executed[i].cmd
      BY <1>1, <2>3 DEF ExecutesWhatItSays
    <3>2. j \in DOMAIN executed
      BY <1>5
    <3>3. QED
      BY <1>1, <1>5, <2>3, <3>1, <3>2 DEF ExecutesWhatItSays
  <2>4. QED
    BY <1>2, <1>5, <2>1, <2>2, <2>3 DEF ExecutesWhatItSays
<1>15. QED
  BY <1>6, <1>7, <1>9, <1>11, <1>12, <1>13, <1>14 DEF InboundInv

LEMMA HangUpKeeps ==
  ASSUME InboundInv, NEW c \in DOMAIN cons, HangUp(c)
  PROVE  InboundInv'
<1>1. TypeOK /\ PlaceInv /\ ExecutedInv /\ MemoryInv
      /\ OnceInOrder /\ AckedIsExecuted /\ ExecutesWhatItSays
  BY DEF InboundInv
<1>2. /\ DOMAIN cons' = DOMAIN cons
      /\ \A e \in DOMAIN cons :
           /\ cons'[e].dev = cons[e].dev /\ cons'[e].buf = cons[e].buf
           /\ cons'[e].msg = cons[e].msg /\ cons'[e].cmd = cons[e].cmd
           /\ cons'[e].pc = cons[e].pc /\ cons'[e].node = cons[e].node
           /\ cons'[e].up => cons[e].up
      /\ cons' \in [DOMAIN cons -> ConsumerType]
      /\ UNCHANGED <<kind, queue, chOpen, acked, executed, answered>>
  <2>1. cons \in [DOMAIN cons -> ConsumerType]
    BY <1>1, Shapes
  <2>2. QED
    BY <2>1 DEF HangUp, ConsumerType
<1>3. TypeOK'
  <2>1. Sent' = Sent /\ ConsumerType' = ConsumerType
    BY <1>2 DEF Sent, ConsumerType
  <2>2. cons' \in Seq(ConsumerType)
    BY <1>1, <1>2, ConsumersAreASequence
  <2>3. QED
    BY <1>1, <1>2, <2>1, <2>2 DEF TypeOK
<1>4. /\ PlaceInv'
      /\ \A e \in DOMAIN cons : Held(e)' = Held(e)
      /\ \A d \in Devices : Waiting(d)' = Waiting(d)
  BY <1>1, <1>2, PlacesKept
<1>5. ExecutedInv'
  <2>1. \A i \in DOMAIN executed : executed[i].by \in DOMAIN cons
    BY <1>1, Shapes
  <2>2. QED
    BY <1>1, <1>2, <1>4, <2>1 DEF ExecutedInv
<1>6. MemoryInv'
  <2>1. \A e \in DOMAIN cons : Ran(e)' = Ran(e)
    BY <1>2 DEF Ran
  <2>2. QED
    BY <1>1, <1>2, <2>1 DEF MemoryInv
<1>7. OnceInOrder' /\ ExecutesWhatItSays' /\ AckedIsExecuted'
  BY <1>1, <1>2 DEF OnceInOrder, ExecutesWhatItSays, AckedIsExecuted
<1>8. QED
  BY <1>3, <1>4, <1>5, <1>6, <1>7 DEF InboundInv

\* A consumer that takes the first message of its buffer has it for itself.
LEMMA TookKeeps ==
  ASSUME InboundInv, NEW c \in DOMAIN cons, cons[c].pc = "idle", cons[c].buf # <<>>,
         NEW node \in Nodes, NEW cmd \in {0} \cup Sent, NEW p \in {"ack", "ended"},
         Took(c, node, cmd, p),
         p = "ack" => /\ node = "own" /\ cmd # 0
                      /\ \/ cmd = Head(cons[c].buf)
                         \/ kind[Head(cons[c].buf)] = "nocmd" /\ cmd = cons[c].cmd,
         UNCHANGED <<kind, queue, chOpen, acked, executed, answered>>
  PROVE  InboundInv'
<1>1. TypeOK /\ PlaceInv /\ ExecutedInv /\ MemoryInv
      /\ OnceInOrder /\ AckedIsExecuted /\ ExecutesWhatItSays
  BY DEF InboundInv
<1> DEFINE h == Head(cons[c].buf)
           rest == Tail(cons[c].buf)
<1>2. /\ h \in Sent /\ h \in Nat /\ rest \in Seq(Sent) /\ Sorted(rest)
      /\ Held(c) = Range(rest) \cup {h} /\ \A m \in Range(rest) : h < m
      /\ cons[c].msg \in Nat /\ cons[c].msg < h
  <2>1. cons[c].buf \in Seq(Sent) /\ cons[c].buf \in Seq(Nat) /\ cons[c].msg \in Nat
        /\ Sent \subseteq Nat
    BY <1>1, Shapes
  <2>2. h \in Sent /\ rest \in Seq(Sent)
    BY <2>1, SeqFacts, TailFacts
  <2>3. InOrder(c)
    BY <1>1 DEF PlaceInv
  <2>4. Sorted(rest) /\ Range(cons[c].buf) = Range(rest) \cup {h}
        /\ \A m \in Range(rest) : h < m
    BY <2>1, <2>3, SortedTail DEF InOrder
  <2>5. QED
    BY <2>1, <2>2, <2>3, <2>4 DEF InOrder, Held
<1> HIDE DEF h, rest
<1>3. /\ DOMAIN cons' = DOMAIN cons
      /\ cons'[c].dev = cons[c].dev /\ cons'[c].up = cons[c].up
      /\ cons'[c].buf = rest /\ cons'[c].msg = h /\ cons'[c].pc = p
      /\ cons'[c].node = node /\ cons'[c].cmd = cmd
      /\ \A e \in DOMAIN cons : e # c => cons'[e] = cons[e]
      /\ cons' \in [DOMAIN cons -> ConsumerType]
  <2>1. cons \in [DOMAIN cons -> ConsumerType]
    BY <1>1, Shapes
  <2>2. p \in Pcs
    BY DEF Pcs
  <2> DEFINE r == [dev |-> cons[c].dev, up |-> cons[c].up, pc |-> p, node |-> node,
                   cmd |-> cmd, buf |-> rest, msg |-> h]
  <2>3. cons' = [cons EXCEPT ![c] = r]
    BY DEF Took, h, rest
  <2>4. r \in ConsumerType
    BY <1>2, <2>1, <2>2 DEF ConsumerType
  <2>5. cons'[c] = r
    BY <2>1, <2>3
  <2> HIDE DEF r
  <2>6. /\ DOMAIN cons' = DOMAIN cons /\ \A e \in DOMAIN cons : e # c => cons'[e] = cons[e]
        /\ cons' \in [DOMAIN cons -> ConsumerType]
    BY <2>1, <2>3, <2>4
  <2>7. QED
    BY <2>5, <2>6 DEF r
<1>4. TypeOK'
  <2>1. Sent' = Sent /\ ConsumerType' = ConsumerType
    BY DEF Sent, ConsumerType
  <2>2. cons' \in Seq(ConsumerType)
    BY <1>1, <1>3, ConsumersAreASequence
  <2>3. h # 0
    BY <1>2
  <2>4. \A e \in DOMAIN cons : cons'[e].pc \in {"ack", "write", "read"} =>
          cons'[e].node = "own" /\ cons'[e].cmd # 0 /\ cons'[e].msg # 0
    BY <1>1, <1>3, <2>3 DEF TypeOK
  <2>5. QED
    BY <1>1, <1>3, <2>1, <2>2, <2>4 DEF TypeOK
<1>5. /\ Held(c)' = Range(rest)
      /\ \A e \in DOMAIN cons : e # c => Held(e)' = Held(e)
      /\ \A d \in Devices : Waiting(d)' = Waiting(d)
  BY <1>3 DEF Held, Waiting
<1>6. PlaceInv'
  <2>1. ASSUME NEW e \in DOMAIN cons
        PROVE  InOrder(e)'
    <3>1. InOrder(e) /\ cons[e].dev \in Devices
      BY <1>1, Shapes DEF PlaceInv
    <3>2. CASE e = c
      BY <1>2, <1>3, <1>5, <3>1, <3>2 DEF InOrder
    <3>3. CASE e # c
      BY <1>3, <1>5, <3>1, <3>3 DEF InOrder
    <3>4. QED
      BY <3>2, <3>3
  <2>2. ASSUME NEW e \in DOMAIN cons, NEW f \in DOMAIN cons, e # f
        PROVE  Apart(e, f)'
    <3>1. Apart(e, f) /\ Apart(f, e)
      BY <1>1, <2>2 DEF PlaceInv
    <3>2. QED
      BY <1>2, <1>3, <1>5, <2>2, <3>1 DEF Apart
  <2>3. ASSUME NEW d \in Devices, NEW e \in DOMAIN cons
        PROVE  Waiting(d) \cap (Held(e)' \cup {cons'[e].msg}) = {}
    <3>1. Waiting(d) \cap (Held(e) \cup {cons[e].msg}) = {}
      BY <1>1 DEF PlaceInv
    <3>2. QED
      BY <1>2, <1>3, <1>5, <3>1
  <2>4. QED
    BY <1>1, <1>3, <1>5, <2>1, <2>2, <2>3 DEF PlaceInv
<1>7. ExecutedInv'
  <2>1. ASSUME NEW i \in DOMAIN executed
        PROVE  LET y == executed[i] IN
                 /\ y.msg <= cons'[y.by].msg
                 /\ cons'[y.by].pc \in {"ack", "write"} => y.msg < cons'[y.by].msg
                 /\ \A d \in Devices : y.msg \notin Waiting(d)
                 /\ \A e \in DOMAIN cons : y.msg \notin Held(e)'
                                             /\ (e # y.by => y.msg # cons'[e].msg)
    <3>1. executed[i].by \in DOMAIN cons /\ executed[i].msg \in Nat
      BY <1>1, Shapes
    <3>2. LET y == executed[i] IN
            /\ y.msg <= cons[y.by].msg
            /\ cons[y.by].pc \in {"ack", "write"} => y.msg < cons[y.by].msg
            /\ \A d \in Devices : y.msg \notin Waiting(d)
            /\ \A e \in DOMAIN cons : y.msg \notin Held(e)
                                        /\ (e # y.by => y.msg # cons[e].msg)
      BY <1>1 DEF ExecutedInv
    <3>3. executed[i].by = c => executed[i].msg < h
      BY <1>2, <3>1, <3>2
    <3>4. QED
      BY <1>2, <1>3, <1>5, <3>1, <3>2, <3>3
  <2>2. QED
    BY <1>3, <1>5, <2>1 DEF ExecutedInv
<1>8. MemoryInv'
  <2>1. \A e \in DOMAIN cons : e # c => Ran(e)' = Ran(e)
    BY <1>3 DEF Ran
  <2>2. cmd = cons[c].cmd => Ran(c)' = Ran(c)
    BY <1>3 DEF Ran
  <2>3. cons[c].cmd = 0 \/ Ran(c)
    BY <1>1 DEF MemoryInv
  <2>4. p = "ack" => cmd = h \/ (kind[h] = "nocmd" /\ Ran(c)')
    BY <2>2, <2>3 DEF h
  <2>5. QED
    BY <1>1, <1>3, <2>1, <2>4 DEF MemoryInv
<1>9. OnceInOrder' /\ ExecutesWhatItSays'
  BY <1>1 DEF OnceInOrder, ExecutesWhatItSays
<1>10. AckedIsExecuted'
  BY <1>1, <1>3 DEF AckedIsExecuted
<1>11. QED
  BY <1>4, <1>6, <1>7, <1>8, <1>9, <1>10 DEF InboundInv

\* The broker moves the first message of a queue to the end of a buffer.
LEMMA DeliverKeeps ==
  ASSUME InboundInv, NEW c \in DOMAIN cons, Deliver(c)
  PROVE  InboundInv'
<1>1. TypeOK /\ PlaceInv /\ ExecutedInv /\ MemoryInv
      /\ OnceInOrder /\ AckedIsExecuted /\ ExecutesWhatItSays
  BY DEF InboundInv
<1>0. PICK d \in Devices : d = cons[c].dev
  BY <1>1, Shapes
<1> DEFINE h == Head(queue[d])
           rest == Tail(queue[d])
           more == Append(cons[c].buf, h)
<1>2. /\ d \in Devices /\ h \in Sent /\ h \in Nat /\ rest \in Seq(Sent) /\ Sorted(rest)
      /\ Waiting(d) = Range(rest) \cup {h} /\ \A m \in Range(rest) : h < m
      /\ \A k \in Held(c) : k < h
      /\ cons[c].msg < h
      /\ more \in Seq(Sent) /\ Sorted(more) /\ Range(more) = Held(c) \cup {h}
  <2>1. /\ d \in Devices /\ queue[d] \in Seq(Sent) /\ queue[d] \in Seq(Nat)
        /\ cons[c].buf \in Seq(Sent) /\ cons[c].buf \in Seq(Nat) /\ Sent \subseteq Nat
    BY <1>1, Shapes
  <2>2. queue[d] # <<>>
    BY <1>0 DEF Deliver
  <2>3. h \in Sent /\ h \in Nat /\ rest \in Seq(Sent)
    BY <2>1, <2>2, SeqFacts, TailFacts
  <2>4. Sorted(queue[d]) /\ InOrder(c)
    BY <1>1, <2>1 DEF PlaceInv
  <2>5. Sorted(rest) /\ Range(queue[d]) = Range(rest) \cup {h} /\ \A m \in Range(rest) : h < m
    BY <2>1, <2>2, <2>4, SortedTail
  <2>6. (\A k \in Held(c) : k < h) /\ cons[c].msg < h
    BY <1>0, <2>4, <2>5 DEF InOrder, Waiting
  <2>7. Sorted(more) /\ Range(more) = Range(cons[c].buf) \cup {h}
    BY <2>1, <2>3, <2>4, <2>6, SortedAppend DEF InOrder, Held
  <2>8. more \in Seq(Sent)
    BY <2>1, <2>3, AppendFacts
  <2>9. QED
    BY <2>1, <2>3, <2>5, <2>6, <2>7, <2>8 DEF Held, Waiting
<1>3. /\ DOMAIN cons' = DOMAIN cons
      /\ \A e \in DOMAIN cons :
           /\ cons'[e].dev = cons[e].dev /\ cons'[e].msg = cons[e].msg
           /\ cons'[e].cmd = cons[e].cmd /\ cons'[e].pc = cons[e].pc
           /\ cons'[e].node = cons[e].node /\ cons'[e].up = cons[e].up
           /\ e # c => cons'[e].buf = cons[e].buf
      /\ cons'[c].buf = more
      /\ cons' \in [DOMAIN cons -> ConsumerType]
  <2>1. cons \in [DOMAIN cons -> ConsumerType]
    BY <1>1, Shapes
  <2>2. cons' = [cons EXCEPT ![c].buf = more]
    BY <1>0 DEF Deliver
  <2> HIDE DEF more
  <2>3. QED
    BY <1>2, <2>1, <2>2 DEF ConsumerType
<1>4. /\ queue' \in [Devices -> Seq(Sent)] /\ queue'[d] = rest
      /\ \A e \in Devices : e # d => queue'[e] = queue[e]
      /\ UNCHANGED <<kind, chOpen, acked, executed, answered>>
  <2>1. queue \in [Devices -> Seq(Sent)]
    BY <1>1 DEF TypeOK
  <2>2. queue' = [queue EXCEPT ![d] = rest] /\ UNCHANGED <<kind, chOpen, acked, executed, answered>>
    BY <1>0 DEF Deliver
  <2> HIDE DEF rest
  <2>3. QED
    BY <1>2, <2>1, <2>2
<1> HIDE DEF h, rest, more
<1>6. /\ Held(c)' = Held(c) \cup {h} /\ \A e \in DOMAIN cons : e # c => Held(e)' = Held(e)
      /\ Waiting(d)' = Range(rest)
      /\ \A e \in Devices : e # d => Waiting(e)' = Waiting(e)
  BY <1>2, <1>3, <1>4 DEF Held, Waiting
<1>7. TypeOK'
  <2>1. Sent' = Sent /\ ConsumerType' = ConsumerType
    BY <1>4 DEF Sent, ConsumerType
  <2>2. cons' \in Seq(ConsumerType)
    BY <1>1, <1>3, ConsumersAreASequence
  <2>3. QED
    BY <1>1, <1>3, <1>4, <2>1, <2>2 DEF TypeOK
<1>8. PlaceInv'
  <2>1. ASSUME NEW e \in DOMAIN cons
        PROVE  InOrder(e)'
    <3>1. InOrder(e) /\ cons[e].dev \in Devices /\ InOrder(c)
      BY <1>1, Shapes DEF PlaceInv
    <3>2. \A f \in Devices : Waiting(f)' \subseteq Waiting(f)
      BY <1>2, <1>6
    <3>3. CASE e = c
      BY <1>2, <1>3, <1>0, <1>6, <3>1, <3>3 DEF InOrder
    <3>4. CASE e # c
      <4>1. /\ cons'[e].dev = cons[e].dev /\ cons'[e].msg = cons[e].msg
            /\ cons'[e].buf = cons[e].buf /\ Held(e)' = Held(e)
        BY <1>3, <1>6, <3>4
      <4>2. QED
        BY <3>1, <3>2, <4>1 DEF InOrder
    <3>5. QED
      BY <3>3, <3>4
  <2>2. ASSUME NEW e \in DOMAIN cons
        PROVE  h \notin Held(e) /\ h # cons[e].msg
    BY <1>1, <1>2 DEF PlaceInv
  <2>3. ASSUME NEW e \in DOMAIN cons, NEW f \in DOMAIN cons, e # f
        PROVE  Apart(e, f)'
    <3>1. Apart(e, f)
      BY <1>1, <2>3 DEF PlaceInv
    <3>2. QED
      BY <1>3, <1>6, <2>2, <2>3, <3>1 DEF Apart
  <2>4. ASSUME NEW e \in Devices
        PROVE  /\ Sorted(queue'[e]) /\ Waiting(e)' \subseteq Waiting(e)
               /\ h \notin Waiting(e)'
    <3>1. Sorted(queue[e]) /\ (e # d => Waiting(e) \cap Waiting(d) = {})
      BY <1>1, <1>2 DEF PlaceInv
    <3>2. CASE e = d
      BY <1>2, <1>4, <1>6, <3>2
    <3>3. CASE e # d
      BY <1>2, <1>4, <1>6, <3>1, <3>3
    <3>4. QED
      BY <3>2, <3>3
  <2>5. \A e, f \in Devices : e # f => Waiting(e)' \cap Waiting(f)' = {}
    <3>1. \A e, f \in Devices : e # f => Waiting(e) \cap Waiting(f) = {}
      BY <1>1 DEF PlaceInv
    <3>2. QED
      BY <2>4, <3>1
  <2>6. \A e \in Devices, f \in DOMAIN cons : Waiting(e)' \cap (Held(f)' \cup {cons'[f].msg}) = {}
    <3>1. \A e \in Devices, f \in DOMAIN cons : Waiting(e) \cap (Held(f) \cup {cons[f].msg}) = {}
      BY <1>1 DEF PlaceInv
    <3>2. \A f \in DOMAIN cons : Held(f)' \subseteq Held(f) \cup {h} /\ cons'[f].msg = cons[f].msg
      BY <1>3, <1>6
    <3>3. QED
      BY <2>4, <3>1, <3>2
  <2>7. QED
    BY <1>3, <2>1, <2>3, <2>4, <2>5, <2>6 DEF PlaceInv
<1>9. ExecutedInv'
  <2>1. \A i \in DOMAIN executed : executed[i].by \in DOMAIN cons /\ executed[i].msg # h
    BY <1>1, <1>2, Shapes DEF ExecutedInv
  <2>2. \A e \in Devices : Waiting(e)' \subseteq Waiting(e)
    BY <1>2, <1>6
  <2>3. \A e \in DOMAIN cons : Held(e)' \subseteq Held(e) \cup {h}
    BY <1>6
  <2>4. QED
    BY <1>1, <1>3, <1>4, <2>1, <2>2, <2>3 DEF ExecutedInv
<1>10. MemoryInv'
  <2>1. \A e \in DOMAIN cons : Ran(e)' = Ran(e)
    BY <1>3, <1>4 DEF Ran
  <2>2. QED
    BY <1>1, <1>3, <1>4, <2>1 DEF MemoryInv
<1>11. OnceInOrder' /\ ExecutesWhatItSays' /\ AckedIsExecuted'
  BY <1>1, <1>3, <1>4 DEF OnceInOrder, ExecutesWhatItSays, AckedIsExecuted
<1>12. QED
  BY <1>7, <1>8, <1>9, <1>10, <1>11 DEF InboundInv

LEMMA SeqMonotonic ==
  ASSUME NEW S, NEW T, S \subseteq T, NEW s \in Seq(S)
  PROVE  s \in Seq(T)
OBVIOUS

\* A message that is sent is greater than all before it.
LEMMA SendKeeps ==
  ASSUME InboundInv, NEW d \in Devices, NEW k \in Kinds, Send(d, k)
  PROVE  InboundInv'
<1>1. TypeOK /\ PlaceInv /\ ExecutedInv /\ MemoryInv
      /\ OnceInOrder /\ AckedIsExecuted /\ ExecutesWhatItSays
  BY DEF InboundInv
<1> DEFINE n == Len(kind) + 1
<1>2. /\ kind' \in Seq(Kinds) /\ \A m \in Sent : kind'[m] = kind[m]
      /\ Sent' = Sent \cup {n} /\ n \in Nat /\ \A m \in Sent : m < n
      /\ n \notin Sent /\ Sent \subseteq Nat /\ 0 \notin Sent /\ n # 0
  <2>1. kind \in Seq(Kinds) /\ kind' = Append(kind, k)
    BY <1>1 DEF TypeOK, Send
  <2>2. Sent = 1 .. Len(kind) /\ Len(kind) \in Nat
    BY <1>1, Shapes
  <2>3. kind' \in Seq(Kinds) /\ DOMAIN kind' = DOMAIN kind \cup {n}
        /\ \A m \in DOMAIN kind : kind'[m] = kind[m]
    BY <2>1, AppendFacts
  <2>4. QED
    BY <2>2, <2>3 DEF Sent
<1>3. UNCHANGED <<cons, chOpen, acked, executed, answered>>
  BY DEF Send
<1>4. /\ \A e \in Devices : /\ queue'[e] \in Seq(Sent') /\ Sorted(queue'[e])
                            /\ Waiting(e)' \subseteq Waiting(e) \cup {n}
                            /\ e # d => Waiting(e)' = Waiting(e)
      /\ queue' \in [Devices -> Seq(Sent')]
  <2>1. /\ queue \in [Devices -> Seq(Sent)]
        /\ \A e \in Devices : Sorted(queue[e]) /\ queue[e] \in Seq(Sent) /\ queue[e] \in Seq(Nat)
    BY <1>1, Shapes DEF TypeOK, PlaceInv
  <2>2. \A s : s \in Seq(Sent) => s \in Seq(Sent')
    BY <1>2, SeqMonotonic
  <2>3. CASE queue' = queue
    BY <2>1, <2>2, <2>3 DEF Waiting
  <2>4. CASE queue' = [queue EXCEPT ![d] = Append(queue[d], n)]
    <3>1. \A m \in Range(queue[d]) : m < n
      BY <1>1, <1>2, WaitingIsSent DEF Waiting
    <3>2. Sorted(Append(queue[d], n)) /\ Range(Append(queue[d], n)) = Range(queue[d]) \cup {n}
      BY <1>2, <2>1, <3>1, SortedAppend
    <3>3. Append(queue[d], n) \in Seq(Sent')
      BY <1>2, <2>1, <2>2, AppendFacts
    <3>4. /\ queue'[d] = Append(queue[d], n)
          /\ \A e \in Devices : e # d => queue'[e] = queue[e]
          /\ DOMAIN queue' = Devices
          /\ queue' = [e \in Devices |-> queue'[e]]
      BY <2>1, <2>4
    <3>5. \A e \in Devices : queue'[e] \in Seq(Sent') /\ Sorted(queue'[e])
      BY <2>1, <2>2, <3>2, <3>3, <3>4
    <3>6. \A e \in Devices : /\ Waiting(e)' \subseteq Waiting(e) \cup {n}
                             /\ e # d => Waiting(e)' = Waiting(e)
      BY <3>2, <3>4 DEF Waiting
    <3>7. QED
      BY <3>4, <3>5, <3>6
  <2>5. QED
    BY <2>3, <2>4 DEF Send
<1> HIDE DEF n
<1>5. \A e \in DOMAIN cons : Held(e)' = Held(e)
  BY <1>3 DEF Held
<1>6. TypeOK'
  <2>1. ConsumerType \subseteq ConsumerType'
    <3>1. \A s : s \in Seq(Sent) => s \in Seq(Sent')
      BY <1>2, SeqMonotonic
    <3>2. QED
      BY <1>2, <3>1 DEF ConsumerType
  <2>2. cons' \in Seq(ConsumerType')
    BY <1>1, <1>3, <2>1, SeqMonotonic DEF TypeOK
  <2>3. executed' \in Seq([msg : Sent', cmd : Sent', by : DOMAIN cons'])
    <3>1. [msg : Sent, cmd : Sent, by : DOMAIN cons]
            \subseteq [msg : Sent', cmd : Sent', by : DOMAIN cons']
      BY <1>2, <1>3
    <3>2. executed \in Seq([msg : Sent, cmd : Sent, by : DOMAIN cons])
      BY <1>1 DEF TypeOK
    <3>3. executed \in Seq([msg : Sent', cmd : Sent', by : DOMAIN cons'])
      BY <3>1, <3>2, SeqMonotonic
    <3>4. QED
      BY <1>3, <3>3
  <2>4. QED
    BY <1>1, <1>2, <1>3, <1>4, <2>2, <2>3 DEF TypeOK
<1>7. PlaceInv'
  <2>1. ASSUME NEW e \in DOMAIN cons
        PROVE  InOrder(e)'
    <3>1. InOrder(e) /\ cons[e].dev \in Devices
          /\ cons[e].msg \in {0} \cup Sent /\ Held(e) \subseteq Sent
      BY <1>1, Shapes, WaitingIsSent DEF PlaceInv
    <3>2. cons[e].msg < n /\ \A m \in Held(e) : m < n
      BY <1>2, <3>1
    <3>3. QED
      BY <1>3, <1>4, <1>5, <3>1, <3>2 DEF InOrder
  <2>2. \A e, f \in DOMAIN cons : e # f => Apart(e, f)'
    BY <1>1, <1>3, <1>5 DEF PlaceInv, Apart
  <2>3. \A e, f \in Devices : e # f => Waiting(e)' \cap Waiting(f)' = {}
    <3>1. \A e, f \in Devices : e # f => Waiting(e) \cap Waiting(f) = {}
      BY <1>1 DEF PlaceInv
    <3>2. \A e \in Devices : n \notin Waiting(e)
      BY <1>1, <1>2, WaitingIsSent
    <3>3. QED
      BY <1>4, <3>1, <3>2
  <2>4. ASSUME NEW e \in Devices, NEW f \in DOMAIN cons
        PROVE  Waiting(e)' \cap (Held(f) \cup {cons[f].msg}) = {}
    <3>1. Waiting(e) \cap (Held(f) \cup {cons[f].msg}) = {}
      BY <1>1 DEF PlaceInv
    <3>2. n \notin Held(f) /\ n # cons[f].msg
      BY <1>1, <1>2, Shapes, WaitingIsSent
    <3>3. QED
      BY <1>4, <3>1, <3>2
  <2>5. QED
    BY <1>3, <1>4, <1>5, <2>1, <2>2, <2>3, <2>4 DEF PlaceInv
<1>8. ExecutedInv'
  <2>1. \A i \in DOMAIN executed : executed[i].by \in DOMAIN cons /\ executed[i].msg # n
    BY <1>1, <1>2, Shapes
  <2>2. QED
    BY <1>1, <1>3, <1>4, <1>5, <2>1 DEF ExecutedInv
<1>9. MemoryInv'
  <2>1. \A e \in DOMAIN cons : Ran(e)' = Ran(e)
    BY <1>3 DEF Ran
  <2>2. \A e \in DOMAIN cons : cons[e].pc \in {"ack", "write"} =>
          kind'[cons[e].msg] = kind[cons[e].msg]
    BY <1>1, <1>2, Shapes DEF TypeOK
  <2>3. QED
    BY <1>1, <1>3, <2>1, <2>2 DEF MemoryInv
<1>10. OnceInOrder' /\ AckedIsExecuted'
  BY <1>1, <1>3 DEF OnceInOrder, AckedIsExecuted
<1>11. ExecutesWhatItSays'
  <2>1. \A i \in DOMAIN executed : kind'[executed[i].msg] = kind[executed[i].msg]
    BY <1>1, <1>2, Shapes
  <2>2. QED
    BY <1>1, <1>3, <2>1 DEF ExecutesWhatItSays
<1>12. QED
  BY <1>6, <1>7, <1>8, <1>9, <1>10, <1>11 DEF InboundInv

\* What waited is dropped.
LEMMA ChannelClosesKeeps ==
  ASSUME InboundInv, ChannelCloses
  PROVE  InboundInv'
<1>1. TypeOK /\ PlaceInv /\ ExecutedInv /\ MemoryInv
      /\ OnceInOrder /\ AckedIsExecuted /\ ExecutesWhatItSays
  BY DEF InboundInv
<1>2. /\ DOMAIN cons' = DOMAIN cons
      /\ \A e \in DOMAIN cons :
           /\ cons'[e].dev = cons[e].dev /\ cons'[e].msg = cons[e].msg
           /\ cons'[e].cmd = cons[e].cmd /\ cons'[e].pc = cons[e].pc
           /\ cons'[e].node = cons[e].node /\ cons'[e].up = cons[e].up
           /\ cons'[e].buf = <<>>
      /\ cons' \in [DOMAIN cons -> ConsumerType]
      /\ UNCHANGED <<kind, acked, executed, answered>>
  <2>1. cons \in [DOMAIN cons -> ConsumerType]
    BY <1>1, Shapes
  <2>2. cons' = [c \in DOMAIN cons |-> [cons[c] EXCEPT !.buf = <<>>]]
        /\ UNCHANGED <<kind, acked, executed, answered>>
    BY DEF ChannelCloses
  <2>3. <<>> \in Seq(Sent)
    OBVIOUS
  <2>4. \A r \in ConsumerType : [r EXCEPT !.buf = <<>>] \in ConsumerType
    BY <2>3 DEF ConsumerType
  <2>5. QED
    BY <2>1, <2>2, <2>4 DEF ConsumerType
<1>3. queue' = [d \in Devices |-> <<>>] /\ chOpen' \in BOOLEAN
  BY DEF ChannelCloses
<1>4. /\ \A e \in DOMAIN cons : Held(e)' = {}
      /\ \A d \in Devices : Waiting(d)' = {} /\ queue'[d] = <<>>
  BY <1>2, <1>3 DEF Held, Waiting, Range
<1>5. Sorted(<<>>)
  BY DEF Sorted
<1>6. TypeOK'
  <2>1. Sent' = Sent /\ ConsumerType' = ConsumerType
    BY <1>2 DEF Sent, ConsumerType
  <2>2. cons' \in Seq(ConsumerType)
    BY <1>1, <1>2, ConsumersAreASequence
  <2>3. queue' \in [Devices -> Seq(Sent)]
    BY <1>3
  <2>4. QED
    BY <1>1, <1>2, <1>3, <2>1, <2>2, <2>3 DEF TypeOK
<1>7. PlaceInv'
  <2>1. \A e \in DOMAIN cons : InOrder(e)'
    <3>1. \A e \in DOMAIN cons : cons[e].dev \in Devices
      BY <1>1, Shapes
    <3>2. QED
      BY <1>2, <1>4, <1>5, <3>1 DEF InOrder
  <2>2. \A e, f \in DOMAIN cons : e # f => Apart(e, f)'
    BY <1>1, <1>2, <1>4 DEF PlaceInv, Apart
  <2>3. QED
    BY <1>2, <1>4, <1>5, <2>1, <2>2 DEF PlaceInv
<1>8. ExecutedInv'
  <2>1. \A i \in DOMAIN executed : executed[i].by \in DOMAIN cons
    BY <1>1, Shapes
  <2>2. QED
    BY <1>1, <1>2, <1>4, <2>1 DEF ExecutedInv
<1>9. MemoryInv'
  <2>1. \A e \in DOMAIN cons : Ran(e)' = Ran(e)
    BY <1>2 DEF Ran
  <2>2. QED
    BY <1>1, <1>2, <2>1 DEF MemoryInv
<1>10. OnceInOrder' /\ ExecutesWhatItSays' /\ AckedIsExecuted'
  BY <1>1, <1>2 DEF OnceInOrder, ExecutesWhatItSays, AckedIsExecuted
<1>11. QED
  BY <1>6, <1>7, <1>8, <1>9, <1>10 DEF InboundInv

\* A new consumer has nothing.
LEMMA WorkerConnectsKeeps ==
  ASSUME InboundInv, NEW d \in Devices, WorkerConnects(d)
  PROVE  InboundInv'
<1>1. TypeOK /\ PlaceInv /\ ExecutedInv /\ MemoryInv
      /\ OnceInOrder /\ AckedIsExecuted /\ ExecutesWhatItSays
  BY DEF InboundInv
<1>0. PICK n \in Nat : n = Len(cons) + 1
  BY <1>1, Shapes
<1>2. /\ cons' \in Seq(ConsumerType)
      /\ DOMAIN cons' = DOMAIN cons \cup {n} /\ n \notin DOMAIN cons
      /\ \A e \in DOMAIN cons : cons'[e] = cons[e]
      /\ cons'[n] = Fresh(d)
      /\ UNCHANGED <<kind, queue, chOpen, acked, executed, answered>>
  <2>1. Fresh(d) \in ConsumerType
    BY DEF Fresh, ConsumerType, Pcs, Nodes
  <2>2. cons \in Seq(ConsumerType)
    BY <1>1 DEF TypeOK
  <2>3. cons' = Append(cons, Fresh(d)) /\ UNCHANGED <<kind, queue, chOpen, acked, executed, answered>>
    BY DEF WorkerConnects
  <2>4. QED
    BY <1>0, <2>1, <2>2, <2>3, AppendFacts
<1>3. /\ cons'[n].dev = d /\ cons'[n].pc = "opening" /\ cons'[n].buf = <<>>
      /\ cons'[n].msg = 0 /\ cons'[n].cmd = 0
  BY <1>2 DEF Fresh
<1>4. /\ Held(n)' = {} /\ \A e \in DOMAIN cons : Held(e)' = Held(e)
      /\ \A e \in Devices : Waiting(e)' = Waiting(e)
  <2>1. Held(n)' = {}
    BY <1>3 DEF Held, Range
  <2>2. QED
    BY <1>2, <2>1 DEF Held, Waiting
<1>5. TypeOK'
  <2>1. Sent' = Sent /\ ConsumerType' = ConsumerType
    BY <1>2 DEF Sent, ConsumerType
  <2>2. executed' \in Seq([msg : Sent, cmd : Sent, by : DOMAIN cons'])
    <3>1. [msg : Sent, cmd : Sent, by : DOMAIN cons] \subseteq [msg : Sent, cmd : Sent, by : DOMAIN cons']
      BY <1>2
    <3>2. QED
      BY <1>1, <1>2, <3>1, SeqMonotonic DEF TypeOK
  <2>3. \A e \in DOMAIN cons' : cons'[e].pc \in {"ack", "write", "read"} =>
          cons'[e].node = "own" /\ cons'[e].cmd # 0 /\ cons'[e].msg # 0
    BY <1>1, <1>2, <1>3 DEF TypeOK
  <2>4. QED
    BY <1>1, <1>2, <2>1, <2>2, <2>3 DEF TypeOK
<1>6. PlaceInv'
  <2>1. /\ Waiting(d) \subseteq Sent /\ 0 \notin Sent /\ Sent \subseteq Nat
        /\ \A e \in Devices : Waiting(e) \subseteq Sent
        /\ \A e \in DOMAIN cons : Held(e) \subseteq Sent
    BY <1>1, Shapes, WaitingIsSent
  <2>2. InOrder(n)'
    <3>1. Sorted(cons'[n].buf)
      BY <1>3 DEF Sorted
    <3>2. \A m \in Waiting(d) : 0 < m
      <4>1. \A m \in Nat : m # 0 => 0 < m
        OBVIOUS
      <4>2. QED
        BY <2>1, <4>1, Zenon
    <3>3. QED
      BY <1>3, <1>4, <3>1, <3>2 DEF InOrder
  <2>3. ASSUME NEW e \in DOMAIN cons
        PROVE  InOrder(e)' /\ Apart(e, n)' /\ Apart(n, e)'
    <3>1. InOrder(e) /\ cons[e].dev \in Devices
      BY <1>1, Shapes DEF PlaceInv
    <3>2. InOrder(e)'
      BY <1>2, <1>4, <3>1 DEF InOrder
    <3>3. Apart(e, n)' /\ Apart(n, e)'
      BY <1>2, <1>3, <1>4, <2>1 DEF Apart
    <3>4. QED
      BY <3>2, <3>3
  <2>4. \A e, f \in DOMAIN cons : e # f => Apart(e, f)'
    BY <1>1, <1>2, <1>4 DEF PlaceInv, Apart
  <2>5. ASSUME NEW e \in Devices
        PROVE  /\ Sorted(queue'[e])
               /\ \A f \in Devices : e # f => Waiting(e)' \cap Waiting(f)' = {}
               /\ \A c \in DOMAIN cons' : Waiting(e)' \cap (Held(c)' \cup {cons'[c].msg}) = {}
    BY <1>1, <1>2, <1>3, <1>4, <2>1 DEF PlaceInv
  <2>6. QED
    BY <1>2, <2>2, <2>3, <2>4, <2>5 DEF PlaceInv
<1>7. ExecutedInv'
  <2>1. \A i \in DOMAIN executed : executed[i].by \in DOMAIN cons /\ executed[i].msg # 0
    BY <1>1, Shapes, WaitingIsSent
  <2>2. QED
    BY <1>1, <1>2, <1>3, <1>4, <2>1 DEF ExecutedInv
<1>8. MemoryInv'
  <2>1. \A e \in DOMAIN cons : Ran(e)' = Ran(e)
    BY <1>2 DEF Ran
  <2>2. QED
    BY <1>1, <1>2, <1>3, <2>1 DEF MemoryInv
<1>9. OnceInOrder' /\ ExecutesWhatItSays' /\ AckedIsExecuted'
  BY <1>1, <1>2 DEF OnceInOrder, ExecutesWhatItSays, AckedIsExecuted
<1>10. QED
  BY <1>5, <1>6, <1>7, <1>8, <1>9 DEF InboundInv

-----------------------------------------------------------------------------
(* The theorems                                                            *)

LEMMA InboundStarts == InboundInit => InboundInv
<1> SUFFICES ASSUME InboundInit
             PROVE  InboundInv
  OBVIOUS
<1>1. /\ cons = <<>> /\ kind = <<>> /\ executed = <<>>
      /\ DOMAIN cons = {} /\ DOMAIN executed = {} /\ Sent = {}
      /\ \A d \in Devices : queue[d] = <<>> /\ Waiting(d) = {}
  BY DEF InboundInit, Sent, Waiting, Range
<1>2. TypeOK
  BY <1>1 DEF InboundInit, TypeOK
<1>3. PlaceInv
  BY <1>1 DEF PlaceInv, Sorted
<1>4. ExecutedInv /\ MemoryInv /\ OnceInOrder /\ AckedIsExecuted /\ ExecutesWhatItSays
  BY <1>1 DEF InboundInit, ExecutedInv, MemoryInv, OnceInOrder, AckedIsExecuted,
              ExecutesWhatItSays
<1>5. QED
  BY <1>2, <1>3, <1>4 DEF InboundInv

\* The invariant is about nothing that Sessions knows.
LEMMA OthersKeep ==
  ASSUME InboundInv, UNCHANGED inboundVars
  PROVE  InboundInv'
<1>1. TypeOK /\ PlaceInv /\ ExecutedInv /\ MemoryInv
      /\ OnceInOrder /\ AckedIsExecuted /\ ExecutesWhatItSays
  BY DEF InboundInv
<1>2. UNCHANGED <<cons, kind, queue, chOpen, acked, executed, answered>>
  BY DEF inboundVars
<1>3. TypeOK'
  <2>1. Sent' = Sent /\ ConsumerType' = ConsumerType
    BY <1>2 DEF Sent, ConsumerType
  <2>2. QED
    BY <1>1, <1>2, <2>1 DEF TypeOK
<1>4. /\ PlaceInv'
      /\ \A e \in DOMAIN cons : Held(e)' = Held(e)
      /\ \A d \in Devices : Waiting(d)' = Waiting(d)
  BY <1>1, <1>2, PlacesKept
<1>5. ExecutedInv'
  BY <1>1, <1>2, <1>4 DEF ExecutedInv
<1>6. MemoryInv'
  BY <1>1, <1>2 DEF MemoryInv, Ran
<1>7. OnceInOrder' /\ AckedIsExecuted' /\ ExecutesWhatItSays'
  BY <1>1, <1>2 DEF OnceInOrder, AckedIsExecuted, ExecutesWhatItSays
<1>8. QED
  BY <1>3, <1>4, <1>5, <1>6, <1>7 DEF InboundInv

LEMMA ConsumerKeeps ==
  ASSUME InboundInv, NEW c \in DOMAIN cons, Consumer(c)
  PROVE  InboundInv'
<1>1. TypeOK /\ MemoryInv /\ answered \subseteq Sent
  BY DEF InboundInv, TypeOK
<1>2. CASE OpenSession(c)
  <2>1. CASE UNCHANGED cons
    BY <1>2, <2>1, OthersKeep DEF OpenSession, inboundVars
  <2>2. CASE Goto(c, IF chOpen THEN "idle" ELSE "deaf")
    <3>1. PICK p \in {"idle", "deaf"} : Goto(c, p)
      BY <2>2
    <3>2. cons[c].pc = "opening" /\ UNCHANGED <<kind, queue, chOpen, acked, executed, answered>>
      BY <1>2 DEF OpenSession, At
    <3>3. QED
      BY <1>1, <3>1, <3>2, GotoKeeps DEF Pcs
  <2>3. QED
    BY <1>2, <2>1, <2>2 DEF OpenSession
<1>3. CASE Take(c)
  <2> DEFINE m == Head(cons[c].buf)
  <2>1. cons[c].pc = "idle" /\ cons[c].buf # <<>>
        /\ UNCHANGED <<kind, queue, chOpen, acked, executed, answered>>
    BY <1>3 DEF Take, At
  <2>2. /\ cons[c].node \in Nodes /\ cons[c].cmd \in {0} \cup Sent
        /\ m \in Sent
        /\ NodeAfter(c, m) \in Nodes /\ CmdAfter(c, m) \in {0} \cup Sent
    <3>1. cons[c].node \in Nodes /\ cons[c].cmd \in {0} \cup Sent /\ cons[c].buf \in Seq(Sent)
      BY <1>1, Shapes
    <3>2. m \in Sent
      BY <2>1, <3>1, SeqFacts
    <3>3. QED
      BY <3>1, <3>2 DEF NodeAfter, CmdAfter, Nodes
  <2>3. CASE Took(c, cons[c].node, cons[c].cmd, "ended")
    BY <2>1, <2>2, <2>3, TookKeeps
  <2>4. CASE UNCHANGED cons
    BY <2>1, <2>4, OthersKeep DEF inboundVars
  <2>5. CASE /\ NodeAfter(c, m) # "none" /\ CmdAfter(c, m) # 0
             /\ Took(c, NodeAfter(c, m), CmdAfter(c, m),
                     IF NodeAfter(c, m) = "own" THEN "ack" ELSE "ended")
    <3>1. CmdAfter(c, m) = m \/ (kind[m] = "nocmd" /\ CmdAfter(c, m) = cons[c].cmd)
      BY DEF CmdAfter
    <3>2. CASE NodeAfter(c, m) = "own"
      BY <2>1, <2>2, <2>5, <3>1, <3>2, TookKeeps
    <3>3. CASE NodeAfter(c, m) # "own"
      BY <2>1, <2>2, <2>5, <3>3, TookKeeps
    <3>4. QED
      BY <3>2, <3>3
  <2>6. QED
    BY <1>3, <2>3, <2>4, <2>5 DEF Take
<1>4. CASE Ack(c)
  BY <1>1, <1>4, GotoKeeps DEF Ack, At, Pcs
<1>5. CASE WriteCommand(c)
  <2>1. CASE cons[c].up
    BY <1>5, <2>1, WriteKeeps
  <2>2. CASE ~cons[c].up
    BY <1>1, <1>5, <2>2, GotoKeeps DEF WriteCommand, At, Pcs
  <2>3. QED
    BY <2>1, <2>2
<1>6. CASE Answer(c)
  <2>1. cons[c].pc = "read" /\ cons[c].msg \in Sent
    BY <1>1, <1>6, Shapes DEF Answer, At, TypeOK
  <2>2. answered' \in SUBSET Sent
    BY <1>1, <1>6, <2>1 DEF Answer, PublishInbound
  <2>3. QED
    BY <1>6, <2>1, <2>2, GotoKeeps DEF Answer, Pcs
<1>7. CASE RangeEnds(c)
  BY <1>1, <1>7, GotoKeeps DEF RangeEnds, At, Pcs
<1>8. QED
  BY <1>2, <1>3, <1>4, <1>5, <1>6, <1>7 DEF Consumer

LEMMA InboundKeeps == InboundInv /\ [InboundNext]_vars => InboundInv'
<1> SUFFICES ASSUME InboundInv, [InboundNext]_vars
             PROVE  InboundInv'
  OBVIOUS
<1>1. CASE OtherSessionSteps
  BY <1>1, OthersKeep DEF OtherSessionSteps
<1>2. CASE ChannelCloses
  BY <1>2, ChannelClosesKeeps
<1>3. CASE \E d \in Devices : WorkerConnects(d) \/ \E k \in Kinds : Send(d, k)
  BY <1>3, WorkerConnectsKeeps, SendKeeps
<1>4. CASE \E c \in DOMAIN cons : Consumer(c) \/ Deliver(c) \/ HangUp(c)
  BY <1>4, ConsumerKeeps, DeliverKeeps, HangUpKeeps
<1>5. CASE UNCHANGED vars
  BY <1>5, OthersKeep DEF vars, inboundVars
<1>6. QED
  BY <1>1, <1>2, <1>3, <1>4, <1>5 DEF InboundNext

\* All parts of the invariant hold in every reachable state, for any number of
\* devices, incarnations and messages (ssh_collector_stay.go 150-283).
THEOREM InboundCorrect == InboundSpec => []InboundInv
<1>1. QED
  BY InboundStarts, InboundKeeps, PTL DEF InboundSpec

\* Every variable has its type (ssh_collector_stay.go 150-283).
THEOREM InboundType == InboundSpec => []TypeOK
<1>1. InboundInv => TypeOK
  BY DEF InboundInv
<1>2. QED
  BY <1>1, InboundCorrect, PTL

\* No message makes a node execute a command twice, and a consumer executes
\* in the order of its queue (ssh_collector_stay.go 205-259).
THEOREM ExecutedOnceInOrder == InboundSpec => []OnceInOrder
<1>1. InboundInv => OnceInOrder
  BY DEF InboundInv
<1>2. QED
  BY <1>1, InboundCorrect, PTL

\* What is acknowledged was executed, or is about to be, or met a dead
\* session as the last command of its consumer (ssh_collector_stay.go 221-237).
THEOREM AtMostTheLastIsLost == InboundSpec => []AckedIsExecuted
<1>1. InboundInv => AckedIsExecuted
  BY DEF InboundInv
<1>2. QED
  BY <1>1, InboundCorrect, PTL

\* Only a message without a command makes a node execute another one than it
\* says, and that one this consumer has executed before
\* (ssh_collector_stay.go 163, 212-217).
THEOREM OnlyTheLastIsRepeated == InboundSpec => []ExecutesWhatItSays
<1>1. InboundInv => ExecutesWhatItSays
  BY DEF InboundInv
<1>2. QED
  BY <1>1, InboundCorrect, PTL
=============================================================================
