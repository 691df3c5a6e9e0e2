-------------------------- MODULE NodeSessionProps --------------------------
(***************************************************************************)
(* What becomes of the node's output, and whose reply a reply is.          *)
(***************************************************************************)
EXTENDS NodeSession, FiniteSets

Modes  == {"user", "enable"}
Tokens == [is : {"body", "name"} \cup Modes, line : Nat]
Lines  == [line : Nat, cmd : Commands \cup {"dumb"}]
Pieces == [line : Nat, text : Seq(Tokens), why : {"first", "flush", "match", "eof"}]

\* Every variable has its type; in particular only commands of the list and
\* keepalives are ever sent (general.go 64-83).
TypeOK ==
  /\ loop \in {"once", "stay", "inbound"} /\ list \in Seq(Commands)
  /\ node \in [quick : BOOLEAN, doubles : BOOLEAN, refuses : BOOLEAN]
  /\ pc \in Pcs /\ idx \in 1 .. Len(list) + 1
  /\ runs \in 0 .. (IF loop = "inbound" THEN MaxInbound ELSE MaxTicks)
  /\ alive \in 0 .. MaxKeepalives /\ n \in Nat
  /\ want \in Modes /\ level \in Modes /\ closed \in BOOLEAN
  /\ buf \in Seq(Tokens) /\ out \in Seq(Tokens) /\ sent \in Seq(Tokens)
  /\ kept \in Seq(Pieces) /\ inq \in Seq(Lines)

Texts == FlattenSeq([i \in DOMAIN kept |-> kept[i].text])

\* Nothing the node has sent is lost, doubled or put out of order, neither
\* between two Reads, nor between two replies, nor by the flush
\* (ssh_collector.go 20-74); only the first Read of the second session is thrown
\* away, on purpose, and is counted here as a piece (ssh_collector_stay.go 178).
Intact == Texts \o buf \o out = sent

Has(text, k) == \E i \in DOMAIN text : text[i] = Token("body", k)

\* As long as a node answers within Timeout_btw_cmd the reply to a command holds
\* its output, whatever keepalives, doubled lines or the login left to be
\* read before it (ssh_collector_stay.go 228-242, 313-325, 354-356).
OwnReply ==
  loop # "once" /\ node.quick /\ ~closed =>
    \A i \in DOMAIN kept : kept[i].why = "match" => Has(kept[i].text, kept[i].line)

Signs(text) == Cardinality({i \in DOMAIN text : text[i].is \in Modes})
PerLine     == IF node.doubles THEN 2 ELSE 1
Returned    == Cardinality({i \in DOMAIN kept : kept[i].why \in {"match", "eof"}})

\* A slow node is answered late by no more prompts than its login, the lines
\* nobody waits for and doubled line ends have made: every command waits for
\* one more (ssh_collector_stay.go 313-325, 355, 178).
LagBound ==
  Signs(out) + PerLine * Len(inq) <= 1 + PerLine * n - Returned

\* At its end the one-shot loop can have missed the output of its last
\* command only: the login's prompt may have ended the wait for the first
\* (ssh_collector.go 171-191).
OnlyLastMissing ==
  loop = "once" /\ pc = "done" /\ ~closed =>
    \A k \in 1 .. n - 1 : Has(Texts, k)

Stuck == pc = "wait" /\ out = <<>> /\ inq = <<>> /\ ~closed

\* A reader waits for ever only for a prompt the node refuses to show, or for
\* one the flush has cut in two: no prompt is spent on another wait, cut
\* between two Reads, or looked for in the wrong mode in a later tick
\* (ssh_collector.go 28-46, ssh_collector_stay.go 304-324).
NoHang ==
  Stuck => \/ node.refuses
           \/ \E i \in DOMAIN kept :
                kept[i].why = "flush" /\ Last(kept[i].text).is = "name"

-----------------------------------------------------------------------------
(* The invariant the proofs rest on                                        *)

Waits == IF pc = "wait" THEN 1 ELSE 0

\* How much of what the node has sent has been read.
Got == Len(sent) - Len(out)

\* Where a loop is, and that what a wait has read so far holds no prompt.
PlaceInv ==
  /\ loop # "inbound" /\ pc \in {"list", "wait"} => idx <= Len(list)
  /\ loop = "inbound" => pc \notin {"list", "done"}
  /\ loop = "once" => pc # "idle" /\ ~node.doubles /\ alive = 0
  /\ pc = "open" => kept = <<>> /\ idx = 1 /\ n <= (IF loop = "inbound" THEN 1 ELSE 0)
  /\ loop = "inbound" /\ pc # "open" => n # 0
  /\ pc = "wait" => n # 0 /\ (loop = "inbound" => n # 1)
  /\ IF pc = "wait" THEN ~Match(buf, want) ELSE buf = <<>>

\* The lines on their way are the last ones written, the node has answered
\* others only, and no reply is taken for one to a later line.
LineInv ==
  /\ closed => inq = <<>>
  /\ \A i \in DOMAIN sent : sent[i].line <= n - Len(inq)
  /\ \A i \in DOMAIN kept : kept[i].line \in 1 .. n
  /\ \A i \in DOMAIN inq : inq[i].line = n - Len(inq) + i

\* The loop waits for the mode that the node will have when it has seen all.
ModeOf(cmd) == IF cmd = "enter" THEN "enable" ELSE "user"

ModeInv ==
  ~closed /\ ~node.refuses =>
    /\ (\A i \in DOMAIN inq : inq[i].cmd \notin {"enter", "exit"}) => want = level
    /\ \A i \in DOMAIN inq :
         /\ inq[i].cmd \in {"enter", "exit"}
         /\ \A j \in DOMAIN inq : j > i => inq[j].cmd \notin {"enter", "exit"}
         => want = ModeOf(inq[i].cmd)

\* A node that has answered all ends with the prompt after the last line.
PromptInv ==
  inq = <<>> /\ ~closed =>
    /\ Len(sent) > 1
    /\ sent[Len(sent) - 1] = Token("name", n) /\ sent[Len(sent)] = Token(level, n)

\* The prompt a loop waits for has not been read, unless a flush has cut it.
Cut == \E i \in DOMAIN kept : kept[i].why = "flush" /\ Last(kept[i].text).is = "name"

CutInv ==
  pc = "wait" =>
    /\ \A p \in 1 .. Got - 1 :
         sent[p] = Token("name", n) /\ sent[p + 1] = Token(want, n) => Cut
    /\ buf = <<>> /\ Got > 0 /\ sent[Got] = Token("name", n) => Cut

\* The output a loop waits for is still to be read or in the buffer.
OwnInv ==
  loop # "once" /\ pc = "wait" /\ ~closed =>
    \/ \E i \in DOMAIN inq : inq[i].line = n /\ inq[i].cmd # "dumb"
    \/ Has(out, n) \/ Has(buf, n)

\* Every command has one reply, but for the one that is waited for.
CountInv ==
  /\ Returned + Waits <= n
  /\ loop = "once" => Returned + Waits = n

\* The one-shot loop reads "name", sign, and then output, name, sign of each
\* line; each reply has taken the sign of one line more.
OnceInv ==
  loop = "once" /\ ~closed =>
    /\ Len(sent) = 3 * (n - Len(inq)) + 2
    /\ \A i \in DOMAIN inq : inq[i].cmd # "dumb"
    /\ \A k \in 1 .. n - Len(inq) : sent[3 * k] = Token("body", k)
    /\ \A i \in DOMAIN sent : sent[i].is \in Modes => \E k \in 0 .. n : i = 3 * k + 2
    /\ Got >= 3 * Returned - 1

NodeSessionInv ==
  /\ TypeOK /\ PlaceInv /\ Intact /\ LineInv /\ ModeInv /\ PromptInv /\ CutInv
  /\ OwnInv /\ OwnReply /\ CountInv /\ LagBound /\ OnceInv
=============================================================================
