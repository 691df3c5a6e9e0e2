---------------------------- MODULE NodeSession -----------------------------
(***************************************************************************)
(* One terminal session with a node, and the loop that writes commands to  *)
(* it and reads replies up to a prompt.  There are three such loops:       *)
(*                                                                         *)
(*   "once"     ssh_collector: the list once, without a pause between      *)
(*              writing and reading, every reply to the file, and what     *)
(*              grows too large flushed to it before the prompt has come;  *)
(*   "stay"     the command loop of ssh_collector_constant: the list at    *)
(*              every tick, keepalives in between;                         *)
(*   "inbound"  its second session, with the commands of the broker.       *)
(*                                                                         *)
(* The node sends tokens: the output of a line, and a prompt in two parts, *)
(* its name and the sign of its mode.  A Read may return at any token.     *)
(***************************************************************************)
EXTENDS Integers, SequencesExt

CONSTANTS
  Files,        \* command files, each a sequence of lines
  MaxTicks,     \* bound: ticks of the stay loop
  MaxKeepalives,\* bound: keepalives of the stay loop
  MaxInbound,   \* bound: commands from the broker
  FlushLimit    \* tokens in the buffer above which "once" flushes (10 MB)

\* "enter" and "exit" are Enable_enter_command and Enable_exit_command.
Commands == {"enter", "exit", "show"}

\* The lines that are no commands; "#" is any line that begins with it.
Blanks == {"", "#"}

ASSUME NodeSessionAssumption ==
  /\ Files \subseteq Seq(Commands \cup Blanks)
  /\ MaxTicks \in Nat /\ MaxKeepalives \in Nat /\ MaxInbound \in Nat
  /\ FlushLimit \in Nat \ {0}

VARIABLES
  loop,     \* which of the three
  node,     \* what kind of node: [quick, doubles, refuses]
  list,     \* commands[client.Profile]
  pc,       \* where the loop is
  idx,      \* the place in the list
  runs,     \* ticks begun, or commands received from the broker
  alive,    \* keepalives written
  want,     \* the mode whose prompt waitingPromptRg matches
  buf,      \* waitingString
  kept,     \* what was written to the file, published or thrown away, in pieces
  n,        \* lines written
  inq,      \* lines on their way to the node
  level,    \* the node's mode
  out,      \* tokens on their way from the node
  sent,     \* history: all tokens the node has sent
  closed    \* the node has closed the session

loopVars == <<list, pc, idx, runs, alive, want, buf, kept, n>>
nodeVars == <<inq, level, out, sent, closed>>
vars     == <<loop, node, loopVars, nodeVars>>

Pcs == {"open", "idle", "list", "wait", "done", "err"}

-----------------------------------------------------------------------------
(* Lines, commands and tokens                                              *)

\* The lines of a file without those of a kind.
Without(file, kind) ==
  FlattenSeq([i \in DOMAIN file |-> IF file[i] \in kind THEN <<>> ELSE <<file[i]>>])

\* Mutant of ReadCommandFile: comments are kept.
ReadCommandFileAll(file) == Without(file, {""})

\* Lines of a file: "" and "#" are dropped, whatever else stands there is a
\* command, a line of blanks or an indented comment too.
ReadCommandFile(file) == Without(file, Blanks)

Token(t, k) == [is |-> t, line |-> k]

\* The prompt after line k.
Prompt(k, mode) == <<Token("name", k), Token(mode, k)>>

\* The regular expression: the host name and, later in the line, the sign.
Match(text, mode) ==
  \E i \in 1 .. Len(text) - 1 : text[i].is = "name" /\ text[i + 1].is = mode

\* The prompt to wait for once cmd has been written.
WantAfter(cmd) ==
  CASE cmd = "enter" -> "enable"
    [] cmd = "exit"  -> "user"
    [] OTHER         -> want

Init ==
  /\ loop \in {"once", "stay", "inbound"}
  /\ node \in [quick : BOOLEAN, doubles : BOOLEAN, refuses : BOOLEAN]
  /\ loop = "once" => ~node.doubles
  /\ list \in {ReadCommandFile(f) : f \in Files}
  /\ pc = "open" /\ idx = 1 /\ runs = 0 /\ alive = 0
  /\ want = "user" /\ buf = <<>> /\ kept = <<>> /\ n = 0
  /\ inq = <<>> /\ level = "user"
  /\ out = Prompt(0, "user") /\ sent = Prompt(0, "user")
  /\ closed = FALSE

-----------------------------------------------------------------------------
(* The node                                                                *)

\* A line ends in "\r", or in "\n\r" where the loop adds a newline: a node
\* that doubles takes that for two lines.
Prompts(k, mode) ==
  IF node.doubles THEN Prompt(k, mode) \o Prompt(k, mode) ELSE Prompt(k, mode)

\* The mode after a command; a node that refuses stays where it is.
Level(cmd) ==
  CASE cmd = "enter" /\ ~node.refuses -> "enable"
    [] cmd = "exit"                   -> "user"
    [] OTHER                          -> level

\* exit in the lower mode ends the session, any other line is answered.
NodeAnswers ==
  /\ inq # <<>> /\ ~closed
  /\ LET cmd == Head(inq).cmd
         k   == Head(inq).line
         ans == (IF cmd = "dumb" THEN <<>> ELSE <<Token("body", k)>>)
                  \o Prompts(k, Level(cmd))
     IN IF cmd = "exit" /\ level = "user"
        THEN closed' = TRUE /\ inq' = <<>> /\ UNCHANGED <<level, out, sent>>
        ELSE /\ inq' = Tail(inq)
             /\ level' = Level(cmd)
             /\ out' = out \o ans /\ sent' = sent \o ans
             /\ UNCHANGED closed
  /\ UNCHANGED <<loop, node, loopVars>>

NodeCloses ==
  /\ ~closed
  /\ closed' = TRUE /\ inq' = <<>>
  /\ UNCHANGED <<loop, node, loopVars, level, out, sent>>

-----------------------------------------------------------------------------
(* Writing                                                                 *)

\* write(): the line is on its way, or the session is gone.
Write(cmd) ==
  /\ n' = n + 1
  /\ inq' = IF closed THEN inq ELSE Append(inq, [line |-> n + 1, cmd |-> cmd])
  /\ UNCHANGED <<level, out, sent, closed>>

\* The second session begins with a line nobody waits for: one Read follows,
\* and what it returns is thrown away.  kept has it as the piece "first", so
\* that it is not missing from the account of what the node has sent.
\* The other loops begin with what the login has printed still to be read.
Open ==
  /\ pc = "open"
  /\ \/ /\ loop # "inbound"
        /\ pc' = IF loop = "stay" THEN "idle" ELSE IF list = <<>> THEN "done" ELSE "list"
        /\ UNCHANGED <<buf, kept, n, nodeVars>>
     \/ /\ loop = "inbound" /\ n = 0
        /\ Write("dumb")
        /\ UNCHANGED <<pc, buf, kept>>
     \/ /\ loop = "inbound" /\ n = 1 /\ out # <<>>
        /\ \E m \in 1 .. Len(out) :
             /\ kept' = <<[line |-> 1, text |-> SubSeq(out, 1, m), why |-> "first"]>>
             /\ out' = SubSeq(out, m + 1, Len(out))
        /\ pc' = "idle"
        /\ UNCHANGED <<buf, n, inq, level, sent, closed>>
     \/ /\ loop = "inbound" /\ n = 1 /\ out = <<>> /\ closed
        /\ pc' = "idle"
        /\ UNCHANGED <<buf, kept, n, nodeVars>>
  /\ UNCHANGED <<loop, node, list, idx, runs, alive, want>>

\* Mutant of Tick: the prompt is set back at every tick.
TickResets ==
  /\ loop = "stay" /\ pc = "idle" /\ runs < MaxTicks
  /\ runs' = runs + 1 /\ idx' = 1
  /\ pc' = IF list = <<>> THEN "idle" ELSE "list"
  /\ want' = "user"
  /\ UNCHANGED <<loop, node, list, alive, buf, kept, n, nodeVars>>

\* <-ticker.C; waitingPromptRg lives on from the tick before.
Tick ==
  /\ loop = "stay" /\ pc = "idle" /\ runs < MaxTicks
  /\ runs' = runs + 1 /\ idx' = 1
  /\ pc' = IF list = <<>> THEN "idle" ELSE "list"
  /\ UNCHANGED <<loop, node, list, alive, want, buf, kept, n, nodeVars>>

\* <-keepalive.C: a line whose answer is left for the next command to read.
Keepalive ==
  /\ loop = "stay" /\ pc = "idle" /\ alive < MaxKeepalives
  /\ alive' = alive + 1
  /\ Write("dumb")
  /\ UNCHANGED <<loop, node, list, pc, idx, runs, want, buf, kept>>

\* A command of the list: its prompt, the line, and on to the reply.  Only
\* the stay loop looks at the error of write: it reports ERR and returns.
Command ==
  /\ pc = "list"
  /\ want' = WantAfter(list[idx])
  /\ Write(list[idx])
  /\ pc' = IF closed /\ loop = "stay" THEN "err" ELSE "wait"
  /\ UNCHANGED <<loop, node, list, idx, runs, alive, buf, kept>>

\* A command of the broker, whose prompt is set after it was written.
InboundCommand ==
  /\ loop = "inbound" /\ pc = "idle" /\ runs < MaxInbound
  /\ runs' = runs + 1
  /\ \E cmd \in Commands :
       /\ Write(cmd)
       /\ want' = IF closed THEN want ELSE WantAfter(cmd)
  /\ pc' = IF closed THEN "err" ELSE "wait"
  /\ UNCHANGED <<loop, node, list, idx, alive, buf, kept>>

-----------------------------------------------------------------------------
(* Reading: readSSHInputFile for "once", readSSHInput for the others       *)

\* Mutant of SleepOver: no pause between writing and reading.
NoSleep == TRUE

\* Timeout_btw_cmd outlasts a quick node, except in "once", where there is
\* no pause; and all that a quick node has sent fits one Read.
SleepOver == loop # "once" /\ node.quick => inq = <<>>
Chunks    == IF node.quick /\ loop # "once" THEN {Len(out)} ELSE 1 .. Len(out)

\* The reply to the last line is what has been read; the next command, the
\* next tick, or the end of the list follows.
Return(text, why) ==
  /\ kept' = Append(kept, [line |-> n, text |-> text, why |-> why])
  /\ buf' = <<>>
  /\ idx' = IF loop = "inbound" THEN idx ELSE idx + 1
  /\ pc' = IF loop # "inbound" /\ idx < Len(list) THEN "list"
           ELSE IF loop = "once" THEN "done" ELSE "idle"

\* Mutant of Flush: the buffer is not reset.
FlushKeeps(text) ==
  /\ loop = "once" /\ Len(text) > FlushLimit
  /\ kept' = Append(kept, [line |-> n, text |-> text, why |-> "flush"])
  /\ buf' = text

\* file.Write and, when it worked, Reset.
Flush(text) ==
  /\ loop = "once" /\ Len(text) > FlushLimit
  /\ kept' = Append(kept, [line |-> n, text |-> text, why |-> "flush"])
  /\ buf' = <<>>

\* Mutant of Read: nothing is waited for, the first piece is the reply.
ReadOnce ==
  /\ pc = "wait" /\ out # <<>>
  /\ \E m \in 1 .. Len(out) :
       /\ Return(SubSeq(out, 1, m), "match")
       /\ out' = SubSeq(out, m + 1, Len(out))
  /\ UNCHANGED <<loop, node, list, runs, alive, want, n, inq, level, sent, closed>>

\* One Read, the test of the prompt on all that was read since the command,
\* and without a match the way back to Read.
Read ==
  /\ pc = "wait" /\ out # <<>> /\ SleepOver
  /\ \E m \in Chunks :
       LET text == buf \o SubSeq(out, 1, m) IN
       /\ out' = SubSeq(out, m + 1, Len(out))
       /\ IF Match(text, want)
          THEN Return(text, "match")
          ELSE /\ \/ Flush(text)
                  \/ buf' = text /\ UNCHANGED kept
               /\ UNCHANGED <<idx, pc>>
  /\ UNCHANGED <<loop, node, list, runs, alive, want, n, inq, level, sent, closed>>

\* io.EOF: what was read so far is the reply.
ReadEof ==
  /\ pc = "wait" /\ out = <<>> /\ closed
  /\ Return(buf, "eof")
  /\ UNCHANGED <<loop, node, list, runs, alive, want, n, nodeVars>>

-----------------------------------------------------------------------------
Next ==
  \/ Open \/ Tick \/ Keepalive \/ Command \/ InboundCommand \/ Read \/ ReadEof
  \/ NodeAnswers \/ NodeCloses

Spec == Init /\ [][Next]_vars
=============================================================================
