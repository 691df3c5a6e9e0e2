---------------------------- MODULE OneShotProps ----------------------------
(***************************************************************************)
(* What a one-shot run promises about the data it has collected.           *)
(***************************************************************************)
EXTENDS OneShot

\* Every variable has its type; in particular the WaitGroup is never negative,
\* which would be a panic of the run-time (main.go 548-552).
TypeOK ==
  /\ conf \in Configs
  /\ pc \in MainPcs
  /\ wg \in 0 .. Cardinality(Devices)
  /\ pending \subseteq Devices
  /\ sc \in [Devices -> ScPcs]
  /\ cmd \in [Devices -> 1 .. Commands + 1]
  /\ file \in [Devices -> {"none", "there", "removed"}]
  /\ written \subseteq Replies
  /\ outFile \in Seq(Devices)
  /\ zi \in 1 .. Len(outFile) + 1
  /\ archive \in [st : {"none", "open", "whole", "broken", "gone"},
                  holds : SUBSET Replies]
  /\ torn \in BOOLEAN
  /\ copied \subseteq Replies /\ remote \subseteq Replies
  /\ refused \in BOOLEAN
  /\ offered \in [Devices -> {NoSecret} \cup {Plain(d) : d \in Devices}
                                        \cup {Encoded(d) : d \in Devices}]
  /\ target \in [Devices -> Targets]

\* The collectors that have not returned, and those main has yet to start, are
\* what main waits for: nothing is archived or sent while one of them still
\* writes (main.go 548-557, ssh_collector.go 88-93).
NobodyWritesLater ==
  /\ wg = Cardinality({d \in Devices : Live(d)})
  /\ pc \in {"create", "add", "close", "remove", "copy", "sftp", "http", "cleanup"} =>
       \A d \in Devices : ~Live(d)

\* A finished archive has every reply of every device, those of a device that
\* failed half way included (saving.go 13-27, 64-69).
ArchiveHasAll == archive.st = "whole" => archive.holds = written

\* A reply that was written can be read somewhere, wherever the run fails or is
\* interrupted: it is in its file, or in the archive, or the upload server or
\* the local storage has it.  Two failures void this, and no other: closing the
\* archive fails, which nobody notices before the files are removed, or the
\* server refuses the archive, which is taken for uploaded and may be removed
\* (saving.go 18-20 and 70-76, main.go 557-627).
ReplyKept ==
  ~torn /\ ~refused =>
    \A r \in written : \/ file[r[1]] = "there"
                       \/ archive.st = "whole" /\ r \in archive.holds
                       \/ r \in copied \/ r \in remote

-----------------------------------------------------------------------------
(* The invariant the proofs rest on                                        *)

Collectors == {d \in Devices : Live(d)}
Listed     == {outFile[i] : i \in DOMAIN outFile}

\* Who is alive when: main counts the collectors it has started, and none of
\* them is left once it has waited for them.
LiveInv ==
  /\ wg = Cardinality(Collectors)
  /\ pc = "start" => \A d \in Devices : sc[d] = "off"
  /\ pc = "launch" => \A d \in pending : sc[d] = "off"
  /\ pc \notin {"start", "launch", "wait", "dead"} => \A d \in Devices : ~Live(d)

\* A file is in the list exactly when it was created, before anything is
\* written to it.
FileInv ==
  /\ \A d \in Devices : file[d] # "none" <=> d \in Listed
  /\ \A d \in Devices : sc[d] = "run" => d \in Listed
  /\ \A r \in written : r[1] \in Listed

Added == {r \in written : \E i \in 1 .. zi - 1 : outFile[i] = r[1]}

\* How far the archive is at each place of main, and that nothing is removed
\* before it is finished.
ArchiveInv ==
  /\ pc \in {"start", "launch", "wait", "create"} => archive.st = "none"
  /\ pc = "add" => archive = [st |-> "open", holds |-> Added]
  /\ pc = "close" => archive = [st |-> "open", holds |-> written]
  /\ pc \in {"remove", "copy", "sftp", "http", "cleanup"} =>
       archive.st \in {"whole", "broken"}
  /\ pc = "upload" => archive.st \in {"none", "whole", "broken"}
  /\ pc = "cleanup" => refused \/ remote = archive.holds
  /\ archive.st = "whole" => archive.holds = written
  /\ archive.st = "gone" => refused \/ remote = written \/ torn
  /\ archive.st = "broken" => torn
  /\ archive.st \in {"none", "open"} => \A d \in Devices : file[d] # "removed"

\* The four parts together are inductive: each place of main rests on what the
\* places before it have done (main.go 547-627).
OneShotInv == TypeOK /\ LiveInv /\ FileInv /\ ArchiveInv

-----------------------------------------------------------------------------
\* However collectors fail, main does not wait for them for ever; the run ends
\* (main.go 552, ssh_collector.go 88-93).
Finishes == <>Ended
=============================================================================
