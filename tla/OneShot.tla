------------------------------ MODULE OneShot -------------------------------
(***************************************************************************)
(* A one-shot run of the collector (conf.Common.Stay is false), from the   *)
(* start of the collectors to the end of main():                           *)
(*                                                                         *)
(*   collect    one ssh_collector goroutine for each device, each with a   *)
(*              file of its own; main waits for all of them;               *)
(*   archive    the files go into one zip file and are removed;            *)
(*   hand over  the archive is copied to the local storage and uploaded    *)
(*              by sftp or http, and may then be removed;                  *)
(*   download   a file is fetched from the devices of some profiles.       *)
(*                                                                         *)
(* A reply is a pair <<d, c>>, command c answered by device d; a file, an  *)
(* archive and a copy are the sets of replies that can be read from them.  *)
(***************************************************************************)
EXTENDS Integers, FiniteSets, Sequences

CONSTANTS
  Devices,       \* the keys of conf.Devices
  Commands,      \* length of every command list
  Configs,       \* the configurations considered
  BadPassword,   \* devices whose configured password is not base64
  Selected       \* devices whose profile is named in conf.Download.Devices

ConfigType ==
  [collect : BOOLEAN, zipping : BOOLEAN, remove : BOOLEAN, copy : BOOLEAN,
   upload : {"off", "sftp", "http", "other"}, removeUploaded : BOOLEAN,
   download : BOOLEAN, pubkey : BOOLEAN]

ASSUME OneShotAssumption ==
  /\ IsFiniteSet(Devices) /\ Devices # {}
  /\ Commands \in Nat
  /\ Configs \subseteq ConfigType
  /\ BadPassword \subseteq Devices /\ Selected \subseteq Devices

Replies == Devices \X (1 .. Commands)

\* A password as the device knows it, and as the configuration holds it.
NoSecret   == <<"none">>
Plain(d)   == <<"plain", d>>
Encoded(d) == <<"base64", d>>

VARIABLES
  conf,      \* the configuration of this run
  pc,        \* main()
  wg,        \* the counter of its WaitGroup
  pending,   \* devices its range loop has yet to visit
  sc,        \* the collector goroutine of each device
  cmd,       \* its place in the command list
  file,      \* "none", "there" or "removed"
  written,   \* the replies written to the file
  outFile,   \* out_file.filename, a file being named by its device
  zi,        \* place in that list of the loops of ZipFiles and zipping
  archive,   \* [st, holds]
  torn,      \* history: closing the archive has failed
  copied,    \* replies in the local copy
  remote,    \* replies the upload server has stored
  refused,   \* history: the upload server answered that it refuses
  offered,   \* the last secret offered to each device
  target     \* what the download has left in the file for each device

collectVars == <<wg, sc, cmd, file, written, outFile>>
vars == <<conf, pc, pending, collectVars, zi, archive, torn, copied, remote,
          refused, offered, target>>

MainPcs == {"start", "launch", "wait", "create", "add", "close", "remove",
            "copy", "upload", "sftp", "http", "cleanup", "download", "node",
            "fetch", "done", "dead"}
ScPcs   == {"off", "auth", "dial", "setup", "create", "run", "gone"}
Targets == {"before", "empty", "part", "new"}

NoArchive == [st |-> "none", holds |-> {}]

Live(d) == sc[d] \notin {"off", "gone"}

\* main has returned, or the process has died: no goroutine runs any more.
Ended == pc \in {"done", "dead"}

At(p)      == pc = p
ScAt(d, p) == ~Ended /\ sc[d] = p

Init ==
  /\ conf \in Configs
  /\ pc = "start" /\ pending = {}
  /\ wg = 0
  /\ sc = [d \in Devices |-> "off"]
  /\ cmd = [d \in Devices |-> 1]
  /\ file = [d \in Devices |-> "none"]
  /\ written = {}
  /\ outFile = <<>>
  /\ zi = 1 /\ archive = NoArchive /\ torn = FALSE
  /\ copied = {} /\ remote = {} /\ refused = FALSE
  /\ offered = [d \in Devices |-> NoSecret]
  /\ target = [d \in Devices |-> "before"]

\* log.Fatal, or a panic on main's own goroutine, where nothing recovers.
Die == pc' = "dead"

-----------------------------------------------------------------------------
(* The collectors                                                          *)

\* The deferred wg.Done(): it runs on return and after a recovered panic.
Done(d) ==
  /\ wg' = wg - 1
  /\ sc' = [sc EXCEPT ![d] = "gone"]

ScGoto(d, p) == sc' = [sc EXCEPT ![d] = p]

NotCollected == <<conf, pending, zi, archive, torn, copied, remote, refused, target>>

\* The ssh-agent is out of reach, or the password cannot be decoded: the
\* collector ends the whole process.
ScAuth(d) ==
  /\ ScAt(d, "auth")
  /\ \/ /\ conf.pubkey \/ d \notin BadPassword
        /\ ScGoto(d, "dial")
        /\ offered' = IF conf.pubkey THEN offered
                      ELSE [offered EXCEPT ![d] = Plain(d)]
        /\ UNCHANGED pc
     \/ /\ conf.pubkey \/ d \in BadPassword
        /\ Die
        /\ UNCHANGED <<sc, offered>>
  /\ UNCHANGED <<NotCollected, wg, cmd, file, written, outFile>>

ScDial(d) ==
  /\ ScAt(d, "dial")
  /\ \/ ScGoto(d, "setup") /\ UNCHANGED wg
     \/ Done(d)
  /\ UNCHANGED <<NotCollected, pc, cmd, file, written, outFile, offered>>

\* Mutant of ScSetup: wg.Done() is not deferred, a panic passes it by.
ScSetupNoDone(d) ==
  /\ ScAt(d, "setup")
  /\ \/ ScGoto(d, "create")
     \/ ScGoto(d, "gone")
  /\ UNCHANGED <<NotCollected, pc, wg, cmd, file, written, outFile, offered>>

\* Session, pty and shell; an error panics and is recovered.
ScSetup(d) ==
  /\ ScAt(d, "setup")
  /\ \/ ScGoto(d, "create") /\ UNCHANGED wg
     \/ Done(d)
  /\ UNCHANGED <<NotCollected, pc, cmd, file, written, outFile, offered>>

\* Mutant of ScCreate: filenames.Add is forgotten.
ScCreateUnlisted(d) ==
  /\ ScAt(d, "create")
  /\ \/ /\ ScGoto(d, "run")
        /\ file' = [file EXCEPT ![d] = "there"]
        /\ UNCHANGED <<wg, outFile>>
     \/ Done(d) /\ UNCHANGED <<file, outFile>>
  /\ UNCHANGED <<NotCollected, pc, cmd, written, offered>>

\* The file, which is named in the list as soon as it has been created.
ScCreate(d) ==
  /\ ScAt(d, "create")
  /\ \/ /\ ScGoto(d, "run")
        /\ file' = [file EXCEPT ![d] = "there"]
        /\ outFile' = Append(outFile, d)
        /\ UNCHANGED wg
     \/ Done(d) /\ UNCHANGED <<file, outFile>>
  /\ UNCHANGED <<NotCollected, pc, cmd, written, offered>>

\* One command.  Its reply is lost when the connection or the disk fails, and
\* neither failure ends the loop; a prompt that does not compile panics.
ScCommand(d) ==
  /\ ScAt(d, "run") /\ cmd[d] <= Commands
  /\ \/ /\ cmd' = [cmd EXCEPT ![d] = @ + 1]
        /\ \E answer \in {{}, {<<d, cmd[d]>>}} : written' = written \cup answer
        /\ UNCHANGED <<wg, sc>>
     \/ Done(d) /\ UNCHANGED <<cmd, written>>
  /\ UNCHANGED <<NotCollected, pc, file, outFile, offered>>

ScReturn(d) ==
  /\ ScAt(d, "run") /\ cmd[d] > Commands
  /\ Done(d)
  /\ UNCHANGED <<NotCollected, pc, cmd, file, written, outFile, offered>>

Collector(d) ==
  \/ ScAuth(d) \/ ScDial(d) \/ ScSetup(d) \/ ScCreate(d) \/ ScCommand(d)
  \/ ScReturn(d)

-----------------------------------------------------------------------------
(* main(): collect                                                         *)

Start ==
  /\ At("start")
  /\ IF conf.collect
     THEN pc' = "launch" /\ pending' = Devices
     ELSE pc' = "upload" /\ UNCHANGED pending
  /\ UNCHANGED <<conf, collectVars, zi, archive, torn, copied, remote,
                 refused, offered, target>>

\* Mutant of Launch: wg.Add(1) is missing.
LaunchNoAdd ==
  /\ At("launch")
  /\ \/ \E d \in pending :
          /\ sc' = [sc EXCEPT ![d] = "auth"]
          /\ pending' = pending \ {d}
          /\ UNCHANGED pc
     \/ pending = {} /\ pc' = "wait" /\ UNCHANGED <<sc, pending>>
  /\ UNCHANGED <<conf, wg, cmd, file, written, outFile, zi, archive, torn,
                 copied, remote, refused, offered, target>>

\* wg.Add(1), then the go statement.
Launch ==
  /\ At("launch")
  /\ \/ \E d \in pending :
          /\ wg' = wg + 1
          /\ sc' = [sc EXCEPT ![d] = "auth"]
          /\ pending' = pending \ {d}
          /\ UNCHANGED pc
     \/ pending = {} /\ pc' = "wait" /\ UNCHANGED <<wg, sc, pending>>
  /\ UNCHANGED <<conf, cmd, file, written, outFile, zi, archive, torn,
                 copied, remote, refused, offered, target>>

\* Mutant of WaitReturns: main does not wait.
WaitReturnsEarly ==
  /\ At("wait")
  /\ pc' = IF conf.zipping /\ outFile # <<>> THEN "create" ELSE "upload"
  /\ UNCHANGED <<conf, pending, collectVars, zi, archive, torn, copied,
                 remote, refused, offered, target>>

\* wg.Wait() returns; there may be nothing to archive.
WaitReturns ==
  /\ At("wait") /\ wg = 0
  /\ pc' = IF conf.zipping /\ outFile # <<>> THEN "create" ELSE "upload"
  /\ UNCHANGED <<conf, pending, collectVars, zi, archive, torn, copied,
                 remote, refused, offered, target>>

-----------------------------------------------------------------------------
(* main(): archive                                                         *)

NotArchive == <<conf, pending, wg, sc, cmd, written, outFile, copied, remote,
                refused, offered, target>>

ZipCreate ==
  /\ At("create")
  /\ \/ archive' = [st |-> "open", holds |-> {}] /\ pc' = "add"
     \/ Die /\ UNCHANGED archive
  /\ zi' = 1
  /\ UNCHANGED <<NotArchive, torn, file>>

\* Mutant of AddFileToZip: an error ends ZipFiles as if all were well.
AddFileToZipIgnored(d) ==
  \/ /\ archive' = [st |-> "open",
                   holds |-> archive.holds \cup {r \in written : r[1] = d}]
     /\ zi' = zi + 1
     /\ UNCHANGED pc
  \/ pc' = "close" /\ UNCHANGED <<zi, archive>>

\* The error makes zipping panic before anything has been removed.
AddFileToZip(d) ==
  \/ /\ archive' = [st |-> "open",
                   holds |-> archive.holds \cup {r \in written : r[1] = d}]
     /\ zi' = zi + 1
     /\ UNCHANGED pc
  \/ Die /\ UNCHANGED <<zi, archive>>

\* Mutant of ZipFiles: the last file is left out.
ZipFilesButLast ==
  /\ At("add")
  /\ IF zi < Len(outFile)
     THEN AddFileToZip(outFile[zi])
     ELSE pc' = "close" /\ UNCHANGED <<zi, archive>>
  /\ UNCHANGED <<NotArchive, torn, file>>

ZipFiles ==
  /\ At("add")
  /\ IF zi <= Len(outFile)
     THEN AddFileToZip(outFile[zi])
     ELSE pc' = "close" /\ UNCHANGED <<zi, archive>>
  /\ UNCHANGED <<NotArchive, torn, file>>

\* The deferred zipWriter.Close() and newZipFile.Close(): their errors are
\* dropped, and what they could not write makes the archive unreadable.
ZipClose ==
  /\ At("close")
  /\ \/ archive' = [st |-> "whole", holds |-> archive.holds] /\ UNCHANGED torn
     \/ archive' = [st |-> "broken", holds |-> {}] /\ torn' = TRUE
  /\ zi' = 1
  /\ pc' = IF conf.remove THEN "remove" ELSE "copy"
  /\ UNCHANGED <<NotArchive, file>>

RemoveOriginals ==
  /\ At("remove")
  /\ IF zi <= Len(outFile)
     THEN \/ /\ file' = [file EXCEPT ![outFile[zi]] = "removed"]
             /\ zi' = zi + 1
             /\ UNCHANGED pc
          \/ Die /\ UNCHANGED <<zi, file>>
     ELSE pc' = "copy" /\ UNCHANGED <<zi, file>>
  /\ UNCHANGED <<NotArchive, archive, torn>>

-----------------------------------------------------------------------------
(* main(): local copy and upload                                           *)

NotHandedOver == <<conf, pending, collectVars, zi, torn, offered, target>>

\* The destination is truncated first; what follows may fail half way.
CopyFile ==
  \/ UNCHANGED copied
  \/ \E part \in SUBSET archive.holds : copied' = part

Copy ==
  /\ At("copy")
  /\ pc' = "upload"
  /\ IF conf.copy THEN CopyFile ELSE UNCHANGED copied
  /\ UNCHANGED <<NotHandedOver, archive, remote, refused>>

\* Without an archive to send, the process ends here.
Upload ==
  /\ At("upload")
  /\ pc' = CASE conf.upload = "off"                        -> "download"
             [] conf.upload # "off" /\ archive.st = "none" -> "dead"
             [] OTHER -> IF conf.upload = "other" THEN "download"
                                                  ELSE conf.upload
  /\ UNCHANGED <<NotHandedOver, archive, copied, remote, refused>>

\* Every failure is a log.Fatal or a panic: it returns true or not at all.
UploadOnRemoteScp ==
  /\ At("sftp")
  /\ \/ remote' = archive.holds /\ pc' = "cleanup"
     \/ (\E part \in SUBSET archive.holds : remote' = part) /\ Die
  /\ UNCHANGED <<NotHandedOver, archive, copied, refused>>

\* true for every answer of the server, whatever its status says.
PostFile ==
  /\ At("http")
  /\ \/ remote' = archive.holds /\ pc' = "cleanup" /\ UNCHANGED refused
     \/ refused' = TRUE /\ pc' = "cleanup" /\ UNCHANGED remote
     \/ Die /\ UNCHANGED <<remote, refused>>
  /\ UNCHANGED <<NotHandedOver, archive, copied>>

\* "File was uploaded successfully": the archive may go.
RemoveUploaded ==
  /\ At("cleanup")
  /\ \/ /\ pc' = "download"
        /\ archive' = IF conf.removeUploaded THEN [st |-> "gone", holds |-> {}]
                                             ELSE archive
     \/ conf.removeUploaded /\ Die /\ UNCHANGED archive
  /\ UNCHANGED <<NotHandedOver, copied, remote, refused>>

-----------------------------------------------------------------------------
(* main(): download                                                        *)

NotDownloaded == <<conf, collectVars, zi, archive, torn, copied, remote,
                   refused>>

\* Nothing is fetched when the destination folder does not exist.
Download ==
  /\ At("download")
  /\ \/ conf.download /\ pc' = "node" /\ pending' = Selected
     \/ pc' = "done" /\ UNCHANGED pending
  /\ UNCHANGED <<NotDownloaded, offered, target>>

\* The secret goes to the device as it stands in the configuration.
DownloadSecret(d) == IF conf.pubkey THEN offered[d] ELSE Encoded(d)

\* The next device, and its answer to the login: a refusal is recovered; the
\* ssh-agent or an sftp client that fails ends the process.
DownloadDial ==
  /\ At("node")
  /\ IF pending = {}
     THEN pc' = "done" /\ UNCHANGED <<pending, offered, target>>
     ELSE \E d \in pending :
            /\ offered' = [offered EXCEPT ![d] = DownloadSecret(d)]
            /\ \/ pending' = pending \ {d} /\ UNCHANGED <<pc, target>>
               \/ /\ conf.pubkey \/ DownloadSecret(d) = Plain(d)
                  /\ target' = [target EXCEPT ![d] = "empty"]
                  /\ pc' = "fetch"
                  /\ UNCHANGED pending
               \/ conf.pubkey /\ Die /\ UNCHANGED <<pending, target>>
  /\ UNCHANGED NotDownloaded

\* The local file has been truncated before the remote one is opened.
DownloadFetch ==
  /\ At("fetch")
  /\ pc' = "node"
  /\ \E d \in pending :
       /\ target[d] = "empty"
       /\ pending' = pending \ {d}
       /\ \E t \in {"empty", "part", "new"} : target' = [target EXCEPT ![d] = t]
  /\ UNCHANGED <<NotDownloaded, offered>>

-----------------------------------------------------------------------------
\* SIGINT is handled in the stay mode only.
Interrupt ==
  /\ ~Ended
  /\ Die
  /\ UNCHANGED <<conf, pending, collectVars, zi, archive, torn, copied,
                 remote, refused, offered, target>>

Main ==
  \/ Start \/ Launch \/ WaitReturns
  \/ ZipCreate \/ ZipFiles \/ ZipClose \/ RemoveOriginals
  \/ Copy \/ Upload \/ UploadOnRemoteScp \/ PostFile \/ RemoveUploaded
  \/ Download \/ DownloadDial \/ DownloadFetch

Next ==
  \/ Main \/ Interrupt
  \/ \E d \in Devices : Collector(d)
  \/ Ended /\ UNCHANGED vars

Spec == Init /\ [][Next]_vars

\* The scheduler runs every goroutine; devices and servers answer or fail.
FairSpec == Spec /\ WF_vars(Main) /\ \A d \in Devices : WF_vars(Collector(d))
=============================================================================
