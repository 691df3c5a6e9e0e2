---------------------------- MODULE OneShotProofs ---------------------------
(***************************************************************************)
(* Proofs about a one-shot run, for any number of devices and commands and *)
(* every configuration.                                                    *)
(***************************************************************************)
EXTENDS OneShotProps, FiniteSetTheorems, TLAPS

USE OneShotAssumption

-----------------------------------------------------------------------------
(* Who is alive                                                            *)

LEMMA CollectorsFinite ==
  /\ IsFiniteSet(Collectors)
  /\ Cardinality(Collectors) \in 0 .. Cardinality(Devices)
<1>1. Collectors \in SUBSET Devices
  BY DEF Collectors
<1>2. QED
  BY <1>1, FS_Subset, FS_CardinalityType

\* A collector takes a step only while main starts collectors or waits for
\* them (main.go 548-552).
LEMMA CollectorBefore ==
  ASSUME OneShotInv, NEW d \in Devices, Collector(d)
  PROVE  pc \in {"launch", "wait"} /\ Live(d)
<1>1. ~Ended /\ Live(d)
  BY DEF Collector, ScAuth, ScDial, ScSetup, ScCreate, ScCommand, ScReturn, ScAt, Live
<1>2. QED
  BY <1>1 DEF OneShotInv, LiveInv, Live, Ended, TypeOK, MainPcs

\* What a collector does to itself and to the counter: it goes on, or it
\* counts down and is gone.
LEMMA CollectorMoves ==
  ASSUME OneShotInv, NEW d \in Devices, Collector(d)
  PROVE  \/ \E p \in ScPcs \ {"off", "gone"} : ScGoto(d, p) /\ UNCHANGED wg
         \/ Done(d)
         \/ UNCHANGED <<sc, wg>>
<1>1. CASE ScAuth(d)
  BY <1>1 DEF ScAuth, ScPcs
<1>2. CASE ScDial(d)
  BY <1>2 DEF ScDial, ScPcs
<1>3. CASE ScSetup(d)
  BY <1>3 DEF ScSetup, ScPcs
<1>4. CASE ScCreate(d)
  BY <1>4 DEF ScCreate, ScPcs
<1>5. CASE ScCommand(d)
  BY <1>5 DEF ScCommand
<1>6. CASE ScReturn(d)
  BY <1>6 DEF ScReturn
<1>7. QED
  BY <1>1, <1>2, <1>3, <1>4, <1>5, <1>6 DEF Collector

\* The WaitGroup counts the live collectors across a collector's step.
LEMMA CollectorCounts ==
  ASSUME OneShotInv, NEW d \in Devices, Collector(d)
  PROVE  wg' = Cardinality(Collectors')
<1>1. Live(d) /\ sc \in [Devices -> ScPcs] /\ wg = Cardinality(Collectors)
  BY CollectorBefore DEF OneShotInv, TypeOK, LiveInv
<1>2. CASE \E p \in ScPcs \ {"off", "gone"} : ScGoto(d, p) /\ UNCHANGED wg
  <2>1. Collectors' = Collectors
    BY <1>1, <1>2 DEF Collectors, Live, ScGoto
  <2>2. QED
    BY <1>1, <1>2, <2>1
<1>3. CASE Done(d)
  <2>1. Collectors' = Collectors \ {d} /\ d \in Collectors
    BY <1>1, <1>3 DEF Collectors, Live, Done
  <2>2. QED
    BY <1>1, <1>3, <2>1, CollectorsFinite, FS_RemoveElement DEF Done
<1>4. CASE UNCHANGED <<sc, wg>>
  BY <1>1, <1>4 DEF Collectors, Live
<1>5. QED
  BY <1>2, <1>3, <1>4, CollectorMoves

\* main's own step: only Launch touches collectors and counter.
LEMMA MainCounts ==
  ASSUME OneShotInv, Main \/ Interrupt
  PROVE  wg' = Cardinality(Collectors')
<1>1. sc \in [Devices -> ScPcs] /\ wg = Cardinality(Collectors)
  BY DEF OneShotInv, TypeOK, LiveInv
<1>2. CASE \E d \in pending : Launch /\ wg' = wg + 1 /\ sc' = [sc EXCEPT ![d] = "auth"]
  <2>1. PICK d \in pending : Launch /\ wg' = wg + 1 /\ sc' = [sc EXCEPT ![d] = "auth"]
    BY <1>2
  <2>2. d \in Devices /\ sc[d] = "off"
    BY <2>1 DEF OneShotInv, TypeOK, LiveInv, Launch, At
  <2>3. Collectors' = Collectors \cup {d} /\ d \notin Collectors
    BY <1>1, <2>1, <2>2 DEF Collectors, Live
  <2>4. QED
    BY <1>1, <2>1, <2>3, CollectorsFinite, FS_AddElement
<1>3. CASE UNCHANGED <<sc, wg>>
  BY <1>1, <1>3 DEF Collectors, Live
<1>4. Launch => \/ \E d \in pending : wg' = wg + 1 /\ sc' = [sc EXCEPT ![d] = "auth"]
                \/ UNCHANGED <<sc, wg>>
  BY DEF Launch
<1>5. ~Launch => UNCHANGED <<sc, wg>>
  BY DEF Main, Start, WaitReturns, ZipCreate, ZipFiles, ZipClose, RemoveOriginals, Copy,
         Upload, UploadOnRemoteScp, PostFile, RemoveUploaded, Download, DownloadDial,
         DownloadFetch, Interrupt, collectVars, NotArchive, NotHandedOver, NotDownloaded
<1>6. QED
  BY <1>2, <1>3, <1>4, <1>5

LEMMA LiveStep == OneShotInv /\ [Next]_vars => LiveInv'
<1> SUFFICES ASSUME OneShotInv, [Next]_vars PROVE LiveInv'
  OBVIOUS
<1> USE DEF OneShotInv, LiveInv
<1>1. ASSUME NEW d \in Devices, Collector(d) PROVE LiveInv'
  <2>1. pc \in {"launch", "wait"} /\ Live(d)
    BY <1>1, CollectorBefore
  <2>2. pc' = pc \/ pc' = "dead"
    BY <1>1 DEF Collector, ScAuth, ScDial, ScSetup, ScCreate, ScCommand, ScReturn, Die
  <2>3. pending' = pending /\ \A e \in Devices : e # d => sc'[e] = sc[e]
    <3>1. pending' = pending
      BY <1>1 DEF Collector, ScAuth, ScDial, ScSetup, ScCreate, ScCommand, ScReturn,
                  NotCollected
    <3>2. QED
      BY <1>1, <3>1, CollectorMoves DEF TypeOK, ScGoto, Done
  <2>4. d \notin pending \/ pc # "launch"
    BY <2>1 DEF Live
  <2>5. wg' = Cardinality(Collectors')
    BY <1>1, CollectorCounts
  <2>6. pc' = "launch" => \A e \in pending' : sc'[e] = "off"
    BY <2>2, <2>3, <2>4 DEF TypeOK
  <2>7. QED
    BY <2>1, <2>2, <2>5, <2>6
<1>2. ASSUME Main \/ Interrupt PROVE LiveInv'
  <2>1. wg' = Cardinality(Collectors')
    BY <1>2, MainCounts
  <2>2. CASE Start
    BY <2>1, <2>2 DEF Start, At, collectVars, TypeOK, Live
  <2>3. CASE Launch
    BY <2>1, <2>3 DEF Launch, At, TypeOK, Live
  <2>4. CASE WaitReturns
    <3>1. Collectors = {}
      BY <2>4, CollectorsFinite, FS_EmptySet DEF WaitReturns
    <3>2. \A d \in Devices : ~Live(d)'
      BY <2>4, <3>1 DEF WaitReturns, Collectors, Live, collectVars
    <3>3. pc' \in {"create", "upload"}
      BY <2>4 DEF WaitReturns
    <3>4. QED
      BY <2>1, <3>2, <3>3
  <2>5. CASE Interrupt
    BY <2>1, <2>5 DEF Interrupt, Die
  <2>6. ASSUME Main, ~Start, ~Launch, ~WaitReturns PROVE LiveInv'
    <3>1. /\ pc \notin {"start", "launch", "wait", "dead"}
          /\ pc' \notin {"start", "launch", "wait"}
          /\ sc' = sc
      BY <2>6 DEF Main, ZipCreate, ZipFiles, AddFileToZip, ZipClose, RemoveOriginals, Copy,
           Upload, UploadOnRemoteScp, PostFile, RemoveUploaded, Download, DownloadDial,
           DownloadFetch, NotArchive, NotHandedOver, NotDownloaded, collectVars, At, Die,
           TypeOK, ConfigType
    <3>2. QED
      BY <2>1, <3>1 DEF Live
  <2>7. QED
    BY <1>2, <2>2, <2>3, <2>4, <2>5, <2>6
<1>3. CASE UNCHANGED vars
  BY <1>3 DEF vars, collectVars, Collectors, Live
<1>4. QED
  BY <1>1, <1>2, <1>3 DEF Next

-----------------------------------------------------------------------------
(* The files                                                               *)

\* Only a collector adds to the list, and only at its end.
LEMMA FileStep == OneShotInv /\ [Next]_vars => FileInv'
<1> SUFFICES ASSUME OneShotInv, [Next]_vars PROVE FileInv'
  OBVIOUS
<1> USE DEF OneShotInv
<1>1. ASSUME NEW d \in Devices, ScCreate(d) PROVE FileInv'
  <2>1. CASE outFile' = Append(outFile, d)
    <3>1. Listed' = Listed \cup {d}
      <4>1. DOMAIN outFile' = DOMAIN outFile \cup {Len(outFile) + 1}
        BY <2>1 DEF TypeOK
      <4>2. \A i \in DOMAIN outFile : outFile'[i] = outFile[i]
        BY <2>1 DEF TypeOK
      <4>3. outFile'[Len(outFile) + 1] = d
        BY <2>1 DEF TypeOK
      <4>4. QED
        BY <4>1, <4>2, <4>3 DEF Listed
    <3>2. file' = [file EXCEPT ![d] = "there"] /\ sc' = [sc EXCEPT ![d] = "run"]
      BY <1>1, <2>1 DEF ScCreate, ScGoto, TypeOK
    <3>3. UNCHANGED written
      BY <1>1 DEF ScCreate
    <3>4. QED
      BY <3>1, <3>2, <3>3 DEF FileInv, TypeOK
  <2>2. CASE outFile' = outFile
    <3>1. sc' = [sc EXCEPT ![d] = "gone"] /\ UNCHANGED <<file, outFile, written>>
      BY <1>1, <2>2 DEF ScCreate, Done, TypeOK
    <3>2. QED
      BY <3>1 DEF FileInv, Listed, TypeOK
  <2>3. QED
    BY <1>1, <2>1, <2>2 DEF ScCreate
<1>2. ASSUME NEW d \in Devices, ScCommand(d) PROVE FileInv'
  <2>1. /\ UNCHANGED <<file, outFile>>
        /\ sc' = sc \/ sc' = [sc EXCEPT ![d] = "gone"]
        /\ sc[d] = "run"
        /\ \A r \in written' : r \in written \/ r = <<d, cmd[d]>>
    BY <1>2 DEF ScCommand, ScAt, Done
  <2>2. QED
    BY <2>1 DEF FileInv, Listed, TypeOK
<1>3. ASSUME NEW d \in Devices, ScAuth(d) \/ ScDial(d) \/ ScSetup(d) \/ ScReturn(d)
      PROVE  FileInv'
  <2>1. /\ UNCHANGED <<file, outFile, written>>
        /\ \A e \in Devices : sc'[e] = "run" => sc[e] = "run"
    BY <1>3 DEF ScAuth, ScDial, ScSetup, ScReturn, Done, ScGoto, TypeOK
  <2>2. QED
    BY <2>1 DEF FileInv, Listed
<1>4. CASE RemoveOriginals
  <2>1. /\ UNCHANGED <<outFile, written, sc>>
        /\ \/ UNCHANGED file
           \/ zi \in DOMAIN outFile /\ file' = [file EXCEPT ![outFile[zi]] = "removed"]
    BY <1>4 DEF RemoveOriginals, NotArchive, TypeOK
  <2>2. QED
    BY <2>1 DEF FileInv, Listed, TypeOK
<1>5. ASSUME Main \/ Interrupt, ~RemoveOriginals PROVE FileInv'
  <2>1. /\ UNCHANGED <<file, outFile, written>>
        /\ \A e \in Devices : sc'[e] = "run" => sc[e] = "run"
    BY <1>5 DEF Main, Start, Launch, WaitReturns, ZipCreate, ZipFiles, ZipClose, Copy,
         Upload, UploadOnRemoteScp, PostFile, RemoveUploaded, Download, DownloadDial,
         DownloadFetch, Interrupt, collectVars, NotArchive, NotHandedOver, NotDownloaded,
         TypeOK
  <2>2. QED
    BY <2>1 DEF FileInv, Listed
<1>6. CASE UNCHANGED vars
  BY <1>6 DEF vars, collectVars, FileInv, Listed
<1>7. QED
  BY <1>1, <1>2, <1>3, <1>4, <1>5, <1>6 DEF Next, Collector

-----------------------------------------------------------------------------
(* The archive                                                             *)

\* While a collector runs there is no archive yet, and it removes no file.
LEMMA CollectorArchive ==
  ASSUME OneShotInv, NEW d \in Devices, Collector(d)
  PROVE  ArchiveInv'
<1> USE DEF OneShotInv
<1>1. pc \in {"launch", "wait"}
  BY CollectorBefore
<1>2. archive.st = "none" /\ \A e \in Devices : file[e] # "removed"
  BY <1>1 DEF ArchiveInv
<1>3. pc' = pc \/ pc' = "dead"
  BY DEF Collector, ScAuth, ScDial, ScSetup, ScCreate, ScCommand, ScReturn, Die
<1>4. archive' = archive /\ \A e \in Devices : file'[e] = file[e] \/ file'[e] = "there"
  BY DEF Collector, ScAuth, ScDial, ScSetup, ScCreate, ScCommand, ScReturn, NotCollected,
         TypeOK
<1>5. QED
  BY <1>1, <1>2, <1>3, <1>4 DEF ArchiveInv

\* Adding the file at place zi adds the replies of its device, and when all
\* are added nothing is missing (saving.go 21-25).
LEMMA FilesArchive ==
  ASSUME OneShotInv, ZipFiles
  PROVE  ArchiveInv'
<1> USE DEF OneShotInv
<1>1. /\ pc = "add" /\ archive = [st |-> "open", holds |-> Added]
      /\ \A d \in Devices : file[d] # "removed"
      /\ UNCHANGED <<written, outFile, file>>
  BY DEF ZipFiles, ArchiveInv, At, NotArchive
<1>2. outFile \in Seq(Devices) /\ zi \in 1 .. Len(outFile) + 1
  BY DEF TypeOK
<1>3. CASE pc' = "add"
  <2>1. /\ zi <= Len(outFile) /\ zi' = zi + 1
        /\ archive' = [st |-> "open",
                       holds |-> Added \cup {r \in written : r[1] = outFile[zi]}]
    BY <1>1, <1>3 DEF ZipFiles, AddFileToZip, Die
  <2>2. Added' = Added \cup {r \in written : r[1] = outFile[zi]}
    <3>1. 1 .. zi' - 1 = (1 .. zi - 1) \cup {zi}
      BY <1>2, <2>1
    <3>2. QED
      BY <1>1, <3>1 DEF Added
  <2>3. QED
    BY <1>1, <1>3, <2>1, <2>2 DEF ArchiveInv
<1>4. CASE pc' = "close"
  <2>1. zi = Len(outFile) + 1 /\ archive' = archive
    BY <1>1, <1>2, <1>4 DEF ZipFiles, AddFileToZip, Die
  <2>2. Added = written
    BY <1>2, <2>1 DEF Added, FileInv, Listed
  <2>3. QED
    BY <1>1, <1>4, <2>1, <2>2 DEF ArchiveInv
<1>5. CASE pc' = "dead"
  <2>1. archive' = archive
    BY <1>1, <1>5 DEF ZipFiles, AddFileToZip
  <2>2. QED
    BY <1>1, <1>5, <2>1 DEF ArchiveInv
<1>6. QED
  BY <1>1, <1>3, <1>4, <1>5 DEF ZipFiles, AddFileToZip, Die

LEMMA ArchiveStep == OneShotInv /\ [Next]_vars => ArchiveInv'
<1> SUFFICES ASSUME OneShotInv, [Next]_vars PROVE ArchiveInv'
  OBVIOUS
<1> USE DEF OneShotInv, ArchiveInv
<1>1. ASSUME NEW d \in Devices, Collector(d) PROVE ArchiveInv'
  BY <1>1, CollectorArchive
<1>2. CASE Start
  BY <1>2 DEF Start, At, collectVars
<1>3. CASE Launch
  BY <1>3 DEF Launch, At
<1>4. CASE WaitReturns
  BY <1>4 DEF WaitReturns, At, collectVars
<1>5. CASE ZipCreate
  <2>1. pc = "create" /\ UNCHANGED <<written, outFile, file>> /\ zi' = 1
    BY <1>5 DEF ZipCreate, At, NotArchive
  <2>2. Added' = {}
    BY <2>1 DEF Added
  <2>3. QED
    BY <1>5, <2>1, <2>2 DEF ZipCreate, Die
<1>6. CASE ZipFiles
  BY <1>6, FilesArchive
<1>7. CASE ZipClose
  BY <1>7 DEF ZipClose, At, NotArchive
<1>8. CASE RemoveOriginals
  BY <1>8 DEF RemoveOriginals, At, Die, NotArchive
<1>9. CASE Copy
  BY <1>9 DEF Copy, At, NotHandedOver, collectVars
<1>10. CASE Upload
  BY <1>10 DEF Upload, At, NotHandedOver, collectVars, TypeOK, ConfigType
<1>11. CASE UploadOnRemoteScp
  BY <1>11 DEF UploadOnRemoteScp, At, Die, NotHandedOver, collectVars
<1>12. CASE PostFile
  BY <1>12 DEF PostFile, At, Die, NotHandedOver, collectVars
<1>13. CASE RemoveUploaded
  BY <1>13 DEF RemoveUploaded, At, Die, NotHandedOver, collectVars
<1>14. CASE Download \/ DownloadDial \/ DownloadFetch
  BY <1>14 DEF Download, DownloadDial, DownloadFetch, At, Die, NotDownloaded, collectVars
<1>15. CASE Interrupt
  BY <1>15 DEF Interrupt, Die, collectVars
<1>16. CASE UNCHANGED vars
  BY <1>16 DEF vars, collectVars, Added
<1>17. QED
  BY <1>1, <1>2, <1>3, <1>4, <1>5, <1>6, <1>7, <1>8, <1>9, <1>10, <1>11, <1>12, <1>13,
     <1>14, <1>15, <1>16 DEF Next, Main

-----------------------------------------------------------------------------
(* Types                                                                   *)

ArchiveType == [st : {"none", "open", "whole", "broken", "gone"}, holds : SUBSET Replies]
Secrets     == {NoSecret} \cup {Plain(d) : d \in Devices} \cup {Encoded(d) : d \in Devices}

LEMMA Appended ==
  ASSUME NEW S, NEW s \in Seq(S), NEW e \in S
  PROVE  /\ Append(s, e) \in Seq(S)
         /\ Len(s) \in Nat /\ Len(Append(s, e)) = Len(s) + 1
OBVIOUS

\* All but the counter, for the steps of a collector.
LEMMA CollectorType ==
  ASSUME OneShotInv, NEW d \in Devices, Collector(d), wg' \in 0 .. Cardinality(Devices)
  PROVE  TypeOK'
<1> USE DEF OneShotInv, TypeOK, NotCollected
<1>1. CASE ScAuth(d)
  <2>1. offered \in [Devices -> Secrets] /\ Plain(d) \in Secrets
    BY DEF Secrets
  <2>2. offered' \in [Devices -> Secrets]
    BY <1>1, <2>1 DEF ScAuth
  <2>3. sc' \in [Devices -> ScPcs] /\ pc' \in MainPcs
    BY <1>1 DEF ScAuth, ScGoto, Die, MainPcs, ScPcs
  <2>4. QED
    BY <1>1, <2>2, <2>3 DEF ScAuth, Secrets
<1>2. CASE ScDial(d)
  BY <1>2 DEF ScDial, ScGoto, Done, ScPcs
<1>3. CASE ScSetup(d)
  BY <1>3 DEF ScSetup, ScGoto, Done, ScPcs
<1>4. CASE ScCreate(d)
  <2>1. outFile' \in Seq(Devices) /\ Len(outFile') \in Nat /\ Len(outFile') >= Len(outFile)
    <3>1. outFile' = Append(outFile, d) \/ outFile' = outFile
      BY <1>4 DEF ScCreate
    <3>2. /\ outFile \in Seq(Devices) /\ Append(outFile, d) \in Seq(Devices)
          /\ Len(outFile) \in Nat /\ Len(Append(outFile, d)) = Len(outFile) + 1
      BY Appended
    <3>3. CASE outFile' = Append(outFile, d)
      BY ONLY <3>2, <3>3
    <3>4. CASE outFile' = outFile
      BY ONLY <3>2, <3>4
    <3>5. QED
      BY <3>1, <3>3, <3>4
  <2>2. sc' \in [Devices -> ScPcs] /\ file' \in [Devices -> {"none", "there", "removed"}]
    BY <1>4 DEF ScCreate, ScGoto, Done, ScPcs
  <2>3. zi' \in 1 .. Len(outFile') + 1
    BY <1>4, <2>1 DEF ScCreate
  <2>4. QED
    BY <1>4, <2>1, <2>2, <2>3 DEF ScCreate
<1>5. CASE ScCommand(d)
  <2>1. cmd[d] \in 1 .. Commands
    <3>1. cmd[d] \in 1 .. Commands + 1 /\ cmd[d] <= Commands
      BY <1>5 DEF ScCommand
    <3>2. QED
      BY <3>1
  <2>2. cmd' \in [Devices -> 1 .. Commands + 1]
    <3>1. cmd' = [cmd EXCEPT ![d] = cmd[d] + 1] \/ cmd' = cmd
      BY <1>5 DEF ScCommand
    <3>2. cmd[d] + 1 \in 1 .. Commands + 1 /\ cmd \in [Devices -> 1 .. Commands + 1]
      BY <2>1
    <3>3. QED
      BY <3>1, <3>2
  <2>3. written' \subseteq Replies
    BY <1>5, <2>1 DEF ScCommand, Replies
  <2>4. sc' \in [Devices -> ScPcs]
    BY <1>5 DEF ScCommand, Done, ScPcs
  <2>5. QED
    BY <1>5, <2>2, <2>3, <2>4 DEF ScCommand
<1>6. CASE ScReturn(d)
  BY <1>6 DEF ScReturn, Done, ScPcs
<1>7. QED
  BY <1>1, <1>2, <1>3, <1>4, <1>5, <1>6 DEF Collector

LEMMA TypeStep == OneShotInv /\ [Next]_vars => TypeOK'
<1> SUFFICES ASSUME OneShotInv, [Next]_vars PROVE TypeOK'
  OBVIOUS
<1>1. wg' \in 0 .. Cardinality(Devices)
  <2>1. wg' = Cardinality(Collectors')
    BY LiveStep DEF LiveInv
  <2>2. Collectors' \in SUBSET Devices
    BY DEF Collectors
  <2>3. QED
    BY <2>1, <2>2, FS_Subset, FS_CardinalityType
<1> USE DEF OneShotInv, TypeOK
<1>2. ASSUME NEW d \in Devices, Collector(d) PROVE TypeOK'
  BY <1>1, <1>2, CollectorType
<1>3. CASE Start
  BY <1>1, <1>3 DEF Start, collectVars, MainPcs
<1>4. CASE Launch
  BY <1>1, <1>4 DEF Launch, MainPcs, ScPcs
<1>5. CASE WaitReturns
  BY <1>1, <1>5 DEF WaitReturns, collectVars, MainPcs
<1>6. CASE ZipCreate
  <2>1. archive' \in ArchiveType /\ pc' \in MainPcs
    BY <1>6 DEF ZipCreate, Die, MainPcs, ArchiveType
  <2>2. zi' \in 1 .. Len(outFile') + 1
    BY <1>6 DEF ZipCreate, NotArchive
  <2>3. QED
    BY <1>1, <1>6, <2>1, <2>2 DEF ZipCreate, NotArchive, ArchiveType
<1>7. CASE ZipFiles
  <2>1. archive' \in [st : {"none", "open", "whole", "broken", "gone"},
                      holds : SUBSET Replies]
    BY <1>7 DEF ZipFiles, AddFileToZip
  <2>2. zi' \in 1 .. Len(outFile) + 1 /\ pc' \in MainPcs
    BY <1>7 DEF ZipFiles, AddFileToZip, Die, MainPcs
  <2>3. QED
    BY <1>1, <1>7, <2>1, <2>2 DEF ZipFiles, NotArchive
<1>8. CASE ZipClose
  <2>1. archive' \in ArchiveType /\ pc' \in MainPcs
    BY <1>8 DEF ZipClose, MainPcs, ArchiveType
  <2>2. zi' \in 1 .. Len(outFile') + 1
    BY <1>8 DEF ZipClose, NotArchive
  <2>3. QED
    BY <1>1, <1>8, <2>1, <2>2 DEF ZipClose, NotArchive, ArchiveType
<1>9. CASE RemoveOriginals
  <2>1. zi' \in 1 .. Len(outFile') + 1 /\ pc' \in MainPcs
    BY <1>9 DEF RemoveOriginals, Die, NotArchive, MainPcs
  <2>2. file' \in [Devices -> {"none", "there", "removed"}]
    BY <1>9 DEF RemoveOriginals
  <2>3. QED
    BY <1>1, <1>9, <2>1, <2>2 DEF RemoveOriginals, NotArchive
<1>10. CASE Copy
  BY <1>1, <1>10 DEF Copy, CopyFile, NotHandedOver, collectVars, MainPcs
<1>11. CASE Upload
  BY <1>1, <1>11 DEF Upload, NotHandedOver, collectVars, MainPcs, ConfigType
<1>12. CASE UploadOnRemoteScp
  BY <1>1, <1>12 DEF UploadOnRemoteScp, Die, NotHandedOver, collectVars, MainPcs
<1>13. CASE PostFile
  BY <1>1, <1>13 DEF PostFile, Die, NotHandedOver, collectVars, MainPcs
<1>14. CASE RemoveUploaded
  <2>1. archive' \in ArchiveType /\ pc' \in MainPcs
    BY <1>14 DEF RemoveUploaded, Die, MainPcs, ArchiveType
  <2>2. QED
    BY <1>1, <1>14, <2>1 DEF RemoveUploaded, NotHandedOver, collectVars, ArchiveType
<1>15. CASE Download
  BY <1>1, <1>15 DEF Download, NotDownloaded, collectVars, MainPcs
<1>16. CASE DownloadDial
  <2>1. offered \in [Devices -> Secrets] /\ \A d \in Devices : DownloadSecret(d) \in Secrets
    BY DEF Secrets, DownloadSecret
  <2>2. offered' \in [Devices -> Secrets]
    <3>1. \/ offered' = offered
          \/ \E d \in Devices : offered' = [offered EXCEPT ![d] = DownloadSecret(d)]
      BY <1>16 DEF DownloadDial
    <3>2. QED
      BY ONLY <2>1, <3>1
  <2>3. target' \in [Devices -> Targets]
    BY <1>16 DEF DownloadDial, Targets
  <2>4. pending' \subseteq Devices /\ pc' \in MainPcs
    BY <1>16 DEF DownloadDial, Die, MainPcs
  <2>5. UNCHANGED <<conf, wg, sc, cmd, file, written, outFile, zi, archive, torn, copied,
                    remote, refused>>
    BY <1>16 DEF DownloadDial, NotDownloaded, collectVars
  <2>6. TypeOK
    OBVIOUS
  <2>7. QED
    BY ONLY <2>2, <2>3, <2>4, <2>5, <2>6 DEF TypeOK, Secrets
<1>17. CASE DownloadFetch
  <2>1. target' \in [Devices -> Targets]
    BY <1>17 DEF DownloadFetch, Targets
  <2>2. pending' \subseteq Devices /\ pc' \in MainPcs
    BY <1>17 DEF DownloadFetch, MainPcs
  <2>3. UNCHANGED <<conf, wg, sc, cmd, file, written, outFile, zi, archive, torn, copied,
                    remote, refused, offered>>
    BY <1>17 DEF DownloadFetch, NotDownloaded, collectVars
  <2>4. TypeOK
    OBVIOUS
  <2>5. QED
    BY ONLY <2>1, <2>2, <2>3, <2>4 DEF TypeOK
<1>18. CASE Interrupt
  BY <1>1, <1>18 DEF Interrupt, Die, collectVars, MainPcs
<1>19. CASE UNCHANGED vars
  BY <1>1, <1>19 DEF vars, collectVars
<1>20. QED
  BY <1>2, <1>3, <1>4, <1>5, <1>6, <1>7, <1>8, <1>9, <1>10, <1>11, <1>12, <1>13, <1>14,
     <1>15, <1>16, <1>17, <1>18, <1>19 DEF Next, Main

-----------------------------------------------------------------------------
(* Theorems                                                                *)

LEMMA InitInv == Init => OneShotInv
<1> SUFFICES ASSUME Init PROVE OneShotInv
  OBVIOUS
<1>1. Collectors = {}
  BY DEF Init, Collectors, Live
<1>2. TypeOK
  <2>1. 0 \in 0 .. Cardinality(Devices) /\ 1 \in 1 .. Commands + 1
    BY FS_CardinalityType
  <2>2. NoArchive \in ArchiveType
    BY DEF NoArchive, ArchiveType
  <2>3. outFile \in Seq(Devices) /\ zi \in 1 .. Len(outFile) + 1
    BY DEF Init
  <2>4. QED
    BY <2>1, <2>2, <2>3 DEF Init, TypeOK, MainPcs, ScPcs, Targets, ArchiveType
<1>3. LiveInv
  BY <1>1, FS_EmptySet DEF Init, LiveInv
<1>4. FileInv /\ ArchiveInv
  BY DEF Init, FileInv, ArchiveInv, Listed, NoArchive
<1>5. QED
  BY <1>2, <1>3, <1>4 DEF OneShotInv

\* The invariant holds at every point of every run (main.go 547-655).
THEOREM OneShotCorrect == Spec => []OneShotInv
<1>1. OneShotInv /\ [Next]_vars => OneShotInv'
  BY LiveStep, FileStep, ArchiveStep, TypeStep DEF OneShotInv
<1>2. QED
  BY <1>1, InitInv, PTL DEF Spec

\* The counter of the WaitGroup, in particular, never goes below zero.
THEOREM OneShotType == Spec => []TypeOK
<1>1. OneShotInv => TypeOK
  BY DEF OneShotInv
<1>2. QED
  BY <1>1, OneShotCorrect, PTL

\* main archives, sends and removes only when no collector is left
\* (main.go 552-627).
THEOREM NoLateWriter == Spec => []NobodyWritesLater
<1>1. OneShotInv => NobodyWritesLater
  BY DEF OneShotInv, LiveInv, NobodyWritesLater, Collectors
<1>2. QED
  BY <1>1, OneShotCorrect, PTL

\* A finished archive holds all that was written (saving.go 13-27).
THEOREM ArchiveComplete == Spec => []ArchiveHasAll
<1>1. OneShotInv => ArchiveHasAll
  BY DEF OneShotInv, ArchiveInv, ArchiveHasAll
<1>2. QED
  BY <1>1, OneShotCorrect, PTL

\* A reply that was written is lost only to an archive whose closing failed or
\* to an upload server that refuses it (main.go 557-627, saving.go 18-20, 64-79).
THEOREM NothingLost == Spec => []ReplyKept
<1>1. OneShotInv => ReplyKept
  <2> SUFFICES ASSUME OneShotInv, ~torn, ~refused, NEW r \in written, file[r[1]] # "there"
               PROVE  \/ archive.st = "whole" /\ r \in archive.holds
                      \/ r \in remote
    BY DEF ReplyKept
  <2>1. r[1] \in Devices /\ file[r[1]] = "removed"
    BY DEF OneShotInv, TypeOK, FileInv, Replies
  <2>2. archive.st \in {"whole", "gone"}
    BY <2>1 DEF OneShotInv, TypeOK, ArchiveInv
  <2>3. QED
    BY <2>2 DEF OneShotInv, ArchiveInv
<1>2. QED
  BY <1>1, OneShotCorrect, PTL
=============================================================================
