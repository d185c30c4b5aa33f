--------------------------- MODULE AppStateProofs ---------------------------
(***************************************************************************)
(* Theorems about AppState, for every number of importing threads, decision *)
(* threads, uploads, imports, frames and restarts.                         *)
(***************************************************************************)
EXTENDS AppState, TLAPS

PcType == {"idle", "write", "integrity", "chain", "swap", "backup", "copy", "copying",
           "open", "engine", "opened", "failed"}
ImportType == [pc : PcType, upload : Uploads \cup {NoFile}, src : Content \cup {NoFile}]

\* An upload both checks let through.
Passed(u) == u \in Uploads /\ u.sound /\ u.chain = "ok"

\* An importer between close and copy holds m over a closed store.
LockOK ==
    \A i \in Importers :
        /\ imp[i].pc \in {"backup", "copy", "copying", "engine"} => m = i
        /\ imp[i].pc \in {"backup", "copy", "copying"} => store = 0

\* A copy has a source.
SourceOK == \A i \in Importers : imp[i].pc = "copying" => imp[i].src # NoFile

\* Without overlap at most one importer is at work.
AloneOK ==
    ~ overlapped =>
        \A i, j \in Importers : imp[i].pc # "idle" /\ imp[j].pc # "idle" => i = j

\* What a lone importer knows of the files at each of its steps.
StageOK ==
    ~ overlapped =>
        \A i \in Importers :
            LET u == imp[i].upload
            IN  /\ imp[i].pc # "idle" => u \in Uploads
                /\ imp[i].pc = "integrity" => tmp \in {u, Partial}
                /\ imp[i].pc = "chain" => tmp = u /\ u.sound
                /\ imp[i].pc \in {"swap", "backup", "copy"} => tmp = u /\ Passed(u)
                /\ imp[i].pc = "copying" => tmp = u /\ imp[i].src = u /\ Passed(u) /\ dbFile = Empty
                /\ imp[i].pc = "open" => dbFile = u /\ Passed(u)
                /\ imp[i].pc \in {"engine", "opened"} => store # 0 /\ served = u /\ Passed(u)
                /\ imp[i].pc = "opened" => engine = store

\* What the files can hold when imports do not overlap.
FilesOK ==
    ~ overlapped =>
        /\ Verified(dbFile) \/ dbFile \in {Empty, Partial}
        /\ dbFile = Empty => restarts > 0 \/ \E i \in Importers : imp[i].pc = "copying"
        /\ Verified(exported) \/ exported \in {Empty, Partial}

\* The file served last is the database file, or an import is about to open the
\* new one, or the file is damaged and the backup holds what was served.
Saved == unsaved \/ bak = served
BackupOK ==
    ~ overlapped =>
        /\ \/ served = dbFile
           \/ \E i \in Importers : imp[i].pc = "open"
           \/ dbFile \in {Empty, Partial} /\ Saved
        /\ \A i \in Importers : imp[i].pc \in {"copy", "copying"} => Saved

IInv == TypeOK /\ LockOK /\ SourceOK /\ OpenOnFile /\ AloneOK /\ StageOK /\ FilesOK /\ BackupOK

Moved(i, pc) ==
    /\ imp' \in [Importers -> ImportType]
    /\ imp'[i].pc = pc
    /\ imp'[i].upload = imp[i].upload
    /\ \A j \in Importers \ {i} : imp'[j] = imp[j]
-----------------------------------------------------------------------------
\* A step of one importer leaves the others where they are.
LEMMA GotoMoves ==
    ASSUME imp \in [Importers -> ImportType], NEW i \in Importers, NEW pc \in PcType,
           Goto(i, pc)
    PROVE  Moved(i, pc) /\ imp'[i].src = imp[i].src
  BY DEF Goto, Moved, ImportType, PcType

\* What TypeOK says of the importers.
LEMMA TypeImp ==
    ASSUME TypeOK
    PROVE  imp \in [Importers -> ImportType]
  BY DEF TypeOK, ImportType, PcType

\* The files an import can find, told apart.
LEMMA FilesDiffer ==
    /\ \A u \in Uploads : u \in Content /\ u \notin {Original, Empty, Partial, NoFile}
    /\ Original \notin {Empty, Partial, NoFile}
    /\ Empty \notin {Partial, NoFile} /\ Partial # NoFile
    /\ Original \in Content /\ Empty \in Content /\ Partial \in Content
  BY AppStateAssumption DEF Content
-----------------------------------------------------------------------------
(* The steps of an import preserve the invariant.                          *)

LEMMA StartStep ==
    ASSUME IInv, NEW i \in Importers, NEW u \in Uploads, importDatabase(i, u)
    PROVE  IInv'
<1>0. imp \in [Importers -> ImportType]
  BY TypeImp DEF IInv
<1>1. /\ imp[i].pc = "idle"
      /\ tmp' = Empty
      /\ overlapped' = (overlapped \/ \E j \in Importers : imp[j].pc # "idle")
      /\ imports' = imports + 1
      /\ UNCHANGED <<failing, unsaved, dbFile, bak, store, engine, gen, served, m, engineMutex,
                     using, alive, exported, scans, restarts>>
  BY DEF importDatabase, At, past, objects, locks
<1>2. /\ imp' \in [Importers -> ImportType]
      /\ imp'[i].pc = "write" /\ imp'[i].upload = u
      /\ \A j \in Importers \ {i} : imp'[j] = imp[j]
  BY <1>0 DEF importDatabase, ImportType, PcType
<1>3. TypeOK'
  BY <1>1, <1>2, FilesDiffer DEF IInv, TypeOK, ImportType, PcType
<1>4. LockOK' /\ SourceOK' /\ OpenOnFile' /\ AloneOK'
  BY <1>1, <1>2, ZenonT(40) DEF IInv, LockOK, SourceOK, OpenOnFile, AloneOK
<1>5. StageOK'
  BY <1>1, <1>2, ZenonT(40) DEF IInv, StageOK
<1>6. FilesOK' /\ BackupOK'
  BY <1>1, <1>2 DEF IInv, FilesOK, BackupOK, Saved, Verified
<1> QED
  BY <1>3, <1>4, <1>5, <1>6 DEF IInv

LEMMA WriteStep ==
    ASSUME IInv, NEW i \in Importers, WriteUpload(i)
    PROVE  IInv'
<1>0. imp \in [Importers -> ImportType]
  BY TypeImp DEF IInv
<1>1. /\ imp[i].pc = "write"
      /\ tmp' \in {imp[i].upload, Partial}
      /\ UNCHANGED <<failing, overlapped, unsaved, dbFile, bak, store, engine, gen, served, m, engineMutex,
                     using, alive, exported, imports, scans, restarts>>
  BY DEF WriteUpload, At, past, objects, locks, counts
<1>2. Moved(i, "integrity")
  BY <1>0, GotoMoves DEF WriteUpload, PcType
<1>3. TypeOK'
  <2>1. tmp' \in Content \cup {NoFile}
    BY <1>0, <1>1, FilesDiffer DEF ImportType
  <2> QED
    BY <1>1, <1>2, <2>1 DEF IInv, TypeOK, ImportType, PcType, Moved
<1>4. LockOK' /\ SourceOK' /\ OpenOnFile' /\ AloneOK'
  BY <1>1, <1>2 DEF IInv, LockOK, SourceOK, OpenOnFile, AloneOK, Moved
<1>5. StageOK'
  BY <1>1, <1>2 DEF IInv, StageOK, AloneOK, Moved
<1>6. FilesOK' /\ BackupOK'
  BY <1>1, <1>2 DEF IInv, FilesOK, BackupOK, Saved, Verified, Moved
<1> QED
  BY <1>3, <1>4, <1>5, <1>6 DEF IInv

LEMMA IntegrityStep ==
    ASSUME IInv, NEW i \in Importers, sqliteIntegrityOk(i)
    PROVE  IInv'
<1>0. imp \in [Importers -> ImportType]
  BY TypeImp DEF IInv
<1>1. /\ imp[i].pc = "integrity"
      /\ tmp' = Opened
      /\ UNCHANGED <<failing, overlapped, unsaved, dbFile, bak, store, engine, gen, served, m, engineMutex,
                     using, alive, exported, imports, scans, restarts>>
  BY DEF sqliteIntegrityOk, At, past, objects, locks, counts
<1>2. \/ Moved(i, "chain") /\ Sound(Opened)
      \/ Moved(i, "failed")
  BY <1>0, GotoMoves DEF sqliteIntegrityOk, PcType
<1>3. TypeOK'
  <2>1. tmp' \in Content \cup {NoFile}
    BY <1>1, FilesDiffer DEF IInv, TypeOK, Opened
  <2> QED
    BY <1>1, <1>2, <2>1 DEF IInv, TypeOK, ImportType, PcType, Moved
<1>4. LockOK' /\ SourceOK' /\ OpenOnFile' /\ AloneOK'
  BY <1>1, <1>2 DEF IInv, LockOK, SourceOK, OpenOnFile, AloneOK, Moved
<1>5. StageOK'
  <2>1. ~ overlapped /\ Sound(Opened) => Opened = imp[i].upload /\ imp[i].upload.sound
    BY <1>1, FilesDiffer DEF IInv, StageOK, Opened, Sound
  <2> QED
    BY <1>1, <1>2, <2>1 DEF IInv, StageOK, AloneOK, Moved
<1>6. FilesOK' /\ BackupOK'
  BY <1>1, <1>2 DEF IInv, FilesOK, BackupOK, Saved, Verified, Moved
<1> QED
  BY <1>3, <1>4, <1>5, <1>6 DEF IInv

LEMMA ChainStep ==
    ASSUME IInv, NEW i \in Importers, verifyUploadedAuditChain(i)
    PROVE  IInv'
<1>0. imp \in [Importers -> ImportType]
  BY TypeImp DEF IInv
<1>1. /\ imp[i].pc = "chain"
      /\ tmp' = Opened
      /\ UNCHANGED <<failing, overlapped, unsaved, dbFile, bak, store, engine, gen, served, m, engineMutex,
                     using, alive, exported, imports, scans, restarts>>
  BY DEF verifyUploadedAuditChain, At, past, objects, locks, counts
<1>2. \/ Moved(i, "swap") /\ ChainVerdict(Opened) = "ok"
      \/ Moved(i, "failed")
      \/ Moved(i, "idle")
  <2>1. ChainVerdict(Opened) \in {"ok", "bad", "throws"}
    BY AppStateAssumption DEF ChainVerdict, UploadType
  <2> QED
    BY <1>0, <2>1, GotoMoves DEF verifyUploadedAuditChain, PcType
<1>3. TypeOK'
  <2>1. tmp' \in Content \cup {NoFile}
    BY <1>1, FilesDiffer DEF IInv, TypeOK, Opened
  <2> QED
    BY <1>1, <1>2, <2>1 DEF IInv, TypeOK, ImportType, PcType, Moved
<1>4. LockOK' /\ SourceOK' /\ OpenOnFile' /\ AloneOK'
  BY <1>1, <1>2 DEF IInv, LockOK, SourceOK, OpenOnFile, AloneOK, Moved
<1>5. StageOK'
  <2>1. ~ overlapped => Opened = imp[i].upload /\ imp[i].upload.sound /\ imp[i].upload \in Uploads
    BY <1>1, FilesDiffer DEF IInv, StageOK, Opened
  <2>2. ~ overlapped /\ ChainVerdict(Opened) = "ok" => Passed(imp[i].upload)
    BY <2>1, FilesDiffer DEF ChainVerdict, Passed
  <2> QED
    BY <1>1, <1>2, <2>1, <2>2 DEF IInv, StageOK, AloneOK, Moved
<1>6. FilesOK' /\ BackupOK'
  BY <1>1, <1>2 DEF IInv, FilesOK, BackupOK, Saved, Verified, Moved
<1> QED
  BY <1>3, <1>4, <1>5, <1>6 DEF IInv

LEMMA CloseStep ==
    ASSUME IInv, NEW i \in Importers, CloseAll(i)
    PROVE  IInv'
<1>0. imp \in [Importers -> ImportType]
  BY TypeImp DEF IInv
<1>1. /\ imp[i].pc = "swap" /\ m = Nobody
      /\ m' = i /\ store' = 0 /\ engine' = 0
      /\ UNCHANGED <<failing, overlapped, unsaved, dbFile, bak, tmp, gen, served, engineMutex,
                     using, alive, exported, imports, scans, restarts>>
  BY DEF CloseAll, At, past, files, counts
<1>2. Moved(i, "backup")
  BY <1>0, GotoMoves DEF CloseAll, PcType
<1>3. TypeOK'
  BY <1>1, <1>2 DEF IInv, TypeOK, ImportType, PcType, Moved
<1>4. LockOK' /\ SourceOK' /\ OpenOnFile' /\ AloneOK'
  BY <1>1, <1>2, AppStateAssumption DEF IInv, LockOK, SourceOK, OpenOnFile, AloneOK, Moved
<1>5. StageOK'
  BY <1>1, <1>2 DEF IInv, StageOK, AloneOK, Moved
<1>6. FilesOK' /\ BackupOK'
  BY <1>1, <1>2 DEF IInv, FilesOK, BackupOK, Saved, Verified, Moved
<1> QED
  BY <1>3, <1>4, <1>5, <1>6 DEF IInv

LEMMA BackupStep ==
    ASSUME IInv, NEW i \in Importers, Backup(i)
    PROVE  IInv'
<1>0. imp \in [Importers -> ImportType]
  BY TypeImp DEF IInv
<1>1. /\ imp[i].pc = "backup"
      /\ bak' \in {dbFile, bak, Partial}
      /\ unsaved' = (bak' # dbFile \/ (dbFile \in {Empty, Partial} /\ served # dbFile))
      /\ UNCHANGED <<failing, overlapped, dbFile, tmp, store, engine, gen, served, m, engineMutex,
                     using, alive, exported, imports, scans, restarts>>
  BY DEF Backup, At, past, objects, locks, counts
<1>2. Moved(i, "copy")
  BY <1>0, GotoMoves DEF Backup, PcType
<1>3. TypeOK'
  <2>1. bak' \in Content \cup {NoFile}
    BY <1>1, FilesDiffer DEF IInv, TypeOK
  <2> QED
    BY <1>1, <1>2, <2>1 DEF IInv, TypeOK, ImportType, PcType, Moved
<1>4. LockOK' /\ SourceOK' /\ OpenOnFile' /\ AloneOK'
  BY <1>1, <1>2 DEF IInv, LockOK, SourceOK, OpenOnFile, AloneOK, Moved
<1>5. StageOK'
  BY <1>1, <1>2 DEF IInv, StageOK, AloneOK, Moved
<1>6. FilesOK'
  BY <1>1, <1>2 DEF IInv, FilesOK, Verified, Moved
<1>7. BackupOK'
  BY <1>1, <1>2 DEF IInv, BackupOK, Saved, AloneOK, Moved
<1> QED
  BY <1>3, <1>4, <1>5, <1>6, <1>7 DEF IInv

\* The copy cannot find its source gone when the import is alone.
LEMMA CopyBeginStep ==
    ASSUME IInv, NEW i \in Importers, CopyBegin(i)
    PROVE  IInv'
<1>0. imp \in [Importers -> ImportType]
  BY TypeImp DEF IInv
<1>1. /\ imp[i].pc = "copy"
      /\ UNCHANGED <<failing, overlapped, unsaved, bak, tmp, store, engine, gen, served, engineMutex,
                     using, alive, exported, imports, scans, restarts>>
  BY DEF CopyBegin, At, past, objects, counts
<1>2. CASE tmp = NoFile
  <2>1. m' = Nobody /\ dbFile' = dbFile /\ Moved(i, "failed")
    BY <1>0, <1>2, GotoMoves DEF CopyBegin, PcType
  <2>2. overlapped
    BY <1>1, <1>2, FilesDiffer DEF IInv, StageOK, Passed
  <2>3. \A j \in Importers \ {i} : imp[j].pc \notin {"backup", "copy", "copying", "engine"}
    BY <1>1 DEF IInv, LockOK
  <2>4. TypeOK' /\ LockOK' /\ SourceOK' /\ OpenOnFile'
    BY <1>1, <2>1, <2>3 DEF IInv, TypeOK, ImportType, PcType, Moved, LockOK, SourceOK, OpenOnFile
  <2> QED
    BY <1>1, <2>2, <2>4 DEF IInv, AloneOK, StageOK, FilesOK, BackupOK
<1>3. CASE tmp # NoFile
  <2>1. /\ m' = m /\ dbFile' = Empty
        /\ Moved(i, "copying") /\ imp'[i].src = tmp
    BY <1>0, <1>3 DEF CopyBegin, IInv, TypeOK, Moved, ImportType, PcType
  <2>2. TypeOK'
    BY <1>1, <2>1, FilesDiffer DEF IInv, TypeOK, ImportType, PcType, Moved
  <2>3. LockOK' /\ SourceOK' /\ OpenOnFile' /\ AloneOK'
    BY <1>1, <1>3, <2>1 DEF IInv, LockOK, SourceOK, OpenOnFile, AloneOK, Moved
  <2>4. StageOK'
    BY <1>1, <2>1 DEF IInv, StageOK, AloneOK, Moved
  <2>5. FilesOK'
    BY <1>1, <2>1 DEF IInv, FilesOK, Verified, Moved
  <2>6. BackupOK'
    BY <1>1, <2>1, FilesDiffer DEF IInv, BackupOK, Saved, AloneOK, Moved
  <2> QED
    BY <2>2, <2>3, <2>4, <2>5, <2>6 DEF IInv
<1> QED
  BY <1>2, <1>3

LEMMA CopyEndStep ==
    ASSUME IInv, NEW i \in Importers, CopyEnd(i)
    PROVE  IInv'
<1>0. imp \in [Importers -> ImportType]
  BY TypeImp DEF IInv
<1>1. /\ imp[i].pc = "copying" /\ m' = Nobody
      /\ UNCHANGED <<failing, overlapped, unsaved, bak, tmp, store, engine, gen, served, engineMutex,
                     using, alive, exported, imports, scans, restarts>>
  BY DEF CopyEnd, At, past, objects, counts
<1>2. \/ /\ Moved(i, "open")
         /\ dbFile' \in {imp[i].src, tmp, Partial}
         /\ tmp = imp[i].src => dbFile' = imp[i].src
         /\ tmp = NoFile => dbFile' = imp[i].src
      \/ Moved(i, "failed") /\ failing /\ dbFile' = Partial
  BY <1>0, GotoMoves DEF CopyEnd, PcType
<1>3. m = i /\ store = 0
  BY <1>1 DEF IInv, LockOK
<1>4. LockOK' /\ SourceOK' /\ OpenOnFile' /\ AloneOK'
  <2>1. \A j \in Importers \ {i} : imp[j].pc \notin {"backup", "copy", "copying", "engine"}
    BY <1>3 DEF IInv, LockOK
  <2> QED
    BY <1>1, <1>2, <1>3, <2>1 DEF IInv, LockOK, SourceOK, OpenOnFile, AloneOK, Moved
<1>5. ~ overlapped => /\ Passed(imp[i].upload)
                      /\ \/ dbFile' = imp[i].upload /\ Moved(i, "open")
                         \/ dbFile' = Partial /\ Moved(i, "failed") /\ failing
  <2>1. ~ overlapped => tmp = imp[i].upload /\ imp[i].src = imp[i].upload /\ Passed(imp[i].upload)
    BY <1>1 DEF IInv, StageOK
  <2> QED
    BY <1>2, <2>1
<1>6. TypeOK'
  <2>1. imp[i].src \in Content
    BY <1>0, <1>1 DEF IInv, SourceOK, ImportType
  <2>2. dbFile' \in Content
    BY <1>2, <2>1, FilesDiffer DEF IInv, TypeOK
  <2> QED
    BY <1>1, <1>2, <2>2 DEF IInv, TypeOK, ImportType, PcType, Moved
<1>7. StageOK'
  BY <1>1, <1>2, <1>5 DEF IInv, StageOK, AloneOK, Moved
<1>8. FilesOK'
  BY <1>1, <1>2, <1>5, FilesDiffer DEF IInv, FilesOK, Verified, Passed, Moved
<1>9. BackupOK'
  BY <1>1, <1>2, <1>5, FilesDiffer DEF IInv, BackupOK, Saved, AloneOK, Moved, Passed
<1> QED
  BY <1>4, <1>6, <1>7, <1>8, <1>9 DEF IInv

LEMMA OpenStoreStep ==
    ASSUME IInv, NEW i \in Importers, OpenStore(i)
    PROVE  IInv'
<1>0. imp \in [Importers -> ImportType]
  BY TypeImp DEF IInv
<1>1. /\ imp[i].pc = "open" /\ m = Nobody
      /\ UNCHANGED <<failing, overlapped, unsaved, dbFile, bak, tmp, engine, engineMutex,
                     using, alive, exported, imports, scans, restarts>>
  BY DEF OpenStore, At, past, files, counts
<1>2. \A j \in Importers : imp[j].pc \notin {"backup", "copy", "copying", "engine"}
  BY <1>1, AppStateAssumption DEF IInv, LockOK
<1>3. ~ overlapped => dbFile = imp[i].upload /\ Passed(imp[i].upload)
  BY <1>1 DEF IInv, StageOK
<1>4. CASE dbFile = Partial
  <2>1. Moved(i, "idle") /\ UNCHANGED <<m, store, gen, served>>
    BY <1>0, <1>4, GotoMoves DEF OpenStore, PcType
  <2>2. overlapped
    BY <1>3, <1>4, FilesDiffer DEF Passed
  <2>3. TypeOK' /\ LockOK' /\ SourceOK' /\ OpenOnFile'
    BY <1>1, <1>2, <2>1 DEF IInv, TypeOK, ImportType, PcType, Moved, LockOK, SourceOK, OpenOnFile
  <2> QED
    BY <1>1, <2>2, <2>3 DEF IInv, AloneOK, StageOK, FilesOK, BackupOK
<1>5. CASE dbFile # Partial
  <2>1. /\ m' = i /\ gen' = gen + 1 /\ store' = gen + 1 /\ served' = dbFile
        /\ Moved(i, "engine")
    BY <1>0, <1>5, GotoMoves DEF OpenStore, PcType
  <2>2. gen \in Nat
    BY DEF IInv, TypeOK
  <2>3. TypeOK'
    BY <1>1, <1>5, <2>1, <2>2 DEF IInv, TypeOK, ImportType, PcType, Moved
  <2>4. LockOK' /\ SourceOK' /\ OpenOnFile' /\ AloneOK'
    BY <1>1, <1>2, <2>1 DEF IInv, LockOK, SourceOK, OpenOnFile, AloneOK, Moved
  <2>5. StageOK'
    BY <1>1, <1>3, <2>1, <2>2 DEF IInv, StageOK, AloneOK, Moved
  <2>6. FilesOK' /\ BackupOK'
    BY <1>1, <1>2, <2>1 DEF IInv, FilesOK, BackupOK, Saved, Verified, Moved
  <2> QED
    BY <2>3, <2>4, <2>5, <2>6 DEF IInv
<1> QED
  BY <1>4, <1>5

LEMMA OpenEngineStep ==
    ASSUME IInv, NEW i \in Importers, OpenEngine(i)
    PROVE  IInv'
<1>0. imp \in [Importers -> ImportType]
  BY TypeImp DEF IInv
<1>1. /\ imp[i].pc = "engine" /\ m' = Nobody /\ engine' = store
      /\ UNCHANGED <<failing, overlapped, unsaved, dbFile, bak, tmp, store, gen, served, engineMutex,
                     using, alive, exported, imports, scans, restarts>>
  BY DEF OpenEngine, At, past, files, counts
<1>2. Moved(i, "opened")
  BY <1>0, GotoMoves DEF OpenEngine, PcType
<1>3. \A j \in Importers \ {i} : imp[j].pc \notin {"backup", "copy", "copying", "engine"}
  BY <1>1 DEF IInv, LockOK
<1>4. TypeOK'
  BY <1>1, <1>2 DEF IInv, TypeOK, ImportType, PcType, Moved
<1>5. LockOK' /\ SourceOK' /\ OpenOnFile' /\ AloneOK'
  BY <1>1, <1>2, <1>3 DEF IInv, LockOK, SourceOK, OpenOnFile, AloneOK, Moved
<1>6. StageOK'
  BY <1>1, <1>2 DEF IInv, StageOK, AloneOK, Moved
<1>7. FilesOK' /\ BackupOK'
  BY <1>1, <1>2 DEF IInv, FilesOK, BackupOK, Saved, Verified, Moved
<1> QED
  BY <1>4, <1>5, <1>6, <1>7 DEF IInv

LEMMA EndStep ==
    ASSUME IInv, NEW i \in Importers, EndImport(i)
    PROVE  IInv'
<1>0. imp \in [Importers -> ImportType]
  BY TypeImp DEF IInv
<1>1. /\ imp[i].pc \in {"opened", "failed"} /\ tmp' = NoFile
      /\ UNCHANGED <<failing, overlapped, unsaved, dbFile, bak, store, engine, gen, served, m, engineMutex,
                     using, alive, exported, imports, scans, restarts>>
  BY DEF EndImport, At, past, objects, locks, counts
<1>2. /\ imp' \in [Importers -> ImportType]
      /\ imp'[i].pc = "idle"
      /\ \A j \in Importers \ {i} : imp'[j] = imp[j]
  BY <1>0 DEF EndImport, NoImport, ImportType, PcType
<1>3. TypeOK'
  BY <1>1, <1>2 DEF IInv, TypeOK, ImportType, PcType
<1>4. LockOK' /\ SourceOK' /\ OpenOnFile' /\ AloneOK'
  BY <1>1, <1>2 DEF IInv, LockOK, SourceOK, OpenOnFile, AloneOK
<1>5. StageOK'
  BY <1>1, <1>2 DEF IInv, StageOK, AloneOK
<1>6. FilesOK' /\ BackupOK'
  BY <1>1, <1>2 DEF IInv, FilesOK, BackupOK, Saved, Verified
<1> QED
  BY <1>3, <1>4, <1>5, <1>6 DEF IInv
-----------------------------------------------------------------------------
(* The requests, and the restart.                                          *)

\* A request changes only who uses the engine, the export and whether the process lives.
LEMMA RequestStep ==
    ASSUME IInv,
           UNCHANGED <<failing, dbFile, bak, tmp, store, engine, gen, served, m, imp, overlapped, unsaved,
                       imports, restarts>>,
           alive' \in BOOLEAN, engineMutex' \in Handlers \cup {Nobody},
           using' \in [Handlers -> 0..gen], exported' \in {exported, dbFile}, scans' \in Nat
    PROVE  IInv'
<1>1. TypeOK'
  BY DEF IInv, TypeOK
<1>2. LockOK' /\ SourceOK' /\ OpenOnFile' /\ AloneOK' /\ StageOK'
  BY DEF IInv, LockOK, SourceOK, OpenOnFile, AloneOK, StageOK
<1>3. FilesOK' /\ BackupOK'
  BY DEF IInv, FilesOK, BackupOK, Saved, Verified
<1> QED
  BY <1>1, <1>2, <1>3 DEF IInv

LEMMA RestartStep ==
    ASSUME IInv, Restart
    PROVE  IInv'
<1>1. /\ restarts' = restarts + 1 /\ m' = Nobody /\ engineMutex' = Nobody
      /\ imp' = [i \in Importers |-> NoImport] /\ using' = [h \in Handlers |-> 0]
      /\ UNCHANGED <<failing, overlapped, unsaved, dbFile, bak, tmp, exported, imports, scans>>
  BY DEF Restart, past, files
<1>2. \/ /\ dbFile = Partial /\ alive' = FALSE /\ store' = 0 /\ engine' = 0
         /\ UNCHANGED <<gen, served>>
      \/ /\ dbFile # Partial /\ alive' = TRUE /\ served' = dbFile
         /\ gen' = gen + 1 /\ store' = gen + 1 /\ engine' = gen + 1
  BY DEF Restart
<1>3. /\ \A i \in Importers : imp'[i].pc = "idle"
      /\ imp' \in [Importers -> ImportType]
  BY <1>1 DEF NoImport, ImportType, PcType
<1>4. gen \in Nat /\ restarts \in Nat /\ gen' \in Nat /\ restarts' > 0
  BY <1>1, <1>2 DEF IInv, TypeOK
<1>5. TypeOK'
  <2>1. using' \in [Handlers -> 0..gen']
    BY <1>1, <1>4
  <2>2. store' \in 0..gen' /\ engine' \in 0..gen'
    BY <1>2, <1>4
  <2>4. alive' \in BOOLEAN
    BY <1>2
  <2>3. served' \in Content \ {Partial}
    BY <1>2 DEF IInv, TypeOK
  <2> QED
    BY <1>1, <1>3, <1>4, <2>1, <2>2, <2>3, <2>4 DEF IInv, TypeOK, ImportType, PcType
<1>6. LockOK' /\ SourceOK' /\ OpenOnFile' /\ AloneOK' /\ StageOK'
  BY <1>1, <1>2, <1>3 DEF IInv, LockOK, SourceOK, OpenOnFile, AloneOK, StageOK
<1>7. FilesOK' /\ BackupOK'
  <2>1. FilesOK'
    BY <1>1, <1>2, <1>3, <1>4 DEF IInv, FilesOK, Verified
  <2>2. ~ overlapped /\ dbFile = Partial => \A i \in Importers : imp[i].pc # "open"
    BY FilesDiffer DEF IInv, StageOK, Passed
  <2>3. BackupOK'
    BY <1>1, <1>2, <1>3, <2>2 DEF IInv, BackupOK, Saved
  <2> QED
    BY <2>1, <2>3
<1> QED
  BY <1>5, <1>6, <1>7 DEF IInv
-----------------------------------------------------------------------------
LEMMA InvInit == Init => IInv
<1> SUFFICES ASSUME Init
             PROVE  IInv
  OBVIOUS
<1>1. \A i \in Importers : imp[i].pc = "idle"
  BY DEF Init, NoImport
<1>2. TypeOK
  <2>1. imp \in [Importers -> ImportType]
    BY DEF Init, NoImport, ImportType, PcType
  <2>2. {alive, failing, overlapped, unsaved} \subseteq BOOLEAN
    BY AppStateAssumption DEF Init
  <2>3. using \in [Handlers -> 0..gen]
    BY DEF Init
  <2> QED
    BY <2>1, <2>2, <2>3, FilesDiffer DEF Init, TypeOK, ImportType, PcType
<1>3. LockOK /\ SourceOK /\ OpenOnFile /\ AloneOK /\ StageOK
  BY <1>1 DEF Init, LockOK, SourceOK, OpenOnFile, AloneOK, StageOK
<1>4. FilesOK /\ BackupOK
  BY <1>1, FilesDiffer DEF Init, FilesOK, BackupOK, Saved, Verified
<1> QED
  BY <1>2, <1>3, <1>4 DEF IInv

LEMMA InvStep == IInv /\ [Next]_vars => IInv'
<1> SUFFICES ASSUME IInv, [Next]_vars
             PROVE  IInv'
  OBVIOUS
<1>0. alive \in BOOLEAN /\ using \in [Handlers -> 0..gen] /\ scans \in Nat
      /\ engineMutex \in Handlers \cup {Nobody} /\ engine \in 0..gen
  BY DEF IInv, TypeOK
<1>1. ASSUME NEW i \in Importers, Import(i)
      PROVE  IInv'
  BY <1>1, StartStep, WriteStep, IntegrityStep, ChainStep, CloseStep, BackupStep,
     CopyBeginStep, CopyEndStep, OpenStoreStep, OpenEngineStep, EndStep DEF Import
<1>2. ASSUME NEW h \in Handlers, BeginScan(h)
      PROVE  IInv'
  <2>1. UNCHANGED <<failing, dbFile, bak, tmp, store, engine, gen, served, m, imp, overlapped, unsaved,
                    imports, restarts, exported>>
    BY <1>2 DEF BeginScan, past, files, objects
  <2>2. scans' \in Nat
    BY <1>0, <1>2 DEF BeginScan
  <2>3. \/ UNCHANGED <<engineMutex, using>>
        \/ engineMutex' = h /\ using' = [using EXCEPT ![h] = engine]
    BY <1>2 DEF BeginScan
  <2>4. engineMutex' \in Handlers \cup {Nobody} /\ using' \in [Handlers -> 0..gen]
    BY <1>0, <2>3
  <2>5. alive' \in BOOLEAN
    BY <1>0, <1>2 DEF BeginScan
  <2> QED
    BY <2>1, <2>2, <2>4, <2>5, RequestStep
<1>3. ASSUME NEW h \in Handlers, EndScan(h)
      PROVE  IInv'
  <2>1. UNCHANGED <<failing, dbFile, bak, tmp, store, engine, gen, served, m, imp, overlapped, unsaved,
                    imports, restarts, exported, scans>>
    BY <1>3 DEF EndScan, past, files, objects, counts
  <2>2. \/ UNCHANGED <<engineMutex, using>>
        \/ engineMutex' = Nobody /\ using' = [using EXCEPT ![h] = 0]
    BY <1>3 DEF EndScan
  <2>3. gen \in Nat
    BY DEF IInv, TypeOK
  <2>4. engineMutex' \in Handlers \cup {Nobody} /\ using' \in [Handlers -> 0..gen]
    BY <1>0, <2>2, <2>3
  <2>5. alive' \in BOOLEAN
    BY <1>0, <1>3 DEF EndScan
  <2> QED
    BY <1>0, <2>1, <2>4, <2>5, RequestStep
<1>4. CASE AdminRequest
  <2>1. /\ UNCHANGED <<failing, dbFile, bak, tmp, store, engine, gen, served, m, engineMutex, imp,
                       using, overlapped, unsaved, imports, restarts, exported, scans>>
        /\ alive' \in BOOLEAN
    BY <1>4 DEF AdminRequest, past, files, objects, locks, counts
  <2> QED
    BY <1>0, <2>1, RequestStep
<1>5. CASE exportDatabase
  <2>1. /\ UNCHANGED <<failing, dbFile, bak, tmp, store, engine, gen, served, m, engineMutex, imp,
                       using, alive, overlapped, unsaved, imports, restarts, scans>>
        /\ exported' = dbFile
    BY <1>5 DEF exportDatabase, past, files, objects, locks, counts
  <2> QED
    BY <1>0, <2>1, RequestStep
<1>6. CASE Restart
  BY <1>6, RestartStep
<1>7. CASE UNCHANGED vars
  <2>1. UNCHANGED <<failing, dbFile, bak, tmp, store, engine, gen, served, m, engineMutex, imp,
                    using, alive, exported, overlapped, unsaved, imports, restarts, scans>>
    BY <1>7 DEF vars, past, files, objects, locks, counts
  <2> QED
    BY <1>0, <2>1, RequestStep
<1> QED
  BY <1>1, <1>2, <1>3, <1>4, <1>5, <1>6, <1>7 DEF Next

LEMMA InvAlways == Spec => []IInv
  BY InvInit, InvStep, PTL DEF Spec

\* No import replaces the database file under an open connection, and none leaves
\* a connection on a file that was replaced (CloseAll before replaceDbFile, one
\* mutex over both), also when imports overlap.
THEOREM StoreAlwaysOnFile == Spec => []OpenOnFile
<1>1. IInv => OpenOnFile
  BY DEF IInv
<1> QED
  BY <1>1, InvAlways, PTL

\* Unless two imports ran at once, the server only serves the original database or
\* an upload that passed both checks, or the empty file a crash in the copy left.
THEOREM ServedAlwaysVerified == Spec => []ServedVerified
<1>1. IInv => ServedVerified
  <2> SUFFICES ASSUME IInv, ~ overlapped
               PROVE  /\ store # 0 => Verified(served) \/ (served = Empty /\ restarts > 0)
                      /\ Verified(exported) \/ exported \in {Empty, Partial}
    BY DEF ServedVerified
  <2>1. Verified(exported) \/ exported \in {Empty, Partial}
    BY DEF IInv, FilesOK
  <2>2. ASSUME store # 0
        PROVE  Verified(served) \/ (served = Empty /\ restarts > 0)
    <3>1. served = dbFile /\ served # Partial
      BY <2>2 DEF IInv, OpenOnFile, TypeOK
    <3>2. \A i \in Importers : imp[i].pc # "copying"
      BY <2>2 DEF IInv, LockOK
    <3> QED
      BY <3>1, <3>2 DEF IInv, FilesOK
  <2> QED
    BY <2>1, <2>2
<1> QED
  BY <1>1, InvAlways, PTL

\* An import that was alone and is about to be reported as done has left the server
\* open, with its engine, on the very file that was uploaded.
THEOREM OkAlwaysServed == Spec => []OkMeansServed
<1>1. IInv => OkMeansServed
  BY DEF IInv, StageOK, OkMeansServed
<1> QED
  BY <1>1, InvAlways, PTL

\* Without overlapping imports, on a disk that fails at any write too, the backup
\* holds what was served last for as long as the database file is damaged, unless
\* the backup itself failed or was made of a damaged file.
THEOREM BackupAlwaysHolds == Spec => []BackupHoldsPrevious
<1>1. IInv => BackupHoldsPrevious
  BY FilesDiffer DEF IInv, BackupOK, Saved, StageOK, Passed, BackupHoldsPrevious
<1> QED
  BY <1>1, InvAlways, PTL

\* Every variable keeps its type.
THEOREM TypeAlways == Spec => []TypeOK
<1>1. IInv => TypeOK
  BY DEF IInv
<1> QED
  BY <1>1, InvAlways, PTL
=============================================================================
