------------------------------ MODULE AppState ------------------------------
(***************************************************************************)
(* The life cycle of the server's database: AppState::openOrCreate, the    *)
(* import of an uploaded file (importDatabase, AppState::importDbFile),    *)
(* the export, and the requests served meanwhile.                          *)
(*                                                                         *)
(* An import closes the store and destroys the engine under the mutex m,   *)
(* releases m, and takes it again to reopen.  Admin requests take m; the   *)
(* decision endpoint takes engineMutex only, and reaches the store through *)
(* raw pointers of the engine.  All imports use one name for the uploaded  *)
(* file.                                                                   *)
(*                                                                         *)
(* A file is its content.  An object is a generation: 0 is the null        *)
(* pointer, and an engine has the generation of the store it points to.    *)
(* A use of a null or destroyed object is undefined; the model ends the    *)
(* process there.                                                          *)
(***************************************************************************)
EXTENDS Naturals

CONSTANTS Importers,    \* threads that can serve an import at once
          Handlers,     \* threads of the decision endpoint
          Uploads,      \* files that are uploaded: [id, sound, chain]
          Original,     \* content of the database at the start
          Empty,        \* a file of no bytes: a database without tables
          Partial,      \* a file cut short
          NoFile,       \* no such file
          Nobody,       \* no owner of a mutex
          Disks,        \* values failing may have
          MaxImports,   \* bound: imports
          MaxScans,     \* bound: frames handled
          MaxRestarts   \* bound: restarts of the process

\* sound: PRAGMA integrity_check says ok.  chain: what verifyAuditChain does.
UploadType == [id : Nat, sound : BOOLEAN, chain : {"ok", "bad", "throws"}]

Content == Uploads \cup {Original, Empty, Partial}

ASSUME AppStateAssumption ==
    /\ Uploads \subseteq UploadType
    /\ {Original, Empty, Partial, NoFile} \cap Uploads = {}
    /\ Original \notin {Empty, Partial, NoFile}
    /\ Empty \notin {Partial, NoFile} /\ Partial # NoFile
    /\ Nobody \notin Importers \cup Handlers
    /\ Disks \subseteq BOOLEAN
    /\ {MaxImports, MaxScans, MaxRestarts} \subseteq Nat

VARIABLES failing,              \* writing a file can fail (disk full)
          dbFile, bak, tmp,     \* dbPath, dbPath.bak, dbPath.upload.tmp
          store, engine,        \* generations of the objects AppState owns
          gen,                  \* last generation
          served,               \* content the last store was opened on
          m, engineMutex,       \* their owners
          imp,                  \* each importer: [pc, upload, src]
          using,                \* generation of the engine each handler is in, or 0
          alive,                \* the process runs
          exported,             \* content of the last export
          overlapped,           \* history: two imports were under way at once
          unsaved,              \* history: the last backup failed, or copied a file
                                \* that a failed import had left damaged
          imports, scans, restarts

files   == <<dbFile, bak, tmp>>
objects == <<store, engine, gen, served>>
locks   == <<m, engineMutex>>
counts  == <<imports, scans, restarts>>
past    == <<overlapped, unsaved>>
vars    == <<failing, files, objects, locks, imp, using, alive, exported, past, counts>>

NoImport == [pc |-> "idle", upload |-> NoFile, src |-> NoFile]

\* main: openOrCreate before the servers listen.
Init ==
    /\ failing \in Disks /\ overlapped = FALSE /\ unsaved = FALSE
    /\ dbFile = Original /\ bak = NoFile /\ tmp = NoFile
    /\ store = 1 /\ engine = 1 /\ gen = 1 /\ served = Original
    /\ m = Nobody /\ engineMutex = Nobody
    /\ imp = [i \in Importers |-> NoImport]
    /\ using = [h \in Handlers |-> 0]
    /\ alive = TRUE /\ exported = Original
    /\ imports = 0 /\ scans = 0 /\ restarts = 0

Goto(i, pc) == imp' = [imp EXCEPT ![i].pc = pc]
At(i, pc) == alive /\ imp[i].pc = pc
-----------------------------------------------------------------------------
(* importDatabase: the upload is written to the temporary file             *)

\* The stream is opened: the file is truncated.  (An upload larger than
\* maxUploadBytes is refused before anything is touched.)
importDatabase(i, u) ==
    /\ At(i, "idle") /\ imports < MaxImports
    /\ imp' = [imp EXCEPT ![i] = [pc |-> "write", upload |-> u, src |-> NoFile]]
    /\ tmp' = Empty
    /\ imports' = imports + 1
    /\ overlapped' = (overlapped \/ \E j \in Importers : imp[j].pc # "idle")
    /\ UNCHANGED <<failing, unsaved, dbFile, bak, objects, locks, using, alive, exported, scans, restarts>>

\* The data are written; nobody looks whether that succeeded.
WriteUpload(i) ==
    /\ At(i, "write")
    /\ tmp' \in {imp[i].upload} \cup (IF failing THEN {Partial} ELSE {})
    /\ Goto(i, "integrity")
    /\ UNCHANGED <<failing, past, dbFile, bak, objects, locks, using, alive, exported, counts>>

\* What sqlite3_open finds: a missing file is created without content.
Opened == IF tmp = NoFile THEN Empty ELSE tmp

Sound(f) == f = Empty \/ (f \in Uploads /\ f.sound)

ChainVerdict(f) == IF f = Empty THEN "throws"
                   ELSE IF f \in Uploads THEN f.chain ELSE "bad"

sqliteIntegrityOk(i) ==
    /\ At(i, "integrity")
    /\ tmp' = Opened
    /\ Goto(i, IF Sound(Opened) THEN "chain" ELSE "failed")
    /\ UNCHANGED <<failing, past, dbFile, bak, objects, locks, using, alive, exported, counts>>

\* Mutant: the verdict on the chain is not looked at.
ChainIgnored(i) ==
    /\ At(i, "chain")
    /\ tmp' = Opened
    /\ Goto(i, IF ChainVerdict(Opened) = "throws" THEN "idle" ELSE "swap")
    /\ UNCHANGED <<failing, past, dbFile, bak, objects, locks, using, alive, exported, counts>>

\* A file without the audit tables makes it throw out of the whole import.
verifyUploadedAuditChain(i) ==
    /\ At(i, "chain")
    /\ tmp' = Opened
    /\ Goto(i, CASE ChainVerdict(Opened) = "ok" -> "swap"
                 [] ChainVerdict(Opened) = "bad" -> "failed"
                 [] ChainVerdict(Opened) = "throws" -> "idle")
    /\ UNCHANGED <<failing, past, dbFile, bak, objects, locks, using, alive, exported, counts>>
-----------------------------------------------------------------------------
(* importDbFile, first section under m: close and replace                  *)

\* Mutant: the store stays open while its file is replaced.
CloseEngineOnly(i) ==
    /\ At(i, "swap") /\ m = Nobody
    /\ m' = i
    /\ engine' = 0
    /\ Goto(i, "backup")
    /\ UNCHANGED <<failing, past, files, store, gen, served, engineMutex, using, alive, exported, counts>>

\* The engine, the audit log and the store are destroyed.
CloseAll(i) ==
    /\ At(i, "swap") /\ m = Nobody
    /\ m' = i
    /\ store' = 0 /\ engine' = 0
    /\ Goto(i, "backup")
    /\ UNCHANGED <<failing, past, files, gen, served, engineMutex, using, alive, exported, counts>>

\* Mutant: no backup is taken.
BackupSkipped(i) ==
    /\ At(i, "backup")
    /\ Goto(i, "copy")
    /\ UNCHANGED <<failing, past, files, objects, locks, using, alive, exported, counts>>

\* replaceDbFile: the old database is copied aside; an error is ignored.
Backup(i) ==
    /\ At(i, "backup")
    /\ bak' \in {dbFile} \cup (IF failing THEN {bak, Partial} ELSE {})
    /\ unsaved' = (bak' # dbFile \/ (dbFile \in {Empty, Partial} /\ served # dbFile))
    /\ Goto(i, "copy")
    /\ UNCHANGED <<failing, overlapped, dbFile, tmp, objects, locks, using, alive, exported, counts>>

\* The second copy truncates its target ...
CopyBegin(i) ==
    /\ At(i, "copy")
    /\ IF tmp = NoFile
       THEN /\ m' = Nobody
            /\ Goto(i, "failed")
            /\ UNCHANGED dbFile
       ELSE /\ dbFile' = Empty
            /\ imp' = [imp EXCEPT ![i].pc = "copying", ![i].src = tmp]
            /\ UNCHANGED m
    /\ UNCHANGED <<failing, past, bak, tmp, objects, engineMutex, using, alive, exported, counts>>

\* ... and fills it from a source another import may be rewriting.
CopyEnd(i) ==
    /\ At(i, "copying")
    /\ m' = Nobody
    /\ \/ /\ dbFile' \in {imp[i].src} \cup (IF tmp \in {imp[i].src, NoFile} THEN {} ELSE {tmp, Partial})
          /\ Goto(i, "open")
       \/ /\ failing
          /\ dbFile' = Partial
          /\ Goto(i, "failed")
    /\ UNCHANGED <<failing, past, bak, tmp, objects, engineMutex, using, alive, exported, counts>>
-----------------------------------------------------------------------------
(* importDbFile, second section: openOrCreate                              *)

\* The new store replaces whatever is there; a damaged file makes it throw.
OpenStore(i) ==
    /\ At(i, "open") /\ m = Nobody
    /\ IF dbFile = Partial
       THEN /\ Goto(i, "idle")
            /\ UNCHANGED <<m, store, gen, served>>
       ELSE /\ m' = i
            /\ gen' = gen + 1 /\ store' = gen + 1 /\ served' = dbFile
            /\ Goto(i, "engine")
    /\ UNCHANGED <<failing, past, files, engine, engineMutex, using, alive, exported, counts>>

\* Mutant: the engine is not built again.
OpenEngineForgotten(i) ==
    /\ At(i, "engine")
    /\ m' = Nobody
    /\ Goto(i, "opened")
    /\ UNCHANGED <<failing, past, files, objects, engineMutex, using, alive, exported, counts>>

\* Mutant: the mutex is kept.
OpenEngineLocked(i) ==
    /\ At(i, "engine")
    /\ engine' = store
    /\ Goto(i, "opened")
    /\ UNCHANGED <<failing, past, files, store, gen, served, m, engineMutex, using, alive, exported, counts>>

OpenEngine(i) ==
    /\ At(i, "engine")
    /\ engine' = store
    /\ m' = Nobody
    /\ Goto(i, "opened")
    /\ UNCHANGED <<failing, past, files, store, gen, served, engineMutex, using, alive, exported, counts>>

\* The temporary file is removed and the request answered, either way.
EndImport(i) ==
    /\ \/ At(i, "opened") \/ At(i, "failed")
    /\ tmp' = NoFile
    /\ imp' = [imp EXCEPT ![i] = NoImport]
    /\ UNCHANGED <<failing, past, dbFile, bak, objects, locks, using, alive, exported, counts>>
-----------------------------------------------------------------------------
(* The requests                                                            *)

\* An admin request reads or changes the store under m.
AdminRequest ==
    /\ alive /\ m = Nobody
    /\ alive' = (store # 0)
    /\ UNCHANGED <<failing, past, files, objects, locks, imp, using, exported, counts>>

\* The decision endpoint calls the engine.
BeginScan(h) ==
    /\ alive /\ engineMutex = Nobody /\ scans < MaxScans
    /\ scans' = scans + 1
    /\ IF engine = 0 THEN alive' = FALSE /\ UNCHANGED <<engineMutex, using>>
                     ELSE /\ engineMutex' = h
                          /\ using' = [using EXCEPT ![h] = engine]
                          /\ UNCHANGED alive
    /\ UNCHANGED <<failing, past, files, objects, m, imp, exported, imports, restarts>>

\* The engine uses its store, then answers.
EndScan(h) ==
    /\ alive /\ using[h] # 0
    /\ IF engine = using[h] /\ store = using[h]
       THEN /\ engineMutex' = Nobody
            /\ using' = [using EXCEPT ![h] = 0]
            /\ UNCHANGED alive
       ELSE alive' = FALSE /\ UNCHANGED <<engineMutex, using>>
    /\ UNCHANGED <<failing, past, files, objects, m, imp, exported, counts>>

\* The file is read without a lock, as an import may have left it for now.
exportDatabase ==
    /\ alive
    /\ exported' = dbFile
    /\ UNCHANGED <<failing, past, files, objects, locks, imp, using, alive, counts>>

\* The process dies at any point, or has died, and is started again.
Restart ==
    /\ restarts < MaxRestarts
    /\ restarts' = restarts + 1
    /\ m' = Nobody /\ engineMutex' = Nobody
    /\ imp' = [i \in Importers |-> NoImport]
    /\ using' = [h \in Handlers |-> 0]
    /\ IF dbFile = Partial
       THEN alive' = FALSE /\ store' = 0 /\ engine' = 0 /\ UNCHANGED <<gen, served>>
       ELSE /\ alive' = TRUE /\ served' = dbFile
            /\ gen' = gen + 1 /\ store' = gen + 1 /\ engine' = gen + 1
    /\ UNCHANGED <<failing, past, files, exported, imports, scans>>

Import(i) ==
    \/ \E u \in Uploads : importDatabase(i, u)
    \/ WriteUpload(i) \/ sqliteIntegrityOk(i) \/ verifyUploadedAuditChain(i)
    \/ CloseAll(i) \/ Backup(i) \/ CopyBegin(i) \/ CopyEnd(i)
    \/ OpenStore(i) \/ OpenEngine(i) \/ EndImport(i)

Next ==
    \/ \E i \in Importers : Import(i)
    \/ \E h \in Handlers : BeginScan(h) \/ EndScan(h)
    \/ AdminRequest \/ exportDatabase
    \/ Restart

Spec == Init /\ [][Next]_vars

\* A thread that serves an import keeps running.
FairSpec ==
    /\ Spec
    /\ \A i \in Importers : WF_vars(imp[i].pc # "idle" /\ Import(i))
-----------------------------------------------------------------------------
\* Every variable has its type.
TypeOK ==
    /\ dbFile \in Content
    /\ {bak, tmp} \subseteq Content \cup {NoFile}
    /\ {alive, failing, overlapped, unsaved} \subseteq BOOLEAN
    /\ {gen, imports, scans, restarts} \subseteq Nat
    /\ {store, engine} \subseteq 0..gen
    /\ served \in Content \ {Partial}
    /\ m \in Importers \cup {Nobody} /\ engineMutex \in Handlers \cup {Nobody}
    /\ imp \in [Importers -> [pc : {"idle", "write", "integrity", "chain", "swap", "backup",
                                    "copy", "copying", "open", "engine", "opened", "failed"},
                              upload : Uploads \cup {NoFile}, src : Content \cup {NoFile}]]
    /\ using \in [Handlers -> 0..gen]
    /\ exported \in Content

Verified(f) == f = Original \/ (f \in Uploads /\ f.sound /\ f.chain = "ok")

\* Unless two imports ran at once, the store is only ever open on the original
\* database or on an upload that passed both checks (AppState::importDbFile), or,
\* after a crash in the middle of the copy, on the empty file it left.  An export
\* shows the same, or the file half replaced.
ServedVerified ==
    ~ overlapped =>
        /\ store # 0 => Verified(served) \/ (served = Empty /\ restarts > 0)
        /\ Verified(exported) \/ exported \in {Empty, Partial}

\* An import that is about to be reported as done, and was alone, has left the
\* server open, with its engine, on the very file that was uploaded.
OkMeansServed ==
    \A i \in Importers :
        imp[i].pc = "opened" /\ ~ overlapped =>
            store # 0 /\ engine = store /\ served = imp[i].upload

\* While the database file is damaged, by a copy under way, by one that failed
\* half-way or by a crash in it, the backup holds what was served last, unless the
\* copy aside failed itself (replaceDbFile ignores that) or was made of a file that
\* an earlier import had left damaged: it then overwrites the one good copy.
BackupHoldsPrevious ==
    dbFile \in {Empty, Partial} /\ ~ unsaved /\ ~ overlapped =>
        bak = served \/ served = dbFile

\* The open store and the database file never part: no import replaces the file
\* under an open connection, and none leaves a connection on a replaced file.
OpenOnFile == store # 0 => served = dbFile

\* Every import ends, whatever the others do, as long as the process lives.
ImportsEnd == \A i \in Importers : imp[i].pc # "idle" ~> (imp[i].pc = "idle" \/ ~ alive)

\* app_state.hpp: "Thread-safe via mutex for concurrent HTTP request handling":
\* no request uses a store or an engine that is closed.
NoDeadUse == alive
=============================================================================
