------------------------------ MODULE AuditLog ------------------------------
(***************************************************************************)
(* The hash-chained audit log (SqliteAuditLog::append), its verifier       *)
(* (verifyAuditChain) and the admin writes that share their SQLite         *)
(* connection.                                                             *)
(*                                                                         *)
(* One connection serves every thread of the process.  An append is a      *)
(* transaction of several statements; a statement of another thread that   *)
(* falls between BEGIN and COMMIT runs inside that transaction, and is     *)
(* undone with it.  The decision endpoint, which main.cpp starts in both   *)
(* modes, appends under engineMutex; the admin services, and the hardware  *)
(* route that decides in local mode, work under m.  exclusive says that    *)
(* one mutex covers them all, which is so only where nobody posts to the   *)
(* endpoint.  The chain can be turned off in the configuration: from the   *)
(* next restart on, rows are stored with zero hashes, until it is turned   *)
(* on again.                                                               *)
(*                                                                         *)
(* HMAC-SHA-256 is symbolic: a hash is the sequence of events it covers,   *)
(* so it is injective, and the zero hash is the empty sequence.            *)
(***************************************************************************)
EXTENDS Naturals, Sequences

CONSTANTS Appenders,    \* threads that append (decision endpoint, hardware route)
          Events,       \* audit events, without their layout
          Writes,       \* statements of the admin services on the policy tables
          Nobody,       \* no transaction is open
          Modes,        \* values exclusive may have
          ChainModes,   \* values audit_chain_enabled may have
          MaxRows,      \* bound: appends started
          MaxCrashes,   \* bound: crashes
          MaxDamage     \* bound: losses of stored rows

ASSUME AuditAssumption ==
    /\ Nobody \notin Appenders /\ Events # {}
    /\ Modes \subseteq BOOLEAN /\ ChainModes \subseteq BOOLEAN
    /\ {MaxRows, MaxCrashes, MaxDamage} \subseteq Nat

VARIABLES exclusive, \* one mutex covers appends, verification and admin writes
          chain,    \* SqliteAuditLog::_chainEnabled
          disk,     \* committed state of the database
          conn,     \* the database as the connection sees it
          tx,       \* who has the transaction open
          apc,      \* where each appender is
          event,    \* the event each appender is writing
          prev,     \* the hash each appender read as the last one
          vpc,      \* where the verifier is
          vnext,    \* the row it looks at next
          vhash,    \* expectedPrev, which is also lastEntry
          result,   \* its last result
          acked,    \* history: admin writes acknowledged to the administrator
          within,   \* history: those of them made inside the transaction now open
          undone,   \* history: those inside a transaction its appender or a crash ended
          history,  \* history: the committed appends: [event, chained]
          tainted,  \* history: an append was committed after a loss
          quiet,    \* history: no append or rollback since verification began
          appends, crashes, damage

appender == <<apc, event, prev>>
verifier == <<vpc, vnext, vhash, result>>
counts   == <<appends, crashes, damage>>
mode     == <<exclusive, chain>>
admin    == <<acked, within, undone>>
vars == <<mode, disk, conn, tx, appender, verifier, admin, history, tainted, quiet, counts>>

Zeros == << >>

\* entry_hash covers prev_hash and the event.
computeEntryHash(p, e) == Append(p, e)

\* The database as initSchema leaves it.
EmptyDb == [rows |-> << >>, anchor |-> Zeros, policy |-> {}]

Init ==
    /\ exclusive \in Modes /\ chain \in ChainModes
    /\ disk = EmptyDb /\ conn = EmptyDb /\ tx = Nobody
    /\ apc = [a \in Appenders |-> "idle"]
    /\ event = [a \in Appenders |-> CHOOSE e \in Events : TRUE]
    /\ prev = [a \in Appenders |-> Zeros]
    /\ vpc = "idle" /\ vnext = 1 /\ vhash = Zeros /\ result = "none"
    /\ acked = {} /\ within = {} /\ undone = {} /\ history = << >> /\ tainted = FALSE /\ quiet = TRUE
    /\ appends = 0 /\ crashes = 0 /\ damage = 0

Step(a, l) == apc' = [apc EXCEPT ![a] = l]
-----------------------------------------------------------------------------
(* append                                                                  *)

\* BEGIN IMMEDIATE.  Without the chain the insertion follows, with zeros.
Begin(a, e) ==
    /\ apc[a] = "idle" /\ tx = Nobody
    /\ exclusive => vpc = "idle"
    /\ appends < MaxRows
    /\ tx' = a
    /\ event' = [event EXCEPT ![a] = e]
    /\ appends' = appends + 1
    /\ prev' = [prev EXCEPT ![a] = Zeros]
    /\ Step(a, IF chain THEN "last" ELSE "insert")
    /\ UNCHANGED <<mode, disk, conn, verifier, admin, history, tainted, quiet, crashes, damage>>

\* Mutant: BEGIN inside the try block, so that its error rolls back what is open.
BeginRefusedRollsBack(a, e) ==
    /\ apc[a] = "idle" /\ tx # Nobody /\ ~ exclusive
    /\ appends < MaxRows
    /\ appends' = appends + 1
    /\ conn' = disk
    /\ within' = {}
    /\ UNCHANGED <<mode, disk, tx, appender, verifier, acked, undone, history, tainted, quiet, crashes, damage>>

\* BEGIN inside another thread's transaction is an error; it is raised before
\* the try block, so nothing is rolled back.
BeginRefused(a, e) ==
    /\ apc[a] = "idle" /\ tx # Nobody /\ ~ exclusive
    /\ appends < MaxRows
    /\ appends' = appends + 1
    /\ UNCHANGED <<mode, disk, conn, tx, appender, verifier, admin, history, tainted, quiet, crashes, damage>>

LastHash(rows) == IF rows = << >> THEN Zeros ELSE rows[Len(rows)].entry

getLastEntryHash(a) ==
    /\ apc[a] = "last"
    /\ prev' = [prev EXCEPT ![a] = LastHash(conn.rows)]
    /\ Step(a, "insert")
    /\ UNCHANGED <<mode, disk, conn, tx, event, verifier, admin, history, tainted, quiet, counts>>

NewRow(a) ==
    [event |-> event[a], prev |-> prev[a],
     entry |-> IF chain THEN computeEntryHash(prev[a], event[a]) ELSE Zeros]

insertAuditEntry(a) ==
    /\ apc[a] = "insert"
    /\ conn' = [conn EXCEPT !.rows = Append(@, NewRow(a))]
    /\ Step(a, IF chain THEN "anchor" ELSE "commit")
    /\ quiet' = FALSE
    /\ UNCHANGED <<mode, disk, tx, event, prev, verifier, admin, history, tainted, counts>>

\* Mutant: the anchor is left behind.
AnchorKept(a) ==
    /\ apc[a] = "anchor"
    /\ Step(a, "commit")
    /\ UNCHANGED <<mode, disk, conn, tx, event, prev, verifier, admin, history, tainted, quiet, counts>>

updateAnchor(a) ==
    /\ apc[a] = "anchor"
    /\ conn' = [conn EXCEPT !.anchor = NewRow(a).entry]
    /\ Step(a, "commit")
    /\ quiet' = FALSE
    /\ UNCHANGED <<mode, disk, tx, event, prev, verifier, admin, history, tainted, counts>>

Commit(a) ==
    /\ apc[a] = "commit"
    /\ disk' = conn
    /\ tx' = Nobody
    /\ history' = Append(history, [event |-> event[a], chained |-> chain])
    /\ within' = {}
    /\ tainted' = (damage > 0)
    /\ Step(a, "idle")
    /\ UNCHANGED <<mode, conn, event, prev, verifier, acked, undone, quiet, counts>>

\* Mutant: the handler of a failed statement commits what was written so far.
RollbackCommits(a) ==
    /\ apc[a] \in {"last", "insert", "anchor", "commit"}
    /\ disk' = conn
    /\ tx' = Nobody
    /\ within' = {} /\ undone' = undone \cup within
    /\ quiet' = FALSE
    /\ Step(a, "idle")
    /\ UNCHANGED <<mode, conn, event, prev, verifier, acked, history, tainted, counts>>

\* Mutant: the row is taken back, the anchor is not.
RollbackRowOnly(a) ==
    /\ apc[a] \in {"last", "insert", "anchor", "commit"}
    /\ conn' = [disk EXCEPT !.anchor = conn.anchor]
    /\ tx' = Nobody
    /\ within' = {} /\ undone' = undone \cup within
    /\ quiet' = FALSE
    /\ Step(a, "idle")
    /\ UNCHANGED <<mode, disk, event, prev, verifier, acked, history, tainted, counts>>

\* A statement fails: ROLLBACK, and the exception goes to the caller.
Rollback(a) ==
    /\ apc[a] \in {"last", "insert", "anchor", "commit"}
    /\ conn' = disk
    /\ tx' = Nobody
    /\ within' = {} /\ undone' = undone \cup within
    /\ quiet' = FALSE
    /\ Step(a, "idle")
    /\ UNCHANGED <<mode, disk, event, prev, verifier, acked, history, tainted, counts>>
-----------------------------------------------------------------------------
(* The admin services and the process                                      *)

\* One statement of an admin service: committed at once, unless a transaction
\* is open on the connection.
AdminWrite(w) ==
    /\ exclusive => tx = Nobody /\ vpc = "idle"
    /\ w \notin acked
    /\ conn' = [conn EXCEPT !.policy = @ \cup {w}]
    /\ disk' = IF tx = Nobody THEN conn' ELSE disk
    /\ acked' = acked \cup {w}
    /\ within' = IF tx = Nobody THEN within ELSE within \cup {w}
    /\ UNCHANGED <<mode, tx, appender, verifier, undone, history, tainted, quiet, counts>>

\* The process ends and is started again, perhaps with another setting for
\* the chain; SQLite recovers the committed state.
Crash ==
    /\ crashes < MaxCrashes
    /\ conn' = disk
    /\ tx' = Nobody
    /\ within' = {} /\ undone' = undone \cup within
    /\ apc' = [a \in Appenders |-> "idle"]
    /\ vpc' = "idle" /\ result' = "none"
    /\ chain' \in ChainModes
    /\ crashes' = crashes + 1
    /\ UNCHANGED <<exclusive, disk, event, prev, vnext, vhash, acked, history, tainted, quiet, appends, damage>>

DropRow(s, i) == [j \in 1..(Len(s) - 1) |-> IF j < i THEN s[j] ELSE s[j + 1]]

\* A stored row is lost or its event no longer reads as it was written.
LoseRow(i) ==
    /\ damage < MaxDamage /\ tx = Nobody /\ vpc = "idle"
    /\ \/ disk' = [disk EXCEPT !.rows = DropRow(@, i)]
       \/ \E e \in Events \ {disk.rows[i].event} : disk' = [disk EXCEPT !.rows[i].event = e]
    /\ conn' = disk'
    /\ damage' = damage + 1
    /\ result' = "none"
    /\ UNCHANGED <<mode, tx, appender, vpc, vnext, vhash, admin, history, tainted, quiet, appends, crashes>>
-----------------------------------------------------------------------------
(* verifyAuditChain                                                        *)

VerifyStart ==
    /\ vpc = "idle"
    /\ exclusive => tx = Nobody
    /\ vpc' = "rows" /\ vnext' = 1 /\ vhash' = Zeros /\ result' = "none"
    /\ quiet' = (tx = Nobody)
    /\ UNCHANGED <<mode, disk, conn, tx, appender, admin, history, tainted, counts>>

Finish(r) == vpc' = "idle" /\ result' = r

\* Mutant: the row's link to its predecessor is not compared.
RowVerdictUnlinked(row, p) ==
    IF row.entry # computeEntryHash(row.prev, row.event) THEN "entry_hash mismatch"
    ELSE "ok"

\* verifyRow: the link first, then the row's own hash.
RowVerdict(row, p) ==
    IF row.prev # p THEN "prev_hash mismatch"
    ELSE IF row.entry # computeEntryHash(p, row.event) THEN "entry_hash mismatch"
    ELSE "ok"

\* The next row of the scan, or its end.
verifyRow ==
    /\ vpc = "rows"
    /\ IF vnext > Len(conn.rows)
       THEN vpc' = "anchor" /\ UNCHANGED <<vnext, vhash, result>>
       ELSE LET row == conn.rows[vnext]
                v   == RowVerdict(row, vhash)
            IN  IF v = "ok"
                THEN /\ vnext' = vnext + 1 /\ vhash' = row.entry
                     /\ UNCHANGED <<vpc, result>>
                ELSE Finish(v) /\ UNCHANGED <<vnext, vhash>>
    /\ UNCHANGED <<mode, disk, conn, tx, appender, admin, history, tainted, quiet, counts>>

verifyAnchor ==
    /\ vpc = "anchor"
    /\ Finish(IF conn.anchor = vhash THEN "ok" ELSE "anchor mismatch")
    /\ UNCHANGED <<mode, disk, conn, tx, appender, vnext, vhash, admin, history, tainted, quiet, counts>>
-----------------------------------------------------------------------------
AppendStep(a) ==
    \/ getLastEntryHash(a) \/ insertAuditEntry(a) \/ updateAnchor(a) \/ Commit(a)

Next ==
    \/ \E a \in Appenders :
          \/ \E e \in Events : Begin(a, e) \/ BeginRefused(a, e)
          \/ AppendStep(a)
          \/ Rollback(a)
    \/ \E w \in Writes : AdminWrite(w)
    \/ Crash
    \/ \E i \in 1..Len(disk.rows) : LoseRow(i)
    \/ VerifyStart \/ verifyRow \/ verifyAnchor

Spec == Init /\ [][Next]_vars
-----------------------------------------------------------------------------
Hashes == Seq(Events)
Db == [rows   : Seq([event : Events, prev : Hashes, entry : Hashes]),
       anchor : Hashes,
       policy : SUBSET Writes]

\* Every variable has its type.
TypeOK ==
    /\ exclusive \in BOOLEAN /\ chain \in BOOLEAN
    /\ disk \in Db /\ conn \in Db
    /\ tx \in Appenders \cup {Nobody}
    /\ apc \in [Appenders -> {"idle", "last", "insert", "anchor", "commit"}]
    /\ event \in [Appenders -> Events]
    /\ prev \in [Appenders -> Hashes]
    /\ vpc \in {"idle", "rows", "anchor"} /\ vnext \in Nat \ {0} /\ vhash \in Hashes
    /\ result \in {"none", "ok", "prev_hash mismatch", "entry_hash mismatch", "anchor mismatch"}
    /\ acked \subseteq Writes /\ within \subseteq Writes /\ undone \subseteq Writes
    /\ history \in Seq([event : Events, chained : BOOLEAN])
    /\ tainted \in BOOLEAN /\ quiet \in BOOLEAN
    /\ appends \in Nat /\ crashes \in Nat /\ damage \in Nat

\* The hash the row at i has to continue.
PrevHash(rows, i) == IF i = 1 THEN Zeros ELSE rows[i - 1].entry

\* What the append h stored at i: a link to the row before it, or zeros.
StoredAs(rows, i, h) ==
    /\ rows[i].event = h.event
    /\ rows[i].prev = IF h.chained THEN PrevHash(rows, i) ELSE Zeros
    /\ rows[i].entry = IF h.chained THEN computeEntryHash(rows[i].prev, h.event) ELSE Zeros

\* The last append to the chain is the n-th; 0 if there is none.
LastChained(n) ==
    /\ n = 0 \/ history[n].chained
    /\ \A j \in (n + 1)..Len(history) : ~ history[j].chained

\* Whatever fails or crashes in whatever interleaving, and however often the
\* chain is turned off and on, the rows of a log nobody damaged are the committed
\* appends in their order, each linked to the row before it unless the chain was
\* off, and the anchor is the hash of the last that was linked.
CommittedChain ==
    damage = 0 =>
        /\ Len(disk.rows) = Len(history)
        /\ \A i \in 1..Len(history) : StoredAs(disk.rows, i, history[i])
        /\ \E n \in 0..Len(history) :
              LastChained(n) /\ disk.anchor = IF n = 0 THEN Zeros ELSE disk.rows[n].entry

\* A failed or interrupted append leaves nothing behind: the transaction
\* belongs to the one appender that is in the middle of it, and outside a
\* transaction the connection sees exactly the committed database.
TransactionsWhole ==
    /\ \A a \in Appenders : apc[a] # "idle" <=> tx = a
    /\ tx = Nobody => conn = disk

\* es are the events of the last unbroken run of appends to the chain: all that
\* was appended, if the chain was never off.
LastRun(es) ==
    \E n \in Len(es)..Len(history) :
        /\ LastChained(n)
        /\ \A i \in 1..Len(es) : history[n - Len(es) + i] = [event |-> es[i], chained |-> TRUE]
        /\ n = Len(es) \/ ~ history[n - Len(es)].chained

\* An ok result means that the rows are exactly the last unbroken run of appends
\* to the chain, although any number of rows may have been lost or changed before,
\* as long as nothing was appended after that.  It does not mean more: what was
\* stored before the chain was last turned on can be lost without a trace.
VerifiedIsIntact ==
    result = "ok" /\ quiet /\ ~ tainted =>
        LastRun([i \in 1..Len(disk.rows) |-> disk.rows[i].event])

\* Under one mutex there is no false alarm: a log nobody damaged verifies, after
\* failed appends and crashes too, unless it holds rows stored without the chain.
\* (Under two mutexes an append can fall between the rows and the anchor.)
NoFalseAlarm ==
    exclusive /\ damage = 0 /\ (\A i \in 1..Len(history) : history[i].chained) =>
        result \in {"none", "ok"}

\* An acknowledged admin write is lost only with the transaction it fell into: it
\* is in the committed database unless it was made inside the transaction of an
\* append that is still open, or that its own appender rolled back or a crash cut
\* short.  No failing BEGIN, commit or restart of anybody else takes it back.
AckedWritesKept ==
    /\ acked \subseteq disk.policy \cup undone \cup within
    /\ tx = Nobody => within = {}
=============================================================================
