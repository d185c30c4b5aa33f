--------------------------- MODULE AuditLogProofs ---------------------------
(***************************************************************************)
(* Theorems about AuditLog, for every number of appending threads, events, *)
(* appends, crashes and losses, under one mutex and under several, and     *)
(* however often the chain is switched.                                    *)
(***************************************************************************)
EXTENDS AuditLog, TLAPS

RowType  == [event : Events, prev : Hashes, entry : Hashes]
PastType == [event : Events, chained : BOOLEAN]

\* What the transaction of an append has done to the connection so far.
TxOK ==
    \A a \in Appenders :
        /\ apc[a] \in {"last", "anchor"} => chain
        /\ apc[a] \in {"insert", "anchor", "commit"} =>
              prev[a] = IF chain THEN LastHash(disk.rows) ELSE Zeros
        /\ apc[a] \in {"last", "insert"} => conn.rows = disk.rows
        /\ apc[a] \in {"anchor", "commit"} => conn.rows = Append(disk.rows, NewRow(a)) /\ ~ quiet
        /\ apc[a] \in {"last", "insert", "anchor"} => conn.anchor = disk.anchor
        /\ apc[a] = "commit" => conn.anchor = IF chain THEN NewRow(a).entry ELSE disk.anchor

\* Under one mutex nothing falls into a transaction.
AloneOK ==
    exclusive => /\ conn.policy = disk.policy
                 /\ vpc # "idle" => tx = Nobody

\* The anchor is the hash of the last unbroken run, until an append covers a loss.
RunOK == ~ tainted => LastRun(disk.anchor)

\* A hash that covers the first n rows and nothing else.
Covers(hash, n) ==
    /\ n \in 0..Len(disk.rows) /\ Len(hash) = n
    /\ \A j \in 1..n : hash[j] = disk.rows[j].event

\* What a scan that nothing disturbs knows of the rows behind it.
ScanOK ==
    quiet => /\ vpc # "idle" => Covers(vhash, vnext - 1)
             /\ vpc = "anchor" => vnext = Len(disk.rows) + 1
             /\ result = "ok" => Covers(disk.anchor, Len(disk.rows))

AllChained == \A i \in 1..Len(history) : history[i].chained

\* What a scan under one mutex finds in a log nobody damaged.
AlarmOK ==
    exclusive /\ damage = 0 /\ AllChained =>
        /\ result \in {"none", "ok"}
        /\ vpc # "idle" => /\ vnext \in 1..(Len(disk.rows) + 1)
                           /\ vhash = PrevHash(disk.rows, vnext)
        /\ vpc = "anchor" => vnext = Len(disk.rows) + 1

IInv ==
    /\ TypeOK /\ TransactionsWhole /\ TxOK /\ AloneOK
    /\ CommittedChain /\ RunOK /\ ScanOK /\ AlarmOK
    /\ tainted => damage > 0
-----------------------------------------------------------------------------
(* Facts several steps need.                                               *)

\* The types of the parts of a database.
LEMMA DbParts ==
    ASSUME NEW db \in Db
    PROVE  /\ db.rows \in Seq(RowType) /\ db.anchor \in Seq(Events) /\ db.policy \in SUBSET Writes
           /\ Len(db.rows) \in Nat /\ Len(db.anchor) \in Nat
           /\ \A i \in 1..Len(db.rows) : db.rows[i] \in RowType
           /\ LastHash(db.rows) \in Seq(Events)
<1>1. db.rows \in Seq(RowType) /\ db.anchor \in Seq(Events) /\ db.policy \in SUBSET Writes
  BY DEF Db, RowType, Hashes
<1>2. Len(db.rows) \in Nat /\ Len(db.anchor) \in Nat /\ \A i \in 1..Len(db.rows) : db.rows[i] \in RowType
  BY <1>1
<1>3. db.rows # << >> => Len(db.rows) \in 1..Len(db.rows)
  BY <1>1, <1>2
<1>4. LastHash(db.rows) \in Seq(Events)
  BY <1>2, <1>3 DEF LastHash, RowType, Hashes, Zeros
<1> QED
  BY <1>1, <1>2, <1>4

\* The row an appender is about to store is a row.
LEMMA NewRowType ==
    ASSUME TypeOK, NEW a \in Appenders
    PROVE  NewRow(a) \in RowType /\ NewRow(a).entry \in Seq(Events)
<1>1. event[a] \in Events /\ prev[a] \in Seq(Events)
  BY DEF TypeOK, Hashes
<1>2. Append(prev[a], event[a]) \in Seq(Events)
  BY <1>1
<1> QED
  BY <1>1, <1>2 DEF NewRow, RowType, Hashes, computeEntryHash, Zeros

\* The hash a new row continues.
LEMMA LastIsPrev ==
    ASSUME NEW rows \in Seq(RowType)
    PROVE  LastHash(rows) = PrevHash(rows, Len(rows) + 1)
<1>1. Len(rows) \in Nat /\ (rows = << >> <=> Len(rows) = 0)
  OBVIOUS
<1> QED
  BY <1>1 DEF LastHash, PrevHash

\* An append leaves the rows before it as they are.
LEMMA AppendRow ==
    ASSUME NEW rows \in Seq(RowType), NEW r \in RowType
    PROVE  /\ Append(rows, r) \in Seq(RowType)
           /\ Len(Append(rows, r)) = Len(rows) + 1
           /\ \A i \in 1..Len(rows) : Append(rows, r)[i] = rows[i]
           /\ Append(rows, r)[Len(rows) + 1] = r
           /\ \A i \in 1..(Len(rows) + 1) : PrevHash(Append(rows, r), i) = PrevHash(rows, i)
<1>1. /\ Append(rows, r) \in Seq(RowType)
      /\ Len(Append(rows, r)) = Len(rows) + 1 /\ Len(rows) \in Nat
      /\ \A i \in 1..Len(rows) : Append(rows, r)[i] = rows[i]
      /\ Append(rows, r)[Len(rows) + 1] = r
  OBVIOUS
<1>2. \A i \in 1..(Len(rows) + 1) : PrevHash(Append(rows, r), i) = PrevHash(rows, i)
  BY <1>1 DEF PrevHash
<1> QED
  BY <1>1, <1>2

\* As long as nothing was appended or rolled back, the connection and the disk
\* agree on the log.
LEMMA QuietLog ==
    ASSUME IInv, quiet
    PROVE  conn.rows = disk.rows /\ conn.anchor = disk.anchor
<1>1. CASE tx = Nobody
  BY <1>1 DEF IInv, TransactionsWhole
<1>2. CASE tx # Nobody
  <2>1. tx \in Appenders /\ apc[tx] # "idle"
    BY <1>2 DEF IInv, TypeOK, TransactionsWhole
  <2>2. apc[tx] \in {"last", "insert"}
    BY <2>1 DEF IInv, TypeOK, TxOK
  <2> QED
    BY <2>1, <2>2 DEF IInv, TxOK
<1> QED
  BY <1>1, <1>2

\* A step that leaves the committed log alone keeps what is said of it.
LEMMA LogKept ==
    ASSUME IInv, UNCHANGED <<disk, history, tainted, damage>>
    PROVE  CommittedChain' /\ RunOK' /\ (tainted' => damage' > 0)
<1>1. CommittedChain'
  BY DEF IInv, CommittedChain, StoredAs, PrevHash, LastChained
<1>2. RunOK'
  BY DEF IInv, RunOK, LastRun, LastChained
<1> QED
  BY <1>1, <1>2 DEF IInv

\* So does a step that leaves the verifier and what it looks at alone.
LEMMA ScanKept ==
    ASSUME IInv, UNCHANGED <<disk, history, damage, exclusive, vpc, vnext, vhash, result>>,
           quiet' => quiet
    PROVE  ScanOK' /\ AlarmOK'
<1>1. ScanOK'
  BY DEF IInv, ScanOK, Covers
<1>2. AlarmOK'
  BY DEF IInv, AlarmOK, AllChained, PrevHash
<1> QED
  BY <1>1, <1>2
-----------------------------------------------------------------------------
(* The steps of an append preserve the invariant.                          *)

LEMMA BeginStep ==
    ASSUME IInv, NEW a \in Appenders, NEW e \in Events, Begin(a, e)
    PROVE  IInv'
<1>1. /\ apc[a] = "idle" /\ tx = Nobody /\ (exclusive => vpc = "idle")
      /\ tx' = a
      /\ event' = [event EXCEPT ![a] = e]
      /\ prev' = [prev EXCEPT ![a] = Zeros]
      /\ apc' = [apc EXCEPT ![a] = IF chain THEN "last" ELSE "insert"]
      /\ appends' = appends + 1
      /\ UNCHANGED <<exclusive, chain, disk, conn, vpc, vnext, vhash, result, acked, within, undone, history,
                     tainted, quiet, crashes, damage>>
  BY DEF Begin, Step, mode, admin, verifier
<1>2. conn = disk /\ \A b \in Appenders : apc[b] = "idle"
  BY <1>1, AuditAssumption DEF IInv, TransactionsWhole
<1>3. TypeOK'
  <2>1. Zeros \in Hashes
    BY DEF Zeros, Hashes
  <2>2. apc' \in [Appenders -> {"idle", "last", "insert", "anchor", "commit"}]
    BY <1>1 DEF IInv, TypeOK
  <2>3. event' \in [Appenders -> Events] /\ prev' \in [Appenders -> Hashes]
    BY <1>1, <2>1 DEF IInv, TypeOK
  <2>4. appends' \in Nat
    <3>1. appends \in Nat
      BY DEF IInv, TypeOK
    <3> QED
      BY <1>1, <3>1
  <2> QED
    BY <1>1, <2>2, <2>3, <2>4 DEF IInv, TypeOK
<1>4. /\ apc'[a] = IF chain THEN "last" ELSE "insert"
      /\ prev'[a] = Zeros
      /\ \A b \in Appenders \ {a} : apc'[b] = "idle"
  BY <1>1, <1>2 DEF IInv, TypeOK
<1>5. TransactionsWhole' /\ AloneOK'
  BY <1>1, <1>2, <1>4, AuditAssumption DEF IInv, TransactionsWhole, AloneOK
<1>6. TxOK'
  BY <1>1, <1>2, <1>4 DEF TxOK
<1>7. CommittedChain' /\ RunOK' /\ (tainted' => damage' > 0) /\ ScanOK' /\ AlarmOK'
  BY <1>1, LogKept, ScanKept
<1> QED
  BY <1>3, <1>5, <1>6, <1>7 DEF IInv

LEMMA BeginRefusedStep ==
    ASSUME IInv, NEW a \in Appenders, NEW e \in Events, BeginRefused(a, e)
    PROVE  IInv'
<1>1. /\ appends' = appends + 1
      /\ UNCHANGED <<exclusive, chain, disk, conn, tx, apc, event, prev, vpc, vnext, vhash, result,
                     acked, within, undone, history, tainted, quiet, crashes, damage>>
  BY DEF BeginRefused, mode, admin, appender, verifier
<1>2. TypeOK'
  <2>1. appends' \in Nat
    <3>1. appends \in Nat
      BY DEF IInv, TypeOK
    <3> QED
      BY <1>1, <3>1
  <2> QED
    BY <1>1, <2>1, ZenonT(40) DEF IInv, TypeOK
<1>3. TransactionsWhole' /\ AloneOK' /\ TxOK'
  BY <1>1 DEF IInv, TransactionsWhole, AloneOK, TxOK, NewRow
<1>4. CommittedChain' /\ RunOK' /\ (tainted' => damage' > 0) /\ ScanOK' /\ AlarmOK'
  BY <1>1, LogKept, ScanKept
<1> QED
  BY <1>2, <1>3, <1>4 DEF IInv

\* An appender in the middle of a transaction is the only one.
LEMMA OnlyAppender ==
    ASSUME IInv, NEW a \in Appenders, apc[a] # "idle"
    PROVE  tx = a /\ \A b \in Appenders \ {a} : apc[b] = "idle"
  BY DEF IInv, TransactionsWhole

\* Moving one appender.
LEMMA StepMoves ==
    ASSUME TypeOK, NEW a \in Appenders,
           NEW l \in {"idle", "last", "insert", "anchor", "commit"}, Step(a, l)
    PROVE  /\ apc' \in [Appenders -> {"idle", "last", "insert", "anchor", "commit"}]
           /\ apc'[a] = l
           /\ \A b \in Appenders \ {a} : apc'[b] = apc[b]
  BY DEF TypeOK, Step

LEMMA LastHashStep ==
    ASSUME IInv, NEW a \in Appenders, getLastEntryHash(a)
    PROVE  IInv'
<1>1. /\ apc[a] = "last"
      /\ prev' = [prev EXCEPT ![a] = LastHash(conn.rows)]
      /\ UNCHANGED <<exclusive, chain, disk, conn, tx, event, vpc, vnext, vhash, result,
                     acked, within, undone, history, tainted, quiet, appends, crashes, damage>>
  BY DEF getLastEntryHash, mode, admin, verifier, counts
<1>2. tx = a /\ chain /\ conn.rows = disk.rows /\ conn.anchor = disk.anchor
  BY <1>1, OnlyAppender DEF IInv, TxOK
<1>3. /\ apc' \in [Appenders -> {"idle", "last", "insert", "anchor", "commit"}]
      /\ apc'[a] = "insert"
      /\ \A b \in Appenders \ {a} : apc'[b] = "idle"
  BY <1>1, StepMoves, OnlyAppender DEF getLastEntryHash, IInv
<1>4. LastHash(conn.rows) \in Hashes
  BY DbParts DEF IInv, TypeOK, Hashes
<1>5. prev' \in [Appenders -> Hashes] /\ prev'[a] = LastHash(conn.rows)
  BY <1>1, <1>4 DEF IInv, TypeOK
<1>6. TypeOK'
  BY <1>1, <1>3, <1>5 DEF IInv, TypeOK
<1>7. TransactionsWhole' /\ AloneOK'
  BY <1>1, <1>2, <1>3, AuditAssumption DEF IInv, TransactionsWhole, AloneOK
<1>8. TxOK'
  BY <1>1, <1>2, <1>3, <1>5 DEF TxOK
<1>9. CommittedChain' /\ RunOK' /\ (tainted' => damage' > 0) /\ ScanOK' /\ AlarmOK'
  BY <1>1, LogKept, ScanKept
<1> QED
  BY <1>6, <1>7, <1>8, <1>9 DEF IInv

LEMMA InsertStep ==
    ASSUME IInv, NEW a \in Appenders, insertAuditEntry(a)
    PROVE  IInv'
<1>1. /\ apc[a] = "insert"
      /\ conn' = [conn EXCEPT !.rows = Append(@, NewRow(a))]
      /\ quiet' = FALSE
      /\ UNCHANGED <<exclusive, chain, disk, tx, event, prev, vpc, vnext, vhash, result,
                     acked, within, undone, history, tainted, appends, crashes, damage>>
  BY DEF insertAuditEntry, mode, admin, verifier, counts
<1>2. /\ tx = a /\ conn.rows = disk.rows /\ conn.anchor = disk.anchor
      /\ prev[a] = IF chain THEN LastHash(disk.rows) ELSE Zeros
  BY <1>1, OnlyAppender DEF IInv, TxOK
<1>3. /\ apc' \in [Appenders -> {"idle", "last", "insert", "anchor", "commit"}]
      /\ apc'[a] = IF chain THEN "anchor" ELSE "commit"
      /\ \A b \in Appenders \ {a} : apc'[b] = "idle"
  BY <1>1, StepMoves, OnlyAppender DEF insertAuditEntry, IInv
<1>4. NewRow(a)' = NewRow(a) /\ NewRow(a) \in RowType
  BY <1>1, NewRowType DEF NewRow, IInv
<1>5. conn \in Db /\ conn.rows \in Seq(RowType)
  BY DbParts DEF IInv, TypeOK
<1>6. /\ conn' \in Db /\ conn'.rows = Append(disk.rows, NewRow(a))
      /\ conn'.anchor = disk.anchor /\ conn'.policy = conn.policy
  <2>1. Append(conn.rows, NewRow(a)) \in Seq([event : Events, prev : Hashes, entry : Hashes])
    BY <1>4, <1>5, AppendRow DEF RowType
  <2> DEFINE rows == Append(conn.rows, NewRow(a))
  <2>2. conn' = [conn EXCEPT !.rows = rows]
    BY <1>1
  <2>3. rows = Append(disk.rows, NewRow(a))
    BY <1>2
  <2> HIDE DEF rows
  <2> QED
    BY <1>2, <1>5, <2>1, <2>2, <2>3 DEF Db, rows
<1>7. TypeOK'
  BY <1>1, <1>3, <1>6 DEF IInv, TypeOK
<1>8. TransactionsWhole' /\ AloneOK'
  BY <1>1, <1>2, <1>3, <1>6, AuditAssumption DEF IInv, TransactionsWhole, AloneOK
<1>9. TxOK'
  BY <1>1, <1>2, <1>3, <1>4, <1>6 DEF TxOK
<1>10. CommittedChain' /\ RunOK' /\ (tainted' => damage' > 0) /\ ScanOK' /\ AlarmOK'
  BY <1>1, LogKept, ScanKept
<1> QED
  BY <1>7, <1>8, <1>9, <1>10 DEF IInv

LEMMA AnchorStep ==
    ASSUME IInv, NEW a \in Appenders, updateAnchor(a)
    PROVE  IInv'
<1>1. /\ apc[a] = "anchor"
      /\ conn' = [conn EXCEPT !.anchor = NewRow(a).entry]
      /\ quiet' = FALSE
      /\ UNCHANGED <<exclusive, chain, disk, tx, event, prev, vpc, vnext, vhash, result,
                     acked, within, undone, history, tainted, appends, crashes, damage>>
  BY DEF updateAnchor, mode, admin, verifier, counts
<1>2. /\ tx = a /\ conn.rows = Append(disk.rows, NewRow(a)) /\ chain
      /\ prev[a] = LastHash(disk.rows)
  BY <1>1, OnlyAppender DEF IInv, TxOK
<1>3. /\ apc' \in [Appenders -> {"idle", "last", "insert", "anchor", "commit"}]
      /\ apc'[a] = "commit"
      /\ \A b \in Appenders \ {a} : apc'[b] = "idle"
  BY <1>1, StepMoves, OnlyAppender DEF updateAnchor, IInv
<1>4. NewRow(a)' = NewRow(a) /\ NewRow(a).entry \in Hashes
  BY <1>1, NewRowType DEF NewRow, IInv, Hashes
<1>5. conn \in Db
  BY DEF IInv, TypeOK
<1>6. /\ conn' \in Db /\ conn'.rows = Append(disk.rows, NewRow(a))
      /\ conn'.anchor = NewRow(a).entry /\ conn'.policy = conn.policy
  BY <1>1, <1>2, <1>4, <1>5 DEF Db
<1>7. TypeOK'
  BY <1>1, <1>3, <1>6 DEF IInv, TypeOK
<1>8. TransactionsWhole' /\ AloneOK'
  BY <1>1, <1>2, <1>3, <1>6, AuditAssumption DEF IInv, TransactionsWhole, AloneOK
<1>9. TxOK'
  BY <1>1, <1>2, <1>3, <1>4, <1>6 DEF TxOK
<1>10. CommittedChain' /\ RunOK' /\ (tainted' => damage' > 0) /\ ScanOK' /\ AlarmOK'
  BY <1>1, LogKept, ScanKept
<1> QED
  BY <1>7, <1>8, <1>9, <1>10 DEF IInv

LEMMA RollbackStep ==
    ASSUME IInv, NEW a \in Appenders, Rollback(a)
    PROVE  IInv'
<1>1. /\ apc[a] \in {"last", "insert", "anchor", "commit"}
      /\ conn' = disk /\ tx' = Nobody /\ quiet' = FALSE
      /\ within' = {} /\ undone' = undone \cup within
      /\ UNCHANGED <<exclusive, chain, disk, event, prev, vpc, vnext, vhash, result,
                     acked, history, tainted, appends, crashes, damage>>
  BY DEF Rollback, mode, admin, verifier, counts
<1>2. /\ apc' \in [Appenders -> {"idle", "last", "insert", "anchor", "commit"}]
      /\ \A b \in Appenders : apc'[b] = "idle"
  BY <1>1, StepMoves, OnlyAppender DEF Rollback, IInv
<1>3. TypeOK'
  BY <1>1, <1>2 DEF IInv, TypeOK
<1>4. TransactionsWhole' /\ AloneOK' /\ TxOK'
  BY <1>1, <1>2, AuditAssumption DEF IInv, TransactionsWhole, AloneOK, TxOK
<1>5. CommittedChain' /\ RunOK' /\ (tainted' => damage' > 0) /\ ScanOK' /\ AlarmOK'
  BY <1>1, LogKept, ScanKept
<1> QED
  BY <1>3, <1>4, <1>5 DEF IInv
-----------------------------------------------------------------------------
(* The other steps that leave the log as it is.                            *)

LEMMA AdminWriteStep ==
    ASSUME IInv, NEW w \in Writes, AdminWrite(w)
    PROVE  IInv'
<1>1. /\ exclusive => tx = Nobody /\ vpc = "idle"
      /\ conn' = [conn EXCEPT !.policy = @ \cup {w}]
      /\ disk' = IF tx = Nobody THEN conn' ELSE disk
      /\ acked' = acked \cup {w}
      /\ within' = IF tx = Nobody THEN within ELSE within \cup {w}
      /\ UNCHANGED <<exclusive, chain, tx, apc, event, prev, vpc, vnext, vhash, result,
                     undone, history, tainted, quiet, appends, crashes, damage>>
  BY DEF AdminWrite, mode, admin, appender, verifier, counts
<1>2. tx = Nobody => conn = disk
  BY DEF IInv, TransactionsWhole
<1>3. conn \in Db /\ disk \in Db
  BY DEF IInv, TypeOK
<1>4. /\ conn' \in Db /\ conn'.rows = conn.rows /\ conn'.anchor = conn.anchor
      /\ conn'.policy = conn.policy \cup {w}
  BY <1>1, <1>3 DEF Db
<1>5. disk' \in Db /\ disk'.rows = disk.rows /\ disk'.anchor = disk.anchor
  BY <1>1, <1>2, <1>3, <1>4
<1>6. TypeOK'
  BY <1>1, <1>4, <1>5 DEF IInv, TypeOK
<1>7. TransactionsWhole' /\ TxOK'
  BY <1>1, <1>4, <1>5 DEF IInv, TransactionsWhole, TxOK, NewRow
<1>8. AloneOK'
  BY <1>1, <1>2, <1>4 DEF IInv, AloneOK
<1>9. CommittedChain' /\ RunOK' /\ (tainted' => damage' > 0)
  <2>1. CommittedChain'
    BY <1>1, <1>5, SMTT(30) DEF IInv, CommittedChain, StoredAs, PrevHash, LastChained
  <2>2. RunOK'
    BY <1>1, <1>5, SMTT(30) DEF IInv, RunOK, LastRun, LastChained
  <2> QED
    BY <1>1, <2>1, <2>2 DEF IInv
<1>10. ScanOK'
  BY <1>1, <1>5 DEF IInv, ScanOK, Covers
<1>11. AlarmOK'
  BY <1>1, <1>5 DEF IInv, AlarmOK, AllChained, PrevHash
<1> QED
  BY <1>6, <1>7, <1>8, <1>9, <1>10, <1>11 DEF IInv

LEMMA CrashStep ==
    ASSUME IInv, Crash
    PROVE  IInv'
<1>1. /\ conn' = disk /\ tx' = Nobody
      /\ apc' = [a \in Appenders |-> "idle"]
      /\ vpc' = "idle" /\ result' = "none"
      /\ crashes' = crashes + 1
      /\ within' = {} /\ undone' = undone \cup within
      /\ UNCHANGED <<exclusive, disk, event, prev, vnext, vhash, acked, history, tainted, quiet,
                     appends, damage>>
  BY DEF Crash
<1>2. chain' \in BOOLEAN
  BY AuditAssumption DEF Crash
<1>3. crashes' \in Nat
  <2>1. crashes \in Nat
    BY DEF IInv, TypeOK
  <2> QED
    BY <1>1, <2>1
<1>4. TypeOK'
  BY <1>1, <1>2, <1>3 DEF IInv, TypeOK
<1>5. TransactionsWhole' /\ AloneOK' /\ TxOK'
  BY <1>1, AuditAssumption DEF IInv, TransactionsWhole, AloneOK, TxOK
<1>6. CommittedChain' /\ RunOK' /\ (tainted' => damage' > 0)
  BY <1>1, LogKept
<1>7. ScanOK' /\ AlarmOK'
  BY <1>1 DEF ScanOK, AlarmOK
<1> QED
  BY <1>4, <1>5, <1>6, <1>7 DEF IInv

LEMMA LoseStep ==
    ASSUME IInv, NEW i \in 1..Len(disk.rows), LoseRow(i)
    PROVE  IInv'
<1>1. /\ tx = Nobody /\ vpc = "idle"
      /\ conn' = disk' /\ damage' = damage + 1 /\ result' = "none"
      /\ UNCHANGED <<exclusive, chain, tx, apc, event, prev, vpc, vnext, vhash, acked, within, undone, history,
                     tainted, quiet, appends, crashes>>
  BY DEF LoseRow, mode, admin, appender
<1>2. disk \in Db /\ disk.rows \in Seq(RowType) /\ conn = disk /\ Len(disk.rows) \in Nat
  BY <1>1, DbParts DEF IInv, TypeOK, TransactionsWhole
<1>3. damage \in Nat /\ damage' \in Nat /\ damage' > 0
  <2>1. damage \in Nat
    BY DEF IInv, TypeOK
  <2> QED
    BY <1>1, <2>1
<1>4. disk' \in Db /\ disk'.anchor = disk.anchor /\ disk'.policy = disk.policy
  <2>1. CASE disk' = [disk EXCEPT !.rows = DropRow(@, i)]
    <3>1. DropRow(disk.rows, i) \in Seq(RowType)
      <4>1. \A j \in 1..(Len(disk.rows) - 1) :
                (IF j < i THEN disk.rows[j] ELSE disk.rows[j + 1]) \in RowType
        BY <1>2
      <4>2. Len(disk.rows) - 1 \in Nat
        BY <1>2
      <4> QED
        BY <4>1, <4>2 DEF DropRow
    <3> QED
      BY <1>2, <2>1, <3>1 DEF Db, RowType
  <2>2. ASSUME NEW e \in Events, disk' = [disk EXCEPT !.rows[i].event = e]
        PROVE  disk' \in Db /\ disk'.anchor = disk.anchor /\ disk'.policy = disk.policy
    <3>1. disk.rows[i] \in RowType
      BY <1>2
    <3>2. [disk.rows[i] EXCEPT !.event = e] \in RowType
      BY <3>1 DEF RowType
    <3>3. [disk.rows EXCEPT ![i] = [disk.rows[i] EXCEPT !.event = e]] \in Seq(RowType)
      BY <1>2, <3>2
    <3>4. disk' = [disk EXCEPT !.rows = [disk.rows EXCEPT ![i] = [disk.rows[i] EXCEPT !.event = e]]]
      BY <2>2
    <3> QED
      BY <1>2, <3>3, <3>4 DEF Db, RowType
  <2> QED
    BY <2>1, <2>2 DEF LoseRow
<1>5. TypeOK'
  BY <1>1, <1>3, <1>4 DEF IInv, TypeOK
<1>6. TransactionsWhole' /\ AloneOK'
  BY <1>1, <1>4 DEF IInv, TransactionsWhole, AloneOK
<1>7. TxOK'
  <2>1. \A a \in Appenders : apc'[a] = "idle"
    BY <1>1, AuditAssumption DEF IInv, TransactionsWhole
  <2> QED
    BY <2>1 DEF TxOK
<1>8. CommittedChain' /\ RunOK' /\ (tainted' => damage' > 0)
  <2>1. damage' # 0 /\ damage' > 0
    BY <1>3
  <2>2. CommittedChain'
    BY <2>1 DEF CommittedChain
  <2>3. RunOK'
    BY <1>1, <1>4 DEF IInv, RunOK, LastRun, LastChained
  <2> QED
    BY <2>1, <2>2, <2>3
<1>9. ScanOK' /\ AlarmOK'
  BY <1>1, <1>3 DEF ScanOK, AlarmOK
<1> QED
  BY <1>5, <1>6, <1>7, <1>8, <1>9 DEF IInv
-----------------------------------------------------------------------------
(* The commit.                                                             *)

\* What a commit does to the log: one row, one append, and the anchor follows.
LEMMA CommitParts ==
    ASSUME IInv, NEW a \in Appenders, Commit(a)
    PROVE  /\ disk.rows \in Seq(RowType) /\ NewRow(a) \in RowType
           /\ disk'.rows = Append(disk.rows, NewRow(a))
           /\ disk'.anchor = IF chain THEN NewRow(a).entry ELSE disk.anchor
           /\ Len(history) \in Nat /\ Len(history') = Len(history) + 1
           /\ \A j \in 1..Len(history) : history'[j] = history[j]
           /\ history'[Len(history) + 1] = [event |-> event[a], chained |-> chain]
           /\ history'[Len(history) + 1].event = event[a]
           /\ chain => history'[Len(history) + 1].chained
           /\ ~ chain => ~ history'[Len(history) + 1].chained
           /\ chain => prev[a] = LastHash(disk.rows)
           /\ ~ chain => prev[a] = Zeros
           /\ event[a] \in Events
<1>1. /\ apc[a] = "commit" /\ disk' = conn
      /\ history' = Append(history, [event |-> event[a], chained |-> chain])
  BY DEF Commit
<1>2. /\ conn.rows = Append(disk.rows, NewRow(a))
      /\ conn.anchor = IF chain THEN NewRow(a).entry ELSE disk.anchor
      /\ prev[a] = IF chain THEN LastHash(disk.rows) ELSE Zeros
  BY <1>1 DEF IInv, TxOK
<1>3. disk.rows \in Seq(RowType) /\ NewRow(a) \in RowType
  BY DbParts, NewRowType DEF IInv, TypeOK
<1>4. event[a] \in Events /\ chain \in BOOLEAN /\ history \in Seq(PastType)
  BY DEF IInv, TypeOK, PastType
<1>5. [event |-> event[a], chained |-> chain] \in PastType
  BY <1>4 DEF PastType
<1>6. /\ Len(history) \in Nat /\ Len(history') = Len(history) + 1
      /\ \A j \in 1..Len(history) : history'[j] = history[j]
      /\ history'[Len(history) + 1] = [event |-> event[a], chained |-> chain]
  BY <1>1, <1>4, <1>5
<1>7. /\ history'[Len(history) + 1].event = event[a]
      /\ history'[Len(history) + 1].chained = chain
  BY <1>6
<1>8. /\ chain => history'[Len(history) + 1].chained
      /\ ~ chain => ~ history'[Len(history) + 1].chained
  BY <1>7
<1> QED
  BY <1>1, <1>2, <1>3, <1>4, <1>6, <1>7, <1>8

\* Each committed append is stored as it should be, the new one too.
LEMMA CommitStores ==
    ASSUME IInv, NEW a \in Appenders, Commit(a), damage = 0
    PROVE  /\ Len(disk'.rows) = Len(history')
           /\ \A i \in 1..Len(history') : StoredAs(disk'.rows, i, history'[i])
<1> DEFINE N == Len(history)
<1>1. /\ Len(disk.rows) = N /\ \A i \in 1..N : StoredAs(disk.rows, i, history[i])
  BY DEF IInv, CommittedChain
<1>0. /\ disk.rows \in Seq(RowType) /\ NewRow(a) \in RowType
      /\ disk'.rows = Append(disk.rows, NewRow(a))
      /\ Len(history') = N + 1 /\ N \in Nat
      /\ \A i \in 1..N : history'[i] = history[i]
      /\ chain => prev[a] = LastHash(disk.rows)
      /\ ~ chain => prev[a] = Zeros
  BY CommitParts
<1>2. /\ Len(disk'.rows) = N + 1 /\ Len(history') = N + 1 /\ N \in Nat
      /\ \A i \in 1..N : disk'.rows[i] = disk.rows[i] /\ history'[i] = history[i]
      /\ disk'.rows[N + 1] = NewRow(a)
      /\ \A i \in 1..(N + 1) : PrevHash(disk'.rows, i) = PrevHash(disk.rows, i)
  <2>1. /\ Len(Append(disk.rows, NewRow(a))) = N + 1
        /\ \A i \in 1..N : Append(disk.rows, NewRow(a))[i] = disk.rows[i]
        /\ Append(disk.rows, NewRow(a))[N + 1] = NewRow(a)
        /\ \A i \in 1..(N + 1) : PrevHash(Append(disk.rows, NewRow(a)), i) = PrevHash(disk.rows, i)
    BY <1>0, <1>1, AppendRow
  <2> QED
    BY <1>0, <2>1
<1>3. ASSUME NEW i \in 1..N
      PROVE  StoredAs(disk'.rows, i, history'[i])
  <2>1. StoredAs(disk.rows, i, history[i]) /\ i \in 1..(N + 1)
    BY <1>1, <1>2
  <2> QED
    BY <1>2, <2>1 DEF StoredAs
<1>4. StoredAs(disk'.rows, N + 1, history'[N + 1])
  <2>1. /\ NewRow(a).event = event[a] /\ NewRow(a).prev = prev[a]
        /\ NewRow(a).entry = IF chain THEN computeEntryHash(prev[a], event[a]) ELSE Zeros
    BY DEF NewRow
  <2>2. /\ history'[N + 1].event = event[a]
        /\ chain => history'[N + 1].chained
        /\ ~ chain => ~ history'[N + 1].chained
    BY CommitParts
  <2>3. /\ chain => prev[a] = PrevHash(disk'.rows, N + 1)
        /\ ~ chain => prev[a] = Zeros
    <3>1. LastHash(disk.rows) = PrevHash(disk.rows, N + 1) /\ N + 1 \in 1..(N + 1)
      BY <1>0, <1>1, LastIsPrev
    <3> QED
      BY <1>0, <1>2, <3>1
  <2> QED
    BY <1>2, <2>1, <2>2, <2>3 DEF StoredAs
<1> QED
  BY <1>2, <1>3, <1>4

\* The last append to the chain is the new one, or still the one it was.
LEMMA CommitLast ==
    ASSUME IInv, NEW a \in Appenders, Commit(a), NEW n \in Nat,
           \/ chain /\ n = Len(history) + 1
           \/ ~ chain /\ n <= Len(history) /\ LastChained(n)
    PROVE  LastChained(n)'
<1> DEFINE N == Len(history)
<1>1. /\ Len(history') = N + 1 /\ N \in Nat
      /\ \A i \in 1..N : history'[i] = history[i]
      /\ chain => history'[N + 1].chained
      /\ ~ chain => ~ history'[N + 1].chained
  BY CommitParts
<1>2. n = 0 \/ history'[n].chained
  BY <1>1 DEF LastChained
<1>3. \A j \in (n + 1)..(N + 1) : ~ history'[j].chained
  BY <1>1 DEF LastChained
<1> QED
  BY <1>1, <1>2, <1>3 DEF LastChained

\* A row stored without the chain ends the run: the next chained row starts anew
\* from zeros; otherwise the hash of the last row is the anchor and is continued.
LEMMA PrevIsRun ==
    ASSUME IInv, NEW a \in Appenders, Commit(a), damage = 0, chain
    PROVE  \/ /\ prev[a] = disk.anchor
              /\ Len(history) > 0 /\ history[Len(history)].chained
           \/ /\ prev[a] = Zeros
              /\ Len(history) = 0 \/ ~ history[Len(history)].chained
<1> DEFINE N == Len(history)
<1>1. N \in Nat /\ prev[a] = LastHash(disk.rows) /\ disk.rows \in Seq(RowType)
  BY CommitParts
<1>2. Len(disk.rows) = N /\ \A i \in 1..N : StoredAs(disk.rows, i, history[i])
  BY DEF IInv, CommittedChain
<1>3. PICK n \in 0..N : LastChained(n) /\ disk.anchor = IF n = 0 THEN Zeros ELSE disk.rows[n].entry
  BY DEF IInv, CommittedChain
<1>4. prev[a] = IF N = 0 THEN Zeros ELSE disk.rows[N].entry
  BY <1>1, <1>2 DEF LastHash
<1>5. CASE N > 0 /\ history[N].chained
  <2>1. n = N
    BY <1>1, <1>3, <1>5 DEF LastChained
  <2> QED
    BY <1>1, <1>3, <1>4, <1>5, <2>1
<1>6. CASE N = 0
  BY <1>4, <1>6
<1>7. CASE N > 0 /\ ~ history[N].chained
  <2>1. disk.rows[N].entry = Zeros
    BY <1>1, <1>2, <1>7 DEF StoredAs
  <2> QED
    BY <1>1, <1>4, <1>7, <2>1
<1> QED
  BY <1>1, <1>5, <1>6, <1>7

\* The anchor stays the hash of the last unbroken run.
LEMMA CommitRun ==
    ASSUME IInv, NEW a \in Appenders, Commit(a), damage = 0
    PROVE  LastRun(disk.anchor)'
<1> DEFINE N == Len(history)
           L == Len(disk.anchor)
           h == history'
           es == disk'.anchor
           Past(e) == [event |-> e, chained |-> TRUE]
<1>1. /\ Len(h) = N + 1 /\ N \in Nat
      /\ \A i \in 1..N : h[i] = history[i]
  BY CommitParts
<1>2. disk.anchor \in Seq(Events) /\ L \in Nat
  BY DbParts DEF IInv, TypeOK
<1>3. LastRun(disk.anchor)
  BY DEF IInv, RunOK
<1>4. PICK n \in L..N :
        /\ LastChained(n)
        /\ \A i \in 1..L : history[n - L + i] = Past(disk.anchor[i])
        /\ n = L \/ ~ history[n - L].chained
  BY <1>3 DEF LastRun
<1>5. n \in Nat /\ n >= L /\ n <= N
  BY <1>1, <1>2, <1>4
<1>0. \A k \in Nat :
         /\ k \in Len(es)..Len(h)
         /\ LastChained(k)'
         /\ \A i \in 1..Len(es) : h[k - Len(es) + i] = Past(es[i])
         /\ k = Len(es) \/ ~ h[k - Len(es)].chained
         => LastRun(disk.anchor)'
  BY DEF LastRun
<1>6. CASE ~ chain
  <2>1. LastChained(n)' /\ es = disk.anchor
    BY <1>4, <1>5, <1>6, CommitParts, CommitLast
  <2>2. \A i \in 1..L : n - L + i \in 1..N
    BY <1>1, <1>2, <1>5
  <2>3. n = L \/ n - L \in 1..N
    BY <1>1, <1>2, <1>5
  <2>4. \A i \in 1..L : h[n - L + i] = Past(es[i])
    BY <1>1, <1>4, <2>1, <2>2
  <2>5. n = L \/ ~ h[n - L].chained
    BY <1>1, <1>4, <2>3
  <2>6. n \in Len(es)..Len(h) /\ Len(es) = L
    BY <1>1, <1>2, <1>5, <2>1
  <2> QED
    BY <1>0, <1>5, <2>1, <2>4, <2>5, <2>6
<1>7. CASE chain
  <2>0. PICK k \in Nat : k = N + 1
    BY <1>1
  <2>1. es = Append(prev[a], event[a]) /\ event[a] \in Events
    BY <1>7, CommitParts DEF NewRow, computeEntryHash
  <2>2. LastChained(k)'
    BY <1>7, <2>0, CommitLast
  <2>3. h[k] = Past(event[a])
    BY <1>7, <2>0, CommitParts
  <2> HIDE DEF h, es, Past
  <2>4. CASE prev[a] = disk.anchor /\ N > 0 /\ history[N].chained
    <3>1. n = N
      BY <1>1, <1>4, <1>5, <2>4 DEF LastChained
    <3>2. /\ Len(es) = L + 1
          /\ \A i \in 1..L : es[i] = disk.anchor[i]
          /\ es[L + 1] = event[a]
      BY <1>2, <2>1, <2>4
    <3>3. ASSUME NEW i \in 1..(L + 1)
          PROVE  h[k - (L + 1) + i] = Past(es[i])
      <4>1. CASE i \in 1..L
        <5>1. k - (L + 1) + i = n - L + i /\ n - L + i \in 1..N
          BY <1>1, <1>2, <1>5, <2>0, <3>1, <4>1
        <5> QED
          BY <1>1, <1>4, <3>2, <4>1, <5>1
      <4>2. CASE i = L + 1
        <5>1. k - (L + 1) + i = k
          <6>1. \A x, y \in Nat : x - (y + 1) + (y + 1) = x
            OBVIOUS
          <6> QED
            BY <1>2, <4>2, <6>1
        <5> QED
          BY <2>3, <3>2, <4>2, <5>1
      <4>3. \A y \in Nat : \A x \in 1..(y + 1) : x \in 1..y \/ x = y + 1
        OBVIOUS
      <4> QED
        BY <1>2, <4>1, <4>2, <4>3
    <3>4. k = L + 1 \/ ~ h[k - (L + 1)].chained
      <4>1. CASE n = L
        BY <2>0, <3>1, <4>1
      <4>2. CASE n # L
        <5>1. k - (L + 1) = n - L /\ n - L \in 1..N
          BY <1>1, <1>2, <1>5, <2>0, <3>1, <4>2
        <5>2. h[n - L] = history[n - L]
          BY <1>1, <5>1
        <5>3. ~ history[n - L].chained
          BY <1>4, <4>2
        <5> QED
          BY <5>1, <5>2, <5>3
      <4> QED
        BY <4>1, <4>2
    <3>5. k \in Len(es)..Len(h)
      BY <1>1, <1>2, <1>5, <2>0, <3>1, <3>2
    <3> QED
      BY <1>0, <2>2, <3>2, <3>3, <3>4, <3>5
  <2>5. CASE prev[a] = Zeros /\ (N = 0 \/ ~ history[N].chained)
    <3>1. Len(es) = 1 /\ es[1] = event[a]
      <4>1. Zeros \in Seq(Events) /\ Len(Zeros) = 0
        BY DEF Zeros
      <4> QED
        BY <2>1, <2>5, <4>1
    <3>2. k - 1 = N /\ k - 1 + 1 = k
      BY <1>1, <2>0
    <3>3. \A i \in 1..1 : h[k - 1 + i] = Past(es[i])
      BY <2>3, <3>1, <3>2
    <3>4. k = 1 \/ ~ h[k - 1].chained
      BY <1>1, <2>5, <3>2
    <3>5. k \in Len(es)..Len(h)
      BY <1>1, <2>0, <3>1
    <3> QED
      BY <1>0, <2>2, <3>1, <3>3, <3>4, <3>5
  <2> QED
    BY <1>7, <2>4, <2>5, PrevIsRun
<1> QED
  BY <1>6, <1>7

LEMMA CommitStep ==
    ASSUME IInv, NEW a \in Appenders, Commit(a)
    PROVE  IInv'
<1>1. /\ apc[a] = "commit" /\ disk' = conn /\ tx' = Nobody
      /\ within' = {}
      /\ UNCHANGED <<exclusive, chain, conn, event, prev, vpc, vnext, vhash, result, acked, undone, quiet,
                     appends, crashes, damage>>
  BY DEF Commit, mode, admin, verifier, counts
<1>0. tainted' \in BOOLEAN /\ (tainted' <=> damage > 0)
  <2>1. tainted' = (damage > 0)
    BY DEF Commit
  <2>2. (damage > 0) \in BOOLEAN
    OBVIOUS
  <2> QED
    BY <2>1, <2>2, Zenon
<1>2. tx = a /\ ~ quiet
  BY <1>1, OnlyAppender DEF IInv, TxOK
<1>3. /\ apc' \in [Appenders -> {"idle", "last", "insert", "anchor", "commit"}]
      /\ \A b \in Appenders : apc'[b] = "idle"
  BY <1>1, StepMoves, OnlyAppender DEF Commit, IInv
<1>4. history' \in Seq([event : Events, chained : BOOLEAN])
  <2>1. [event |-> event[a], chained |-> chain] \in [event : Events, chained : BOOLEAN]
    BY DEF IInv, TypeOK
  <2>2. history \in Seq([event : Events, chained : BOOLEAN])
    BY DEF IInv, TypeOK
  <2> QED
    BY <2>1, <2>2 DEF Commit
<1>5. TypeOK'
  BY <1>0, <1>1, <1>3, <1>4 DEF IInv, TypeOK
<1>6. TransactionsWhole' /\ TxOK'
  BY <1>1, <1>3, AuditAssumption DEF TransactionsWhole, TxOK
<1>7. AloneOK'
  BY <1>1 DEF IInv, AloneOK
<1>8. CommittedChain'
  <2> SUFFICES ASSUME damage' = 0
               PROVE  /\ Len(disk'.rows) = Len(history')
                      /\ \A i \in 1..Len(history') : StoredAs(disk'.rows, i, history'[i])
                      /\ \E n \in 0..Len(history') :
                           /\ LastChained(n)'
                           /\ disk'.anchor = IF n = 0 THEN Zeros ELSE disk'.rows[n].entry
    BY DEF CommittedChain, StoredAs, PrevHash, computeEntryHash, Zeros
  <2>0. damage = 0
    BY <1>1
  <2> DEFINE N == Len(history)
  <2>1. /\ disk.rows \in Seq(RowType) /\ NewRow(a) \in RowType
        /\ disk'.rows = Append(disk.rows, NewRow(a))
        /\ Len(history') = N + 1 /\ N \in Nat
    BY CommitParts
  <2>2. /\ \A i \in 1..N : disk'.rows[i] = disk.rows[i]
        /\ disk'.rows[N + 1] = NewRow(a)
    <3>1. Len(disk.rows) = N
      BY <2>0 DEF IInv, CommittedChain
    <3> QED
      BY <2>1, <3>1, AppendRow
  <2>3. CASE chain
    <3>1. PICK k \in Nat : k = N + 1
      BY <2>1
    <3>2. LastChained(k)'
      BY <2>3, <3>1, CommitLast
    <3>3. disk'.anchor = disk'.rows[k].entry
      BY <2>2, <2>3, <3>1, CommitParts, ZenonT(40)
    <3>4. k # 0 /\ k \in 0..Len(history')
      BY <2>1, <3>1
    <3> QED
      BY <2>0, <3>2, <3>3, <3>4, CommitStores
  <2>4. CASE ~ chain
    <3>1. PICK n \in 0..N : LastChained(n) /\ disk.anchor = IF n = 0 THEN Zeros ELSE disk.rows[n].entry
      BY <2>0 DEF IInv, CommittedChain
    <3>2. n \in Nat /\ n <= N /\ n \in 0..Len(history') /\ (n = 0 \/ n \in 1..N)
      BY <2>1, <3>1
    <3>3. LastChained(n)'
      BY <2>4, <3>1, <3>2, CommitLast
    <3>4. disk'.anchor = IF n = 0 THEN Zeros ELSE disk'.rows[n].entry
      <4>1. disk'.anchor = disk.anchor
        BY <2>4, CommitParts
      <4> QED
        BY <2>2, <3>1, <3>2, <4>1
    <3> QED
      BY <2>0, <3>2, <3>3, <3>4, CommitStores
  <2> QED
    BY <2>3, <2>4
<1>9. damage \in Nat
  BY DEF IInv, TypeOK
<1>10. RunOK' /\ (tainted' => damage' > 0)
  <2>1. tainted' => damage' > 0
    BY <1>0, <1>1
  <2>2. CASE damage = 0
    BY <2>1, <2>2, CommitRun DEF RunOK
  <2>3. CASE damage # 0
    <3>1. tainted'
      BY <1>0, <1>9, <2>3
    <3> QED
      BY <2>1, <3>1 DEF RunOK
  <2> QED
    BY <2>1, <2>2, <2>3
<1>11. ScanOK'
  BY <1>1, <1>2 DEF ScanOK
<1>12. AlarmOK'
  <2> SUFFICES ASSUME exclusive', damage' = 0, AllChained'
               PROVE  result' \in {"none", "ok"} /\ vpc' = "idle"
    BY DEF AlarmOK
  <2>1. exclusive /\ damage = 0 /\ vpc = "idle"
    BY <1>1, <1>2, AuditAssumption DEF IInv, AloneOK
  <2>2. AllChained
    <3>1. /\ Len(history') = Len(history) + 1 /\ Len(history) \in Nat
          /\ \A j \in 1..Len(history) : history'[j] = history[j]
      BY CommitParts
    <3> QED
      BY <3>1 DEF AllChained
  <2> QED
    BY <1>1, <2>1, <2>2 DEF IInv, AlarmOK
<1> QED
  BY <1>5, <1>6, <1>7, <1>8, <1>10, <1>11, <1>12 DEF IInv
-----------------------------------------------------------------------------
(* The verifier.                                                           *)

LEMMA VerifyStartStep ==
    ASSUME IInv, VerifyStart
    PROVE  IInv'
<1>1. /\ exclusive => tx = Nobody
      /\ vpc' = "rows" /\ vnext' = 1 /\ vhash' = Zeros /\ result' = "none"
      /\ UNCHANGED <<exclusive, chain, disk, conn, tx, apc, event, prev, acked, within, undone, history, tainted,
                     appends, crashes, damage>>
  BY DEF VerifyStart, mode, admin, appender, counts
<1>2. quiet' \in BOOLEAN /\ (quiet' => tx = Nobody)
  <2>1. quiet' = (tx = Nobody)
    BY DEF VerifyStart
  <2> QED
    BY <2>1, Zenon
<1>3. Zeros \in Hashes /\ Len(Zeros) = 0
  BY DEF Zeros, Hashes
<1>4. TypeOK'
  <2>1. vnext' \in Nat \ {0}
    BY <1>1
  <2> QED
    BY <1>1, <1>2, <1>3, <2>1 DEF IInv, TypeOK
<1>5. TransactionsWhole' /\ AloneOK'
  BY <1>1 DEF IInv, TransactionsWhole, AloneOK
<1>6. TxOK'
  <2>1. quiet' => \A a \in Appenders : apc[a] = "idle"
    BY <1>2, AuditAssumption DEF IInv, TransactionsWhole
  <2> QED
    BY <1>1, <2>1 DEF IInv, TxOK, NewRow
<1>7. CommittedChain' /\ RunOK' /\ (tainted' => damage' > 0)
  BY <1>1, LogKept
<1>8. Len(disk.rows) \in Nat
  BY DbParts DEF IInv, TypeOK
<1>9. ScanOK'
  BY <1>1, <1>3, <1>8 DEF ScanOK, Covers
<1>10. AlarmOK'
  BY <1>1, <1>8 DEF AlarmOK, PrevHash
<1> QED
  BY <1>4, <1>5, <1>6, <1>7, <1>9, <1>10 DEF IInv

\* A step of the verifier changes nothing but the verifier.
LEMMA VerifierOnly ==
    ASSUME IInv, vpc # "idle",
           UNCHANGED <<exclusive, chain, disk, conn, tx, apc, event, prev, acked, within, undone, history, tainted,
                       quiet, appends, crashes, damage>>,
           vpc' \in {"idle", "rows", "anchor"}, vnext' \in Nat \ {0}, vhash' \in Hashes,
           result' \in {"none", "ok", "prev_hash mismatch", "entry_hash mismatch", "anchor mismatch"},
           ScanOK', AlarmOK'
    PROVE  IInv'
<1>1. TypeOK'
  BY DEF IInv, TypeOK
<1>2. TransactionsWhole' /\ AloneOK' /\ TxOK'
  BY DEF IInv, TransactionsWhole, AloneOK, TxOK, NewRow
<1>3. CommittedChain' /\ RunOK' /\ (tainted' => damage' > 0)
  BY LogKept
<1> QED
  BY <1>1, <1>2, <1>3 DEF IInv

\* Under one mutex, and in a log nobody damaged that was always chained, every row
\* the scan comes to is the next link, and the anchor is the last.
LEMMA NothingToReport ==
    ASSUME IInv, exclusive, damage = 0, AllChained, vpc # "idle"
    PROVE  /\ conn = disk
           /\ Len(disk.rows) \in Nat
           /\ vnext \in 1..Len(disk.rows) => RowVerdict(disk.rows[vnext], vhash) = "ok"
           /\ vpc = "anchor" => disk.anchor = vhash
<1>1. conn = disk
  BY DEF IInv, AloneOK, TransactionsWhole
<1>2. /\ disk.rows \in Seq(RowType) /\ Len(disk.rows) \in Nat /\ Len(disk.rows) = Len(history)
      /\ \A i \in 1..Len(history) : StoredAs(disk.rows, i, history[i])
  BY DbParts DEF IInv, TypeOK, CommittedChain
<1>3. vhash = PrevHash(disk.rows, vnext) /\ (vpc = "anchor" => vnext = Len(disk.rows) + 1)
  BY DEF IInv, AlarmOK
<1>4. ASSUME vnext \in 1..Len(disk.rows)
      PROVE  RowVerdict(disk.rows[vnext], vhash) = "ok"
  <2>1. StoredAs(disk.rows, vnext, history[vnext]) /\ history[vnext].chained
    BY <1>2, <1>4 DEF AllChained
  <2> QED
    BY <1>3, <2>1 DEF StoredAs, RowVerdict
<1>5. ASSUME vpc = "anchor"
      PROVE  disk.anchor = vhash
  <2>1. PICK n \in 0..Len(history) :
           LastChained(n) /\ disk.anchor = IF n = 0 THEN Zeros ELSE disk.rows[n].entry
    BY DEF IInv, CommittedChain
  <2>2. n = Len(history)
    BY <1>2, <2>1 DEF LastChained, AllChained
  <2>3. vhash = PrevHash(disk.rows, n + 1) /\ n \in Nat
    BY <1>2, <1>3, <1>5, <2>2
  <2> QED
    BY <2>1, <2>3 DEF PrevHash
<1> QED
  BY <1>1, <1>2, <1>4, <1>5

LEMMA VerifyRowStep ==
    ASSUME IInv, verifyRow
    PROVE  IInv'
<1>1. /\ vpc = "rows"
      /\ UNCHANGED <<exclusive, chain, disk, conn, tx, apc, event, prev, acked, within, undone, history, tainted,
                     quiet, appends, crashes, damage>>
  BY DEF verifyRow, mode, admin, appender, counts
<1>0. /\ vnext \in Nat \ {0} /\ vhash \in Hashes
      /\ result \in {"none", "ok", "prev_hash mismatch", "entry_hash mismatch", "anchor mismatch"}
  BY DEF IInv, TypeOK
<1>2. vnext \in Nat /\ vnext >= 1
  <2>1. vnext \in Nat /\ vnext # 0
    BY <1>0
  <2> QED
    BY <2>1
<1>3. conn.rows \in Seq(RowType) /\ Len(conn.rows) \in Nat
  BY DbParts DEF IInv, TypeOK
<1>4. CASE vnext > Len(conn.rows)
  <2>1. vpc' = "anchor" /\ vnext' = vnext /\ vhash' = vhash /\ result' = result
    BY <1>4 DEF verifyRow
  <2>2. ScanOK'
    <3> SUFFICES ASSUME quiet
                 PROVE  /\ Covers(vhash, vnext - 1) /\ vnext = Len(disk.rows) + 1
                        /\ result = "ok" => Covers(disk.anchor, Len(disk.rows))
      BY <1>1, <2>1 DEF ScanOK, Covers
    <3>1. conn.rows = disk.rows
      BY QuietLog
    <3>2. Covers(vhash, vnext - 1) /\ (result = "ok" => Covers(disk.anchor, Len(disk.rows)))
      BY <1>1 DEF IInv, ScanOK
    <3>3. vnext = Len(disk.rows) + 1
      BY <1>2, <1>3, <1>4, <3>1, <3>2 DEF Covers
    <3> QED
      BY <3>2, <3>3
  <2>3. AlarmOK'
    <3> SUFFICES ASSUME exclusive, damage = 0, AllChained
                 PROVE  /\ result \in {"none", "ok"}
                        /\ vnext \in 1..(Len(disk.rows) + 1) /\ vhash = PrevHash(disk.rows, vnext)
                        /\ vnext = Len(disk.rows) + 1
      BY <1>1, <2>1 DEF AlarmOK, AllChained, PrevHash
    <3>1. conn = disk
      BY <1>1, NothingToReport
    <3>2. /\ result \in {"none", "ok"}
          /\ vnext \in 1..(Len(disk.rows) + 1) /\ vhash = PrevHash(disk.rows, vnext)
      BY <1>1 DEF IInv, AlarmOK
    <3>3. vnext = Len(disk.rows) + 1
      BY <1>3, <1>4, <3>1, <3>2
    <3> QED
      BY <3>2, <3>3
  <2> QED
    BY <1>0, <1>1, <2>1, <2>2, <2>3, VerifierOnly
<1>5. CASE ~ (vnext > Len(conn.rows))
  <2> DEFINE row == conn.rows[vnext]
  <2>0. vnext \in 1..Len(conn.rows) /\ row \in RowType
    BY <1>2, <1>3, <1>5
  <2>1. CASE RowVerdict(row, vhash) = "ok"
    <3>1. vpc' = vpc /\ vnext' = vnext + 1 /\ vhash' = row.entry /\ result' = result
      BY <1>5, <2>1 DEF verifyRow
    <3>2. row.prev = vhash /\ row.entry = Append(vhash, row.event)
      BY <2>1 DEF RowVerdict, computeEntryHash
    <3>0. vnext' \in Nat \ {0}
      BY <1>2, <3>1
    <3>3. vhash' \in Hashes /\ row.event \in Events
      BY <2>0, <3>1 DEF RowType
    <3>4. ScanOK'
      <4> SUFFICES ASSUME quiet
                   PROVE  /\ Covers(row.entry, vnext)
                          /\ result = "ok" => Covers(disk.anchor, Len(disk.rows))
        <5>1. vnext' - 1 = vnext
          BY <1>2, <3>1
        <5> QED
          BY <1>1, <3>1, <5>1 DEF ScanOK, Covers
      <4>1. conn.rows = disk.rows
        BY QuietLog
      <4>2. Covers(vhash, vnext - 1) /\ (result = "ok" => Covers(disk.anchor, Len(disk.rows)))
        BY <1>1 DEF IInv, ScanOK
      <4>3. Len(vhash) = vnext - 1 /\ \A j \in 1..(vnext - 1) : vhash[j] = disk.rows[j].event
        BY <4>2 DEF Covers
      <4>4. vhash \in Seq(Events)
        BY <1>0 DEF Hashes
      <4>5. /\ Len(row.entry) = vnext
            /\ \A j \in 1..(vnext - 1) : row.entry[j] = vhash[j]
            /\ row.entry[vnext] = row.event
        <5>1. /\ Len(Append(vhash, row.event)) = Len(vhash) + 1
              /\ \A j \in 1..Len(vhash) : Append(vhash, row.event)[j] = vhash[j]
              /\ Append(vhash, row.event)[Len(vhash) + 1] = row.event
          BY <3>3, <4>4
        <5>2. Len(vhash) + 1 = vnext
          BY <1>2, <4>3
        <5> QED
          BY <3>2, <4>3, <5>1, <5>2
      <4>6. \A j \in 1..vnext : row.entry[j] = disk.rows[j].event
        BY <1>2, <4>1, <4>3, <4>5
      <4> QED
        BY <2>0, <4>1, <4>2, <4>5, <4>6 DEF Covers
    <3>5. AlarmOK'
      <4> SUFFICES ASSUME exclusive, damage = 0, AllChained
                   PROVE  /\ result \in {"none", "ok"}
                          /\ vnext + 1 \in 1..(Len(disk.rows) + 1)
                          /\ row.entry = PrevHash(disk.rows, vnext + 1)
        BY <1>1, <3>1 DEF AlarmOK, AllChained, PrevHash
      <4>1. conn = disk /\ result \in {"none", "ok"}
        BY <1>1, NothingToReport DEF IInv, AlarmOK
      <4>2. vnext + 1 \in 1..(Len(disk.rows) + 1) /\ vnext + 1 # 1 /\ (vnext + 1) - 1 = vnext
        BY <1>2, <1>3, <2>0, <4>1
      <4> QED
        BY <4>1, <4>2 DEF PrevHash
    <3> QED
      BY <1>0, <1>1, <3>0, <3>1, <3>3, <3>4, <3>5, VerifierOnly
  <2>2. CASE RowVerdict(row, vhash) # "ok"
    <3>1. /\ vpc' = "idle" /\ vnext' = vnext /\ vhash' = vhash
          /\ result' \in {"prev_hash mismatch", "entry_hash mismatch"}
      BY <1>5, <2>2 DEF verifyRow, Finish, RowVerdict
    <3>2. ScanOK'
      BY <3>1 DEF ScanOK
    <3>3. AlarmOK'
      <4>1. ~ (exclusive /\ damage = 0 /\ AllChained)
        BY <1>1, <2>0, <2>2, NothingToReport
      <4> QED
        BY <1>1, <4>1 DEF AlarmOK, AllChained
    <3> QED
      BY <1>0, <1>1, <3>1, <3>2, <3>3, VerifierOnly
  <2> QED
    BY <2>1, <2>2
<1> QED
  BY <1>4, <1>5

LEMMA VerifyAnchorStep ==
    ASSUME IInv, verifyAnchor
    PROVE  IInv'
<1>1. /\ vpc = "anchor" /\ vpc' = "idle"
      /\ result' = IF conn.anchor = vhash THEN "ok" ELSE "anchor mismatch"
      /\ UNCHANGED <<exclusive, chain, disk, conn, tx, apc, event, prev, acked, within, undone, history, tainted,
                     vnext, vhash, quiet, appends, crashes, damage>>
  BY DEF verifyAnchor, Finish, mode, admin, appender, counts
<1>2. vnext \in Nat \ {0} /\ vhash \in Hashes
  BY DEF IInv, TypeOK
<1>3. ScanOK'
  <2> SUFFICES ASSUME quiet, conn.anchor = vhash
               PROVE  Covers(disk.anchor, Len(disk.rows))
    BY <1>1 DEF ScanOK, Covers
  <2>1. conn.anchor = disk.anchor
    BY QuietLog
  <2>2. Covers(vhash, vnext - 1) /\ vnext = Len(disk.rows) + 1
    BY <1>1 DEF IInv, ScanOK
  <2>3. Len(disk.rows) \in Nat
    BY DbParts DEF IInv, TypeOK
  <2>4. vnext - 1 = Len(disk.rows)
    BY <2>2, <2>3
  <2> QED
    BY <2>1, <2>2, <2>4
<1>4. AlarmOK'
  <2> SUFFICES ASSUME exclusive, damage = 0, AllChained
               PROVE  conn.anchor = vhash
    BY <1>1 DEF AlarmOK, AllChained
  <2> QED
    BY <1>1, NothingToReport
<1> QED
  BY <1>1, <1>2, <1>3, <1>4, VerifierOnly
-----------------------------------------------------------------------------
LEMMA InvInit == Init => IInv
<1> SUFFICES ASSUME Init
             PROVE  IInv
  OBVIOUS
<1>1. /\ disk = EmptyDb /\ conn = EmptyDb /\ tx = Nobody
      /\ apc = [a \in Appenders |-> "idle"]
      /\ vpc = "idle" /\ vnext = 1 /\ vhash = Zeros /\ result = "none"
      /\ acked = {} /\ within = {} /\ undone = {} /\ history = << >> /\ tainted = FALSE /\ quiet = TRUE
      /\ appends = 0 /\ crashes = 0 /\ damage = 0
  BY DEF Init
<1>2. EmptyDb.rows = << >> /\ EmptyDb.anchor = << >> /\ EmptyDb.policy = {} /\ Len(<< >>) = 0
  BY DEF EmptyDb, Zeros
<1>3. TypeOK
  <2>1. EmptyDb \in Db
    BY DEF EmptyDb, Db, Zeros, Hashes
  <2>2. Zeros \in Hashes
    BY DEF Zeros, Hashes
  <2>3. event \in [Appenders -> Events] /\ prev \in [Appenders -> Hashes]
    BY <2>2, AuditAssumption DEF Init
  <2>4. exclusive \in BOOLEAN /\ chain \in BOOLEAN
    BY AuditAssumption DEF Init
  <2>5. history \in Seq([event : Events, chained : BOOLEAN])
    BY <1>1
  <2>6. vnext \in Nat \ {0} /\ appends \in Nat /\ crashes \in Nat /\ damage \in Nat
    BY <1>1
  <2> QED
    BY <1>1, <2>1, <2>2, <2>3, <2>4, <2>5, <2>6 DEF TypeOK
<1>4. TransactionsWhole /\ TxOK /\ AloneOK
  BY <1>1, <1>2, AuditAssumption DEF TransactionsWhole, TxOK, AloneOK
<1>5. LastChained(0)
  BY <1>1, <1>2 DEF LastChained
<1>6. CommittedChain
  BY <1>1, <1>2, <1>5 DEF CommittedChain, Zeros
<1>7. RunOK
  BY <1>1, <1>2, <1>5 DEF RunOK, LastRun
<1>8. ScanOK /\ AlarmOK
  BY <1>1 DEF ScanOK, AlarmOK
<1> QED
  BY <1>1, <1>3, <1>4, <1>6, <1>7, <1>8 DEF IInv

LEMMA InvStep == IInv /\ [Next]_vars => IInv'
<1> SUFFICES ASSUME IInv, [Next]_vars
             PROVE  IInv'
  OBVIOUS
<1>1. ASSUME NEW a \in Appenders, NEW e \in Events, Begin(a, e) \/ BeginRefused(a, e)
      PROVE  IInv'
  BY <1>1, BeginStep, BeginRefusedStep
<1>2. ASSUME NEW a \in Appenders, AppendStep(a) \/ Rollback(a)
      PROVE  IInv'
  BY <1>2, LastHashStep, InsertStep, AnchorStep, CommitStep, RollbackStep DEF AppendStep
<1>3. ASSUME NEW w \in Writes, AdminWrite(w)
      PROVE  IInv'
  BY <1>3, AdminWriteStep
<1>4. CASE Crash
  BY <1>4, CrashStep
<1>5. ASSUME NEW i \in 1..Len(disk.rows), LoseRow(i)
      PROVE  IInv'
  BY <1>5, LoseStep
<1>6. CASE VerifyStart \/ verifyRow \/ verifyAnchor
  BY <1>6, VerifyStartStep, VerifyRowStep, VerifyAnchorStep
<1>7. CASE UNCHANGED vars
  <2>1. UNCHANGED <<exclusive, chain, disk, conn, tx, apc, event, prev, vpc, vnext, vhash, result,
                    acked, within, undone, history, tainted, quiet, appends, crashes, damage>>
    BY <1>7 DEF vars, mode, admin, appender, verifier, counts
  <2>2. TypeOK'
    BY <2>1, ZenonT(40) DEF IInv, TypeOK
  <2>3. TransactionsWhole' /\ AloneOK' /\ TxOK'
    BY <2>1 DEF IInv, TransactionsWhole, AloneOK, TxOK, NewRow
  <2>4. CommittedChain' /\ RunOK' /\ (tainted' => damage' > 0) /\ ScanOK' /\ AlarmOK'
    BY <2>1, LogKept, ScanKept
  <2> QED
    BY <2>2, <2>3, <2>4 DEF IInv
<1> QED
  BY <1>1, <1>2, <1>3, <1>4, <1>5, <1>6, <1>7 DEF Next

LEMMA InvAlways == Spec => []IInv
  BY InvInit, InvStep, PTL DEF Spec

\* Every variable keeps its type: the stored hashes are hashes, the log is a
\* sequence of rows, whatever is appended, rolled back, lost or verified.
THEOREM TypeAlways == Spec => []TypeOK
<1>1. IInv => TypeOK
  BY DEF IInv
<1> QED
  BY <1>1, InvAlways, PTL

\* Outside a transaction the connection sees the committed database, and a
\* transaction belongs to the one appender in the middle of it: a failing or
\* interrupted append leaves nothing behind.
THEOREM TransactionsAlwaysWhole == Spec => []TransactionsWhole
<1>1. IInv => TransactionsWhole
  BY DEF IInv
<1> QED
  BY <1>1, InvAlways, PTL

\* The rows of a log nobody damaged are the committed appends in their order,
\* correctly linked, with the anchor at the last link: under any interleaving,
\* failure, crash and switching of the chain.
THEOREM CommittedAlwaysChain == Spec => []CommittedChain
<1>1. IInv => CommittedChain
  BY DEF IInv
<1> QED
  BY <1>1, InvAlways, PTL

\* An undisturbed verification that ends ok has seen exactly the last unbroken run
\* of appends to the chain, however many rows were lost or changed.
THEOREM VerifiedAlwaysIntact == Spec => []VerifiedIsIntact
<1>1. IInv => VerifiedIsIntact
  <2> SUFFICES ASSUME IInv, result = "ok", quiet, ~ tainted
               PROVE  LastRun([i \in 1..Len(disk.rows) |-> disk.rows[i].event])
    BY DEF VerifiedIsIntact
  <2> DEFINE es == [i \in 1..Len(disk.rows) |-> disk.rows[i].event]
  <2>1. Covers(disk.anchor, Len(disk.rows))
    BY DEF IInv, ScanOK
  <2>2. LastRun(disk.anchor)
    BY DEF IInv, RunOK
  <2>3. disk.rows \in Seq(RowType) /\ Len(disk.rows) \in Nat /\ disk.anchor \in Seq(Events)
    BY DbParts DEF IInv, TypeOK
  <2>4. es \in Seq(Events) /\ Len(es) = Len(disk.rows)
    <3>1. \A i \in 1..Len(disk.rows) : disk.rows[i].event \in Events
      <4>1. \A i \in 1..Len(disk.rows) : disk.rows[i] \in RowType
        BY <2>3
      <4> QED
        BY <4>1 DEF RowType
    <3> QED
      BY <2>3, <3>1
  <2>5. es = disk.anchor
    BY <2>1, <2>3, <2>4 DEF Covers
  <2> QED
    BY <2>2, <2>5
<1> QED
  BY <1>1, InvAlways, PTL

\* Under one mutex the verifier raises no alarm about a log nobody damaged whose
\* rows were all chained, after failed appends and crashes too.
THEOREM NeverFalseAlarm == Spec => []NoFalseAlarm
<1>1. IInv => NoFalseAlarm
  BY DEF IInv, AlarmOK, AllChained, NoFalseAlarm
<1> QED
  BY <1>1, InvAlways, PTL

\* What was acknowledged and not undone is what the connection sees.
WritesSeen == acked \subseteq conn.policy \cup undone

\* An acknowledged admin write is lost only with the transaction of an append it
\* fell into, under one mutex and under several.
THEOREM AckedWritesAlwaysKept == Spec => []AckedWritesKept
<1> DEFINE Inv == WritesSeen /\ AckedWritesKept
<1>1. Init => Inv
  BY DEF Init, WritesSeen, AckedWritesKept
<1>2. IInv /\ IInv' /\ Inv /\ [Next]_vars => Inv'
  <2> SUFFICES ASSUME IInv, IInv', Inv, [Next]_vars PROVE Inv'
    OBVIOUS
  <2> USE DEF WritesSeen, AckedWritesKept
  <2>0. /\ tx = Nobody => conn = disk /\ within = {}
        /\ tx' = Nobody => conn' = disk'
        /\ conn \in Db /\ disk \in Db
    BY DEF IInv, TransactionsWhole, TypeOK
  <2>k. ASSUME UNCHANGED <<acked, within, undone, tx>>,
               conn'.policy = conn.policy, disk'.policy = disk.policy
        PROVE  Inv'
    BY <2>k
  <2>1. ASSUME NEW a \in Appenders, NEW e \in Events, Begin(a, e) PROVE Inv'
    BY <2>0, <2>1, AuditAssumption DEF Begin, admin
  <2>2. ASSUME NEW a \in Appenders, NEW e \in Events, BeginRefused(a, e) PROVE Inv'
    BY <2>2, <2>k DEF BeginRefused, admin
  <2>3. ASSUME NEW a \in Appenders, AppendStep(a) \/ Rollback(a) PROVE Inv'
    <3>1. CASE getLastEntryHash(a)
      BY <2>k, <3>1 DEF getLastEntryHash, admin
    <3>2. CASE insertAuditEntry(a)
      <4>1. conn'.policy = conn.policy
        BY <2>0, <3>2 DEF insertAuditEntry, Db
      <4> QED
        BY <2>k, <3>2, <4>1 DEF insertAuditEntry, admin
    <3>3. CASE updateAnchor(a)
      <4>1. conn'.policy = conn.policy
        BY <2>0, <3>3 DEF updateAnchor, Db
      <4> QED
        BY <2>k, <3>3, <4>1 DEF updateAnchor, admin
    <3>4. CASE Commit(a)
      BY <3>4 DEF Commit
    <3>5. CASE Rollback(a)
      BY <3>5 DEF Rollback
    <3> QED
      BY <2>3, <3>1, <3>2, <3>3, <3>4, <3>5 DEF AppendStep
  <2>4. ASSUME NEW w \in Writes, AdminWrite(w) PROVE Inv'
    <3>1. conn'.policy = conn.policy \cup {w}
      BY <2>0, <2>4 DEF AdminWrite, Db
    <3> QED
      BY <2>0, <2>4, <3>1 DEF AdminWrite
  <2>5. CASE Crash
    BY <2>5 DEF Crash
  <2>6. ASSUME NEW i \in 1..Len(disk.rows), LoseRow(i) PROVE Inv'
    <3>1. disk'.policy = disk.policy /\ conn = disk /\ conn' = disk'
      BY <2>0, <2>6 DEF LoseRow, Db
    <3> QED
      BY <2>6, <2>k, <3>1 DEF LoseRow, admin
  <2>7. CASE VerifyStart \/ verifyRow \/ verifyAnchor \/ UNCHANGED vars
    BY <2>7, <2>k DEF VerifyStart, verifyRow, verifyAnchor, vars, admin
  <2> QED
    BY <2>1, <2>2, <2>3, <2>4, <2>5, <2>6, <2>7 DEF Next
<1> QED
  BY <1>1, <1>2, InvAlways, PTL DEF Spec
=============================================================================
