-------------------------------- MODULE WAL --------------------------------
(***************************************************************************)
(* Log (storage/log.go) and Entry (storage/entry.go): the write-ahead log, *)
(* an append-only file of records, each with its own checksum.             *)
(*                                                                         *)
(* The file is a sequence of records; Torn stands for bytes that           *)
(* Entry.Decode does not accept (io.ErrUnexpectedEOF, ErrBadSum).  log is  *)
(* the file as the running system sees it, logDisk the set of contents the *)
(* next Open may find.  The position after a replay is behind whatever   *)
(* Decode consumed, so the next record is written behind a torn one; what  *)
(* is behind a torn record is never decoded again.                         *)
(***************************************************************************)
EXTENDS Naturals, Sequences

CONSTANTS Keys,        \* the keys
          Cells,       \* what a record can set a key to: a value or a tombstone
          Absent,      \* the answer of a level that has no entry for a key
          Torn,        \* bytes that do not decode
          Environments,\* the sets of faults to consider, see MetaStore
          MaxLog       \* bound: records (and torn bytes) in the file

ASSUME CellsAssumption == Absent \notin Cells
ASSUME MaxLogAssumption == MaxLog \in Nat

Record == [key : Keys, val : Cells]

ASSUME TornAssumption == Torn \notin Record

Contents == Seq(Record \union {Torn})

VARIABLES log,         \* the file as the operating system shows it
          logDisk,     \* the contents the next Open may find
          logPhase,    \* "closed", "open", or the call that waits for its Sync
          faults       \* what the environment may do in this behaviour

logVars == <<log, logDisk, logPhase, faults>>

LogTypeOK ==
    /\ log \in Contents
    /\ logDisk \subseteq Contents
    /\ logPhase \in {"closed", "open", "writing", "truncating"}
    /\ faults \in Environments

-----------------------------------------------------------------------------
\* The positions replay reaches: those in front of the first torn record.
Readable(l) == {i \in 1..Len(l) : \A j \in 1..i : l[j] # Torn}

\* The last readable record of key k wins.
LastOf(l, k) ==
    LET hits == {i \in Readable(l) : l[i].key = k}
    IN  IF hits = {} THEN Absent
        ELSE l[CHOOSE i \in hits : \A j \in hits : j <= i].val

\* The MemTable that Read, called until eof, rebuilds.
Replay(l) == [k \in Keys |-> LastOf(l, k)]

\* Something lies behind a torn record.
Buried(l) == \E i \in 1..Len(l) : l[i] = Torn /\ i < Len(l)
-----------------------------------------------------------------------------
\* The contents the next Open may find once the file reads now and no fsync has
\* followed: a power loss may also bring back an older content.
Unsynced(older, now) == {now} \union (IF "power" \in faults THEN older ELSE {})

LogInit ==
    /\ log = <<>> /\ logDisk = {<<>>} /\ logPhase = "closed"
    /\ faults \in Environments

LogOpen ==
    /\ logPhase = "closed"
    /\ logPhase' = "open"
    /\ UNCHANGED <<log, logDisk, faults>>

\* Faulty: the key is not part of the record.
LogWriteNoKey(r) ==
    /\ logPhase = "open"
    /\ Len(log) < MaxLog
    /\ log' = Append(log, r.val)
    /\ logDisk' = Unsynced(logDisk, Append(log, r.val))
    /\ logPhase' = "writing"
    /\ UNCHANGED faults

\* Write, up to fp.Write: the record is in the page cache.  A power loss now
\* keeps it, drops it, or keeps a part of it.
LogWrite(r) ==
    /\ logPhase = "open"
    /\ Len(log) < MaxLog
    /\ log' = Append(log, r)
    /\ logDisk' = Unsynced(logDisk \union (IF "torn" \in faults THEN {Append(log, Torn)} ELSE {}),
                           Append(log, r))
    /\ logPhase' = "writing"
    /\ UNCHANGED faults

\* fp.Write stores a part of the record and fails; Write returns the error.
LogWriteShort ==
    /\ "ioerr" \in faults
    /\ logPhase = "open"
    /\ Len(log) < MaxLog
    /\ log' = Append(log, Torn)
    /\ logDisk' = Unsynced(logDisk, Append(log, Torn))
    /\ UNCHANGED <<logPhase, faults>>

\* Truncate, up to the Sync: the file is empty and its position is 0.
LogTruncate ==
    /\ logPhase = "open"
    /\ log' = <<>>
    /\ logDisk' = Unsynced(logDisk, <<>>)
    /\ logPhase' = "truncating"
    /\ UNCHANGED faults

\* Faulty: the call returns without an fsync.
LogNoSync ==
    /\ logPhase \in {"writing", "truncating"}
    /\ logPhase' = "open"
    /\ UNCHANGED <<log, logDisk, faults>>

\* The Sync that ends Write and Truncate.
LogSync ==
    /\ logPhase \in {"writing", "truncating"}
    /\ logDisk' = {log}
    /\ logPhase' = "open"
    /\ UNCHANGED <<log, faults>>

\* The Sync fails: what was written stays in the file, durable or not.
LogSyncFails ==
    /\ "ioerr" \in faults
    /\ logPhase \in {"writing", "truncating"}
    /\ logPhase' = "open"
    /\ UNCHANGED <<log, logDisk, faults>>

LogClose ==
    /\ logPhase = "open"
    /\ logPhase' = "closed"
    /\ UNCHANGED <<log, logDisk, faults>>

\* The process dies, the page cache survives.
LogKill ==
    /\ "kill" \in faults
    /\ logPhase' = "closed"
    /\ UNCHANGED <<log, logDisk, faults>>

\* The machine stops.
LogPowerLoss ==
    /\ "power" \in faults
    /\ log' \in logDisk
    /\ logDisk' = {log'}
    /\ logPhase' = "closed"
    /\ UNCHANGED faults
=============================================================================
