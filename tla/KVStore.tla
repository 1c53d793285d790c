------------------------------ MODULE KVStore ------------------------------
(***************************************************************************)
(* KV (storage/kv.go): the storage engine.  It composes the metadata store *)
(* (MetaStore), the write-ahead log (WAL), the MemTable and the SSTable    *)
(* files.  One action is one step between two points where a crash or an   *)
(* error makes a difference: a write to the page cache, an fsync, the      *)
(* removal of a file.                                                      *)
(*                                                                         *)
(* A sorted level (MemTable or SSTable) is the function from Keys to what  *)
(* it holds: a value, Tombstone, or Absent where it has no entry.  The     *)
(* order of the keys inside a level matters to cursors only and is left    *)
(* out.  The SSTable that version v created is called v.                   *)
(***************************************************************************)
EXTENDS Integers, Sequences, FiniteSets

CONSTANTS Keys,         \* the keys
          Vals,         \* the values
          Tombstone,    \* the mark of a deleted key
          Absent,       \* a level has no entry for the key
          Torn,         \* bytes of the log that do not decode
          Nothing,      \* no write is in progress
          Missing,      \* no SSTable file of that name
          Partial,      \* an SSTable file that is being written, or never was completed
          LogThreshold, \* Options.LogShreshold
          GrowthNum,    \* Options.GrowthFactor is GrowthNum / GrowthDen
          GrowthDen,
          Environments, \* the sets of faults to consider, see MetaStore
          MaxVersion,   \* bound: version numbers, and so SSTable files
          MaxLog        \* bound: records in the log

Names == 1..MaxVersion
Cells == Vals \union {Tombstone}
Level == [Keys -> Cells \union {Absent}]
Empty == [k \in Keys |-> Absent]

VARIABLES slots, cached, durable, metaPhase, pending,  \* KV.meta, see MetaStore
          log, logDisk, logPhase,                      \* KV.log, see WAL
          faults,   \* what the environment may do in this behaviour
          files,    \* the SSTable files of the directory
          mem,      \* KV.mem: the MemTable
          main,     \* KV.main: the open levels, newest first, by name
          version,  \* KV.version
          pc,       \* "down", "idle", or the step the running call is at
          op,       \* the record SetEx or Del is writing
          job       \* the compaction step in progress

Meta == INSTANCE MetaStore WITH Tables <- Seq(Names), NoTables <- <<>>
Log  == INSTANCE WAL

ASSUME KVAssumption ==
    /\ IsFiniteSet(Keys)
    /\ Absent \notin Cells /\ Tombstone \notin Vals
    /\ Missing \notin Level /\ Partial \notin Level
    /\ Torn \notin Log!Record /\ Nothing \notin Log!Record
    /\ LogThreshold \in Nat /\ MaxLog \in Nat
    /\ GrowthNum \in Nat /\ GrowthDen \in Nat \ {0}
    /\ Meta!MetaConstants

metaVars == <<slots, cached, durable, metaPhase, pending, faults>>
logVars  == <<log, logDisk, logPhase, faults>>
memVars  == <<mem, main, version>>
vars == <<metaVars, logVars, files, memVars, pc, op, job>>

\* flush: compactLog; merge: compactSSTable(at); scan: the loop of Compact at
\* position at.  left: superseded files still to be removed.
Job  == [kind : {"none", "flush", "merge", "scan"}, at : 0..MaxVersion, left : Seq(Names)]
Idle == [kind |-> "none", at |-> 0, left |-> <<>>]
Scan(i) == [kind |-> "scan", at |-> i, left |-> <<>>]

TypeOK ==
    /\ Meta!MetaTypeOK
    /\ Log!LogTypeOK
    /\ files \in [Names -> Level \union {Missing, Partial}]
    /\ mem \in Level
    /\ main \in Seq(Names)
    /\ version \in 0..MaxVersion
    /\ pc \in {"down", "idle", "write", "scan", "build", "meta", "levels", "clear",
               "truncate", "remove"}
    /\ op \in Log!Record \union {Nothing}
    /\ job \in Job

-----------------------------------------------------------------------------
(* Reading.                                                                *)

Size(level) == Cardinality({k \in Keys : level[k] # Absent})

\* What an SSTable holds; a file that is not a complete SSTable holds nothing.
Contents(t) == IF files[t] \in Level THEN files[t] ELSE Empty

\* Get: the MemTable, then the tables newest first; the first level that has
\* an entry decides, and a tombstone means that the key is not there.
GetIn(m, tables, k) ==
    LET hits == {i \in DOMAIN tables : Contents(tables[i])[k] # Absent}
        cell == IF m[k] # Absent THEN m[k]
                ELSE IF hits = {} THEN Absent
                ELSE Contents(tables[CHOOSE i \in hits : \A j \in hits : i <= j])[k]
    IN  IF cell = Tombstone THEN Absent ELSE cell

Get(k) == GetIn(mem, main, k)
-----------------------------------------------------------------------------
(* Merging.                                                                *)

\* Faulty: the older level wins.
MergedOlderWins(newer, older) ==
    [k \in Keys |-> IF older[k] # Absent THEN older[k] ELSE newer[k]]

\* MergedSortedKV over two levels: the newer one wins.
Merged(newer, older) ==
    [k \in Keys |-> IF newer[k] # Absent THEN newer[k] ELSE older[k]]

\* NoDeletedSortedKV: the tombstones are left out.
NoDeleted(level) ==
    [k \in Keys |-> IF level[k] = Tombstone THEN Absent ELSE level[k]]

\* shouldMerge(i): level i + 1 is at most GrowthFactor times as large as i.
ShouldMerge(i) ==
    /\ GrowthNum > GrowthDen
    /\ Size(Contents(main[i + 1])) * GrowthDen <= GrowthNum * Size(Contents(main[i]))

\* The positions at or below i where the loop of Compact finds work.
Due(i) == {j \in i..(Len(main) - 1) : ShouldMerge(j)}

\* The merge at position i produces the last level (as kv.main has it).
IntoLast(i) == i + 1 = Len(main)

\* What the SSTable of the step in progress will hold.
NewTable ==
    IF job.kind = "flush" THEN mem
    ELSE LET both == Merged(Contents(main[job.at]), Contents(main[job.at + 1]))
         IN  IF IntoLast(job.at) THEN NoDeleted(both) ELSE both

\* Faulty: a flushed table becomes the oldest level.
NewTablesAppended ==
    LET old == Meta!Get.tables
    IN  IF job.kind = "flush" THEN old \o <<version>>
        ELSE SubSeq(old, 1, job.at - 1) \o <<version>> \o SubSeq(old, job.at + 2, Len(old))

\* The list of tables after it: prepended, or in the place of two others.
NewTables ==
    LET old == Meta!Get.tables
    IN  IF job.kind = "flush" THEN <<version>> \o old
        ELSE SubSeq(old, 1, job.at - 1) \o <<version>> \o SubSeq(old, job.at + 2, Len(old))
-----------------------------------------------------------------------------
Init ==
    /\ Meta!MetaInit
    /\ Log!LogInit
    /\ files = [t \in Names |-> Missing]
    /\ mem = Empty
    /\ main = <<>>
    /\ version = 0
    /\ pc = "down"
    /\ op = Nothing
    /\ job = Idle

\* Faulty: the version is not read back from the metadata.
OpenForgetsVersion(fresh) ==
    /\ pc = "down"
    /\ Meta!MetaOpen(fresh)
    /\ Log!LogOpen
    /\ version' = 0
    /\ mem' = Log!Replay(log)
    /\ main' = Meta!Get'.tables
    /\ pc' = "idle"
    /\ UNCHANGED <<files, op, job>>

\* Open: read the metadata, replay the log, open the levels.  It changes no
\* file, so that a crash inside it is a crash before it.  fresh: a new KV
\* object, otherwise one that was closed before.
Open(fresh) ==
    /\ pc = "down"
    /\ Meta!MetaOpen(fresh)
    /\ Log!LogOpen
    /\ \A i \in DOMAIN Meta!Get'.tables : files[Meta!Get'.tables[i]] # Missing
    /\ version' = Meta!Get'.version
    /\ mem' = Log!Replay(log)
    /\ main' = Meta!Get'.tables
    /\ pc' = "idle"
    /\ UNCHANGED <<files, op, job>>

\* Close: the handles go; the object keeps its fields.
Close ==
    /\ pc = "idle"
    /\ Meta!MetaClose
    /\ Log!LogClose
    /\ pc' = "down"
    /\ UNCHANGED <<files, memVars, op, job>>
-----------------------------------------------------------------------------
(* SetEx and Del: a record in the log, an fsync, then the MemTable.        *)

StartWrite(r) ==
    /\ pc = "idle"
    /\ Log!LogWrite(r)
    /\ op' = r
    /\ pc' = "write"
    /\ UNCHANGED <<metaVars, files, memVars, job>>

\* A call that finds its precondition false returns without a write.
SetEx(k, v, mode) ==
    /\ mode = "insert" => Get(k) = Absent
    /\ mode = "update" => Get(k) # Absent
    /\ StartWrite([key |-> k, val |-> v])

Del(k) ==
    /\ Get(k) # Absent
    /\ StartWrite([key |-> k, val |-> Tombstone])

WriteDone ==
    /\ pc = "write"
    /\ Log!LogSync
    /\ mem' = [mem EXCEPT ![op.key] = op.val]
    /\ op' = Nothing
    /\ pc' = "idle"
    /\ UNCHANGED <<metaVars, files, main, version, job>>

\* fp.Write or Sync fails: the call returns the error, the MemTable stays, and
\* what reached the file stays there.
WriteShort ==
    /\ pc = "idle"
    /\ Log!LogWriteShort
    /\ UNCHANGED <<metaVars, files, memVars, pc, op, job>>

WriteFails ==
    /\ pc = "write"
    /\ Log!LogSyncFails
    /\ op' = Nothing
    /\ pc' = "idle"
    /\ UNCHANGED <<metaVars, files, memVars, job>>
-----------------------------------------------------------------------------
(* Compact.                                                                *)

\* Bound: a Compact is started only if the version numbers suffice for the
\* flush and for every merge that can follow it.
EnoughVersions == version + Len(Meta!Get.tables) + 1 <= MaxVersion

\* Faulty: the version is counted up twice.
StartBuildTwice(j) ==
    /\ version' = version + 2
    /\ files' = [t \in Names |-> IF t = version + 2 THEN Partial ELSE files[t]]
    /\ job' = j
    /\ pc' = "build"
    /\ UNCHANGED <<metaVars, logVars, mem, main, op>>

\* createFileSync: the file exists, also after a power loss.  What an earlier
\* attempt left under that name is written over, not truncated.
Created(name) == [files EXCEPT ![name] = Partial]

\* The beginning of compactLog and compactSSTable: the next version names a
\* new file.
StartBuild(j) ==
    /\ version' = version + 1
    /\ files' = Created(version + 1)
    /\ job' = j
    /\ pc' = "build"
    /\ UNCHANGED <<metaVars, logVars, mem, main, op>>

Flushable == Size(mem) > 0 /\ Size(mem) >= LogThreshold

CompactFlush ==
    /\ pc = "idle" /\ EnoughVersions
    /\ Flushable
    /\ StartBuild([kind |-> "flush", at |-> 0, left |-> <<>>])

\* Nothing to flush: Compact goes on with the levels.
CompactScan ==
    /\ pc = "idle" /\ EnoughVersions
    /\ ~Flushable
    /\ pc' = "scan" /\ job' = Scan(1)
    /\ UNCHANGED <<metaVars, logVars, files, memVars, op>>

\* The loop: the first position from job.at on that should be merged is.
ScanMerge ==
    /\ pc = "scan"
    /\ \E i \in Due(job.at) :
           /\ \A j \in Due(job.at) : i <= j
           /\ StartBuild([kind |-> "merge", at |-> i, left |-> <<>>])

ScanDone ==
    /\ pc = "scan"
    /\ Due(job.at) = {}
    /\ pc' = "idle" /\ job' = Idle
    /\ UNCHANGED <<metaVars, logVars, files, memVars, op>>

\* An error anywhere in Compact is returned at once.
ReturnError ==
    /\ pc' = "idle" /\ job' = Idle
    /\ UNCHANGED op

\* Faulty: the metadata is written before the table is on disk.
BuildUnsynced ==
    /\ pc = "build"
    /\ pc' = "meta"
    /\ UNCHANGED <<metaVars, logVars, files, memVars, op, job>>

\* CreateFromSorted ends with its Sync, or fails.
BuildDone ==
    /\ pc = "build"
    /\ files' = [files EXCEPT ![version] = NewTable]
    /\ pc' = "meta"
    /\ UNCHANGED <<metaVars, logVars, memVars, op, job>>

BuildFails ==
    /\ pc = "build"
    /\ "ioerr" \in faults
    /\ ReturnError
    /\ UNCHANGED <<metaVars, logVars, files, memVars>>

\* meta.Set, in the steps of MetaStore.
MetaSet ==
    /\ pc = "meta"
    /\ Meta!SetTruncate([version |-> version, tables |-> NewTables])
    /\ job' = IF job.kind = "merge"
              THEN [job EXCEPT !.left = SubSeq(Meta!Get.tables, job.at, job.at + 1)]
              ELSE job
    /\ UNCHANGED <<logVars, files, memVars, pc, op>>

MetaWrite ==
    /\ pc = "meta"
    /\ Meta!SetWrite
    /\ UNCHANGED <<logVars, files, memVars, pc, op, job>>

MetaDone ==
    /\ pc = "meta"
    /\ Meta!SetSync
    /\ pc' = "levels"
    /\ UNCHANGED <<logVars, files, memVars, op, job>>

\* Faulty: the new table is removed after an error, although the slot may
\* already name it.
MetaFailsCleansUp ==
    /\ pc = "meta"
    /\ Meta!SetFails
    /\ ReturnError
    /\ files' = [files EXCEPT ![version] = Missing]
    /\ UNCHANGED <<logVars, memVars>>

\* Faulty: the version is counted down again after an error.
MetaFailsRollsBack ==
    /\ pc = "meta"
    /\ Meta!SetFails
    /\ ReturnError
    /\ version' = version - 1
    /\ UNCHANGED <<logVars, files, mem, main>>

MetaFails ==
    /\ pc = "meta"
    /\ Meta!SetFails
    /\ ReturnError
    /\ UNCHANGED <<logVars, files, memVars>>

\* Faulty: after a flush the levels are not opened anew.
OpenLevelsAfterMergeOnly ==
    /\ pc = "levels"
    /\ main' = IF job.kind = "flush" THEN main ELSE Meta!Get.tables
    /\ pc' = IF job.kind = "flush" THEN "clear" ELSE "remove"
    /\ UNCHANGED <<metaVars, logVars, files, mem, version, op, job>>

\* openLevels: the levels are opened one by one; an error leaves kv.main with
\* those opened so far.
OpenLevels ==
    /\ pc = "levels"
    /\ \A i \in DOMAIN Meta!Get.tables : files[Meta!Get.tables[i]] # Missing
    /\ main' = Meta!Get.tables
    /\ pc' = IF job.kind = "flush" THEN "clear" ELSE "remove"
    /\ UNCHANGED <<metaVars, logVars, files, mem, version, op, job>>

OpenLevelsFails ==
    /\ pc = "levels"
    /\ "openerr" \in faults
    /\ \E n \in 0..(Len(Meta!Get.tables) - 1) : main' = SubSeq(Meta!Get.tables, 1, n)
    /\ ReturnError
    /\ UNCHANGED <<metaVars, logVars, files, mem, version>>

\* The end of compactLog: the MemTable is emptied, then the log.
ClearMem ==
    /\ pc = "clear"
    /\ Log!LogTruncate
    /\ mem' = Empty
    /\ pc' = "truncate"
    /\ UNCHANGED <<metaVars, files, main, version, op, job>>

TruncateDone ==
    /\ pc = "truncate"
    /\ Log!LogSync
    /\ pc' = "scan" /\ job' = Scan(1)
    /\ UNCHANGED <<metaVars, files, memVars, op>>

\* The truncation, or its Sync, fails.
ClearFails ==
    /\ pc = "clear"
    /\ "ioerr" \in faults
    /\ mem' = Empty
    /\ ReturnError
    /\ UNCHANGED <<metaVars, logVars, files, main, version>>

TruncateFails ==
    /\ pc = "truncate"
    /\ Log!LogSyncFails
    /\ ReturnError
    /\ UNCHANGED <<metaVars, files, memVars>>

\* Faulty: the loop over the superseded files does not advance.
RemoveOldStuck ==
    /\ pc = "remove"
    /\ files' = [files EXCEPT ![Head(job.left)] = Missing]
    /\ UNCHANGED <<metaVars, logVars, memVars, op, job, pc>>

\* Faulty: the loop of Compact goes on with the next position.
RemoveOldMovesOn ==
    /\ pc = "remove"
    /\ files' = [files EXCEPT ![Head(job.left)] = Missing]
    /\ IF Len(job.left) > 1
       THEN job' = [job EXCEPT !.left = Tail(@)] /\ UNCHANGED pc
       ELSE job' = Scan(job.at + 1) /\ pc' = "scan"
    /\ UNCHANGED <<metaVars, logVars, memVars, op>>

\* The end of compactSSTable: the two superseded files are removed in turn,
\* errors are ignored; then the loop looks at the same position again.
RemoveOld ==
    /\ pc = "remove"
    /\ files' \in {[files EXCEPT ![Head(job.left)] = Missing]}
                  \union (IF "ioerr" \in faults THEN {files} ELSE {})
    /\ IF Len(job.left) > 1
       THEN job' = [job EXCEPT !.left = Tail(@)] /\ UNCHANGED pc
       ELSE job' = Scan(job.at) /\ pc' = "scan"
    /\ UNCHANGED <<metaVars, logVars, memVars, op>>
-----------------------------------------------------------------------------
(* Crashes.  The fields of the KV object are gone.                         *)

Crash ==
    /\ mem' = Empty /\ main' = <<>> /\ version' = 0
    /\ pc' = "down" /\ job' = Idle /\ op' = Nothing
    /\ UNCHANGED files

Kill == Meta!MetaKill /\ Log!LogKill /\ Crash

\* An SSTable is complete on disk before its name is written anywhere; the
\* removal of a file may be undone, which nobody notices.
PowerLoss == Meta!MetaPowerLoss /\ Log!LogPowerLoss /\ Crash
-----------------------------------------------------------------------------
Write ==
    \/ \E k \in Keys, v \in Vals, mode \in {"upsert", "insert", "update"} : SetEx(k, v, mode)
    \/ \E k \in Keys : Del(k)

\* What a running call does next when nothing fails.
Progress ==
    \/ WriteDone
    \/ ScanMerge \/ ScanDone
    \/ BuildDone
    \/ MetaSet \/ MetaWrite \/ MetaDone
    \/ OpenLevels
    \/ ClearMem \/ TruncateDone
    \/ RemoveOld

Errors ==
    \/ WriteShort \/ WriteFails
    \/ BuildFails \/ MetaFails \/ OpenLevelsFails
    \/ ClearFails \/ TruncateFails

Next ==
    \/ \E fresh \in BOOLEAN : Open(fresh)
    \/ Close
    \/ Write
    \/ CompactFlush \/ CompactScan
    \/ Progress
    \/ Errors
    \/ Kill \/ PowerLoss

Spec == Init /\ [][Next]_vars

\* A call, once started, goes on: nothing in the engine waits for anybody.
FairSpec == Spec /\ WF_vars(Progress)
-----------------------------------------------------------------------------
(* Properties.                                                             *)

\* What the next Open would read from log contents l and slot files a and b.
Recovered(l, a, b) ==
    [k \in Keys |-> GetIn(Log!Replay(l), Meta!LiveOf(a, b).tables, k)]

Outcomes == {Recovered(l, a, b) : l \in logDisk, a \in durable[0], b \in durable[1]}

\* The engine as a map: what Get answers (when it is down: what Get will
\* answer), the write in progress, and the other answers a restart at this moment may bring.
Store ==
    IF pc = "down" THEN Recovered(log, cached[0], cached[1])
    ELSE [k \in Keys |-> Get(k)]
Maybe ==
    IF pc = "down" THEN [k \in Keys |-> {}]
    ELSE LET now == Store
             after == Outcomes
         IN  [k \in Keys |-> {m[k] : m \in after} \ {now[k]}]

Up == pc # "down"
Writing ==
    IF op = Nothing THEN {}
    ELSE {[key |-> op.key, val |-> IF op.val = Tombstone THEN Absent ELSE op.val]}

Map == INSTANCE DurableMap
           WITH up <- Up, store <- Store, writing <- Writing, maybe <- Maybe

\* A record of the log lies behind torn bytes, see DamageConfinedToTail in
\* WALHistory.
Buried == Log!Buried(log)

\* The engine is a durable map: at every step of a write, a flush, a merge or a
\* recovery, Get answers as if there were one map, and a crash at that moment
\* changes nothing but the writes that have not returned (kv.go, whole file).
\* Two things are excepted: steps in which a record is lost behind torn bytes, and
\* environments in which openLevels fails, see DropsOnlyIntoLast.
ImplementsMap ==
    /\ Map!Init
    /\ [][Map!Next \/ Buried \/ Buried' \/ "openerr" \in faults]_<<Up, Store, Writing, Maybe>>

\* Every list of tables the next Open can find consists of complete SSTables
\* (kv.go: the commit point of a compaction is "the metadata now points at the
\* new file"; superseded files are removed only after it).
RecoverableTables ==
    \A a \in durable[0], b \in durable[1] :
        LET tables == Meta!LiveOf(a, b).tables
        IN  \A i \in DOMAIN tables : files[tables[i]] \in Level

\* A compaction writes to no file that a readable metadata slot names, even if
\* that slot is the work of an earlier compaction that failed or was cut off:
\* the names, derived from the version, are not reused too early.
BuildsUnnamedFile ==
    pc = "build" =>
        \A s \in {0, 1} : \A i \in durable[s] :
            i.valid => \A n \in DOMAIN i.data.tables : i.data.tables[n] # version

\* "Compact does all pending compaction work" (kv.go:204): when it returns
\* without an error no two adjacent levels are due for a merge.
CompactLeavesNothingPending ==
    [][pc = "scan" /\ pc' = "idle" => Due(1) = {}]_vars

\* Compact comes to an end, whatever is flushed and merged: every merge that
\* makes the loop look at the same position again has shortened the list.
CompactTerminates == pc \in {"scan", "build"} ~> pc \in {"idle", "down"}

\* "Merging into the final level drops tombstones physically - nothing below
\* is left to shadow" (kv.go:267): a merge that drops tombstones works on the
\* last two of the live tables.
DropsOnlyIntoLast ==
    (pc = "build" /\ job.kind = "merge" /\ IntoLast(job.at)) =>
        job.at + 1 = Len(Meta!Get.tables)
=============================================================================
