# A TLA+ verification of db45

db45 is a small relational database in Go: a SQL engine on a table layer on a
log-structured key/value store. This directory holds TLA+ models of the
storage engine, of the keys and rows on top of it and of the SQL engine, the TLC
configurations that check them, and TLAPS proofs. The models are translated
from the Go code under `src/storage`, `src/table` and `src/sql`; `PROJECT.json`
maps every definition to its lines.

## 1. The system

### Components

| component | file | state | operations |
|---|---|---|---|
| `KVMetaStore` | `meta.go` | two slot files, two items in memory | Open, Get, Set, Close |
| `Log`, `Entry` | `log.go`, `entry.go` | an append-only file | Open, Write, Truncate, Read, Close |
| `SortedArray` (MemTable) | `sortedarray.go` | sorted arrays of keys, values, tombstones | Set, Del, Clear, Get, cursors |
| `SortedFile` (SSTable) | `sstable.go` | an immutable file | CreateFromSorted, Open, search, cursors |
| `MergedSortedKV` | `merge.go` | one cursor per level, frontier, direction | Iter, Seek, Next, Prev |
| `NoDeletedIter`, `RangedKVIter` | `filterdel.go`, `ranged.go` | a wrapped cursor, a bound | Next, Prev, Valid, `KV.Seek`, `KV.Range` |
| `KV` | `kv.go` | all of the above, `main`, `version` | Open, Close, Get, SetEx, Set, Del, Compact |
| `createFileSync` | `fsync.go` | none | create a file and fsync its directory |
| cells, schema, rows | `table/cell.go`, `schema.go` | none | encode and decode keys and values, key prefixes |
| table layer | `table/db.go`, `rowiter.go` | a cursor and the row under it | Select, Insert, Update, Upsert, Delete, Seek, Scan, Range |
| SQL parser | `sql/parser.go`, `parse_stmt.go`, `parse_value.go`, `expr.go` | a position in the text | ParseStmt |
| SQL planner | `sql/planner.go`, `match.go` | none | a WHERE condition to a range of keys |
| SQL evaluation | `sql/eval.go` | none | evalExpr |
| SQL engine | `sql/engine.go` | the catalog in the store, a cache of it | Open, Close, Exec of five statements |

`SetEx` and `Del` append to the log, fsync it and then change the MemTable.
`Compact` writes the MemTable to a new SSTable, names it in the metadata,
reopens the levels, clears the MemTable and truncates the log; then it merges
neighbouring SSTables of similar size, each merge with its own metadata write,
after which the superseded files are removed. `Get` asks the MemTable and then the
SSTables, newest first. A scan merges one cursor per level, drops tombstones
and stops at a bound. `Open` reads the metadata, replays the log and opens the
SSTables the metadata names.

The SQL engine parses a text, finds the schema in its cache or in the catalog
(which is kept in the same store, under keys that begin with `@schema_`),
turns the condition into a range of byte keys, reads the rows in the range and, for
UPDATE and DELETE, writes them back one by one afterwards. It never filters: a
condition that is not a range or a key is refused, so that the range must be
exactly what the condition says. There are no transactions; a statement
that fails half-way leaves what it has done.

### What is hard

The program has no goroutines and no locks. What is hard is

- **crashes**: the death of the process (the page cache survives) and the loss
  of power (what was not fsynced may be lost, kept or torn), between any two
  steps of a write, a flush or a merge;
- **partial failure**: a write, an fsync, a truncation, a removal or the opening of
  a file fails in the middle of a compaction and the caller goes on using the
  store;
- **stale state**: `kv.main` against the metadata, the items of a reopened
  metadata store against their files, the version against the names in use;
- **cursors that change direction**, with levels that have run off either end,
  shadowed copies and runs of tombstones;
- **the loop of `Compact`**, which steps back after each merge;
- **ranges over encoded keys**: the order of bytes stands for the order of
  columns, with signs, escapes, prefixes of keys and several tables in one key
  space;
- **dropped errors** in the SQL engine: `CREATE TABLE` and the loops over rows ignore
  the error of a read, `UPDATE` and `DELETE` stop in the middle;
- **the cached catalog** against the stored one, when writes fail.

The list with line numbers is under `hazards` in `PROJECT.json`.

### What makes each component correct

- metadata: after any crash, `Get` returns the last acknowledged `Set` or one
  that was in progress;
- log: replay returns every acknowledged record, in order, and nothing else;
- engine: it behaves as one durable map, whatever is flushed and merged;
  every table a restart can need is complete; `Compact` ends;
- merged cursor: it is a cursor over the union of its levels, newest entry first;
- scan: it starts at the right key, moves to the neighbouring live key, and
  every call returns;
- keys: they compare as bytes the way their cells compare as values, and a row that
  was stored is read back;
- parser: a text that denotes a statement is parsed to that statement, and
  nothing in an accepted text is ignored;
- planner and SELECT: the rows returned are those for which the condition
  holds, in key order;
- writing statements: they change the rows selected, in key order, up to where
  they got, and nothing else; the cached schemas are the stored ones.

## 2. The modules

| module | models | role |
|---|---|---|
| `MetaRegister` | - | abstract: a crash-safe register |
| `MetaStore` | `meta.go` | double buffering, one action per disk step |
| `MetaStoreProofs` | - | proofs about `MetaStore` |
| `WAL` | `log.go`, `entry.go` | the log as a component |
| `WALHistory` | - | the log with a history of what it was given |
| `DurableMap` | - | abstract: a map that crashes do not change |
| `KVStore` | `kv.go`, `fsync.go`, parts of `sortedarray.go`, `sstable.go` | composes `MetaStore` and `WAL` |
| `KVStoreProofs` | - | proofs about `KVStore`: types, which levels a merge works on |
| `KVTablesProofs` | - | proofs about `KVStore`: its tables and their sizes |
| `KVMapProofs` | - | the proof that `KVStore` refines `DurableMap` |
| `MapCursor` | - | abstract: a cursor over one sorted map |
| `MergedCursor` | `merge.go` and the cursors of the levels | the merge |
| `RangeScan` | `filterdel.go`, `ranged.go` | extends `MergedCursor` |
| `WALProofs`, `CursorProofs` | - | proofs about the log, about the merged cursor and the scan over it |
| `KeyCodec` | `cell.go`, `schema.go` | cells, rows and their bytes |
| `KeyCodecProofs` | - | proofs about cells, keys, their order, and rows read back |
| `EngineProofs` | - | proofs about `Engine` |
| `Expr` | `expr.go` (the nodes), `eval.go` | trees and their values |
| `Planner` | `planner.go`, `match.go` | a condition to a range of keys |
| `Parser` | `parser.go`, `parse_stmt.go`, `parse_value.go`, `expr.go` | a text to a statement |
| `Writing` | - | reference: how a statement is written |
| `Engine` | `engine.go`, `db.go`, `rowiter.go` | statements as calls of the store |
| `SQL` | - | composes the five; what statements mean |
| `MCMetaStore`, `MCWAL`, `MCKVStore`, `MCSQL` | - | sets of faults, symmetries, tables and statements for TLC |

Definitions whose comment begins with "Faulty" are not part of any
specification: each is a plausible mistake in the definition that follows it, and
replacing the definition by it makes TLC report the property listed in
`PROJECT.json`.

### Disks

A file has a content the running system reads (`cached`, `log`) and a set of
contents the next `Open` may find (`durable`, `logDisk`). A write adds to the
set, an fsync reduces it to one element, a power loss picks an element. The
variable `faults`, which no step changes, says what the environment may do in a
behaviour: `kill` (the process dies), `power`, `torn` (a power loss may cut the
last log record), `ioerr` (writes, fsyncs, truncations and removals may fail),
`openerr` (an SSTable may fail to open). It is chosen from the constant
`Environments`, so that one run covers several combinations. With a power loss the
set of contents includes older ones; without, only the current one.

### Abstract specifications

`MetaRegister` and `DurableMap` show the call in progress (`writing`) and whether
the store is open (`up`) next to what it holds. So a step of the implementation
is a start, the beginning, the success or the failure of one particular write, or
a stop, and nothing else may change an answer: a compaction that resurrected an
old value could not pass for a write. `unsure` and `maybe` collect what a write
without success may still bring at the next restart, and only there.
`MapCursor` gives the effect of each call; `ImplementsCursor` compares call by
call, since any jump could otherwise be explained as a `Seek`.

### MetaStore

A slot is what `KVMetaItem.open` makes of the file: valid with some data, or
not valid. `Set` is `SetTruncate`, `SetWrite`, `SetSync`; `SetFails` is the
error return of either of the last two. `MetaOpen(fresh)` distinguishes a new object from one
that was closed: `open` never clears `valid`.

### WAL

The file is a sequence of records and `Torn`, bytes that do not decode.
`Readable` are the positions in front of the first torn one, `Replay` what
`KV.Open` makes of them. `Write` and `Truncate` are two steps each, the second being
the Sync. A Seek that fails inside `Truncate` is left out.

### KVStore

A level is a function from keys to values, `Tombstone` or `Absent`; the
order of the keys is the business of the cursor modules. The SSTable created by
version v is called v, as in `sstable_<v>`. `pc` and `job` say how far the running
call has come; the actions follow the code from one disk step to the next:

    idle -SetEx/Del-> write -> idle
    idle -Compact-> build -> meta (three steps of MetaStore) -> levels
         flush:  -> clear -> truncate -> scan
         merge:  -> remove (one step per file) -> scan
    scan -> build (the next due merge) or idle

`Open` is one step since it changes nothing on disk. An error returns to
`idle` from where it happens, with everything done so far left as it is.

### MergedCursor and RangeScan

A level cursor is the key it stands on, or `Low`/`High` for the positions
-1 and n. `Step(d)` is `step(desc)`; `Reorient`, `Extreme` and `CaptureFrontier` have
the code's names. Key 0 is the empty byte string, whose copy is nil; it is there when
`MinKey = 0`. In `RangeScan` each iteration of a loop over tombstones is a step of
its own, so that termination is a property and not an assumption.

### KeyCodec, Expr, Planner, Parser

These are pure functions of the code, translated byte by byte (`KeyCodec`), node
by node (`Expr`, `Planner`) and token by token (`Parser`). A byte has `ByteMax + 1`
values and an int64 has `IntBytes` of them; overflow wraps around as in Go. The
parser works on units: a word, a number, a quoted string or one punctuation
character, so that `<` can still be mistaken for the beginning of `<=`. The
recursive functions of the code are RECURSIVE operators or functions over
positions.

### Engine and SQL

`Engine` runs one statement at a time, in the order of the code:

    idle -Exec-> create -> done
                 schema -> insert -> done
                        -> plan -> scan (one step per row) -> done
                                        -> write (one step per row) -> done

The store under it is what `DurableMap` promises, in one step per call: a
write succeeds or fails, and a write that failed (`maybe`) may be there after
the next restart. That `KVStore` keeps this promise is the property
`ImplementsMap` there, with its exceptions. A read may fail (`readerr`). Most
failed reads are reported; those that the code drops are steps of their own
(`CreateTable` takes the key for absent, `ScanRow` keeps the row and may or may
not move) and set `swallowed`. A crash may come between any two steps.

`before` is what the store held when the statement began. The parser, the planner
and the evaluation are parameters of `Engine`, so that it does not depend on
their recursive definitions; `SQL` brings all of them together, and the
configurations substitute the real ones.

`SQL` says what statements mean without keys, ranges or bytes: `Holds` is the
condition as a predicate on a row, `Effects` the changes of a statement on the
rows for which it holds, and `Text` (in `Writing`) the text of a statement, with
parentheses only where the precedence needs them. The properties except:

- what happens after an error was dropped (`swallowed`): the code promises
  nothing there, which the hazards list at the lines in question;
- conditions that compare a column with a constant of another type (`WellTyped`):
  the planner gives the constant the type of the column;
- two bounds on one side of a column (`OneBoundPerSide`): the finding of `plan_bounds`.

## 3. The runs

| run | result | what it shows |
|---|---|---|
| `meta` | pass | a power loss anywhere in `Set`, or process deaths, failed Syncs and reopened objects, leave the live data or the new one; the refinement of the register |
| `meta_lose_both` | violation | death of the process, then a power loss: both slots gone |
| `wal` | pass | acknowledged records are replayed, in order, and nothing else, with torn records, short writes and failed Syncs |
| `wal_tail` | violation | records are written behind torn bytes |
| `kv_power` | pass | the engine refines `DurableMap` through power losses at every step; tables are recoverable; no live file is overwritten |
| `kv_errors` | pass | the same with I/O errors and process deaths; files stay consistent when levels fail to open |
| `kv_calm` | pass | without faults `Compact` ends, leaves no merge due and drops tombstones only into the last level |
| `kv_drop` | violation | after a failed `openLevels` a merge drops tombstones that are needed |
| `scan` | pass | start of a range, neighbours, termination; under it the merge refines `MapCursor`, shows newest entries and keeps its levels in step |
| `query` | pass | texts parse to what they denote; SELECT returns the rows its condition holds for, in key order; keys order as cells |
| `engine` | pass | statements on two tables through failing reads and writes, crashes and restarts: effects, cached catalog, readable rows |
| `plan_bounds` | violation | `a > 1 AND a > 0` returns a row with a = 1 |

Each violation contradicts a sentence in the code's comments, which
`findings` quotes.

`ImplementsMap` excepts two things. Steps in whose states a record lies behind
torn bytes are allowed: that case is the finding of `wal_tail`, and the property
says that it is the only way a crash or an error can lose an acknowledged write.
Environments with `openerr` are left out: there `Get` reads only the levels
that were opened, which is the cause of `kv_drop`; `RecoverableTables` and
`BuildsUnnamedFile` are still checked in them. Neither exception touches a
behaviour in which no record is torn and every SSTable opens.
`RangeStartsRight` likewise leaves out one case: a descending `Range` whose start is
above every key comes out empty (`ranged.go:61`), because the cursor has run off the
end and cannot turn round. `CompactLeavesNothingPending` is checked without
crashes: a restart between a flush and the merges that follow it leaves a merge
due, and the next `Compact` (`kv.go:220`) may go past it.

### Bounds

- `MaxVersion` (3 to 9) bounds the versions, so the number of flushes and
  merges. 5 (`kv_power`) allows two flushes and their merge, and then another
  flush, in every interleaving with crashes; 4 (`kv_errors`) one less, since
  failed attempts multiply the states; 7 (`kv_calm`) a cascade over three
  levels; 9 is what the shortest counterexample of `kv_drop` needs. `Compact` is
  started only if the versions suffice for all it may do, so that no call gets
  stuck on the bound.
- `MaxLog` (2, 3 or 4) bounds the records in the log: one to be overwritten or
  torn, one behind it, and more for what follows.
- Two keys with one value (`kv_power`) or one key with two (`kv_errors`): a merge
  needs a key in both levels and a key in one; the tombstone is a further
  cell. Three keys give levels of sizes 1, 2 and 3 for the merge policy.
- Two levels of any content, with any tombstones, over three keys for the
  scan and the cursor under it.

- Bytes have six values: the terminator, the two escapes, one that begins the
  catalog's keys, one for names and strings, and `0xff`. An int64 has two bytes in
  the queries (36 values, so that both bytes decide) and one where rows are
  written.
- `query`: any subset of four rows under a key of a number (negative, zero or
  positive) and a string; 45 conditions with every comparison, over a column, over both as a tuple, as a
  point and as two-sided ranges, and conditions that must be refused; all
  trees of two operators out of eight and two prefix operators; five statements with
  each single unit left out or one added. `KeyOrder` compares each inserted key
  with 9 numbers and all strings of up to two bytes.
- `engine`: 15 statements on two tables, the name of one of which begins the
  other, in any sequence, with all faults at every step; two rows in `t`, so
  that a statement can stop between them, and one in `tt`; one failed write at a
  time may come back (`MaxMaybe`).

The proofs below remove these bounds for the metadata store, the log, the storage engine, the
cursor and the scan, and, in the SQL engine, for the types, the cache, the order of keys and the
rows that can be read.

Keys (or values) are permuted symmetrically in the `kv` runs that check
safety only, refinement included; nothing in `KVStore` orders them.

### Fairness

`KVStore` has weak fairness of `Progress`, the steps a running call takes when
nothing fails: the code is sequential and waits for nobody. Starting a call,
faults and errors are not fair. `RangeScan` has weak fairness of the steps inside
a call. The runs of the SQL layer check safety only and assume no fairness.

## 4. The proofs

`MetaStoreProofs`, for every set of table lists and every bound on versions:

- `MetaTypeCorrect`: type correctness, for all faults.
- `LiveSurvives`: `[]LiveSurvivesPowerLoss`.
- `StoreImplementsRegister`: the refinement of `MetaRegister`.

They rest on `MetaConstants`, the types of the constants. The last two assume
`SafeFaults`: no environment has power losses together with
process deaths or failed Syncs. The run `meta_lose_both` shows that they are
false without it. The argument is the invariant `MetaInv`: the slot that is not
the target of the next write is on disk exactly as in memory (`Kept`), the
target holds the same, nothing, or newer data; outside `Set` nothing is
unsynced (`Synced`). It has to speak about a closed store too (`Reopened`: what a
new `Open` would make of the files), since `LiveSurvivesPowerLoss` alone does not say
why `Open` finds what was live before.

`CursorProofs`, for every number of keys and levels and every content:

- `CursorAroundFrontier`: `[]LevelsAroundFrontier`;
- `CursorShowsNewest`: `[]ShowsNewest`;
- `CursorImplements`: the refinement of `MapCursor`.

They assume `NonEmptyKeys`: `captureFrontier` copies a key by appending it to
nil, which makes nil of the empty key, and a cursor on it cannot turn round. The
table layer prefixes every key with a table name. The invariant `CursorInv`
says that every level stands at its first key from the frontier on, in the
current direction, and that a cursor that has run off has no frontier. All moves
are reduced to one case: `Seek`, a step on and a turn each put every level at its
first key from some bound b on (`SeekInv`, `AdvanceUp`/`Down`,
`ReorientUp`/`Down`), and settling from there re-establishes the invariant and
shows the extreme of the union (`SettleUp`/`Down`). Least and greatest elements
exist by the well-foundedness of the natural numbers.

In the same module, for every set of tombstones too and again assuming `NonEmptyKeys`:

- `ScanTypeCorrect`: type correctness;
- `ScanMovesToNeighbour`: `[]MovesToNeighbour`;
- `ScanStartsRight`: `[]RangeStartsRight`.

Both properties speak of the moment when a call returns; the loops over
tombstones need an invariant in between. `LoopInv` says that the live keys still
ahead of the cursor (`Remaining`) are those ahead of the place where the call
began (`Onward`): a step over a tombstone removes none of them, because the merged
cursor moves to its next key (from `CursorInv`) and a key shown as a tombstone is not
live (the newest entry decides, lemma `NewestShown`). When the loop ends, the
cursor stands on the first of them.

`WALProofs`, for every set of keys and values and every length of the log:

- `LogTypeCorrect`: type correctness, for all faults;
- `PromisesAreReplayed`: `[]PromisesReplayed`.

The second assumes `LogFaults`: no environment has power losses together with
process deaths or I/O errors, since after a process death `Open` shows records
that no fsync has followed. The invariant `LogInv` states the promise for
every content the next `Open` may find, not only for the one the system sees:
each begins with what was acknowledged (`Held`) and shows nothing that was not
written (`Shown`); outside a call there is one content only (`LogSynced`), and inside
a call the history is one record ahead (`Waiting`). The lemmas about
`Readable` say that what replay reaches is a prefix, and what appending does to it.

Three modules prove about the engine `KVStore`, for every set of keys and values,
every threshold and growth factor and every bound; each invariant was
checked by TLC on the instances of the runs before it was proved.

`KVStoreProofs`, from `KVAssumption` alone unless said otherwise:

- `EngineTypeCorrect`: type correctness, for all faults. The types are not inductive by
  themselves: a merge takes two tables out of the list at the position it has noted, so
  that the position has to fit a list that two other components keep. `EngineInv`
  adds that the job fits the step (`JobFits`), that the metadata store and the log are in
  the state the step expects (`Phases`), and that the levels in memory are no more than those in
  the metadata (`LevelsFit`).
- `DropsIntoLast`: `[]DropsOnlyIntoLast`, if opening a level never fails: then
  the levels in memory are those in the metadata (`MainIsLive`). The run
  `kv_drop` shows that the proviso is needed.

`KVTablesProofs`, under `SafeFaults` (power losses do not come together with process
deaths or I/O errors). It uses the invariant `MetaInv` of `MetaStoreProofs`
for the metadata store inside the engine:

- `BuildsUnnamed`: `[]BuildsUnnamedFile`. `NamesInv`: every metadata that can be read, now or after a
  power loss, names tables of its own or of earlier versions; the engine has counted up to each
  of these versions, and past it while it builds a file.
- `TablesRecoverable`: `[]RecoverableTables`. `SoundInv`: the metadata that is stored and the one
  that is unsure, as the register has them, name complete tables, none of them twice; the new
  table is complete before `meta.Set` begins; the superseded files are in none
  of the lists by the time they are removed. `StoreImplementsRegister` is what bounds
  the lists a restart can find.
- `NothingPending`: `CompactLeavesNothingPending`, if nothing fails and the process only
  stops with `Close` (`NoFailures`). `GrownInv`: all levels behind the position of the
  loop are as the last `Compact` left them, none due. Hence merges happen at
  the first position only, and a cascade leaves nothing behind it. A restart between a flush and
  its merges breaks this, which is why the theorem excludes it.

`KVMapProofs`, under `SafeFaults`:

- `EngineImplementsMap`: the refinement of `DurableMap`, with the exceptions of
  `ImplementsMap`. `Open` is a start, `Close`, `Kill` and `PowerLoss` are stops, `StartWrite` begins
  a write, `WriteDone` commits it, `WriteFails` gives it up; every other
  step changes no answer and can only make the store forget writes without success.

The invariant `MapInv` is what makes the last sentence true in the middle of a compaction:
the table just built holds what it should (`TableBuilt`), so that the list `meta.Set` writes
answers like the live one (`SetKeepsMap`), the list that is opened like the
open one (`LevelsKeepMap`), and the MemTable can be cleared because the tables hold it
(`ClearKeepsMap`). `LogKeepsMap` is about restarts: whatever list they find answers
alike under the MemTable they replay. After a flush both the log and the
first table hold the same entries, and neither hides the other. The
lemmas it rests on say what a lookup finds when a table is put in front
(`FoundPrepended`) or takes the place of two (`FoundSpliced`), and what one more record does to
the replay of a log (`ReplayRecord`, `ReplayTorn`).

`EngineProofs`, for every set of tables and columns, every width of an int64, every parser,
planner and evaluation of expressions (they are parameters of `Engine`) and all faults:

- `SQLEngineTypeCorrect`: type correctness.
- `InsertedKeyOrder`: `[]KeyOrder`, from `TupleOrder` below.
- `StoredRowsReadable`: `[]RowsReadable`, from `RowRoundTrip` below and the assumption `EvaluationTypes`.
- `CacheIsCatalog`: `[]CacheMatchesCatalog`. The cache is right because nothing but a
  CREATE TABLE of that table ever writes the key of its catalog entry. One that succeeds
  changes the cache too; one that fails can show only after a restart, when the
  cache is empty.

`SQLInv` is inductive. Under the key of a catalog entry there is
only a schema of the table of that name, in the store and among the failed writes a
restart may bring back (`StoreFits`); otherwise a restart could put a row
where `GetSchema` expects JSON. The rows a statement has read, and the one it
stands on, have as many cells as the table has columns, with a string of bytes in each
column of the key (`RowFits` in `Stage`), which is what the key of the next write is computed from. Four facts
about bytes carry it:

- `KeysApart`: the key of a row is never a catalog key, whatever its cells are:
  it begins with the name of a table, and no name begins like `@schema_`.
- `InsertedKey`, `DecodeFits`: keys consist of bytes, and a row that decodes fits
  its schema again. They need what the loops over columns and characters return, by
  induction (`UpTo`) over the number of rounds (`FillRounds`, `DecodeStrType`).
- `LeastIn`: the store's cursor stands on a key it has. A finite set of keys has a least
  one as `BytesLess` is transitive and irreflexive (`LessTransitive`, `LessIrreflexive`).
- `WithValuesFits`: an UPDATE that passed its checks leaves the key of a row alone.

`RowsReadable` is about the store alone, but what the store holds next is in memory. `RowsInv`,
inductive together with `SQLInv` as long as no error was dropped, adds three things.
Everything in the store is a schema, or what INSERT stores for a row of the column types of a table in the
catalog (`KeptRows`). So is what failed writes may bring back after a restart, except that a
deletion is harmless and a schema is one of a table that is not there yet: a CREATE TABLE that
failed cannot come back over another schema of the same name, under which rows have been
written since. The rows a statement has collected have their column types, and the schema it uses is
the one in the catalog (`JobReads`). Schemas are only ever added (`CatalogKept`), so that a row that could be read
stays readable (`StoredKept`). That a key belongs to one table only (`OneTable`) is the
terminator's doing: a name can begin another one.

`EvaluationTypes` says that the assignments of an UPDATE, evaluated on a row of the
column types, give a cell or an error. It is a hypothesis because the evaluation is a parameter
of `Engine`, and the one the runs give it recurses over trees; what it returns is a wrapped
number, a truth value, a constant of the parser or a cell of the row. `MCSQL` has TLC evaluate the
hypothesis for that evaluation on sample rows (`EvaluationSample`).

The first three facts about bytes are in `KeyCodecProofs`, whose main results are

- `TupleOrder`: tuples of cells with the same types are ordered as the bytes of their keys
  are, for every number of bytes in an int64, every number of values of a byte and strings of any length;
- `RowRoundTrip`: the key and the value stored for a row decode, without error, to the row.

Two keys compare as what stands at the first place where they differ (`Splits`): neither
ends there, and the bytes there are in the order the cells are in. A place of that kind is found in each
piece and carried through what is put in front of it and behind it (`SplitsAhead`,
`SplitsBehind`, `FlattenSplits`). For a number it is the first digit that differs: the
digits up to a place are the number divided by a power of the base (`LeadingDigits`), and division does
not change the order (`DigitsSplit`); adding half of the range is what makes the
sign come out right. For a string it is the first character that differs, or
the terminator when one string begins the other: what the escapes make of two characters
is in their order and above the terminator (`EscapedSplit`, `StrSplit`). For a tuple it lies in the
first cell that differs (`TupleSplit`). Since the order of cells and that of bytes are both total
(`LessTotal`, `CellTotal`), one direction gives the other.

For the round trip, each piece is read back and what follows it is left (`DecodeKeyBack`,
`DecodeValBack`): the digits of a number add up to it (`NumberOfDigits`); the characters of a string
in a key are freed of their escapes one by one until the terminator, which no escaped character can be
taken for (`DecodeStrBack`). The columns follow by induction on the rounds of the two loops, the key's
and the value's, which together fill every column once (`KeyBack`, `ValueBack`). A cell has a field
for each type and only one of them is stored; the other comes back empty (`PlainRow`).

The assumptions are `CodecAssumption` (bytes and widths, names made of bytes that are no escapes;
what a power is, `Base ^ 0 = 1` and `Base ^ n = Base * Base ^ (n - 1)`, is stated because the
provers do not know it) and
`CatalogAssumption`: different tables have different names, none begins like a catalog key,
and the parser returns a `Statement`, whose columns and cells have their Go types and whose assignments are a list. TLC evaluates
both, with the real parser, in the runs of the SQL layer.

Only model-checked: what a statement does as a whole (`StatementEffect`, `AnswersMatch`), the parser (`ParsesBack`), and
everything about liveness (TLAPS does not prove liveness under fairness): `CompactTerminates`
and the termination of a scan. `SQL` and the modules it composes use `RECURSIVE` operators,
which cannot be in a module with proofs; the parser and the evaluation are defined by
recursion over trees.

## 5. Not modelled, and the plan

- `DB.Select`, `Upsert`, `Seek`, `Scan` and `RowIterator.Prev`: public, but not called by the
  SQL engine.
- The layout of an SSTable and its binary search; `SortedArray.Push` and `Pop`;
  read errors of a level cursor inside a move; cursors over a MemTable that
  changes under them (the SQL engine collects its rows before it writes).
- The characters inside a unit of a text: digits, quotes and escapes, upper and
  lower case, spaces. The header line of a result. The JSON of a schema.
- The 4-byte length of a stored string is one byte.
- `Engine` is not composed with `KVStore` but with what `KVStore` is shown to
  implement: the product is beyond TLC.
- The example program has no state of its own.

What could come next, in this order:

1. `SSTable`: `CreateFromSorted` step by step over the old content of the
   file, `index` and `search` against a reference lookup.
2. The remaining calls of the table layer.
