--------------------------- MODULE KVTablesProofs ---------------------------
(***************************************************************************)
(* Proofs about the SSTable files, for every set of keys and values and    *)
(* every bound: what the metadata can name after a crash is complete on    *)
(* disk, no compaction writes into such a file, and where nothing fails    *)
(* Compact leaves the sizes of the levels as it should.  The metadata      *)
(* store enters through what MetaStoreProofs proves about it.              *)
(***************************************************************************)
EXTENDS KVStoreProofs

\* The metadata store of the engine, with the theorems about it.
MP == INSTANCE MetaStoreProofs WITH Tables <- Seq(Names), NoTables <- <<>>

\* The condition under which the metadata store is a crash-safe register.
SafeFaults == \A f \in Environments : "power" \in f => f \intersect {"kill", "ioerr"} = {}

\* The metadata a restart would find: the live one, and what writes without
\* success may have left.
Stored == Meta!RegLive
Unsure == Meta!RegUnsure
-----------------------------------------------------------------------------
(* The metadata store inside the engine.                                   *)

\* The theorems about the store speak about the store of the engine.
LEMMA SameStore ==
  /\ MP!MetaConstants /\ (SafeFaults => MP!SafeFaults)
  /\ (Meta!MetaTypeOK <=> MP!MetaTypeOK)
  /\ Meta!Get = MP!Get /\ Meta!RegLive = MP!RegLive /\ Meta!RegUnsure = MP!RegUnsure
  /\ \A a, b : Meta!LiveOf(a, b) = MP!LiveOf(a, b)
<1>1. MP!MetaConstants /\ (SafeFaults => MP!SafeFaults)
  BY KVAssumption DEF Meta!MetaConstants, MP!MetaConstants, Meta!FaultKinds, MP!FaultKinds,
                      SafeFaults, MP!SafeFaults
<1>2. Meta!MetaTypeOK <=> MP!MetaTypeOK
  BY DEF Meta!MetaTypeOK, MP!MetaTypeOK, Meta!Slots, MP!Slots, Meta!Item, MP!Item,
         Meta!MetaData, MP!MetaData
<1>3. \A a, b : Meta!LiveOf(a, b) = MP!LiveOf(a, b)
  BY DEF Meta!LiveOf, MP!LiveOf, Meta!CurrentOf, MP!CurrentOf, Meta!Zero, MP!Zero
<1>4. Meta!Get = MP!Get /\ Meta!Target = MP!Target
  BY <1>3 DEF Meta!Get, MP!Get, Meta!Target, MP!Target, Meta!Current, MP!Current,
              Meta!CurrentOf, MP!CurrentOf
<1>5. Meta!RegLive = MP!RegLive
  BY <1>3, <1>4 DEF Meta!RegLive, MP!RegLive
<1>6. Meta!RegUnsure = MP!RegUnsure
  BY <1>4 DEF Meta!RegUnsure, MP!RegUnsure
<1> QED BY <1>1, <1>2, <1>3, <1>4, <1>5, <1>6

\* So do its steps.
LEMMA SameSteps ==
  /\ \A fresh \in BOOLEAN : Meta!MetaOpen(fresh) <=> MP!MetaOpen(fresh)
  /\ \A d : Meta!SetTruncate(d) <=> MP!SetTruncate(d)
  /\ (Meta!SetWrite <=> MP!SetWrite) /\ (Meta!SetSync <=> MP!SetSync)
  /\ (Meta!SetFails <=> MP!SetFails) /\ (Meta!MetaClose <=> MP!MetaClose)
  /\ (Meta!MetaKill <=> MP!MetaKill) /\ (Meta!MetaPowerLoss <=> MP!MetaPowerLoss)
<1>1. Meta!Blank = MP!Blank /\ Meta!Zero = MP!Zero /\ Meta!Slots = MP!Slots
      /\ Meta!Target = MP!Target /\ Meta!Current = MP!Current /\ Meta!Get = MP!Get
  BY SameStore DEF Meta!Blank, MP!Blank, Meta!Zero, MP!Zero, Meta!Slots, MP!Slots, Meta!Target,
         MP!Target, Meta!Current, MP!Current, Meta!CurrentOf, MP!CurrentOf
<1>2. Meta!Whole(pending) = MP!Whole(pending)
  BY DEF Meta!Whole, MP!Whole
<1>3. ASSUME NEW x, NEW y PROVE Meta!Unsynced(x, y) = MP!Unsynced(x, y)
  BY DEF Meta!Unsynced, MP!Unsynced
<1>4. ASSUME NEW fresh \in BOOLEAN PROVE Meta!MetaOpen(fresh) <=> MP!MetaOpen(fresh)
  BY <1>1 DEF Meta!MetaOpen, MP!MetaOpen, Meta!Loaded, MP!Loaded
<1>5. ASSUME NEW d PROVE Meta!SetTruncate(d) <=> MP!SetTruncate(d)
  BY <1>1 DEF Meta!SetTruncate, MP!SetTruncate, Meta!Accepts, MP!Accepts, Meta!Unsynced, MP!Unsynced
<1>6. Meta!SetWrite <=> MP!SetWrite
  BY <1>1, <1>2 DEF Meta!SetWrite, MP!SetWrite, Meta!Unsynced, MP!Unsynced
<1>7. Meta!SetSync <=> MP!SetSync
  BY <1>1, <1>2 DEF Meta!SetSync, MP!SetSync
<1>8. Meta!SetFails <=> MP!SetFails
  BY <1>1 DEF Meta!SetFails, MP!SetFails
<1>9. Meta!MetaClose <=> MP!MetaClose
  BY DEF Meta!MetaClose, MP!MetaClose
<1>10. Meta!MetaKill <=> MP!MetaKill
  BY <1>1 DEF Meta!MetaKill, MP!MetaKill
<1>11. Meta!MetaPowerLoss <=> MP!MetaPowerLoss
  BY <1>1 DEF Meta!MetaPowerLoss, MP!MetaPowerLoss
<1> QED BY <1>4, <1>5, <1>6, <1>7, <1>8, <1>9, <1>10, <1>11

\* The invariant of the metadata store holds inside the engine.
LEMMA StoreNext ==
  ASSUME SafeFaults, EngineInv, MP!MetaInv, [Next]_vars
  PROVE  MP!MetaInv'
<1>1. ASSUME UNCHANGED metaVars PROVE MP!MetaInv'
  <2>1. UNCHANGED MP!metaVars
    BY <1>1 DEF metaVars, MP!metaVars
  <2> QED BY <2>1, SameStore, MP!NextInv
<1>2. ASSUME NEW fresh \in BOOLEAN, Open(fresh) PROVE MP!MetaInv'
  BY <1>2, SameStore, SameSteps, MP!OpenInv DEF Open
<1>3. CASE Close \/ Kill \/ PowerLoss
  BY <1>3, SameStore, SameSteps, MP!CloseInv, MP!KillInv, MP!PowerInv DEF Close, Kill, PowerLoss
<1>4. CASE MetaSet
  <2> DEFINE d == [version |-> version, tables |-> NewTables]
  <2>1. /\ MP!SetTruncate(d) /\ pending' = d
    BY <1>4, SameSteps DEF MetaSet, Meta!SetTruncate
  <2>2. d \in Meta!MetaData /\ d.version > 0
    <3>1. version \in Names /\ EngineInv'
      BY <1>4, SetTypes DEF MetaSet, EngineInv, JobFits
    <3>2. pending' \in Meta!MetaData
      BY <3>1 DEF EngineInv, TypeOK, Meta!MetaTypeOK
    <3> QED BY <2>1, <3>1, <3>2 DEF Names
  <2>3. d \in MP!MetaData
    BY <2>2 DEF MP!MetaData, Meta!MetaData
  <2> HIDE DEF d
  <2> QED BY <2>1, <2>2, <2>3, SameStore, MP!TruncateInv
<1>5. CASE MetaWrite \/ MetaDone \/ MetaFails
  BY <1>5, SameStore, SameSteps, MP!WriteInv, MP!SyncInv, MP!FailsInv DEF MetaWrite, MetaDone, MetaFails
<1>6. CASE \/ (\E r \in Log!Record : StartWrite(r)) \/ WriteDone \/ WriteShort \/ WriteFails
           \/ CompactFlush \/ CompactScan \/ ScanMerge \/ ScanDone \/ BuildDone \/ BuildFails
           \/ OpenLevels \/ OpenLevelsFails
           \/ ClearMem \/ TruncateDone \/ ClearFails \/ TruncateFails \/ RemoveOld
  BY <1>1, <1>6 DEF StartWrite, WriteDone, WriteShort, WriteFails, CompactFlush, CompactScan, ScanMerge,
         ScanDone, BuildDone, BuildFails, StartBuild, OpenLevels, OpenLevelsFails, ClearMem,
         TruncateDone, ClearFails, TruncateFails, RemoveOld
<1>7. CASE UNCHANGED vars
  BY <1>1, <1>7 DEF vars
<1> QED BY Steps, <1>2, <1>3, <1>4, <1>5, <1>6, <1>7
-----------------------------------------------------------------------------
(* The names in the metadata.                                              *)

\* Every item of metadata that memory or the files hold, or a power loss may
\* bring back.
Readable ==
    {i \in durable[0] \union durable[1] \union {slots[0], slots[1], cached[0], cached[1]} : i.valid}

\* A list names tables of its own or of earlier versions.
NamesBelow == \A i \in Readable : \A n \in DOMAIN i.data.tables : i.data.tables[n] <= i.data.version

\* The engine has counted past all versions that can be read; while it builds
\* a table, its own version is in no slot yet.
Ahead ==
    Up => \A i \in Readable :
              /\ i.data.version <= version
              /\ pc = "build" \/ (pc = "meta" /\ ~InSet) => i.data.version < version

PendingBelow == InSet => \A n \in DOMAIN pending.tables : pending.tables[n] <= pending.version

NamesInv == NamesBelow /\ Ahead /\ PendingBelow

\* No step but the WriteAt of meta.Set brings new metadata into the slots.
LEMMA ReadableStep ==
  ASSUME EngineInv, MP!MetaInv,
         \/ \E fresh \in BOOLEAN : Meta!MetaOpen(fresh)
         \/ \E d : Meta!SetTruncate(d)
         \/ Meta!SetWrite \/ Meta!SetSync \/ Meta!SetFails
         \/ Meta!MetaClose \/ Meta!MetaKill \/ Meta!MetaPowerLoss
  PROVE  \A i \in Readable' : i \in Readable \/ (Meta!SetWrite /\ i = Meta!Whole(pending))
<1>1. /\ Meta!MetaTypeOK /\ ~Meta!Blank.valid /\ Meta!Target \in Meta!Slots
      /\ 0 \in Meta!Slots /\ 1 \in Meta!Slots /\ \A s \in Meta!Slots : s = 0 \/ s = 1
  BY Ranges DEF Meta!Blank, Meta!Target, Meta!Slots
<1> USE DEF Meta!MetaTypeOK
<1>2. ASSUME NEW fresh \in BOOLEAN, Meta!MetaOpen(fresh) PROVE \A i \in Readable' : i \in Readable
  BY <1>1, <1>2 DEF Meta!MetaOpen, Meta!Loaded, Readable
<1>3. ASSUME NEW d, Meta!SetTruncate(d) PROVE \A i \in Readable' : i \in Readable
  BY <1>1, <1>3 DEF Meta!SetTruncate, Meta!Unsynced, Readable
<1>4. CASE Meta!SetWrite
  BY <1>1, <1>4 DEF Meta!SetWrite, Meta!Unsynced, Readable
<1>5. CASE Meta!SetSync
  <2>1. cached[Meta!Target] = Meta!Whole(pending)
    BY <1>5, SameStore DEF Meta!SetSync, MP!MetaInv, MP!InProgress, Meta!Target, MP!Target, Meta!Current,
              MP!Current, Meta!CurrentOf, MP!CurrentOf, Meta!Whole, MP!Whole
  <2> QED BY <1>1, <1>5, <2>1 DEF Meta!SetSync, Readable
<1>6. CASE Meta!SetFails \/ Meta!MetaClose
  BY <1>6 DEF Meta!SetFails, Meta!MetaClose, Readable
<1>7. CASE Meta!MetaKill \/ Meta!MetaPowerLoss
  BY <1>1, <1>7 DEF Meta!MetaKill, Meta!MetaPowerLoss, Readable
<1> QED BY <1>2, <1>3, <1>4, <1>5, <1>6, <1>7

\* What the types say of an item.
LEMMA ItemTypes ==
  ASSUME EngineInv, NEW i \in Readable
  PROVE  i.valid /\ i.data.version \in Nat /\ i.data.tables \in Seq(Names)
<1>1. Meta!MetaTypeOK
  BY Ranges
<1>2. i \in Meta!Item
  BY <1>1 DEF Readable, Meta!MetaTypeOK, Meta!Slots
<1> QED BY <1>2 DEF Readable, Meta!Item, Meta!MetaData

\* The tables of the live metadata are older than its version.
LEMMA LiveBelow ==
  ASSUME EngineInv, NamesBelow
  PROVE  /\ \A n \in DOMAIN Live : Live[n] \in Nat /\ Live[n] <= Meta!Get.version
         /\ Up /\ Ahead => Meta!Get.version <= version
         /\ Up /\ Ahead /\ (pc = "build" \/ (pc = "meta" /\ ~InSet)) /\ version > 0 =>
                Meta!Get.version < version
<1>1. CASE Meta!Get = Meta!Zero
  <2>1. Live = <<>> /\ Meta!Get.version = 0
    BY <1>1 DEF Meta!Zero, Live
  <2> QED BY <2>1, Ranges
<1>2. CASE Meta!Get # Meta!Zero
  <2>1. PICK i \in Readable : i.data = Meta!Get
    BY <1>2 DEF Readable, Meta!Get, Meta!LiveOf, Meta!CurrentOf
  <2>2. i.data.tables = Live
    BY <2>1 DEF Live
  <2>3. \A n \in DOMAIN Live : Live[n] \in Nat
    BY Ranges DEF Names
  <2> QED BY <2>1, <2>2, <2>3 DEF NamesBelow, Ahead
<1> QED BY <1>1, <1>2

\* The names a compaction writes: its own, and some that were there.
SourceOf(n) ==
    IF job.kind = "flush" THEN n - 1
    ELSE IF n < job.at THEN n
    ELSE IF n = job.at THEN 0
    ELSE n + 1

LEMMA Sources ==
  ASSUME EngineInv, pc = "meta", ~InSet
  PROVE  /\ NewTables \in Seq(Names)
         /\ \A n \in 1..Len(NewTables) :
                /\ SourceOf(n) = 0 \/ SourceOf(n) \in 1..Len(Live)
                /\ SourceOf(n) = 0 => NewTables[n] = version
                /\ SourceOf(n) # 0 => NewTables[n] = Live[SourceOf(n)]
                /\ job.kind = "merge" => SourceOf(n) \notin {job.at, job.at + 1}
                /\ \A m \in 1..Len(NewTables) : SourceOf(m) = SourceOf(n) => m = n
<1>1. /\ version \in Names /\ Live \in Seq(Names) /\ Len(Live) \in Nat
      /\ job.kind = "flush" \/ (job.kind = "merge" /\ job.at \in 1..(Len(Live) - 1))
  <2>1. /\ version \in Names /\ Len(main) <= Len(Live)
        /\ job.kind = "flush" \/ (job.kind = "merge" /\ job.at \in 1..(Len(main) - 1))
    BY DEF EngineInv, JobFits, LevelsFit
  <2> QED BY <2>1, Ranges
<1>2. CASE job.kind = "flush"
  <2>1. /\ NewTables \in Seq(Names) /\ Len(NewTables) = Len(Live) + 1 /\ NewTables[1] = version
        /\ \A n \in 1..Len(Live) : NewTables[n + 1] = Live[n]
    BY <1>1, <1>2, FlushTables
  <2>2. \A n : SourceOf(n) = n - 1
    BY <1>2 DEF SourceOf
  <2>3. ASSUME NEW n \in 1..Len(NewTables)
        PROVE  /\ SourceOf(n) = 0 \/ SourceOf(n) \in 1..Len(Live)
               /\ SourceOf(n) = 0 => NewTables[n] = version
               /\ SourceOf(n) # 0 => NewTables[n] = Live[SourceOf(n)]
               /\ \A m \in 1..Len(NewTables) : SourceOf(m) = SourceOf(n) => m = n
    <3>1. n \in Nat /\ n >= 1 /\ n <= Len(Live) + 1 /\ SourceOf(n) = n - 1
      BY <1>1, <2>1, <2>2
    <3>2. CASE n = 1
      BY <2>1, <2>2, <3>1, <3>2
    <3>3. CASE n # 1
      <4>1. n - 1 \in 1..Len(Live) /\ n - 1 + 1 = n
        BY <1>1, <3>1, <3>3
      <4>2. NewTables[n] = Live[n - 1]
        BY <2>1, <4>1
      <4> QED BY <2>2, <3>1, <4>1, <4>2
    <3> QED BY <3>2, <3>3
  <2> QED BY <1>2, <2>1, <2>3
<1>3. CASE job.kind = "merge"
  <2> DEFINE a == job.at
  <2>0. a \in 1..(Len(Live) - 1) /\ a \in Nat
    BY <1>1, <1>3
  <2>1. /\ NewTables \in Seq(Names) /\ Len(NewTables) = Len(Live) - 1 /\ NewTables[a] = version
        /\ \A n \in 1..(a - 1) : NewTables[n] = Live[n]
        /\ \A n \in (a + 1)..(Len(Live) - 1) : NewTables[n] = Live[n + 1]
    BY <1>1, <1>3, MergeTables
  <2>2. \A n : SourceOf(n) = IF n < a THEN n ELSE IF n = a THEN 0 ELSE n + 1
    BY <1>3 DEF SourceOf
  <2> HIDE DEF a
  <2>3. ASSUME NEW n \in 1..Len(NewTables)
        PROVE  /\ SourceOf(n) = 0 \/ SourceOf(n) \in 1..Len(Live)
               /\ SourceOf(n) = 0 => NewTables[n] = version
               /\ SourceOf(n) # 0 => NewTables[n] = Live[SourceOf(n)]
               /\ SourceOf(n) \notin {a, a + 1}
               /\ \A m \in 1..Len(NewTables) : SourceOf(m) = SourceOf(n) => m = n
    <3>1. n \in Nat /\ n >= 1 /\ n <= Len(Live) - 1
      BY <1>1, <2>1
    <3>2. \A m \in 1..Len(NewTables) : SourceOf(m) = SourceOf(n) => m = n
      BY <2>0, <2>2, <3>1
    <3>3. CASE n < a
      <4>1. SourceOf(n) = n /\ n \in 1..(a - 1) /\ n \in 1..Len(Live)
        BY <1>1, <2>0, <2>2, <3>1, <3>3
      <4> QED BY <2>0, <2>1, <3>2, <3>3, <4>1
    <3>4. CASE n = a
      <4>1. SourceOf(n) = 0
        BY <2>0, <2>2, <3>4
      <4> QED BY <2>0, <2>1, <3>2, <3>4, <4>1
    <3>5. CASE n > a
      <4>1. SourceOf(n) = n + 1 /\ n \in (a + 1)..(Len(Live) - 1) /\ n + 1 \in 1..Len(Live)
        BY <1>1, <2>0, <2>2, <3>1, <3>5
      <4>2. NewTables[n] = Live[n + 1]
        BY <2>1, <4>1
      <4> QED BY <2>0, <3>1, <3>2, <3>5, <4>1, <4>2
    <3> QED BY <2>0, <3>1, <3>3, <3>4, <3>5
  <2> QED BY <2>1, <2>3 DEF a
<1> QED BY <1>1, <1>2, <1>3

\* In a new directory there is nothing to read.
LEMMA NamesInit == Init => NamesInv
  BY DEF Init, Meta!MetaInit, Meta!Blank, Meta!Slots, Readable, NamesInv, NamesBelow, Ahead,
         PendingBelow, Up, InSet

\* The names stay below the versions.
LEMMA NamesNext ==
  ASSUME EngineInv, EngineInv', MP!MetaInv, NamesInv, [Next]_vars
  PROVE  NamesInv'
<1> USE DEF NamesInv
<1>1. ASSUME UNCHANGED <<metaVars, version>>, pc # "down", pc' \in {"build", "meta"} => pc = "build"
      PROVE  NamesInv'
  <2>1. Readable' = Readable /\ (InSet' <=> InSet) /\ pending' = pending
    BY <1>1, Ranges, MetaQuiet DEF metaVars, Readable
  <2>2. ASSUME NEW i \in Readable
        PROVE  /\ i.data.version <= version
               /\ pc' \in {"build", "meta"} => i.data.version < version
    BY <1>1 DEF Ahead, Up
  <2> QED BY <1>1, <2>1, <2>2 DEF NamesBelow, Ahead, PendingBelow
<1>2. ASSUME NEW j, StartBuild(j), pc \in {"idle", "scan"} PROVE NamesInv'
  <2>1. /\ Readable' = Readable /\ (InSet' <=> InSet) /\ pending' = pending /\ version' = version + 1
        /\ pc # "down"
    BY <1>2, Ranges, MetaQuiet DEF metaVars, StartBuild, Readable
  <2>2. ASSUME NEW i \in Readable PROVE i.data.version < version + 1
    <3>1. i.data.version \in Nat /\ version \in Nat /\ i.data.version <= version
      BY <2>1, ItemTypes, Ranges DEF Ahead, Up
    <3> QED BY <3>1
  <2>3. \A i \in Readable' : i.data.version < version' /\ i.data.version <= version'
    <3>1. ASSUME NEW i \in Readable PROVE i.data.version <= version + 1
      BY <2>2, ItemTypes, Ranges
    <3> QED BY <2>1, <2>2, <3>1
  <2> QED BY <2>1, <2>3 DEF NamesBelow, Ahead, PendingBelow
<1>3. ASSUME NEW fresh \in BOOLEAN, Open(fresh) PROVE NamesInv'
  <2>1. Meta!MetaOpen(fresh) /\ version' = Meta!Get'.version /\ pc' = "idle" /\ ~InSet'
    BY <1>3 DEF Open, Meta!MetaOpen, InSet
  <2>2. \A i \in Readable' : i \in Readable
    <3>1. ~Meta!SetWrite
      BY <2>1 DEF Meta!MetaOpen, Meta!SetWrite
    <3> QED BY <2>1, <3>1, ReadableStep
  <2>3. /\ durable[0] = {cached[0]} /\ durable[1] = {cached[1]}
        /\ cached[0].valid => slots'[0] = cached[0]
        /\ cached[1].valid => slots'[1] = cached[1]
    BY <2>1 DEF Meta!MetaOpen, Meta!Loaded, Meta!Slots, MP!MetaInv, MP!Synced, MP!Slots
  <2>4. \A i \in Readable' : i \in {slots'[0], slots'[1]} /\ i.valid
    BY <2>1, <2>3 DEF Readable, Meta!MetaOpen
  <2>5. slots'[0] \in Meta!Item /\ slots'[1] \in Meta!Item
    BY DEF EngineInv, TypeOK, Meta!MetaTypeOK, Meta!Slots
  <2>6. \A i \in Readable' : i.data.version <= Meta!Get'.version
    BY <2>4, <2>5 DEF Meta!Get, Meta!LiveOf, Meta!CurrentOf, Meta!Item, Meta!MetaData
  <2> QED BY <2>1, <2>2, <2>6 DEF NamesBelow, Ahead, PendingBelow
<1>4. CASE Close \/ Kill \/ PowerLoss
  <2>1. /\ \A i \in Readable' : i \in Readable
        /\ pc' = "down" /\ ~InSet'
    <3>1. Meta!MetaClose \/ Meta!MetaKill \/ Meta!MetaPowerLoss
      BY <1>4 DEF Close, Kill, PowerLoss
    <3>2. ~Meta!SetWrite
      BY <3>1 DEF Meta!MetaClose, Meta!MetaKill, Meta!MetaPowerLoss, Meta!SetWrite
    <3> QED BY <1>4, <3>1, <3>2, ReadableStep
            DEF Close, Kill, PowerLoss, Crash, Meta!MetaClose, Meta!MetaKill, Meta!MetaPowerLoss, InSet
  <2> QED BY <2>1 DEF NamesBelow, Ahead, PendingBelow, Up
<1>5. CASE MetaSet
  <2>1. PICK d : Meta!SetTruncate(d) /\ d = [version |-> version, tables |-> NewTables]
    BY <1>5 DEF MetaSet
  <2>2. /\ \A i \in Readable' : i \in Readable
        /\ version' = version /\ pc = "meta" /\ pc' = "meta" /\ ~InSet /\ InSet' /\ pending' = d
    <3>1. ~Meta!SetWrite
      BY <2>1 DEF Meta!SetTruncate, Meta!SetWrite
    <3> QED BY <1>5, <2>1, <3>1, ReadableStep DEF MetaSet, memVars, Meta!SetTruncate, InSet
  <2>3. \A n \in 1..Len(NewTables) : NewTables[n] <= version
    <3>1. version \in Nat /\ version > 0 /\ Meta!Get.version <= version /\ Meta!Get.version \in Nat
      <4>1. version \in Names
        BY <2>2 DEF EngineInv, JobFits
      <4>2. Meta!Get.version \in Nat
        BY Ranges, GetType
      <4> QED BY <2>2, <4>1, <4>2, LiveBelow DEF Names, Up
    <3>2. ASSUME NEW n \in 1..Len(NewTables) PROVE NewTables[n] <= version
      <4>1. CASE SourceOf(n) = 0
        BY <2>2, <3>1, <4>1, Sources
      <4>2. CASE SourceOf(n) # 0
        <5>1. SourceOf(n) \in DOMAIN Live /\ NewTables[n] = Live[SourceOf(n)]
          BY <2>2, <4>2, Sources, Ranges
        <5> QED BY <3>1, <5>1, LiveBelow
      <4> QED BY <4>1, <4>2
    <3> QED BY <3>2
  <2>4. PendingBelow'
    <3>1. DOMAIN NewTables = 1..Len(NewTables)
      BY <2>2, Sources
    <3> QED BY <2>1, <2>2, <2>3, <3>1 DEF PendingBelow
  <2> QED BY <2>2, <2>4 DEF NamesBelow, Ahead, Up
<1>6. CASE MetaWrite
  <2>1. /\ \A i \in Readable' : i \in Readable \/ i = Meta!Whole(pending)
        /\ version' = version /\ pc = "meta" /\ pc' = "meta" /\ InSet /\ InSet' /\ pending' = pending
    BY <1>6, ReadableStep DEF MetaWrite, memVars, Meta!SetWrite, InSet
  <2>2. /\ Meta!Whole(pending).data = pending /\ pending.version = version
        /\ \A n \in DOMAIN pending.tables : pending.tables[n] <= pending.version
    BY <2>1 DEF Meta!Whole, EngineInv, JobFits, PendingBelow
  <2>3. version <= version
    BY Ranges
  <2>4. ASSUME NEW i \in Readable'
        PROVE  /\ \A n \in DOMAIN i.data.tables : i.data.tables[n] <= i.data.version
               /\ i.data.version <= version
    <3>1. CASE i \in Readable
      BY <2>1, <3>1 DEF NamesBelow, Ahead, Up
    <3>2. CASE i = Meta!Whole(pending)
      BY <2>2, <2>3, <3>2
    <3> QED BY <2>1, <3>1, <3>2
  <2> QED BY <2>1, <2>2, <2>4 DEF NamesBelow, Ahead, PendingBelow, Up
<1>7. CASE MetaDone \/ MetaFails
  <2>1. /\ \A i \in Readable' : i \in Readable
        /\ version' = version /\ pc = "meta" /\ pc' \in {"levels", "idle"} /\ ~InSet'
    <3>1. ~Meta!SetWrite
      BY <1>7 DEF MetaDone, MetaFails, Meta!SetSync, Meta!SetFails, Meta!SetWrite
    <3> QED BY <1>7, <3>1, ReadableStep
            DEF MetaDone, MetaFails, ReturnError, memVars, Meta!SetSync, Meta!SetFails, InSet
  <2> QED BY <2>1 DEF NamesBelow, Ahead, PendingBelow, Up
<1>8. CASE \/ (\E r \in Log!Record : StartWrite(r)) \/ WriteDone \/ WriteShort \/ WriteFails
           \/ CompactScan \/ ScanDone \/ BuildDone \/ BuildFails \/ OpenLevels \/ OpenLevelsFails
           \/ ClearMem \/ TruncateDone \/ ClearFails \/ TruncateFails \/ RemoveOld
  BY <1>1, <1>8 DEF StartWrite, WriteDone, WriteShort, WriteFails, CompactScan, ScanDone,
         BuildDone, BuildFails, OpenLevels, OpenLevelsFails, ClearMem, TruncateDone, ClearFails,
         TruncateFails, RemoveOld, memVars, ReturnError
<1>9. CASE CompactFlush \/ ScanMerge
  BY <1>2, <1>9 DEF CompactFlush, ScanMerge
<1>10. CASE UNCHANGED vars
  <2>1. Readable' = Readable /\ (InSet' <=> InSet) /\ pending' = pending /\ version' = version /\ pc' = pc
    BY <1>10, Ranges, MetaQuiet DEF vars, metaVars, memVars, Readable
  <2> QED BY <2>1 DEF NamesBelow, Ahead, PendingBelow, Up
<1> QED BY Steps, <1>3, <1>4, <1>5, <1>6, <1>7, <1>8, <1>9, <1>10

\* A compaction writes its table into no file that a slot names, whatever an
\* earlier compaction that failed, or was cut off, has left in the slots
\* (kv.go, compactLog and compactSSTable; meta.go, Set).
THEOREM BuildsUnnamed ==
  ASSUME SafeFaults PROVE Spec => []BuildsUnnamedFile
<1> DEFINE Inv == EngineInv /\ MP!MetaInv /\ NamesInv
<1>1. Init => Inv
  <2>1. Init => MP!MetaInit
    BY DEF Init, Meta!MetaInit, MP!MetaInit, Meta!Blank, MP!Blank, Meta!Zero, MP!Zero, Meta!Slots, MP!Slots
  <2> QED BY <2>1, InitTypes, NamesInit, SameStore, MP!InitInv
<1>2. Inv /\ [Next]_vars => Inv'
  BY EngineNext, StoreNext, NamesNext
<1>3. Inv => BuildsUnnamedFile
  <2> SUFFICES ASSUME Inv, pc = "build", NEW s \in {0, 1}, NEW i \in durable[s], i.valid,
                      NEW n \in DOMAIN i.data.tables
               PROVE  i.data.tables[n] # version
    BY DEF BuildsUnnamedFile
  <2>1. i \in Readable
    BY DEF Readable
  <2>2. /\ i.data.tables[n] <= i.data.version /\ i.data.version < version
        /\ i.data.version \in Nat /\ version \in Nat
    BY <2>1, ItemTypes, Ranges DEF NamesInv, NamesBelow, Ahead, Up
  <2> QED BY <2>2
<1> HIDE DEF Inv
<1> QED BY <1>1, <1>2, <1>3, PTL DEF Spec
-----------------------------------------------------------------------------
(* The files behind the names.                                             *)

LEMMA SameRegister == Stored = MP!RegLive /\ Unsure = MP!RegUnsure
  BY SameStore DEF Stored, Unsure

\* What the steps of the metadata store do to what a restart may find.
LEMMA RegisterSteps ==
  ASSUME EngineInv, MP!MetaInv, MP!MetaInv'
  PROVE  /\ ((\E fresh \in BOOLEAN : Open(fresh)) \/ MetaWrite \/ UNCHANGED metaVars) =>
                Stored' = Stored /\ Unsure' = Unsure
         /\ MetaSet => Stored' = Stored /\ Unsure' \subseteq Unsure \union {pending'}
         /\ MetaDone => Stored' = pending /\ Unsure' = {}
         /\ MetaFails => Stored' = Stored /\ Unsure' \subseteq Unsure
         /\ (Close \/ Kill \/ PowerLoss) =>
                Stored' \in {Stored} \union Unsure /\ Unsure' = {}
<1>0. /\ Stored = MP!RegLive /\ Unsure = MP!RegUnsure
      /\ Stored' = MP!RegLive' /\ Unsure' = MP!RegUnsure'
  <2>1. (Stored = MP!RegLive /\ Unsure = MP!RegUnsure)'
    BY SameRegister, PTL
  <2> QED BY <2>1, SameRegister
<1>1. ASSUME NEW fresh \in BOOLEAN, Open(fresh) PROVE Stored' = Stored /\ Unsure' = Unsure
  <2>1. MP!Register!Start
    BY <1>1, SameSteps, MP!OpenRefines DEF Open
  <2> QED BY <1>0, <2>1 DEF MP!Register!Start
<1>2. ASSUME MetaWrite PROVE Stored' = Stored /\ Unsure' = Unsure
  BY <1>0, <1>2, SameSteps, MP!WriteRefines DEF MetaWrite
<1>3. ASSUME UNCHANGED metaVars PROVE Stored' = Stored /\ Unsure' = Unsure
  <2>1. /\ slots' = slots /\ cached' = cached /\ durable' = durable /\ metaPhase' = metaPhase
        /\ pending' = pending
    BY <1>3 DEF metaVars
  <2>2. Meta!Get' = Meta!Get /\ Meta!Target' = Meta!Target
    BY <2>1 DEF Meta!Get, Meta!Target, Meta!Current
  <2>3. Stored' = Stored
    BY <2>1, <2>2 DEF Stored, Meta!RegLive
  <2>4. Unsure' = Unsure
    BY <2>1, <2>2 DEF Unsure, Meta!RegUnsure
  <2> QED BY <2>3, <2>4
<1>4. ASSUME MetaSet PROVE Stored' = Stored /\ Unsure' \subseteq Unsure \union {pending'}
  <2> DEFINE d == [version |-> version, tables |-> NewTables]
  <2>1. MP!SetTruncate(d) /\ pending' = d /\ version \in Names /\ EngineInv'
    BY <1>4, SameSteps, SetTypes DEF MetaSet, Meta!SetTruncate, EngineInv, JobFits
  <2>2. d \in MP!MetaData /\ d.version > 0
    <3>1. pending' \in Meta!MetaData
      BY <2>1 DEF EngineInv, TypeOK, Meta!MetaTypeOK
    <3> QED BY <2>1, <3>1 DEF Names, MP!MetaData, Meta!MetaData
  <2> HIDE DEF d
  <2>3. MP!Register!Begin(d)
    BY <2>1, <2>2, MP!TruncateRefines
  <2> QED BY <1>0, <2>1, <2>3 DEF MP!Register!Begin
<1>5. ASSUME MetaDone PROVE Stored' = pending /\ Unsure' = {}
  <2>1. MP!Register!Commit(pending)
    BY <1>5, SameSteps, MP!SyncRefines DEF MetaDone
  <2> QED BY <1>0, <2>1 DEF MP!Register!Commit
<1>6. ASSUME MetaFails PROVE Stored' = Stored /\ Unsure' \subseteq Unsure
  <2>1. MP!Register!Fail(pending)
    BY <1>6, SameSteps, MP!FailsRefines DEF MetaFails
  <2> QED BY <1>0, <2>1 DEF MP!Register!Fail
<1>7. ASSUME Close \/ Kill \/ PowerLoss
      PROVE  Stored' \in {Stored} \union Unsure /\ Unsure' = {}
  <2>1. MP!Register!Stop
    BY <1>7, SameSteps, MP!StopRefines DEF Close, Kill, PowerLoss
  <2> QED BY <1>0, <2>1 DEF MP!Register!Stop
<1> QED BY <1>1, <1>2, <1>3, <1>4, <1>5, <1>6, <1>7

\* Metadata that a restart could work with: no table twice, every table complete.
Distinct(t) == \A m, n \in DOMAIN t : t[m] = t[n] => m = n
Sound(d) == Distinct(d.tables) /\ \A n \in DOMAIN d.tables : files[d.tables[n]] \in Level

\* The files that are going to be removed, and the tables that stay.
Apart(left, tables) == \A m \in DOMAIN left : \A n \in DOMAIN tables : left[m] # tables[n]

SoundInv ==
    /\ \A d \in {Stored} \union Unsure : Sound(d)
    /\ InSet => Sound(pending)
    /\ pc = "meta" => files[version] \in Level
    /\ InSet /\ job.kind = "merge" => Apart(job.left, pending.tables)
    /\ pc \in {"levels", "remove"} /\ job.kind = "merge" => Apart(job.left, Stored.tables)
    /\ pc \in {"levels", "clear", "truncate", "remove"} => Unsure = {}

\* What is live while the engine is up is stored; when it is down nothing is unsure.
LEMMA StoredIsLive ==
  ASSUME EngineInv
  PROVE  /\ Up => Stored = Meta!Get /\ Stored.tables = Live
         /\ ~Up => Stored = Meta!LiveOf(cached[0], cached[1]) /\ Unsure = {}
  BY DEF EngineInv, Phases, Up, Stored, Unsure, Live, Meta!RegLive, Meta!RegUnsure

\* A name is a number.
LEMMA NameAt ==
  ASSUME NEW t \in Seq(Names), NEW n \in DOMAIN t
  PROVE  t[n] \in Names /\ t[n] \in Nat
<1>1. t[n] \in Names
  OBVIOUS
<1> QED BY <1>1 DEF Names

\* Metadata that can be found names tables up to the version the engine has
\* reached, and below it while the table of that name is being built.
LEMMA KnownBelow ==
  ASSUME EngineInv, NamesInv, Up, NEW d \in {Stored} \union Unsure, NEW n \in DOMAIN d.tables
  PROVE  /\ d.tables[n] <= version /\ d.tables[n] \in Names /\ d.tables[n] \in Nat
         /\ pc = "build" => d.tables[n] < version
<1>1. ASSUME NEW w \in Nat, d.tables \in Seq(Names), d.tables[n] <= w, w <= version,
             pc = "build" => w < version
      PROVE  /\ d.tables[n] <= version /\ d.tables[n] \in Names /\ d.tables[n] \in Nat
             /\ pc = "build" => d.tables[n] < version
  <2>1. d.tables[n] \in Nat /\ d.tables[n] \in Names /\ version \in Nat
    BY <1>1, NameAt, Ranges
  <2> QED BY <1>1, <2>1
<1>2. CASE d = Stored
  <2>1. Stored.tables = Live /\ Meta!Get.version <= version
    BY StoredIsLive, LiveBelow DEF NamesInv
  <2>2. Live[n] <= Meta!Get.version
    BY <1>2, <2>1, LiveBelow DEF NamesInv
  <2>3. Meta!Get.version \in Nat /\ Live \in Seq(Names)
    BY Ranges, GetType
  <2>4. pc = "build" => Meta!Get.version < version
    <3>1. pc = "build" => version > 0
      BY DEF EngineInv, JobFits, Names
    <3> QED BY <3>1, LiveBelow DEF NamesInv
  <2> QED BY <1>1, <1>2, <2>1, <2>2, <2>3, <2>4
<1>3. ASSUME NEW i \in durable[Meta!Target], i.valid, i.data = d
      PROVE  /\ d.tables[n] <= version /\ d.tables[n] \in Names /\ d.tables[n] \in Nat
             /\ pc = "build" => d.tables[n] < version
  <2>1. i \in Readable
    <3>1. Meta!Target \in {0, 1}
      BY Ranges, GetType
    <3> QED BY <1>3, <3>1 DEF Readable
  <2>2. i.data.version \in Nat /\ i.data.tables \in Seq(Names)
    BY <2>1, ItemTypes
  <2>3. /\ d.tables[n] <= d.version /\ d.version <= version
        /\ pc = "build" => d.version < version
    BY <1>3, <2>1 DEF NamesInv, NamesBelow, Ahead
  <2> QED BY <1>1, <1>3, <2>2, <2>3
<1>4. ASSUME d = pending, InSet
      PROVE  /\ d.tables[n] <= version /\ d.tables[n] \in Names /\ d.tables[n] \in Nat
             /\ pc = "build" => d.tables[n] < version
  <2>1. d.tables[n] <= d.version /\ d.version = version /\ pc = "meta"
    BY <1>4 DEF NamesInv, PendingBelow, EngineInv, JobFits, Phases
  <2>2. d.tables \in Seq(Names)
    BY <1>4, Ranges DEF Meta!MetaTypeOK, Meta!MetaData
  <2> QED BY <1>1, <2>1, <2>2, Ranges
<1>5. CASE d \in Unsure
  <2>1. (\E i \in durable[Meta!Target] : i.valid /\ i.data = d) \/ (d = pending /\ InSet)
    BY <1>5 DEF Unsure, Meta!RegUnsure, InSet
  <2> QED BY <1>3, <1>4, <2>1
<1> QED BY <1>2, <1>5

\* A compaction creates, completes and removes no file that a restart may need.
LEMMA NamedFilesKept ==
  ASSUME EngineInv, NamesInv, SoundInv, CompactFlush \/ ScanMerge \/ BuildDone \/ RemoveOld,
         NEW d \in {Stored} \union Unsure, NEW n \in DOMAIN d.tables
  PROVE  files'[d.tables[n]] = files[d.tables[n]]
<1>1. /\ Up /\ files \in [Names -> Level \union {Missing, Partial}]
      /\ version \in Nat
  BY Ranges DEF CompactFlush, ScanMerge, BuildDone, RemoveOld, Up, EngineInv, TypeOK
<1>2. d.tables[n] <= version /\ d.tables[n] \in Names /\ d.tables[n] \in Nat
  BY <1>1, KnownBelow
<1>3. CASE CompactFlush \/ ScanMerge
  <2>1. files' = [files EXCEPT ![version + 1] = Partial]
    BY <1>3 DEF CompactFlush, ScanMerge, StartBuild, Created
  <2>2. d.tables[n] # version + 1
    BY <1>1, <1>2
  <2> QED BY <1>1, <1>2, <2>1, <2>2
<1>4. CASE BuildDone
  <2>1. files' = [files EXCEPT ![version] = NewTable] /\ pc = "build"
    BY <1>4 DEF BuildDone
  <2>2. d.tables[n] # version
    BY <1>1, <1>2, <2>1, KnownBelow
  <2> QED BY <1>1, <1>2, <2>1, <2>2
<1>5. CASE RemoveOld
  <2>1. /\ job.kind = "merge" /\ job.left # <<>> /\ job.left \in Seq(Names) /\ d = Stored
        /\ Apart(job.left, Stored.tables)
        /\ files' = files \/ files' = [files EXCEPT ![Head(job.left)] = Missing]
    BY <1>5 DEF RemoveOld, EngineInv, TypeOK, JobFits, Job, SoundInv
  <2>2. Head(job.left) = job.left[1] /\ 1 \in DOMAIN job.left
    BY <2>1
  <2>3. d.tables[n] # Head(job.left)
    BY <2>1, <2>2 DEF Apart
  <2> QED BY <1>1, <1>2, <2>1, <2>3
<1> QED BY <1>3, <1>4, <1>5

\* Metadata whose tables keep their contents stays sound.
LEMMA StaysSound ==
  ASSUME NEW d, Sound(d), \A n \in DOMAIN d.tables : files'[d.tables[n]] \in Level \/ files'[d.tables[n]] = files[d.tables[n]]
  PROVE  Sound(d)'
  BY DEF Sound, Distinct

\* The metadata a compaction is going to write is sound, and leaves out the
\* tables it will remove.
LEMMA NewIsSound ==
  ASSUME EngineInv, NamesInv, SoundInv, pc = "meta", ~InSet
  PROVE  /\ Distinct(NewTables)
         /\ \A n \in DOMAIN NewTables : files[NewTables[n]] \in Level
         /\ job.kind = "merge" =>
                \A n \in DOMAIN NewTables : \A m \in {job.at, job.at + 1} : NewTables[n] # Live[m]
<1>1. /\ Distinct(Live) /\ \A n \in DOMAIN Live : files[Live[n]] \in Level
      /\ files[version] \in Level /\ version \in Names /\ version > 0
      /\ DOMAIN Live = 1..Len(Live)
  <2>1. Sound(Stored) /\ Stored.tables = Live
    BY StoredIsLive DEF SoundInv, Up, EngineInv, Phases
  <2>2. version \in Names
    BY DEF EngineInv, JobFits
  <2> QED BY <2>1, <2>2, Ranges DEF Sound, SoundInv, Names
<1>2. \A n \in DOMAIN Live : Live[n] # version
  <2>1. /\ Meta!Get.version < version /\ Meta!Get.version \in Nat /\ version \in Nat
    BY <1>1, LiveBelow, Ranges, GetType DEF NamesInv, Up
  <2>2. \A n \in DOMAIN Live : Live[n] \in Nat /\ Live[n] <= Meta!Get.version
    BY LiveBelow DEF NamesInv
  <2> QED BY <2>1, <2>2
<1>3. DOMAIN NewTables = 1..Len(NewTables)
  BY Sources
<1>4. ASSUME NEW n \in DOMAIN NewTables, NEW m \in DOMAIN NewTables, NewTables[m] = NewTables[n]
      PROVE  m = n
  <2>1. SourceOf(m) = SourceOf(n)
    <3>1. /\ SourceOf(n) = 0 \/ SourceOf(n) \in DOMAIN Live
          /\ SourceOf(m) = 0 \/ SourceOf(m) \in DOMAIN Live
          /\ SourceOf(n) = 0 => NewTables[n] = version
          /\ SourceOf(n) # 0 => NewTables[n] = Live[SourceOf(n)]
          /\ SourceOf(m) = 0 => NewTables[m] = version
          /\ SourceOf(m) # 0 => NewTables[m] = Live[SourceOf(m)]
      BY <1>1, <1>3, Sources
    <3> QED BY <1>1, <1>2, <1>4, <3>1 DEF Distinct
  <2> QED BY <1>3, <2>1, Sources
<1>5. ASSUME NEW n \in DOMAIN NewTables PROVE files[NewTables[n]] \in Level
  BY <1>1, <1>3, Sources
<1>6. ASSUME job.kind = "merge", NEW n \in DOMAIN NewTables, NEW m \in {job.at, job.at + 1}
      PROVE  NewTables[n] # Live[m]
  <2>1. m \in DOMAIN Live
    <3>1. job.at \in 1..(Len(main) - 1) /\ Len(main) <= Len(Live)
      BY <1>6 DEF EngineInv, JobFits, LevelsFit
    <3> QED BY <1>1, <3>1, Ranges
  <2>2. /\ SourceOf(n) # m
        /\ SourceOf(n) = 0 \/ SourceOf(n) \in DOMAIN Live
        /\ SourceOf(n) = 0 => NewTables[n] = version
        /\ SourceOf(n) # 0 => NewTables[n] = Live[SourceOf(n)]
    BY <1>1, <1>3, <1>6, Sources
  <2> QED BY <1>1, <1>2, <2>1, <2>2 DEF Distinct
<1> QED BY <1>4, <1>5, <1>6 DEF Distinct

\* Nothing is named in a new directory.
LEMMA SoundInit == Init => SoundInv
<1> SUFFICES ASSUME Init PROVE SoundInv
  OBVIOUS
<1>1. Stored.tables = <<>> /\ Unsure = {}
  BY DEF Init, Meta!MetaInit, Stored, Unsure, Meta!RegLive, Meta!RegUnsure, Meta!LiveOf, Meta!CurrentOf,
         Meta!Blank, Meta!Zero, Meta!Slots
<1> QED BY <1>1 DEF Init, Meta!MetaInit, SoundInv, Sound, Distinct, InSet

\* Steps that touch neither the metadata nor a file.
LEMMA SoundQuiet ==
  ASSUME EngineInv, MP!MetaInv, MP!MetaInv', SoundInv, UNCHANGED <<metaVars, files>>,
         pc # "meta", pc' # "meta",
         pc' \in {"levels", "clear", "truncate", "remove"} =>
             pc \in {"levels", "clear", "truncate", "remove"},
         pc' \in {"levels", "remove"} => pc \in {"levels", "remove"} /\ job' = job
  PROVE  SoundInv'
<1>1. Stored' = Stored /\ Unsure' = Unsure
  BY RegisterSteps
<1>2. ~InSet /\ ~InSet'
  BY Ranges, MetaQuiet DEF EngineInv, Phases
<1>3. \A d : Sound(d) => Sound(d)'
  BY StaysSound
<1> QED BY <1>1, <1>2, <1>3 DEF SoundInv, Apart

\* A new table is created, or completed: under a name nothing else uses.
LEMMA SoundBuild ==
  ASSUME EngineInv, MP!MetaInv, MP!MetaInv', NamesInv, SoundInv,
         CompactFlush \/ ScanMerge \/ BuildDone
  PROVE  SoundInv'
<1>1. Stored' = Stored /\ Unsure' = Unsure /\ (InSet' <=> InSet) /\ ~InSet
  <2>1. UNCHANGED metaVars /\ pc # "meta"
    BY DEF CompactFlush, ScanMerge, BuildDone, StartBuild
  <2> QED BY <2>1, RegisterSteps, MetaQuiet, Ranges DEF EngineInv, Phases
<1>2. CASE BuildDone
  <2>1. NewTable \in Level /\ version \in Names
    BY <1>2, NewTableType, KVAssumption DEF EngineInv, TypeOK, JobFits, BuildDone
  <2>2. /\ files' = [files EXCEPT ![version] = NewTable] /\ files \in [Names -> Level \union {Missing, Partial}]
        /\ pc' = "meta" /\ version' = version
    BY <1>2 DEF BuildDone, memVars, EngineInv, TypeOK
  <2>3. \A n : files'[n] \in Level \/ files'[n] = files[n]
    BY <2>1, <2>2
  <2>4. \A d : Sound(d) => Sound(d)'
    BY <2>3, StaysSound
  <2> QED BY <1>1, <2>1, <2>2, <2>4 DEF SoundInv
<1>3. CASE CompactFlush \/ ScanMerge
  <2>1. /\ files' = [files EXCEPT ![version + 1] = Partial] /\ pc' = "build"
    BY <1>3 DEF CompactFlush, ScanMerge, StartBuild, Created
  <2>2. ASSUME NEW d \in {Stored} \union Unsure, NEW n \in DOMAIN d.tables
        PROVE  files'[d.tables[n]] = files[d.tables[n]]
    BY <1>3, NamedFilesKept
  <2>3. \A d \in {Stored} \union Unsure : Sound(d)'
    BY <2>2, StaysSound DEF SoundInv
  <2> QED BY <1>1, <2>1, <2>3 DEF SoundInv
<1> QED BY <1>2, <1>3

\* The steps of meta.Set, Open, and what stops the engine.
LEMMA SoundSet ==
  ASSUME EngineInv, EngineInv', MP!MetaInv, MP!MetaInv', NamesInv, SoundInv, MetaSet
  PROVE  SoundInv'
<1>1. /\ pc = "meta" /\ pc' = "meta" /\ ~InSet /\ files' = files /\ version' = version
      /\ pending' = [version |-> version, tables |-> NewTables]
      /\ job' = IF job.kind = "merge" THEN [job EXCEPT !.left = SubSeq(Live, job.at, job.at + 1)] ELSE job
      /\ job \in Job
  BY DEF MetaSet, Meta!SetTruncate, memVars, InSet, Live, EngineInv, TypeOK
<1>2. Stored' = Stored /\ Unsure' \subseteq Unsure \union {pending'}
  BY RegisterSteps
<1>3. Sound(pending')
  BY <1>1, NewIsSound DEF Sound
<1>4. \A d : Sound(d) => Sound(d)'
  BY <1>1, StaysSound
<1>5. job'.kind = "merge" => Apart(job'.left, pending'.tables)
  <2> SUFFICES ASSUME job'.kind = "merge" PROVE Apart(job'.left, pending'.tables)
    OBVIOUS
  <2> DEFINE o == Live
             a == job.at
             l == SubSeq(o, a, a + 1)
  <2>1. job.kind = "merge" /\ job'.left = l /\ pending'.tables = NewTables
    BY <1>1 DEF Job
  <2>2. o \in Seq(Names) /\ a \in 1..(Len(o) - 1)
    <3>1. job.at \in 1..(Len(main) - 1) /\ Len(main) <= Len(Live)
      BY <1>1, <2>1 DEF EngineInv, JobFits, LevelsFit
    <3> QED BY <3>1, Ranges
  <2>3. \A n \in DOMAIN NewTables : \A m \in {a, a + 1} : NewTables[n] # o[m]
    BY <1>1, <2>1, NewIsSound
  <2> HIDE DEF o, a
  <2>4. \A i \in DOMAIN l : \E m \in {a, a + 1} : l[i] = o[m]
    <3>1. DOMAIN l = 1..2 /\ l[1] = o[a] /\ l[2] = o[a + 1]
      BY <2>2, PairSeq
    <3> HIDE DEF l
    <3> QED BY <3>1
  <2> HIDE DEF l
  <2> QED BY <2>1, <2>3, <2>4 DEF Apart
<1>6. \A d \in {Stored'} \union Unsure' : Sound(d)'
  BY <1>2, <1>3, <1>4 DEF SoundInv
<1>7. Sound(pending)'
  BY <1>1, <1>3 DEF Sound, Distinct
<1> QED BY <1>1, <1>5, <1>6, <1>7 DEF SoundInv, Apart

LEMMA SoundMeta ==
  ASSUME EngineInv, EngineInv', MP!MetaInv, MP!MetaInv', SoundInv,
         (\E fresh \in BOOLEAN : Open(fresh)) \/ Close \/ Kill \/ PowerLoss
         \/ MetaWrite \/ MetaDone \/ MetaFails
  PROVE  SoundInv'
<1>1. files' = files
  BY DEF Open, Close, Kill, PowerLoss, Crash, MetaWrite, MetaDone, MetaFails
<1>2. \A d : Sound(d) => Sound(d)'
  BY <1>1, StaysSound
<1>3. ASSUME NEW fresh \in BOOLEAN, Open(fresh) PROVE SoundInv'
  <2>1. Stored' = Stored /\ Unsure' = Unsure
    BY <1>3, RegisterSteps
  <2>2. pc' = "idle" /\ ~InSet'
    BY <1>3 DEF Open, EngineInv, Phases
  <2> QED BY <1>2, <2>1, <2>2 DEF SoundInv
<1>4. CASE Close \/ Kill \/ PowerLoss
  <2>1. Stored' \in {Stored} \union Unsure /\ Unsure' = {}
    BY <1>4, RegisterSteps
  <2>2. pc' = "down" /\ ~InSet'
    BY <1>4 DEF Close, Kill, PowerLoss, Crash, EngineInv, Phases
  <2> QED BY <1>2, <2>1, <2>2 DEF SoundInv
<1>5. CASE MetaWrite
  <2>1. Stored' = Stored /\ Unsure' = Unsure
    BY <1>5, RegisterSteps
  <2>2. pc' = pc /\ pc = "meta" /\ version' = version /\ job' = job /\ pending' = pending /\ InSet
    BY <1>5 DEF MetaWrite, Meta!SetWrite, memVars, InSet
  <2> QED BY <1>1, <1>2, <2>1, <2>2 DEF SoundInv, Apart, Sound, Distinct
<1>6. CASE MetaDone
  <2>1. Stored' = pending /\ Unsure' = {}
    BY <1>6, RegisterSteps
  <2>2. pc' = "levels" /\ job' = job /\ InSet /\ ~InSet'
    BY <1>6 DEF MetaDone, Meta!SetSync, InSet
  <2> QED BY <1>2, <2>1, <2>2 DEF SoundInv, Apart
<1>7. CASE MetaFails
  <2>1. Stored' = Stored /\ Unsure' \subseteq Unsure
    BY <1>7, RegisterSteps
  <2>2. pc' = "idle" /\ ~InSet'
    BY <1>7 DEF MetaFails, ReturnError, Meta!SetFails, InSet
  <2> QED BY <1>2, <2>1, <2>2 DEF SoundInv
<1> QED BY <1>3, <1>4, <1>5, <1>6, <1>7

\* What is removed is not named by anything a restart may find.
LEMMA SoundRemove ==
  ASSUME EngineInv, MP!MetaInv, MP!MetaInv', NamesInv, SoundInv, RemoveOld
  PROVE  SoundInv'
<1>1. /\ pc = "remove" /\ job.kind = "merge" /\ job.left # <<>> /\ job.left \in Seq(Names)
      /\ Apart(job.left, Stored.tables) /\ Unsure = {}
  BY DEF RemoveOld, EngineInv, TypeOK, JobFits, Job, SoundInv
<1>2. Stored' = Stored /\ Unsure' = Unsure /\ ~InSet /\ ~InSet'
  <2>1. UNCHANGED metaVars
    BY DEF RemoveOld
  <2> QED BY <1>1, <2>1, RegisterSteps, MetaQuiet, Ranges DEF EngineInv, Phases
<1> DEFINE l == job.left
<1>3. \/ Len(l) > 1 /\ job' = [job EXCEPT !.left = Tail(l)] /\ pc' = pc
      \/ pc' = "scan"
  BY DEF RemoveOld
<1>4. l # <<>> /\ l \in Seq(Names) /\ Apart(l, Stored.tables)
  BY <1>1
<1>5. job \in Job
  BY DEF EngineInv, TypeOK
<1> HIDE DEF l
<1>7. \A n \in DOMAIN Stored.tables : files'[Stored.tables[n]] = files[Stored.tables[n]]
  BY NamedFilesKept
<1>8. Sound(Stored)'
  BY <1>2, <1>7 DEF SoundInv, Sound, Distinct
<1>9. pc' = "remove" => Apart(job'.left, Stored.tables)
  <2> SUFFICES ASSUME Len(l) > 1, job' = [job EXCEPT !.left = Tail(l)]
               PROVE  Apart(job'.left, Stored.tables)
    BY <1>3
  <2>1. job'.left = Tail(l)
    BY <1>5 DEF Job
  <2> DEFINE t == Tail(l)
  <2>2. /\ Len(l) \in Nat /\ t \in Seq(Names) /\ Len(t) = Len(l) - 1
        /\ \A n \in 1..(Len(l) - 1) : t[n] = l[n + 1]
    BY <1>4, TailSeq
  <2> HIDE DEF t
  <2>3. ASSUME NEW n \in DOMAIN t PROVE n + 1 \in DOMAIN l /\ t[n] = l[n + 1]
    <3>1. n \in 1..(Len(l) - 1)
      BY <2>2
    <3>2. n + 1 \in 1..Len(l)
      BY <2>2, <3>1
    <3> QED BY <1>4, <2>2, <3>1, <3>2
  <2>4. Apart(t, Stored.tables)
    BY <1>4, <2>3 DEF Apart
  <2> QED BY <2>1, <2>4 DEF t
<1>10. pc' \in {"remove", "scan"}
  BY <1>1, <1>3
<1>11. Unsure' = {} /\ pc' # "meta"
  BY <1>1, <1>2, <1>10
<1>12. pc' \in {"levels", "remove"} => Apart(job'.left, Stored'.tables)
  BY <1>2, <1>9, <1>10
<1>13. \A d \in {Stored'} \union Unsure' : Sound(d)'
  BY <1>2, <1>8, <1>11 DEF Sound, Distinct
<1> QED BY <1>2, <1>11, <1>12, <1>13 DEF SoundInv, Apart

TablesInv == EngineInv /\ MP!MetaInv /\ NamesInv /\ SoundInv

LEMMA TablesInit == Init => TablesInv
<1>1. Init => MP!MetaInit
  BY DEF Init, Meta!MetaInit, MP!MetaInit, Meta!Blank, MP!Blank, Meta!Zero, MP!Zero, Meta!Slots, MP!Slots
<1> QED BY <1>1, InitTypes, NamesInit, SoundInit, SameStore, MP!InitInv DEF TablesInv

\* Everything the files need is preserved.
LEMMA TablesNext ==
  ASSUME SafeFaults, TablesInv, [Next]_vars
  PROVE  TablesInv'
<1>1. EngineInv' /\ MP!MetaInv' /\ NamesInv'
  BY EngineNext, StoreNext, NamesNext DEF TablesInv
<1> USE <1>1 DEF TablesInv
<1>2. CASE (\E fresh \in BOOLEAN : Open(fresh)) \/ Close \/ Kill \/ PowerLoss
           \/ MetaWrite \/ MetaDone \/ MetaFails
  BY <1>2, SoundMeta
<1>3. CASE MetaSet \/ RemoveOld
  BY <1>3, SoundSet, SoundRemove
<1>4. CASE CompactFlush \/ ScanMerge \/ BuildDone
  BY <1>4, SoundBuild
<1>5. CASE \/ (\E r \in Log!Record : StartWrite(r)) \/ WriteDone \/ WriteShort \/ WriteFails
           \/ CompactScan \/ ScanDone \/ BuildFails
           \/ OpenLevelsFails \/ TruncateDone \/ ClearFails \/ TruncateFails
  <2>1. UNCHANGED <<metaVars, files>> /\ pc # "meta" /\ pc' \in {"idle", "write", "scan"}
    BY <1>5 DEF StartWrite, WriteDone, WriteShort, WriteFails, CompactScan, ScanDone, BuildFails,
           OpenLevelsFails, TruncateDone, ClearFails, TruncateFails, ReturnError
  <2> QED BY <2>1, SoundQuiet
<1>6. CASE OpenLevels \/ ClearMem
  <2>1. /\ UNCHANGED <<metaVars, files>> /\ job' = job
        /\ \/ pc = "levels" /\ pc' \in {"clear", "remove"}
           \/ pc = "clear" /\ pc' = "truncate"
    BY <1>6 DEF OpenLevels, ClearMem
  <2> QED BY <2>1, SoundQuiet
<1>7. CASE UNCHANGED vars
  <2>1. /\ files' = files /\ job' = job /\ pc' = pc /\ version' = version /\ UNCHANGED metaVars
    BY <1>7 DEF vars, memVars
  <2>2. Stored' = Stored /\ Unsure' = Unsure /\ (InSet' <=> InSet) /\ pending' = pending
    BY <2>1, RegisterSteps, MetaQuiet, Ranges
  <2> QED BY <2>1, <2>2 DEF SoundInv, Apart, Sound, Distinct
<1> QED BY Steps, <1>2, <1>3, <1>4, <1>5, <1>6, <1>7

\* What a power loss leaves of the slots is the stored metadata, or metadata
\* that was written without success.
LEMMA SlotsAreKnown ==
  ASSUME EngineInv, MP!MetaInv, NEW a \in durable[0], NEW b \in durable[1]
  PROVE  Meta!LiveOf(a, b) \in {Stored} \union Unsure
<1>1. CASE Up
  <2>1. metaPhase # "down"
    BY <1>1 DEF Up, EngineInv, Phases
  <2> QED BY <1>1, <2>1, SameStore, SameRegister, StoredIsLive, MP!OutcomeIsKnown
<1>2. CASE ~Up
  <2>1. metaPhase = "down"
    BY <1>2 DEF Up, EngineInv, Phases
  <2>2. a = cached[0] /\ b = cached[1]
    BY <2>1 DEF MP!MetaInv, MP!Synced, MP!Slots
  <2> QED BY <1>2, <2>2, StoredIsLive
<1> QED BY <1>1, <1>2

\* Whenever the machine stops, the list of tables the next Open reads consists
\* of SSTables that are complete on disk (kv.go, compactLog and compactSSTable:
\* the table before the metadata, the metadata before the removal).
THEOREM TablesRecoverable ==
  ASSUME SafeFaults PROVE Spec => []RecoverableTables
<1>1. Init => TablesInv
  BY TablesInit
<1>2. TablesInv /\ [Next]_vars => TablesInv'
  BY TablesNext
<1>3. TablesInv => RecoverableTables
  BY SlotsAreKnown DEF TablesInv, SoundInv, Sound, RecoverableTables
<1> QED BY <1>1, <1>2, <1>3, PTL DEF Spec
-----------------------------------------------------------------------------
(* The tables from step to step.                                           *)

\* What a restart may find is a list of tables.
LEMMA KnownTypes ==
  ASSUME EngineInv, NEW d \in {Stored} \union Unsure
  PROVE  d.tables \in Seq(Names)
<1>1. Meta!MetaTypeOK /\ Meta!Get \in Meta!MetaData /\ Meta!Target \in {0, 1}
  BY Ranges, GetType
<1>2. Meta!LiveOf(cached[0], cached[1]) \in Meta!MetaData
  <2>1. Meta!Zero \in Meta!MetaData
    BY KVAssumption DEF Meta!MetaConstants, Meta!Zero, Meta!MetaData
  <2>2. cached[0].data \in Meta!MetaData /\ cached[1].data \in Meta!MetaData
    BY <1>1 DEF Meta!MetaTypeOK, Meta!Slots, Meta!Item
  <2> QED BY <2>1, <2>2 DEF Meta!LiveOf
<1>3. Stored \in Meta!MetaData
  BY <1>1, <1>2 DEF Stored, Meta!RegLive
<1>4. Unsure \subseteq Meta!MetaData
  <2>1. \A i \in durable[Meta!Target] : i.data \in Meta!MetaData
    BY <1>1 DEF Meta!MetaTypeOK, Meta!Slots, Meta!Item
  <2>2. pending \in Meta!MetaData
    BY <1>1 DEF Meta!MetaTypeOK
  <2> QED BY <2>1, <2>2 DEF Unsure, Meta!RegUnsure
<1>5. d \in Meta!MetaData
  BY <1>3, <1>4
<1> QED BY <1>5 DEF Meta!MetaData

\* No file that a restart may need is changed.
FilesKept ==
    \A d \in {Stored} \union Unsure : \A n \in DOMAIN d.tables :
        files'[d.tables[n]] = files[d.tables[n]]

\* No step changes a file that a restart may need.
LEMMA NextKeepsFiles ==
  ASSUME TablesInv, [Next]_vars
  PROVE  FilesKept
<1> USE DEF TablesInv
<1>1. CASE CompactFlush \/ ScanMerge \/ BuildDone \/ RemoveOld
  BY <1>1, NamedFilesKept DEF FilesKept
<1>2. ASSUME files' = files PROVE FilesKept
  BY <1>2 DEF FilesKept
<1>3. CASE \/ (\E fresh \in BOOLEAN : Open(fresh)) \/ Close \/ Kill \/ PowerLoss
           \/ (\E r \in Log!Record : StartWrite(r)) \/ WriteDone \/ WriteShort \/ WriteFails
           \/ CompactScan \/ ScanDone \/ BuildFails
  BY <1>2, <1>3 DEF Open, Close, Kill, PowerLoss, Crash, StartWrite, WriteDone, WriteShort, WriteFails,
         CompactScan, ScanDone, BuildFails
<1>4. CASE \/ MetaSet \/ MetaWrite \/ MetaDone \/ MetaFails \/ OpenLevels \/ OpenLevelsFails
           \/ ClearMem \/ TruncateDone \/ ClearFails \/ TruncateFails
  BY <1>2, <1>4 DEF MetaSet, MetaWrite, MetaDone, MetaFails, OpenLevels, OpenLevelsFails,
         ClearMem, TruncateDone, ClearFails, TruncateFails
<1>5. CASE UNCHANGED vars
  BY <1>2, <1>5 DEF vars
<1> QED BY Steps, <1>1, <1>3, <1>4, <1>5
-----------------------------------------------------------------------------
(* The sizes of the levels.                                                *)

\* What a file holds.
ContentsOf(f, t) == IF f[t] \in Level THEN f[t] ELSE Empty

\* Nothing fails and nobody stops the process but by Close.
NoFailures ==
    \A f \in Environments : f \intersect {"kill", "power", "ioerr", "openerr"} = {}

\* Table b, next behind a, has not outgrown it: the two should be merged.
Within(f, a, b) ==
    /\ GrowthNum > GrowthDen
    /\ Size(ContentsOf(f, b)) * GrowthDen <= GrowthNum * Size(ContentsOf(f, a))

\* From position i on, every table has outgrown the one before it.
Grown(f, t, i) == \A j \in i..(Len(t) - 1) : ~Within(f, t[j], t[j + 1])

\* A Compact merges at the first position only: a flush and a merge there leave
\* the levels behind as the last Compact has left them.
GrownInv ==
    /\ pc # "meta" => Unsure = {}
    /\ Grown(files, Stored.tables, 2)
    /\ pc \in {"down", "idle", "write"} \/ (pc \in {"build", "meta"} /\ job.kind = "flush") =>
           Grown(files, Stored.tables, 1)
    /\ InSet => Grown(files, pending.tables, 2)
    /\ pc = "scan" => job.at = 1
    /\ job.kind = "merge" => job.at = 1

LEMMA DueGrown == \A i : Due(i) = {} <=> Grown(files, main, i)
  BY DEF Due, ShouldMerge, Grown, Within, Contents, ContentsOf

LEMMA GrownFiles ==
  ASSUME NEW f, NEW g, NEW t \in Seq(Names), \A i \in DOMAIN t : g[t[i]] = f[t[i]],
         NEW a \in {1, 2}, Grown(f, t, a)
  PROVE  Grown(g, t, a)
<1>1. ASSUME NEW j \in a..(Len(t) - 1) PROVE Within(g, t[j], t[j + 1]) <=> Within(f, t[j], t[j + 1])
  <2>1. j \in DOMAIN t /\ j + 1 \in DOMAIN t
    OBVIOUS
  <2>2. ContentsOf(g, t[j]) = ContentsOf(f, t[j]) /\ ContentsOf(g, t[j + 1]) = ContentsOf(f, t[j + 1])
    BY <2>1 DEF ContentsOf
  <2> QED BY <2>2 DEF Within
<1> QED BY <1>1 DEF Grown

LEMMA GrownPrepended ==
  ASSUME NEW f, NEW v \in Names, NEW o \in Seq(Names), Grown(f, o, 1)
  PROVE  Grown(f, Prepended(v, o), 2)
<1> DEFINE S == Names
           t == Prepended(v, o)
<1>1. Len(o) \in Nat /\ Len(t) = Len(o) + 1 /\ \A n \in 1..Len(o) : t[n + 1] = o[n]
  <2>1. o \in Seq(S) /\ v \in S
    OBVIOUS
  <2> HIDE DEF S
  <2>2. /\ t \in Seq(S) /\ Len(t) = Len(o) + 1 /\ t[1] = v
        /\ \A n \in 1..Len(o) : t[n + 1] = o[n]
    BY <2>1, PrependedSeq
  <2> QED BY <2>2
<1> HIDE DEF t
<1>2. ASSUME NEW j \in 2..(Len(t) - 1) PROVE ~Within(f, t[j], t[j + 1])
  <2>1. j - 1 \in 1..(Len(o) - 1) /\ j - 1 \in 1..Len(o) /\ j \in 1..Len(o) /\ (j - 1) + 1 = j
    BY <1>1
  <2>2. t[j] = o[j - 1] /\ t[j + 1] = o[j]
    BY <1>1, <2>1
  <2>3. ~Within(f, o[j - 1], o[(j - 1) + 1])
    BY <2>1 DEF Grown
  <2> QED BY <2>1, <2>2, <2>3
<1> QED BY <1>2 DEF Grown, t

LEMMA GrownSpliced ==
  ASSUME NEW f, NEW v \in Names, NEW o \in Seq(Names), Len(o) >= 2, Grown(f, o, 2)
  PROVE  Grown(f, Spliced(v, o, 1), 2)
<1> DEFINE S == Names
           t == Spliced(v, o, 1)
<1>1. Len(o) \in Nat /\ Len(t) = Len(o) - 1 /\ \A n \in 2..(Len(o) - 1) : t[n] = o[n + 1]
  <2>1. o \in Seq(S) /\ v \in S /\ 1 \in 1..(Len(o) - 1) /\ Len(o) \in Nat /\ 1 + 1 = 2
    OBVIOUS
  <2> HIDE DEF S
  <2> QED BY <2>1, SplicedSeq
<1> HIDE DEF t
<1>2. ASSUME NEW j \in 2..(Len(t) - 1) PROVE ~Within(f, t[j], t[j + 1])
  <2>1. j \in 2..(Len(o) - 1) /\ j + 1 \in 2..(Len(o) - 1) /\ j + 1 \in 2..(Len(o) - 1)
    BY <1>1
  <2>2. t[j] = o[j + 1] /\ t[j + 1] = o[(j + 1) + 1]
    BY <1>1, <2>1
  <2> QED BY <2>1, <2>2 DEF Grown
<1> QED BY <1>2 DEF Grown, t

\* Nothing fails.
LEMMA NothingFails ==
  ASSUME NoFailures, EngineInv
  PROVE  /\ SafeFaults /\ "openerr" \notin faults
         /\ "kill" \notin faults /\ "power" \notin faults /\ "ioerr" \notin faults
<1>1. faults \in Environments
  BY DEF EngineInv, TypeOK, Log!LogTypeOK
<1> QED BY <1>1 DEF NoFailures, SafeFaults

\* Levels that nobody touches.
LEMMA GrownKept ==
  ASSUME TablesInv, [Next]_vars, NEW a \in {1, 2}, Grown(files, Stored.tables, a)
  PROVE  Grown(files', Stored.tables, a)
<1> DEFINE t == Stored.tables
           g == files'
<1>1. t \in Seq(Names) /\ \A i \in DOMAIN t : g[t[i]] = files[t[i]]
  BY KnownTypes, NextKeepsFiles DEF FilesKept, TablesInv
<1> HIDE DEF t, g
<1>2. Grown(files, t, a)
  BY DEF t
<1>3. Grown(g, t, a)
  BY <1>1, <1>2, GrownFiles
<1> QED BY <1>3 DEF t, g

LEMMA GrownInit == Init => GrownInv
<1> SUFFICES ASSUME Init PROVE GrownInv
  OBVIOUS
<1>1. EngineInv /\ ~Up
  BY InitTypes DEF Init, Up
<1>2. Stored.tables = <<>>
  <2>1. Stored = Meta!LiveOf(cached[0], cached[1])
    BY <1>1, StoredIsLive
  <2>2. cached[0].data = Meta!Zero /\ cached[1].data = Meta!Zero
    BY DEF Init, Meta!MetaInit, Meta!Blank, Meta!Slots
  <2> QED BY <2>1, <2>2 DEF Meta!LiveOf, Meta!Zero
<1>3. Unsure = {} /\ \A a \in {1, 2} : Grown(files, Stored.tables, a)
  BY <1>1, <1>2, StoredIsLive DEF Grown
<1> QED BY <1>3 DEF GrownInv, Init, Meta!MetaInit, InSet, Idle

\* GrownInv is inductive where nothing fails.
LEMMA GrownNext ==
  ASSUME NoFailures, TablesInv, TablesInv', MainIsLive, GrownInv, [Next]_vars
  PROVE  GrownInv'
<1>1. /\ EngineInv /\ EngineInv' /\ MP!MetaInv /\ MP!MetaInv' /\ "openerr" \notin faults
      /\ "kill" \notin faults /\ "power" \notin faults /\ "ioerr" \notin faults
  BY NothingFails DEF TablesInv
<1>2. /\ InSet' => pc' = "meta"
      /\ pc \notin {"down", "levels"} => main = Stored.tables /\ Live = Stored.tables
  BY <1>1, StoredIsLive DEF EngineInv, Phases, MainIsLive, Up
<1>3. ASSUME Stored' = Stored PROVE \A a \in {1, 2} : Grown(files, Stored.tables, a) => Grown(files', Stored'.tables, a)
  BY <1>3, GrownKept
<1>4. CASE (\E fresh \in BOOLEAN : Open(fresh)) \/ Close
  <2>1. Stored' = Stored /\ Unsure' = {}
    <3>1. Unsure = {}
      BY <1>4 DEF GrownInv, Open, Close
    <3> QED BY <1>1, <1>4, <3>1, RegisterSteps
  <2>2. job' = job /\ pc \in {"down", "idle"} /\ pc' \in {"down", "idle"}
    BY <1>4 DEF Open, Close
  <2> QED BY <1>2, <1>3, <2>1, <2>2 DEF GrownInv
<1>5. ASSUME UNCHANGED metaVars, pc # "meta", pc' # "meta",
             pc' \in {"idle", "write", "down"} \/ (pc' = "build" /\ job'.kind = "flush")
                 => Grown(files, Stored.tables, 1),
             pc' = "scan" => job'.at = 1, job'.kind = "merge" => job'.at = 1
      PROVE  GrownInv'
  <2>1. Stored' = Stored /\ Unsure' = Unsure
    BY <1>1, <1>5, RegisterSteps
  <2> QED BY <1>2, <1>3, <1>5, <2>1 DEF GrownInv
<1>6. CASE (\E r \in Log!Record : StartWrite(r)) \/ WriteDone
  BY <1>5, <1>6 DEF StartWrite, WriteDone, GrownInv
<1>7. CASE CompactFlush \/ CompactScan
  BY <1>5, <1>7 DEF CompactFlush, CompactScan, StartBuild, Scan, GrownInv
<1>8. CASE ScanMerge
  <2>1. PICK i \in Due(job.at) : StartBuild([kind |-> "merge", at |-> i, left |-> <<>>])
    BY <1>8 DEF ScanMerge
  <2>2. i = 1
    <3>1. job.at = 1 /\ Grown(files, main, 2)
      BY <1>2, <1>8 DEF ScanMerge, GrownInv
    <3>2. Due(2) = {}
      BY <3>1, DueGrown
    <3>3. i \in 1..(Len(main) - 1) /\ ShouldMerge(i)
      BY <2>1, <3>1 DEF Due
    <3>4. i >= 2 => i \in Due(2)
      BY <3>3 DEF Due
    <3> QED BY <3>2, <3>3, <3>4
  <2>3. UNCHANGED metaVars /\ pc = "scan" /\ pc' = "build" /\ job'.kind = "merge" /\ job'.at = 1
    BY <1>8, <2>1, <2>2 DEF ScanMerge, StartBuild
  <2> QED BY <1>5, <2>3
<1>9. CASE ScanDone
  <2>1. Due(1) = {} /\ main = Stored.tables
    BY <1>2, <1>9 DEF ScanDone, GrownInv
  <2>2. Grown(files, Stored.tables, 1)
    BY <2>1, DueGrown
  <2>3. UNCHANGED metaVars /\ pc = "scan" /\ pc' = "idle" /\ job'.kind = "none"
    BY <1>9 DEF ScanDone, Idle
  <2> QED BY <1>5, <2>2, <2>3
<1>10. CASE BuildDone
  <2>1. Stored' = Stored /\ ~InSet'
    BY <1>1, <1>10, RegisterSteps DEF BuildDone, metaVars, InSet, EngineInv, Phases
  <2> QED BY <1>3, <1>10, <2>1 DEF BuildDone, GrownInv
<1>11. CASE MetaSet
  <2>1. /\ Stored' = Stored /\ pc = "meta" /\ pc' = "meta" /\ pending'.tables = NewTables
        /\ files' = files /\ job'.kind = job.kind /\ job'.at = job.at
    BY <1>1, <1>11, RegisterSteps DEF MetaSet, Meta!SetTruncate, EngineInv, TypeOK, Job
  <2>2. Grown(files, NewTables, 2)
    <3>1. /\ version \in Names /\ Live \in Seq(Names) /\ Live = Stored.tables /\ main = Live
          /\ \/ job.kind = "flush"
             \/ job.kind = "merge" /\ job.at = 1 /\ 1 \in 1..(Len(main) - 1)
      BY <1>1, <1>2, <2>1, Ranges DEF EngineInv, JobFits, GrownInv
    <3>2. Grown(files, Live, 2) /\ (job.kind = "flush" => Grown(files, Live, 1))
      BY <2>1, <3>1 DEF GrownInv
    <3>3. CASE job.kind = "flush"
      <4>1. NewTables = Prepended(version, Live)
        BY <3>3 DEF NewTables, Live, Prepended
      <4> QED BY <3>1, <3>3, <3>2, <4>1, GrownPrepended
    <3>4. CASE job.kind = "merge"
      <4>1. NewTables = Spliced(version, Live, 1)
        BY <3>1, <3>4 DEF NewTables, Live, Spliced
      <4>2. Len(Live) >= 2
        BY <3>1, <3>4
      <4> QED BY <3>1, <3>2, <4>1, <4>2, GrownSpliced
    <3> QED BY <3>1, <3>3, <3>4
  <2> QED BY <1>3, <2>1, <2>2 DEF GrownInv
<1>12. CASE MetaWrite
  <2>1. Stored' = Stored /\ InSet
    BY <1>1, <1>12, RegisterSteps DEF MetaWrite, Meta!SetWrite, InSet
  <2>2. pc = "meta" /\ pc' = "meta" /\ files' = files /\ job' = job /\ pending' = pending
    BY <1>12 DEF MetaWrite, Meta!SetWrite
  <2> QED BY <1>3, <2>1, <2>2 DEF GrownInv
<1>13. CASE MetaDone
  <2>1. Stored' = pending /\ Unsure' = {} /\ InSet
    BY <1>1, <1>13, RegisterSteps DEF MetaDone, Meta!SetSync, InSet
  <2>2. pc' = "levels" /\ files' = files /\ job' = job
    BY <1>13 DEF MetaDone
  <2> QED BY <1>2, <2>1, <2>2 DEF GrownInv
<1>14. CASE OpenLevels \/ ClearMem \/ TruncateDone
  BY <1>5, <1>14 DEF OpenLevels, ClearMem, TruncateDone, Scan, GrownInv
<1>15. CASE RemoveOld
  <2>1. job.at = 1 /\ job \in Job
    BY <1>1, <1>15 DEF RemoveOld, EngineInv, JobFits, TypeOK, GrownInv
  <2> QED BY <1>5, <1>15, <2>1 DEF RemoveOld, Scan, Job
<1>16. CASE UNCHANGED vars
  <2>1. Stored' = Stored /\ Unsure' = Unsure
    BY <1>1, <1>16, RegisterSteps DEF vars
  <2> QED BY <1>16, <2>1 DEF vars, metaVars, InSet, GrownInv
<1>17. ~(\/ Kill \/ PowerLoss \/ WriteShort \/ WriteFails \/ BuildFails \/ MetaFails \/ OpenLevelsFails
         \/ ClearFails \/ TruncateFails)
  BY <1>1 DEF Kill, PowerLoss, WriteShort, WriteFails, BuildFails, MetaFails, OpenLevelsFails, ClearFails,
     TruncateFails, Log!LogKill, Log!LogPowerLoss, Log!LogWriteShort, Log!LogSyncFails, Meta!SetFails
<1> QED BY Steps, <1>4, <1>6, <1>7, <1>8, <1>9, <1>10, <1>11, <1>12, <1>13, <1>14, <1>15, <1>16, <1>17

\* When nothing fails and nobody stops the process, a Compact that comes to the
\* end of its loop leaves no two adjacent levels due for a merge (kv.go, Compact:
\* it "does all pending compaction work"), also not one at a position the
\* loop has left behind.
THEOREM NothingPending == ASSUME NoFailures PROVE Spec => CompactLeavesNothingPending
<1> DEFINE Inv == TablesInv /\ MainIsLive /\ GrownInv
<1>1. Init => Inv
  BY TablesInit, GrownInit DEF Init, MainIsLive
<1>2. Inv /\ [Next]_vars => Inv'
  <2> SUFFICES ASSUME Inv, [Next]_vars PROVE Inv'
    OBVIOUS
  <2>1. SafeFaults /\ EngineInv
    BY NothingFails DEF TablesInv
  <2>2. TablesInv' /\ MainIsLive'
    BY <2>1, TablesNext, MainNext
  <2> QED BY <2>2, GrownNext
<1>3. Inv /\ [Next]_vars => [pc = "scan" /\ pc' = "idle" => Due(1) = {}]_vars
  <2> SUFFICES ASSUME Inv, Next, pc = "scan", pc' = "idle" PROVE Due(1) = {}
    OBVIOUS
  <2>1. ScanDone
    BY Steps DEF Open, Close, Kill, PowerLoss, Crash, StartWrite, WriteDone, WriteShort, WriteFails,
       CompactFlush, CompactScan, ScanMerge, StartBuild, BuildDone, BuildFails, MetaSet, MetaWrite,
       MetaDone, MetaFails, OpenLevels, OpenLevelsFails, ClearMem, TruncateDone, ClearFails, TruncateFails,
       RemoveOld
  <2> QED BY <2>1 DEF ScanDone, GrownInv
<1> HIDE DEF Inv
<1> QED BY <1>1, <1>2, <1>3, PTL DEF Spec, CompactLeavesNothingPending
=============================================================================
