----------------------------- MODULE MetaStore -----------------------------
(***************************************************************************)
(* KVMetaStore (storage/meta.go): the list of SSTable levels, kept in two  *)
(* files that are overwritten in turn.                                     *)
(*                                                                         *)
(* A slot file is represented by what KVMetaItem.open makes of it: it is   *)
(* valid and holds some metadata, or it is not valid (empty, shorter than  *)
(* 12 bytes, wrong checksum).  cached[s] is what the running system reads  *)
(* from the file, durable[s] the set of contents the next Open may find:   *)
(* after a power loss, what was written since the last fsync may or may    *)
(* not have reached the disk.                                              *)
(***************************************************************************)
EXTENDS Integers

CONSTANTS Tables,      \* the lists of SSTable names a KVMetaData can carry
          NoTables,    \* the empty list
          Environments,\* the sets of faults to consider, see FaultKinds
          MaxVersion   \* bound: versions the model writes are 1..MaxVersion

\* "kill": the process dies, the operating system does not;
\* "power": the machine stops, what was not fsynced may be lost;
\* "torn": a power loss may cut a record of the log in two (used by WAL);
\* "ioerr": a write, an fsync, a truncation or a removal may fail;
\* "openerr": an SSTable may fail to open (used by KVStore).
FaultKinds == {"kill", "power", "torn", "ioerr", "openerr"}

\* What the constants have to be; a module that instantiates this one assumes it.
MetaConstants ==
    /\ NoTables \in Tables
    /\ Environments \subseteq SUBSET FaultKinds
    /\ MaxVersion \in Nat

Slots == {0, 1}
MetaData == [version : 0..MaxVersion, tables : Tables]
Zero     == [version |-> 0, tables |-> NoTables]
Item     == [valid : BOOLEAN, data : MetaData]
Blank    == [valid |-> FALSE, data |-> Zero]
\* Faulty: the version is written one too high.
WholeOffByOne(d) == [valid |-> TRUE, data |-> [d EXCEPT !.version = @ + 1]]

Whole(d) == [valid |-> TRUE, data |-> d]

VARIABLES slots,       \* KVMetaStore.slots: the two KVMetaItems in memory
          cached,      \* the slot files as the operating system shows them
          durable,     \* the contents the next Open may find in each file
          metaPhase,   \* "down", "idle", or how far a write has come
          pending,     \* the data of the write in progress
          faults       \* what the environment may do in this behaviour

metaVars == <<slots, cached, durable, metaPhase, pending, faults>>

MetaTypeOK ==
    /\ slots \in [Slots -> Item]
    /\ cached \in [Slots -> Item]
    /\ durable \in [Slots -> SUBSET Item]
    /\ metaPhase \in {"down", "idle", "truncated", "written"}
    /\ pending \in MetaData
    /\ faults \in Environments

-----------------------------------------------------------------------------
\* Faulty: the older of two valid slots is taken for the live one.
CurrentOfOlder(a, b) ==
    IF a.valid /\ b.valid THEN IF a.data.version < b.data.version THEN 0 ELSE 1
    ELSE IF a.valid THEN 0
    ELSE IF b.valid THEN 1
    ELSE -1

\* The slot with the higher version among the valid ones; -1 if none is valid.
\* The choice is a function of two items, so that it can be applied to the
\* slots in memory and to what a crash may leave of the files.
CurrentOf(a, b) ==
    IF a.valid /\ b.valid THEN IF a.data.version >= b.data.version THEN 0 ELSE 1
    ELSE IF a.valid THEN 0
    ELSE IF b.valid THEN 1
    ELSE -1

LiveOf(a, b) ==
    IF CurrentOf(a, b) = 0 THEN a.data
    ELSE IF CurrentOf(a, b) = 1 THEN b.data
    ELSE Zero

Current == CurrentOf(slots[0], slots[1])
Get     == LiveOf(slots[0], slots[1])

\* Set refuses a version that does not exceed the live one (errMetaVersion).
Accepts(d) == Current = -1 \/ d.version > Get.version

\* Faulty: the live slot is overwritten.
TargetLive == IF Current = 1 THEN 1 ELSE 0

\* The slot Set writes: never the live one.
Target == IF Current = 0 THEN 1 ELSE 0
-----------------------------------------------------------------------------
\* The contents the next Open may find once the file reads now and no fsync has
\* followed: a power loss may also bring back an older content.
Unsynced(older, now) == {now} \union (IF "power" \in faults THEN older ELSE {})

MetaInit ==
    /\ slots = [s \in Slots |-> Blank]
    /\ cached = [s \in Slots |-> Blank]
    /\ durable = [s \in Slots |-> {Blank}]
    /\ metaPhase = "down"
    /\ pending = Zero
    /\ faults \in Environments

\* KVMetaItem.open sets valid on success and never clears it: an unreadable
\* file leaves the item as it was, which matters when the same object is opened
\* again (fresh = FALSE).
Loaded(s, fresh) ==
    IF cached[s].valid THEN cached[s] ELSE IF fresh THEN Blank ELSE slots[s]

MetaOpen(fresh) ==
    /\ metaPhase = "down"
    /\ slots' = [s \in Slots |-> Loaded(s, fresh)]
    /\ metaPhase' = "idle"
    /\ UNCHANGED <<cached, durable, pending, faults>>

\* Set, up to the truncation of the target slot.
SetTruncate(d) ==
    /\ metaPhase = "idle"
    /\ Accepts(d)
    /\ cached' = [cached EXCEPT ![Target] = Blank]
    /\ durable' = [durable EXCEPT ![Target] = Unsynced(@, Blank)]
    /\ metaPhase' = "truncated"
    /\ pending' = d
    /\ UNCHANGED <<slots, faults>>

\* WriteAt: the bytes are in the page cache.  A partial write is not valid,
\* which Blank already stands for.
SetWrite ==
    /\ metaPhase = "truncated"
    /\ cached' = [cached EXCEPT ![Target] = Whole(pending)]
    /\ durable' = [durable EXCEPT ![Target] = Unsynced(@, Whole(pending))]
    /\ metaPhase' = "written"
    /\ UNCHANGED <<slots, pending, faults>>

\* Sync returns: the slot is durable, and only now the item in memory changes.
SetSync ==
    /\ metaPhase = "written"
    /\ durable' = [durable EXCEPT ![Target] = {cached[Target]}]
    /\ slots' = [slots EXCEPT ![Target] = Whole(pending)]
    /\ metaPhase' = "idle"
    /\ pending' = Zero
    /\ UNCHANGED <<cached, faults>>

\* WriteAt or Sync fails: Set returns the error, the items in memory stay.
SetFails ==
    /\ "ioerr" \in faults
    /\ metaPhase \in {"truncated", "written"}
    /\ metaPhase' = "idle"
    /\ pending' = Zero
    /\ UNCHANGED <<slots, cached, durable, faults>>

\* Close: the file handles go, the KVMetaItems keep what they hold.
MetaClose ==
    /\ metaPhase = "idle"
    /\ metaPhase' = "down"
    /\ UNCHANGED <<slots, cached, durable, pending, faults>>

\* The process dies; the page cache survives it.
MetaKill ==
    /\ "kill" \in faults
    /\ slots' = [s \in Slots |-> Blank]
    /\ metaPhase' = "down"
    /\ pending' = Zero
    /\ UNCHANGED <<cached, durable, faults>>

\* The machine stops: each file keeps one of its possible contents.
MetaPowerLoss ==
    /\ "power" \in faults
    /\ \E a \in durable[0], b \in durable[1] :
           /\ cached' = [s \in Slots |-> IF s = 0 THEN a ELSE b]
           /\ durable' = [s \in Slots |-> IF s = 0 THEN {a} ELSE {b}]
    /\ slots' = [s \in Slots |-> Blank]
    /\ metaPhase' = "down"
    /\ pending' = Zero
    /\ UNCHANGED faults

MetaNext ==
    \/ \E fresh \in BOOLEAN : MetaOpen(fresh)
    \/ \E v \in 1..MaxVersion, t \in Tables : SetTruncate([version |-> v, tables |-> t])
    \/ SetWrite
    \/ SetSync
    \/ SetFails
    \/ MetaClose
    \/ MetaKill
    \/ MetaPowerLoss

MetaSpec == MetaInit /\ [][MetaNext]_metaVars
-----------------------------------------------------------------------------
\* What the running store reports as live is what a restart after a power
\* loss finds, or something newer that a Set in progress has written: the
\* slot being overwritten is never the one that is needed (meta.go, Set).
LiveSurvivesPowerLoss ==
    metaPhase # "down" =>
        \A a \in durable[0], b \in durable[1] :
            \/ LiveOf(a, b) = Get
            \/ LiveOf(a, b).version > Get.version

\* "You can never lose both" (meta.go:83): once the store holds something, no
\* power loss leaves two unreadable slots.
NeverLoseBoth ==
    (metaPhase # "down" /\ Current # -1) =>
        \A a \in durable[0], b \in durable[1] : a.valid \/ b.valid

\* The store as a register: what a reader sees, the Set in progress, and the
\* writes that have not returned success but may still be found by the next Open.
RegUp == metaPhase # "down"
RegLive == IF metaPhase = "down" THEN LiveOf(cached[0], cached[1]) ELSE Get
RegWriting == IF metaPhase \in {"truncated", "written"} THEN {pending} ELSE {}
RegUnsure ==
    IF metaPhase = "down" THEN {}
    ELSE {i.data : i \in {j \in durable[Target] : j.valid /\ j.data.version > Get.version}}
         \union (IF metaPhase = "truncated" THEN {pending} ELSE {})

Register == INSTANCE MetaRegister
                WITH up <- RegUp, live <- RegLive, writing <- RegWriting, unsure <- RegUnsure,
                     Versions <- 0..MaxVersion

\* Every behaviour of the double-buffered store is one of the crash-safe
\* register: a Set that returned is what Get shows from then on, and an
\* interrupted one happens entirely or not at all (meta.go, Open, Get and Set).
ImplementsRegister == Register!Spec
=============================================================================
