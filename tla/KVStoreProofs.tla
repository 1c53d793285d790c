--------------------------- MODULE KVStoreProofs ---------------------------
(***************************************************************************)
(* Proofs about the storage engine, for every set of keys and values,      *)
(* every bound and every set of faults: its state is what TypeOK says, and *)
(* a compaction never runs out of step with the metadata and the log.      *)
(***************************************************************************)
EXTENDS KVStore, WellFoundedInduction, TLAPS

\* The tables the metadata in memory names; a Set has begun to write.
Live == Meta!Get.tables
InSet == metaPhase \in {"truncated", "written"}
-----------------------------------------------------------------------------
(* Sequences.                                                              *)

\* A sequence in two parts.
LEMMA Concat ==
  ASSUME NEW S, NEW f \in Seq(S), NEW g \in Seq(S)
  PROVE  /\ f \o g \in Seq(S) /\ Len(f \o g) = Len(f) + Len(g)
         /\ \A n \in 1..Len(f) : (f \o g)[n] = f[n]
         /\ \A n \in 1..Len(g) : (f \o g)[Len(f) + n] = g[n]
  OBVIOUS

\* An element in front of a sequence, and one in the place of two others.
Prepended(v, o) == <<v>> \o o
Spliced(v, o, a) == SubSeq(o, 1, a - 1) \o <<v>> \o SubSeq(o, a + 2, Len(o))

LEMMA PrependedSeq ==
  ASSUME NEW S, NEW o \in Seq(S), NEW v \in S
  PROVE  /\ Prepended(v, o) \in Seq(S) /\ Len(Prepended(v, o)) = Len(o) + 1
         /\ Prepended(v, o)[1] = v
         /\ \A n \in 1..Len(o) : Prepended(v, o)[n + 1] = o[n]
<1> DEFINE one == <<v>>
           t == one \o o
<1>1. one \in Seq(S) /\ Len(one) = 1 /\ one[1] = v
  OBVIOUS
<1> HIDE DEF one
<1>2. /\ t \in Seq(S) /\ Len(t) = Len(one) + Len(o) /\ t[1] = one[1]
      /\ \A n \in 1..Len(o) : t[Len(one) + n] = o[n]
  BY <1>1, Concat
<1> HIDE DEF t
<1>3. ASSUME NEW n \in 1..Len(o) PROVE t[n + 1] = o[n]
  BY <1>1, <1>2
<1> QED BY <1>1, <1>2, <1>3 DEF Prepended, t, one

LEMMA SplicedSeq ==
  ASSUME NEW S, NEW o \in Seq(S), NEW v \in S, NEW a \in 1..(Len(o) - 1)
  PROVE  /\ Spliced(v, o, a) \in Seq(S) /\ Len(Spliced(v, o, a)) = Len(o) - 1
         /\ \A n \in 1..(a - 1) : Spliced(v, o, a)[n] = o[n]
         /\ Spliced(v, o, a)[a] = v
         /\ \A n \in (a + 1)..(Len(o) - 1) : Spliced(v, o, a)[n] = o[n + 1]
<1> DEFINE front == SubSeq(o, 1, a - 1)
           one == <<v>>
           lead == front \o one
           back == SubSeq(o, a + 2, Len(o))
           t == lead \o back
<1>1. Len(o) \in Nat /\ a \in Nat /\ 1 <= a /\ a < Len(o)
  OBVIOUS
<1>2. front \in Seq(S) /\ Len(front) = a - 1 /\ \A n \in 1..(a - 1) : front[n] = o[n]
  OBVIOUS
<1>3. one \in Seq(S) /\ Len(one) = 1 /\ one[1] = v
  OBVIOUS
<1>4. back \in Seq(S) /\ Len(back) = Len(o) - a - 1 /\ \A n \in 1..(Len(o) - a - 1) : back[n] = o[n + a + 1]
  OBVIOUS
<1> HIDE DEF front, one, back
<1>5. lead \in Seq(S) /\ Len(lead) = a
  <2>1. lead \in Seq(S) /\ Len(lead) = Len(front) + Len(one)
    BY <1>2, <1>3, Concat
  <2> HIDE DEF lead
  <2>2. Len(front) = a - 1 /\ Len(one) = 1 /\ a \in Nat
    BY <1>1, <1>2, <1>3
  <2> QED BY <2>1, <2>2
<1>6. \A n \in 1..(a - 1) : lead[n] = o[n]
  BY <1>2, <1>3, Concat
<1>7. lead[a] = v
  <2>1. lead[Len(front) + 1] = one[1]
    BY <1>2, <1>3, Concat
  <2>2. Len(front) + 1 = a
    BY <1>1, <1>2
  <2> QED BY <1>3, <2>1, <2>2
<1> HIDE DEF lead
<1>8. t \in Seq(S) /\ Len(t) = Len(o) - 1
  <2>1. t \in Seq(S) /\ Len(t) = Len(lead) + Len(back)
    BY <1>4, <1>5, Concat
  <2> HIDE DEF t
  <2>2. Len(lead) = a /\ Len(back) = Len(o) - a - 1 /\ a \in Nat /\ Len(o) \in Nat
    BY <1>1, <1>4, <1>5
  <2> QED BY <2>1, <2>2
<1>9. \A n \in 1..a : t[n] = lead[n]
  BY <1>4, <1>5, Concat
<1>10. \A n \in 1..(Len(o) - a - 1) : t[a + n] = back[n]
  BY <1>4, <1>5, Concat
<1> HIDE DEF t
<1>11. ASSUME NEW n \in (a + 1)..(Len(o) - 1) PROVE t[n] = o[n + 1]
  <2> DEFINE m == n - a
  <2>1. m \in 1..(Len(o) - a - 1) /\ a + m = n /\ m + a + 1 = n + 1
    BY <1>1
  <2> HIDE DEF m
  <2>2. t[n] = back[m] /\ back[m] = o[n + 1]
    BY <1>4, <1>10, <2>1
  <2> QED BY <2>2
<1>12. t[a] = v /\ \A n \in 1..(a - 1) : t[n] = o[n]
  BY <1>1, <1>6, <1>7, <1>9
<1> QED BY <1>8, <1>11, <1>12 DEF Spliced, t, lead, front, one, back

\* A sequence without its first element.
LEMMA TailSeq ==
  ASSUME NEW S, NEW l \in Seq(S), Len(l) > 1
  PROVE  /\ Tail(l) \in Seq(S) /\ Len(Tail(l)) = Len(l) - 1 /\ Tail(l) # <<>>
         /\ Head(l) = l[1] /\ \A n \in 1..(Len(l) - 1) : Tail(l)[n] = l[n + 1]
<1> DEFINE t == Tail(l)
<1>1. l # <<>> /\ Len(l) \in Nat
  OBVIOUS
<1>2. t \in Seq(S) /\ Len(t) = Len(l) - 1
  BY <1>1
<1>3. \A n \in 1..(Len(l) - 1) : t[n] = l[n + 1]
  BY <1>1
<1>4. Head(l) = l[1]
  BY <1>1
<1> HIDE DEF t
<1>5. t # <<>>
  <2>1. Len(t) > 0
    BY <1>1, <1>2
  <2> QED BY <2>1
<1>6. /\ t \in Seq(S) /\ Len(t) = Len(l) - 1 /\ t # <<>>
      /\ Head(l) = l[1] /\ \A n \in 1..(Len(l) - 1) : t[n] = l[n + 1]
  BY <1>2, <1>3, <1>4, <1>5
<1> QED BY <1>6 DEF t

\* Two neighbours in a sequence.
LEMMA PairSeq ==
  ASSUME NEW S, NEW o \in Seq(S), NEW a \in 1..(Len(o) - 1)
  PROVE  LET l == SubSeq(o, a, a + 1)
         IN  DOMAIN l = 1..2 /\ l[1] = o[a] /\ l[2] = o[a + 1]
<1> DEFINE b == a + 1
           l == SubSeq(o, a, b)
<1>1. Len(o) \in Nat /\ a \in Nat /\ 1 <= a /\ a < Len(o) /\ b \in Nat /\ b <= Len(o) /\ b - a + 1 = 2
  OBVIOUS
<1> HIDE DEF b
<1>2. l = [i \in 1..(b - a + 1) |-> o[a + i - 1]]
  BY <1>1
<1> HIDE DEF l
<1>3. DOMAIN l = 1..2
  BY <1>1, <1>2
<1>4. l[1] = o[a + 1 - 1] /\ l[2] = o[a + 2 - 1]
  BY <1>1, <1>2
<1>5. a + 1 - 1 = a /\ a + 2 - 1 = a + 1
  BY <1>1
<1> QED BY <1>3, <1>4, <1>5 DEF l, b
-----------------------------------------------------------------------------
(* Types of the parts.                                                     *)

\* A non-empty set of positions has a greatest element.
LEMMA GreatestIndex ==
  ASSUME NEW n \in Nat, NEW S, S \subseteq 1..n, S # {}
  PROVE  \E x \in S : \A y \in S : y <= x
<1> DEFINE R == OpToRel(<, Nat)
           T == {n - x : x \in S}
<1>1. T \subseteq Nat /\ T # {}
  <2>1. ASSUME NEW x \in S PROVE n - x \in Nat
    <3>1. x \in 1..n
      OBVIOUS
    <3> QED BY <3>1
  <2> QED BY <2>1
<1>2. \E m \in T : \A y \in T : ~(<<y, m>> \in R)
  <2>1. IsWellFoundedOn(R, Nat)
    BY NatLessThanWellFounded
  <2> HIDE DEF R, T
  <2> QED BY <1>1, <2>1, WFMin
<1>3. PICK m \in T : \A y \in T : m <= y
  <2>1. ASSUME NEW m \in Nat, NEW y \in Nat, ~(<<y, m>> \in R) PROVE m <= y
    BY <2>1, SMT DEF OpToRel
  <2> HIDE DEF R, T
  <2> QED BY <1>1, <1>2, <2>1
<1>4. PICK x \in S : m = n - x
  BY <1>3
<1>5. ASSUME NEW y \in S PROVE y <= x
  <2>1. x \in 1..n /\ y \in 1..n /\ n - y \in T
    OBVIOUS
  <2>2. n - x <= n - y
    BY <1>3, <1>4, <2>1
  <2> QED BY <2>1, <2>2
<1> QED BY <1>4, <1>5

\* Replay rebuilds a level, whatever the log holds.
LEMMA ReplayType ==
  ASSUME NEW l \in Log!Contents
  PROVE  Log!Replay(l) \in Level
<1>1. ASSUME NEW k \in Keys PROVE Log!LastOf(l, k) \in Cells \union {Absent}
  <2> DEFINE hits == {i \in Log!Readable(l) : l[i].key = k}
  <2>1. Len(l) \in Nat /\ hits \subseteq 1..Len(l) /\ \A i \in hits : l[i] \in Log!Record
    BY DEF Log!Contents, Log!Readable
  <2>2. CASE hits = {}
    BY <2>2 DEF Log!LastOf
  <2>3. CASE hits # {}
    <3> DEFINE last == CHOOSE i \in hits : \A j \in hits : j <= i
    <3> HIDE DEF hits
    <3>1. last \in hits
      BY <2>1, <2>3, GreatestIndex
    <3>2. l[last].val \in Cells
      BY <2>1, <3>1 DEF Log!Record
    <3> QED BY <2>3, <3>2 DEF Log!LastOf, hits
  <2> QED BY <2>2, <2>3
<1> QED BY <1>1 DEF Log!Replay, Level

\* What the live slot holds, or the zero metadata, is metadata.
LEMMA GetType ==
  Meta!MetaTypeOK =>
      /\ Meta!Get \in Meta!MetaData
      /\ Meta!Get.version \in 0..MaxVersion /\ Live \in Seq(Names)
      /\ Meta!Target \in {0, 1}
<1> SUFFICES ASSUME Meta!MetaTypeOK
             PROVE  /\ Meta!Get \in Meta!MetaData
                    /\ Meta!Get.version \in 0..MaxVersion /\ Live \in Seq(Names)
                    /\ Meta!Target \in {0, 1}
  OBVIOUS
<1>1. Meta!Zero \in Meta!MetaData
  BY KVAssumption DEF Meta!MetaConstants, Meta!Zero, Meta!MetaData
<1>2. slots[0].data \in Meta!MetaData /\ slots[1].data \in Meta!MetaData
  BY DEF Meta!MetaTypeOK, Meta!Slots, Meta!Item
<1>3. Meta!Get \in Meta!MetaData
  BY <1>1, <1>2 DEF Meta!Get, Meta!LiveOf
<1> QED BY <1>3 DEF Meta!MetaData, Live, Meta!Target

\* The steps of the metadata store keep its types.
LEMMA MetaTypes ==
  ASSUME Meta!MetaTypeOK,
         \/ \E fresh \in BOOLEAN : Meta!MetaOpen(fresh)
         \/ \E d \in Meta!MetaData : Meta!SetTruncate(d)
         \/ Meta!SetWrite \/ Meta!SetSync \/ Meta!SetFails
         \/ Meta!MetaClose \/ Meta!MetaKill \/ Meta!MetaPowerLoss
  PROVE  Meta!MetaTypeOK'
<1>1. Meta!Zero \in Meta!MetaData /\ Meta!Blank \in Meta!Item /\ Meta!Target \in Meta!Slots
  BY KVAssumption DEF Meta!MetaConstants, Meta!Zero, Meta!MetaData, Meta!Blank, Meta!Item,
                      Meta!Target, Meta!Slots
<1>2. Meta!Whole(pending) \in Meta!Item
  BY DEF Meta!MetaTypeOK, Meta!Whole, Meta!Item
<1> USE <1>1 DEF Meta!MetaTypeOK
<1>3. ASSUME NEW fresh \in BOOLEAN, Meta!MetaOpen(fresh) PROVE Meta!MetaTypeOK'
  BY <1>3 DEF Meta!MetaOpen, Meta!Loaded
<1>4. ASSUME NEW d \in Meta!MetaData, Meta!SetTruncate(d) PROVE Meta!MetaTypeOK'
  BY <1>4 DEF Meta!SetTruncate, Meta!Unsynced
<1>5. CASE Meta!SetWrite
  BY <1>2, <1>5 DEF Meta!SetWrite, Meta!Unsynced
<1>6. CASE Meta!SetSync
  BY <1>2, <1>6 DEF Meta!SetSync
<1>7. CASE Meta!SetFails
  BY <1>7 DEF Meta!SetFails
<1>8. CASE Meta!MetaClose
  BY <1>8 DEF Meta!MetaClose
<1>9. CASE Meta!MetaKill
  BY <1>9 DEF Meta!MetaKill
<1>10. CASE Meta!MetaPowerLoss
  BY <1>10 DEF Meta!MetaPowerLoss, Meta!Slots
<1> QED BY <1>3, <1>4, <1>5, <1>6, <1>7, <1>8, <1>9, <1>10

\* The steps of the log keep its types.
LEMMA LogTypes ==
  ASSUME Log!LogTypeOK,
         \/ Log!LogOpen \/ Log!LogWriteShort \/ Log!LogTruncate \/ Log!LogSync \/ Log!LogSyncFails
         \/ Log!LogClose \/ Log!LogKill \/ Log!LogPowerLoss
         \/ \E r \in Log!Record : Log!LogWrite(r)
  PROVE  Log!LogTypeOK'
<1> USE DEF Log!LogTypeOK
<1>1. ASSUME NEW r \in Log!Record \union {Torn} PROVE Append(log, r) \in Log!Contents
  BY DEF Log!Contents
<1>2. Append(log, Torn) \in Log!Contents /\ <<>> \in Log!Contents
  BY <1>1 DEF Log!Contents
<1> HIDE DEF Log!Contents
<1>3. ASSUME NEW r \in Log!Record, Log!LogWrite(r) PROVE Log!LogTypeOK'
  BY <1>1, <1>2, <1>3 DEF Log!LogWrite, Log!Unsynced
<1>4. CASE Log!LogWriteShort
  BY <1>2, <1>4 DEF Log!LogWriteShort, Log!Unsynced
<1>5. CASE Log!LogTruncate
  BY <1>2, <1>5 DEF Log!LogTruncate, Log!Unsynced
<1>6. CASE Log!LogSync \/ Log!LogSyncFails
  BY <1>6 DEF Log!LogSync, Log!LogSyncFails
<1>7. CASE Log!LogOpen \/ Log!LogClose \/ Log!LogKill \/ Log!LogPowerLoss
  BY <1>7 DEF Log!LogOpen, Log!LogClose, Log!LogKill, Log!LogPowerLoss
<1> QED BY <1>3, <1>4, <1>5, <1>6, <1>7

\* An SSTable that is built holds a level, whatever its inputs are.
LEMMA NewTableType ==
  ASSUME mem \in Level, Absent \notin Cells
  PROVE  NewTable \in Level
<1>1. \A t : Contents(t) \in Level
  BY DEF Contents, Empty, Level
<1>2. ASSUME NEW x \in Level, NEW y \in Level PROVE Merged(x, y) \in Level
  BY DEF Merged, Level
<1>3. ASSUME NEW x \in Level PROVE NoDeleted(x) \in Level
  BY DEF NoDeleted, Level
<1> QED BY <1>1, <1>2, <1>3 DEF NewTable

\* The list of tables after a flush: the new one in front.
LEMMA FlushTables ==
  ASSUME Live \in Seq(Names), version \in Names, job.kind = "flush"
  PROVE  /\ NewTables \in Seq(Names) /\ Len(NewTables) = Len(Live) + 1
         /\ NewTables[1] = version
         /\ \A n \in 1..Len(Live) : NewTables[n + 1] = Live[n]
<1>1. NewTables = Prepended(version, Live)
  BY DEF NewTables, Live, Prepended
<1> DEFINE o == Live
<1> HIDE DEF o
<1>2. o \in Seq(Names)
  BY DEF o
<1>3. /\ Prepended(version, o) \in Seq(Names) /\ Len(Prepended(version, o)) = Len(o) + 1
      /\ Prepended(version, o)[1] = version
      /\ \A n \in 1..Len(o) : Prepended(version, o)[n + 1] = o[n]
  BY <1>2, PrependedSeq
<1> QED BY <1>1, <1>3 DEF o

\* The list of tables after a merge: the new one in the place of two.
LEMMA MergeTables ==
  ASSUME Live \in Seq(Names), version \in Names, job.kind # "flush",
         job.at \in 1..(Len(Live) - 1)
  PROVE  /\ NewTables \in Seq(Names) /\ Len(NewTables) = Len(Live) - 1
         /\ \A n \in 1..(job.at - 1) : NewTables[n] = Live[n]
         /\ NewTables[job.at] = version
         /\ \A n \in (job.at + 1)..(Len(Live) - 1) : NewTables[n] = Live[n + 1]
<1>1. NewTables = Spliced(version, Live, job.at)
  BY DEF NewTables, Live, Spliced
<1> DEFINE o == Live
           a == job.at
<1> HIDE DEF o, a
<1>2. o \in Seq(Names) /\ a \in 1..(Len(o) - 1)
  BY DEF o, a
<1>3. /\ Spliced(version, o, a) \in Seq(Names) /\ Len(Spliced(version, o, a)) = Len(o) - 1
      /\ \A n \in 1..(a - 1) : Spliced(version, o, a)[n] = o[n]
      /\ Spliced(version, o, a)[a] = version
      /\ \A n \in (a + 1)..(Len(o) - 1) : Spliced(version, o, a)[n] = o[n + 1]
  BY <1>2, SplicedSeq
<1> QED BY <1>1, <1>3 DEF o, a
-----------------------------------------------------------------------------
(* The inductive invariant of the engine's types.                          *)

\* What the running call has to do fits the bounds and the metadata.
JobFits ==
    /\ pc \in {"build", "meta"} =>
           /\ version \in Names
           /\ \/ job.kind = "flush" /\ version + Len(Live) <= MaxVersion
              \/ /\ job.kind = "merge" /\ version + Len(Live) <= MaxVersion + 2
                 /\ job.at \in 1..(Len(main) - 1)
    /\ InSet =>
           /\ pending.version = version /\ pending.version > Meta!Get.version
           /\ \/ job.kind = "flush" /\ Len(pending.tables) = Len(Live) + 1
              \/ job.kind = "merge" /\ Len(pending.tables) = Len(Live) - 1 /\ job.left # <<>>
    /\ pc \in {"levels", "clear", "truncate", "scan", "remove"} =>
           version + Len(Live) <= MaxVersion + 1
    /\ pc \in {"levels", "clear", "truncate"} => version \in Names
    /\ pc = "levels" => job.kind = "flush" \/ (job.kind = "merge" /\ job.at >= 1 /\ job.left # <<>>)
    /\ pc = "remove" => job.kind = "merge" /\ job.at >= 1 /\ job.left # <<>>
    /\ pc = "scan" => job.at >= 1

\* The engine, its metadata and its log are in the same phase of a call.
Phases ==
    /\ pc = "down" <=> metaPhase = "down"
    /\ InSet => pc = "meta"
    /\ pc = "down" <=> logPhase = "closed"
    /\ pc = "write" <=> logPhase = "writing"
    /\ pc = "truncate" <=> logPhase = "truncating"
    /\ pc # "write" => op = Nothing
    /\ pc = "write" => op \in Log!Record /\ log # <<>> /\ log[Len(log)] = op
    /\ pc = "truncate" => log = <<>> /\ mem = Empty
    /\ log \in logDisk

\* Except where it is about to be replaced, kv.main is no longer than the list
\* in the metadata; it is shorter after openLevels has failed.
LevelsFit == pc \notin {"down", "levels"} => Len(main) <= Len(Live)

EngineInv == TypeOK /\ JobFits /\ Phases /\ LevelsFit

\* A step that leaves the metadata alone leaves alone what is read from it.
LEMMA MetaQuiet ==
  ASSUME Meta!MetaTypeOK, UNCHANGED metaVars
  PROVE  /\ Meta!MetaTypeOK' /\ Meta!Get' = Meta!Get /\ Live' = Live
         /\ (InSet' <=> InSet) /\ metaPhase' = metaPhase /\ pending' = pending
         /\ faults' = faults
<1>1. /\ slots' = slots /\ cached' = cached /\ durable' = durable
      /\ metaPhase' = metaPhase /\ pending' = pending /\ faults' = faults
  BY DEF metaVars
<1>2. Meta!Get' = Meta!Get
  BY <1>1 DEF Meta!Get
<1> QED BY <1>1, <1>2 DEF Meta!MetaTypeOK, Live, InSet

\* The same for the log.
LEMMA LogQuiet ==
  ASSUME Log!LogTypeOK, UNCHANGED logVars
  PROVE  Log!LogTypeOK' /\ log' = log /\ logDisk' = logDisk /\ logPhase' = logPhase
  BY DEF logVars, Log!LogTypeOK

\* Up to its Sync, meta.Set changes nothing a reader of the metadata sees.
LEMMA SetHidden ==
  ASSUME \/ \E d \in Meta!MetaData : Meta!SetTruncate(d)
         \/ Meta!SetWrite \/ Meta!SetFails
  PROVE  Meta!Get' = Meta!Get /\ Live' = Live
<1>1. slots' = slots
  BY DEF Meta!SetTruncate, Meta!SetWrite, Meta!SetFails
<1> QED BY <1>1 DEF Meta!Get, Live

\* After its Sync, what was pending is live.
LEMMA SyncShows ==
  ASSUME Meta!MetaTypeOK, Meta!SetSync, pending.version > Meta!Get.version
  PROVE  Meta!Get' = pending
<1>1. slots[0] \in Meta!Item /\ slots[1] \in Meta!Item /\ pending.version \in Nat
  BY DEF Meta!MetaTypeOK, Meta!Slots, Meta!MetaData
<1>2. CASE Meta!Target = 0
  <2>1. slots'[0] = Meta!Whole(pending) /\ slots'[1] = slots[1]
    BY <1>2 DEF Meta!SetSync, Meta!MetaTypeOK, Meta!Slots
  <2>2. slots[1].valid => slots[1].data = Meta!Get
    BY <1>1, <1>2 DEF Meta!Target, Meta!Current, Meta!Get, Meta!LiveOf, Meta!CurrentOf, Meta!Item
  <2>3. Meta!CurrentOf(slots'[0], slots'[1]) = 0
    BY <1>1, <2>1, <2>2 DEF Meta!CurrentOf, Meta!Whole, Meta!Item, Meta!MetaData
  <2> QED BY <2>1, <2>3 DEF Meta!Get, Meta!LiveOf, Meta!Whole
<1>3. CASE Meta!Target = 1
  <2>1. slots'[1] = Meta!Whole(pending) /\ slots'[0] = slots[0]
    BY <1>3 DEF Meta!SetSync, Meta!MetaTypeOK, Meta!Slots
  <2>2. slots[0].valid => slots[0].data = Meta!Get
    BY <1>1, <1>3 DEF Meta!Target, Meta!Current, Meta!Get, Meta!LiveOf, Meta!CurrentOf, Meta!Item
  <2>3. Meta!CurrentOf(slots'[0], slots'[1]) = 1
    BY <1>1, <2>1, <2>2 DEF Meta!CurrentOf, Meta!Whole, Meta!Item, Meta!MetaData
  <2> QED BY <2>1, <2>3 DEF Meta!Get, Meta!LiveOf, Meta!Whole
<1> QED BY <1>2, <1>3, GetType
-----------------------------------------------------------------------------
(* Every step keeps the types.                                             *)

\* The facts about numbers and sequences the steps below work with.
LEMMA Ranges ==
  ASSUME EngineInv
  PROVE  /\ Meta!MetaTypeOK /\ Log!LogTypeOK
         /\ Live \in Seq(Names) /\ Len(Live) \in Nat /\ Len(main) \in Nat
         /\ version \in Nat /\ version <= MaxVersion /\ MaxVersion \in Nat
<1>1. Meta!MetaTypeOK /\ Log!LogTypeOK /\ main \in Seq(Names) /\ version \in 0..MaxVersion
  BY DEF EngineInv, TypeOK
<1>2. Live \in Seq(Names)
  BY <1>1, GetType
<1>3. MaxVersion \in Nat
  BY KVAssumption DEF Meta!MetaConstants
<1> QED BY <1>1, <1>2, <1>3

\* In a new directory everything has its type.
LEMMA InitTypes == Init => EngineInv
<1> SUFFICES ASSUME Init PROVE EngineInv
  OBVIOUS
<1>1. MaxVersion \in Nat /\ Meta!Zero \in Meta!MetaData /\ Meta!Blank \in Meta!Item
  BY KVAssumption DEF Meta!MetaConstants, Meta!Zero, Meta!MetaData, Meta!Blank, Meta!Item
<1>2. Meta!MetaTypeOK
  BY <1>1 DEF Init, Meta!MetaInit, Meta!MetaTypeOK
<1>3. Log!LogTypeOK
  BY DEF Init, Log!LogInit, Log!LogTypeOK, Log!Contents
<1>4. TypeOK
  <2>1. mem \in Level /\ files \in [Names -> Level \union {Missing, Partial}]
    BY DEF Init, Empty, Level
  <2>2. job \in Job
    BY <1>1 DEF Init, Idle, Job
  <2>3. main \in Seq(Names) /\ version \in 0..MaxVersion
    BY <1>1 DEF Init
  <2> QED BY <1>2, <1>3, <2>1, <2>2, <2>3 DEF Init, TypeOK
<1> QED BY <1>4 DEF Init, Meta!MetaInit, Log!LogInit, EngineInv, JobFits, Phases, LevelsFit, InSet

\* Open reads a list of tables and a MemTable.
LEMMA OpenTypes ==
  ASSUME EngineInv, NEW fresh \in BOOLEAN, Open(fresh)
  PROVE  EngineInv'
<1>1. Meta!MetaTypeOK' /\ Log!LogTypeOK'
  BY Ranges, MetaTypes, LogTypes DEF Open
<1>2. Meta!Get'.version \in 0..MaxVersion /\ Live' \in Seq(Names)
  <2>1. (Meta!MetaTypeOK =>
            /\ Meta!Get \in Meta!MetaData
            /\ Meta!Get.version \in 0..MaxVersion /\ Live \in Seq(Names)
            /\ Meta!Target \in {0, 1})'
    BY GetType, PTL
  <2> QED BY <1>1, <2>1
<1>3. mem' \in Level
  BY Ranges, ReplayType DEF Open, Log!LogTypeOK
<1>4. TypeOK'
  BY <1>1, <1>2, <1>3 DEF EngineInv, TypeOK, Open, Live
<1>5. LevelsFit'
  <2>1. main' = Live' /\ Len(Live') \in Nat
    BY <1>2 DEF Open, Live
  <2> QED BY <2>1 DEF LevelsFit
<1>6. JobFits' /\ Phases'
  BY DEF EngineInv, Open, Meta!MetaOpen, Log!LogOpen, JobFits, Phases, InSet
<1> QED BY <1>4, <1>5, <1>6 DEF EngineInv

\* Close and the crashes.
LEMMA StopTypes ==
  ASSUME EngineInv, Close \/ Kill \/ PowerLoss
  PROVE  EngineInv'
<1>1. Meta!MetaTypeOK' /\ Log!LogTypeOK'
  BY Ranges, MetaTypes, LogTypes DEF Close, Kill, PowerLoss
<1>2. Idle \in Job
  BY Ranges DEF Idle, Job
<1>3. Empty \in Level /\ <<>> \in Seq(Names) /\ 0 \in 0..MaxVersion
  BY Ranges DEF Empty, Level
<1>4. TypeOK'
  BY <1>1, <1>2, <1>3 DEF EngineInv, TypeOK, Close, Kill, PowerLoss, Crash, memVars
<1>5. metaPhase' = "down" /\ logPhase' = "closed" /\ pc' = "down" /\ op' = Nothing
  BY DEF Close, Kill, PowerLoss, Crash, Meta!MetaClose, Meta!MetaKill, Meta!MetaPowerLoss,
         Log!LogClose, Log!LogKill, Log!LogPowerLoss, EngineInv, Phases
<1>6. log' \in logDisk'
  BY DEF Close, Kill, PowerLoss, Log!LogClose, Log!LogKill, Log!LogPowerLoss, EngineInv, Phases
<1> QED BY <1>4, <1>5, <1>6 DEF EngineInv, JobFits, Phases, LevelsFit, InSet

\* The steps of SetEx and Del.
LEMMA WriteTypes ==
  ASSUME EngineInv,
         (\E r \in Log!Record : StartWrite(r)) \/ WriteDone \/ WriteShort \/ WriteFails
  PROVE  EngineInv'
<1>1. /\ Meta!MetaTypeOK' /\ Live' = Live /\ (InSet' <=> InSet) /\ metaPhase' = metaPhase
      /\ pending' = pending
  BY Ranges, MetaQuiet DEF StartWrite, WriteDone, WriteShort, WriteFails
<1>2. Log!LogTypeOK'
  BY Ranges, LogTypes DEF StartWrite, WriteDone, WriteShort, WriteFails
<1>3. mem' \in Level
  <2>1. mem \in Level
    BY DEF EngineInv, TypeOK
  <2>2. CASE WriteDone
    <3>1. op \in Log!Record /\ mem' = [mem EXCEPT ![op.key] = op.val]
      BY <2>2 DEF WriteDone, EngineInv, Phases
    <3>2. op.key \in Keys /\ op.val \in Cells
      BY <3>1 DEF Log!Record
    <3> QED BY <2>1, <3>1, <3>2 DEF Level
  <2>3. CASE mem' = mem
    BY <2>1, <2>3
  <2> QED BY <2>2, <2>3 DEF StartWrite, WriteShort, WriteFails, memVars
<1>4. /\ version' = version /\ main' = main /\ files' = files /\ job' = job
      /\ pc' \in {"idle", "write"} /\ pc \in {"idle", "write"}
  BY DEF StartWrite, WriteDone, WriteShort, WriteFails, memVars
<1>5. op' \in Log!Record \union {Nothing}
  BY DEF EngineInv, TypeOK, StartWrite, WriteDone, WriteShort, WriteFails
<1>6. TypeOK'
  BY <1>1, <1>2, <1>3, <1>4, <1>5 DEF EngineInv, TypeOK
<1>7. ASSUME NEW r \in Log!Record, StartWrite(r)
      PROVE  log' # <<>> /\ log'[Len(log')] = r /\ log' \in logDisk' /\ op' = r /\ pc' = "write"
             /\ logPhase' = "writing"
  BY <1>7, Ranges DEF StartWrite, Log!LogWrite, Log!Unsynced, Log!LogTypeOK, Log!Contents
<1>8. Phases'
  BY <1>1, <1>4, <1>7
     DEF EngineInv, Phases, StartWrite, WriteDone, WriteShort, WriteFails, Log!LogSync,
         Log!LogWriteShort, Log!LogSyncFails, Log!Unsynced
<1> QED BY <1>1, <1>4, <1>6, <1>8 DEF EngineInv, JobFits, LevelsFit, Phases

\* The beginning of a table: the next name.
LEMMA StartTypes ==
  ASSUME EngineInv, CompactFlush \/ CompactScan \/ ScanMerge \/ ScanDone
  PROVE  EngineInv'
<1>1. /\ Meta!MetaTypeOK' /\ Live' = Live /\ (InSet' <=> InSet) /\ metaPhase' = metaPhase
      /\ pending' = pending
  BY Ranges, MetaQuiet DEF CompactFlush, CompactScan, ScanMerge, ScanDone, StartBuild
<1>2. Log!LogTypeOK' /\ log' = log /\ logDisk' = logDisk /\ logPhase' = logPhase
  BY Ranges, LogQuiet DEF CompactFlush, CompactScan, ScanMerge, ScanDone, StartBuild
<1>3. mem' = mem /\ main' = main /\ op' = op /\ pc \in {"idle", "scan"} /\ ~InSet
  BY DEF CompactFlush, CompactScan, ScanMerge, ScanDone, StartBuild, memVars, EngineInv, Phases
<1>4. LevelsFit'
  BY <1>1, <1>3 DEF EngineInv, LevelsFit
<1>5. Phases'
  BY <1>1, <1>2, <1>3 DEF EngineInv, Phases, CompactFlush, CompactScan, ScanMerge, ScanDone, StartBuild
<1>6. <<>> \in Seq(Names) /\ 0 \in 0..MaxVersion
  BY Ranges
<1>7. CASE CompactScan \/ ScanDone
  <2>1. CompactScan => version + Len(Live) + 1 <= MaxVersion
    BY DEF CompactScan, EnoughVersions, Live
  <2>2. job' \in Job
    <3>1. CompactScan => 1 \in 0..MaxVersion
      BY <2>1, Ranges
    <3>2. Idle \in Job
      BY <1>6 DEF Idle, Job
    <3>3. 1 \in 0..MaxVersion => Scan(1) \in Job
      BY <1>6 DEF Scan, Job
    <3> QED BY <1>7, <3>1, <3>2, <3>3 DEF CompactScan, ScanDone
  <2>3. TypeOK'
    BY <1>1, <1>2, <1>3, <1>7, <2>2 DEF EngineInv, TypeOK, CompactScan, ScanDone, memVars
  <2>4. JobFits'
    <3>1. CompactScan => version + Len(Live) <= MaxVersion + 1
      BY <2>1, Ranges
    <3> QED BY <1>1, <1>3, <1>7, <3>1 DEF CompactScan, ScanDone, memVars, JobFits, Scan
  <2> QED BY <1>4, <1>5, <2>3, <2>4 DEF EngineInv
<1>8. ASSUME NEW j, StartBuild(j), j \in Job, version + 1 <= MaxVersion
      PROVE  TypeOK'
  <2>1. version' \in Names /\ version' \in 0..MaxVersion
    BY <1>8, Ranges DEF StartBuild, Names
  <2>2. files' \in [Names -> Level \union {Missing, Partial}]
    BY <1>8, <2>1 DEF StartBuild, Created, EngineInv, TypeOK
  <2> QED BY <1>1, <1>2, <1>3, <1>8, <2>1, <2>2 DEF StartBuild, EngineInv, TypeOK
<1>9. CASE CompactFlush
  <2> DEFINE j == [kind |-> "flush", at |-> 0, left |-> <<>>]
  <2>1. StartBuild(j) /\ version + Len(Live) + 1 <= MaxVersion
    BY <1>9 DEF CompactFlush, EnoughVersions, Live
  <2>2. j \in Job /\ j.kind = "flush"
    BY <1>6 DEF Job
  <2> HIDE DEF j
  <2>3. version + 1 <= MaxVersion /\ version + 1 + Len(Live) <= MaxVersion /\ version + 1 \in Names
    BY <2>1, Ranges DEF Names
  <2>4. JobFits'
    BY <1>1, <1>3, <2>1, <2>2, <2>3 DEF StartBuild, JobFits
  <2> QED BY <1>4, <1>5, <1>8, <2>1, <2>2, <2>3, <2>4 DEF EngineInv
<1>10. CASE ScanMerge
  <2>1. PICK i \in Due(job.at) : StartBuild([kind |-> "merge", at |-> i, left |-> <<>>])
    BY <1>10 DEF ScanMerge
  <2> DEFINE j == [kind |-> "merge", at |-> i, left |-> <<>>]
  <2>2. /\ job.at >= 1 /\ version + Len(Live) <= MaxVersion + 1 /\ Len(main) <= Len(Live)
        /\ job.at \in Nat
    BY <1>10 DEF ScanMerge, EngineInv, TypeOK, Job, JobFits, LevelsFit
  <2>3. i \in job.at..(Len(main) - 1)
    BY DEF Due
  <2>4. i \in 1..(Len(main) - 1) /\ version + 1 <= MaxVersion /\ i \in 0..MaxVersion
    BY <2>2, <2>3, Ranges
  <2>5. j \in Job /\ j.kind = "merge" /\ j.at = i
    BY <1>6, <2>4 DEF Job
  <2> HIDE DEF j
  <2>6. StartBuild(j)
    BY <2>1 DEF j
  <2>7. version + 1 \in Names /\ version + 1 + Len(Live) <= MaxVersion + 2
    <3>1. version \in Nat /\ Len(Live) \in Nat /\ MaxVersion \in Nat
      BY Ranges
    <3> QED BY <2>2, <2>4, <3>1 DEF Names
  <2>8. JobFits'
    BY <1>1, <1>3, <2>4, <2>5, <2>6, <2>7 DEF StartBuild, JobFits
  <2> QED BY <1>4, <1>5, <1>8, <2>4, <2>5, <2>6, <2>8 DEF EngineInv
<1> QED BY <1>7, <1>9, <1>10

\* The table is written, or not.
LEMMA BuildTypes ==
  ASSUME EngineInv, BuildDone \/ BuildFails
  PROVE  EngineInv'
<1>1. /\ Meta!MetaTypeOK' /\ Live' = Live /\ (InSet' <=> InSet) /\ metaPhase' = metaPhase
      /\ pending' = pending
  BY Ranges, MetaQuiet DEF BuildDone, BuildFails
<1>2. Log!LogTypeOK' /\ log' = log /\ logDisk' = logDisk /\ logPhase' = logPhase
  BY Ranges, LogQuiet DEF BuildDone, BuildFails
<1>3. mem' = mem /\ main' = main /\ version' = version /\ op' = op /\ pc = "build" /\ ~InSet
  BY DEF BuildDone, BuildFails, ReturnError, memVars, EngineInv, Phases
<1>4. files' \in [Names -> Level \union {Missing, Partial}]
  <2>1. NewTable \in Level
    BY NewTableType, KVAssumption DEF EngineInv, TypeOK
  <2> QED BY <2>1 DEF EngineInv, TypeOK, BuildDone, BuildFails
<1>5. job' \in Job
  <2>1. Idle \in Job
    BY Ranges DEF Idle, Job
  <2> QED BY <2>1 DEF EngineInv, TypeOK, BuildDone, BuildFails, ReturnError
<1>6. TypeOK'
  BY <1>1, <1>2, <1>3, <1>4, <1>5 DEF EngineInv, TypeOK, BuildDone, BuildFails, ReturnError
<1>7. JobFits'
  BY <1>1, <1>3 DEF EngineInv, JobFits, BuildDone, BuildFails, ReturnError
<1>8. Phases' /\ LevelsFit'
  BY <1>1, <1>2, <1>3 DEF EngineInv, Phases, LevelsFit, BuildDone, BuildFails, ReturnError
<1> QED BY <1>6, <1>7, <1>8 DEF EngineInv

\* The first step of meta.Set: the list it is given.
LEMMA SetTypes ==
  ASSUME EngineInv, MetaSet
  PROVE  EngineInv'
<1>1. /\ version \in Names /\ job \in Job /\ ~InSet /\ pc = "meta"
      /\ \/ job.kind = "flush"
         \/ job.kind = "merge" /\ job.at \in 1..(Len(Live) - 1)
  <2>1. /\ pc = "meta" /\ metaPhase = "idle" /\ job \in Job /\ Len(main) <= Len(Live)
        /\ version \in Names
        /\ job.kind = "flush" \/ (job.kind = "merge" /\ job.at \in 1..(Len(main) - 1))
    BY DEF MetaSet, Meta!SetTruncate, EngineInv, TypeOK, JobFits, LevelsFit
  <2> QED BY <2>1, Ranges DEF InSet
<1>2. /\ NewTables \in Seq(Names)
      /\ job.kind = "flush" => Len(NewTables) = Len(Live) + 1
      /\ job.kind = "merge" => Len(NewTables) = Len(Live) - 1
  <2>1. CASE job.kind = "flush"
    BY <1>1, <2>1, Ranges, FlushTables
  <2>2. CASE job.kind = "merge" /\ job.at \in 1..(Len(Live) - 1)
    BY <1>1, <2>2, Ranges, MergeTables
  <2> QED BY <1>1, <2>1, <2>2
<1> DEFINE d == [version |-> version, tables |-> NewTables]
<1>3. d \in Meta!MetaData /\ d.version = version /\ d.tables = NewTables
  BY <1>1, <1>2, Ranges DEF Meta!MetaData, Names
<1>4. Meta!SetTruncate(d)
  BY DEF MetaSet
<1> HIDE DEF d
<1>5. Meta!MetaTypeOK' /\ Meta!Get' = Meta!Get /\ Live' = Live
  BY <1>3, <1>4, Ranges, MetaTypes, SetHidden
<1>6. Log!LogTypeOK' /\ log' = log /\ logDisk' = logDisk /\ logPhase' = logPhase
  BY Ranges, LogQuiet DEF MetaSet
<1>7. /\ metaPhase' = "truncated" /\ pending' = d /\ InSet' /\ pc' = "meta" /\ op' = op
      /\ files' = files /\ mem' = mem /\ main' = main /\ version' = version
  BY <1>1, <1>4 DEF Meta!SetTruncate, MetaSet, memVars, InSet
<1>8. d.version > Meta!Get.version
  <2>1. Meta!Current = -1 => Meta!Get.version = 0
    BY DEF Meta!Current, Meta!Get, Meta!LiveOf, Meta!Zero
  <2> QED BY <1>1, <1>3, <1>4, <2>1 DEF Meta!SetTruncate, Meta!Accepts, Names
<1>9. /\ job' \in Job /\ job'.kind = job.kind /\ job'.at = job.at
      /\ job.kind = "merge" => job'.left # <<>>
  <2>1. CASE job.kind # "merge"
    BY <1>1, <2>1 DEF MetaSet
  <2>2. CASE job.kind = "merge"
    <3> DEFINE o == Live
               a == job.at
    <3>1. o \in Seq(Names) /\ a \in 1..(Len(o) - 1)
      BY <1>1, <2>2, Ranges
    <3> HIDE DEF o, a
    <3>2. SubSeq(o, a, a + 1) \in Seq(Names) /\ SubSeq(o, a, a + 1) # <<>>
      BY <3>1
    <3>3. job' = [job EXCEPT !.left = SubSeq(o, a, a + 1)]
      BY <2>2 DEF MetaSet, o, a, Live
    <3> QED BY <1>1, <3>2, <3>3 DEF Job
  <2> QED BY <2>1, <2>2
<1>10. TypeOK'
  BY <1>5, <1>6, <1>7, <1>9 DEF EngineInv, TypeOK
<1>11. Phases' /\ LevelsFit'
  BY <1>1, <1>5, <1>6, <1>7 DEF EngineInv, Phases, LevelsFit
<1>12. JobFits'
  BY <1>1, <1>2, <1>3, <1>5, <1>7, <1>8, <1>9 DEF EngineInv, JobFits
<1> QED BY <1>10, <1>11, <1>12 DEF EngineInv

\* The other steps of meta.Set.
LEMMA SetStepTypes ==
  ASSUME EngineInv, MetaWrite \/ MetaDone \/ MetaFails
  PROVE  EngineInv'
<1>1. Meta!MetaTypeOK'
  BY Ranges, MetaTypes DEF MetaWrite, MetaDone, MetaFails
<1>2. Log!LogTypeOK' /\ log' = log /\ logDisk' = logDisk /\ logPhase' = logPhase
  BY Ranges, LogQuiet DEF MetaWrite, MetaDone, MetaFails
<1>3. /\ files' = files /\ mem' = mem /\ main' = main /\ version' = version /\ op' = op
      /\ pc = "meta" /\ InSet
  BY DEF MetaWrite, MetaDone, MetaFails, ReturnError, memVars, InSet, Meta!SetWrite, Meta!SetSync,
         Meta!SetFails
<1>4. Idle \in Job
  BY Ranges DEF Idle, Job
<1>5. TypeOK'
  BY <1>1, <1>2, <1>3, <1>4 DEF EngineInv, TypeOK, MetaWrite, MetaDone, MetaFails, ReturnError
<1>6. Phases'
  BY <1>2, <1>3 DEF EngineInv, Phases, MetaWrite, MetaDone, MetaFails, ReturnError, Meta!SetWrite,
                    Meta!SetSync, Meta!SetFails, InSet
<1>7. JobFits' /\ LevelsFit'
  <2>1. CASE MetaWrite
    <3>1. Meta!Get' = Meta!Get /\ Live' = Live
      BY <2>1, SetHidden DEF MetaWrite
    <3>2. InSet' /\ pc' = pc /\ job' = job /\ pending' = pending
      BY <2>1 DEF MetaWrite, Meta!SetWrite, InSet
    <3> QED BY <1>3, <3>1, <3>2 DEF EngineInv, JobFits, LevelsFit
  <2>2. CASE MetaFails
    <3>1. Meta!Get' = Meta!Get /\ Live' = Live
      BY <2>2, SetHidden DEF MetaFails
    <3> QED BY <1>3, <2>2, <3>1 DEF MetaFails, ReturnError, Meta!SetFails, InSet, EngineInv,
                                    JobFits, LevelsFit
  <2>3. CASE MetaDone
    <3>1. Live' = pending.tables
      BY <1>3, <2>3, Ranges, SyncShows DEF MetaDone, EngineInv, JobFits, Live
    <3>2. /\ pc' = "levels" /\ ~InSet' /\ job' = job /\ version \in Names
          /\ \/ job.kind = "flush" /\ Len(Live') = Len(Live) + 1
             \/ job.kind = "merge" /\ Len(Live') = Len(Live) - 1 /\ job.left # <<>> /\ job.at >= 1
      BY <1>3, <2>3, <3>1 DEF MetaDone, Meta!SetSync, InSet, EngineInv, JobFits
    <3>3. version + Len(Live') <= MaxVersion + 1
      <4>1. \/ job.kind = "flush" /\ version + Len(Live) <= MaxVersion
            \/ job.kind = "merge" /\ version + Len(Live) <= MaxVersion + 2
        BY <1>3 DEF EngineInv, JobFits
      <4> QED BY <3>2, <4>1, Ranges
    <3> QED BY <1>3, <3>2, <3>3 DEF JobFits, LevelsFit
  <2> QED BY <2>1, <2>2, <2>3
<1> QED BY <1>5, <1>6, <1>7 DEF EngineInv

\* The new list of levels is opened, or a part of it.
LEMMA LevelsTypes ==
  ASSUME EngineInv, OpenLevels \/ OpenLevelsFails
  PROVE  EngineInv'
<1>1. /\ Meta!MetaTypeOK' /\ Live' = Live /\ (InSet' <=> InSet) /\ metaPhase' = metaPhase
      /\ pending' = pending
  BY Ranges, MetaQuiet DEF OpenLevels, OpenLevelsFails
<1>2. Log!LogTypeOK' /\ log' = log /\ logDisk' = logDisk /\ logPhase' = logPhase
  BY Ranges, LogQuiet DEF OpenLevels, OpenLevelsFails
<1>3. /\ files' = files /\ mem' = mem /\ version' = version /\ op' = op /\ pc = "levels" /\ ~InSet
  BY DEF OpenLevels, OpenLevelsFails, ReturnError, EngineInv, Phases
<1>4. main' \in Seq(Names) /\ Len(main') <= Len(Live)
  <2>1. CASE OpenLevels
    BY <2>1, Ranges DEF OpenLevels, Live
  <2>2. CASE OpenLevelsFails
    <3> DEFINE o == Live
    <3>1. PICK n \in 0..(Len(o) - 1) : main' = SubSeq(o, 1, n)
      BY <2>2 DEF OpenLevelsFails, Live
    <3>2. o \in Seq(Names)
      BY Ranges
    <3> HIDE DEF o
    <3>3. main' \in Seq(Names) /\ Len(main') <= Len(o)
      BY <3>1, <3>2
    <3> QED BY <3>3 DEF o
  <2> QED BY <2>1, <2>2
<1>5. job' \in Job
  <2>1. Idle \in Job
    BY Ranges DEF Idle, Job
  <2> QED BY <2>1 DEF EngineInv, TypeOK, OpenLevels, OpenLevelsFails, ReturnError
<1>6. TypeOK'
  BY <1>1, <1>2, <1>3, <1>4, <1>5 DEF EngineInv, TypeOK, OpenLevels, OpenLevelsFails, ReturnError
<1>7. Phases' /\ LevelsFit'
  BY <1>1, <1>2, <1>3, <1>4 DEF EngineInv, Phases, LevelsFit, OpenLevels, OpenLevelsFails, ReturnError
<1>8. JobFits'
  BY <1>1, <1>3 DEF EngineInv, JobFits, OpenLevels, OpenLevelsFails, ReturnError
<1> QED BY <1>6, <1>7, <1>8 DEF EngineInv

\* The MemTable and the log are emptied.
LEMMA ClearTypes ==
  ASSUME EngineInv, ClearMem \/ TruncateDone \/ ClearFails \/ TruncateFails
  PROVE  EngineInv'
<1>1. /\ Meta!MetaTypeOK' /\ Live' = Live /\ (InSet' <=> InSet) /\ metaPhase' = metaPhase
      /\ pending' = pending
  BY Ranges, MetaQuiet DEF ClearMem, TruncateDone, ClearFails, TruncateFails
<1>2. Log!LogTypeOK'
  BY Ranges, LogTypes, LogQuiet DEF ClearMem, TruncateDone, ClearFails, TruncateFails
<1>3. /\ files' = files /\ main' = main /\ version' = version /\ op' = op /\ ~InSet
      /\ pc \in {"clear", "truncate"} /\ pc' \in {"truncate", "scan", "idle"}
  BY DEF ClearMem, TruncateDone, ClearFails, TruncateFails, ReturnError, memVars, EngineInv, Phases
<1>4. mem' \in Level
  BY DEF EngineInv, TypeOK, ClearMem, TruncateDone, ClearFails, TruncateFails, memVars, Empty, Level
<1>5. job' \in Job
  <2>1. version \in Names
    BY <1>3 DEF EngineInv, JobFits
  <2>2. Scan(1) \in Job
    BY <2>1, Ranges DEF Scan, Job, Names
  <2>3. Idle \in Job
    BY Ranges DEF Idle, Job
  <2> QED BY <2>2, <2>3 DEF EngineInv, TypeOK, ClearMem, TruncateDone, ClearFails, TruncateFails, ReturnError
<1>6. TypeOK'
  BY <1>1, <1>2, <1>3, <1>4, <1>5 DEF EngineInv, TypeOK
<1>7. Phases' /\ LevelsFit'
  BY <1>1, <1>3 DEF EngineInv, Phases, LevelsFit, ClearMem, TruncateDone, ClearFails, TruncateFails,
                    ReturnError, logVars, Log!LogTruncate, Log!LogSync, Log!LogSyncFails, Log!Unsynced, memVars
<1>8. JobFits'
  BY <1>1, <1>3 DEF EngineInv, JobFits, ClearMem, TruncateDone, ClearFails, TruncateFails,
                    ReturnError, Scan
<1> QED BY <1>6, <1>7, <1>8 DEF EngineInv

\* The superseded files are removed one by one.
LEMMA RemoveTypes ==
  ASSUME EngineInv, RemoveOld
  PROVE  EngineInv'
<1>1. /\ Meta!MetaTypeOK' /\ Live' = Live /\ (InSet' <=> InSet) /\ metaPhase' = metaPhase
      /\ pending' = pending
  BY Ranges, MetaQuiet DEF RemoveOld
<1>2. Log!LogTypeOK' /\ log' = log /\ logDisk' = logDisk /\ logPhase' = logPhase
  BY Ranges, LogQuiet DEF RemoveOld
<1>3. /\ mem' = mem /\ main' = main /\ version' = version /\ op' = op /\ pc = "remove" /\ ~InSet
      /\ pc' \in {"remove", "scan"}
  BY DEF RemoveOld, memVars, EngineInv, Phases
<1>4. files' \in [Names -> Level \union {Missing, Partial}]
  BY DEF EngineInv, TypeOK, RemoveOld
<1>5. job \in Job /\ job.kind = "merge" /\ job.at >= 1 /\ job.left # <<>>
  BY <1>3 DEF EngineInv, TypeOK, JobFits
<1>6. /\ job' \in Job /\ job'.at = job.at
      /\ pc' = "remove" => job'.kind = "merge" /\ job'.left # <<>>
  <2>1. CASE Len(job.left) > 1
    <3>1. job.left \in Seq(Names)
      BY <1>5 DEF Job
    <3> DEFINE l == job.left
    <3> HIDE DEF l
    <3>2. Tail(l) \in Seq(Names) /\ Tail(l) # <<>>
      BY <2>1, <3>1, TailSeq DEF l
    <3>3. job' = [job EXCEPT !.left = Tail(l)]
      BY <2>1 DEF RemoveOld, l
    <3> QED BY <1>5, <3>2, <3>3 DEF Job
  <2>2. CASE ~(Len(job.left) > 1)
    <3>1. job' = Scan(job.at) /\ pc' = "scan"
      BY <2>2 DEF RemoveOld
    <3>2. <<>> \in Seq(Names)
      OBVIOUS
    <3> QED BY <1>5, <3>1, <3>2 DEF Scan, Job
  <2> QED BY <2>1, <2>2
<1>7. TypeOK'
  BY <1>1, <1>2, <1>3, <1>4, <1>6 DEF EngineInv, TypeOK
<1>8. Phases' /\ LevelsFit'
  BY <1>1, <1>2, <1>3 DEF EngineInv, Phases, LevelsFit
<1>9. JobFits'
  BY <1>1, <1>3, <1>5, <1>6 DEF EngineInv, JobFits
<1> QED BY <1>7, <1>8, <1>9 DEF EngineInv

\* A step that changes nothing.
LEMMA StutterTypes == ASSUME EngineInv, UNCHANGED vars PROVE EngineInv'
<1>1. /\ Meta!MetaTypeOK' /\ Live' = Live /\ Meta!Get' = Meta!Get /\ (InSet' <=> InSet)
      /\ metaPhase' = metaPhase /\ pending' = pending
  BY Ranges, MetaQuiet DEF vars
<1>2. Log!LogTypeOK' /\ log' = log /\ logDisk' = logDisk /\ logPhase' = logPhase
  BY Ranges, LogQuiet DEF vars
<1>3. /\ files' = files /\ mem' = mem /\ main' = main /\ version' = version /\ pc' = pc /\ op' = op
      /\ job' = job
  BY DEF vars, memVars
<1> QED BY <1>1, <1>2, <1>3 DEF EngineInv, TypeOK, JobFits, Phases, LevelsFit

\* A call of SetEx or Del that gets as far as the log writes a record.
LEMMA WriteStarts == ASSUME Write PROVE \E r \in Log!Record : StartWrite(r)
  BY DEF Write, SetEx, Del, Log!Record, Cells

\* The actions of Next, as the lemmas about steps group them.
LEMMA Steps ==
  ASSUME Next
  PROVE  \/ \E fresh \in BOOLEAN : Open(fresh)
         \/ Close \/ Kill \/ PowerLoss
         \/ (\E r \in Log!Record : StartWrite(r)) \/ WriteDone \/ WriteShort \/ WriteFails
         \/ CompactFlush \/ CompactScan \/ ScanMerge \/ ScanDone
         \/ BuildDone \/ BuildFails
         \/ MetaSet \/ MetaWrite \/ MetaDone \/ MetaFails
         \/ OpenLevels \/ OpenLevelsFails
         \/ ClearMem \/ TruncateDone \/ ClearFails \/ TruncateFails
         \/ RemoveOld
  BY WriteStarts DEF Next, Progress, Errors

\* The invariant is inductive.
LEMMA EngineNext == EngineInv /\ [Next]_vars => EngineInv'
  BY Steps, OpenTypes, StopTypes, WriteTypes, StartTypes, BuildTypes, SetTypes, SetStepTypes,
     LevelsTypes, ClearTypes, RemoveTypes, StutterTypes

\* The state of the engine is what TypeOK says, for all faults: the version
\* numbers suffice for every compaction that is started, the list of levels a
\* compaction writes to the metadata is a list, and whatever a crash leaves of
\* the log, Replay makes a MemTable of it (kv.go, all operations).
THEOREM EngineTypeCorrect == Spec => []TypeOK
<1>1. Init => EngineInv
  BY InitTypes
<1>2. EngineInv /\ [Next]_vars => EngineInv'
  BY EngineNext
<1>3. EngineInv => TypeOK
  BY DEF EngineInv
<1> QED BY <1>1, <1>2, <1>3, PTL DEF Spec
-----------------------------------------------------------------------------
(* The levels in memory and the list in the metadata.                      *)

\* Without failures of openLevels, kv.main is the list of the live metadata.
MainIsLive == "openerr" \notin faults /\ pc \notin {"down", "levels"} => main = Live

\* MainIsLive is inductive, given the types.
LEMMA MainNext == EngineInv /\ MainIsLive /\ [Next]_vars => MainIsLive'
<1> SUFFICES ASSUME EngineInv, MainIsLive, [Next]_vars, "openerr" \notin faults',
                    pc' \notin {"down", "levels"}
             PROVE  main' = Live'
  BY DEF MainIsLive
<1> USE DEF MainIsLive
<1>1. ASSUME UNCHANGED <<metaVars, main>>, pc \notin {"down", "levels"} PROVE main' = Live'
  BY <1>1, Ranges, MetaQuiet
<1>2. ASSUME NEW fresh \in BOOLEAN, Open(fresh) PROVE main' = Live'
  BY <1>2 DEF Open, Live
<1>3. CASE Close \/ Kill \/ PowerLoss
  BY <1>3 DEF Close, Kill, PowerLoss, Crash
<1>4. CASE (\E r \in Log!Record : StartWrite(r)) \/ WriteDone \/ WriteShort \/ WriteFails
  BY <1>1, <1>4 DEF StartWrite, WriteDone, WriteShort, WriteFails, memVars
<1>5. CASE CompactFlush \/ CompactScan \/ ScanMerge \/ ScanDone \/ BuildDone \/ BuildFails
  BY <1>1, <1>5 DEF CompactFlush, CompactScan, ScanMerge, ScanDone, BuildDone, BuildFails, StartBuild,
                    memVars
<1>6. CASE MetaSet \/ MetaWrite \/ MetaFails
  <2>1. MetaSet => Live' = Live
    <3>1. MetaSet => slots' = slots
      BY DEF MetaSet, Meta!SetTruncate
    <3> QED BY <3>1 DEF Live, Meta!Get
  <2>2. MetaWrite \/ MetaFails => Live' = Live
    BY SetHidden DEF MetaWrite, MetaFails
  <2>3. faults' = faults /\ main' = main /\ pc = "meta"
    BY <1>6 DEF MetaSet, MetaWrite, MetaFails, Meta!SetTruncate, Meta!SetWrite, Meta!SetFails, memVars
  <2> QED BY <1>6, <2>1, <2>2, <2>3
<1>7. CASE MetaDone
  BY <1>7 DEF MetaDone
<1>8. CASE OpenLevels \/ OpenLevelsFails
  <2>1. Live' = Live /\ faults' = faults
    BY <1>8, Ranges, MetaQuiet DEF OpenLevels, OpenLevelsFails
  <2>2. OpenLevels
    BY <1>8, <2>1 DEF OpenLevelsFails
  <2> QED BY <2>1, <2>2 DEF OpenLevels, Live
<1>9. CASE ClearMem \/ TruncateDone \/ ClearFails \/ TruncateFails \/ RemoveOld
  BY <1>1, <1>9 DEF ClearMem, TruncateDone, ClearFails, TruncateFails, RemoveOld, memVars
<1>10. CASE UNCHANGED vars
  BY <1>1, <1>10 DEF vars, memVars
<1> QED BY Steps, <1>2, <1>3, <1>4, <1>5, <1>6, <1>7, <1>8, <1>9, <1>10

\* A merge that drops tombstones works on the last two live tables if opening
\* a level never fails; the run that lets it fail shows that this is needed
\* (kv.go, compactSSTable and openLevels).
THEOREM DropsIntoLast ==
  ASSUME \A f \in Environments : "openerr" \notin f
  PROVE  Spec => []DropsOnlyIntoLast
<1>1. Init => EngineInv /\ MainIsLive
  BY InitTypes DEF Init, MainIsLive
<1>2. EngineInv /\ MainIsLive /\ [Next]_vars => EngineInv' /\ MainIsLive'
  BY EngineNext, MainNext
<1>3. EngineInv /\ MainIsLive => DropsOnlyIntoLast
  <2> SUFFICES ASSUME EngineInv, MainIsLive, pc = "build", IntoLast(job.at)
               PROVE  job.at + 1 = Len(Live)
    BY DEF DropsOnlyIntoLast, Live
  <2>1. "openerr" \notin faults
    BY DEF EngineInv, TypeOK, Meta!MetaTypeOK
  <2>2. main = Live
    BY <2>1 DEF MainIsLive
  <2> QED BY <2>2 DEF IntoLast
<1> QED BY <1>1, <1>2, <1>3, PTL DEF Spec
=============================================================================
