-------------------------- MODULE MetaStoreProofs --------------------------
(***************************************************************************)
(* Proofs about MetaStore, for every set of table lists, every bound on    *)
(* the versions and, where it is said, every set of faults.                *)
(***************************************************************************)
EXTENDS MetaStore, TLAPS

\* An item of type Item holds metadata.
LEMMA ItemData == \A i \in Item : i.valid \in BOOLEAN /\ i.data \in MetaData
  BY DEF Item

\* The zero metadata and the slot that does not load are of their types.
LEMMA ZeroType == MetaConstants => Zero \in MetaData /\ Blank \in Item
  BY DEF MetaConstants, Zero, MetaData, Blank, Item

\* Set writes one of the two slots.
LEMMA TargetType == Target \in Slots
  BY DEF Target, Slots

\* The state of the metadata store is what MetaTypeOK says, for all faults.
THEOREM MetaTypeCorrect ==
  ASSUME MetaConstants PROVE MetaSpec => []MetaTypeOK
<1>1. MetaInit => MetaTypeOK
  BY ZeroType DEF MetaInit, MetaTypeOK
<1>2. MetaTypeOK /\ [MetaNext]_metaVars => MetaTypeOK'
  <2> SUFFICES ASSUME MetaTypeOK, [MetaNext]_metaVars PROVE MetaTypeOK'
    OBVIOUS
  <2> USE ZeroType, TargetType DEF MetaTypeOK
  <2>1. ASSUME NEW fresh \in BOOLEAN, MetaOpen(fresh) PROVE MetaTypeOK'
    BY <2>1 DEF MetaOpen, Loaded
  <2>2. ASSUME NEW v \in 1..MaxVersion, NEW t \in Tables,
               SetTruncate([version |-> v, tables |-> t])
        PROVE  MetaTypeOK'
    <3>1. [version |-> v, tables |-> t] \in MetaData
      BY DEF MetaConstants, MetaData
    <3> QED BY <2>2, <3>1 DEF SetTruncate, Unsynced
  <2>3. CASE SetWrite
    <3>1. Whole(pending) \in Item
      BY DEF Whole, Item
    <3> QED BY <2>3, <3>1 DEF SetWrite, Unsynced
  <2>4. CASE SetSync
    <3>1. Whole(pending) \in Item
      BY DEF Whole, Item
    <3> QED BY <2>4, <3>1 DEF SetSync
  <2>5. CASE SetFails
    BY <2>5 DEF SetFails
  <2>6. CASE MetaClose
    BY <2>6 DEF MetaClose
  <2>7. CASE MetaKill
    BY <2>7 DEF MetaKill
  <2>8. CASE MetaPowerLoss
    BY <2>8 DEF MetaPowerLoss, Slots
  <2>9. CASE UNCHANGED metaVars
    BY <2>9 DEF metaVars
  <2> QED BY <2>1, <2>2, <2>3, <2>4, <2>5, <2>6, <2>7, <2>8, <2>9 DEF MetaNext
<1> QED BY <1>1, <1>2, PTL DEF MetaSpec
-----------------------------------------------------------------------------
(* The inductive invariant behind LiveSurvivesPowerLoss.                   *)

\* Power losses do not meet unsynced slots that an Open has adopted: those
\* need a process that dies alone or a Sync that fails.
SafeFaults ==
    \A f \in Environments : "power" \in f => f \intersect {"kill", "ioerr"} = {}

\* An item that did not load is as good as new.
Shaped(i) == i.valid \/ i = Blank
AllShaped ==
    /\ \A s \in Slots : Shaped(slots[s]) /\ Shaped(cached[s])
    /\ \A s \in Slots : \A i \in durable[s] : Shaped(i)

\* Outside Set (and always, if there is no power loss) nothing is unsynced.
Synced ==
    (metaPhase \in {"down", "idle"} \/ "power" \notin faults) =>
        \A s \in Slots : durable[s] = {cached[s]}

\* What is in the page cache can reach the disk.
CacheInDurable == \A s \in Slots : cached[s] \in durable[s]

\* The slot that is not the target of the next write is durable as it is in
\* memory; the target holds what it holds in memory, or nothing, or more
\* recent data.
Kept(sl, ca, du) ==
    LET t == IF CurrentOf(sl[0], sl[1]) = 0 THEN 1 ELSE 0
    IN  /\ ca[1 - t] = sl[1 - t]
        /\ du[1 - t] = {sl[1 - t]}
        /\ \A i \in du[t] : i.valid =>
               \/ i = sl[t]
               \/ i.data.version > LiveOf(sl[0], sl[1]).version

\* What Open would make of the slots now, for a KVMetaStore that was used before.
Reopened == [s \in Slots |-> IF cached[s].valid THEN cached[s] ELSE slots[s]]

\* The write in progress.
InProgress ==
    /\ metaPhase = "truncated" => cached[Target] = Blank
    /\ metaPhase = "written" => cached[Target] = Whole(pending)
    /\ metaPhase \in {"truncated", "written"} => pending.version > Get.version

MetaInv ==
    /\ MetaTypeOK
    /\ AllShaped
    /\ Synced
    /\ CacheInDurable
    /\ metaPhase # "down" => Kept(slots, cached, durable)
    /\ metaPhase = "down" => Kept(Reopened, cached, durable)
    /\ InProgress

\* Slots that are in memory as they are in the files are kept.
LEMMA KeptSelf ==
  ASSUME NEW ca, NEW du, \A s \in Slots : du[s] = {ca[s]}
  PROVE  Kept(ca, ca, du)
  BY DEF Kept, Slots

\* The invariant holds in a new directory.
LEMMA InitInv == ASSUME MetaConstants, MetaInit PROVE MetaInv
<1>1. Reopened = cached
  BY DEF MetaInit, Reopened, Blank
<1>2. \A s \in Slots : durable[s] = {cached[s]}
  BY DEF MetaInit
<1>3. Kept(Reopened, cached, durable)
  BY <1>1, <1>2, KeptSelf
<1>4. MetaTypeOK /\ AllShaped /\ InProgress
  BY ZeroType DEF MetaInit, MetaTypeOK, AllShaped, Shaped, InProgress
<1> QED BY <1>2, <1>3, <1>4 DEF MetaInit, MetaInv, Synced, CacheInDurable

\* Opening establishes Kept for the slots read, whether or not the object is new.
LEMMA OpenInv ==
  ASSUME MetaConstants, MetaInv, NEW fresh \in BOOLEAN, MetaOpen(fresh)
  PROVE  MetaInv'
<1>1. MetaTypeOK'
  BY ZeroType DEF MetaInv, MetaTypeOK, MetaOpen, Loaded
<1>2. AllShaped' /\ Synced' /\ CacheInDurable' /\ InProgress'
  BY DEF MetaInv, MetaOpen, Loaded, AllShaped, Shaped, Synced, CacheInDurable, InProgress, Slots, Blank
<1>3. Kept(slots', cached', durable')
  <2>1. CASE fresh
    <3>1. slots' = cached
      BY <2>1 DEF MetaInv, MetaTypeOK, MetaOpen, Loaded, AllShaped, Shaped
    <3>2. \A s \in Slots : durable[s] = {cached[s]}
      BY DEF MetaInv, MetaOpen, Loaded, Synced
    <3> QED BY <3>1, <3>2, KeptSelf DEF MetaOpen, Loaded
  <2>2. CASE ~fresh
    <3>1. slots' = Reopened
      BY <2>2 DEF MetaOpen, Loaded, Reopened
    <3> QED BY <3>1 DEF MetaInv, MetaOpen, Loaded
  <2> QED BY <2>1, <2>2
<1> QED BY <1>1, <1>2, <1>3 DEF MetaInv, MetaOpen, Loaded

\* Truncating the target keeps the invariant: the live slot is not touched.
LEMMA TruncateInv ==
  ASSUME MetaConstants, MetaInv, NEW d \in MetaData, d.version > 0, SetTruncate(d)
  PROVE  MetaInv'
<1> USE DEF Slots
<1>1. MetaTypeOK'
  BY ZeroType, TargetType DEF MetaInv, MetaTypeOK, SetTruncate, Unsynced
<1>2. AllShaped'
  BY TargetType DEF MetaInv, MetaTypeOK, SetTruncate, Unsynced, AllShaped, Shaped
<1>3. Synced' /\ CacheInDurable'
  BY TargetType DEF MetaInv, MetaTypeOK, SetTruncate, Unsynced, Synced, CacheInDurable
<1>4. Kept(slots', cached', durable')
  BY DEF MetaInv, MetaTypeOK, SetTruncate, Unsynced, Kept, Target, Current, Blank
<1>5. InProgress'
  BY DEF MetaInv, MetaTypeOK, SetTruncate, InProgress, Accepts, Target, Current, Get, LiveOf,
         Zero
<1> QED BY <1>1, <1>2, <1>3, <1>4, <1>5 DEF MetaInv, SetTruncate

\* Writing the target keeps it: what is written is newer than the live data.
LEMMA WriteInv == ASSUME MetaInv, SetWrite PROVE MetaInv'
<1> USE DEF Slots
<1>0. Whole(pending) \in Item
  BY DEF MetaInv, MetaTypeOK, Whole, Item
<1>1. MetaTypeOK'
  BY <1>0, TargetType DEF MetaInv, MetaTypeOK, SetWrite, Unsynced
<1>2. AllShaped'
  BY TargetType DEF MetaInv, MetaTypeOK, SetWrite, Unsynced, AllShaped, Shaped, Whole
<1>3. Synced' /\ CacheInDurable'
  BY TargetType DEF MetaInv, MetaTypeOK, SetWrite, Unsynced, Synced, CacheInDurable
<1>4. Kept(slots', cached', durable')
  BY DEF MetaInv, MetaTypeOK, SetWrite, Unsynced, Kept, Target, Current, Whole, InProgress, Get
<1>5. InProgress'
  BY TargetType DEF MetaInv, MetaTypeOK, SetWrite, InProgress, Target, Current, Get
<1> QED BY <1>1, <1>2, <1>3, <1>4, <1>5 DEF MetaInv, SetWrite

\* The written slot becomes the live one, and the old live slot the target.
LEMMA SyncInv == ASSUME MetaConstants, MetaInv, SetSync PROVE MetaInv'
<1> USE DEF Slots
<1>0. Whole(pending) \in Item
  BY DEF MetaInv, MetaTypeOK, Whole, Item
<1>1. MetaTypeOK'
  BY <1>0, ZeroType, TargetType DEF MetaInv, MetaTypeOK, SetSync
<1>2. AllShaped'
  BY TargetType DEF MetaInv, MetaTypeOK, SetSync, AllShaped, Shaped, Whole
<1>3. Synced' /\ CacheInDurable'
  BY TargetType DEF MetaInv, MetaTypeOK, SetSync, Synced, CacheInDurable, Kept, Target, Current
<1>4. Kept(slots', cached', durable')
  <2>1. /\ slots[0] \in Item /\ slots[1] \in Item
        /\ pending.version \in Nat /\ pending.version > Get.version
        /\ cached[Target] = Whole(pending)
    BY DEF MetaInv, MetaTypeOK, SetSync, InProgress, MetaData
  <2>2. CASE Target = 0
    <3>1. /\ slots'[0] = Whole(pending) /\ slots'[1] = slots[1]
          /\ cached' = cached /\ durable'[0] = {Whole(pending)} /\ durable'[1] = durable[1]
      BY <2>1, <2>2 DEF SetSync, MetaInv, MetaTypeOK
    <3>2. slots[1].valid => slots[1].data = Get
      BY <2>2, <2>1 DEF Target, Current, Get, LiveOf, CurrentOf, Item
    <3>3. CurrentOf(slots'[0], slots'[1]) = 0
      BY <2>1, <3>1, <3>2 DEF CurrentOf, Whole, Item, MetaData
    <3>4. cached[1] = slots[1] /\ durable[1] = {slots[1]}
      BY <2>2 DEF MetaInv, SetSync, Kept, Target, Current
    <3> QED BY <2>1, <2>2, <3>1, <3>3, <3>4 DEF Kept
  <2>3. CASE Target = 1
    <3>1. /\ slots'[1] = Whole(pending) /\ slots'[0] = slots[0]
          /\ cached' = cached /\ durable'[1] = {Whole(pending)} /\ durable'[0] = durable[0]
      BY <2>1, <2>3 DEF SetSync, MetaInv, MetaTypeOK
    <3>2. slots[0].valid => slots[0].data = Get
      BY <2>3, <2>1 DEF Target, Current, Get, LiveOf, CurrentOf, Item
    <3>3. CurrentOf(slots'[0], slots'[1]) = 1
      BY <2>1, <3>1, <3>2 DEF CurrentOf, Whole, Item, MetaData
    <3>4. cached[0] = slots[0] /\ durable[0] = {slots[0]}
      BY <2>3 DEF MetaInv, SetSync, Kept, Target, Current
    <3> QED BY <2>1, <2>3, <3>1, <3>3, <3>4 DEF Kept
  <2> QED BY <2>2, <2>3, TargetType
<1>5. InProgress'
  BY DEF SetSync, InProgress
<1> QED BY <1>1, <1>2, <1>3, <1>4, <1>5 DEF MetaInv, SetSync

\* A failed WriteAt or Sync keeps it, as nothing but the phase changes.
LEMMA FailsInv == ASSUME MetaConstants, SafeFaults, MetaInv, SetFails PROVE MetaInv'
  BY ZeroType DEF SafeFaults, MetaInv, MetaTypeOK, SetFails, AllShaped, Synced, CacheInDurable,
                  InProgress

\* Close keeps it: what the closed object holds agrees with the files.
LEMMA CloseInv == ASSUME MetaInv, MetaClose PROVE MetaInv'
<1> USE DEF Slots
<1>1. \A s \in Slots : durable[s] = {cached[s]}
  <2>1. Synced /\ metaPhase = "idle"
    BY DEF MetaInv, MetaClose
  <2> QED BY <2>1 DEF Synced
<1>2. Kept(Reopened', cached', durable')
  <2>1. /\ Kept(slots, cached, durable)
        /\ slots \in [Slots -> Item] /\ cached \in [Slots -> Item]
        /\ slots' = slots /\ cached' = cached /\ durable' = durable
    BY DEF MetaInv, MetaTypeOK, MetaClose
  <2>2. cached[0] = slots[0] \/ cached[1] = slots[1]
    BY <2>1 DEF Kept
  <2>3. Reopened = slots \/ Reopened = cached
    BY <2>1, <2>2 DEF Reopened
  <2>4. Reopened' = Reopened
    BY <2>1 DEF Reopened
  <2>5. CASE Reopened = slots
    BY <2>1, <2>4, <2>5
  <2>6. CASE Reopened = cached
    <3>1. Kept(cached, cached, durable)
      BY <1>1, KeptSelf
    <3> QED BY <2>1, <2>4, <2>6, <3>1
  <2> QED BY <2>3, <2>5, <2>6
<1> QED BY <1>2 DEF MetaInv, MetaTypeOK, MetaClose, AllShaped, Synced, CacheInDurable,
                   InProgress

\* After a crash the memory is blank and nothing is unsynced.
LEMMA DownInv ==
  ASSUME MetaTypeOK', AllShaped', metaPhase' = "down",
         slots' = [s \in Slots |-> Blank], \A s \in Slots : durable'[s] = {cached'[s]}
  PROVE  MetaInv'
<1>1. Reopened' = cached'
  BY DEF MetaTypeOK, AllShaped, Shaped, Reopened
<1>2. Kept(Reopened', cached', durable')
  BY <1>1, KeptSelf
<1> QED BY <1>2 DEF MetaInv, Synced, CacheInDurable, InProgress

\* The death of the process keeps it, where that cannot meet a power loss.
LEMMA KillInv == ASSUME MetaConstants, SafeFaults, MetaInv, MetaKill PROVE MetaInv'
<1>1. MetaTypeOK' /\ AllShaped'
  BY ZeroType DEF MetaInv, MetaTypeOK, AllShaped, Shaped, MetaKill
<1>2. \A s \in Slots : durable'[s] = {cached'[s]}
  BY DEF SafeFaults, MetaInv, MetaTypeOK, Synced, MetaKill
<1> QED BY <1>1, <1>2, DownInv DEF MetaKill

\* A power loss keeps it: every slot is left with one content.
LEMMA PowerInv == ASSUME MetaConstants, MetaInv, MetaPowerLoss PROVE MetaInv'
<1>1. MetaTypeOK' /\ AllShaped'
  BY ZeroType DEF MetaInv, MetaTypeOK, AllShaped, Shaped, MetaPowerLoss, Slots
<1>2. \A s \in Slots : durable'[s] = {cached'[s]}
  BY DEF MetaPowerLoss, Slots
<1> QED BY <1>1, <1>2, DownInv DEF MetaPowerLoss

\* The invariant is inductive.
LEMMA NextInv ==
  ASSUME MetaConstants, SafeFaults, MetaInv, [MetaNext]_metaVars PROVE MetaInv'
<1>1. ASSUME NEW v \in 1..MaxVersion, NEW t \in Tables,
             SetTruncate([version |-> v, tables |-> t])
      PROVE  MetaInv'
  <2>1. [version |-> v, tables |-> t] \in MetaData /\ v > 0
    BY DEF MetaConstants, MetaData
  <2> QED BY <1>1, <2>1, TruncateInv
<1>2. CASE UNCHANGED metaVars
  <2>1. /\ slots' = slots /\ cached' = cached /\ durable' = durable
        /\ metaPhase' = metaPhase /\ pending' = pending /\ faults' = faults
    BY <1>2 DEF metaVars
  <2>2. Target' = Target /\ Get' = Get /\ Reopened' = Reopened
    BY <2>1 DEF Target, Current, Get, Reopened
  <2>3. MetaTypeOK' /\ AllShaped' /\ Synced' /\ CacheInDurable'
    BY <2>1 DEF MetaInv, MetaTypeOK, AllShaped, Synced, CacheInDurable
  <2>4. InProgress'
    BY <2>1, <2>2 DEF MetaInv, InProgress
  <2> QED BY <2>1, <2>2, <2>3, <2>4 DEF MetaInv
<1> QED BY <1>1, <1>2, OpenInv, WriteInv, SyncInv, FailsInv, CloseInv, KillInv, PowerInv
        DEF MetaNext

\* The live slot and the target together never amount to less than the live data.
LEMMA KeptSurvives == MetaInv => LiveSurvivesPowerLoss
<1> SUFFICES ASSUME MetaInv, metaPhase # "down",
                    NEW a \in durable[0], NEW b \in durable[1]
             PROVE  LiveOf(a, b) = Get \/ LiveOf(a, b).version > Get.version
  BY DEF LiveSurvivesPowerLoss
<1>1. /\ Kept(slots, cached, durable)
      /\ slots[0] \in Item /\ slots[1] \in Item /\ a \in Item /\ b \in Item
      /\ Shaped(slots[0]) /\ Shaped(slots[1]) /\ Shaped(a) /\ Shaped(b)
  BY DEF MetaInv, MetaTypeOK, AllShaped, Slots
<1>2. CASE CurrentOf(slots[0], slots[1]) = 0
  <2>1. a = slots[0] /\ (b.valid => b = slots[1] \/ b.data.version > Get.version)
    BY <1>1, <1>2 DEF Kept, Get
  <2> QED BY <1>1, <1>2, <2>1 DEF Shaped, Get, LiveOf, CurrentOf, Blank, Item, MetaData
<1>3. CASE CurrentOf(slots[0], slots[1]) # 0
  <2>1. b = slots[1] /\ (a.valid => a = slots[0] \/ a.data.version > Get.version)
    BY <1>1, <1>3 DEF Kept, Get
  <2> QED BY <1>1, <1>3, <2>1 DEF Shaped, Get, LiveOf, CurrentOf, Blank, Item, MetaData
<1> QED BY <1>2, <1>3

\* LiveSurvivesPowerLoss holds for every number of versions and every set of
\* table lists, if power losses do not come together with processes that die
\* alone or with failing Syncs.
THEOREM LiveSurvives ==
  ASSUME MetaConstants, SafeFaults PROVE MetaSpec => []LiveSurvivesPowerLoss
<1>1. MetaInit => MetaInv
  BY InitInv
<1>2. MetaInv /\ [MetaNext]_metaVars => MetaInv'
  BY NextInv
<1>3. MetaInv => LiveSurvivesPowerLoss
  BY KeptSurvives
<1> QED BY <1>1, <1>2, <1>3, PTL DEF MetaSpec
-----------------------------------------------------------------------------
(* The refinement: the double-buffered store implements MetaRegister.      *)

\* Whatever the next Open finds is the live data or a write that has not
\* returned.
LEMMA OutcomeIsKnown ==
  ASSUME MetaInv, metaPhase # "down", NEW a \in durable[0], NEW b \in durable[1]
  PROVE  LiveOf(a, b) \in {Get} \union RegUnsure
<1> USE DEF Slots
<1>0. /\ slots[0] \in Item /\ slots[1] \in Item /\ a \in Item /\ b \in Item
      /\ Shaped(slots[0]) /\ Shaped(slots[1]) /\ Shaped(a) /\ Shaped(b)
  BY DEF MetaInv, MetaTypeOK, AllShaped
<1>1. CASE Target = 0
  <2>1. b = slots[1] /\ (a.valid => a = slots[0] \/ a.data.version > Get.version)
    BY <1>1 DEF MetaInv, Kept, Target, Current, Get
  <2>2. a.valid /\ a.data.version > Get.version => a.data \in RegUnsure
    BY <1>1 DEF RegUnsure
  <2> QED BY <1>0, <1>1, <2>1, <2>2
             DEF Target, Current, Get, LiveOf, CurrentOf, Shaped, Blank, Item, MetaData
<1>2. CASE Target = 1
  <2>1. a = slots[0] /\ (b.valid => b = slots[1] \/ b.data.version > Get.version)
    BY <1>2 DEF MetaInv, Kept, Target, Current, Get
  <2>2. b.valid /\ b.data.version > Get.version => b.data \in RegUnsure
    BY <1>2 DEF RegUnsure
  <2> QED BY <1>0, <1>2, <2>1, <2>2
             DEF Target, Current, Get, LiveOf, CurrentOf, Shaped, Blank, Item, MetaData
<1> QED BY <1>1, <1>2, TargetType

\* Open starts the register and shows what was there.
LEMMA OpenRefines ==
  ASSUME MetaInv, NEW fresh \in BOOLEAN, MetaOpen(fresh), MetaInv'
  PROVE  Register!Start
<1> USE DEF Slots
<1>0. /\ slots'[0] \in Item /\ slots'[1] \in Item /\ cached[0] \in Item /\ cached[1] \in Item
      /\ Shaped(cached[0]) /\ Shaped(cached[1]) /\ Shaped(slots'[0]) /\ Shaped(slots'[1])
  BY DEF MetaInv, MetaTypeOK, AllShaped, MetaOpen, Loaded
<1>1. /\ cached[0].valid => slots'[0] = cached[0]
      /\ cached[1].valid => slots'[1] = cached[1]
      /\ durable'[0] = {cached[0]} /\ durable'[1] = {cached[1]}
      /\ metaPhase = "down" /\ metaPhase' = "idle"
  BY DEF MetaOpen, Loaded, MetaInv, Synced
<1>2. Kept(slots', cached, durable')
  <2>1. metaPhase' # "down" /\ cached' = cached
    BY DEF MetaOpen
  <2> QED BY <2>1 DEF MetaInv
<1>3. ASSUME Target' = 0 PROVE UNCHANGED <<RegLive, RegUnsure>>
  <2>1. cached[1] = slots'[1]
    BY <1>2, <1>3 DEF Kept, Target, Current
  <2>2. Get' = LiveOf(cached[0], cached[1])
    BY <1>0, <1>1, <1>3, <2>1
       DEF Target, Current, Get, LiveOf, CurrentOf, Shaped, Blank, Item, MetaData
  <2>3. cached[0].valid => ~(cached[0].data.version > Get'.version)
    BY <1>0, <1>1, <2>1, <2>2 DEF LiveOf, CurrentOf, Item, MetaData
  <2>4. RegUnsure' = {}
    BY <1>1, <1>3, <2>3 DEF RegUnsure
  <2> QED BY <1>1, <2>2, <2>4 DEF RegLive, RegUnsure
<1>4. ASSUME Target' = 1 PROVE UNCHANGED <<RegLive, RegUnsure>>
  <2>1. cached[0] = slots'[0]
    BY <1>2, <1>4 DEF Kept, Target, Current
  <2>2. Get' = LiveOf(cached[0], cached[1])
    BY <1>0, <1>1, <1>4, <2>1
       DEF Target, Current, Get, LiveOf, CurrentOf, Shaped, Blank, Item, MetaData
  <2>3. cached[1].valid => ~(cached[1].data.version > Get'.version)
    BY <1>0, <1>1, <2>1, <2>2 DEF LiveOf, CurrentOf, Item, MetaData
  <2>4. RegUnsure' = {}
    BY <1>1, <1>4, <2>3 DEF RegUnsure
  <2> QED BY <1>1, <2>2, <2>4 DEF RegLive, RegUnsure
<1>5. Target' \in Slots
  BY DEF Target
<1>6. UNCHANGED <<RegLive, RegUnsure>>
  BY <1>3, <1>4, <1>5
<1>7. RegUp = FALSE /\ RegUp' = TRUE /\ RegWriting = {} /\ RegWriting' = {}
  BY <1>1 DEF RegUp, RegWriting
<1> QED BY <1>6, <1>7 DEF Register!Start

\* The first step of Set begins a write of the register.
LEMMA TruncateRefines ==
  ASSUME MetaInv, NEW d \in MetaData, d.version > 0, SetTruncate(d)
  PROVE  Register!Begin(d)
<1> USE DEF Slots
<1>1. d.version > RegLive.version /\ RegLive' = RegLive
  BY DEF SetTruncate, Accepts, RegLive, Get, Current, LiveOf, Zero
<1>2. Target' = Target /\ Get' = Get
  BY DEF SetTruncate, Target, Current, Get
<1>3. \A i \in durable'[Target] : i.valid => i \in durable[Target]
  BY TargetType DEF SetTruncate, MetaInv, MetaTypeOK, Unsynced, Blank
<1> DEFINE left == {i.data : i \in {j \in durable'[Target] : j.valid /\ j.data.version > Get.version}}
<1>4. left \in SUBSET RegUnsure
  BY <1>3 DEF RegUnsure, SetTruncate
<1>5. RegUnsure' = left \union {d}
  BY <1>2 DEF RegUnsure, SetTruncate
<1>6. /\ RegUp = TRUE /\ RegUp' = TRUE /\ RegWriting = {} /\ RegWriting' = {d}
  BY DEF RegUp, RegWriting, SetTruncate
<1> HIDE DEF left
<1> QED BY <1>1, <1>4, <1>5, <1>6 DEF Register!Begin

\* WriteAt is not visible in the register.
LEMMA WriteRefines ==
  ASSUME MetaInv, SetWrite
  PROVE  UNCHANGED <<RegUp, RegLive, RegWriting, RegUnsure>>
<1> USE DEF Slots
<1>1. Target' = Target /\ Get' = Get /\ RegLive' = RegLive
  BY DEF SetWrite, Target, Current, Get, RegLive
<1>2. durable'[Target] = Unsynced(durable[Target], Whole(pending))
  BY TargetType DEF SetWrite, MetaInv, MetaTypeOK
<1>3. pending.version > Get.version
  BY DEF MetaInv, SetWrite, InProgress
<1> DEFINE newer(S) == {i.data : i \in {j \in S : j.valid /\ j.data.version > Get.version}}
<1>4. RegUnsure = newer(durable[Target]) \union {pending}
  BY DEF SetWrite, RegUnsure
<1>5. RegUnsure' = newer(durable'[Target])
  BY <1>1 DEF SetWrite, RegUnsure
<1>6. ASSUME NEW S PROVE newer({Whole(pending)} \union S) = newer(S) \union {pending}
  <2>1. Whole(pending).valid /\ Whole(pending).data = pending
    BY DEF Whole
  <2> DEFINE w == Whole(pending)
  <2> HIDE DEF w
  <2>2. w.valid /\ w.data = pending
    BY <2>1 DEF w
  <2>3. \A x : x \in newer({w} \union S) <=> x \in newer(S) \union {pending}
    BY <1>3, <2>2
  <2> QED BY <2>3 DEF w
<1>7. ASSUME "power" \in faults PROVE RegUnsure' = RegUnsure
  <2>1. durable'[Target] = {Whole(pending)} \union durable[Target]
    BY <1>2, <1>7 DEF Unsynced
  <2> QED BY <1>1, <1>4, <1>5, <1>6, <2>1
<1>8. ASSUME "power" \notin faults PROVE RegUnsure' = RegUnsure
  <2>1. durable[Target] = {Blank}
    BY <1>8, TargetType DEF MetaInv, Synced, InProgress, SetWrite
  <2>2. newer(durable[Target]) = {} /\ newer({}) = {}
    BY <2>1 DEF Blank
  <2>3. durable'[Target] = {Whole(pending)} \union {}
    BY <1>2, <1>8 DEF Unsynced
  <2> QED BY <1>1, <1>4, <1>5, <1>6, <2>2, <2>3
<1>9. UNCHANGED <<RegUp, RegWriting>>
  BY DEF RegUp, RegWriting, SetWrite
<1> QED BY <1>1, <1>7, <1>8, <1>9

\* The Sync of Set commits the write.
LEMMA SyncRefines ==
  ASSUME MetaInv, SetSync, MetaInv'
  PROVE  Register!Commit(pending)
<1> USE DEF Slots
<1>1. /\ pending.version > Get.version /\ cached[Target] = Whole(pending)
      /\ cached[Target] \in durable[Target]
      /\ slots[0] \in Item /\ slots[1] \in Item /\ pending.version \in Nat
  BY TargetType DEF MetaInv, MetaTypeOK, SetSync, InProgress, CacheInDurable, MetaData
<1>2. /\ RegUp = TRUE /\ RegUp' = TRUE /\ RegWriting = {pending} /\ RegWriting' = {}
  BY DEF RegUp, RegWriting, SetSync
<1>3. CASE Target = 0
  <2>1. /\ slots'[0] = Whole(pending) /\ slots'[1] = slots[1] /\ durable'[1] = durable[1]
    BY <1>3 DEF SetSync, MetaInv, MetaTypeOK
  <2>2. slots[1].valid => slots[1].data = Get
    BY <1>1, <1>3 DEF Target, Current, Get, LiveOf, CurrentOf, Item
  <2>3. Current' = 0
    BY <1>1, <2>1, <2>2 DEF Current, CurrentOf, Whole, Item, MetaData
  <2>4. Get' = pending /\ Target' = 1
    BY <2>1, <2>3 DEF Get, LiveOf, Current, Target, Whole
  <2>5. durable'[1] = {slots[1]}
    BY <1>3, <2>1 DEF MetaInv, SetSync, Kept, Target, Current
  <2>6. slots[1].valid => ~(slots[1].data.version > pending.version)
    BY <1>1, <2>2 DEF Item, MetaData
  <2>7. RegUnsure' = {}
    BY <2>4, <2>5, <2>6 DEF RegUnsure, SetSync
  <2> QED BY <1>2, <2>4, <2>7 DEF Register!Commit, RegLive, SetSync
<1>4. CASE Target = 1
  <2>1. /\ slots'[1] = Whole(pending) /\ slots'[0] = slots[0] /\ durable'[0] = durable[0]
    BY <1>4 DEF SetSync, MetaInv, MetaTypeOK
  <2>2. slots[0].valid => slots[0].data = Get
    BY <1>1, <1>4 DEF Target, Current, Get, LiveOf, CurrentOf, Item
  <2>3. Current' = 1
    BY <1>1, <2>1, <2>2 DEF Current, CurrentOf, Whole, Item, MetaData
  <2>4. Get' = pending /\ Target' = 0
    BY <2>1, <2>3 DEF Get, LiveOf, Current, Target, Whole
  <2>5. durable'[0] = {slots[0]}
    BY <1>4, <2>1 DEF MetaInv, SetSync, Kept, Target, Current
  <2>6. slots[0].valid => ~(slots[0].data.version > pending.version)
    BY <1>1, <2>2 DEF Item, MetaData
  <2>7. RegUnsure' = {}
    BY <2>4, <2>5, <2>6 DEF RegUnsure, SetSync
  <2> QED BY <1>2, <2>4, <2>7 DEF Register!Commit, RegLive, SetSync
<1> QED BY <1>3, <1>4, TargetType

\* A Set that fails leaves its write to the next Open, or to nobody.
LEMMA FailsRefines ==
  ASSUME SetFails
  PROVE  Register!Fail(pending)
<1>1. /\ RegLive' = RegLive /\ Get' = Get /\ Target' = Target /\ durable' = durable
      /\ metaPhase \in {"truncated", "written"} /\ metaPhase' = "idle"
  BY DEF SetFails, RegLive, Get, Target, Current
<1>2. RegUnsure' \subseteq RegUnsure
  BY <1>1 DEF RegUnsure
<1>3. /\ RegUp = TRUE /\ RegUp' = TRUE /\ RegWriting = {pending} /\ RegWriting' = {}
  BY <1>1 DEF RegUp, RegWriting
<1> QED BY <1>1, <1>2, <1>3 DEF Register!Fail

\* Close and both kinds of crash stop the register.
LEMMA StopRefines ==
  ASSUME MetaInv, MetaClose \/ MetaKill \/ MetaPowerLoss
  PROVE  Register!Stop
<1> USE DEF Slots
<1>1. metaPhase' = "down" /\ RegUnsure' = {} /\ RegUp' = FALSE /\ RegWriting' = {}
  BY DEF MetaClose, MetaKill, MetaPowerLoss, RegUnsure, RegUp, RegWriting
<1>2. cached'[0] \in durable[0] /\ cached'[1] \in durable[1]
  BY DEF MetaInv, CacheInDurable, MetaClose, MetaKill, MetaPowerLoss
<1>3. RegLive' = LiveOf(cached'[0], cached'[1])
  BY <1>1 DEF RegLive
<1>4. CASE metaPhase # "down"
  BY <1>1, <1>2, <1>3, <1>4, OutcomeIsKnown DEF Register!Stop, RegLive
<1>5. CASE metaPhase = "down"
  <2>1. cached'[0] = cached[0] /\ cached'[1] = cached[1]
    BY <1>2, <1>5 DEF MetaInv, Synced
  <2> QED BY <1>1, <1>3, <1>5, <2>1 DEF Register!Stop, RegLive
<1> QED BY <1>4, <1>5

\* Every step of the store is a step of the register or no step.
LEMMA NextRefines ==
  ASSUME MetaConstants, MetaInv, MetaInv', [MetaNext]_metaVars
  PROVE  [Register!Next]_<<RegUp, RegLive, RegWriting, RegUnsure>>
<1>0. Register!MetaData = MetaData
  BY DEF Register!MetaData, MetaData
<1>1. ASSUME NEW v \in 1..MaxVersion, NEW t \in Tables,
             SetTruncate([version |-> v, tables |-> t])
      PROVE  Register!Next
  <2>1. [version |-> v, tables |-> t] \in MetaData /\ v > 0
    BY DEF MetaConstants, MetaData
  <2>2. Register!Begin([version |-> v, tables |-> t])
    BY <1>1, <2>1, TruncateRefines
  <2> QED BY <1>0, <2>1, <2>2 DEF Register!Next
<1>2. pending \in Register!MetaData
  BY <1>0 DEF MetaInv, MetaTypeOK
<1>3. CASE SetSync
  BY <1>2, <1>3, SyncRefines DEF Register!Next
<1>4. CASE SetFails
  BY <1>2, <1>4, FailsRefines DEF Register!Next
<1>5. CASE MetaClose \/ MetaKill \/ MetaPowerLoss
  BY <1>5, StopRefines DEF Register!Next
<1>6. CASE UNCHANGED metaVars
  BY <1>6 DEF metaVars, RegUp, RegLive, RegWriting, RegUnsure, Get, Target, Current
<1>7. ASSUME NEW fresh \in BOOLEAN, MetaOpen(fresh) PROVE Register!Next
  BY <1>7, OpenRefines DEF Register!Next
<1> QED BY <1>1, <1>3, <1>4, <1>5, <1>6, <1>7, WriteRefines DEF MetaNext

\* A new directory is an empty register.
LEMMA InitRefines == MetaInit => Register!Init
  BY DEF MetaInit, Register!Init, Register!Zero, RegUp, RegLive, RegWriting, RegUnsure,
         LiveOf, CurrentOf, Slots, Blank, Zero

\* The double-buffered store is a crash-safe register, for every number of
\* versions and every set of table lists, under the same assumption on faults.
THEOREM StoreImplementsRegister ==
  ASSUME MetaConstants, SafeFaults PROVE MetaSpec => ImplementsRegister
<1>1. MetaInit => MetaInv
  BY InitInv
<1>2. MetaInv /\ [MetaNext]_metaVars => MetaInv'
  BY NextInv
<1>3. MetaInit => Register!Init
  BY InitRefines
<1>4. MetaInv /\ MetaInv' /\ [MetaNext]_metaVars =>
          [Register!Next]_<<RegUp, RegLive, RegWriting, RegUnsure>>
  BY NextRefines
<1> QED BY <1>1, <1>2, <1>3, <1>4, PTL
        DEF MetaSpec, ImplementsRegister, Register!Spec, Register!vars
=============================================================================
