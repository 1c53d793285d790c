----------------------------- MODULE WALProofs -----------------------------
(***************************************************************************)
(* Proofs about the log with its history, for every set of keys and cells, *)
(* every bound on its length and, where it is said, every set of faults.   *)
(***************************************************************************)
EXTENDS WALHistory, SequenceTheorems, WellFoundedInduction, TLAPS

\* Power losses come without process deaths and I/O errors: otherwise Open
\* may give a reader records that no fsync has followed.
LogFaults == \A f \in Environments : "power" \in f => f \intersect {"kill", "ioerr"} = {}

Promise == [rec : Record, promised : BOOLEAN]
-----------------------------------------------------------------------------
(* Sequences of records.                                                   *)

\* Every non-empty set of natural numbers has a least element.
LEMMA LeastIndex ==
  ASSUME NEW T, T \subseteq Nat, T # {}
  PROVE  \E x \in T : \A y \in T : x <= y
<1> DEFINE R == OpToRel(<, Nat)
<1>1. IsWellFoundedOn(R, Nat)
  BY NatLessThanWellFounded
<1>2. \E x \in T : \A y \in T : ~(<<y, x>> \in R)
  <2> HIDE DEF R
  <2> QED BY <1>1, WFMin
<1>3. ASSUME NEW x \in Nat, NEW y \in Nat, ~(<<y, x>> \in R) PROVE x <= y
  BY <1>3, SMT DEF OpToRel
<1> QED BY <1>2, <1>3

\* What is readable has no gap: it is the beginning of the file.
LEMMA ReadableIsPrefix ==
  ASSUME NEW l \in Contents
  PROVE  /\ \E m \in 0..Len(l) : Readable(l) = 1..m
         /\ \A i \in Readable(l) : i \in 1..Len(l) /\ l[i] \in Record
<1> DEFINE T == {i \in 1..Len(l) : l[i] = Torn}
<1>0. Len(l) \in Nat /\ \A i \in 1..Len(l) : l[i] \in Record \union {Torn}
  BY DEF Contents
<1>1. \E m \in 0..Len(l) : Readable(l) = 1..m
  <2>1. CASE T = {}
    <3>1. Readable(l) = 1..Len(l)
      BY <1>0, <2>1 DEF Readable
    <3> QED BY <1>0, <3>1
  <2>2. CASE T # {}
    <3>1. T \subseteq Nat
      BY <1>0
    <3>2. PICK x \in T : \A y \in T : x <= y
      <4> HIDE DEF T
      <4> QED BY <2>2, <3>1, LeastIndex
    <3>3. Readable(l) = 1..(x - 1)
      BY <1>0, <3>2 DEF Readable
    <3>4. x - 1 \in 0..Len(l)
      BY <1>0, <3>2
    <3> QED BY <3>3, <3>4
  <2> QED BY <2>1, <2>2
<1>2. \A i \in Readable(l) : i \in 1..Len(l) /\ l[i] # Torn
  BY <1>0 DEF Readable
<1> QED BY <1>0, <1>1, <1>2

\* What is appended to a whole file can be read; behind a torn record nothing
\* can, and torn bytes at the end change nothing in front of them.
LEMMA ReadableAppend ==
  ASSUME NEW l \in Contents, NEW r \in Record \union {Torn}
  PROVE  /\ Append(l, r) \in Contents
         /\ Len(Append(l, r)) = Len(l) + 1
         /\ \A i \in 1..Len(l) : Append(l, r)[i] = l[i]
         /\ Append(l, r)[Len(l) + 1] = r
         /\ Readable(l) \subseteq Readable(Append(l, r))
         /\ Readable(Append(l, r)) \subseteq Readable(l) \union {Len(l) + 1}
         /\ r = Torn => Readable(Append(l, r)) = Readable(l)
         /\ Len(l) + 1 \in Readable(Append(l, r)) => Readable(l) = 1..Len(l)
         /\ ~Buried(Append(l, r)) => Readable(l) = 1..Len(l) /\ ~Buried(l)
         /\ ~Buried(Append(l, r)) /\ r # Torn => Readable(Append(l, r)) = 1..(Len(l) + 1)
<1> DEFINE a == Append(l, r)
<1>1. /\ Len(l) \in Nat /\ a \in Contents /\ Len(a) = Len(l) + 1
      /\ \A i \in 1..Len(l) : a[i] = l[i]
      /\ a[Len(l) + 1] = r
  BY DEF Contents
<1> HIDE DEF a
<1>2. Readable(l) \subseteq Readable(a)
  BY <1>1 DEF Readable
<1>3. Readable(a) \subseteq Readable(l) \union {Len(l) + 1}
  BY <1>1 DEF Readable
<1>4. r = Torn => Len(l) + 1 \notin Readable(a)
  BY <1>1 DEF Readable
<1>5. Len(l) + 1 \notin Readable(l)
  BY <1>1 DEF Readable
<1>6. Len(l) + 1 \in Readable(a) => Readable(l) = 1..Len(l)
  BY <1>1 DEF Readable
<1>7. ~Buried(a) => Readable(l) = 1..Len(l) /\ ~Buried(l)
  <2> SUFFICES ASSUME ~Buried(a) PROVE Readable(l) = 1..Len(l) /\ ~Buried(l)
    OBVIOUS
  <2>1. \A i \in 1..Len(l) : l[i] # Torn
    BY <1>1 DEF Buried
  <2> QED BY <1>1, <2>1 DEF Readable, Buried
<1>8. ~Buried(a) /\ r # Torn => Readable(a) = 1..(Len(l) + 1)
  <2> SUFFICES ASSUME ~Buried(a), r # Torn PROVE Readable(a) = 1..(Len(l) + 1)
    OBVIOUS
  <2>1. \A i \in 1..(Len(l) + 1) : a[i] # Torn
    BY <1>1 DEF Buried
  <2> QED BY <1>1, <2>1 DEF Readable
<1> QED BY <1>1, <1>2, <1>3, <1>4, <1>5, <1>6, <1>7, <1>8 DEF a
-----------------------------------------------------------------------------
(* Types.                                                                  *)

\* The state of the log is what LogTypeOK says, for all faults.
THEOREM LogTypeCorrect == HistSpec => []LogTypeOK
<1> USE DEF LogTypeOK
<1>0. <<>> \in Contents
  BY DEF Contents
<1>1. HistInit => LogTypeOK
  BY <1>0 DEF HistInit, LogInit
<1>2. LogTypeOK /\ [HistNext]_histVars => LogTypeOK'
  <2> SUFFICES ASSUME LogTypeOK, [HistNext]_histVars PROVE LogTypeOK'
    OBVIOUS
  <2>0. \A r \in Record \union {Torn} : Append(log, r) \in Contents
    BY ReadableAppend
  <2>1. CASE HistOpen
    BY <2>1 DEF HistOpen, LogOpen
  <2>2. ASSUME NEW r \in Record, HistWrite(r) PROVE LogTypeOK'
    BY <2>0, <2>2 DEF HistWrite, LogWrite, Unsynced
  <2>3. CASE HistWriteShort
    BY <2>0, <2>3 DEF HistWriteShort, LogWriteShort, Unsynced
  <2>4. CASE HistTruncate
    BY <1>0, <2>4 DEF HistTruncate, LogTruncate, Unsynced
  <2>5. CASE HistSync
    BY <2>5 DEF HistSync, LogSync
  <2>6. CASE HistSyncFails
    BY <2>6 DEF HistSyncFails, LogSyncFails
  <2>7. CASE HistStop
    BY <2>7 DEF HistStop, LogClose, LogKill, LogPowerLoss
  <2>8. CASE UNCHANGED histVars
    BY <2>8 DEF histVars, logVars
  <2> QED BY <2>1, <2>2, <2>3, <2>4, <2>5, <2>6, <2>7, <2>8 DEF HistNext
<1> QED BY <1>1, <1>2, PTL DEF HistSpec
-----------------------------------------------------------------------------
(* The inductive invariant behind PromisesReplayed.                        *)

\* A reader of l sees what was written, in order.
Shown(l) == \A i \in Readable(l) : i <= Len(written) /\ l[i] = written[i].rec

\* A reader of l sees all that was promised.
Held(l) == \A i \in 1..Len(written) : written[i].promised => i \in Readable(l)

\* As long as nothing is torn the history and the file have the same length.
InStep == Readable(log) = 1..Len(log) /\ logPhase # "truncating" => Len(written) = Len(log)

\* Outside Write and Truncate (and always, if there is no power loss) the next
\* Open finds what the system sees.
LogSynced == "power" \notin faults \/ logPhase \in {"closed", "open"} => logDisk = {log}

\* What a call that waits for its Sync has done to the file.
Waiting ==
    /\ logPhase = "writing" => log # <<>> /\ log[Len(log)] # Torn
    /\ logPhase = "truncating" => log = <<>>

LogInv ==
    /\ LogTypeOK /\ written \in Seq(Promise)
    /\ log \in logDisk
    /\ \A l \in logDisk : Shown(l) /\ (~Buried(log) => Held(l))
    /\ InStep /\ LogSynced /\ Waiting

\* A reader that is shown the readable records of l has promises of them all.
LEMMA RecoveredShown ==
  ASSUME NEW l \in Contents
  PROVE  /\ Recovered(l) \in Seq(Promise)
         /\ Readable(l) = 1..Len(Recovered(l))
         /\ \A i \in Readable(l) : Recovered(l)[i].rec = l[i]
<1>1. PICK m \in 0..Len(l) : Readable(l) = 1..m
  BY ReadableIsPrefix
<1>2. m \in Nat
  BY <1>1 DEF Contents
<1>3. \A i \in 1..m : l[i] \in Record
  BY <1>1, ReadableIsPrefix
<1>4. Recovered(l) = [i \in 1..m |-> [rec |-> l[i], promised |-> TRUE]]
  BY <1>1 DEF Recovered
<1>5. Recovered(l) \in [1..m -> Promise]
  BY <1>3, <1>4 DEF Promise
<1>6. Recovered(l) \in Seq(Promise) /\ Len(Recovered(l)) = m
  BY <1>2, <1>4, <1>5
<1> QED BY <1>1, <1>4, <1>6

\* Marking keeps the records.
LEMMA MarkKeeps ==
  ASSUME written \in Seq(Promise), NEW S, NEW p \in BOOLEAN
  PROVE  /\ Mark(S, p) \in Seq(Promise)
         /\ Len(Mark(S, p)) = Len(written)
         /\ \A i \in 1..Len(written) :
               /\ Mark(S, p)[i].rec = written[i].rec
               /\ Mark(S, p)[i].promised = IF i \in S THEN p ELSE written[i].promised
<1>1. Len(written) \in Nat /\ \A i \in 1..Len(written) : written[i] \in Promise
  OBVIOUS
<1> DEFINE n == Len(written)
           m == [i \in 1..n |-> IF i \in S THEN [written[i] EXCEPT !.promised = p] ELSE written[i]]
<1>2. m \in [1..n -> Promise]
  BY <1>1 DEF Promise
<1>3. m \in Seq(Promise) /\ Len(m) = n
  BY <1>1, <1>2
<1>4. \A i \in 1..n : m[i].rec = written[i].rec
                      /\ m[i].promised = IF i \in S THEN p ELSE written[i].promised
  BY <1>1 DEF Promise
<1> QED BY <1>3, <1>4 DEF Mark

\* Every step keeps the invariant.
LEMMA LogInvStep ==
  ASSUME LogFaults, LogInv, [HistNext]_histVars
  PROVE  LogInv'
<1> USE DEF LogTypeOK
<1>0. /\ <<>> \in Contents /\ Len(<<>>) = 0 /\ Readable(<<>>) = {} /\ ~Buried(<<>>)
      /\ <<>> \in Seq(Promise)
      /\ log \in Contents /\ Len(log) \in Nat /\ Len(written) \in Nat
  BY DEF Contents, LogInv, Readable, Buried
<1>1. ASSUME HistOpen PROVE LogInv'
  BY <1>1 DEF HistOpen, LogOpen, LogInv, Shown, Held, InStep, LogSynced, Waiting
<1>2. ASSUME NEW r \in Record, HistWrite(r) PROVE LogInv'
  <2> DEFINE new == [rec |-> r, promised |-> FALSE]
  <2>1. /\ log' = Append(log, r) /\ written' = Append(written, new)
        /\ faults' = faults /\ logPhase' = "writing" /\ logDisk = {log}
        /\ log' \in logDisk'
        /\ logDisk' \subseteq {log, Append(log, Torn), Append(log, r)}
        /\ "power" \notin faults => logDisk' = {log'}
    BY <1>2 DEF HistWrite, LogWrite, Unsynced, LogInv, LogSynced
  <2>2. /\ written' \in Seq(Promise) /\ Len(written') = Len(written) + 1
        /\ \A i \in 1..Len(written) : written'[i] = written[i]
        /\ written'[Len(written) + 1] = new
    BY <2>1 DEF LogInv, Promise
  <2>3. Shown(log) /\ (~Buried(log) => Held(log))
    BY DEF LogInv
  <2>4. Readable(log) = 1..Len(log) => Len(written) = Len(log)
    BY <1>2 DEF HistWrite, LogWrite, LogInv, InStep
  <2>5. r # Torn
    BY TornAssumption
  <2>6. Shown(log)'
    <3> SUFFICES ASSUME NEW i \in Readable(log') PROVE i <= Len(written') /\ log'[i] = written'[i].rec
      BY DEF Shown
    <3>1. CASE i \in Readable(log)
      <4>1. i \in 1..Len(log) /\ i <= Len(written) /\ log[i] = written[i].rec
        BY <1>0, <2>3, <3>1, ReadableIsPrefix DEF Shown
      <4> QED BY <1>0, <2>1, <2>2, <4>1, ReadableAppend
    <3>2. CASE i = Len(log) + 1
      <4>1. Len(written) = Len(log)
        BY <1>0, <2>1, <2>4, <3>2, ReadableAppend
      <4> QED BY <1>0, <2>1, <2>2, <3>2, <4>1, ReadableAppend
    <3>3. Readable(log') \subseteq Readable(log) \union {Len(log) + 1}
      BY <1>0, <2>1, ReadableAppend
    <3> QED BY <3>1, <3>2, <3>3
  <2>7. ASSUME NEW l, Readable(l) = Readable(log), \A i \in Readable(log) : l[i] = log[i]
        PROVE  Shown(l)'
    <3> SUFFICES ASSUME NEW i \in Readable(l) PROVE i <= Len(written') /\ l[i] = written'[i].rec
      BY DEF Shown
    <3>1. i \in 1..Len(log) /\ i <= Len(written) /\ l[i] = written[i].rec
      BY <1>0, <2>3, <2>7, ReadableIsPrefix DEF Shown
    <3> QED BY <1>0, <2>2, <3>1
  <2>8. ASSUME NEW l, Readable(log) \subseteq Readable(l), ~Buried(log') PROVE Held(l)'
    <3>1. Held(log)
      BY <1>0, <2>1, <2>3, <2>8, ReadableAppend
    <3> SUFFICES ASSUME NEW i \in 1..Len(written'), written'[i].promised PROVE i \in Readable(l)
      BY DEF Held
    <3>2. i # Len(written) + 1
      BY <2>2
    <3>3. i \in 1..Len(written) /\ written[i].promised
      BY <1>0, <2>2, <3>2
    <3> QED BY <2>8, <3>1, <3>3 DEF Held
  <2>9. \A l \in logDisk' : Shown(l)' /\ (~Buried(log') => Held(l)')
    <3> TAKE l \in logDisk'
    <3>1. CASE l = log
      BY <2>7, <2>8, <3>1
    <3>2. CASE l = Append(log, Torn)
      <4>1. Readable(l) = Readable(log)
        BY <1>0, <3>2, ReadableAppend
      <4>2. \A i \in Readable(log) : l[i] = log[i]
        BY <1>0, <3>2, ReadableAppend, ReadableIsPrefix
      <4> QED BY <2>7, <2>8, <4>1, <4>2
    <3>3. CASE l = log'
      <4>1. Readable(log) \subseteq Readable(l)
        BY <1>0, <2>1, <3>3, ReadableAppend
      <4> QED BY <2>6, <2>8, <3>3, <4>1
    <3> QED BY <2>1, <3>1, <3>2, <3>3
  <2>10. InStep'
    <3> SUFFICES ASSUME Readable(log') = 1..Len(log') PROVE Len(written') = Len(log')
      BY DEF InStep
    <3>0. Len(log') = Len(log) + 1
      BY <1>0, <2>1, ReadableAppend
    <3>1. Len(log) + 1 \in 1..Len(log') /\ Len(log) + 1 \in Readable(log')
      <4>1. Len(log) + 1 \in 1..Len(log')
        BY <1>0, <3>0
      <4> QED BY <4>1
    <3>2. Len(written) = Len(log)
      BY <1>0, <2>1, <2>4, <3>1, ReadableAppend
    <3> QED BY <2>2, <3>0, <3>2
  <2>11. LogSynced' /\ Waiting'
    <3>1. Len(log') = Len(log) + 1 /\ log'[Len(log) + 1] = r
      BY <1>0, <2>1, ReadableAppend
    <3>2. log' # <<>> /\ log'[Len(log')] = r
      BY <1>0, <3>1
    <3> QED BY <2>1, <2>5, <3>2 DEF LogSynced, Waiting
  <2>12. LogTypeOK'
    <3>1. Append(log, r) \in Contents /\ Append(log, Torn) \in Contents
      BY <1>0, ReadableAppend
    <3> QED BY <1>0, <2>1, <3>1 DEF LogInv
  <2> QED BY <2>1, <2>2, <2>9, <2>10, <2>11, <2>12 DEF LogInv
<1>3. ASSUME HistWriteShort PROVE LogInv'
  <2>1. /\ log' = Append(log, Torn) /\ logDisk' = {log'}
        /\ UNCHANGED <<logPhase, faults, written>> /\ logPhase = "open"
    BY <1>3 DEF HistWriteShort, LogWriteShort, Unsynced, LogInv, LogFaults
  <2>2. /\ log' \in Contents /\ Readable(log') = Readable(log)
        /\ \A i \in Readable(log) : log'[i] = log[i]
        /\ ~Buried(log') => ~Buried(log)
    BY <1>0, <2>1, ReadableAppend, ReadableIsPrefix
  <2>3. Shown(log)' /\ (~Buried(log') => Held(log)')
    BY <2>1, <2>2 DEF LogInv, Shown, Held
  <2>4. InStep'
    <3>1. Len(log') = Len(log) + 1 /\ Len(log) + 1 \notin Readable(log')
      BY <1>0, <2>1, <2>2, ReadableIsPrefix, ReadableAppend
    <3> QED BY <1>0, <3>1 DEF InStep
  <2> QED BY <2>1, <2>2, <2>3, <2>4 DEF LogInv, LogSynced, Waiting
<1>4. ASSUME HistTruncate PROVE LogInv'
  <2>1. /\ log' = <<>> /\ logPhase' = "truncating" /\ faults' = faults
        /\ logDisk' \subseteq {log, <<>>} /\ log' \in logDisk'
        /\ "power" \notin faults => logDisk' = {<<>>}
        /\ written' = Mark(1..Len(written), FALSE)
    BY <1>4 DEF HistTruncate, LogTruncate, Unsynced, LogInv, LogSynced
  <2>2. /\ written' \in Seq(Promise) /\ Len(written') = Len(written)
        /\ \A i \in 1..Len(written) : written'[i].rec = written[i].rec /\ ~written'[i].promised
    BY <2>1, MarkKeeps DEF LogInv
  <2>3. \A l : Held(l)'
    BY <2>2 DEF Held
  <2>4. \A l \in logDisk' : Shown(l)'
    <3> TAKE l \in logDisk'
    <3>1. CASE l = <<>>
      BY <1>0, <3>1 DEF Shown
    <3>2. CASE l = log
      <4>1. Shown(log) /\ \A i \in Readable(log) : i \in 1..Len(log)
        BY <1>0, ReadableIsPrefix DEF LogInv
      <4> QED BY <1>0, <2>2, <3>2, <4>1 DEF Shown
    <3> QED BY <2>1, <3>1, <3>2
  <2>5. InStep' /\ LogSynced' /\ Waiting'
    BY <2>1 DEF InStep, LogSynced, Waiting
  <2> QED BY <1>0, <2>1, <2>2, <2>3, <2>4, <2>5 DEF LogInv
<1>5. ASSUME HistSync PROVE LogInv'
  <2>1. /\ log' = log /\ faults' = faults /\ logDisk' = {log} /\ logPhase' = "open"
        /\ logPhase \in {"writing", "truncating"}
        /\ written' = IF logPhase = "writing" THEN Mark({Len(written)}, TRUE) ELSE <<>>
    BY <1>5 DEF HistSync, LogSync
  <2>2. CASE logPhase = "writing"
    <3>1. /\ written' \in Seq(Promise) /\ Len(written') = Len(written)
          /\ \A i \in 1..Len(written) :
                /\ written'[i].rec = written[i].rec
                /\ written'[i].promised => i = Len(written) \/ written[i].promised
      <4> DEFINE m == Mark({Len(written)}, TRUE)
      <4>1. /\ m \in Seq(Promise) /\ Len(m) = Len(written)
            /\ \A i \in 1..Len(written) :
                  /\ m[i].rec = written[i].rec
                  /\ m[i].promised = IF i \in {Len(written)} THEN TRUE ELSE written[i].promised
        BY MarkKeeps DEF LogInv
      <4>2. written' = m
        BY <2>1, <2>2
      <4> HIDE DEF m
      <4>3. \A i \in 1..Len(written) : m[i].promised => i = Len(written) \/ written[i].promised
        BY <4>1
      <4> QED BY <4>1, <4>2, <4>3
    <3>2. Shown(log) /\ (~Buried(log) => Held(log)) /\ log # <<>> /\ log[Len(log)] # Torn
      BY <2>2 DEF LogInv, Waiting
    <3>3. Shown(log)'
      <4> SUFFICES ASSUME NEW i \in Readable(log) PROVE i <= Len(written') /\ log[i] = written'[i].rec
        BY <2>1 DEF Shown
      <4>1. i \in 1..Len(log) /\ i <= Len(written) /\ log[i] = written[i].rec
        BY <1>0, <3>2, ReadableIsPrefix DEF Shown
      <4> QED BY <1>0, <3>1, <4>1
    <3>4. ASSUME ~Buried(log) PROVE Held(log)'
      <4>1. \A i \in 1..Len(log) : log[i] # Torn
        BY <1>0, <3>2, <3>4 DEF Buried
      <4>2. Readable(log) = 1..Len(log)
        BY <1>0, <4>1 DEF Readable
      <4>3. Len(written) = Len(log)
        BY <2>2, <4>2 DEF LogInv, InStep
      <4> QED BY <1>0, <2>1, <3>1, <4>2, <4>3 DEF Held
    <3>5. InStep'
      BY <2>1, <2>2, <3>1 DEF LogInv, InStep
    <3> QED BY <1>0, <2>1, <3>1, <3>3, <3>4, <3>5 DEF LogInv, LogSynced, Waiting
  <2>3. CASE logPhase = "truncating"
    <3>1. log' = <<>> /\ logDisk' = {<<>>} /\ written' = <<>>
      BY <2>1, <2>3 DEF LogInv, Waiting
    <3>2. Shown(<<>>)' /\ Held(<<>>)' /\ InStep'
      <4>1. Len(written') = 0 /\ Len(log') = 0
        BY <1>0, <3>1
      <4> QED BY <1>0, <4>1 DEF Shown, Held, InStep
    <3>3. LogTypeOK' /\ written' \in Seq(Promise)
      <4>1. faults' \in Environments /\ logPhase' = "open"
        BY <2>1 DEF LogInv
      <4> QED BY <1>0, <3>1, <4>1
    <3> QED BY <2>1, <3>1, <3>2, <3>3 DEF LogInv, LogSynced, Waiting
  <2> QED BY <2>1, <2>2, <2>3
<1>6. ASSUME HistSyncFails PROVE LogInv'
  <2>1. /\ UNCHANGED <<log, logDisk, faults>> /\ logPhase' = "open"
        /\ logPhase \in {"writing", "truncating"} /\ logDisk = {log} /\ "power" \notin faults
        /\ written' = IF logPhase = "writing" THEN written ELSE <<>>
    BY <1>6 DEF HistSyncFails, LogSyncFails, LogInv, LogSynced, LogFaults
  <2>2. CASE logPhase = "writing"
    BY <2>1, <2>2 DEF LogInv, Shown, Held, InStep, LogSynced, Waiting
  <2>3. CASE logPhase = "truncating"
    <3>1. log' = <<>> /\ logDisk' = {<<>>} /\ written' = <<>>
      BY <2>1, <2>3 DEF LogInv, Waiting
    <3>2. Shown(<<>>)' /\ Held(<<>>)' /\ InStep'
      <4>1. Len(written') = 0 /\ Len(log') = 0
        BY <1>0, <3>1
      <4> QED BY <1>0, <4>1 DEF Shown, Held, InStep
    <3>3. LogTypeOK' /\ written' \in Seq(Promise)
      <4>1. faults' \in Environments /\ logPhase' = "open"
        BY <2>1 DEF LogInv
      <4> QED BY <1>0, <3>1, <4>1
    <3> QED BY <2>1, <3>1, <3>2, <3>3 DEF LogInv, LogSynced, Waiting
  <2> QED BY <2>1, <2>2, <2>3
<1>7. ASSUME HistStop PROVE LogInv'
  <2>1. /\ log' \in Contents /\ logDisk' = {log'} /\ faults' = faults
        /\ logPhase' = "closed" /\ written' = Recovered(log')
    BY <1>7 DEF HistStop, LogClose, LogKill, LogPowerLoss, LogInv, LogSynced, LogFaults
  <2>2. /\ written' \in Seq(Promise) /\ Readable(log') = 1..Len(written')
        /\ \A i \in Readable(log') : written'[i].rec = log'[i]
    BY <2>1, RecoveredShown
  <2>3. Shown(log)' /\ Held(log)'
    BY <2>2 DEF Shown, Held
  <2>4. InStep'
    <3>1. Len(log') \in Nat /\ Len(written') \in Nat
      BY <2>1, <2>2 DEF Contents
    <3> QED BY <2>2, <3>1 DEF InStep
  <2> QED BY <2>1, <2>2, <2>3, <2>4 DEF LogInv, LogSynced, Waiting
<1>8. ASSUME UNCHANGED histVars PROVE LogInv'
  BY <1>8 DEF histVars, logVars, LogInv, Shown, Held, InStep, LogSynced, Waiting
<1> QED BY <1>1, <1>2, <1>3, <1>4, <1>5, <1>6, <1>7, <1>8 DEF HistNext
-----------------------------------------------------------------------------
\* Replay returns what was written, in order, and all that was acknowledged,
\* unless something was written behind torn bytes (Log.Write and Log.Read).
THEOREM PromisesAreReplayed == LogFaults /\ HistSpec => []PromisesReplayed
<1>1. LogFaults /\ HistInit => LogInv
  <2> SUFFICES ASSUME HistInit PROVE LogInv
    OBVIOUS
  <2>1. /\ <<>> \in Contents /\ Len(<<>>) = 0 /\ Readable(<<>>) = {}
        /\ <<>> \in Seq(Promise)
    BY DEF Contents, Readable
  <2> QED BY <2>1 DEF HistInit, LogInit, LogInv, LogTypeOK, Shown, Held, InStep, LogSynced, Waiting
<1>2. LogFaults /\ LogInv /\ [HistNext]_histVars => LogInv'
  BY LogInvStep
<1>3. LogInv => PromisesReplayed
  BY DEF LogInv, PromisesReplayed, Shown, Held
<1>4. ASSUME LogFaults PROVE HistSpec => []PromisesReplayed
  BY <1>1, <1>2, <1>3, <1>4, PTL DEF HistSpec
<1> QED BY <1>4
=============================================================================
