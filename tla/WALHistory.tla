----------------------------- MODULE WALHistory -----------------------------
(***************************************************************************)
(* The log on its own, driven by any sequence of calls, with a history of  *)
(* what it was given: written is the sequence of records since the last    *)
(* Truncate or the last recovery, each marked promised once its Write has  *)
(* returned success (or once a recovery has shown it to the reader).       *)
(***************************************************************************)
EXTENDS WAL

VARIABLE written

histVars == <<logVars, written>>

\* The history after a recovery: what the reader was given is a promise.
\* The readable positions of l are the first ones, without a gap.
Recovered(l) == [i \in Readable(l) |-> [rec |-> l[i], promised |-> TRUE]]

\* The history with promise p put on the records at the positions in S.
Mark(S, p) ==
    [i \in 1..Len(written) |-> IF i \in S THEN [written[i] EXCEPT !.promised = p] ELSE written[i]]

HistInit == LogInit /\ written = <<>>

HistOpen == LogOpen /\ UNCHANGED written

\* Write returns only after its Sync; Truncate gives up every promise at once.
HistWrite(r) == LogWrite(r) /\ written' = Append(written, [rec |-> r, promised |-> FALSE])
HistWriteShort == LogWriteShort /\ UNCHANGED written
HistTruncate == LogTruncate /\ written' = Mark(1..Len(written), FALSE)

HistSync ==
    /\ LogSync
    /\ written' = IF logPhase = "writing" THEN Mark({Len(written)}, TRUE) ELSE <<>>

HistSyncFails ==
    /\ LogSyncFails
    /\ written' = IF logPhase = "writing" THEN written ELSE <<>>

HistStop == (LogClose \/ LogKill \/ LogPowerLoss) /\ written' = Recovered(log')

HistNext ==
    \/ HistOpen
    \/ \E r \in Record : HistWrite(r)
    \/ HistWriteShort
    \/ HistTruncate
    \/ HistSync
    \/ HistSyncFails
    \/ HistStop

HistSpec == HistInit /\ [][HistNext]_histVars
-----------------------------------------------------------------------------
\* Replay never invents, reorders or skips a record and reaches every record
\* whose Write returned success, whatever fault comes next and however often
\* Sync failed before (log.go, Write and Read).  It holds as long as no record
\* was written behind torn bytes, see DamageConfinedToTail.
PromisesReplayed ==
    ~Buried(log) =>
        \A l \in logDisk :
            /\ \A i \in Readable(l) : i <= Len(written) /\ l[i] = written[i].rec
            /\ \A i \in 1..Len(written) : written[i].promised => i \in Readable(l)

\* "damage is always confined to the tail of an append-only file" (log.go:59):
\* nothing is ever written behind a torn record.
DamageConfinedToTail == ~Buried(log)
=============================================================================
