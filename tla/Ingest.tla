-------------------------------- MODULE Ingest --------------------------------
(***************************************************************************)
(* The ingest command (ingest.ts): it streams the CSV file, buffers rows   *)
(* and flushes them batch by batch.  The same file may be loaded by        *)
(* several runs, at the same time or again after one that failed.          *)
(***************************************************************************)
EXTENDS OrderTable, Sequences

CONSTANTS
  File,        \* the order_id of every row, duplicates included
  FlushSize,   \* INGEST_BATCH_SIZE
  Mortal       \* loaders and workers that may die

ASSUME IngestAssumption ==
  /\ File \in Seq(Order) /\ FlushSize \in Nat \ {0}
  /\ IsFiniteSet(Loader) /\ Mortal \subseteq Loader \cup Worker

VARIABLES
  reading,  \* per loader: "open", "flush" or "last" (a flush awaited), "done", "failed"
  read,     \* rowsRead
  flushed,  \* rows of the buffers flushed so far; the rest is the buffer
  inserted  \* rowsInserted
ingestVars == <<reading, read, flushed, inserted>>

IngestTypeOK ==
  /\ reading \in [Loader -> {"open", "flush", "last", "done", "failed"}]
  /\ read \in [Loader -> 0..Len(File)] /\ flushed \in [Loader -> 0..Len(File)]
  /\ \A p \in Loader : flushed[p] <= read[p] /\ read[p] - flushed[p] <= FlushSize
  /\ inserted \in [Loader -> 0..LastId]

IngestInit ==
  /\ reading = [p \in Loader |-> "open"] /\ read = [p \in Loader |-> 0]
  /\ flushed = [p \in Loader |-> 0] /\ inserted = [p \in Loader |-> 0]

Rows(from, to) == {File[k] : k \in from..to}
Buffer(p)      == Rows(flushed[p] + 1, read[p])

(* One row of the stream; a full buffer is flushed, and whatever is left   *)
(* at the end of the file, if only nothing.                                *)
ReadRow(p) ==
  /\ reading[p] = "open" /\ read[p] < Len(File)
  /\ read' = [read EXCEPT ![p] = @ + 1]
  /\ reading' = [reading EXCEPT ![p] =
       IF read[p] + 1 - flushed[p] >= FlushSize THEN "flush" ELSE "open"]
  /\ UNCHANGED <<tableVars, flushed, inserted>>

(* A slip of ingestOrders: no last flush.                                  *)
EndOfFileNoFlush(p) ==
  /\ reading[p] = "open" /\ read[p] = Len(File)
  /\ reading' = [reading EXCEPT ![p] = "done"]
  /\ UNCHANGED <<tableVars, read, flushed, inserted>>

EndOfFile(p) ==
  /\ reading[p] = "open" /\ read[p] = Len(File)
  /\ reading' = [reading EXCEPT ![p] = "last"]
  /\ UNCHANGED <<tableVars, read, flushed, inserted>>

(* A slip of flush: it counts the rows it sent, not affectedRows.          *)
FlushCountsSent(p) ==
  /\ reading[p] \in {"flush", "last"}
  /\ InsertIgnore(p, Buffer(p))
  /\ inserted' = [inserted EXCEPT ![p] =
       IF @ + Cardinality(Buffer(p)) <= LastId THEN @ + Cardinality(Buffer(p)) ELSE LastId]
  /\ flushed' = [flushed EXCEPT ![p] = read[p]]
  /\ reading' = [reading EXCEPT ![p] = IF reading[p] = "last" THEN "done" ELSE "open"]
  /\ UNCHANGED read

(* flush, its reply, and `batch = []`.  An empty flush sends nothing.      *)
Flush(p) ==
  /\ reading[p] \in {"flush", "last"}
  /\ InsertIgnore(p, Buffer(p))
  /\ inserted' = [inserted EXCEPT ![p] = @ + Cardinality(Missing(Buffer(p)))]
  /\ flushed' = [flushed EXCEPT ![p] = read[p]]
  /\ reading' = [reading EXCEPT ![p] = IF reading[p] = "last" THEN "done" ELSE "open"]
  /\ UNCHANGED read

(* The command dies, or a flush throws, which nothing catches: either      *)
(* before the INSERT or after it, the reply lost.                          *)
LoaderDies(p) ==
  /\ p \in Mortal /\ reading[p] \notin {"done", "failed"}
  /\ reading' = [reading EXCEPT ![p] = "failed"]
  /\ UNCHANGED <<tableVars, read, flushed, inserted>>

FlushUnheard(p) ==
  /\ p \in Mortal /\ reading[p] \in {"flush", "last"}
  /\ InsertIgnore(p, Buffer(p))
  /\ reading' = [reading EXCEPT ![p] = "failed"]
  /\ UNCHANGED <<read, flushed, inserted>>

Load(p)       == ReadRow(p) \/ EndOfFile(p) \/ Flush(p)
IngestNext(p) == Load(p) \/ LoaderDies(p) \/ FlushUnheard(p)
=============================================================================
