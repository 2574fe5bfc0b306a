----------------------------- MODULE SpanExport ------------------------------
(***************************************************************************)
(* ResilientSpanExporter, LocalBuffer and FileSpanExporter of              *)
(* core/resilient_exporter.py, under the span processor of core/telemetry.  *)
(*                                                                         *)
(* Two threads: the worker of the processor, which calls export, and the    *)
(* event loop, which runs the retry and clean-up tasks, force_flush and     *)
(* shutdown.  They share the buffer and its lock, which is not reentrant.   *)
(* What a thread does with the lock is one step, unless the thread asks for *)
(* the lock it holds: then it has the lock for ever.                        *)
(*                                                                         *)
(* An exception of the primary exporter meets logger.warning(..., error=),  *)
(* which the standard logger refuses with a TypeError: the failure is not   *)
(* counted, so that the circuit breaker never opens, and nothing is         *)
(* buffered.                                                                *)
(***************************************************************************)
EXTENDS Naturals, FiniteSets, Sequences, SequencesExt

CONSTANTS
  Spans,
  MaxBatch,     \* max_export_batch_size
  MaxSize,      \* buffer_size
  BackupEvery   \* the buffer is saved at each multiple of this size

ASSUME SpanExportAssumption ==
  /\ IsFiniteSet(Spans)
  /\ {MaxBatch, MaxSize, BackupEvery} \subseteq Nat \ {0}

VARIABLES
  lock,       \* the thread that holds LocalBuffer._lock for ever, or "free"
  buffer,     \* _buffer and _timestamps: spans and their ages
  worker,     \* export: where it is, its batch and what is still to buffer
  eventLoop,  \* what the event loop is doing, and the spans in its hands
  delivered,  \* spans the primary exporter accepted
  lost,       \* spans of batches on which export raised
  kept        \* _current_spans of the fallback exporter

exportVars == <<lock, buffer, worker, eventLoop, delivered, lost, kept>>

Ages == {"new", "minute", "old"}  \* below 1 minute, below 5 minutes, above
Entries == [span : Spans, age : Ages]

SpansOf(s) == {s[i].span : i \in DOMAIN s}
Fresh == Spans \ (ToSet(worker.batch) \cup delivered \cup lost \cup kept)

Runs(thread) == lock # thread

-----------------------------------------------------------------------------
(* LocalBuffer *)

\* The oldest entry goes when the buffer is full.
Room == IF Len(buffer) >= MaxSize THEN Tail(buffer) ELSE buffer

\* mutant: a full buffer makes the caller wait
BlockingPut(thread, span) ==
  /\ lock = "free"
  /\ Len(buffer) < MaxSize
  /\ buffer' = Append(buffer, [span |-> span, age |-> "new"])
  /\ UNCHANGED lock

\* put: saving the buffer asks for the lock again.
Put(thread, span) ==
  /\ lock = "free"
  /\ buffer' = Append(Room, [span |-> span, age |-> "new"])
  /\ lock' = IF Len(buffer') % BackupEvery = 0 THEN thread ELSE "free"

\* mutant: the entries stay in the buffer
TakeCopy == lock = "free" /\ UNCHANGED buffer

\* get_all
TakeAll == lock = "free" /\ buffer' = <<>>

\* What the buffer has at the positions K, in its order: the n-th of them is
\* the one with n of them up to it.
Keeping(K) ==
  LET upTo(i) == {k \in K : k <= i} IN
  [n \in 1..Cardinality(K) |-> buffer[CHOOSE i \in K : Cardinality(upTo(i)) = n]]

Recent == {i \in DOMAIN buffer : buffer[i].age = "new"}
Unexpired == {i \in DOMAIN buffer : buffer[i].age # "old"}

-----------------------------------------------------------------------------
(* export, on the worker thread *)

Idle == [pc |-> "idle", batch |-> <<>>, todo |-> <<>>]

\* The processor exports what is left when it is shut down.
ExportBegins(B) ==
  /\ worker.pc = "idle"
  /\ B \subseteq Fresh /\ B # {} /\ Cardinality(B) <= MaxBatch
  /\ worker' = [pc |-> "primary", batch |-> SetToSeq(B), todo |-> <<>>]
  /\ UNCHANGED <<lock, buffer, eventLoop, delivered, lost, kept>>

PrimaryAccepts ==
  /\ worker.pc = "primary"
  /\ delivered' = delivered \cup ToSet(worker.batch)
  /\ worker' = Idle
  /\ UNCHANGED <<lock, buffer, eventLoop, lost, kept>>

\* _export_with_retry gives up, and export raises.
PrimaryRaises ==
  /\ worker.pc = "primary"
  /\ lost' = lost \cup ToSet(worker.batch)
  /\ worker' = Idle
  /\ UNCHANGED <<lock, buffer, eventLoop, delivered, kept>>

\* The result is FAILURE.
PrimaryRefuses ==
  /\ worker.pc = "primary"
  /\ worker' = [worker EXCEPT !.pc = "buffering", !.todo = worker.batch]
  /\ UNCHANGED <<lock, buffer, eventLoop, delivered, lost, kept>>

WorkerPuts ==
  /\ worker.pc = "buffering"
  /\ worker.todo # <<>>
  /\ Put("worker", Head(worker.todo))
  /\ worker' = [worker EXCEPT !.todo = Tail(@)]
  /\ UNCHANGED <<eventLoop, delivered, lost, kept>>

\* mutant: what is buffered is not given to the fallback exporter
BufferedIsEnough ==
  /\ worker.pc = "buffering"
  /\ worker.todo = <<>>
  /\ Runs("worker")
  /\ worker' = Idle
  /\ UNCHANGED <<lock, buffer, eventLoop, delivered, lost, kept>>

\* FileSpanExporter.export collects the batch.  Each of its flushes raises at
\* span.trace_id, before it clears what was collected.
WorkerFallsBack ==
  /\ worker.pc = "buffering"
  /\ worker.todo = <<>>
  /\ Runs("worker")
  /\ kept' = kept \cup ToSet(worker.batch)
  /\ worker' = Idle
  /\ UNCHANGED <<lock, buffer, eventLoop, delivered, lost>>

\* The processor has been told to shut down and has nothing left to export.
WorkerEnds ==
  /\ worker.pc = "idle"
  /\ eventLoop.pc = "joining"
  /\ worker' = [Idle EXCEPT !.pc = "ended"]
  /\ UNCHANGED <<lock, buffer, eventLoop, delivered, lost, kept>>

-----------------------------------------------------------------------------
(* The event loop *)

Free == [pc |-> "free", hand |-> <<>>]

\* _retry_buffered_spans takes everything out and keeps what is recent.
RetryTakes ==
  /\ eventLoop = Free
  /\ buffer # <<>>
  /\ TakeAll
  /\ eventLoop' = IF Recent = {} THEN Free
                  ELSE [pc |-> "sending", hand |-> Keeping(Recent)]
  /\ UNCHANGED <<lock, worker, delivered, lost, kept>>

SendAccepted ==
  /\ eventLoop.pc \in {"sending", "flushing"}
  /\ delivered' = delivered \cup SpansOf(eventLoop.hand)
  /\ eventLoop' = Free
  /\ UNCHANGED <<lock, buffer, worker, lost, kept>>

\* The first failure ends execute_with_retry, whose warning raises.
SendFails ==
  /\ eventLoop.pc = "sending"
  /\ eventLoop' = [eventLoop EXCEPT !.pc = "returning"]
  /\ UNCHANGED <<lock, buffer, worker, delivered, lost, kept>>

RetryPutsBack ==
  /\ eventLoop.pc = "returning"
  /\ eventLoop.hand # <<>>
  /\ Put("loop", Head(eventLoop.hand).span)
  /\ eventLoop' = [eventLoop EXCEPT !.hand = Tail(@)]
  /\ UNCHANGED <<worker, delivered, lost, kept>>

RetryEnds ==
  /\ eventLoop.pc = "returning"
  /\ eventLoop.hand = <<>>
  /\ Runs("loop")
  /\ eventLoop' = Free
  /\ UNCHANGED <<lock, buffer, worker, delivered, lost, kept>>

\* cleanup_expired
CleanupExpired ==
  /\ eventLoop = Free
  /\ lock = "free"
  /\ buffer' = Keeping(Unexpired)
  /\ UNCHANGED <<lock, worker, eventLoop, delivered, lost, kept>>

\* force_flush takes everything and puts nothing back.
ForceFlush ==
  /\ eventLoop = Free
  /\ buffer # <<>>
  /\ TakeAll
  /\ eventLoop' = [pc |-> "flushing", hand |-> buffer]
  /\ UNCHANGED <<lock, worker, delivered, lost, kept>>

FlushFails ==
  /\ eventLoop.pc = "flushing"
  /\ eventLoop' = Free
  /\ UNCHANGED <<lock, buffer, worker, delivered, lost, kept>>

\* The provider's shutdown joins the worker thread on the event loop, ...
ShutdownBegins ==
  /\ eventLoop = Free
  /\ eventLoop' = [eventLoop EXCEPT !.pc = "joining"]
  /\ UNCHANGED <<lock, buffer, worker, delivered, lost, kept>>

\* ... then ResilientSpanExporter.shutdown empties the buffer.
ShutdownEnds ==
  /\ eventLoop.pc = "joining"
  /\ worker.pc = "ended"
  /\ TakeAll
  /\ kept' = kept \cup SpansOf(buffer)
  /\ eventLoop' = [eventLoop EXCEPT !.pc = "closed"]
  /\ UNCHANGED <<lock, worker, delivered, lost>>

Older(age) == IF age = "new" THEN "minute" ELSE "old"

TimePasses ==
  /\ \E i \in DOMAIN buffer : buffer[i].age # "old"
  /\ buffer' = [i \in DOMAIN buffer |-> [buffer[i] EXCEPT !.age = Older(@)]]
  /\ UNCHANGED <<lock, worker, eventLoop, delivered, lost, kept>>

-----------------------------------------------------------------------------

ExportInit ==
  /\ lock = "free"
  /\ buffer = <<>>
  /\ worker = Idle
  /\ eventLoop = Free
  /\ delivered = {} /\ lost = {} /\ kept = {}

WorkerStep ==
  \/ PrimaryAccepts \/ PrimaryRaises \/ PrimaryRefuses
  \/ WorkerPuts \/ WorkerFallsBack \/ WorkerEnds

EventLoopStep ==
  \/ SendAccepted \/ SendFails \/ FlushFails
  \/ RetryPutsBack \/ RetryEnds \/ ShutdownEnds

ExportNext ==
  \/ \E B \in SUBSET Fresh : ExportBegins(B)
  \/ WorkerStep
  \/ EventLoopStep
  \/ RetryTakes \/ CleanupExpired \/ ForceFlush \/ ShutdownBegins
  \/ TimePasses

ExportSpec == ExportInit /\ [][ExportNext]_exportVars

\* A call of the primary exporter returns or raises, and a thread that does not
\* wait for a lock goes on.
ExportFairSpec ==
  ExportSpec /\ WF_exportVars(WorkerStep) /\ WF_exportVars(EventLoopStep)

-----------------------------------------------------------------------------
(* Properties *)

ExportTypeOK ==
  /\ lock \in {"free", "worker", "loop"}
  /\ buffer \in Seq(Entries)
  /\ worker \in [pc : {"idle", "primary", "buffering", "ended"},
                 batch : Seq(Spans), todo : Seq(Spans)]
  /\ eventLoop \in [pc : {"free", "sending", "returning", "flushing", "joining",
                          "closed"},
                    hand : Seq(Entries)]
  /\ delivered \subseteq Spans /\ lost \subseteq Spans /\ kept \subseteq Spans

\* A span that is to be sent again is in one place, so that it is sent again
\* once: in the buffer or in the hands of the retry task, never in both.
SentOnce ==
  /\ \A i, j \in DOMAIN buffer : buffer[i].span = buffer[j].span => i = j
  /\ SpansOf(buffer) \cap SpansOf(eventLoop.hand) = {}
  /\ delivered \cap (SpansOf(buffer) \cup SpansOf(eventLoop.hand)) = {}

\* A refused span may age out of the buffer, be pushed out of it or be dropped
\* by a flush, but then the fallback exporter has it.
RefusedAreKept ==
  SpansOf(buffer) \cup SpansOf(eventLoop.hand)
    \subseteq kept \cup ToSet(worker.batch)

\* Every export call returns, and a shutdown ends, unless a thread waits for
\* the lock it holds.
ReturnsUnlessStuck ==
  /\ worker.pc \in {"primary", "buffering"} ~> worker.pc = "idle" \/ lock # "free"
  /\ eventLoop.pc = "joining" ~> eventLoop.pc = "closed" \/ lock # "free"

\* Every export call returns: put answers True or False.
ExportReturns == worker.pc \in {"primary", "buffering"} ~> worker.pc = "idle"
=============================================================================
