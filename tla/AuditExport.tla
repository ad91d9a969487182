----------------------------- MODULE AuditExport -----------------------------
(***************************************************************************)
(* The export of the registry's audit table to an external sink: POST      *)
(* /audit/sink reads the watermark, exports the events after it, appends   *)
(* them to the sink's file, posts them to its webhook, records the batch   *)
(* in the idempotency ledger and advances the watermark.  Endpoints run on *)
(* a pool of threads, so flushes overlap each other and the requests that  *)
(* append audit events; the process may die between any two steps.         *)
(*                                                                         *)
(* An audit event is its id.  A set of events stands for the list in id    *)
(* order that export_audit_log_since returns.                              *)
(***************************************************************************)
EXTENDS Sequences, Integers, FiniteSetsExt

CONSTANTS Flushers,       \* threads of the pool that serve POST /audit/sink
          Signed,         \* CFI_AUDIT_SINK_SIGNED: a batch is one signed line
          Worm,           \* CFI_AUDIT_SINK_WORM: lines form a hash chain
          Idempotent,     \* CFI_AUDIT_SINK_IDEMPOTENCY: a ledger of batches
          MaxRetries,     \* CFI_AUDIT_SINK_RETRIES: posts of one batch
          SingleWriter,   \* the database admits one writer at a time (SQLite)
          MaxEvents,      \* bound: audit events appended
          MaxFlushes,     \* bound: flushes started
          MaxCrashes      \* bound: times the process dies

ASSUME SwitchesAssumption == {Signed, Worm, Idempotent, SingleWriter} \subseteq BOOLEAN
ASSUME RetriesAssumption == MaxRetries \in Nat \ {0}
ASSUME ExportBoundsAssumption == MaxEvents \in Nat /\ MaxFlushes \in Nat /\ MaxCrashes \in Nat

VARIABLES
  allocated,   \* last id the audit table's autoincrement gave out
  pending,     \* ids inserted by a transaction that has not committed
  committed,   \* ids of the events in audit_events
  watermark,   \* AuditWatermark._value
  onDisk,      \* the watermark's file: a value, or Blank when truncated
  ledger,      \* batches recorded, in memory and in the ledger's file
  file,        \* the sink's file: one record per line
  accepted,    \* events of the batches the webhook's receiver took
  pc,          \* where each flush is
  loc,         \* the locals of each flush
  flushes,     \* flushes started so far
  crashes,     \* crashes so far
  overtaken    \* history: ids a flush exported past before their commit

table   == <<allocated, pending, committed, overtaken>>
sink    == <<ledger, file, accepted>>
threads == <<pc, loc>>
vars    == <<table, watermark, onDisk, sink, threads, flushes, crashes>>

\* What the watermark's file reads as between its truncation and its write:
\* int() is not tried on an empty file and the value starts at 0 again.
Blank == 0

Label == {"idle", "export", "ledger", "write", "append", "post", "record", "advance", "persist"}

Event == 1 .. MaxEvents

\* before: watermark_before.  events, after: what the export returned.  rest:
\* events still to be written.  head: the line read as the head of the chain.
\* attempt: posts made.
NoFlush == [before |-> 0, events |-> {}, after |-> 0, rest |-> {}, head |-> 0, attempt |-> 0]

\* The batch id digests the events and, in a signed batch, the watermarks;
\* an unsigned batch is digested with a watermark_before of -1.
Batch(f) == [before |-> IF Signed THEN loc[f].before ELSE -1, events |-> loc[f].events]

\* A line's chain_hash stands for its place: `prev` is the line whose hash it
\* carries as chain_prev, 0 for the genesis hash (and when there is no chain).
Line == [prev : Nat, events : SUBSET Event]

OnFile == UNION {file[n].events : n \in 1 .. Len(file)}

TypeOK ==
  /\ allocated \in 0 .. MaxEvents
  /\ pending \subseteq 1 .. allocated
  /\ committed \subseteq 1 .. allocated
  /\ watermark \in 0 .. allocated
  /\ onDisk \in 0 .. allocated
  /\ ledger \subseteq [before : -1 .. MaxEvents, events : SUBSET Event]
  /\ file \in Seq(Line)
  /\ accepted \subseteq Event
  /\ pc \in [Flushers -> Label]
  /\ loc \in [Flushers -> [before : 0 .. allocated, events : SUBSET (1 .. allocated),
                           after : 0 .. allocated, rest : SUBSET (1 .. allocated),
                           head : Nat, attempt : 0 .. (MaxRetries - 1)]]
  /\ \A f \in Flushers : pc[f] \in {"ledger", "write", "append"} => loc[f].rest # {}
  /\ flushes \in 0 .. MaxFlushes
  /\ crashes \in 0 .. MaxCrashes
  /\ overtaken \subseteq 1 .. allocated

Init ==
  /\ allocated = 0 /\ pending = {} /\ committed = {}
  /\ watermark = 0 /\ onDisk = 0
  /\ ledger = {} /\ file = <<>> /\ accepted = {}
  /\ pc = [f \in Flushers |-> "idle"]
  /\ loc = [f \in Flushers |-> NoFlush]
  /\ flushes = 0 /\ crashes = 0 /\ overtaken = {}

-----------------------------------------------------------------------------
(* The requests that append audit events.                                  *)

\* The insert takes the next id; it is not seen until its commit.  A
\* database with one writer makes the next insert wait for that.
InsertEvent ==
  /\ allocated < MaxEvents
  /\ SingleWriter => pending = {}
  /\ allocated' = allocated + 1
  /\ pending' = pending \cup {allocated + 1}
  /\ UNCHANGED <<committed, overtaken, watermark, onDisk, sink, threads, flushes, crashes>>

CommitEvent(e) ==
  /\ e \in pending
  /\ pending' = pending \ {e}
  /\ committed' = committed \cup {e}
  /\ UNCHANGED <<allocated, overtaken, watermark, onDisk, sink, threads, flushes, crashes>>

-----------------------------------------------------------------------------
(* One flush.                                                              *)

Goto(f, next) == pc' = [pc EXCEPT ![f] = next]
Set(f, locals) == loc' = [loc EXCEPT ![f] = locals]
Finish(f) == Goto(f, "idle") /\ Set(f, NoFlush)

ReadWatermark(f) ==
  /\ pc[f] = "idle"
  /\ flushes < MaxFlushes
  /\ flushes' = flushes + 1
  /\ Goto(f, "export")
  /\ Set(f, [NoFlush EXCEPT !.before = watermark])
  /\ UNCHANGED <<table, watermark, onDisk, sink, crashes>>

\* A bug: an event with the watermark's own id would be exported again.
Export_FromWatermark(f) ==
  /\ pc[f] = "export"
  /\ LET events == {e \in committed : e >= loc[f].before}
     IN IF events = {} THEN Finish(f) /\ UNCHANGED overtaken
        ELSE /\ Goto(f, "ledger")
             /\ Set(f, [loc[f] EXCEPT !.events = events, !.after = Max(events), !.rest = events])
             /\ overtaken' = overtaken \cup {e \in pending : e < Max(events)}
  /\ UNCHANGED <<allocated, pending, committed, watermark, onDisk, sink, flushes, crashes>>

\* A bug: the export begins one event too late.
Export_AfterNext(f) ==
  /\ pc[f] = "export"
  /\ LET events == {e \in committed : e > loc[f].before + 1}
     IN IF events = {} THEN Finish(f) /\ UNCHANGED overtaken
        ELSE /\ Goto(f, "ledger")
             /\ Set(f, [loc[f] EXCEPT !.events = events, !.after = Max(events), !.rest = events])
             /\ overtaken' = overtaken \cup {e \in pending : e < Max(events)}
  /\ UNCHANGED <<allocated, pending, committed, watermark, onDisk, sink, flushes, crashes>>

\* export_audit_log_since; with no events nothing is signed, written, posted
\* or recorded and the watermark stays.  Its query does not see an event that
\* is inserted and not committed: one below the last it returns is overtaken.
Export(f) ==
  /\ pc[f] = "export"
  /\ LET events == {e \in committed : e > loc[f].before}
     IN IF events = {} THEN Finish(f) /\ UNCHANGED overtaken
        ELSE /\ Goto(f, "ledger")
             /\ Set(f, [loc[f] EXCEPT !.events = events, !.after = Max(events), !.rest = events])
             /\ overtaken' = overtaken \cup {e \in pending : e < Max(events)}
  /\ UNCHANGED <<allocated, pending, committed, watermark, onDisk, sink, flushes, crashes>>

\* A bug: the batch enters the ledger before it is written.
CheckLedger_RecordsFirst(f) ==
  /\ pc[f] = "ledger"
  /\ Goto(f, IF Idempotent /\ Batch(f) \in ledger THEN "advance" ELSE "write")
  /\ ledger' = IF Idempotent THEN ledger \cup {Batch(f)} ELSE ledger
  /\ UNCHANGED <<table, watermark, onDisk, file, accepted, loc, flushes, crashes>>

\* A batch in the ledger is skipped, and still counts as flushed.
CheckLedger(f) ==
  /\ pc[f] = "ledger"
  /\ Goto(f, IF Idempotent /\ Batch(f) \in ledger THEN "advance" ELSE "write")
  /\ UNCHANGED <<table, watermark, onDisk, sink, loc, flushes, crashes>>

\* read_worm_chain_head, before each line.
ReadHead(f) ==
  /\ pc[f] = "write"
  /\ Goto(f, "append")
  /\ Set(f, [loc[f] EXCEPT !.head = IF Worm THEN Len(file) ELSE 0])
  /\ UNCHANGED <<table, watermark, onDisk, sink, flushes, crashes>>

\* What one line holds: the whole signed batch, or the next event.
Payload(f) == IF Signed THEN loc[f].rest ELSE {Min(loc[f].rest)}

\* A bug: the record is chained to the genesis hash.
AppendLine_Unchained(f) ==
  /\ pc[f] = "append"
  /\ file' = Append(file, [prev |-> 0, events |-> Payload(f)])
  /\ LET rest == loc[f].rest \ Payload(f)
     IN /\ Goto(f, IF rest = {} THEN "post" ELSE "write")
        /\ Set(f, [loc[f] EXCEPT !.rest = rest])
  /\ UNCHANGED <<table, watermark, onDisk, ledger, accepted, flushes, crashes>>

AppendLine(f) ==
  /\ pc[f] = "append"
  /\ file' = Append(file, [prev |-> loc[f].head, events |-> Payload(f)])
  /\ LET rest == loc[f].rest \ Payload(f)
     IN /\ Goto(f, IF rest = {} THEN "post" ELSE "write")
        /\ Set(f, [loc[f] EXCEPT !.rest = rest])
  /\ UNCHANGED <<table, watermark, onDisk, ledger, accepted, flushes, crashes>>

\* A bug: one post more than the retries allow.
PostWebhook_OneMore(f) ==
  /\ pc[f] = "post"
  /\ accepted' \in {accepted, accepted \cup loc[f].events}
  /\ \E answered \in BOOLEAN :
       IF answered \/ loc[f].attempt = MaxRetries
       THEN Goto(f, "record") /\ UNCHANGED loc
       ELSE /\ Set(f, [loc[f] EXCEPT !.attempt = @ + 1])
            /\ UNCHANGED pc
  /\ UNCHANGED <<table, watermark, onDisk, ledger, file, flushes, crashes>>

\* One post.  The receiver takes the batch or not; the answer is below 500
\* (a 4xx ends the retries like a 2xx does), or it is an error, a lost answer
\* of a batch it took included.
PostWebhook(f) ==
  /\ pc[f] = "post"
  /\ accepted' \in {accepted, accepted \cup loc[f].events}
  /\ \E answered \in BOOLEAN :
       IF answered \/ loc[f].attempt + 1 = MaxRetries
       THEN Goto(f, "record") /\ UNCHANGED loc
       ELSE /\ Set(f, [loc[f] EXCEPT !.attempt = @ + 1])
            /\ UNCHANGED pc
  /\ UNCHANGED <<table, watermark, onDisk, ledger, file, flushes, crashes>>

\* The ledger takes the batch whatever became of the posts.
RecordBatch(f) ==
  /\ pc[f] = "record"
  /\ ledger' = IF Idempotent THEN ledger \cup {Batch(f)} ELSE ledger
  /\ Goto(f, "advance")
  /\ UNCHANGED <<table, watermark, onDisk, file, accepted, loc, flushes, crashes>>

\* The value is set, not compared, and the file opened for writing.
AdvanceWatermark(f) ==
  /\ pc[f] = "advance"
  /\ watermark' = loc[f].after
  /\ onDisk' = Blank
  /\ Goto(f, "persist")
  /\ UNCHANGED <<table, sink, loc, flushes, crashes>>

PersistWatermark(f) ==
  /\ pc[f] = "persist"
  /\ onDisk' = loc[f].after
  /\ Finish(f)
  /\ UNCHANGED <<table, watermark, sink, flushes, crashes>>

Continue(f) ==
  \/ Export(f) \/ CheckLedger(f) \/ ReadHead(f) \/ AppendLine(f) \/ PostWebhook(f)
  \/ RecordBatch(f) \/ AdvanceWatermark(f) \/ PersistWatermark(f)

\* The process dies and is started again: open transactions are rolled back,
\* the ledger and the watermark are read from their files.
Crash ==
  /\ crashes < MaxCrashes
  /\ crashes' = crashes + 1
  /\ pending' = {}
  /\ watermark' = onDisk
  /\ pc' = [f \in Flushers |-> "idle"]
  /\ loc' = [f \in Flushers |-> NoFlush]
  /\ UNCHANGED <<allocated, committed, overtaken, onDisk, sink, flushes>>

Next ==
  \/ InsertEvent
  \/ \E e \in pending : CommitEvent(e)
  \/ \E f \in Flushers : ReadWatermark(f) \/ Continue(f)
  \/ Crash

\* A flush that was started is run to its end, and so is an open
\* transaction; nobody need start either.
Fairness ==
  /\ \A f \in Flushers : WF_vars(Continue(f))
  /\ WF_vars(\E e \in pending : CommitEvent(e))

Spec == Init /\ [][Next]_vars
FairSpec == Spec /\ Fairness

-----------------------------------------------------------------------------
(* Properties.                                                             *)

\* An event at or below the watermark, or below what a restart would read as
\* the watermark, is in the sink's file, or was inserted and not committed
\* when a flush exported past it: overlapping flushes, a torn watermark file
\* and a crash lose no other (get_watermark, set_watermark, flush_audit_sink).
WatermarkCoversFile ==
  \A e \in committed : e =< watermark \/ e =< onDisk => e \in OnFile \cup overtaken

\* A batch the ledger would skip is wholly in the file.
LedgerCoversFile == \A b \in ledger : b.events \subseteq OnFile

\* A lone flusher that has not died yet writes each event once, in order.
OncePerEvent ==
  crashes = 0 =>
    \A m, n \in 1 .. Len(file) :
      m < n => \A d \in file[m].events, e \in file[n].events : d < e

\* The lines of a WORM file form one chain: each carries its predecessor's
\* hash, a lone flusher's deaths included ("Append-only hash chain for local
\* audit sink files", audit_worm.py:1; two flushers fork it).
ChainIntact == Worm => \A n \in 1 .. Len(file) : file[n].prev = n - 1

\* An event committed when a flush begins its export reaches the file, unless
\* the process dies first.
FlushExports ==
  \A f \in Flushers, e \in Event, n \in 0 .. MaxCrashes :
    (pc[f] = "export" /\ e \in committed /\ crashes = n) ~> (e \in OnFile \/ crashes > n)

\* "Watermark tracks last successfully exported audit cursor." (the
\* assumption GET /audit/status states): what is at or below it, the sink's
\* webhook has taken.
WatermarkCoversWebhook == \A e \in committed : e =< watermark => e \in accepted
=============================================================================
