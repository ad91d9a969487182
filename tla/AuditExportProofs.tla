--------------------------- MODULE AuditExportProofs ---------------------------
(***************************************************************************)
(* Proofs about AuditExport for any number of flushing threads, events,    *)
(* flushes and crashes, signed or not, with a chain and a ledger or not.   *)
(***************************************************************************)
EXTENDS AuditExport, WellFoundedInduction, SequenceTheorems, TLAPS

-----------------------------------------------------------------------------
(* The least and the greatest of a set of natural numbers, which Min and   *)
(* Max choose.                                                             *)

\* A nonempty set of natural numbers has a least element.
LEMMA LeastOf ==
  ASSUME NEW S \in SUBSET Nat, S # {}
  PROVE  \E m \in S : \A e \in S : m =< e
<1>1. PICK m \in S : \A y \in S : ~ (<<y, m>> \in OpToRel(<, Nat))
  BY NatLessThanWellFounded, WFMin
<1>2. \A y \in S : ~ (y < m)
  BY <1>1 DEF OpToRel
<1> QED BY <1>2

LEMMA MinIsLeast ==
  ASSUME NEW S \in SUBSET Nat, S # {}
  PROVE  Min(S) \in S /\ \A e \in S : Min(S) =< e
BY LeastOf DEF Min

LEMMA MaxIsGreatest ==
  ASSUME NEW n \in Nat, NEW S \in SUBSET (1 .. n), S # {}
  PROVE  Max(S) \in S /\ \A e \in S : e =< Max(S)
<1> DEFINE T == {n - e : e \in S}
<1>1. T \subseteq Nat /\ T # {}
  <2>1. \A e \in S : n - e \in Nat
    OBVIOUS
  <2> QED BY <2>1
<1>2. PICK t \in T : \A u \in T : t =< u
  BY <1>1, LeastOf
<1>3. PICK m \in S : t = n - m
  BY <1>2
<1>4. \A e \in S : t =< n - e
  BY <1>2
<1>5. \A e \in S : m >= e
  BY <1>3, <1>4
<1> QED BY <1>3, <1>5 DEF Max

-----------------------------------------------------------------------------
(* Type correctness. *)

LocType == [before : 0 .. allocated, events : SUBSET (1 .. allocated),
            after : 0 .. allocated, rest : SUBSET (1 .. allocated),
            head : Nat, attempt : 0 .. (MaxRetries - 1)]

LEMMA NoFlushType == TypeOK => NoFlush \in LocType
BY RetriesAssumption DEF TypeOK, NoFlush, LocType

LEMMA EventsInRange == TypeOK => 1 .. allocated \subseteq Event /\ allocated \in Nat
BY ExportBoundsAssumption DEF TypeOK, Event

\* The part of TypeOK about the threads and the part about all else.
Writing == {"ledger", "write", "append"}

ThreadsType ==
  /\ pc \in [Flushers -> Label]
  /\ loc \in [Flushers -> LocType]
  /\ \A f \in Flushers : pc[f] \in Writing => loc[f].rest # {}

StoresType ==
  /\ allocated \in 0 .. MaxEvents
  /\ pending \subseteq 1 .. allocated
  /\ committed \subseteq 1 .. allocated
  /\ watermark \in 0 .. allocated
  /\ onDisk \in 0 .. allocated
  /\ ledger \subseteq [before : -1 .. MaxEvents, events : SUBSET Event]
  /\ file \in Seq(Line)
  /\ accepted \subseteq Event
  /\ flushes \in 0 .. MaxFlushes
  /\ crashes \in 0 .. MaxCrashes
  /\ overtaken \subseteq 1 .. allocated

LEMMA TypeSplit ==
  /\ TypeOK <=> ThreadsType /\ StoresType
  /\ TypeOK' <=> (ThreadsType /\ StoresType)'
BY DEF TypeOK, ThreadsType, StoresType, Writing, LocType

\* A thread goes on with new locals and no event is allocated meanwhile.
LEMMA MoveType ==
  ASSUME ThreadsType, NEW f \in Flushers, NEW next \in Label, NEW l \in LocType,
         next \in Writing => l.rest # {},
         Goto(f, next), Set(f, l), UNCHANGED allocated
  PROVE  ThreadsType'
BY DEF ThreadsType, Goto, Set, LocType

\* The same with its locals kept.
LEMMA GotoType ==
  ASSUME ThreadsType, NEW f \in Flushers, NEW next \in Label,
         next \in Writing => loc[f].rest # {},
         Goto(f, next), UNCHANGED <<loc, allocated>>
  PROVE  ThreadsType'
BY DEF ThreadsType, Goto, LocType

LEMMA AppendedFile ==
  ASSUME file \in Seq(Line), NEW line \in Line, file' = Append(file, line)
  PROVE  file' \in Seq(Line) /\ OnFile' = OnFile \cup line.events
<1>1. file' \in Seq(Line) /\ Len(file') = Len(file) + 1
  BY AppendProperties
<1>2. \A n \in 1 .. Len(file) : file'[n] = file[n]
  BY AppendProperties
<1>3. file'[Len(file) + 1] = line
  BY AppendProperties
<1>4. Len(file) \in Nat
  BY LenProperties
<1> QED BY <1>1, <1>2, <1>3, <1>4 DEF OnFile

\* What one line holds is some of what is left to write.
LEMMA PayloadType ==
  ASSUME TypeOK, NEW f \in Flushers, loc[f].rest # {}
  PROVE  Payload(f) \subseteq loc[f].rest
<1>1. loc[f].rest \subseteq Nat
  BY DEF TypeOK
<1>2. Min(loc[f].rest) \in loc[f].rest
  BY <1>1, MinIsLeast
<1> QED BY <1>2 DEF Payload

LEMMA TypeInit == Init => TypeOK
<1> SUFFICES ASSUME Init PROVE TypeOK
  OBVIOUS
<1>1. file \in Seq(Line)
  BY EmptySeq DEF Init
<1> QED BY <1>1, ExportBoundsAssumption, RetriesAssumption DEF Init, TypeOK, NoFlush, Label

LEMMA TypeStep == TypeOK /\ [Next]_vars => TypeOK'
<1> SUFFICES ASSUME TypeOK, ThreadsType, StoresType, [Next]_vars
             PROVE  ThreadsType' /\ StoresType'
  BY TypeSplit
<1> USE ExportBoundsAssumption, RetriesAssumption DEF table, sink, threads
<1>1. CASE InsertEvent
  <2>1. allocated' = allocated + 1 /\ allocated' \in 0 .. MaxEvents
    BY <1>1 DEF InsertEvent, StoresType
  <2>2. 0 .. allocated \subseteq 0 .. allocated' /\ 1 .. allocated \subseteq 1 .. allocated'
    BY <2>1 DEF StoresType
  <2>3. LocType \subseteq LocType'
    BY <2>2 DEF LocType
  <2>4. ThreadsType'
    BY <1>1, <2>3, Zenon DEF InsertEvent, ThreadsType
  <2>5. StoresType'
    BY <1>1, <2>1, <2>2 DEF InsertEvent, StoresType
  <2> QED BY <2>4, <2>5
<1>2. ASSUME NEW e \in pending, CommitEvent(e) PROVE ThreadsType' /\ StoresType'
  BY <1>2 DEF CommitEvent, ThreadsType, StoresType, LocType
<1>3. ASSUME NEW f \in Flushers, ReadWatermark(f) PROVE ThreadsType' /\ StoresType'
  <2>1. [NoFlush EXCEPT !.before = watermark] \in LocType
    BY NoFlushType DEF NoFlush, LocType, StoresType
  <2>2. "export" \in Label /\ "export" \notin Writing
    BY DEF Label, Writing
  <2>3. ThreadsType'
    BY <1>3, <2>1, <2>2, MoveType DEF ReadWatermark
  <2>4. StoresType'
    BY <1>3 DEF ReadWatermark, StoresType
  <2> QED BY <2>3, <2>4
<1>4. ASSUME NEW f \in Flushers, Export(f) PROVE ThreadsType' /\ StoresType'
  <2> DEFINE events == {e \in committed : e > loc[f].before}
  <2>1. CASE events = {}
    <3>1. Goto(f, "idle") /\ Set(f, NoFlush) /\ "idle" \in Label /\ "idle" \notin Writing
      BY <1>4, <2>1 DEF Export, Finish, Label, Writing
    <3> QED BY <1>4, <3>1, NoFlushType, MoveType DEF Export, StoresType
  <2>2. CASE events # {}
    <3> DEFINE l == [loc[f] EXCEPT !.events = events, !.after = Max(events), !.rest = events]
    <3>1. allocated \in Nat /\ committed \subseteq 1 .. allocated
      BY DEF StoresType
    <3>2. events \in SUBSET (1 .. allocated)
      BY <3>1
    <3>3. loc[f] \in LocType
      BY DEF ThreadsType
    <3> HIDE DEF events
    <3>4. Max(events) \in 0 .. allocated
      <4>1. Max(events) \in events
        BY <2>2, <3>1, <3>2, MaxIsGreatest
      <4>2. Max(events) \in 1 .. allocated
        BY <3>2, <4>1
      <4> QED BY <3>1, <4>2
    <3>5. l \in LocType /\ l.rest = events
      BY <3>2, <3>3, <3>4 DEF LocType
    <3>6. Goto(f, "ledger") /\ Set(f, l) /\ "ledger" \in Label
      BY <1>4, <2>2 DEF Export, Label, events
    <3> HIDE DEF l
    <3>7. ThreadsType'
      BY <1>4, <2>2, <3>5, <3>6, MoveType DEF Export
    <3> QED BY <1>4, <3>7 DEF Export, StoresType
  <2> QED BY <2>1, <2>2
<1>5. ASSUME NEW f \in Flushers, CheckLedger(f) PROVE ThreadsType' /\ StoresType'
  <2>1. loc[f].rest # {}
    BY <1>5 DEF CheckLedger, ThreadsType, Writing
  <2>2. "advance" \in Label /\ "write" \in Label
    BY DEF Label
  <2> QED BY <1>5, <2>1, <2>2, GotoType DEF CheckLedger, StoresType
<1>6. ASSUME NEW f \in Flushers, ReadHead(f) PROVE ThreadsType' /\ StoresType'
  <2> DEFINE l == [loc[f] EXCEPT !.head = IF Worm THEN Len(file) ELSE 0]
  <2>1. Len(file) \in Nat
    BY LenProperties DEF StoresType
  <2>2. l \in LocType /\ l.rest = loc[f].rest
    BY <2>1 DEF LocType, ThreadsType
  <2>3. loc[f].rest # {}
    BY <1>6 DEF ReadHead, ThreadsType, Writing
  <2>4. Goto(f, "append") /\ Set(f, l) /\ "append" \in Label
    BY <1>6 DEF ReadHead, Label
  <2> HIDE DEF l
  <2>5. ThreadsType'
    BY <1>6, <2>2, <2>3, <2>4, MoveType DEF ReadHead
  <2> QED BY <1>6, <2>5 DEF ReadHead, StoresType
<1>7. ASSUME NEW f \in Flushers, AppendLine(f) PROVE ThreadsType' /\ StoresType'
  <2> DEFINE rest == loc[f].rest \ Payload(f)
             next == IF rest = {} THEN "post" ELSE "write"
             l    == [loc[f] EXCEPT !.rest = rest]
             line == [prev |-> loc[f].head, events |-> Payload(f)]
  <2>1. Payload(f) \subseteq loc[f].rest
    BY <1>7, PayloadType DEF AppendLine, ThreadsType, Writing
  <2>2. line \in Line
    BY <2>1, EventsInRange DEF Line, ThreadsType, LocType
  <2>3. file' \in Seq(Line)
    BY <1>7, <2>2, AppendedFile DEF AppendLine, StoresType
  <2>4. l \in LocType /\ l.rest = rest
    BY DEF LocType, ThreadsType
  <2>5. Goto(f, next) /\ Set(f, l)
    BY <1>7 DEF AppendLine
  <2>6. next \in Label /\ (next \in Writing => rest # {})
    BY DEF Label, Writing
  <2> HIDE DEF l, rest, next
  <2>7. ThreadsType'
    BY <1>7, <2>4, <2>5, <2>6, MoveType DEF AppendLine
  <2> QED BY <1>7, <2>3, <2>7 DEF AppendLine, StoresType
<1>8. ASSUME NEW f \in Flushers, PostWebhook(f) PROVE ThreadsType' /\ StoresType'
  <2>1. loc[f].events \subseteq Event
    BY EventsInRange DEF ThreadsType, LocType
  <2>2. StoresType'
    BY <1>8, <2>1 DEF PostWebhook, StoresType
  <2>3. PICK answered \in BOOLEAN :
           IF answered \/ loc[f].attempt + 1 = MaxRetries
           THEN Goto(f, "record") /\ UNCHANGED loc
           ELSE Set(f, [loc[f] EXCEPT !.attempt = @ + 1]) /\ UNCHANGED pc
    BY <1>8 DEF PostWebhook
  <2>4. CASE answered \/ loc[f].attempt + 1 = MaxRetries
    <3>1. "record" \in Label /\ "record" \notin Writing
      BY DEF Label, Writing
    <3> QED BY <1>8, <2>2, <2>3, <2>4, <3>1, GotoType DEF PostWebhook
  <2>5. CASE ~ (answered \/ loc[f].attempt + 1 = MaxRetries)
    <3> DEFINE l == [loc[f] EXCEPT !.attempt = @ + 1]
    <3>1. loc[f] \in LocType
      BY DEF ThreadsType
    <3>2. loc[f].attempt + 1 \in 0 .. (MaxRetries - 1)
      BY <2>5, <3>1 DEF LocType
    <3>3. l \in LocType /\ l.rest = loc[f].rest
      BY <3>1, <3>2 DEF LocType
    <3>4. Set(f, l) /\ pc' = pc
      BY <2>3, <2>5
    <3>5. LocType' = LocType
      BY <1>8 DEF PostWebhook, LocType
    <3> HIDE DEF l
    <3>6. ThreadsType'
      BY <3>3, <3>4, <3>5 DEF Set, ThreadsType
    <3> QED BY <2>2, <3>6
  <2> QED BY <2>4, <2>5
<1>9. ASSUME NEW f \in Flushers, RecordBatch(f) PROVE ThreadsType' /\ StoresType'
  <2>1. loc[f] \in LocType
    BY DEF ThreadsType
  <2>2. loc[f].before \in -1 .. MaxEvents /\ loc[f].events \subseteq Event
    BY <2>1, EventsInRange DEF LocType, StoresType
  <2>3. Batch(f) \in [before : -1 .. MaxEvents, events : SUBSET Event]
    BY <2>2 DEF Batch
  <2>4. "advance" \in Label /\ "advance" \notin Writing
    BY DEF Label, Writing
  <2>5. ThreadsType'
    BY <1>9, <2>4, GotoType DEF RecordBatch
  <2> QED BY <1>9, <2>3, <2>5 DEF RecordBatch, StoresType
<1>10. ASSUME NEW f \in Flushers, AdvanceWatermark(f) PROVE ThreadsType' /\ StoresType'
  <2>1. "persist" \in Label /\ "persist" \notin Writing
    BY DEF Label, Writing
  <2>2. loc[f].after \in 0 .. allocated /\ Blank \in 0 .. allocated
    BY DEF ThreadsType, LocType, StoresType, Blank
  <2>3. ThreadsType'
    BY <1>10, <2>1, GotoType DEF AdvanceWatermark
  <2> QED BY <1>10, <2>2, <2>3 DEF AdvanceWatermark, StoresType
<1>11. ASSUME NEW f \in Flushers, PersistWatermark(f) PROVE ThreadsType' /\ StoresType'
  <2>1. "idle" \in Label /\ "idle" \notin Writing
    BY DEF Label, Writing
  <2>2. loc[f].after \in 0 .. allocated
    BY DEF ThreadsType, LocType
  <2>3. ThreadsType'
    BY <1>11, <2>1, NoFlushType, MoveType DEF PersistWatermark, Finish
  <2> QED BY <1>11, <2>2, <2>3 DEF PersistWatermark, StoresType
<1>12. CASE Crash
  <2>1. LocType' = LocType
    BY <1>12 DEF Crash, LocType
  <2>2. "idle" \in Label /\ "idle" \notin Writing
    BY DEF Label, Writing
  <2>3. ThreadsType'
    BY <1>12, <2>1, <2>2, NoFlushType DEF Crash, ThreadsType
  <2> QED BY <1>12, <2>3 DEF Crash, StoresType
<1>13. CASE UNCHANGED vars
  BY <1>13 DEF vars, ThreadsType, StoresType, LocType
<1> QED BY <1>1, <1>2, <1>3, <1>4, <1>5, <1>6, <1>7, <1>8, <1>9, <1>10, <1>11, <1>12, <1>13
        DEF Next, Continue

\* Every value a flush reads, writes or remembers is one the table gave out,
\* and no batch is posted more often than CFI_AUDIT_SINK_RETRIES allows.
THEOREM ExportTypeCorrect == Spec => []TypeOK
<1>1. TypeOK /\ [Next]_vars => TypeOK'
  BY TypeStep
<1> QED BY TypeInit, <1>1, PTL DEF Spec

-----------------------------------------------------------------------------
(***************************************************************************)
(* What a flush has written.  At each of its labels the file holds what it *)
(* exported, but for what it has yet to write; and a batch is recorded     *)
(* after its events are written.                                           *)
(***************************************************************************)

Ended == {"post", "record", "advance", "persist"}

FlushWritten(label, l, onFile) ==
  /\ label \in Writing => l.events \subseteq onFile \cup l.rest
  /\ label \in Ended => l.events \subseteq onFile

Written ==
  /\ \A f \in Flushers : FlushWritten(pc[f], loc[f], OnFile)
  /\ LedgerCoversFile

\* The file never loses a line.
LEMMA FileGrows == TypeOK /\ [Next]_vars => OnFile \subseteq OnFile'
<1> SUFFICES ASSUME TypeOK, [Next]_vars PROVE OnFile \subseteq OnFile'
  OBVIOUS
<1>1. CASE file' = file
  BY <1>1 DEF OnFile
<1>2. ASSUME NEW f \in Flushers, AppendLine(f) PROVE OnFile \subseteq OnFile'
  <2> DEFINE line == [prev |-> loc[f].head, events |-> Payload(f)]
  <2>1. ThreadsType /\ StoresType
    BY TypeSplit
  <2>2. Payload(f) \subseteq loc[f].rest
    BY <1>2, <2>1, PayloadType DEF AppendLine, ThreadsType, Writing
  <2>3. line \in Line
    BY <2>1, <2>2, EventsInRange DEF Line, ThreadsType, LocType
  <2> QED BY <1>2, <2>1, <2>3, AppendedFile DEF AppendLine, StoresType
<1> QED BY <1>1, <1>2 DEF Next, Continue, InsertEvent, CommitEvent, ReadWatermark, Export,
        CheckLedger, ReadHead, PostWebhook, RecordBatch, AdvanceWatermark, PersistWatermark,
        Crash, vars, sink

\* One flush moves, the others stay, the ledger is as before.
LEMMA OneWritten ==
  ASSUME TypeOK, Written, OnFile \subseteq OnFile', UNCHANGED ledger,
         NEW f \in Flushers, NEW next \in Label, NEW l, Goto(f, next), Set(f, l),
         FlushWritten(next, l, OnFile')
  PROVE  Written'
BY TypeSplit DEF Written, Goto, Set, FlushWritten, LedgerCoversFile, ThreadsType

LEMMA WrittenStep == TypeOK /\ Written /\ [Next]_vars => Written'
<1> SUFFICES ASSUME TypeOK, Written, [Next]_vars PROVE Written'
  OBVIOUS
<1>0. ThreadsType /\ StoresType /\ OnFile \subseteq OnFile'
  BY TypeSplit, FileGrows
<1> USE DEF table, sink, threads
<1>1. CASE UNCHANGED <<threads, ledger>>
  BY <1>0, <1>1 DEF Written, FlushWritten, LedgerCoversFile
<1>2. ASSUME NEW f \in Flushers, ReadWatermark(f) PROVE Written'
  BY <1>0, <1>2 DEF ReadWatermark, Goto, Set, Written, FlushWritten, LedgerCoversFile,
     ThreadsType, Writing, Ended
<1>3. ASSUME NEW f \in Flushers, Export(f) PROVE Written'
  <2> DEFINE events == {e \in committed : e > loc[f].before}
             l == [loc[f] EXCEPT !.events = events, !.after = Max(events), !.rest = events]
  <2>1. CASE events = {}
    <3>1. Goto(f, "idle") /\ Set(f, NoFlush) /\ "idle" \in Label
      BY <1>3, <2>1 DEF Export, Finish, Label
    <3>2. FlushWritten("idle", NoFlush, OnFile')
      BY DEF FlushWritten, Writing, Ended
    <3> QED BY <1>0, <1>3, <3>1, <3>2, OneWritten DEF Export
  <2>2. CASE events # {}
    <3>1. Goto(f, "ledger") /\ Set(f, l) /\ "ledger" \in Label
      BY <1>3, <2>2 DEF Export, Label
    <3>2. l.events = events /\ l.rest = events
      BY <1>0 DEF ThreadsType, LocType
    <3> HIDE DEF l, events
    <3>3. FlushWritten("ledger", l, OnFile')
      BY <3>2 DEF FlushWritten, Ended
    <3> QED BY <1>0, <1>3, <3>1, <3>3, OneWritten DEF Export
  <2> QED BY <2>1, <2>2
<1>4. ASSUME NEW f \in Flushers, CheckLedger(f) PROVE Written'
  <2>1. CASE Batch(f) \in ledger
    <3>1. loc[f].events \subseteq OnFile
      BY <2>1 DEF Batch, Written, LedgerCoversFile
    <3> QED BY <1>0, <1>4, <3>1 DEF CheckLedger, Goto, Written, FlushWritten, LedgerCoversFile,
            ThreadsType, Writing, Ended
  <2>2. CASE Batch(f) \notin ledger
    BY <1>0, <1>4, <2>2 DEF CheckLedger, Goto, Written, FlushWritten, LedgerCoversFile,
       ThreadsType, Writing, Ended
  <2> QED BY <2>1, <2>2
<1>5. ASSUME NEW f \in Flushers, ReadHead(f) PROVE Written'
  BY <1>0, <1>5 DEF ReadHead, Goto, Set, Written, FlushWritten, LedgerCoversFile,
     ThreadsType, LocType, Writing, Ended
<1>6. ASSUME NEW f \in Flushers, AppendLine(f) PROVE Written'
  <2> DEFINE rest == loc[f].rest \ Payload(f)
             next == IF rest = {} THEN "post" ELSE "write"
             l    == [loc[f] EXCEPT !.rest = rest]
             line == [prev |-> loc[f].head, events |-> Payload(f)]
  <2>1. Payload(f) \subseteq loc[f].rest
    BY <1>0, <1>6, PayloadType DEF AppendLine, ThreadsType, Writing
  <2>2. line \in Line
    BY <1>0, <2>1, EventsInRange DEF Line, ThreadsType, LocType
  <2>3. OnFile' = OnFile \cup Payload(f)
    BY <1>0, <1>6, <2>2, AppendedFile DEF AppendLine, StoresType
  <2>4. loc[f].events \subseteq OnFile \cup loc[f].rest
    BY <1>6 DEF AppendLine, Written, FlushWritten, Writing
  <2>5. loc[f].events \subseteq OnFile' \cup rest
    BY <2>3, <2>4
  <2>6. l.events = loc[f].events /\ l.rest = rest
    BY <1>0 DEF ThreadsType, LocType
  <2>7. Goto(f, next) /\ Set(f, l)
    BY <1>6 DEF AppendLine
  <2>8. next \in Label /\ (next \in Writing \/ rest = {})
    BY DEF Label, Writing
  <2>9. next \in Ended => rest = {}
    BY DEF Ended
  <2> HIDE DEF l, rest, next
  <2>10. FlushWritten(next, l, OnFile')
    BY <1>6, <2>5, <2>6, <2>8, <2>9 DEF FlushWritten
  <2> QED BY <1>0, <1>6, <2>7, <2>8, <2>10, OneWritten DEF AppendLine
<1>7. ASSUME NEW f \in Flushers, PostWebhook(f) PROVE Written'
  BY <1>0, <1>7 DEF PostWebhook, Goto, Set, Written, FlushWritten, LedgerCoversFile,
     ThreadsType, LocType, Writing, Ended
<1>8. ASSUME NEW f \in Flushers, RecordBatch(f) PROVE Written'
  <2>1. Batch(f).events \subseteq OnFile
    BY <1>8 DEF RecordBatch, Batch, Written, FlushWritten, Ended
  <2> QED BY <1>0, <1>8, <2>1 DEF RecordBatch, Goto, Written, FlushWritten, LedgerCoversFile,
          ThreadsType, Writing, Ended
<1>9. ASSUME NEW f \in Flushers, AdvanceWatermark(f) PROVE Written'
  BY <1>0, <1>9 DEF AdvanceWatermark, Goto, Written, FlushWritten, LedgerCoversFile,
     ThreadsType, Writing, Ended
<1>10. ASSUME NEW f \in Flushers, PersistWatermark(f) PROVE Written'
  BY <1>0, <1>10 DEF PersistWatermark, Finish, Goto, Set, Written, FlushWritten,
     LedgerCoversFile, ThreadsType, Writing, Ended
<1>11. CASE Crash
  BY <1>0, <1>11 DEF Crash, Written, FlushWritten, LedgerCoversFile, Writing, Ended
<1> QED BY <1>1, <1>2, <1>3, <1>4, <1>5, <1>6, <1>7, <1>8, <1>9, <1>10, <1>11
        DEF Next, Continue, InsertEvent, CommitEvent, vars

LEMMA WrittenInit == Init => Written
BY DEF Init, Written, FlushWritten, LedgerCoversFile, Writing, Ended

\* A batch that a later flush would skip as already sent is wholly in the
\* file, whatever flushes overlap and wherever the process dies (emit records
\* the batch id last; the check at its head reads it).
THEOREM LedgerIsCovered == Spec => []LedgerCoversFile
<1>1. TypeOK /\ Written /\ [Next]_vars => (TypeOK /\ Written)'
  BY TypeStep, WrittenStep
<1>2. Written => LedgerCoversFile
  BY DEF Written
<1> QED BY TypeInit, WrittenInit, <1>1, <1>2, PTL DEF Spec

-----------------------------------------------------------------------------
(***************************************************************************)
(* What the watermark stands for.  An event is live once it has an id that *)
(* may still be committed, and settled when it is in the file or a flush   *)
(* overtook it.  Every cursor in the system (the watermark, its file, the  *)
(* one each flush started from) has all live events up to it settled; and  *)
(* a flush has exported all live events between its two cursors, but for   *)
(* those it overtook.                                                      *)
(***************************************************************************)

Live == committed \cup pending

Settled == OnFile \cup overtaken

Covered(cursor, live, settled) == \A e \in live : e =< cursor => e \in settled

FlushExported(label, l, live, settled) ==
  /\ Covered(l.before, live, settled)
  /\ label \in Writing \cup Ended =>
       \A e \in live : l.before < e /\ e =< l.after => e \in l.events \cup settled

CursorsCovered ==
  /\ pending \cap committed = {}
  /\ Covered(watermark, Live, Settled)
  /\ Covered(onDisk, Live, Settled)
  /\ \A f \in Flushers : FlushExported(pc[f], loc[f], Live, Settled)

\* After its last line, a flush's new cursor is as good as the one it read.
LEMMA AfterIsCovered ==
  ASSUME TypeOK, Written, CursorsCovered, NEW f \in Flushers, pc[f] \in Ended
  PROVE  Covered(loc[f].after, Live, Settled)
<1>1. ThreadsType /\ StoresType
  BY TypeSplit
<1>2. loc[f].events \subseteq Settled
  BY DEF Written, FlushWritten, Settled
<1>3. /\ \A e \in Live : e =< loc[f].before => e \in Settled
      /\ \A e \in Live : loc[f].before < e /\ e =< loc[f].after =>
           e \in loc[f].events \cup Settled
  BY DEF CursorsCovered, FlushExported, Covered
<1>4. Live \subseteq Int /\ loc[f].before \in Int
  BY <1>1 DEF Live, StoresType, ThreadsType, LocType
<1>5. ASSUME NEW e \in Live, e =< loc[f].after PROVE e \in Settled
  <2>1. CASE e =< loc[f].before
    BY <1>3, <2>1
  <2>2. CASE loc[f].before < e
    BY <1>2, <1>3, <1>5, <2>2
  <2> QED BY <1>4, <2>1, <2>2
<1> QED BY <1>5 DEF Covered

\* What is settled stays settled.
LEMMA SettledGrows == TypeOK /\ [Next]_vars => Settled \subseteq Settled'
<1> SUFFICES ASSUME TypeOK, [Next]_vars PROVE Settled \subseteq Settled'
  OBVIOUS
<1>1. OnFile \subseteq OnFile'
  BY FileGrows
<1>2. overtaken \subseteq overtaken'
  BY DEF Next, Continue, InsertEvent, CommitEvent, ReadWatermark, Export, CheckLedger, ReadHead,
     AppendLine, PostWebhook, RecordBatch, AdvanceWatermark, PersistWatermark, Crash, vars, table
<1> QED BY <1>1, <1>2 DEF Settled

\* One flush moves; the table and the watermark are as before.
LEMMA OneExported ==
  ASSUME TypeOK, CursorsCovered, Settled \subseteq Settled',
         UNCHANGED <<allocated, pending, committed, watermark, onDisk>>,
         NEW f \in Flushers, NEW next \in Label, NEW l, Goto(f, next), Set(f, l),
         FlushExported(next, l, Live, Settled')
  PROVE  CursorsCovered'
BY TypeSplit DEF CursorsCovered, Covered, FlushExported, Live, Goto, Set, table, ThreadsType

\* The same when it keeps its cursors and its events.
LEMMA CursorsKept ==
  ASSUME TypeOK, CursorsCovered, Settled \subseteq Settled',
         UNCHANGED <<allocated, pending, committed, watermark, onDisk>>,
         NEW f \in Flushers, pc[f] \in Writing \cup Ended,
         NEW next \in Label, NEW l, Goto(f, next), Set(f, l),
         l.before = loc[f].before, l.after = loc[f].after, l.events = loc[f].events
  PROVE  CursorsCovered'
<1>1. FlushExported(next, l, Live, Settled')
  BY DEF CursorsCovered, FlushExported, Covered
<1> QED BY <1>1, OneExported

LEMMA NoFlushExported == TypeOK => FlushExported("idle", NoFlush, Live, Settled')
<1> SUFFICES ASSUME TypeOK, NEW e \in Live PROVE ~ (e =< 0)
  BY DEF FlushExported, Covered, NoFlush, Writing, Ended
<1> QED BY DEF TypeOK, Live

LEMMA CursorsStep ==
  ASSUME TypeOK, Written, CursorsCovered, [Next]_vars
  PROVE  CursorsCovered'
<1>0. ThreadsType /\ StoresType /\ Settled \subseteq Settled'
  BY TypeSplit, SettledGrows
<1>1. Live \subseteq 1 .. allocated /\ allocated \in Nat
  BY <1>0, ExportBoundsAssumption DEF StoresType, Live
<1> USE DEF table, sink, threads
<1>2. CASE InsertEvent
  <2>1. Live' = Live \cup {allocated + 1}
    BY <1>2 DEF InsertEvent, Live
  <2>2. Settled' = Settled
    BY <1>2 DEF InsertEvent, Settled, OnFile
  <2>3. /\ watermark < allocated + 1 /\ onDisk < allocated + 1
        /\ \A f \in Flushers : loc[f].before < allocated + 1 /\ loc[f].after < allocated + 1
    BY <1>0, <1>1 DEF StoresType, ThreadsType, LocType
  <2>4. /\ watermark \in Int /\ onDisk \in Int
        /\ \A f \in Flushers : loc[f].before \in Int /\ loc[f].after \in Int
    BY <1>0 DEF StoresType, ThreadsType, LocType
  <2>5. pending' \cap committed' = {}
    <3>1. pending \cap committed = {} /\ allocated + 1 \notin committed
      BY <1>1 DEF CursorsCovered, Live
    <3> QED BY <1>2, <3>1 DEF InsertEvent
  <2>6. Covered(watermark, Live', Settled') /\ Covered(onDisk, Live', Settled')
    BY <1>1, <2>1, <2>2, <2>3, <2>4 DEF CursorsCovered, Covered
  <2>7. \A f \in Flushers : FlushExported(pc[f], loc[f], Live', Settled')
    BY <1>1, <2>1, <2>2, <2>3, <2>4 DEF CursorsCovered, FlushExported, Covered
  <2> QED BY <1>2, <2>5, <2>6, <2>7 DEF InsertEvent, CursorsCovered
<1>3. ASSUME NEW e \in pending, CommitEvent(e) PROVE CursorsCovered'
  <2>1. Live' = Live /\ Settled' = Settled
    BY <1>3 DEF CommitEvent, Live, Settled, OnFile
  <2>2. pending' \cap committed' = {}
    BY <1>3 DEF CommitEvent, CursorsCovered
  <2> QED BY <1>3, <2>1, <2>2 DEF CommitEvent, CursorsCovered
<1>4. ASSUME NEW f \in Flushers, ReadWatermark(f) PROVE CursorsCovered'
  <2> DEFINE l == [NoFlush EXCEPT !.before = watermark]
  <2>1. l.before = watermark
    BY DEF NoFlush
  <2>2. Goto(f, "export") /\ Set(f, l) /\ "export" \in Label
    BY <1>4 DEF ReadWatermark, Label
  <2> HIDE DEF l
  <2>3. FlushExported("export", l, Live, Settled')
    BY <1>0, <2>1 DEF FlushExported, Covered, CursorsCovered, Writing, Ended
  <2> QED BY <1>0, <1>4, <2>2, <2>3, OneExported DEF ReadWatermark
<1>5. ASSUME NEW f \in Flushers, Export(f) PROVE CursorsCovered'
  <2> DEFINE events == {e \in committed : e > loc[f].before}
             l == [loc[f] EXCEPT !.events = events, !.after = Max(events), !.rest = events]
  <2>1. CASE events = {}
    <3>1. Goto(f, "idle") /\ Set(f, NoFlush) /\ "idle" \in Label
      BY <1>5, <2>1 DEF Export, Finish, Label
    <3> QED BY <1>0, <1>5, <3>1, NoFlushExported, OneExported DEF Export
  <2>2. CASE events # {}
    <3>1. Goto(f, "ledger") /\ Set(f, l) /\ "ledger" \in Label
      BY <1>5, <2>2 DEF Export, Label
    <3>2. l.before = loc[f].before /\ l.events = events /\ l.after = Max(events)
      BY <1>0 DEF ThreadsType, LocType
    <3>3. events \in SUBSET (1 .. allocated) /\ events \subseteq committed
      BY <1>0 DEF StoresType
    <3>4. Max(events) \in events
      BY <1>1, <2>2, <3>3, MaxIsGreatest
    <3>5. \A e \in pending : e =< Max(events) => e \in Settled'
      <4>1. \A e \in pending : e < Max(events) => e \in overtaken'
        BY <1>5, <2>2 DEF Export
      <4>2. \A e \in pending : e # Max(events)
        BY <3>3, <3>4 DEF CursorsCovered
      <4>3. \A e \in pending : e \in Int /\ Max(events) \in Int
        BY <1>1, <3>3, <3>4 DEF Live
      <4> HIDE DEF events
      <4>4. \A e \in pending : e =< Max(events) => e < Max(events)
        BY <4>2, <4>3
      <4> QED BY <4>1, <4>4 DEF Settled
    <3>6. \A e \in Live : loc[f].before < e /\ e =< Max(events) => e \in events \cup Settled'
      BY <1>0, <1>1, <3>5 DEF Live, ThreadsType, LocType
    <3>7. Covered(loc[f].before, Live, Settled')
      BY <1>0 DEF CursorsCovered, FlushExported, Covered
    <3> HIDE DEF l, events
    <3>8. FlushExported("ledger", l, Live, Settled')
      BY <3>2, <3>6, <3>7 DEF FlushExported
    <3> QED BY <1>0, <1>5, <3>1, <3>8, OneExported DEF Export
  <2> QED BY <2>1, <2>2
<1>6. ASSUME NEW f \in Flushers, CheckLedger(f) PROVE CursorsCovered'
  <2>1. Set(f, loc[f]) /\ Settled' = Settled
    BY <1>0, <1>6 DEF CheckLedger, Set, ThreadsType, Settled, OnFile
  <2>2. PICK next \in {"advance", "write"} : Goto(f, next)
    BY <1>6 DEF CheckLedger
  <2>3. next \in Label /\ pc[f] \in Writing
    BY <1>6 DEF CheckLedger, Label, Writing
  <2> QED BY <1>0, <1>6, <2>1, <2>2, <2>3, CursorsKept DEF CheckLedger
<1>7. ASSUME NEW f \in Flushers, ReadHead(f) PROVE CursorsCovered'
  <2> DEFINE l == [loc[f] EXCEPT !.head = IF Worm THEN Len(file) ELSE 0]
  <2>1. l.before = loc[f].before /\ l.after = loc[f].after /\ l.events = loc[f].events
    BY <1>0 DEF ThreadsType, LocType
  <2>2. Goto(f, "append") /\ Set(f, l) /\ "append" \in Label /\ pc[f] \in Writing
    BY <1>7 DEF ReadHead, Label, Writing
  <2> HIDE DEF l
  <2> QED BY <1>0, <1>7, <2>1, <2>2, CursorsKept DEF ReadHead
<1>8. ASSUME NEW f \in Flushers, AppendLine(f) PROVE CursorsCovered'
  <2> DEFINE rest == loc[f].rest \ Payload(f)
             next == IF rest = {} THEN "post" ELSE "write"
             l    == [loc[f] EXCEPT !.rest = rest]
  <2>1. l.before = loc[f].before /\ l.after = loc[f].after /\ l.events = loc[f].events
    BY <1>0 DEF ThreadsType, LocType
  <2>2. Goto(f, next) /\ Set(f, l) /\ next \in Label /\ pc[f] \in Writing
    BY <1>8 DEF AppendLine, Label, Writing
  <2> HIDE DEF l, rest, next
  <2> QED BY <1>0, <1>8, <2>1, <2>2, CursorsKept DEF AppendLine
<1>9. ASSUME NEW f \in Flushers, PostWebhook(f) PROVE CursorsCovered'
  <2> DEFINE l == [loc[f] EXCEPT !.attempt = @ + 1]
  <2>1. l.before = loc[f].before /\ l.after = loc[f].after /\ l.events = loc[f].events
    BY <1>0 DEF ThreadsType, LocType
  <2>2. \/ Goto(f, "record") /\ Set(f, loc[f])
        \/ Goto(f, "post") /\ Set(f, l)
    BY <1>0, <1>9 DEF PostWebhook, Goto, Set, ThreadsType
  <2>3. "record" \in Label /\ "post" \in Label /\ pc[f] \in Ended
    BY <1>9 DEF PostWebhook, Label, Ended
  <2> HIDE DEF l
  <2>4. CASE Goto(f, "record") /\ Set(f, loc[f])
    BY <1>0, <1>9, <2>3, <2>4, CursorsKept DEF PostWebhook
  <2>5. CASE Goto(f, "post") /\ Set(f, l)
    BY <1>0, <1>9, <2>1, <2>3, <2>5, CursorsKept DEF PostWebhook
  <2> QED BY <2>2, <2>4, <2>5
<1>10. ASSUME NEW f \in Flushers, RecordBatch(f) PROVE CursorsCovered'
  <2>1. Goto(f, "advance") /\ Set(f, loc[f]) /\ "advance" \in Label /\ pc[f] \in Ended
    BY <1>0, <1>10 DEF RecordBatch, Set, ThreadsType, Label, Ended
  <2> QED BY <1>0, <1>10, <2>1, CursorsKept DEF RecordBatch
<1>11. ASSUME NEW f \in Flushers, AdvanceWatermark(f) PROVE CursorsCovered'
  <2>1. Live' = Live /\ Settled' = Settled
    BY <1>11 DEF AdvanceWatermark, Live, Settled, OnFile
  <2>2. Covered(loc[f].after, Live, Settled)
    BY <1>11, AfterIsCovered DEF AdvanceWatermark, Ended
  <2>3. Covered(Blank, Live, Settled)
    BY <1>1 DEF Covered, Blank
  <2>4. \A g \in Flushers : FlushExported(pc'[g], loc[g], Live, Settled)
    BY <1>0, <1>11 DEF AdvanceWatermark, Goto, CursorsCovered, FlushExported, ThreadsType, Ended
  <2> QED BY <1>11, <2>1, <2>2, <2>3, <2>4 DEF AdvanceWatermark, CursorsCovered
<1>12. ASSUME NEW f \in Flushers, PersistWatermark(f) PROVE CursorsCovered'
  <2>1. Live' = Live /\ Settled' = Settled
    BY <1>12 DEF PersistWatermark, Live, Settled, OnFile
  <2>2. Covered(loc[f].after, Live, Settled)
    BY <1>12, AfterIsCovered DEF PersistWatermark, Ended
  <2>3. FlushExported("idle", NoFlush, Live, Settled)
    BY <2>1, NoFlushExported
  <2>4. \A g \in Flushers : FlushExported(pc'[g], loc'[g], Live, Settled)
    BY <1>0, <1>12, <2>3 DEF PersistWatermark, Finish, Goto, Set, CursorsCovered, ThreadsType
  <2> QED BY <1>12, <2>1, <2>2, <2>4 DEF PersistWatermark, CursorsCovered
<1>13. CASE Crash
  <2>1. Live' \subseteq Live /\ Settled' = Settled
    BY <1>13 DEF Crash, Live, Settled, OnFile
  <2>2. FlushExported("idle", NoFlush, Live', Settled')
    BY <1>1, <2>1 DEF FlushExported, Covered, NoFlush, Writing, Ended
  <2>3. \A g \in Flushers : FlushExported(pc'[g], loc'[g], Live', Settled')
    BY <1>13, <2>2 DEF Crash
  <2>4. Covered(onDisk, Live', Settled')
    BY <2>1 DEF CursorsCovered, Covered
  <2> QED BY <1>13, <2>3, <2>4 DEF Crash, CursorsCovered
<1>14. CASE UNCHANGED vars
  <2>1. Live' = Live /\ Settled' = Settled
    BY <1>14 DEF vars, Live, Settled, OnFile
  <2> QED BY <1>14, <2>1 DEF vars, CursorsCovered
<1> QED BY <1>2, <1>3, <1>4, <1>5, <1>6, <1>7, <1>8, <1>9, <1>10, <1>11, <1>12, <1>13, <1>14
        DEF Next, Continue

LEMMA CursorsInit == Init => CursorsCovered
BY DEF Init, CursorsCovered, Covered, FlushExported, Live, Writing, Ended

\* An event at or below the watermark, or below what a restart would read as
\* the watermark, is in the file, unless a flush exported past it while its
\* transaction was open: what flush_audit_sink will never export again has
\* been written, or the sink misses it for that one reason.
THEOREM WatermarkIsCovered == Spec => []WatermarkCoversFile
<1>1. TypeOK /\ Written /\ CursorsCovered /\ [Next]_vars => (TypeOK /\ Written /\ CursorsCovered)'
  BY TypeStep, WrittenStep, CursorsStep
<1>2. CursorsCovered => WatermarkCoversFile
  BY DEF CursorsCovered, Covered, Live, Settled, WatermarkCoversFile
<1> QED BY TypeInit, WrittenInit, CursorsInit, <1>1, <1>2, PTL DEF Spec

\* In a database of one writer the open transaction has the greatest id.
NoneOvertaken ==
  /\ pending \subseteq {allocated} /\ pending \cap committed = {}
  /\ overtaken = {}

LEMMA NoneOvertakenStep ==
  ASSUME SingleWriter, TypeOK, NoneOvertaken, [Next]_vars
  PROVE  NoneOvertaken'
<1>1. committed \subseteq 1 .. allocated /\ allocated \in Nat
  BY ExportBoundsAssumption DEF TypeOK
<1> USE DEF table
<1>2. CASE InsertEvent
  BY <1>1, <1>2 DEF InsertEvent, NoneOvertaken
<1>3. ASSUME NEW e \in pending, CommitEvent(e) PROVE NoneOvertaken'
  BY <1>3 DEF CommitEvent, NoneOvertaken
<1>4. ASSUME NEW f \in Flushers, Export(f) PROVE NoneOvertaken'
  <2> DEFINE events == {e \in committed : e > loc[f].before}
  <2>1. CASE events = {}
    BY <1>4, <2>1 DEF Export, NoneOvertaken
  <2>2. CASE events # {}
    <3>1. Max(events) \in committed
      <4>1. events \in SUBSET (1 .. allocated) /\ events \subseteq committed
        BY <1>1
      <4> HIDE DEF events
      <4> QED BY <1>1, <2>2, <4>1, MaxIsGreatest
    <3> HIDE DEF events
    <3>2. \A e \in pending : ~ (e < Max(events))
      <4>1. \A e \in pending, d \in committed : ~ (e < d)
        BY <1>1 DEF NoneOvertaken
      <4> QED BY <3>1, <4>1
    <3>3. overtaken' = overtaken \cup {e \in pending : e < Max(events)}
      BY <1>4, <2>2 DEF Export, events
    <3> QED BY <1>4, <3>2, <3>3 DEF Export, NoneOvertaken
  <2> QED BY <2>1, <2>2
<1>5. CASE Crash
  BY <1>5 DEF Crash, NoneOvertaken
<1> QED BY <1>2, <1>3, <1>4, <1>5 DEF Next, Continue, ReadWatermark, CheckLedger, ReadHead,
        AppendLine, PostWebhook, RecordBatch, AdvanceWatermark, PersistWatermark, vars, NoneOvertaken

\* Where one writer has the database (SQLite) no flush overtakes an event, so
\* all that lies at or below the watermark or its file is in the sink's file.
THEOREM OneWriterLosesNone ==
  ASSUME SingleWriter
  PROVE  Spec => [](\A e \in committed : e =< watermark \/ e =< onDisk => e \in OnFile)
<1>1. Init => NoneOvertaken
  BY DEF Init, NoneOvertaken
<1>2. TypeOK /\ NoneOvertaken /\ [Next]_vars => (TypeOK /\ NoneOvertaken)'
  BY TypeStep, NoneOvertakenStep
<1>3. NoneOvertaken /\ WatermarkCoversFile =>
        \A e \in committed : e =< watermark \/ e =< onDisk => e \in OnFile
  BY DEF NoneOvertaken, WatermarkCoversFile
<1> QED BY TypeInit, WatermarkIsCovered, <1>1, <1>2, <1>3, PTL DEF Spec

-----------------------------------------------------------------------------
(***************************************************************************)
(* A lone flusher.  Nobody appends between its read of the head and its    *)
(* append, and all it has written lies before what it has yet to write.    *)
(***************************************************************************)

OneFlusher == \A f, g \in Flushers : f = g

LEMMA LoneMove ==
  ASSUME OneFlusher, TypeOK, NEW f \in Flushers, NEW next, NEW l, Goto(f, next), Set(f, l)
  PROVE  \A g \in Flushers : pc'[g] = next /\ loc'[g] = l
BY DEF OneFlusher, TypeOK, Goto, Set

\* What an append does to the lines.
LEMMA AppendedLine ==
  ASSUME TypeOK, NEW f \in Flushers, AppendLine(f)
  PROVE  LET line == [prev |-> loc[f].head, events |-> Payload(f)]
         IN /\ Payload(f) \subseteq loc[f].rest
            /\ Len(file') = Len(file) + 1 /\ Len(file) \in Nat
            /\ \A n \in 1 .. Len(file) : file'[n] = file[n]
            /\ file'[Len(file) + 1] = line
            /\ OnFile' = OnFile \cup Payload(f)
<1> DEFINE line == [prev |-> loc[f].head, events |-> Payload(f)]
<1>1. ThreadsType /\ StoresType
  BY TypeSplit
<1>2. Payload(f) \subseteq loc[f].rest
  BY <1>1, PayloadType DEF AppendLine, ThreadsType, Writing
<1>3. line \in Line
  BY <1>1, <1>2, EventsInRange DEF Line, ThreadsType, LocType
<1>4. file \in Seq(Line) /\ file' = Append(file, line)
  BY <1>1 DEF AppendLine, StoresType
<1>5. OnFile' = OnFile \cup Payload(f)
  BY <1>3, <1>4, AppendedFile
<1> HIDE DEF line
<1>6. /\ Len(file') = Len(file) + 1 /\ Len(file) \in Nat
      /\ \A n \in 1 .. Len(file) : file'[n] = file[n]
      /\ file'[Len(file) + 1] = line
  BY <1>3, <1>4, AppendProperties, LenProperties
<1> QED BY <1>2, <1>5, <1>6 DEF line

HeadIsLast == Worm => \A f \in Flushers : pc[f] = "append" => loc[f].head = Len(file)

LEMMA ChainStep ==
  ASSUME OneFlusher
  PROVE  TypeOK /\ ChainIntact /\ HeadIsLast /\ [Next]_vars => (ChainIntact /\ HeadIsLast)'
<1> SUFFICES ASSUME TypeOK, ChainIntact, HeadIsLast, Worm, [Next]_vars
             PROVE  (ChainIntact /\ HeadIsLast)'
  BY DEF ChainIntact, HeadIsLast
<1>1. ASSUME NEW f \in Flushers, AppendLine(f) PROVE (ChainIntact /\ HeadIsLast)'
  <2>1. loc[f].head = Len(file)
    BY <1>1 DEF HeadIsLast, AppendLine
  <2>2. /\ Len(file') = Len(file) + 1 /\ Len(file) \in Nat
        /\ \A n \in 1 .. Len(file) : file'[n] = file[n]
        /\ file'[Len(file) + 1] = [prev |-> loc[f].head, events |-> Payload(f)]
    BY <1>1, AppendedLine
  <2>3. \A n \in 1 .. Len(file) : file[n].prev = n - 1
    BY DEF ChainIntact
  <2>4. ChainIntact'
    <3>1. file'[Len(file) + 1].prev = Len(file)
      BY <2>1, <2>2
    <3> QED BY <2>2, <2>3, <3>1 DEF ChainIntact
  <2>5. \A g \in Flushers : pc'[g] # "append"
    BY <1>1, LoneMove DEF AppendLine
  <2> QED BY <2>4, <2>5 DEF HeadIsLast
<1>2. ASSUME NEW f \in Flushers, ReadHead(f) PROVE (ChainIntact /\ HeadIsLast)'
  <2>1. file' = file
    BY <1>2 DEF ReadHead, sink
  <2>2. \A g \in Flushers : loc'[g] = [loc[f] EXCEPT !.head = Len(file)]
    BY <1>2, LoneMove DEF ReadHead
  <2>3. \A g \in Flushers : loc'[g].head = Len(file)
    BY <2>2, TypeSplit DEF ThreadsType, LocType
  <2> QED BY <2>1, <2>3 DEF ChainIntact, HeadIsLast
<1>3. CASE file' = file /\ \A g \in Flushers : pc'[g] # "append" \/ UNCHANGED <<pc, loc>>
  BY <1>3 DEF ChainIntact, HeadIsLast
<1>4. ASSUME NEW f \in Flushers, ReadWatermark(f) \/ Export(f) \/ CheckLedger(f) \/ PostWebhook(f)
               \/ RecordBatch(f) \/ AdvanceWatermark(f) \/ PersistWatermark(f)
      PROVE  file' = file /\ \A g \in Flushers : pc'[g] # "append"
  <2>1. file' = file
    BY <1>4 DEF ReadWatermark, Export, CheckLedger, PostWebhook, RecordBatch, AdvanceWatermark,
                PersistWatermark, sink
  <2>2. \E next \in Label \ {"append"} : pc' = [pc EXCEPT ![f] = next]
    <3>1. PostWebhook(f) => pc' = [pc EXCEPT ![f] = "record"] \/ pc' = [pc EXCEPT ![f] = "post"]
      BY DEF PostWebhook, Goto, TypeOK
    <3> QED BY <1>4, <3>1 DEF ReadWatermark, Export, CheckLedger, RecordBatch, AdvanceWatermark,
                PersistWatermark, Finish, Goto, Label
  <2> QED BY <2>1, <2>2 DEF OneFlusher, TypeOK
<1>5. CASE InsertEvent \/ (\E e \in pending : CommitEvent(e)) \/ Crash \/ UNCHANGED vars
  <2>1. file' = file /\ (UNCHANGED <<pc, loc>> \/ pc' = [f \in Flushers |-> "idle"])
    BY <1>5 DEF InsertEvent, CommitEvent, Crash, vars, sink, threads
  <2> QED BY <1>3, <2>1
<1> QED BY <1>1, <1>2, <1>3, <1>4, <1>5 DEF Next, Continue

\* A lone flusher's WORM file is one chain, whatever posts fail and wherever
\* the process dies (read_worm_chain_head, append_worm_record).
THEOREM LoneChainIsIntact ==
  ASSUME OneFlusher
  PROVE  Spec => []ChainIntact
<1>1. Init => ChainIntact /\ HeadIsLast
  BY DEF Init, ChainIntact, HeadIsLast
<1>2. TypeOK /\ ChainIntact /\ HeadIsLast /\ [Next]_vars => (TypeOK /\ ChainIntact /\ HeadIsLast)'
  BY TypeStep, ChainStep
<1> QED BY TypeInit, <1>1, <1>2, PTL DEF Spec

-----------------------------------------------------------------------------
\* What a lone flusher at a label knows of the file's events: they lie below
\* the watermark, or below all it has yet to write.
Behind(label, l, onFile, mark) ==
  /\ label \in {"idle", "export", "persist"} => \A e \in onFile : e =< mark
  /\ label = "export" => l.before = mark
  /\ label \in Writing => \A e \in onFile, r \in l.rest : e < r
  /\ label \in Writing \cup {"post", "record", "advance"} =>
       \A e \in onFile \cup l.rest : e =< l.after

Ordered ==
  crashes = 0 => OncePerEvent /\ \A f \in Flushers : Behind(pc[f], loc[f], OnFile, watermark)

\* The lone flusher moves and the file stays.
LEMMA OneBehind ==
  ASSUME OneFlusher, TypeOK, OncePerEvent, UNCHANGED <<file, crashes>>,
         NEW f \in Flushers, NEW next, NEW l, Goto(f, next), Set(f, l),
         Behind(next, l, OnFile, watermark')
  PROVE  Ordered'
<1>1. OnFile' = OnFile /\ OncePerEvent'
  BY DEF OnFile, OncePerEvent
<1>2. \A g \in Flushers : pc'[g] = next /\ loc'[g] = l
  BY LoneMove
<1> QED BY <1>1, <1>2 DEF Ordered, Behind

LEMMA OrderStep ==
  ASSUME OneFlusher
  PROVE  TypeOK /\ Ordered /\ [Next]_vars => Ordered'
<1> SUFFICES ASSUME TypeOK, Ordered, [Next]_vars PROVE Ordered'
  OBVIOUS
<1>0. CASE crashes' # 0
  BY <1>0 DEF Ordered
<1>1. CASE crashes # 0
  <2>1. crashes' = crashes \/ crashes' = crashes + 1
    BY DEF Next, Continue, InsertEvent, CommitEvent, ReadWatermark, Export, CheckLedger, ReadHead,
       AppendLine, PostWebhook, RecordBatch, AdvanceWatermark, PersistWatermark, Crash, vars
  <2>2. crashes \in Nat
    BY ExportBoundsAssumption DEF TypeOK
  <2> QED BY <1>0, <1>1, <2>1, <2>2
<1> SUFFICES ASSUME crashes = 0, crashes' = 0 PROVE Ordered'
  BY <1>0, <1>1
<1>2. /\ OncePerEvent
      /\ \A f \in Flushers : Behind(pc[f], loc[f], OnFile, watermark)
  BY DEF Ordered
<1>3. ThreadsType /\ StoresType
  BY TypeSplit
<1>4. ASSUME NEW f \in Flushers, ReadWatermark(f) PROVE Ordered'
  <2> DEFINE l == [NoFlush EXCEPT !.before = watermark]
  <2>1. Behind("export", l, OnFile, watermark')
    BY <1>2, <1>4 DEF Behind, ReadWatermark, NoFlush, Writing
  <2> QED BY <1>2, <1>4, <2>1, OneBehind DEF ReadWatermark, sink
<1>5. ASSUME NEW f \in Flushers, Export(f) PROVE Ordered'
  <2> DEFINE events == {e \in committed : e > loc[f].before}
             l == [loc[f] EXCEPT !.events = events, !.after = Max(events), !.rest = events]
  <2>1. (\A e \in OnFile : e =< watermark) /\ loc[f].before = watermark
    BY <1>2, <1>5 DEF Behind, Export
  <2>2. CASE events = {}
    <3>1. Behind("idle", NoFlush, OnFile, watermark')
      BY <1>5, <2>1 DEF Behind, Export, Writing
    <3>2. Goto(f, "idle") /\ Set(f, NoFlush)
      BY <1>5, <2>2 DEF Export, Finish
    <3> QED BY <1>2, <1>5, <3>1, <3>2, OneBehind DEF Export, sink
  <2>3. CASE events # {}
    <3>1. events \in SUBSET (1 .. allocated) /\ allocated \in Nat
      BY <1>3, EventsInRange DEF StoresType
    <3>2. Max(events) \in events /\ \A e \in events : e =< Max(events)
      BY <2>3, <3>1, MaxIsGreatest
    <3>3. OnFile \subseteq Nat /\ watermark \in Nat
      <4>1. \A n \in 1 .. Len(file) : file[n].events \subseteq Event
        <5>1. \A n \in 1 .. Len(file) : file[n] \in Line
          BY <1>3, ElementOfSeq DEF StoresType
        <5> QED BY <5>1 DEF Line
      <4> QED BY <1>3, <3>1, <4>1 DEF OnFile, Event, StoresType
    <3>4. l.rest = events /\ l.after = Max(events)
      BY <1>3 DEF ThreadsType, LocType
    <3>5. \A e \in OnFile, r \in events : e < r
      <4>1. \A r \in events : r > watermark /\ r \in Nat
        BY <2>1, <3>1
      <4> HIDE DEF events
      <4> QED BY <2>1, <3>3, <4>1
    <3>6. \A e \in OnFile \cup events : e =< Max(events)
      BY <3>1, <3>2, <3>3, <3>5
    <3> HIDE DEF l, events
    <3>7. Behind("ledger", l, OnFile, watermark')
      BY <3>4, <3>5, <3>6 DEF Behind
    <3>8. Goto(f, "ledger") /\ Set(f, l)
      BY <1>5, <2>3 DEF Export, l, events
    <3> QED BY <1>2, <1>5, <3>7, <3>8, OneBehind DEF Export, sink
  <2> QED BY <2>2, <2>3
<1>6. ASSUME NEW f \in Flushers, CheckLedger(f) PROVE Ordered'
  <2>1. /\ \A e \in OnFile, r \in loc[f].rest : e < r
        /\ \A e \in OnFile \cup loc[f].rest : e =< loc[f].after
    BY <1>2, <1>6 DEF Behind, CheckLedger, Writing
  <2>2. Behind("advance", loc[f], OnFile, watermark') /\ Behind("write", loc[f], OnFile, watermark')
    BY <2>1 DEF Behind, Writing
  <2>3. Set(f, loc[f])
    BY <1>3, <1>6 DEF CheckLedger, Set, ThreadsType
  <2> QED BY <1>2, <1>6, <2>2, <2>3, OneBehind DEF CheckLedger, sink
<1>7. ASSUME NEW f \in Flushers, ReadHead(f) PROVE Ordered'
  <2> DEFINE l == [loc[f] EXCEPT !.head = IF Worm THEN Len(file) ELSE 0]
  <2>1. /\ \A e \in OnFile, r \in loc[f].rest : e < r
        /\ \A e \in OnFile \cup loc[f].rest : e =< loc[f].after
    BY <1>2, <1>7 DEF Behind, ReadHead, Writing
  <2>2. l.rest = loc[f].rest /\ l.after = loc[f].after
    BY <1>3 DEF ThreadsType, LocType
  <2>3. Goto(f, "append") /\ Set(f, l)
    BY <1>7 DEF ReadHead
  <2> HIDE DEF l
  <2>4. Behind("append", l, OnFile, watermark')
    BY <2>1, <2>2 DEF Behind
  <2> QED BY <1>2, <1>7, <2>3, <2>4, OneBehind DEF ReadHead, sink
<1>8. ASSUME NEW f \in Flushers, AppendLine(f) PROVE Ordered'
  <2> DEFINE rest == loc[f].rest \ Payload(f)
             next == IF rest = {} THEN "post" ELSE "write"
             l == [loc[f] EXCEPT !.rest = rest]
  <2>1. /\ \A e \in OnFile, r \in loc[f].rest : e < r
        /\ \A e \in OnFile \cup loc[f].rest : e =< loc[f].after
    BY <1>2, <1>8 DEF Behind, AppendLine, Writing
  <2>2. /\ Payload(f) \subseteq loc[f].rest
        /\ Len(file') = Len(file) + 1 /\ Len(file) \in Nat
        /\ \A n \in 1 .. Len(file) : file'[n] = file[n]
        /\ file'[Len(file) + 1] = [prev |-> loc[f].head, events |-> Payload(f)]
        /\ OnFile' = OnFile \cup Payload(f)
    BY <1>8, AppendedLine
  <2>3. file'[Len(file) + 1].events = Payload(f)
    BY <2>2
  <2>4. \A n \in 1 .. Len(file) : file[n].events \subseteq OnFile
    BY DEF OnFile
  <2>5. OncePerEvent'
    <3> SUFFICES ASSUME NEW m \in 1 .. Len(file'), NEW n \in 1 .. Len(file'), m < n,
                        NEW d \in file'[m].events, NEW e \in file'[n].events
                 PROVE  d < e
      BY DEF OncePerEvent
    <3>1. m \in 1 .. Len(file) /\ d \in file[m].events /\ d \in OnFile
      BY <2>2, <2>4
    <3>2. CASE n \in 1 .. Len(file)
      BY <1>2, <2>2, <3>1, <3>2 DEF OncePerEvent
    <3>3. CASE n = Len(file) + 1
      BY <2>1, <2>2, <2>3, <3>1, <3>3
    <3> QED BY <2>2, <3>2, <3>3
  <2>6. \A e \in Payload(f), r \in rest : e < r
    <3>1. loc[f].rest \in SUBSET Nat /\ loc[f].rest # {}
      BY <1>3, <1>8, EventsInRange DEF ThreadsType, LocType, AppendLine, Writing, StoresType
    <3>2. CASE Signed
      BY <3>2 DEF Payload
    <3>3. CASE ~ Signed
      <4>1. \A r \in loc[f].rest : Min(loc[f].rest) =< r /\ Min(loc[f].rest) \in Nat
        BY <3>1, MinIsLeast
      <4>2. Payload(f) = {Min(loc[f].rest)}
        BY <3>3 DEF Payload
      <4> QED BY <3>1, <4>1, <4>2
    <3> QED BY <3>2, <3>3
  <2>7. l.rest = rest /\ l.after = loc[f].after
    BY <1>3 DEF ThreadsType, LocType
  <2>8. \A g \in Flushers : pc'[g] = next /\ loc'[g] = l
    <3>1. Goto(f, next) /\ Set(f, l)
      BY <1>8 DEF AppendLine
    <3> HIDE DEF next, l
    <3> QED BY <3>1, LoneMove
  <2>9. next \in {"post", "write"}
    OBVIOUS
  <2>10. /\ \A e \in OnFile', r \in rest : e < r
         /\ \A e \in OnFile' \cup rest : e =< loc[f].after
    BY <2>1, <2>2, <2>6
  <2> HIDE DEF rest, next, l
  <2>11. Behind(next, l, OnFile', watermark')
    BY <2>7, <2>9, <2>10 DEF Behind, Writing
  <2> QED BY <2>5, <2>8, <2>11 DEF Ordered, Behind
<1>9. ASSUME NEW f \in Flushers, PostWebhook(f) PROVE Ordered'
  <2>1. \A e \in OnFile \cup loc[f].rest : e =< loc[f].after
    BY <1>2, <1>9 DEF Behind, PostWebhook
  <2>2. CASE Goto(f, "record") /\ UNCHANGED loc
    <3>1. Behind("record", loc[f], OnFile, watermark')
      BY <2>1 DEF Behind, Writing
    <3>2. Set(f, loc[f])
      BY <1>3, <2>2 DEF Set, ThreadsType
    <3> QED BY <1>2, <1>9, <2>2, <3>1, <3>2, OneBehind DEF PostWebhook
  <2>3. CASE Set(f, [loc[f] EXCEPT !.attempt = @ + 1]) /\ UNCHANGED pc
    <3> DEFINE l == [loc[f] EXCEPT !.attempt = @ + 1]
    <3>1. l.rest = loc[f].rest /\ l.after = loc[f].after
      BY <1>3 DEF ThreadsType, LocType
    <3>2. Goto(f, "post") /\ Set(f, l)
      BY <1>3, <1>9, <2>3 DEF Goto, PostWebhook, ThreadsType
    <3> HIDE DEF l
    <3>3. Behind("post", l, OnFile, watermark')
      BY <2>1, <3>1 DEF Behind, Writing
    <3> QED BY <1>2, <1>9, <3>2, <3>3, OneBehind DEF PostWebhook
  <2> QED BY <1>9, <2>2, <2>3 DEF PostWebhook
<1>10. ASSUME NEW f \in Flushers, RecordBatch(f) PROVE Ordered'
  <2>1. \A e \in OnFile \cup loc[f].rest : e =< loc[f].after
    BY <1>2, <1>10 DEF Behind, RecordBatch
  <2>2. Behind("advance", loc[f], OnFile, watermark')
    BY <2>1 DEF Behind, Writing
  <2>3. Set(f, loc[f])
    BY <1>3, <1>10 DEF RecordBatch, Set, ThreadsType
  <2> QED BY <1>2, <1>10, <2>2, <2>3, OneBehind DEF RecordBatch
<1>11. ASSUME NEW f \in Flushers, AdvanceWatermark(f) PROVE Ordered'
  <2>1. \A e \in OnFile : e =< loc[f].after
    BY <1>2, <1>11 DEF Behind, AdvanceWatermark
  <2>2. Behind("persist", loc[f], OnFile, watermark')
    BY <1>11, <2>1 DEF Behind, AdvanceWatermark, Writing
  <2>3. Set(f, loc[f])
    BY <1>3, <1>11 DEF AdvanceWatermark, Set, ThreadsType
  <2> QED BY <1>2, <1>11, <2>2, <2>3, OneBehind DEF AdvanceWatermark, sink
<1>12. ASSUME NEW f \in Flushers, PersistWatermark(f) PROVE Ordered'
  <2>1. Behind("idle", NoFlush, OnFile, watermark')
    BY <1>2, <1>12 DEF Behind, PersistWatermark, Writing
  <2> QED BY <1>2, <1>12, <2>1, OneBehind DEF PersistWatermark, Finish, sink
<1>13. CASE InsertEvent \/ (\E e \in pending : CommitEvent(e)) \/ UNCHANGED vars
  <2>1. UNCHANGED <<file, pc, loc, watermark>>
    BY <1>13 DEF InsertEvent, CommitEvent, vars, sink, threads
  <2> QED BY <1>2, <2>1 DEF Ordered, OncePerEvent, OnFile, Behind
<1>14. CASE Crash
  BY <1>3, <1>14 DEF Crash, StoresType
<1> QED BY <1>4, <1>5, <1>6, <1>7, <1>8, <1>9, <1>10, <1>11, <1>12, <1>13, <1>14
        DEF Next, Continue

\* Until the process first dies a lone flusher writes each event once and in
\* order, whatever it finds in the ledger (flush_audit_sink).
THEOREM LoneFlusherWritesOnce ==
  ASSUME OneFlusher
  PROVE  Spec => []OncePerEvent
<1>1. Init => Ordered
  BY DEF Init, Ordered, OncePerEvent, OnFile, Behind, Writing
<1>2. TypeOK /\ Ordered /\ [Next]_vars => (TypeOK /\ Ordered)'
  BY TypeStep, OrderStep
<1>3. Ordered => OncePerEvent
  BY DEF Ordered, OncePerEvent
<1> QED BY TypeInit, <1>1, <1>2, <1>3, PTL DEF Spec
=============================================================================
