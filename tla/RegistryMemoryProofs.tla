------------------------- MODULE RegistryMemoryProofs -------------------------
(***************************************************************************)
(* What the in-memory store promises, for any threads, requests and        *)
(* restarts: the sink misses no event between the watermark the process    *)
(* began with and the one it has, and when no request is under way the     *)
(* maps and the log agree.                                                 *)
(***************************************************************************)
EXTENDS RegistryMemory, FiniteSetTheorems, TLAPS

\* Up to place n nothing is missing but what was hidden from the start, and
\* the log has grown to n unless n was hidden from the start.
Covered(n) ==
  /\ n \in Nat
  /\ n =< base \/ n =< Len(log)
  /\ \A k \in 1 .. n : k > base => k \in sent

Threads == DOMAIN pc = Workers /\ DOMAIN job = Workers
FlushLabels == {"flush.export", "flush.send", "flush.advance", "flush.persist"}

\* What a thread in a flush knows of its locals.
FlushKnows(w) ==
  /\ pc[w] = "flush.export" => Covered(job[w].before) /\ "after" \in DOMAIN job[w]
  /\ pc[w] = "flush.send" => Covered(job[w].before) /\ job[w].after \in 1 .. Len(log)
  /\ pc[w] \in {"flush.advance", "flush.persist"} => Covered(job[w].after)

LogIsSequence == \E S : log \in Seq(S)
Cursors == base \in Nat /\ onDisk \in Nat /\ Covered(watermark)

ExportInv == Threads /\ LogIsSequence /\ Cursors /\ \A w \in Workers : FlushKnows(w)

-----------------------------------------------------------------------------
\* The numbers up to a natural number are finite, and as many as it says.
LEMMA UpTo ==
  ASSUME NEW k \in Nat
  PROVE  IsFiniteSet(1 .. k) /\ Cardinality(1 .. k) = k
<1>1. 1 \in Int /\ k \in Int
  OBVIOUS
<1>2. IsFiniteSet(1 .. k) /\ Cardinality(1 .. k) = IF 1 > k THEN 0 ELSE k - 1 + 1
  BY <1>1, FS_Interval
<1> QED BY <1>2

LEMMA AppendGrows ==
  ASSUME NEW S, NEW s \in Seq(S), NEW e
  PROVE  Append(s, e) \in Seq(S \cup {e}) /\ Len(Append(s, e)) = Len(s) + 1
<1>1. s \in Seq(S \cup {e})
  OBVIOUS
<1> QED
  BY <1>1

\* The log is left alone or gets one entry at its end.
LogGrows == log' = log \/ \E e : log' = Append(log, e)

LEMMA GrownLog ==
  ASSUME LogIsSequence, LogGrows
  PROVE  LogIsSequence' /\ Len(log) \in Nat /\ Len(log') \in Nat /\ Len(log) =< Len(log')
<1>1. PICK S : log \in Seq(S)
  BY DEF LogIsSequence
<1>2. Len(log) \in Nat
  BY <1>1
<1>3. CASE log' = log
  BY <1>1, <1>2, <1>3 DEF LogIsSequence
<1>4. CASE \E e : log' = Append(log, e)
  <2>1. PICK e : log' = Append(log, e)
    BY <1>4
  <2>2. log' \in Seq(S \cup {e}) /\ Len(log') = Len(log) + 1
    BY <1>1, <2>1, AppendGrows
  <2> QED
    BY <1>2, <2>2 DEF LogIsSequence
<1> QED
  BY <1>3, <1>4 DEF LogGrows

\* What is covered stays covered while the log and the sink only grow.
LEMMA CoveredIsStable ==
  ASSUME LogIsSequence, LogGrows, sent \subseteq sent', base' = base, base \in Nat,
         NEW n, Covered(n)
  PROVE  Covered(n)'
BY GrownLog DEF Covered

-----------------------------------------------------------------------------
\* A step of one thread that leaves the others' places and locals alone.
Moves(w, next, locals) ==
  pc' = [pc EXCEPT ![w] = next] /\ job' = [job EXCEPT ![w] = locals]

\* It keeps the invariant where the thread knows what its new label asks for.
LEMMA OneThread ==
  ASSUME ExportInv, LogGrows, sent \subseteq sent', base' = base, NEW w \in Workers,
         NEW next, NEW locals, Moves(w, next, locals),
         Cursors', FlushKnows(w)'
  PROVE  ExportInv'
<1>1. Threads'
  BY DEF ExportInv, Threads, Moves
<1>2. LogIsSequence'
  BY GrownLog DEF ExportInv
<1>3. ASSUME NEW v \in Workers, v # w PROVE FlushKnows(v)'
  <2>1. pc'[v] = pc[v] /\ job'[v] = job[v]
    BY <1>3 DEF ExportInv, Threads, Moves
  <2>2. FlushKnows(v) /\ base \in Nat /\ LogIsSequence
    BY DEF ExportInv, Cursors
  <2>3. Len(log) \in Nat /\ Len(log') \in Nat /\ Len(log) =< Len(log')
    BY <2>2, GrownLog
  <2>4. \A n : Covered(n) => Covered(n)'
    BY <2>2, CoveredIsStable
  <2> QED
    BY <2>1, <2>2, <2>3, <2>4 DEF FlushKnows
<1> QED
  BY <1>1, <1>2, <1>3 DEF ExportInv

\* A step of a thread that is not, or is no longer, in a flush.
LEMMA OutsideFlush ==
  ASSUME ExportInv, LogGrows, UNCHANGED export, NEW w \in Workers,
         NEW next, NEW locals, Moves(w, next, locals), next \notin FlushLabels
  PROVE  ExportInv'
<1>1. Cursors'
  BY CoveredIsStable DEF ExportInv, Cursors, export
<1>2. pc'[w] = next
  BY DEF ExportInv, Threads, Moves
<1>3. FlushKnows(w)'
  BY <1>2 DEF FlushKnows, FlushLabels
<1> QED
  BY <1>1, <1>3, OneThread DEF export

-----------------------------------------------------------------------------
LEMMA InitCovers == Init => ExportInv
<1> SUFFICES ASSUME Init PROVE ExportInv
  OBVIOUS
<1>1. LogIsSequence
  <2>1. <<>> \in Seq({})
    OBVIOUS
  <2> QED
    BY <2>1 DEF Init, LogIsSequence
<1>2. Cursors
  BY DEF Init, Cursors, Covered
<1> QED
  BY <1>1, <1>2 DEF Init, ExportInv, Threads, FlushKnows

LEMMA RestartCovers ==
  ASSUME ExportInv, Restart
  PROVE  ExportInv'
<1>1. LogIsSequence'
  <2>1. <<>> \in Seq({})
    OBVIOUS
  <2> QED
    BY <2>1 DEF Restart, LogIsSequence
<1>2. Cursors'
  BY DEF Restart, ExportInv, Cursors, Covered
<1> QED
  BY <1>1, <1>2 DEF Restart, ExportInv, Threads, FlushKnows

\* The requests that are no flush.
LEMMA RequestsCover ==
  ASSUME ExportInv, NEW w \in Workers,
         \/ \E i \in Ids :
              \/ CheckDuplicate(w, i)
              \/ \E to_state \in LifecycleState : GetLifecycle(w, i, to_state)
              \/ \E successor \in Ids : CheckSuccessor(w, i, successor)
              \/ \E status \in Decisions : GetTicket(w, i, status)
              \/ \E e \in Epochs : CheckInvariant(w, i, e)
         \/ PutPackage(w) \/ PutRecord(w) \/ EnqueueReview(w) \/ AuditRegister(w)
         \/ GetForSupersede(w) \/ AppendToChain(w)
         \/ CheckMove(w) \/ BuildEvent(w) \/ AppendHistory(w) \/ SetState(w) \/ PutBack(w)
         \/ AuditTransition(w)
         \/ SetStatus(w) \/ GetDecided(w) \/ AuditDecision(w)
         \/ PutManifest(w) \/ AuditPublish(w)
  PROVE  ExportInv'
<1>1. LogGrows /\ UNCHANGED export
  BY DEF LogGrows, CheckDuplicate, GetLifecycle, CheckSuccessor, GetTicket, CheckInvariant,
         PutPackage, PutRecord, EnqueueReview, AuditRegister, GetForSupersede, AppendToChain,
         CheckMove, BuildEvent, AppendHistory, SetState, PutBack, AuditTransition, SetStatus,
         GetDecided, AuditDecision, PutManifest, AuditPublish, LogAndFinish
<1>2. \E next, locals : next \notin FlushLabels /\ Moves(w, next, locals)
  <2>1. ASSUME NEW i \in Ids,
               \/ CheckDuplicate(w, i)
               \/ \E to_state \in LifecycleState : GetLifecycle(w, i, to_state)
               \/ \E successor \in Ids : CheckSuccessor(w, i, successor)
               \/ \E status \in Decisions : GetTicket(w, i, status)
               \/ \E e \in Epochs : CheckInvariant(w, i, e)
        PROVE  \E next, locals : next \notin FlushLabels /\ Moves(w, next, locals)
    BY <2>1 DEF CheckDuplicate, GetLifecycle, CheckSuccessor, GetTicket, CheckInvariant, Start,
                Moves, FlushLabels
  <2>2. ASSUME \/ PutPackage(w) \/ PutRecord(w) \/ EnqueueReview(w) \/ AuditRegister(w)
               \/ AppendToChain(w) \/ BuildEvent(w) \/ AppendHistory(w) \/ SetState(w)
               \/ PutBack(w) \/ GetDecided(w) \/ AuditDecision(w)
               \/ PutManifest(w) \/ AuditPublish(w)
        PROVE  \E next, locals : next \notin FlushLabels /\ Moves(w, next, locals)
    BY <2>2 DEF PutPackage, PutRecord, EnqueueReview, AuditRegister, AppendToChain, BuildEvent,
                AppendHistory, SetState, PutBack, GetDecided, AuditDecision, PutManifest,
                AuditPublish, LogAndFinish, Goto, GotoWith, Finish, Moves, FlushLabels
  <2>3. ASSUME \/ GetForSupersede(w) \/ CheckMove(w) \/ AuditTransition(w) \/ SetStatus(w)
        PROVE  \E next, locals : next \notin FlushLabels /\ Moves(w, next, locals)
    BY <2>3 DEF GetForSupersede, CheckMove, AuditTransition, SetStatus, Goto, GotoWith, Finish,
                Moves, FlushLabels
  <2> QED
    BY <2>1, <2>2, <2>3
<1> QED
  BY <1>1, <1>2, OutsideFlush

\* A flush, step by step.
LEMMA FlushCovers ==
  ASSUME ExportInv, NEW w \in Workers,
         ReadWatermark(w) \/ Export(w) \/ Send(w) \/ AdvanceWatermark(w) \/ PersistWatermark(w)
  PROVE  ExportInv'
<1> USE DEF Moves
<1>1. /\ LogIsSequence /\ Len(log) \in Nat /\ Cursors /\ FlushKnows(w) /\ base \in Nat
      /\ w \in DOMAIN pc /\ w \in DOMAIN job
  BY GrownLog DEF ExportInv, Cursors, Threads, LogIsSequence
<1>2. CASE ReadWatermark(w)
  <2> DEFINE locals == [NoJob EXCEPT !.before = watermark]
  <2>1. UNCHANGED <<log, export>> /\ Moves(w, "flush.export", locals)
    BY <1>2 DEF ReadWatermark, Start
  <2>2. pc'[w] = "flush.export" /\ job'[w].before = watermark /\ "after" \in DOMAIN job'[w]
    BY <1>1, <2>1 DEF NoJob
  <2>3. Cursors' /\ FlushKnows(w)'
    BY <1>1, <2>1, <2>2, CoveredIsStable DEF Cursors, FlushKnows, export, LogGrows
  <2> QED
    BY <2>1, <2>3, OneThread DEF LogGrows, export
<1>3. CASE Export(w)
  <2>1. UNCHANGED <<log, export>>
    BY <1>3 DEF Export
  <2>2. CASE job[w].before >= Len(log)
    <3>1. Moves(w, "idle", NoJob)
      BY <1>3, <2>2 DEF Export, Finish, GotoWith
    <3> QED
      BY <2>1, <3>1, OutsideFlush DEF LogGrows, FlushLabels
  <2>3. CASE ~(job[w].before >= Len(log))
    <3> DEFINE locals == [job[w] EXCEPT !.after = Len(log)]
    <3>1. pc[w] = "flush.export" /\ Moves(w, "flush.send", locals)
      BY <1>3, <2>3 DEF Export, GotoWith
    <3>2. Covered(job[w].before) /\ "after" \in DOMAIN job[w]
      BY <1>1, <3>1 DEF FlushKnows
    <3>3. pc'[w] = "flush.send" /\ job'[w] = locals
      BY <1>1, <3>1
    <3>4. job'[w].before = job[w].before /\ job'[w].after = Len(log)
      BY <3>2, <3>3
    <3>5. Len(log) \in 1 .. Len(log)
      BY <1>1, <2>3, <3>2 DEF Covered
    <3>6. Cursors' /\ FlushKnows(w)'
      BY <1>1, <2>1, <3>2, <3>3, <3>4, <3>5, CoveredIsStable DEF Cursors, FlushKnows, export, LogGrows
    <3> QED
      BY <2>1, <3>1, <3>6, OneThread DEF LogGrows, export
  <2> QED
    BY <2>2, <2>3
<1>4. CASE Send(w)
  <2> DEFINE events == job[w].before + 1 .. job[w].after
  <2>1. /\ pc[w] = "flush.send" /\ UNCHANGED <<log, watermark, onDisk, base>>
        /\ sent' \in {sent, sent \cup events}
        /\ \/ sent' = sent \cup events /\ Moves(w, "flush.advance", job[w])
           \/ Moves(w, "idle", NoJob)
    BY <1>4 DEF Send, Goto, GotoWith, Finish
  <2>2. LogGrows /\ sent \subseteq sent' /\ base' = base
    BY <2>1 DEF LogGrows
  <2>3. Cursors'
    BY <1>1, <2>1, <2>2, CoveredIsStable DEF Cursors
  <2>4. Covered(job[w].before) /\ job[w].after \in 1 .. Len(log)
    BY <1>1, <2>1 DEF FlushKnows
  <2>5. CASE sent' = sent \cup events /\ Moves(w, "flush.advance", job[w])
    <3>1. Covered(job[w].after)'
      BY <1>1, <2>1, <2>4, <2>5 DEF Covered
    <3>2. pc'[w] = "flush.advance" /\ job'[w] = job[w]
      BY <1>1, <2>5
    <3>3. FlushKnows(w)'
      BY <3>1, <3>2 DEF FlushKnows, Covered
    <3> QED
      BY <2>2, <2>3, <2>5, <3>3, OneThread
  <2>6. CASE Moves(w, "idle", NoJob)
    <3>1. FlushKnows(w)'
      BY <1>1, <2>6 DEF FlushKnows
    <3> QED
      BY <2>2, <2>3, <2>6, <3>1, OneThread
  <2> QED
    BY <2>1, <2>5, <2>6
<1>5. CASE AdvanceWatermark(w)
  <2>1. /\ pc[w] = "flush.advance" /\ Moves(w, "flush.persist", job[w])
        /\ UNCHANGED <<log, base, sent>> /\ watermark' = job[w].after /\ onDisk' = 0
    BY <1>5 DEF AdvanceWatermark, Goto, GotoWith
  <2>2. Covered(job[w].after)
    BY <1>1, <2>1 DEF FlushKnows
  <2>3. pc'[w] = "flush.persist" /\ job'[w] = job[w]
    BY <1>1, <2>1
  <2>4. Cursors' /\ FlushKnows(w)'
    BY <1>1, <2>1, <2>2, <2>3 DEF Cursors, FlushKnows, Covered
  <2> QED
    BY <2>1, <2>4, OneThread DEF LogGrows
<1>6. CASE PersistWatermark(w)
  <2>1. /\ pc[w] = "flush.persist" /\ Moves(w, "idle", NoJob)
        /\ UNCHANGED <<log, watermark, base, sent>> /\ onDisk' = job[w].after
    BY <1>6 DEF PersistWatermark, Finish, GotoWith
  <2>2. onDisk' \in Nat
    BY <1>1, <2>1 DEF FlushKnows, Covered
  <2>3. Cursors' /\ FlushKnows(w)'
    BY <1>1, <2>1, <2>2 DEF Cursors, FlushKnows, Covered
  <2> QED
    BY <2>1, <2>3, OneThread DEF LogGrows
<1> QED
  BY <1>2, <1>3, <1>4, <1>5, <1>6

-----------------------------------------------------------------------------
LEMMA ExportStaysCovered == Spec => []ExportInv
<1>1. ExportInv /\ [Next]_vars => ExportInv'
  <2> SUFFICES ASSUME ExportInv, [Next]_vars PROVE ExportInv'
    OBVIOUS
  <2>1. CASE Restart
    BY <2>1, RestartCovers
  <2>2. ASSUME NEW w \in Workers, Begin(w) \/ Continue(w) PROVE ExportInv'
    BY <2>2, RequestsCover, FlushCovers DEF Begin, Continue
  <2>3. CASE UNCHANGED vars
    BY <2>3 DEF vars, export, ExportInv, Threads, LogIsSequence, Cursors, Covered, FlushKnows
  <2> QED
    BY <2>1, <2>2, <2>3 DEF Next
<1> QED
  BY <1>1, InitCovers, PTL DEF Spec

\* The sink misses an event that the watermark has passed only where the
\* watermark the process began with had hidden its place, for any threads,
\* requests and restarts (flush_audit_sink, AuditWatermark).
THEOREM MissedIsAlwaysHidden == Spec => []MissedIsHidden
<1>1. ExportInv => MissedIsHidden
  BY GrownLog DEF ExportInv, Cursors, Covered, MissedIsHidden
<1> QED
  BY <1>1, ExportStaysCovered, PTL

-----------------------------------------------------------------------------
(* What the maps hold and what the log says, while requests are under way. *)

MemLabel ==
  {"idle", "register.package", "register.record", "register.ticket", "register.audit",
   "supersede", "chain", "transition", "event", "history", "state", "put", "transition.audit",
   "decide", "decide.record", "decide.audit", "publish", "publish.audit"} \cup FlushLabels

\* Labels at which object is a record of id, and those between the append to
\* the history and the log entry.
RecordLabels == {"register.package", "register.record", "chain", "transition", "event",
                 "history", "state", "put"}
MoveLabels   == {"transition", "event", "history", "state", "put", "transition.audit"}
InFlight     == {"state", "put", "transition.audit"}

SomeState == LifecycleState \cup {"none"}
MemEvent  == [from_state : SomeState, to_state : LifecycleState]
MemRecord == [state : SomeState, history : Seq(MemEvent), supersession_chain : Seq(Ids)]
MemJob    == [id : Ids \cup {NoId}, object : Nat, to_state : SomeState, from : SomeState,
              status : Decisions \cup {"none"}, successor : Ids \cup {NoId},
              epoch : Epochs \cup {NoId}, before : Nat, after : Nat]

MapsType ==
  /\ cfis \subseteq Ids
  /\ records \in [Ids -> 0 .. requests] /\ tickets \in [Ids -> 0 .. requests]
  /\ manifests \in [Epochs -> Ids \cup {NoId}]
  /\ heap \in [Object -> MemRecord]
  /\ pc \in [Workers -> MemLabel] /\ job \in [Workers -> MemJob]
  /\ requests \in 0 .. MaxRequests

\* What a request knows of its locals and of the maps.
RequestFits(w) ==
  LET j == job[w]
  IN /\ pc[w] \notin {"idle"} \cup FlushLabels => j.id \in Ids
     /\ pc[w] \in RecordLabels \cup {"register.ticket", "decide"} => j.object \in 1 .. requests
     /\ pc[w] \in MoveLabels \cup {"supersede", "chain"} => j.to_state \in LifecycleState
     /\ pc[w] \in {"supersede", "chain"} => j.successor \in cfis
     /\ pc[w] \in {"publish", "publish.audit"} => j.epoch \in Epochs
     /\ pc[w] \in {"register.record", "register.ticket", "register.audit"} => j.id \in cfis
     /\ pc[w] \in {"register.ticket", "register.audit"} => records[j.id] # 0
     /\ pc[w] = "register.audit" => tickets[j.id] # 0
     /\ pc[w] \in MoveLabels \cup {"chain", "decide", "decide.record"} => records[j.id] # 0

At(w, labels, i) == pc[w] \in labels /\ job[w].id = i
Registrations(i) == Logged(i, {"cfi.registered"}, "reviewed")

\* What a registered id does not have yet, a request is on its way to give.
RegisteredFits(i) ==
  /\ records[i] # 0 \/ Registrations(i) # {} => i \in cfis
  /\ tickets[i] # 0 => records[i] # 0
  /\ i \in cfis =>
       /\ records[i] # 0 \/ \E w \in Workers : At(w, {"register.record"}, i)
       /\ tickets[i] # 0 \/ \E w \in Workers : At(w, {"register.record", "register.ticket"}, i)
       /\ \/ Registrations(i) # {}
          \/ \E w \in Workers : At(w, {"register.record", "register.ticket", "register.audit"}, i)

ManifestFits(e) ==
  manifests[e] # NoId =>
    \/ Logged(manifests[e], {"cohort.published"}, e) # {}
    \/ \E w \in Workers : At(w, {"publish.audit"}, manifests[e]) /\ job[w].epoch = e

ObjectFits(o) ==
  /\ o > requests => heap[o] = NoRecord
  /\ \A k \in 1 .. Len(heap[o].supersession_chain) : heap[o].supersession_chain[k] \in cfis

\* Who may move the object o, as one of the records of id i.
Claims(o, i) ==
  o # 0 /\ (records[i] = o \/ \E w \in Workers : At(w, RecordLabels, i) /\ job[w].object = o)

OneClaim == \A o \in Object, i, j \in Ids : Claims(o, i) /\ Claims(o, j) => i = j

MovesOf(o, s)   == {k \in 1 .. Len(heap[o].history) : heap[o].history[k].to_state = s}
LoggedMoves(i, s) == Logged(i, {"lifecycle.transition", "cfi.superseded"}, s)
Waiting(i, s)   == {w \in Workers : At(w, InFlight, i) /\ job[w].to_state = s}
Busy            == {w \in Workers : pc[w] # "idle"}

\* No record remembers more moves than were logged or are about to be.
MovesFit(o, i, s) ==
  Cardinality(MovesOf(o, s)) =< Cardinality(LoggedMoves(i, s)) + Cardinality(Waiting(i, s))

MapsInv ==
  /\ MapsType
  /\ \A w \in Workers : RequestFits(w)
  /\ \A i \in Ids : RegisteredFits(i)
  /\ \A e \in Epochs : ManifestFits(e)
  /\ \A o \in Object : ObjectFits(o)
  /\ OneClaim
  /\ \A o \in Object, i \in Ids : Claims(o, i) => \A s \in LifecycleState : MovesFit(o, i, s)
  /\ IsFiniteSet(Busy)

-----------------------------------------------------------------------------
\* Maps only grow while a process lives.
MapsGrow ==
  /\ cfis \subseteq cfis' /\ requests =< requests'
  /\ \A i \in Ids : /\ records[i] # 0 => records'[i] # 0
                    /\ tickets[i] # 0 => tickets'[i] # 0

LEMMA LogEntriesStay ==
  ASSUME LogIsSequence, LogGrows, NEW i, NEW actions, NEW detail
  PROVE  /\ Logged(i, actions, detail) \subseteq Logged(i, actions, detail)'
         /\ IsFiniteSet(Logged(i, actions, detail)')
         /\ Cardinality(Logged(i, actions, detail)) \in Nat
         /\ Cardinality(Logged(i, actions, detail)') \in Nat
         /\ Cardinality(Logged(i, actions, detail)) =< Cardinality(Logged(i, actions, detail)')
<1>1. Len(log) \in Nat /\ Len(log') \in Nat /\ Len(log) =< Len(log')
  BY GrownLog
<1>2. \A k \in 1 .. Len(log) : log'[k] = log[k]
  BY DEF LogGrows, LogIsSequence
<1>3. Logged(i, actions, detail) \subseteq Logged(i, actions, detail)'
  BY <1>1, <1>2 DEF Logged
<1>4. Logged(i, actions, detail)' \subseteq 1 .. Len(log')
  BY DEF Logged
<1>5. IsFiniteSet(Logged(i, actions, detail)')
  <2>1. IsFiniteSet(1 .. Len(log'))
    BY <1>1, UpTo
  <2> QED BY <1>4, <2>1, FS_Subset
<1> QED BY <1>3, <1>5, FS_Subset, FS_CardinalityType

\* What an append adds to the log.
LEMMA LogEntryComes ==
  ASSUME LogIsSequence, NEW a, NEW i, NEW d,
         log' = Append(log, [action |-> a, id |-> i, detail |-> d]),
         NEW actions, a \in actions
  PROVE  /\ Logged(i, actions, d)' = Logged(i, actions, d) \cup {Len(log) + 1}
         /\ Cardinality(Logged(i, actions, d)') = Cardinality(Logged(i, actions, d)) + 1
<1> DEFINE e == [action |-> a, id |-> i, detail |-> d]
<1>1. PICK S : log \in Seq(S)
  BY DEF LogIsSequence
<1>2. /\ Len(log) \in Nat /\ Len(log') = Len(log) + 1
      /\ log'[Len(log) + 1] = e /\ \A k \in 1 .. Len(log) : log'[k] = log[k]
  BY <1>1
<1>3. e.action = a /\ e.id = i /\ e.detail = d
  OBVIOUS
<1> HIDE DEF e
<1>4. Logged(i, actions, d)' = Logged(i, actions, d) \cup {Len(log) + 1}
  BY <1>2, <1>3 DEF Logged
<1>5. Len(log) + 1 \notin Logged(i, actions, d)
  BY <1>2 DEF Logged
<1>6. Logged(i, actions, d) \subseteq 1 .. Len(log)
  BY DEF Logged
<1>7. IsFiniteSet(Logged(i, actions, d))
  <2>1. IsFiniteSet(1 .. Len(log))
    BY <1>2, UpTo
  <2> QED BY <1>6, <2>1, FS_Subset
<1> QED BY <1>4, <1>5, <1>7, FS_AddElement

\* An entry for an id is an entry for that id.
LEMMA LogEntryIsFor ==
  ASSUME LogIsSequence, NEW a, NEW i, NEW d,
         log' = Append(log, [action |-> a, id |-> i, detail |-> d]),
         NEW j, NEW actions, NEW detail,
         ~ (j = i /\ a \in actions /\ detail = d)
  PROVE  Logged(j, actions, detail)' = Logged(j, actions, detail)
<1> DEFINE e == [action |-> a, id |-> i, detail |-> d]
<1>1. PICK S : log \in Seq(S)
  BY DEF LogIsSequence
<1>2. /\ Len(log) \in Nat /\ Len(log') = Len(log) + 1
      /\ log'[Len(log) + 1] = e /\ \A k \in 1 .. Len(log) : log'[k] = log[k]
  BY <1>1
<1>3. e.action = a /\ e.id = i /\ e.detail = d
  OBVIOUS
<1> HIDE DEF e
<1> QED BY <1>2, <1>3 DEF Logged

\* One member of a finite set joins, leaves or stays.
LEMMA OneMoves ==
  ASSUME NEW X, IsFiniteSet(X), NEW Y, NEW w, X \ {w} = Y \ {w}
  PROVE  /\ IsFiniteSet(Y) /\ Cardinality(X) \in Nat /\ Cardinality(Y) \in Nat
         /\ (w \in X <=> w \in Y) => Cardinality(Y) = Cardinality(X)
         /\ w \notin X /\ w \in Y => Cardinality(Y) = Cardinality(X) + 1
         /\ w \in X /\ w \notin Y => Cardinality(X) = Cardinality(Y) + 1
<1> DEFINE Rest == X \ {w}
           Full == Rest \cup {w}
<1>1. IsFiniteSet(Rest) /\ w \notin Rest
  BY FS_RemoveElement
<1>2. /\ IsFiniteSet(Full) /\ Cardinality(Full) = Cardinality(Rest) + 1
  BY <1>1, FS_AddElement
<1>3. /\ w \in X => X = Full
      /\ w \notin X => X = Rest
      /\ w \in Y => Y = Full
      /\ w \notin Y => Y = Rest
  OBVIOUS
<1>4. Cardinality(Rest) \in Nat
  BY <1>1, FS_CardinalityType
<1> HIDE DEF Rest, Full
<1> QED BY <1>1, <1>2, <1>3, <1>4

LEMMA WaitingMoves ==
  ASSUME IsFiniteSet(Busy), NEW w \in Workers,
         \A v \in Workers \ {w} : pc'[v] = pc[v] /\ job'[v] = job[v],
         NEW i, NEW s
  PROVE  /\ Cardinality(Waiting(i, s)) \in Nat /\ Cardinality(Waiting(i, s)') \in Nat
         /\ (w \in Waiting(i, s) <=> w \in Waiting(i, s)') =>
              Cardinality(Waiting(i, s)') = Cardinality(Waiting(i, s))
         /\ w \notin Waiting(i, s) /\ w \in Waiting(i, s)' =>
              Cardinality(Waiting(i, s)') = Cardinality(Waiting(i, s)) + 1
         /\ w \in Waiting(i, s) /\ w \notin Waiting(i, s)' =>
              Cardinality(Waiting(i, s)) = Cardinality(Waiting(i, s)') + 1
<1>1. Waiting(i, s) \subseteq Busy
  BY DEF Waiting, Busy, At, InFlight
<1>2. IsFiniteSet(Waiting(i, s))
  BY <1>1, FS_Subset
<1>3. Waiting(i, s) \ {w} = Waiting(i, s)' \ {w}
  BY DEF Waiting, At
<1> QED BY <1>2, <1>3, OneMoves

LEMMA BusyStaysFinite ==
  ASSUME IsFiniteSet(Busy), NEW w \in Workers,
         \A v \in Workers \ {w} : pc'[v] = pc[v] /\ job'[v] = job[v]
  PROVE  IsFiniteSet(Busy)'
<1>1. Busy \ {w} = Busy' \ {w}
  BY DEF Busy
<1> QED BY <1>1, OneMoves

-----------------------------------------------------------------------------
\* The step of one thread, seen by the others.
LEMMA StepOfOne ==
  ASSUME MapsType, NEW w \in Workers, NEW next \in MemLabel, NEW locals \in MemJob,
         Moves(w, next, locals)
  PROVE  /\ pc' \in [Workers -> MemLabel] /\ job' \in [Workers -> MemJob]
         /\ pc'[w] = next /\ job'[w] = locals
         /\ \A v \in Workers \ {w} : pc'[v] = pc[v] /\ job'[v] = job[v]
BY DEF MapsType, Moves

LEMMA OthersFit ==
  ASSUME MapsType, MapsGrow, NEW v \in Workers, RequestFits(v), requests' \in Nat,
         pc'[v] = pc[v], job'[v] = job[v]
  PROVE  RequestFits(v)'
<1>1. \A n : n \in 1 .. requests => n \in 1 .. requests'
  BY DEF MapsType, MapsGrow
<1> QED BY <1>1 DEF RequestFits, MapsGrow, RecordLabels, MoveLabels, FlushLabels

LEMMA ClaimedIsMade ==
  ASSUME MapsInv, NEW o, NEW i \in Ids, Claims(o, i)
  PROVE  o \in 1 .. requests
BY DEF MapsInv, MapsType, Claims, At, RequestFits

\* A claim that is new is the mover's, and of an object just named or of one
\* that its id has already.
LEMMA ClaimsKept ==
  ASSUME MapsInv, NEW w \in Workers, \A v \in Workers \ {w} : pc'[v] = pc[v] /\ job'[v] = job[v],
         requests' \in Nat, requests =< requests',
         \A i \in Ids : records'[i] = records[i] \/ Claims(records'[i], i),
         pc'[w] \in RecordLabels =>
           \/ Claims(job'[w].object, job'[w].id)
           \/ job'[w].object = requests + 1 /\ requests' = requests + 1
  PROVE  /\ OneClaim'
         /\ \A o \in Object, i \in Ids :
              Claims(o, i)' => Claims(o, i) \/ (o = requests + 1 /\ requests' = requests + 1)
<1>1. ASSUME NEW o \in Object, NEW i \in Ids, Claims(o, i)', ~ Claims(o, i)
      PROVE  /\ o = requests + 1 /\ requests' = requests + 1
             /\ pc'[w] \in RecordLabels /\ job'[w].object = o /\ job'[w].id = i
  <2>1. o # 0
    BY <1>1 DEF Claims
  <2>2. records'[i] # o
    BY <1>1, <2>1 DEF Claims
  <2>3. PICK v \in Workers : pc'[v] \in RecordLabels /\ job'[v].id = i /\ job'[v].object = o
    BY <1>1, <2>2 DEF Claims, At
  <2>4. v = w
    BY <1>1, <2>1, <2>3 DEF Claims, At
  <2> QED BY <1>1, <2>3, <2>4
<1>2. OneClaim'
  <2> SUFFICES ASSUME NEW o \in Object, NEW i \in Ids, NEW j \in Ids, Claims(o, i)', Claims(o, j)'
               PROVE  i = j
    BY DEF OneClaim
  <2>1. CASE Claims(o, i) /\ Claims(o, j)
    BY <2>1 DEF MapsInv, OneClaim
  <2>2. CASE ~ Claims(o, i) /\ ~ Claims(o, j)
    BY <1>1, <2>2
  <2>3. requests \in Nat
    BY DEF MapsInv, MapsType
  <2>4. ~ (Claims(o, i) /\ ~ Claims(o, j)) /\ ~ (Claims(o, j) /\ ~ Claims(o, i))
    BY <1>1, <2>3, ClaimedIsMade
  <2> QED BY <2>1, <2>2, <2>4
<1>3. ASSUME NEW o \in Object, NEW i \in Ids, Claims(o, i)'
      PROVE  Claims(o, i) \/ (o = requests + 1 /\ requests' = requests + 1)
  BY <1>1, <1>3
<1> QED BY <1>2, <1>3

\* A new object has no history.
LEMMA NewObjectFits ==
  ASSUME MapsInv, LogIsSequence, NEW o \in Object, o = requests + 1, heap' = heap \/ heap'[o] = heap[o],
         NEW i, NEW s, Cardinality(LoggedMoves(i, s)') \in Nat, Cardinality(Waiting(i, s)') \in Nat
  PROVE  MovesFit(o, i, s)'
<1>1. heap'[o].history = <<>>
  BY DEF MapsInv, ObjectFits, NoRecord, MapsType
<1>2. MovesOf(o, s)' = {}
  BY <1>1 DEF MovesOf
<1> QED BY <1>2, FS_EmptySet DEF MovesFit

\* A step that changes neither maps, records nor log.
LEMMA StoreKept ==
  ASSUME MapsInv, LogIsSequence, UNCHANGED <<maps, heap, log>>,
         NEW w \in Workers, NEW next \in MemLabel, NEW locals \in MemJob, Moves(w, next, locals),
         requests' \in {requests, requests + 1}, requests' =< MaxRequests,
         pc[w] \notin {"register.record", "register.ticket", "register.audit", "publish.audit"},
         pc[w] \notin InFlight, next \notin InFlight,
         RequestFits(w)',
         next \in RecordLabels =>
           \/ Claims(locals.object, locals.id)
           \/ locals.object = requests + 1 /\ requests' = requests + 1
  PROVE  MapsInv'
<1>1. /\ pc' \in [Workers -> MemLabel] /\ job' \in [Workers -> MemJob]
      /\ pc'[w] = next /\ job'[w] = locals
      /\ \A v \in Workers \ {w} : pc'[v] = pc[v] /\ job'[v] = job[v]
  BY StepOfOne DEF MapsInv
<1>2. MapsGrow /\ requests' \in 0 .. MaxRequests /\ requests \in Nat
  BY DEF MapsInv, MapsType, MapsGrow, maps
<1>3. MapsType'
  BY <1>1, <1>2 DEF MapsInv, MapsType, MapsGrow, maps
<1>4. \A v \in Workers : RequestFits(v)'
  BY <1>1, <1>2, OthersFit DEF MapsInv
<1>5. \A i, actions, detail : Logged(i, actions, detail)' = Logged(i, actions, detail)
  BY DEF Logged
<1>6. \A i \in Ids : RegisteredFits(i)'
  <2> SUFFICES ASSUME NEW i \in Ids PROVE RegisteredFits(i)'
    OBVIOUS
  <2>1. RegisteredFits(i) /\ Registrations(i)' = Registrations(i)
    BY <1>5 DEF MapsInv, Registrations
  <2>2. \A v \in Workers, labels \in SUBSET {"register.record", "register.ticket", "register.audit"} :
          At(v, labels, i) => At(v, labels, i)'
    BY <1>1 DEF At
  <2> QED BY <2>1, <2>2 DEF RegisteredFits, maps
<1>7. \A e \in Epochs : ManifestFits(e)'
  <2> SUFFICES ASSUME NEW e \in Epochs, manifests[e] # NoId
               PROVE  \/ Logged(manifests[e], {"cohort.published"}, e)' # {}
                      \/ \E v \in Workers : At(v, {"publish.audit"}, manifests[e])' /\ job'[v].epoch = e
    BY DEF ManifestFits, maps
  <2>1. \/ Logged(manifests[e], {"cohort.published"}, e) # {}
        \/ \E v \in Workers : At(v, {"publish.audit"}, manifests[e]) /\ job[v].epoch = e
    BY DEF MapsInv, ManifestFits
  <2>2. ASSUME NEW v \in Workers, At(v, {"publish.audit"}, manifests[e]), job[v].epoch = e
        PROVE  At(v, {"publish.audit"}, manifests[e])' /\ job'[v].epoch = e
    BY <1>1, <2>2 DEF At, maps
  <2> QED BY <1>5, <2>1, <2>2 DEF maps
<1>8. \A o \in Object : ObjectFits(o)'
  BY <1>2 DEF MapsInv, ObjectFits, Object, maps
<1>9. /\ OneClaim'
      /\ \A o \in Object, i \in Ids :
           Claims(o, i)' => Claims(o, i) \/ (o = requests + 1 /\ requests' = requests + 1)
  BY <1>1, <1>2, ClaimsKept DEF maps
<1>10. IsFiniteSet(Busy)'
  BY <1>1, BusyStaysFinite DEF MapsInv
<1>11. ASSUME NEW o \in Object, NEW i \in Ids, Claims(o, i)', NEW s \in LifecycleState
       PROVE  MovesFit(o, i, s)'
  <2>1. LoggedMoves(i, s)' = LoggedMoves(i, s) /\ MovesOf(o, s)' = MovesOf(o, s)
    BY <1>5 DEF LoggedMoves, MovesOf
  <2>2. Waiting(i, s)' = Waiting(i, s)
    BY <1>1 DEF Waiting, At
  <2>3. Cardinality(LoggedMoves(i, s)) \in Nat /\ Cardinality(Waiting(i, s)) \in Nat
    BY <1>1, LogEntriesStay, WaitingMoves DEF MapsInv, LoggedMoves, LogGrows
  <2>4. CASE Claims(o, i)
    BY <2>1, <2>2, <2>4 DEF MapsInv, MovesFit
  <2>5. CASE o = requests + 1
    BY <2>1, <2>2, <2>3, <2>5, NewObjectFits
  <2> QED BY <1>9, <1>11, <2>4, <2>5
<1> QED BY <1>3, <1>4, <1>6, <1>7, <1>8, <1>9, <1>10, <1>11 DEF MapsInv

-----------------------------------------------------------------------------
LEMMA NoJobType == NoJob \in MemJob
BY DEF NoJob, MemJob, SomeState

\* Claims of a looked up object.
LEMMA RecordIsClaimed ==
  ASSUME MapsInv, NEW i \in Ids, records[i] # 0
  PROVE  Claims(records[i], i) /\ records[i] \in 1 .. requests
BY DEF Claims, MapsInv, MapsType

\* A request begins.
LEMMA StartKeepsMaps ==
  ASSUME MapsInv, LogIsSequence, UNCHANGED <<maps, heap, log>>,
         NEW w \in Workers, NEW next \in MemLabel, NEW locals \in MemJob, Start(w, next, locals),
         next \notin InFlight, next \notin {"register.record", "register.ticket", "register.audit"},
         next \notin {"idle"} \cup FlushLabels => locals.id \in Ids,
         next \in RecordLabels =>
           \/ Claims(locals.object, locals.id) /\ records[locals.id] # 0
           \/ next = "register.package" /\ locals.object = requests + 1,
         next = "decide" => locals.object \in 1 .. requests,
         next \in MoveLabels \cup {"decide", "decide.record", "chain"} => records[locals.id] # 0,
         next \in MoveLabels \cup {"supersede", "chain"} => locals.to_state \in LifecycleState,
         next \in {"supersede", "chain"} => locals.successor \in cfis,
         next \in {"publish", "publish.audit"} => locals.epoch \in Epochs
  PROVE  MapsInv'
<1>1. /\ pc[w] = "idle" /\ requests' = requests + 1 /\ requests' =< MaxRequests
      /\ requests \in Nat /\ Moves(w, next, locals)
  <2>1. requests \in 0 .. MaxRequests /\ MaxRequests \in Nat
    BY MemoryBoundsAssumption DEF MapsInv, MapsType
  <2> QED BY <2>1 DEF Start, Moves
<1>2. pc'[w] = next /\ job'[w] = locals
  BY <1>1, StepOfOne DEF MapsInv
<1>3. UNCHANGED <<cfis, records, tickets>>
  BY DEF maps
<1>4. next \in RecordLabels => locals.object \in 1 .. requests'
  <2>1. ASSUME Claims(locals.object, locals.id), locals.id \in Ids
        PROVE  locals.object \in 1 .. requests
    BY <2>1, ClaimedIsMade
  <2> QED BY <1>1, <2>1 DEF RecordLabels, FlushLabels
<1>5. next \in {"register.ticket", "decide"} => locals.object \in 1 .. requests'
  BY <1>1
<1>6. RequestFits(w)'
  BY <1>2, <1>3, <1>4, <1>5 DEF RequestFits
<1>7. next \in RecordLabels =>
        \/ Claims(locals.object, locals.id)
        \/ locals.object = requests + 1 /\ requests' = requests + 1
  BY <1>1
<1> QED BY <1>1, <1>6, <1>7, StoreKept DEF InFlight

LEMMA BeginKeepsMaps ==
  ASSUME MapsInv, ExportInv, NEW w \in Workers, Begin(w)
  PROVE  MapsInv'
<1> USE NoJobType DEF FlushLabels, RecordLabels, MoveLabels, InFlight, MemLabel
<1>1. LogIsSequence /\ watermark \in Nat /\ requests \in Nat
  BY DEF ExportInv, Cursors, Covered, MapsInv, MapsType
<1>2. CASE ReadWatermark(w)
  <2> DEFINE locals == [NoJob EXCEPT !.before = watermark]
  <2>1. locals \in MemJob
    BY <1>1 DEF MemJob
  <2>2. Start(w, "flush.export", locals) /\ UNCHANGED <<maps, heap, log>>
    BY <1>2 DEF ReadWatermark, objects
  <2> HIDE DEF locals
  <2> QED BY <1>1, <2>1, <2>2, StartKeepsMaps
<1>3. ASSUME NEW i \in Ids, CheckDuplicate(w, i) PROVE MapsInv'
  <2> DEFINE locals == [NoJob EXCEPT !.id = i, !.object = requests + 1]
  <2>1. locals \in MemJob /\ locals.id = i /\ locals.object = requests + 1
    <3>1. requests + 1 \in Nat /\ i \in Ids \cup {NoId}
      BY <1>1
    <3>2. \A n \in Nat : LET j == [NoJob EXCEPT !.id = i, !.object = n]
                          IN j \in MemJob /\ j.id = i /\ j.object = n
      BY <3>1 DEF MemJob
    <3> QED BY <3>1, <3>2
  <2>2. Start(w, "register.package", locals) /\ UNCHANGED <<maps, heap, log>>
    BY <1>3 DEF CheckDuplicate, objects
  <2> HIDE DEF locals
  <2> QED BY <1>1, <2>1, <2>2, StartKeepsMaps
<1>4. ASSUME NEW i \in Ids, NEW to \in LifecycleState, GetLifecycle(w, i, to) PROVE MapsInv'
  <2> DEFINE locals == [NoJob EXCEPT !.id = i, !.object = records[i], !.to_state = to]
  <2>1. records[i] # 0 /\ Claims(records[i], i) /\ records[i] \in Nat
    BY <1>1, <1>4, RecordIsClaimed DEF GetLifecycle
  <2>2. locals \in MemJob /\ locals.id = i /\ locals.object = records[i] /\ locals.to_state = to
    BY <2>1 DEF MemJob, SomeState, NoJob
  <2>3. Start(w, "transition", locals) /\ UNCHANGED <<maps, heap, log>>
    BY <1>4 DEF GetLifecycle, objects
  <2> HIDE DEF locals
  <2> QED BY <1>1, <2>1, <2>2, <2>3, StartKeepsMaps
<1>5. ASSUME NEW i \in Ids, NEW n \in Ids, CheckSuccessor(w, i, n) PROVE MapsInv'
  <2> DEFINE locals == [NoJob EXCEPT !.id = i, !.successor = n, !.to_state = "superseded"]
  <2>1. locals \in MemJob /\ locals.id = i /\ locals.successor = n /\ locals.to_state = "superseded"
    BY DEF MemJob, SomeState, NoJob, LifecycleState
  <2>2. Start(w, "supersede", locals) /\ UNCHANGED <<maps, heap, log>> /\ n \in cfis
    BY <1>5 DEF CheckSuccessor, objects
  <2>3. locals.to_state \in LifecycleState
    BY <2>1 DEF LifecycleState
  <2> HIDE DEF locals
  <2> QED BY <1>1, <2>1, <2>2, <2>3, StartKeepsMaps
<1>6. ASSUME NEW i \in Ids, NEW status \in Decisions, GetTicket(w, i, status) PROVE MapsInv'
  <2> DEFINE locals == [NoJob EXCEPT !.id = i, !.object = tickets[i], !.status = status]
  <2>1. tickets[i] \in 1 .. requests /\ records[i] # 0
    BY <1>1, <1>6 DEF GetTicket, MapsInv, MapsType, RegisteredFits
  <2>2. locals \in MemJob /\ locals.id = i /\ locals.object = tickets[i]
    <3>1. tickets[i] \in Nat /\ status \in Decisions \cup {"none"} /\ i \in Ids \cup {NoId}
      BY <1>1, <2>1
    <3> QED BY <3>1 DEF MemJob, NoJob
  <2>3. Start(w, "decide", locals) /\ UNCHANGED <<maps, heap, log>>
    BY <1>6 DEF GetTicket, objects
  <2> HIDE DEF locals
  <2> QED BY <1>1, <2>1, <2>2, <2>3, StartKeepsMaps
<1>7. ASSUME NEW i \in Ids, NEW e \in Epochs, CheckInvariant(w, i, e) PROVE MapsInv'
  <2> DEFINE locals == [NoJob EXCEPT !.id = i, !.epoch = e]
  <2>1. locals \in MemJob /\ locals.id = i /\ locals.epoch = e
    BY DEF MemJob, NoJob
  <2>2. Start(w, "publish", locals) /\ UNCHANGED <<maps, heap, log>>
    BY <1>7 DEF CheckInvariant, objects
  <2> HIDE DEF locals
  <2> QED BY <1>1, <2>1, <2>2, StartKeepsMaps
<1> QED BY <1>2, <1>3, <1>4, <1>5, <1>6, <1>7 DEF Begin

-----------------------------------------------------------------------------
\* What a step of a request leaves to show, when it only looks up.
LEMMA LookUpKeepsMaps ==
  ASSUME MapsInv, LogIsSequence, UNCHANGED <<maps, heap, log, requests>>,
         NEW w \in Workers, NEW next \in MemLabel, NEW locals \in MemJob, Moves(w, next, locals),
         pc[w] \notin InFlight \cup {"register.record", "register.ticket", "register.audit", "publish.audit"},
         next \in {"idle", "chain", "transition", "event", "history", "decide.record", "decide.audit"}
                    \cup FlushLabels,
         next \notin {"idle"} \cup FlushLabels => locals.id \in Ids /\ records[locals.id] # 0,
         next \in RecordLabels => Claims(locals.object, locals.id) /\ locals.to_state \in LifecycleState,
         next = "chain" => locals.successor \in cfis
  PROVE  MapsInv'
<1>1. pc'[w] = next /\ job'[w] = locals
  BY StepOfOne DEF MapsInv
<1>2. UNCHANGED <<cfis, records, tickets>>
  BY DEF maps
<1>3. next \in RecordLabels => locals.object \in 1 .. requests'
  BY ClaimedIsMade DEF RecordLabels, FlushLabels
<1>4. RequestFits(w)'
  BY <1>1, <1>2, <1>3 DEF RequestFits, RecordLabels, MoveLabels, FlushLabels
<1>5. requests \in 0 .. MaxRequests /\ MaxRequests \in Nat
  BY MemoryBoundsAssumption DEF MapsInv, MapsType
<1>6. next \notin InFlight
  BY DEF InFlight, FlushLabels
<1> QED BY <1>4, <1>5, <1>6, StoreKept

LEMMA LookUps ==
  ASSUME MapsInv, ExportInv, NEW w \in Workers,
         GetForSupersede(w) \/ CheckMove(w) \/ BuildEvent(w) \/ SetStatus(w) \/ GetDecided(w)
  PROVE  MapsInv'
<1> USE DEF MemLabel, RecordLabels, MoveLabels, InFlight, FlushLabels
<1>1. /\ LogIsSequence /\ RequestFits(w) /\ job[w] \in MemJob
      /\ pc[w] \in {"supersede", "transition", "event", "decide", "decide.record"}
      /\ UNCHANGED <<maps, heap, log, requests>>
  BY DEF ExportInv, MapsInv, MapsType, GetForSupersede, CheckMove, BuildEvent, SetStatus, GetDecided,
         objects, counts, Finish, Goto, GotoWith
<1>2. job[w].id \in Ids
  BY <1>1 DEF RequestFits
<1>3. pc[w] \in RecordLabels => Claims(job[w].object, job[w].id)
  BY <1>1, <1>2 DEF RequestFits, Claims, At, MapsInv, MapsType
<1>4. records[job[w].id] # 0 =>
        Claims(records[job[w].id], job[w].id) /\ records[job[w].id] \in Nat
  BY <1>2, RecordIsClaimed DEF MapsInv, MapsType
<1>5. CASE Moves(w, "idle", NoJob)
  BY <1>1, <1>5, NoJobType, LookUpKeepsMaps
<1>6. CASE GetForSupersede(w)
  <2> DEFINE o == records[job[w].id]
             locals == [job[w] EXCEPT !.object = o]
  <2>1. pc[w] = "supersede" /\ (Moves(w, "idle", NoJob) \/ (o # 0 /\ Moves(w, "chain", locals)))
    BY <1>6 DEF GetForSupersede, Finish, GotoWith, Moves
  <2>2. o # 0 => locals \in MemJob /\ locals.object = o /\ locals.id = job[w].id
                  /\ locals.successor = job[w].successor /\ locals.to_state = job[w].to_state
    BY <1>1, <1>4 DEF MemJob
  <2>3. job[w].successor \in cfis /\ job[w].to_state \in LifecycleState
    BY <1>1, <2>1 DEF RequestFits
  <2> HIDE DEF locals
  <2> QED BY <1>1, <1>2, <1>4, <1>5, <2>1, <2>2, <2>3, LookUpKeepsMaps
<1>7. CASE CheckMove(w)
  <2>1. pc[w] = "transition" /\ (Moves(w, "idle", NoJob) \/ Moves(w, "event", job[w]))
    BY <1>7 DEF CheckMove, Finish, Goto, GotoWith, Moves
  <2>2. job[w].to_state \in LifecycleState /\ records[job[w].id] # 0
    BY <1>1, <2>1 DEF RequestFits
  <2> QED BY <1>1, <1>2, <1>3, <1>5, <2>1, <2>2, LookUpKeepsMaps
<1>8. CASE BuildEvent(w)
  <2> DEFINE locals == [job[w] EXCEPT !.from = heap[job[w].object].state]
  <2>1. pc[w] = "event" /\ Moves(w, "history", locals)
    BY <1>8 DEF BuildEvent, GotoWith, Moves
  <2>2. heap[job[w].object].state \in SomeState
    <3>1. job[w].object \in 1 .. requests
      BY <1>1, <2>1 DEF RequestFits
    <3>2. heap[job[w].object] \in MemRecord
      BY <3>1, MemoryBoundsAssumption DEF MapsInv, MapsType, Object
    <3> QED BY <3>2 DEF MemRecord
  <2>3. locals \in MemJob /\ locals.object = job[w].object /\ locals.id = job[w].id
          /\ locals.to_state = job[w].to_state
    BY <1>1, <2>2 DEF MemJob
  <2>4. job[w].to_state \in LifecycleState /\ records[job[w].id] # 0
    BY <1>1, <2>1 DEF RequestFits
  <2> HIDE DEF locals
  <2> QED BY <1>1, <1>2, <1>3, <2>1, <2>3, <2>4, LookUpKeepsMaps
<1>9. CASE SetStatus(w)
  <2>1. pc[w] = "decide" /\ (Moves(w, "decide.audit", job[w]) \/ Moves(w, "decide.record", job[w]))
    BY <1>9 DEF SetStatus, Goto, GotoWith, Moves
  <2>2. records[job[w].id] # 0
    BY <1>1, <2>1 DEF RequestFits
  <2> QED BY <1>1, <1>2, <2>1, <2>2, LookUpKeepsMaps
<1>10. CASE GetDecided(w)
  <2> DEFINE to     == IF job[w].status = "approved" THEN "active" ELSE "revoked"
             o      == records[job[w].id]
             locals == [job[w] EXCEPT !.object = o, !.to_state = to]
  <2>1. pc[w] = "decide.record" /\ Moves(w, "transition", locals)
    BY <1>10 DEF GetDecided, GotoWith, Moves
  <2>2. o # 0 /\ Claims(o, job[w].id) /\ o \in Nat /\ to \in LifecycleState
    BY <1>1, <1>4, <2>1 DEF RequestFits, LifecycleState
  <2> HIDE DEF to, o
  <2>3. locals \in MemJob /\ locals.object = o /\ locals.id = job[w].id /\ locals.to_state = to
    BY <1>1, <2>2 DEF MemJob, SomeState
  <2> HIDE DEF locals
  <2> QED BY <1>1, <1>2, <2>1, <2>2, <2>3, LookUpKeepsMaps DEF o
<1> QED BY <1>6, <1>7, <1>8, <1>9, <1>10

LEMMA FlushesKeepMaps ==
  ASSUME MapsInv, ExportInv, NEW w \in Workers,
         Export(w) \/ Send(w) \/ AdvanceWatermark(w) \/ PersistWatermark(w)
  PROVE  MapsInv'
<1> USE DEF MemLabel, FlushLabels
<1>1. /\ LogIsSequence /\ job[w] \in MemJob /\ pc[w] \in FlushLabels
      /\ UNCHANGED <<maps, heap, log, requests>>
  BY DEF ExportInv, MapsInv, MapsType, Export, Send, AdvanceWatermark, PersistWatermark,
         objects, counts, Finish, Goto, GotoWith
<1>2. ASSUME NEW next \in {"idle"} \cup FlushLabels, NEW locals \in MemJob, Moves(w, next, locals)
      PROVE  MapsInv'
  BY <1>1, <1>2, LookUpKeepsMaps DEF InFlight, RecordLabels
<1>3. [job[w] EXCEPT !.after = Len(log)] \in MemJob
  BY <1>1, GrownLog DEF MemJob
<1>4. \E next \in {"idle"} \cup FlushLabels, locals \in MemJob : Moves(w, next, locals)
  <2>1. \/ Moves(w, "idle", NoJob) \/ Moves(w, "flush.advance", job[w])
        \/ Moves(w, "flush.persist", job[w])
        \/ Moves(w, "flush.send", [job[w] EXCEPT !.after = Len(log)])
    BY DEF Export, Send, AdvanceWatermark, PersistWatermark, Finish, Goto, GotoWith, Moves
  <2> QED BY <1>1, <1>3, <2>1, NoJobType
<1> QED BY <1>2, <1>4

-----------------------------------------------------------------------------
(* The parts of the invariant that a change leaves as they were.           *)

\* The threads that do not move, and who may move an object.
LEMMA OthersKept ==
  ASSUME MapsInv, MapsGrow, UNCHANGED requests,
         NEW w \in Workers, NEW next \in MemLabel, NEW locals \in MemJob, Moves(w, next, locals),
         \A i \in Ids : records'[i] = records[i] \/ Claims(records'[i], i),
         next \in RecordLabels => Claims(locals.object, locals.id),
         RequestFits(w)'
  PROVE  /\ pc' \in [Workers -> MemLabel] /\ job' \in [Workers -> MemJob]
         /\ pc'[w] = next /\ job'[w] = locals
         /\ \A v \in Workers \ {w} : pc'[v] = pc[v] /\ job'[v] = job[v]
         /\ \A v \in Workers : RequestFits(v)'
         /\ OneClaim' /\ IsFiniteSet(Busy)'
         /\ \A o \in Object, i \in Ids : Claims(o, i)' => Claims(o, i)
<1>1. /\ pc' \in [Workers -> MemLabel] /\ job' \in [Workers -> MemJob]
      /\ pc'[w] = next /\ job'[w] = locals
      /\ \A v \in Workers \ {w} : pc'[v] = pc[v] /\ job'[v] = job[v]
  BY StepOfOne DEF MapsInv
<1>2. requests \in Nat
  BY DEF MapsInv, MapsType
<1>3. \A v \in Workers : RequestFits(v)'
  BY <1>1, <1>2, OthersFit DEF MapsInv
<1>4. /\ OneClaim'
      /\ \A o \in Object, i \in Ids :
           Claims(o, i)' => Claims(o, i) \/ (o = requests + 1 /\ requests' = requests + 1)
  BY <1>1, <1>2, ClaimsKept
<1>5. requests' # requests + 1
  BY <1>2
<1> QED BY <1>1, <1>3, <1>4, <1>5, BusyStaysFinite DEF MapsInv

LEMMA RegisteredKept ==
  ASSUME MapsInv, NEW w \in Workers, \A v \in Workers \ {w} : pc'[v] = pc[v] /\ job'[v] = job[v],
         NEW i \in Ids, i \in cfis' <=> i \in cfis, records'[i] = 0 <=> records[i] = 0,
         tickets'[i] = 0 <=> tickets[i] = 0, Registrations(i)' = {} <=> Registrations(i) = {},
         ~ At(w, {"register.record", "register.ticket", "register.audit"}, i)
  PROVE  RegisteredFits(i)'
<1>1. RegisteredFits(i)
  BY DEF MapsInv
<1>2. \A v \in Workers, labels \in SUBSET {"register.record", "register.ticket", "register.audit"} :
        At(v, labels, i) => At(v, labels, i)'
  BY DEF At
<1> QED BY <1>1, <1>2 DEF RegisteredFits

LEMMA ManifestKept ==
  ASSUME MapsInv, LogIsSequence, LogGrows, NEW w \in Workers,
         \A v \in Workers \ {w} : pc'[v] = pc[v] /\ job'[v] = job[v],
         NEW e \in Epochs, manifests'[e] = manifests[e], pc[w] # "publish.audit"
  PROVE  ManifestFits(e)'
<1> SUFFICES ASSUME manifests[e] # NoId
             PROVE  \/ Logged(manifests[e], {"cohort.published"}, e)' # {}
                    \/ \E v \in Workers : At(v, {"publish.audit"}, manifests[e])' /\ job'[v].epoch = e
  BY DEF ManifestFits, At, Logged
<1>1. \/ Logged(manifests[e], {"cohort.published"}, e) # {}
      \/ \E v \in Workers : At(v, {"publish.audit"}, manifests[e]) /\ job[v].epoch = e
  BY DEF MapsInv, ManifestFits
<1>2. ASSUME NEW v \in Workers, At(v, {"publish.audit"}, manifests[e]), job[v].epoch = e
      PROVE  At(v, {"publish.audit"}, manifests[e])' /\ job'[v].epoch = e
  BY <1>2 DEF At
<1>3. Logged(manifests[e], {"cohort.published"}, e) # {} =>
        Logged(manifests[e], {"cohort.published"}, e)' # {}
  <2>1. \A i : Logged(i, {"cohort.published"}, e) # {} => Logged(i, {"cohort.published"}, e)' # {}
    BY LogEntriesStay
  <2> QED BY <2>1 DEF Logged
<1> QED BY <1>1, <1>2, <1>3

LEMMA ObjectKept ==
  ASSUME MapsInv, MapsGrow, UNCHANGED requests, NEW o \in Object, heap'[o] = heap[o]
  PROVE  ObjectFits(o)'
BY DEF MapsInv, MapsGrow, ObjectFits

LEMMA MovesAreCounted ==
  ASSUME MapsType, NEW o \in Object, NEW s
  PROVE  /\ heap[o] \in MemRecord /\ Len(heap[o].history) \in Nat
         /\ IsFiniteSet(MovesOf(o, s)) /\ Cardinality(MovesOf(o, s)) \in Nat
<1>1. heap[o] \in MemRecord /\ Len(heap[o].history) \in Nat
  BY DEF MapsType, MemRecord
<1>2. MovesOf(o, s) \subseteq 1 .. Len(heap[o].history)
  BY DEF MovesOf
<1>3. IsFiniteSet(1 .. Len(heap[o].history))
  BY <1>1, UpTo
<1> QED BY <1>1, <1>2, <1>3, FS_Subset, FS_CardinalityType

LEMMA MovesKept ==
  ASSUME MapsInv, LogIsSequence, LogGrows, NEW w \in Workers,
         \A v \in Workers \ {w} : pc'[v] = pc[v] /\ job'[v] = job[v],
         NEW o \in Object, NEW i \in Ids, Claims(o, i), NEW s \in LifecycleState,
         heap'[o].history = heap[o].history,
         w \in Waiting(i, s) => w \in Waiting(i, s)'
  PROVE  MovesFit(o, i, s)'
<1>1. MovesFit(o, i, s) /\ Cardinality(MovesOf(o, s)) \in Nat
  BY MovesAreCounted DEF MapsInv
<1>2. MovesOf(o, s)' = MovesOf(o, s)
  BY DEF MovesOf
<1>3. /\ Cardinality(LoggedMoves(i, s)) \in Nat /\ Cardinality(LoggedMoves(i, s)') \in Nat
      /\ Cardinality(LoggedMoves(i, s)) =< Cardinality(LoggedMoves(i, s)')
  BY LogEntriesStay DEF LoggedMoves
<1>4. /\ Cardinality(Waiting(i, s)) \in Nat /\ Cardinality(Waiting(i, s)') \in Nat
      /\ Cardinality(Waiting(i, s)) =< Cardinality(Waiting(i, s)')
  BY WaitingMoves DEF MapsInv
<1> QED BY <1>1, <1>2, <1>3, <1>4 DEF MovesFit

\* The step of a request that registers nothing.
LEMMA StepKeepsMaps ==
  ASSUME MapsInv, LogIsSequence, LogGrows, UNCHANGED <<cfis, tickets, requests>>,
         NEW w \in Workers, NEW next \in MemLabel, NEW locals \in MemJob, Moves(w, next, locals),
         records' \in [Ids -> 0 .. requests], manifests' \in [Epochs -> Ids \cup {NoId}],
         heap' \in [Object -> MemRecord],
         pc[w] \notin {"register.record", "register.ticket", "register.audit"},
         next \in RecordLabels => Claims(locals.object, locals.id),
         RequestFits(w)',
         \A i \in Ids : /\ records'[i] = 0 <=> records[i] = 0
                        /\ records'[i] = records[i] \/ Claims(records'[i], i)
                        /\ Registrations(i)' = {} <=> Registrations(i) = {},
         \A e \in Epochs : ManifestFits(e)',
         \A o \in Object : ObjectFits(o)',
         \A o \in Object, i \in Ids, s \in LifecycleState : Claims(o, i) => MovesFit(o, i, s)'
  PROVE  MapsInv'
<1>1. MapsGrow
  BY DEF MapsGrow, MapsInv, MapsType
<1>2. /\ pc' \in [Workers -> MemLabel] /\ job' \in [Workers -> MemJob]
      /\ \A v \in Workers \ {w} : pc'[v] = pc[v] /\ job'[v] = job[v]
      /\ \A v \in Workers : RequestFits(v)'
      /\ OneClaim' /\ IsFiniteSet(Busy)'
      /\ \A o \in Object, i \in Ids : Claims(o, i)' => Claims(o, i)
  BY <1>1, OthersKept
<1>3. MapsType'
  BY <1>2 DEF MapsInv, MapsType
<1>4. \A i \in Ids : RegisteredFits(i)'
  <2> SUFFICES ASSUME NEW i \in Ids PROVE RegisteredFits(i)'
    OBVIOUS
  <2>1. ~ At(w, {"register.record", "register.ticket", "register.audit"}, i)
    BY DEF At
  <2> QED BY <1>2, <2>1, RegisteredKept
<1> QED BY <1>2, <1>3, <1>4 DEF MapsInv

\* What a request that moves a record, or registers, knows.
LEMMA AtRecord ==
  ASSUME MapsInv, NEW w \in Workers, pc[w] \in RecordLabels \cup {"register.ticket"}
  PROVE  /\ job[w] \in MemJob /\ job[w].id \in Ids /\ job[w].object \in Object
         /\ job[w].object \in 1 .. requests /\ heap[job[w].object] \in MemRecord
         /\ pc[w] \in RecordLabels => Claims(job[w].object, job[w].id)
<1>1. RequestFits(w) /\ job[w] \in MemJob
  BY DEF MapsInv, MapsType
<1>2. job[w].id \in Ids /\ job[w].object \in 1 .. requests
  BY <1>1 DEF RequestFits, RecordLabels, FlushLabels
<1>3. job[w].object \in Object /\ job[w].object # 0
  BY <1>2, MemoryBoundsAssumption DEF MapsInv, MapsType, Object
<1>4. heap[job[w].object] \in MemRecord
  BY <1>3 DEF MapsInv, MapsType
<1> QED BY <1>1, <1>2, <1>3, <1>4 DEF Claims, At

-----------------------------------------------------------------------------
\* supersede appends to the chain, and transition sets the state.
LEMMA RecordEdits ==
  ASSUME MapsInv, LogIsSequence, NEW w \in Workers, AppendToChain(w) \/ SetState(w)
  PROVE  MapsInv'
<1> DEFINE o == job[w].object
           next == IF pc[w] = "chain" THEN "transition" ELSE "put"
<1>1. /\ pc[w] \in {"chain", "state"} /\ UNCHANGED <<maps, log, requests>>
      /\ Moves(w, next, job[w])
  BY DEF AppendToChain, SetState, Goto, GotoWith, Moves, counts
<1>2. /\ job[w] \in MemJob /\ job[w].id \in Ids /\ o \in Object /\ o \in 1 .. requests
      /\ heap[o] \in MemRecord /\ Claims(o, job[w].id)
  BY <1>1, AtRecord DEF RecordLabels
<1>3. RequestFits(w) /\ cfis \subseteq Ids /\ heap \in [Object -> MemRecord]
  BY DEF MapsInv, MapsType
<1>4. job[w].to_state \in LifecycleState /\ records[job[w].id] # 0
  BY <1>1, <1>3 DEF RequestFits, MoveLabels
<1>5. PICK r \in MemRecord :
        /\ heap' = [heap EXCEPT ![o] = r] /\ r.history = heap[o].history
        /\ \/ r.supersession_chain = heap[o].supersession_chain
           \/ /\ r.supersession_chain = Append(heap[o].supersession_chain, job[w].successor)
              /\ job[w].successor \in cfis
  <2>1. CASE AppendToChain(w)
    <3> DEFINE chain == Append(heap[o].supersession_chain, job[w].successor)
               r     == [heap[o] EXCEPT !.supersession_chain = chain]
    <3>1. job[w].successor \in cfis /\ heap' = [heap EXCEPT ![o] = r]
      BY <1>3, <2>1 DEF AppendToChain, RequestFits
    <3>2. chain \in Seq(Ids)
      BY <1>2, <1>3, <3>1 DEF MemRecord
    <3> HIDE DEF chain
    <3>3. r \in MemRecord /\ r.history = heap[o].history /\ r.supersession_chain = chain
      BY <1>2, <3>2 DEF MemRecord
    <3> QED BY <3>1, <3>3 DEF chain
  <2>2. CASE SetState(w)
    <3> DEFINE r == [heap[o] EXCEPT !.state = job[w].to_state]
    <3>1. heap' = [heap EXCEPT ![o] = r]
      BY <2>2 DEF SetState
    <3>2. r \in MemRecord /\ r.history = heap[o].history
            /\ r.supersession_chain = heap[o].supersession_chain
      BY <1>2, <1>4 DEF MemRecord, SomeState
    <3> QED BY <3>1, <3>2
  <2> QED BY <2>1, <2>2
<1>6. heap' \in [Object -> MemRecord] /\ heap'[o] = r
      /\ \A p \in Object : p # o => heap'[p] = heap[p]
  BY <1>2, <1>3, <1>5
<1>7. next \in MemLabel /\ (next \in InFlight <=> pc[w] \in InFlight) /\ next # "chain"
      /\ next \in MoveLabels
  BY <1>1 DEF MemLabel, InFlight, MoveLabels
<1> HIDE DEF next, o
<1>8. /\ pc'[w] = next /\ job'[w] = job[w] /\ MapsGrow /\ LogGrows
      /\ \A v \in Workers \ {w} : pc'[v] = pc[v] /\ job'[v] = job[v]
      /\ records \in [Ids -> 0 .. requests] /\ manifests \in [Epochs -> Ids \cup {NoId}]
  BY <1>1, <1>2, <1>7, StepOfOne DEF MapsInv, MapsType, MapsGrow, maps, LogGrows
<1>9. RequestFits(w)'
  BY <1>1, <1>2, <1>4, <1>7, <1>8 DEF RequestFits, MoveLabels, RecordLabels, maps, o
<1>10. ASSUME NEW p \in Object PROVE ObjectFits(p)'
  <2>1. CASE p # o
    BY <1>1, <1>6, <1>8, <2>1, ObjectKept
  <2>2. CASE p = o
    <3>1. heap[o].supersession_chain \in Seq(Ids) /\ requests' = requests /\ cfis' = cfis
      BY <1>1, <1>2 DEF MemRecord, maps
    <3>2. \A k \in 1 .. Len(heap[o].supersession_chain) : heap[o].supersession_chain[k] \in cfis
      BY <1>2 DEF MapsInv, ObjectFits
    <3>3. ~ (o > requests) /\ job[w].successor \in cfis => job[w].successor \in Ids
      BY <1>2, <1>3 DEF MapsInv, MapsType
    <3>4. ~ (o > requests)
      BY <1>2 DEF MapsInv, MapsType
    <3>5. \A k \in 1 .. Len(r.supersession_chain) : r.supersession_chain[k] \in cfis
      <4>1. CASE r.supersession_chain = heap[o].supersession_chain
        BY <3>2, <4>1
      <4>2. CASE /\ r.supersession_chain = Append(heap[o].supersession_chain, job[w].successor)
                 /\ job[w].successor \in cfis
        <5> DEFINE chain == heap[o].supersession_chain
                   i     == job[w].successor
        <5>1. chain \in Seq(Ids) /\ i \in cfis /\ i \in Ids
          BY <1>3, <3>1, <4>2
        <5>2. /\ Len(chain) \in Nat /\ Len(Append(chain, i)) = Len(chain) + 1
              /\ \A k \in 1 .. Len(chain) : Append(chain, i)[k] = chain[k]
              /\ Append(chain, i)[Len(chain) + 1] = i
          <6> HIDE DEF chain, i
          <6> QED BY <5>1
        <5>3. r.supersession_chain = Append(chain, i) /\ \A k \in 1 .. Len(chain) : chain[k] \in cfis
          BY <3>2, <4>2
        <5> HIDE DEF chain, i
        <5> QED BY <5>1, <5>2, <5>3
      <4> QED BY <1>5, <4>1, <4>2
    <3> QED BY <1>6, <2>2, <3>1, <3>4, <3>5 DEF ObjectFits
  <2> QED BY <2>1, <2>2
<1>11. ASSUME NEW p \in Object, NEW i \in Ids, NEW s \in LifecycleState, Claims(p, i)
       PROVE  MovesFit(p, i, s)'
  <2>1. heap'[p].history = heap[p].history
    BY <1>5, <1>6
  <2>2. w \in Waiting(i, s) => w \in Waiting(i, s)'
    BY <1>7, <1>8 DEF Waiting, At
  <2> QED BY <1>8, <1>11, <2>1, <2>2, MovesKept
<1>12. \A e \in Epochs : ManifestFits(e)'
  BY <1>1, <1>8, ManifestKept DEF maps
<1>13. /\ UNCHANGED <<cfis, tickets, requests>> /\ records' = records /\ manifests' = manifests
       /\ \A i \in Ids : Registrations(i)' = Registrations(i)
  BY <1>1 DEF maps, Registrations, Logged
<1>14. next \in RecordLabels => Claims(job[w].object, job[w].id)
  BY <1>2 DEF o
<1> QED
  BY <1>1, <1>2, <1>6, <1>7, <1>8, <1>9, <1>10, <1>11, <1>12, <1>13, <1>14, StepKeepsMaps

\* The history grows by a move that its request is about to log.
LEMMA HistoryGrows ==
  ASSUME MapsInv, LogIsSequence, NEW w \in Workers, AppendHistory(w)
  PROVE  MapsInv'
<1> DEFINE o     == job[w].object
           move  == [from_state |-> job[w].from, to_state |-> job[w].to_state]
           moved == Append(heap[o].history, move)
           r     == [heap[o] EXCEPT !.history = moved]
<1>1. /\ pc[w] = "history" /\ UNCHANGED <<maps, log, requests>>
      /\ Moves(w, "state", job[w]) /\ heap' = [heap EXCEPT ![o] = r]
  BY DEF AppendHistory, Goto, GotoWith, Moves, counts
<1>2. /\ job[w] \in MemJob /\ job[w].id \in Ids /\ o \in Object /\ o \in 1 .. requests
      /\ heap[o] \in MemRecord /\ Claims(o, job[w].id)
  BY <1>1, AtRecord DEF RecordLabels
<1>3. RequestFits(w) /\ heap \in [Object -> MemRecord] /\ requests \in Nat
  BY DEF MapsInv, MapsType
<1>4. job[w].to_state \in LifecycleState /\ records[job[w].id] # 0
  BY <1>1, <1>3 DEF RequestFits, MoveLabels
<1>5. move \in MemEvent /\ move.to_state = job[w].to_state
  BY <1>2, <1>4 DEF MemJob, MemEvent
<1>6. heap[o].history \in Seq(MemEvent)
  BY <1>2 DEF MemRecord
<1> HIDE DEF move
<1>7. /\ moved \in Seq(MemEvent) /\ Len(moved) = Len(heap[o].history) + 1
      /\ Len(heap[o].history) \in Nat /\ moved[Len(heap[o].history) + 1] = move
      /\ \A k \in 1 .. Len(heap[o].history) : moved[k] = heap[o].history[k]
  <2>1. ASSUME NEW h \in Seq(MemEvent), NEW m \in MemEvent
        PROVE  /\ Append(h, m) \in Seq(MemEvent) /\ Len(Append(h, m)) = Len(h) + 1
               /\ Len(h) \in Nat /\ Append(h, m)[Len(h) + 1] = m
               /\ \A k \in 1 .. Len(h) : Append(h, m)[k] = h[k]
    OBVIOUS
  <2> QED BY <1>5, <1>6, <2>1
<1> HIDE DEF moved
<1>8. /\ r \in MemRecord /\ r.history = moved
      /\ r.supersession_chain = heap[o].supersession_chain
  BY <1>2, <1>7 DEF MemRecord
<1> HIDE DEF r
<1>9. heap' \in [Object -> MemRecord] /\ heap'[o] = r
      /\ \A p \in Object : p # o => heap'[p] = heap[p]
  BY <1>1, <1>2, <1>3, <1>8
<1> HIDE DEF o
<1>10. /\ pc'[w] = "state" /\ job'[w] = job[w] /\ MapsGrow /\ LogGrows
       /\ \A v \in Workers \ {w} : pc'[v] = pc[v] /\ job'[v] = job[v]
       /\ records \in [Ids -> 0 .. requests] /\ manifests \in [Epochs -> Ids \cup {NoId}]
  BY <1>1, <1>2, StepOfOne DEF MapsInv, MapsType, MapsGrow, maps, LogGrows, MemLabel
<1>11. RequestFits(w)'
  BY <1>1, <1>2, <1>4, <1>10 DEF RequestFits, MoveLabels, RecordLabels, FlushLabels, maps, o
<1>12. ASSUME NEW p \in Object PROVE ObjectFits(p)'
  <2>1. ObjectFits(p) /\ (p = o => ~ (p > requests))
    BY <1>2, <1>3 DEF MapsInv
  <2>2. p = o => heap'[p].supersession_chain = heap[p].supersession_chain
    BY <1>8, <1>9
  <2> QED BY <1>1, <1>9, <2>1, <2>2 DEF ObjectFits, maps
<1>13. ASSUME NEW p \in Object, NEW i \in Ids, NEW s \in LifecycleState, Claims(p, i)
       PROVE  MovesFit(p, i, s)'
  <2>1. CASE p # o
    <3>1. w \notin Waiting(i, s)
      BY <1>1 DEF Waiting, At, InFlight
    <3> QED BY <1>9, <1>10, <1>13, <2>1, <3>1, MovesKept
  <2>2. CASE p = o
    <3>1. i = job[w].id
      BY <1>2, <1>13, <2>2 DEF MapsInv, OneClaim
    <3>2. CASE s # job[w].to_state
      <4>1. MovesOf(p, s)' = MovesOf(p, s)
        BY <1>5, <1>7, <1>8, <1>9, <2>2, <3>2 DEF MovesOf
      <4>2. w \notin Waiting(i, s) /\ w \notin Waiting(i, s)'
        BY <1>1, <1>10, <3>2 DEF Waiting, At, InFlight
      <4>3. Cardinality(Waiting(i, s)') = Cardinality(Waiting(i, s))
        BY <1>10, <4>2, WaitingMoves DEF MapsInv
      <4>4. LoggedMoves(i, s)' = LoggedMoves(i, s) /\ MovesFit(p, i, s)
        BY <1>1, <1>13 DEF LoggedMoves, Logged, MapsInv
      <4> QED BY <4>1, <4>3, <4>4 DEF MovesFit
    <3>3. CASE s = job[w].to_state
      <4>1. /\ MovesOf(p, s)' = MovesOf(p, s) \cup {Len(heap[o].history) + 1}
            /\ Len(heap[o].history) + 1 \notin MovesOf(p, s)
        <5> DEFINE n == Len(heap[o].history)
        <5>1. MovesOf(p, s)' = {k \in 1 .. n + 1 : moved[k].to_state = s}
          BY <1>7, <1>8, <1>9, <2>2 DEF MovesOf
        <5>2. MovesOf(p, s) = {k \in 1 .. n : moved[k].to_state = s}
          BY <1>7, <2>2 DEF MovesOf
        <5>3. n \in Nat /\ moved[n + 1].to_state = s
          BY <1>5, <1>7, <3>3
        <5> HIDE DEF n
        <5>4. 1 .. n + 1 = 1 .. n \cup {n + 1} /\ n + 1 \notin 1 .. n
          BY <5>3
        <5> QED BY <5>1, <5>2, <5>3, <5>4 DEF n
      <4>2. Cardinality(MovesOf(p, s)') = Cardinality(MovesOf(p, s)) + 1
              /\ Cardinality(MovesOf(p, s)) \in Nat
        BY <4>1, MovesAreCounted, FS_AddElement DEF MapsInv
      <4>3. w \notin Waiting(i, s) /\ w \in Waiting(i, s)'
        BY <1>1, <1>10, <3>1, <3>3 DEF Waiting, At, InFlight
      <4>4. Cardinality(Waiting(i, s)') = Cardinality(Waiting(i, s)) + 1
              /\ Cardinality(Waiting(i, s)) \in Nat
        BY <1>10, <4>3, WaitingMoves DEF MapsInv
      <4>5. LoggedMoves(i, s)' = LoggedMoves(i, s) /\ MovesFit(p, i, s)
        BY <1>1, <1>13 DEF LoggedMoves, Logged, MapsInv
      <4>6. Cardinality(LoggedMoves(i, s)) \in Nat
        BY <1>10, LogEntriesStay DEF LoggedMoves
      <4> QED BY <4>2, <4>4, <4>5, <4>6 DEF MovesFit
    <3> QED BY <3>2, <3>3
  <2> QED BY <2>1, <2>2
<1>14. \A e \in Epochs : ManifestFits(e)'
  BY <1>1, <1>10, ManifestKept DEF maps
<1>15. /\ UNCHANGED <<cfis, tickets, requests>> /\ records' = records /\ manifests' = manifests
       /\ \A i \in Ids : Registrations(i)' = Registrations(i)
  BY <1>1 DEF maps, Registrations, Logged
<1>16. "state" \in RecordLabels => Claims(job[w].object, job[w].id)
  BY <1>2 DEF o
<1>17. "state" \in MemLabel /\ pc[w] \notin {"register.record", "register.ticket", "register.audit"}
  BY <1>1 DEF MemLabel
<1> QED
  BY <1>1, <1>2, <1>9, <1>10, <1>11, <1>12, <1>13, <1>14, <1>15, <1>16, <1>17, StepKeepsMaps

\* The record goes back under its id, and a manifest under its epoch.
LEMMA PutBackKeepsMaps ==
  ASSUME MapsInv, LogIsSequence, NEW w \in Workers, PutBack(w)
  PROVE  MapsInv'
<1> DEFINE o == job[w].object
<1>1. /\ pc[w] = "put" /\ UNCHANGED <<cfis, tickets, manifests, heap, log, requests>>
      /\ Moves(w, "transition.audit", job[w]) /\ records' = [records EXCEPT ![job[w].id] = o]
  BY DEF PutBack, Goto, GotoWith, Moves, counts, objects
<1>2. /\ job[w] \in MemJob /\ job[w].id \in Ids /\ o \in 1 .. requests /\ Claims(o, job[w].id)
  BY <1>1, AtRecord DEF RecordLabels
<1>3. /\ RequestFits(w) /\ requests \in Nat /\ records \in [Ids -> 0 .. requests]
      /\ heap \in [Object -> MemRecord] /\ manifests \in [Epochs -> Ids \cup {NoId}]
  BY DEF MapsInv, MapsType
<1>4. job[w].to_state \in LifecycleState /\ records[job[w].id] # 0
  BY <1>1, <1>3 DEF RequestFits, MoveLabels
<1>5. /\ records' \in [Ids -> 0 .. requests] /\ records'[job[w].id] = o /\ o # 0
      /\ \A i \in Ids : i # job[w].id => records'[i] = records[i]
  BY <1>1, <1>2, <1>3
<1> HIDE DEF o
<1>6. \A i \in Ids : /\ records'[i] = 0 <=> records[i] = 0
                     /\ records'[i] = records[i] \/ Claims(records'[i], i)
                     /\ Registrations(i)' = Registrations(i)
  BY <1>1, <1>2, <1>4, <1>5 DEF Registrations, Logged
<1>7. "transition.audit" \in MemLabel
  BY DEF MemLabel
<1>8. /\ pc'[w] = "transition.audit" /\ job'[w] = job[w] /\ MapsGrow /\ LogGrows
      /\ \A v \in Workers \ {w} : pc'[v] = pc[v] /\ job'[v] = job[v]
  BY <1>1, <1>2, <1>3, <1>6, <1>7, StepOfOne DEF MapsInv, MapsGrow, LogGrows
<1>9. RequestFits(w)'
  BY <1>2, <1>4, <1>5, <1>8 DEF RequestFits, MoveLabels, RecordLabels, FlushLabels
<1>10. ASSUME NEW p \in Object, NEW i \in Ids, NEW s \in LifecycleState, Claims(p, i)
       PROVE  MovesFit(p, i, s)'
  <2>1. w \in Waiting(i, s) => w \in Waiting(i, s)'
    BY <1>1, <1>8 DEF Waiting, At, InFlight
  <2> QED BY <1>1, <1>8, <1>10, <2>1, MovesKept
<1>11. \A p \in Object : ObjectFits(p)'
  BY <1>1, <1>8, ObjectKept
<1>12. \A e \in Epochs : ManifestFits(e)'
  BY <1>1, <1>8, ManifestKept
<1>13. "transition.audit" \notin RecordLabels
       /\ pc[w] \notin {"register.record", "register.ticket", "register.audit"}
  BY <1>1 DEF RecordLabels
<1> QED
  BY <1>1, <1>2, <1>3, <1>5, <1>6, <1>7, <1>8, <1>9, <1>10, <1>11, <1>12, <1>13, StepKeepsMaps

LEMMA PutManifestKeepsMaps ==
  ASSUME MapsInv, LogIsSequence, NEW w \in Workers, PutManifest(w)
  PROVE  MapsInv'
<1> DEFINE i == job[w].id
           e == job[w].epoch
<1>1. /\ pc[w] = "publish" /\ UNCHANGED <<cfis, records, tickets, heap, log, requests>>
      /\ Moves(w, "publish.audit", job[w]) /\ manifests' = [manifests EXCEPT ![e] = i]
  BY DEF PutManifest, Goto, GotoWith, Moves, counts, objects
<1>2. /\ RequestFits(w) /\ requests \in Nat /\ records \in [Ids -> 0 .. requests]
      /\ heap \in [Object -> MemRecord] /\ manifests \in [Epochs -> Ids \cup {NoId}]
      /\ job[w] \in MemJob
  BY DEF MapsInv, MapsType
<1>3. i \in Ids /\ e \in Epochs
  BY <1>1, <1>2 DEF RequestFits, FlushLabels
<1>4. "publish.audit" \in MemLabel /\ "publish.audit" \notin RecordLabels
      /\ pc[w] \notin {"register.record", "register.ticket", "register.audit"}
  BY <1>1 DEF MemLabel, RecordLabels
<1>5. /\ pc'[w] = "publish.audit" /\ job'[w] = job[w] /\ MapsGrow /\ LogGrows
      /\ \A v \in Workers \ {w} : pc'[v] = pc[v] /\ job'[v] = job[v]
  BY <1>1, <1>2, <1>4, StepOfOne DEF MapsInv, MapsGrow, LogGrows
<1>6. RequestFits(w)'
  BY <1>3, <1>5 DEF RequestFits, MoveLabels, RecordLabels, FlushLabels
<1>7. ASSUME NEW p \in Object, NEW j \in Ids, NEW s \in LifecycleState, Claims(p, j)
      PROVE  MovesFit(p, j, s)'
  <2>1. w \notin Waiting(j, s)
    BY <1>1 DEF Waiting, At, InFlight
  <2> QED BY <1>1, <1>5, <1>7, <2>1, MovesKept
<1>8. \A p \in Object : ObjectFits(p)'
  BY <1>1, <1>5, ObjectKept
<1>9. manifests' \in [Epochs -> Ids \cup {NoId}] /\ manifests'[e] = i
      /\ \A f \in Epochs : f # e => manifests'[f] = manifests[f]
  BY <1>1, <1>2, <1>3
<1>10. ASSUME NEW f \in Epochs PROVE ManifestFits(f)'
  <2>1. CASE f # e
    BY <1>1, <1>5, <1>9, <2>1, ManifestKept
  <2>2. CASE f = e
    BY <1>5, <1>9, <2>2 DEF ManifestFits, At
  <2> QED BY <2>1, <2>2
<1>11. \A j \in Ids : Registrations(j)' = Registrations(j)
  BY <1>1 DEF Registrations, Logged
<1> QED BY <1>1, <1>2, <1>4, <1>5, <1>6, <1>7, <1>8, <1>9, <1>10, <1>11, StepKeepsMaps

-----------------------------------------------------------------------------
\* A request logs what it has done, registrations apart.
LEMMA AuditKeepsMaps ==
  ASSUME MapsInv, LogIsSequence, LogGrows, UNCHANGED <<maps, heap, requests>>, NEW w \in Workers,
         NEW a, NEW s, log' = Append(log, [action |-> a, id |-> job[w].id, detail |-> s]),
         a # "cfi.registered",
         pc[w] \in {"transition.audit", "decide.audit", "publish.audit"},
         pc[w] = "transition.audit" =>
           a \in {"lifecycle.transition", "cfi.superseded"} /\ s = job[w].to_state,
         pc[w] = "publish.audit" => a = "cohort.published" /\ s = job[w].epoch,
         NEW next \in {"idle", "decide.audit"}, NEW locals \in MemJob, Moves(w, next, locals),
         next = "decide.audit" => locals.id \in Ids
  PROVE  MapsInv'
<1>1. /\ job[w] \in MemJob /\ requests \in Nat /\ records \in [Ids -> 0 .. requests]
      /\ heap \in [Object -> MemRecord] /\ manifests \in [Epochs -> Ids \cup {NoId}]
  BY DEF MapsInv, MapsType
<1>2. /\ next \in MemLabel /\ next \notin RecordLabels
      /\ pc[w] \notin {"register.record", "register.ticket", "register.audit"}
  BY DEF MemLabel, RecordLabels
<1>3. /\ pc'[w] = next /\ job'[w] = locals /\ MapsGrow
      /\ \A v \in Workers \ {w} : pc'[v] = pc[v] /\ job'[v] = job[v]
  BY <1>1, <1>2, StepOfOne DEF MapsInv, MapsGrow, maps
<1>4. RequestFits(w)'
  BY <1>3 DEF RequestFits, MoveLabels, RecordLabels, FlushLabels
<1>5. ASSUME NEW i \in Ids PROVE Registrations(i)' = Registrations(i)
  BY LogEntryIsFor DEF Registrations
<1>6. \A p \in Object : ObjectFits(p)'
  BY <1>3, ObjectKept DEF maps
<1>7. ASSUME NEW p \in Object, NEW i \in Ids, NEW t \in LifecycleState, Claims(p, i)
      PROVE  MovesFit(p, i, t)'
  <2>1. CASE w \notin Waiting(i, t)
    BY <1>3, <1>7, <2>1, MovesKept
  <2>2. CASE w \in Waiting(i, t)
    <3>1. pc[w] = "transition.audit" /\ job[w].id = i /\ job[w].to_state = t
      BY <2>2 DEF Waiting, At, InFlight
    <3>2. w \notin Waiting(i, t)'
      BY <1>3 DEF Waiting, At, InFlight
    <3>3. /\ Cardinality(Waiting(i, t)) = Cardinality(Waiting(i, t)') + 1
          /\ Cardinality(Waiting(i, t)') \in Nat
      BY <1>3, <2>2, <3>2, WaitingMoves DEF MapsInv
    <3>4. Cardinality(LoggedMoves(i, t)') = Cardinality(LoggedMoves(i, t)) + 1
      <4>1. log' = Append(log, [action |-> a, id |-> i, detail |-> t])
            /\ a \in {"lifecycle.transition", "cfi.superseded"}
        BY <3>1
      <4> QED BY <4>1, LogEntryComes DEF LoggedMoves
    <3>5. Cardinality(LoggedMoves(i, t)) \in Nat
      BY LogEntriesStay DEF LoggedMoves
    <3>6. MovesOf(p, t)' = MovesOf(p, t) /\ MovesFit(p, i, t) /\ Cardinality(MovesOf(p, t)) \in Nat
      BY <1>7, MovesAreCounted DEF MovesOf, MapsInv
    <3> QED BY <3>3, <3>4, <3>5, <3>6 DEF MovesFit
  <2> QED BY <2>1, <2>2
<1>8. ASSUME NEW e \in Epochs PROVE ManifestFits(e)'
  <2>1. CASE pc[w] # "publish.audit"
    BY <1>3, <2>1, ManifestKept DEF maps
  <2>2. CASE pc[w] = "publish.audit" /\ job[w].epoch = e /\ manifests[e] = job[w].id
    <3>1. ASSUME NEW i, log' = Append(log, [action |-> "cohort.published", id |-> i, detail |-> e])
          PROVE  Logged(i, {"cohort.published"}, e)' # {}
      <4>1. "cohort.published" \in {"cohort.published"}
        OBVIOUS
      <4>2. Logged(i, {"cohort.published"}, e)'
              = Logged(i, {"cohort.published"}, e) \cup {Len(log) + 1}
        BY <3>1, <4>1, LogEntryComes
      <4> QED BY <4>2
    <3>2. log' = Append(log, [action |-> "cohort.published", id |-> manifests[e], detail |-> e])
      BY <2>2
    <3>3. manifests'[e] = manifests[e]
      BY DEF maps
    <3> QED BY <3>1, <3>2, <3>3 DEF ManifestFits, Logged
  <2>3. CASE pc[w] = "publish.audit" /\ ~ (job[w].epoch = e /\ manifests[e] = job[w].id)
    <3> SUFFICES ASSUME manifests[e] # NoId
                 PROVE  \/ Logged(manifests[e], {"cohort.published"}, e)' # {}
                        \/ \E v \in Workers : At(v, {"publish.audit"}, manifests[e])' /\ job'[v].epoch = e
      BY DEF ManifestFits, At, Logged, maps
    <3>1. \/ Logged(manifests[e], {"cohort.published"}, e) # {}
          \/ \E v \in Workers : At(v, {"publish.audit"}, manifests[e]) /\ job[v].epoch = e
      BY DEF MapsInv, ManifestFits
    <3>2. ASSUME NEW v \in Workers, At(v, {"publish.audit"}, manifests[e]), job[v].epoch = e
          PROVE  At(v, {"publish.audit"}, manifests[e])' /\ job'[v].epoch = e
      <4>1. v # w
        BY <2>3, <3>2 DEF At
      <4> QED BY <1>3, <3>2, <4>1 DEF At, maps
    <3>3. \A i : Logged(i, {"cohort.published"}, e) # {} => Logged(i, {"cohort.published"}, e)' # {}
      BY LogEntriesStay
    <3>4. manifests'[e] = manifests[e]
      BY DEF maps
    <3> QED BY <3>1, <3>2, <3>3, <3>4 DEF Logged
  <2> QED BY <2>1, <2>2, <2>3
<1>9. UNCHANGED <<cfis, tickets, requests>> /\ records' = records /\ manifests' = manifests /\ heap' = heap
  BY DEF maps
<1> QED BY <1>1, <1>2, <1>4, <1>5, <1>6, <1>7, <1>8, <1>9, StepKeepsMaps

LEMMA AuditsKeepMaps ==
  ASSUME MapsInv, LogIsSequence, NEW w \in Workers,
         AuditTransition(w) \/ AuditDecision(w) \/ AuditPublish(w)
  PROVE  MapsInv'
<1>1. job[w] \in MemJob /\ RequestFits(w)
  BY DEF MapsInv, MapsType
<1>2. PICK a, s : log' = Append(log, [action |-> a, id |-> job[w].id, detail |-> s])
                    /\ a # "cfi.registered"
                    /\ pc[w] \in {"transition.audit", "decide.audit", "publish.audit"}
                    /\ (pc[w] = "transition.audit" =>
                          a \in {"lifecycle.transition", "cfi.superseded"} /\ s = job[w].to_state)
                    /\ (pc[w] = "publish.audit" => a = "cohort.published" /\ s = job[w].epoch)
  BY DEF AuditTransition, AuditDecision, AuditPublish, LogAndFinish
<1>3. /\ UNCHANGED <<maps, heap, requests>>
      /\ Moves(w, "idle", NoJob) \/ (pc[w] = "transition.audit" /\ Moves(w, "decide.audit", job[w]))
  BY DEF AuditTransition, AuditDecision, AuditPublish, LogAndFinish, Finish, Goto, GotoWith, Moves,
         objects, counts
<1>4. pc[w] = "transition.audit" => job[w].id \in Ids
  BY <1>1 DEF RequestFits, FlushLabels
<1>5. LogGrows
  BY <1>2 DEF LogGrows
<1> QED BY <1>1, <1>2, <1>3, <1>4, <1>5, NoJobType, AuditKeepsMaps

-----------------------------------------------------------------------------
\* The step of a registration: it is only about the id that it registers.
LEMMA RegisterKeepsMaps ==
  ASSUME MapsInv, LogIsSequence, LogGrows, MapsGrow, UNCHANGED <<manifests, requests>>,
         NEW w \in Workers, pc[w] \notin InFlight \cup {"publish.audit"},
         NEW id \in Ids, id = job[w].id, RegisteredFits(id)',
         NEW next \in MemLabel, NEW locals \in MemJob, Moves(w, next, locals),
         cfis' \subseteq Ids, records' \in [Ids -> 0 .. requests], tickets' \in [Ids -> 0 .. requests],
         \A i \in Ids : records'[i] = records[i] \/ Claims(records'[i], i),
         next \in RecordLabels => Claims(locals.object, locals.id),
         RequestFits(w)',
         \A i \in Ids \ {id} :
           /\ i \in cfis' <=> i \in cfis
           /\ records'[i] = records[i] /\ tickets'[i] = tickets[i]
           /\ Registrations(i)' = Registrations(i),
         heap' \in [Object -> MemRecord],
         \A o \in Object : heap'[o] = heap[o] \/ (o \in 1 .. requests /\ heap'[o] = NewRecord)
  PROVE  MapsInv'
<1>1. /\ pc' \in [Workers -> MemLabel] /\ job' \in [Workers -> MemJob]
      /\ \A v \in Workers \ {w} : pc'[v] = pc[v] /\ job'[v] = job[v]
      /\ \A v \in Workers : RequestFits(v)'
      /\ OneClaim' /\ IsFiniteSet(Busy)'
      /\ \A o \in Object, i \in Ids : Claims(o, i)' => Claims(o, i)
  BY OthersKept
<1>2. MapsType'
  BY <1>1 DEF MapsInv, MapsType
<1>3. ASSUME NEW i \in Ids PROVE RegisteredFits(i)'
  <2>1. CASE i = id
    BY <2>1
  <2>2. CASE i # id
    BY <1>1, <2>2, RegisteredKept DEF At
  <2> QED BY <2>1, <2>2
<1>4. \A e \in Epochs : ManifestFits(e)'
  BY <1>1, ManifestKept
<1>5. NewRecord.history = <<>> /\ NewRecord.supersession_chain = <<>>
  BY DEF NewRecord
<1>6. ASSUME NEW o \in Object PROVE ObjectFits(o)'
  <2>1. CASE heap'[o] = heap[o]
    BY <2>1, ObjectKept
  <2>2. CASE o \in 1 .. requests /\ heap'[o] = NewRecord
    BY <1>5, <2>2 DEF ObjectFits, MapsInv, MapsType
  <2> QED BY <2>1, <2>2
<1>7. ASSUME NEW o \in Object, NEW i \in Ids, NEW s \in LifecycleState, Claims(o, i)'
      PROVE  MovesFit(o, i, s)'
  <2>1. Claims(o, i) /\ w \notin Waiting(i, s)
    BY <1>1, <1>7 DEF Waiting, At
  <2>2. CASE heap'[o] = heap[o]
    BY <1>1, <2>1, <2>2, MovesKept
  <2>3. CASE heap'[o] = NewRecord
    <3>1. MovesOf(o, s)' = {}
      BY <1>5, <2>3 DEF MovesOf
    <3>2. Cardinality(LoggedMoves(i, s)') \in Nat /\ Cardinality(Waiting(i, s)') \in Nat
      BY <1>1, LogEntriesStay, WaitingMoves DEF LoggedMoves, MapsInv
    <3> QED BY <3>1, <3>2, FS_EmptySet DEF MovesFit
  <2> QED BY <2>2, <2>3
<1> QED BY <1>1, <1>2, <1>3, <1>4, <1>6, <1>7 DEF MapsInv

LEMMA PutPackageKeepsMaps ==
  ASSUME MapsInv, LogIsSequence, NEW w \in Workers, PutPackage(w), NEW i \in Ids, i = job[w].id
  PROVE  MapsInv'
<1>1. /\ pc[w] = "register.package" /\ UNCHANGED <<records, tickets, manifests, heap, log, requests>>
      /\ Moves(w, "register.record", job[w]) /\ cfis' = cfis \cup {i}
  BY DEF PutPackage, Goto, GotoWith, Moves, counts, objects
<1>2. job[w] \in MemJob /\ job[w].object \in 1 .. requests /\ Claims(job[w].object, i)
  BY <1>1, AtRecord DEF RecordLabels
<1>3. /\ cfis' \subseteq Ids /\ records \in [Ids -> 0 .. requests] /\ tickets \in [Ids -> 0 .. requests]
      /\ heap \in [Object -> MemRecord] /\ requests \in Nat
  BY <1>1 DEF MapsInv, MapsType
<1>4. "register.record" \in MemLabel /\ pc[w] \notin InFlight \cup {"publish.audit"}
  BY <1>1 DEF MemLabel, InFlight
<1>5. pc'[w] = "register.record" /\ job'[w] = job[w] /\ MapsGrow /\ LogGrows
  BY <1>1, <1>2, <1>3, <1>4, StepOfOne DEF MapsInv, MapsGrow, LogGrows
<1>6. RequestFits(w)'
  BY <1>1, <1>2, <1>5 DEF RequestFits, MoveLabels, RecordLabels, FlushLabels
<1>7. RegisteredFits(i)'
  <2>1. i \in cfis' /\ At(w, {"register.record"}, i)'
          /\ At(w, {"register.record", "register.ticket"}, i)'
          /\ At(w, {"register.record", "register.ticket", "register.audit"}, i)'
    BY <1>1, <1>5 DEF At
  <2>2. tickets'[i] # 0 => records'[i] # 0
    BY <1>1 DEF MapsInv, RegisteredFits
  <2> QED BY <2>1, <2>2 DEF RegisteredFits
<1>8. \A j \in Ids \ {i} : (j \in cfis' <=> j \in cfis) /\ Registrations(j)' = Registrations(j)
  BY <1>1 DEF Registrations, Logged
<1> QED BY <1>1, <1>2, <1>3, <1>4, <1>5, <1>6, <1>7, <1>8, RegisterKeepsMaps

LEMMA PutRecordKeepsMaps ==
  ASSUME MapsInv, LogIsSequence, NEW w \in Workers, PutRecord(w), NEW i \in Ids, i = job[w].id
  PROVE  MapsInv'
<1> DEFINE o == job[w].object
<1>1. /\ pc[w] = "register.record" /\ UNCHANGED <<cfis, tickets, manifests, log, requests>>
      /\ Moves(w, "register.ticket", job[w])
      /\ records' = [records EXCEPT ![i] = o] /\ heap' = [heap EXCEPT ![o] = NewRecord]
  BY DEF PutRecord, Goto, GotoWith, Moves, counts
<1>2. job[w] \in MemJob /\ o \in 1 .. requests /\ o \in Object /\ Claims(o, i)
  BY <1>1, AtRecord DEF RecordLabels
<1>3. /\ cfis \subseteq Ids /\ records \in [Ids -> 0 .. requests] /\ tickets \in [Ids -> 0 .. requests]
      /\ heap \in [Object -> MemRecord] /\ requests \in Nat /\ i \in cfis
  BY <1>1 DEF MapsInv, MapsType, RequestFits
<1>4. NewRecord \in MemRecord
  BY DEF NewRecord, MemRecord, SomeState, LifecycleState
<1>5. /\ records' \in [Ids -> 0 .. requests] /\ records'[i] = o /\ o # 0
      /\ \A j \in Ids : j # i => records'[j] = records[j]
      /\ heap' \in [Object -> MemRecord] /\ heap'[o] = NewRecord
      /\ \A p \in Object : p # o => heap'[p] = heap[p]
  BY <1>1, <1>2, <1>3, <1>4
<1>6. /\ "register.ticket" \in MemLabel /\ "register.ticket" \notin RecordLabels
      /\ pc[w] \notin InFlight \cup {"publish.audit"}
  BY <1>1 DEF MemLabel, InFlight, RecordLabels
<1>7. pc'[w] = "register.ticket" /\ job'[w] = job[w] /\ MapsGrow /\ LogGrows
  BY <1>1, <1>2, <1>3, <1>5, <1>6, StepOfOne DEF MapsInv, MapsGrow, LogGrows
<1> HIDE DEF o
<1>8. RequestFits(w)'
  BY <1>1, <1>2, <1>3, <1>5, <1>7 DEF RequestFits, MoveLabels, RecordLabels, FlushLabels, o
<1>9. RegisteredFits(i)'
  <2>1. At(w, {"register.record", "register.ticket"}, i)'
          /\ At(w, {"register.record", "register.ticket", "register.audit"}, i)'
    BY <1>7 DEF At
  <2>2. i \in cfis' /\ records'[i] # 0
    BY <1>1, <1>3, <1>5
  <2> QED BY <2>1, <2>2 DEF RegisteredFits
<1>10. \A j \in Ids \ {i} : Registrations(j)' = Registrations(j)
  BY <1>1 DEF Registrations, Logged
<1>11. \A j \in Ids : records'[j] = records[j] \/ Claims(records'[j], j)
  BY <1>2, <1>5
<1>12. \A p \in Object : heap'[p] = heap[p] \/ (p \in 1 .. requests /\ heap'[p] = NewRecord)
  BY <1>2, <1>5
<1> QED
  BY <1>1, <1>2, <1>3, <1>5, <1>6, <1>7, <1>8, <1>9, <1>10, <1>11, <1>12, RegisterKeepsMaps

LEMMA EnqueueKeepsMaps ==
  ASSUME MapsInv, LogIsSequence, NEW w \in Workers, EnqueueReview(w), NEW i \in Ids, i = job[w].id
  PROVE  MapsInv'
<1> DEFINE o == job[w].object
<1>1. /\ pc[w] = "register.ticket" /\ UNCHANGED <<cfis, records, manifests, heap, log, requests>>
      /\ Moves(w, "register.audit", job[w]) /\ tickets' = [tickets EXCEPT ![i] = o]
  BY DEF EnqueueReview, Goto, GotoWith, Moves, counts
<1>2. job[w] \in MemJob /\ o \in 1 .. requests
  BY <1>1, AtRecord
<1>3. /\ cfis \subseteq Ids /\ records \in [Ids -> 0 .. requests] /\ tickets \in [Ids -> 0 .. requests]
      /\ heap \in [Object -> MemRecord] /\ requests \in Nat /\ i \in cfis /\ records[i] # 0
  BY <1>1 DEF MapsInv, MapsType, RequestFits
<1>4. /\ tickets' \in [Ids -> 0 .. requests] /\ tickets'[i] = o /\ o # 0
      /\ \A j \in Ids : j # i => tickets'[j] = tickets[j]
  BY <1>1, <1>2, <1>3
<1> HIDE DEF o
<1>5. /\ "register.audit" \in MemLabel /\ "register.audit" \notin RecordLabels
      /\ pc[w] \notin InFlight \cup {"publish.audit"}
  BY <1>1 DEF MemLabel, InFlight, RecordLabels
<1>6. pc'[w] = "register.audit" /\ job'[w] = job[w] /\ MapsGrow /\ LogGrows
  BY <1>1, <1>2, <1>3, <1>4, <1>5, StepOfOne DEF MapsInv, MapsGrow, LogGrows
<1>7. RequestFits(w)'
  BY <1>1, <1>3, <1>4, <1>6 DEF RequestFits, MoveLabels, RecordLabels, FlushLabels
<1>8. RegisteredFits(i)'
  <2>1. At(w, {"register.record", "register.ticket", "register.audit"}, i)'
    BY <1>6 DEF At
  <2> QED BY <1>1, <1>3, <1>4, <2>1 DEF RegisteredFits
<1>9. \A j \in Ids \ {i} : Registrations(j)' = Registrations(j)
  BY <1>1 DEF Registrations, Logged
<1> QED BY <1>1, <1>2, <1>3, <1>4, <1>5, <1>6, <1>7, <1>8, <1>9, RegisterKeepsMaps

LEMMA AuditRegisterKeepsMaps ==
  ASSUME MapsInv, LogIsSequence, NEW w \in Workers, AuditRegister(w), NEW i \in Ids, i = job[w].id
  PROVE  MapsInv'
<1>1. /\ pc[w] = "register.audit" /\ UNCHANGED <<maps, heap, requests>> /\ Moves(w, "idle", NoJob)
      /\ log' = Append(log, [action |-> "cfi.registered", id |-> i, detail |-> "reviewed"])
  BY DEF AuditRegister, LogAndFinish, Finish, GotoWith, Moves, counts, objects
<1>2. /\ cfis \subseteq Ids /\ records \in [Ids -> 0 .. requests] /\ tickets \in [Ids -> 0 .. requests]
      /\ heap \in [Object -> MemRecord] /\ requests \in Nat
      /\ i \in cfis /\ records[i] # 0 /\ tickets[i] # 0
  BY <1>1 DEF MapsInv, MapsType, RequestFits
<1>3. /\ "idle" \in MemLabel /\ "idle" \notin RecordLabels
      /\ pc[w] \notin InFlight \cup {"publish.audit"}
  BY <1>1 DEF MemLabel, InFlight, RecordLabels
<1>4. pc'[w] = "idle" /\ MapsGrow /\ LogGrows
  BY <1>1, <1>2, <1>3, NoJobType, StepOfOne DEF MapsInv, MapsGrow, LogGrows, maps
<1>5. RequestFits(w)'
  BY <1>4 DEF RequestFits, MoveLabels, RecordLabels, FlushLabels
<1>6. RegisteredFits(i)'
  <2>1. "cfi.registered" \in {"cfi.registered"}
    OBVIOUS
  <2>2. Registrations(i)' = Registrations(i) \cup {Len(log) + 1}
    BY <1>1, <2>1, LogEntryComes DEF Registrations
  <2> QED BY <1>1, <1>2, <2>2 DEF RegisteredFits, maps
<1>7. ASSUME NEW j \in Ids \ {i} PROVE Registrations(j)' = Registrations(j)
  BY <1>1, LogEntryIsFor DEF Registrations
<1>8. UNCHANGED <<cfis, records, tickets, manifests>>
  BY <1>1 DEF maps
<1> QED BY <1>1, <1>2, <1>3, <1>4, <1>5, <1>6, <1>7, <1>8, NoJobType, RegisterKeepsMaps

LEMMA RegistrationsKeepMaps ==
  ASSUME MapsInv, LogIsSequence, NEW w \in Workers,
         PutPackage(w) \/ PutRecord(w) \/ EnqueueReview(w) \/ AuditRegister(w)
  PROVE  MapsInv'
<1>1. job[w].id \in Ids
  BY DEF PutPackage, PutRecord, EnqueueReview, AuditRegister, MapsInv, RequestFits, FlushLabels
<1>2. PICK i \in Ids : i = job[w].id
  BY <1>1
<1> QED
  BY <1>2, PutPackageKeepsMaps, PutRecordKeepsMaps, EnqueueKeepsMaps, AuditRegisterKeepsMaps

-----------------------------------------------------------------------------
\* A process that has just begun.
Emptied ==
  /\ cfis = {} /\ records = Unset /\ tickets = Unset /\ manifests = NoManifests
  /\ heap = NoRecords /\ log = <<>>
  /\ pc = [w \in Workers |-> "idle"] /\ job = [w \in Workers |-> NoJob]
  /\ requests \in 0 .. MaxRequests

LEMMA LoggedIsCounted ==
  ASSUME LogIsSequence, NEW i, NEW actions, NEW detail
  PROVE  Cardinality(Logged(i, actions, detail)) \in Nat
<1>1. Len(log) \in Nat
  BY DEF LogIsSequence
<1>2. IsFiniteSet(1 .. Len(log))
  BY <1>1, UpTo
<1>3. Logged(i, actions, detail) \subseteq 1 .. Len(log)
  BY DEF Logged
<1> QED BY <1>2, <1>3, FS_Subset, FS_CardinalityType

LEMMA EmptiedFits == Emptied => MapsInv
<1> SUFFICES ASSUME Emptied PROVE MapsInv
  OBVIOUS
<1>1. /\ \A i \in Ids : records[i] = 0 /\ tickets[i] = 0
      /\ \A e \in Epochs : manifests[e] = NoId
      /\ \A o \in Object : heap[o] = NoRecord
      /\ \A w \in Workers : pc[w] = "idle" /\ job[w] = NoJob
      /\ requests \in Nat /\ cfis = {} /\ log = <<>>
  BY DEF Emptied, Unset, NoManifests, NoRecords
<1>2. NoRecord \in MemRecord
  BY DEF NoRecord, MemRecord, SomeState
<1>3. MapsType
  BY <1>1, <1>2, NoJobType DEF Emptied, MapsType, Unset, NoManifests, NoRecords, MemLabel
<1>4. ASSUME NEW i \in Ids PROVE RegisteredFits(i)
  <2>1. records[i] = 0 /\ tickets[i] = 0 /\ i \notin cfis
    BY <1>1
  <2>2. Registrations(i) = {}
    <3>1. Len(log) = 0 /\ 1 .. 0 = {}
      BY <1>1
    <3> QED BY <3>1 DEF Registrations, Logged
  <2> QED BY <2>1, <2>2 DEF RegisteredFits
<1>5. \A o \in Object : ObjectFits(o)
  BY <1>1 DEF ObjectFits, NoRecord
<1>6. ASSUME NEW o \in Object, NEW i \in Ids PROVE ~ Claims(o, i)
  <2>1. records[i] = 0 /\ \A w \in Workers : pc[w] \notin RecordLabels
    BY <1>1 DEF RecordLabels
  <2> QED BY <2>1 DEF Claims, At
<1>7. IsFiniteSet(Busy)
  <2>1. Busy = {}
    BY <1>1 DEF Busy
  <2> QED BY <2>1, FS_EmptySet
<1>8. \A w \in Workers : RequestFits(w)
  BY <1>1 DEF RequestFits, RecordLabels, MoveLabels
<1> QED BY <1>1, <1>3, <1>4, <1>5, <1>6, <1>7, <1>8 DEF MapsInv, ManifestFits, OneClaim

LEMMA StutterKeepsMaps ==
  ASSUME MapsInv, UNCHANGED vars
  PROVE  MapsInv'
<1>1. UNCHANGED <<cfis, records, tickets, manifests, heap, log, pc, job, requests>>
  BY DEF vars, maps, objects, counts
<1>2. MapsType' /\ IsFiniteSet(Busy)'
  BY <1>1 DEF MapsInv, MapsType, Busy
<1>3. \A w \in Workers : RequestFits(w)'
  BY <1>1 DEF MapsInv, RequestFits
<1>4. \A i \in Ids : RegisteredFits(i)'
  BY <1>1 DEF MapsInv, RegisteredFits, At, Registrations, Logged
<1>5. \A e \in Epochs : ManifestFits(e)'
  BY <1>1 DEF MapsInv, ManifestFits, At, Logged
<1>6. \A o \in Object : ObjectFits(o)'
  BY <1>1 DEF MapsInv, ObjectFits
<1>7. \A o, i : Claims(o, i)' = Claims(o, i)
  BY <1>1 DEF Claims, At
<1>8. \A o, i, s : MovesFit(o, i, s)' = MovesFit(o, i, s)
  BY <1>1 DEF MovesFit, MovesOf, LoggedMoves, Logged, Waiting, At
<1> QED BY <1>2, <1>3, <1>4, <1>5, <1>6, <1>7, <1>8 DEF MapsInv, OneClaim

LEMMA MapsStayFit == Spec => [](ExportInv /\ MapsInv)
<1>1. Init => Emptied
  BY MemoryBoundsAssumption DEF Init, Emptied
<1>2. MapsInv /\ Restart => Emptied'
  BY DEF Restart, Emptied, MapsInv, MapsType
<1>3. ExportInv /\ MapsInv /\ [Next]_vars /\ ~ Restart => MapsInv'
  <2> SUFFICES ASSUME ExportInv, MapsInv, [Next]_vars, ~ Restart PROVE MapsInv'
    OBVIOUS
  <2>1. LogIsSequence
    BY DEF ExportInv
  <2>2. ASSUME NEW w \in Workers, Continue(w) PROVE MapsInv'
    BY <2>1, <2>2, LookUps, FlushesKeepMaps, RecordEdits, HistoryGrows, PutBackKeepsMaps,
       PutManifestKeepsMaps, AuditsKeepMaps, RegistrationsKeepMaps DEF Continue
  <2>3. ASSUME NEW w \in Workers, Begin(w) PROVE MapsInv'
    BY <2>3, BeginKeepsMaps
  <2>4. CASE UNCHANGED vars
    BY <2>4, StutterKeepsMaps
  <2> QED BY <2>2, <2>3, <2>4 DEF Next
<1> QED BY <1>1, <1>2, <1>3, EmptiedFits, ExportStaysCovered, PTL DEF Spec

\* When no request is under way, what the maps hold and what the log says
\* agree, for any threads, ids, requests and restarts, however they overlap
\* (RegistryStore.register, transition_lifecycle, supersede, publish_cohort).
THEOREM QuietMapsAlwaysLogged == Spec => []QuietMapsAreLogged
<1>1. ExportInv /\ MapsInv => QuietMapsAreLogged
  <2> SUFFICES ASSUME ExportInv, MapsInv, Quiet
               PROVE  /\ \A i \in Ids :
                           /\ (i \in cfis) = (records[i] # 0) /\ (i \in cfis) = (tickets[i] # 0)
                           /\ (i \in cfis) = (Logged(i, {"cfi.registered"}, "reviewed") # {})
                      /\ \A i \in cfis :
                           /\ \A s \in LifecycleState :
                                Cardinality({k \in DOMAIN heap[records[i]].history :
                                               heap[records[i]].history[k].to_state = s})
                                  =< Cardinality(Logged(i, {"lifecycle.transition", "cfi.superseded"}, s))
                           /\ \A k \in DOMAIN heap[records[i]].supersession_chain :
                                heap[records[i]].supersession_chain[k] \in cfis
                      /\ \A e \in Epochs :
                           manifests[e] # NoId => Logged(manifests[e], {"cohort.published"}, e) # {}
    BY DEF QuietMapsAreLogged
  <2>1. \A labels, i : "idle" \notin labels => \A w \in Workers : ~ At(w, labels, i)
    BY DEF Quiet, At
  <2>2. ASSUME NEW i \in Ids
        PROVE  /\ (i \in cfis) = (records[i] # 0) /\ (i \in cfis) = (tickets[i] # 0)
               /\ (i \in cfis) = (Logged(i, {"cfi.registered"}, "reviewed") # {})
    <3>1. RegisteredFits(i)
      BY DEF MapsInv
    <3>2. i \in cfis => records[i] # 0 /\ tickets[i] # 0 /\ Registrations(i) # {}
      BY <2>1, <3>1 DEF RegisteredFits
    <3>3. (records[i] # 0 \/ tickets[i] # 0 \/ Registrations(i) # {}) => i \in cfis
      BY <3>1 DEF RegisteredFits
    <3> QED BY <3>2, <3>3 DEF Registrations
  <2>3. ASSUME NEW i \in cfis
        PROVE  /\ \A s \in LifecycleState :
                    Cardinality({k \in DOMAIN heap[records[i]].history :
                                   heap[records[i]].history[k].to_state = s})
                      =< Cardinality(Logged(i, {"lifecycle.transition", "cfi.superseded"}, s))
               /\ \A k \in DOMAIN heap[records[i]].supersession_chain :
                    heap[records[i]].supersession_chain[k] \in cfis
    <3>1. i \in Ids /\ requests \in 0 .. MaxRequests /\ MaxRequests \in Nat
      BY MemoryBoundsAssumption DEF MapsInv, MapsType
    <3>2. PICK o \in 1 .. requests : o = records[i] /\ Claims(o, i)
      BY <2>2, <3>1, RecordIsClaimed
    <3>3. o \in Object
      BY <3>1, <3>2 DEF Object
    <3>4. heap[o] \in MemRecord /\ ObjectFits(o)
      BY <3>3 DEF MapsInv, MapsType
    <3>5. /\ DOMAIN heap[o].history = 1 .. Len(heap[o].history)
          /\ DOMAIN heap[o].supersession_chain = 1 .. Len(heap[o].supersession_chain)
      BY <3>4 DEF MemRecord
    <3>6. ASSUME NEW s \in LifecycleState
          PROVE  Cardinality(MovesOf(o, s)) =< Cardinality(LoggedMoves(i, s))
      <4>1. Waiting(i, s) = {}
        BY <2>1 DEF Waiting, InFlight
      <4>2. MovesFit(o, i, s)
        BY <3>1, <3>2, <3>3 DEF MapsInv
      <4>3. Cardinality(LoggedMoves(i, s)) \in Nat
        BY LoggedIsCounted DEF ExportInv, LoggedMoves
      <4> QED BY <4>1, <4>2, <4>3, FS_EmptySet DEF MovesFit
    <3> QED BY <3>2, <3>4, <3>5, <3>6 DEF ObjectFits, MovesOf, LoggedMoves
  <2>4. ASSUME NEW e \in Epochs, manifests[e] # NoId
        PROVE  Logged(manifests[e], {"cohort.published"}, e) # {}
    BY <2>1, <2>4 DEF MapsInv, ManifestFits
  <2> QED BY <2>2, <2>3, <2>4
<1> QED BY <1>1, MapsStayFit, PTL
=============================================================================
