---------------------------- MODULE RegistryMemory ----------------------------
(***************************************************************************)
(* RegistryStore, the store in memory, behind the same endpoints: several  *)
(* requests are under way on a pool of threads, and nothing locks.  What   *)
(* the threads share are objects: a record or a ticket that one thread has *)
(* looked up is changed in place, also after another thread has put a new  *)
(* one in its dictionary.  A step is a statement that reads or changes     *)
(* what is shared.  A restart loses everything but the watermark's file.   *)
(*                                                                         *)
(* An object is named by the request that made it.  Requests that only     *)
(* read are left out, and so are refusals, which change nothing, unless    *)
(* they come after a change.  The sink is the one of AuditExport: a flush  *)
(* that raises may have written or not.                                    *)
(***************************************************************************)
EXTENDS LifecycleRules, FiniteSets

CONSTANTS Workers,       \* threads that serve requests
          Epochs,        \* aggregation epochs a manifest may name
          NoId,          \* stands for "no invariant"
          MaxRequests,   \* bound: requests started
          MaxRestarts    \* bound: restarts

ASSUME MemoryBoundsAssumption == NoId \notin Ids /\ MaxRequests \in Nat /\ MaxRestarts \in Nat

VARIABLES
  cfis,        \* _cfis: the ids that have a package
  records,     \* _records: the object of each id, 0 for none
  tickets,     \* _review._tickets: the object of each id, 0 for none
  manifests,   \* _manifests: the invariant of each epoch's manifest
  heap,        \* the ArtifactRecords, by object
  statuses,    \* the status of the ReviewTickets, by object
  log,         \* _audit._events
  watermark,   \* AuditWatermark._value
  onDisk,      \* what its file would give: 0 while it is truncated
  base,        \* the watermark this process started with
  sent,        \* places of the log whose events the sink has
  pc, job,     \* where each thread is in its request, and its locals
  requests, restarts

maps    == <<cfis, records, tickets, manifests>>
objects == <<heap, statuses>>
export  == <<watermark, onDisk, base, sent>>
counts  == <<requests, restarts>>
vars    == <<maps, objects, log, export, pc, job, counts>>

Object == 1 .. MaxRequests
Decisions == {"approved", "rejected", "needs_generalization"}

\* object: the record or ticket looked up, or to be made.  from: the state
\* the move was built from.  status: "none" unless the request is a decision.
NoJob == [id |-> NoId, object |-> 0, to_state |-> "none", from |-> "none", status |-> "none",
          successor |-> NoId, epoch |-> NoId, before |-> 0, after |-> 0]

Unset == [i \in Ids |-> 0]
NoManifests == [e \in Epochs |-> NoId]
NoRecords == [o \in Object |-> NoRecord]
NoTickets == [o \in Object |-> "none"]

Init ==
  /\ cfis = {} /\ records = Unset /\ tickets = Unset /\ manifests = NoManifests
  /\ heap = NoRecords /\ statuses = NoTickets
  /\ log = <<>> /\ sent = {}
  /\ pc = [w \in Workers |-> "idle"] /\ job = [w \in Workers |-> NoJob]
  /\ watermark = 0 /\ onDisk = 0 /\ base = 0
  /\ requests = 0 /\ restarts = 0

-----------------------------------------------------------------------------
Start(w, next, locals) ==
  /\ pc[w] = "idle" /\ requests < MaxRequests
  /\ requests' = requests + 1
  /\ pc' = [pc EXCEPT ![w] = next]
  /\ job' = [job EXCEPT ![w] = locals]
  /\ UNCHANGED restarts

GotoWith(w, next, locals) ==
  /\ pc' = [pc EXCEPT ![w] = next]
  /\ job' = [job EXCEPT ![w] = locals]
  /\ UNCHANGED counts

Goto(w, next) == GotoWith(w, next, job[w])
Finish(w) == GotoWith(w, "idle", NoJob)

\* The last statement of a request that changed something.
LogAndFinish(w, action, detail) ==
  /\ log' = Append(log, [action |-> action, id |-> job[w].id, detail |-> detail])
  /\ Finish(w)
  /\ UNCHANGED <<maps, objects, export>>

-----------------------------------------------------------------------------
(* register.                                                               *)

CheckDuplicate(w, i) ==
  /\ i \notin cfis
  /\ Start(w, "register.package", [NoJob EXCEPT !.id = i, !.object = requests + 1])
  /\ UNCHANGED <<maps, objects, log, export>>

PutPackage(w) ==
  /\ pc[w] = "register.package"
  /\ cfis' = cfis \cup {job[w].id}
  /\ Goto(w, "register.record")
  /\ UNCHANGED <<records, tickets, manifests, objects, log, export>>

PutRecord(w) ==
  /\ pc[w] = "register.record"
  /\ records' = [records EXCEPT ![job[w].id] = job[w].object]
  /\ heap' = [heap EXCEPT ![job[w].object] = NewRecord]
  /\ Goto(w, "register.ticket")
  /\ UNCHANGED <<cfis, tickets, manifests, statuses, log, export>>

EnqueueReview(w) ==
  /\ pc[w] = "register.ticket"
  /\ tickets' = [tickets EXCEPT ![job[w].id] = job[w].object]
  /\ statuses' = [statuses EXCEPT ![job[w].object] = "pending"]
  /\ Goto(w, "register.audit")
  /\ UNCHANGED <<cfis, records, manifests, heap, log, export>>

AuditRegister(w) ==
  pc[w] = "register.audit" /\ LogAndFinish(w, "cfi.registered", "reviewed")

-----------------------------------------------------------------------------
(* transition_lifecycle, by itself or for a decision, and supersede.       *)

GetLifecycle(w, i, to_state) ==
  /\ records[i] # 0
  /\ Start(w, "transition", [NoJob EXCEPT !.id = i, !.object = records[i], !.to_state = to_state])
  /\ UNCHANGED <<maps, objects, log, export>>

CheckSuccessor(w, i, successor) ==
  /\ successor \in cfis
  /\ Start(w, "supersede", [NoJob EXCEPT !.id = i, !.successor = successor, !.to_state = "superseded"])
  /\ UNCHANGED <<maps, objects, log, export>>

GetForSupersede(w) ==
  /\ pc[w] = "supersede"
  /\ IF records[job[w].id] = 0 THEN Finish(w)
     ELSE GotoWith(w, "chain", [job[w] EXCEPT !.object = records[job[w].id]])
  /\ UNCHANGED <<maps, objects, log, export>>

\* The record's own chain, before the move is checked.
AppendToChain(w) ==
  /\ pc[w] = "chain"
  /\ heap' = [heap EXCEPT ![job[w].object].supersession_chain = Append(@, job[w].successor)]
  /\ Goto(w, "transition")
  /\ UNCHANGED <<maps, statuses, log, export>>

\* A move the graph lacks raises; the state is read again for the event.
CheckMove(w) ==
  /\ pc[w] = "transition"
  /\ IF Allowed(heap[job[w].object], job[w].to_state) THEN Goto(w, "event") ELSE Finish(w)
  /\ UNCHANGED <<maps, objects, log, export>>

BuildEvent(w) ==
  /\ pc[w] = "event"
  /\ GotoWith(w, "history", [job[w] EXCEPT !.from = heap[job[w].object].state])
  /\ UNCHANGED <<maps, objects, log, export>>

AppendHistory(w) ==
  /\ pc[w] = "history"
  /\ heap' = [heap EXCEPT ![job[w].object].history =
                Append(@, [from_state |-> job[w].from, to_state |-> job[w].to_state])]
  /\ Goto(w, "state")
  /\ UNCHANGED <<maps, statuses, log, export>>

SetState(w) ==
  /\ pc[w] = "state"
  /\ heap' = [heap EXCEPT ![job[w].object].state = job[w].to_state]
  /\ Goto(w, "put")
  /\ UNCHANGED <<maps, statuses, log, export>>

\* A bug: a move that was made for a decision is not logged as one.
PutBack_Unlogged(w) ==
  /\ pc[w] = "put"
  /\ records' = [records EXCEPT ![job[w].id] = job[w].object]
  /\ Goto(w, IF job[w].status = "none" THEN "transition.audit" ELSE "decide.audit")
  /\ UNCHANGED <<cfis, tickets, manifests, objects, log, export>>

\* self._records[invariant_id] = updated: the object that was looked up.
PutBack(w) ==
  /\ pc[w] = "put"
  /\ records' = [records EXCEPT ![job[w].id] = job[w].object]
  /\ Goto(w, "transition.audit")
  /\ UNCHANGED <<cfis, tickets, manifests, objects, log, export>>

AuditTransition(w) ==
  /\ pc[w] = "transition.audit"
  /\ log' = Append(log, [action |-> IF job[w].successor = NoId THEN "lifecycle.transition"
                                    ELSE "cfi.superseded",
                         id |-> job[w].id, detail |-> job[w].to_state])
  /\ IF job[w].status = "none" THEN Finish(w) ELSE Goto(w, "decide.audit")
  /\ UNCHANGED <<maps, objects, export>>

-----------------------------------------------------------------------------
(* review_decision, and publish_cohort.                                    *)

GetTicket(w, i, status) ==
  /\ tickets[i] # 0
  /\ Start(w, "decide", [NoJob EXCEPT !.id = i, !.object = tickets[i], !.status = status])
  /\ UNCHANGED <<maps, objects, log, export>>

SetStatus(w) ==
  /\ pc[w] = "decide"
  /\ statuses' = [statuses EXCEPT ![job[w].object] = job[w].status]
  /\ Goto(w, IF job[w].status = "needs_generalization" THEN "decide.audit" ELSE "decide.record")
  /\ UNCHANGED <<maps, heap, log, export>>

GetDecided(w) ==
  /\ pc[w] = "decide.record"
  /\ GotoWith(w, "transition",
       [job[w] EXCEPT !.object = records[job[w].id],
                      !.to_state = IF job[w].status = "approved" THEN "active" ELSE "revoked"])
  /\ UNCHANGED <<maps, objects, log, export>>

AuditDecision(w) == pc[w] = "decide.audit" /\ LogAndFinish(w, "review.decision", job[w].status)

CheckInvariant(w, i, e) ==
  /\ i \in cfis
  /\ Start(w, "publish", [NoJob EXCEPT !.id = i, !.epoch = e])
  /\ UNCHANGED <<maps, objects, log, export>>

\* Whatever manifest the epoch has.
PutManifest(w) ==
  /\ pc[w] = "publish"
  /\ manifests' = [manifests EXCEPT ![job[w].epoch] = job[w].id]
  /\ Goto(w, "publish.audit")
  /\ UNCHANGED <<cfis, records, tickets, objects, log, export>>

AuditPublish(w) == pc[w] = "publish.audit" /\ LogAndFinish(w, "cohort.published", job[w].epoch)

-----------------------------------------------------------------------------
(* flush_audit_sink: the watermark is an index into the log.               *)

ReadWatermark(w) ==
  /\ Start(w, "flush.export", [NoJob EXCEPT !.before = watermark])
  /\ UNCHANGED <<maps, objects, log, export>>

\* Of no events nothing is written and the watermark stays.
Export(w) ==
  /\ pc[w] = "flush.export"
  /\ IF job[w].before >= Len(log) THEN Finish(w)
     ELSE GotoWith(w, "flush.send", [job[w] EXCEPT !.after = Len(log)])
  /\ UNCHANGED <<maps, objects, log, export>>

Send(w) ==
  /\ pc[w] = "flush.send"
  /\ LET events == job[w].before + 1 .. job[w].after
     IN \/ sent' = sent \cup events /\ Goto(w, "flush.advance")
        \/ sent' \in {sent, sent \cup events} /\ Finish(w)
  /\ UNCHANGED <<maps, objects, log, watermark, onDisk, base>>

\* A bug: what was logged since counts as exported.
AdvanceWatermark_ToEnd(w) ==
  /\ pc[w] = "flush.advance"
  /\ watermark' = Len(log) /\ onDisk' = 0
  /\ Goto(w, "flush.persist")
  /\ UNCHANGED <<maps, objects, log, base, sent>>

\* The value, and the truncation of the file.
AdvanceWatermark(w) ==
  /\ pc[w] = "flush.advance"
  /\ watermark' = job[w].after /\ onDisk' = 0
  /\ Goto(w, "flush.persist")
  /\ UNCHANGED <<maps, objects, log, base, sent>>

PersistWatermark(w) ==
  /\ pc[w] = "flush.persist"
  /\ onDisk' = job[w].after
  /\ Finish(w)
  /\ UNCHANGED <<maps, objects, log, watermark, base, sent>>

-----------------------------------------------------------------------------
Begin(w) ==
  \/ ReadWatermark(w)
  \/ \E i \in Ids :
       \/ CheckDuplicate(w, i)
       \/ \E to_state \in LifecycleState : GetLifecycle(w, i, to_state)
       \/ \E successor \in Ids : CheckSuccessor(w, i, successor)
       \/ \E status \in Decisions : GetTicket(w, i, status)
       \/ \E e \in Epochs : CheckInvariant(w, i, e)

Continue(w) ==
  \/ PutPackage(w) \/ PutRecord(w) \/ EnqueueReview(w) \/ AuditRegister(w)
  \/ GetForSupersede(w) \/ AppendToChain(w)
  \/ CheckMove(w) \/ BuildEvent(w) \/ AppendHistory(w) \/ SetState(w) \/ PutBack(w)
  \/ AuditTransition(w)
  \/ SetStatus(w) \/ GetDecided(w) \/ AuditDecision(w)
  \/ PutManifest(w) \/ AuditPublish(w)
  \/ Export(w) \/ Send(w) \/ AdvanceWatermark(w) \/ PersistWatermark(w)

\* The process ends, at whatever point its threads are, and a new one reads
\* the watermark's file.
Restart ==
  /\ restarts < MaxRestarts
  /\ restarts' = restarts + 1
  /\ cfis' = {} /\ records' = Unset /\ tickets' = Unset /\ manifests' = NoManifests
  /\ heap' = NoRecords /\ statuses' = NoTickets
  /\ log' = <<>> /\ sent' = {}
  /\ pc' = [w \in Workers |-> "idle"] /\ job' = [w \in Workers |-> NoJob]
  /\ watermark' = onDisk /\ base' = onDisk
  /\ UNCHANGED <<onDisk, requests>>

Next == Restart \/ \E w \in Workers : Begin(w) \/ Continue(w)

Spec == Init /\ [][Next]_vars

-----------------------------------------------------------------------------
(* Properties.                                                             *)

Quiet == \A w \in Workers : pc[w] = "idle"
Logged(i, actions, detail) ==
  {k \in 1 .. Len(log) : log[k].id = i /\ log[k].action \in actions /\ log[k].detail = detail}

\* When no request is under way, what the maps hold and what the log says
\* agree, however requests overlapped, two registrations of one id included:
\* a registered id, and no other, has its record, its ticket and its log
\* entry; each move in the history of the record it has was logged; its chain
\* names registered ids; an epoch's manifest is one that was logged
\* (RegistryStore.register, transition_lifecycle, supersede, publish_cohort).
QuietMapsAreLogged ==
  Quiet =>
    /\ \A i \in Ids :
         /\ (i \in cfis) = (records[i] # 0) /\ (i \in cfis) = (tickets[i] # 0)
         /\ (i \in cfis) = (Logged(i, {"cfi.registered"}, "reviewed") # {})
         /\ i \in cfis =>
              LET record == heap[records[i]]
              IN /\ \A s \in LifecycleState :
                      Cardinality({k \in DOMAIN record.history : record.history[k].to_state = s})
                        =< Cardinality(Logged(i, {"lifecycle.transition", "cfi.superseded"}, s))
                 /\ \A k \in DOMAIN record.supersession_chain : record.supersession_chain[k] \in cfis
    /\ \A e \in Epochs :
         manifests[e] # NoId => Logged(manifests[e], {"cohort.published"}, e) # {}

\* The sink misses an event that the watermark has passed only where the
\* watermark's file had hidden its place before the event was logged: in a
\* process that began with an older process's watermark.  Overlapping flushes
\* and flushes that raise hide none (flush_audit_sink, AuditWatermark).
MissedIsHidden ==
  \A k \in 1 .. Len(log) : k =< watermark /\ k > base => k \in sent
=============================================================================
