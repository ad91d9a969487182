---------------------------- MODULE RegistryStore ----------------------------
(***************************************************************************)
(* PostgresRegistryStore behind its FastAPI endpoints.  The endpoints are  *)
(* plain functions that the framework runs on a pool of threads, so        *)
(* several requests are under way at once; a request is a sequence of      *)
(* database sessions, and each session (`with self._session()`) is one     *)
(* transaction and one step here.  Between two sessions of a request       *)
(* another request may run, or the process may die: tables survive, the    *)
(* requests under way do not.                                              *)
(*                                                                         *)
(* A request that the code refuses in its first session (unknown id,       *)
(* duplicate id, move not allowed) changes nothing and is not a step; one  *)
(* refused later has already written something and is.                     *)
(***************************************************************************)
EXTENDS LifecycleRules, FiniteSets

CONSTANTS Workers,       \* threads of the pool that serve requests
          Epochs,        \* aggregation epochs a manifest may name
          NoId,          \* stands for "no invariant" in an empty column
          MaxRequests,   \* bound: requests started, all threads together
          MaxCrashes     \* bound: times the process dies

ASSUME NoIdAssumption == NoId \notin Ids
ASSUME BoundsAssumption == MaxRequests \in Nat /\ MaxCrashes \in Nat

VARIABLES
  cfis,         \* cfi_records: the ids that have a package row
  lifecycle,    \* artifact_lifecycle: record_json by id, NoRecord when no row
  tickets,      \* review_tickets: status by id, "none" when no row
  historyRows,  \* lifecycle_history, in autoincrement order
  chainRows,    \* supersession_chain, in autoincrement order
  manifests,    \* cohort_manifests: invariant by epoch, NoId when no row
  audit,        \* audit_events, in autoincrement order
  pc,           \* where each thread is in its request
  job,          \* the locals of each thread's request
  requests,     \* requests started so far
  crashes       \* crashes so far

tables  == <<cfis, lifecycle, tickets, historyRows, chainRows, manifests, audit>>
threads == <<pc, job>>
vars    == <<tables, threads, requests, crashes>>

ReviewStatus == {"pending", "approved", "rejected", "needs_generalization"}
Decisions    == ReviewStatus \ {"pending"}

Label == {"idle",
          "register.record", "register.ticket", "register.audit",
          "decide.save", "decide.transition", "decide.audit",
          "supersede.read", "save", "history", "chain",
          "transition.audit", "supersede.audit", "publish.audit"}

\* copy: the ArtifactRecord read from the table and then changed in memory.
\* status / successor: "none" / NoId unless the request is a decision /
\* a supersession.
NoJob == [id |-> NoId, copy |-> NoRecord, status |-> "none", successor |-> NoId]

AuditEvent(action, id, detail) == [action |-> action, id |-> id, detail |-> detail]

Actions == {"cfi.registered", "lifecycle.transition", "review.decision",
            "cfi.superseded", "cohort.published"}

\* The locals a request has by the time it is at a label.
JobFits(label, locals) ==
  /\ label # "idle" => locals.id \in Ids
  /\ label \in {"save", "history", "chain", "transition.audit", "supersede.audit"} =>
       locals.copy \in ArtifactRecord
  /\ label \in {"decide.save", "decide.transition", "decide.audit"} =>
       locals.status \in Decisions
  /\ label \in {"supersede.read", "chain", "supersede.audit"} => locals.successor \in Ids

TypeOK ==
  /\ cfis \subseteq Ids
  /\ lifecycle \in [Ids -> ArtifactRecord \cup {NoRecord}]
  /\ tickets \in [Ids -> ReviewStatus \cup {"none"}]
  /\ historyRows \in Seq([id : Ids, from_state : LifecycleState, to_state : LifecycleState])
  /\ chainRows \in Seq([id : Ids, successor : Ids])
  /\ manifests \in [Epochs -> Ids \cup {NoId}]
  /\ audit \in Seq([action : Actions, id : Ids,
                    detail : LifecycleState \cup Decisions \cup {"none"}])
  /\ pc \in [Workers -> Label]
  /\ job \in [Workers -> [id : Ids \cup {NoId},
                          copy : ArtifactRecord \cup {NoRecord},
                          status : Decisions \cup {"none"},
                          successor : Ids \cup {NoId}]]
  /\ \A w \in Workers : JobFits(pc[w], job[w])
  /\ requests \in 0 .. MaxRequests
  /\ crashes \in 0 .. MaxCrashes

Init ==
  /\ cfis = {}
  /\ lifecycle = [i \in Ids |-> NoRecord]
  /\ tickets = [i \in Ids |-> "none"]
  /\ historyRows = <<>>
  /\ chainRows = <<>>
  /\ manifests = [e \in Epochs |-> NoId]
  /\ audit = <<>>
  /\ pc = [w \in Workers |-> "idle"]
  /\ job = [w \in Workers |-> NoJob]
  /\ requests = 0
  /\ crashes = 0

-----------------------------------------------------------------------------
(* Control of one request.                                                 *)

\* The first session of a request on a free thread.
Start(w, next, locals) ==
  /\ pc[w] = "idle"
  /\ requests < MaxRequests
  /\ requests' = requests + 1
  /\ pc' = [pc EXCEPT ![w] = next]
  /\ job' = [job EXCEPT ![w] = locals]
  /\ UNCHANGED crashes

\* A later session: the request goes on at `next` with the same locals.
Goto(w, next) ==
  /\ pc' = [pc EXCEPT ![w] = next]
  /\ UNCHANGED <<job, requests, crashes>>

\* The request returns or raises; its locals are gone.
Finish(w) ==
  /\ pc' = [pc EXCEPT ![w] = "idle"]
  /\ job' = [job EXCEPT ![w] = NoJob]
  /\ UNCHANGED <<requests, crashes>>

Log(action, id, detail) == audit' = Append(audit, AuditEvent(action, id, detail))

-----------------------------------------------------------------------------
(* register: four transactions, none of which undoes an earlier one.       *)

\* Bugs register could have: the duplicate check dropped, the ticket
\* enqueued before the artifact row, the request answered after the package
\* row alone.
RegisterCfi_NoDuplicateCheck(w, i) ==
  /\ Start(w, "register.record", [NoJob EXCEPT !.id = i])
  /\ cfis' = cfis \cup {i}
  /\ UNCHANGED <<lifecycle, tickets, historyRows, chainRows, manifests, audit>>

RegisterCfi_NoArtifactRow(w, i) ==
  /\ i \notin cfis
  /\ Start(w, "register.ticket", [NoJob EXCEPT !.id = i])
  /\ cfis' = cfis \cup {i}
  /\ UNCHANGED <<lifecycle, tickets, historyRows, chainRows, manifests, audit>>

RegisterCfi_PackageOnly(w, i) ==
  /\ i \notin cfis
  /\ Start(w, "idle", NoJob)
  /\ cfis' = cfis \cup {i}
  /\ UNCHANGED <<lifecycle, tickets, historyRows, chainRows, manifests, audit>>

RegisterCfi(w, i) ==
  /\ i \notin cfis
  /\ Start(w, "register.record", [NoJob EXCEPT !.id = i])
  /\ cfis' = cfis \cup {i}
  /\ UNCHANGED <<lifecycle, tickets, historyRows, chainRows, manifests, audit>>

RegisterArtifact(w) ==
  /\ pc[w] = "register.record"
  /\ lifecycle' = [lifecycle EXCEPT ![job[w].id] = NewRecord]
  /\ Goto(w, "register.ticket")
  /\ UNCHANGED <<cfis, tickets, historyRows, chainRows, manifests, audit>>

EnqueueReview(w) ==
  /\ pc[w] = "register.ticket"
  /\ tickets' = [tickets EXCEPT ![job[w].id] = "pending"]
  /\ Goto(w, "register.audit")
  /\ UNCHANGED <<cfis, lifecycle, historyRows, chainRows, manifests, audit>>

AuditRegister(w) ==
  /\ pc[w] = "register.audit"
  /\ Log("cfi.registered", job[w].id, "reviewed")
  /\ Finish(w)
  /\ UNCHANGED <<cfis, lifecycle, tickets, historyRows, chainRows, manifests>>

-----------------------------------------------------------------------------
(* transition_lifecycle: read a copy, move the copy, write the copy back.  *)

\* A bug: the check of the lifecycle graph dropped.
BeginTransition_Unchecked(w, i, to_state) ==
  /\ lifecycle[i] # NoRecord
  /\ Start(w, "save", [NoJob EXCEPT !.id = i, !.copy = Transition(lifecycle[i], to_state)])
  /\ UNCHANGED tables

\* get_lifecycle and the check and move on the copy it returns; an unknown
\* id or a move the graph lacks is refused with nothing written.
BeginTransition(w, i, to_state) ==
  /\ lifecycle[i] # NoRecord
  /\ Allowed(lifecycle[i], to_state)
  /\ Start(w, "save", [NoJob EXCEPT !.id = i, !.copy = Transition(lifecycle[i], to_state)])
  /\ UNCHANGED tables

\* A bug: the write skips the append of the lifecycle_history row.
SaveArtifact_NoHistoryRow(w) ==
  /\ pc[w] = "save"
  /\ lifecycle' = [lifecycle EXCEPT ![job[w].id] = job[w].copy]
  /\ Goto(w, IF job[w].successor # NoId THEN "chain" ELSE "transition.audit")
  /\ UNCHANGED <<cfis, tickets, historyRows, chainRows, manifests, audit>>

\* The whole row is overwritten by the copy, whatever it holds by now.
SaveArtifact(w) ==
  /\ pc[w] = "save"
  /\ lifecycle' = [lifecycle EXCEPT ![job[w].id] = job[w].copy]
  /\ Goto(w, "history")
  /\ UNCHANGED <<cfis, tickets, historyRows, chainRows, manifests, audit>>

\* The caller's `record` is the object the manager has already moved, so
\* from_state is written with the new state.
AppendLifecycleEvent(w) ==
  /\ pc[w] = "history"
  /\ LET moved == job[w].copy.state
     IN historyRows' = Append(historyRows,
                         [id |-> job[w].id, from_state |-> moved, to_state |-> moved])
  /\ Goto(w, IF job[w].successor # NoId THEN "chain" ELSE "transition.audit")
  /\ UNCHANGED <<cfis, lifecycle, tickets, chainRows, manifests, audit>>

\* A bug: the audit event of the move is lost.
AuditTransition_Silent(w) ==
  /\ pc[w] = "transition.audit"
  /\ IF job[w].status = "none" THEN Finish(w) ELSE Goto(w, "decide.audit")
  /\ UNCHANGED tables

AuditTransition(w) ==
  /\ pc[w] = "transition.audit"
  /\ Log("lifecycle.transition", job[w].id, job[w].copy.state)
  /\ IF job[w].status = "none" THEN Finish(w) ELSE Goto(w, "decide.audit")
  /\ UNCHANGED <<cfis, lifecycle, tickets, historyRows, chainRows, manifests>>

-----------------------------------------------------------------------------
(* review_decision: the ticket first, then the lifecycle, then the audit.  *)

\* get_review_ticket; a decision "pending" is refused.  Nothing asks whether
\* the ticket still is pending.
BeginDecision(w, i, status) ==
  /\ tickets[i] # "none"
  /\ Start(w, "decide.save", [NoJob EXCEPT !.id = i, !.status = status])
  /\ UNCHANGED tables

\* A bug: the decision is audited before its lifecycle move is tried.
SaveReviewTicket_AuditFirst(w) ==
  /\ pc[w] = "decide.save"
  /\ tickets' = [tickets EXCEPT ![job[w].id] = job[w].status]
  /\ Goto(w, "decide.audit")
  /\ UNCHANGED <<cfis, lifecycle, historyRows, chainRows, manifests, audit>>

SaveReviewTicket(w) ==
  /\ pc[w] = "decide.save"
  /\ tickets' = [tickets EXCEPT ![job[w].id] = job[w].status]
  /\ Goto(w, IF job[w].status = "needs_generalization" THEN "decide.audit"
             ELSE "decide.transition")
  /\ UNCHANGED <<cfis, lifecycle, historyRows, chainRows, manifests, audit>>

DecidedState(status) == IF status = "approved" THEN "active" ELSE "revoked"

\* A bug: the ticket's status is taken for the lifecycle state it calls for.
DecideTransition_RawStatus(w) ==
  /\ pc[w] = "decide.transition"
  /\ pc' = [pc EXCEPT ![w] = "save"]
  /\ job' = [job EXCEPT ![w].copy = Transition(lifecycle[job[w].id], job[w].status)]
  /\ UNCHANGED <<tables, requests, crashes>>

\* transition_lifecycle called by the decision: the copy is moved, or the
\* call raises and the request ends with the ticket already saved.
DecideTransition(w) ==
  /\ pc[w] = "decide.transition"
  /\ LET record == lifecycle[job[w].id]
         to     == DecidedState(job[w].status)
     IN IF record # NoRecord /\ Allowed(record, to)
        THEN /\ pc' = [pc EXCEPT ![w] = "save"]
             /\ job' = [job EXCEPT ![w].copy = Transition(record, to)]
             /\ UNCHANGED <<requests, crashes>>
        ELSE Finish(w)
  /\ UNCHANGED tables

AuditDecision(w) ==
  /\ pc[w] = "decide.audit"
  /\ Log("review.decision", job[w].id, job[w].status)
  /\ Finish(w)
  /\ UNCHANGED <<cfis, lifecycle, tickets, historyRows, chainRows, manifests>>

-----------------------------------------------------------------------------
(* supersede: the successor's package, the record, then four writes.       *)

\* A bug: the successor is not looked up.
BeginSupersede_AnySuccessor(w, i, successor) ==
  /\ Start(w, "supersede.read", [NoJob EXCEPT !.id = i, !.successor = successor])
  /\ UNCHANGED tables

\* The successor must be registered; it may be the artifact itself.
BeginSupersede(w, i, successor) ==
  /\ successor \in cfis
  /\ Start(w, "supersede.read", [NoJob EXCEPT !.id = i, !.successor = successor])
  /\ UNCHANGED tables

ReadForSupersede(w) ==
  /\ pc[w] = "supersede.read"
  /\ LET record == lifecycle[job[w].id]
     IN IF record # NoRecord /\ Allowed(record, "superseded")
        THEN /\ pc' = [pc EXCEPT ![w] = "save"]
             /\ job' = [job EXCEPT ![w].copy = Supersede(record, job[w].successor)]
             /\ UNCHANGED <<requests, crashes>>
        ELSE Finish(w)
  /\ UNCHANGED tables

AppendSupersession(w) ==
  /\ pc[w] = "chain"
  /\ chainRows' = Append(chainRows, [id |-> job[w].id, successor |-> job[w].successor])
  /\ Goto(w, "supersede.audit")
  /\ UNCHANGED <<cfis, lifecycle, tickets, historyRows, manifests, audit>>

AuditSupersede(w) ==
  /\ pc[w] = "supersede.audit"
  /\ Log("cfi.superseded", job[w].id, "none")
  /\ Finish(w)
  /\ UNCHANGED <<cfis, lifecycle, tickets, historyRows, chainRows, manifests>>

-----------------------------------------------------------------------------
(* publish_cohort: one manifest per epoch; its invariant is not looked up. *)

InsertManifest(w, e, i) ==
  /\ manifests[e] = NoId
  /\ Start(w, "publish.audit", [NoJob EXCEPT !.id = i])
  /\ manifests' = [manifests EXCEPT ![e] = i]
  /\ UNCHANGED <<cfis, lifecycle, tickets, historyRows, chainRows, audit>>

AuditPublish(w) ==
  /\ pc[w] = "publish.audit"
  /\ Log("cohort.published", job[w].id, "none")
  /\ Finish(w)
  /\ UNCHANGED <<cfis, lifecycle, tickets, historyRows, chainRows, manifests>>

-----------------------------------------------------------------------------
Begin(w) ==
  \E i \in Ids :
    \/ RegisterCfi(w, i)
    \/ \E to_state \in LifecycleState : BeginTransition(w, i, to_state)
    \/ \E status \in Decisions : BeginDecision(w, i, status)
    \/ \E successor \in Ids : BeginSupersede(w, i, successor)
    \/ \E e \in Epochs : InsertManifest(w, e, i)

\* What a request under way does next.
Continue(w) ==
  \/ RegisterArtifact(w) \/ EnqueueReview(w) \/ AuditRegister(w)
  \/ SaveArtifact(w) \/ AppendLifecycleEvent(w) \/ AuditTransition(w)
  \/ SaveReviewTicket(w) \/ DecideTransition(w) \/ AuditDecision(w)
  \/ ReadForSupersede(w) \/ AppendSupersession(w) \/ AuditSupersede(w)
  \/ AuditPublish(w)

\* The process dies and is started again on the same database.
Crash ==
  /\ crashes < MaxCrashes
  /\ crashes' = crashes + 1
  /\ pc' = [w \in Workers |-> "idle"]
  /\ job' = [w \in Workers |-> NoJob]
  /\ UNCHANGED <<tables, requests>>

Next == Crash \/ \E w \in Workers : Begin(w) \/ Continue(w)

\* A thread that has a request runs it to its end; nobody need send one.
Fairness == \A w \in Workers : WF_vars(Continue(w))

Spec == Init /\ [][Next]_vars
FairSpec == Spec /\ Fairness

-----------------------------------------------------------------------------
(* Properties.                                                             *)

\* register's writes leave a prefix and never a hole, whatever crash or other
\* request falls between them: a registration that was audited has its ticket, a
\* ticket has its artifact row, an artifact row has its package.  So a ticket
\* a reviewer can see is one whose lifecycle exists.
RegistrationOrder ==
  \A i \in Ids :
    /\ lifecycle[i] # NoRecord => i \in cfis
    /\ tickets[i] # "none" => lifecycle[i] # NoRecord
    /\ \A k \in 1 .. Len(audit) :
         audit[k].action = "cfi.registered" /\ audit[k].id = i => tickets[i] # "none"

\* What a request under way may still rely on of what it read or wrote in an
\* earlier session, whatever the other threads did since: rows it saw are still
\* there, and an id is being registered by one thread only, ahead of its
\* artifact row and its ticket.
Registering(w) == pc[w] \in {"register.record", "register.ticket"}
RequestsInStep ==
  /\ \A w \in Workers :
       LET i == job[w].id
       IN /\ Registering(w) => i \in cfis /\ tickets[i] = "none"
          /\ pc[w] = "register.record" => lifecycle[i] = NoRecord
          /\ pc[w] \in {"register.ticket", "save"} => lifecycle[i] # NoRecord
          /\ pc[w] \in {"register.audit", "decide.save"} => tickets[i] # "none"
  /\ \A v, w \in Workers :
       Registering(v) /\ Registering(w) /\ job[v].id = job[w].id => v = w

\* However many threads overwrite a row from stale copies, the row explains
\* itself: its history walks the lifecycle graph unbroken from "reviewed" to
\* the state it holds (transition_lifecycle, supersede).
StoredHistoryIsWalk == \A i \in Ids : lifecycle[i] # NoRecord => IsWalk(lifecycle[i])

\* An artifact's supersession chain names registered packages only and is
\* no longer than the times its own history entered "superseded" (the POST
\* /lifecycle route supersedes without naming a successor, never the reverse).
ChainIsBacked ==
  \A i \in Ids :
    LET chain   == lifecycle[i].supersession_chain
        history == lifecycle[i].history
    IN /\ \A k \in 1 .. Len(chain) : chain[k] \in cfis
       /\ Len(chain) =< Cardinality({k \in 1 .. Len(history) :
                                      history[k].to_state = "superseded"})

\* An approval or a rejection is audited only when its lifecycle move was
\* made: the move's lifecycle_history row is there.  A decision whose move is
\* refused leaves a decided ticket and no audit event (review_decision).
HasRow(i, to_state) ==
  \E n \in 1 .. Len(historyRows) :
    historyRows[n].id = i /\ historyRows[n].to_state = to_state
AuditedDecisionMoved ==
  \A k \in 1 .. Len(audit) :
    audit[k].action = "review.decision" /\ audit[k].detail \in {"approved", "rejected"} =>
      HasRow(audit[k].id, DecidedState(audit[k].detail))

RowsOf(i) == {n \in 1 .. Len(historyRows) : historyRows[n].id = i}
EventsOf(i, actions) == {k \in 1 .. Len(audit) : audit[k].id = i /\ audit[k].action \in actions}
Moves == {"lifecycle.transition", "cfi.superseded"}

\* The three logs of a move trail each other: no log runs ahead of the one
\* written before it, even when requests die half way.
LogsTrail ==
  \A i \in Ids :
    LET supersessions == Cardinality({n \in 1 .. Len(chainRows) : chainRows[n].id = i})
    IN /\ Cardinality(EventsOf(i, Moves)) =< Cardinality(RowsOf(i))
       /\ Cardinality(EventsOf(i, {"cfi.superseded"})) =< supersessions
       /\ supersessions =< Cardinality({n \in RowsOf(i) : historyRows[n].to_state = "superseded"})

Quiet == \A w \in Workers : pc[w] = "idle"

\* Once no request is under way and none has died, every move is in both
\* logs, and the row's own history (from which a concurrent overwrite may have
\* dropped events) is never longer than the log of its moves.
QuietLogsAgree ==
  Quiet /\ crashes = 0 =>
    \A i \in Ids :
      /\ Cardinality(EventsOf(i, Moves)) = Cardinality(RowsOf(i))
      /\ Len(lifecycle[i].history) =< Cardinality(RowsOf(i))
      /\ i \in cfis => tickets[i] # "none"

\* A ticket that was decided never returns to the review queue: only
\* register enqueues, and an id is registered once (register, review_decision).
DecidedStaysDecided ==
  [][\A i \in Ids : tickets[i] \in Decisions => tickets'[i] # "pending"]_vars

\* A package row without an artifact row and without the thread that is
\* registering it is stuck: register refuses the id as a duplicate from then
\* on, and no other route can create its lifecycle or its ticket.
Orphaned(i) ==
  /\ i \in cfis
  /\ lifecycle[i] = NoRecord
  /\ \A w \in Workers : ~ (pc[w] = "register.record" /\ job[w].id = i)
OrphanStaysOrphaned == [][\A i \in Ids : Orphaned(i) => Orphaned(i)']_vars

\* Every package registered gets to the review queue, unless the process dies.
RegistrationReachesQueue ==
  \A i \in Ids : (i \in cfis) ~> (tickets[i] # "none" \/ crashes > 0)

\* What docs/governance.md:7 says of the chain: it is append-only.
ChainAppendOnly ==
  [][\A i \in Ids :
       LET old == lifecycle[i].supersession_chain
           new == lifecycle'[i].supersession_chain
       IN Len(old) =< Len(new) /\ old = SubSeq(new, 1, Len(old))]_vars

\* What the columns of lifecycle_history say: a row is a move of the graph.
HistoryRowsAreMoves ==
  \A n \in 1 .. Len(historyRows) :
    historyRows[n].to_state \in VALID_TRANSITIONS[historyRows[n].from_state]
=============================================================================
