------------------------ MODULE RegistryHistoryProofs ------------------------
(***************************************************************************)
(* Proofs about what the artifact rows and the logs say of the past, and   *)
(* about the abstract lifecycles the store implements, for any number of   *)
(* threads, invariants, requests and crashes.                              *)
(***************************************************************************)
EXTENDS RegistryVersions, RegistryStoreProofs, FiniteSetTheorems

(* A move of the lifecycle manager extends the walk of the record.         *)

\* The numbers up to a natural number are finite, and as many as it says.
LEMMA UpTo ==
  ASSUME NEW k \in Nat
  PROVE  IsFiniteSet(1 .. k) /\ Cardinality(1 .. k) = k
<1>1. 1 \in Int /\ k \in Int
  OBVIOUS
<1>2. IsFiniteSet(1 .. k) /\ Cardinality(1 .. k) = IF 1 > k THEN 0 ELSE k - 1 + 1
  BY <1>1, FS_Interval
<1> QED BY <1>2

LEMMA NewRecordIsWalk == IsWalk(NewRecord)
BY DEF IsWalk, StateBefore, NewRecord

LEMMA WalkIsOfHistory ==
  ASSUME NEW r, NEW q, r.history = q.history, r.state = q.state, IsWalk(q)
  PROVE  IsWalk(r)
BY DEF IsWalk, StateBefore

LEMMA TransitionIsWalk ==
  ASSUME NEW r \in ArtifactRecord, IsWalk(r),
         NEW s \in LifecycleState, Allowed(r, s)
  PROVE  IsWalk(Transition(r, s))
<1> DEFINE t == Transition(r, s)
           e == [from_state |-> r.state, to_state |-> s]
           n == Len(r.history)
<1>1. t.history = Append(r.history, e) /\ t.state = s
  BY TransitionType
<1>2. /\ n \in Nat /\ Len(t.history) = n + 1
      /\ \A k \in 1 .. n : t.history[k] = r.history[k]
      /\ t.history[n + 1] = e
  BY <1>1, AppendProperties DEF ArtifactRecord, LifecycleEvent
<1>3. r.state = StateBefore(r, n + 1)
  BY DEF IsWalk
<1> HIDE DEF t
<1>4. \A k \in 1 .. n + 1 : StateBefore(t, k) = StateBefore(r, k)
  BY <1>2 DEF StateBefore
<1>5. ASSUME NEW k \in 1 .. n + 1
      PROVE  /\ t.history[k].from_state = StateBefore(t, k)
             /\ t.history[k].to_state \in VALID_TRANSITIONS[t.history[k].from_state]
  <2>1. CASE k \in 1 .. n
    BY <1>2, <1>4, <2>1 DEF IsWalk
  <2>2. CASE k = n + 1
    <3>1. t.history[k].from_state = r.state /\ t.history[k].to_state = s
      BY <1>2, <2>2
    <3> QED BY <1>3, <1>4, <2>2, <3>1 DEF Allowed
  <2> QED BY <1>2, <2>1, <2>2
<1>6. t.state = StateBefore(t, n + 2)
  <2>1. t.history[n + 1].to_state = s
    BY <1>2
  <2> QED BY <1>1, <1>2, <2>1 DEF StateBefore
<1> QED BY <1>2, <1>5, <1>6 DEF IsWalk, t

LEMMA SupersedeIsWalk ==
  ASSUME NEW r \in ArtifactRecord, IsWalk(r), Allowed(r, "superseded"), NEW i \in Ids
  PROVE  IsWalk(Supersede(r, i))
<1>1. "superseded" \in LifecycleState
  BY DEF LifecycleState
<1>2. IsWalk(Transition(r, "superseded"))
  BY <1>1, TransitionIsWalk
<1> DEFINE t == Transition(r, "superseded")
           u == Supersede(r, i)
<1>3. t.state = u.state /\ t.history = u.history
  BY <1>1, TransitionType, SupersedeType
<1> HIDE DEF t, u
<1>4. IsWalk(u)
  BY <1>2, <1>3, WalkIsOfHistory DEF t
<1> QED BY <1>4 DEF u

-----------------------------------------------------------------------------
(* The rows and the copies about to be written are walks.                  *)

WalkInv ==
  /\ StoredHistoryIsWalk
  /\ \A w \in Workers : pc[w] = "save" => IsWalk(job[w].copy)

\* Only SaveArtifact and RegisterArtifact write a row, only the reads before a
\* move make a copy.
LEMMA WalkKept ==
  ASSUME WalkInv, UNCHANGED lifecycle, NEW w \in Workers,
         \A v \in Workers \ {w} : pc'[v] = pc[v] /\ job'[v] = job[v],
         pc'[w] = "save" => IsWalk(job'[w].copy)
  PROVE  WalkInv'
BY DEF WalkInv, StoredHistoryIsWalk

LEMMA WalkBegin ==
  ASSUME TypeOK, WalkInv, NEW w \in Workers, Begin(w)
  PROVE  WalkInv'
<1>1. PICK i \in Ids :
         \/ RegisterCfi(w, i)
         \/ \E to_state \in LifecycleState : BeginTransition(w, i, to_state)
         \/ \E status \in Decisions : BeginDecision(w, i, status)
         \/ \E successor \in Ids : BeginSupersede(w, i, successor)
         \/ \E e \in Epochs : InsertManifest(w, e, i)
  BY DEF Begin
<1>2. CASE RegisterCfi(w, i)
  BY <1>2, RegisterStarts, WalkKept DEF RegisterCfi
<1>3. ASSUME NEW to \in LifecycleState, BeginTransition(w, i, to) PROVE WalkInv'
  <2>1. /\ lifecycle[i] \in ArtifactRecord /\ IsWalk(lifecycle[i])
        /\ Allowed(lifecycle[i], to) /\ UNCHANGED lifecycle
    BY <1>3 DEF BeginTransition, TypeOK, WalkInv, StoredHistoryIsWalk, tables
  <2>2. IsWalk(Transition(lifecycle[i], to))
    BY <2>1, TransitionIsWalk
  <2> QED BY <1>3, <2>1, <2>2, TransitionStarts, WalkKept
<1>4. ASSUME NEW s \in Decisions, BeginDecision(w, i, s) PROVE WalkInv'
  BY <1>4, DecisionStarts, WalkKept DEF BeginDecision, tables
<1>5. ASSUME NEW n \in Ids, BeginSupersede(w, i, n) PROVE WalkInv'
  BY <1>5, SupersedeStarts, WalkKept DEF BeginSupersede, tables
<1>6. ASSUME NEW e \in Epochs, InsertManifest(w, e, i) PROVE WalkInv'
  BY <1>6, PublishStarts, WalkKept DEF InsertManifest
<1> QED BY <1>1, <1>2, <1>3, <1>4, <1>5, <1>6

LEMMA WalkContinue ==
  ASSUME TypeOK, WalkInv, NEW w \in Workers, Continue(w)
  PROVE  WalkInv'
<1>1. ThreadsType /\ TablesType
  BY TypeSplit
<1>2. CASE RegisterArtifact(w)
  <2>1. /\ pc[w] # "idle" /\ pc'[w] = "register.ticket"
        /\ \A v \in Workers \ {w} : pc'[v] = pc[v] /\ job'[v] = job[v]
        /\ lifecycle' = [lifecycle EXCEPT ![job[w].id] = NewRecord]
    BY <1>2, GotoThread DEF RegisterArtifact, Label
  <2>2. \A i \in Ids : lifecycle'[i] = lifecycle[i] \/ lifecycle'[i] = NewRecord
    BY <1>1, <2>1 DEF TablesType
  <2> QED BY <2>1, <2>2, NewRecordIsWalk DEF WalkInv, StoredHistoryIsWalk
<1>3. CASE SaveArtifact(w)
  <2>1. /\ pc[w] = "save" /\ pc'[w] = "history"
        /\ \A v \in Workers \ {w} : pc'[v] = pc[v] /\ job'[v] = job[v]
        /\ lifecycle' = [lifecycle EXCEPT ![job[w].id] = job[w].copy]
    BY <1>3, GotoThread DEF SaveArtifact, Label
  <2>2. \A i \in Ids : lifecycle'[i] = lifecycle[i] \/ lifecycle'[i] = job[w].copy
    BY <1>1, <2>1 DEF TablesType
  <2> QED BY <2>1, <2>2 DEF WalkInv, StoredHistoryIsWalk
<1>4. CASE DecideTransition(w)
  <2> DEFINE record == lifecycle[job[w].id]
             to     == DecidedState(job[w].status)
  <2>1. CASE record # NoRecord /\ Allowed(record, to)
    <3>1. pc[w] # "idle" /\ job[w].id \in Ids /\ to \in LifecycleState
      BY <1>1, <1>4, AtLabel DEF DecideTransition, DecidedState, LifecycleState
    <3>2. record \in ArtifactRecord /\ IsWalk(record)
      BY <1>1, <2>1, <3>1 DEF TablesType, WalkInv, StoredHistoryIsWalk
    <3>3. IsWalk(Transition(record, to))
      BY <2>1, <3>1, <3>2, TransitionIsWalk
    <3>4. /\ job'[w].copy = Transition(record, to) /\ UNCHANGED lifecycle
          /\ \A v \in Workers \ {w} : pc'[v] = pc[v] /\ job'[v] = job[v]
      BY <1>4, <2>1, CopyThread DEF DecideTransition, tables
    <3> QED BY <3>3, <3>4, WalkKept
  <2>2. CASE ~ (record # NoRecord /\ Allowed(record, to))
    BY <1>4, <2>2, FinishThread, WalkKept DEF DecideTransition, tables
  <2> QED BY <2>1, <2>2
<1>5. CASE ReadForSupersede(w)
  <2> DEFINE record == lifecycle[job[w].id]
  <2>1. CASE record # NoRecord /\ Allowed(record, "superseded")
    <3>1. pc[w] # "idle" /\ job[w].id \in Ids /\ job[w].successor \in Ids
      BY <1>1, <1>5, AtLabel DEF ReadForSupersede
    <3>2. record \in ArtifactRecord /\ IsWalk(record)
      BY <1>1, <2>1, <3>1 DEF TablesType, WalkInv, StoredHistoryIsWalk
    <3>3. IsWalk(Supersede(record, job[w].successor))
      BY <2>1, <3>1, <3>2, SupersedeIsWalk
    <3>4. /\ job'[w].copy = Supersede(record, job[w].successor) /\ UNCHANGED lifecycle
          /\ \A v \in Workers \ {w} : pc'[v] = pc[v] /\ job'[v] = job[v]
      BY <1>5, <2>1, CopyThread DEF ReadForSupersede, tables
    <3> QED BY <3>3, <3>4, WalkKept
  <2>2. CASE ~ (record # NoRecord /\ Allowed(record, "superseded"))
    BY <1>5, <2>2, FinishThread, WalkKept DEF ReadForSupersede, tables
  <2> QED BY <2>1, <2>2
<1>6. ASSUME NEW next \in Label \ {"save"}, Goto(w, next), UNCHANGED lifecycle PROVE WalkInv'
  BY <1>6, GotoThread, WalkKept
<1>7. ASSUME Finish(w), UNCHANGED lifecycle PROVE WalkInv'
  BY <1>7, FinishThread, WalkKept
<1>8. CASE \/ EnqueueReview(w) \/ AppendLifecycleEvent(w) \/ SaveReviewTicket(w)
           \/ AppendSupersession(w)
  BY <1>6, <1>8 DEF EnqueueReview, AppendLifecycleEvent, SaveReviewTicket, AppendSupersession,
                    Label
<1>9. CASE \/ AuditRegister(w) \/ AuditDecision(w) \/ AuditSupersede(w) \/ AuditPublish(w)
           \/ AuditTransition(w)
  BY <1>6, <1>7, <1>9 DEF AuditRegister, AuditDecision, AuditSupersede, AuditPublish,
                          AuditTransition, Label
<1> QED BY <1>2, <1>3, <1>4, <1>5, <1>8, <1>9 DEF Continue

LEMMA WalkInvariant == Spec => []WalkInv
<1>1. Init => WalkInv
  BY DEF Init, WalkInv, StoredHistoryIsWalk
<1>2. TypeOK /\ WalkInv /\ [Next]_vars => WalkInv'
  <2> SUFFICES ASSUME TypeOK, WalkInv, [Next]_vars PROVE WalkInv'
    OBVIOUS
  <2>1. CASE UNCHANGED vars
    BY <2>1 DEF vars, tables, threads, WalkInv, StoredHistoryIsWalk
  <2>2. CASE Crash
    BY <2>2 DEF Crash, tables, WalkInv, StoredHistoryIsWalk
  <2>3. ASSUME NEW w \in Workers, Begin(w) PROVE WalkInv'
    BY <2>3, WalkBegin
  <2>4. ASSUME NEW w \in Workers, Continue(w) PROVE WalkInv'
    BY <2>4, WalkContinue
  <2> QED BY <2>1, <2>2, <2>3, <2>4 DEF Next
<1> QED BY <1>1, <1>2, TypeCorrect, PTL DEF Spec

\* Whatever threads overwrite a row, its history walks the lifecycle graph
\* from "reviewed" to the state it holds.
THEOREM HistoryIsAlwaysAWalk == Spec => []StoredHistoryIsWalk
<1>1. WalkInv => StoredHistoryIsWalk
  BY DEF WalkInv
<1> QED BY <1>1, WalkInvariant, PTL

-----------------------------------------------------------------------------
(* The action properties that follow from what requests may rely on.       *)

LEMMA DecidedStep ==
  ASSUME TypeOK, RequestsInStep, [Next]_vars, NEW i \in Ids, tickets[i] \in Decisions
  PROVE  tickets'[i] # "pending"
<1>1. tickets[i] # "pending" /\ tickets[i] # "none"
  BY DEF Decisions, ReviewStatus
<1>2. CASE UNCHANGED tickets
  BY <1>1, <1>2
<1>3. ASSUME NEW w \in Workers, EnqueueReview(w) PROVE tickets'[i] # "pending"
  <2>1. job[w].id # i /\ tickets' = [tickets EXCEPT ![job[w].id] = "pending"]
    BY <1>1, <1>3 DEF RequestsInStep, Registering, EnqueueReview
  <2> QED BY <1>1, <2>1 DEF TypeOK
<1>4. ASSUME NEW w \in Workers, SaveReviewTicket(w) PROVE tickets'[i] # "pending"
  <2>1. /\ job[w].status \in Decisions
        /\ tickets' = [tickets EXCEPT ![job[w].id] = job[w].status]
    BY <1>4, AtLabel, TypeSplit DEF SaveReviewTicket
  <2> QED BY <1>1, <2>1 DEF TypeOK, Decisions
<1>5. ASSUME NEW w \in Workers, Begin(w) PROVE UNCHANGED tickets
  BY <1>5 DEF Begin, RegisterCfi, BeginTransition, BeginDecision, BeginSupersede, InsertManifest,
              tables
<1>6. ASSUME NEW w \in Workers, Continue(w), ~ EnqueueReview(w), ~ SaveReviewTicket(w)
      PROVE  UNCHANGED tickets
  BY <1>6 DEF Continue, RegisterArtifact, AuditRegister, SaveArtifact, AppendLifecycleEvent,
              AuditTransition, DecideTransition, AuditDecision, ReadForSupersede,
              AppendSupersession, AuditSupersede, AuditPublish, tables
<1>7. CASE UNCHANGED vars
  BY <1>2, <1>7 DEF vars, tables
<1>8. CASE Crash
  BY <1>2, <1>8 DEF Crash, tables
<1> QED BY <1>2, <1>3, <1>4, <1>5, <1>6, <1>7, <1>8 DEF Next

\* A ticket that was decided never returns to the review queue.
THEOREM DecidedTicketsStayDecided == Spec => DecidedStaysDecided
<1>1. TypeOK /\ RequestsInStep /\ [Next]_vars =>
        [\A i \in Ids : tickets[i] \in Decisions => tickets'[i] # "pending"]_vars
  BY DecidedStep
<1> QED BY <1>1, TypeCorrect, RequestsStayInStep, PTL DEF Spec, DecidedStaysDecided

LEMMA OrphanStep ==
  ASSUME TypeOK, RegistrationInv, [Next]_vars, NEW i \in Ids, Orphaned(i)
  PROVE  Orphaned(i)'
<1>1. /\ i \in cfis /\ lifecycle[i] = NoRecord /\ tickets[i] = "none"
      /\ \A w \in Workers : pc[w] \in {"register.record", "save"} => job[w].id # i
  BY DEF Orphaned, RegistrationInv, RegistrationOrder, RequestsInStep
<1>2. CASE UNCHANGED vars
  BY <1>2 DEF Orphaned, vars, tables, threads
<1>3. CASE Crash
  BY <1>1, <1>3 DEF Crash, tables, Orphaned
<1>4. ASSUME NEW w \in Workers, Begin(w) PROVE Orphaned(i)'
  <2>1. i \in cfis' /\ UNCHANGED lifecycle
    BY <1>1, <1>4 DEF Begin, RegisterCfi, BeginTransition, BeginDecision, BeginSupersede,
                      InsertManifest, tables
  <2>2. \A v \in Workers \ {w} : pc'[v] = pc[v] /\ job'[v] = job[v]
    BY <1>4, RegisterStarts, TransitionStarts, DecisionStarts, SupersedeStarts, PublishStarts
       DEF Begin
  <2>3. pc'[w] = "register.record" => job'[w].id # i
    BY <1>1, <1>4, RegisterStarts, TransitionStarts, DecisionStarts, SupersedeStarts, PublishStarts
       DEF Begin, RegisterCfi
  <2> QED BY <1>1, <2>1, <2>2, <2>3 DEF Orphaned
<1>5. ASSUME NEW w \in Workers, Continue(w) PROVE Orphaned(i)'
  <2>1. UNCHANGED cfis /\ pc[w] # "idle"
    BY <1>5 DEF Continue, RegisterArtifact, EnqueueReview, AuditRegister, SaveArtifact,
                AppendLifecycleEvent, AuditTransition, SaveReviewTicket, DecideTransition,
                AuditDecision, ReadForSupersede, AppendSupersession, AuditSupersede,
                AuditPublish, tables
  <2>2. lifecycle'[i] = NoRecord
    <3>1. CASE RegisterArtifact(w)
      BY <1>1, <3>1 DEF RegisterArtifact, TypeOK
    <3>2. CASE SaveArtifact(w)
      BY <1>1, <3>2 DEF SaveArtifact, TypeOK
    <3>3. CASE ~ RegisterArtifact(w) /\ ~ SaveArtifact(w)
      BY <1>1, <1>5, <3>3
         DEF Continue, EnqueueReview, AuditRegister, AppendLifecycleEvent, AuditTransition,
             SaveReviewTicket, DecideTransition, AuditDecision, ReadForSupersede,
             AppendSupersession, AuditSupersede, AuditPublish, tables
    <3> QED BY <3>1, <3>2, <3>3
  <2>3. \A v \in Workers : pc'[v] = "register.record" => pc[v] = "register.record" /\ job'[v] = job[v]
    BY <1>5
       DEF Continue, RegisterArtifact, EnqueueReview, AuditRegister, SaveArtifact,
           AppendLifecycleEvent, AuditTransition, SaveReviewTicket, DecideTransition,
           AuditDecision, ReadForSupersede, AppendSupersession, AuditSupersede,
           AuditPublish, Goto, Finish, TypeOK
  <2> QED BY <1>1, <2>1, <2>2, <2>3 DEF Orphaned
<1> QED BY <1>2, <1>3, <1>4, <1>5 DEF Next

\* A package whose registration died before its artifact row is stuck for good.
THEOREM OrphansStayOrphaned == Spec => OrphanStaysOrphaned
<1>1. TypeOK /\ RegistrationInv /\ [Next]_vars =>
        [\A i \in Ids : Orphaned(i) => Orphaned(i)']_vars
  BY OrphanStep
<1> QED BY <1>1, TypeCorrect, RegistrationInvariant, PTL DEF Spec, OrphanStaysOrphaned

-----------------------------------------------------------------------------
(* Audited decisions.                                                      *)

\* What a decision under way has done: it supersedes nothing, the copy it
\* saves holds the state it decided, and it is audited after its row.
DecisionFits(w) ==
  LET i == job[w].id
      s == job[w].status
  IN /\ s # "none" => job[w].successor = NoId
     /\ pc[w] = "decide.transition" => s \in {"approved", "rejected"}
     /\ pc[w] \in {"save", "history", "transition.audit"} /\ s # "none" =>
          job[w].copy.state = DecidedState(s)
     /\ pc[w] = "transition.audit" /\ s # "none" => HasRow(i, DecidedState(s))
     /\ pc[w] = "decide.audit" /\ s \in {"approved", "rejected"} =>
          HasRow(i, DecidedState(s))

DecisionInv == AuditedDecisionMoved /\ \A w \in Workers : DecisionFits(w)

\* lifecycle_history only grows.
LEMMA RowsStay ==
  ASSUME TypeOK, NEW row, historyRows' = Append(historyRows, row),
         NEW i, NEW s, HasRow(i, s)
  PROVE  HasRow(i, s)'
<1>1. PICK n \in 1 .. Len(historyRows) : historyRows[n].id = i /\ historyRows[n].to_state = s
  BY DEF HasRow
<1>2. Len(historyRows) \in Nat /\ Len(historyRows') = Len(historyRows) + 1
      /\ historyRows'[n] = historyRows[n]
  BY AppendProperties DEF TypeOK
<1> QED BY <1>1, <1>2 DEF HasRow

LEMMA DecisionKept ==
  ASSUME TypeOK, DecisionInv, UNCHANGED <<historyRows, audit>>, NEW w \in Workers,
         \A v \in Workers \ {w} : pc'[v] = pc[v] /\ job'[v] = job[v],
         DecisionFits(w)'
  PROVE  DecisionInv'
<1>1. AuditedDecisionMoved'
  BY DEF DecisionInv, AuditedDecisionMoved, HasRow
<1>2. ASSUME NEW v \in Workers \ {w} PROVE DecisionFits(v)'
  BY <1>2 DEF DecisionInv, DecisionFits, HasRow
<1> QED BY <1>1, <1>2 DEF DecisionInv

LEMMA DecisionBegin ==
  ASSUME TypeOK, DecisionInv, NEW w \in Workers, Begin(w)
  PROVE  DecisionInv'
<1>1. UNCHANGED <<historyRows, audit>>
  BY DEF Begin, RegisterCfi, BeginTransition, BeginDecision, BeginSupersede, InsertManifest,
         tables
<1>2. PICK i \in Ids :
         \/ RegisterCfi(w, i)
         \/ \E to_state \in LifecycleState : BeginTransition(w, i, to_state)
         \/ \E status \in Decisions : BeginDecision(w, i, status)
         \/ \E successor \in Ids : BeginSupersede(w, i, successor)
         \/ \E e \in Epochs : InsertManifest(w, e, i)
  BY DEF Begin
<1>3. CASE RegisterCfi(w, i)
  BY <1>1, <1>3, RegisterStarts, DecisionKept DEF DecisionFits
<1>4. ASSUME NEW to \in LifecycleState, BeginTransition(w, i, to) PROVE DecisionInv'
  BY <1>1, <1>4, TransitionStarts, DecisionKept DEF DecisionFits
<1>5. ASSUME NEW s \in Decisions, BeginDecision(w, i, s) PROVE DecisionInv'
  BY <1>1, <1>5, DecisionStarts, DecisionKept DEF DecisionFits
<1>6. ASSUME NEW n \in Ids, BeginSupersede(w, i, n) PROVE DecisionInv'
  BY <1>1, <1>6, SupersedeStarts, DecisionKept DEF DecisionFits
<1>7. ASSUME NEW e \in Epochs, InsertManifest(w, e, i) PROVE DecisionInv'
  BY <1>1, <1>7, PublishStarts, DecisionKept DEF DecisionFits
<1> QED BY <1>2, <1>3, <1>4, <1>5, <1>6, <1>7

\* An audit event of something else, or of a decision whose row is there.
LEMMA DecisionLogged ==
  ASSUME TypeOK, DecisionInv, NEW w \in Workers, NEW a, NEW d, Log(a, job[w].id, d),
         a = "review.decision" /\ d \in {"approved", "rejected"} =>
           HasRow(job[w].id, DecidedState(d)),
         UNCHANGED historyRows,
         \A v \in Workers \ {w} : pc'[v] = pc[v] /\ job'[v] = job[v],
         DecisionFits(w)'
  PROVE  DecisionInv'
<1>1. /\ Len(audit') = Len(audit) + 1 /\ Len(audit) \in Nat
      /\ \A k \in 1 .. Len(audit) : audit'[k] = audit[k]
      /\ audit'[Len(audit) + 1] = AuditEvent(a, job[w].id, d)
  BY AppendProperties DEF TypeOK, Log, AuditEvent
<1>2. AuditedDecisionMoved'
  BY <1>1 DEF DecisionInv, AuditedDecisionMoved, HasRow, AuditEvent
<1>3. ASSUME NEW v \in Workers \ {w} PROVE DecisionFits(v)'
  BY <1>3 DEF DecisionInv, DecisionFits, HasRow
<1> QED BY <1>2, <1>3 DEF DecisionInv

LEMMA DecisionContinue ==
  ASSUME TypeOK, DecisionInv, NEW w \in Workers, Continue(w)
  PROVE  DecisionInv'
<1>1. ThreadsType /\ TablesType /\ DecisionFits(w)
  BY TypeSplit DEF DecisionInv
<1>2. NoJob.status = "none"
  BY DEF NoJob
<1>3. CASE RegisterArtifact(w) \/ EnqueueReview(w)
  <2>1. /\ pc'[w] \in {"register.ticket", "register.audit"} /\ job'[w] = job[w]
        /\ \A v \in Workers \ {w} : pc'[v] = pc[v] /\ job'[v] = job[v]
    BY <1>3, GotoThread DEF RegisterArtifact, EnqueueReview, Label
  <2> QED BY <1>1, <1>3, <2>1, DecisionKept DEF RegisterArtifact, EnqueueReview, DecisionFits
<1>4. CASE SaveArtifact(w)
  <2>1. /\ pc[w] = "save" /\ pc'[w] = "history" /\ job'[w] = job[w]
        /\ \A v \in Workers \ {w} : pc'[v] = pc[v] /\ job'[v] = job[v]
    BY <1>4, GotoThread DEF SaveArtifact, Label
  <2> QED BY <1>1, <1>4, <2>1, DecisionKept DEF SaveArtifact, DecisionFits
<1>5. CASE AppendLifecycleEvent(w)
  <2> DEFINE moved == job[w].copy.state
             row   == [id |-> job[w].id, from_state |-> moved, to_state |-> moved]
  <2>1. /\ pc[w] = "history" /\ job'[w] = job[w] /\ UNCHANGED audit
        /\ pc'[w] = IF job[w].successor # NoId THEN "chain" ELSE "transition.audit"
        /\ \A v \in Workers \ {w} : pc'[v] = pc[v] /\ job'[v] = job[v]
        /\ historyRows' = Append(historyRows, row)
    BY <1>5, GotoThread DEF AppendLifecycleEvent, Label
  <2>2. HasRow(job[w].id, moved)'
    <3>1. Len(historyRows') = Len(historyRows) + 1 /\ Len(historyRows) \in Nat
          /\ historyRows'[Len(historyRows) + 1] = row
      BY <1>1, <2>1, AppendProperties DEF TablesType
    <3>2. job'[w].id = job[w].id /\ job'[w].copy.state = moved
      BY <2>1
    <3> HIDE DEF moved
    <3> QED BY <3>1, <3>2 DEF HasRow, moved
  <2>3. \A j, s : HasRow(j, s) => HasRow(j, s)'
    BY <2>1, RowsStay
  <2>4. AuditedDecisionMoved'
    BY <2>1, <2>3 DEF DecisionInv, AuditedDecisionMoved
  <2>5. DecisionFits(w)'
    BY <1>1, <2>1, <2>2 DEF DecisionFits
  <2>6. ASSUME NEW v \in Workers \ {w} PROVE DecisionFits(v)'
    BY <2>1, <2>3, <2>6 DEF DecisionInv, DecisionFits
  <2> QED BY <2>4, <2>5, <2>6 DEF DecisionInv
<1>6. CASE SaveReviewTicket(w)
  <2>1. /\ pc[w] = "decide.save" /\ job'[w] = job[w]
        /\ pc'[w] = IF job[w].status = "needs_generalization" THEN "decide.audit"
                    ELSE "decide.transition"
        /\ \A v \in Workers \ {w} : pc'[v] = pc[v] /\ job'[v] = job[v]
    BY <1>6, GotoThread DEF SaveReviewTicket, Label
  <2>2. job[w].status \in {"approved", "rejected", "needs_generalization"}
    BY <1>1, <2>1, AtLabel DEF Decisions, ReviewStatus
  <2> QED BY <1>1, <1>6, <2>1, <2>2, DecisionKept DEF SaveReviewTicket, DecisionFits
<1>7. CASE DecideTransition(w)
  <2> DEFINE record == lifecycle[job[w].id]
             to     == DecidedState(job[w].status)
  <2>1. CASE record # NoRecord /\ Allowed(record, to)
    <3>1. pc[w] # "idle" /\ job[w].id \in Ids /\ to \in LifecycleState
      BY <1>1, <1>7, AtLabel DEF DecideTransition, DecidedState, LifecycleState
    <3>2. record \in ArtifactRecord
      BY <1>1, <2>1, <3>1 DEF TablesType
    <3>3. Transition(record, to).state = to
      BY <3>1, <3>2, TransitionType
    <3>4. /\ pc'[w] = "save" /\ job'[w].copy = Transition(record, to)
          /\ job'[w].id = job[w].id /\ job'[w].status = job[w].status
          /\ job'[w].successor = job[w].successor
          /\ \A v \in Workers \ {w} : pc'[v] = pc[v] /\ job'[v] = job[v]
      BY <1>7, <2>1, CopyThread DEF DecideTransition
    <3>5. DecisionFits(w)'
      BY <1>1, <3>3, <3>4 DEF DecisionFits
    <3> QED BY <1>7, <3>4, <3>5, DecisionKept DEF DecideTransition, tables
  <2>2. CASE ~ (record # NoRecord /\ Allowed(record, to))
    BY <1>2, <1>7, <2>2, FinishThread, DecisionKept DEF DecideTransition, tables, DecisionFits
  <2> QED BY <2>1, <2>2
<1>8. CASE ReadForSupersede(w)
  <2> DEFINE record == lifecycle[job[w].id]
  <2>1. CASE record # NoRecord /\ Allowed(record, "superseded")
    <3>1. pc[w] # "idle" /\ job[w].successor \in Ids
      BY <1>1, <1>8, AtLabel DEF ReadForSupersede
    <3>2. /\ pc'[w] = "save" /\ job'[w].status = job[w].status
          /\ job'[w].successor = job[w].successor
          /\ \A v \in Workers \ {w} : pc'[v] = pc[v] /\ job'[v] = job[v]
      BY <1>8, <2>1, CopyThread DEF ReadForSupersede
    <3>3. job[w].status = "none"
      BY <1>1, <3>1, NoIdAssumption DEF DecisionFits
    <3>4. DecisionFits(w)'
      BY <3>2, <3>3 DEF DecisionFits
    <3> QED BY <1>8, <3>2, <3>4, DecisionKept DEF ReadForSupersede, tables
  <2>2. CASE ~ (record # NoRecord /\ Allowed(record, "superseded"))
    BY <1>2, <1>8, <2>2, FinishThread, DecisionKept DEF ReadForSupersede, tables, DecisionFits
  <2> QED BY <2>1, <2>2
<1>9. CASE AppendSupersession(w)
  <2>1. /\ pc'[w] = "supersede.audit" /\ job'[w] = job[w]
        /\ \A v \in Workers \ {w} : pc'[v] = pc[v] /\ job'[v] = job[v]
    BY <1>9, GotoThread DEF AppendSupersession, Label
  <2> QED BY <1>1, <1>9, <2>1, DecisionKept DEF AppendSupersession, DecisionFits
<1>10. ASSUME Finish(w), UNCHANGED historyRows, NEW a, NEW d, Log(a, job[w].id, d),
              a = "review.decision" /\ d \in {"approved", "rejected"} =>
                HasRow(job[w].id, DecidedState(d))
       PROVE  DecisionInv'
  <2>1. /\ pc'[w] = "idle" /\ job'[w] = NoJob
        /\ \A v \in Workers \ {w} : pc'[v] = pc[v] /\ job'[v] = job[v]
    BY <1>10, FinishThread
  <2>2. DecisionFits(w)'
    BY <1>2, <2>1 DEF DecisionFits
  <2> QED BY <1>10, <2>1, <2>2, DecisionLogged
<1>11. CASE AuditRegister(w) \/ AuditSupersede(w) \/ AuditPublish(w)
  BY <1>10, <1>11 DEF AuditRegister, AuditSupersede, AuditPublish
<1>12. CASE AuditDecision(w)
  BY <1>1, <1>10, <1>12 DEF AuditDecision, DecisionFits
<1>13. CASE AuditTransition(w)
  <2>1. CASE job[w].status = "none"
    BY <1>10, <1>13, <2>1 DEF AuditTransition
  <2>2. CASE job[w].status # "none"
    <3>1. /\ pc[w] = "transition.audit" /\ pc'[w] = "decide.audit" /\ job'[w] = job[w]
          /\ \A v \in Workers \ {w} : pc'[v] = pc[v] /\ job'[v] = job[v]
      BY <1>13, <2>2, GotoThread DEF AuditTransition, Label
    <3>2. UNCHANGED historyRows /\ Log("lifecycle.transition", job[w].id, job[w].copy.state)
      BY <1>13 DEF AuditTransition
    <3>3. DecisionFits(w)'
      BY <1>1, <2>2, <3>1, <3>2 DEF DecisionFits, HasRow
    <3> QED BY <3>1, <3>2, <3>3, DecisionLogged
  <2> QED BY <2>1, <2>2
<1> QED BY <1>3, <1>4, <1>5, <1>6, <1>7, <1>8, <1>9, <1>11, <1>12, <1>13 DEF Continue

\* An approval or rejection is audited only with its move in lifecycle_history.
THEOREM AuditedDecisionsMoved == Spec => []AuditedDecisionMoved
<1>1. Init => DecisionInv
  BY DEF Init, DecisionInv, AuditedDecisionMoved, DecisionFits, NoJob
<1>2. TypeOK /\ DecisionInv /\ [Next]_vars => DecisionInv'
  <2> SUFFICES ASSUME TypeOK, DecisionInv, [Next]_vars PROVE DecisionInv'
    OBVIOUS
  <2>1. CASE UNCHANGED vars
    BY <2>1 DEF vars, tables, threads, DecisionInv, AuditedDecisionMoved, DecisionFits, HasRow
  <2>2. CASE Crash
    BY <2>2 DEF Crash, tables, DecisionInv, AuditedDecisionMoved, DecisionFits, HasRow, NoJob
  <2>3. ASSUME NEW w \in Workers, Begin(w) PROVE DecisionInv'
    BY <2>3, DecisionBegin
  <2>4. ASSUME NEW w \in Workers, Continue(w) PROVE DecisionInv'
    BY <2>4, DecisionContinue
  <2> QED BY <2>1, <2>2, <2>3, <2>4 DEF Next
<1>3. DecisionInv => AuditedDecisionMoved
  BY DEF DecisionInv
<1> QED BY <1>1, <1>2, <1>3, TypeCorrect, PTL DEF Spec

-----------------------------------------------------------------------------
(* Counting.                                                               *)

\* The places of a sequence that hold a member of a set.
Hits(s, Good) == {k \in 1 .. Len(s) : s[k] \in Good}

LEMMA HitsAreFinite ==
  ASSUME NEW S, NEW s \in Seq(S), NEW Good
  PROVE  IsFiniteSet(Hits(s, Good)) /\ Cardinality(Hits(s, Good)) \in Nat
<1>1. Len(s) \in Nat
  OBVIOUS
<1>2. Hits(s, Good) \subseteq 1 .. Len(s) /\ IsFiniteSet(1 .. Len(s))
  BY <1>1, UpTo DEF Hits
<1>3. IsFiniteSet(Hits(s, Good))
  BY <1>2, FS_Subset
<1> QED BY <1>3, FS_CardinalityType

LEMMA HitsAppended ==
  ASSUME NEW S, NEW s \in Seq(S), NEW e \in S, NEW Good
  PROVE  Cardinality(Hits(Append(s, e), Good))
           = Cardinality(Hits(s, Good)) + (IF e \in Good THEN 1 ELSE 0)
<1> DEFINE t == Append(s, e)
           n == Len(s) + 1
<1>1. /\ Len(s) \in Nat /\ Len(t) = n /\ t[n] = e
      /\ \A k \in 1 .. Len(s) : t[k] = s[k]
  BY AppendProperties
<1>2. 1 .. Len(t) = 1 .. Len(s) \cup {n} /\ n \notin 1 .. Len(s)
  BY <1>1
<1> HIDE DEF t, n
<1>3. IsFiniteSet(Hits(s, Good)) /\ Cardinality(Hits(s, Good)) \in Nat /\ n \notin Hits(s, Good)
  BY <1>2, HitsAreFinite DEF Hits
<1>4. CASE e \in Good
  <2>1. Hits(t, Good) = Hits(s, Good) \cup {n}
    BY <1>1, <1>2, <1>4 DEF Hits
  <2>2. Cardinality(Hits(t, Good)) = Cardinality(Hits(s, Good)) + 1
    BY <1>3, <2>1, FS_AddElement
  <2> QED BY <1>4, <2>2 DEF t
<1>5. CASE e \notin Good
  <2>1. Hits(t, Good) = Hits(s, Good)
    BY <1>1, <1>2, <1>5 DEF Hits
  <2> QED BY <1>3, <1>5, <2>1 DEF t
<1> QED BY <1>4, <1>5

-----------------------------------------------------------------------------
(* The supersession chain of a row.                                        *)

Superseding == {e \in LifecycleEvent : e.to_state = "superseded"}

\* Who is named is registered, and each name has an entry into "superseded".
Backed(r) ==
  /\ \A k \in 1 .. Len(r.supersession_chain) : r.supersession_chain[k] \in cfis
  /\ Len(r.supersession_chain) =< Cardinality(Hits(r.history, Superseding))

ChainInv ==
  /\ \A i \in Ids : lifecycle[i] # NoRecord => Backed(lifecycle[i])
  /\ \A w \in Workers :
       /\ pc[w] = "save" => Backed(job[w].copy)
       /\ pc[w] = "supersede.read" => job[w].successor \in cfis

LEMMA EmptyIsBacked ==
  ASSUME NEW r, r.supersession_chain = <<>>, r.history = <<>>
  PROVE  Backed(r)
<1>1. Hits(<<>>, Superseding) = {} /\ Len(<<>>) = 0 /\ Cardinality({}) = 0
  BY FS_EmptySet DEF Hits
<1>2. Len(r.supersession_chain) = 0 /\ Cardinality(Hits(r.history, Superseding)) = 0
  BY <1>1
<1> QED BY <1>2 DEF Backed

LEMMA NewRecordIsBacked == Backed(NewRecord)
BY EmptyIsBacked DEF NewRecord

LEMMA MovedHistory ==
  ASSUME NEW r \in ArtifactRecord, NEW s \in LifecycleState, NEW t,
         t.history = Append(r.history, [from_state |-> r.state, to_state |-> s])
  PROVE  /\ Cardinality(Hits(r.history, Superseding)) \in Nat
         /\ Cardinality(Hits(t.history, Superseding))
              = Cardinality(Hits(r.history, Superseding)) + (IF s = "superseded" THEN 1 ELSE 0)
<1> DEFINE e == [from_state |-> r.state, to_state |-> s]
<1>1. e \in LifecycleEvent /\ (e \in Superseding <=> s = "superseded")
  BY DEF LifecycleEvent, Superseding, ArtifactRecord
<1>2. r.history \in Seq(LifecycleEvent) /\ t.history = Append(r.history, e)
  BY DEF ArtifactRecord
<1> HIDE DEF e
<1> QED BY <1>1, <1>2, HitsAppended, HitsAreFinite

LEMMA TransitionIsBacked ==
  ASSUME NEW r \in ArtifactRecord, Backed(r), NEW s \in LifecycleState
  PROVE  Backed(Transition(r, s))
<1> DEFINE t == Transition(r, s)
<1>1. /\ t.supersession_chain = r.supersession_chain
      /\ t.history = Append(r.history, [from_state |-> r.state, to_state |-> s])
  BY TransitionType
<1>2. Len(r.supersession_chain) \in Nat
  BY DEF ArtifactRecord
<1> HIDE DEF t
<1>3. Cardinality(Hits(r.history, Superseding)) \in Nat
      /\ Cardinality(Hits(t.history, Superseding))
           = Cardinality(Hits(r.history, Superseding)) + (IF s = "superseded" THEN 1 ELSE 0)
  BY <1>1, MovedHistory
<1>4. Backed(t)
  BY <1>1, <1>2, <1>3 DEF Backed
<1> QED BY <1>4 DEF t

LEMMA SupersedeIsBacked ==
  ASSUME NEW r \in ArtifactRecord, Backed(r), NEW i \in Ids, i \in cfis
  PROVE  Backed(Supersede(r, i))
<1> DEFINE u == Supersede(r, i)
           c == [r EXCEPT !.supersession_chain = Append(@, i)]
<1>1. c \in ArtifactRecord /\ c.supersession_chain = Append(r.supersession_chain, i)
  <2>1. r.supersession_chain \in Seq(Ids)
    BY DEF ArtifactRecord
  <2>2. Append(r.supersession_chain, i) \in Seq(Ids)
    BY <2>1
  <2> QED BY <2>2 DEF ArtifactRecord
<1>2. "superseded" \in LifecycleState
  BY DEF LifecycleState
<1>3. u = Transition(c, "superseded")
  BY DEF Supersede
<1> HIDE DEF c
<1>4. /\ u.supersession_chain = Append(r.supersession_chain, i)
      /\ u.history = Append(r.history, [from_state |-> r.state, to_state |-> "superseded"])
  <2>1. Transition(c, "superseded").supersession_chain = c.supersession_chain
    BY <1>1, <1>2, TransitionType
  <2>2. u.history = Append(r.history, [from_state |-> r.state, to_state |-> "superseded"])
    BY SupersedeType
  <2> QED BY <1>1, <1>3, <2>1, <2>2
<1> HIDE DEF u
<1>5. /\ Len(r.supersession_chain) \in Nat
      /\ Len(u.supersession_chain) = Len(r.supersession_chain) + 1
      /\ \A k \in 1 .. Len(r.supersession_chain) :
           u.supersession_chain[k] = r.supersession_chain[k]
      /\ u.supersession_chain[Len(r.supersession_chain) + 1] = i
  BY <1>4 DEF ArtifactRecord
<1>6. Cardinality(Hits(r.history, Superseding)) \in Nat
      /\ Cardinality(Hits(u.history, Superseding))
           = Cardinality(Hits(r.history, Superseding)) + 1
  BY <1>2, <1>4, MovedHistory
<1>7. Backed(u)
  <2> DEFINE n == Len(r.supersession_chain)
             before == Cardinality(Hits(r.history, Superseding))
  <2>1. n =< before /\ \A k \in 1 .. n : r.supersession_chain[k] \in cfis
    BY DEF Backed
  <2>2. n \in Nat /\ before \in Nat
    BY <1>5, <1>6
  <2> HIDE DEF n, before
  <2>3. n + 1 =< before + 1 /\ 1 .. n + 1 = (1 .. n) \cup {n + 1}
    BY <2>1, <2>2
  <2>4. \A k \in 1 .. n + 1 : u.supersession_chain[k] \in cfis
    BY <1>5, <2>1, <2>3 DEF n
  <2>5. Len(u.supersession_chain) =< Cardinality(Hits(u.history, Superseding))
    BY <1>5, <1>6, <2>3 DEF n, before
  <2> QED BY <1>5, <2>4, <2>5 DEF Backed, n
<1> QED BY <1>7 DEF u

LEMMA ChainKept ==
  ASSUME ChainInv, UNCHANGED lifecycle, cfis \subseteq cfis', NEW w \in Workers,
         \A v \in Workers \ {w} : pc'[v] = pc[v] /\ job'[v] = job[v],
         pc'[w] = "save" => Backed(job'[w].copy),
         pc'[w] = "supersede.read" => job'[w].successor \in cfis'
  PROVE  ChainInv'
<1>1. \A r : Backed(r) => /\ \A k \in 1 .. Len(r.supersession_chain) :
                                r.supersession_chain[k] \in cfis'
                          /\ Len(r.supersession_chain)
                               =< Cardinality(Hits(r.history, Superseding))
  BY DEF Backed
<1>2. \A i \in Ids : lifecycle'[i] # NoRecord => Backed(lifecycle[i])
  BY DEF ChainInv
<1>3. ASSUME NEW v \in Workers
      PROVE  /\ pc'[v] = "save" => Backed(job'[v].copy)
             /\ pc'[v] = "supersede.read" => job'[v].successor \in cfis'
  BY DEF ChainInv
<1> QED BY <1>1, <1>2, <1>3 DEF ChainInv, Backed

LEMMA ChainBegin ==
  ASSUME TypeOK, ChainInv, NEW w \in Workers, Begin(w)
  PROVE  ChainInv'
<1>1. PICK i \in Ids :
         \/ RegisterCfi(w, i)
         \/ \E to_state \in LifecycleState : BeginTransition(w, i, to_state)
         \/ \E status \in Decisions : BeginDecision(w, i, status)
         \/ \E successor \in Ids : BeginSupersede(w, i, successor)
         \/ \E e \in Epochs : InsertManifest(w, e, i)
  BY DEF Begin
<1>2. CASE RegisterCfi(w, i)
  BY <1>2, RegisterStarts, ChainKept DEF RegisterCfi
<1>3. ASSUME NEW to \in LifecycleState, BeginTransition(w, i, to) PROVE ChainInv'
  <2>1. /\ lifecycle[i] \in ArtifactRecord /\ Backed(lifecycle[i])
        /\ UNCHANGED <<lifecycle, cfis>>
    BY <1>3 DEF BeginTransition, TypeOK, ChainInv, tables
  <2>2. Backed(Transition(lifecycle[i], to))
    BY <2>1, TransitionIsBacked
  <2> QED BY <1>3, <2>1, <2>2, TransitionStarts, ChainKept
<1>4. ASSUME NEW s \in Decisions, BeginDecision(w, i, s) PROVE ChainInv'
  BY <1>4, DecisionStarts, ChainKept DEF BeginDecision, tables
<1>5. ASSUME NEW n \in Ids, BeginSupersede(w, i, n) PROVE ChainInv'
  <2>1. n \in cfis /\ UNCHANGED <<lifecycle, cfis>>
    BY <1>5 DEF BeginSupersede, tables
  <2>2. /\ pc'[w] = "supersede.read" /\ job'[w].successor = n
        /\ \A v \in Workers \ {w} : pc'[v] = pc[v] /\ job'[v] = job[v]
    BY <1>5, SupersedeStarts
  <2>3. pc'[w] # "save" /\ job'[w].successor \in cfis
    BY <2>1, <2>2
  <2> QED BY <2>1, <2>2, <2>3, ChainKept
<1>6. ASSUME NEW e \in Epochs, InsertManifest(w, e, i) PROVE ChainInv'
  BY <1>6, PublishStarts, ChainKept DEF InsertManifest
<1> QED BY <1>1, <1>2, <1>3, <1>4, <1>5, <1>6

\* A row overwritten by a record that is backed.
LEMMA ChainWritten ==
  ASSUME TypeOK, ChainInv, UNCHANGED cfis, NEW w \in Workers, NEW i \in Ids, NEW r, Backed(r),
         lifecycle' = [lifecycle EXCEPT ![i] = r],
         \A v \in Workers \ {w} : pc'[v] = pc[v] /\ job'[v] = job[v],
         pc'[w] \notin {"save", "supersede.read"}
  PROVE  ChainInv'
<1>1. \A j \in Ids : lifecycle'[j] = lifecycle[j] \/ lifecycle'[j] = r
  BY DEF TypeOK
<1>2. \A j \in Ids : lifecycle'[j] # NoRecord => Backed(lifecycle'[j])
  BY <1>1 DEF ChainInv
<1>3. ASSUME NEW v \in Workers
      PROVE  /\ pc'[v] = "save" => Backed(job'[v].copy)
             /\ pc'[v] = "supersede.read" => job'[v].successor \in cfis
  BY DEF ChainInv
<1>4. \A q : Backed(q) => /\ \A k \in 1 .. Len(q.supersession_chain) :
                                q.supersession_chain[k] \in cfis'
                          /\ Len(q.supersession_chain)
                               =< Cardinality(Hits(q.history, Superseding))
  BY DEF Backed
<1> QED BY <1>2, <1>3, <1>4 DEF ChainInv, Backed

LEMMA ChainContinue ==
  ASSUME TypeOK, ChainInv, NEW w \in Workers, Continue(w)
  PROVE  ChainInv'
<1>1. ThreadsType /\ TablesType
  BY TypeSplit
<1>2. CASE RegisterArtifact(w)
  <2>1. /\ pc[w] # "idle" /\ pc'[w] = "register.ticket"
        /\ \A v \in Workers \ {w} : pc'[v] = pc[v] /\ job'[v] = job[v]
        /\ lifecycle' = [lifecycle EXCEPT ![job[w].id] = NewRecord] /\ UNCHANGED cfis
    BY <1>2, GotoThread DEF RegisterArtifact, Label
  <2> QED BY <1>1, <2>1, AtLabel, NewRecordIsBacked, ChainWritten
<1>3. CASE SaveArtifact(w)
  <2>1. /\ pc[w] = "save" /\ pc'[w] = "history"
        /\ \A v \in Workers \ {w} : pc'[v] = pc[v] /\ job'[v] = job[v]
        /\ lifecycle' = [lifecycle EXCEPT ![job[w].id] = job[w].copy] /\ UNCHANGED cfis
    BY <1>3, GotoThread DEF SaveArtifact, Label
  <2>2. Backed(job[w].copy) /\ job[w].id \in Ids
    BY <1>1, <2>1, AtLabel DEF ChainInv
  <2> QED BY <2>1, <2>2, ChainWritten
<1>4. CASE DecideTransition(w)
  <2> DEFINE record == lifecycle[job[w].id]
             to     == DecidedState(job[w].status)
  <2>1. CASE record # NoRecord /\ Allowed(record, to)
    <3>1. pc[w] # "idle" /\ job[w].id \in Ids /\ to \in LifecycleState
      BY <1>1, <1>4, AtLabel DEF DecideTransition, DecidedState, LifecycleState
    <3>2. record \in ArtifactRecord /\ Backed(record)
      BY <1>1, <2>1, <3>1 DEF TablesType, ChainInv
    <3>3. Backed(Transition(record, to))
      BY <3>1, <3>2, TransitionIsBacked
    <3>4. /\ pc'[w] = "save" /\ job'[w].copy = Transition(record, to)
          /\ UNCHANGED <<lifecycle, cfis>>
          /\ \A v \in Workers \ {w} : pc'[v] = pc[v] /\ job'[v] = job[v]
      BY <1>4, <2>1, CopyThread DEF DecideTransition, tables
    <3> QED BY <3>3, <3>4, ChainKept
  <2>2. CASE ~ (record # NoRecord /\ Allowed(record, to))
    BY <1>4, <2>2, FinishThread, ChainKept DEF DecideTransition, tables
  <2> QED BY <2>1, <2>2
<1>5. CASE ReadForSupersede(w)
  <2> DEFINE record == lifecycle[job[w].id]
  <2>1. CASE record # NoRecord /\ Allowed(record, "superseded")
    <3>1. /\ pc[w] # "idle" /\ job[w].id \in Ids /\ job[w].successor \in Ids
          /\ job[w].successor \in cfis
      BY <1>1, <1>5, AtLabel DEF ReadForSupersede, ChainInv
    <3>2. record \in ArtifactRecord /\ Backed(record)
      BY <1>1, <2>1, <3>1 DEF TablesType, ChainInv
    <3>3. Backed(Supersede(record, job[w].successor))
      BY <3>1, <3>2, SupersedeIsBacked
    <3>4. /\ pc'[w] = "save" /\ job'[w].copy = Supersede(record, job[w].successor)
          /\ UNCHANGED <<lifecycle, cfis>>
          /\ \A v \in Workers \ {w} : pc'[v] = pc[v] /\ job'[v] = job[v]
      BY <1>5, <2>1, CopyThread DEF ReadForSupersede, tables
    <3> QED BY <3>3, <3>4, ChainKept
  <2>2. CASE ~ (record # NoRecord /\ Allowed(record, "superseded"))
    BY <1>5, <2>2, FinishThread, ChainKept DEF ReadForSupersede, tables
  <2> QED BY <2>1, <2>2
<1>6. ASSUME NEW next \in Label \ {"save", "supersede.read"}, Goto(w, next),
             UNCHANGED <<lifecycle, cfis>>
      PROVE  ChainInv'
  BY <1>6, GotoThread, ChainKept
<1>7. ASSUME Finish(w), UNCHANGED <<lifecycle, cfis>> PROVE ChainInv'
  BY <1>7, FinishThread, ChainKept
<1>8. CASE \/ EnqueueReview(w) \/ AppendLifecycleEvent(w) \/ SaveReviewTicket(w)
           \/ AppendSupersession(w)
  BY <1>6, <1>8 DEF EnqueueReview, AppendLifecycleEvent, SaveReviewTicket, AppendSupersession,
                    Label
<1>9. CASE \/ AuditRegister(w) \/ AuditDecision(w) \/ AuditSupersede(w) \/ AuditPublish(w)
           \/ AuditTransition(w)
  BY <1>6, <1>7, <1>9 DEF AuditRegister, AuditDecision, AuditSupersede, AuditPublish,
                          AuditTransition, Label
<1> QED BY <1>2, <1>3, <1>4, <1>5, <1>8, <1>9 DEF Continue

\* A row's supersession chain names registered packages, each with an entry
\* of its history into "superseded", whatever overwrites it.
THEOREM ChainsAreAlwaysBacked == Spec => []ChainIsBacked
<1>1. Init => ChainInv
  BY DEF Init, ChainInv
<1>2. TypeOK /\ ChainInv /\ [Next]_vars => ChainInv'
  <2> SUFFICES ASSUME TypeOK, ChainInv, [Next]_vars PROVE ChainInv'
    OBVIOUS
  <2>1. CASE UNCHANGED vars
    BY <2>1 DEF vars, tables, threads, ChainInv, Backed
  <2>2. CASE Crash
    BY <2>2 DEF Crash, tables, ChainInv, Backed
  <2>3. ASSUME NEW w \in Workers, Begin(w) PROVE ChainInv'
    BY <2>3, ChainBegin
  <2>4. ASSUME NEW w \in Workers, Continue(w) PROVE ChainInv'
    BY <2>4, ChainContinue
  <2> QED BY <2>1, <2>2, <2>3, <2>4 DEF Next
<1>3. TypeOK /\ ChainInv => ChainIsBacked
  <2> SUFFICES ASSUME TypeOK, ChainInv, NEW i \in Ids
               PROVE  LET chain   == lifecycle[i].supersession_chain
                          history == lifecycle[i].history
                      IN /\ \A k \in 1 .. Len(chain) : chain[k] \in cfis
                         /\ Len(chain) =< Cardinality({k \in 1 .. Len(history) :
                                                         history[k].to_state = "superseded"})
    BY DEF ChainIsBacked
  <2> DEFINE r == lifecycle[i]
  <2>1. r \in ArtifactRecord \cup {NoRecord}
    BY DEF TypeOK
  <2>2. Backed(r)
    <3>1. CASE r # NoRecord
      BY <3>1 DEF ChainInv
    <3>2. CASE r = NoRecord
      <4>1. NoRecord.supersession_chain = <<>> /\ NoRecord.history = <<>>
        BY DEF NoRecord
      <4>2. Backed(NoRecord)
        BY <4>1, EmptyIsBacked
      <4> QED BY <3>2, <4>2
    <3> QED BY <3>1, <3>2
  <2>3. r.history \in Seq(LifecycleEvent)
    <3>1. CASE r \in ArtifactRecord
      BY <3>1 DEF ArtifactRecord
    <3>2. CASE r = NoRecord
      <4>1. NoRecord.history = <<>> /\ <<>> \in Seq(LifecycleEvent)
        BY DEF NoRecord
      <4> QED BY <3>2, <4>1
    <3> QED BY <2>1, <3>1, <3>2
  <2> HIDE DEF r
  <2>4. Hits(r.history, Superseding)
          = {k \in 1 .. Len(r.history) : r.history[k].to_state = "superseded"}
    BY <2>3 DEF Hits, Superseding
  <2> QED BY <2>2, <2>4 DEF Backed, r
<1> QED BY <1>1, <1>2, <1>3, TypeCorrect, PTL DEF Spec

-----------------------------------------------------------------------------
(* The three logs of a move, and the requests that are between two of them. *)

Waiting(labels, i) == {w \in Workers : pc[w] \in labels /\ job[w].id = i}
Busy == {w \in Workers : pc[w] # "idle"}

\* A request whose row is in lifecycle_history and whose audit event is not.
Unaudited == {"chain", "transition.audit", "supersede.audit"}

SupersededRows(i) == {n \in RowsOf(i) : historyRows[n].to_state = "superseded"}
ChainRowsOf(i)    == {n \in 1 .. Len(chainRows) : chainRows[n].id = i}

\* Every event that is in one log and not yet in the next is in the hands of
\* a request, or was lost with one.
LogCounts(i) ==
  LET rows    == Cardinality(RowsOf(i))
      audited == Cardinality(EventsOf(i, Moves)) + Cardinality(Waiting(Unaudited, i))
  IN /\ audited =< rows
     /\ crashes = 0 => audited = rows
     /\ crashes = 0 => Len(lifecycle[i].history) =< rows + Cardinality(Waiting({"history"}, i))
     /\ Cardinality(EventsOf(i, {"cfi.superseded"})) + Cardinality(Waiting({"supersede.audit"}, i))
          =< Cardinality(ChainRowsOf(i))
     /\ Cardinality(ChainRowsOf(i)) + Cardinality(Waiting({"chain"}, i))
          =< Cardinality(SupersededRows(i))

\* What a request that is about to write the row or its event knows.
MoveFits(w) ==
  LET i == job[w].id
  IN /\ pc[w] \in {"decide.save", "decide.transition"} => job[w].successor = NoId
     /\ pc[w] \in {"save", "history"} /\ job[w].successor # NoId =>
          job[w].copy.state = "superseded"
     /\ pc[w] = "save" /\ crashes = 0 =>
          Len(job[w].copy.history)
            =< Cardinality(RowsOf(i)) + Cardinality(Waiting({"history"}, i)) + 1

\* A registration that has not reached the queue is still on its way.
QueueFits(i) ==
  crashes = 0 /\ i \in cfis =>
    tickets[i] # "none" \/ \E w \in Workers : Registering(w) /\ job[w].id = i

LogInv ==
  /\ IsFiniteSet(Busy)
  /\ \A i \in Ids : LogCounts(i)
  /\ \A w \in Workers : MoveFits(w)

QueueInv == \A i \in Ids : QueueFits(i)

\* One member of a finite set joins, leaves or stays.
LEMMA OneMoves ==
  ASSUME NEW X, IsFiniteSet(X), NEW Y, NEW w, X \ {w} = Y \ {w}
  PROVE  /\ IsFiniteSet(Y) /\ Cardinality(X) \in Nat /\ Cardinality(Y) \in Nat
         /\ Cardinality(Y) = Cardinality(X) - (IF w \in X THEN 1 ELSE 0)
                                            + (IF w \in Y THEN 1 ELSE 0)
<1> DEFINE Rest == X \ {w}
<1>1. IsFiniteSet(Rest) /\ Cardinality(Rest) \in Nat /\ Cardinality(X) \in Nat
  BY FS_RemoveElement, FS_CardinalityType
<1>2. Cardinality(Rest) = Cardinality(X) - (IF w \in X THEN 1 ELSE 0)
  BY <1>1, FS_RemoveElement
<1>3. /\ IsFiniteSet(Rest \cup {w}) /\ Cardinality(Rest \cup {w}) = Cardinality(Rest) + 1
  <2>1. w \notin Rest
    OBVIOUS
  <2> QED BY <1>1, <2>1, FS_AddElement
<1>4. Y = IF w \in Y THEN Rest \cup {w} ELSE Rest
  OBVIOUS
<1> HIDE DEF Rest
<1>5. CASE w \in Y
  <2>1. Y = Rest \cup {w}
    BY <1>4, <1>5
  <2> QED BY <1>1, <1>2, <1>3, <1>5, <2>1
<1>6. CASE w \notin Y
  <2>1. Y = Rest
    BY <1>4, <1>6
  <2> QED BY <1>1, <1>2, <1>6, <2>1
<1> QED BY <1>5, <1>6

\* Whether a request is one of those waiting.
In(w, labels, i) == IF pc[w] \in labels /\ job[w].id = i THEN 1 ELSE 0

\* By how much a step of request w changes the number of those waiting.
Went(w, labels, i) ==
  (IF pc'[w] \in labels /\ job'[w].id = i THEN 1 ELSE 0) - In(w, labels, i)

LEMMA WaitingMoves ==
  ASSUME IsFiniteSet(Busy), NEW w \in Workers,
         \A v \in Workers \ {w} : pc'[v] = pc[v] /\ job'[v] = job[v],
         NEW labels, "idle" \notin labels, NEW i
  PROVE  /\ Cardinality(Waiting(labels, i)) \in Nat
         /\ Cardinality(Waiting(labels, i)') \in Nat
         /\ Cardinality(Waiting(labels, i)')
              = Cardinality(Waiting(labels, i)) + Went(w, labels, i)
         /\ Went(w, labels, i) \in Int
<1> DEFINE X == Waiting(labels, i)
           Y == Waiting(labels, i)'
<1>1. X \subseteq Busy
  BY DEF Waiting, Busy
<1>2. IsFiniteSet(X)
  BY <1>1, FS_Subset
<1>3. X \ {w} = Y \ {w}
  BY DEF Waiting
<1>4. /\ (w \in X <=> pc[w] \in labels /\ job[w].id = i)
      /\ (w \in Y <=> pc'[w] \in labels /\ job'[w].id = i)
  BY DEF Waiting
<1> HIDE DEF X, Y
<1>5. /\ Cardinality(X) \in Nat /\ Cardinality(Y) \in Nat
      /\ Cardinality(Y) = Cardinality(X) - (IF w \in X THEN 1 ELSE 0)
                                         + (IF w \in Y THEN 1 ELSE 0)
  BY <1>2, <1>3, OneMoves
<1> QED BY <1>4, <1>5 DEF X, Y, In, Went

LEMMA BusyStaysFinite ==
  ASSUME IsFiniteSet(Busy), NEW w \in Workers,
         \A v \in Workers \ {w} : pc'[v] = pc[v] /\ job'[v] = job[v]
  PROVE  IsFiniteSet(Busy)'
<1>1. Busy \ {w} = Busy' \ {w}
  BY DEF Busy
<1> QED BY <1>1, OneMoves

-----------------------------------------------------------------------------
(* What an append does to the counts of a log. *)

AuditRow   == [action : Actions, id : Ids, detail : LifecycleState \cup Decisions \cup {"none"}]
HistoryRow == [id : Ids, from_state : LifecycleState, to_state : LifecycleState]
ChainRow   == [id : Ids, successor : Ids]

EventRows(i, acts) == {e \in AuditRow : e.id = i /\ e.action \in acts}
MoveRows(i)        == {r \in HistoryRow : r.id = i}
LastRows(i)        == {r \in HistoryRow : r.id = i /\ r.to_state = "superseded"}
LinkRows(i)        == {r \in ChainRow : r.id = i}

LEMMA CountsAreHits ==
  ASSUME TypeOK, NEW i
  PROVE  /\ \A acts : EventsOf(i, acts) = Hits(audit, EventRows(i, acts))
         /\ RowsOf(i) = Hits(historyRows, MoveRows(i))
         /\ SupersededRows(i) = Hits(historyRows, LastRows(i))
         /\ ChainRowsOf(i) = Hits(chainRows, LinkRows(i))
<1>1. audit \in Seq(AuditRow) /\ historyRows \in Seq(HistoryRow) /\ chainRows \in Seq(ChainRow)
  BY DEF TypeOK, AuditRow, HistoryRow, ChainRow
<1>2. /\ \A k \in 1 .. Len(audit) : audit[k] \in AuditRow
      /\ \A k \in 1 .. Len(historyRows) : historyRows[k] \in HistoryRow
      /\ \A k \in 1 .. Len(chainRows) : chainRows[k] \in ChainRow
  BY <1>1
<1> QED BY <1>2 DEF EventsOf, RowsOf, SupersededRows, ChainRowsOf, Hits,
                    EventRows, MoveRows, LastRows, LinkRows

\* The counts, before a step and after it.
CountsType(i) ==
  /\ \A acts : Cardinality(EventsOf(i, acts)) \in Nat
  /\ Cardinality(RowsOf(i)) \in Nat
  /\ Cardinality(SupersededRows(i)) \in Nat
  /\ Cardinality(ChainRowsOf(i)) \in Nat

LEMMA PlacesAreCounted ==
  ASSUME NEW n \in Nat, NEW X \in SUBSET (1 .. n) PROVE Cardinality(X) \in Nat
<1>1. IsFiniteSet(1 .. n)
  BY UpTo
<1>2. IsFiniteSet(X)
  BY <1>1, FS_Subset
<1> QED BY <1>2, FS_CardinalityType

LEMMA CountsAreNat ==
  ASSUME TypeOK, NEW i PROVE CountsType(i)
<1>1. Len(audit) \in Nat /\ Len(historyRows) \in Nat /\ Len(chainRows) \in Nat
  BY DEF TypeOK
<1> QED BY <1>1, PlacesAreCounted
        DEF CountsType, EventsOf, RowsOf, SupersededRows, ChainRowsOf

LEMMA CountsStayNat ==
  ASSUME TypeOK', NEW i PROVE CountsType(i)'
<1>1. Len(audit') \in Nat /\ Len(historyRows') \in Nat /\ Len(chainRows') \in Nat
  BY DEF TypeOK
<1> QED BY <1>1, PlacesAreCounted
        DEF CountsType, EventsOf, RowsOf, SupersededRows, ChainRowsOf

LEMMA EventCounted ==
  ASSUME TypeOK, TypeOK', NEW a \in Actions, NEW j \in Ids,
         NEW d \in LifecycleState \cup Decisions \cup {"none"}, Log(a, j, d), NEW i, NEW acts
  PROVE  Cardinality(EventsOf(i, acts)')
           = Cardinality(EventsOf(i, acts)) + (IF j = i /\ a \in acts THEN 1 ELSE 0)
<1> DEFINE e == AuditEvent(a, j, d)
           Good == EventRows(i, acts)
<1>1. audit \in Seq(AuditRow)
  BY DEF TypeOK, AuditRow
<1>2. e \in AuditRow /\ (e \in Good <=> j = i /\ a \in acts)
  BY DEF AuditEvent, AuditRow, EventRows
<1>3. audit' = Append(audit, e)
  BY DEF Log
<1>4. \A k \in 1 .. Len(audit') : audit'[k] \in AuditRow
  <2>1. audit' \in Seq(AuditRow)
    BY DEF TypeOK, AuditRow
  <2> QED BY <2>1
<1>5. EventsOf(i, acts)' = Hits(audit', Good) /\ EventsOf(i, acts) = Hits(audit, Good)
  BY <1>4, CountsAreHits DEF EventsOf, Hits, EventRows
<1> HIDE DEF e, Good
<1> QED BY <1>1, <1>2, <1>3, <1>5, HitsAppended

LEMMA RowCounted ==
  ASSUME TypeOK, TypeOK', NEW row \in HistoryRow, historyRows' = Append(historyRows, row), NEW i
  PROVE  /\ Cardinality(RowsOf(i)') = Cardinality(RowsOf(i)) + (IF row.id = i THEN 1 ELSE 0)
         /\ Cardinality(SupersededRows(i)')
              = Cardinality(SupersededRows(i))
                  + (IF row.id = i /\ row.to_state = "superseded" THEN 1 ELSE 0)
<1> DEFINE All  == MoveRows(i)
           Last == LastRows(i)
<1>1. historyRows \in Seq(HistoryRow)
  BY DEF TypeOK, HistoryRow
<1>2. /\ (row \in All <=> row.id = i)
      /\ (row \in Last <=> row.id = i /\ row.to_state = "superseded")
  BY DEF MoveRows, LastRows
<1>3. \A k \in 1 .. Len(historyRows') : historyRows'[k] \in HistoryRow
  <2>1. historyRows' \in Seq(HistoryRow)
    BY DEF TypeOK, HistoryRow
  <2> QED BY <2>1
<1>4. /\ RowsOf(i)' = Hits(historyRows', All) /\ RowsOf(i) = Hits(historyRows, All)
      /\ SupersededRows(i)' = Hits(historyRows', Last)
      /\ SupersededRows(i) = Hits(historyRows, Last)
  BY <1>3, CountsAreHits DEF RowsOf, SupersededRows, Hits, MoveRows, LastRows
<1> HIDE DEF All, Last
<1> QED BY <1>1, <1>2, <1>4, HitsAppended

LEMMA ChainCounted ==
  ASSUME TypeOK, TypeOK', NEW row \in ChainRow, chainRows' = Append(chainRows, row), NEW i
  PROVE  Cardinality(ChainRowsOf(i)')
           = Cardinality(ChainRowsOf(i)) + (IF row.id = i THEN 1 ELSE 0)
<1> DEFINE All == LinkRows(i)
<1>1. chainRows \in Seq(ChainRow)
  BY DEF TypeOK, ChainRow
<1>2. row \in All <=> row.id = i
  BY DEF LinkRows
<1>3. \A k \in 1 .. Len(chainRows') : chainRows'[k] \in ChainRow
  <2>1. chainRows' \in Seq(ChainRow)
    BY DEF TypeOK, ChainRow
  <2> QED BY <2>1
<1>4. ChainRowsOf(i)' = Hits(chainRows', All) /\ ChainRowsOf(i) = Hits(chainRows, All)
  BY <1>3, CountsAreHits DEF ChainRowsOf, Hits, LinkRows
<1> HIDE DEF All
<1> QED BY <1>1, <1>2, <1>4, HitsAppended

-----------------------------------------------------------------------------
(* The counts stay in step. *)

\* A step of request w moves what waits and what is logged by the same number.
Balanced(w, i) ==
  /\ Cardinality(EventsOf(i, Moves)') - Cardinality(EventsOf(i, Moves)) + Went(w, Unaudited, i)
       = Cardinality(RowsOf(i)') - Cardinality(RowsOf(i))
  /\ Cardinality(EventsOf(i, {"cfi.superseded"})') - Cardinality(EventsOf(i, {"cfi.superseded"}))
       + Went(w, {"supersede.audit"}, i)
       =< Cardinality(ChainRowsOf(i)') - Cardinality(ChainRowsOf(i))
  /\ Cardinality(ChainRowsOf(i)') - Cardinality(ChainRowsOf(i)) + Went(w, {"chain"}, i)
       =< Cardinality(SupersededRows(i)') - Cardinality(SupersededRows(i))
  /\ Cardinality(RowsOf(i)') - Cardinality(RowsOf(i)) + Went(w, {"history"}, i) >= 0
  /\ \/ Len(lifecycle'[i].history) =< Len(lifecycle[i].history)
     \/ /\ pc[w] = "save" /\ job[w].id = i /\ lifecycle'[i] = job[w].copy
        /\ Cardinality(RowsOf(i)') - Cardinality(RowsOf(i)) + Went(w, {"history"}, i) >= 1

LEMMA RecordLength ==
  ASSUME NEW r \in ArtifactRecord \cup {NoRecord} PROVE Len(r.history) \in Nat
<1>1. CASE r \in ArtifactRecord
  BY <1>1 DEF ArtifactRecord
<1>2. CASE r = NoRecord
  <2>1. Len(NoRecord.history) = 0
    BY DEF NoRecord
  <2> QED BY <1>2, <2>1
<1> QED BY <1>1, <1>2

LEMMA LogStep ==
  ASSUME TypeOK, TypeOK', LogInv, UNCHANGED crashes, NEW w \in Workers,
         \A v \in Workers \ {w} : pc'[v] = pc[v] /\ job'[v] = job[v],
         \A i \in Ids : Balanced(w, i),
         pc'[w] \in {"decide.save", "decide.transition"} => job'[w].successor = NoId,
         pc'[w] \in {"save", "history"} /\ job'[w].successor # NoId =>
           job'[w].copy.state = "superseded",
         pc'[w] = "save" =>
           /\ UNCHANGED historyRows /\ pc[w] # "history"
           /\ job'[w].id \in Ids
           /\ Len(job'[w].copy.history) = Len(lifecycle[job'[w].id].history) + 1
  PROVE  LogInv'
<1>1. IsFiniteSet(Busy)'
  BY BusyStaysFinite DEF LogInv
<1>2. ASSUME NEW i \in Ids
      PROVE  /\ LogCounts(i)'
             /\ Cardinality(RowsOf(i)) + Cardinality(Waiting({"history"}, i))
                  =< Cardinality(RowsOf(i)') + Cardinality(Waiting({"history"}, i)')
  <2>1. CountsType(i) /\ CountsType(i)'
    BY CountsAreNat, CountsStayNat
  <2>2. /\ Len(lifecycle[i].history) \in Nat /\ Len(lifecycle'[i].history) \in Nat
        /\ Len(job[w].copy.history) \in Nat
    <3>1. /\ lifecycle[i] \in ArtifactRecord \cup {NoRecord}
          /\ lifecycle'[i] \in ArtifactRecord \cup {NoRecord}
          /\ job[w].copy \in ArtifactRecord \cup {NoRecord}
      BY DEF TypeOK
    <3> QED BY <3>1, RecordLength
  <2>3. ASSUME NEW labels \in {Unaudited, {"history"}, {"supersede.audit"}, {"chain"}}
        PROVE  /\ Cardinality(Waiting(labels, i)) \in Nat
               /\ Cardinality(Waiting(labels, i)') \in Nat
               /\ Cardinality(Waiting(labels, i)')
                    = Cardinality(Waiting(labels, i)) + Went(w, labels, i)
               /\ Went(w, labels, i) \in Int
    <3>1. "idle" \notin labels
      BY DEF Unaudited
    <3> QED BY <3>1, WaitingMoves DEF LogInv
  <2>4. LogCounts(i) /\ Balanced(w, i) /\ MoveFits(w)
    BY DEF LogInv
  <2> DEFINE r0 == Cardinality(RowsOf(i))
             r1 == Cardinality(RowsOf(i)')
             e0 == Cardinality(EventsOf(i, Moves))
             e1 == Cardinality(EventsOf(i, Moves)')
             s0 == Cardinality(EventsOf(i, {"cfi.superseded"}))
             s1 == Cardinality(EventsOf(i, {"cfi.superseded"})')
             c0 == Cardinality(ChainRowsOf(i))
             c1 == Cardinality(ChainRowsOf(i)')
             q0 == Cardinality(SupersededRows(i))
             q1 == Cardinality(SupersededRows(i)')
             u0 == Cardinality(Waiting(Unaudited, i))
             u1 == Cardinality(Waiting(Unaudited, i)')
             h0 == Cardinality(Waiting({"history"}, i))
             h1 == Cardinality(Waiting({"history"}, i)')
             p0 == Cardinality(Waiting({"supersede.audit"}, i))
             p1 == Cardinality(Waiting({"supersede.audit"}, i)')
             n0 == Cardinality(Waiting({"chain"}, i))
             n1 == Cardinality(Waiting({"chain"}, i)')
             l0 == Len(lifecycle[i].history)
             l1 == Len(lifecycle'[i].history)
             k0 == Len(job[w].copy.history)
             gu == Went(w, Unaudited, i)
             gh == Went(w, {"history"}, i)
             gp == Went(w, {"supersede.audit"}, i)
             gn == Went(w, {"chain"}, i)
  <2>5. /\ r0 \in Nat /\ r1 \in Nat /\ e0 \in Nat /\ e1 \in Nat /\ s0 \in Nat /\ s1 \in Nat
        /\ c0 \in Nat /\ c1 \in Nat /\ q0 \in Nat /\ q1 \in Nat /\ u0 \in Nat /\ u1 \in Nat
        /\ h0 \in Nat /\ h1 \in Nat /\ p0 \in Nat /\ p1 \in Nat /\ n0 \in Nat /\ n1 \in Nat
        /\ l0 \in Nat /\ l1 \in Nat /\ k0 \in Nat
    BY <2>1, <2>2, <2>3 DEF CountsType
  <2>6. /\ e0 + u0 =< r0 /\ (crashes = 0 => e0 + u0 = r0) /\ (crashes = 0 => l0 =< r0 + h0)
        /\ s0 + p0 =< c0 /\ c0 + n0 =< q0
    BY <2>4 DEF LogCounts
  <2>7. pc[w] = "save" /\ job[w].id = i /\ crashes = 0 => k0 =< r0 + h0 + 1
    BY <2>4 DEF MoveFits
  <2>8. /\ e1 - e0 + gu = r1 - r0 /\ s1 - s0 + gp =< c1 - c0 /\ c1 - c0 + gn =< q1 - q0
        /\ r1 - r0 + gh >= 0
        /\ \/ l1 =< l0
           \/ pc[w] = "save" /\ job[w].id = i /\ l1 = k0 /\ r1 - r0 + gh >= 1
    BY <2>4 DEF Balanced
  <2>9. gu \in Int /\ gh \in Int /\ gp \in Int /\ gn \in Int
    BY <2>3
  <2>10. u1 = u0 + gu /\ h1 = h0 + gh /\ p1 = p0 + gp /\ n1 = n0 + gn
    BY <2>3, <2>5
  <2> HIDE DEF r0, r1, e0, e1, s0, s1, c0, c1, q0, q1, u0, u1, h0, h1, p0, p1, n0, n1, l0, l1, k0,
               gu, gh, gp, gn
  <2>11. /\ e1 + u1 =< r1 /\ (crashes = 0 => e1 + u1 = r1)
         /\ s1 + p1 =< c1 /\ c1 + n1 =< q1 /\ r0 + h0 =< r1 + h1
    <3>1. e1 + u1 =< r1
      BY <2>5, <2>6, <2>8, <2>9, <2>10
    <3>2. crashes = 0 => e1 + u1 = r1
      BY <2>5, <2>6, <2>8, <2>9, <2>10
    <3>3. s1 + p1 =< c1
      BY <2>5, <2>6, <2>8, <2>9, <2>10
    <3>4. c1 + n1 =< q1
      BY <2>5, <2>6, <2>8, <2>9, <2>10
    <3>5. r0 + h0 =< r1 + h1
      BY <2>5, <2>8, <2>9, <2>10
    <3> QED BY <3>1, <3>2, <3>3, <3>4, <3>5
  <2>12. crashes = 0 => l1 =< r1 + h1
    BY <2>5, <2>6, <2>7, <2>8, <2>9, <2>10
  <2> QED
    BY <2>11, <2>12
    DEF LogCounts, r0, r1, e0, e1, s0, s1, c0, c1, q0, q1, u0, u1, h0, h1, p0, p1, n0, n1, l0, l1, k0
<1>3. ASSUME NEW v \in Workers, NEW j, j = job'[v].id PROVE MoveFits(v)'
  <2> DEFINE total  == Cardinality(RowsOf(j)) + Cardinality(Waiting({"history"}, j))
             total1 == Cardinality(RowsOf(j)') + Cardinality(Waiting({"history"}, j)')
  <2>1. pc'[v] = "save" =>
          /\ j \in Ids /\ total \in Nat /\ total1 \in Nat /\ total =< total1
          /\ Len(job'[v].copy.history) \in Nat
    <3> SUFFICES ASSUME pc'[v] = "save"
                 PROVE  /\ j \in Ids /\ total \in Nat /\ total1 \in Nat /\ total =< total1
                        /\ Len(job'[v].copy.history) \in Nat
      OBVIOUS
    <3>1. j \in Ids /\ job'[v].copy \in ArtifactRecord \cup {NoRecord}
      BY <1>3 DEF TypeOK, JobFits
    <3>2. Cardinality(RowsOf(j)) \in Nat /\ Cardinality(RowsOf(j)') \in Nat
      BY CountsAreNat, CountsStayNat DEF CountsType
    <3>3. /\ Cardinality(Waiting({"history"}, j)) \in Nat
          /\ Cardinality(Waiting({"history"}, j)') \in Nat
      BY WaitingMoves DEF LogInv
    <3>4. Len(job'[v].copy.history) \in Nat
      BY <3>1, RecordLength
    <3> QED BY <1>2, <3>1, <3>2, <3>3, <3>4
  <2>2. pc'[v] = "save" /\ crashes = 0 => Len(job'[v].copy.history) =< total + 1
    <3>1. CASE v = w
      <4>1. pc'[v] = "save" /\ crashes = 0 => Len(lifecycle[j].history) =< total
        BY <2>1 DEF LogInv, LogCounts
      <4>2. pc'[v] = "save" => Len(job'[v].copy.history) = Len(lifecycle[j].history) + 1
        BY <1>3, <3>1
      <4>3. pc'[v] = "save" => Len(lifecycle[j].history) \in Nat
        BY <2>1, RecordLength DEF TypeOK
      <4> HIDE DEF total
      <4> QED BY <2>1, <4>1, <4>2, <4>3
    <3>2. CASE v # w
      <4>1. pc[v] = pc'[v] /\ job[v] = job'[v] /\ MoveFits(v)
        BY <3>2 DEF LogInv
      <4> QED BY <1>3, <4>1 DEF MoveFits
    <3> QED BY <3>1, <3>2
  <2>3. pc'[v] = "save" /\ crashes = 0 => Len(job'[v].copy.history) =< total1 + 1
    <3> HIDE DEF total, total1
    <3> QED BY <2>1, <2>2
  <2>4. /\ pc'[v] \in {"decide.save", "decide.transition"} => job'[v].successor = NoId
        /\ pc'[v] \in {"save", "history"} /\ job'[v].successor # NoId =>
             job'[v].copy.state = "superseded"
    BY DEF LogInv, MoveFits
  <2> QED BY <1>3, <2>3, <2>4 DEF MoveFits, RowsOf, Waiting
<1> QED BY <1>1, <1>2, <1>3 DEF LogInv

-----------------------------------------------------------------------------
(* What each action does to the counts. *)

CountsSame(i) ==
  /\ Cardinality(EventsOf(i, Moves)') = Cardinality(EventsOf(i, Moves))
  /\ Cardinality(EventsOf(i, {"cfi.superseded"})') = Cardinality(EventsOf(i, {"cfi.superseded"}))
  /\ Cardinality(RowsOf(i)') = Cardinality(RowsOf(i))
  /\ Cardinality(SupersededRows(i)') = Cardinality(SupersededRows(i))
  /\ Cardinality(ChainRowsOf(i)') = Cardinality(ChainRowsOf(i))

LEMMA UntouchedCounts ==
  ASSUME UNCHANGED <<historyRows, chainRows, audit>>, NEW i PROVE CountsSame(i)
BY DEF CountsSame, EventsOf, RowsOf, SupersededRows, ChainRowsOf

LEMMA OtherEventCounts ==
  ASSUME TypeOK, TypeOK', UNCHANGED <<historyRows, chainRows>>,
         NEW a \in Actions \ Moves, NEW j \in Ids,
         NEW d \in LifecycleState \cup Decisions \cup {"none"}, Log(a, j, d), NEW i
  PROVE  CountsSame(i)
<1>1. a \notin Moves /\ a \notin {"cfi.superseded"}
  BY DEF Moves
<1>2. /\ Cardinality(EventsOf(i, Moves)) \in Nat
      /\ Cardinality(EventsOf(i, {"cfi.superseded"})) \in Nat
  BY CountsAreNat DEF CountsType
<1>3. /\ Cardinality(EventsOf(i, Moves)') = Cardinality(EventsOf(i, Moves))
      /\ Cardinality(EventsOf(i, {"cfi.superseded"})')
           = Cardinality(EventsOf(i, {"cfi.superseded"}))
  BY <1>1, <1>2, EventCounted
<1>4. /\ RowsOf(i)' = RowsOf(i) /\ SupersededRows(i)' = SupersededRows(i)
      /\ ChainRowsOf(i)' = ChainRowsOf(i)
  BY DEF RowsOf, SupersededRows, ChainRowsOf
<1> QED BY <1>3, <1>4 DEF CountsSame

\* Steps that log no move and bring nobody between two logs.
LEMMA StaysBalanced ==
  ASSUME TypeOK, TypeOK', NEW w \in Workers, NEW i \in Ids, CountsSame(i),
         pc[w] \notin Unaudited \cup {"history"}, pc'[w] \notin Unaudited \cup {"history"},
         Len(lifecycle'[i].history) =< Len(lifecycle[i].history)
  PROVE  Balanced(w, i)
<1>1. Went(w, Unaudited, i) = 0 /\ Went(w, {"history"}, i) = 0
      /\ Went(w, {"supersede.audit"}, i) = 0 /\ Went(w, {"chain"}, i) = 0
  BY DEF Went, In, Unaudited
<1>2. CountsType(i)
  BY CountsAreNat
<1> QED BY <1>1, <1>2 DEF Balanced, CountsSame, CountsType

LEMMA HistoryUnchanged ==
  ASSUME TypeOK, UNCHANGED lifecycle, NEW i \in Ids
  PROVE  Len(lifecycle'[i].history) =< Len(lifecycle[i].history)
<1>1. lifecycle[i] \in ArtifactRecord \cup {NoRecord}
  BY DEF TypeOK
<1>2. Len(lifecycle[i].history) \in Nat
  BY <1>1, RecordLength
<1> QED BY <1>2

LEMMA MovedLength ==
  ASSUME NEW r \in ArtifactRecord, NEW s \in LifecycleState
  PROVE  /\ Len(Transition(r, s).history) = Len(r.history) + 1
         /\ \A i \in Ids : Len(Supersede(r, i).history) = Len(r.history) + 1
<1>1. r.history \in Seq(LifecycleEvent)
  BY DEF ArtifactRecord
<1>2. \A e : Len(Append(r.history, e)) = Len(r.history) + 1
  BY <1>1
<1>3. Len(Transition(r, s).history) = Len(r.history) + 1
  <2>1. Transition(r, s).history = Append(r.history, [from_state |-> r.state, to_state |-> s])
    BY TransitionType
  <2> QED BY <1>2, <2>1
<1>4. ASSUME NEW i \in Ids PROVE Len(Supersede(r, i).history) = Len(r.history) + 1
  BY <1>2, SupersedeType
<1> QED BY <1>3, <1>4

\* A request is accepted.
LEMMA LogBegin ==
  ASSUME TypeOK, LogInv, NEW w \in Workers, Begin(w)
  PROVE  LogInv'
<1>1. TypeOK'
  BY BeginType
<1>2. PICK i \in Ids :
         \/ RegisterCfi(w, i)
         \/ \E to_state \in LifecycleState : BeginTransition(w, i, to_state)
         \/ \E status \in Decisions : BeginDecision(w, i, status)
         \/ \E successor \in Ids : BeginSupersede(w, i, successor)
         \/ \E e \in Epochs : InsertManifest(w, e, i)
  BY DEF Begin
<1>3. ASSUME pc[w] = "idle", UNCHANGED <<lifecycle, historyRows, chainRows, audit, crashes>>,
             pc'[w] \in {"register.record", "save", "decide.save", "supersede.read",
                         "publish.audit"},
             \A v \in Workers \ {w} : pc'[v] = pc[v] /\ job'[v] = job[v],
             pc'[w] \in {"decide.save", "save"} => job'[w].successor = NoId,
             pc'[w] = "save" =>
               /\ job'[w].id \in Ids
               /\ Len(job'[w].copy.history) = Len(lifecycle[job'[w].id].history) + 1
      PROVE  LogInv'
  <2>1. ASSUME NEW k \in Ids PROVE Balanced(w, k)
    <3>1. CountsSame(k) /\ Len(lifecycle'[k].history) =< Len(lifecycle[k].history)
      BY <1>3, UntouchedCounts, HistoryUnchanged
    <3>2. pc[w] \notin Unaudited \cup {"history"} /\ pc'[w] \notin Unaudited \cup {"history"}
      BY <1>3 DEF Unaudited
    <3> QED BY <1>1, <3>1, <3>2, StaysBalanced
  <2> QED BY <1>1, <1>3, <2>1, LogStep
<1>4. CASE RegisterCfi(w, i)
  BY <1>3, <1>4, RegisterStarts DEF RegisterCfi, Start
<1>5. ASSUME NEW to \in LifecycleState, BeginTransition(w, i, to) PROVE LogInv'
  <2>1. lifecycle[i] \in ArtifactRecord
    BY <1>5 DEF BeginTransition, TypeOK
  <2>2. /\ UNCHANGED <<lifecycle, historyRows, chainRows, audit, crashes>>
        /\ Len(Transition(lifecycle[i], to).history) = Len(lifecycle[i].history) + 1
    BY <1>5, <2>1, MovedLength DEF BeginTransition, Start, tables
  <2> QED BY <1>3, <1>5, <2>2, TransitionStarts
<1>6. ASSUME NEW s \in Decisions, BeginDecision(w, i, s) PROVE LogInv'
  <2>1. UNCHANGED <<lifecycle, historyRows, chainRows, audit, crashes>>
    BY <1>6 DEF BeginDecision, Start, tables
  <2> QED BY <1>3, <1>6, <2>1, DecisionStarts
<1>7. ASSUME NEW n \in Ids, BeginSupersede(w, i, n) PROVE LogInv'
  <2>1. UNCHANGED <<lifecycle, historyRows, chainRows, audit, crashes>>
    BY <1>7 DEF BeginSupersede, Start, tables
  <2> QED BY <1>3, <1>7, <2>1, SupersedeStarts
<1>8. ASSUME NEW e \in Epochs, InsertManifest(w, e, i) PROVE LogInv'
  <2>1. UNCHANGED <<lifecycle, historyRows, chainRows, audit, crashes>>
    BY <1>8 DEF InsertManifest, Start
  <2> QED BY <1>3, <1>8, <2>1, PublishStarts
<1> QED BY <1>2, <1>4, <1>5, <1>6, <1>7, <1>8

\* A later step of a request.
LEMMA LogContinue ==
  ASSUME TypeOK, LogInv, NEW w \in Workers, Continue(w)
  PROVE  LogInv'
<1>1. TypeOK'
  BY ContinueType
<1>2. ThreadsType /\ TablesType
  BY TypeSplit
<1>3. MoveFits(w)
  BY DEF LogInv
\* Before the row is read, or once everything is logged: nothing is counted.
<1>4. ASSUME \A k \in Ids : CountsSame(k) /\ Len(lifecycle'[k].history) =< Len(lifecycle[k].history),
             UNCHANGED crashes, \A v \in Workers \ {w} : pc'[v] = pc[v] /\ job'[v] = job[v],
             pc[w] \notin Unaudited \cup {"history"},
             pc'[w] \notin Unaudited \cup {"history", "save", "decide.save"},
             pc'[w] = "decide.transition" => job'[w].successor = NoId
      PROVE  LogInv'
  <2>1. \A k \in Ids : Balanced(w, k)
    BY <1>1, <1>4, StaysBalanced
  <2> QED BY <1>1, <1>4, <2>1, LogStep
<1>5. CASE RegisterArtifact(w)
  <2>1. /\ pc[w] = "register.record" /\ pc'[w] = "register.ticket"
        /\ \A v \in Workers \ {w} : pc'[v] = pc[v] /\ job'[v] = job[v]
        /\ UNCHANGED <<historyRows, chainRows, audit, crashes>>
    BY <1>5, GotoThread DEF RegisterArtifact, Label, Goto
  <2>2. ASSUME NEW k \in Ids PROVE Len(lifecycle'[k].history) =< Len(lifecycle[k].history)
    <3>1. lifecycle'[k] = lifecycle[k] \/ lifecycle'[k] = NewRecord
      BY <1>5 DEF RegisterArtifact, TypeOK
    <3>2. Len(NewRecord.history) = 0
      BY DEF NewRecord
    <3>3. Len(lifecycle[k].history) \in Nat
      BY RecordLength DEF TypeOK
    <3> QED BY <3>1, <3>2, <3>3
  <2>3. pc[w] \notin Unaudited \cup {"history"}
        /\ pc'[w] \notin Unaudited \cup {"history", "save", "decide.save"}
        /\ pc'[w] # "decide.transition"
    BY <2>1 DEF Unaudited
  <2> QED BY <1>4, <2>1, <2>2, <2>3, UntouchedCounts
<1>6. CASE EnqueueReview(w)
  <2>1. /\ pc[w] = "register.ticket" /\ pc'[w] = "register.audit"
        /\ \A v \in Workers \ {w} : pc'[v] = pc[v] /\ job'[v] = job[v]
        /\ UNCHANGED <<lifecycle, historyRows, chainRows, audit, crashes>>
    BY <1>6, GotoThread DEF EnqueueReview, Label, Goto
  <2>2. pc[w] \notin Unaudited \cup {"history"}
        /\ pc'[w] \notin Unaudited \cup {"history", "save", "decide.save"}
        /\ pc'[w] # "decide.transition"
    BY <2>1 DEF Unaudited
  <2> QED BY <1>4, <2>1, <2>2, UntouchedCounts, HistoryUnchanged
<1>7. CASE SaveReviewTicket(w)
  <2>1. /\ pc[w] = "decide.save" /\ pc'[w] \in {"decide.transition", "decide.audit"}
        /\ job'[w] = job[w]
        /\ \A v \in Workers \ {w} : pc'[v] = pc[v] /\ job'[v] = job[v]
        /\ UNCHANGED <<lifecycle, historyRows, chainRows, audit, crashes>>
    BY <1>7, GotoThread DEF SaveReviewTicket, Label, Goto
  <2>2. pc[w] \notin Unaudited \cup {"history"}
        /\ pc'[w] \notin Unaudited \cup {"history", "save", "decide.save"}
        /\ job'[w].successor = NoId
    BY <1>3, <2>1 DEF Unaudited, MoveFits
  <2> QED BY <1>4, <2>1, <2>2, UntouchedCounts, HistoryUnchanged
\* The events that are not of a move.
<1>8. ASSUME NEW a \in Actions \ Moves, NEW d \in LifecycleState \cup Decisions \cup {"none"},
             Log(a, job[w].id, d), Finish(w), UNCHANGED <<lifecycle, historyRows, chainRows>>,
             pc[w] \in {"register.audit", "decide.audit", "publish.audit"}
      PROVE  LogInv'
  <2>1. /\ pc'[w] = "idle" /\ UNCHANGED crashes
        /\ \A v \in Workers \ {w} : pc'[v] = pc[v] /\ job'[v] = job[v]
    BY <1>8, FinishThread DEF Finish
  <2>2. pc[w] \notin Unaudited \cup {"history"}
        /\ pc'[w] \notin Unaudited \cup {"history", "save", "decide.save"}
        /\ pc'[w] # "decide.transition"
    BY <1>8, <2>1 DEF Unaudited
  <2>3. job[w].id \in Ids
    BY <1>2, <1>8, AtLabel
  <2>4. \A k \in Ids : CountsSame(k)
    BY <1>1, <1>8, <2>3, OtherEventCounts
  <2> QED BY <1>4, <1>8, <2>1, <2>2, <2>4, HistoryUnchanged
<1>9. CASE AuditRegister(w)
  <2>1. "cfi.registered" \in Actions \ Moves /\ "reviewed" \in LifecycleState
    BY DEF Actions, Moves, LifecycleState
  <2> QED BY <1>8, <1>9, <2>1 DEF AuditRegister
<1>10. CASE AuditDecision(w)
  <2>1. "review.decision" \in Actions \ Moves /\ job[w].status \in Decisions
    BY <1>2, <1>10, AtLabel DEF AuditDecision, Actions, Moves
  <2> QED BY <1>8, <1>10, <2>1 DEF AuditDecision
<1>11. CASE AuditPublish(w)
  <2>1. "cohort.published" \in Actions \ Moves
    BY DEF Actions, Moves
  <2> QED BY <1>8, <1>11, <2>1 DEF AuditPublish
\* A request that only reads, and is refused or goes on to write a moved copy.
<1>12. ASSUME pc[w] \in {"decide.transition", "supersede.read"}, Finish(w), UNCHANGED tables
       PROVE  LogInv'
  <2>1. /\ pc'[w] = "idle"
        /\ UNCHANGED <<lifecycle, historyRows, chainRows, audit, crashes>>
        /\ \A v \in Workers \ {w} : pc'[v] = pc[v] /\ job'[v] = job[v]
    BY <1>12, FinishThread DEF Finish, tables
  <2>2. pc[w] \notin Unaudited \cup {"history"}
        /\ pc'[w] \notin Unaudited \cup {"history", "save", "decide.save"}
        /\ pc'[w] # "decide.transition"
    BY <1>12, <2>1 DEF Unaudited
  <2> QED BY <1>4, <2>1, <2>2, UntouchedCounts, HistoryUnchanged
<1>13. ASSUME pc[w] \in {"decide.transition", "supersede.read"}, UNCHANGED tables,
              NEW r, pc' = [pc EXCEPT ![w] = "save"], job' = [job EXCEPT ![w].copy = r],
              UNCHANGED crashes, Len(r.history) = Len(lifecycle[job[w].id].history) + 1,
              job[w].successor # NoId => r.state = "superseded"
       PROVE  LogInv'
  <2>1. /\ pc'[w] = "save" /\ job'[w].copy = r /\ job'[w].id = job[w].id
        /\ job'[w].successor = job[w].successor
        /\ \A v \in Workers \ {w} : pc'[v] = pc[v] /\ job'[v] = job[v]
        /\ UNCHANGED <<lifecycle, historyRows, chainRows, audit, crashes>>
    BY <1>13, CopyThread DEF tables
  <2>2. pc[w] \notin Unaudited \cup {"history"} /\ pc'[w] \notin Unaudited \cup {"history"}
        /\ job[w].id \in Ids
    BY <1>2, <1>13, <2>1, AtLabel DEF Unaudited
  <2>3. \A k \in Ids : Balanced(w, k)
    BY <1>1, <2>1, <2>2, UntouchedCounts, HistoryUnchanged, StaysBalanced
  <2> QED BY <1>1, <1>13, <2>1, <2>2, <2>3, LogStep
<1>14. CASE DecideTransition(w)
  <2> DEFINE record == lifecycle[job[w].id]
             to     == DecidedState(job[w].status)
  <2>1. CASE record # NoRecord /\ Allowed(record, to)
    <3>1. pc[w] = "decide.transition" /\ job[w].id \in Ids /\ to \in LifecycleState
          /\ job[w].successor = NoId
      BY <1>2, <1>3, <1>14, AtLabel DEF DecideTransition, DecidedState, LifecycleState, MoveFits
    <3>2. record \in ArtifactRecord
      BY <1>2, <2>1, <3>1 DEF TablesType
    <3>3. Len(Transition(record, to).history) = Len(record.history) + 1
      BY <3>1, <3>2, MovedLength
    <3>4. /\ pc' = [pc EXCEPT ![w] = "save"] /\ UNCHANGED tables /\ UNCHANGED crashes
          /\ job' = [job EXCEPT ![w].copy = Transition(record, to)]
      BY <1>14, <2>1 DEF DecideTransition
    <3> HIDE DEF to
    <3> QED BY <1>13, <3>1, <3>3, <3>4
  <2>2. CASE ~ (record # NoRecord /\ Allowed(record, to))
    BY <1>12, <1>14, <2>2 DEF DecideTransition
  <2> QED BY <2>1, <2>2
<1>15. CASE ReadForSupersede(w)
  <2> DEFINE record == lifecycle[job[w].id]
  <2>1. CASE record # NoRecord /\ Allowed(record, "superseded")
    <3>1. pc[w] = "supersede.read" /\ job[w].id \in Ids /\ job[w].successor \in Ids
      BY <1>2, <1>15, AtLabel DEF ReadForSupersede
    <3>2. record \in ArtifactRecord /\ "superseded" \in LifecycleState
      BY <1>2, <2>1, <3>1 DEF TablesType, LifecycleState
    <3>3. /\ Len(Supersede(record, job[w].successor).history) = Len(record.history) + 1
          /\ Supersede(record, job[w].successor).state = "superseded"
      BY <3>1, <3>2, MovedLength, SupersedeType
    <3>4. /\ pc' = [pc EXCEPT ![w] = "save"] /\ UNCHANGED tables /\ UNCHANGED crashes
          /\ job' = [job EXCEPT ![w].copy = Supersede(record, job[w].successor)]
      BY <1>15, <2>1 DEF ReadForSupersede
    <3> QED BY <1>13, <3>1, <3>3, <3>4
  <2>2. CASE ~ (record # NoRecord /\ Allowed(record, "superseded"))
    BY <1>12, <1>15, <2>2 DEF ReadForSupersede
  <2> QED BY <2>1, <2>2
\* The row is written: the request is now before its lifecycle_history row.
<1>16. CASE SaveArtifact(w)
  <2>1. /\ pc[w] = "save" /\ pc'[w] = "history" /\ job'[w] = job[w]
        /\ \A v \in Workers \ {w} : pc'[v] = pc[v] /\ job'[v] = job[v]
        /\ lifecycle' = [lifecycle EXCEPT ![job[w].id] = job[w].copy]
        /\ UNCHANGED <<historyRows, chainRows, audit, crashes>>
    BY <1>16, GotoThread DEF SaveArtifact, Label, Goto
  <2>2. job[w].id \in Ids
    BY <1>2, <2>1, AtLabel
  <2>3. ASSUME NEW k \in Ids PROVE Balanced(w, k)
    <3>1. CountsSame(k) /\ CountsType(k)
      BY <2>1, UntouchedCounts, CountsAreNat
    <3>2. /\ Went(w, Unaudited, k) = 0 /\ Went(w, {"supersede.audit"}, k) = 0
          /\ Went(w, {"chain"}, k) = 0
          /\ Went(w, {"history"}, k) = IF job[w].id = k THEN 1 ELSE 0
      BY <2>1 DEF Went, In, Unaudited
    <3>3. /\ Len(lifecycle[k].history) \in Nat
          /\ lifecycle'[k] = IF job[w].id = k THEN job[w].copy ELSE lifecycle[k]
      BY <2>1, <2>2, RecordLength DEF TypeOK
    <3>4. CASE job[w].id = k
      BY <2>1, <3>1, <3>2, <3>3, <3>4 DEF Balanced, CountsSame, CountsType
    <3>5. CASE job[w].id # k
      BY <2>1, <3>1, <3>2, <3>3, <3>5 DEF Balanced, CountsSame, CountsType
    <3> QED BY <3>4, <3>5
  <2>4. job'[w].successor # NoId => job'[w].copy.state = "superseded"
    BY <1>3, <2>1 DEF MoveFits
  <2> QED BY <1>1, <2>1, <2>3, <2>4, LogStep
\* Its lifecycle_history row is written.
<1>17. CASE AppendLifecycleEvent(w)
  <2> DEFINE moved == job[w].copy.state
             row   == [id |-> job[w].id, from_state |-> moved, to_state |-> moved]
  <2>1. /\ pc[w] = "history" /\ job'[w] = job[w]
        /\ pc'[w] = IF job[w].successor # NoId THEN "chain" ELSE "transition.audit"
        /\ \A v \in Workers \ {w} : pc'[v] = pc[v] /\ job'[v] = job[v]
        /\ historyRows' = Append(historyRows, row)
        /\ UNCHANGED <<lifecycle, chainRows, audit, crashes>>
    BY <1>17, GotoThread DEF AppendLifecycleEvent, Label, Goto
  <2>2. row \in HistoryRow /\ row.id = job[w].id /\ row.to_state = moved
    BY <1>2, <2>1, AtLabel DEF HistoryRow
  <2>3. job[w].successor # NoId => moved = "superseded"
    BY <1>3, <2>1 DEF MoveFits
  <2> HIDE DEF row, moved
  <2>4. ASSUME NEW k \in Ids PROVE Balanced(w, k)
    <3>1. /\ Cardinality(RowsOf(k)') = Cardinality(RowsOf(k)) + (IF row.id = k THEN 1 ELSE 0)
          /\ Cardinality(SupersededRows(k)')
               = Cardinality(SupersededRows(k))
                   + (IF row.id = k /\ row.to_state = "superseded" THEN 1 ELSE 0)
      BY <1>1, <2>1, <2>2, RowCounted
    <3>2. /\ EventsOf(k, Moves)' = EventsOf(k, Moves) /\ ChainRowsOf(k)' = ChainRowsOf(k)
          /\ EventsOf(k, {"cfi.superseded"})' = EventsOf(k, {"cfi.superseded"})
      BY <2>1 DEF EventsOf, ChainRowsOf
    <3>3. CountsType(k)
      BY CountsAreNat
    <3>4. /\ Went(w, Unaudited, k) = (IF job[w].id = k THEN 1 ELSE 0)
          /\ Went(w, {"history"}, k) = (IF job[w].id = k THEN -1 ELSE 0)
          /\ Went(w, {"supersede.audit"}, k) = 0
          /\ Went(w, {"chain"}, k)
               = (IF job[w].id = k /\ job[w].successor # NoId THEN 1 ELSE 0)
      BY <2>1 DEF Went, In, Unaudited
    <3>5. Len(lifecycle'[k].history) =< Len(lifecycle[k].history)
      BY <2>1, HistoryUnchanged
    <3> QED BY <2>2, <2>3, <3>1, <3>2, <3>3, <3>4, <3>5 DEF Balanced, CountsType
  <2>5. pc'[w] \notin {"save", "history", "decide.save", "decide.transition"}
    BY <2>1
  <2> QED BY <1>1, <2>1, <2>4, <2>5, LogStep
\* Its supersession_chain row is written.
<1>18. CASE AppendSupersession(w)
  <2> DEFINE row == [id |-> job[w].id, successor |-> job[w].successor]
  <2>1. /\ pc[w] = "chain" /\ job'[w] = job[w] /\ pc'[w] = "supersede.audit"
        /\ \A v \in Workers \ {w} : pc'[v] = pc[v] /\ job'[v] = job[v]
        /\ chainRows' = Append(chainRows, row)
        /\ UNCHANGED <<lifecycle, historyRows, audit, crashes>>
    BY <1>18, GotoThread DEF AppendSupersession, Label, Goto
  <2>2. row \in ChainRow /\ row.id = job[w].id
    BY <1>2, <2>1, AtLabel DEF ChainRow
  <2> HIDE DEF row
  <2>3. ASSUME NEW k \in Ids PROVE Balanced(w, k)
    <3>1. Cardinality(ChainRowsOf(k)')
            = Cardinality(ChainRowsOf(k)) + (IF job[w].id = k THEN 1 ELSE 0)
      BY <1>1, <2>1, <2>2, ChainCounted
    <3>2. /\ EventsOf(k, Moves)' = EventsOf(k, Moves) /\ RowsOf(k)' = RowsOf(k)
          /\ EventsOf(k, {"cfi.superseded"})' = EventsOf(k, {"cfi.superseded"})
          /\ SupersededRows(k)' = SupersededRows(k)
      BY <2>1 DEF EventsOf, RowsOf, SupersededRows
    <3>3. CountsType(k)
      BY CountsAreNat
    <3>4. /\ Went(w, Unaudited, k) = 0 /\ Went(w, {"history"}, k) = 0
          /\ Went(w, {"supersede.audit"}, k) = (IF job[w].id = k THEN 1 ELSE 0)
          /\ Went(w, {"chain"}, k) = (IF job[w].id = k THEN -1 ELSE 0)
      BY <2>1 DEF Went, In, Unaudited
    <3>5. Len(lifecycle'[k].history) =< Len(lifecycle[k].history)
      BY <2>1, HistoryUnchanged
    <3> QED BY <3>1, <3>2, <3>3, <3>4, <3>5 DEF Balanced, CountsType
  <2>4. pc'[w] \notin {"save", "history", "decide.save", "decide.transition"}
    BY <2>1
  <2> QED BY <1>1, <2>1, <2>3, <2>4, LogStep
\* The event of a move is audited.
<1>19. ASSUME NEW a \in Moves, NEW d \in LifecycleState \cup {"none"}, Log(a, job[w].id, d),
              UNCHANGED <<lifecycle, historyRows, chainRows, crashes>>,
              pc[w] = IF a = "cfi.superseded" THEN "supersede.audit" ELSE "transition.audit",
              pc'[w] \in {"idle", "decide.audit"},
              \A v \in Workers \ {w} : pc'[v] = pc[v] /\ job'[v] = job[v]
       PROVE  LogInv'
  <2>1. job[w].id \in Ids /\ a \in Actions
    BY <1>2, <1>19, AtLabel DEF Moves, Actions
  <2>2. ASSUME NEW k \in Ids PROVE Balanced(w, k)
    <3>1. /\ Cardinality(EventsOf(k, Moves)')
               = Cardinality(EventsOf(k, Moves)) + (IF job[w].id = k THEN 1 ELSE 0)
          /\ Cardinality(EventsOf(k, {"cfi.superseded"})')
               = Cardinality(EventsOf(k, {"cfi.superseded"}))
                   + (IF job[w].id = k /\ a = "cfi.superseded" THEN 1 ELSE 0)
      BY <1>1, <1>19, <2>1, EventCounted
    <3>2. /\ RowsOf(k)' = RowsOf(k) /\ SupersededRows(k)' = SupersededRows(k)
          /\ ChainRowsOf(k)' = ChainRowsOf(k)
      BY <1>19 DEF RowsOf, SupersededRows, ChainRowsOf
    <3>3. CountsType(k)
      BY CountsAreNat
    <3>4. /\ Went(w, Unaudited, k) = (IF job[w].id = k THEN -1 ELSE 0)
          /\ Went(w, {"history"}, k) = 0 /\ Went(w, {"chain"}, k) = 0
          /\ Went(w, {"supersede.audit"}, k)
               = (IF job[w].id = k /\ a = "cfi.superseded" THEN -1 ELSE 0)
      BY <1>19 DEF Went, In, Unaudited
    <3>5. Len(lifecycle'[k].history) =< Len(lifecycle[k].history)
      BY <1>19, HistoryUnchanged
    <3> QED BY <3>1, <3>2, <3>3, <3>4, <3>5 DEF Balanced, CountsType
  <2>3. pc'[w] \notin {"save", "history", "decide.save", "decide.transition"}
    BY <1>19
  <2> QED BY <1>1, <1>19, <2>2, <2>3, LogStep
<1>20. CASE AuditTransition(w)
  <2>1. /\ pc[w] = "transition.audit" /\ pc'[w] \in {"idle", "decide.audit"}
        /\ \A v \in Workers \ {w} : pc'[v] = pc[v] /\ job'[v] = job[v]
        /\ UNCHANGED <<lifecycle, historyRows, chainRows, crashes>>
    BY <1>20, GotoThread, FinishThread DEF AuditTransition, Label, Goto, Finish
  <2>2. /\ "lifecycle.transition" \in Moves /\ job[w].copy.state \in LifecycleState
        /\ Log("lifecycle.transition", job[w].id, job[w].copy.state)
    BY <1>2, <1>20, <2>1, AtLabel DEF Moves, AuditTransition
  <2> QED BY <1>19, <2>1, <2>2
<1>21. CASE AuditSupersede(w)
  <2>1. /\ pc[w] = "supersede.audit" /\ pc'[w] = "idle"
        /\ \A v \in Workers \ {w} : pc'[v] = pc[v] /\ job'[v] = job[v]
        /\ UNCHANGED <<lifecycle, historyRows, chainRows, crashes>>
    BY <1>21, FinishThread DEF AuditSupersede, Finish
  <2>2. "cfi.superseded" \in Moves /\ Log("cfi.superseded", job[w].id, "none")
    BY <1>21 DEF Moves, AuditSupersede
  <2> QED BY <1>19, <2>1, <2>2
<1> QED BY <1>5, <1>6, <1>7, <1>9, <1>10, <1>11, <1>14, <1>15, <1>16, <1>17, <1>18, <1>20, <1>21
        DEF Continue

\* A crash loses the requests under way with what they had yet to log.
LEMMA LogCrash ==
  ASSUME TypeOK, TypeOK', LogInv, Crash
  PROVE  LogInv'
<1>1. /\ UNCHANGED <<lifecycle, historyRows, chainRows, audit>>
      /\ crashes \in Nat /\ crashes' = crashes + 1 /\ \A w \in Workers : pc'[w] = "idle"
  BY DEF Crash, tables, TypeOK
<1>2. Busy' = {} /\ \A labels, i : "idle" \notin labels => Waiting(labels, i)' = {}
  BY <1>1 DEF Busy, Waiting
<1>3. IsFiniteSet(Busy)'
  BY <1>2, FS_EmptySet
<1>4. ASSUME NEW i \in Ids PROVE LogCounts(i)'
  <2>1. LogCounts(i) /\ CountsSame(i) /\ CountsType(i)
    BY <1>1, UntouchedCounts, CountsAreNat DEF LogInv
  <2>2. ASSUME NEW labels \in {Unaudited, {"supersede.audit"}, {"chain"}}
        PROVE  Cardinality(Waiting(labels, i)) \in Nat /\ Cardinality(Waiting(labels, i)') = 0
    <3>1. "idle" \notin labels /\ Waiting(labels, i) \subseteq Busy
      BY DEF Unaudited, Waiting, Busy
    <3>2. IsFiniteSet(Waiting(labels, i))
      BY <3>1, FS_Subset DEF LogInv
    <3> QED BY <1>2, <3>1, <3>2, FS_CardinalityType, FS_EmptySet
  <2>3. crashes' # 0
    BY <1>1
  <2> QED BY <2>1, <2>2, <2>3 DEF LogCounts, CountsSame, CountsType
<1> QED BY <1>1, <1>3, <1>4 DEF LogInv, MoveFits

LEMMA LogInvariant == Spec => []LogInv
<1>1. Init => LogInv
  <2> SUFFICES ASSUME Init PROVE LogInv
    OBVIOUS
  <2>1. Busy = {} /\ \A labels, i : "idle" \notin labels => Waiting(labels, i) = {}
    BY DEF Init, Busy, Waiting
  <2>2. ASSUME NEW i \in Ids PROVE LogCounts(i)
    <3>1. /\ RowsOf(i) = {} /\ ChainRowsOf(i) = {} /\ SupersededRows(i) = {}
          /\ \A acts : EventsOf(i, acts) = {}
      BY DEF Init, RowsOf, ChainRowsOf, SupersededRows, EventsOf
    <3>2. /\ Waiting(Unaudited, i) = {} /\ Waiting({"history"}, i) = {}
          /\ Waiting({"supersede.audit"}, i) = {} /\ Waiting({"chain"}, i) = {}
      BY <2>1 DEF Unaudited
    <3>3. Len(lifecycle[i].history) = 0 /\ Cardinality({}) = 0
      BY FS_EmptySet DEF Init, NoRecord
    <3>4. /\ Cardinality(Waiting(Unaudited, i)) = 0 /\ Cardinality(Waiting({"history"}, i)) = 0
          /\ Cardinality(Waiting({"supersede.audit"}, i)) = 0
          /\ Cardinality(Waiting({"chain"}, i)) = 0
      BY <3>2, <3>3
    <3>5. /\ Cardinality(RowsOf(i)) = 0 /\ Cardinality(ChainRowsOf(i)) = 0
          /\ Cardinality(SupersededRows(i)) = 0 /\ Cardinality(EventsOf(i, Moves)) = 0
          /\ Cardinality(EventsOf(i, {"cfi.superseded"})) = 0
      BY <3>1, <3>3
    <3> QED BY <3>3, <3>4, <3>5 DEF LogCounts
  <2> QED BY <2>1, <2>2, FS_EmptySet DEF LogInv, MoveFits, Init
<1>2. TypeOK /\ TypeOK' /\ LogInv /\ [Next]_vars => LogInv'
  <2> SUFFICES ASSUME TypeOK, TypeOK', LogInv, [Next]_vars PROVE LogInv'
    OBVIOUS
  <2>1. CASE UNCHANGED vars
    BY <2>1 DEF vars, tables, threads, LogInv, LogCounts, MoveFits, Busy, Waiting, RowsOf,
                ChainRowsOf, SupersededRows, EventsOf
  <2>2. CASE Crash
    BY <2>2, LogCrash
  <2>3. ASSUME NEW w \in Workers, Begin(w) PROVE LogInv'
    BY <2>3, LogBegin
  <2>4. ASSUME NEW w \in Workers, Continue(w) PROVE LogInv'
    BY <2>4, LogContinue
  <2> QED BY <2>1, <2>2, <2>3, <2>4 DEF Next
<1> QED BY <1>1, <1>2, TypeCorrect, PTL DEF Spec

\* No log of moves runs ahead of the one written before it.
THEOREM LogsAlwaysTrail == Spec => []LogsTrail
<1>1. TypeOK /\ LogInv => LogsTrail
  <2> SUFFICES ASSUME TypeOK, LogInv, NEW i \in Ids
               PROVE  /\ Cardinality(EventsOf(i, Moves)) =< Cardinality(RowsOf(i))
                      /\ Cardinality(EventsOf(i, {"cfi.superseded"})) =< Cardinality(ChainRowsOf(i))
                      /\ Cardinality(ChainRowsOf(i)) =< Cardinality(SupersededRows(i))
    BY DEF LogsTrail, ChainRowsOf, SupersededRows
  <2>1. LogCounts(i) /\ CountsType(i)
    BY CountsAreNat DEF LogInv
  <2>2. ASSUME NEW labels \in {Unaudited, {"supersede.audit"}, {"chain"}}
        PROVE  Cardinality(Waiting(labels, i)) \in Nat
    <3>1. Waiting(labels, i) \subseteq Busy
      BY DEF Unaudited, Waiting, Busy
    <3> QED BY <3>1, FS_Subset, FS_CardinalityType DEF LogInv
  <2> QED BY <2>1, <2>2 DEF LogCounts, CountsType
<1> QED BY <1>1, LogInvariant, TypeCorrect, PTL

-----------------------------------------------------------------------------
(* A package that is registered is on its way to the queue. *)

LEMMA QueueStep ==
  ASSUME TypeOK, QueueInv, [Next]_vars
  PROVE  QueueInv'
<1>1. ASSUME UNCHANGED <<cfis, crashes>>, \A i \in Ids : tickets[i] # "none" => tickets'[i] # "none",
             NEW w \in Workers, \A v \in Workers \ {w} : pc'[v] = pc[v] /\ job'[v] = job[v],
             Registering(w) => \/ tickets'[job[w].id] # "none"
                               \/ Registering(w)' /\ job'[w].id = job[w].id
      PROVE  QueueInv'
  <2> SUFFICES ASSUME NEW i \in Ids, crashes = 0, i \in cfis, tickets'[i] = "none"
               PROVE  \E v \in Workers : Registering(v)' /\ job'[v].id = i
    BY <1>1 DEF QueueInv, QueueFits, Registering
  <2>1. PICK v \in Workers : Registering(v) /\ job[v].id = i
    BY <1>1 DEF QueueInv, QueueFits
  <2> QED BY <1>1, <2>1 DEF Registering
<1>2. CASE UNCHANGED vars
  BY <1>2 DEF vars, tables, threads, QueueInv, QueueFits, Registering
<1>3. CASE Crash
  BY <1>3 DEF Crash, TypeOK, QueueInv, QueueFits
<1>4. ASSUME NEW w \in Workers, NEW i \in Ids, RegisterCfi(w, i) PROVE QueueInv'
  <2>1. /\ pc[w] = "idle" /\ Registering(w)' /\ job'[w].id = i
        /\ \A v \in Workers \ {w} : pc'[v] = pc[v] /\ job'[v] = job[v]
        /\ cfis' = cfis \cup {i} /\ UNCHANGED <<tickets, crashes>>
    BY <1>4, RegisterStarts DEF RegisterCfi, Registering, Start
  <2>2. ~ Registering(w)
    BY <2>1 DEF Registering
  <2>3. ASSUME NEW k \in Ids PROVE QueueFits(k)'
    <3>1. CASE k = i
      BY <2>1, <3>1 DEF QueueFits
    <3>2. CASE k # i
      BY <2>1, <2>2, <3>2 DEF QueueInv, QueueFits, Registering
    <3> QED BY <3>1, <3>2
  <2> QED BY <2>3 DEF QueueInv
<1>5. ASSUME NEW w \in Workers, Begin(w), \A i \in Ids : ~ RegisterCfi(w, i) PROVE QueueInv'
  <2>1. /\ pc[w] = "idle" /\ UNCHANGED <<cfis, tickets, crashes>>
        /\ \A v \in Workers \ {w} : pc'[v] = pc[v] /\ job'[v] = job[v]
    BY <1>5 DEF Begin, BeginTransition, BeginDecision, BeginSupersede, InsertManifest, Start,
                tables, TypeOK
  <2> QED BY <1>1, <2>1 DEF Registering
<1>6. ASSUME NEW w \in Workers, Continue(w) PROVE QueueInv'
  <2>1. CASE RegisterArtifact(w)
    BY <1>1, <2>1, GotoThread DEF RegisterArtifact, Label, Goto, Registering
  <2>2. CASE EnqueueReview(w)
    <3>1. job[w].id \in Ids
      BY <2>2, TypeSplit, AtLabel DEF EnqueueReview
    <3>2. tickets'[job[w].id] = "pending" /\ \A i \in Ids : tickets[i] # "none" => tickets'[i] # "none"
      BY <2>2, <3>1 DEF EnqueueReview, TypeOK
    <3> QED BY <1>1, <2>2, <3>2, GotoThread DEF EnqueueReview, Label, Goto
  <2>3. CASE SaveReviewTicket(w)
    <3>1. job[w].status \in Decisions
      BY <2>3, TypeSplit, AtLabel DEF SaveReviewTicket
    <3>2. \A i \in Ids : tickets[i] # "none" => tickets'[i] # "none"
      BY <2>3, <3>1 DEF SaveReviewTicket, TypeOK, Decisions, ReviewStatus
    <3>3. ~ Registering(w)
      BY <2>3 DEF SaveReviewTicket, Registering
    <3> QED BY <1>1, <2>3, <3>2, <3>3, GotoThread DEF SaveReviewTicket, Label, Goto
  <2>4. ASSUME pc[w] \notin {"register.record", "register.ticket"},
               UNCHANGED <<cfis, tickets, crashes>>,
               \A v \in Workers \ {w} : pc'[v] = pc[v] /\ job'[v] = job[v]
        PROVE  QueueInv'
    BY <1>1, <2>4 DEF Registering
  <2>5. CASE SaveArtifact(w) \/ AppendLifecycleEvent(w) \/ AppendSupersession(w)
    BY <2>4, <2>5, GotoThread DEF SaveArtifact, AppendLifecycleEvent, AppendSupersession, Label, Goto
  <2>6. CASE DecideTransition(w) \/ ReadForSupersede(w)
    BY <2>4, <2>6 DEF DecideTransition, ReadForSupersede, Finish, tables, TypeOK
  <2>7. CASE AuditRegister(w) \/ AuditDecision(w) \/ AuditSupersede(w) \/ AuditPublish(w)
    BY <2>4, <2>7, FinishThread DEF AuditRegister, AuditDecision, AuditSupersede, AuditPublish, Finish
  <2>8. CASE AuditTransition(w)
    BY <2>4, <2>8, FinishThread, GotoThread DEF AuditTransition, Finish, Goto, Label
  <2> QED BY <1>6, <2>1, <2>2, <2>3, <2>5, <2>6, <2>7, <2>8 DEF Continue
<1> QED BY <1>2, <1>3, <1>4, <1>5, <1>6 DEF Next

\* At rest and never having crashed, the two logs of moves agree, no row
\* remembers more moves than the log, and every package has its ticket.
THEOREM QuietLogsAlwaysAgree == Spec => []QuietLogsAgree
<1>1. Init => QueueInv
  BY DEF Init, QueueInv, QueueFits
<1>2. TypeOK /\ LogInv /\ QueueInv => QuietLogsAgree
  <2> SUFFICES ASSUME TypeOK, LogInv, QueueInv, Quiet, crashes = 0, NEW i \in Ids
               PROVE  /\ Cardinality(EventsOf(i, Moves)) = Cardinality(RowsOf(i))
                      /\ Len(lifecycle[i].history) =< Cardinality(RowsOf(i))
                      /\ i \in cfis => tickets[i] # "none"
    BY DEF QuietLogsAgree
  <2>1. /\ Cardinality(Waiting(Unaudited, i)) = 0 /\ Cardinality(Waiting({"history"}, i)) = 0
    <3>1. Waiting(Unaudited, i) = {} /\ Waiting({"history"}, i) = {}
      BY DEF Quiet, Waiting, Unaudited
    <3> QED BY <3>1, FS_EmptySet
  <2>2. LogCounts(i) /\ CountsType(i)
    BY CountsAreNat DEF LogInv
  <2>3. i \in cfis => tickets[i] # "none"
    BY DEF QueueInv, QueueFits, Quiet, Registering
  <2> QED BY <2>1, <2>2, <2>3 DEF LogCounts, CountsType
<1> QED BY <1>1, <1>2, QueueStep, LogInvariant, TypeCorrect, PTL DEF Spec

-----------------------------------------------------------------------------
(***************************************************************************)
(* Overlapping requests implement LifecycleVersions: the registry may lose *)
(* moves of an artifact but never makes one up.  The inductive invariant   *)
(* is CopiesAreMoves: the copy a thread is about to save is one legal move *)
(* away from some version its artifact's row has really held.              *)
(***************************************************************************)

\* The abstract specification's operators are those of LifecycleRules.
LEMMA SameRules ==
  /\ Versions!NewRecord = NewRecord /\ Versions!NoRecord = NoRecord
  /\ Versions!VALID_TRANSITIONS = VALID_TRANSITIONS
  /\ \A r, s : Versions!Allowed(r, s) <=> Allowed(r, s)
  /\ \A r, s : Versions!Transition(r, s) = Transition(r, s)
  /\ \A r, i : Versions!Supersede(r, i) = Supersede(r, i)
BY DEF Versions!NewRecord, NewRecord, Versions!NoRecord, NoRecord,
       Versions!VALID_TRANSITIONS, VALID_TRANSITIONS, Versions!Allowed, Allowed,
       Versions!Transition, Transition, Versions!Supersede, Supersede

LEMMA SpecVImpliesSpec == SpecV => Spec
<1>1. InitV => Init
  BY DEF InitV
<1>2. [NextV]_varsV => [Next]_vars
  BY DEF NextV, varsV
<1> QED BY <1>1, <1>2, PTL DEF SpecV, Spec

-----------------------------------------------------------------------------
(* The inductive invariant.                                                *)

VersionsInv == versions \in [Ids -> SUBSET ArtifactRecord] /\ CopiesAreMoves

LEMMA UnwatchedStep ==
  ASSUME TypeOK, VersionsInv, Watch, UNCHANGED lifecycle
  PROVE  UNCHANGED versions
<1>1. \A i \in Ids : lifecycle'[i] # NoRecord => lifecycle'[i] \in versions[i]
  BY DEF VersionsInv, CopiesAreMoves
<1> QED BY <1>1 DEF VersionsInv, Watch

\* A step that writes no row and makes at most a copy that is a legal move.
LEMMA VersionsKept ==
  ASSUME TypeOK, RequestsInStep', VersionsInv, Watch, UNCHANGED lifecycle, NEW w \in Workers,
         \A v \in Workers \ {w} : pc'[v] = pc[v] /\ job'[v] = job[v],
         pc'[w] = "save" =>
           \E old \in versions[job'[w].id] : Versions!IsMove(old, job'[w].copy)
  PROVE  VersionsInv'
<1>1. UNCHANGED versions
  BY UnwatchedStep
<1>2. \A v \in Workers : pc'[v] = "register.record" => lifecycle'[job'[v].id] = NoRecord
  BY DEF RequestsInStep
<1>3. \A v \in Workers :
        pc'[v] = "save" =>
          \E old \in versions'[job'[v].id] : Versions!IsMove(old, job'[v].copy)
  BY <1>1 DEF VersionsInv, CopiesAreMoves
<1> QED BY <1>1, <1>2, <1>3 DEF VersionsInv, CopiesAreMoves

\* A step that writes one row.
LEMMA VersionsWritten ==
  ASSUME TypeOK, RequestsInStep', VersionsInv, Watch, NEW i \in Ids, NEW r \in ArtifactRecord,
         lifecycle' = [lifecycle EXCEPT ![i] = r], NEW w \in Workers,
         \A v \in Workers \ {w} : pc'[v] = pc[v] /\ job'[v] = job[v], pc'[w] # "save"
  PROVE  /\ VersionsInv'
         /\ versions' = [versions EXCEPT ![i] = @ \cup {r}]
<1>1. r # NoRecord
  BY RecordIsPresent
<1>2. \A j \in Ids \ {i} : lifecycle'[j] # NoRecord => lifecycle'[j] \in versions[j]
  BY DEF VersionsInv, CopiesAreMoves, TypeOK
<1>3. lifecycle'[i] = r
  BY DEF TypeOK
<1>4. versions' = [versions EXCEPT ![i] = @ \cup {r}]
  BY <1>1, <1>2, <1>3 DEF VersionsInv, Watch
<1>5. versions' \in [Ids -> SUBSET ArtifactRecord]
  BY <1>4 DEF VersionsInv
<1>6. \A j \in Ids : versions[j] \subseteq versions'[j]
  BY <1>4 DEF VersionsInv
<1>7. /\ \A j \in Ids : (lifecycle'[j] = NoRecord) <=> (versions'[j] = {})
      /\ \A j \in Ids : lifecycle'[j] # NoRecord => lifecycle'[j] \in versions'[j]
  BY <1>1, <1>2, <1>3, <1>4 DEF VersionsInv, CopiesAreMoves, TypeOK
<1>8. \A v \in Workers : pc'[v] = "save" => job'[v].id = job[v].id /\ job[v].id \in Ids
  BY DEF TypeOK, JobFits
<1>9. \A v \in Workers :
        pc'[v] = "save" =>
          \E old \in versions'[job'[v].id] : Versions!IsMove(old, job'[v].copy)
  BY <1>6, <1>8 DEF VersionsInv, CopiesAreMoves
<1>10. \A v \in Workers : pc'[v] = "register.record" => lifecycle'[job'[v].id] = NoRecord
  BY DEF RequestsInStep
<1>11. CopiesAreMoves'
  BY <1>7, <1>9, <1>10 DEF CopiesAreMoves
<1>12. VersionsInv'
  BY <1>5, <1>11 DEF VersionsInv
<1> QED BY <1>4, <1>12

LEMMA MoveOfRow ==
  ASSUME TypeOK, VersionsInv, NEW i \in Ids, lifecycle[i] # NoRecord,
         NEW s \in LifecycleState, Allowed(lifecycle[i], s)
  PROVE  \E old \in versions[i] : Versions!IsMove(old, Transition(lifecycle[i], s))
<1>1. lifecycle[i] \in versions[i]
  BY DEF VersionsInv, CopiesAreMoves
<1>2. Versions!IsMove(lifecycle[i], Transition(lifecycle[i], s))
  BY SameRules DEF Versions!IsMove, Allowed
<1> QED BY <1>1, <1>2

LEMMA SupersessionOfRow ==
  ASSUME TypeOK, VersionsInv, NEW i \in Ids, lifecycle[i] # NoRecord,
         NEW n \in Ids, Allowed(lifecycle[i], "superseded")
  PROVE  \E old \in versions[i] : Versions!IsMove(old, Supersede(lifecycle[i], n))
<1>1. lifecycle[i] \in versions[i]
  BY DEF VersionsInv, CopiesAreMoves
<1>2. Versions!IsMove(lifecycle[i], Supersede(lifecycle[i], n))
  BY SameRules DEF Versions!IsMove
<1> QED BY <1>1, <1>2

LEMMA VersionsBegin ==
  ASSUME TypeOK, RequestsInStep', VersionsInv, Watch, NEW w \in Workers, Begin(w)
  PROVE  VersionsInv' /\ UNCHANGED lifecycle
<1>1. UNCHANGED lifecycle
  BY DEF Begin, RegisterCfi, BeginTransition, BeginDecision, BeginSupersede, InsertManifest,
         tables
<1>2. PICK i \in Ids :
         \/ RegisterCfi(w, i)
         \/ \E to_state \in LifecycleState : BeginTransition(w, i, to_state)
         \/ \E status \in Decisions : BeginDecision(w, i, status)
         \/ \E successor \in Ids : BeginSupersede(w, i, successor)
         \/ \E e \in Epochs : InsertManifest(w, e, i)
  BY DEF Begin
<1>3. CASE RegisterCfi(w, i)
  BY <1>1, <1>3, RegisterStarts, VersionsKept
<1>4. ASSUME NEW to \in LifecycleState, BeginTransition(w, i, to) PROVE VersionsInv'
  <2>1. \E old \in versions[i] : Versions!IsMove(old, Transition(lifecycle[i], to))
    BY <1>4, MoveOfRow DEF BeginTransition
  <2>2. /\ job'[w].id = i /\ job'[w].copy = Transition(lifecycle[i], to)
        /\ \A v \in Workers \ {w} : pc'[v] = pc[v] /\ job'[v] = job[v]
    BY <1>4, TransitionStarts
  <2> QED BY <1>1, <2>1, <2>2, VersionsKept
<1>5. ASSUME NEW s \in Decisions, BeginDecision(w, i, s) PROVE VersionsInv'
  BY <1>1, <1>5, DecisionStarts, VersionsKept
<1>6. ASSUME NEW n \in Ids, BeginSupersede(w, i, n) PROVE VersionsInv'
  BY <1>1, <1>6, SupersedeStarts, VersionsKept
<1>7. ASSUME NEW e \in Epochs, InsertManifest(w, e, i) PROVE VersionsInv'
  BY <1>1, <1>7, PublishStarts, VersionsKept
<1> QED BY <1>1, <1>2, <1>3, <1>4, <1>5, <1>6, <1>7

\* A continuing request either writes no row, or writes the first version of
\* an artifact, or a legal move from one of its versions.
LEMMA VersionsContinue ==
  ASSUME TypeOK, RequestsInStep, RequestsInStep', VersionsInv, Watch,
         NEW w \in Workers, Continue(w)
  PROVE  /\ VersionsInv'
         /\ UNCHANGED lifecycle \/ \E i \in Ids : Versions!Publish(i) \/ Versions!Move(i)
<1>1. ThreadsType /\ TablesType
  BY TypeSplit
<1>2. CASE RegisterArtifact(w)
  <2> DEFINE i == job[w].id
  <2>1. /\ pc[w] = "register.record" /\ pc'[w] = "register.ticket"
        /\ \A v \in Workers \ {w} : pc'[v] = pc[v] /\ job'[v] = job[v]
        /\ lifecycle' = [lifecycle EXCEPT ![i] = NewRecord]
    BY <1>2, GotoThread DEF RegisterArtifact, Label
  <2>2. i \in Ids /\ lifecycle[i] = NoRecord
    BY <1>1, <2>1, AtLabel DEF RequestsInStep
  <2>3. VersionsInv' /\ versions' = [versions EXCEPT ![i] = @ \cup {NewRecord}]
    BY <2>1, <2>2, NewRecordType, VersionsWritten
  <2>4. versions[i] = {}
    BY <2>2 DEF VersionsInv, CopiesAreMoves
  <2>5. Versions!Publish(i)
    BY <2>1, <2>3, <2>4, SameRules DEF Versions!Publish, Versions!Write
  <2> QED BY <2>2, <2>3, <2>5
<1>3. CASE SaveArtifact(w)
  <2> DEFINE i == job[w].id
             r == job[w].copy
  <2>1. /\ pc[w] = "save" /\ pc'[w] = "history"
        /\ \A v \in Workers \ {w} : pc'[v] = pc[v] /\ job'[v] = job[v]
        /\ lifecycle' = [lifecycle EXCEPT ![i] = r]
    BY <1>3, GotoThread DEF SaveArtifact, Label
  <2>2. i \in Ids /\ r \in ArtifactRecord
    BY <1>1, <2>1, AtLabel
  <2>3. VersionsInv' /\ versions' = [versions EXCEPT ![i] = @ \cup {r}]
    BY <2>1, <2>2, VersionsWritten
  <2>4. PICK old \in versions[i] : Versions!IsMove(old, r)
    BY <2>1 DEF VersionsInv, CopiesAreMoves
  <2>5. Versions!Moved(i, r)
    BY <2>1, <2>3, <2>4 DEF Versions!Moved, Versions!Write
  <2>6. Versions!Move(i)
    <3>1. \/ \E to \in Versions!VALID_TRANSITIONS[old.state] : r = Versions!Transition(old, to)
          \/ \E n \in Ids : r = Versions!Supersede(old, n)
      BY <2>4 DEF Versions!IsMove
    <3> HIDE DEF r
    <3> QED BY <2>5, <3>1 DEF Versions!Move
  <2> QED BY <2>2, <2>3, <2>6
<1>4. CASE DecideTransition(w)
  <2> DEFINE record == lifecycle[job[w].id]
             to     == DecidedState(job[w].status)
  <2>1. UNCHANGED lifecycle
    BY <1>4 DEF DecideTransition, tables
  <2>2. CASE record # NoRecord /\ Allowed(record, to)
    <3>1. pc[w] # "idle" /\ job[w].id \in Ids /\ to \in LifecycleState
      BY <1>1, <1>4, AtLabel DEF DecideTransition, DecidedState, LifecycleState
    <3>2. \E old \in versions[job[w].id] : Versions!IsMove(old, Transition(record, to))
      BY <2>2, <3>1, MoveOfRow
    <3>3. /\ job'[w].id = job[w].id /\ job'[w].copy = Transition(record, to)
          /\ \A v \in Workers \ {w} : pc'[v] = pc[v] /\ job'[v] = job[v]
      BY <1>4, <2>2, CopyThread DEF DecideTransition
    <3> QED BY <2>1, <3>2, <3>3, VersionsKept
  <2>3. CASE ~ (record # NoRecord /\ Allowed(record, to))
    BY <1>4, <2>1, <2>3, FinishThread, VersionsKept DEF DecideTransition
  <2> QED BY <2>1, <2>2, <2>3
<1>5. CASE ReadForSupersede(w)
  <2> DEFINE record == lifecycle[job[w].id]
  <2>1. UNCHANGED lifecycle
    BY <1>5 DEF ReadForSupersede, tables
  <2>2. CASE record # NoRecord /\ Allowed(record, "superseded")
    <3>1. pc[w] # "idle" /\ job[w].id \in Ids /\ job[w].successor \in Ids
      BY <1>1, <1>5, AtLabel DEF ReadForSupersede
    <3>2. \E old \in versions[job[w].id] :
            Versions!IsMove(old, Supersede(record, job[w].successor))
      BY <2>2, <3>1, SupersessionOfRow
    <3>3. /\ job'[w].id = job[w].id /\ job'[w].copy = Supersede(record, job[w].successor)
          /\ \A v \in Workers \ {w} : pc'[v] = pc[v] /\ job'[v] = job[v]
      BY <1>5, <2>2, CopyThread DEF ReadForSupersede
    <3> QED BY <2>1, <3>2, <3>3, VersionsKept
  <2>3. CASE ~ (record # NoRecord /\ Allowed(record, "superseded"))
    BY <1>5, <2>1, <2>3, FinishThread, VersionsKept DEF ReadForSupersede
  <2> QED BY <2>1, <2>2, <2>3
<1>6. ASSUME NEW next \in Label \ {"save"}, Goto(w, next), UNCHANGED lifecycle
      PROVE  VersionsInv'
  BY <1>6, GotoThread, VersionsKept
<1>7. ASSUME Finish(w), UNCHANGED lifecycle PROVE VersionsInv'
  BY <1>7, FinishThread, VersionsKept
<1>8. CASE \/ EnqueueReview(w) \/ AppendLifecycleEvent(w) \/ SaveReviewTicket(w)
           \/ AppendSupersession(w)
  BY <1>6, <1>8 DEF EnqueueReview, AppendLifecycleEvent, SaveReviewTicket, AppendSupersession,
                    Label
<1>9. CASE \/ AuditRegister(w) \/ AuditDecision(w) \/ AuditSupersede(w) \/ AuditPublish(w)
           \/ AuditTransition(w)
  BY <1>6, <1>7, <1>9 DEF AuditRegister, AuditDecision, AuditSupersede, AuditPublish,
                          AuditTransition, Label
<1> QED BY <1>2, <1>3, <1>4, <1>5, <1>8, <1>9 DEF Continue

LEMMA VersionsStep ==
  ASSUME TypeOK, RequestsInStep, RequestsInStep', VersionsInv, [NextV]_varsV
  PROVE  VersionsInv' /\ [Versions!Next]_<<lifecycle, versions>>
<1>1. CASE UNCHANGED varsV
  BY <1>1 DEF varsV, vars, tables, threads, VersionsInv, CopiesAreMoves
<1>2. CASE Crash /\ Watch
  <2>1. UNCHANGED lifecycle /\ \A w \in Workers : pc'[w] = "idle"
    BY <1>2 DEF Crash, tables
  <2>2. UNCHANGED versions
    BY <1>2, <2>1, UnwatchedStep
  <2> QED BY <2>1, <2>2 DEF VersionsInv, CopiesAreMoves
<1>3. ASSUME NEW w \in Workers, Begin(w), Watch
      PROVE  VersionsInv' /\ UNCHANGED <<lifecycle, versions>>
  BY <1>3, VersionsBegin, UnwatchedStep
<1>4. ASSUME NEW w \in Workers, Continue(w), Watch
      PROVE  VersionsInv' /\ [Versions!Next]_<<lifecycle, versions>>
  BY <1>4, VersionsContinue, UnwatchedStep DEF Versions!Next
<1> QED BY <1>1, <1>2, <1>3, <1>4 DEF NextV, Next

\* The copy a thread is about to write is one legal move from a version of
\* the same artifact.
THEOREM CopiesAreAlwaysMoves == SpecV => []CopiesAreMoves
<1>1. InitV => VersionsInv
  BY DEF InitV, Init, VersionsInv, CopiesAreMoves
<1>2. VersionsInv => CopiesAreMoves
  BY DEF VersionsInv
<1>3. TypeOK /\ RequestsInStep /\ RequestsInStep' /\ VersionsInv /\ [NextV]_varsV => VersionsInv'
  BY VersionsStep
<1> QED BY <1>1, <1>2, <1>3, SpecVImpliesSpec, TypeCorrect, RequestsStayInStep, PTL DEF SpecV

\* Overlapping requests may lose moves of an artifact but invent none.
THEOREM OverlapImplementsVersions == SpecV => ImplementsVersions
<1>1. InitV => VersionsInv
  BY DEF InitV, Init, VersionsInv, CopiesAreMoves
<1>2. InitV => Versions!Init
  BY SameRules DEF InitV, Init, Versions!Init
<1>3. TypeOK /\ RequestsInStep /\ RequestsInStep' /\ VersionsInv /\ [NextV]_varsV =>
        VersionsInv' /\ [Versions!Next]_<<lifecycle, versions>>
  BY VersionsStep
<1> QED BY <1>1, <1>2, <1>3, SpecVImpliesSpec, TypeCorrect, RequestsStayInStep, PTL
        DEF SpecV, Versions!Spec, ImplementsVersions

-----------------------------------------------------------------------------
(* One thread: the copy it is about to write is a move of the row itself.  *)

SingleThread == \A v, w \in Workers : v = w

\* One move of LifecycleSerial.
SerialMove(old, new) ==
  \/ \E to \in VALID_TRANSITIONS[old.state] : new = Transition(old, to)
  \/ old.state = "active" /\ \E n \in Ids : new = Supersede(old, n)

SerialInv ==
  \A w \in Workers : pc[w] = "save" => SerialMove(lifecycle[job[w].id], job[w].copy)

LEMMA SameSerialRules ==
  /\ Serial!NewRecord = NewRecord /\ Serial!NoRecord = NoRecord
  /\ Serial!VALID_TRANSITIONS = VALID_TRANSITIONS
  /\ \A r, s : Serial!Transition(r, s) = Transition(r, s)
  /\ \A r, i : Serial!Supersede(r, i) = Supersede(r, i)
BY DEF Serial!NewRecord, NewRecord, Serial!NoRecord, NoRecord,
       Serial!VALID_TRANSITIONS, VALID_TRANSITIONS,
       Serial!Transition, Transition, Serial!Supersede, Supersede

\* Only an active record may be superseded.
LEMMA SupersededFromActive ==
  ASSUME NEW r \in ArtifactRecord, Allowed(r, "superseded")
  PROVE  r.state = "active"
BY DEF Allowed, VALID_TRANSITIONS, ArtifactRecord, LifecycleState

LEMMA SerialBegin ==
  ASSUME TypeOK, SingleThread, NEW w \in Workers, Begin(w)
  PROVE  SerialInv' /\ UNCHANGED lifecycle
<1>1. UNCHANGED lifecycle
  BY DEF Begin, RegisterCfi, BeginTransition, BeginDecision, BeginSupersede, InsertManifest,
         tables
<1>2. SUFFICES ASSUME pc'[w] = "save"
               PROVE  SerialMove(lifecycle'[job'[w].id], job'[w].copy)
  BY <1>1 DEF SerialInv, SingleThread
<1>3. PICK i \in Ids :
         \/ RegisterCfi(w, i)
         \/ \E to_state \in LifecycleState : BeginTransition(w, i, to_state)
         \/ \E status \in Decisions : BeginDecision(w, i, status)
         \/ \E successor \in Ids : BeginSupersede(w, i, successor)
         \/ \E e \in Epochs : InsertManifest(w, e, i)
  BY DEF Begin
<1>4. \E to \in LifecycleState : BeginTransition(w, i, to)
  BY <1>2, <1>3, RegisterStarts, DecisionStarts, SupersedeStarts, PublishStarts
<1>5. PICK to \in LifecycleState : BeginTransition(w, i, to)
  BY <1>4
<1>6. to \in VALID_TRANSITIONS[lifecycle[i].state]
  BY <1>5 DEF BeginTransition, Allowed
<1>7. job'[w].id = i /\ job'[w].copy = Transition(lifecycle[i], to)
  BY <1>5, TransitionStarts
<1> QED BY <1>1, <1>6, <1>7 DEF SerialMove

\* A lone request either writes no row, or publishes an artifact, or makes
\* one move of the artifact as it is.
LEMMA SerialContinue ==
  ASSUME TypeOK, RequestsInStep, SerialInv, SingleThread, NEW w \in Workers, Continue(w)
  PROVE  SerialInv' /\ [Serial!Next]_lifecycle
<1>1. ThreadsType /\ TablesType
  BY TypeSplit
<1>2. ASSUME pc'[w] # "save" PROVE SerialInv'
  BY <1>2 DEF SerialInv, SingleThread
<1>3. CASE RegisterArtifact(w)
  <2>1. pc[w] = "register.record" /\ pc'[w] # "save"
    BY <1>3, GotoThread DEF RegisterArtifact, Label
  <2>2. job[w].id \in Ids /\ lifecycle[job[w].id] = NoRecord
    BY <1>1, <2>1, AtLabel DEF RequestsInStep
  <2>3. Serial!Publish(job[w].id)
    BY <1>3, <2>2, SameSerialRules DEF RegisterArtifact, Serial!Publish
  <2> QED BY <1>2, <2>1, <2>2, <2>3 DEF Serial!Next
<1>4. CASE SaveArtifact(w)
  <2> DEFINE i == job[w].id
             old == lifecycle[i]
             new == job[w].copy
  <2>1. /\ pc[w] = "save" /\ pc'[w] # "save"
        /\ lifecycle' = [lifecycle EXCEPT ![i] = new]
    BY <1>4, GotoThread DEF SaveArtifact, Label
  <2>2. i \in Ids /\ old # NoRecord /\ SerialMove(old, new)
    BY <1>1, <2>1, AtLabel DEF RequestsInStep, SerialInv
  <2>3. CASE \E to \in VALID_TRANSITIONS[old.state] : new = Transition(old, to)
    <3>1. PICK to \in VALID_TRANSITIONS[old.state] : new = Transition(old, to)
      BY <2>3
    <3>2. lifecycle' = [lifecycle EXCEPT ![i] = Serial!Transition(@, to)]
      BY <2>1, <3>1, SameSerialRules
    <3>3. Serial!Move(i)
      BY <2>2, <3>1, <3>2, SameSerialRules DEF Serial!Move
    <3> QED BY <1>2, <2>1, <2>2, <3>3 DEF Serial!Next
  <2>4. CASE old.state = "active" /\ \E n \in Ids : new = Supersede(old, n)
    <3>1. PICK n \in Ids : new = Supersede(old, n)
      BY <2>4
    <3>2. lifecycle' = [lifecycle EXCEPT ![i] = Serial!Supersede(@, n)]
      BY <2>1, <3>1, SameSerialRules
    <3>3. Serial!Succeed(i)
      BY <2>4, <3>2 DEF Serial!Succeed
    <3> QED BY <1>2, <2>1, <2>2, <3>3 DEF Serial!Next
  <2> QED BY <2>2, <2>3, <2>4 DEF SerialMove
<1>5. CASE DecideTransition(w)
  <2> DEFINE record == lifecycle[job[w].id]
             to     == DecidedState(job[w].status)
  <2>1. UNCHANGED lifecycle
    BY <1>5 DEF DecideTransition, tables
  <2>2. CASE record # NoRecord /\ Allowed(record, to)
    <3>1. job'[w].id = job[w].id /\ job'[w].copy = Transition(record, to)
      BY <1>1, <1>5, <2>2, CopyThread DEF DecideTransition
    <3>2. SerialMove(lifecycle'[job'[w].id], job'[w].copy)
      BY <2>1, <2>2, <3>1 DEF SerialMove, Allowed
    <3> QED BY <2>1, <3>2 DEF SerialInv, SingleThread
  <2>3. CASE ~ (record # NoRecord /\ Allowed(record, to))
    BY <1>2, <1>5, <2>1, <2>3, FinishThread DEF DecideTransition
  <2> QED BY <2>2, <2>3
<1>6. CASE ReadForSupersede(w)
  <2> DEFINE record == lifecycle[job[w].id]
             n      == job[w].successor
  <2>1. UNCHANGED lifecycle
    BY <1>6 DEF ReadForSupersede, tables
  <2>2. CASE record # NoRecord /\ Allowed(record, "superseded")
    <3>1. job[w].id \in Ids /\ n \in Ids
      BY <1>1, <1>6, AtLabel DEF ReadForSupersede
    <3>2. record.state = "active"
      BY <2>2, <3>1, SupersededFromActive DEF TypeOK
    <3>3. job'[w].id = job[w].id /\ job'[w].copy = Supersede(record, n)
      BY <1>1, <1>6, <2>2, CopyThread DEF ReadForSupersede
    <3>4. SerialMove(lifecycle'[job'[w].id], job'[w].copy)
      BY <2>1, <3>1, <3>2, <3>3 DEF SerialMove
    <3> QED BY <2>1, <3>4 DEF SerialInv, SingleThread
  <2>3. CASE ~ (record # NoRecord /\ Allowed(record, "superseded"))
    BY <1>2, <1>6, <2>1, <2>3, FinishThread DEF ReadForSupersede
  <2> QED BY <2>2, <2>3
<1>7. ASSUME NEW next \in Label \ {"save"}, Goto(w, next) PROVE SerialInv'
  BY <1>2, <1>7, GotoThread
<1>8. ASSUME Finish(w) PROVE SerialInv'
  BY <1>2, <1>8, FinishThread
<1>9. CASE \/ EnqueueReview(w) \/ AppendLifecycleEvent(w) \/ SaveReviewTicket(w)
           \/ AppendSupersession(w)
  BY <1>7, <1>9 DEF EnqueueReview, AppendLifecycleEvent, SaveReviewTicket, AppendSupersession,
                    Label
<1>10. CASE \/ AuditRegister(w) \/ AuditDecision(w) \/ AuditSupersede(w) \/ AuditPublish(w)
            \/ AuditTransition(w)
  BY <1>7, <1>8, <1>10 DEF AuditRegister, AuditDecision, AuditSupersede, AuditPublish,
                           AuditTransition, Label
<1> QED BY <1>3, <1>4, <1>5, <1>6, <1>9, <1>10 DEF Continue

LEMMA SerialStep ==
  ASSUME TypeOK, RequestsInStep, SerialInv, SingleThread, [Next]_vars
  PROVE  SerialInv' /\ [Serial!Next]_lifecycle
<1>1. CASE UNCHANGED vars
  BY <1>1 DEF vars, tables, threads, SerialInv
<1>2. CASE Crash
  BY <1>2 DEF Crash, tables, SerialInv
<1>3. ASSUME NEW w \in Workers, Begin(w) PROVE SerialInv' /\ UNCHANGED lifecycle
  BY <1>3, SerialBegin
<1>4. ASSUME NEW w \in Workers, Continue(w) PROVE SerialInv' /\ [Serial!Next]_lifecycle
  BY <1>4, SerialContinue
<1> QED BY <1>1, <1>2, <1>3, <1>4 DEF Next

\* Requests that one thread runs one after the other, crashes between their
\* transactions included, publish an artifact once and move it as it is by
\* whole legal moves (PostgresRegistryStore).
THEOREM LoneThreadImplementsSerial ==
  ASSUME SingleThread
  PROVE  Spec => ImplementsSerial
<1>1. Init => SerialInv /\ Serial!Init
  BY SameSerialRules DEF Init, SerialInv, Serial!Init
<1>2. TypeOK /\ RequestsInStep /\ SerialInv /\ [Next]_vars =>
        SerialInv' /\ [Serial!Next]_lifecycle
  BY SerialStep
<1> QED BY <1>1, <1>2, TypeCorrect, RequestsStayInStep, PTL DEF Spec, Serial!Spec, ImplementsSerial
=============================================================================
