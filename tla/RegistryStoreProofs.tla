-------------------------- MODULE RegistryStoreProofs --------------------------
(***************************************************************************)
(* Proofs about RegistryStore for any number of threads, invariants,       *)
(* epochs, requests and crashes.                                           *)
(***************************************************************************)
EXTENDS RegistryStore, SequenceTheorems, TLAPS

(* The operators of the lifecycle rules. *)

LEMMA GraphType == VALID_TRANSITIONS \in [LifecycleState -> SUBSET LifecycleState]
BY DEF VALID_TRANSITIONS, LifecycleState

LEMMA NewRecordType == NewRecord \in ArtifactRecord /\ NewRecord # NoRecord
BY DEF NewRecord, ArtifactRecord, NoRecord, LifecycleState

LEMMA RecordIsPresent ==
  ASSUME NEW r \in ArtifactRecord PROVE r # NoRecord
BY DEF ArtifactRecord, NoRecord, LifecycleState

LEMMA TransitionType ==
  ASSUME NEW r \in ArtifactRecord, NEW s \in LifecycleState
  PROVE  /\ Transition(r, s) \in ArtifactRecord
         /\ Transition(r, s).state = s
         /\ Transition(r, s).supersession_chain = r.supersession_chain
         /\ Transition(r, s).history
              = Append(r.history, [from_state |-> r.state, to_state |-> s])
<1> DEFINE e == [from_state |-> r.state, to_state |-> s]
<1>1. e \in LifecycleEvent
  BY DEF LifecycleEvent, ArtifactRecord
<1>2. Append(r.history, e) \in Seq(LifecycleEvent)
  BY <1>1, AppendProperties DEF ArtifactRecord
<1>3. Transition(r, s) = [r EXCEPT !.history = Append(@, e), !.state = s]
  BY DEF Transition
<1> HIDE DEF e
<1>4. Transition(r, s) = [state |-> s, history |-> Append(r.history, e),
                          supersession_chain |-> r.supersession_chain]
  BY <1>3 DEF ArtifactRecord
<1>5. Transition(r, s) \in ArtifactRecord
  BY <1>2, <1>4 DEF ArtifactRecord
<1> QED BY <1>4, <1>5 DEF e

LEMMA SupersedeType ==
  ASSUME NEW r \in ArtifactRecord, NEW i \in Ids
  PROVE  /\ Supersede(r, i) \in ArtifactRecord
         /\ Supersede(r, i).state = "superseded"
         /\ Supersede(r, i).history
              = Append(r.history, [from_state |-> r.state, to_state |-> "superseded"])
<1> DEFINE c == [r EXCEPT !.supersession_chain = Append(@, i)]
<1>1. c \in ArtifactRecord /\ c.state = r.state /\ c.history = r.history
  <2>1. Append(r.supersession_chain, i) \in Seq(Ids)
    BY AppendProperties DEF ArtifactRecord
  <2> QED BY <2>1 DEF ArtifactRecord
<1>2. "superseded" \in LifecycleState
  BY DEF LifecycleState
<1>3. Supersede(r, i) = Transition(c, "superseded")
  BY DEF Supersede
<1> HIDE DEF c
<1> QED BY <1>1, <1>2, <1>3, TransitionType

-----------------------------------------------------------------------------
(* Type correctness. *)

JobType == [id : Ids \cup {NoId}, copy : ArtifactRecord \cup {NoRecord},
            status : Decisions \cup {"none"}, successor : Ids \cup {NoId}]

ThreadsType ==
  /\ pc \in [Workers -> Label]
  /\ job \in [Workers -> JobType]
  /\ \A w \in Workers : JobFits(pc[w], job[w])
  /\ requests \in 0 .. MaxRequests
  /\ crashes \in 0 .. MaxCrashes

TablesType ==
  /\ cfis \subseteq Ids
  /\ lifecycle \in [Ids -> ArtifactRecord \cup {NoRecord}]
  /\ tickets \in [Ids -> ReviewStatus \cup {"none"}]
  /\ historyRows \in Seq([id : Ids, from_state : LifecycleState, to_state : LifecycleState])
  /\ chainRows \in Seq([id : Ids, successor : Ids])
  /\ manifests \in [Epochs -> Ids \cup {NoId}]
  /\ audit \in Seq([action : Actions, id : Ids,
                    detail : LifecycleState \cup Decisions \cup {"none"}])

LEMMA TypeSplit == TypeOK <=> TablesType /\ ThreadsType
BY DEF TypeOK, TablesType, ThreadsType, JobType

LEMMA NoJobType ==
  /\ NoJob \in JobType
  /\ \A i \in Ids :
       /\ [NoJob EXCEPT !.id = i] \in JobType
       /\ \A r \in ArtifactRecord : [NoJob EXCEPT !.id = i, !.copy = r] \in JobType
       /\ \A s \in Decisions : [NoJob EXCEPT !.id = i, !.status = s] \in JobType
       /\ \A n \in Ids : [NoJob EXCEPT !.id = i, !.successor = n] \in JobType
BY DEF NoJob, JobType

LEMMA NoJobFields ==
  \A i \in Ids :
    /\ [NoJob EXCEPT !.id = i].id = i /\ [NoJob EXCEPT !.id = i].status = "none"
    /\ \A r : LET j == [NoJob EXCEPT !.id = i, !.copy = r]
             IN j.id = i /\ j.copy = r /\ j.status = "none" /\ j.successor = NoId
    /\ \A s : LET j == [NoJob EXCEPT !.id = i, !.status = s]
             IN j.id = i /\ j.status = s /\ j.successor = NoId
    /\ \A n : LET j == [NoJob EXCEPT !.id = i, !.successor = n]
             IN j.id = i /\ j.status = "none" /\ j.successor = n
BY DEF NoJob

LEMMA StartType ==
  ASSUME ThreadsType, NEW w \in Workers, NEW next \in Label, NEW locals \in JobType,
         JobFits(next, locals), Start(w, next, locals)
  PROVE  ThreadsType'
BY BoundsAssumption DEF ThreadsType, Start

LEMMA GotoType ==
  ASSUME ThreadsType, NEW w \in Workers, NEW next \in Label,
         JobFits(next, job[w]), Goto(w, next)
  PROVE  ThreadsType'
BY DEF ThreadsType, Goto

LEMMA CopyType ==
  ASSUME ThreadsType, NEW w \in Workers, pc[w] # "idle", NEW r \in ArtifactRecord,
         pc' = [pc EXCEPT ![w] = "save"], job' = [job EXCEPT ![w].copy = r],
         UNCHANGED <<requests, crashes>>
  PROVE  ThreadsType'
<1>1. "save" \in Label
  BY DEF Label
<1>2. [job[w] EXCEPT !.copy = r] \in JobType /\ job[w].id \in Ids
  BY DEF ThreadsType, JobType, JobFits
<1>3. JobFits("save", [job[w] EXCEPT !.copy = r])
  BY <1>2 DEF JobFits, JobType, ThreadsType
<1>4. job' = [job EXCEPT ![w] = [job[w] EXCEPT !.copy = r]]
  BY DEF ThreadsType
<1> QED BY <1>1, <1>2, <1>3, <1>4 DEF ThreadsType

LEMMA FinishType ==
  ASSUME ThreadsType, NEW w \in Workers, Finish(w)
  PROVE  ThreadsType'
<1>1. "idle" \in Label /\ JobFits("idle", NoJob)
  BY DEF Label, JobFits
<1> QED BY <1>1, NoJobType DEF ThreadsType, Finish

LEMMA LogType ==
  ASSUME TablesType, NEW a \in Actions, NEW i \in Ids,
         NEW d \in LifecycleState \cup Decisions \cup {"none"}, Log(a, i, d)
  PROVE  audit' \in Seq([action : Actions, id : Ids,
                         detail : LifecycleState \cup Decisions \cup {"none"}])
BY AppendProperties DEF TablesType, Log, AuditEvent

LEMMA BeginType ==
  ASSUME TypeOK, NEW w \in Workers, Begin(w)
  PROVE  TypeOK'
<1>1. TablesType /\ ThreadsType
  BY TypeSplit
<1>2. PICK i \in Ids :
         \/ RegisterCfi(w, i)
         \/ \E to_state \in LifecycleState : BeginTransition(w, i, to_state)
         \/ \E status \in Decisions : BeginDecision(w, i, status)
         \/ \E successor \in Ids : BeginSupersede(w, i, successor)
         \/ \E e \in Epochs : InsertManifest(w, e, i)
  BY DEF Begin
<1>3. ASSUME UNCHANGED tables PROVE TablesType'
  BY <1>1, <1>3 DEF TablesType, tables
<1>4. CASE RegisterCfi(w, i)
  <2>1. "register.record" \in Label /\ JobFits("register.record", [NoJob EXCEPT !.id = i])
    BY DEF Label, JobFits, NoJob
  <2>2. ThreadsType'
    BY <1>1, <1>4, <2>1, NoJobType, StartType DEF RegisterCfi
  <2>3. TablesType'
    BY <1>1, <1>4 DEF TablesType, RegisterCfi
  <2> QED BY <2>2, <2>3 DEF TypeOK, TablesType, ThreadsType, JobType
<1>5. ASSUME NEW to \in LifecycleState, BeginTransition(w, i, to) PROVE TypeOK'
  <2> DEFINE r == Transition(lifecycle[i], to)
  <2>1. r \in ArtifactRecord
    BY <1>1, <1>5, TransitionType DEF BeginTransition, TablesType
  <2> HIDE DEF r
  <2>2. "save" \in Label /\ JobFits("save", [NoJob EXCEPT !.id = i, !.copy = r])
    BY <2>1 DEF Label, JobFits, NoJob
  <2>3. ThreadsType'
    BY <1>1, <1>5, <2>1, <2>2, NoJobType, StartType DEF BeginTransition, r
  <2>4. TablesType'
    BY <1>3, <1>5 DEF BeginTransition
  <2> QED BY <2>3, <2>4 DEF TypeOK, TablesType, ThreadsType, JobType
<1>6. ASSUME NEW s \in Decisions, BeginDecision(w, i, s) PROVE TypeOK'
  <2>1. "decide.save" \in Label /\ JobFits("decide.save", [NoJob EXCEPT !.id = i, !.status = s])
    BY DEF Label, JobFits, NoJob
  <2>2. ThreadsType'
    BY <1>1, <1>6, <2>1, NoJobType, StartType DEF BeginDecision
  <2>3. TablesType'
    BY <1>3, <1>6 DEF BeginDecision
  <2> QED BY <2>2, <2>3 DEF TypeOK, TablesType, ThreadsType, JobType
<1>7. ASSUME NEW n \in Ids, BeginSupersede(w, i, n) PROVE TypeOK'
  <2>1. "supersede.read" \in Label
        /\ JobFits("supersede.read", [NoJob EXCEPT !.id = i, !.successor = n])
    BY DEF Label, JobFits, NoJob
  <2>2. ThreadsType'
    BY <1>1, <1>7, <2>1, NoJobType, StartType DEF BeginSupersede
  <2>3. TablesType'
    BY <1>3, <1>7 DEF BeginSupersede
  <2> QED BY <2>2, <2>3 DEF TypeOK, TablesType, ThreadsType, JobType
<1>8. ASSUME NEW e \in Epochs, InsertManifest(w, e, i) PROVE TypeOK'
  <2>1. "publish.audit" \in Label /\ JobFits("publish.audit", [NoJob EXCEPT !.id = i])
    BY DEF Label, JobFits, NoJob
  <2>2. ThreadsType'
    BY <1>1, <1>8, <2>1, NoJobType, StartType DEF InsertManifest
  <2>3. TablesType'
    BY <1>1, <1>8 DEF TablesType, InsertManifest
  <2> QED BY <2>2, <2>3 DEF TypeOK, TablesType, ThreadsType, JobType
<1> QED BY <1>2, <1>4, <1>5, <1>6, <1>7, <1>8

\* Where a request under way stands, and what its locals are there.
LEMMA AtLabel ==
  ASSUME ThreadsType, NEW w \in Workers, pc[w] # "idle"
  PROVE  /\ job[w] \in JobType /\ job[w].id \in Ids
         /\ pc[w] \in {"save", "history", "chain", "transition.audit", "supersede.audit"} =>
              job[w].copy \in ArtifactRecord /\ job[w].copy.state \in LifecycleState
         /\ pc[w] \in {"decide.save", "decide.transition", "decide.audit"} =>
              job[w].status \in Decisions
         /\ pc[w] \in {"supersede.read", "chain", "supersede.audit"} =>
              job[w].successor \in Ids
BY DEF ThreadsType, JobFits, ArtifactRecord

LEMMA ContinueType ==
  ASSUME TypeOK, NEW w \in Workers, Continue(w)
  PROVE  TypeOK'
<1> SUFFICES TablesType' /\ ThreadsType'
  BY DEF TypeOK, TablesType, ThreadsType, JobType
<1>1. TablesType /\ ThreadsType
  BY TypeSplit
<1>2. ASSUME UNCHANGED tables PROVE TablesType'
  BY <1>1, <1>2 DEF TablesType, tables
<1>3. CASE RegisterArtifact(w)
  <2>1. job[w].id \in Ids /\ "register.ticket" \in Label /\ JobFits("register.ticket", job[w])
    BY <1>1, <1>3, AtLabel DEF RegisterArtifact, Label, JobFits
  <2>2. ThreadsType'
    BY <1>1, <1>3, <2>1, GotoType DEF RegisterArtifact
  <2> QED BY <1>1, <1>3, <2>1, <2>2, NewRecordType DEF TablesType, RegisterArtifact
<1>4. CASE EnqueueReview(w)
  <2>1. job[w].id \in Ids /\ "register.audit" \in Label /\ JobFits("register.audit", job[w])
    BY <1>1, <1>4, AtLabel DEF EnqueueReview, Label, JobFits
  <2>2. ThreadsType'
    BY <1>1, <1>4, <2>1, GotoType DEF EnqueueReview
  <2> QED BY <1>1, <1>4, <2>1, <2>2 DEF TablesType, EnqueueReview, ReviewStatus
<1>5. CASE AuditRegister(w)
  <2>1. job[w].id \in Ids /\ "cfi.registered" \in Actions
        /\ "reviewed" \in LifecycleState \cup Decisions \cup {"none"}
    BY <1>1, <1>5, AtLabel DEF AuditRegister, Actions, LifecycleState
  <2> QED BY <1>1, <1>5, <2>1, FinishType, LogType DEF TablesType, AuditRegister
<1>6. CASE SaveArtifact(w)
  <2>1. /\ job[w].id \in Ids /\ job[w].copy \in ArtifactRecord
        /\ "history" \in Label /\ JobFits("history", job[w])
    BY <1>1, <1>6, AtLabel DEF SaveArtifact, Label, JobFits
  <2>2. ThreadsType'
    BY <1>1, <1>6, <2>1, GotoType DEF SaveArtifact
  <2> QED BY <1>1, <1>6, <2>1, <2>2 DEF TablesType, SaveArtifact
<1>7. CASE AppendLifecycleEvent(w)
  <2> DEFINE moved == job[w].copy.state
             row   == [id |-> job[w].id, from_state |-> moved, to_state |-> moved]
             next  == IF job[w].successor # NoId THEN "chain" ELSE "transition.audit"
  <2>1. /\ job[w] \in JobType /\ job[w].id \in Ids
        /\ job[w].copy \in ArtifactRecord /\ moved \in LifecycleState
    BY <1>1, <1>7, AtLabel DEF AppendLifecycleEvent
  <2>2. row \in [id : Ids, from_state : LifecycleState, to_state : LifecycleState]
    BY <2>1
  <2>3. historyRows' \in Seq([id : Ids, from_state : LifecycleState, to_state : LifecycleState])
    BY <1>1, <1>7, <2>2, AppendProperties DEF TablesType, AppendLifecycleEvent
  <2>4. next \in Label /\ JobFits(next, job[w])
    BY <2>1 DEF Label, JobFits, JobType
  <2>5. ThreadsType'
    BY <1>1, <1>7, <2>4, GotoType DEF AppendLifecycleEvent
  <2> QED BY <1>1, <1>7, <2>3, <2>5 DEF TablesType, AppendLifecycleEvent
<1>8. CASE AuditTransition(w)
  <2>1. /\ job[w] \in JobType /\ job[w].id \in Ids
        /\ job[w].copy.state \in LifecycleState /\ "lifecycle.transition" \in Actions
    BY <1>1, <1>8, AtLabel DEF AuditTransition, Actions
  <2>2. CASE job[w].status = "none"
    BY <1>1, <1>8, <2>1, <2>2, FinishType, LogType DEF TablesType, AuditTransition
  <2>3. CASE job[w].status # "none"
    <3>1. "decide.audit" \in Label /\ JobFits("decide.audit", job[w])
      BY <2>1, <2>3 DEF Label, JobFits, JobType
    <3>2. ThreadsType'
      BY <1>1, <1>8, <2>3, <3>1, GotoType DEF AuditTransition
    <3> QED BY <1>1, <1>8, <2>1, <3>2, LogType DEF TablesType, AuditTransition
  <2> QED BY <2>2, <2>3
<1>9. CASE SaveReviewTicket(w)
  <2> DEFINE next == IF job[w].status = "needs_generalization" THEN "decide.audit"
                     ELSE "decide.transition"
  <2>1. job[w].id \in Ids /\ job[w].status \in Decisions
    BY <1>1, <1>9, AtLabel DEF SaveReviewTicket
  <2>2. next \in Label /\ JobFits(next, job[w])
    BY <2>1 DEF Label, JobFits
  <2>3. ThreadsType'
    BY <1>1, <1>9, <2>2, GotoType DEF SaveReviewTicket
  <2> QED BY <1>1, <1>9, <2>1, <2>3 DEF TablesType, SaveReviewTicket, Decisions
<1>10. CASE DecideTransition(w)
  <2> DEFINE record == lifecycle[job[w].id]
             to     == DecidedState(job[w].status)
  <2>1. job[w].id \in Ids /\ to \in LifecycleState /\ pc[w] # "idle"
    BY <1>1, <1>10, AtLabel DEF DecideTransition, DecidedState, LifecycleState
  <2>2. CASE record # NoRecord /\ Allowed(record, to)
    <3>1. record \in ArtifactRecord
      BY <1>1, <2>1, <2>2 DEF TablesType
    <3>2. Transition(record, to) \in ArtifactRecord
      BY <2>1, <3>1, TransitionType
    <3>3. ThreadsType'
      BY <1>1, <1>10, <2>1, <2>2, <3>2, CopyType DEF DecideTransition
    <3> QED BY <1>2, <1>10, <3>3 DEF DecideTransition
  <2>3. CASE ~ (record # NoRecord /\ Allowed(record, to))
    BY <1>1, <1>2, <1>10, <2>3, FinishType DEF DecideTransition
  <2> QED BY <2>2, <2>3
<1>11. CASE AuditDecision(w)
  <2>1. /\ job[w].id \in Ids /\ "review.decision" \in Actions
        /\ job[w].status \in LifecycleState \cup Decisions \cup {"none"}
    BY <1>1, <1>11, AtLabel DEF AuditDecision, Actions
  <2> QED BY <1>1, <1>11, <2>1, FinishType, LogType DEF TablesType, AuditDecision
<1>12. CASE ReadForSupersede(w)
  <2> DEFINE record == lifecycle[job[w].id]
  <2>1. job[w].id \in Ids /\ job[w].successor \in Ids /\ pc[w] # "idle"
    BY <1>1, <1>12, AtLabel DEF ReadForSupersede
  <2>2. CASE record # NoRecord /\ Allowed(record, "superseded")
    <3>1. Supersede(record, job[w].successor) \in ArtifactRecord
      BY <1>1, <2>1, <2>2, SupersedeType DEF TablesType
    <3>2. ThreadsType'
      BY <1>1, <1>12, <2>1, <2>2, <3>1, CopyType DEF ReadForSupersede
    <3> QED BY <1>2, <1>12, <3>2 DEF ReadForSupersede
  <2>3. CASE ~ (record # NoRecord /\ Allowed(record, "superseded"))
    BY <1>1, <1>2, <1>12, <2>3, FinishType DEF ReadForSupersede
  <2> QED BY <2>2, <2>3
<1>13. CASE AppendSupersession(w)
  <2>1. /\ job[w].id \in Ids /\ job[w].successor \in Ids /\ job[w].copy \in ArtifactRecord
        /\ "supersede.audit" \in Label /\ JobFits("supersede.audit", job[w])
    BY <1>1, <1>13, AtLabel DEF AppendSupersession, Label, JobFits
  <2>2. ThreadsType'
    BY <1>1, <1>13, <2>1, GotoType DEF AppendSupersession
  <2>3. chainRows' \in Seq([id : Ids, successor : Ids])
    BY <1>1, <1>13, <2>1, AppendProperties DEF TablesType, AppendSupersession
  <2> QED BY <1>1, <1>13, <2>2, <2>3 DEF TablesType, AppendSupersession
<1>14. CASE AuditSupersede(w)
  <2>1. /\ job[w].id \in Ids /\ "cfi.superseded" \in Actions
        /\ "none" \in LifecycleState \cup Decisions \cup {"none"}
    BY <1>1, <1>14, AtLabel DEF AuditSupersede, Actions
  <2> QED BY <1>1, <1>14, <2>1, FinishType, LogType DEF TablesType, AuditSupersede
<1>15. CASE AuditPublish(w)
  <2>1. /\ job[w].id \in Ids /\ "cohort.published" \in Actions
        /\ "none" \in LifecycleState \cup Decisions \cup {"none"}
    BY <1>1, <1>15, AtLabel DEF AuditPublish, Actions
  <2> QED BY <1>1, <1>15, <2>1, FinishType, LogType DEF TablesType, AuditPublish
<1> QED BY <1>3, <1>4, <1>5, <1>6, <1>7, <1>8, <1>9, <1>10, <1>11, <1>12, <1>13, <1>14, <1>15
        DEF Continue

LEMMA CrashType ==
  ASSUME TypeOK, Crash
  PROVE  TypeOK'
<1>1. TablesType'
  BY TypeSplit DEF TablesType, Crash, tables
<1>2. "idle" \in Label /\ JobFits("idle", NoJob) /\ NoJob \in JobType
  BY NoJobType DEF Label, JobFits
<1>3. pc' = [w \in Workers |-> "idle"] /\ job' = [w \in Workers |-> NoJob]
  BY DEF Crash
<1>4. requests' \in 0 .. MaxRequests /\ crashes' \in 0 .. MaxCrashes
  BY BoundsAssumption DEF TypeOK, Crash
<1>5. ThreadsType'
  BY <1>2, <1>3, <1>4 DEF ThreadsType
<1> QED BY <1>1, <1>5 DEF TypeOK, TablesType, ThreadsType, JobType

\* Every table and every thread keeps its type, and a request's locals fit the
\* step it is at.
THEOREM TypeCorrect == Spec => []TypeOK
<1>1. Init => TypeOK
  BY BoundsAssumption DEF Init, TypeOK, Label, NoJob, JobType, JobFits
<1>2. TypeOK /\ [Next]_vars => TypeOK'
  <2> SUFFICES ASSUME TypeOK, [Next]_vars PROVE TypeOK'
    OBVIOUS
  <2>1. CASE UNCHANGED vars
    BY <2>1 DEF TypeOK, vars, tables, threads
  <2>2. CASE Crash
    BY <2>2, CrashType
  <2>3. ASSUME NEW w \in Workers, Begin(w) PROVE TypeOK'
    BY <2>3, BeginType
  <2>4. ASSUME NEW w \in Workers, Continue(w) PROVE TypeOK'
    BY <2>4, ContinueType
  <2> QED BY <2>1, <2>2, <2>3, <2>4 DEF Next
<1>3. QED BY <1>1, <1>2, PTL DEF Spec

-----------------------------------------------------------------------------
(* Registration: the order of its writes, and what a request may rely on.  *)

RegistrationInv == RegistrationOrder /\ RequestsInStep

LEMMA RegistrationInit == Init => RegistrationInv
BY DEF Init, RegistrationInv, RegistrationOrder, RequestsInStep, Registering, NoRecord

\* Actions that leave the registration's tables alone and audit nothing.
LEMMA RegistrationKept ==
  ASSUME TypeOK, RegistrationInv, NEW w \in Workers,
         UNCHANGED <<cfis, lifecycle, tickets, audit>>,
         pc' \in [Workers -> Label],
         \A v \in Workers \ {w} : pc'[v] = pc[v] /\ job'[v] = job[v],
         ~ Registering(w)',
         pc'[w] = "save" => lifecycle[job'[w].id] # NoRecord,
         pc'[w] \in {"register.audit", "decide.save"} => tickets[job'[w].id] # "none"
  PROVE  RegistrationInv'
<1>1. RegistrationOrder'
  BY DEF RegistrationInv, RegistrationOrder
<1>2. RequestsInStep'
  BY DEF RegistrationInv, RequestsInStep, Registering
<1> QED BY <1>1, <1>2 DEF RegistrationInv

LEMMA StartThread ==
  ASSUME TypeOK, NEW w \in Workers, NEW next \in Label, NEW locals \in JobType,
         Start(w, next, locals)
  PROVE  /\ pc[w] = "idle" /\ pc'[w] = next /\ job'[w] = locals
         /\ \A v \in Workers \ {w} : pc'[v] = pc[v] /\ job'[v] = job[v]
BY DEF TypeOK, Start

LEMMA GotoThread ==
  ASSUME TypeOK, NEW w \in Workers, NEW next \in Label, Goto(w, next)
  PROVE  /\ pc'[w] = next /\ job'[w] = job[w]
         /\ \A v \in Workers \ {w} : pc'[v] = pc[v] /\ job'[v] = job[v]
BY DEF TypeOK, Goto

LEMMA FinishThread ==
  ASSUME TypeOK, NEW w \in Workers, Finish(w)
  PROVE  /\ pc'[w] = "idle" /\ job'[w] = NoJob
         /\ \A v \in Workers \ {w} : pc'[v] = pc[v] /\ job'[v] = job[v]
BY DEF TypeOK, Finish

LEMMA CopyThread ==
  ASSUME TypeOK, NEW w \in Workers, NEW r,
         pc' = [pc EXCEPT ![w] = "save"], job' = [job EXCEPT ![w].copy = r]
  PROVE  /\ pc'[w] = "save" /\ job'[w].copy = r
         /\ job'[w].id = job[w].id /\ job'[w].status = job[w].status
         /\ job'[w].successor = job[w].successor
         /\ \A v \in Workers \ {w} : pc'[v] = pc[v] /\ job'[v] = job[v]
BY DEF TypeOK

(* What each action that starts a request does to the threads. *)

LEMMA RegisterStarts ==
  ASSUME TypeOK, NEW w \in Workers, NEW i \in Ids, RegisterCfi(w, i)
  PROVE  /\ pc[w] = "idle" /\ pc'[w] = "register.record"
         /\ job'[w].id = i /\ job'[w].status = "none"
         /\ \A v \in Workers \ {w} : pc'[v] = pc[v] /\ job'[v] = job[v]
<1> DEFINE j == [NoJob EXCEPT !.id = i]
<1>1. j \in JobType /\ "register.record" \in Label
  BY NoJobType DEF Label
<1>2. j.id = i /\ j.status = "none"
  BY NoJobFields
<1> HIDE DEF j
<1>3. Start(w, "register.record", j)
  BY DEF RegisterCfi, j
<1> QED BY <1>1, <1>2, <1>3, StartThread

LEMMA TransitionStarts ==
  ASSUME TypeOK, NEW w \in Workers, NEW i \in Ids, NEW to \in LifecycleState, BeginTransition(w, i, to)
  PROVE  /\ pc[w] = "idle" /\ pc'[w] = "save"
         /\ job'[w].id = i /\ job'[w].copy = Transition(lifecycle[i], to)
         /\ job'[w].status = "none" /\ job'[w].successor = NoId
         /\ \A v \in Workers \ {w} : pc'[v] = pc[v] /\ job'[v] = job[v]
<1> DEFINE j == [NoJob EXCEPT !.id = i, !.copy = Transition(lifecycle[i], to)]
<1>1. j \in JobType /\ "save" \in Label
  <2>1. Transition(lifecycle[i], to) \in ArtifactRecord
    BY TypeSplit, TransitionType DEF BeginTransition, TablesType
  <2> QED BY <2>1, NoJobType DEF Label
<1>2. j.id = i /\ j.copy = Transition(lifecycle[i], to) /\ j.status = "none" /\ j.successor = NoId
  BY NoJobFields
<1> HIDE DEF j
<1>3. Start(w, "save", j)
  BY DEF BeginTransition, j
<1> QED BY <1>1, <1>2, <1>3, StartThread

LEMMA DecisionStarts ==
  ASSUME TypeOK, NEW w \in Workers, NEW i \in Ids, NEW s \in Decisions, BeginDecision(w, i, s)
  PROVE  /\ pc[w] = "idle" /\ pc'[w] = "decide.save"
         /\ job'[w].id = i /\ job'[w].status = s /\ job'[w].successor = NoId
         /\ \A v \in Workers \ {w} : pc'[v] = pc[v] /\ job'[v] = job[v]
<1> DEFINE j == [NoJob EXCEPT !.id = i, !.status = s]
<1>1. j \in JobType /\ "decide.save" \in Label
  BY NoJobType DEF Label
<1>2. j.id = i /\ j.status = s /\ j.successor = NoId
  BY NoJobFields
<1> HIDE DEF j
<1>3. Start(w, "decide.save", j)
  BY DEF BeginDecision, j
<1> QED BY <1>1, <1>2, <1>3, StartThread

LEMMA SupersedeStarts ==
  ASSUME TypeOK, NEW w \in Workers, NEW i \in Ids, NEW n \in Ids, BeginSupersede(w, i, n)
  PROVE  /\ pc[w] = "idle" /\ pc'[w] = "supersede.read"
         /\ job'[w].id = i /\ job'[w].status = "none" /\ job'[w].successor = n
         /\ \A v \in Workers \ {w} : pc'[v] = pc[v] /\ job'[v] = job[v]
<1> DEFINE j == [NoJob EXCEPT !.id = i, !.successor = n]
<1>1. j \in JobType /\ "supersede.read" \in Label
  BY NoJobType DEF Label
<1>2. j.id = i /\ j.status = "none" /\ j.successor = n
  BY NoJobFields
<1> HIDE DEF j
<1>3. Start(w, "supersede.read", j)
  BY DEF BeginSupersede, j
<1> QED BY <1>1, <1>2, <1>3, StartThread

LEMMA PublishStarts ==
  ASSUME TypeOK, NEW w \in Workers, NEW i \in Ids, NEW e \in Epochs, InsertManifest(w, e, i)
  PROVE  /\ pc[w] = "idle" /\ pc'[w] = "publish.audit"
         /\ job'[w].id = i /\ job'[w].status = "none"
         /\ \A v \in Workers \ {w} : pc'[v] = pc[v] /\ job'[v] = job[v]
<1> DEFINE j == [NoJob EXCEPT !.id = i]
<1>1. j \in JobType /\ "publish.audit" \in Label
  BY NoJobType DEF Label
<1>2. j.id = i /\ j.status = "none"
  BY NoJobFields
<1> HIDE DEF j
<1>3. Start(w, "publish.audit", j)
  BY DEF InsertManifest, j
<1> QED BY <1>1, <1>2, <1>3, StartThread

LEMMA RegistrationBegin ==
  ASSUME TypeOK, RegistrationInv, NEW w \in Workers, Begin(w)
  PROVE  RegistrationInv'
<1>1. TypeOK'
  BY BeginType
<1>2. PICK i \in Ids :
         \/ RegisterCfi(w, i)
         \/ \E to_state \in LifecycleState : BeginTransition(w, i, to_state)
         \/ \E status \in Decisions : BeginDecision(w, i, status)
         \/ \E successor \in Ids : BeginSupersede(w, i, successor)
         \/ \E e \in Epochs : InsertManifest(w, e, i)
  BY DEF Begin
<1>3. CASE RegisterCfi(w, i)
  <2>1. /\ pc[w] = "idle" /\ pc'[w] = "register.record" /\ job'[w].id = i
        /\ \A v \in Workers \ {w} : pc'[v] = pc[v] /\ job'[v] = job[v]
    BY <1>3, RegisterStarts
  <2>2. /\ i \notin cfis /\ cfis' = cfis \cup {i}
        /\ UNCHANGED <<lifecycle, tickets, audit>>
    BY <1>3 DEF RegisterCfi
  <2>3. lifecycle[i] = NoRecord /\ tickets[i] = "none"
    BY <2>2 DEF RegistrationInv, RegistrationOrder
  <2>4. RegistrationOrder'
    BY <2>2 DEF RegistrationInv, RegistrationOrder
  <2>5. RequestsInStep'
    BY <2>1, <2>2, <2>3 DEF RegistrationInv, RequestsInStep, Registering
  <2> QED BY <2>4, <2>5 DEF RegistrationInv
<1>4. ASSUME NEW to \in LifecycleState, BeginTransition(w, i, to) PROVE RegistrationInv'
  <2>1. lifecycle[i] # NoRecord
    BY <1>4 DEF BeginTransition
  <2>2. /\ pc'[w] = "save" /\ job'[w].id = i
        /\ \A v \in Workers \ {w} : pc'[v] = pc[v] /\ job'[v] = job[v]
    BY <1>4, TransitionStarts
  <2> QED BY <1>1, <1>4, <2>1, <2>2, RegistrationKept
          DEF BeginTransition, tables, Registering, TypeOK
<1>5. ASSUME NEW s \in Decisions, BeginDecision(w, i, s) PROVE RegistrationInv'
  <2>1. /\ pc'[w] = "decide.save" /\ job'[w].id = i
        /\ \A v \in Workers \ {w} : pc'[v] = pc[v] /\ job'[v] = job[v]
    BY <1>5, DecisionStarts
  <2> QED BY <1>1, <1>5, <2>1, RegistrationKept DEF BeginDecision, tables, Registering, TypeOK
<1>6. ASSUME NEW n \in Ids, BeginSupersede(w, i, n) PROVE RegistrationInv'
  <2>1. /\ pc'[w] = "supersede.read"
        /\ \A v \in Workers \ {w} : pc'[v] = pc[v] /\ job'[v] = job[v]
    BY <1>6, SupersedeStarts
  <2> QED BY <1>1, <1>6, <2>1, RegistrationKept DEF BeginSupersede, tables, Registering, TypeOK
<1>7. ASSUME NEW e \in Epochs, InsertManifest(w, e, i) PROVE RegistrationInv'
  <2>1. /\ pc'[w] = "publish.audit"
        /\ \A v \in Workers \ {w} : pc'[v] = pc[v] /\ job'[v] = job[v]
    BY <1>7, PublishStarts
  <2> QED BY <1>1, <1>7, <2>1, RegistrationKept DEF InsertManifest, Registering, TypeOK
<1> QED BY <1>2, <1>3, <1>4, <1>5, <1>6, <1>7

\* An audit event that is not a registration's leaves RegistrationOrder alone.
LEMMA OtherEvent ==
  ASSUME TypeOK, RegistrationOrder, NEW a \in Actions \ {"cfi.registered"}, NEW i, NEW d,
         Log(a, i, d), UNCHANGED <<cfis, lifecycle, tickets>>
  PROVE  RegistrationOrder'
<1>1. /\ Len(audit') = Len(audit) + 1 /\ Len(audit) \in Nat
      /\ \A k \in 1 .. Len(audit) : audit'[k] = audit[k]
      /\ audit'[Len(audit) + 1].action = a
  BY AppendProperties DEF TypeOK, Log, AuditEvent
<1> QED BY <1>1 DEF RegistrationOrder

LEMMA RegistrationContinue ==
  ASSUME TypeOK, RegistrationInv, NEW w \in Workers, Continue(w)
  PROVE  RegistrationInv'
<1>1. TypeOK'
  BY ContinueType
<1>2. ThreadsType /\ TablesType /\ pc' \in [Workers -> Label]
  BY <1>1, TypeSplit DEF TypeOK
<1>3. CASE RegisterArtifact(w)
  <2>1. /\ pc[w] = "register.record" /\ pc'[w] = "register.ticket" /\ job'[w] = job[w]
        /\ \A v \in Workers \ {w} : pc'[v] = pc[v] /\ job'[v] = job[v]
    BY <1>3, GotoThread DEF RegisterArtifact, Label
  <2>2. job[w].id \in Ids
    BY <1>2, <2>1, AtLabel
  <2>3. /\ UNCHANGED <<cfis, tickets, audit>>
        /\ lifecycle'[job[w].id] # NoRecord
        /\ \A i \in Ids \ {job[w].id} : lifecycle'[i] = lifecycle[i]
    BY <1>2, <1>3, <2>2, NewRecordType DEF RegisterArtifact, TablesType
  <2>4. RegistrationOrder'
    BY <2>1, <2>2, <2>3 DEF RegistrationInv, RegistrationOrder, RequestsInStep, Registering
  <2>5. \A v \in Workers \ {w} : pc[v] = "register.record" => job[v].id # job[w].id
    BY <2>1 DEF RegistrationInv, RequestsInStep, Registering
  <2>6. \A v \in Workers : pc[v] # "idle" => job[v].id \in Ids
    BY <1>2, AtLabel
  <2>7. RequestsInStep'
    BY <2>1, <2>2, <2>3, <2>5, <2>6 DEF RegistrationInv, RequestsInStep, Registering
  <2> QED BY <2>4, <2>7 DEF RegistrationInv
<1>4. CASE EnqueueReview(w)
  <2>1. /\ pc[w] = "register.ticket" /\ pc'[w] = "register.audit" /\ job'[w] = job[w]
        /\ \A v \in Workers \ {w} : pc'[v] = pc[v] /\ job'[v] = job[v]
    BY <1>4, GotoThread DEF EnqueueReview, Label
  <2>2. job[w].id \in Ids
    BY <1>2, <2>1, AtLabel
  <2>3. /\ UNCHANGED <<cfis, lifecycle, audit>>
        /\ tickets'[job[w].id] # "none"
        /\ \A i \in Ids \ {job[w].id} : tickets'[i] = tickets[i]
    BY <1>2, <1>4, <2>2 DEF EnqueueReview, TablesType
  <2>4. RegistrationOrder'
    BY <2>1, <2>2, <2>3 DEF RegistrationInv, RegistrationOrder, RequestsInStep
  <2>5. \A v \in Workers \ {w} : Registering(v) => job[v].id # job[w].id
    BY <2>1 DEF RegistrationInv, RequestsInStep, Registering
  <2>6. \A v \in Workers : pc[v] # "idle" => job[v].id \in Ids
    BY <1>2, AtLabel
  <2>7. RequestsInStep'
    BY <2>1, <2>2, <2>3, <2>5, <2>6 DEF RegistrationInv, RequestsInStep, Registering
  <2> QED BY <2>4, <2>7 DEF RegistrationInv
<1>5. CASE AuditRegister(w)
  <2>1. /\ pc[w] = "register.audit" /\ pc'[w] = "idle" /\ tickets[job[w].id] # "none"
        /\ \A v \in Workers \ {w} : pc'[v] = pc[v] /\ job'[v] = job[v]
    BY <1>5, FinishThread DEF AuditRegister, RegistrationInv, RequestsInStep
  <2>2. /\ Len(audit') = Len(audit) + 1 /\ Len(audit) \in Nat
        /\ \A k \in 1 .. Len(audit) : audit'[k] = audit[k]
        /\ audit'[Len(audit) + 1].id = job[w].id
    BY <1>2, <1>5, AppendProperties DEF AuditRegister, Log, AuditEvent, TablesType
  <2>3. UNCHANGED <<cfis, lifecycle, tickets>>
    BY <1>5 DEF AuditRegister
  <2>4. RegistrationOrder'
    BY <2>1, <2>2, <2>3 DEF RegistrationInv, RegistrationOrder
  <2>5. RequestsInStep'
    BY <2>1, <2>3 DEF RegistrationInv, RequestsInStep, Registering
  <2> QED BY <2>4, <2>5 DEF RegistrationInv
<1>6. CASE SaveArtifact(w)
  <2>1. /\ pc[w] = "save" /\ pc'[w] = "history" /\ job'[w] = job[w]
        /\ \A v \in Workers \ {w} : pc'[v] = pc[v] /\ job'[v] = job[v]
    BY <1>6, GotoThread DEF SaveArtifact, Label
  <2>2. job[w].id \in Ids /\ job[w].copy # NoRecord
    BY <1>2, <2>1, AtLabel, RecordIsPresent
  <2>3. UNCHANGED <<cfis, tickets, audit>>
    BY <1>6 DEF SaveArtifact
  <2>4. \A i \in Ids : lifecycle'[i] = NoRecord <=> lifecycle[i] = NoRecord
    BY <1>2, <1>6, <2>1, <2>2
       DEF SaveArtifact, TablesType, RegistrationInv, RequestsInStep
  <2>5. RegistrationOrder'
    BY <2>3, <2>4 DEF RegistrationInv, RegistrationOrder
  <2>6. \A v \in Workers : pc[v] # "idle" => job[v].id \in Ids
    BY <1>2, AtLabel
  <2>7. RequestsInStep'
    BY <2>1, <2>3, <2>4, <2>6 DEF RegistrationInv, RequestsInStep, Registering
  <2> QED BY <2>5, <2>7 DEF RegistrationInv
<1>7. CASE SaveReviewTicket(w)
  <2>1. /\ pc[w] = "decide.save" /\ pc'[w] \in {"decide.audit", "decide.transition"}
        /\ \A v \in Workers \ {w} : pc'[v] = pc[v] /\ job'[v] = job[v]
    BY <1>7, GotoThread DEF SaveReviewTicket, Label
  <2>2. job[w].id \in Ids /\ job[w].status \in Decisions
    BY <1>2, <2>1, AtLabel
  <2>3. UNCHANGED <<cfis, lifecycle, audit>>
    BY <1>7 DEF SaveReviewTicket
  <2>4. \A i \in Ids : tickets'[i] = "none" <=> tickets[i] = "none"
    BY <1>2, <1>7, <2>1, <2>2
       DEF SaveReviewTicket, TablesType, RegistrationInv, RequestsInStep, Decisions, ReviewStatus
  <2>5. RegistrationOrder'
    BY <2>3, <2>4 DEF RegistrationInv, RegistrationOrder
  <2>6. \A v \in Workers : pc[v] # "idle" => job[v].id \in Ids
    BY <1>2, AtLabel
  <2>7. RequestsInStep'
    BY <2>1, <2>3, <2>4, <2>6 DEF RegistrationInv, RequestsInStep, Registering
  <2> QED BY <2>5, <2>7 DEF RegistrationInv
<1>8. CASE AppendLifecycleEvent(w)
  <2>1. /\ pc'[w] \in {"chain", "transition.audit"}
        /\ \A v \in Workers \ {w} : pc'[v] = pc[v] /\ job'[v] = job[v]
    BY <1>8, GotoThread DEF AppendLifecycleEvent, Label
  <2> QED BY <1>2, <1>8, <2>1, RegistrationKept DEF AppendLifecycleEvent, Registering
<1>9. CASE DecideTransition(w)
  <2>1. CASE Finish(w)
    <3>1. pc'[w] = "idle" /\ \A v \in Workers \ {w} : pc'[v] = pc[v] /\ job'[v] = job[v]
      BY <2>1, FinishThread
    <3> QED BY <1>2, <1>9, <3>1, RegistrationKept DEF DecideTransition, tables, Registering
  <2>2. CASE ~ Finish(w)
    <3>1. /\ lifecycle[job[w].id] # NoRecord /\ pc'[w] = "save" /\ job'[w].id = job[w].id
          /\ \A v \in Workers \ {w} : pc'[v] = pc[v] /\ job'[v] = job[v]
      BY <1>9, <2>2, CopyThread DEF DecideTransition
    <3> QED BY <1>2, <1>9, <3>1, RegistrationKept DEF DecideTransition, tables, Registering
  <2> QED BY <2>1, <2>2
<1>10. CASE ReadForSupersede(w)
  <2>1. CASE Finish(w)
    <3>1. pc'[w] = "idle" /\ \A v \in Workers \ {w} : pc'[v] = pc[v] /\ job'[v] = job[v]
      BY <2>1, FinishThread
    <3> QED BY <1>2, <1>10, <3>1, RegistrationKept DEF ReadForSupersede, tables, Registering
  <2>2. CASE ~ Finish(w)
    <3>1. /\ lifecycle[job[w].id] # NoRecord /\ pc'[w] = "save" /\ job'[w].id = job[w].id
          /\ \A v \in Workers \ {w} : pc'[v] = pc[v] /\ job'[v] = job[v]
      BY <1>10, <2>2, CopyThread DEF ReadForSupersede
    <3> QED BY <1>2, <1>10, <3>1, RegistrationKept DEF ReadForSupersede, tables, Registering
  <2> QED BY <2>1, <2>2
<1>11. CASE AppendSupersession(w)
  <2>1. /\ pc'[w] = "supersede.audit"
        /\ \A v \in Workers \ {w} : pc'[v] = pc[v] /\ job'[v] = job[v]
    BY <1>11, GotoThread DEF AppendSupersession, Label
  <2> QED BY <1>2, <1>11, <2>1, RegistrationKept DEF AppendSupersession, Registering
<1>12. CASE AuditTransition(w) \/ AuditDecision(w) \/ AuditSupersede(w) \/ AuditPublish(w)
  <2>1. PICK a \in Actions \ {"cfi.registered"}, d \in {job[w].copy.state, job[w].status, "none"} :
          Log(a, job[w].id, d)
    BY <1>12 DEF AuditTransition, AuditDecision, AuditSupersede, AuditPublish, Actions
  <2>2. UNCHANGED <<cfis, lifecycle, tickets>>
    BY <1>12 DEF AuditTransition, AuditDecision, AuditSupersede, AuditPublish
  <2>3. RegistrationOrder'
    BY <2>1, <2>2, OtherEvent DEF RegistrationInv
  <2>4. Finish(w) \/ Goto(w, "decide.audit")
    BY <1>12 DEF AuditTransition, AuditDecision, AuditSupersede, AuditPublish
  <2>5. /\ pc'[w] \in {"idle", "decide.audit"}
        /\ \A v \in Workers \ {w} : pc'[v] = pc[v] /\ job'[v] = job[v]
    BY <2>4, FinishThread, GotoThread DEF Label
  <2>6. RequestsInStep'
    BY <2>2, <2>5 DEF RegistrationInv, RequestsInStep, Registering
  <2> QED BY <2>3, <2>6 DEF RegistrationInv
<1> QED BY <1>3, <1>4, <1>5, <1>6, <1>7, <1>8, <1>9, <1>10, <1>11, <1>12 DEF Continue

LEMMA RegistrationCrash ==
  ASSUME RegistrationInv, Crash
  PROVE  RegistrationInv'
BY DEF Crash, tables, RegistrationInv, RegistrationOrder, RequestsInStep, Registering

\* The inductive invariant of registration holds of every behaviour.
LEMMA RegistrationInvariant == Spec => []RegistrationInv
<1>1. TypeOK /\ RegistrationInv /\ [Next]_vars => RegistrationInv'
  <2> SUFFICES ASSUME TypeOK, RegistrationInv, [Next]_vars PROVE RegistrationInv'
    OBVIOUS
  <2>1. CASE UNCHANGED vars
    BY <2>1 DEF vars, tables, threads, RegistrationInv, RegistrationOrder, RequestsInStep,
                Registering
  <2>2. CASE Crash
    BY <2>2, RegistrationCrash
  <2>3. ASSUME NEW w \in Workers, Begin(w) PROVE RegistrationInv'
    BY <2>3, RegistrationBegin
  <2>4. ASSUME NEW w \in Workers, Continue(w) PROVE RegistrationInv'
    BY <2>4, RegistrationContinue
  <2> QED BY <2>1, <2>2, <2>3, <2>4 DEF Next
<1> QED BY <1>1, RegistrationInit, TypeCorrect, PTL DEF Spec

\* register leaves a prefix of its writes and never a hole.
THEOREM RegistrationIsOrdered == Spec => []RegistrationOrder
<1>1. RegistrationInv => RegistrationOrder
  BY DEF RegistrationInv
<1> QED BY <1>1, RegistrationInvariant, PTL

\* What a request read or wrote earlier it may rely on to its end.
THEOREM RequestsStayInStep == Spec => []RequestsInStep
<1>1. RegistrationInv => RequestsInStep
  BY DEF RegistrationInv
<1> QED BY <1>1, RegistrationInvariant, PTL
=============================================================================
