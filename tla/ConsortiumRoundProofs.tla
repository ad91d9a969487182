------------------------ MODULE ConsortiumRoundProofs ------------------------
(***************************************************************************)
(* What a consortium's rounds promise, for any number of families,         *)
(* tenants and rounds, and any cap, threshold and budget.                  *)
(***************************************************************************)
EXTENDS ConsortiumRound, FiniteSetTheorems, SequenceTheorems, TLAPS

Submission == [family : Families, status : ParticipationStatus, reason : Reason]
Contribution == [tenant : 1 .. MaxTenants, failures : 0 .. ClippingF]
Result == [outcome : Outcome, participants : 0 .. MaxTenants, rejected : SUBSET (1 .. MaxTenants)]

\* Only an eligible tenant has no reason against it, and who contributes is
\* eligible, passed by the collection loop, and no outlier.
Standing ==
  /\ \A n \in 1 .. Len(submissions) : Eligible(n) <=> submissions[n].reason = ""
  /\ \A k \in 1 .. Len(contributions) :
       /\ contributions[k].tenant \in 1 .. Len(submissions)
       /\ Eligible(contributions[k].tenant)
       /\ phase = "collect" => contributions[k].tenant < position
       /\ contributions[k].failures =< OutlierCap
  /\ phase \in {"admit", "dropout"} => contributions = <<>>
  /\ Cardinality(Contributing) = Len(contributions)

\* The tenants admission has let in, whatever became of them afterwards.
Admitted(f) ==
  {n \in Genuine(f) : submissions[n].reason # "org_family_cap_exceeded"}

Admissions ==
  \A f \in Families :
    /\ Cardinality(Admitted(f)) = familyCounts[f]
    /\ LET genuine == Cardinality(Genuine(f))
       IN familyCounts[f] = IF genuine < MaxPerOrgFamily THEN genuine ELSE MaxPerOrgFamily

\* What the last result says while the round it ended is still there.
LastResult ==
  phase = "idle" /\ results # <<>> =>
    LET last == results[Len(results)]
    IN /\ last.rejected = Rejected
       /\ last.outcome = "released" =>
            Len(contributions) >= minimum_k /\ Len(contributions) >= MinSlice

RoundInv == TypeOK /\ Standing /\ Admissions /\ LastResult /\ PaidIsReleased

-----------------------------------------------------------------------------
(* Facts about the sets the properties count.                              *)

\* The numbers up to a natural number are finite, and as many as it says.
LEMMA UpTo ==
  ASSUME NEW k \in Nat
  PROVE  IsFiniteSet(1 .. k) /\ Cardinality(1 .. k) = k
<1>1. 1 \in Int /\ k \in Int
  OBVIOUS
<1>2. IsFiniteSet(1 .. k) /\ Cardinality(1 .. k) = IF 1 > k THEN 0 ELSE k - 1 + 1
  BY <1>1, FS_Interval
<1> QED BY <1>2

LEMMA Lengths ==
  TypeOK => /\ Len(submissions) \in Nat /\ Len(contributions) \in Nat
            /\ Len(results) \in Nat /\ Len(history) \in Nat
BY DEF TypeOK

LEMMA CountedSetsAreFinite ==
  ASSUME TypeOK, NEW f
  PROVE  /\ IsFiniteSet(Genuine(f)) /\ Cardinality(Genuine(f)) \in Nat
         /\ IsFiniteSet(Admitted(f)) /\ Cardinality(Admitted(f)) \in Nat
<1>1. Genuine(f) \subseteq 1 .. Len(submissions) /\ Admitted(f) \subseteq Genuine(f)
  BY DEF Genuine, Admitted
<1>2. IsFiniteSet(1 .. Len(submissions))
  BY Lengths, UpTo
<1>3. IsFiniteSet(Genuine(f))
  BY <1>1, <1>2, FS_Subset
<1>4. IsFiniteSet(Admitted(f))
  BY <1>1, <1>3, FS_Subset
<1> QED
  BY <1>3, <1>4, FS_CardinalityType

LEMMA ContributorsAreTenants ==
  ASSUME TypeOK, Standing
  PROVE  /\ Contributing \subseteq 1 .. Len(submissions)
         /\ IsFiniteSet(Contributing)
         /\ Len(contributions) =< Len(submissions)
         /\ Len(contributions) =< MaxTenants
<1>1. Contributing \subseteq 1 .. Len(submissions)
  BY DEF Standing, Contributing
<1>2. /\ IsFiniteSet(1 .. Len(submissions))
      /\ Cardinality(1 .. Len(submissions)) = Len(submissions)
  <2>1. Len(submissions) \in Nat
    BY Lengths
  <2> QED
    BY <2>1, UpTo
<1>3. IsFiniteSet(Contributing) /\ Cardinality(Contributing) =< Len(submissions)
  BY <1>1, <1>2, FS_Subset
<1>4. Len(submissions) =< MaxTenants /\ MaxTenants \in Nat /\ Len(submissions) \in Nat
  BY Lengths, RoundAssumption DEF TypeOK
<1>5. Cardinality(Contributing) = Len(contributions)
  BY DEF Standing
<1>6. Len(contributions) \in Nat
  BY Lengths
<1> QED
  BY <1>1, <1>3, <1>4, <1>5, <1>6

\* What depends on the round alone is left alone with it.
LEMMA SameRound ==
  ASSUME submissions' = submissions, contributions' = contributions,
         familyCounts' = familyCounts
  PROVE  /\ Contributing' = Contributing /\ Rejected' = Rejected
         /\ Admissions => Admissions'
BY DEF Contributing, Rejected, Eligible, Admissions, Admitted, Genuine

-----------------------------------------------------------------------------
LEMMA InitKeepsRound == Init => RoundInv
<1> SUFFICES ASSUME Init PROVE RoundInv
  OBVIOUS
<1> USE RoundAssumption, AccountantAssumption DEF Init
<1>1. TypeOK
  BY DEF TypeOK
<1>2. Contributing = {} /\ \A f : Genuine(f) = {} /\ Admitted(f) = {}
  BY DEF Contributing, Genuine, Admitted
<1>3. Cardinality({}) = 0
  BY FS_EmptySet
<1>4. Standing
  BY <1>2, <1>3 DEF Standing
<1>5. Admissions
  BY <1>2, <1>3 DEF Admissions
<1>6. LastResult
  BY DEF LastResult
<1>7. PaidIsReleased
  <2>1. {r \in 1 .. Len(results) : results[r].outcome = "released"} = {}
    OBVIOUS
  <2> QED
    BY <2>1, <1>3 DEF PaidIsReleased
<1> QED
  BY <1>1, <1>4, <1>5, <1>6, <1>7 DEF RoundInv

LEMMA NewCoordinatorKeepsRound == RoundInv /\ NewCoordinator => RoundInv'
<1> SUFFICES ASSUME RoundInv, NewCoordinator PROVE RoundInv'
  OBVIOUS
<1> USE RoundAssumption, AccountantAssumption DEF RoundInv, NewCoordinator, round
<1>1. TypeOK'
  BY DEF TypeOK
<1>2. Standing'
  BY SameRound DEF Standing, Eligible
<1>3. Admissions'
  BY SameRound
<1>4. LastResult'
  BY DEF LastResult
<1>5. PaidIsReleased'
  <2>1. {r \in 1 .. Len(results') : results'[r].outcome = "released"} = {}
    OBVIOUS
  <2> QED
    BY <2>1, FS_EmptySet DEF PaidIsReleased
<1> QED
  BY <1>1, <1>2, <1>3, <1>4, <1>5

LEMMA BeginRoundKeepsRound == RoundInv /\ BeginRound => RoundInv'
<1> SUFFICES ASSUME RoundInv, BeginRound PROVE RoundInv'
  OBVIOUS
<1> USE RoundAssumption, AccountantAssumption DEF RoundInv, BeginRound
<1>1. TypeOK'
  BY DEF TypeOK
<1>2. Contributing' = {}
  BY DEF Contributing
<1>3. Cardinality({}) = 0
  BY FS_EmptySet
<1>4. Standing'
  <2>1. submissions' = <<>> /\ contributions' = <<>>
    OBVIOUS
  <2>2. Len(submissions') = 0 /\ Len(contributions') = 0
    BY <2>1
  <2> HIDE DEF RoundInv, BeginRound
  <2>3. Cardinality(Contributing') = Len(contributions')
    BY <1>2, <1>3, <2>2
  <2> QED
    BY <2>1, <2>2, <2>3 DEF Standing, Eligible
<1>5. Admissions'
  <2> SUFFICES ASSUME NEW f \in Families
               PROVE  /\ Cardinality(Admitted(f)') = familyCounts'[f]
                      /\ familyCounts'[f] = IF Cardinality(Genuine(f)') < MaxPerOrgFamily
                                            THEN Cardinality(Genuine(f)') ELSE MaxPerOrgFamily
    BY DEF Admissions
  <2>1. Genuine(f)' = {} /\ Admitted(f)' = {}
    BY DEF Genuine, Admitted
  <2> QED
    BY <1>3, <2>1
<1>6. LastResult'
  BY DEF LastResult
<1>7. PaidIsReleased'
  BY DEF PaidIsReleased
<1> QED
  BY <1>1, <1>4, <1>5, <1>6, <1>7

-----------------------------------------------------------------------------
(* Admission.                                                              *)

LEMMA AdmissionDecides ==
  ASSUME NEW family, NEW verified \in BOOLEAN, NEW current \in BOOLEAN,
         MaxPerOrgFamily \in Nat, familyCounts[family] \in Nat
  PROVE  LET admission == Admission(family, verified, current)
         IN /\ \/ admission[1] = "eligible" /\ admission[2] = ""
               \/ admission[1] = "rejected_sybil" /\ admission[2] = "unverified_identity"
               \/ admission[1] = "rejected_version" /\ admission[2] = "compiler_version_mismatch"
               \/ admission[1] = "rejected_sybil" /\ admission[2] = "org_family_cap_exceeded"
            /\ admission[2] = "" => familyCounts[family] < MaxPerOrgFamily
            /\ admission[2] = "org_family_cap_exceeded" =>
                 familyCounts[family] >= MaxPerOrgFamily
BY DEF Admission

\* A tenant at the end of the list adds itself to the sets of its family.
LEMMA AppendedTenant ==
  ASSUME TypeOK, NEW new \in Submission, submissions' = Append(submissions, new)
  PROVE  /\ submissions' \in Seq(Submission)
         /\ Len(submissions') = Len(submissions) + 1
         /\ submissions'[Len(submissions) + 1] = new
         /\ \A n \in 1 .. Len(submissions) : submissions'[n] = submissions[n]
         /\ Len(submissions) + 1 \notin 1 .. Len(submissions)
         /\ \A n \in 1 .. Len(submissions') :
              n \in 1 .. Len(submissions) \/ n = Len(submissions) + 1
<1>1. submissions \in Seq(Submission) /\ Len(submissions) \in Nat
  BY DEF TypeOK, Submission
<1> QED
  BY <1>1

LEMMA AppendedGenuine ==
  ASSUME TypeOK, NEW new \in Submission, submissions' = Append(submissions, new), NEW f
  PROVE  LET n == Len(submissions) + 1
             genuine == new.family = f /\
                        new.reason \notin {"unverified_identity", "compiler_version_mismatch"}
             admitted == genuine /\ new.reason # "org_family_cap_exceeded"
         IN /\ n \notin Genuine(f) /\ n \notin Admitted(f)
            /\ Genuine(f)' = IF genuine THEN Genuine(f) \cup {n} ELSE Genuine(f)
            /\ Admitted(f)' = IF admitted THEN Admitted(f) \cup {n} ELSE Admitted(f)
<1> DEFINE n == Len(submissions) + 1
           genuine == new.family = f /\
                      new.reason \notin {"unverified_identity", "compiler_version_mismatch"}
<1>0. n \in 1 .. Len(submissions')
  BY AppendedTenant, Lengths
<1>1. 1 .. Len(submissions') = 1 .. Len(submissions) \cup {n}
  BY AppendedTenant, Lengths
<1>2. Genuine(f)' = IF genuine THEN Genuine(f) \cup {n} ELSE Genuine(f)
  BY <1>1, AppendedTenant DEF Genuine
<1>3. n \notin Genuine(f) /\ n \notin Admitted(f)
  BY AppendedTenant DEF Genuine, Admitted
<1>4. \A k \in Genuine(f) : submissions'[k] = submissions[k]
  BY AppendedTenant DEF Genuine
<1>5. submissions'[n] = new
  BY AppendedTenant
<1> HIDE DEF n, genuine
<1>6. Admitted(f)' = IF genuine /\ new.reason # "org_family_cap_exceeded"
                     THEN Admitted(f) \cup {n} ELSE Admitted(f)
  BY <1>2, <1>3, <1>4, <1>5 DEF Admitted
<1> QED
  BY <1>2, <1>3, <1>6 DEF n, genuine

LEMMA AdmitTenantKeepsRound == RoundInv /\ AdmitTenant => RoundInv'
<1> SUFFICES ASSUME RoundInv, AdmitTenant PROVE RoundInv'
  OBVIOUS
<1>1. TypeOK /\ Standing /\ Admissions /\ LastResult /\ PaidIsReleased
  BY DEF RoundInv
<1>2. PICK family \in Families, verified \in BOOLEAN, current \in BOOLEAN :
        LET admission == Admission(family, verified, current)
        IN /\ submissions' = Append(submissions, [family |-> family, status |-> admission[1],
                                                  reason |-> admission[2]])
           /\ familyCounts' = IF admission[1] = "eligible"
                              THEN [familyCounts EXCEPT ![family] = @ + 1] ELSE familyCounts
  BY DEF AdmitTenant
<1> DEFINE admission == Admission(family, verified, current)
           new == [family |-> family, status |-> admission[1], reason |-> admission[2]]
<1>3. /\ phase = "admit" /\ Len(submissions) < MaxTenants
      /\ UNCHANGED <<minimum_k, phase, position, contributions, spent, history, results, rounds>>
  BY DEF AdmitTenant
<1>4. /\ \/ admission[1] = "eligible" /\ admission[2] = ""
         \/ admission[1] = "rejected_sybil" /\ admission[2] = "unverified_identity"
         \/ admission[1] = "rejected_version" /\ admission[2] = "compiler_version_mismatch"
         \/ admission[1] = "rejected_sybil" /\ admission[2] = "org_family_cap_exceeded"
      /\ admission[2] = "" => familyCounts[family] < MaxPerOrgFamily
      /\ admission[2] = "org_family_cap_exceeded" => familyCounts[family] >= MaxPerOrgFamily
  <2>1. MaxPerOrgFamily \in Nat /\ familyCounts[family] \in Nat
    BY <1>1, RoundAssumption DEF TypeOK
  <2> QED
    BY <2>1, AdmissionDecides
<1> HIDE DEF admission
<1>5. new \in Submission /\ (new.status = "eligible" <=> new.reason = "")
      /\ new.family = family /\ new.reason = admission[2]
  BY <1>4 DEF Submission, ParticipationStatus, Reason
<1>6. submissions' = Append(submissions, new)
  BY <1>2 DEF admission
<1>7. familyCounts' = IF new.reason = "" THEN [familyCounts EXCEPT ![family] = @ + 1]
                      ELSE familyCounts
  BY <1>2, <1>4 DEF admission
<1> HIDE DEF new
<1>a. /\ submissions' \in Seq(Submission)
      /\ Len(submissions') = Len(submissions) + 1
      /\ submissions'[Len(submissions) + 1] = new
      /\ \A n \in 1 .. Len(submissions) : submissions'[n] = submissions[n]
      /\ \A n \in 1 .. Len(submissions') :
           n \in 1 .. Len(submissions) \/ n = Len(submissions) + 1
  BY <1>1, <1>5, <1>6, AppendedTenant
<1>8. contributions = <<>> /\ contributions' = <<>> /\ phase' = "admit"
  BY <1>1, <1>3 DEF Standing
<1>9. TypeOK'
  <2>1. submissions' \in Seq(Submission) /\ Len(submissions') =< MaxTenants
    BY <1>1, <1>3, <1>a, Lengths, RoundAssumption
  <2>2. familyCounts' \in [Families -> 0 .. MaxPerOrgFamily]
    <3>1. familyCounts \in [Families -> 0 .. MaxPerOrgFamily] /\ MaxPerOrgFamily \in Nat
      BY <1>1, RoundAssumption DEF TypeOK
    <3>2. ASSUME new.reason = "" PROVE familyCounts[family] + 1 \in 0 .. MaxPerOrgFamily
      <4>1. familyCounts[family] < MaxPerOrgFamily
        BY <1>4, <1>5, <3>2
      <4>2. familyCounts[family] \in 0 .. MaxPerOrgFamily
        BY <3>1
      <4> QED
        BY <3>1, <4>1, <4>2
    <3> QED
      BY <1>7, <3>1, <3>2
  <2> QED
    BY <1>1, <1>3, <2>1, <2>2 DEF TypeOK, Submission
<1>10. Standing'
  <2>0. \A n \in 1 .. Len(submissions) :
          submissions[n].status = "eligible" <=> submissions[n].reason = ""
    BY <1>1 DEF Standing, Eligible
  <2>1. \A n \in 1 .. Len(submissions') :
          submissions'[n].status = "eligible" <=> submissions'[n].reason = ""
    BY <1>5, <1>a, <2>0
  <2>2. Contributing' = Contributing
    BY <1>3 DEF Contributing
  <2>3. Cardinality(Contributing') = Len(contributions')
    BY <1>1, <1>3, <2>2 DEF Standing
  <2>4. \A k \in 1 .. Len(contributions') : FALSE
    BY <1>8
  <2> QED
    BY <1>8, <2>1, <2>3, <2>4, Zenon DEF Standing, Eligible
<1>11. Admissions'
  <2> SUFFICES ASSUME NEW f \in Families
               PROVE  /\ Cardinality(Admitted(f)') = familyCounts'[f]
                      /\ familyCounts'[f] = IF Cardinality(Genuine(f)') < MaxPerOrgFamily
                                            THEN Cardinality(Genuine(f)') ELSE MaxPerOrgFamily
    BY DEF Admissions
  <2>1. /\ Cardinality(Admitted(f)) = familyCounts[f]
        /\ familyCounts[f] = IF Cardinality(Genuine(f)) < MaxPerOrgFamily
                             THEN Cardinality(Genuine(f)) ELSE MaxPerOrgFamily
    BY <1>1 DEF Admissions
  <2>2. /\ IsFiniteSet(Genuine(f)) /\ Cardinality(Genuine(f)) \in Nat
        /\ IsFiniteSet(Admitted(f)) /\ Cardinality(Admitted(f)) \in Nat
        /\ MaxPerOrgFamily \in Nat
        /\ familyCounts \in [Families -> 0 .. MaxPerOrgFamily]
    BY <1>1, CountedSetsAreFinite, RoundAssumption DEF TypeOK
  <2> DEFINE n == Len(submissions) + 1
  <2>3. n \notin Genuine(f) /\ n \notin Admitted(f)
    BY <1>1, <1>5, <1>6, AppendedGenuine
  <2> HIDE DEF n
  <2>4. /\ Cardinality(Genuine(f) \cup {n}) = Cardinality(Genuine(f)) + 1
        /\ Cardinality(Admitted(f) \cup {n}) = Cardinality(Admitted(f)) + 1
    BY <2>2, <2>3, FS_AddElement
  <2>5. CASE f # family \/ admission[2] \in {"unverified_identity", "compiler_version_mismatch"}
    <3>1. Genuine(f)' = Genuine(f) /\ Admitted(f)' = Admitted(f)
      BY <1>1, <1>5, <1>6, <2>5, AppendedGenuine
    <3>2. familyCounts'[f] = familyCounts[f]
      BY <1>5, <1>7, <2>2, <2>5
    <3> QED
      BY <2>1, <3>1, <3>2
  <2>6. CASE f = family /\ admission[2] = "org_family_cap_exceeded"
    <3>1. Genuine(f)' = Genuine(f) \cup {n} /\ Admitted(f)' = Admitted(f)
      BY <1>1, <1>5, <1>6, <2>6, AppendedGenuine DEF n
    <3>2. familyCounts'[f] = familyCounts[f] /\ familyCounts[f] = MaxPerOrgFamily
      BY <1>4, <1>5, <1>7, <2>2, <2>6
    <3> QED
      BY <2>1, <2>2, <2>4, <3>1, <3>2
  <2>7. CASE f = family /\ admission[2] = ""
    <3>1. Genuine(f)' = Genuine(f) \cup {n} /\ Admitted(f)' = Admitted(f) \cup {n}
      BY <1>1, <1>5, <1>6, <2>7, AppendedGenuine DEF n
    <3>2. familyCounts'[f] = familyCounts[f] + 1 /\ familyCounts[f] < MaxPerOrgFamily
      BY <1>4, <1>5, <1>7, <2>2, <2>7
    <3> QED
      BY <2>1, <2>2, <2>4, <3>1, <3>2
  <2> QED
    BY <1>4, <2>5, <2>6, <2>7
<1>12. LastResult' /\ PaidIsReleased'
  BY <1>1, <1>3 DEF LastResult, PaidIsReleased
<1> QED
  BY <1>9, <1>10, <1>11, <1>12 DEF RoundInv

-----------------------------------------------------------------------------
(* The loops over the submissions.                                         *)

LEMMA EndLoopKeepsRound == RoundInv /\ EndLoop => RoundInv'
<1> SUFFICES ASSUME RoundInv, EndLoop PROVE RoundInv'
  OBVIOUS
<1>1. TypeOK /\ Standing /\ Admissions /\ LastResult /\ PaidIsReleased
  BY DEF RoundInv
<1>2. /\ phase' \in {"dropout", "collect", "release"}
      /\ phase' = "dropout" => phase = "admit"
      /\ phase' = "collect" => phase = "dropout"
      /\ position' = 1
      /\ UNCHANGED <<minimum_k, submissions, familyCounts, contributions, spent, history,
                     results, rounds>>
  BY DEF EndLoop
<1>3. TypeOK'
  BY <1>1, <1>2, RoundAssumption DEF TypeOK
<1>4. Standing'
  <2>1. ASSUME phase' \in {"dropout", "collect"}
        PROVE  \A k \in 1 .. Len(contributions') : FALSE
    <3>1. contributions' = <<>>
      BY <1>1, <1>2, <2>1 DEF Standing
    <3> QED
      BY <3>1
  <2>2. phase' = "dropout" => contributions' = <<>>
    BY <1>1, <1>2 DEF Standing
  <2>3. Contributing' = Contributing
    BY <1>2 DEF Contributing
  <2> QED
    BY <1>1, <1>2, <2>1, <2>2, <2>3, Zenon DEF Standing, Eligible
<1>5. Admissions'
  BY <1>1, <1>2, SameRound
<1>6. LastResult' /\ PaidIsReleased'
  BY <1>1, <1>2 DEF LastResult, PaidIsReleased
<1> QED
  BY <1>3, <1>4, <1>5, <1>6 DEF RoundInv

\* A tenant marked in a loop is no longer eligible and keeps its place in the
\* count of its family.
LEMMA MarkedTenant ==
  ASSUME TypeOK, Standing, position \in 1 .. Len(submissions), Eligible(position),
         NEW status \in ParticipationStatus \ {"eligible"},
         NEW reason \in {"dropout", "abstained", "poisoning_outlier"}, Mark(status, reason)
  PROVE  /\ submissions' \in Seq(Submission)
         /\ Len(submissions') = Len(submissions)
         /\ \A n \in 1 .. Len(submissions) : n # position => submissions'[n] = submissions[n]
         /\ submissions'[position].status = status
         /\ submissions'[position].reason = reason
         /\ \A f : Genuine(f)' = Genuine(f) /\ Admitted(f)' = Admitted(f)
<1>1. submissions \in Seq(Submission) /\ Len(submissions) \in Nat
  BY DEF TypeOK, Submission
<1>2. submissions[position] \in Submission
  BY <1>1
<1> DEFINE marked == [submissions[position] EXCEPT !.status = status, !.reason = reason]
<1>3. /\ marked \in Submission /\ marked.status = status /\ marked.reason = reason
      /\ marked.family = submissions[position].family
  BY <1>2 DEF Submission, Reason
<1>4. submissions' = [submissions EXCEPT ![position] = marked]
  BY <1>1, <1>2 DEF Mark, Submission
<1> HIDE DEF marked
<1>5. /\ submissions' \in Seq(Submission) /\ Len(submissions') = Len(submissions)
      /\ \A n \in 1 .. Len(submissions) :
           submissions'[n] = IF n = position THEN marked ELSE submissions[n]
  BY <1>1, <1>3, <1>4, ExceptSeq
<1>6. submissions'[position] = marked
  BY <1>5
<1>7. submissions[position].reason = ""
  BY DEF Standing
<1>8. ASSUME NEW f PROVE Genuine(f)' = Genuine(f) /\ Admitted(f)' = Admitted(f)
  <2>1. \A n \in 1 .. Len(submissions) :
          /\ submissions'[n].family = submissions[n].family
          /\ \A r \in {"unverified_identity", "compiler_version_mismatch",
                       "org_family_cap_exceeded"} :
               submissions'[n].reason = r <=> submissions[n].reason = r
    BY <1>3, <1>5, <1>7
  <2>2. Genuine(f)' = Genuine(f)
    BY <1>5, <2>1 DEF Genuine
  <2>3. Genuine(f) \subseteq 1 .. Len(submissions)
    BY DEF Genuine
  <2>4. Admitted(f)' = Admitted(f)
    BY <2>1, <2>2, <2>3 DEF Admitted
  <2> QED
    BY <2>2, <2>4
<1> QED
  BY <1>3, <1>5, <1>6, <1>8

\* Marking keeps all that does not speak of the contributions.
LEMMA MarkingKeepsCounts ==
  ASSUME Admissions, familyCounts' = familyCounts,
         \A f : Genuine(f)' = Genuine(f) /\ Admitted(f)' = Admitted(f)
  PROVE  Admissions'
<1> SUFFICES ASSUME NEW f \in Families
             PROVE  /\ Cardinality(Admitted(f)') = familyCounts'[f]
                    /\ familyCounts'[f] = IF Cardinality(Genuine(f)') < MaxPerOrgFamily
                                          THEN Cardinality(Genuine(f)') ELSE MaxPerOrgFamily
  BY DEF Admissions
<1>1. Genuine(f)' = Genuine(f) /\ Admitted(f)' = Admitted(f)
  OBVIOUS
<1>2. /\ Cardinality(Admitted(f)) = familyCounts[f]
      /\ familyCounts[f] = IF Cardinality(Genuine(f)) < MaxPerOrgFamily
                           THEN Cardinality(Genuine(f)) ELSE MaxPerOrgFamily
  BY DEF Admissions
<1> QED
  BY <1>1, <1>2

LEMMA SimulateDropoutKeepsRound == RoundInv /\ SimulateDropout => RoundInv'
<1> SUFFICES ASSUME RoundInv, SimulateDropout PROVE RoundInv'
  OBVIOUS
<1>1. TypeOK /\ Standing /\ Admissions /\ LastResult /\ PaidIsReleased
  BY DEF RoundInv
<1>2. /\ phase = "dropout" /\ position \in 1 .. Len(submissions) /\ position' = position + 1
      /\ UNCHANGED <<minimum_k, phase, familyCounts, contributions, spent, history, results,
                     rounds>>
  <2>1. position \in Nat \ {0} /\ Len(submissions) \in Nat
    BY <1>1, Lengths, RoundAssumption DEF TypeOK
  <2> QED
    BY <2>1 DEF SimulateDropout
<1>3. /\ submissions' \in Seq(Submission) /\ Len(submissions') = Len(submissions)
      /\ \A n \in 1 .. Len(submissions') :
           submissions'[n].status = "eligible" <=> submissions'[n].reason = ""
      /\ \A f : Genuine(f)' = Genuine(f) /\ Admitted(f)' = Admitted(f)
  <2>1. \A n \in 1 .. Len(submissions) :
          submissions[n].status = "eligible" <=> submissions[n].reason = ""
    BY <1>1 DEF Standing, Eligible
  <2>2. CASE UNCHANGED submissions
    BY <1>1, <2>1, <2>2 DEF TypeOK, Submission, Genuine, Admitted
  <2>3. CASE Eligible(position) /\ Mark("dropped", "dropout")
    <3>1. "dropped" \in ParticipationStatus \ {"eligible"}
      BY DEF ParticipationStatus
    <3>2. /\ submissions' \in Seq(Submission) /\ Len(submissions') = Len(submissions)
          /\ \A n \in 1 .. Len(submissions) :
               n # position => submissions'[n] = submissions[n]
          /\ submissions'[position].status = "dropped"
          /\ submissions'[position].reason = "dropout"
          /\ \A f : Genuine(f)' = Genuine(f) /\ Admitted(f)' = Admitted(f)
      BY <1>1, <1>2, <2>3, <3>1, MarkedTenant
    <3> QED
      BY <2>1, <3>2
  <2> QED
    BY <2>2, <2>3 DEF SimulateDropout
<1>4. TypeOK'
  <2>1. position' \in 1 .. MaxTenants + 1
    BY <1>1, <1>2, Lengths, RoundAssumption DEF TypeOK
  <2> QED
    BY <1>1, <1>2, <1>3, <2>1 DEF TypeOK, Submission
<1>5. Standing'
  <2>1. contributions' = <<>> /\ contributions = <<>>
    BY <1>1, <1>2 DEF Standing
  <2>2. \A k \in 1 .. Len(contributions') : FALSE
    BY <2>1
  <2>3. Cardinality(Contributing') = Len(contributions')
    BY <1>1, <1>2 DEF Standing, Contributing
  <2> QED
    BY <1>3, <2>1, <2>2, <2>3, Zenon DEF Standing, Eligible
<1>6. Admissions'
  BY <1>1, <1>2, <1>3, MarkingKeepsCounts
<1>7. LastResult' /\ PaidIsReleased'
  BY <1>1, <1>2 DEF LastResult, PaidIsReleased
<1> QED
  BY <1>4, <1>5, <1>6, <1>7 DEF RoundInv

\* A contribution appended by the tenant at position adds it to those who
\* contribute.
LEMMA AppendedContribution ==
  ASSUME TypeOK, NEW c \in Contribution, contributions' = Append(contributions, c)
  PROVE  /\ contributions' \in Seq(Contribution)
         /\ Len(contributions') = Len(contributions) + 1
         /\ \A k \in 1 .. Len(contributions') :
              \/ k \in 1 .. Len(contributions) /\ contributions'[k] = contributions[k]
              \/ contributions'[k] = c
         /\ Contributing' = Contributing \cup {c.tenant}
<1>1. contributions \in Seq(Contribution) /\ Len(contributions) \in Nat
  BY DEF TypeOK, Contribution
<1>2. /\ contributions' \in Seq(Contribution)
      /\ Len(contributions') = Len(contributions) + 1
      /\ \A k \in 1 .. Len(contributions) : contributions'[k] = contributions[k]
      /\ contributions'[Len(contributions) + 1] = c
  BY <1>1
<1>3. 1 .. Len(contributions') = 1 .. Len(contributions) \cup {Len(contributions) + 1}
  BY <1>1, <1>2
<1>4. Contributing' = Contributing \cup {c.tenant}
  BY <1>2, <1>3 DEF Contributing
<1> QED
  BY <1>2, <1>3, <1>4

LEMMA CollectContributionKeepsRound == RoundInv /\ CollectContribution => RoundInv'
<1> SUFFICES ASSUME RoundInv, CollectContribution PROVE RoundInv'
  OBVIOUS
<1>1. TypeOK /\ Standing /\ Admissions /\ LastResult /\ PaidIsReleased
  BY DEF RoundInv
<1>2. /\ phase = "collect" /\ position \in 1 .. Len(submissions) /\ position' = position + 1
      /\ UNCHANGED <<minimum_k, phase, familyCounts, spent, history, results, rounds>>
  <2>1. position \in Nat \ {0} /\ Len(submissions) \in Nat
    BY <1>1, Lengths, RoundAssumption DEF TypeOK
  <2> QED
    BY <2>1 DEF CollectContribution
<1>3. /\ position' \in 1 .. MaxTenants + 1 /\ position < position' /\ position \in 1 .. MaxTenants
      /\ position \in Nat
  BY <1>1, <1>2, Lengths, RoundAssumption DEF TypeOK
<1>4. /\ \A n \in 1 .. Len(submissions) : Eligible(n) <=> submissions[n].reason = ""
      /\ \A k \in 1 .. Len(contributions) :
           /\ contributions[k].tenant \in 1 .. Len(submissions)
           /\ Eligible(contributions[k].tenant)
           /\ contributions[k].tenant < position
           /\ contributions[k].failures =< OutlierCap
      /\ Cardinality(Contributing) = Len(contributions)
  BY <1>1, <1>2 DEF Standing
<1>5. /\ submissions \in Seq(Submission) /\ contributions \in Seq(Contribution)
      /\ Len(submissions) \in Nat /\ Len(contributions) \in Nat
      /\ \A k \in 1 .. Len(contributions) :
           /\ contributions[k].tenant \in 1 .. Len(submissions)
           /\ contributions[k].tenant # position
           /\ contributions[k].tenant < position'
           /\ contributions[k].failures =< OutlierCap
           /\ submissions[contributions[k].tenant].status = "eligible"
  <2>1. submissions \in Seq(Submission) /\ contributions \in Seq(Contribution)
    BY <1>1 DEF TypeOK, Submission, Contribution
  <2>2. Len(submissions) \in Nat /\ Len(contributions) \in Nat
    BY <1>1, Lengths
  <2>3. ASSUME NEW k \in 1 .. Len(contributions)
        PROVE  /\ contributions[k].tenant \in 1 .. Len(submissions)
               /\ contributions[k].tenant # position
               /\ contributions[k].tenant < position'
               /\ contributions[k].failures =< OutlierCap
               /\ submissions[contributions[k].tenant].status = "eligible"
    <3>1. /\ contributions[k].tenant \in 1 .. Len(submissions)
          /\ contributions[k].tenant < position
          /\ contributions[k].failures =< OutlierCap
          /\ Eligible(contributions[k].tenant)
      BY <1>4
    <3> QED
      BY <1>2, <1>3, <2>2, <3>1 DEF Eligible
  <2> QED
    BY <2>1, <2>2, <2>3
<1>6. LastResult' /\ PaidIsReleased'
  BY <1>1, <1>2 DEF LastResult, PaidIsReleased
<1>7. CASE UNCHANGED <<submissions, contributions>>
  <2>1. TypeOK'
    BY <1>1, <1>2, <1>3, <1>7 DEF TypeOK
  <2>2. Contributing' = Contributing /\ Admissions'
    BY <1>1, <1>2, <1>7, SameRound
  <2>3. \A k \in 1 .. Len(contributions) : contributions[k].tenant < position'
    BY <1>5
  <2>4. Standing'
    BY <1>2, <1>4, <1>7, <2>2, <2>3 DEF Standing, Eligible
  <2> QED
    BY <1>6, <2>1, <2>2, <2>4 DEF RoundInv
<1>8. ASSUME Eligible(position), UNCHANGED contributions,
             NEW status \in ParticipationStatus \ {"eligible"},
             NEW reason \in {"abstained", "poisoning_outlier"}, Mark(status, reason)
      PROVE  RoundInv'
  <2>1. /\ submissions' \in Seq(Submission) /\ Len(submissions') = Len(submissions)
        /\ \A n \in 1 .. Len(submissions) : n # position => submissions'[n] = submissions[n]
        /\ submissions'[position].status = status
        /\ submissions'[position].reason = reason
        /\ \A f : Genuine(f)' = Genuine(f) /\ Admitted(f)' = Admitted(f)
    BY <1>1, <1>2, <1>8, MarkedTenant
  <2>2. TypeOK'
    BY <1>1, <1>2, <1>3, <1>8, <2>1 DEF TypeOK, Submission
  <2>3. Contributing' = Contributing
    BY <1>8 DEF Contributing
  <2>4. \A n \in 1 .. Len(submissions') :
          submissions'[n].status = "eligible" <=> submissions'[n].reason = ""
    BY <1>4, <2>1 DEF Eligible
  <2>5. \A k \in 1 .. Len(contributions) :
          /\ contributions[k].tenant < position'
          /\ submissions'[contributions[k].tenant].status = "eligible"
    BY <1>5, <2>1
  <2>6. Standing'
    BY <1>2, <1>4, <1>8, <2>1, <2>3, <2>4, <2>5 DEF Standing, Eligible
  <2>7. Admissions'
    BY <1>1, <1>2, <2>1, MarkingKeepsCounts
  <2> QED
    BY <1>6, <2>2, <2>6, <2>7 DEF RoundInv
<1>9. ASSUME Eligible(position), UNCHANGED submissions, NEW raw \in RawFailures,
             ~ (Clipped(raw) > OutlierCap),
             contributions' = Append(contributions, [tenant |-> position,
                                                     failures |-> Clipped(raw)])
      PROVE  RoundInv'
  <2> DEFINE c == [tenant |-> position, failures |-> Clipped(raw)]
  <2>1. c \in Contribution /\ c.tenant = position /\ c.failures =< OutlierCap
    BY <1>3, <1>9, RoundAssumption DEF Clipped, Contribution
  <2>2. contributions' = Append(contributions, c)
    BY <1>9
  <2> HIDE DEF c
  <2>3. /\ contributions' \in Seq(Contribution)
        /\ Len(contributions') = Len(contributions) + 1
        /\ \A k \in 1 .. Len(contributions') :
             \/ k \in 1 .. Len(contributions) /\ contributions'[k] = contributions[k]
             \/ contributions'[k] = c
        /\ Contributing' = Contributing \cup {position}
    BY <1>1, <2>1, <2>2, AppendedContribution
  <2>4. TypeOK'
    BY <1>1, <1>2, <1>3, <1>9, <2>3 DEF TypeOK, Contribution
  <2>5. position \notin Contributing
    BY <1>5 DEF Contributing
  <2>6. Cardinality(Contributing') = Len(contributions')
    <3>1. IsFiniteSet(Contributing)
      BY <1>1, ContributorsAreTenants
    <3> QED
      BY <1>4, <2>3, <2>5, <3>1, FS_AddElement
  <2>7. \A k \in 1 .. Len(contributions') :
          /\ contributions'[k].tenant \in 1 .. Len(submissions)
          /\ submissions[contributions'[k].tenant].status = "eligible"
          /\ contributions'[k].tenant < position'
          /\ contributions'[k].failures =< OutlierCap
    <3> SUFFICES ASSUME NEW k \in 1 .. Len(contributions')
                 PROVE  /\ contributions'[k].tenant \in 1 .. Len(submissions)
                        /\ submissions[contributions'[k].tenant].status = "eligible"
                        /\ contributions'[k].tenant < position'
                        /\ contributions'[k].failures =< OutlierCap
      OBVIOUS
    <3>1. CASE k \in 1 .. Len(contributions) /\ contributions'[k] = contributions[k]
      BY <1>5, <3>1
    <3>2. CASE contributions'[k] = c
      BY <1>2, <1>3, <1>9, <2>1, <3>2 DEF Eligible
    <3> QED
      BY <2>3, <3>1, <3>2
  <2>8. Standing'
    BY <1>2, <1>4, <1>9, <2>6, <2>7 DEF Standing, Eligible
  <2>9. Admissions'
    <3>1. \A f : Genuine(f)' = Genuine(f) /\ Admitted(f)' = Admitted(f)
      BY <1>9 DEF Genuine, Admitted
    <3> QED
      BY <1>1, <1>2, <3>1, MarkingKeepsCounts
  <2> QED
    BY <1>6, <2>4, <2>8, <2>9 DEF RoundInv
<1>10. {"dropped", "rejected_outlier"} \subseteq ParticipationStatus \ {"eligible"}
  BY DEF ParticipationStatus
<1> QED
  BY <1>7, <1>8, <1>9, <1>10 DEF CollectContribution

-----------------------------------------------------------------------------
(* The end of a round.                                                     *)

LEMMA ReleaseOutcome ==
  ASSUME TypeOK, Release
  PROVE  \E outcome \in Outcome :
           /\ Conclude(outcome)
           /\ \/ outcome # "released" /\ UNCHANGED <<spent, history>>
              \/ /\ outcome = "released" /\ Charge /\ spent + Epsilon =< TotalEpsilon
                 /\ Len(contributions) >= minimum_k /\ Len(contributions) >= MinSlice
<1>1. CASE Conclude("below_minimum_k") /\ UNCHANGED <<spent, history>>
  BY <1>1 DEF Outcome
<1>2. CASE Conclude("sparse_slice_suppressed") /\ UNCHANGED <<spent, history>>
  BY <1>2 DEF Outcome
<1>3. CASE Conclude("budget_exhausted") /\ UNCHANGED <<spent, history>>
  BY <1>3 DEF Outcome
<1>4. CASE /\ Len(contributions) >= minimum_k /\ Allowed(Len(contributions), spent, Epsilon)
           /\ Conclude(Aggregated) /\ Charge
  <2>1. minimum_k \in Nat /\ Len(contributions) \in Nat /\ MinSlice \in Nat
        /\ spent \in Nat /\ Epsilon \in Nat /\ TotalEpsilon \in Nat
    BY Lengths, RoundAssumption, AccountantAssumption DEF TypeOK
  <2>2. Aggregated = "released"
    BY <1>4, <2>1 DEF Aggregated
  <2>3. Len(contributions) >= MinSlice /\ spent + Epsilon =< TotalEpsilon
    BY <1>4, <2>1 DEF Allowed, Sparse, Exhausted
  <2> QED
    BY <1>4, <2>2, <2>3 DEF Outcome
<1> QED
  BY <1>1, <1>2, <1>3, <1>4 DEF Release

\* The rounds that released.
Released == {r \in 1 .. Len(results) : results[r].outcome = "released"}

LEMMA ReleaseKeepsRound == RoundInv /\ Release => RoundInv'
<1> SUFFICES ASSUME RoundInv, Release PROVE RoundInv'
  OBVIOUS
<1>1. TypeOK /\ Standing /\ Admissions /\ PaidIsReleased
  BY DEF RoundInv
<1>2. PICK outcome \in Outcome :
        /\ Conclude(outcome)
        /\ \/ outcome # "released" /\ UNCHANGED <<spent, history>>
           \/ /\ outcome = "released" /\ Charge /\ spent + Epsilon =< TotalEpsilon
              /\ Len(contributions) >= minimum_k /\ Len(contributions) >= MinSlice
  BY <1>1, ReleaseOutcome
<1> DEFINE last == [outcome |-> outcome, participants |-> Len(contributions),
                    rejected |-> Rejected]
           n == Len(results) + 1
<1>3. /\ results' = Append(results, last) /\ phase' = "idle"
      /\ UNCHANGED <<minimum_k, position, submissions, familyCounts, contributions, rounds>>
  BY <1>2 DEF Conclude
<1>4. last \in Result /\ last.outcome = outcome /\ last.rejected = Rejected
  <2>1. Len(contributions) \in 0 .. MaxTenants
    BY <1>1, ContributorsAreTenants, Lengths, RoundAssumption
  <2>2. Rejected \subseteq 1 .. MaxTenants
    BY <1>1, Lengths, RoundAssumption DEF TypeOK, Rejected
  <2> QED
    BY <2>1, <2>2 DEF Result
<1> HIDE DEF last
<1>5. results \in Seq(Result) /\ Len(results) \in Nat
  BY <1>1, Lengths DEF TypeOK, Result
<1>6. /\ results' \in Seq(Result) /\ Len(results') = n
      /\ \A r \in 1 .. Len(results) : results'[r] = results[r]
      /\ results'[n] = last
  BY <1>3, <1>4, <1>5
<1>7. TypeOK'
  <2>1. spent' \in 0 .. TotalEpsilon /\ history' \in Seq({Epsilon})
    <3>1. spent \in 0 .. TotalEpsilon /\ history \in Seq({Epsilon})
      BY <1>1 DEF TypeOK
    <3>2. Epsilon \in Nat /\ TotalEpsilon \in Nat
      BY RoundAssumption, AccountantAssumption
    <3> QED
      BY <1>2, <3>1, <3>2 DEF Charge
  <2> QED
    BY <1>1, <1>3, <1>6, <2>1 DEF TypeOK, Result
<1>8. Contributing' = Contributing /\ Rejected' = Rejected /\ Admissions'
  BY <1>1, <1>3, SameRound
<1>9. Standing'
  BY <1>1, <1>3, <1>8 DEF Standing, Eligible
<1>10. LastResult'
  BY <1>2, <1>3, <1>4, <1>6, <1>8 DEF LastResult
<1>11. PaidIsReleased'
  <2>1. /\ spent = Epsilon * Cardinality(Released) /\ Len(history) = Cardinality(Released)
        /\ history \in Seq({Epsilon}) /\ Epsilon \in Nat
    BY <1>1, RoundAssumption DEF PaidIsReleased, Released, TypeOK
  <2>2. IsFiniteSet(Released) /\ n \notin Released /\ Cardinality(Released) \in Nat
    <3>1. Released \subseteq 1 .. Len(results) /\ IsFiniteSet(1 .. Len(results))
      BY <1>5, UpTo DEF Released
    <3>2. IsFiniteSet(Released)
      BY <3>1, FS_Subset
    <3> QED
      BY <1>5, <3>1, <3>2, FS_CardinalityType
  <2>3. 1 .. Len(results') = 1 .. Len(results) \cup {n} /\ n \in 1 .. Len(results')
    BY <1>5, <1>6
  <2>4. CASE outcome # "released" /\ UNCHANGED <<spent, history>>
    <3>1. Released' = Released
      BY <1>4, <1>6, <2>3, <2>4 DEF Released
    <3> QED
      BY <2>1, <2>4, <3>1 DEF PaidIsReleased, Released
  <2>5. CASE outcome = "released" /\ Charge
    <3>1. Released' = Released \cup {n}
      BY <1>4, <1>6, <2>3, <2>5 DEF Released
    <3>2. Cardinality(Released') = Cardinality(Released) + 1
      BY <2>2, <3>1, FS_AddElement
    <3>3. spent' = spent + Epsilon /\ Len(history') = Len(history) + 1
      BY <2>1, <2>5 DEF Charge
    <3>4. Epsilon * (Cardinality(Released) + 1) = Epsilon * Cardinality(Released) + Epsilon
      BY <2>1, <2>2
    <3>5. spent' = Epsilon * Cardinality(Released') /\ Len(history') = Cardinality(Released')
      BY <2>1, <3>2, <3>3, <3>4
    <3> QED
      BY <3>5 DEF PaidIsReleased, Released
  <2> QED
    BY <1>2, <2>4, <2>5
<1> QED
  BY <1>7, <1>8, <1>9, <1>10, <1>11 DEF RoundInv

-----------------------------------------------------------------------------
LEMMA RoundsKeepRound == Spec => []RoundInv
<1>1. Init => RoundInv
  BY InitKeepsRound
<1>2. RoundInv /\ [Next]_vars => RoundInv'
  <2> SUFFICES ASSUME RoundInv, [Next]_vars PROVE RoundInv'
    OBVIOUS
  <2>1. CASE Next
    BY <2>1, NewCoordinatorKeepsRound, BeginRoundKeepsRound, AdmitTenantKeepsRound,
       EndLoopKeepsRound, SimulateDropoutKeepsRound, CollectContributionKeepsRound,
       ReleaseKeepsRound DEF Next
  <2>2. CASE UNCHANGED vars
    <3> USE <2>2 DEF vars, round
    <3>1. TypeOK'
      BY DEF RoundInv, TypeOK
    <3>2. Standing'
      BY DEF RoundInv, Standing, Eligible, Contributing
    <3>3. Admissions'
      BY DEF RoundInv, Admissions, Admitted, Genuine
    <3>4. LastResult'
      <4>1. Rejected' = Rejected
        BY DEF Rejected, Eligible, Contributing
      <4>2. /\ phase' = phase /\ results' = results
            /\ contributions' = contributions /\ minimum_k' = minimum_k
        OBVIOUS
      <4> QED BY <4>1, <4>2 DEF RoundInv, LastResult
    <3>5. PaidIsReleased'
      BY DEF RoundInv, PaidIsReleased
    <3> QED BY <3>1, <3>2, <3>3, <3>4, <3>5 DEF RoundInv
  <2> QED
    BY <2>1, <2>2
<1> QED
  BY <1>1, <1>2, PTL DEF Spec

\* A coordinator's state keeps its types: no family is over its cap and no
\* budget overspent (ConsortiumCoordinator, PrivacyAccountant).
THEOREM RoundTypeCorrect == Spec => []TypeOK
<1>1. RoundInv => TypeOK
  BY DEF RoundInv
<1> QED
  BY <1>1, RoundsKeepRound, PTL

\* A family's admissions are its cap or all its genuine tenants, in whatever
\* order they apply, and no more of them contribute (admit_tenants).
THEOREM FamiliesStayCapped == Spec => []FamiliesAreCapped
<1>1. RoundInv => FamiliesAreCapped
  <2> SUFFICES ASSUME RoundInv, NEW f \in Families
               PROVE  LET genuine == Cardinality(Genuine(f))
                      IN /\ familyCounts[f] = IF genuine < MaxPerOrgFamily THEN genuine
                                              ELSE MaxPerOrgFamily
                         /\ Cardinality({n \in Genuine(f) : n \in Contributing})
                              =< familyCounts[f]
    BY DEF FamiliesAreCapped
  <2>1. TypeOK /\ Standing /\ Admissions
    BY DEF RoundInv
  <2>2. {n \in Genuine(f) : n \in Contributing} \subseteq Admitted(f)
    <3>1. \A n \in Contributing : submissions[n].reason = ""
      BY <2>1 DEF Standing, Contributing
    <3> QED
      BY <3>1 DEF Admitted
  <2>3. IsFiniteSet(Admitted(f))
    BY <2>1, CountedSetsAreFinite
  <2>4. Cardinality({n \in Genuine(f) : n \in Contributing}) =< Cardinality(Admitted(f))
    BY <2>2, <2>3, FS_Subset
  <2> QED
    BY <2>1, <2>4 DEF Admissions
<1> QED
  BY <1>1, RoundsKeepRound, PTL

\* When a round has ended a tenant has contributed once or is named among
\* the rejected (run_round).
THEOREM TenantsAreAccounted == Spec => []EveryTenantIsAccounted
<1>1. RoundInv => EveryTenantIsAccounted
  <2> SUFFICES ASSUME RoundInv PROVE EveryTenantIsAccounted
    OBVIOUS
  <2>1. TypeOK /\ Standing /\ LastResult
    BY DEF RoundInv
  <2>2. Contributing \subseteq 1 .. Len(submissions)
    BY <2>1, ContributorsAreTenants
  <2>3. \A n \in Contributing : Eligible(n)
    BY <2>1 DEF Standing, Contributing
  <2>4. Rejected \cap Contributing = {} /\ Rejected \cup Contributing = 1 .. Len(submissions)
    BY <2>2, <2>3 DEF Rejected
  <2> QED
    BY <2>1, <2>4 DEF EveryTenantIsAccounted, LastResult, Standing
<1> QED
  BY <1>1, RoundsKeepRound, PTL

\* A release rests on enough tenants for both thresholds, and on no outlier
\* (run_round).
THEOREM ReleasesMeetThresholds == Spec => []ReleaseMeetsThresholds
<1>1. RoundInv => ReleaseMeetsThresholds
  BY DEF RoundInv, ReleaseMeetsThresholds, LastResult, Standing
<1> QED
  BY <1>1, RoundsKeepRound, PTL

\* A coordinator pays for its releases and for nothing else (run_round asks
\* for the cohort before it asks the accountant).
THEOREM WhatIsPaidIsReleased == Spec => []PaidIsReleased
<1>1. RoundInv => PaidIsReleased
  BY DEF RoundInv
<1> QED
  BY <1>1, RoundsKeepRound, PTL
=============================================================================
