---------------------------- MODULE MinimizerProofs ----------------------------
(***************************************************************************)
(* The minimizer returns a locally minimal core with a log that accounts   *)
(* for it, whatever set it is given, whatever the costs are and whatever   *)
(* its predicates answer.                                                  *)
(*                                                                         *)
(* The inductive invariant says what a sweep has learnt: a partition that  *)
(* is no longer to do was refused on this very core.  When the last sweep  *)
(* ends there are as many partitions as elements, so each holds one.  Each *)
(* step brings that end nearer.                                            *)
(***************************************************************************)
EXTENDS Minimizer, FiniteSetTheorems, TLAPS

Settled ==
  /\ sweep = "begin" => n = 2 \/ n =< Cardinality(core)
  /\ sweep = "ask" =>
     /\ place \in Bijection(core, 1 .. Cardinality(core))
     /\ \A k \in todo : Part(place, k) # {}
     /\ \A k \in 0 .. n - 1 : k \in todo \/ Part(place, k) = {} \/ Asked(k) \in refused

MinimizerInv == MinimizerTypeOK /\ Settled /\ LocallyMinimal /\ LogAccounts

\* The numbers up to a natural number are finite, and as many as it says.
LEMMA UpTo ==
  ASSUME NEW k \in Nat
  PROVE  IsFiniteSet(1 .. k) /\ Cardinality(1 .. k) = k
<1>1. 1 \in Int /\ k \in Int
  OBVIOUS
<1>2. IsFiniteSet(1 .. k) /\ Cardinality(1 .. k) = IF 1 > k THEN 0 ELSE k - 1 + 1
  BY <1>1, FS_Interval
<1> QED BY <1>2

\* A number below the divisor is its own remainder.
LEMMA SmallRemainder ==
  ASSUME NEW d \in Nat, NEW x \in 0 .. d - 1
  PROVE  x % d = x
OBVIOUS

LEMMA RemainderInRange ==
  ASSUME NEW d \in Nat \ {0}, NEW x \in Nat
  PROVE  x % d \in 0 .. d - 1
OBVIOUS

\* What a minimizer is given is finite, and so is all it works on.
LEMMA CoreIsFinite ==
  ASSUME MinimizerTypeOK
  PROVE  IsFiniteSet(core) /\ Cardinality(core) \in Nat
<1>1. core \in SUBSET Elements
  BY DEF MinimizerTypeOK
<1> QED BY <1>1, CostAssumption, FS_Subset, FS_CardinalityType

\* With as many partitions as elements, each holds at most one.
LEMMA SingletonParts ==
  ASSUME MinimizerTypeOK, NEW p \in Bijection(core, 1 .. Cardinality(core)),
         n >= Cardinality(core), NEW e \in core
  PROVE  \E k \in 0 .. n - 1 : Part(p, k) = {e}
<1> DEFINE k == p[e] - 1
<1>1. n \in Nat /\ Cardinality(core) \in Nat
  BY CoreIsFinite DEF MinimizerTypeOK
<1>2. DOMAIN p = core /\ \A a \in core : p[a] \in 1 .. Cardinality(core)
  BY DEF Bijection, Injection
<1>3. \A a, b \in core : p[a] = p[b] => a = b
  BY <1>2 DEF Bijection, Injection, IsInjective
<1>4. \A a \in core : p[a] - 1 \in 0 .. n - 1
  BY <1>1, <1>2
<1>5. \A a \in core : (p[a] - 1) % n = p[a] - 1
  BY <1>1, <1>4, SmallRemainder
<1>6. ASSUME NEW a \in core, (p[a] - 1) % n = k PROVE a = e
  <2>1. p[a] = p[e]
    BY <1>2, <1>5, <1>6
  <2> QED BY <2>1, <1>3
<1>7. Part(p, k) = {e}
  BY <1>2, <1>5, <1>6 DEF Part
<1> QED BY <1>4, <1>7

\* Each partition but k keeps an element in the reduced core.
LEMMA PartsAreFilled ==
  ASSUME MinimizerTypeOK, Settled, LogAccounts, sweep = "ask", NEW k \in 0 .. n - 1
  PROVE  IsFiniteSet(Asked(k)) /\ n - 1 =< Cardinality(Asked(k))
<1> DEFINE R == (0 .. n - 1) \ {k}
           at(j) == CHOOSE e \in core : place[e] = j + 1
           f == [j \in R |-> at(j)]
<1>1. n \in Nat /\ Cardinality(core) \in Nat /\ n =< Cardinality(core) /\ IsFiniteSet(core)
  BY CoreIsFinite DEF MinimizerTypeOK, LogAccounts
<1>2. \A j \in 1 .. Cardinality(core) : \E e \in core : place[e] = j
  BY DEF Settled, Bijection, Surjection
<1>3. \A j \in R : at(j) \in core /\ place[at(j)] = j + 1
  <2>1. \A j \in R : j + 1 \in 1 .. Cardinality(core)
    BY <1>1
  <2> QED BY <2>1, <1>2
<1>4. DOMAIN place = core
  BY DEF Settled, Bijection, Injection
<1>5. \A j \in R : at(j) \in Asked(k)
  <2> SUFFICES ASSUME NEW j \in R PROVE at(j) \in core /\ at(j) \notin Part(place, k)
    BY DEF Asked
  <2>1. (place[at(j)] - 1) % n = j
    BY <1>1, <1>3, SmallRemainder
  <2> HIDE DEF at
  <2> QED BY <1>3, <2>1 DEF Part
<1>6. f \in Injection(R, Asked(k))
  <2>1. f \in [R -> Asked(k)]
    BY <1>5
  <2>2. ASSUME NEW i \in R, NEW j \in R, at(i) = at(j) PROVE i = j
    <3>1. i + 1 = j + 1
      BY <1>3, <2>2
    <3> QED BY <3>1, <1>1
  <2> HIDE DEF at
  <2> QED BY <2>1, <2>2 DEF Injection, IsInjective
<1>7. IsFiniteSet(Asked(k))
  BY <1>1, FS_Subset DEF Asked
<1>8. Cardinality(R) =< Cardinality(Asked(k)) /\ Cardinality(Asked(k)) \in Nat
  <2> HIDE DEF R, f
  <2> QED BY <1>6, <1>7, FS_Injection, FS_CardinalityType
<1>9. Cardinality(R) = n - 1
  <2>1. IsFiniteSet(0 .. n - 1) /\ Cardinality(0 .. n - 1) = n
    <3>1. 0 \in Int /\ n - 1 \in Int /\ ~ (0 > n - 1)
      BY <1>1 DEF MinimizerTypeOK
    <3>2. IsFiniteSet(0 .. n - 1) /\ Cardinality(0 .. n - 1) = (n - 1) - 0 + 1
      BY <3>1, FS_Interval
    <3> QED BY <3>2, <1>1
  <2>2. Cardinality(R) = Cardinality(0 .. n - 1) - 1
    <3> DEFINE all == 0 .. n - 1
    <3>1. k \in all /\ IsFiniteSet(all)
      BY <2>1
    <3> HIDE DEF all
    <3>2. Cardinality(all \ {k}) = Cardinality(all) - 1
      BY <3>1, FS_RemoveElement
    <3> QED BY <3>2 DEF all
  <2> HIDE DEF R
  <2> QED BY <2>1, <2>2
<1> QED BY <1>7, <1>8, <1>9

LEMMA InitInv == ASSUME MinimizerInit PROVE MinimizerInv
<1>1. Cardinality({}) = 0
  BY FS_EmptySet
<1> QED BY <1>1 DEF MinimizerInit, MinimizerInv, MinimizerTypeOK, Settled, LocallyMinimal, LogAccounts

-----------------------------------------------------------------------------
(* The steps.                                                              *)

LEMMA BeginSweepInv == ASSUME MinimizerInv, BeginSweep PROVE MinimizerInv'
<1>1. place' \in Bijection(core, 1 .. Cardinality(core))
  BY DEF BeginSweep, Orders
<1>2. /\ core' = core /\ n' = n /\ refused' = refused /\ sweep' = "ask"
      /\ candidate' = candidate /\ log' = log /\ sweep = "begin"
      /\ todo' = {k \in 0 .. n - 1 : Part(place', k) # {}}
  BY DEF BeginSweep
<1>3. MinimizerTypeOK'
  BY <1>1, <1>2 DEF MinimizerInv, MinimizerTypeOK, Bijection, Injection
<1>4. Settled'
  <2>1. (\A k \in 0 .. n - 1 : k \in todo \/ Part(place, k) = {} \/ Asked(k) \in refused)'
    BY <1>2 DEF Part
  <2>2. (\A k \in todo : Part(place, k) # {})'
    BY <1>2 DEF Part
  <2>3. (place \in Bijection(core, 1 .. Cardinality(core)))'
    BY <1>1, <1>2
  <2>4. sweep' # "begin"
    BY <1>2
  <2> QED BY <2>1, <2>2, <2>3, <2>4 DEF Settled
<1>5. n =< Cardinality(core)
  BY <1>2, CoreIsFinite DEF BeginSweep, MinimizerInv, Settled, MinimizerTypeOK
<1>6. LocallyMinimal'
  BY <1>2 DEF LocallyMinimal
<1>7. LogAccounts'
  BY <1>2, <1>5 DEF MinimizerInv, LogAccounts
<1> QED BY <1>3, <1>4, <1>6, <1>7 DEF MinimizerInv

LEMMA AcceptInv ==
  ASSUME MinimizerInv, NEW k \in todo, Accept(k) PROVE MinimizerInv'
<1>1. /\ sweep = "ask" /\ k \in 0 .. n - 1 /\ n \in Nat \ {0, 1}
      /\ IsFiniteSet(core) /\ core \subseteq candidate /\ DOMAIN place = core
  BY CoreIsFinite DEF Accept, MinimizerInv, MinimizerTypeOK
<1>2. /\ core' = core \ Part(place, k) /\ log' = log \cup {Part(place, k)}
      /\ refused' \subseteq refused /\ sweep' = "begin" /\ candidate' = candidate
      /\ n' = (IF n > 3 THEN n - 1 ELSE 2)
  BY DEF Accept, Asked
<1>3. Part(place, k) \subseteq core /\ Part(place, k) # {}
  BY <1>1 DEF Part, MinimizerInv, Settled
<1>3a. n - 1 =< Cardinality(core') /\ Cardinality(core') \in Nat
  BY <1>1, <1>2, PartsAreFilled, FS_CardinalityType DEF MinimizerInv, Asked
<1>4. MinimizerTypeOK'
  BY <1>1, <1>2, <1>3 DEF MinimizerInv, MinimizerTypeOK
<1>5. Settled'
  BY <1>1, <1>2, <1>3a DEF Settled
<1>6. LocallyMinimal'
  BY <1>2 DEF LocallyMinimal
<1>7. LogAccounts'
  BY <1>1, <1>2, <1>3 DEF MinimizerInv, LogAccounts
<1> QED BY <1>4, <1>5, <1>6, <1>7 DEF MinimizerInv

LEMMA RejectInv ==
  ASSUME MinimizerInv, NEW k \in todo, Reject(k) PROVE MinimizerInv'
<1>1. /\ sweep = "ask" /\ k \in 0 .. n - 1 /\ n \in Nat \ {0, 1}
      /\ core \subseteq candidate
  BY DEF Reject, MinimizerInv, MinimizerTypeOK
<1>2. /\ core' = core /\ n' = n /\ place' = place /\ sweep' = sweep
      /\ candidate' = candidate /\ log' = log
      /\ todo' = todo \ {k} /\ refused' = refused \cup {Asked(k)}
  BY DEF Reject
<1>3. MinimizerTypeOK'
  BY <1>1, <1>2 DEF MinimizerInv, MinimizerTypeOK, Asked
<1>4. Settled'
  <2>1. /\ place \in Bijection(core, 1 .. Cardinality(core))
        /\ \A j \in todo : Part(place, j) # {}
        /\ \A j \in 0 .. n - 1 : j \in todo \/ Part(place, j) = {} \/ Asked(j) \in refused
    BY <1>1 DEF MinimizerInv, Settled
  <2>2. \A j : Asked(j)' = Asked(j)
    BY <1>2 DEF Asked, Part
  <2>3. (\A j \in 0 .. n - 1 : j \in todo \/ Part(place, j) = {} \/ Asked(j) \in refused)'
    BY <1>2, <2>1, <2>2 DEF Part
  <2>4. (\A j \in todo : Part(place, j) # {})'
    BY <1>2, <2>1 DEF Part
  <2>5. (place \in Bijection(core, 1 .. Cardinality(core)))'
    BY <1>2, <2>1
  <2>6. sweep' # "begin"
    BY <1>1, <1>2
  <2> QED BY <2>3, <2>4, <2>5, <2>6 DEF Settled
<1>5. LocallyMinimal' /\ LogAccounts'
  BY <1>1, <1>2 DEF MinimizerInv, LocallyMinimal, LogAccounts
<1> QED BY <1>3, <1>4, <1>5 DEF MinimizerInv

LEMMA EndSweepInv == ASSUME MinimizerInv, EndSweep PROVE MinimizerInv'
<1>1. /\ sweep = "ask" /\ todo = {} /\ n \in Nat \ {0, 1} /\ Cardinality(core) \in Nat
      /\ n =< Cardinality(core)
  BY CoreIsFinite DEF EndSweep, MinimizerInv, MinimizerTypeOK, LogAccounts
<1>2. /\ core' = core /\ candidate' = candidate /\ log' = log /\ refused' = refused
      /\ todo' = todo /\ sweep' \in {"done", "begin"}
  BY DEF EndSweep
<1>3. CASE n >= Cardinality(core) /\ sweep' = "done" /\ n' = n
  <2>1. ASSUME NEW e \in core PROVE core \ {e} \in refused
    <3>1. PICK k \in 0 .. n - 1 : Part(place, k) = {e}
      BY <1>1, <1>3, SingletonParts DEF MinimizerInv, Settled
    <3>2. Asked(k) \in refused
      BY <1>1, <3>1 DEF MinimizerInv, Settled
    <3> QED BY <3>1, <3>2 DEF Asked
  <2>2. LocallyMinimal'
    BY <1>2, <2>1 DEF LocallyMinimal
  <2> QED BY <1>2, <1>3, <2>2 DEF MinimizerInv, MinimizerTypeOK, Settled, LogAccounts
<1>4. CASE /\ n < Cardinality(core) /\ sweep' = "begin"
           /\ n' = IF 2 * n < Cardinality(core) THEN 2 * n ELSE Cardinality(core)
  <2>1. n' \in Nat \ {0, 1} /\ n' =< Cardinality(core)
    BY <1>1, <1>4
  <2> QED BY <1>2, <1>4, <2>1
          DEF MinimizerInv, MinimizerTypeOK, Settled, LocallyMinimal, LogAccounts
<1> QED BY <1>3, <1>4 DEF EndSweep

LEMMA StopSmallInv == ASSUME MinimizerInv, StopSmall PROVE MinimizerInv'
BY DEF StopSmall, MinimizerInv, MinimizerTypeOK, Settled, LocallyMinimal, LogAccounts

LEMMA CallInv ==
  ASSUME MinimizerInv, NEW S \in SUBSET Elements, Call(S) PROVE MinimizerInv'
BY DEF Call, MinimizerInv, MinimizerTypeOK, Settled, LocallyMinimal, LogAccounts

LEMMA ForgetInv == ASSUME MinimizerInv, Forget PROVE MinimizerInv'
<1>1. Cardinality({}) = 0
  BY FS_EmptySet
<1> QED BY <1>1 DEF Forget, MinimizerInv, MinimizerTypeOK, Settled, LocallyMinimal, LogAccounts

LEMMA StepInv == ASSUME MinimizerInv, [MinimizerNext]_minimizer PROVE MinimizerInv'
<1>1. CASE MinimizerStep
  BY <1>1, BeginSweepInv, AcceptInv, RejectInv, EndSweepInv, StopSmallInv DEF MinimizerStep
<1>2. CASE Forget
  BY <1>2, ForgetInv
<1>3. CASE \E S \in SUBSET Elements : Call(S)
  BY <1>3, CallInv
<1>4. CASE UNCHANGED minimizer
  <2>1. /\ sweep' = sweep /\ candidate' = candidate /\ core' = core /\ n' = n
        /\ place' = place /\ todo' = todo /\ log' = log /\ refused' = refused
    BY <1>4 DEF minimizer
  <2>2. \A j : Asked(j)' = Asked(j)
    BY <2>1 DEF Asked, Part
  <2>3. Settled'
    BY <2>1, <2>2 DEF MinimizerInv, Settled, Part
  <2>4. MinimizerTypeOK' /\ LocallyMinimal' /\ LogAccounts'
    BY <2>1 DEF MinimizerInv, MinimizerTypeOK, LocallyMinimal, LogAccounts
  <2> QED BY <2>3, <2>4 DEF MinimizerInv
<1> QED BY <1>1, <1>2, <1>3, <1>4 DEF MinimizerNext

\* Whatever set a call is given and whatever its predicates answer, also
\* where they answer one question both ways, what it returns is locally
\* minimal by their latest answers (typed_causal_core_minimization).
THEOREM CoreIsLocallyMinimal == MinimizerSpec => []LocallyMinimal
<1>1. MinimizerInit => MinimizerInv
  BY InitInv
<1>2. MinimizerInv /\ [MinimizerNext]_minimizer => MinimizerInv'
  BY StepInv
<1>3. MinimizerInv => LocallyMinimal
  BY DEF MinimizerInv
<1> QED BY <1>1, <1>2, <1>3, PTL DEF MinimizerSpec

\* The log and the core make up the candidate without overlap, and no sweep
\* has an empty partition: the code's test for one never succeeds.
THEOREM LogIsAuditable == MinimizerSpec => []LogAccounts
<1>1. MinimizerInit => MinimizerInv
  BY InitInv
<1>2. MinimizerInv /\ [MinimizerNext]_minimizer => MinimizerInv'
  BY StepInv
<1>3. MinimizerInv => LogAccounts
  BY DEF MinimizerInv
<1> QED BY <1>1, <1>2, <1>3, PTL DEF MinimizerSpec

-----------------------------------------------------------------------------
(* Why it ends.                                                            *)

SweepsLeft == CASE sweep = "begin" -> 2 [] sweep = "ask" -> 1 [] OTHER -> 0

\* One order of four measures, each of which is bounded where it counts: the
\* core shrinks; or it stays and is dealt over more partitions, never more
\* than it has elements; or the sweep goes on; or it has one partition less.
Descends ==
  \/ Cardinality(core') < Cardinality(core)
  \/ core' = core /\ n < n' /\ n' =< Cardinality(core)
  \/ core' = core /\ n' = n /\ SweepsLeft' < SweepsLeft
  \/ /\ core' = core /\ n' = n /\ SweepsLeft' = SweepsLeft
     /\ IsFiniteSet(todo) /\ Cardinality(todo') < Cardinality(todo)

LEMMA StepDescends == ASSUME MinimizerInv, MinimizerStep PROVE Descends
<1>1. CASE BeginSweep
  BY <1>1 DEF BeginSweep, Descends, SweepsLeft
<1>2. CASE StopSmall
  BY <1>2 DEF StopSmall, Descends, SweepsLeft
<1>3. CASE EndSweep
  <2>1. n \in Nat \ {0, 1} /\ Cardinality(core) \in Nat
    BY CoreIsFinite DEF MinimizerInv, MinimizerTypeOK
  <2>2. CASE n >= Cardinality(core) /\ sweep' = "done" /\ n' = n
    BY <1>3, <2>2 DEF EndSweep, Descends, SweepsLeft
  <2>3. CASE /\ n < Cardinality(core)
             /\ n' = IF 2 * n < Cardinality(core) THEN 2 * n ELSE Cardinality(core)
    <3>1. n < n' /\ n' =< Cardinality(core)
      BY <2>1, <2>3
    <3> QED BY <1>3, <3>1 DEF EndSweep, Descends
  <2> QED BY <1>3, <2>2, <2>3 DEF EndSweep
<1>4. ASSUME NEW k \in todo, Accept(k) PROVE Descends
  <2>1. Part(place, k) \subseteq core /\ Part(place, k) # {}
    BY <1>4 DEF Accept, Part, MinimizerInv, MinimizerTypeOK, Settled
  <2>2. core' = core \ Part(place, k)
    BY <1>4 DEF Accept, Asked
  <2>3. core' \subseteq core /\ core' # core /\ IsFiniteSet(core)
    BY <2>1, <2>2, CoreIsFinite DEF MinimizerInv
  <2>4. Cardinality(core') < Cardinality(core)
    BY <2>3, FS_Subset, FS_CardinalityType
  <2> QED BY <2>4 DEF Descends
<1>5. ASSUME NEW k \in todo, Reject(k) PROVE Descends
  <2>1. sweep = "ask" /\ todo \subseteq 0 .. n - 1 /\ n \in Nat
    BY <1>5 DEF Reject, MinimizerInv, MinimizerTypeOK
  <2>2. IsFiniteSet(todo)
    <3>1. 0 \in Int /\ n - 1 \in Int
      BY <2>1
    <3>2. IsFiniteSet(0 .. n - 1)
      BY <3>1, FS_Interval
    <3> QED BY <2>1, <3>2, FS_Subset
  <2>3. Cardinality(todo \ {k}) = Cardinality(todo) - 1 /\ Cardinality(todo) \in Nat
    BY <2>2, FS_RemoveElement, FS_CardinalityType
  <2>4. todo' = todo \ {k} /\ core' = core /\ n' = n /\ sweep' = sweep
    BY <1>5 DEF Reject
  <2>5. Cardinality(todo') < Cardinality(todo) /\ SweepsLeft' = SweepsLeft
    BY <2>3, <2>4 DEF SweepsLeft
  <2> QED BY <2>2, <2>4, <2>5 DEF Descends
<1> QED BY <1>1, <1>2, <1>3, <1>4, <1>5 DEF MinimizerStep

\* Each step of the loop brings its end nearer, however the predicates
\* answer, so that a call that takes steps returns: nothing removed comes
\* back, and the granularity falls only where an element went
\* (typed_causal_core_minimization).
THEOREM MinimizerDescends == MinimizerSpec => [][MinimizerStep => Descends]_minimizer
<1>1. MinimizerInit => MinimizerInv
  BY InitInv
<1>2. MinimizerInv /\ [MinimizerNext]_minimizer => MinimizerInv'
  BY StepInv
<1>3. MinimizerInv => [MinimizerStep => Descends]_minimizer
  BY StepDescends
<1> QED BY <1>1, <1>2, <1>3, PTL DEF MinimizerSpec
=============================================================================
