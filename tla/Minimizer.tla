------------------------------- MODULE Minimizer -------------------------------
(***************************************************************************)
(* typed_causal_core_minimization (Algorithm 2): delta debugging over the  *)
(* elements of a candidate.  A sweep deals the core over n partitions in   *)
(* the order of privacy cost, and asks of the heaviest partition first     *)
(* whether the core without it still fails; the first that may go is       *)
(* removed and a new sweep begins, and when none may go the partitions     *)
(* become finer until each holds one element.                              *)
(*                                                                         *)
(* What the caller's predicates answer is up to the caller: they may drive *)
(* a live agent, which need not answer one question the same way twice.    *)
(***************************************************************************)
EXTENDS Integers, FiniteSetsExt

CONSTANTS Elements,  \* what a candidate is made of
          Cost       \* privacy_cost of an element on its own

ASSUME CostAssumption == IsFiniteSet(Elements) /\ Cost \in [Elements -> Nat]

VARIABLES
  sweep,      \* where the loop is: "idle" before a call, "done" at its return
  candidate,  \* the argument
  core,       \* c
  n,          \* over how many partitions a sweep deals the core
  place,      \* the place of each element in this sweep's sorted order
  todo,       \* the partitions this sweep has not come to
  log,        \* removed_elements of the log's "accept" entries
  refused     \* the reduced cores whose latest answer was no, the "reject" entries

minimizer == <<sweep, candidate, core, n, place, todo, log, refused>>

MinimizerTypeOK ==
  /\ sweep \in {"idle", "begin", "ask", "done"}
  /\ candidate \in SUBSET Elements /\ core \in SUBSET candidate
  /\ n \in Nat \ {0, 1}
  /\ sweep = "ask" => /\ place \in [core -> 1 .. Cardinality(core)]
                      /\ todo \subseteq 0 .. n - 1
  /\ log \subseteq SUBSET candidate /\ refused \subseteq SUBSET candidate

MinimizerInit ==
  /\ sweep = "idle"
  /\ candidate = {} /\ core = {} /\ n = 2
  /\ place = <<>> /\ todo = {}
  /\ log = {} /\ refused = {}

-----------------------------------------------------------------------------
Call(elements) ==
  /\ sweep' = "begin"
  /\ candidate' = elements /\ core' = elements /\ n' = 2
  /\ place' = <<>> /\ todo' = {}
  /\ log' = {} /\ refused' = {}

\* sorted is stable, but it sorts a set: equal costs come in any order.
Orders(S) ==
  {p \in Bijection(S, 1 .. Cardinality(S)) : \A a, b \in S : Cost[a] > Cost[b] => p[a] < p[b]}

\* partitions[i % n].append(el)
Part(p, k) == {e \in DOMAIN p : (p[e] - 1) % n = k}

Weight(k) == LET CostOf(e) == Cost[e] IN MapThenSumSet(CostOf, Part(place, k))

\* The first of the heaviest partitions.
Heaviest(k) == \A j \in todo : Weight(j) < Weight(k) \/ (Weight(j) = Weight(k) /\ k =< j)

Asked(k) == core \ Part(place, k)

\* An empty partition is passed over.
BeginSweep ==
  /\ sweep = "begin" /\ Cardinality(core) >= 2
  /\ place' \in Orders(core)
  /\ todo' = {k \in 0 .. n - 1 : Part(place', k) # {}}
  /\ sweep' = "ask"
  /\ UNCHANGED <<candidate, core, n, log, refused>>

\* A bug: the core forgets what was removed, the log does not say it.
Accept_Unlogged(k) ==
  /\ sweep = "ask" /\ k \in todo /\ Heaviest(k)
  /\ core' = Asked(k)
  /\ refused' = refused \ {Asked(k)}
  /\ n' = IF n > 3 THEN n - 1 ELSE 2
  /\ place' = <<>> /\ todo' = {}
  /\ sweep' = "begin"
  /\ UNCHANGED <<candidate, log>>

Accept(k) ==
  /\ sweep = "ask" /\ k \in todo /\ Heaviest(k)
  /\ core' = Asked(k)
  /\ log' = log \cup {Part(place, k)}
  /\ refused' = refused \ {Asked(k)}
  /\ n' = IF n > 3 THEN n - 1 ELSE 2
  /\ place' = <<>> /\ todo' = {}
  /\ sweep' = "begin"
  /\ UNCHANGED candidate

Reject(k) ==
  /\ sweep = "ask" /\ k \in todo /\ Heaviest(k)
  /\ todo' = todo \ {k}
  /\ refused' = refused \cup {Asked(k)}
  /\ UNCHANGED <<sweep, candidate, core, n, place, log>>

\* A bug: a sweep that removes nothing is the last.
EndSweep_NoRefinement ==
  /\ sweep = "ask" /\ todo = {}
  /\ sweep' = "done" /\ place' = <<>>
  /\ UNCHANGED <<candidate, core, n, todo, log, refused>>

\* A bug: the partitions never become finer than they are.
EndSweep_SameGrain ==
  /\ sweep = "ask" /\ todo = {}
  /\ sweep' = (IF n >= Cardinality(core) THEN "done" ELSE "begin") /\ place' = <<>>
  /\ UNCHANGED <<candidate, core, n, todo, log, refused>>

\* Nothing could be removed: finer partitions, or the end.
EndSweep ==
  /\ sweep = "ask" /\ todo = {}
  /\ \/ /\ n >= Cardinality(core)
        /\ sweep' = "done" /\ UNCHANGED n
     \/ /\ n < Cardinality(core)
        /\ sweep' = "begin"
        /\ n' = IF 2 * n < Cardinality(core) THEN 2 * n ELSE Cardinality(core)
  /\ place' = <<>>
  /\ UNCHANGED <<candidate, core, todo, log, refused>>

\* The loop's condition fails.
StopSmall ==
  /\ sweep = "begin" /\ Cardinality(core) < 2
  /\ sweep' = "done"
  /\ UNCHANGED <<candidate, core, n, place, todo, log, refused>>

MinimizerStep ==
  BeginSweep \/ EndSweep \/ StopSmall \/ \E k \in todo : Accept(k) \/ Reject(k)

\* The caller drops the result, or dies.
Forget ==
  /\ sweep' = "idle"
  /\ candidate' = {} /\ core' = {} /\ n' = 2
  /\ place' = <<>> /\ todo' = {}
  /\ log' = {} /\ refused' = {}

MinimizerNext ==
  MinimizerStep \/ Forget \/ (sweep \in {"idle", "done"} /\ \E S \in SUBSET Elements : Call(S))

MinimizerSpec == MinimizerInit /\ [][MinimizerNext]_minimizer

-----------------------------------------------------------------------------
(* Properties.                                                             *)

\* The core that is returned is locally minimal, as the docstring says: the
\* latest answer to the core without any one of its elements was no, also
\* where the predicates change their mind (typed_causal_core_minimization).
LocallyMinimal ==
  sweep = "done" => Cardinality(core) < 2 \/ \A e \in core : core \ {e} \in refused

\* The log accounts for the core: what the accepted entries removed and what
\* is left make up the candidate, and no element is on both sides or removed
\* twice; and a sweep never has more partitions than elements, so that none
\* is empty (typed_causal_core_minimization).
LogAccounts ==
  /\ core \cup UNION log = candidate
  /\ \A removed \in log : removed # {} /\ removed \cap core = {}
  /\ \A a, b \in log : a = b \/ a \cap b = {}
  /\ sweep = "ask" => n =< Cardinality(core)

\* A call returns, whatever the predicates answer.
MinimizationEnds == sweep # "idle" ~> sweep \in {"done", "idle"}
=============================================================================
