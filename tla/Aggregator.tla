------------------------------ MODULE Aggregator ------------------------------
(***************************************************************************)
(* The aggregation service: POST /aggregate behind the rate limiter.  A    *)
(* request that was admitted runs on a thread of the pool, with one        *)
(* PrivacyAccountant for all of them and no lock: threads switch at calls, *)
(* so the check and the charge are one step (there is no call between      *)
(* them), the entry in the history another, the verdict's remaining budget *)
(* another.  The accountant lives in memory; a restart forgets it.         *)
(***************************************************************************)
EXTENDS RateLimit, PrivacyAccountant

CONSTANTS Workers,        \* threads of the pool
          Epsilons,       \* epsilon of a request; nothing keeps it from 0
          Sizes,          \* contributions in a request
          Thresholds,     \* minimum_k of a request
          MaxTime,        \* bound: ticks of the clock
          MaxRequests,    \* bound: requests admitted
          MaxCrashes      \* bound: times the process dies

ASSUME RequestAssumption ==
  Epsilons \subseteq Nat /\ Sizes \subseteq Nat /\ Thresholds \subseteq Nat
ASSUME ServiceBoundsAssumption ==
  MaxTime \in Nat /\ MaxRequests \in Nat /\ MaxCrashes \in Nat

VARIABLES
  spent,      \* _spent
  history,    \* _history: the epsilon of each entry
  pc,         \* where each thread is in its request
  job,        \* the locals of each thread's request
  answers,    \* the answers given since the process started
  requests,   \* requests admitted so far
  crashes     \* crashes so far

accountant == <<spent, history>>
threads    == <<pc, job>>
vars       == <<limiter, accountant, threads, answers, requests, crashes>>

Label == {"idle", "attestation", "charge", "history", "verdict", "aggregate"}
Reason == {"released", "sparse_slice_suppressed", "budget_exhausted", "below_threshold",
           "division_by_zero"}

NoJob == [epsilon |-> 0, size |-> 0, minimum_k |-> 0, remaining |-> 0]

Answer == [reason : Reason, epsilon : Epsilons, remaining : 0 .. TotalEpsilon]

TypeOK ==
  /\ LimiterTypeOK
  /\ spent \in 0 .. TotalEpsilon
  /\ history \in Seq(Epsilons)
  /\ pc \in [Workers -> Label]
  /\ job \in [Workers -> [epsilon : Epsilons \cup {0}, size : Sizes \cup {0},
                          minimum_k : Thresholds \cup {0}, remaining : 0 .. TotalEpsilon]]
  /\ \A w \in Workers : pc[w] # "idle" => job[w].epsilon \in Epsilons
  /\ answers \in Seq(Answer)
  /\ requests \in 0 .. MaxRequests
  /\ crashes \in 0 .. MaxCrashes

Init ==
  /\ LimiterInit
  /\ spent = 0 /\ history = <<>>
  /\ pc = [w \in Workers |-> "idle"]
  /\ job = [w \in Workers |-> NoJob]
  /\ answers = <<>>
  /\ requests = 0 /\ crashes = 0

-----------------------------------------------------------------------------
Goto(w, next) == pc' = [pc EXCEPT ![w] = next]

\* The endpoint returns, or raises for an epsilon of zero.
Reply(w, reason, remaining) ==
  /\ answers' = Append(answers, [reason |-> reason, epsilon |-> job[w].epsilon,
                                 remaining |-> remaining])
  /\ Goto(w, "idle")
  /\ job' = [job EXCEPT ![w] = NoJob]

\* The middleware lets a request through, and a free thread takes it.
Receive(w, c) ==
  /\ pc[w] = "idle"
  /\ requests < MaxRequests
  /\ Admit(c)
  /\ requests' = requests + 1
  /\ \E epsilon \in Epsilons, size \in Sizes, minimum_k \in Thresholds :
       job' = [job EXCEPT ![w] = [epsilon |-> epsilon, size |-> size,
                                  minimum_k |-> minimum_k, remaining |-> 0]]
  /\ Goto(w, "attestation")
  /\ UNCHANGED <<accountant, answers, crashes>>

TurnAway(c) ==
  /\ Refuse(c)
  /\ UNCHANGED <<accountant, threads, answers, requests, crashes>>

\* A request without an attestation, or with a valid one, goes on; one
\* whose attestation does not verify is answered 400.
VerifyAttestation(w) ==
  /\ pc[w] = "attestation"
  /\ \/ Goto(w, "charge") /\ UNCHANGED job
     \/ Goto(w, "idle") /\ job' = [job EXCEPT ![w] = NoJob]
  /\ UNCHANGED <<limiter, accountant, answers, requests, crashes>>

\* request_release up to and with the charge.
RequestRelease(w) ==
  /\ pc[w] = "charge"
  /\ \/ /\ Sparse(job[w].size)
        /\ Reply(w, "sparse_slice_suppressed", Remaining(spent))
        /\ UNCHANGED spent
     \/ /\ ~ Sparse(job[w].size) /\ Exhausted(spent, job[w].epsilon)
        /\ Reply(w, "budget_exhausted", Remaining(spent))
        /\ UNCHANGED spent
     \/ /\ Allowed(job[w].size, spent, job[w].epsilon)
        /\ spent' = spent + job[w].epsilon
        /\ Goto(w, "history")
        /\ UNCHANGED <<job, answers>>
  /\ UNCHANGED <<limiter, history, requests, crashes>>

AppendEntry(w) ==
  /\ pc[w] = "history"
  /\ history' = Append(history, job[w].epsilon)
  /\ Goto(w, "verdict")
  /\ UNCHANGED <<limiter, spent, job, answers, requests, crashes>>

\* A bug: the verdict tells the budget left before any release.
Verdict_Total(w) ==
  /\ pc[w] = "verdict"
  /\ job' = [job EXCEPT ![w].remaining = TotalEpsilon]
  /\ Goto(w, "aggregate")
  /\ UNCHANGED <<limiter, accountant, answers, requests, crashes>>

\* The remaining budget is read again, after other threads' charges.
Verdict(w) ==
  /\ pc[w] = "verdict"
  /\ job' = [job EXCEPT ![w].remaining = Remaining(spent)]
  /\ Goto(w, "aggregate")
  /\ UNCHANGED <<limiter, accountant, answers, requests, crashes>>

\* The noise's scale is 1/epsilon; no noise is drawn for an empty cohort.
Raises(locals) == locals.epsilon = 0 /\ locals.size > 0

\* A bug: a refused release is paid back, once the entry is in the history.
SecureAggregate_Refund(w) ==
  /\ pc[w] = "aggregate"
  /\ \/ /\ job[w].size < job[w].minimum_k
        /\ Reply(w, "below_threshold", job[w].remaining)
        /\ spent' = spent - job[w].epsilon
     \/ /\ job[w].size >= job[w].minimum_k
        /\ Reply(w, IF Raises(job[w]) THEN "division_by_zero" ELSE "released",
                 job[w].remaining)
        /\ UNCHANGED spent
  /\ UNCHANGED <<limiter, history, requests, crashes>>

\* secure_aggregate: the cohort is refused after it was charged.
SecureAggregate(w) ==
  /\ pc[w] = "aggregate"
  /\ \/ /\ job[w].size < job[w].minimum_k
        /\ Reply(w, "below_threshold", job[w].remaining)
     \/ /\ job[w].size >= job[w].minimum_k
        /\ Reply(w, IF Raises(job[w]) THEN "division_by_zero" ELSE "released",
                 job[w].remaining)
  /\ UNCHANGED <<limiter, accountant, requests, crashes>>

Continue(w) ==
  \/ VerifyAttestation(w) \/ RequestRelease(w) \/ AppendEntry(w)
  \/ Verdict(w) \/ SecureAggregate(w)

Wait ==
  /\ now < MaxTime
  /\ Tick
  /\ UNCHANGED <<accountant, threads, answers, requests, crashes>>

Crash ==
  /\ crashes < MaxCrashes
  /\ crashes' = crashes + 1
  /\ Restart
  /\ spent' = 0 /\ history' = <<>> /\ answers' = <<>>
  /\ pc' = [w \in Workers |-> "idle"]
  /\ job' = [w \in Workers |-> NoJob]
  /\ UNCHANGED requests

Next ==
  \/ Wait \/ Crash
  \/ \E c \in Clients : TurnAway(c) \/ \E w \in Workers : Receive(w, c)
  \/ \E w \in Workers : Continue(w)

Spec == Init /\ [][Next]_vars

-----------------------------------------------------------------------------
(* Properties.                                                             *)

\* What each thread's request costs, and what each answered one did.
Cost == [w \in Workers |-> job[w].epsilon]
Paid == [n \in 1 .. Len(answers) |-> answers[n].epsilon]

\* Threads that have charged and have not answered yet.
Charged == {w \in Workers : pc[w] \in {"history", "verdict", "aggregate"}}
Unentered == {w \in Workers : pc[w] = "history"}
ChargedReason == {"released", "below_threshold", "division_by_zero"}
AnswersWith(reasons) == {n \in 1 .. Len(answers) : answers[n].reason \in reasons}

\* The accountant balances whatever threads overlap: what it has spent is
\* what its history lists and what is about to be entered there, and it is
\* also what was charged for the answers given and the requests under way
\* (request_release; a release refused for its cohort stays charged).
BooksBalance ==
  /\ spent = SumFunction(history) + SumFunctionOnSet(Cost, Unentered)
  /\ spent = SumFunctionOnSet(Paid, AnswersWith(ChargedReason))
             + SumFunctionOnSet(Cost, Charged)

\* The releases given by one run of the process stay within its budget, with
\* those that threads have paid for and not given yet.
ReleasesWithinBudget ==
  SumFunctionOnSet(Paid, AnswersWith({"released"})) + SumFunctionOnSet(Cost, Charged)
    =< TotalEpsilon

\* The remaining budget in an answer is stale when it is sent, but only by
\* what others charged meanwhile: it never falls below what remains now, and
\* it has the answer's own charge taken off already (aggregate).
RemainingIsHonest ==
  /\ \A n \in 1 .. Len(answers) : answers[n].remaining >= Remaining(spent)
  /\ \A n \in AnswersWith({"released", "below_threshold"}) :
       answers[n].remaining + answers[n].epsilon =< TotalEpsilon
=============================================================================
