------------------------------ MODULE RateLimit ------------------------------
(***************************************************************************)
(* RateLimitMiddleware: a deque of hit times per client, purged from its   *)
(* front whenever that client asks.  It runs on the event loop, so one     *)
(* request's check and entry are one step.  Time passes in ticks; the      *)
(* clock of the code is monotonic and two hits may fall on one tick.       *)
(***************************************************************************)
EXTENDS FiniteSetsExt, Sequences, Integers

CONSTANTS Clients,        \* client keys: hosts
          MaxPerWindow,   \* CFI_RATE_LIMIT_RPM; 0 installs no limiter
          Window          \* window_seconds

ASSUME LimitAssumption == MaxPerWindow \in Nat \ {0} /\ Window \in Nat

VARIABLES
  now,        \* time.monotonic()
  hits,       \* _hits, a deque per client
  admitted,   \* every hit entered since the process started (history only)
  reply       \* the answer each client got last

limiter == <<now, hits, admitted, reply>>

LimiterTypeOK ==
  /\ now \in Nat
  /\ hits \in [Clients -> Seq(Nat)]
  /\ admitted \in [Clients -> Seq(Nat)]
  /\ reply \in [Clients -> {"none", "admitted", "rate_limit_exceeded"}]

LimiterInit ==
  /\ now = 0
  /\ hits = [c \in Clients |-> <<>>]
  /\ admitted = [c \in Clients |-> <<>>]
  /\ reply = [c \in Clients |-> "none"]

\* A bug: a hit of exactly the window's age is forgotten.
Purged_AtEnd(window) ==
  LET fresh == {n \in 1 .. Len(window) : now - window[n] < Window}
  IN IF fresh = {} THEN <<>> ELSE SubSeq(window, Min(fresh), Len(window))

\* What the loop leaves: everything from the first hit that is not stale.
Purged(window) ==
  LET fresh == {n \in 1 .. Len(window) : now - window[n] =< Window}
  IN IF fresh = {} THEN <<>> ELSE SubSeq(window, Min(fresh), Len(window))

\* A bug: a refused request is entered too, and puts off the next admission.
Refuse_Counted(c) ==
  LET window == Purged(hits[c])
  IN /\ Len(window) >= MaxPerWindow
     /\ hits' = [hits EXCEPT ![c] = Append(window, now)]
     /\ reply' = [reply EXCEPT ![c] = "rate_limit_exceeded"]
     /\ UNCHANGED <<now, admitted>>

Refuse(c) ==
  LET window == Purged(hits[c])
  IN /\ Len(window) >= MaxPerWindow
     /\ hits' = [hits EXCEPT ![c] = window]
     /\ reply' = [reply EXCEPT ![c] = "rate_limit_exceeded"]
     /\ UNCHANGED <<now, admitted>>

Admit(c) ==
  LET window == Purged(hits[c])
  IN /\ Len(window) < MaxPerWindow
     /\ hits' = [hits EXCEPT ![c] = Append(window, now)]
     /\ admitted' = [admitted EXCEPT ![c] = Append(@, now)]
     /\ reply' = [reply EXCEPT ![c] = "admitted"]
     /\ UNCHANGED now

Tick == now' = now + 1 /\ UNCHANGED <<hits, admitted, reply>>

\* The process dies and is started again; the deques were in its memory.
Restart ==
  /\ hits' = [c \in Clients |-> <<>>]
  /\ admitted' = [c \in Clients |-> <<>>]
  /\ reply' = [c \in Clients |-> "none"]
  /\ UNCHANGED now

LimiterNext == Tick \/ Restart \/ \E c \in Clients : Admit(c) \/ Refuse(c)

LimiterSpec == LimiterInit /\ [][LimiterNext]_limiter

-----------------------------------------------------------------------------
(* Properties.                                                             *)

\* The deque is all that must be remembered of the admissions: it is their
\* last part, and what was dropped from it is stale for good (_allow).
HitsAreRecent ==
  \A c \in Clients :
    LET dropped == Len(admitted[c]) - Len(hits[c])
    IN /\ dropped >= 0 /\ Len(hits[c]) =< MaxPerWindow
       /\ \A n \in 1 .. Len(hits[c]) : hits[c][n] = admitted[c][dropped + n]
       /\ \A n \in 1 .. dropped : now - admitted[c][n] > Window

Sliding == INSTANCE SlidingLimit

\* The deque refuses exactly the requests that a limit over every window
\* would refuse: no burst across a boundary gets through, and no client that
\* kept within the limit is turned away (_allow).
ImplementsSlidingLimit == Sliding!Spec
=============================================================================
