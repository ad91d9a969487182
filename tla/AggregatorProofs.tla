--------------------------- MODULE AggregatorProofs ---------------------------
(***************************************************************************)
(* Proofs about the rate limiter and the aggregation service behind it,    *)
(* for any number of clients and threads, any limit, budget and bounds.    *)
(***************************************************************************)
EXTENDS Aggregator, WellFoundedInduction, FiniteSetTheorems, SequenceTheorems, TLAPS

-----------------------------------------------------------------------------
(* The limiter.                                                            *)

\* The numbers up to a natural number are finite, and as many as it says.
LEMMA UpTo ==
  ASSUME NEW k \in Nat
  PROVE  IsFiniteSet(1 .. k) /\ Cardinality(1 .. k) = k
<1>1. 1 \in Int /\ k \in Int
  OBVIOUS
<1>2. IsFiniteSet(1 .. k) /\ Cardinality(1 .. k) = IF 1 > k THEN 0 ELSE k - 1 + 1
  BY <1>1, FS_Interval
<1> QED BY <1>2

\* The loop drops the longest stale prefix of a deque.
LEMMA PurgedSplit ==
  ASSUME now \in Nat, NEW window \in Seq(Nat)
  PROVE  \E k \in 0 .. Len(window) :
           /\ Purged(window) \in Seq(Nat)
           /\ Len(Purged(window)) = Len(window) - k
           /\ \A n \in 1 .. Len(window) - k : Purged(window)[n] = window[k + n]
           /\ \A n \in 1 .. k : now - window[n] > Window
           /\ k < Len(window) => now - window[k + 1] =< Window
<1> DEFINE fresh == {n \in 1 .. Len(window) : now - window[n] =< Window}
<1>0. Window \in Nat /\ Len(window) \in Nat /\ \A n \in 1 .. Len(window) : window[n] \in Nat
  BY LimitAssumption
<1>1. CASE fresh = {}
  <2>1. Purged(window) = <<>>
    BY <1>1 DEF Purged
  <2>2. \A n \in 1 .. Len(window) : now - window[n] > Window
    BY <1>0, <1>1
  <2> QED BY <1>0, <2>1, <2>2
<1>2. CASE fresh # {}
  <2> DEFINE first == Min(fresh)
  <2>1. fresh \in SUBSET Nat
    BY <1>0
  <2>2. first \in fresh /\ \A e \in fresh : first =< e
    <3> HIDE DEF fresh
    <3>1. PICK m \in fresh : \A e \in fresh : ~ (<<e, m>> \in OpToRel(<, Nat))
      BY <1>2, <2>1, NatLessThanWellFounded, WFMin
    <3>2. \A e \in fresh : ~ (e < m)
      BY <2>1, <3>1 DEF OpToRel
    <3>3. \A e \in fresh : m =< e
      BY <2>1, <3>2
    <3> QED BY <3>3 DEF Min
  <2>3. Purged(window) = SubSeq(window, first, Len(window))
    BY <1>2 DEF Purged
  <2>4. first \in 1 .. Len(window) /\ now - window[first] =< Window
    BY <2>2
  <2> HIDE DEF first
  <2>5. /\ Purged(window) \in Seq(Nat)
        /\ Len(Purged(window)) = Len(window) - (first - 1)
        /\ \A n \in 1 .. Len(window) - (first - 1) :
             Purged(window)[n] = window[(first - 1) + n]
    BY <1>0, <2>3, <2>4, SubSeqProperties
  <2>6. \A n \in 1 .. first - 1 : now - window[n] > Window
    <3> SUFFICES ASSUME NEW n \in 1 .. first - 1, ~ (now - window[n] > Window)
                 PROVE  FALSE
      OBVIOUS
    <3>1. n \in 1 .. Len(window) /\ n < first
      BY <1>0, <2>4
    <3>2. n \in fresh
      BY <1>0, <3>1
    <3> QED BY <2>2, <2>4, <3>1, <3>2
  <2>7. first - 1 \in 0 .. Len(window) /\ (first - 1) + 1 = first
    BY <1>0, <2>4
  <2> QED BY <2>4, <2>5, <2>6, <2>7
<1> QED BY <1>1, <1>2

\* Admissions are in the order of time, and none is in the future.
Ordered(times, t) ==
  \A m, n \in 1 .. Len(times) : m =< n => times[m] =< times[n] /\ times[n] =< t

\* HitsAreRecent of one client.
Recent(window, times, t) ==
  /\ Len(times) - Len(window) >= 0 /\ Len(window) =< MaxPerWindow
  /\ \A n \in 1 .. Len(window) : window[n] = times[Len(times) - Len(window) + n]
  /\ \A n \in 1 .. Len(times) - Len(window) : t - times[n] > Window

LimiterInv ==
  /\ LimiterTypeOK
  /\ \A c \in Clients : Ordered(admitted[c], now) /\ Recent(hits[c], admitted[c], now)

\* A purged deque is what remains of the admissions without a stale prefix.
LEMMA PurgedOfAdmitted ==
  ASSUME LimiterInv, NEW c \in Clients
  PROVE  \E d \in 0 .. Len(admitted[c]) :
           /\ Purged(hits[c]) \in Seq(Nat)
           /\ Len(Purged(hits[c])) = Len(admitted[c]) - d
           /\ Len(Purged(hits[c])) =< MaxPerWindow
           /\ \A n \in 1 .. Len(admitted[c]) - d : Purged(hits[c])[n] = admitted[c][d + n]
           /\ \A n \in 1 .. d : now - admitted[c][n] > Window
           /\ d < Len(admitted[c]) => now - admitted[c][d + 1] =< Window
<1> DEFINE h == hits[c]
           a == admitted[c]
           old == Len(a) - Len(h)
<1>1. h \in Seq(Nat) /\ a \in Seq(Nat) /\ now \in Nat
  BY DEF LimiterInv, LimiterTypeOK
<1>2. Recent(h, a, now)
  BY DEF LimiterInv
<1>3. Len(h) \in Nat /\ Len(a) \in Nat /\ old \in Nat /\ MaxPerWindow \in Nat /\ Window \in Nat
  BY <1>1, <1>2, LimitAssumption DEF Recent
<1>4. PICK k \in 0 .. Len(h) :
        /\ Purged(h) \in Seq(Nat)
        /\ Len(Purged(h)) = Len(h) - k
        /\ \A n \in 1 .. Len(h) - k : Purged(h)[n] = h[k + n]
        /\ \A n \in 1 .. k : now - h[n] > Window
        /\ k < Len(h) => now - h[k + 1] =< Window
  BY <1>1, PurgedSplit
<1>5. \A n \in 1 .. Len(h) : h[n] = a[old + n]
  BY <1>2 DEF Recent
<1>6. \A n \in 1 .. old : now - a[n] > Window
  BY <1>2 DEF Recent
<1>7. Len(h) =< MaxPerWindow
  BY <1>2 DEF Recent
<1>8. old + Len(h) = Len(a)
  BY <1>3
<1> HIDE DEF h, a, old
<1> DEFINE d == old + k
<1>9. d \in 0 .. Len(a) /\ Len(a) - d = Len(h) - k
  BY <1>3, <1>8
<1>10. \A n \in 1 .. Len(a) - d : Purged(h)[n] = a[d + n]
  <2> SUFFICES ASSUME NEW n \in 1 .. Len(a) - d PROVE Purged(h)[n] = a[d + n]
    OBVIOUS
  <2>1. n \in 1 .. Len(h) - k /\ k + n \in 1 .. Len(h) /\ old + (k + n) = d + n
    BY <1>3, <1>9
  <2> QED BY <1>4, <1>5, <2>1
<1>11. \A n \in 1 .. d : now - a[n] > Window
  <2> SUFFICES ASSUME NEW n \in 1 .. d PROVE now - a[n] > Window
    OBVIOUS
  <2>1. CASE n =< old
    BY <1>3, <1>6, <2>1
  <2>2. CASE n > old
    <3>1. n - old \in 1 .. k /\ n - old \in 1 .. Len(h) /\ old + (n - old) = n
      BY <1>3, <2>2
    <3> QED BY <1>4, <1>5, <3>1
  <2> QED BY <1>3, <2>1, <2>2
<1>12. d < Len(a) => now - a[d + 1] =< Window
  <2> SUFFICES ASSUME d < Len(a) PROVE now - a[d + 1] =< Window
    OBVIOUS
  <2>1. k < Len(h) /\ k + 1 \in 1 .. Len(h) /\ old + (k + 1) = d + 1
    BY <1>3, <1>8
  <2> QED BY <1>4, <1>5, <2>1
<1>13. Len(Purged(h)) =< MaxPerWindow
  BY <1>3, <1>4, <1>7
<1> HIDE DEF d
<1>14. /\ Purged(h) \in Seq(Nat) /\ Len(Purged(h)) = Len(a) - d
  BY <1>4, <1>9
<1> QED BY <1>9, <1>10, <1>11, <1>12, <1>13, <1>14 DEF h, a

\* The deque is at its limit exactly when the window is.
LEMMA FullIsFull ==
  ASSUME LimiterInv, NEW c \in Clients
  PROVE  Len(Purged(hits[c])) >= MaxPerWindow <=> Sliding!Full(c)
<1> DEFINE a == admitted[c]
           oldest == Len(a) - MaxPerWindow + 1
<1>1. a \in Seq(Nat) /\ now \in Nat /\ Ordered(a, now)
  BY DEF LimiterInv, LimiterTypeOK
<1>2. MaxPerWindow \in Nat \ {0} /\ Window \in Nat /\ Len(a) \in Nat
  BY <1>1, LimitAssumption
<1>3. PICK d \in 0 .. Len(a) :
        /\ Len(Purged(hits[c])) = Len(a) - d
        /\ \A n \in 1 .. d : now - a[n] > Window
        /\ d < Len(a) => now - a[d + 1] =< Window
  BY PurgedOfAdmitted
<1>4. Sliding!Full(c) <=> oldest >= 1 /\ now - a[oldest] =< Window
  BY DEF Sliding!Full
<1> HIDE DEF a
<1>5. ASSUME Len(a) - d >= MaxPerWindow PROVE oldest >= 1 /\ now - a[oldest] =< Window
  <2>1. d < Len(a) /\ d + 1 =< oldest /\ d + 1 \in 1 .. Len(a) /\ oldest \in 1 .. Len(a)
    BY <1>2, <1>5
  <2>2. a[d + 1] =< a[oldest] /\ now - a[d + 1] =< Window
    BY <1>1, <1>3, <2>1 DEF Ordered
  <2>3. a[d + 1] \in Nat /\ a[oldest] \in Nat
    BY <1>1, <2>1
  <2>4. \A x, y \in Nat : x =< y /\ now - x =< Window => now - y =< Window
    BY <1>1, <1>2
  <2>5. now - a[oldest] =< Window
    BY <2>2, <2>3, <2>4
  <2> QED BY <1>2, <2>1, <2>5
<1>6. ASSUME oldest >= 1, now - a[oldest] =< Window PROVE Len(a) - d >= MaxPerWindow
  <2>1. oldest \in 1 .. Len(a)
    BY <1>2, <1>6
  <2>2. ~ (oldest =< d)
    <3> SUFFICES ASSUME oldest =< d PROVE FALSE
      OBVIOUS
    <3>1. oldest \in 1 .. d
      BY <1>6, <2>1
    <3>2. now - a[oldest] > Window /\ a[oldest] \in Nat
      BY <1>1, <1>3, <2>1, <3>1
    <3> QED BY <1>1, <1>2, <1>6, <3>2
  <2> QED BY <1>2, <2>1, <2>2
<1> QED BY <1>3, <1>4, <1>5, <1>6

LEMMA LimiterInvInit == LimiterInit => LimiterInv
BY LimitAssumption DEF LimiterInit, LimiterInv, LimiterTypeOK, Ordered, Recent

\* What a refusal or an admission leaves of one client.
LEMMA OneClient ==
  ASSUME LimiterInv, NEW c \in Clients
  PROVE  /\ Purged(hits[c]) \in Seq(Nat) /\ Recent(Purged(hits[c]), admitted[c], now)
         /\ Len(Purged(hits[c])) < MaxPerWindow =>
              /\ Recent(Append(Purged(hits[c]), now), Append(admitted[c], now), now)
              /\ Ordered(Append(admitted[c], now), now)
<1> DEFINE p == Purged(hits[c])
           a == admitted[c]
<1>1. PICK d \in 0 .. Len(a) :
        /\ p \in Seq(Nat) /\ Len(p) = Len(a) - d /\ Len(p) =< MaxPerWindow
        /\ \A n \in 1 .. Len(a) - d : p[n] = a[d + n]
        /\ \A n \in 1 .. d : now - a[n] > Window
  BY PurgedOfAdmitted
<1>2. a \in Seq(Nat) /\ now \in Nat /\ Ordered(a, now)
  BY DEF LimiterInv, LimiterTypeOK
<1>3. Len(a) \in Nat /\ Len(p) \in Nat /\ MaxPerWindow \in Nat /\ Window \in Nat
  BY <1>1, <1>2, LimitAssumption
<1> HIDE DEF p, a
<1>4. Recent(p, a, now)
  <2>1. Len(a) - Len(p) = d
    BY <1>1, <1>3
  <2> QED BY <1>1, <1>3, <2>1 DEF Recent
<1>5. ASSUME Len(p) < MaxPerWindow
      PROVE  Recent(Append(p, now), Append(a, now), now)
  <2>0. /\ p \in Seq(Nat) /\ d \in Nat /\ Len(p) = Len(a) - d /\ Len(a) = Len(p) + d
        /\ \A n \in 1 .. Len(a) - d : p[n] = a[d + n]
    BY <1>1, <1>3
  <2>7. Len(Append(p, now)) = Len(p) + 1 /\ Len(Append(a, now)) = Len(a) + 1
    BY <1>2, <2>0, AppendProperties
  <2>1. Len(Append(a, now)) - Len(Append(p, now)) = d
    BY <1>3, <2>0, <2>7
  <2>2. \A n \in 1 .. d : Append(a, now)[n] = a[n]
    BY <1>2, <1>3, AppendProperties
  <2>3. \A n \in 1 .. Len(p) + 1 : Append(p, now)[n] = Append(a, now)[d + n]
    <3> SUFFICES ASSUME NEW n \in 1 .. Len(p) + 1
                 PROVE  Append(p, now)[n] = Append(a, now)[d + n]
      OBVIOUS
    <3>1. CASE n = Len(p) + 1
      <4>1. d + n = Len(a) + 1
        BY <1>3, <2>0, <3>1
      <4> QED BY <1>2, <2>0, <3>1, <4>1, AppendProperties
    <3>2. CASE n # Len(p) + 1
      <4>1. n \in 1 .. Len(p) /\ n \in 1 .. Len(a) - d /\ d + n \in 1 .. Len(a)
        BY <1>3, <2>0, <3>2
      <4>2. Append(p, now)[n] = p[n] /\ Append(a, now)[d + n] = a[d + n]
        BY <1>2, <2>0, <4>1, AppendProperties
      <4> QED BY <2>0, <4>1, <4>2
    <3> QED BY <3>1, <3>2
  <2>4. Len(p) + 1 =< MaxPerWindow
    BY <1>3, <1>5
  <2>5. \A n \in 1 .. d : now - Append(a, now)[n] > Window
    BY <1>1, <2>2
  <2> DEFINE q == Append(p, now)
             b == Append(a, now)
  <2>8. d >= 0 /\ Len(q) =< MaxPerWindow
    BY <2>0, <2>4, <2>7
  <2>9. \A n \in 1 .. Len(q) : q[n] = b[Len(b) - Len(q) + n]
    BY <2>1, <2>3, <2>7
  <2>10. \A n \in 1 .. Len(b) - Len(q) : now - b[n] > Window
    BY <2>1, <2>5
  <2>11. Len(b) - Len(q) >= 0
    BY <2>1, <2>8
  <2> HIDE DEF q, b
  <2>12. Recent(q, b, now)
    BY <2>8, <2>9, <2>10, <2>11 DEF Recent
  <2> QED BY <2>12 DEF q, b
<1>6. Ordered(Append(a, now), now)
  <2> SUFFICES ASSUME NEW m \in 1 .. Len(a) + 1, NEW n \in 1 .. Len(a) + 1, m =< n
               PROVE  Append(a, now)[m] =< Append(a, now)[n] /\ Append(a, now)[n] =< now
    BY <1>2, AppendProperties DEF Ordered
  <2>1. CASE n = Len(a) + 1
    <3>1. Append(a, now)[n] = now
      BY <1>2, <2>1, AppendProperties
    <3>2. CASE m = Len(a) + 1
      BY <1>2, <2>1, <3>1, <3>2
    <3>3. CASE m # Len(a) + 1
      <4>1. m \in 1 .. Len(a) /\ Append(a, now)[m] = a[m]
        BY <1>2, <1>3, <3>3, AppendProperties
      <4>2. a[m] =< now
        BY <1>2, <1>3, <4>1 DEF Ordered
      <4> QED BY <1>2, <3>1, <4>1, <4>2
    <3> QED BY <3>2, <3>3
  <2>2. CASE n # Len(a) + 1
    <3>1. m \in 1 .. Len(a) /\ n \in 1 .. Len(a)
      BY <1>3, <2>2
    <3>2. Append(a, now)[m] = a[m] /\ Append(a, now)[n] = a[n]
      BY <1>2, <3>1, AppendProperties
    <3> QED BY <1>2, <3>1, <3>2 DEF Ordered
  <2> QED BY <2>1, <2>2
<1> QED BY <1>1, <1>4, <1>5, <1>6 DEF p, a

\* Later only the staleness of what was dropped is to be shown again.
LEMMA RecentLater ==
  ASSUME NEW window, NEW times, NEW t, NEW u, Recent(window, times, t),
         \A n \in 1 .. Len(times) - Len(window) : u - times[n] > Window
  PROVE  Recent(window, times, u)
BY DEF Recent

LEMMA LimiterInvStep == LimiterInv /\ [LimiterNext]_limiter => LimiterInv'
<1> SUFFICES ASSUME LimiterInv, [LimiterNext]_limiter PROVE LimiterInv'
  OBVIOUS
<1>1. CASE UNCHANGED limiter
  BY <1>1 DEF limiter, LimiterInv, LimiterTypeOK
<1>2. CASE Tick
  <2>1. \A c \in Clients : /\ admitted[c] \in Seq(Nat)
                           /\ Ordered(admitted[c], now) /\ Recent(hits[c], admitted[c], now)
    BY DEF LimiterInv, LimiterTypeOK
  <2>2. \A c \in Clients : hits[c] \in Seq(Nat) /\ Len(hits[c]) \in Nat
    BY DEF LimiterInv, LimiterTypeOK
  <2>3. ASSUME NEW c \in Clients
        PROVE  Ordered(admitted[c], now + 1) /\ Recent(hits[c], admitted[c], now + 1)
    <3> DEFINE a == admitted[c]
    <3>1. a \in Seq(Nat) /\ now \in Nat /\ Window \in Nat /\ Len(a) \in Nat
      BY <2>1, LimitAssumption DEF LimiterInv, LimiterTypeOK
    <3>2. \A n \in 1 .. Len(a) : a[n] \in Nat
      BY <3>1
    <3>3. Ordered(a, now) /\ Recent(hits[c], a, now)
      BY <2>1
    <3> HIDE DEF a
    <3>4. Ordered(a, now + 1)
      BY <3>1, <3>2, <3>3 DEF Ordered
    <3>5. \A n \in 1 .. Len(a) - Len(hits[c]) : (now + 1) - a[n] > Window
      <4> SUFFICES ASSUME NEW n \in 1 .. Len(a) - Len(hits[c]) PROVE (now + 1) - a[n] > Window
        OBVIOUS
      <4>1. n \in 1 .. Len(a)
        BY <2>2, <3>1
      <4>2. now - a[n] > Window /\ a[n] \in Nat
        BY <3>2, <3>3, <4>1 DEF Recent
      <4> QED BY <3>1, <4>2
    <3>6. Recent(hits[c], a, now + 1)
      BY <3>3, <3>5, RecentLater
    <3> QED BY <3>4, <3>6 DEF a
  <2> QED BY <1>2, <2>3 DEF Tick, LimiterInv, LimiterTypeOK
<1>3. CASE Restart
  BY <1>3, LimitAssumption DEF Restart, LimiterInv, LimiterTypeOK, Ordered, Recent
<1>4. ASSUME NEW c \in Clients, Admit(c) PROVE LimiterInv'
  <2> DEFINE p == Purged(hits[c])
  <2>1. /\ now \in Nat /\ hits \in [Clients -> Seq(Nat)] /\ admitted \in [Clients -> Seq(Nat)]
        /\ reply \in [Clients -> {"none", "admitted", "rate_limit_exceeded"}]
    BY DEF LimiterInv, LimiterTypeOK
  <2>2. Len(p) < MaxPerWindow /\ p \in Seq(Nat)
    BY <1>4, OneClient DEF Admit
  <2>3. /\ hits' = [hits EXCEPT ![c] = Append(p, now)]
        /\ admitted' = [admitted EXCEPT ![c] = Append(admitted[c], now)]
        /\ reply' = [reply EXCEPT ![c] = "admitted"] /\ now' = now
    BY <1>4 DEF Admit
  <2>4. /\ Recent(Append(p, now), Append(admitted[c], now), now)
        /\ Ordered(Append(admitted[c], now), now)
    BY <2>2, OneClient
  <2> HIDE DEF p
  <2>5. LimiterTypeOK'
    BY <2>1, <2>2, <2>3, AppendProperties DEF LimiterTypeOK
  <2>6. \A b \in Clients : Ordered(admitted[b], now) /\ Recent(hits[b], admitted[b], now)
    BY DEF LimiterInv
  <2>7. \A b \in Clients : Ordered(admitted'[b], now') /\ Recent(hits'[b], admitted'[b], now')
    BY <2>1, <2>3, <2>4, <2>6
  <2> QED BY <2>5, <2>7 DEF LimiterInv
<1>5. ASSUME NEW c \in Clients, Refuse(c) PROVE LimiterInv'
  <2> DEFINE p == Purged(hits[c])
  <2>1. /\ now \in Nat /\ hits \in [Clients -> Seq(Nat)] /\ admitted \in [Clients -> Seq(Nat)]
        /\ reply \in [Clients -> {"none", "admitted", "rate_limit_exceeded"}]
    BY DEF LimiterInv, LimiterTypeOK
  <2>2. p \in Seq(Nat) /\ Recent(p, admitted[c], now)
    BY OneClient
  <2>3. /\ hits' = [hits EXCEPT ![c] = p]
        /\ reply' = [reply EXCEPT ![c] = "rate_limit_exceeded"]
        /\ now' = now /\ admitted' = admitted
    BY <1>5 DEF Refuse
  <2> HIDE DEF p
  <2>4. LimiterTypeOK'
    BY <2>1, <2>2, <2>3 DEF LimiterTypeOK
  <2>5. \A b \in Clients : Ordered(admitted[b], now) /\ Recent(hits[b], admitted[b], now)
    BY DEF LimiterInv
  <2>6. \A b \in Clients : Ordered(admitted'[b], now') /\ Recent(hits'[b], admitted'[b], now')
    BY <2>1, <2>2, <2>3, <2>5
  <2> QED BY <2>4, <2>6 DEF LimiterInv
<1> QED BY <1>1, <1>2, <1>3, <1>4, <1>5 DEF LimiterNext

LEMMA LimiterRefines ==
  LimiterInv /\ [LimiterNext]_limiter => [Sliding!Next]_<<now, admitted, reply>>
<1> SUFFICES ASSUME LimiterInv, [LimiterNext]_limiter
             PROVE  [Sliding!Next]_<<now, admitted, reply>>
  OBVIOUS
<1>1. CASE UNCHANGED limiter
  BY <1>1 DEF limiter
<1>2. CASE Tick
  BY <1>2 DEF Tick, Sliding!Tick, Sliding!Next
<1>3. CASE Restart
  BY <1>3 DEF Restart, Sliding!Restart, Sliding!Next
<1>4. ASSUME NEW c \in Clients, Admit(c) PROVE Sliding!Admit(c)
  <2>1. Len(Purged(hits[c])) \in Nat /\ MaxPerWindow \in Nat
    BY OneClient, LimitAssumption
  <2>2. ~ Sliding!Full(c)
    BY <1>4, <2>1, FullIsFull DEF Admit
  <2> QED BY <1>4, <2>2 DEF Admit, Sliding!Admit
<1>5. ASSUME NEW c \in Clients, Refuse(c) PROVE Sliding!Refuse(c)
  <2>1. Sliding!Full(c)
    BY <1>5, FullIsFull DEF Refuse
  <2> QED BY <1>5, <2>1 DEF Refuse, Sliding!Refuse
<1> QED BY <1>1, <1>2, <1>3, <1>4, <1>5 DEF LimiterNext, Sliding!Next

\* The service, seen from its limiter alone, is the limiter.
LEMMA ServiceIsLimited == [Next]_vars => [LimiterNext]_limiter
BY DEF Next, vars, Wait, Crash, Receive, TurnAway, Continue, VerifyAttestation, RequestRelease,
       AppendEntry, Verdict, SecureAggregate, LimiterNext, limiter

LEMMA LimiterInvariant == Spec => []LimiterInv
<1>1. Init => LimiterInv
  BY LimiterInvInit DEF Init
<1>2. LimiterInv /\ [Next]_vars => LimiterInv'
  BY LimiterInvStep, ServiceIsLimited
<1> QED BY <1>1, <1>2, PTL DEF Spec

\* The deque is the last part of the admissions, and what was dropped from it
\* is stale for good (RateLimitMiddleware._allow).
THEOREM HitsStayRecent == Spec => []HitsAreRecent
<1>1. LimiterInv => HitsAreRecent
  BY DEF LimiterInv, HitsAreRecent, Recent
<1> QED BY <1>1, LimiterInvariant, PTL

\* The service refuses exactly the requests that a limit over every window
\* would (RateLimitMiddleware._allow).
THEOREM ServiceImplementsLimit == Spec => ImplementsSlidingLimit
<1>1. Init => Sliding!Init
  BY DEF Init, LimiterInit, Sliding!Init
<1>2. LimiterInv /\ [Next]_vars => [Sliding!Next]_<<now, admitted, reply>>
  BY LimiterRefines, ServiceIsLimited
<1> QED BY <1>1, <1>2, LimiterInvariant, PTL DEF Spec, ImplementsSlidingLimit, Sliding!Spec

-----------------------------------------------------------------------------
(* The accountant and the requests on the threads.                         *)

JobType == [epsilon : Epsilons \cup {0}, size : Sizes \cup {0},
            minimum_k : Thresholds \cup {0}, remaining : 0 .. TotalEpsilon]

\* What an answer may claim of the budget when `total` is spent, and what a
\* thread that has charged knows of it before it answers.
AnswerFits(answer, total) ==
  /\ answer \in Answer
  /\ answer.remaining >= TotalEpsilon - total
  /\ answer.reason \in {"released", "below_threshold"} =>
       answer.remaining + answer.epsilon =< TotalEpsilon

ThreadFits(label, locals, total) ==
  /\ label \in Label /\ locals \in JobType
  /\ label # "idle" => locals.epsilon \in Epsilons
  /\ label \in {"history", "verdict", "aggregate"} => locals.epsilon =< total
  /\ label = "aggregate" =>
       /\ locals.remaining >= TotalEpsilon - total
       /\ locals.remaining + locals.epsilon =< TotalEpsilon

BooksType ==
  /\ spent \in 0 .. TotalEpsilon /\ history \in Seq(Epsilons)
  /\ requests \in 0 .. MaxRequests /\ crashes \in 0 .. MaxCrashes

AccountInv ==
  /\ BooksType
  /\ answers \in Seq(Answer)
  /\ \A n \in 1 .. Len(answers) : AnswerFits(answers[n], spent)
  /\ pc \in [Workers -> Label] /\ job \in [Workers -> JobType]
  /\ \A w \in Workers : ThreadFits(pc[w], job[w], spent)

LEMMA EpsilonsAreNats == Epsilons \subseteq Nat /\ TotalEpsilon \in Nat
BY RequestAssumption, AccountantAssumption

LEMMA EpsilonIsNat == \A e \in Epsilons \cup {0} : e \in Nat
BY EpsilonsAreNats

LEMMA NoJobFits ==
  ASSUME NEW total
  PROVE  NoJob \in JobType /\ ThreadFits("idle", NoJob, total)
BY EpsilonsAreNats DEF NoJob, JobType, ThreadFits, Label

\* More is charged and nothing paid back, so what fitted still fits.
LEMMA FitsLater ==
  ASSUME NEW s \in 0 .. TotalEpsilon, NEW t \in 0 .. TotalEpsilon, s =< t
  PROVE  /\ \A answer : AnswerFits(answer, s) => AnswerFits(answer, t)
         /\ \A label, locals : ThreadFits(label, locals, s) => ThreadFits(label, locals, t)
<1>1. ASSUME NEW answer, AnswerFits(answer, s) PROVE AnswerFits(answer, t)
  <2>1. answer.remaining \in Nat
    BY <1>1, EpsilonsAreNats DEF AnswerFits, Answer
  <2> QED BY <1>1, <2>1, EpsilonsAreNats DEF AnswerFits
<1>2. ASSUME NEW label, NEW locals, ThreadFits(label, locals, s)
      PROVE  ThreadFits(label, locals, t)
  <2>0. locals \in JobType
    BY <1>2 DEF ThreadFits
  <2>1. locals.remaining \in 0 .. TotalEpsilon /\ locals.epsilon \in Epsilons \cup {0}
    BY <2>0 DEF JobType
  <2> DEFINE remaining == locals.remaining
             epsilon == locals.epsilon
  <2>2. remaining \in Nat /\ epsilon \in Nat
    <3>1. remaining \in 0 .. TotalEpsilon /\ epsilon \in Epsilons \cup {0}
      BY <2>1
    <3> HIDE DEF remaining, epsilon
    <3> QED BY <3>1, EpsilonsAreNats
  <2> QED BY <1>2, <2>2, EpsilonsAreNats DEF ThreadFits
<1> QED BY <1>1, <1>2

\* A step of one thread, which may charge and may answer.
LEMMA OneThread ==
  ASSUME AccountInv, NEW w \in Workers, NEW label, NEW locals,
         BooksType', spent =< spent', ThreadFits(label, locals, spent'),
         pc' = [pc EXCEPT ![w] = label], job' = [job EXCEPT ![w] = locals],
         \/ answers' = answers
         \/ \E answer : AnswerFits(answer, spent') /\ answers' = Append(answers, answer)
  PROVE  AccountInv'
<1>1. spent \in 0 .. TotalEpsilon /\ spent' \in 0 .. TotalEpsilon
  BY DEF AccountInv, BooksType
<1>2. \A n \in 1 .. Len(answers) : AnswerFits(answers[n], spent')
  BY <1>1, FitsLater DEF AccountInv
<1>3. answers' \in Seq(Answer) /\ \A n \in 1 .. Len(answers') : AnswerFits(answers'[n], spent')
  <2>1. CASE answers' = answers
    BY <1>2, <2>1 DEF AccountInv
  <2>2. ASSUME NEW answer, AnswerFits(answer, spent'), answers' = Append(answers, answer)
        PROVE  /\ answers' \in Seq(Answer)
               /\ \A n \in 1 .. Len(answers') : AnswerFits(answers'[n], spent')
    <3>1. answer \in Answer /\ answers \in Seq(Answer)
      BY <2>2 DEF AnswerFits, AccountInv
    <3>2. /\ answers' \in Seq(Answer) /\ Len(answers') = Len(answers) + 1
          /\ \A n \in 1 .. Len(answers) : answers'[n] = answers[n]
          /\ answers'[Len(answers) + 1] = answer
      BY <2>2, <3>1, AppendProperties
    <3> QED BY <1>2, <2>2, <3>1, <3>2
  <2> QED BY <2>1, <2>2
<1>4. pc' \in [Workers -> Label] /\ job' \in [Workers -> JobType]
  BY DEF AccountInv, ThreadFits
<1>5. \A v \in Workers : ThreadFits(pc[v], job[v], spent')
  BY <1>1, FitsLater DEF AccountInv
<1>6. \A v \in Workers : ThreadFits(pc'[v], job'[v], spent')
  BY <1>5 DEF AccountInv
<1> QED BY <1>3, <1>4, <1>6 DEF AccountInv

LEMMA AccountInit == Init => AccountInv
BY NoJobFits, EpsilonsAreNats, ServiceBoundsAssumption
   DEF Init, AccountInv, BooksType, Label

LEMMA AccountStep == AccountInv /\ [Next]_vars => AccountInv'
<1> SUFFICES ASSUME AccountInv, [Next]_vars PROVE AccountInv'
  OBVIOUS
<1> USE EpsilonsAreNats
<1>1. CASE UNCHANGED <<accountant, threads, answers, requests, crashes>>
  BY <1>1 DEF accountant, threads, AccountInv, BooksType
<1>2. CASE Crash
  <2>0. /\ spent' \in 0 .. TotalEpsilon /\ requests' \in 0 .. MaxRequests
        /\ history' \in Seq(Epsilons)
    BY <1>2, EmptySeq DEF Crash, AccountInv, BooksType
  <2>1. crashes' \in 0 .. MaxCrashes
    BY <1>2, ServiceBoundsAssumption DEF Crash, AccountInv, BooksType
  <2>2. BooksType'
    BY <2>0, <2>1 DEF BooksType
  <2> QED BY <1>2, <2>2, NoJobFits, EmptySeq DEF Crash, AccountInv, Label
<1>3. ASSUME NEW w \in Workers, NEW c \in Clients, Receive(w, c) PROVE AccountInv'
  <2>1. PICK epsilon \in Epsilons, size \in Sizes, minimum_k \in Thresholds :
          job' = [job EXCEPT ![w] = [epsilon |-> epsilon, size |-> size,
                                     minimum_k |-> minimum_k, remaining |-> 0]]
    BY <1>3 DEF Receive
  <2> DEFINE locals == [epsilon |-> epsilon, size |-> size, minimum_k |-> minimum_k,
                        remaining |-> 0]
  <2>2. ThreadFits("attestation", locals, spent')
    BY DEF ThreadFits, Label, JobType
  <2>3. BooksType' /\ spent =< spent' /\ answers' = answers
    BY <1>3, ServiceBoundsAssumption DEF Receive, accountant, AccountInv, BooksType
  <2>4. pc' = [pc EXCEPT ![w] = "attestation"] /\ job' = [job EXCEPT ![w] = locals]
    BY <1>3, <2>1 DEF Receive, Goto
  <2> HIDE DEF locals
  <2> QED BY <2>2, <2>3, <2>4, OneThread
<1>4. ASSUME NEW w \in Workers, Continue(w) PROVE AccountInv'
  <2>0. /\ ThreadFits(pc[w], job[w], spent) /\ job[w] \in JobType
        /\ spent \in 0 .. TotalEpsilon /\ job = [job EXCEPT ![w] = job[w]]
        /\ pc \in [Workers -> Label]
    BY DEF AccountInv, BooksType
  <2>1. job[w].epsilon \in Nat /\ job[w].remaining \in 0 .. TotalEpsilon
    BY <2>0 DEF JobType
  <2>2. CASE VerifyAttestation(w)
    <3>1. BooksType' /\ spent =< spent' /\ answers' = answers /\ spent' = spent
      BY <2>0, <2>2 DEF VerifyAttestation, accountant, AccountInv, BooksType
    <3>2. ThreadFits("charge", job[w], spent') /\ ThreadFits("idle", NoJob, spent')
      BY <2>0, <2>2, NoJobFits DEF VerifyAttestation, ThreadFits, Label
    <3>3. \/ pc' = [pc EXCEPT ![w] = "charge"] /\ job' = [job EXCEPT ![w] = job[w]]
          \/ pc' = [pc EXCEPT ![w] = "idle"] /\ job' = [job EXCEPT ![w] = NoJob]
      BY <2>0, <2>2 DEF VerifyAttestation, Goto
    <3> QED BY <3>1, <3>2, <3>3, OneThread
  <2>3. CASE RequestRelease(w)
    <3>1. ASSUME NEW reason \in {"sparse_slice_suppressed", "budget_exhausted"},
                 Reply(w, reason, Remaining(spent)), UNCHANGED spent
          PROVE  AccountInv'
      <4> DEFINE answer == [reason |-> reason, epsilon |-> job[w].epsilon,
                            remaining |-> Remaining(spent)]
      <4>1. AnswerFits(answer, spent')
        BY <2>0, <2>3, <3>1 DEF AnswerFits, Answer, Reason, Remaining, ThreadFits, RequestRelease
      <4>2. /\ answers' = Append(answers, answer)
            /\ pc' = [pc EXCEPT ![w] = "idle"] /\ job' = [job EXCEPT ![w] = NoJob]
        BY <3>1 DEF Reply, Goto
      <4>3. BooksType' /\ spent =< spent'
        BY <2>0, <2>3, <3>1 DEF RequestRelease, AccountInv, BooksType
      <4> HIDE DEF answer
      <4> QED BY <4>1, <4>2, <4>3, NoJobFits, OneThread
    <3>2. ASSUME Allowed(job[w].size, spent, job[w].epsilon),
                 spent' = spent + job[w].epsilon, Goto(w, "history"), UNCHANGED <<job, answers>>
          PROVE  AccountInv'
      <4>1. spent' \in 0 .. TotalEpsilon /\ spent =< spent' /\ job[w].epsilon =< spent'
        BY <2>0, <2>1, <3>2 DEF Allowed, Exhausted
      <4>2. BooksType'
        BY <2>3, <4>1 DEF RequestRelease, AccountInv, BooksType
      <4>3. ThreadFits("history", job[w], spent')
        BY <2>0, <2>3, <4>1 DEF ThreadFits, Label, RequestRelease
      <4>4. pc' = [pc EXCEPT ![w] = "history"] /\ job' = [job EXCEPT ![w] = job[w]]
        BY <2>0, <3>2 DEF Goto
      <4> QED BY <3>2, <4>1, <4>2, <4>3, <4>4, OneThread
    <3> QED BY <2>3, <3>1, <3>2 DEF RequestRelease
  <2>4. CASE AppendEntry(w)
    <3>1. BooksType' /\ spent =< spent' /\ answers' = answers /\ spent' = spent
      <4>1. history \in Seq(Epsilons) /\ job[w].epsilon \in Epsilons
        BY <2>0, <2>4 DEF AppendEntry, ThreadFits, AccountInv, BooksType
      <4>2. history' \in Seq(Epsilons)
        BY <2>4, <4>1, AppendProperties DEF AppendEntry
      <4> QED BY <2>0, <2>4, <4>2 DEF AppendEntry, AccountInv, BooksType
    <3>2. ThreadFits("verdict", job[w], spent')
      BY <2>0, <2>4, <3>1 DEF AppendEntry, ThreadFits, Label
    <3>3. pc' = [pc EXCEPT ![w] = "verdict"] /\ job' = [job EXCEPT ![w] = job[w]]
      BY <2>0, <2>4 DEF AppendEntry, Goto
    <3> QED BY <3>1, <3>2, <3>3, OneThread
  <2>5. CASE Verdict(w)
    <3> DEFINE locals == [job[w] EXCEPT !.remaining = Remaining(spent)]
    <3>1. BooksType' /\ spent =< spent' /\ answers' = answers /\ spent' = spent
      BY <2>0, <2>5 DEF Verdict, accountant, AccountInv, BooksType
    <3>2. /\ locals \in JobType /\ locals.epsilon = job[w].epsilon
          /\ locals.remaining = TotalEpsilon - spent
      BY <2>0 DEF JobType, Remaining
    <3>3. pc[w] = "verdict" /\ job[w].epsilon =< spent /\ job[w].epsilon \in Epsilons
      BY <2>0, <2>5 DEF Verdict, ThreadFits
    <3>4. pc' = [pc EXCEPT ![w] = "aggregate"] /\ job' = [job EXCEPT ![w] = locals]
      BY <2>0, <2>5 DEF Verdict, Goto, AccountInv
    <3> HIDE DEF locals
    <3>5. ThreadFits("aggregate", locals, spent')
      BY <2>0, <2>1, <3>1, <3>2, <3>3 DEF ThreadFits, Label
    <3> QED BY <3>1, <3>4, <3>5, OneThread
  <2>6. CASE SecureAggregate(w)
    <3>1. PICK reason \in {"released", "below_threshold", "division_by_zero"} :
            Reply(w, reason, job[w].remaining)
      BY <2>6 DEF SecureAggregate
    <3> DEFINE answer == [reason |-> reason, epsilon |-> job[w].epsilon,
                          remaining |-> job[w].remaining]
    <3>2. BooksType' /\ spent =< spent' /\ spent' = spent
      BY <2>0, <2>6 DEF SecureAggregate, accountant, AccountInv, BooksType
    <3>3. AnswerFits(answer, spent')
      BY <2>0, <2>1, <2>6, <3>2 DEF SecureAggregate, AnswerFits, Answer, Reason, ThreadFits
    <3>4. /\ answers' = Append(answers, answer)
          /\ pc' = [pc EXCEPT ![w] = "idle"] /\ job' = [job EXCEPT ![w] = NoJob]
      BY <3>1 DEF Reply, Goto
    <3> HIDE DEF answer
    <3> QED BY <3>2, <3>3, <3>4, NoJobFits, OneThread
  <2> QED BY <1>4, <2>2, <2>3, <2>4, <2>5, <2>6 DEF Continue
<1> QED BY <1>1, <1>2, <1>3, <1>4 DEF Next, vars, Wait, TurnAway

LEMMA AccountInvariant == Spec => []AccountInv
<1> QED BY AccountInit, AccountStep, PTL DEF Spec

\* The limiter's clock and deques, the budget, the threads and their answers
\* keep their types; the budget spent never exceeds the total.
THEOREM ServiceTypeCorrect == Spec => []TypeOK
<1>1. LimiterInv /\ AccountInv => TypeOK
  BY DEF LimiterInv, AccountInv, BooksType, ThreadFits, JobType, TypeOK
<1> QED BY <1>1, LimiterInvariant, AccountInvariant, PTL

\* The remaining budget of an answer is stale only by what others charged
\* meanwhile, and has the answer's own charge taken off (aggregate).
THEOREM RemainingStaysHonest == Spec => []RemainingIsHonest
<1>1. AccountInv => RemainingIsHonest
  BY DEF AccountInv, AnswerFits, RemainingIsHonest, AnswersWith, Remaining
<1> QED BY <1>1, AccountInvariant, PTL
-----------------------------------------------------------------------------
(* Sums over finite sets.  The provers cannot instantiate an induction     *)
(* theorem; each induction here picks a smallest set that fails instead.   *)

\* A set of subsets of a finite set has a minimal member.
LEMMA SmallestSubset ==
  ASSUME NEW S, IsFiniteSet(S), NEW T \in SUBSET SUBSET S, T # {}
  PROVE  \E A \in T : \A B \in T : B \subseteq A => B = A
<1>1. PICK A \in T : \A B \in T : ~ (<<B, A>> \in StrictSubsetOrdering(S))
  BY FS_StrictSubsetOrderingWellFounded, FS_FiniteSubsetsOfFinite, WFMin
<1> QED BY <1>1 DEF StrictSubsetOrdering

First(s) == CHOOSE x \in s : TRUE

\* The table of the partial sums over the subsets of S.
SumsOf(f, S, sums) ==
  sums = [s \in SUBSET S |-> IF s = {} THEN 0 ELSE f[First(s)] + sums[s \ {First(s)}]]

LEMMA SumIsTable ==
  ASSUME NEW f, NEW S
  PROVE  SumFunctionOnSet(f, S) = (CHOOSE sums : SumsOf(f, S, sums))[S]
BY DEF SumFunctionOnSet, FoldFunctionOnSet, MapThenFoldSet, SumsOf, First

LEMMA TableRestricts ==
  ASSUME NEW f, NEW S, NEW A \in SUBSET S, NEW sums, SumsOf(f, S, sums),
         NEW part, part = [s \in SUBSET A |-> sums[s]]
  PROVE  SumsOf(f, A, part)
<1>1. ASSUME NEW s \in SUBSET A
      PROVE  part[s] = IF s = {} THEN 0 ELSE f[First(s)] + part[s \ {First(s)}]
  <2>1. s \in SUBSET S /\ s \ {First(s)} \in SUBSET A
    OBVIOUS
  <2>2. sums[s] = IF s = {} THEN 0 ELSE f[First(s)] + sums[s \ {First(s)}]
    BY <2>1 DEF SumsOf
  <2> QED BY <2>1, <2>2
<1>2. part = [s \in SUBSET A |-> part[s]]
  OBVIOUS
<1>3. part = [s \in SUBSET A |->
               IF s = {} THEN 0 ELSE f[First(s)] + part[s \ {First(s)}]]
  BY <1>1, <1>2
<1> QED BY <1>3 DEF SumsOf

LEMMA TableIsUnique ==
  ASSUME NEW f, NEW S, IsFiniteSet(S), NEW g, NEW h, SumsOf(f, S, g), SumsOf(f, S, h)
  PROVE  g = h
<1> DEFINE T == {s \in SUBSET S : g[s] # h[s]}
<1>1. ASSUME T # {} PROVE FALSE
  <2>0. T \in SUBSET SUBSET S
    OBVIOUS
  <2> HIDE DEF T
  <2>1. PICK A \in T : \A B \in T : B \subseteq A => B = A
    BY <1>1, <2>0, SmallestSubset
  <2> USE DEF T
  <2>2. A \in SUBSET S /\ g[A] # h[A]
    OBVIOUS
  <2>3. /\ g[A] = IF A = {} THEN 0 ELSE f[First(A)] + g[A \ {First(A)}]
        /\ h[A] = IF A = {} THEN 0 ELSE f[First(A)] + h[A \ {First(A)}]
    BY <2>2 DEF SumsOf
  <2>4. A # {}
    BY <2>2, <2>3
  <2>5. First(A) \in A
    BY <2>4 DEF First
  <2>6. A \ {First(A)} \notin T
    BY <2>1, <2>5
  <2>7. A \ {First(A)} \in SUBSET S
    BY <2>2
  <2> QED BY <2>2, <2>3, <2>4, <2>6, <2>7
<1>2. \A s \in SUBSET S : g[s] = h[s]
  BY <1>1
<1>3. /\ g = [s \in SUBSET S |-> g[s]]
      /\ h = [s \in SUBSET S |-> h[s]]
  BY DEF SumsOf
<1> HIDE DEF T
<1> QED BY <1>2, <1>3

\* Where there is a table, it tells the sum of every part of its set.
LEMMA TableTellsSum ==
  ASSUME NEW f, NEW S, IsFiniteSet(S), NEW sums, SumsOf(f, S, sums), NEW A \in SUBSET S
  PROVE  SumFunctionOnSet(f, A) = sums[A]
<1> DEFINE part == [s \in SUBSET A |-> sums[s]]
<1>0. part = [s \in SUBSET A |-> sums[s]]
  OBVIOUS
<1> HIDE DEF part
<1>1. SumsOf(f, A, part)
  BY <1>0, TableRestricts
<1>2. IsFiniteSet(A)
  BY FS_Subset
<1>3. SumsOf(f, A, CHOOSE t : SumsOf(f, A, t))
  BY <1>1
<1>4. part = CHOOSE t : SumsOf(f, A, t)
  BY <1>1, <1>2, <1>3, TableIsUnique
<1>5. SumFunctionOnSet(f, A) = part[A]
  BY <1>4, SumIsTable
<1> QED BY <1>0, <1>5

LEMMA TableExists ==
  ASSUME NEW f, NEW S, IsFiniteSet(S)
  PROVE  \E sums : SumsOf(f, S, sums)
<1> DEFINE T == {s \in SUBSET S : ~ \E sums : SumsOf(f, s, sums)}
<1>1. ASSUME T # {} PROVE FALSE
  <2>0. T \in SUBSET SUBSET S
    OBVIOUS
  <2> HIDE DEF T
  <2>1. PICK A \in T : \A B \in T : B \subseteq A => B = A
    BY <1>1, <2>0, SmallestSubset
  <2> USE DEF T
  <2>2. A \in SUBSET S /\ ~ \E sums : SumsOf(f, A, sums)
    OBVIOUS
  <2>3. \A B \in SUBSET A : B # A => \E sums : SumsOf(f, B, sums)
    BY <2>1
  <2> HIDE DEF T
  <2> DEFINE table == [s \in SUBSET A |->
               IF s = {} THEN 0 ELSE f[First(s)] + SumFunctionOnSet(f, s \ {First(s)})]
  <2>4. ASSUME NEW s \in SUBSET A, s # {}
        PROVE  table[s \ {First(s)}] = SumFunctionOnSet(f, s \ {First(s)})
    <3> DEFINE r == s \ {First(s)}
    <3>1. First(s) \in s
      BY <2>4 DEF First
    <3>2. r \in SUBSET A /\ r # A
      BY <3>1
    <3> HIDE DEF r
    <3>3. PICK sums : SumsOf(f, r, sums)
      BY <2>3, <3>2
    <3>4. IsFiniteSet(A) /\ IsFiniteSet(r)
      BY <2>2, <3>2, FS_Subset
    <3>5. sums[r] = IF r = {} THEN 0 ELSE f[First(r)] + sums[r \ {First(r)}]
      BY <3>3 DEF SumsOf
    <3>6. /\ SumFunctionOnSet(f, r) = sums[r]
          /\ SumFunctionOnSet(f, r \ {First(r)}) = sums[r \ {First(r)}]
      BY <3>3, <3>4, TableTellsSum
    <3>7. table[r] = IF r = {} THEN 0 ELSE f[First(r)] + SumFunctionOnSet(f, r \ {First(r)})
      BY <3>2
    <3>8. table[r] = SumFunctionOnSet(f, r)
      BY <3>5, <3>6, <3>7
    <3> QED BY <3>8 DEF r
  <2>5. \A s \in SUBSET A :
          table[s] = IF s = {} THEN 0 ELSE f[First(s)] + table[s \ {First(s)}]
    <3> SUFFICES ASSUME NEW s \in SUBSET A
                 PROVE  table[s] = IF s = {} THEN 0 ELSE f[First(s)] + table[s \ {First(s)}]
      OBVIOUS
    <3>1. table[s] = IF s = {} THEN 0 ELSE f[First(s)] + SumFunctionOnSet(f, s \ {First(s)})
      OBVIOUS
    <3> HIDE DEF table
    <3> QED BY <2>4, <3>1
  <2>6. table = [s \in SUBSET A |-> table[s]]
    OBVIOUS
  <2> HIDE DEF table
  <2>7. SumsOf(f, A, table)
    BY <2>5, <2>6 DEF SumsOf
  <2> QED BY <2>2, <2>7
<1>2. S \notin T
  BY <1>1
<1> QED BY <1>2

\* The equation of a sum over a finite set.
LEMMA SumEquation ==
  ASSUME NEW f, NEW S, IsFiniteSet(S)
  PROVE  SumFunctionOnSet(f, S) =
           IF S = {} THEN 0 ELSE f[First(S)] + SumFunctionOnSet(f, S \ {First(S)})
<1>1. PICK sums : SumsOf(f, S, sums)
  BY TableExists
<1>2. sums[S] = IF S = {} THEN 0 ELSE f[First(S)] + sums[S \ {First(S)}]
  BY <1>1 DEF SumsOf
<1>3. /\ SumFunctionOnSet(f, S) = sums[S]
      /\ SumFunctionOnSet(f, S \ {First(S)}) = sums[S \ {First(S)}]
  BY <1>1, TableTellsSum
<1> QED BY <1>2, <1>3

LEMMA SumIsNat ==
  ASSUME NEW f, NEW S, IsFiniteSet(S), \A x \in S : f[x] \in Nat
  PROVE  SumFunctionOnSet(f, S) \in Nat
<1> DEFINE T == {s \in SUBSET S : SumFunctionOnSet(f, s) \notin Nat}
<1>1. ASSUME T # {} PROVE FALSE
  <2>0. T \in SUBSET SUBSET S
    OBVIOUS
  <2> HIDE DEF T
  <2>1. PICK A \in T : \A B \in T : B \subseteq A => B = A
    BY <1>1, <2>0, SmallestSubset
  <2> USE DEF T
  <2>2. A \in SUBSET S /\ IsFiniteSet(A) /\ SumFunctionOnSet(f, A) \notin Nat
    BY FS_Subset
  <2> HIDE DEF T
  <2>6. SumFunctionOnSet(f, A) =
          IF A = {} THEN 0 ELSE f[First(A)] + SumFunctionOnSet(f, A \ {First(A)})
    BY <2>2, SumEquation
  <2>3. A # {}
    BY <2>2, <2>6
  <2>4. First(A) \in A
    BY <2>3 DEF First
  <2>5. SumFunctionOnSet(f, A \ {First(A)}) \in Nat /\ f[First(A)] \in Nat
    BY <2>1, <2>2, <2>4 DEF T
  <2> QED BY <2>2, <2>3, <2>5, <2>6
<1> QED BY <1>1

\* The order in which a sum takes its terms does not matter.
LEMMA SumTakesAny ==
  ASSUME NEW f, NEW S, IsFiniteSet(S), \A x \in S : f[x] \in Nat, NEW e \in S
  PROVE  SumFunctionOnSet(f, S) = f[e] + SumFunctionOnSet(f, S \ {e})
<1> DEFINE T == {s \in SUBSET S : \E x \in s :
                   SumFunctionOnSet(f, s) # f[x] + SumFunctionOnSet(f, s \ {x})}
<1>1. ASSUME T # {} PROVE FALSE
  <2>0. T \in SUBSET SUBSET S
    OBVIOUS
  <2> HIDE DEF T
  <2>1. PICK A \in T : \A B \in T : B \subseteq A => B = A
    BY <1>1, <2>0, SmallestSubset
  <2> USE DEF T
  <2>2. PICK x \in A : SumFunctionOnSet(f, A) # f[x] + SumFunctionOnSet(f, A \ {x})
    OBVIOUS
  <2>3. A \in SUBSET S /\ IsFiniteSet(A) /\ A # {}
    BY <2>2, FS_Subset
  <2> DEFINE a == First(A)
  <2>4. a \in A
    BY <2>3 DEF First
  <2>5. SumFunctionOnSet(f, A) = f[a] + SumFunctionOnSet(f, A \ {a})
    BY <2>3, SumEquation
  <2> HIDE DEF a
  <2>6. a # x
    BY <2>2, <2>5
  <2>7. /\ A \ {a} \in SUBSET S /\ A \ {a} \notin T /\ x \in A \ {a}
        /\ A \ {x} \in SUBSET S /\ A \ {x} \notin T /\ a \in A \ {x}
    BY <2>1, <2>3, <2>4, <2>6
  <2>8. /\ SumFunctionOnSet(f, A \ {a}) = f[x] + SumFunctionOnSet(f, (A \ {a}) \ {x})
        /\ SumFunctionOnSet(f, A \ {x}) = f[a] + SumFunctionOnSet(f, (A \ {x}) \ {a})
    BY <2>7
  <2>9. (A \ {a}) \ {x} = (A \ {x}) \ {a}
    OBVIOUS
  <2> DEFINE rest == SumFunctionOnSet(f, (A \ {x}) \ {a})
  <2>10. rest \in Nat /\ f[a] \in Nat /\ f[x] \in Nat
    <3>1. IsFiniteSet((A \ {x}) \ {a}) /\ (A \ {x}) \ {a} \in SUBSET S
      BY <2>3, FS_Subset
    <3>2. \A y \in (A \ {x}) \ {a} : f[y] \in Nat
      BY <3>1
    <3> QED BY <2>3, <2>4, <3>1, <3>2, SumIsNat
  <2> HIDE DEF T
  <2> QED BY <2>2, <2>5, <2>8, <2>9, <2>10
<1>2. S \notin T
  BY <1>1
<1> QED BY <1>2

LEMMA SumAdds ==
  ASSUME NEW f, NEW S, IsFiniteSet(S), NEW e, e \notin S, \A x \in S \cup {e} : f[x] \in Nat
  PROVE  SumFunctionOnSet(f, S \cup {e}) = f[e] + SumFunctionOnSet(f, S)
<1>1. (S \cup {e}) \ {e} = S /\ IsFiniteSet(S \cup {e})
  BY FS_AddElement
<1> QED BY <1>1, SumTakesAny

LEMMA SumDepends ==
  ASSUME NEW f, NEW g, NEW S, IsFiniteSet(S), \A x \in S : f[x] = g[x]
  PROVE  SumFunctionOnSet(f, S) = SumFunctionOnSet(g, S)
<1> DEFINE T == {s \in SUBSET S : SumFunctionOnSet(f, s) # SumFunctionOnSet(g, s)}
<1>1. ASSUME T # {} PROVE FALSE
  <2>0. T \in SUBSET SUBSET S
    OBVIOUS
  <2> HIDE DEF T
  <2>1. PICK A \in T : \A B \in T : B \subseteq A => B = A
    BY <1>1, <2>0, SmallestSubset
  <2> USE DEF T
  <2>2. A \in SUBSET S /\ IsFiniteSet(A) /\ SumFunctionOnSet(f, A) # SumFunctionOnSet(g, A)
    BY FS_Subset
  <2>3. /\ SumFunctionOnSet(f, A) =
             IF A = {} THEN 0 ELSE f[First(A)] + SumFunctionOnSet(f, A \ {First(A)})
        /\ SumFunctionOnSet(g, A) =
             IF A = {} THEN 0 ELSE g[First(A)] + SumFunctionOnSet(g, A \ {First(A)})
    BY <2>2, SumEquation
  <2>4. A # {}
    BY <2>2, <2>3
  <2>5. First(A) \in A
    BY <2>4 DEF First
  <2>6. /\ f[First(A)] = g[First(A)]
        /\ SumFunctionOnSet(f, A \ {First(A)}) = SumFunctionOnSet(g, A \ {First(A)})
    BY <2>1, <2>2, <2>5
  <2> HIDE DEF T
  <2> QED BY <2>2, <2>3, <2>4, <2>6
<1>2. S \notin T
  BY <1>1
<1> QED BY <1>2

LEMMA SumGrows ==
  ASSUME NEW f, NEW S, IsFiniteSet(S), \A x \in S : f[x] \in Nat, NEW R \in SUBSET S
  PROVE  SumFunctionOnSet(f, R) =< SumFunctionOnSet(f, S)
<1> DEFINE T == {s \in SUBSET S : R \subseteq s
                   /\ ~ (SumFunctionOnSet(f, R) =< SumFunctionOnSet(f, s))}
<1>1. ASSUME T # {} PROVE FALSE
  <2>0. T \in SUBSET SUBSET S
    OBVIOUS
  <2> HIDE DEF T
  <2>1. PICK A \in T : \A B \in T : B \subseteq A => B = A
    BY <1>1, <2>0, SmallestSubset
  <2> USE DEF T
  <2>2. /\ A \in SUBSET S /\ IsFiniteSet(A) /\ R \subseteq A
        /\ ~ (SumFunctionOnSet(f, R) =< SumFunctionOnSet(f, A))
    BY FS_Subset
  <2>3. \A s \in SUBSET S : SumFunctionOnSet(f, s) \in Nat
    BY FS_Subset, SumIsNat
  <2>4. A # R
    BY <2>2, <2>3
  <2>5. PICK x \in A : x \notin R
    BY <2>2, <2>4
  <2>6. SumFunctionOnSet(f, A) = f[x] + SumFunctionOnSet(f, A \ {x})
    BY <2>2, SumTakesAny
  <2>7. SumFunctionOnSet(f, R) =< SumFunctionOnSet(f, A \ {x})
    BY <2>1, <2>2, <2>5
  <2>8. A \ {x} \in SUBSET S
    BY <2>2
  <2> HIDE DEF T
  <2>9. f[x] \in Nat
    BY <2>2
  <2> QED BY <2>2, <2>3, <2>6, <2>7, <2>8, <2>9
<1>2. S \notin T
  BY <1>1
<1> QED BY <1>2, FS_Subset

-----------------------------------------------------------------------------
(* The books.                                                              *)

LEMMA SumOfNone ==
  ASSUME NEW f
  PROVE  SumFunctionOnSet(f, {}) = 0
BY SumEquation, FS_EmptySet

LEMMA SumOfAppended ==
  ASSUME NEW q \in Seq(Epsilons), NEW e \in Epsilons
  PROVE  SumFunction(Append(q, e)) = SumFunction(q) + e
<1> DEFINE a == Append(q, e)
           n == Len(q)
<1>1. /\ n \in Nat /\ DOMAIN q = 1 .. n /\ DOMAIN a = 1 .. n + 1
      /\ a[n + 1] = e /\ e \in Nat /\ \A k \in 1 .. n : a[k] = q[k] /\ q[k] \in Nat
  <2>1. /\ n \in Nat /\ DOMAIN q = 1 .. n /\ DOMAIN a = 1 .. n + 1
        /\ a[n + 1] = e /\ \A k \in 1 .. n : a[k] = q[k] /\ q[k] \in Epsilons
    BY AppendProperties, LenProperties
  <2> HIDE DEF a, n
  <2> QED BY <2>1, EpsilonIsNat
<1> HIDE DEF a, n
<1>8. (1 .. n) \cup {n + 1} = 1 .. n + 1 /\ n + 1 \notin 1 .. n
  BY <1>1
<1>9. IsFiniteSet(1 .. n)
  BY <1>1, UpTo
<1>2. /\ (1 .. n) \cup {n + 1} = 1 .. n + 1 /\ n + 1 \notin 1 .. n
      /\ IsFiniteSet(1 .. n)
  BY <1>8, <1>9
<1>3. \A k \in (1 .. n) \cup {n + 1} : a[k] \in Nat
  BY <1>1
<1>4. SumFunctionOnSet(a, 1 .. n + 1) = a[n + 1] + SumFunctionOnSet(a, 1 .. n)
  BY <1>2, <1>3, SumAdds
<1>5. SumFunctionOnSet(a, 1 .. n) = SumFunctionOnSet(q, 1 .. n)
  BY <1>1, <1>2, SumDepends
<1>6. SumFunctionOnSet(q, 1 .. n) \in Nat
  BY <1>1, <1>2, SumIsNat
<1>7. SumFunction(a) = SumFunction(q) + e
  BY <1>1, <1>4, <1>5, <1>6 DEF SumFunction
<1> QED BY <1>7 DEF a

LEMMA AnswersPaidNats ==
  ASSUME answers \in Seq(Answer), NEW reasons
  PROVE  /\ SumFunctionOnSet(Paid, AnswersWith(reasons)) \in Nat
         /\ AnswersWith(reasons) \in SUBSET (1 .. Len(answers))
         /\ IsFiniteSet(AnswersWith(reasons))
         /\ \A k \in AnswersWith(reasons) : Paid[k] \in Nat
<1>1. Len(answers) \in Nat /\ \A k \in 1 .. Len(answers) : answers[k] \in Answer
  OBVIOUS
<1>2. \A k \in 1 .. Len(answers) : answers[k].epsilon \in Nat
  BY <1>1, EpsilonsAreNats DEF Answer
<1>3. \A k \in 1 .. Len(answers) : Paid[k] \in Nat
  BY <1>2 DEF Paid
<1>4. AnswersWith(reasons) \in SUBSET (1 .. Len(answers))
  BY DEF AnswersWith
<1>5. Len(answers) \in Nat
  BY <1>1
<1>6. IsFiniteSet(AnswersWith(reasons))
  BY <1>4, <1>5, UpTo, FS_Subset
<1> QED BY <1>3, <1>4, <1>6, SumIsNat

\* One more answer adds what it paid to the sum over the reasons it has.
LEMMA SumOfAnswered ==
  ASSUME answers \in Seq(Answer), NEW answer \in Answer, NEW reasons,
         answers' = Append(answers, answer)
  PROVE  /\ SumFunctionOnSet(Paid, AnswersWith(reasons)) \in Nat
         /\ SumFunctionOnSet(Paid', AnswersWith(reasons)') =
              SumFunctionOnSet(Paid, AnswersWith(reasons))
              + (IF answer.reason \in reasons THEN answer.epsilon ELSE 0)
<1> DEFINE n == Len(answers)
           old == AnswersWith(reasons)
           new == AnswersWith(reasons)'
<1>1. /\ n \in Nat /\ Len(answers') = n + 1 /\ answers'[n + 1] = answer
      /\ \A k \in 1 .. n : answers'[k] = answers[k] /\ answers[k] \in Answer
  BY AppendProperties, LenProperties
<1>2. answer.epsilon \in Nat /\ \A k \in 1 .. n : answers[k].epsilon \in Nat
  BY <1>1, EpsilonsAreNats DEF Answer
<1>3. /\ Paid'[n + 1] = answer.epsilon /\ \A k \in 1 .. n : Paid'[k] = Paid[k] /\ Paid[k] \in Nat
  BY <1>1, <1>2 DEF Paid
<1>4. /\ old \subseteq 1 .. n
      /\ new = IF answer.reason \in reasons THEN old \cup {n + 1} ELSE old
  BY <1>1 DEF AnswersWith
<1> HIDE DEF old, new, n
<1>5. IsFiniteSet(old) /\ n + 1 \notin old
  <2>1. n \in Nat /\ n + 1 \notin 1 .. n
    BY <1>1
  <2>2. IsFiniteSet(1 .. n)
    BY <2>1, UpTo
  <2> QED BY <1>4, <2>1, <2>2, FS_Subset
<1>6. SumFunctionOnSet(Paid, old) \in Nat
  BY <1>3, <1>4, <1>5, SumIsNat
<1>7. SumFunctionOnSet(Paid', old) = SumFunctionOnSet(Paid, old)
  BY <1>3, <1>4, <1>5, SumDepends
<1>8. SumFunctionOnSet(Paid', old \cup {n + 1}) = Paid'[n + 1] + SumFunctionOnSet(Paid', old)
  <2>1. \A k \in old \cup {n + 1} : Paid'[k] \in Nat
    BY <1>2, <1>3, <1>4
  <2> QED BY <1>5, <2>1, SumAdds
<1> QED BY <1>2, <1>3, <1>4, <1>6, <1>7, <1>8 DEF old, new

\* Sums over threads.
LEMMA CostsAreNats ==
  ASSUME job \in [Workers -> JobType], NEW S \in SUBSET Workers, IsFiniteSet(S)
  PROVE  SumFunctionOnSet(Cost, S) \in Nat /\ \A v \in S : Cost[v] \in Nat
<1>1. \A v \in S : Cost[v] \in Nat
  <2> SUFFICES ASSUME NEW v \in S PROVE Cost[v] \in Nat
    OBVIOUS
  <2>1. job[v] \in JobType
    OBVIOUS
  <2>2. job[v].epsilon \in Epsilons \cup {0}
    BY <2>1 DEF JobType
  <2>3. Cost[v] = job[v].epsilon
    BY DEF Cost
  <2>4. job[v].epsilon \in Nat
    BY <2>2, EpsilonIsNat
  <2> QED BY <2>3, <2>4
<1> QED BY <1>1, SumIsNat

\* A step of a thread that is not among those summed, or that keeps its
\* epsilon, changes nothing.
LEMMA SumOfOthers ==
  ASSUME NEW w \in Workers, NEW locals, job \in [Workers -> JobType],
         job' = [job EXCEPT ![w] = locals],
         NEW S \in SUBSET Workers, IsFiniteSet(S), w \notin S \/ locals.epsilon = job[w].epsilon
  PROVE  SumFunctionOnSet(Cost', S) = SumFunctionOnSet(Cost, S)
<1>1. \A v \in S : Cost'[v] = Cost[v]
  BY DEF Cost
<1> DEFINE f == Cost'
           g == Cost
<1>2. \A v \in S : f[v] = g[v]
  BY <1>1
<1> HIDE DEF f, g
<1>3. SumFunctionOnSet(f, S) = SumFunctionOnSet(g, S)
  BY <1>2, SumDepends
<1> QED BY <1>3 DEF f, g

\* One thread joins or leaves the threads summed, with what it costs now.
LEMMA SumOfJoined ==
  ASSUME NEW w \in Workers, NEW locals, job \in [Workers -> JobType],
         job' = [job EXCEPT ![w] = locals], locals.epsilon = job[w].epsilon,
         NEW S \in SUBSET Workers, IsFiniteSet(S), w \notin S
  PROVE  SumFunctionOnSet(Cost', S \cup {w}) = SumFunctionOnSet(Cost, S) + job[w].epsilon
<1>1. S \cup {w} \in SUBSET Workers /\ IsFiniteSet(S \cup {w})
  BY FS_AddElement
<1>2. SumFunctionOnSet(Cost', S \cup {w}) = SumFunctionOnSet(Cost, S \cup {w})
  BY <1>1, SumOfOthers
<1>3. \A v \in S \cup {w} : Cost[v] \in Nat
  BY <1>1, CostsAreNats
<1>4. SumFunctionOnSet(Cost, S \cup {w}) = Cost[w] + SumFunctionOnSet(Cost, S)
  BY <1>3, SumAdds
<1>5. SumFunctionOnSet(Cost, S) \in Nat /\ Cost[w] \in Nat /\ Cost[w] = job[w].epsilon
  BY <1>3, CostsAreNats DEF Cost
<1> QED BY <1>2, <1>4, <1>5

LEMMA SumOfLeft ==
  ASSUME NEW w \in Workers, NEW locals, job \in [Workers -> JobType],
         job' = [job EXCEPT ![w] = locals],
         NEW S \in SUBSET Workers, IsFiniteSet(S), w \in S
  PROVE  SumFunctionOnSet(Cost', S \ {w}) = SumFunctionOnSet(Cost, S) - job[w].epsilon
<1>1. S \ {w} \in SUBSET Workers /\ IsFiniteSet(S \ {w}) /\ w \notin S \ {w}
  BY FS_RemoveElement
<1>2. SumFunctionOnSet(Cost', S \ {w}) = SumFunctionOnSet(Cost, S \ {w})
  BY <1>1, SumOfOthers
<1>3. \A v \in S : Cost[v] \in Nat
  BY CostsAreNats
<1>4. SumFunctionOnSet(Cost, S) = Cost[w] + SumFunctionOnSet(Cost, S \ {w})
  BY <1>3, SumTakesAny
<1>5. SumFunctionOnSet(Cost, S \ {w}) \in Nat /\ Cost[w] \in Nat /\ Cost[w] = job[w].epsilon
  BY <1>1, <1>3, CostsAreNats DEF Cost
<1> QED BY <1>2, <1>4, <1>5

BooksInv ==
  /\ AccountInv
  /\ IsFiniteSet(Charged)
  /\ BooksBalance

LEMMA SumsAreNats ==
  ASSUME BooksInv
  PROVE  /\ Charged \in SUBSET Workers /\ IsFiniteSet(Charged)
         /\ Unentered \in SUBSET Workers /\ IsFiniteSet(Unentered)
         /\ SumFunction(history) \in Nat
         /\ SumFunctionOnSet(Paid, AnswersWith(ChargedReason)) \in Nat
         /\ SumFunctionOnSet(Cost, Charged) \in Nat
         /\ SumFunctionOnSet(Cost, Unentered) \in Nat
<1>1. Charged \in SUBSET Workers /\ IsFiniteSet(Charged) /\ Unentered \in SUBSET Charged
  BY DEF BooksInv, Charged, Unentered
<1>2. Unentered \in SUBSET Workers /\ IsFiniteSet(Unentered)
  BY <1>1, FS_Subset
<1>3. job \in [Workers -> JobType] /\ history \in Seq(Epsilons) /\ answers \in Seq(Answer)
  BY DEF BooksInv, AccountInv, BooksType
<1>4. SumFunctionOnSet(Cost, Charged) \in Nat /\ SumFunctionOnSet(Cost, Unentered) \in Nat
  BY <1>1, <1>2, <1>3, CostsAreNats
<1>5. SumFunction(history) \in Nat
  <2>1. DOMAIN history = 1 .. Len(history) /\ Len(history) \in Nat
    BY <1>3
  <2>2. IsFiniteSet(1 .. Len(history))
    BY <2>1, UpTo
  <2>4. \A n \in 1 .. Len(history) : history[n] \in Epsilons
    BY <1>3
  <2>3. \A n \in 1 .. Len(history) : history[n] \in Nat
    BY <2>4, EpsilonIsNat
  <2> QED BY <2>1, <2>2, <2>3, SumIsNat DEF SumFunction
<1>6. SumFunctionOnSet(Paid, AnswersWith(ChargedReason)) \in Nat
  BY <1>3, AnswersPaidNats
<1> QED BY <1>1, <1>2, <1>4, <1>5, <1>6

\* The balance after a step that charges `paid`, enters `entered` and answers
\* for `answered`.
LEMMA BooksLater ==
  ASSUME BooksInv, AccountInv', IsFiniteSet(Charged'),
         NEW paid \in Nat, NEW entered \in Nat, NEW answered \in Nat,
         spent' = spent + paid,
         SumFunction(history') = SumFunction(history) + entered,
         SumFunctionOnSet(Cost', Unentered') = SumFunctionOnSet(Cost, Unentered) + paid - entered,
         SumFunctionOnSet(Paid', AnswersWith(ChargedReason)') =
           SumFunctionOnSet(Paid, AnswersWith(ChargedReason)) + answered,
         SumFunctionOnSet(Cost', Charged') = SumFunctionOnSet(Cost, Charged) + paid - answered
  PROVE  BooksInv'
<1>1. /\ SumFunction(history) \in Nat
      /\ SumFunctionOnSet(Paid, AnswersWith(ChargedReason)) \in Nat
      /\ SumFunctionOnSet(Cost, Charged) \in Nat
      /\ SumFunctionOnSet(Cost, Unentered) \in Nat
  BY SumsAreNats
<1>2. /\ spent = SumFunction(history) + SumFunctionOnSet(Cost, Unentered)
      /\ spent = SumFunctionOnSet(Paid, AnswersWith(ChargedReason))
                 + SumFunctionOnSet(Cost, Charged)
  BY DEF BooksInv, BooksBalance
<1>3. /\ spent' = SumFunction(history') + SumFunctionOnSet(Cost', Unentered')
      /\ spent' = SumFunctionOnSet(Paid', AnswersWith(ChargedReason)')
                  + SumFunctionOnSet(Cost', Charged')
  BY <1>1, <1>2
<1>4. BooksBalance'
  BY <1>3 DEF BooksBalance
<1> QED BY <1>4 DEF BooksInv

LEMMA BooksInit == Init => BooksInv
<1> SUFFICES ASSUME Init PROVE BooksInv
  OBVIOUS
<1>1. Charged = {} /\ Unentered = {} /\ AnswersWith(ChargedReason) = {}
  BY DEF Init, Charged, Unentered, AnswersWith
<1>2. DOMAIN history = {} /\ spent = 0
  BY DEF Init
<1>3. SumFunction(history) = SumFunctionOnSet(history, {})
  BY <1>2 DEF SumFunction
<1>4. BooksBalance
  BY <1>1, <1>2, <1>3, SumOfNone DEF BooksBalance
<1> QED BY <1>1, <1>4, AccountInit, FS_EmptySet DEF BooksInv


LEMMA BooksStep == BooksInv /\ AccountInv' /\ [Next]_vars => BooksInv'
<1> SUFFICES ASSUME BooksInv, AccountInv', [Next]_vars PROVE BooksInv'
  OBVIOUS
<1> DEFINE due == SumFunctionOnSet(Cost, Charged)
           waiting == SumFunctionOnSet(Cost, Unentered)
           answered == SumFunctionOnSet(Paid, AnswersWith(ChargedReason))
           entered == SumFunction(history)
           waiting1 == SumFunctionOnSet(Cost', Unentered')
           due1 == SumFunctionOnSet(Cost', Charged')
           answered1 == SumFunctionOnSet(Paid', AnswersWith(ChargedReason)')
           entered1 == SumFunction(history')
<1>0. /\ Charged \in SUBSET Workers /\ IsFiniteSet(Charged)
      /\ Unentered \in SUBSET Workers /\ IsFiniteSet(Unentered)
      /\ due \in Nat /\ waiting \in Nat /\ answered \in Nat /\ entered \in Nat
  BY SumsAreNats
<1>a. /\ pc \in [Workers -> Label] /\ job \in [Workers -> JobType]
      /\ answers \in Seq(Answer) /\ history \in Seq(Epsilons) /\ spent \in 0 .. TotalEpsilon
      /\ \A w \in Workers : ThreadFits(pc[w], job[w], spent)
  BY DEF BooksInv, AccountInv, BooksType
<1>b. spent \in Nat
  BY <1>a, EpsilonsAreNats
<1>1. CASE UNCHANGED <<accountant, threads, answers, requests, crashes>>
  BY <1>1 DEF accountant, threads, BooksInv, BooksBalance, Cost, Paid, Charged, Unentered, AnswersWith
<1>2. CASE Crash
  <2>1. Charged' = {} /\ Unentered' = {} /\ AnswersWith(ChargedReason)' = {}
    BY <1>2 DEF Crash, Charged, Unentered, AnswersWith
  <2>2. DOMAIN history' = {} /\ spent' = 0
    BY <1>2 DEF Crash
  <2>3. entered1 = SumFunctionOnSet(history', {})
    BY <2>2 DEF SumFunction
  <2>4. waiting1 = 0 /\ due1 = 0 /\ answered1 = 0 /\ entered1 = 0
    BY <2>1, <2>3, SumOfNone
  <2>5. BooksBalance'
    BY <2>2, <2>4 DEF BooksBalance
  <2> QED BY <2>1, <2>5, FS_EmptySet DEF BooksInv
\* What a thread does to the sums over threads it is in neither before nor after.
<1>3. ASSUME NEW w \in Workers, pc[w] \in {"idle", "attestation", "charge"},
             pc'[w] \in {"idle", "attestation", "charge"},
             \A v \in Workers \ {w} : pc'[v] = pc[v] /\ job'[v] = job[v]
      PROVE  IsFiniteSet(Charged') /\ waiting1 = waiting /\ due1 = due
  <2>1. Charged' = Charged /\ Unentered' = Unentered /\ w \notin Charged /\ w \notin Unentered
    BY <1>a, <1>3 DEF Charged, Unentered
  <2>2. \A v \in Charged \cup Unentered : Cost'[v] = Cost[v]
    BY <1>0, <1>3, <2>1 DEF Cost
  <2> DEFINE f == Cost'
             g == Cost
  <2>3. \A v \in Charged \cup Unentered : f[v] = g[v]
    BY <2>2
  <2> HIDE DEF f, g
  <2>4. /\ SumFunctionOnSet(f, Charged) = SumFunctionOnSet(g, Charged)
        /\ SumFunctionOnSet(f, Unentered) = SumFunctionOnSet(g, Unentered)
    BY <1>0, <2>3, SumDepends
  <2> QED BY <1>0, <2>1, <2>4 DEF f, g
<1> HIDE DEF waiting, due, answered, entered, waiting1, due1, answered1, entered1
<1>4. ASSUME NEW w \in Workers, NEW c \in Clients, Receive(w, c) PROVE BooksInv'
  <2>1. PICK locals : job' = [job EXCEPT ![w] = locals]
    BY <1>4 DEF Receive
  <2>2. /\ pc[w] = "idle" /\ pc' = [pc EXCEPT ![w] = "attestation"]
        /\ spent' = spent + 0 /\ history' = history /\ answers' = answers
    BY <1>4, <1>b DEF Receive, Goto, accountant
  <2>3. IsFiniteSet(Charged') /\ waiting1 = waiting /\ due1 = due
    <3>1. /\ pc'[w] = "attestation"
          /\ \A v \in Workers \ {w} : pc'[v] = pc[v] /\ job'[v] = job[v]
      BY <1>a, <2>1, <2>2
    <3> QED BY <1>3, <2>2, <3>1
  <2>4. answered1 = answered /\ entered1 = entered
    BY <2>2 DEF Paid, AnswersWith, answered, answered1, entered, entered1
  <2>5. /\ waiting1 = waiting + 0 - 0 /\ due1 = due + 0 - 0
        /\ answered1 = answered + 0 /\ entered1 = entered + 0
    BY <1>0, <2>3, <2>4
  <2> QED BY <2>2, <2>3, <2>5, BooksLater
       DEF waiting, due, answered, entered, waiting1, due1, answered1, entered1
<1>5. ASSUME NEW w \in Workers, Continue(w) PROVE BooksInv'
  <2>0. /\ ThreadFits(pc[w], job[w], spent) /\ job = [job EXCEPT ![w] = job[w]]
    BY <1>a
  <2> DEFINE e == job[w].epsilon
  <2>e. e \in Epsilons \cup {0} /\ e \in Nat
    <3>1. job[w] \in JobType
      BY <1>a
    <3>2. job[w].epsilon \in Epsilons \cup {0}
      BY <3>1 DEF JobType
    <3> QED BY <3>2, EpsilonIsNat
  <2>1. ASSUME NEW paid \in Nat, NEW in \in Nat, NEW out \in Nat, IsFiniteSet(Charged'),
               spent' = spent + paid, entered1 = entered + in, answered1 = answered + out,
               waiting1 = waiting + paid - in, due1 = due + paid - out
        PROVE  BooksInv'
    BY <2>1, BooksLater
       DEF waiting, due, answered, entered, waiting1, due1, answered1, entered1
  <2>2. CASE VerifyAttestation(w)
    <3>1. \E label \in {"idle", "charge"} : \E locals :
            pc' = [pc EXCEPT ![w] = label] /\ job' = [job EXCEPT ![w] = locals]
      BY <2>0, <2>2 DEF VerifyAttestation, Goto
    <3>2. /\ pc[w] = "attestation" /\ spent' = spent + 0 /\ history' = history
          /\ answers' = answers
      BY <1>b, <2>2 DEF VerifyAttestation, accountant
    <3>3. IsFiniteSet(Charged') /\ waiting1 = waiting /\ due1 = due
      <4>1. /\ pc'[w] \in {"idle", "charge"}
            /\ \A v \in Workers \ {w} : pc'[v] = pc[v] /\ job'[v] = job[v]
        BY <1>a, <3>1
      <4> QED BY <1>3, <3>2, <4>1
    <3>4. answered1 = answered /\ entered1 = entered
      BY <3>2 DEF Paid, AnswersWith, answered, answered1, entered, entered1
    <3> HIDE DEF e
    <3>5. /\ waiting1 = waiting + 0 - 0 /\ due1 = due + 0 - 0
          /\ answered1 = answered + 0 /\ entered1 = entered + 0
      BY <1>0, <3>3, <3>4
    <3> QED BY <2>1, <3>2, <3>3, <3>5
  <2>3. CASE RequestRelease(w)
    <3>1. ASSUME NEW reason \in {"sparse_slice_suppressed", "budget_exhausted"},
                 Reply(w, reason, Remaining(spent)), UNCHANGED spent
          PROVE  BooksInv'
      <4> DEFINE answer == [reason |-> reason, epsilon |-> job[w].epsilon,
                            remaining |-> Remaining(spent)]
      <4>1. /\ answers' = Append(answers, answer) /\ history' = history /\ spent' = spent + 0
            /\ pc[w] = "charge"
            /\ pc' = [pc EXCEPT ![w] = "idle"] /\ job' = [job EXCEPT ![w] = NoJob]
        BY <1>b, <2>3, <3>1 DEF Reply, Goto, RequestRelease
      <4>2. IsFiniteSet(Charged') /\ waiting1 = waiting /\ due1 = due
        <5>1. /\ pc'[w] = "idle"
              /\ \A v \in Workers \ {w} : pc'[v] = pc[v] /\ job'[v] = job[v]
          BY <1>a, <4>1
        <5> QED BY <1>3, <4>1, <5>1
      <4>3. answer \in Answer /\ answer.reason \notin ChargedReason
        <5>1. job[w].epsilon \in Epsilons
          BY <2>0, <4>1 DEF ThreadFits
        <5>2. Remaining(spent) \in 0 .. TotalEpsilon
          BY <1>a, EpsilonsAreNats DEF Remaining
        <5> QED BY <5>1, <5>2 DEF Answer, Reason, ChargedReason
      <4> HIDE DEF answer
      <4>4. answered1 = answered + 0 /\ entered1 = entered
        BY <1>a, <4>1, <4>3, SumOfAnswered DEF answered, answered1, entered, entered1
      <4> HIDE DEF e
      <4>5. /\ waiting1 = waiting + 0 - 0 /\ due1 = due + 0 - 0
            /\ answered1 = answered + 0 /\ entered1 = entered + 0
        BY <1>0, <4>2, <4>4
      <4> QED BY <2>1, <4>1, <4>2, <4>5
    <3>2. ASSUME spent' = spent + e, Goto(w, "history"), UNCHANGED <<job, answers, history>>
          PROVE  BooksInv'
      <4>1. pc[w] = "charge" /\ pc' = [pc EXCEPT ![w] = "history"] /\ job' = [job EXCEPT ![w] = job[w]]
        BY <2>0, <2>3, <3>2 DEF Goto, RequestRelease
      <4>2. /\ Charged' = Charged \cup {w} /\ w \notin Charged
            /\ Unentered' = Unentered \cup {w} /\ w \notin Unentered
        BY <1>a, <4>1 DEF Charged, Unentered
      <4>3. waiting1 = waiting + e /\ due1 = due + e /\ IsFiniteSet(Charged')
        BY <1>0, <1>a, <4>1, <4>2, SumOfJoined, FS_AddElement DEF waiting, waiting1, due, due1
      <4>4. answered1 = answered /\ entered1 = entered
        BY <3>2 DEF Paid, AnswersWith, answered, answered1, entered, entered1
      <4> HIDE DEF e
      <4>5. /\ waiting1 = waiting + e - 0 /\ due1 = due + e - 0
            /\ answered1 = answered + 0 /\ entered1 = entered + 0
        BY <1>0, <2>e, <4>3, <4>4
      <4> QED BY <2>1, <2>e, <3>2, <4>3, <4>5
    <3> QED BY <2>3, <3>1, <3>2 DEF RequestRelease
  <2>4. CASE AppendEntry(w)
    <3>1. /\ pc[w] = "history" /\ pc' = [pc EXCEPT ![w] = "verdict"]
          /\ job' = [job EXCEPT ![w] = job[w]] /\ spent' = spent + 0 /\ answers' = answers
          /\ history' = Append(history, e)
      BY <1>b, <2>0, <2>4 DEF AppendEntry, Goto
    <3>2. Charged' = Charged /\ Unentered' = Unentered \ {w} /\ w \in Unentered
      BY <1>a, <3>1 DEF Charged, Unentered
    <3>3. waiting1 = waiting - e /\ due1 = due
      BY <1>0, <1>a, <3>1, <3>2, SumOfLeft, SumOfOthers
         DEF waiting, waiting1, due, due1
    <3>4. e \in Epsilons
      BY <2>0, <3>1 DEF ThreadFits
    <3>5. answered1 = answered /\ entered1 = entered + e
      BY <1>a, <3>1, <3>4, SumOfAppended
         DEF Paid, AnswersWith, answered, answered1, entered, entered1
    <3>6. IsFiniteSet(Charged')
      BY <1>0, <3>2
    <3> HIDE DEF e
    <3>7. waiting1 = waiting + 0 - e /\ due1 = due + 0 - 0 /\ answered1 = answered + 0
      BY <1>0, <2>e, <3>3, <3>5
    <3> QED BY <2>1, <2>e, <3>1, <3>5, <3>6, <3>7
  <2>5. CASE Verdict(w)
    <3> DEFINE locals == [job[w] EXCEPT !.remaining = Remaining(spent)]
    <3>1. /\ pc[w] = "verdict" /\ pc' = [pc EXCEPT ![w] = "aggregate"]
          /\ job' = [job EXCEPT ![w] = locals] /\ spent' = spent + 0 /\ answers' = answers
          /\ history' = history
      BY <1>a, <1>b, <2>5 DEF Verdict, Goto, accountant
    <3>2. locals.epsilon = job[w].epsilon
      BY <1>a DEF JobType
    <3>3. Charged' = Charged /\ Unentered' = Unentered
      BY <1>a, <3>1 DEF Charged, Unentered
    <3> HIDE DEF locals
    <3>4. waiting1 = waiting /\ due1 = due
      BY <1>0, <1>a, <3>1, <3>2, <3>3, SumOfOthers
         DEF waiting, waiting1, due, due1
    <3>5. answered1 = answered /\ entered1 = entered
      BY <3>1 DEF Paid, AnswersWith, answered, answered1, entered, entered1
    <3>6. IsFiniteSet(Charged')
      BY <1>0, <3>3
    <3> HIDE DEF e
    <3>7. /\ waiting1 = waiting + 0 - 0 /\ due1 = due + 0 - 0
          /\ answered1 = answered + 0 /\ entered1 = entered + 0
      BY <1>0, <3>4, <3>5
    <3> QED BY <2>1, <3>1, <3>6, <3>7
  <2>6. CASE SecureAggregate(w)
    <3>1. PICK reason \in {"released", "below_threshold", "division_by_zero"} :
            Reply(w, reason, job[w].remaining)
      BY <2>6 DEF SecureAggregate
    <3> DEFINE answer == [reason |-> reason, epsilon |-> job[w].epsilon,
                          remaining |-> job[w].remaining]
    <3>2. /\ pc[w] = "aggregate" /\ pc' = [pc EXCEPT ![w] = "idle"]
          /\ job' = [job EXCEPT ![w] = NoJob] /\ spent' = spent + 0 /\ history' = history
          /\ answers' = Append(answers, answer)
      BY <1>b, <2>6, <3>1 DEF SecureAggregate, Reply, Goto, accountant
    <3>3. Charged' = Charged \ {w} /\ w \in Charged /\ Unentered' = Unentered /\ w \notin Unentered
      BY <1>a, <3>2 DEF Charged, Unentered
    <3>4. waiting1 = waiting /\ due1 = due - e /\ IsFiniteSet(Charged')
      BY <1>0, <1>a, <3>2, <3>3, SumOfLeft, SumOfOthers, FS_RemoveElement
         DEF waiting, waiting1, due, due1
    <3>5. answer \in Answer /\ answer.reason \in ChargedReason /\ answer.epsilon = e
      <4>1. job[w] \in JobType
        BY <1>a
      <4> QED BY <2>0, <3>2, <4>1 DEF Answer, Reason, JobType, ThreadFits, ChargedReason
    <3> HIDE DEF answer
    <3>6. answered1 = answered + e /\ entered1 = entered
      BY <1>a, <3>2, <3>5, SumOfAnswered DEF answered, answered1, entered, entered1
    <3> HIDE DEF e
    <3>7. waiting1 = waiting + 0 - 0 /\ due1 = due + 0 - e /\ entered1 = entered + 0
      BY <1>0, <2>e, <3>4, <3>6
    <3> QED BY <2>1, <2>e, <3>2, <3>4, <3>6, <3>7
  <2> QED BY <1>5, <2>2, <2>3, <2>4, <2>5, <2>6 DEF Continue
<1> QED BY <1>1, <1>2, <1>4, <1>5 DEF Next, vars, Wait, TurnAway

LEMMA BooksInvariant == Spec => []BooksInv
<1> QED BY BooksInit, BooksStep, AccountInvariant, PTL DEF Spec

\* What was spent is what the history lists and what is about to be entered
\* there, and what was charged for the answers given and the requests under
\* way, whatever threads overlap (request_release).
THEOREM BooksAlwaysBalance == Spec => []BooksBalance
<1>1. BooksInv => BooksBalance
  BY DEF BooksInv
<1> QED BY <1>1, BooksInvariant, PTL

\* The releases of one run of the process, with those paid for and not given
\* yet, stay within its budget (PrivacyAccountant.request_release).
THEOREM ReleasesStayWithinBudget == Spec => []ReleasesWithinBudget
<1>1. BooksInv => ReleasesWithinBudget
  <2> SUFFICES ASSUME BooksInv PROVE ReleasesWithinBudget
    OBVIOUS
  <2> DEFINE released == SumFunctionOnSet(Paid, AnswersWith({"released"}))
             answered == SumFunctionOnSet(Paid, AnswersWith(ChargedReason))
             due == SumFunctionOnSet(Cost, Charged)
  <2>1. answers \in Seq(Answer) /\ spent \in 0 .. TotalEpsilon
    BY DEF BooksInv, AccountInv, BooksType
  <2>2. AnswersWith({"released"}) \in SUBSET AnswersWith(ChargedReason)
    BY DEF AnswersWith, ChargedReason
  <2>3. released =< answered /\ released \in Nat /\ answered \in Nat /\ due \in Nat
    BY <2>1, <2>2, AnswersPaidNats, SumsAreNats, SumGrows
  <2>4. spent = answered + due
    BY DEF BooksInv, BooksBalance
  <2>5. ReleasesWithinBudget <=> released + due =< TotalEpsilon
    BY DEF ReleasesWithinBudget
  <2> HIDE DEF released, answered, due
  <2> QED BY <2>1, <2>3, <2>4, <2>5, EpsilonsAreNats
<1> QED BY <1>1, BooksInvariant, PTL

=============================================================================
