----------------------------- MODULE SecretSharing -----------------------------
(***************************************************************************)
(* What leaves a recipient that takes part in a measurement: its clipped   *)
(* counts, the envelope of Shamir shares of them, and the attestation of   *)
(* the clipping circuit.  A digest is what it was made of.                 *)
(***************************************************************************)
EXTENDS Recipient

CONSTANT Prime  \* the field's size; 2^127 - 1 in the code

\* Of a prime that is more than the shares, what sharing by two asks.
ASSUME PrimeAssumption == Prime \in Nat /\ Prime > 3 /\ Prime % 2 = 1

Smaller(a, b) == IF a < b THEN a ELSE b

clip_contribution(failures, trials, c_f, c_n) == <<Smaller(failures, c_f), Smaller(trials, c_n)>>

\* The shares of a value at x = 1 .. num_shares.  Every caller's threshold
\* is two, so one more coefficient is drawn, and the polynomial is a line.
shamir_share(value, coefficient, num_shares) ==
  {<<x, (value + coefficient * x) % Prime>> : x \in 1 .. num_shares}

\* A bug: the difference is taken the other way round.
shamir_recover_Flipped(shares) ==
  LET inverse(d) == CHOOSE z \in 1 .. Prime - 1 : (z * d) % Prime = 1
      others(s) == {t[1] : t \in shares \ {s}}
      num(s) == ProductSet({(Prime - x) % Prime : x \in others(s)})
      den(s) == ProductSet({(Prime + x - s[1]) % Prime : x \in others(s)})
  IN MapThenSumSet(LAMBDA s : s[2] * num(s) * inverse(den(s)), shares) % Prime

\* Lagrange interpolation at zero.
shamir_recover(shares) ==
  LET inverse(d) == CHOOSE z \in 1 .. Prime - 1 : (z * d) % Prime = 1
      others(s) == {t[1] : t \in shares \ {s}}
      num(s) == ProductSet({(Prime - x) % Prime : x \in others(s)})
      den(s) == ProductSet({(Prime + s[1] - x) % Prime : x \in others(s)})
  IN MapThenSumSet(LAMBDA s : s[2] * num(s) * inverse(den(s)), shares) % Prime

Threshold == 2
Shares == 3

\* f and t: the coefficients drawn for the failures and the trials.
build_share_envelope(failures, trials, clip_f, clip_n, f, t) ==
  LET clipped == clip_contribution(failures, trials, clip_f, clip_n)
  IN [shares_f |-> shamir_share(clipped[1], f, Shares),
      shares_n |-> shamir_share(clipped[2], t, Shares)]

deterministic_circuit(inputs) ==
  [failures |-> Smaller(inputs.failures, inputs.clip_f), trials |-> Smaller(inputs.trials, inputs.clip_n)]

prove_circuit_execution(inputs) ==
  LET outputs == deterministic_circuit(inputs)
  IN [input_digest |-> inputs, output_digest |-> outputs, proof |-> <<inputs, outputs>>]

verify_circuit_attestation(attestation) ==
  attestation.proof = <<attestation.input_digest, attestation.output_digest>>

\* The sums are clipped, and not the contributions they are made of.
build_aggregate_attestation(contributions, clip_f, clip_n) ==
  prove_circuit_execution(
    [failures |-> MapThenSumSet(LAMBDA k : contributions[k].failures, DOMAIN contributions),
     trials |-> MapThenSumSet(LAMBDA k : contributions[k].trials, DOMAIN contributions),
     clip_f |-> clip_f, clip_n |-> clip_n])

-----------------------------------------------------------------------------
(* The cohort's manifest, and a tenant's part in the measurement.          *)

CohortManifest(invariant_id, minimum_k) ==
  [invariant_id |-> invariant_id, frozen |-> FALSE, clipping_f |-> 10, clipping_n |-> 100,
   minimum_cohort_k |-> minimum_k]

\* A failing agent runs each positive case once.
Contribution(compilation, manifest) ==
  LET clipped == clip_contribution(Failures(compilation, FailingAgent), compilation.positives,
                                   manifest.clipping_f, manifest.clipping_n)
  IN IF compilation.abstained THEN compilation
     ELSE [abstained |-> FALSE, failures |-> clipped[1], trials |-> clipped[2]]

\* The roles are mapped to entities named after them.
recipient_evaluate_and_contribute(package, domain, manifest, roles) ==
  LET context == RecipientContext(domain, [r \in roles |-> OntologyMapping(<<"local", r>>, "approved")])
  IN Contribution(fail_closed_compile(package, context, manifest), manifest)

\* What secure_aggregate releases; the prevalence is noise and not read.
secure_aggregate(contributions, minimum_k) ==
  IF Len(contributions) < minimum_k THEN {}
  ELSE {[total_failures |-> MapThenSumSet(LAMBDA k : contributions[k].failures, DOMAIN contributions),
         cohort_size |-> Len(contributions)]}
=============================================================================
