--------------------------- MODULE RegistryVersions ---------------------------
(***************************************************************************)
(* RegistryStore with a history variable: every record each artifact row   *)
(* has held.  It shows that overlapping requests implement                 *)
(* LifecycleVersions, and its invariant is what the proof of that needs.   *)
(* Requests that do not overlap implement LifecycleSerial.                 *)
(***************************************************************************)
EXTENDS RegistryStore

VARIABLE versions

InitV == Init /\ versions = [i \in Ids |-> {}]

\* The history variable only watches the row.
Watch == versions' = [i \in Ids |-> IF lifecycle'[i] = NoRecord THEN versions[i]
                                    ELSE versions[i] \cup {lifecycle'[i]}]

NextV == Next /\ Watch

varsV == <<vars, versions>>

SpecV == InitV /\ [][NextV]_varsV

Versions == INSTANCE LifecycleVersions WITH current <- lifecycle

\* Overlapping requests may lose moves of an artifact but invent none: every
\* record a row holds is one legal move from a record it held before.
ImplementsVersions == Versions!Spec

Serial == INSTANCE LifecycleSerial WITH artifacts <- lifecycle

\* With one request at a time, a crash between any two of its transactions
\* included, every write of an artifact row is a whole legal move of it.
ImplementsSerial == Serial!Spec

\* The row is the last of its versions, and the copy a thread is about to
\* write is one legal move away from a version of the same artifact.
CopiesAreMoves ==
  /\ \A i \in Ids : (lifecycle[i] = NoRecord) <=> (versions[i] = {})
  /\ \A i \in Ids : lifecycle[i] # NoRecord => lifecycle[i] \in versions[i]
  /\ \A w \in Workers :
       pc[w] = "save" =>
         \E old \in versions[job[w].id] : Versions!IsMove(old, job[w].copy)
  /\ \A w \in Workers :
       pc[w] = "register.record" => lifecycle[job[w].id] = NoRecord
=============================================================================
