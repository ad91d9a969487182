-------------------------- MODULE LifecycleVersions --------------------------
(***************************************************************************)
(* What the registry still promises when requests overlap.  An artifact    *)
(* has every version it was ever stored as, and a write makes current one  *)
(* legal move away from SOME earlier version, not always the current one:  *)
(* moves may be lost, but no version appears that is not a move from one   *)
(* that was really there.                                                  *)
(***************************************************************************)
EXTENDS LifecycleRules

VARIABLES current,    \* the row of each artifact
          versions    \* every record each row has held

Init ==
  /\ current = [i \in Ids |-> NoRecord]
  /\ versions = [i \in Ids |-> {}]

Write(i, record) ==
  /\ current' = [current EXCEPT ![i] = record]
  /\ versions' = [versions EXCEPT ![i] = @ \cup {record}]

Publish(i) == versions[i] = {} /\ Write(i, NewRecord)

\* `new` is one move of LifecycleManager away from `old`.
IsMove(old, new) ==
  \/ \E to_state \in VALID_TRANSITIONS[old.state] : new = Transition(old, to_state)
  \/ /\ Allowed(old, "superseded")
     /\ \E successor \in Ids : new = Supersede(old, successor)

Moved(i, record) ==
  /\ \E old \in versions[i] : IsMove(old, record)
  /\ Write(i, record)

\* The record is given by its origin, so that the next states can be listed.
Move(i) ==
  \E old \in versions[i] :
    \/ \E to_state \in VALID_TRANSITIONS[old.state] : Moved(i, Transition(old, to_state))
    \/ \E successor \in Ids : Moved(i, Supersede(old, successor))

Next == \E i \in Ids : Publish(i) \/ Move(i)

Spec == Init /\ [][Next]_<<current, versions>>
=============================================================================
