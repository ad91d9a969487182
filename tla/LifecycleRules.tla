--------------------------- MODULE LifecycleRules ---------------------------
(***************************************************************************)
(* The governance rules of one published invariant: the lifecycle graph,   *)
(* the artifact record and what LifecycleManager does to a record.  There  *)
(* is no state here; the stores and the abstract specifications of what a  *)
(* store promises are built from these operators.                          *)
(***************************************************************************)
EXTENDS Sequences, Integers

CONSTANTS Ids      \* the invariant ids of the packages that may be registered

LifecycleState == {"draft", "reviewed", "restricted", "active",
                   "superseded", "revoked", "retired"}

\* A record literal is a function of the state's name, like the dict in the code.
VALID_TRANSITIONS ==
  [draft      |-> {"reviewed", "retired"},
   reviewed   |-> {"restricted", "active", "draft"},
   restricted |-> {"active", "revoked"},
   active     |-> {"superseded", "revoked"},
   superseded |-> {"active", "retired"},
   revoked    |-> {"retired"},
   retired    |-> {}]

LifecycleEvent == [from_state : LifecycleState, to_state : LifecycleState]

\* Version and measurement_spec_pins never change after construction; an
\* event's actor, reason and timestamp are not told apart.
ArtifactRecord == [state              : LifecycleState,
                   history            : Seq(LifecycleEvent),
                   supersession_chain : Seq(Ids)]

\* "No row": what session.get returns before the artifact row is inserted.
NoRecord == [state |-> "none", history |-> <<>>, supersession_chain |-> <<>>]

\* The record register() builds: already past draft.
NewRecord == [state |-> "reviewed", history |-> <<>>, supersession_chain |-> <<>>]

\* The check at the head of LifecycleManager.transition; a failed check raises.
Allowed(record, to_state) == to_state \in VALID_TRANSITIONS[record.state]

\* A plausible bug of transition: the state moves and no event is appended.
Transition_NoEvent(record, to_state) == [record EXCEPT !.state = to_state]

Transition(record, to_state) ==
  [record EXCEPT
     !.history = Append(@, [from_state |-> record.state, to_state |-> to_state]),
     !.state   = to_state]

Supersede(record, new_id) ==
  Transition([record EXCEPT !.supersession_chain = Append(@, new_id)], "superseded")

-----------------------------------------------------------------------------
(***************************************************************************)
(* A record explains itself: its history is an unbroken walk of the graph  *)
(* from the state of registration to the state it holds.                   *)
(***************************************************************************)
StateBefore(record, k) ==
  IF k = 1 THEN NewRecord.state ELSE record.history[k - 1].to_state

IsWalk(record) ==
  /\ \A k \in 1 .. Len(record.history) :
       /\ record.history[k].from_state = StateBefore(record, k)
       /\ record.history[k].to_state \in VALID_TRANSITIONS[record.history[k].from_state]
  /\ record.state = StateBefore(record, Len(record.history) + 1)
=============================================================================
