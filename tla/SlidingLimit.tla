----------------------------- MODULE SlidingLimit -----------------------------
(***************************************************************************)
(* What a limit of MaxPerWindow requests in Window seconds promises each   *)
(* client, told from its admissions alone: a request is answered by the    *)
(* service exactly when admitting it makes no more than MaxPerWindow       *)
(* admissions in any Window seconds.                                       *)
(***************************************************************************)
EXTENDS Sequences, Integers

CONSTANTS Clients, MaxPerWindow, Window

VARIABLES now, admitted, reply

Init ==
  /\ now = 0
  /\ admitted = [c \in Clients |-> <<>>]
  /\ reply = [c \in Clients |-> "none"]

\* The MaxPerWindow-th last admission is no older than the window.
Full(c) ==
  LET oldest == Len(admitted[c]) - MaxPerWindow + 1
  IN oldest >= 1 /\ now - admitted[c][oldest] =< Window

Admit(c) ==
  /\ ~ Full(c)
  /\ admitted' = [admitted EXCEPT ![c] = Append(@, now)]
  /\ reply' = [reply EXCEPT ![c] = "admitted"]
  /\ UNCHANGED now

Refuse(c) ==
  /\ Full(c)
  /\ reply' = [reply EXCEPT ![c] = "rate_limit_exceeded"]
  /\ UNCHANGED <<now, admitted>>

Tick == now' = now + 1 /\ UNCHANGED <<admitted, reply>>

\* The service starts again and remembers nobody.
Restart ==
  /\ admitted' = [c \in Clients |-> <<>>]
  /\ reply' = [c \in Clients |-> "none"]
  /\ UNCHANGED now

Next == Tick \/ Restart \/ \E c \in Clients : Admit(c) \/ Refuse(c)

Spec == Init /\ [][Next]_<<now, admitted, reply>>
=============================================================================
