------------------------------ MODULE Mailboxes ------------------------------
(***************************************************************************)
(* What the MQTT client promises an application task: a bounded FIFO of    *)
(* message values.  A message, once delivered, reaches the task unchanged, *)
(* once, in order, and stays readable until the task gives it back.  How   *)
(* messages are stored (a pool of blocks shared by all tasks, pointers in  *)
(* OS queues) is not visible here.                                         *)
(***************************************************************************)
EXTENDS Naturals, Sequences

CONSTANTS Tasks, Messages, Cap, NoMsg

VARIABLES
  inbox,     \* the messages waiting for each task
  reading    \* the message each task has taken and not released, or NoMsg

mailboxVars == <<inbox, reading>>

Init ==
  /\ inbox = [t \in Tasks |-> <<>>]
  /\ reading = [t \in Tasks |-> NoMsg]

Deliver(t, m) ==
  /\ Len(inbox[t]) < Cap
  /\ inbox' = [inbox EXCEPT ![t] = Append(inbox[t], m)]
  /\ UNCHANGED reading

Take(t) ==
  /\ reading[t] = NoMsg /\ inbox[t] # <<>>
  /\ reading' = [reading EXCEPT ![t] = Head(inbox[t])]
  /\ inbox' = [inbox EXCEPT ![t] = Tail(inbox[t])]

Release(t) ==
  /\ reading[t] # NoMsg
  /\ reading' = [reading EXCEPT ![t] = NoMsg]
  /\ UNCHANGED inbox

Next ==
  \E t \in Tasks : Take(t) \/ Release(t) \/ \E m \in Messages : Deliver(t, m)

Spec == Init /\ [][Next]_mailboxVars

=============================================================================
