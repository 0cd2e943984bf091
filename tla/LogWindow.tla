------------------------------- MODULE LogWindow -------------------------------
(***************************************************************************)
(* What a ring log promises: the last Capacity bytes that were logged, in  *)
(* order, records never mixed with each other.                             *)
(***************************************************************************)
EXTENDS Integers, Sequences

CONSTANTS Capacity, Records

VARIABLES
  window,  \* the bytes kept, the oldest first
  open     \* what is still to come of the record being written

LogInit == window = <<>> /\ open = <<>>

Open(r) == open = <<>> /\ open' = r /\ UNCHANGED window

\* The newest byte pushes the oldest one out.
Put ==
  /\ open # <<>>
  /\ open' = Tail(open)
  /\ window' = Append(IF Len(window) < Capacity THEN window ELSE Tail(window), Head(open))

LogNext == Put \/ \E r \in Records : Open(r)

LogSpec == LogInit /\ [][LogNext]_<<window, open>>
=============================================================================
