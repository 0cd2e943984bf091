------------------------------- MODULE Loopback -------------------------------
(***************************************************************************)
(* What a TCP loopback promises the server: the bytes of the stream come   *)
(* back in order, without gaps and none twice.  Only the end of a session  *)
(* cuts the stream: what has not been sent back by then may be given up,   *)
(* from some byte on.                                                      *)
(***************************************************************************)
EXTENDS Integers, Sequences

CONSTANT Numbers  \* bytes are numbered 0 .. Numbers - 1, cyclically

VARIABLES
  input,    \* number of the next byte of the stream to be read
  backlog,  \* numbers of the bytes that were read and will be sent back
  echoed,   \* number of the last byte sent back, -1 before the first one
  closing   \* no session, or one that is over: nothing is read

Stream(first, k) == [i \in 1 .. k |-> (first + i - 1) % Numbers]

Init == input = 0 /\ backlog = <<>> /\ echoed = -1 /\ closing = TRUE

\* k bytes are read and lie behind the backlog.
Read(k) ==
  /\ ~closing
  /\ backlog' = backlog \o Stream(input, k)
  /\ input' = (input + k) % Numbers
  /\ UNCHANGED <<echoed, closing>>

\* The first k bytes are sent back.
Echo(k) ==
  /\ k <= Len(backlog)
  /\ echoed' = backlog[k]
  /\ backlog' = SubSeq(backlog, k + 1, Len(backlog))
  /\ UNCHANGED <<input, closing>>

\* What lies behind the first k bytes is never sent back.
Abandon(k) ==
  /\ k <= Len(backlog)
  /\ backlog' = SubSeq(backlog, 1, k)
  /\ closing' = TRUE
  /\ UNCHANGED <<input, echoed>>

\* A new session with a new connection.
Restart == closing /\ input' = 0 /\ backlog' = <<>> /\ echoed' = -1 /\ closing' = FALSE

Next ==
  \/ \E k \in 1 .. Numbers : Read(k) \/ Echo(k)
  \/ \E k \in 0 .. Numbers : Abandon(k)
  \/ Restart

Spec == Init /\ [][Next]_<<input, backlog, echoed, closing>>
=============================================================================
