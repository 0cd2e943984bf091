---------------------------------- MODULE Lwl ----------------------------------
(***************************************************************************)
(* The lightweight log of code/Middlewares/lwl/lwl.c: a ring of bytes in   *)
(* which tasks write records inside a critical section, and its dump       *)
(* through MQTT to the scripts mqtt/sub.py and scripts/lwl_decoder.py.     *)
(*                                                                         *)
(* A record is its bytes: the ids (one byte here, which also tells the     *)
(* length) and the arguments.  A byte of the ring that was never written   *)
(* is 0, and so may be an argument.                                        *)
(***************************************************************************)
EXTENDS Integers, Sequences, FiniteSets

CONSTANTS
  N,        \* LWL_BUFFER_SIZE
  Records,  \* records the tasks may write, sequences of bytes
  Tasks,    \* tasks that write records
  Dumper,   \* the task that also dumps: the default task
  Chunk,    \* largest payload of a publication
  NoTask    \* no task is in the critical section

\* The ids of a record are not zero, no argument looks like an id (the decoder
\* has to guess otherwise), and the ids give the length.
Ids == {r[1] : r \in Records}
SizeAssumption ==
  /\ N \in Nat \ {0} /\ Chunk \in Nat \ {0}
  /\ Dumper \in Tasks /\ NoTask \notin Tasks
RecordAssumption ==
  \A r \in Records :
    /\ r \in Seq(Nat) /\ Len(r) \in 1 .. N /\ r[1] # 0
    /\ \A i \in 2 .. Len(r) : r[i] \notin Ids
    /\ \A s \in Records : r[1] = s[1] => Len(r) = Len(s)

VARIABLES
  buffer, next,   \* lwl_data.buffer and next_entry_index
  filled,         \* history: how many bytes of the ring were written
  owner, rest,    \* the task in the critical section, what it has to write
  dumpPc,         \* place in dump_log_mqtt
  index,          \* metadata: next_entry_index of the snapshot
  remaining,      \* remaining_data
  payload,        \* bytes of the current chunk copied to lwIP so far
  host,           \* what sub.py saved: index and the bytes of dump.bin
  begun,          \* history: the window when the dump began
  quiet,          \* history: nothing was logged since the dump began
  refused         \* history: was a publication of this dump refused?

ringVars == <<buffer, next, filled>>
critVars == <<owner, rest>>
dumpVars == <<dumpPc, index, remaining, payload>>
hostVars == <<host, begun, quiet, refused>>
vars == <<ringVars, critVars, dumpVars, hostVars>>

Bytes == {0} \cup UNION {{r[i] : i \in 1 .. Len(r)} : r \in Records}

TypeOK ==
  /\ buffer \in [0 .. N - 1 -> Bytes]
  /\ next \in 0 .. N - 1 /\ filled \in 0 .. N
  /\ owner \in Tasks \cup {NoTask} /\ rest \in Seq(Bytes)
  /\ dumpPc \in {"idle", "meta", "chunk", "copy", "done"}
  /\ index \in 0 .. N - 1 /\ remaining \in 0 .. N
  /\ payload \in Seq(Bytes) /\ Len(payload) <= Chunk
  /\ host \in [index : 0 .. N - 1, bytes : Seq(Bytes)]
  /\ begun \in Seq(Bytes) /\ quiet \in BOOLEAN /\ refused \in BOOLEAN

\* After lwl_init.
Init ==
  /\ buffer = [i \in 0 .. N - 1 |-> 0] /\ next = 0 /\ filled = 0
  /\ owner = NoTask /\ rest = <<>>
  /\ dumpPc = "idle" /\ index = 0 /\ remaining = 0 /\ payload = <<>>
  /\ host = [index |-> 0, bytes |-> <<>>] /\ begun = <<>>
  /\ quiet = FALSE /\ refused = FALSE

-----------------------------------------------------------------------------
(* lwl_enter_record *)

\* x & (LWL_BUFFER_SIZE - 1), for x up to the size.
Wrap(i) == IF i >= N THEN i - N ELSE i

\* Fault: records are written outside the critical section.
UnmaskedAlways == TRUE
\* A critical section masks the tick and the interrupts: no other task runs.
Unmasked == owner = NoTask

\* taskENTER_CRITICAL.  The dumper logs only when it is not dumping.
BeginRecord(t, r) ==
  /\ Unmasked /\ (t = Dumper => dumpPc = "idle")
  /\ owner' = t /\ rest' = r
  /\ UNCHANGED <<ringVars, dumpVars, hostVars>>

\* One byte of the module id, the functionality id or an argument.
WriteByte ==
  /\ owner # NoTask /\ rest # <<>>
  /\ buffer' = [buffer EXCEPT ![next] = Head(rest)]
  /\ next' = Wrap(next + 1)
  /\ filled' = IF filled < N THEN filled + 1 ELSE N
  /\ rest' = Tail(rest)
  /\ quiet' = FALSE
  /\ UNCHANGED <<owner, dumpVars, host, begun, refused>>

\* taskEXIT_CRITICAL
EndRecord ==
  /\ owner # NoTask /\ rest = <<>>
  /\ owner' = NoTask
  /\ UNCHANGED <<ringVars, rest, dumpVars, hostVars>>

-----------------------------------------------------------------------------
(* dump_log_mqtt *)

\* The bytes of the log, the oldest first.
Window == [i \in 1 .. filled |-> buffer[Wrap(next - filled + i - 1 + N)]]

\* The critical section at the head of the dump.  It copies the ring to a buffer
\* that is not used afterwards.
DumpBegin ==
  /\ dumpPc = "idle" /\ Unmasked
  /\ index' = next
  /\ begun' = Window /\ quiet' = TRUE /\ refused' = FALSE
  /\ dumpPc' = "meta"
  /\ UNCHANGED <<ringVars, critVars, remaining, payload, host>>

\* The metadata are published; the script starts a new file.  If the publication is
\* refused nobody notices.
PublishMeta ==
  /\ dumpPc = "meta" /\ Unmasked
  /\ \/ host' = [index |-> index, bytes |-> <<>>] /\ UNCHANGED refused
     \/ refused' = TRUE /\ UNCHANGED host
  /\ remaining' = N /\ dumpPc' = "chunk"
  /\ UNCHANGED <<ringVars, critVars, index, payload, begun, quiet>>

CurrentSize == IF remaining > Chunk THEN Chunk ELSE remaining

AfterChunk ==
  /\ remaining' = remaining - CurrentSize
  /\ dumpPc' = IF remaining = CurrentSize THEN "done" ELSE "chunk"
  /\ payload' = <<>>

\* After a delay of a tick the next chunk is published or refused.  The check for
\* room comes before the copy, so that a refused chunk leaves nothing behind.
PublishChunk ==
  /\ dumpPc = "chunk" /\ Unmasked
  /\ \/ dumpPc' = "copy" /\ UNCHANGED <<remaining, payload, refused>>
     \/ refused' = TRUE /\ AfterChunk
  /\ UNCHANGED <<ringVars, critVars, index, host, begun, quiet>>

\* Where the chunk begins in the live ring.
Source == N - remaining

\* mqtt_publish copies the payload byte by byte from the live ring.
CopyByte ==
  /\ dumpPc = "copy" /\ Unmasked
  /\ LET copied == Append(payload, buffer[Source + Len(payload)]) IN
       IF Len(copied) < CurrentSize
         THEN payload' = copied /\ UNCHANGED <<remaining, dumpPc, host>>
         ELSE AfterChunk /\ host' = [host EXCEPT !.bytes = @ \o copied]
  /\ UNCHANGED <<ringVars, critVars, index, begun, quiet, refused>>

\* The dump returns; the decoder has read the file.
DumpEnd ==
  /\ dumpPc = "done" /\ Unmasked
  /\ dumpPc' = "idle" /\ index' = 0
  /\ host' = [index |-> 0, bytes |-> <<>>]
  /\ begun' = <<>> /\ quiet' = FALSE /\ refused' = FALSE
  /\ UNCHANGED <<ringVars, critVars, remaining, payload>>

Next ==
  \/ \E t \in Tasks, r \in Records : BeginRecord(t, r)
  \/ WriteByte \/ EndRecord
  \/ DumpBegin \/ PublishMeta \/ PublishChunk \/ CopyByte \/ DumpEnd

Spec == Init /\ [][Next]_vars

-----------------------------------------------------------------------------
(* lwl_decoder.py *)

\* Fault: the bytes are not rotated.
UnwrappedNever(bytes, i) == bytes
\* load_and_unwrap_buffer: when all bytes behind the index are zero the ring is
\* taken for one that never wrapped.
Unwrapped(bytes, i) ==
  LET tail == SubSeq(bytes, i + 1, Len(bytes)) IN
  IF \A k \in 1 .. Len(tail) : tail[k] = 0 THEN bytes
  ELSE tail \o SubSeq(bytes, 1, i)

SizeOf(id) == Len(CHOOSE r \in Records : r[1] = id)

\* choose_decode_point, decode_buffer: from the first id on, record by record, to
\* the first byte that is no id or the end of the bytes.
Decoded(bytes) ==
  LET starts == {k \in 1 .. Len(bytes) : bytes[k] \in Ids}
      first == CHOOSE k \in starts : \A j \in starts : k <= j
      records[k \in 1 .. Len(bytes) + 1] ==
        IF k > Len(bytes) \/ bytes[k] \notin Ids
             \/ k + SizeOf(bytes[k]) - 1 > Len(bytes)
          THEN <<>>
          ELSE <<SubSeq(bytes, k, k + SizeOf(bytes[k]) - 1)>>
                 \o records[k + SizeOf(bytes[k])]
  IN IF starts = {} THEN <<>> ELSE records[first]

-----------------------------------------------------------------------------
(* Properties *)

\* The ring with its index is a log of the last N bytes: writing over the end of
\* the array neither loses, repeats nor displaces one, and the records of the
\* tasks are not mixed.
LogOf == INSTANCE LogWindow WITH window <- Window, open <- rest, Capacity <- N
ImplementsLog == LogOf!LogSpec

\* If nothing was logged during the dump and nothing refused, the decoder finds
\* exactly the records that are whole in the log, in order, wherever the ring was
\* cut and whatever zeros its arguments hold.
DumpDecodes ==
  dumpPc = "done" /\ ~refused /\ quiet
    => Decoded(Unwrapped(host.bytes, host.index)) = Decoded(Window)

-----------------------------------------------------------------------------
(* What a comment says, and TLC refutes ("Disagreements met"):                *)

\* What is published is the snapshot taken when the dump began.
SnapshotSent ==
  dumpPc = "done" /\ ~refused
    => Decoded(Unwrapped(host.bytes, host.index)) = Decoded(begun)
=============================================================================
