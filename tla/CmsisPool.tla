-------------------------------- MODULE CmsisPool --------------------------------
(***************************************************************************)
(* The memory pool of CMSIS-RTOS2 on FreeRTOS (cmsis_os2.c): a counting    *)
(* semaphore and a list of free blocks, which an operation changes one     *)
(* after the other.  Its users, as in this firmware, allocate from threads *)
(* without waiting, hand blocks to each other and free each once; the      *)
(* order of the list does not matter to them.                              *)
(***************************************************************************)
EXTENDS Integers, FiniteSets

CONSTANTS
  Threads,
  N          \* bl_cnt

ASSUME PoolAssumption == N \in Nat \ {0} /\ IsFiniteSet(Threads)

VARIABLES
  sem,   \* count of the semaphore
  free,  \* blocks on the list of head
  n,     \* blocks created: those below n
  used,  \* blocks that callers have
  pc,    \* of each thread: "idle", "taken", "checked", "listed"
  block  \* the block a thread frees

vars == <<sem, free, n, used, pc, block>>

Blocks == 0 .. N - 1

Where(f, place) == {t \in Threads : f[t] = place}
At(place) == Where(pc, place)

TypeOK ==
  /\ sem \in 0 .. N
  /\ free \subseteq Blocks
  /\ n \in 0 .. N
  /\ used \subseteq Blocks
  /\ pc \in [Threads -> {"idle", "taken", "checked", "listed"}]
  /\ block \in [Threads -> Blocks]

Init ==
  /\ sem = N /\ free = {} /\ n = 0 /\ used = {}
  /\ pc = [t \in Threads |-> "idle"] /\ block = [t \in Threads |-> 0]

-----------------------------------------------------------------------------
(* osMemoryPoolAlloc, timeout 0 *)

\* Fault: the semaphore is looked at only.
CountedNot == sem
Counted == sem - 1

\* xSemaphoreTake
Take(t) ==
  /\ pc[t] = "idle" /\ sem > 0
  /\ sem' = Counted /\ pc' = [pc EXCEPT ![t] = "taken"]
  /\ UNCHANGED <<free, n, used, block>>

\* Fault: the head stays on the list.
RestAll(b) == free
Rest(b) == free \ {b}

\* The head of the list, else a new block.
Obtainable == IF free # {} THEN free ELSE IF n < N THEN {n} ELSE {}

\* AllocBlock, CreateBlock; without a block the caller gets NULL and the unit is lost.
Obtain(t) ==
  /\ pc[t] = "taken"
  /\ IF Obtainable = {}
       THEN UNCHANGED <<free, n, used>>
       ELSE \E b \in Obtainable :
              /\ free' = Rest(b) /\ used' = used \cup {b}
              /\ n' = IF free = {} THEN n + 1 ELSE n
  /\ pc' = [pc EXCEPT ![t] = "idle"]
  /\ UNCHANGED <<sem, block>>

-----------------------------------------------------------------------------
(* osMemoryPoolFree *)

\* The callers: the block is in use, and no other thread frees it.
Frees(t, b) == b \in used /\ \A u \in At("checked") : block[u] # b

\* uxSemaphoreGetCount
Check(t, b) ==
  /\ pc[t] = "idle" /\ Frees(t, b)
  /\ pc' = [pc EXCEPT ![t] = IF sem = N THEN "idle" ELSE "checked"]
  /\ block' = [block EXCEPT ![t] = b]
  /\ UNCHANGED <<sem, free, n, used>>

\* Fault: the head is not set.
ListedNot(b) == free
Listed(b) == free \cup {b}

\* FreeBlock
List(t) ==
  /\ pc[t] = "checked"
  /\ free' = Listed(block[t]) /\ used' = used \ {block[t]}
  /\ pc' = [pc EXCEPT ![t] = "listed"]
  /\ UNCHANGED <<sem, n, block>>

\* Fault: one unit too many is given back.
GivenTwice == sem + 2
Given == sem + 1

\* xSemaphoreGive
Give(t) ==
  /\ pc[t] = "listed"
  /\ sem' = Given /\ pc' = [pc EXCEPT ![t] = "idle"]
  /\ UNCHANGED <<free, n, used, block>>

Next ==
  \E t \in Threads :
    \/ Take(t) \/ Obtain(t) \/ List(t) \/ Give(t)
    \/ \E b \in Blocks : Check(t, b)

Spec == Init /\ [][Next]_vars

-----------------------------------------------------------------------------
(* Properties *)

\* A block is on the list or in use or not yet created, and only one of these.
Exclusive ==
  /\ free \cap used = {}
  /\ free \cup used = 0 .. n - 1

\* The count is what is neither in use nor between the two steps of an operation.
SemExact ==
  sem = N - Cardinality(used) - Cardinality(At("taken")) - Cardinality(At("listed"))

\* The unit taken from the semaphore stands for a block: the caller gets one.
BlockForUnit == At("taken") # {} => Obtainable # {}

\* A block that is in use is taken back: the count is not at its limit.
FreeAccepted == used # {} => sem < N

\* The pool as its callers see it: no block is lost or handed out twice, a unit stands for
\* a block, and a block that is given back is taken.
PoolSafe == TypeOK /\ Exclusive /\ SemExact /\ BlockForUnit /\ FreeAccepted
=============================================================================
