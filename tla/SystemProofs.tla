------------------------------ MODULE SystemProofs ------------------------------
(***************************************************************************)
(* Proofs about what the tasks stand on.  The memory pool, for every       *)
(* number of threads and blocks: no block is handed out twice, the count   *)
(* of the semaphore is exact, and whoever takes a unit of it finds a       *)
(* block.  The start, for any tasks: the order in which things come up.    *)
(* The log, for every size of its ring: it is a log of its last bytes, and *)
(* a dump that was left alone is decoded to its records.                   *)
(***************************************************************************)
EXTENDS MCSystem, NumberInduction, FiniteSetTheorems, SequenceTheorems, TLAPS

-----------------------------------------------------------------------------
(* The memory pool *)

\* Two threads never free the same block, nor one that is not in use.
FreesDistinct ==
  \A t \in At("checked") :
    block[t] \in used /\ \A u \in At("checked") \ {t} : block[u] # block[t]

PoolInv == TypeOK /\ Exclusive /\ SemExact /\ FreesDistinct

\* What is counted is finite.
LEMMA Counts ==
  ASSUME TypeOK
  PROVE  IsFiniteSet(used) /\ Cardinality(used) \in Nat /\ Cardinality(used) <= N
<1> USE PoolAssumption DEF PoolAssumption
<1>1. IsFiniteSet(Blocks) /\ Cardinality(Blocks) = N
  BY FS_Interval DEF Blocks
<1>2. IsFiniteSet(used) /\ Cardinality(used) <= N
  BY <1>1, FS_Subset DEF TypeOK
<1>3. QED
  BY <1>2, FS_CardinalityType

LEMMA WhereFinite ==
  ASSUME NEW f, NEW place
  PROVE  IsFiniteSet(Where(f, place)) /\ Cardinality(Where(f, place)) \in Nat
<1>1. Where(f, place) \in SUBSET Threads
  BY DEF Where
<1>2. IsFiniteSet(Where(f, place))
  BY <1>1, FS_Subset, PoolAssumption DEF PoolAssumption
<1>3. QED
  BY <1>2, FS_CardinalityType

\* A thread goes to a place where it was not, and leaves the one where it was.
LEMMA Moves ==
  ASSUME TypeOK, NEW t \in Threads, NEW p, NEW q, p # q, pc[t] = p,
         pc' = [pc EXCEPT ![t] = q]
  PROVE  /\ Where(pc', q) = Where(pc, q) \cup {t}
         /\ Where(pc', p) = Where(pc, p) \ {t}
         /\ Cardinality(Where(pc', q)) = Cardinality(Where(pc, q)) + 1
         /\ Cardinality(Where(pc', p)) = Cardinality(Where(pc, p)) - 1
<1>1. \A u \in Threads : pc'[u] = IF u = t THEN q ELSE pc[u]
  BY DEF TypeOK
<1>2. Where(pc', q) = Where(pc, q) \cup {t} /\ t \notin Where(pc, q)
  BY <1>1 DEF Where
<1>3. Where(pc', p) = Where(pc, p) \ {t} /\ t \in Where(pc, p)
  BY <1>1 DEF Where
<1>4. Cardinality(Where(pc, q) \cup {t}) = Cardinality(Where(pc, q)) + 1
  BY <1>2, WhereFinite, FS_AddElement
<1>5. Cardinality(Where(pc, p) \ {t}) = Cardinality(Where(pc, p)) - 1
  BY <1>3, WhereFinite, FS_RemoveElement
<1>6. QED
  BY <1>2, <1>3, <1>4, <1>5

LEMMA PoolInit == Init => PoolInv
<1> SUFFICES ASSUME Init PROVE PoolInv
  OBVIOUS
<1> USE PoolAssumption DEF PoolAssumption, Init, At
<1>1. TypeOK
  BY DEF TypeOK, Blocks
<1>2. At("taken") = {} /\ At("listed") = {} /\ At("checked") = {}
  BY DEF Where
<1>3. Exclusive
  BY DEF Exclusive
<1>4. SemExact
  BY <1>2, FS_EmptySet DEF SemExact
<1>5. QED
  BY <1>1, <1>2, <1>3, <1>4 DEF PoolInv, FreesDistinct

\* Who takes a unit: a block is neither in use nor promised to somebody else.
LEMMA UnitFound ==
  ASSUME PoolInv, At("taken") # {}
  PROVE  Obtainable # {}
<1> USE PoolAssumption DEF PoolAssumption, At
<1>1. Cardinality(At("taken")) > 0
  BY Counts, WhereFinite, FS_EmptySet DEF PoolInv
<1>2. Cardinality(used) < N
  BY <1>1, Counts, WhereFinite DEF PoolInv, SemExact, TypeOK
<1>3. CASE free = {} /\ n = N
  <2>1. used = 0 .. N - 1
    BY <1>3 DEF PoolInv, Exclusive
  <2>2. Cardinality(used) = N
    BY <2>1, FS_Interval
  <2>3. QED
    BY <2>2, <1>2
<1>4. CASE free # {} \/ n # N
  BY <1>4 DEF Obtainable, PoolInv, TypeOK
<1>5. QED
  BY <1>3, <1>4

LEMMA PoolTake ==
  ASSUME PoolInv, NEW t \in Threads, Take(t)
  PROVE  PoolInv'
<1> USE PoolAssumption DEF PoolAssumption, At
<1>1. TypeOK /\ pc[t] = "idle" /\ pc' = [pc EXCEPT ![t] = "taken"]
  BY DEF PoolInv, Take
<1>2. TypeOK'
  BY DEF PoolInv, TypeOK, Take, Counted, Blocks
<1>3. /\ Cardinality(Where(pc', "taken")) = Cardinality(At("taken")) + 1
      /\ At("listed")' = At("listed") /\ At("checked")' = At("checked")
  <2>1. Cardinality(Where(pc', "taken")) = Cardinality(At("taken")) + 1
    BY <1>1, Moves
  <2>2. At("listed")' = At("listed")
    BY <1>1 DEF Where, TypeOK
  <2>3. At("checked")' = At("checked")
    BY <1>1 DEF Where, TypeOK
  <2>4. QED
    BY <2>1, <2>2, <2>3
<1>4. SemExact'
  BY <1>1, <1>3, Counts, WhereFinite DEF PoolInv, SemExact, Take, Counted, TypeOK
<1>5. Exclusive' /\ FreesDistinct'
  BY <1>3 DEF PoolInv, Exclusive, FreesDistinct, Take
<1>6. QED
  BY <1>2, <1>4, <1>5 DEF PoolInv

LEMMA PoolObtain ==
  ASSUME PoolInv, NEW t \in Threads, Obtain(t)
  PROVE  PoolInv'
<1> USE PoolAssumption DEF PoolAssumption, At
<1>1. TypeOK /\ pc[t] = "taken" /\ pc' = [pc EXCEPT ![t] = "idle"]
  BY DEF PoolInv, Obtain
<1>2. t \in At("taken")
  BY <1>1 DEF Where
<1>3. PICK b \in Obtainable :
        /\ free' = free \ {b} /\ used' = used \cup {b}
        /\ n' = IF free = {} THEN n + 1 ELSE n
  BY <1>2, UnitFound DEF Obtain, Rest
<1>4. /\ Cardinality(Where(pc', "taken")) = Cardinality(At("taken")) - 1
      /\ At("listed")' = At("listed") /\ At("checked")' = At("checked")
  <2>1. Cardinality(Where(pc', "taken")) = Cardinality(At("taken")) - 1
    BY <1>1, Moves
  <2>2. At("listed")' = At("listed")
    BY <1>1 DEF Where, TypeOK
  <2>3. At("checked")' = At("checked")
    BY <1>1 DEF Where, TypeOK
  <2>4. QED
    BY <2>1, <2>2, <2>3
<1>5. b \notin used /\ b \in Blocks
  BY <1>3 DEF PoolInv, TypeOK, Exclusive, Obtainable, Blocks
<1>6. TypeOK'
  <2>1. n' \in 0 .. N
    BY <1>3 DEF PoolInv, TypeOK, Obtainable
  <2>2. free' \subseteq Blocks /\ used' \subseteq Blocks
    BY <1>3, <1>5 DEF PoolInv, TypeOK
  <2>3. QED
    BY <1>1, <2>1, <2>2 DEF TypeOK, Obtain
<1>7. Exclusive'
  <2>1. CASE free # {}
    BY <1>3, <2>1 DEF PoolInv, TypeOK, Exclusive, Obtainable
  <2>2. CASE free = {}
    <3>1. b = n /\ n' = n + 1 /\ used' = used \cup {n} /\ free' = {}
      BY <1>3, <2>2 DEF Obtainable
    <3>2. n \in Nat /\ used = 0 .. n - 1
      BY <2>2 DEF PoolInv, TypeOK, Exclusive
    <3>3. QED
      BY <3>1, <3>2 DEF Exclusive
  <2>3. QED
    BY <2>1, <2>2
<1>8. SemExact'
  <2>1. Cardinality(used') = Cardinality(used) + 1
    BY <1>1, <1>3, <1>5, Counts, WhereFinite, FS_AddElement
  <2>2. sem' = sem
    BY DEF Obtain
  <2>3. QED
    BY <1>1, <1>4, <2>1, <2>2, Counts, WhereFinite DEF PoolInv, SemExact
<1>9. FreesDistinct'
  BY <1>3, <1>4 DEF PoolInv, FreesDistinct, Obtain
<1>10. QED
  BY <1>6, <1>7, <1>8, <1>9 DEF PoolInv

\* The count is below its limit while a block is in use.
LEMMA Accepted ==
  ASSUME PoolInv
  PROVE  FreeAccepted
<1> USE DEF At
<1>1. used # {} => Cardinality(used) > 0
  BY Counts, WhereFinite, FS_EmptySet DEF PoolInv
<1>2. QED
  BY <1>1, Counts, WhereFinite, PoolAssumption DEF PoolInv, SemExact, FreeAccepted,
                                                   PoolAssumption, TypeOK

LEMMA PoolCheck ==
  ASSUME PoolInv, NEW t \in Threads, NEW b \in Blocks, Check(t, b)
  PROVE  PoolInv'
<1> USE DEF At
<1>1. TypeOK /\ pc[t] = "idle" /\ pc' = [pc EXCEPT ![t] = "checked"]
  <2>1. sem < N
    BY Accepted DEF FreeAccepted, Check, Frees
  <2>2. sem # N
    BY <2>1, PoolAssumption DEF PoolInv, TypeOK, PoolAssumption
  <2>3. QED
    BY <2>2 DEF PoolInv, Check
<1>2. TypeOK'
  BY <1>1 DEF TypeOK, Check
<1>3. /\ At("checked")' = At("checked") \cup {t}
      /\ At("taken")' = At("taken") /\ At("listed")' = At("listed")
  <2>1. At("checked")' = At("checked") \cup {t}
    BY <1>1, Moves
  <2>2. At("taken")' = At("taken")
    BY <1>1 DEF Where, TypeOK
  <2>3. At("listed")' = At("listed")
    BY <1>1 DEF Where, TypeOK
  <2>4. QED
    BY <2>1, <2>2, <2>3
<1>4. SemExact' /\ Exclusive'
  BY <1>3 DEF PoolInv, SemExact, Exclusive, Check
<1>5. FreesDistinct'
  <2>1. \A u \in Threads : block'[u] = IF u = t THEN b ELSE block[u]
    BY DEF Check, PoolInv, TypeOK
  <2>2. b \in used /\ used' = used /\ \A u \in At("checked") : block[u] # b
    BY DEF Check, Frees
  <2>3. t \notin At("checked") /\ At("checked") \subseteq Threads
    BY <1>1 DEF Where
  <2>4. QED
    BY <1>3, <2>1, <2>2, <2>3 DEF PoolInv, FreesDistinct
<1>6. QED
  BY <1>2, <1>4, <1>5 DEF PoolInv

LEMMA PoolList ==
  ASSUME PoolInv, NEW t \in Threads, List(t)
  PROVE  PoolInv'
<1> USE DEF At
<1>1. TypeOK /\ pc[t] = "checked" /\ pc' = [pc EXCEPT ![t] = "listed"]
  BY DEF PoolInv, List
<1>2. t \in At("checked") /\ block[t] \in used
  BY <1>1 DEF PoolInv, FreesDistinct, Where
<1>3. /\ Cardinality(Where(pc', "listed")) = Cardinality(At("listed")) + 1
      /\ At("taken")' = At("taken") /\ At("checked")' = At("checked") \ {t}
  <2>1. Cardinality(Where(pc', "listed")) = Cardinality(At("listed")) + 1
    BY <1>1, Moves
  <2>2. At("taken")' = At("taken")
    BY <1>1 DEF Where, TypeOK
  <2>3. At("checked")' = At("checked") \ {t}
    BY <1>1, Moves
  <2>4. QED
    BY <2>1, <2>2, <2>3
<1>4. TypeOK'
  BY <1>1 DEF TypeOK, List, Listed
<1>5. Exclusive'
  BY <1>2 DEF PoolInv, Exclusive, List, Listed
<1>6. SemExact'
  <2>1. Cardinality(used') = Cardinality(used) - 1
    BY <1>1, <1>2, Counts, WhereFinite, FS_RemoveElement DEF List
  <2>2. sem' = sem
    BY DEF List
  <2>3. QED
    BY <1>1, <1>3, <2>1, <2>2, Counts, WhereFinite, PoolAssumption
       DEF PoolInv, SemExact, PoolAssumption
<1>7. FreesDistinct'
  BY <1>2, <1>3 DEF PoolInv, FreesDistinct, List
<1>8. QED
  BY <1>4, <1>5, <1>6, <1>7 DEF PoolInv

LEMMA PoolGive ==
  ASSUME PoolInv, NEW t \in Threads, Give(t)
  PROVE  PoolInv'
<1> USE PoolAssumption DEF PoolAssumption, At
<1>1. TypeOK /\ pc[t] = "listed" /\ pc' = [pc EXCEPT ![t] = "idle"]
  BY DEF PoolInv, Give
<1>2. /\ Cardinality(Where(pc', "listed")) = Cardinality(At("listed")) - 1
      /\ At("taken")' = At("taken") /\ At("checked")' = At("checked")
  <2>1. Cardinality(Where(pc', "listed")) = Cardinality(At("listed")) - 1
    BY <1>1, Moves
  <2>2. At("taken")' = At("taken")
    BY <1>1 DEF Where, TypeOK
  <2>3. At("checked")' = At("checked")
    BY <1>1 DEF Where, TypeOK
  <2>4. QED
    BY <2>1, <2>2, <2>3
<1>3. Cardinality(At("listed")) > 0
  <2>1. t \in At("listed")
    BY <1>1 DEF Where
  <2>2. QED
    BY <1>1, <2>1, Counts, WhereFinite, FS_EmptySet
<1>4. sem' = sem + 1 /\ sem < N
  BY <1>1, <1>3, Counts, WhereFinite DEF Give, Given, PoolInv, SemExact
<1>5. TypeOK'
  BY <1>1, <1>4 DEF TypeOK, Give
<1>6. SemExact'
  BY <1>1, <1>2, <1>4, Counts, WhereFinite DEF PoolInv, SemExact, Give
<1>7. Exclusive' /\ FreesDistinct'
  BY <1>2 DEF PoolInv, Exclusive, FreesDistinct, Give
<1>8. QED
  BY <1>5, <1>6, <1>7 DEF PoolInv

LEMMA PoolNext == PoolInv /\ [Next]_vars => PoolInv'
<1> SUFFICES ASSUME PoolInv, [Next]_vars PROVE PoolInv'
  OBVIOUS
<1>1. ASSUME NEW t \in Threads, Take(t) PROVE PoolInv'
  BY <1>1, PoolTake
<1>2. ASSUME NEW t \in Threads, Obtain(t) PROVE PoolInv'
  BY <1>2, PoolObtain
<1>3. ASSUME NEW t \in Threads, List(t) PROVE PoolInv'
  BY <1>3, PoolList
<1>4. ASSUME NEW t \in Threads, Give(t) PROVE PoolInv'
  BY <1>4, PoolGive
<1>5. ASSUME NEW t \in Threads, NEW b \in Blocks, Check(t, b) PROVE PoolInv'
  BY <1>5, PoolCheck
<1>6. CASE UNCHANGED vars
  BY <1>6 DEF PoolInv, TypeOK, Exclusive, SemExact, FreesDistinct, At, Where, vars
<1>7. QED
  BY <1>1, <1>2, <1>3, <1>4, <1>5, <1>6 DEF Next

LEMMA PoolAlways == Spec => []PoolInv
  BY PoolInit, PoolNext, PTL DEF Spec

\* The count of the semaphore never leaves its range, and blocks are blocks of the pool.
THEOREM PoolTyped == Spec => []TypeOK
<1>1. PoolInv => TypeOK
  BY DEF PoolInv
<1>2. QED
  BY <1>1, PoolAlways, PTL

\* No block is lost or in two places.
THEOREM PoolExclusive == Spec => []Exclusive
<1>1. PoolInv => Exclusive
  BY DEF PoolInv
<1>2. QED
  BY <1>1, PoolAlways, PTL

\* The count is exact, also between the two steps of the operations.
THEOREM PoolExact == Spec => []SemExact
<1>1. PoolInv => SemExact
  BY DEF PoolInv
<1>2. QED
  BY <1>1, PoolAlways, PTL

\* osMemoryPoolAlloc never returns NULL after it has taken a unit.
THEOREM PoolServes == Spec => []BlockForUnit
<1>1. PoolInv => BlockForUnit
  BY UnitFound DEF BlockForUnit
<1>2. QED
  BY <1>1, PoolAlways, PTL

\* osMemoryPoolFree never refuses a block that is in use.
THEOREM PoolAccepts == Spec => []FreeAccepted
<1>1. PoolInv => FreeAccepted
  BY Accepted
<1>2. QED
  BY <1>1, PoolAlways, PTL

\* All of it: what the callers of the pool rely on.
THEOREM PoolKept == Spec => []PoolSafe
<1>1. PoolInv => BlockForUnit /\ FreeAccepted
  BY UnitFound, Accepted DEF BlockForUnit
<1>2. PoolInv => PoolSafe
  BY <1>1 DEF PoolInv, PoolSafe
<1>3. QED
  BY <1>2, PoolAlways, PTL

-----------------------------------------------------------------------------
(* The start *)

\* Without troubles nothing happens that could not happen with them.
LEMMA SmoothIsStart ==
  ASSUME Smooth!Next
  PROVE  Start!Next
<1>1. Smooth!M7 => Start!M7
  BY DEF Smooth!M7, Smooth!M7WaitStop, Smooth!M7Clock, Smooth!M7Release,
         Smooth!M7WaitWake, Smooth!Stopped, Smooth!D2Ready, Smooth!coreVars,
         Smooth!netVars, Smooth!taskVars, Start!M7, Start!M7WaitStop, Start!M7Clock,
         Start!M7Release, Start!M7WaitWake, Start!Stopped, Start!D2Ready,
         Start!coreVars, Start!netVars, Start!taskVars
<1>2. Smooth!M4 => Start!M4
  BY DEF Smooth!M4, Smooth!M4Activate, Smooth!M4Clear, Smooth!M4Enter, Smooth!M4Wake,
         Smooth!Cleared, Smooth!coreVars, Smooth!netVars, Smooth!taskVars, Start!M4,
         Start!M4Activate, Start!M4Clear, Start!M4Enter, Start!M4Wake, Start!Cleared,
         Start!coreVars, Start!netVars, Start!taskVars
<1>3. Smooth!Default => Start!Default
  BY DEF Smooth!Default, Smooth!InitLwip, Smooth!InitLog, Smooth!InitClient,
         Smooth!WaitLink, Smooth!TryConnect, Smooth!Announce, Smooth!Running,
         Smooth!Goes, Smooth!coreVars, Smooth!netVars, Smooth!taskVars, Start!Default,
         Start!InitLwip, Start!InitLog, Start!InitClient, Start!WaitLink,
         Start!TryConnect, Start!Announce, Start!Running, Start!Goes, Start!coreVars,
         Start!netVars, Start!taskVars
<1>4. ASSUME NEW t \in Smooth!AllTasks, Smooth!Task(t)
      PROVE  t \in Start!AllTasks /\ Start!Task(t)
  BY <1>4 DEF Smooth!AllTasks, Smooth!Task, Smooth!Poll, Smooth!Subscribe,
              Smooth!Running, Smooth!Goes, Smooth!Connected, Smooth!Subscribed,
              Smooth!Topics, Smooth!coreVars, Smooth!netVars, Smooth!taskVars,
              Start!AllTasks, Start!Task, Start!Poll, Start!Subscribe, Start!Running,
              Start!Goes, Start!Connected, Start!Subscribed, Start!Topics,
              Start!coreVars, Start!netVars, Start!taskVars
<1>5. Smooth!LinkUp \/ Smooth!BrokerStarts \/ Smooth!Answer
      => Start!LinkUp \/ Start!BrokerStarts \/ Start!Answer
  BY DEF Smooth!LinkUp, Smooth!BrokerStarts, Smooth!Answer, Smooth!Answered,
         Smooth!coreVars, Smooth!netVars, Smooth!taskVars, Start!LinkUp,
         Start!BrokerStarts, Start!Answer, Start!Answered, Start!coreVars,
         Start!netVars, Start!taskVars
<1>6. QED
  BY <1>1, <1>2, <1>3, <1>4, <1>5 DEF Smooth!Next, Start!Next

\* The cores: nobody gets to the clock before the M4 has stopped, an event that
\* wakes it comes from the release, which is after the clock.
CoresInv ==
  /\ m4 \notin {"stopped", "main"} => m7 = "waitStop"
  /\ m4 = "enter" => ~event
  /\ m4 = "stopped" /\ event => clock
  /\ m4 = "main" => clock
  /\ m7 \in {"release", "waitWake", "tasks"} => clock

\* The tasks: the default task brings up one thing after the other, connects once, and
\* who is past its polling has seen the flag, which stays.
TasksInv ==
  /\ task["default"] # "lwip" => lwip
  /\ task["default"] \notin {"lwip", "log"} => log
  /\ task["default"] \in {"lwip", "log", "pool", "link", "connect"} =>
       ~flag /\ client \in {"none", "new"}
  /\ flag => client = "connected"
  /\ client = "connected" => broker
  /\ \A t \in Subscribers : task[t] \in {"poll", "subscribe", "serve"}
  /\ \A t \in Start!AllTasks : task[t] \in {"announce", "subscribe", "serve"} => flag

\* The table has the topics of the tasks that serve.
Serving == {t \in Start!AllTasks : task[t] = "serve"}
TopicsCounted ==
  topics = Cardinality(Serving) + IF task["default"] = "serve" THEN 1 ELSE 0

StartInv == Start!TypeOK /\ CoresInv /\ TasksInv /\ TopicsCounted

LEMMA StartInit ==
  ASSUME Start!Init \/ Smooth!Init
  PROVE  StartInv
<1> USE DEF Start!Init, Smooth!Init, Start!AllTasks, Smooth!AllTasks
<1>1. Start!TypeOK
  <2>1. m7 \in Start!M7Places /\ m4 \in Start!M4Places
    BY DEF Start!M7Places, Start!M4Places
  <2>2. task \in [Start!AllTasks -> Start!Places] /\ topics \in 0 .. MaxTopics
    BY StartUpAssumption DEF StartUpAssumption, Start!StartAssumption, Start!Places
  <2>3. client \in {"none", "new", "connecting", "connected"}
    OBVIOUS
  <2>4. /\ clock \in BOOLEAN /\ notify \in BOOLEAN /\ event \in BOOLEAN
        /\ lwip \in BOOLEAN /\ log \in BOOLEAN /\ link \in BOOLEAN
        /\ broker \in BOOLEAN /\ flag \in BOOLEAN
    BY Zenon
  <2>5. QED
    BY <2>1, <2>2, <2>3, <2>4 DEF Start!TypeOK
<1>2. CoresInv
  BY DEF CoresInv
<1>3. TasksInv
  BY StartUpAssumption DEF StartUpAssumption, Start!StartAssumption, TasksInv
<1>4. TopicsCounted
  <2>1. Serving = {}
    BY DEF Serving
  <2>2. QED
    BY <2>1, FS_EmptySet DEF TopicsCounted
<1>5. QED
  BY <1>1, <1>2, <1>3, <1>4 DEF StartInv

\* The cores go on; the tasks do not see it.
LEMMA StartCores ==
  ASSUME StartInv, Start!M7 \/ Start!M4
  PROVE  StartInv'
<1> USE DEF StartInv, Start!coreVars, Start!netVars, Start!taskVars
<1>1. UNCHANGED <<lwip, log, link, broker, client, flag, task, topics>>
  BY DEF Start!M7, Start!M4, Start!M7WaitStop, Start!M7Clock, Start!M7Release,
         Start!M7WaitWake, Start!M4Activate, Start!M4Clear, Start!M4Enter, Start!M4Wake
<1>2. TasksInv' /\ TopicsCounted'
  BY <1>1 DEF TasksInv, TopicsCounted, Serving
<1>3. CASE Start!M7
  <2> USE DEF Start!M7, Start!M7WaitStop, Start!M7Clock, Start!M7Release,
              Start!M7WaitWake, Start!Stopped, Start!D2Ready
  <2>1. CoresInv'
    BY <1>3 DEF CoresInv
  <2>2. m7' \in Start!M7Places /\ m4' \in Start!M4Places
    BY <1>3 DEF Start!TypeOK, Start!M7Places
  <2>3. clock' \in BOOLEAN /\ notify' \in BOOLEAN /\ event' \in BOOLEAN
    BY <1>3, Zenon DEF Start!TypeOK
  <2>4. QED
    BY <1>1, <1>2, <2>1, <2>2, <2>3 DEF Start!TypeOK
<1>4. CASE Start!M4
  <2> USE DEF Start!M4, Start!M4Activate, Start!M4Clear, Start!M4Enter, Start!M4Wake,
              Start!Cleared
  <2>1. CoresInv'
    BY <1>4 DEF CoresInv
  <2>2. m7' \in Start!M7Places /\ m4' \in Start!M4Places
    BY <1>4 DEF Start!TypeOK, Start!M4Places
  <2>3. clock' \in BOOLEAN /\ notify' \in BOOLEAN /\ event' \in BOOLEAN
    BY <1>4, Zenon DEF Start!TypeOK
  <2>4. QED
    BY <1>1, <1>2, <2>1, <2>2, <2>3 DEF Start!TypeOK
<1>5. QED
  BY <1>3, <1>4

\* Nobody begins to serve.
LEMMA SameServing ==
  ASSUME TopicsCounted, topics' = topics,
         \A t \in Start!AllTasks : task'[t] = "serve" <=> task[t] = "serve"
  PROVE  TopicsCounted'
<1>1. Serving' = Serving
  BY DEF Serving, Start!AllTasks
<1>2. task'["default"] = "serve" <=> task["default"] = "serve"
  BY DEF Start!AllTasks
<1>3. QED
  BY <1>1, <1>2 DEF TopicsCounted

\* The default task goes on.
LEMMA StartDefault ==
  ASSUME StartInv, Start!Default
  PROVE  StartInv'
<1> USE DEF StartInv, Start!coreVars, Start!netVars, Start!Goes, Start!Default,
            Start!InitLwip, Start!InitLog, Start!InitClient, Start!WaitLink,
            Start!TryConnect, Start!Announce
<1>0. "default" \in Start!AllTasks /\ "default" \notin Subscribers
  BY StartUpAssumption DEF StartUpAssumption, Start!StartAssumption, Start!AllTasks
<1>1. UNCHANGED <<m7, m4, clock, notify, event, topics, link, broker, flag>>
  OBVIOUS
<1>2. PICK place \in {"log", "pool", "link", "connect", "poll", "subscribe"} :
        task' = [task EXCEPT !["default"] = place]
  OBVIOUS
<1>3. task["default"] # "serve" /\ task \in [Start!AllTasks -> Start!Places]
  BY DEF Start!TypeOK
<1>4. Start!TypeOK'
  <2>1. task' \in [Start!AllTasks -> Start!Places]
    BY <1>2, <1>3 DEF Start!Places
  <2>2. client' \in {"none", "new", "connecting", "connected"}
    BY DEF Start!TypeOK
  <2>3. lwip' \in BOOLEAN /\ log' \in BOOLEAN
    BY Zenon DEF Start!TypeOK
  <2>4. QED
    BY <1>1, <2>1, <2>2, <2>3 DEF Start!TypeOK
<1>5. CoresInv'
  BY <1>1 DEF CoresInv
<1>6. TasksInv'
  <2>1. \A t \in Start!AllTasks : t # "default" => task'[t] = task[t]
    BY <1>2, <1>3
  <2>2. \A t \in Subscribers : task'[t] = task[t]
    BY <2>1, <1>0 DEF Start!AllTasks
  <2>3. task'["default"] = "subscribe" => task["default"] = "announce"
    BY <1>0, <1>3
  <2>4. \A t \in Start!AllTasks : task'[t] \in {"announce", "subscribe", "serve"} => flag'
    BY <1>0, <1>1, <1>2, <1>3, <2>1, <2>3 DEF TasksInv
  <2>5. /\ task'["default"] # "lwip" => lwip'
        /\ task'["default"] \notin {"lwip", "log"} => log'
    BY <1>0, <1>3 DEF TasksInv
  <2>6. task'["default"] \in {"lwip", "log", "pool", "link", "connect"} =>
          ~flag' /\ client' \in {"none", "new"}
    BY <1>0, <1>1, <1>3 DEF TasksInv
  <2>7. (flag' => client' = "connected") /\ (client' = "connected" => broker')
    BY <1>1 DEF TasksInv
  <2>8. QED
    BY <2>2, <2>4, <2>5, <2>6, <2>7 DEF TasksInv
<1>7. TopicsCounted'
  BY <1>0, <1>1, <1>2, <1>3, SameServing
<1>8. QED
  BY <1>4, <1>5, <1>6, <1>7

\* A task sees the flag.
LEMMA StartPoll ==
  ASSUME StartInv, NEW t \in Start!AllTasks, Start!Poll(t)
  PROVE  StartInv'
<1> USE DEF StartInv, Start!coreVars, Start!netVars, Start!Goes, Start!Poll, Start!Connected
<1>1. UNCHANGED <<m7, m4, clock, notify, event, topics, lwip, log, link, broker, client, flag>>
  OBVIOUS
<1>2. PICK place \in {"announce", "subscribe"} :
        /\ task' = [task EXCEPT ![t] = place]
        /\ place = "announce" => t = "default"
  OBVIOUS
<1>3. task[t] = "poll" /\ flag /\ task \in [Start!AllTasks -> Start!Places]
  BY DEF Start!TypeOK
<1>4. Start!TypeOK' /\ CoresInv'
  <2>1. task' \in [Start!AllTasks -> Start!Places]
    BY <1>2, <1>3 DEF Start!Places
  <2>2. QED
    BY <1>1, <2>1 DEF Start!TypeOK, CoresInv
<1>5. TasksInv'
  BY <1>1, <1>2, <1>3, StartUpAssumption
     DEF StartUpAssumption, Start!StartAssumption, TasksInv, Start!AllTasks
<1>6. TopicsCounted'
  BY <1>1, <1>2, <1>3, SameServing
<1>7. QED
  BY <1>4, <1>5, <1>6

\* A task subscribes: one more serves, and there is room for its topics.
LEMMA StartSubscribe ==
  ASSUME StartInv, NEW t \in Start!AllTasks, Start!Subscribe(t)
  PROVE  StartInv'
<1> USE DEF StartInv, Start!coreVars, Start!netVars, Start!Goes, Start!Subscribe,
            Start!Subscribed
<1>1. UNCHANGED <<m7, m4, clock, notify, event, lwip, log, link, broker, client, flag>>
  OBVIOUS
<1>2. /\ task' = [task EXCEPT ![t] = "serve"] /\ topics' = topics + Start!Topics(t)
      /\ task[t] = "subscribe" /\ task \in [Start!AllTasks -> Start!Places]
  BY DEF Start!TypeOK
<1>3. /\ "default" \notin Subscribers /\ IsFiniteSet(Subscribers) /\ MaxTopics \in Nat
      /\ Cardinality(Subscribers) + 2 <= MaxTopics
  <2>1. Start!IsFiniteSet(Subscribers) <=> IsFiniteSet(Subscribers)
    BY DEF Start!IsFiniteSet, IsFiniteSet
  <2>2. Start!Cardinality(Subscribers) = Cardinality(Subscribers)
    BY DEF Start!Cardinality, Cardinality
  <2>3. QED
    BY <2>1, <2>2, StartUpAssumption DEF StartUpAssumption, Start!StartAssumption
<1>4. IsFiniteSet(Start!AllTasks)
      /\ Cardinality(Start!AllTasks) = Cardinality(Subscribers) + 1
  BY <1>3, FS_AddElement DEF Start!AllTasks
<1>5. TopicsCounted'
  <2>1. Serving' = Serving \cup {t} /\ t \notin Serving
    BY <1>2 DEF Serving, Start!AllTasks
  <2>2. IsFiniteSet(Serving)
    BY <1>4, FS_Subset DEF Serving
  <2>3. Cardinality(Serving') = Cardinality(Serving) + 1 /\ Cardinality(Serving) \in Nat
    BY <2>1, <2>2, FS_AddElement, FS_CardinalityType
  <2>4. CASE t = "default"
    BY <1>2, <2>3, <2>4 DEF TopicsCounted, Start!Topics
  <2>5. CASE t # "default"
    <3>1. task'["default"] = task["default"]
      BY <1>2, <2>5 DEF Start!AllTasks
    <3>2. QED
      BY <1>2, <2>3, <2>5, <3>1 DEF TopicsCounted, Start!Topics
  <2>6. QED
    BY <2>4, <2>5
<1>6. topics' \in 0 .. MaxTopics
  <2>1. Serving' \in SUBSET Start!AllTasks
    BY DEF Serving, Start!AllTasks
  <2>2. Cardinality(Serving') \in Nat
        /\ Cardinality(Serving') <= Cardinality(Start!AllTasks)
    BY <1>4, <2>1, FS_Subset, FS_CardinalityType
  <2>3. QED
    BY <1>3, <1>4, <1>5, <2>2, FS_CardinalityType DEF TopicsCounted
<1>7. Start!TypeOK' /\ CoresInv'
  <2>1. task' \in [Start!AllTasks -> Start!Places]
    BY <1>2 DEF Start!Places
  <2>2. QED
    BY <1>1, <1>6, <2>1 DEF Start!TypeOK, CoresInv
<1>8. TasksInv'
  BY <1>1, <1>2, <1>3 DEF TasksInv, Start!AllTasks
<1>9. QED
  BY <1>5, <1>7, <1>8

\* Link, broker and the answer of the connection.
LEMMA StartNetwork ==
  ASSUME StartInv, Start!LinkUp \/ Start!BrokerStarts \/ Start!Answer
  PROVE  StartInv'
<1> USE DEF StartInv, Start!coreVars, Start!netVars, Start!taskVars, Start!LinkUp,
            Start!BrokerStarts, Start!Answer, Start!Answered
<1>1. UNCHANGED <<m7, m4, clock, notify, event, lwip, log, task, topics>>
  OBVIOUS
<1>2. CoresInv' /\ TopicsCounted'
  BY <1>1 DEF CoresInv, TopicsCounted, Serving
<1>3. Start!TypeOK'
  <2>1. link' \in BOOLEAN /\ broker' \in BOOLEAN /\ flag' \in BOOLEAN
    BY Zenon DEF Start!TypeOK
  <2>2. client' \in {"none", "new", "connecting", "connected"}
    BY DEF Start!TypeOK
  <2>3. QED
    BY <1>1, <2>1, <2>2 DEF Start!TypeOK
<1>4. TasksInv'
  <2>1. /\ task["default"] # "lwip" => lwip'
        /\ task["default"] \notin {"lwip", "log"} => log'
        /\ \A t \in Subscribers : task'[t] \in {"poll", "subscribe", "serve"}
    BY <1>1 DEF TasksInv
  <2>2. task["default"] \in {"lwip", "log", "pool", "link", "connect"} =>
          ~flag' /\ client' \in {"none", "new"}
    BY DEF TasksInv
  <2>3. flag => flag'
    BY DEF TasksInv
  <2>4. (flag' => client' = "connected") /\ (client' = "connected" => broker')
    <3>1. CASE Start!LinkUp \/ Start!BrokerStarts
      <4>1. flag' = flag /\ client' = client /\ (broker => broker')
        BY <3>1
      <4>2. QED
        BY <4>1, Zenon DEF TasksInv
    <3>2. CASE Start!Answer
      BY <3>2 DEF TasksInv
    <3>3. QED
      BY <3>1, <3>2
  <2>5. QED
    BY <1>1, <2>1, <2>2, <2>3, <2>4 DEF TasksInv
<1>5. QED
  BY <1>2, <1>3, <1>4

LEMMA StartNext ==
  ASSUME StartInv, Start!Next
  PROVE  StartInv'
<1>1. CASE Start!M7 \/ Start!M4
  BY <1>1, StartCores
<1>2. CASE Start!Default
  BY <1>2, StartDefault
<1>3. CASE \E t \in Start!AllTasks : Start!Task(t)
  BY <1>3, StartPoll, StartSubscribe DEF Start!Task
<1>4. CASE Start!LinkUp \/ Start!BrokerStarts \/ Start!Answer
  BY <1>4, StartNetwork
<1>5. QED
  BY <1>1, <1>2, <1>3, <1>4 DEF Start!Next

LEMMA StartIsSafe == StartInv => Start!StartSafe
BY DEF StartInv, CoresInv, TasksInv, Start!StartSafe, Start!ClockFirst,
       Start!SubscribedAfter,
       Start!AllTasks

\* For any tasks and any table with room for their topics: neither core runs its program
\* before the system clock is configured, no task publishes or subscribes before lwIP,
\* the log and the client exist and the broker has accepted, and the table of topics
\* does not overflow; whenever the broker starts and whether or not the only attempt to
\* connect fails.
THEOREM StartKept == SuiteSpec => []StartSafe
<1> DEFINE Inv == part \in {"start", "smooth"} => StartInv
<1>1. SuiteInit => Inv
  BY StartInit DEF SuiteInit
<1>2. Inv /\ [SuiteNext]_allVars => Inv'
  <2> SUFFICES ASSUME StartInv, [SuiteNext]_allVars, part \in {"start", "smooth"}
               PROVE  StartInv'
    BY DEF SuiteNext, PoolPart, StartPart, SmoothPart, LogPart, allVars
  <2>1. CASE StartPart \/ SmoothPart
    BY <2>1, StartNext, SmoothIsStart DEF StartPart, SmoothPart
  <2>2. CASE UNCHANGED startVars
    BY <2>2 DEF startVars, StartInv, Start!TypeOK, CoresInv, TasksInv, TopicsCounted,
                Serving
  <2>3. QED
    BY <2>1, <2>2 DEF SuiteNext, PoolPart, LogPart, allVars
<1>3. Inv => StartSafe
  BY StartIsSafe DEF StartSafe
<1>4. QED
  BY <1>1, <1>2, <1>3, PTL DEF SuiteSpec

-----------------------------------------------------------------------------
(* The log *)

\* The ring is in its bounds, and what is left of a record is its writer's.
RingInv ==
  /\ buffer \in [0 .. LogSize - 1 -> Nat] /\ next \in 0 .. LogSize - 1
  /\ filled \in 0 .. LogSize /\ rest \in Seq(Nat)
  /\ owner = "none" => rest = <<>>

LEMMA RingInit == Log!Init => RingInv /\ Log!Window = <<>>
<1> SUFFICES ASSUME Log!Init PROVE RingInv /\ Log!Window = <<>>
  OBVIOUS
<1> USE LogAssumption DEF LogAssumption, Log!SizeAssumption, Log!Init
<1>1. RingInv
  BY DEF RingInv
<1>2. Log!Window = <<>>
  BY DEF Log!Window
<1>3. QED
  BY <1>1, <1>2

\* Where the i-th byte of a log of so many bytes is, before the next one to write.
Place(top, count, i) == Log!Wrap(top - count + i - 1 + LogSize)

LEMMA Places ==
  ASSUME NEW top \in 0 .. LogSize - 1, NEW count \in 0 .. LogSize, NEW i \in 1 .. count
  PROVE  /\ Place(top, count, i) \in 0 .. LogSize - 1
         /\ i > 1 \/ count < LogSize => Place(top, count, i) # top
BY LogAssumption DEF LogAssumption, Log!SizeAssumption, Place, Log!Wrap

\* A byte behind a list of m bytes.
LEMMA Appending ==
  \A w \in Seq(Nat), h \in Nat, m \in Nat : Len(w) = m =>
    /\ Append(w, h) \in Seq(Nat) /\ Len(Append(w, h)) = m + 1 /\ Append(w, h)[m + 1] = h
    /\ \A i \in 1 .. m : Append(w, h)[i] = w[i]
BY AppendProperties

\* The byte written becomes the newest of the log; of a full log the oldest goes.
LEMMA WindowPut ==
  ASSUME RingInv, Log!WriteByte
  PROVE  /\ RingInv'
         /\ Log!Window' = Append(IF Len(Log!Window) < LogSize THEN Log!Window
                                                           ELSE Tail(Log!Window), Head(rest))
<1> DEFINE new == Append(IF Len(Log!Window) < LogSize THEN Log!Window
                                                      ELSE Tail(Log!Window), Head(rest))
<1> USE LogAssumption DEF LogAssumption, Log!SizeAssumption
<1>1. rest # <<>> /\ Head(rest) \in Nat /\ Tail(rest) \in Seq(Nat) /\ rest' = Tail(rest)
  BY DEF RingInv, Log!WriteByte
<1>2. /\ buffer' = [buffer EXCEPT ![next] = Head(rest)] /\ next' = Log!Wrap(next + 1)
      /\ filled' = IF filled < LogSize THEN filled + 1 ELSE LogSize
      /\ owner' = owner /\ owner # "none"
  BY DEF Log!WriteByte
<1>3. RingInv'
  BY <1>1, <1>2 DEF RingInv, Log!Wrap
<1>4. /\ Log!Window \in Seq(Nat) /\ Len(Log!Window) = filled
      /\ \A i \in 1 .. filled : Log!Window[i] = buffer[Place(next, filled, i)]
  <2>1. Log!Window = [i \in 1 .. filled |-> buffer[Place(next, filled, i)]]
    BY DEF Log!Window, Place
  <2>2. \A i \in 1 .. filled : buffer[Place(next, filled, i)] \in Nat
    BY Places DEF RingInv
  <2>3. QED
    BY <2>1, <2>2 DEF RingInv
<1>5. /\ Log!Window' \in Seq(Nat) /\ Len(Log!Window') = filled'
      /\ \A i \in 1 .. filled' : Log!Window'[i] = buffer'[Place(next', filled', i)]
  <2>1. Log!Window' = [i \in 1 .. filled' |-> buffer'[Place(next', filled', i)]]
    BY DEF Log!Window, Place
  <2>2. \A i \in 1 .. filled' : buffer'[Place(next', filled', i)] \in Nat
    BY <1>3, Places DEF RingInv
  <2>3. filled' \in Nat
    BY <1>3 DEF RingInv
  <2>4. Log!Window' \in Seq(Nat) /\ Len(Log!Window') = filled'
    BY <2>1, <2>2, <2>3
  <2>5. QED
    BY <2>1, <2>4
<1>6. /\ new \in Seq(Nat) /\ Len(new) = filled'
      /\ \A i \in 1 .. filled' : new[i] = buffer'[Place(next', filled', i)]
  <2> USE DEF RingInv
  <2>1. CASE filled < LogSize
    <3>0. filled' = filled + 1 /\ filled \in Nat
      BY <1>2, <2>1
    <3>1. new = Append(Log!Window, Head(rest))
      BY <1>4, <2>1
    <3>2. new \in Seq(Nat) /\ Len(new) = filled + 1 /\ new[filled + 1] = Head(rest)
          /\ \A i \in 1 .. filled : new[i] = Log!Window[i]
      <4> HIDE LogAssumption DEF new, LogAssumption, Log!SizeAssumption, RingInv
      <4>1. /\ Log!Window \in Seq(Nat) /\ Len(Log!Window) = filled /\ Head(rest) \in Nat
            /\ filled \in Nat
        BY <1>1, <1>4, <3>0
      <4>2. LET a == Append(Log!Window, Head(rest))
            IN  /\ a \in Seq(Nat) /\ Len(a) = filled + 1 /\ a[filled + 1] = Head(rest)
                /\ \A i \in 1 .. filled : a[i] = Log!Window[i]
        BY <4>1, Appending, Zenon
      <4>3. QED
        BY <3>1, <4>2, Zenon
    <3>3. \A i \in 1 .. filled : Place(next', filled', i) = Place(next, filled, i)
      BY <1>2, <2>1 DEF Place, Log!Wrap
    <3>4. Place(next', filled', filled') = next
      BY <1>2, <2>1 DEF Place, Log!Wrap
    <3>5. \A i \in 1 .. filled : buffer'[Place(next, filled, i)] = Log!Window[i]
      BY <1>2, <1>4, <2>1, Places
    <3>6. buffer'[next] = Head(rest)
      BY <1>2
    <3> HIDE DEF new
    <3>7. ASSUME NEW i \in 1 .. filled'
          PROVE  new[i] = buffer'[Place(next', filled', i)]
      <4>1. CASE i \in 1 .. filled
        BY <3>2, <3>3, <3>5, <4>1
      <4>2. CASE i = filled'
        BY <3>0, <3>2, <3>4, <3>6, <4>2
      <4>3. QED
        BY <3>0, <4>1, <4>2
    <3>8. QED
      BY <3>0, <3>2, <3>7
  <2>2. CASE filled = LogSize
    <3>0. filled' = filled /\ filled \in Nat
      BY <1>2, <2>2
    <3>1. new = Append(Tail(Log!Window), Head(rest))
      BY <1>4, <2>2
    <3>2. Log!Window # <<>>
      BY <1>4, <2>2
    <3>3. Tail(Log!Window) \in Seq(Nat) /\ Len(Tail(Log!Window)) = filled - 1
          /\ \A i \in 1 .. filled - 1 : Tail(Log!Window)[i] = Log!Window[i + 1]
      BY <1>4, <3>2, HeadTailProperties
    <3> DEFINE m == filled - 1
    <3>4. m \in Nat /\ m + 1 = filled
      BY <2>2
    <3>5. new \in Seq(Nat) /\ Len(new) = m + 1 /\ new[m + 1] = Head(rest)
          /\ \A i \in 1 .. m : new[i] = Tail(Log!Window)[i]
      <4> HIDE LogAssumption DEF m, new, LogAssumption, Log!SizeAssumption, RingInv
      <4>1. /\ Tail(Log!Window) \in Seq(Nat) /\ Len(Tail(Log!Window)) = m
            /\ Head(rest) \in Nat /\ m \in Nat
        BY <1>1, <3>3, <3>4 DEF m
      <4>2. LET a == Append(Tail(Log!Window), Head(rest))
            IN  /\ a \in Seq(Nat) /\ Len(a) = m + 1 /\ a[m + 1] = Head(rest)
                /\ \A i \in 1 .. m : a[i] = Tail(Log!Window)[i]
        BY <4>1, Appending, Zenon
      <4>3. QED
        BY <3>1, <4>2, Zenon
    <3>6. new \in Seq(Nat) /\ Len(new) = filled /\ new[filled] = Head(rest)
          /\ \A i \in 1 .. filled - 1 : new[i] = Log!Window[i + 1]
      <4> HIDE DEF new
      <4>1. QED
        BY <3>3, <3>4, <3>5
    <3>7. \A i \in 1 .. filled - 1 : Place(next', filled', i) = Place(next, filled, i + 1)
      BY <1>2, <2>2 DEF Place, Log!Wrap
    <3>8. Place(next', filled', filled) = next
      BY <1>2, <2>2 DEF Place, Log!Wrap
    <3>9. \A i \in 1 .. filled - 1 :
            buffer'[Place(next, filled, i + 1)] = Log!Window[i + 1]
      <4> TAKE i \in 1 .. filled - 1
      <4>1. i + 1 \in 1 .. filled /\ i + 1 > 1
        BY <2>2
      <4>2. /\ Place(next, filled, i + 1) \in 0 .. LogSize - 1
            /\ Place(next, filled, i + 1) # next
        BY <4>1, Places
      <4>3. QED
        BY <1>2, <1>4, <4>1, <4>2
    <3>10. buffer'[next] = Head(rest)
      BY <1>2
    <3> HIDE DEF new
    <3>11. ASSUME NEW i \in 1 .. filled'
          PROVE  new[i] = buffer'[Place(next', filled', i)]
      <4>1. CASE i \in 1 .. filled - 1
        BY <3>6, <3>7, <3>9, <4>1
      <4>2. CASE i = filled
        BY <3>0, <3>6, <3>8, <3>10, <4>2
      <4>3. QED
        BY <3>0, <4>1, <4>2
    <3>12. new \in Seq(Nat) /\ Len(new) = filled'
      BY <3>0, <3>6
    <3>13. QED
      BY <3>11, <3>12
  <2>3. filled < LogSize \/ filled = LogSize
    OBVIOUS
  <2>4. QED
    BY <2>1, <2>2, <2>3, Zenon
<1>7. Log!Window' = new
  BY <1>5, <1>6, SeqEqual
<1>8. QED
  BY <1>3, <1>7

\* A byte written is a byte put in the log, a record begun is opened, and the dump and
\* the end of a record leave the log alone.
LEMMA RingNext ==
  ASSUME RingInv, Log!Next
  PROVE  RingInv' /\ (Log!LogOf!LogNext \/ UNCHANGED <<Log!Window, rest>>)
<1> USE DEF Log!ringVars, Log!critVars, Log!dumpVars, Log!hostVars
<1>1. CASE Log!WriteByte
  <2>1. rest # <<>> /\ rest' = Tail(rest)
    BY <1>1 DEF Log!WriteByte
  <2>2. Log!LogOf!Put
    BY <1>1, <2>1, WindowPut DEF Log!LogOf!Put
  <2>3. QED
    BY <1>1, <2>2, WindowPut DEF Log!LogOf!LogNext
<1>2. ASSUME NEW t \in Loggers, NEW r \in LogRecords, Log!BeginRecord(t, r)
      PROVE  RingInv' /\ (Log!LogOf!LogNext \/ UNCHANGED <<Log!Window, rest>>)
  <2>1. r \in Seq(Nat) /\ t # "none"
    BY LogAssumption DEF LogAssumption, Log!RecordAssumption, Log!SizeAssumption
  <2>2. /\ rest = <<>> /\ rest' = r /\ owner' = t
        /\ UNCHANGED <<buffer, next, filled>>
    BY <1>2 DEF Log!BeginRecord, Log!Unmasked, RingInv
  <2>3. RingInv' /\ UNCHANGED Log!Window
    BY <2>1, <2>2 DEF RingInv, Log!Window
  <2>4. QED
    BY <2>2, <2>3 DEF Log!LogOf!LogNext, Log!LogOf!Open
<1>3. CASE \/ Log!EndRecord \/ Log!DumpBegin \/ Log!PublishMeta \/ Log!PublishChunk
           \/ Log!CopyByte \/ Log!DumpEnd
  <2>1. /\ UNCHANGED <<buffer, next, filled, rest>>
        /\ owner' = owner \/ rest = <<>>
    BY <1>3 DEF Log!EndRecord, Log!DumpBegin, Log!PublishMeta, Log!PublishChunk,
                Log!CopyByte, Log!DumpEnd
  <2>2. QED
    BY <2>1 DEF RingInv, Log!Window
<1>4. QED
  BY <1>1, <1>2, <1>3 DEF Log!Next

\* For every size of the ring and all records: the ring with its index is a log of the
\* bytes written last, in order, and no record is written into another one.
THEOREM LogImplemented == SuiteSpec => ImplementsLog
<1>1. SuiteInit => RingInv /\ Log!LogOf!LogInit
  BY RingInit DEF SuiteInit, Log!LogOf!LogInit, Log!Init
<1>2. RingInv /\ [SuiteNext]_allVars =>
        RingInv' /\ [Log!LogOf!LogNext]_<<Log!Window, rest>>
  <2> SUFFICES ASSUME RingInv, [SuiteNext]_allVars
               PROVE  RingInv' /\ (Log!LogOf!LogNext \/ UNCHANGED <<Log!Window, rest>>)
    OBVIOUS
  <2>1. CASE LogPart
    BY <2>1, RingNext DEF LogPart
  <2>2. CASE UNCHANGED logVars
    BY <2>2 DEF logVars, RingInv, Log!Window
  <2>3. QED
    BY <2>1, <2>2 DEF SuiteNext, PoolPart, StartPart, SmoothPart, allVars
<1>3. QED
  BY <1>1, <1>2, PTL DEF SuiteSpec, ImplementsLog, Log!ImplementsLog, Log!LogOf!LogSpec

-----------------------------------------------------------------------------
(* Records in the log                                                        *)

\* The assumptions on the records, in the form the provers use.
LEMMA LogFacts ==
  /\ LogSize \in Nat /\ LogSize > 0 /\ Chunk \in Nat /\ Chunk > 0
  /\ "none" \notin Loggers
  /\ \A r \in LogRecords :
       /\ r \in Seq(Nat) /\ r \in Seq(Log!Bytes) /\ Len(r) \in 1 .. LogSize /\ r[1] \in Log!Ids
       /\ Len(r) = Log!SizeOf(r[1])
       /\ \A i \in 2 .. Len(r) : r[i] \notin Log!Ids
  /\ 0 \notin Log!Ids /\ 0 \in Log!Bytes /\ Log!Bytes \subseteq Nat
  /\ \A id \in Log!Ids : Log!SizeOf(id) \in 1 .. LogSize
<1>1. /\ LogSize \in Nat /\ LogSize > 0 /\ Chunk \in Nat /\ Chunk > 0 /\ "none" \notin Loggers
  BY LogAssumption DEF LogAssumption, Log!SizeAssumption
<1>2. \A r \in LogRecords :
        /\ r \in Seq(Nat) /\ Len(r) \in 1 .. LogSize /\ r[1] # 0
        /\ \A i \in 2 .. Len(r) : r[i] \notin Log!Ids
        /\ \A s \in LogRecords : r[1] = s[1] => Len(r) = Len(s)
  BY LogAssumption, Zenon DEF LogAssumption, Log!RecordAssumption
<1>3. \A r \in LogRecords : r[1] \in Log!Ids
  BY DEF Log!Ids
<1>4. \A id \in Log!Ids : \E r \in LogRecords : r[1] = id
  BY DEF Log!Ids
<1>5. \A id \in Log!Ids : \E r \in LogRecords : r[1] = id /\ Log!SizeOf(id) = Len(r)
  <2> TAKE id \in Log!Ids
  <2> DEFINE c == CHOOSE r \in LogRecords : r[1] = id
  <2>1. c \in LogRecords /\ c[1] = id
    BY <1>4
  <2>2. Log!SizeOf(id) = Len(c)
    BY DEF Log!SizeOf
  <2>3. QED
    BY <2>1, <2>2
<1>6. \A r \in LogRecords : Len(r) = Log!SizeOf(r[1])
  BY <1>2, <1>3, <1>5
<1>7. \A id \in Log!Ids : Log!SizeOf(id) \in 1 .. LogSize
  BY <1>2, <1>5
<1>8. 0 \notin Log!Ids
  BY <1>2, <1>4
<1>9. \A r \in LogRecords : \A i \in 1 .. Len(r) : r[i] \in Log!Bytes /\ r[i] \in Nat
  BY <1>2 DEF Log!Bytes
<1>10. 0 \in Log!Bytes
  BY DEF Log!Bytes
<1>11. Log!Bytes \subseteq Nat
  BY <1>2 DEF Log!Bytes
<1>12. \A r \in LogRecords : r \in Seq(Log!Bytes)
  BY <1>2, <1>9
<1>13. QED
  BY <1>1, <1>2, <1>3, <1>6, <1>7, <1>8, <1>10, <1>11, <1>12

\* The j-th byte from the newest one, in a ring b that is written at top next.
Recent(b, top, j) == b[Log!Wrap(top - j + LogSize)]

\* How many bytes are missing of the record that was begun last, if one of it is there; r
\* is what is to be written.
Pending(r) == IF r # <<>> /\ r[1] \in Log!Ids THEN 0 ELSE Len(r)

\* Behind the bytes that were written there are zeros, which the ring was made of.  What is to
\* be written is a record or the end of one.  Each id in the log tells where the next one is.
FrameInv ==
  /\ filled < LogSize => next = filled /\ \A i \in next .. LogSize - 1 : buffer[i] = 0
  /\ \A i \in 1 .. Len(rest) :
       rest[i] \in Log!Ids => i = 1 /\ Len(rest) = Log!SizeOf(rest[1])
  /\ \A j \in 1 .. filled : Recent(buffer, next, j) \in Log!Ids =>
       LET e == j - Log!SizeOf(Recent(buffer, next, j))
       IN  e = -Pending(rest) \/ (e >= 1 /\ Recent(buffer, next, e) \in Log!Ids)

\* The new log is empty.
LEMMA FrameInit == Log!Init => FrameInv
BY LogFacts DEF Log!Init, FrameInv

\* A byte written is the newest one, and the others are one older.
LEMMA RecentPut ==
  ASSUME RingInv, Log!WriteByte
  PROVE  /\ Recent(buffer', next', 1) = Head(rest)
         /\ \A j \in 1 .. filled' - 1 :
              j \in 1 .. filled /\ Recent(buffer', next', j + 1) = Recent(buffer, next, j)
<1>1. /\ buffer' = [buffer EXCEPT ![next] = Head(rest)] /\ next' = Log!Wrap(next + 1)
      /\ filled' = IF filled < LogSize THEN filled + 1 ELSE LogSize
      /\ buffer \in [0 .. LogSize - 1 -> Nat] /\ next \in 0 .. LogSize - 1
      /\ filled \in 0 .. LogSize
  BY DEF Log!WriteByte, RingInv
<1>2. Log!Wrap(next' - 1 + LogSize) = next
  BY <1>1, LogFacts DEF Log!Wrap
<1>3. Recent(buffer', next', 1) = buffer'[Log!Wrap(next' - 1 + LogSize)]
  BY DEF Recent
<1>4. Recent(buffer', next', 1) = Head(rest)
  BY <1>1, <1>2, <1>3
<1>5. ASSUME NEW j \in 1 .. filled' - 1
      PROVE  j \in 1 .. filled /\ Recent(buffer', next', j + 1) = Recent(buffer, next, j)
  <2>1. j \in 1 .. filled /\ j < LogSize
    BY <1>1, LogFacts
  <2>2. /\ Log!Wrap(next' - (j + 1) + LogSize) = Log!Wrap(next - j + LogSize)
        /\ Log!Wrap(next - j + LogSize) \in 0 .. LogSize - 1
        /\ Log!Wrap(next - j + LogSize) # next
    BY <1>1, <2>1, LogFacts DEF Log!Wrap
  <2>3. Recent(buffer', next', j + 1) = buffer'[Log!Wrap(next' - (j + 1) + LogSize)]
    BY DEF Recent
  <2>4. Recent(buffer, next, j) = buffer[Log!Wrap(next - j + LogSize)]
    BY DEF Recent
  <2>5. QED
    BY <1>1, <2>1, <2>2, <2>3, <2>4
<1>6. QED
  BY <1>4, <1>5

\* The byte written ends the record it belongs to, or goes on with it.
LEMMA FramePut ==
  ASSUME RingInv, FrameInv, Log!WriteByte
  PROVE  FrameInv'
<1> DEFINE h == Head(rest)
<1>1. /\ buffer' = [buffer EXCEPT ![next] = h] /\ next' = Log!Wrap(next + 1)
      /\ filled' = IF filled < LogSize THEN filled + 1 ELSE LogSize
      /\ rest' = Tail(rest) /\ rest # <<>> /\ rest \in Seq(Nat)
      /\ buffer \in [0 .. LogSize - 1 -> Nat] /\ next \in 0 .. LogSize - 1
      /\ filled \in 0 .. LogSize
  BY DEF Log!WriteByte, RingInv
<1>2. /\ Len(rest) \in Nat /\ Len(rest) >= 1 /\ Len(rest') = Len(rest) - 1 /\ h = rest[1]
      /\ \A i \in 1 .. Len(rest') : rest'[i] = rest[i + 1]
      /\ rest' \in Seq(Nat)
  BY <1>1
<1>3. \A i \in 1 .. Len(rest) :
        rest[i] \in Log!Ids => i = 1 /\ Len(rest) = Log!SizeOf(rest[1])
  BY DEF FrameInv
<1>4. ASSUME NEW i \in 1 .. Len(rest') PROVE rest'[i] \notin Log!Ids
  <2>1. i + 1 \in 1 .. Len(rest) /\ i + 1 # 1 /\ rest'[i] = rest[i + 1]
    BY <1>2
  <2>2. QED
    BY <1>3, <2>1
<1>5. Pending(rest') = Len(rest) - 1
  <2>1. rest' # <<>> => rest'[1] \notin Log!Ids
    BY <1>2, <1>4
  <2>2. Pending(rest') = Len(rest')
    BY <2>1 DEF Pending
  <2>3. QED
    BY <1>2, <2>2
<1>6. /\ Recent(buffer', next', 1) = h
      /\ \A j \in 1 .. filled' - 1 :
              j \in 1 .. filled /\ Recent(buffer', next', j + 1) = Recent(buffer, next, j)
  BY RecentPut
<1>7. filled' < LogSize => next' = filled' /\ \A i \in next' .. LogSize - 1 : buffer'[i] = 0
  <2> SUFFICES ASSUME filled' < LogSize
               PROVE  next' = filled' /\ \A i \in next' .. LogSize - 1 : buffer'[i] = 0
    OBVIOUS
  <2>1. filled < LogSize /\ filled' = filled + 1 /\ next = filled
    BY <1>1, LogFacts DEF FrameInv
  <2>2. next' = next + 1
    BY <1>1, <2>1, LogFacts DEF Log!Wrap
  <2>3. \A i \in next .. LogSize - 1 : buffer[i] = 0
    BY <2>1 DEF FrameInv
  <2>4. QED
    BY <1>1, <2>1, <2>2, <2>3
<1> HIDE DEF h
<1>8. ASSUME NEW j \in 1 .. filled', Recent(buffer', next', j) \in Log!Ids
      PROVE  LET e == j - Log!SizeOf(Recent(buffer', next', j))
             IN  e = -Pending(rest') \/ (e >= 1 /\ Recent(buffer', next', e) \in Log!Ids)
  <2>1. CASE j = 1
    <3>1. Recent(buffer', next', j) = h /\ h \in Log!Ids
      BY <1>6, <1>8, <2>1
    <3>2. Len(rest) = Log!SizeOf(h)
      BY <1>2, <1>3, <3>1
    <3>3. j - Log!SizeOf(Recent(buffer', next', j)) = 1 - Len(rest)
      BY <2>1, <3>1, <3>2
    <3>4. QED
      BY <1>2, <1>5, <3>3
  <2>2. CASE j # 1
    <3> DEFINE i == j - 1
    <3>1. i \in 1 .. filled' - 1 /\ i + 1 = j /\ filled' \in Nat
      BY <1>1, <2>2, LogFacts
    <3>2. i \in 1 .. filled /\ Recent(buffer', next', j) = Recent(buffer, next, i)
      BY <1>6, <3>1
    <3> DEFINE s == Log!SizeOf(Recent(buffer, next, i))
               e == i - s
    <3>3. s \in 1 .. LogSize /\ Recent(buffer, next, i) \in Log!Ids
      BY <1>8, <3>2, LogFacts
    <3>4. e = -Pending(rest) \/ (e >= 1 /\ Recent(buffer, next, e) \in Log!Ids)
      BY <3>2, <3>3 DEF FrameInv
    <3>5. j - Log!SizeOf(Recent(buffer', next', j)) = e + 1
      BY <3>1, <3>2, <3>3
    <3>9. i \in Int /\ filled' \in Int /\ i <= filled' - 1
      BY <1>1, LogFacts
    <3> HIDE DEF i, s
    <3>10. s \in Int /\ s >= 1
      BY <3>3, LogFacts
    <3>6. CASE e >= 1 /\ Recent(buffer, next, e) \in Log!Ids
      <4>1. e \in 1 .. filled' - 1
        <5>1. \A x, y, z \in Int : x <= z /\ y >= 1 /\ x - y >= 1 => x - y \in 1 .. z
          OBVIOUS
        <5>2. e >= 1
          BY <3>6, Zenon
        <5>3. filled' - 1 \in Int
          BY <3>9
        <5>4. QED
          BY <3>9, <3>10, <5>1, <5>2, <5>3, Zenon
      <4>2. Recent(buffer', next', e + 1) = Recent(buffer, next, e)
        BY <1>6, <4>1
      <4>3. e + 1 >= 1 /\ Recent(buffer', next', e + 1) \in Log!Ids
        BY <3>6, <4>1, <4>2
      <4>4. QED
        BY <3>5, <4>3
    <3>7. CASE e = -Pending(rest)
      <4>1. CASE rest[1] \in Log!Ids
        <5>1. Pending(rest) = 0
          BY <1>1, <4>1 DEF Pending
        <5>2. e + 1 = 1 /\ Recent(buffer', next', e + 1) \in Log!Ids
          BY <1>2, <1>6, <3>7, <4>1, <5>1
        <5>3. QED
          BY <3>5, <5>2
      <4>2. CASE rest[1] \notin Log!Ids
        <5>1. Pending(rest) = Len(rest)
          BY <4>2 DEF Pending
        <5>2. e + 1 = -Pending(rest')
          BY <1>2, <1>5, <3>7, <5>1
        <5>3. QED
          BY <3>5, <5>2
      <4>3. QED
        BY <4>1, <4>2
    <3>8. QED
      BY <3>4, <3>6, <3>7
  <2>3. QED
    BY <2>1, <2>2
<1>9. \A i \in 1 .. Len(rest') :
        rest'[i] \in Log!Ids => i = 1 /\ Len(rest') = Log!SizeOf(rest'[1])
  BY <1>4
<1>10. \A j \in 1 .. filled' : Recent(buffer', next', j) \in Log!Ids =>
         LET e == j - Log!SizeOf(Recent(buffer', next', j))
         IN  e = -Pending(rest') \/ (e >= 1 /\ Recent(buffer', next', e) \in Log!Ids)
  BY <1>8
<1>11. QED
  BY <1>7, <1>9, <1>10 DEF FrameInv

\* A record is begun behind whole records.
LEMMA FrameBegin ==
  ASSUME RingInv, FrameInv, NEW t \in Loggers, NEW r \in LogRecords, Log!BeginRecord(t, r)
  PROVE  FrameInv' /\ Pending(rest') = 0
<1>1. rest = <<>> /\ rest' = r /\ UNCHANGED <<buffer, next, filled>>
  BY DEF Log!BeginRecord, Log!Unmasked, RingInv, Log!ringVars
<1>2. Pending(rest) = 0
  BY <1>1 DEF Pending
<1>3. /\ r \in Seq(Nat) /\ Len(r) \in 1 .. LogSize /\ r[1] \in Log!Ids
      /\ Len(r) = Log!SizeOf(r[1]) /\ \A i \in 2 .. Len(r) : r[i] \notin Log!Ids
  BY LogFacts
<1>4. Pending(rest') = 0
  <2>1. r # <<>>
    BY <1>3
  <2>2. QED
    BY <1>1, <1>3, <2>1 DEF Pending
<1>5. \A j : Recent(buffer', next', j) = Recent(buffer, next, j)
  BY <1>1 DEF Recent
<1>6. \A i \in 1 .. Len(rest') :
        rest'[i] \in Log!Ids => i = 1 /\ Len(rest') = Log!SizeOf(rest'[1])
  BY <1>1, <1>3
<1>7. \A j \in 1 .. filled' : Recent(buffer', next', j) \in Log!Ids =>
        LET e == j - Log!SizeOf(Recent(buffer', next', j))
        IN  e = -Pending(rest') \/ (e >= 1 /\ Recent(buffer', next', e) \in Log!Ids)
  BY <1>1, <1>2, <1>4, <1>5 DEF FrameInv
<1>8. filled' < LogSize => next' = filled' /\ \A i \in next' .. LogSize - 1 : buffer'[i] = 0
  BY <1>1 DEF FrameInv
<1>9. QED
  BY <1>4, <1>6, <1>7, <1>8 DEF FrameInv

-----------------------------------------------------------------------------
(* The dump of the log *)

\* What the dump is at: while it copies, something remains; it is over when nothing does.
PlaceInv ==
  /\ dumpPc \in {"chunk", "copy"} => remaining # 0
  /\ dumpPc = "done" => remaining = 0
  /\ dumpPc # "copy" => payload = <<>>
  /\ dumpPc = "copy" => Len(payload) < Log!CurrentSize

\* With nothing logged and nothing refused the host has the first bytes of the ring, and the
\* chunk the ones behind them.
HostInv ==
  /\ quiet => dumpPc # "idle" /\ index = next /\ Pending(rest) = 0
  /\ quiet /\ ~refused /\ dumpPc \in {"chunk", "copy", "done"} =>
       /\ host.index = index /\ Len(host.bytes) = LogSize - remaining
       /\ \A i \in 1 .. LogSize - remaining : host.bytes[i] = buffer[i - 1]
       /\ \A i \in 1 .. Len(payload) : payload[i] = buffer[LogSize - remaining + i - 1]

\* The types, but those of the flags, which the provers take apart from the others.
DumpTyped ==
  /\ buffer \in [0 .. LogSize - 1 -> Log!Bytes]
  /\ next \in 0 .. LogSize - 1 /\ filled \in 0 .. LogSize
  /\ owner \in Loggers \cup {"none"} /\ rest \in Seq(Log!Bytes)
  /\ dumpPc \in {"idle", "meta", "chunk", "copy", "done"}
  /\ index \in 0 .. LogSize - 1 /\ remaining \in 0 .. LogSize
  /\ payload \in Seq(Log!Bytes) /\ Len(payload) <= Chunk
  /\ host \in [index : 0 .. LogSize - 1, bytes : Seq(Log!Bytes)]
  /\ begun \in Seq(Log!Bytes)
Flags == quiet \in BOOLEAN /\ refused \in BOOLEAN

CopyInv == DumpTyped /\ PlaceInv /\ HostInv

\* At first there is no dump.
LEMMA CopyInit == Log!Init => CopyInv
<1> SUFFICES ASSUME Log!Init PROVE CopyInv
  OBVIOUS
<1>1. DumpTyped
  BY LogFacts DEF Log!Init, DumpTyped
<1>2. PlaceInv /\ HostInv
  BY DEF Log!Init, PlaceInv, HostInv
<1>3. QED
  BY <1>1, <1>2 DEF CopyInv

\* A chunk is no longer than what remains.
LEMMA ChunkFits ==
  ASSUME CopyInv
  PROVE  /\ Log!CurrentSize \in 0 .. Chunk /\ Log!CurrentSize <= remaining
         /\ remaining # 0 => Log!CurrentSize >= 1
         /\ Log!CurrentSize \in Int /\ remaining \in 0 .. LogSize
BY LogFacts DEF CopyInv, DumpTyped, Log!CurrentSize

\* A byte written ends the quiet.
LEMMA CopyWrite == ASSUME RingInv, CopyInv, Log!WriteByte PROVE CopyInv'
<1>1. DumpTyped /\ PlaceInv
  BY DEF CopyInv
<1>2. /\ buffer' = [buffer EXCEPT ![next] = Head(rest)] /\ next' = Log!Wrap(next + 1)
      /\ filled' = IF filled < LogSize THEN filled + 1 ELSE LogSize
      /\ rest' = Tail(rest) /\ rest # <<>> /\ ~quiet'
      /\ UNCHANGED <<owner, dumpPc, index, remaining, payload, host, begun, refused>>
  BY DEF Log!WriteByte, Log!dumpVars
<1>3. rest \in Seq(Log!Bytes) /\ Head(rest) \in Log!Bytes /\ Tail(rest) \in Seq(Log!Bytes)
  BY <1>1, <1>2 DEF DumpTyped
<1>4. next' \in 0 .. LogSize - 1 /\ filled' \in 0 .. LogSize
  BY <1>1, <1>2, LogFacts DEF DumpTyped, Log!Wrap
<1>5. buffer' \in [0 .. LogSize - 1 -> Log!Bytes]
  BY <1>1, <1>2, <1>3 DEF DumpTyped
<1>6. DumpTyped'
  BY <1>1, <1>2, <1>3, <1>4, <1>5 DEF DumpTyped
<1>7. PlaceInv'
  BY <1>1, <1>2 DEF PlaceInv, Log!CurrentSize
<1>8. HostInv'
  BY <1>2 DEF HostInv
<1>9. QED
  BY <1>6, <1>7, <1>8 DEF CopyInv

\* A record that is begun has written nothing.
LEMMA CopyRecord ==
  ASSUME RingInv, FrameInv, CopyInv, NEW t \in Loggers, NEW r \in LogRecords,
         Log!BeginRecord(t, r)
  PROVE  CopyInv'
<1>1. /\ rest' = r /\ owner' = t
      /\ UNCHANGED <<buffer, next, filled, dumpPc, index, remaining, payload, host, begun,
                     quiet, refused>>
  BY DEF Log!BeginRecord, Log!ringVars, Log!dumpVars, Log!hostVars
<1>2. Pending(rest') = 0
  BY FrameBegin
<1>3. DumpTyped'
  BY <1>1, LogFacts DEF CopyInv, DumpTyped
<1>4. PlaceInv'
  BY <1>1 DEF CopyInv, PlaceInv, Log!CurrentSize
<1>5. HostInv'
  BY <1>1, <1>2 DEF CopyInv, HostInv
<1>6. QED
  BY <1>3, <1>4, <1>5 DEF CopyInv

\* Nor does its end.
LEMMA CopyEnd == ASSUME CopyInv, Log!EndRecord PROVE CopyInv'
<1>1. /\ owner' = "none"
      /\ UNCHANGED <<buffer, next, filled, rest, dumpPc, index, remaining, payload, host, begun,
                     quiet, refused>>
  BY DEF Log!EndRecord, Log!ringVars, Log!dumpVars, Log!hostVars
<1>2. DumpTyped'
  BY <1>1 DEF CopyInv, DumpTyped
<1>3. PlaceInv' /\ HostInv'
  BY <1>1 DEF CopyInv, PlaceInv, HostInv, Log!CurrentSize
<1>4. QED
  BY <1>2, <1>3 DEF CopyInv

\* The bytes of the log are bytes.
LEMMA WindowTyped == ASSUME CopyInv PROVE Log!Window \in Seq(Log!Bytes)
<1>1. /\ buffer \in [0 .. LogSize - 1 -> Log!Bytes]
      /\ next \in 0 .. LogSize - 1 /\ filled \in 0 .. LogSize
  BY DEF CopyInv, DumpTyped
<1>2. Log!Window = [i \in 1 .. filled |-> buffer[Place(next, filled, i)]]
  BY DEF Log!Window, Place
<1>3. \A i \in 1 .. filled : buffer[Place(next, filled, i)] \in Log!Bytes
  <2> TAKE i \in 1 .. filled
  <2>1. Place(next, filled, i) \in 0 .. LogSize - 1
    BY <1>1, Places
  <2>2. QED
    BY <1>1, <2>1
<1>4. QED
  BY <1>1, <1>2, <1>3

\* The dump begins with whole records; a chunk begins where the last one ended; a refused
\* one leaves nothing behind.
LEMMA CopyDump ==
  ASSUME RingInv, CopyInv, Log!DumpBegin \/ Log!PublishMeta \/ Log!PublishChunk \/ Log!DumpEnd
  PROVE  CopyInv'
<1> USE DEF Log!ringVars, Log!critVars
<1>1. DumpTyped /\ PlaceInv /\ HostInv
  BY DEF CopyInv
<1>2. UNCHANGED <<buffer, next, filled, owner, rest>>
  BY DEF Log!DumpBegin, Log!PublishMeta, Log!PublishChunk, Log!DumpEnd
<1>3. CASE Log!DumpBegin
  <2>1. /\ index' = next /\ begun' = Log!Window /\ ~refused' /\ dumpPc' = "meta"
        /\ quiet' /\ dumpPc = "idle" /\ owner = "none" /\ UNCHANGED <<remaining, payload, host>>
        /\ quiet' \in BOOLEAN /\ refused' \in BOOLEAN
    BY <1>3 DEF Log!DumpBegin, Log!Unmasked
  <2>2. Pending(rest') = 0
    BY <1>2, <2>1 DEF RingInv, Pending
  <2>3. DumpTyped'
    <3>1. Log!Window \in Seq(Log!Bytes)
      BY WindowTyped
    <3>2. QED
      BY <1>1, <1>2, <2>1, <3>1 DEF DumpTyped
  <2>4. PlaceInv'
    BY <1>1, <2>1 DEF PlaceInv
  <2>5. HostInv'
    BY <1>2, <2>1, <2>2 DEF HostInv
  <2>6. QED
    BY <2>3, <2>4, <2>5 DEF CopyInv
<1>4. CASE Log!PublishMeta
  <2>1. /\ remaining' = LogSize /\ dumpPc = "meta" /\ dumpPc' = "chunk"
        /\ UNCHANGED <<index, payload, begun, quiet>>
        /\ \/ host' = [index |-> index, bytes |-> <<>>] /\ UNCHANGED refused
           \/ refused' = TRUE /\ UNCHANGED host
    BY <1>4 DEF Log!PublishMeta
  <2>2. DumpTyped'
    <3>1. host' \in [index : 0 .. LogSize - 1, bytes : Seq(Log!Bytes)]
      <4>1. host' = [index |-> index, bytes |-> <<>>] \/ host' = host
        BY <2>1, Zenon
      <4>2. index \in 0 .. LogSize - 1 /\ <<>> \in Seq(Log!Bytes)
        BY <1>1 DEF DumpTyped
      <4>3. host \in [index : 0 .. LogSize - 1, bytes : Seq(Log!Bytes)]
        BY <1>1 DEF DumpTyped
      <4>4. CASE host' = host
        BY <4>3, <4>4
      <4>5. CASE host' = [index |-> index, bytes |-> <<>>]
        <5>1. [index |-> index, bytes |-> <<>>] \in
                [index : 0 .. LogSize - 1, bytes : Seq(Log!Bytes)]
          BY <4>2, Zenon
        <5>2. QED
          BY <4>5, <5>1, Zenon
      <4>6. QED
        BY <4>1, <4>4, <4>5
    <3>2. QED
      BY <1>1, <1>2, <2>1, <3>1, LogFacts DEF DumpTyped
  <2>3. PlaceInv'
    BY <1>1, <2>1, LogFacts DEF PlaceInv
  <2>4. HostInv'
    BY <1>1, <1>2, <2>1, LogFacts DEF HostInv, PlaceInv
  <2>5. QED
    BY <2>2, <2>3, <2>4 DEF CopyInv
<1>5. CASE Log!PublishChunk
  <2>1. dumpPc = "chunk" /\ payload = <<>> /\ UNCHANGED <<index, host, begun, quiet>>
    BY <1>1, <1>5 DEF Log!PublishChunk, PlaceInv
  <2>2. CASE dumpPc' = "copy" /\ UNCHANGED <<remaining, payload, refused>>
    <3>1. DumpTyped'
      BY <1>1, <1>2, <2>1, <2>2 DEF DumpTyped
    <3>2. PlaceInv'
      BY <1>1, <2>1, <2>2, ChunkFits DEF PlaceInv, Log!CurrentSize
    <3>3. HostInv'
      BY <1>1, <1>2, <2>1, <2>2 DEF HostInv
    <3>4. QED
      BY <3>1, <3>2, <3>3 DEF CopyInv
  <2>3. CASE refused' = TRUE /\ Log!AfterChunk
    <3>1. /\ remaining' = remaining - Log!CurrentSize /\ payload' = <<>>
          /\ dumpPc' = IF remaining = Log!CurrentSize THEN "done" ELSE "chunk"
      BY <2>3 DEF Log!AfterChunk
    <3>2. DumpTyped'
      BY <1>1, <1>2, <2>1, <2>3, <3>1, ChunkFits, LogFacts DEF DumpTyped
    <3>3. PlaceInv'
      BY <3>1, ChunkFits DEF PlaceInv
    <3>4. HostInv'
      BY <1>1, <1>2, <2>1, <2>3, <3>1 DEF HostInv
    <3>5. QED
      BY <3>2, <3>3, <3>4 DEF CopyInv
  <2>4. QED
    BY <1>5, <2>2, <2>3 DEF Log!PublishChunk
<1>6. CASE Log!DumpEnd
  <2>1. /\ dumpPc = "done" /\ dumpPc' = "idle" /\ index' = 0
        /\ host' = [index |-> 0, bytes |-> <<>>]
        /\ begun' = <<>> /\ quiet' = FALSE /\ refused' = FALSE
        /\ UNCHANGED <<remaining, payload>>
    BY <1>6 DEF Log!DumpEnd
  <2>2. DumpTyped'
    BY <1>1, <1>2, <2>1, LogFacts DEF DumpTyped
  <2>3. PlaceInv' /\ HostInv'
    BY <1>1, <2>1 DEF PlaceInv, HostInv
  <2>4. QED
    BY <2>2, <2>3 DEF CopyInv
<1>7. QED
  BY <1>3, <1>4, <1>5, <1>6

\* A byte is copied behind those the chunk and the host have.
LEMMA CopyByteKept == ASSUME CopyInv, Log!CopyByte PROVE CopyInv'
<1> DEFINE c == Append(payload, buffer[Log!Source + Len(payload)])
           m == LogSize - remaining
           p == Len(payload)
<1>1. DumpTyped /\ PlaceInv /\ HostInv
  BY DEF CopyInv
<1>2. /\ dumpPc = "copy"
      /\ UNCHANGED <<buffer, next, filled, owner, rest, index, begun, quiet, refused>>
  BY DEF Log!CopyByte, Log!ringVars, Log!critVars
<1>3. /\ remaining \in 1 .. LogSize /\ p < Log!CurrentSize /\ p \in Nat
      /\ Log!CurrentSize \in 1 .. Chunk /\ Log!CurrentSize <= remaining
      /\ m \in 0 .. LogSize - 1 /\ m + p \in 0 .. LogSize - 1
  BY <1>1, <1>2, ChunkFits, LogFacts DEF DumpTyped, PlaceInv
<1>4. c = Append(payload, buffer[m + p])
  BY DEF Log!Source
<1>5. /\ payload \in Seq(Log!Bytes) /\ buffer[m + p] \in Log!Bytes
      /\ host \in [index : 0 .. LogSize - 1, bytes : Seq(Log!Bytes)]
  BY <1>1, <1>3 DEF DumpTyped
<1>6. /\ c \in Seq(Log!Bytes) /\ Len(c) = p + 1 /\ c[p + 1] = buffer[m + p]
      /\ \A i \in 1 .. p : c[i] = payload[i]
  <2> HIDE DEF c
  <2>1. QED
    BY <1>4, <1>5, AppendProperties
<1>7. quiet /\ ~refused => \A i \in 1 .. p + 1 : c[i] = buffer[m + i - 1]
  <2> SUFFICES ASSUME quiet, ~refused, NEW i \in 1 .. p + 1 PROVE c[i] = buffer[m + i - 1]
    OBVIOUS
  <2>1. \A k \in 1 .. p : payload[k] = buffer[m + k - 1]
    BY <1>1, <1>2 DEF HostInv
  <2> HIDE DEF c, p
  <2>2. CASE i \in 1 .. p
    BY <1>6, <2>1, <2>2
  <2>3. CASE i = p + 1
    <3>1. m + i - 1 = m + p
      BY <1>3, <2>3
    <3>2. QED
      BY <1>6, <2>3, <3>1
  <2>4. QED
    BY <1>3, <2>2, <2>3
<1>8. CASE Len(c) < Log!CurrentSize
  <2>1. payload' = c /\ UNCHANGED <<remaining, dumpPc, host>>
    BY <1>8 DEF Log!CopyByte
  <2> HIDE DEF c, p
  <2>2. DumpTyped'
    <3>1. Len(c) <= Chunk
      BY <1>3, <1>6, <1>8, LogFacts
    <3>2. QED
      BY <1>1, <1>2, <1>6, <2>1, <3>1 DEF DumpTyped
  <2>3. PlaceInv'
    BY <1>1, <1>2, <1>8, <2>1 DEF PlaceInv, Log!CurrentSize
  <2>4. HostInv'
    BY <1>1, <1>2, <1>6, <1>7, <2>1 DEF HostInv
  <2>5. QED
    BY <2>2, <2>3, <2>4 DEF CopyInv
<1>9. CASE ~ (Len(c) < Log!CurrentSize)
  <2> DEFINE h == host.bytes
             s == Log!CurrentSize
  <2>1. /\ remaining' = remaining - s /\ payload' = <<>>
        /\ dumpPc' = IF remaining = s THEN "done" ELSE "chunk"
        /\ host' = [host EXCEPT !.bytes = h \o c]
    BY <1>9 DEF Log!CopyByte, Log!AfterChunk
  <2>2. Len(c) = s /\ s \in Int
    BY <1>3, <1>6, <1>9
  <2>3. h \in Seq(Log!Bytes)
    BY <1>5
  <2>4. /\ h \o c \in Seq(Log!Bytes) /\ Len(h \o c) = Len(h) + s
        /\ \A i \in 1 .. Len(h) : (h \o c)[i] = h[i]
        /\ \A i \in 1 .. s : (h \o c)[Len(h) + i] = c[i]
    <3> HIDE DEF h, c, s
    <3>1. QED
      BY <1>6, <2>2, <2>3
  <2> DEFINE b == h \o c
  <2> HIDE DEF b, c, p
  <2>5. host' = [host EXCEPT !.bytes = b]
    BY <2>1 DEF b
  <2>6. /\ b \in Seq(Log!Bytes) /\ Len(b) = Len(h) + s
        /\ \A i \in 1 .. Len(h) : b[i] = h[i]
        /\ \A i \in 1 .. s : b[Len(h) + i] = c[i]
    BY <2>4 DEF b
  <2>7. host' \in [index : 0 .. LogSize - 1, bytes : Seq(Log!Bytes)]
        /\ host'.index = host.index /\ host'.bytes = b
    BY <1>5, <2>5, <2>6
  <2>8. DumpTyped'
    <3>1. remaining' \in 0 .. LogSize
      BY <1>3, <2>1, LogFacts
    <3>2. dumpPc' \in {"idle", "meta", "chunk", "copy", "done"}
      BY <2>1
    <3>3. payload' \in Seq(Log!Bytes) /\ Len(payload') <= Chunk
      BY <2>1, LogFacts
    <3>4. QED
      BY <1>1, <1>2, <2>7, <3>1, <3>2, <3>3 DEF DumpTyped
  <2>9. PlaceInv'
    BY <1>3, <2>1 DEF PlaceInv
  <2>10. ASSUME quiet, ~refused
         PROVE  /\ host'.index = index' /\ Len(host'.bytes) = LogSize - remaining'
                /\ \A i \in 1 .. LogSize - remaining' : host'.bytes[i] = buffer'[i - 1]
    <3>1. /\ host.index = index /\ Len(h) = m /\ \A i \in 1 .. m : h[i] = buffer[i - 1]
      BY <1>1, <1>2, <2>10 DEF HostInv
    <3>2. LogSize - remaining' = m + s
      BY <1>3, <2>1, LogFacts
    <3>3. \A i \in 1 .. s : c[i] = buffer[m + i - 1]
      BY <1>6, <1>7, <2>2, <2>10
    <3> HIDE DEF h, s, m
    <3>4. ASSUME NEW i \in 1 .. m + s PROVE b[i] = buffer[i - 1]
      <4>0. m \in Int /\ s \in Int
        BY <1>3, <2>2
      <4>1. CASE i <= m
        BY <2>6, <3>1, <4>0, <4>1
      <4>2. CASE i > m
        <5> DEFINE k == i - m
        <5>1. k \in 1 .. s /\ m + k = i /\ m + k - 1 = i - 1
          BY <3>4, <4>0, <4>2
        <5> HIDE DEF k
        <5>2. b[m + k] = c[k] /\ c[k] = buffer[m + k - 1]
          BY <2>6, <3>1, <3>3, <5>1
        <5>3. QED
          BY <5>1, <5>2
      <4>3. QED
        BY <4>0, <4>1, <4>2
    <3>5. QED
      BY <1>2, <2>6, <2>7, <3>1, <3>2, <3>4
  <2>11. HostInv'
    BY <1>1, <1>2, <2>1, <2>10 DEF HostInv
  <2>12. QED
    BY <2>8, <2>9, <2>11 DEF CopyInv
<1>10. QED
  BY <1>8, <1>9

\* Each step keeps the frame of the records and what the host has.
LEMMA CopyNext == ASSUME RingInv, FrameInv, CopyInv, Log!Next PROVE FrameInv' /\ CopyInv'
<1>1. CASE Log!WriteByte
  BY <1>1, CopyWrite, FramePut
<1>2. ASSUME NEW t \in Loggers, NEW r \in LogRecords, Log!BeginRecord(t, r)
      PROVE  FrameInv' /\ CopyInv'
  BY <1>2, CopyRecord, FrameBegin
<1>3. CASE \/ Log!EndRecord \/ Log!DumpBegin \/ Log!PublishMeta \/ Log!PublishChunk
           \/ Log!CopyByte \/ Log!DumpEnd
  <2>1. UNCHANGED <<buffer, next, filled, rest>>
    BY <1>3 DEF Log!EndRecord, Log!DumpBegin, Log!PublishMeta, Log!PublishChunk,
                Log!CopyByte, Log!DumpEnd, Log!ringVars, Log!critVars
  <2>2. FrameInv'
    BY <2>1 DEF FrameInv
  <2>3. CopyInv'
    BY <1>3, CopyEnd, CopyDump, CopyByteKept
  <2>4. QED
    BY <2>2, <2>3
<1>4. QED
  BY <1>1, <1>2, <1>3 DEF Log!Next

\* The flags are set to true and false only.
LEMMA FlagsKept == Flags /\ Log!Next => Flags'
BY Zenon DEF Flags, Log!Next, Log!BeginRecord, Log!WriteByte, Log!EndRecord, Log!DumpBegin,
   Log!PublishMeta, Log!PublishChunk, Log!CopyByte, Log!DumpEnd, Log!hostVars

\* They are at first, too.
LEMMA FlagsInit == Log!Init => Flags
BY Zenon DEF Flags, Log!Init

\* With the flags the types of the log are complete.
LEMMA DumpIsTyped == DumpTyped /\ Flags => Log!TypeOK
BY Zenon DEF DumpTyped, Flags, Log!TypeOK

-----------------------------------------------------------------------------
(* The decoder                                                               *)

\* One list behind another.
Then(a, b) == a \o b

\* The last byte of the record that begins at place k of x, the place behind it, and what the
\* decoder reads from k on, if g is what it reads from later places on.
Final(x, k) == k + Log!SizeOf(x[k]) - 1
Cut(x, k) == k + Log!SizeOf(x[k])
Stops(x, k) == k > Len(x) \/ x[k] \notin Log!Ids \/ Final(x, k) > Len(x)
Piece(x, k) == SubSeq(x, k, Final(x, k))
Step(x, g, k) == IF Stops(x, k) THEN <<>> ELSE Then(<<Piece(x, k)>>, g[Cut(x, k)])
Reading(x, g) == g = [k \in 1 .. Len(x) + 1 |-> Step(x, g, k)]

Starts(x) == {k \in 1 .. Len(x) : x[k] \in Log!Ids}
First(x) == CHOOSE k \in Starts(x) : \A j \in Starts(x) : k <= j
Read(x) == CHOOSE g : Reading(x, g)

\* The decoder of lwl_decoder.py, with its parts named.
LEMMA DecodedIs ==
  ASSUME NEW x
  PROVE  Log!Decoded(x) = IF Starts(x) = {} THEN <<>> ELSE Read(x)[First(x)]
BY Zenon DEF Log!Decoded, Starts, First, Read, Reading, Step, Stops, Piece, Final, Cut, Then

\* What the decoder reads exists: from the end to the beginning each place needs later ones only.
LEMMA ReadingExists ==
  ASSUME NEW x \in Seq(Nat)
  PROVE  \E g : Reading(x, g)
<1> DEFINE L == Len(x)
           Fits(g, m) == /\ DOMAIN g = 1 .. L + 1
                         /\ g = [k \in 1 .. L + 1 |-> g[k]]
                         /\ \A k \in 1 .. L + 1 : k + m > L + 1 => g[k] = Step(x, g, k)
           E == {m \in Nat : \E g : Fits(g, m)}
<1>1. L \in Nat
  OBVIOUS
<1>2. 0 \in E
  <2> DEFINE g == [k \in 1 .. L + 1 |-> <<>>]
  <2>1. Fits(g, 0)
    BY <1>1
  <2> HIDE DEF g, Fits
  <2>2. QED
    BY <2>1
<1>3. ASSUME NEW m \in Nat, m \in E PROVE m + 1 \in E
  <2>1. PICK g : Fits(g, m)
    BY <1>3
  <2> DEFINE p == L + 1 - m
             h == [k \in 1 .. L + 1 |-> IF k = p THEN Step(x, g, p) ELSE g[k]]
  <2>2. ASSUME NEW k \in 1 .. L + 1, k + m >= L + 1 PROVE Step(x, h, k) = Step(x, g, k)
    <3>1. CASE Stops(x, k)
      BY <3>1 DEF Step
    <3>2. CASE ~ Stops(x, k)
      <4>1. k \in 1 .. L /\ x[k] \in Log!Ids /\ Cut(x, k) <= L + 1
        BY <1>1, <3>2, LogFacts DEF Stops, Final, Cut
      <4>2. Cut(x, k) \in 1 .. L + 1 /\ Cut(x, k) > k
        BY <1>1, <4>1, LogFacts DEF Cut
      <4>3. Cut(x, k) # p
        BY <1>1, <2>2, <4>2
      <4>4. h[Cut(x, k)] = g[Cut(x, k)]
        BY <4>2, <4>3
      <4> HIDE DEF h
      <4>5. QED
        BY <4>4 DEF Step
    <3>3. QED
      BY <3>1, <3>2
  <2>3. ASSUME NEW k \in 1 .. L + 1, k + (m + 1) > L + 1 PROVE h[k] = Step(x, h, k)
    <3>1. k + m >= L + 1 /\ (k = p \/ k + m > L + 1)
      BY <1>1, <2>3
    <3>2. Step(x, h, k) = Step(x, g, k)
      BY <2>2, <3>1
    <3>3. CASE k = p
      <4>1. h[k] = Step(x, g, k)
        BY <3>3
      <4>2. QED
        BY <3>2, <4>1
    <3>4. CASE k # p
      <4>1. h[k] = g[k]
        BY <3>4
      <4>2. g[k] = Step(x, g, k)
        BY <2>1, <3>1, <3>4
      <4>3. QED
        BY <3>2, <4>1, <4>2
    <3>5. QED
      BY <3>3, <3>4
  <2>4. DOMAIN h = 1 .. L + 1 /\ h = [k \in 1 .. L + 1 |-> h[k]]
    OBVIOUS
  <2> HIDE DEF h
  <2>5. Fits(h, m + 1)
    BY <2>3, <2>4
  <2> HIDE DEF Fits
  <2>6. QED
    BY <2>5
<1>4. L + 1 \in E
  <2> HIDE DEF E, L
  <2>1. QED
    BY <1>1, <1>2, <1>3, EveryNumber
<1>5. PICK g : Fits(g, L + 1)
  BY <1>4
<1>6. \A k \in 1 .. L + 1 : g[k] = Step(x, g, k)
  BY <1>1, <1>5
<1>7. g = [k \in 1 .. L + 1 |-> Step(x, g, k)]
  BY <1>5, <1>6
<1>8. QED
  BY <1>7 DEF Reading

\* What the decoder reads from a place on.
LEMMA ReadIs ==
  ASSUME NEW x \in Seq(Nat)
  PROVE  \A k \in 1 .. Len(x) + 1 : Read(x)[k] = Step(x, Read(x), k)
<1>1. Reading(x, Read(x))
  BY ReadingExists DEF Read
<1> DEFINE g == Read(x)
<1>2. g = [k \in 1 .. Len(x) + 1 |-> Step(x, g, k)]
  BY <1>1, Zenon DEF Reading
<1> HIDE DEF g
<1>3. \A k \in 1 .. Len(x) + 1 : g[k] = Step(x, g, k)
  BY <1>2, Zenon
<1>4. QED
  BY <1>3 DEF g

\* In a log whose records are whole each ends where the next begins, or at the end.
Framed(a) ==
  \A k \in 1 .. Len(a) : a[k] \in Log!Ids =>
    Cut(a, k) = Len(a) + 1 \/ (Cut(a, k) <= Len(a) /\ a[Cut(a, k)] \in Log!Ids)

\* w is the log a with p zeros before it and q behind it.
Padded(w, a, p, q) ==
  /\ Len(w) = p + Len(a) + q
  /\ \A i \in 1 .. p : w[i] = 0
  /\ \A i \in 1 .. Len(a) : w[p + i] = a[i]
  /\ \A i \in 1 .. q : w[p + Len(a) + i] = 0

\* The first id is the one before all others.
LEMMA FirstIs ==
  ASSUME NEW x \in Seq(Nat), NEW k \in Starts(x), \A j \in Starts(x) : k <= j
  PROVE  First(x) = k
<1>1. First(x) \in Starts(x) /\ \A j \in Starts(x) : First(x) <= j
  BY DEF First
<1>2. \A j \in Starts(x) : j \in Nat
  BY DEF Starts
<1>3. QED
  BY <1>1, <1>2

\* If there is an id there is a first one.
LEMMA FirstFound ==
  ASSUME NEW x \in Seq(Nat), Starts(x) # {}
  PROVE  First(x) \in Starts(x) /\ \A j \in Starts(x) : First(x) <= j
<1>1. Starts(x) \subseteq Nat
  BY DEF Starts
<1>2. \E k \in Starts(x) : \A j \in Starts(x) : k <= j
  BY <1>1, LeastNumber
<1>3. QED
  BY <1>2 DEF First

\* A piece of a list of bytes.
LEMMA Cutting ==
  \A x \in Seq(Nat), c \in Nat, b \in Nat : 1 <= c /\ c <= b + 1 /\ b <= Len(x) =>
    /\ SubSeq(x, c, b) \in Seq(Nat) /\ Len(SubSeq(x, c, b)) = b - c + 1
    /\ \A i \in 1 .. b - c + 1 : SubSeq(x, c, b)[i] = x[c + i - 1]
<1> SUFFICES ASSUME NEW x \in Seq(Nat), NEW c \in Nat, NEW b \in Nat,
                    1 <= c, c <= b + 1, b <= Len(x)
             PROVE  /\ SubSeq(x, c, b) \in Seq(Nat) /\ Len(SubSeq(x, c, b)) = b - c + 1
                    /\ \A i \in 1 .. b - c + 1 : SubSeq(x, c, b)[i] = x[c + i - 1]
  OBVIOUS
<1>1. ASSUME NEW i \in c .. b PROVE x[i] \in Nat
  <2>1. i \in 1 .. Len(x)
    OBVIOUS
  <2>2. QED
    BY <2>1
<1>2. CASE c <= b
  BY <1>1, <1>2, SubSeqProperties
<1>3. CASE c = b + 1
  <2>1. SubSeq(x, c, b) = <<>>
    BY <1>3, SubSeqEmpty
  <2>2. QED
    BY <1>3, <2>1
<1>4. QED
  BY <1>2, <1>3

\* A piece of a list that is found in another one, p places later.
LEMMA SamePiece ==
  \A w, a \in Seq(Nat), p, k, b \in Nat :
    /\ 1 <= k /\ k <= b /\ b <= Len(a) /\ p + Len(a) <= Len(w)
    /\ \A i \in 1 .. Len(a) : w[p + i] = a[i]
    => SubSeq(w, p + k, p + b) = SubSeq(a, k, b)
<1> TAKE w, a \in Seq(Nat), p, k, b \in Nat
<1> HAVE /\ 1 <= k /\ k <= b /\ b <= Len(a) /\ p + Len(a) <= Len(w)
         /\ \A i \in 1 .. Len(a) : w[p + i] = a[i]
<1> DEFINE c == p + k
           d == p + b
           s == SubSeq(w, c, d)
           t == SubSeq(a, k, b)
<1>1. /\ c \in Nat /\ d \in Nat /\ 1 <= c /\ c <= d + 1 /\ d <= Len(w)
      /\ k <= b + 1 /\ d - c + 1 = b - k + 1
  OBVIOUS
<1>2. /\ t \in Seq(Nat) /\ Len(t) = b - k + 1
      /\ \A i \in 1 .. b - k + 1 : t[i] = a[k + i - 1]
  BY <1>1, Cutting, Zenon
<1>3. /\ s \in Seq(Nat) /\ Len(s) = b - k + 1
      /\ \A i \in 1 .. b - k + 1 : s[i] = w[c + i - 1]
  <2> HIDE DEF c, d
  <2>1. /\ s \in Seq(Nat) /\ Len(s) = d - c + 1
        /\ \A i \in 1 .. d - c + 1 : s[i] = w[c + i - 1]
    BY <1>1, Cutting, Zenon
  <2>2. QED
    BY <1>1, <2>1, Zenon
<1>4. ASSUME NEW i \in 1 .. b - k + 1 PROVE s[i] = t[i]
  <2> DEFINE j == k + i - 1
  <2>1. j \in 1 .. Len(a) /\ c + i - 1 = p + j
    OBVIOUS
  <2>2. w[p + j] = a[j]
    BY <2>1
  <2> HIDE DEF s, t
  <2>3. QED
    BY <1>2, <1>3, <2>1, <2>2
<1> HIDE DEF s, t
<1>5. s = t
  BY <1>2, <1>3, <1>4, SeqEqual
<1>6. QED
  BY <1>5 DEF s, t

\* The records of a log are read from the log between zeros as they are from the log.
LEMMA PaddedRecords ==
  ASSUME NEW w \in Seq(Nat), NEW a \in Seq(Nat), NEW p \in Nat, NEW q \in Nat,
         Framed(a), Padded(w, a, p, q)
  PROVE  \A k \in 1 .. Len(a) : a[k] \in Log!Ids => Read(w)[p + k] = Read(a)[k]
<1> DEFINE L == Len(a)
           M == Len(w)
           f == Read(w)
           g == Read(a)
           Good == {k \in 1 .. L + 1 : k = L + 1 \/ a[k] \in Log!Ids}
           E == {m \in Nat : \A k \in Good : k + m >= L + 1 => f[p + k] = g[k]}
<1>0. L = Len(a) /\ M = Len(w)
  OBVIOUS
<1>1. /\ L \in Nat /\ M \in Nat /\ M = p + L + q
      /\ \A i \in 1 .. L : w[p + i] = a[i]
      /\ q # 0 => w[p + (L + 1)] = 0
  BY DEF Padded
<1>3. /\ \A k \in 1 .. M + 1 : f[k] = Step(w, f, k)
      /\ \A k \in 1 .. L + 1 : g[k] = Step(a, g, k)
  BY ReadIs
<1> HIDE DEF f, g, L, M
<1>2. ASSUME NEW k \in Nat, NEW b \in Nat, 1 <= k, k <= b, b <= L
      PROVE  SubSeq(w, p + k, p + b) = SubSeq(a, k, b)
  <2> HIDE DEF Good, E
  <2>1. b <= Len(a) /\ p + Len(a) <= Len(w) /\ \A i \in 1 .. Len(a) : w[p + i] = a[i]
    BY <1>0, <1>1, <1>2
  <2>2. QED
    BY <1>2, <2>1, SamePiece
<1>4. 0 \in E
  <2>1. Stops(a, L + 1)
    BY <1>0, <1>1 DEF Stops
  <2>2. Stops(w, p + (L + 1))
    BY <1>0, <1>1, LogFacts DEF Stops
  <2>3. g[L + 1] = <<>>
    <3>1. L + 1 \in 1 .. L + 1
      BY <1>1
    <3>2. QED
      BY <1>3, <2>1, <3>1 DEF Step
  <2>4. f[p + (L + 1)] = <<>>
    <3>1. p + (L + 1) \in 1 .. M + 1
      BY <1>1
    <3>2. QED
      BY <1>3, <2>2, <3>1 DEF Step
  <2>5. \A k \in Good : k + 0 >= L + 1 => k = L + 1
    BY <1>1
  <2> HIDE DEF Good
  <2>6. QED
    BY <2>3, <2>4, <2>5
<1>5. ASSUME NEW m \in Nat, m \in E PROVE m + 1 \in E
  <2> SUFFICES ASSUME NEW k \in Good, k + (m + 1) >= L + 1 PROVE f[p + k] = g[k]
    OBVIOUS
  <2>1. \A j \in Good : j + m >= L + 1 => f[p + j] = g[j]
    BY <1>5
  <2>2. CASE k = L + 1
    BY <1>1, <2>1, <2>2
  <2>3. CASE k # L + 1
    <3> DEFINE e == Cut(a, k)
    <3>1. k \in 1 .. L /\ a[k] \in Log!Ids /\ w[p + k] = a[k]
      BY <1>1, <2>3
    <3>2. e = L + 1 \/ (e <= L /\ a[e] \in Log!Ids)
      BY <1>0, <3>1 DEF Framed
    <3>3. Log!SizeOf(a[k]) \in Int /\ Log!SizeOf(a[k]) >= 1
      BY <3>1, LogFacts
    <3> DEFINE z == Log!SizeOf(a[k])
    <3>15. e = k + z /\ Cut(w, p + k) = p + k + z
      BY <3>1 DEF Cut
    <3>16. z \in Int /\ z >= 1 /\ k \in Int /\ 1 <= k /\ k <= L
      BY <1>1, <3>1, <3>3
    <3> HIDE DEF e, z
    <3>4. e \in Int /\ e > k /\ Cut(w, p + k) = p + e /\ k \in Int /\ 1 <= k /\ k <= L
      BY <3>15, <3>16
    <3>5. e \in Good
      BY <1>1, <3>1, <3>2, <3>4
    <3>6. Final(a, k) = e - 1 /\ Final(w, p + k) = p + e - 1
      <4>1. Final(a, k) = k + z - 1 /\ Final(w, p + k) = p + k + z - 1
        BY <3>1 DEF Final, z
      <4>2. QED
        BY <3>15, <3>16, <4>1
    <3>7. e - 1 <= L /\ e - 1 >= k
      BY <1>1, <3>1, <3>2, <3>4
    <3>8. ~ Stops(a, k) /\ ~ Stops(w, p + k)
      <4>1. k <= Len(a) /\ Final(a, k) <= Len(a) /\ k \in Int /\ Final(a, k) \in Int
        BY <1>0, <1>1, <3>4, <3>6, <3>7
      <4>2. p + k <= Len(w) /\ Final(w, p + k) <= Len(w)
        BY <1>0, <1>1, <3>4, <3>6, <3>7
      <4>3. Len(a) \in Int /\ Len(w) \in Int /\ p + k \in Int /\ Final(w, p + k) \in Int
        BY <1>0, <1>1, <3>4, <3>6
      <4>4. a[k] \in Log!Ids /\ w[p + k] \in Log!Ids
        BY <3>1
      <4>5. ~ (k > Len(a)) /\ ~ (Final(a, k) > Len(a))
        BY <4>1, <4>3
      <4>6. ~ (p + k > Len(w)) /\ ~ (Final(w, p + k) > Len(w))
        BY <4>2, <4>3
      <4>7. QED
        BY <4>4, <4>5, <4>6, Zenon DEF Stops
    <3>9. f[p + e] = g[e]
      <4>1. e + m >= L + 1
        BY <1>1, <3>4
      <4> HIDE DEF Good
      <4>2. QED
        BY <2>1, <3>5, <4>1
    <3>10. Piece(w, p + k) = Piece(a, k)
      <4> DEFINE b == e - 1
      <4>1. k \in Nat /\ b \in Nat /\ 1 <= k /\ k <= b /\ b <= L /\ p + e - 1 = p + b
        BY <3>4, <3>7
      <4> HIDE DEF b
      <4>2. SubSeq(w, p + k, p + b) = SubSeq(a, k, b)
        BY <1>2, <4>1
      <4>3. Final(a, k) = b /\ Final(w, p + k) = p + b
        BY <3>6, <4>1 DEF b
      <4>4. QED
        BY <4>2, <4>3 DEF Piece
    <3>11. f[p + k] = Step(w, f, p + k) /\ g[k] = Step(a, g, k)
      <4>1. p + k \in 1 .. M + 1 /\ k \in 1 .. L + 1
        BY <1>1, <3>1
      <4>2. QED
        BY <1>3, <4>1
    <3>12. Step(w, f, p + k) = Then(<<Piece(w, p + k)>>, f[p + e])
      BY <3>4, <3>8 DEF Step
    <3>13. Step(a, g, k) = Then(<<Piece(a, k)>>, g[e])
      BY <3>8 DEF Step, e
    <3>14. QED
      BY <3>9, <3>10, <3>11, <3>12, <3>13
  <2>4. QED
    BY <2>2, <2>3
<1>6. ASSUME NEW k \in 1 .. L, a[k] \in Log!Ids PROVE f[p + k] = g[k]
  <2>1. L + 1 \in E
    <3> HIDE DEF E
    <3>1. QED
      BY <1>1, <1>4, <1>5, EveryNumber
  <2>2. k \in Good /\ k + (L + 1) >= L + 1
    BY <1>1, <1>6
  <2> HIDE DEF Good
  <2>3. QED
    BY <2>1, <2>2
<1>7. QED
  BY <1>0, <1>6 DEF f, g

\* The decoder skips zeros before a log of whole records, and stops at zeros behind it.
LEMMA PaddedDecoded ==
  ASSUME NEW w \in Seq(Nat), NEW a \in Seq(Nat), NEW p \in Nat, NEW q \in Nat,
         Framed(a), Padded(w, a, p, q)
  PROVE  Log!Decoded(w) = Log!Decoded(a)
<1>1. /\ Len(a) \in Nat /\ Len(w) = p + Len(a) + q
      /\ \A i \in 1 .. p : w[i] = 0
      /\ \A i \in 1 .. Len(a) : w[p + i] = a[i]
      /\ \A i \in 1 .. q : w[p + Len(a) + i] = 0
  BY DEF Padded
<1>2. ASSUME NEW k \in Starts(a) PROVE p + k \in Starts(w)
  BY <1>1 DEF Starts
<1>3. ASSUME NEW k \in Starts(w) PROVE k - p \in Starts(a)
  <2>1. k \in 1 .. Len(w) /\ w[k] # 0 /\ w[k] \in Log!Ids
    BY LogFacts DEF Starts
  <2>2. k > p
    BY <1>1, <2>1
  <2>3. k <= p + Len(a)
    <3> SUFFICES ASSUME k > p + Len(a) PROVE FALSE
      BY <1>1, <2>1
    <3> DEFINE i == k - p - Len(a)
    <3>1. i \in 1 .. q /\ k = p + Len(a) + i
      BY <1>1, <2>1
    <3> HIDE DEF i
    <3>2. QED
      BY <1>1, <2>1, <3>1
  <2> DEFINE i == k - p
  <2>4. i \in 1 .. Len(a) /\ k = p + i
    BY <1>1, <2>1, <2>2, <2>3
  <2> HIDE DEF i
  <2>5. a[i] \in Log!Ids
    BY <1>1, <2>1, <2>4
  <2>6. i \in Starts(a)
    BY <2>4, <2>5 DEF Starts
  <2>7. QED
    BY <2>6 DEF i
<1>4. CASE Starts(a) = {}
  <2>1. Starts(w) = {}
    BY <1>3, <1>4
  <2>2. QED
    BY <1>4, <2>1, DecodedIs
<1>5. CASE Starts(a) # {}
  <2> DEFINE s == First(a)
  <2>1. s \in Starts(a) /\ \A j \in Starts(a) : s <= j
    BY <1>5, FirstFound
  <2> HIDE DEF s
  <2>2. s \in 1 .. Len(a) /\ a[s] \in Log!Ids
    BY <2>1 DEF Starts
  <2>3. p + s \in Starts(w)
    BY <1>2, <2>1
  <2>4. ASSUME NEW j \in Starts(w) PROVE p + s <= j
    <3>1. s <= j - p /\ j \in Nat
      BY <1>3, <2>1 DEF Starts
    <3>2. QED
      BY <2>2, <3>1
  <2>5. First(w) = p + s
    BY <2>3, <2>4, FirstIs
  <2>6. Read(w)[p + s] = Read(a)[s]
    BY <2>2, PaddedRecords
  <2>7. Log!Decoded(w) = Read(w)[p + s]
    BY <2>3, <2>5, DecodedIs
  <2>8. Log!Decoded(a) = Read(a)[s]
    BY <1>5, DecodedIs DEF s
  <2>9. QED
    BY <2>6, <2>7, <2>8
<1>6. QED
  BY <1>4, <1>5

\* What the host has of a log that was left alone, and the log.
LEMMA HostHas ==
  ASSUME RingInv, FrameInv, CopyInv, dumpPc = "done", ~refused, quiet
  PROVE  /\ host.index = next /\ host.bytes \in Seq(Nat) /\ Len(host.bytes) = LogSize
         /\ \A i \in 1 .. LogSize : host.bytes[i] = buffer[i - 1]
         /\ Pending(rest) = 0 /\ next \in 0 .. LogSize - 1 /\ filled \in 0 .. LogSize
         /\ LogSize \in Nat /\ LogSize > 0 /\ next \in Nat /\ filled \in Nat
         /\ next <= filled
         /\ filled < LogSize => next = filled /\ \A i \in next .. LogSize - 1 : buffer[i] = 0
         /\ Log!Window \in Seq(Nat) /\ Len(Log!Window) = filled
         /\ \A i \in 1 .. filled : Log!Window[i] = buffer[Place(next, filled, i)]
<1>1. DumpTyped /\ PlaceInv /\ HostInv
  BY DEF CopyInv
<1>2. remaining = 0 /\ payload = <<>>
  BY <1>1 DEF PlaceInv
<1>3. /\ host.index = next /\ Len(host.bytes) = LogSize /\ Pending(rest) = 0
      /\ \A i \in 1 .. LogSize : host.bytes[i] = buffer[i - 1]
  BY <1>1, <1>2, LogFacts DEF HostInv
<1>4. host.bytes \in Seq(Log!Bytes)
  BY <1>1 DEF DumpTyped
<1>5. ASSUME NEW s \in Seq(Log!Bytes) PROVE s \in Seq(Nat)
  <2>1. \A i \in 1 .. Len(s) : s[i] \in Nat
    <3> TAKE i \in 1 .. Len(s)
    <3>1. s[i] \in Log!Bytes
      OBVIOUS
    <3>2. QED
      BY <3>1, LogFacts
  <2>2. QED
    BY <2>1
<1>6. /\ next \in 0 .. LogSize - 1 /\ filled \in 0 .. LogSize
      /\ LogSize \in Nat /\ LogSize > 0 /\ next \in Nat /\ filled \in Nat
  BY LogFacts DEF RingInv
<1>7. filled < LogSize => next = filled /\ \A i \in next .. LogSize - 1 : buffer[i] = 0
  BY DEF FrameInv
<1>8. next <= filled
  BY <1>6, <1>7
<1>9. Log!Window = [i \in 1 .. filled |-> buffer[Place(next, filled, i)]]
  BY DEF Log!Window, Place
<1>10. Log!Window \in Seq(Nat)
  BY <1>5, WindowTyped
<1>11. /\ Len(Log!Window) = filled
       /\ \A i \in 1 .. filled : Log!Window[i] = buffer[Place(next, filled, i)]
  BY <1>6, <1>9
<1>12. QED
  BY <1>3, <1>4, <1>5, <1>6, <1>7, <1>8, <1>10, <1>11

\* The bytes before the place to write next, read as records.
LEMMA HeadFramed ==
  ASSUME FrameInv, Pending(rest) = 0, next \in 0 .. LogSize - 1, next <= filled,
         filled \in 0 .. LogSize,
         NEW a \in Seq(Nat), Len(a) = next, \A i \in 1 .. next : a[i] = buffer[i - 1]
  PROVE  Framed(a)
<1> SUFFICES ASSUME NEW k \in 1 .. next, a[k] \in Log!Ids
             PROVE  Cut(a, k) = next + 1 \/ (Cut(a, k) <= next /\ a[Cut(a, k)] \in Log!Ids)
  BY DEF Framed
<1>1. LogSize \in Nat /\ next \in Nat /\ filled \in Nat
  BY LogFacts
<1>2. ASSUME NEW j \in 1 .. next PROVE Recent(buffer, next, j) = a[next + 1 - j]
  <2>1. Log!Wrap(next - j + LogSize) = next - j
    BY <1>1 DEF Log!Wrap
  <2>2. next + 1 - j \in 1 .. next /\ next + 1 - j - 1 = next - j
    BY <1>1
  <2>3. QED
    BY <2>1, <2>2 DEF Recent
<1> DEFINE j == next + 1 - k
           z == Log!SizeOf(a[k])
           e == j - z
<1>3. j \in 1 .. next /\ j \in 1 .. filled /\ next + 1 - j = k
  BY <1>1
<1>4. Recent(buffer, next, j) = a[k]
  BY <1>2, <1>3
<1>5. z \in Int /\ z >= 1
  BY LogFacts
<1>6. e = 0 \/ (e >= 1 /\ Recent(buffer, next, e) \in Log!Ids)
  BY <1>3, <1>4 DEF FrameInv
<1>7. Cut(a, k) = k + z
  BY DEF Cut
<1>8. e = next + 1 - (k + z)
  BY <1>1, <1>5
<1> HIDE DEF e, z, j
<1>9. CASE e = 0
  BY <1>1, <1>5, <1>7, <1>8, <1>9
<1>10. CASE e >= 1 /\ Recent(buffer, next, e) \in Log!Ids
  <2>1. e \in 1 .. next /\ next + 1 - e = k + z /\ k + z <= next
    <3>1. k \in Int /\ 1 <= k /\ k <= next /\ e >= 1
      BY <1>1, <1>10
    <3>2. QED
      BY <1>1, <1>5, <1>8, <3>1
  <2>2. a[k + z] \in Log!Ids
    BY <1>2, <1>10, <2>1
  <2>3. QED
    BY <1>7, <2>1, <2>2
<1>11. QED
  BY <1>6, <1>9, <1>10

\* A dump without records and refusals: the decoder reads the records of the log.
LEMMA HostDecodes == RingInv /\ FrameInv /\ CopyInv => Log!DumpDecodes
<1> SUFFICES ASSUME RingInv, FrameInv, CopyInv, dumpPc = "done", ~refused, quiet
             PROVE  Log!Decoded(Log!Unwrapped(host.bytes, host.index)) = Log!Decoded(Log!Window)
  BY DEF Log!DumpDecodes
<1> DEFINE B == host.bytes
           W == Log!Window
           tail == SubSeq(B, next + 1, LogSize)
           a == SubSeq(B, 1, next)
           r == LogSize - next
<1>1. /\ host.index = next /\ B \in Seq(Nat) /\ Len(B) = LogSize
      /\ \A i \in 1 .. LogSize : B[i] = buffer[i - 1]
      /\ Pending(rest) = 0 /\ next \in 0 .. LogSize - 1 /\ filled \in 0 .. LogSize
      /\ LogSize \in Nat /\ LogSize > 0 /\ next \in Nat /\ filled \in Nat
      /\ next <= filled
      /\ filled < LogSize => next = filled /\ \A i \in next .. LogSize - 1 : buffer[i] = 0
      /\ W \in Seq(Nat) /\ Len(W) = filled
      /\ \A i \in 1 .. filled : W[i] = buffer[Place(next, filled, i)]
  BY HostHas
<1> HIDE DEF B, W
<1>2. r \in Nat /\ r >= 1 /\ next + r = LogSize
  BY <1>1
<1>3. tail \in Seq(Nat) /\ Len(tail) = r /\ \A i \in 1 .. r : tail[i] = B[next + i]
  <2> DEFINE c == next + 1
  <2>1. B \in Seq(Nat) /\ LogSize \in Nat /\ c \in Nat /\ 1 <= c
        /\ c <= LogSize + 1 /\ LogSize - c + 1 = r /\ LogSize <= Len(B)
        /\ \A i \in Int : c + i - 1 = next + i
    BY <1>1
  <2> HIDE DEF c, r
  <2>2. LET u == SubSeq(B, c, LogSize)
        IN  /\ u \in Seq(Nat) /\ Len(u) = LogSize - c + 1
            /\ \A i \in 1 .. LogSize - c + 1 : u[i] = B[c + i - 1]
    BY <2>1, Cutting, Zenon
  <2>3. ASSUME NEW i \in 1 .. r PROVE tail[i] = B[next + i]
    <3>1. i \in Int /\ c + i - 1 = next + i
      BY <2>1
    <3>2. tail[i] = B[c + i - 1]
      BY <2>1, <2>2 DEF c
    <3>3. QED
      BY <3>1, <3>2
  <2>4. tail \in Seq(Nat) /\ Len(tail) = r
    BY <2>1, <2>2 DEF c
  <2>5. QED
    BY <2>3, <2>4
<1>4. a \in Seq(Nat) /\ Len(a) = next /\ \A i \in 1 .. next : a[i] = B[i]
  <2>1. B \in Seq(Nat) /\ next \in Nat /\ 1 \in Nat /\ 1 <= 1
        /\ 1 <= next + 1 /\ next <= Len(B) /\ next - 1 + 1 = next
    BY <1>1
  <2>2. LET u == SubSeq(B, 1, next)
        IN  /\ u \in Seq(Nat) /\ Len(u) = next - 1 + 1
            /\ \A i \in 1 .. next - 1 + 1 : u[i] = B[1 + i - 1]
    BY <2>1, Cutting, Zenon
  <2>3. QED
    BY <1>1, <2>1, <2>2
<1>5. Log!Unwrapped(B, next) = IF \A k \in 1 .. Len(tail) : tail[k] = 0 THEN B ELSE Then(tail, a)
  BY <1>1, Zenon DEF Log!Unwrapped, Then
<1> HIDE DEF tail, a, r
<1>6. \A i \in 1 .. next : a[i] = buffer[i - 1]
  BY <1>1, <1>4
<1>7. Framed(a)
  BY <1>1, <1>4, <1>6, HeadFramed
<1>8. CASE \A k \in 1 .. Len(tail) : tail[k] = 0
  <2>1. Padded(B, a, 0, r)
    <3>1. Len(B) = 0 + Len(a) + r
      BY <1>1, <1>2, <1>4
    <3>2. \A i \in 1 .. Len(a) : B[0 + i] = a[i]
      BY <1>1, <1>4
    <3>3. \A i \in 1 .. r : B[0 + Len(a) + i] = 0
      BY <1>1, <1>3, <1>4, <1>8
    <3>4. QED
      BY <3>1, <3>2, <3>3 DEF Padded
  <2>2. Log!Decoded(B) = Log!Decoded(a)
    BY <1>1, <1>2, <1>4, <1>7, <2>1, PaddedDecoded
  <2> DEFINE p == filled - next
  <2>3. p \in Nat /\ filled = p + next
    BY <1>1
  <2>4. ASSUME NEW i \in 1 .. p PROVE W[i] = 0
    <3>1. filled = LogSize /\ p = r
      BY <1>1, <1>2
    <3>2. Place(next, filled, i) = next + i - 1
      BY <1>1, <1>2, <3>1 DEF Place, Log!Wrap
    <3>3. W[i] = buffer[next + i - 1]
      BY <1>1, <2>3, <3>2
    <3>4. next + i \in 1 .. LogSize
      BY <1>1, <1>2, <3>1
    <3>5. B[next + i] = buffer[next + i - 1]
      BY <1>1, <3>4
    <3>6. tail[i] = 0 /\ tail[i] = B[next + i]
      BY <1>3, <1>8, <3>1
    <3>7. QED
      BY <3>3, <3>5, <3>6
  <2>5. ASSUME NEW i \in 1 .. next PROVE W[p + i] = a[i]
    <3>1. Place(next, filled, p + i) = i - 1
      BY <1>1 DEF Place, Log!Wrap
    <3>2. p + i \in 1 .. filled
      BY <1>1, <2>3
    <3>3. QED
      BY <1>1, <1>6, <3>1, <3>2
  <2> HIDE DEF p
  <2>6. Padded(W, a, p, 0)
    BY <1>1, <1>4, <2>3, <2>4, <2>5 DEF Padded
  <2>7. Log!Decoded(W) = Log!Decoded(a)
    BY <1>1, <1>4, <1>7, <2>3, <2>6, PaddedDecoded
  <2>8. Log!Unwrapped(B, next) = B
    BY <1>5, <1>8
  <2>9. QED
    BY <1>1, <2>2, <2>7, <2>8 DEF B, W
<1>9. CASE ~ (\A k \in 1 .. Len(tail) : tail[k] = 0)
  <2>1. filled = LogSize
    <3> SUFFICES ASSUME filled < LogSize, NEW k \in 1 .. r PROVE tail[k] = 0
      BY <1>1, <1>3, <1>9
    <3>1. next + k \in 1 .. LogSize /\ next + k - 1 \in next .. LogSize - 1
      BY <1>1, <1>2
    <3>2. B[next + k] = buffer[next + k - 1]
      BY <1>1, <3>1
    <3>3. QED
      BY <1>1, <1>3, <3>1, <3>2
  <2> DEFINE t == Then(tail, a)
  <2>2. /\ t \in Seq(Nat) /\ Len(t) = LogSize
        /\ \A i \in 1 .. LogSize : t[i] = IF i <= r THEN tail[i] ELSE a[i - r]
    <3>1. /\ tail \o a \in Seq(Nat) /\ Len(tail \o a) = r + next
          /\ \A i \in 1 .. r + next : (tail \o a)[i] = IF i <= r THEN tail[i] ELSE a[i - r]
      BY <1>3, <1>4, ConcatProperties
    <3>2. r + next = LogSize
      BY <1>1, <1>2
    <3>3. QED
      BY <3>1, <3>2 DEF Then
  <2> HIDE DEF t
  <2>3. ASSUME NEW i \in 1 .. LogSize PROVE t[i] = W[i]
    <3>0. W[i] = buffer[Place(next, filled, i)]
      BY <1>1, <2>1
    <3>1. CASE i <= r
      <4>1. Place(next, filled, i) = next + i - 1 /\ next + i \in 1 .. LogSize /\ i \in 1 .. r
        BY <1>1, <1>2, <2>1, <3>1 DEF Place, Log!Wrap
      <4>2. t[i] = B[next + i]
        BY <1>3, <2>2, <3>1, <4>1
      <4>3. B[next + i] = buffer[next + i - 1]
        BY <1>1, <4>1
      <4>4. QED
        BY <3>0, <4>1, <4>2, <4>3
    <3>2. CASE i > r
      <4>1. Place(next, filled, i) = i - r - 1 /\ i - r \in 1 .. next
        BY <1>1, <1>2, <2>1, <3>2 DEF Place, Log!Wrap
      <4>2. t[i] = a[i - r]
        BY <1>2, <2>2, <3>2
      <4>3. a[i - r] = buffer[i - r - 1]
        BY <1>6, <4>1
      <4>4. QED
        BY <3>0, <4>1, <4>2, <4>3
    <3>3. QED
      BY <1>2, <3>1, <3>2
  <2>4. t = W
    BY <1>1, <2>1, <2>2, <2>3, SeqEqual
  <2>5. Log!Unwrapped(B, next) = t
    BY <1>5, <1>9 DEF t
  <2>6. QED
    BY <1>1, <2>4, <2>5 DEF B, W
<1>10. QED
  BY <1>8, <1>9

\* For every size of the ring, every size of a chunk and all records, none of whose arguments
\* looks like an id: when nothing was logged and nothing refused during a dump, the decoder
\* finds in the file exactly the records that are whole in the log, wherever the ring was cut,
\* and also when it takes trailing zeros of a full ring for bytes that were never written.
THEOREM DumpDecoded == SuiteSpec => []DumpDecodes
<1> DEFINE Inv == RingInv /\ FrameInv /\ CopyInv /\ Flags
<1>1. SuiteInit => Inv
  BY RingInit, FrameInit, CopyInit, FlagsInit DEF SuiteInit
<1>2. Inv /\ [SuiteNext]_allVars => Inv'
  <2> SUFFICES ASSUME Inv, [SuiteNext]_allVars PROVE Inv'
    OBVIOUS
  <2>1. CASE LogPart
    <3>1. Log!Next
      BY <2>1 DEF LogPart
    <3>2. RingInv' /\ FrameInv' /\ CopyInv'
      BY <3>1, RingNext, CopyNext
    <3>3. Flags'
      BY <3>1, FlagsKept
    <3>4. QED
      BY <3>2, <3>3
  <2>2. CASE UNCHANGED logVars
    BY <2>2 DEF logVars, RingInv, FrameInv, CopyInv, DumpTyped, PlaceInv, HostInv, Flags,
                Log!CurrentSize
  <2>3. QED
    BY <2>1, <2>2 DEF SuiteNext, PoolPart, StartPart, SmoothPart, allVars
<1>3. Inv => DumpDecodes
  BY HostDecodes, DumpIsTyped DEF DumpDecodes, CopyInv
<1>4. QED
  BY <1>1, <1>2, <1>3, PTL DEF SuiteSpec
=============================================================================
