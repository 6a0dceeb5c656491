-------------------------- MODULE CheckQueue_proofs --------------------------
(***************************************************************************)
(* Proofs about CheckQueue, for any number of workers, any blocks and any  *)
(* batch size: the counters, the wakeups, and that Complete returns the    *)
(* outcome of the checks of its own block.                                 *)
(***************************************************************************)
EXTENDS CheckQueue, FiniteSetTheorems, TLAPS

(* A thread has a batch in these places; is counted by nIdle, by nTotal. *)
Outside == {"execute", "lock"}
IdlePlaces == {"waiting", "woken"}
LoopPlaces == {"execute", "lock", "waiting", "woken", "exited"}

At(places) == {t \in Threads : pc[t] \in places}
Pending == {i \in Items : i \in queue \/ \E t \in Threads : i \in batch[t]}

(* What the three counters count, also after a request to stop. *)
CountInv ==
    /\ nTodo = Cardinality(Pending)
    /\ nIdle = Cardinality(At(IdlePlaces))
    /\ nTotal = Cardinality(At(LoopPlaces))

(* Every check of the block is in one place at most. *)
BatchInv ==
    /\ \A t \in Threads : pc[t] \in Outside <=> batch[t] # {}
    /\ \A t \in Threads : batch[t] \cap queue = {}
    /\ \A t, u \in Threads : t # u => batch[t] \cap batch[u] = {}

(* The queue belongs to the present block, and outside a session to none. *)
SessionInv ==
    /\ Pending \subseteq added
    /\ pc[Master] \in {"idle", "stop", "join"} => added = {}
    /\ pc[Master] \in {"control", "notify_one", "notify_all"} => session # 0
    /\ m_request_stop <=> pc[Master] \in {"stop", "join"}
    /\ \A t \in Threads : pc[t] = "exited" => m_request_stop /\ t # Master

(* Where the error is: in m_result, or still with a thread that has done   *)
(* its batch; a local result left from an earlier batch or block does no   *)
(* harm, because the batch in hand then is one that was not executed.      *)
BatchDone(t) ==
    \/ m_result # nullopt
    \/ local_result[t] = nullopt /\ \A i \in batch[t] : ~Fails(i)
    \/ local_result[t] \in batch[t] /\ Fails(local_result[t])
ResultInv ==
    /\ m_result # nullopt => m_result \in added /\ Fails(m_result)
    /\ pc[Master] # "returned" =>
          \A i \in added : Fails(i) => i \in Pending \/ m_result # nullopt
    /\ \A t \in Threads : pc[t] = "lock" => BatchDone(t)

(* What Complete has returned. *)
ReturnInv ==
    pc[Master] = "returned" =>
        /\ nTodo = 0 /\ m_result = nullopt
        /\ IF verdict = nullopt THEN \A i \in added : ~Fails(i)
           ELSE verdict \in added /\ Fails(verdict)

QueueInv == TypeOK /\ CountInv /\ BatchInv /\ SessionInv /\ ResultInv /\ ReturnInv

-----------------------------------------------------------------------------
(* There are finitely many threads and checks. *)
LEMMA FiniteConstants ==
    /\ IsFiniteSet(Threads) /\ IsFiniteSet(Items)
    /\ nullopt \notin Items
  <1>1. IsFiniteSet(Threads)
    BY CheckQueueAssumption, FS_AddElement DEF Threads
  <1>2. IsFiniteSet(Checks)
    BY CheckQueueAssumption, FS_UNION DEF Checks
  <1>3. IsFiniteSet(1..MaxSessions)
    BY CheckQueueAssumption, FS_Interval
  <1>4. IsFiniteSet(Items)
    BY <1>2, <1>3, FS_Product DEF Items
  <1> QED BY <1>1, <1>4, CheckQueueAssumption DEF Items

(* ... and so every set of threads in given places can be counted. *)
LEMMA FinitePlaces ==
  ASSUME NEW places
  PROVE  IsFiniteSet(At(places)) /\ Cardinality(At(places)) \in Nat
  <1>1. At(places) \in SUBSET Threads
    BY DEF At
  <1> QED BY <1>1, FiniteConstants, FS_Subset, FS_CardinalityType

(* ... and so can the checks that are still to be done. *)
LEMMA FinitePending == IsFiniteSet(Pending) /\ Cardinality(Pending) \in Nat
  <1>1. Pending \in SUBSET Items
    BY DEF Pending
  <1> QED BY <1>1, FiniteConstants, FS_Subset, FS_CardinalityType

(* A batch is never empty. *)
LEMMA BatchNotEmpty ==
  ASSUME TypeOK, NEW total \in Nat, NEW idle \in Nat,
         NEW b \in kSubset(nNow(total, idle), queue)
  PROVE  b \subseteq queue /\ b # {}
  <1>1. Cardinality(queue) \in Nat
    BY FiniteConstants, FS_Subset, FS_CardinalityType DEF TypeOK
  <1>2. nBatchSize \in Nat \ {0}
    BY CheckQueueAssumption
  <1> DEFINE share == Cardinality(queue) \div (total + idle + 1)
             least == Min({nBatchSize, share})
  <1>3. share \in Int
    BY <1>1
  <1> HIDE DEF share
  <1>4. least \in Int
    BY <1>2, <1>3 DEF Min
  <1> HIDE DEF least
  <1>5. Max({1, least}) \in Nat \ {0}
    BY <1>4 DEF Max
  <1>6. nNow(total, idle) # 0
    BY <1>5 DEF nNow, share, least
  <1> QED BY <1>6, FS_EmptySet DEF kSubset

(* What one pass through the critical section does, from the counters and  *)
(* the result as its first part leaves them.                               *)
Pass(t, total, idle, todo, result, woken) ==
    /\ pc' \in [Threads -> WorkerPlaces \cup MasterPlaces]
    /\ \A u \in Threads \ {t} :
          pc'[u] = IF u \in woken /\ pc[u] = "waiting" THEN "woken" ELSE pc[u]
    /\ pc'[t] \in {"returned", "waiting", "exited", "execute", "lock"}
    /\ batch' \in [Threads -> SUBSET Items] /\ queue' \subseteq Items
    /\ \A u \in Threads \ {t} : batch'[u] = batch[u]
    /\ queue' \cup batch'[t] = queue /\ queue' \cap batch'[t] = {}
    /\ pc'[t] \in Outside <=> batch'[t] # {}
    /\ nTodo' = todo
    /\ nTotal' = IF pc'[t] = "returned" THEN total - 1 ELSE total
    /\ nIdle' = IF pc'[t] = "waiting" THEN idle + 1 ELSE idle
    /\ pc'[t] = "exited" <=> m_request_stop
    /\ pc'[t] = "returned" => /\ t = Master /\ todo = 0 /\ queue = {}
                              /\ verdict' = result /\ m_result' = nullopt
    /\ pc'[t] # "returned" => verdict' = verdict /\ m_result' = result
    /\ pc'[t] = "lock" => result # nullopt
    /\ pc'[t] = "waiting" => queue = {} /\ ~(t = Master /\ todo = 0)

(* The part of Loop under the lock, in the terms of Pass. *)
LEMMA LoopHeadPass ==
  ASSUME TypeOK, NEW t \in Threads, NEW total \in Nat, NEW idle \in Nat, NEW todo,
         NEW result, NEW woken, LoopHead(t, total, idle, todo, result, woken)
  PROVE  Pass(t, total, idle, todo, result, woken)
  <1> USE DEF Pass, Moved, WorkerPlaces, MasterPlaces, Outside
  <1>1. CASE Return(t, total, todo, result, woken) /\ nIdle' = idle
    BY <1>1 DEF Return, TypeOK, Done, ResultReset
  <1>2. CASE Wait(t, total, todo, result, woken) /\ nIdle' = idle + 1
    BY <1>2 DEF Wait, TypeOK, Done
  <1>3. CASE Exit(t, total, todo, result, woken) /\ nIdle' = idle
    BY <1>3 DEF Exit, TypeOK
  <1>4. CASE Take(t, total, idle, todo, result, woken) /\ nIdle' = idle
    <2>1. PICK b \in kSubset(nNow(total, idle), queue) :
             batch' = [batch EXCEPT ![t] = b] /\ queue' = queue \ b
      BY <1>4 DEF Take
    <2>2. b \subseteq queue /\ b # {}
      BY <2>1, BatchNotEmpty
    <2>3. batch' \in [Threads -> SUBSET Items] /\ queue' \subseteq Items /\ batch'[t] = b
      BY <2>1, <2>2 DEF TypeOK
    <2>4. pc'[t] = IF result = nullopt THEN "execute" ELSE "lock"
      BY <1>4 DEF Take, TypeOK
    <2>5. /\ pc' \in [Threads -> WorkerPlaces \cup MasterPlaces]
          /\ \A u \in Threads \ {t} :
                pc'[u] = IF u \in woken /\ pc[u] = "waiting" THEN "woken" ELSE pc[u]
      BY <1>4 DEF Take, TypeOK
    <2> QED BY <1>4, <2>1, <2>2, <2>3, <2>4, <2>5 DEF Take, TypeOK
  <1> QED BY <1>1, <1>2, <1>3, <1>4 DEF LoopHead

-----------------------------------------------------------------------------
(* The threads other than t in some places, and the checks that are not in *)
(* the hands of t: what the counters are about when the first part of the  *)
(* critical section of t is done.                                          *)
Others(t, places) == At(places) \ {t}
PendingOf(t) == {i \in Items : i \in queue \/ \E u \in Threads \ {t} : i \in batch[u]}

(* A pass keeps the counters right. *)
LEMMA PassCounts ==
  ASSUME TypeOK, NEW t \in Threads, NEW total \in Nat, NEW idle \in Nat, NEW todo,
         NEW result, NEW woken, Pass(t, total, idle, todo, result, woken),
         total = Cardinality(Others(t, LoopPlaces)) + 1,
         idle = Cardinality(Others(t, IdlePlaces)),
         todo = Cardinality(PendingOf(t))
  PROVE  CountInv'
  <1>1. nTodo' = Cardinality(Pending')
    <2>1. Pending' = PendingOf(t)
      BY DEF Pending, PendingOf, Pass
    <2> QED BY <2>1 DEF Pass
  <1>2. IsFiniteSet(Others(t, LoopPlaces)) /\ IsFiniteSet(Others(t, IdlePlaces))
    BY FinitePlaces, FS_RemoveElement DEF Others
  <1>3. t \notin Others(t, LoopPlaces) /\ t \notin Others(t, IdlePlaces)
    BY DEF Others
  <1>4. nIdle' = Cardinality(At(IdlePlaces)')
    <2>1. CASE pc'[t] = "waiting"
      <3>1. At(IdlePlaces)' = Others(t, IdlePlaces) \cup {t}
        BY <2>1 DEF At, Others, IdlePlaces, Pass
      <3>2. Cardinality(Others(t, IdlePlaces) \cup {t}) = Cardinality(Others(t, IdlePlaces)) + 1
        BY <1>2, <1>3, FS_AddElement
      <3> QED BY <3>1, <3>2, <2>1 DEF Pass
    <2>2. CASE pc'[t] # "waiting"
      <3>1. At(IdlePlaces)' = Others(t, IdlePlaces)
        BY <2>2 DEF At, Others, IdlePlaces, Pass
      <3> QED BY <3>1, <2>2 DEF Pass
    <2> QED BY <2>1, <2>2
  <1>5. nTotal' = Cardinality(At(LoopPlaces)')
    <2>1. CASE pc'[t] # "returned"
      <3>1. At(LoopPlaces)' = Others(t, LoopPlaces) \cup {t}
        BY <2>1 DEF At, Others, LoopPlaces, Pass
      <3>2. Cardinality(Others(t, LoopPlaces) \cup {t}) = Cardinality(Others(t, LoopPlaces)) + 1
        BY <1>2, <1>3, FS_AddElement
      <3> QED BY <3>1, <3>2, <2>1 DEF Pass
    <2>2. CASE pc'[t] = "returned"
      <3>1. At(LoopPlaces)' = Others(t, LoopPlaces)
        BY <2>2 DEF At, Others, LoopPlaces, Pass
      <3>2. Cardinality(Others(t, LoopPlaces)) \in Nat
        BY <1>2, FS_CardinalityType
      <3> QED BY <3>1, <3>2, <2>2 DEF Pass
    <2> QED BY <2>1, <2>2
  <1> QED BY <1>1, <1>4, <1>5 DEF CountInv

(* The counters before the critical section, without t. *)
LEMMA CountsWithout ==
  ASSUME CountInv, TypeOK, BatchInv, NEW t \in Threads
  PROVE  /\ nTotal = Cardinality(Others(t, LoopPlaces)) + (IF pc[t] \in LoopPlaces THEN 1 ELSE 0)
         /\ nIdle = Cardinality(Others(t, IdlePlaces)) + (IF pc[t] \in IdlePlaces THEN 1 ELSE 0)
         /\ nTodo - Cardinality(batch[t]) = Cardinality(PendingOf(t))
         /\ Cardinality(PendingOf(t)) \in Nat
  <1>1. ASSUME NEW places
        PROVE  Cardinality(At(places)) = Cardinality(Others(t, places)) + (IF pc[t] \in places THEN 1 ELSE 0)
    <2>1. t \in At(places) <=> pc[t] \in places
      BY DEF At
    <2>2. IsFiniteSet(At(places)) /\ Cardinality(At(places)) \in Nat
      BY FinitePlaces
    <2>3. Cardinality(Others(t, places))
            = IF t \in At(places) THEN Cardinality(At(places)) - 1 ELSE Cardinality(At(places))
      BY <2>2, FS_RemoveElement DEF Others
    <2> QED BY <2>1, <2>2, <2>3
  <1>2. PendingOf(t) = Pending \ batch[t] /\ Pending \cap batch[t] = batch[t]
    BY DEF Pending, PendingOf, BatchInv, TypeOK
  <1>3. IsFiniteSet(PendingOf(t)) /\ Cardinality(PendingOf(t)) = Cardinality(Pending) - Cardinality(batch[t])
    BY <1>2, FinitePending, FS_Difference
  <1>4. Cardinality(PendingOf(t)) \in Nat
    BY <1>3, FS_CardinalityType
  <1> QED BY <1>1, <1>3, <1>4 DEF CountInv

(* What a pass does to the other parts of the invariant. *)
LEMMA PassBatches ==
  ASSUME TypeOK, BatchInv, NEW t \in Threads, NEW total, NEW idle, NEW todo,
         NEW result, NEW woken, Pass(t, total, idle, todo, result, woken)
  PROVE  BatchInv'
  <1>1. \A u \in Threads : pc'[u] \in Outside <=> batch'[u] # {}
    BY DEF BatchInv, Pass, Outside
  <1>2. \A u \in Threads : batch'[u] \cap queue' = {}
    BY DEF BatchInv, Pass
  <1>3. \A u, v \in Threads : u # v => batch'[u] \cap batch'[v] = {}
    BY DEF BatchInv, Pass
  <1> QED BY <1>1, <1>2, <1>3 DEF BatchInv

(* A pass keeps the checks of the session together. *)
LEMMA PassSession ==
  ASSUME TypeOK, SessionInv, NEW t \in Threads, NEW total, NEW idle, NEW todo,
         NEW result, NEW woken, Pass(t, total, idle, todo, result, woken),
         pc[t] \in {"start", "lock", "woken"}, UNCHANGED <<m_request_stop, control>>
  PROVE  SessionInv'
  <1>1. Pending' \subseteq Pending
    BY DEF Pending, Pass
  <1>2. Master \in Threads
    BY DEF Threads
  <1>3. t = Master => ~m_request_stop
    BY DEF SessionInv
  <1>4. \A u \in Threads : pc'[u] = "exited" => m_request_stop /\ u # Master
    BY <1>3 DEF SessionInv, Pass
  <1> QED BY <1>1, <1>2, <1>3, <1>4 DEF SessionInv, Pass, control

(* What the first part of the critical section must have made of the *)
(* result.                                                           *)
MidResult(t, todo, result) ==
    /\ result # nullopt => result \in added /\ Fails(result)
    /\ m_result # nullopt => result # nullopt
    /\ pc[Master] # "returned" =>
          \A i \in added : Fails(i) => i \in PendingOf(t) \/ result # nullopt
    /\ pc[Master] = "returned" => todo = 0 /\ result = nullopt

(* A pass keeps the result of the session. *)
LEMMA PassResult ==
  ASSUME TypeOK, BatchInv, SessionInv, ResultInv, ReturnInv,
         NEW t \in Threads, NEW total, NEW idle, NEW todo, NEW result, NEW woken,
         Pass(t, total, idle, todo, result, woken),
         pc[t] \in {"start", "lock", "woken"}, UNCHANGED control,
         todo = Cardinality(PendingOf(t)), MidResult(t, todo, result),
         local_result' \in [Threads -> Results],
         \A u \in Threads \ {t} : local_result'[u] = local_result[u]
  PROVE  ResultInv' /\ ReturnInv'
  <1>1. Pending' = PendingOf(t)
    BY DEF Pending, PendingOf, Pass
  <1>2. Master \in Threads /\ added' = added
    BY DEF Threads, control
  <1>3. CASE pc'[t] = "returned"
    <2>1. PendingOf(t) = {}
      <3>1. PendingOf(t) \in SUBSET Items
        BY DEF PendingOf
      <3>2. IsFiniteSet(PendingOf(t))
        BY <3>1, FiniteConstants, FS_Subset
      <3> QED BY <3>2, <1>3, FS_EmptySet DEF Pass
    <2>2. \A u \in Threads : pc'[u] # "lock"
      <3>1. \A u \in Threads \ {t} : batch[u] = {}
        BY <2>1 DEF PendingOf, TypeOK
      <3>2. \A u \in Threads \ {t} : pc[u] # "lock"
        BY <3>1 DEF BatchInv, Outside
      <3> QED BY <3>2, <1>3 DEF Pass
    <2>3. t = Master /\ pc[Master] # "returned" /\ verdict' = result /\ m_result' = nullopt /\ nTodo' = 0
      BY <1>3 DEF Pass
    <2>4. IF result = nullopt THEN \A i \in added : ~Fails(i) ELSE result \in added /\ Fails(result)
      BY <2>1, <2>3 DEF MidResult
    <2>5. ResultInv'
      BY <2>2, <2>3, <1>3 DEF ResultInv
    <2>6. ReturnInv'
      BY <2>3, <2>4, <1>2 DEF ReturnInv, Fails
    <2> QED BY <2>5, <2>6
  <1>4. CASE pc'[t] # "returned"
    <2>1. m_result' = result /\ verdict' = verdict /\ nTodo' = todo
      BY <1>4 DEF Pass
    <2>2. pc'[Master] = "returned" <=> pc[Master] = "returned"
      BY <1>2, <1>4 DEF Pass
    <2>3. ASSUME NEW u \in Threads, pc'[u] = "lock"
          PROVE  BatchDone(u)'
      <3>1. CASE u = t
        BY <3>1, <2>3, <2>1 DEF Pass, BatchDone
      <3>2. CASE u # t
        <4>1. BatchDone(u) /\ batch'[u] = batch[u] /\ local_result'[u] = local_result[u]
          BY <3>2, <2>3 DEF Pass, ResultInv
        <4> QED BY <4>1, <2>1 DEF BatchDone, MidResult, Fails
      <3> QED BY <3>1, <3>2
    <2>4. ResultInv'
      BY <2>1, <2>2, <2>3, <1>1, <1>2 DEF ResultInv, MidResult, Fails
    <2>5. ReturnInv'
      BY <2>1, <2>2, <1>2 DEF ReturnInv, MidResult, Fails
    <2> QED BY <2>4, <2>5
  <1> QED BY <1>3, <1>4

(* A pass keeps the invariant. *)
LEMMA PassInv ==
  ASSUME QueueInv, NEW t \in Threads, NEW total \in Nat, NEW idle \in Nat, NEW todo \in Nat,
         NEW result \in Results, NEW woken, LoopHead(t, total, idle, todo, result, woken),
         pc[t] \in {"start", "lock", "woken"}, UNCHANGED <<m_request_stop, control>>,
         total = Cardinality(Others(t, LoopPlaces)) + 1,
         idle = Cardinality(Others(t, IdlePlaces)),
         todo = Cardinality(PendingOf(t)), MidResult(t, todo, result),
         local_result' \in [Threads -> Results],
         \A u \in Threads \ {t} : local_result'[u] = local_result[u]
  PROVE  QueueInv'
  <1>1. Pass(t, total, idle, todo, result, woken)
    BY LoopHeadPass DEF QueueInv
  <1>2. CountInv'
    BY <1>1, PassCounts DEF QueueInv
  <1>3. BatchInv'
    BY <1>1, PassBatches DEF QueueInv
  <1>4. SessionInv'
    BY <1>1, PassSession DEF QueueInv
  <1>5. ResultInv' /\ ReturnInv'
    BY <1>1, PassResult DEF QueueInv
  <1>6. TypeOK'
    <2>1. verdict' \in Results /\ m_result' \in Results
      BY <1>1 DEF Pass, QueueInv, TypeOK, Results
    <2>2. nIdle' \in Nat /\ nTotal' \in Nat /\ nTodo' \in Nat
      <3>1. Cardinality(Others(t, LoopPlaces)) \in Nat
        BY FinitePlaces, FS_RemoveElement, FS_CardinalityType DEF Others
      <3>2. total - 1 \in Nat /\ idle + 1 \in Nat
        BY <3>1
      <3> QED BY <3>2, <1>1 DEF Pass
    <2>3. queue' \in SUBSET Items /\ batch' \in [Threads -> SUBSET Items]
          /\ pc' \in [Threads -> WorkerPlaces \cup MasterPlaces]
      BY <1>1 DEF Pass
    <2> QED BY <2>1, <2>2, <2>3 DEF QueueInv, TypeOK, control
  <1> QED BY <1>2, <1>3, <1>4, <1>5, <1>6 DEF QueueInv

(* The three ways into the critical section meet its conditions. *)
LEMMA LoopStartInv == ASSUME QueueInv, NEW t \in Threads, LoopStart(t) PROVE QueueInv'
  <1>1. pc[t] = "start" /\ batch[t] = {} /\ Cardinality(batch[t]) = 0
    BY FS_EmptySet DEF LoopStart, QueueInv, BatchInv, Outside
  <1>2. /\ nTotal + 1 = Cardinality(Others(t, LoopPlaces)) + 1
        /\ nIdle = Cardinality(Others(t, IdlePlaces))
        /\ nTodo = Cardinality(PendingOf(t))
    <2>1. pc[t] \notin LoopPlaces /\ pc[t] \notin IdlePlaces
      BY <1>1 DEF LoopPlaces, IdlePlaces
    <2>2. nTodo \in Nat /\ nTotal \in Nat /\ nIdle \in Nat
      BY DEF QueueInv, TypeOK
    <2>3. Cardinality(Others(t, LoopPlaces)) \in Nat /\ Cardinality(Others(t, IdlePlaces)) \in Nat
      BY FinitePlaces, FS_RemoveElement, FS_CardinalityType DEF Others
    <2>4. /\ nTotal = Cardinality(Others(t, LoopPlaces)) + (IF pc[t] \in LoopPlaces THEN 1 ELSE 0)
          /\ nIdle = Cardinality(Others(t, IdlePlaces)) + (IF pc[t] \in IdlePlaces THEN 1 ELSE 0)
          /\ nTodo - Cardinality(batch[t]) = Cardinality(PendingOf(t))
      BY CountsWithout DEF QueueInv
    <2> QED BY <1>1, <2>1, <2>2, <2>3, <2>4
  <1>3. PendingOf(t) = Pending
    BY <1>1 DEF PendingOf, Pending
  <1>4. MidResult(t, nTodo, m_result)
    BY <1>3 DEF MidResult, QueueInv, ResultInv, ReturnInv
  <1> QED BY <1>1, <1>2, <1>4, PassInv DEF LoopStart, QueueInv, TypeOK

(* Loop takes the lock again after it was woken. *)
LEMMA RelockInv == ASSUME QueueInv, NEW t \in Threads, Relock(t) PROVE QueueInv'
  <1>1. pc[t] = "woken" /\ batch[t] = {} /\ Cardinality(batch[t]) = 0
    BY FS_EmptySet DEF Relock, QueueInv, BatchInv, Outside
  <1>2. /\ nTotal = Cardinality(Others(t, LoopPlaces)) + 1
        /\ nIdle - 1 = Cardinality(Others(t, IdlePlaces)) /\ nIdle - 1 \in Nat
        /\ nTodo = Cardinality(PendingOf(t))
    <2>1. pc[t] \in LoopPlaces /\ pc[t] \in IdlePlaces
      BY <1>1 DEF LoopPlaces, IdlePlaces
    <2>2. nTodo \in Nat /\ nTotal \in Nat /\ nIdle \in Nat
      BY DEF QueueInv, TypeOK
    <2>3. Cardinality(Others(t, IdlePlaces)) \in Nat
      BY FinitePlaces, FS_RemoveElement, FS_CardinalityType DEF Others
    <2>4. /\ nTotal = Cardinality(Others(t, LoopPlaces)) + (IF pc[t] \in LoopPlaces THEN 1 ELSE 0)
          /\ nIdle = Cardinality(Others(t, IdlePlaces)) + (IF pc[t] \in IdlePlaces THEN 1 ELSE 0)
          /\ nTodo - Cardinality(batch[t]) = Cardinality(PendingOf(t))
      BY CountsWithout DEF QueueInv
    <2> QED BY <1>1, <2>1, <2>2, <2>3, <2>4
  <1>3. PendingOf(t) = Pending
    BY <1>1 DEF PendingOf, Pending
  <1>4. MidResult(t, nTodo, m_result)
    BY <1>3 DEF MidResult, QueueInv, ResultInv, ReturnInv
  <1> QED BY <1>1, <1>2, <1>4, PassInv DEF Relock, QueueInv, TypeOK

(* Loop takes the lock again after a batch. *)
LEMMA LoopAgainInv == ASSUME QueueInv, NEW t \in Threads, LoopAgain(t) PROVE QueueInv'
  <1> DEFINE result == IF SwapResult(t) THEN local_result[t] ELSE m_result
             todo == nTodo - Cardinality(batch[t])
  <1>1. pc[t] = "lock" /\ batch[t] # {}
    BY DEF LoopAgain, QueueInv, BatchInv, Outside
  <1>2. /\ nTotal = Cardinality(Others(t, LoopPlaces)) + 1
        /\ nIdle = Cardinality(Others(t, IdlePlaces))
        /\ todo = Cardinality(PendingOf(t)) /\ todo \in Nat
    <2>1. pc[t] \in LoopPlaces /\ pc[t] \notin IdlePlaces
      BY <1>1 DEF LoopPlaces, IdlePlaces
    <2>2. nTotal \in Nat /\ nIdle \in Nat
      BY DEF QueueInv, TypeOK
    <2>3. Cardinality(Others(t, IdlePlaces)) \in Nat
      BY FinitePlaces, FS_RemoveElement, FS_CardinalityType DEF Others
    <2> QED BY <2>1, <2>2, <2>3, CountsWithout DEF QueueInv
  <1>3. pc[Master] # "returned"
    <2>1. pc[Master] = "returned" => Pending = {}
      BY FinitePending, FS_EmptySet DEF QueueInv, ReturnInv, CountInv
    <2>2. Pending # {}
      BY <1>1 DEF Pending, QueueInv, TypeOK
    <2> QED BY <2>1, <2>2
  <1>4. MidResult(t, todo, result)
    <2>1. BatchDone(t)
      BY <1>1 DEF QueueInv, ResultInv
    <2>2. \A i \in Pending : i \in PendingOf(t) \/ i \in batch[t]
      BY DEF Pending, PendingOf
    <2>3. batch[t] \subseteq Pending /\ Pending \subseteq added
      BY DEF Pending, QueueInv, TypeOK, SessionInv
    <2>4. m_result # nullopt => result = m_result
      BY DEF SwapResult
    <2>5. m_result = nullopt => result = local_result[t]
      BY DEF SwapResult
    <2>6. \A i \in batch[t] : Fails(i) => result # nullopt
      BY <2>1, <2>4, <2>5, <2>3, FiniteConstants DEF BatchDone, Pending
    <2>7. result # nullopt => result \in added /\ Fails(result)
      BY <2>1, <2>3, <2>4, <2>5 DEF BatchDone, QueueInv, ResultInv
    <2>8. \A i \in added : Fails(i) => i \in PendingOf(t) \/ result # nullopt
      BY <2>2, <2>4, <2>6, <1>3 DEF QueueInv, ResultInv
    <2> QED BY <2>4, <2>7, <2>8, <1>3 DEF MidResult
  <1>5. /\ result \in Results
        /\ local_result' \in [Threads -> Results]
        /\ \A u \in Threads \ {t} : local_result'[u] = local_result[u]
    BY DEF LoopAgain, QueueInv, TypeOK
  <1>6. /\ LoopHead(t, nTotal, nIdle, todo, result, NotifyMaster(t, todo))
        /\ UNCHANGED <<m_request_stop, control>>
    BY DEF LoopAgain
  <1> HIDE DEF result, todo
  <1> QED BY <1>1, <1>2, <1>4, <1>5, <1>6, PassInv DEF QueueInv, TypeOK

-----------------------------------------------------------------------------
(* Outside the critical section of Loop, threads move only between places  *)
(* that the counters do not tell apart.                                    *)
LEMMA QuietStep ==
  ASSUME QueueInv, UNCHANGED <<queue, nIdle, nTotal, nTodo, batch>>,
         \A t \in Threads : /\ pc'[t] \in LoopPlaces <=> pc[t] \in LoopPlaces
                            /\ pc'[t] \in IdlePlaces <=> pc[t] \in IdlePlaces
                            /\ pc'[t] \in Outside <=> pc[t] \in Outside
  PROVE  CountInv' /\ BatchInv' /\ Pending' = Pending
  <1>1. Pending' = Pending
    BY DEF Pending
  <1>2. At(LoopPlaces)' = At(LoopPlaces) /\ At(IdlePlaces)' = At(IdlePlaces)
    BY DEF At
  <1> QED BY <1>1, <1>2 DEF QueueInv, CountInv, BatchInv

(* Checks are run outside the lock. *)
LEMMA ExecuteInv == ASSUME QueueInv, NEW t \in Threads, Execute(t) PROVE QueueInv'
  <1> USE DEF LoopPlaces, IdlePlaces, Outside
  <1>1. CountInv' /\ BatchInv' /\ Pending' = Pending
    <2>1. pc[t] = "execute" /\ pc' = [pc EXCEPT ![t] = "lock"]
      BY DEF Execute
    <2> QED BY <2>1, QuietStep DEF Execute, QueueInv, TypeOK
  <1>2. PICK r \in (IF \E item \in batch[t] : Fails(item) THEN {i \in batch[t] : Fails(i)} ELSE {nullopt}) :
           local_result' = [local_result EXCEPT ![t] = r]
    BY DEF Execute
  <1>3. r \in Results
    BY <1>2 DEF QueueInv, TypeOK, Results
  <1>4. TypeOK'
    BY <1>2, <1>3 DEF Execute, QueueInv, TypeOK, WorkerPlaces, MasterPlaces, control
  <1>5. SessionInv'
    BY <1>1 DEF Execute, QueueInv, TypeOK, SessionInv, control
  <1>6. ResultInv'
    <2>1. BatchDone(t)'
      BY <1>2 DEF Execute, QueueInv, TypeOK, BatchDone, Fails
    <2>2. \A u \in Threads \ {t} : BatchDone(u) => BatchDone(u)'
      BY <1>2 DEF Execute, QueueInv, TypeOK, BatchDone, Fails
    <2>3. \A u \in Threads \ {t} : pc'[u] = pc[u]
      BY DEF Execute, QueueInv, TypeOK
    <2>4. pc'[t] = "lock" /\ pc[t] # "returned"
      BY DEF Execute, QueueInv, TypeOK
    <2> QED BY <1>1, <2>1, <2>2, <2>3, <2>4 DEF Execute, QueueInv, ResultInv, control, Fails, Threads
  <1>7. ReturnInv'
    BY DEF Execute, QueueInv, TypeOK, ReturnInv, control, Fails
  <1> QED BY <1>1, <1>4, <1>5, <1>6, <1>7 DEF QueueInv

(* Any other step that leaves the queue, the batches and the results as    *)
(* they are: of the threads in Loop it only moves some from waiting to     *)
(* woken, and the master is not in Loop or is one of those.                *)
LEMMA MoveInv ==
  ASSUME QueueInv, UNCHANGED <<queue, nIdle, nTotal, nTodo, batch, m_result, m_request_stop>>,
         UNCHANGED verdict, UNCHANGED control,
         pc' \in [Threads -> WorkerPlaces \cup MasterPlaces],
         \A t \in Threads \ {Master} : pc'[t] = pc[t] \/ (pc[t] = "waiting" /\ pc'[t] = "woken"),
         \/ pc'[Master] = pc[Master]
         \/ pc[Master] = "waiting" /\ pc'[Master] = "woken"
         \/ pc[Master] \in {"control", "notify_one", "notify_all"} /\ pc'[Master] \in {"control", "start"}
         \/ pc[Master] = "stop" /\ pc'[Master] = "join",
         local_result' \in [Threads -> Results],
         \A t \in Threads : pc'[t] = "lock" => local_result'[t] = local_result[t]
  PROVE  QueueInv'
  <1>1. CountInv' /\ BatchInv' /\ Pending' = Pending
    <2>1. \A t \in Threads : /\ pc'[t] \in LoopPlaces <=> pc[t] \in LoopPlaces
                             /\ pc'[t] \in IdlePlaces <=> pc[t] \in IdlePlaces
                             /\ pc'[t] \in Outside <=> pc[t] \in Outside
      BY DEF LoopPlaces, IdlePlaces, Outside
    <2> QED BY <2>1, QuietStep
  <1>2. TypeOK'
    BY DEF QueueInv, TypeOK, control
  <1>3. SessionInv'
    <2>1. \A t \in Threads : pc'[t] = "exited" => pc[t] = "exited"
      OBVIOUS
    <2> QED BY <1>1, <2>1 DEF QueueInv, SessionInv, control
  <1>4. ResultInv'
    <2>1. \A t \in Threads : pc'[t] = "lock" => pc[t] = "lock"
      OBVIOUS
    <2>2. \A t \in Threads : pc'[t] = "lock" /\ BatchDone(t) => BatchDone(t)'
      BY DEF BatchDone, Fails
    <2>3. pc[Master] = "returned" => pc'[Master] = "returned"
      OBVIOUS
    <2> QED BY <1>1, <2>1, <2>2, <2>3 DEF QueueInv, ResultInv, control, Fails
  <1>5. ReturnInv'
    BY DEF QueueInv, ReturnInv, control, Fails
  <1> QED BY <1>1, <1>2, <1>3, <1>4, <1>5 DEF QueueInv

(* A thread wakes up without being notified. *)
LEMMA WakeupInv == ASSUME QueueInv, NEW t \in Threads, SpuriousWakeup(t) PROVE QueueInv'
  <1>1. /\ pc' \in [Threads -> WorkerPlaces \cup MasterPlaces]
        /\ \A u \in Threads : pc'[u] = pc[u] \/ (pc[u] = "waiting" /\ pc'[u] = "woken")
    BY DEF SpuriousWakeup, QueueInv, TypeOK, WorkerPlaces, MasterPlaces
  <1>2. Master \in Threads
    BY DEF Threads
  <1> QED BY <1>1, <1>2, MoveInv DEF SpuriousWakeup, QueueInv, TypeOK

(* A notification only moves threads from waiting to woken. *)
LEMMA NotifyInv == ASSUME QueueInv, NotifyOne \/ NotifyAll \/ NotifyStop PROVE QueueInv'
  <1> USE DEF WorkerPlaces, MasterPlaces, Moved, rest
  <1>1. Master \in Threads
    BY DEF Threads
  <1>2. CASE NotifyOne
    BY <1>1, <1>2, MoveInv DEF NotifyOne, QueueInv, TypeOK
  <1>3. CASE NotifyAll
    BY <1>1, <1>3, MoveInv DEF NotifyAll, QueueInv, TypeOK
  <1>4. CASE NotifyStop
    BY <1>1, <1>4, MoveInv DEF NotifyStop, QueueInv, TypeOK
  <1> QED BY <1>2, <1>3, <1>4

(* Complete hands the result over. *)
LEMMA CompleteInv == ASSUME QueueInv, Complete PROVE QueueInv'
  <1>1. Master \in Threads /\ nullopt \in Results
    BY DEF Threads, Results
  <1>2. /\ pc' \in [Threads -> WorkerPlaces \cup MasterPlaces]
        /\ local_result' \in [Threads -> Results]
        /\ pc'[Master] = "start"
        /\ \A t \in Threads \ {Master} : pc'[t] = pc[t] /\ local_result'[t] = local_result[t]
    BY <1>1 DEF Complete, QueueInv, TypeOK, WorkerPlaces, MasterPlaces
  <1> QED BY <1>1, <1>2, MoveInv DEF Complete

(* The steps of the master that start and end a session, or the queue. *)
LEMMA ControlInv == ASSUME QueueInv, NewControl \/ EndControl \/ RequestStop PROVE QueueInv'
  <1> USE DEF WorkerPlaces, MasterPlaces, rest
  <1>1. Master \in Threads
    BY DEF Threads
  <1>2. /\ UNCHANGED <<queue, nIdle, nTotal, nTodo, batch, m_result, local_result>>
        /\ pc' \in [Threads -> WorkerPlaces \cup MasterPlaces]
        /\ \A t \in Threads \ {Master} : pc'[t] = pc[t]
        /\ \/ pc[Master] = "idle" /\ pc'[Master] = "control"
           \/ pc[Master] = "returned" /\ pc'[Master] = "idle"
           \/ pc[Master] = "idle" /\ pc'[Master] = "stop"
    BY <1>1 DEF NewControl, EndControl, RequestStop, QueueInv, TypeOK
  <1>3. CountInv' /\ BatchInv' /\ Pending' = Pending
    BY <1>2, QuietStep DEF LoopPlaces, IdlePlaces, Outside
  <1>4. TypeOK'
    <2>1. CASE NewControl
      BY <2>1, <1>2, CheckQueueAssumption DEF NewControl, QueueInv, TypeOK
    <2>2. CASE EndControl
      BY <2>2, <1>2 DEF EndControl, QueueInv, TypeOK, Results
    <2>3. CASE RequestStop
      BY <2>3, <1>2 DEF RequestStop, QueueInv, TypeOK, control
    <2> QED BY <2>1, <2>2, <2>3
  <1>5. pc[Master] = "returned" => Pending = {} /\ m_result = nullopt
    BY FinitePending, FS_EmptySet DEF QueueInv, ReturnInv, CountInv
  <1>6. SessionInv'
    <2>1. \A t \in Threads : pc'[t] = "exited" => pc[t] = "exited" /\ t # Master
      BY <1>2
    <2>2. CASE NewControl
      BY <2>1, <2>2, <1>2, <1>3 DEF NewControl, QueueInv, SessionInv, TypeOK
    <2>3. CASE EndControl
      BY <2>1, <2>3, <1>2, <1>3, <1>5 DEF EndControl, QueueInv, SessionInv
    <2>4. CASE RequestStop
      BY <2>1, <2>4, <1>2, <1>3 DEF RequestStop, QueueInv, SessionInv, control
    <2> QED BY <2>2, <2>3, <2>4
  <1>7. ResultInv'
    <2>1. \A t \in Threads : pc'[t] = "lock" => pc[t] = "lock"
      BY <1>2
    <2>2. \A t \in Threads : BatchDone(t) => BatchDone(t)'
      BY <1>2 DEF BatchDone, Fails
    <2>3. CASE added' = added /\ pc[Master] # "returned"
      BY <2>1, <2>2, <2>3, <1>2, <1>3 DEF QueueInv, ResultInv, Fails
    <2>4. CASE added' = {} /\ pc[Master] = "returned"
      BY <2>1, <2>2, <2>4, <1>2, <1>3, <1>5 DEF QueueInv, ResultInv, Fails
    <2>5. \/ added' = added /\ pc[Master] # "returned"
          \/ added' = {} /\ pc[Master] = "returned"
      <3>1. CASE NewControl
        BY <3>1 DEF NewControl
      <3>2. CASE EndControl
        BY <3>2 DEF EndControl
      <3>3. CASE RequestStop
        BY <3>3 DEF RequestStop, control
      <3> QED BY <3>1, <3>2, <3>3
    <2> QED BY <2>3, <2>4, <2>5
  <1>8. ReturnInv'
    BY <1>2 DEF ReturnInv
  <1> QED BY <1>3, <1>4, <1>6, <1>7, <1>8 DEF QueueInv

(* Add gives new checks of the session to the queue. *)
LEMMA AddInv == ASSUME QueueInv, NEW checks \in Txs, Add(checks) PROVE QueueInv'
  <1> USE DEF WorkerPlaces, MasterPlaces, rest
  <1> DEFINE items == {session} \X checks
  <1>1. Master \in Threads
    BY DEF Threads
  <1>2. items \in SUBSET Items /\ items \cap Pending = {}
    <2>1. session \in 1..MaxSessions
      BY CheckQueueAssumption DEF Add, QueueInv, SessionInv, TypeOK
    <2>2. checks \subseteq Checks
      BY DEF Checks
    <2>3. items \cap added = {}
      BY DEF Add
    <2> QED BY <2>1, <2>2, <2>3 DEF Items, QueueInv, SessionInv
  <1>3. IsFiniteSet(items) /\ Cardinality(items) \in Nat
    BY <1>2, FiniteConstants, FS_Subset, FS_CardinalityType
  <1> HIDE DEF items
  <1>4. /\ UNCHANGED <<nIdle, nTotal, m_result, batch, local_result, verdict, session, m_request_stop>>
        /\ queue' = queue \cup items /\ added' = added \cup items
        /\ nTodo' = nTodo + Cardinality(items)
        /\ pc' \in [Threads -> WorkerPlaces \cup MasterPlaces]
        /\ \A t \in Threads \ {Master} : pc'[t] = pc[t]
        /\ pc[Master] = "control" /\ pc'[Master] \in {"notify_one", "notify_all"}
    BY <1>1 DEF Add, QueueInv, TypeOK, TodoAfterAdd, items
  <1>5. Pending' = Pending \cup items
    BY <1>2, <1>4 DEF Pending
  <1>6. CountInv'
    <2>1. At(LoopPlaces)' = At(LoopPlaces) /\ At(IdlePlaces)' = At(IdlePlaces)
      BY <1>4 DEF At, LoopPlaces, IdlePlaces
    <2>2. Cardinality(Pending \cup items) = Cardinality(Pending) + Cardinality(items) - Cardinality(Pending \cap items)
      BY <1>3, FinitePending, FS_Union
    <2>3. Cardinality(Pending \cap items) = 0
      BY <1>2, FS_EmptySet
    <2>4. Cardinality(Pending \cup items) = Cardinality(Pending) + Cardinality(items)
      BY <2>2, <2>3, <1>3, FinitePending
    <2> QED BY <1>4, <1>5, <2>1, <2>4 DEF QueueInv, CountInv
  <1>7. BatchInv'
    <2>1. \A t \in Threads : batch[t] \cap items = {}
      BY <1>2 DEF Pending
    <2> QED BY <1>4, <2>1 DEF QueueInv, BatchInv, Outside
  <1>8. TypeOK'
    <2>1. nTodo' \in Nat /\ queue' \in SUBSET Items /\ added' \in SUBSET Items
      BY <1>2, <1>3, <1>4 DEF QueueInv, TypeOK
    <2> QED BY <1>4, <2>1 DEF QueueInv, TypeOK
  <1>9. SessionInv'
    BY <1>4, <1>5 DEF QueueInv, SessionInv
  <1>10. ResultInv'
    <2>1. \A t \in Threads : BatchDone(t) => BatchDone(t)'
      BY <1>4 DEF BatchDone, Fails
    <2> QED BY <1>4, <1>5, <2>1 DEF QueueInv, ResultInv, Fails
  <1>11. ReturnInv'
    BY <1>4 DEF ReturnInv
  <1> QED BY <1>6, <1>7, <1>8, <1>9, <1>10, <1>11 DEF QueueInv

(* Initially there is nothing to do. *)
LEMMA InitQueueInv == Init => QueueInv
  <1> SUFFICES ASSUME Init PROVE QueueInv
    OBVIOUS
  <1>1. Master \in Threads /\ Master \notin Workers
    BY CheckQueueAssumption DEF Threads
  <1>2. \A t \in Threads : pc[t] \in {"idle", "start"} /\ batch[t] = {}
    BY DEF Init
  <1>3. Pending = {} /\ At(LoopPlaces) = {} /\ At(IdlePlaces) = {}
    BY <1>2 DEF Pending, At, LoopPlaces, IdlePlaces, Init
  <1>4. CountInv
    BY <1>3, FS_EmptySet DEF CountInv, Init
  <1>5. TypeOK
    <2>1. pc \in [Threads -> WorkerPlaces \cup MasterPlaces]
      BY DEF Init, WorkerPlaces, MasterPlaces
    <2>2. batch \in [Threads -> SUBSET Items] /\ local_result \in [Threads -> Results]
      BY DEF Init, Results
    <2>3. session \in 0..MaxSessions
      BY CheckQueueAssumption DEF Init
    <2> QED BY <2>1, <2>2, <2>3 DEF Init, TypeOK, Results
  <1>6. BatchInv
    BY <1>2 DEF BatchInv, Outside, Init
  <1>7. SessionInv /\ ResultInv /\ ReturnInv
    BY <1>1, <1>2, <1>3 DEF SessionInv, ResultInv, ReturnInv, Init
  <1> QED BY <1>4, <1>5, <1>6, <1>7 DEF QueueInv

(* Every step keeps QueueInv. *)
LEMMA StepQueueInv == QueueInv /\ [Next]_vars => QueueInv'
  <1> SUFFICES ASSUME QueueInv, [Next]_vars PROVE QueueInv'
    OBVIOUS
  <1>1. CASE \E t \in Threads : Loop(t) \/ SpuriousWakeup(t)
    BY <1>1, LoopStartInv, ExecuteInv, LoopAgainInv, RelockInv, WakeupInv DEF Loop
  <1>2. CASE Caller
    BY <1>2, ControlInv, NotifyInv, CompleteInv DEF Caller
  <1>3. CASE \E checks \in Txs : Add(checks)
    BY <1>3, AddInv
  <1>4. CASE RequestStop
    BY <1>4, ControlInv
  <1>5. CASE Joined \/ UNCHANGED vars
    <2>1. UNCHANGED vars
      BY <1>5 DEF Joined
    <2>2. /\ UNCHANGED <<queue, nIdle, nTotal, nTodo, batch, m_result, m_request_stop>>
          /\ UNCHANGED verdict /\ UNCHANGED control /\ UNCHANGED <<pc, local_result>>
      BY <2>1 DEF vars, control
    <2> QED BY <2>2, MoveInv DEF QueueInv, TypeOK
  <1> QED BY <1>1, <1>2, <1>3, <1>4, <1>5 DEF Next

-----------------------------------------------------------------------------
(* A pass loses no wakeup: a worker goes to sleep only when the queue is   *)
(* empty, and what completes the last check wakes the master.              *)
LEMMA PassWakes ==
  ASSUME TypeOK, NoLostWakeup, NEW t \in Threads, NEW total, NEW idle, NEW todo \in Nat,
         NEW result, NEW woken, Pass(t, total, idle, todo, result, woken),
         pc[t] \in {"start", "lock", "woken"},
         todo # nTodo => (todo = 0 /\ t # Master => Master \in woken)
  PROVE  NoLostWakeup'
  <1>1. Master \in Threads /\ Workers \subseteq Threads /\ Master \notin Workers
    BY CheckQueueAssumption DEF Threads
  <1>2. ASSUME queue' # {}, Workers # {}, Waiting' = Workers
        PROVE  pc'[Master] \in {"notify_one", "notify_all"}
    <2>1. t \notin Workers
      BY <1>1, <1>2 DEF Waiting, Pass
    <2>2. Waiting = Workers
      BY <1>1, <1>2, <2>1 DEF Waiting, Pass
    <2>3. queue # {}
      BY <1>2 DEF Pass
    <2> QED BY <1>1, <1>2, <2>1, <2>2, <2>3 DEF NoLostWakeup, Threads
  <1>3. ASSUME pc'[Master] = "waiting"
        PROVE  nTodo' > 0
    <2>1. CASE t = Master
      BY <1>3, <2>1 DEF Pass
    <2>2. CASE t # Master
      <3>1. pc[Master] = "waiting" /\ Master \notin woken
        BY <1>1, <1>3, <2>2 DEF Pass
      <3> QED BY <3>1, <2>2 DEF Pass, NoLostWakeup
    <2> QED BY <2>1, <2>2
  <1> QED BY <1>2, <1>3 DEF NoLostWakeup

(* Every step keeps NoLostWakeup. *)
LEMMA StepWakes == QueueInv /\ NoLostWakeup /\ [Next]_vars => NoLostWakeup'
  <1> SUFFICES ASSUME QueueInv, NoLostWakeup, [Next]_vars PROVE NoLostWakeup'
    OBVIOUS
  <1> USE DEF WorkerPlaces, MasterPlaces
  <1>1. Master \in Threads /\ Workers \subseteq Threads /\ Master \notin Workers
    BY CheckQueueAssumption DEF Threads
  <1>2. nTotal \in Nat /\ nIdle \in Nat /\ nTodo \in Nat /\ TypeOK
    BY DEF QueueInv, TypeOK
  <1>3. ASSUME NEW t \in Threads, LoopStart(t) PROVE NoLostWakeup'
    BY <1>2, <1>3, LoopHeadPass, PassWakes DEF LoopStart
  <1>4. ASSUME NEW t \in Threads, Relock(t) PROVE NoLostWakeup'
    <2>1. nIdle - 1 \in Nat
      <3>1. t \in At(IdlePlaces)
        BY <1>4 DEF At, IdlePlaces, Relock
      <3>2. nIdle # 0
        BY <3>1, FinitePlaces, FS_EmptySet DEF QueueInv, CountInv
      <3> QED BY <3>2, <1>2
    <2> QED BY <1>2, <1>4, <2>1, LoopHeadPass, PassWakes DEF Relock
  <1>5. ASSUME NEW t \in Threads, LoopAgain(t) PROVE NoLostWakeup'
    <2> DEFINE result == IF SwapResult(t) THEN local_result[t] ELSE m_result
               todo == nTodo - Cardinality(batch[t])
    <2>1. todo \in Nat
      BY CountsWithout DEF QueueInv
    <2>2. LoopHead(t, nTotal, nIdle, todo, result, NotifyMaster(t, todo)) /\ pc[t] = "lock"
      BY <1>5 DEF LoopAgain
    <2>3. todo = 0 /\ t # Master => Master \in NotifyMaster(t, todo)
      BY DEF NotifyMaster
    <2> HIDE DEF todo, result
    <2> QED BY <1>2, <2>1, <2>2, <2>3, LoopHeadPass, PassWakes
  <1>6. ASSUME UNCHANGED <<queue, nTodo>>,
               \A w \in Workers : pc'[w] = "waiting" => pc[w] = "waiting",
               pc'[Master] = "waiting" => pc[Master] = "waiting",
               pc[Master] \in {"notify_one", "notify_all"} =>
                  \/ pc'[Master] \in {"notify_one", "notify_all"}
                  \/ Workers # {} => Waiting' # Workers
        PROVE  NoLostWakeup'
    BY <1>6 DEF NoLostWakeup, Waiting
  <1>7. ASSUME NEW t \in Threads, Execute(t) \/ SpuriousWakeup(t) PROVE NoLostWakeup'
    <2>1. \/ pc' = [pc EXCEPT ![t] = "lock"] /\ pc[t] = "execute"
          \/ pc' = [pc EXCEPT ![t] = "woken"] /\ pc[t] = "waiting"
      BY <1>7 DEF Execute, SpuriousWakeup
    <2>2. UNCHANGED <<queue, nTodo>>
      BY <1>7 DEF Execute, SpuriousWakeup
    <2> QED BY <2>1, <2>2, <1>1, <1>2, <1>6 DEF TypeOK
  <1>8. CASE NotifyOne
    <2>1. PICK woken \in Notified : pc' = Moved(Master, "control", woken)
      BY <1>8 DEF NotifyOne
    <2>2. Workers # {} => Waiting' # Workers
      BY <2>1, <1>1, <1>2 DEF Waiting, Notified, Moved, TypeOK
    <2> QED BY <2>1, <2>2, <1>1, <1>2, <1>6, <1>8 DEF NotifyOne, Moved, TypeOK
  <1>9. CASE NotifyAll
    <2>1. Workers # {} => Waiting' # Workers
      BY <1>9, <1>1, <1>2 DEF Waiting, NotifyAll, Moved, TypeOK
    <2> QED BY <2>1, <1>1, <1>2, <1>6, <1>9 DEF NotifyAll, Moved, TypeOK
  <1>10. CASE NewControl \/ Complete \/ EndControl \/ RequestStop
    BY <1>10, <1>1, <1>2, <1>6 DEF NewControl, Complete, EndControl, RequestStop, TypeOK
  <1>11. CASE NotifyStop
    BY <1>11, <1>1, <1>2, <1>6 DEF NotifyStop, Moved, TypeOK
  <1>12. ASSUME NEW checks \in Txs, Add(checks) PROVE NoLostWakeup'
    BY <1>12, <1>1, <1>2 DEF Add, NoLostWakeup, TypeOK
  <1>13. CASE Joined \/ UNCHANGED vars
    BY <1>13, <1>6 DEF Joined, vars
  <1> QED BY <1>3, <1>4, <1>5, <1>7, <1>8, <1>9, <1>10, <1>11, <1>12, <1>13
         DEF Next, Loop, Caller

-----------------------------------------------------------------------------
(* The inductive invariant holds in every reachable state. *)
THEOREM QueueInvariant == Spec => []QueueInv
  BY InitQueueInv, StepQueueInv, PTL DEF Spec

(* Every variable of the queue keeps its type, for any number of workers   *)
(* and blocks: in particular no counter falls below zero in Loop.          *)
THEOREM QueueTypeCorrect == Spec => []TypeOK
  <1>1. QueueInv => TypeOK
    BY DEF QueueInv
  <1> QED BY <1>1, QueueInvariant, PTL

(* nTodo, nIdle and nTotal of checkqueue.h count what their comments say.  *)
THEOREM QueueCounts == Spec => []CountersCount
  <1>1. QueueInv => CountersCount
    <2> SUFFICES ASSUME QueueInv, ~m_request_stop PROVE CountersCount
      BY DEF CountersCount
    <2>1. queue \cup UNION {batch[t] : t \in InHand} = Pending
      <3>1. \A t \in Threads : batch[t] # {} <=> t \in InHand
        BY DEF QueueInv, BatchInv, Outside, InHand
      <3> QED BY <3>1 DEF Pending, QueueInv, TypeOK, InHand
    <2>2. At(LoopPlaces) = {t \in Threads : pc[t] \in {"execute", "lock", "waiting", "woken"}}
      BY DEF At, LoopPlaces, QueueInv, SessionInv
    <2>3. At(IdlePlaces) = {t \in Threads : pc[t] \in {"waiting", "woken"}}
      BY DEF At, IdlePlaces
    <2> QED BY <2>1, <2>2, <2>3 DEF QueueInv, CountInv, CountersCount
  <1> QED BY <1>1, QueueInvariant, PTL

(* Complete returns an error exactly when a check of its block fails, and  *)
(* no worker has a check of the block in hand when it does.                *)
THEOREM QueueCompleteIsRight == Spec => []CompleteIsRight
  <1>1. QueueInv => CompleteIsRight
    <2> SUFFICES ASSUME QueueInv, pc[Master] = "returned"
                 PROVE  /\ IF verdict = nullopt THEN \A item \in added : ~Fails(item)
                           ELSE verdict \in added /\ Fails(verdict)
                        /\ queue = {} /\ \A w \in Workers : pc[w] \notin {"execute", "lock"}
      BY DEF CompleteIsRight
    <2>1. Pending = {}
      BY FinitePending, FS_EmptySet DEF QueueInv, ReturnInv, CountInv
    <2>2. queue = {} /\ \A t \in Threads : batch[t] = {}
      BY <2>1 DEF Pending, QueueInv, TypeOK
    <2>3. \A t \in Threads : pc[t] \notin {"execute", "lock"}
      BY <2>2 DEF QueueInv, BatchInv, Outside
    <2> QED BY <2>2, <2>3 DEF QueueInv, ReturnInv, Threads
  <1> QED BY <1>1, QueueInvariant, PTL

(* No notification is lost between the lock and the condition variables. *)
THEOREM QueueLosesNoWakeup == Spec => []NoLostWakeup
  <1>1. Init => NoLostWakeup
    BY DEF Init, NoLostWakeup, Threads
  <1> QED BY <1>1, StepWakes, QueueInvariant, PTL DEF Spec

=============================================================================
