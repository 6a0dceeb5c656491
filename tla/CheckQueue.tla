----------------------------- MODULE CheckQueue -----------------------------
(***************************************************************************)
(* CCheckQueue: the script checks of a block, run by worker threads and by *)
(* the thread that connects the block (the master) once it has added them  *)
(* all.  m_mutex protects the queue and its counters, so each stretch of   *)
(* code that holds it is one action; checks run without it.                *)
(* m_control_mutex admits one master at a time, and what a master leaves   *)
(* behind for the next is in the queue and in the workers, so one master   *)
(* with a session for each block stands for all of them.                   *)
(*                                                                         *)
(* "As the order of booleans doesn't matter", the queue is a set.          *)
(***************************************************************************)
EXTENDS Integers, FiniteSets, FiniteSetsExt

CONSTANTS
    Workers,     \* m_worker_threads
    Master,      \* the thread in CCheckQueueControl
    Txs,         \* the transactions a block can have, each the set of its checks
    Failing,     \* those that do not pass
    nBatchSize,
    nullopt,     \* no error
    MaxSessions  \* bound on the blocks

Checks == UNION Txs

ASSUME CheckQueueAssumption ==
    /\ Master \notin Workers /\ IsFiniteSet(Workers)
    /\ IsFiniteSet(Txs) /\ \A checks \in Txs : IsFiniteSet(checks)
    /\ Failing \subseteq Checks
    /\ nBatchSize \in Nat \ {0} /\ MaxSessions \in Nat
    /\ nullopt \notin (1..MaxSessions) \X Checks

VARIABLES
    queue,           \* checks to be taken: <<session, check>>
    nIdle, nTotal, nTodo,
    m_result,
    m_request_stop,
    pc,              \* where each thread is, see below
    batch,           \* vChecks of each thread; nNow is its size
    local_result,    \* of each thread
    session,         \* the number of this CCheckQueueControl
    added,           \* the checks given to it
    verdict          \* what Complete returned

vars == <<queue, nIdle, nTotal, nTodo, m_result, m_request_stop, pc, batch,
          local_result, session, added, verdict>>
control == <<session, added>>

Threads == Workers \cup {Master}
Items == (1..MaxSessions) \X Checks
Results == Items \cup {nullopt}
Fails(item) == item[2] \in Failing

(* "start": before the first iteration of Loop; "execute": with a batch,   *)
(* outside the lock, and do_work, or "lock" without: about to lock with a  *)
(* batch done; "waiting" on its condition variable; "woken": notified, or  *)
(* spuriously, and to lock again; "exited".  The master is also "idle" (no *)
(* control object), in "control" of the queue, about to "notify_one" or    *)
(* "notify_all" in Add, and "returned" from Complete; "stop" and "join" in *)
(* the destructor.                                                         *)
WorkerPlaces == {"start", "execute", "lock", "waiting", "woken", "exited"}
MasterPlaces == (WorkerPlaces \ {"exited"})
                   \cup {"idle", "control", "notify_one", "notify_all", "returned", "stop", "join"}

TypeOK ==
    /\ queue \in SUBSET Items
    /\ nIdle \in Nat /\ nTotal \in Nat /\ nTodo \in Nat
    /\ m_result \in Results
    /\ m_request_stop \in BOOLEAN
    /\ pc \in [Threads -> WorkerPlaces \cup MasterPlaces]
    /\ batch \in [Threads -> SUBSET Items]
    /\ local_result \in [Threads -> Results]
    /\ session \in 0..MaxSessions
    /\ added \in SUBSET Items
    /\ verdict \in Results

Init ==
    /\ queue = {} /\ nIdle = 0 /\ nTotal = 0 /\ nTodo = 0
    /\ m_result = nullopt /\ m_request_stop = FALSE
    /\ pc = [t \in Threads |-> IF t = Master THEN "idle" ELSE "start"]
    /\ batch = [t \in Threads |-> {}]
    /\ local_result = [t \in Threads |-> nullopt]
    /\ session = 0 /\ added = {} /\ verdict = nullopt

-----------------------------------------------------------------------------
(* The program counters after t goes to a place and the threads of woken   *)
(* are notified: of those, the ones that are waiting.                      *)
Moved(t, place, woken) ==
    [u \in Threads |-> IF u = t THEN place
                       ELSE IF u \in woken /\ pc[u] = "waiting" THEN "woken" ELSE pc[u]]

nNow(total, idle) == Max({1, Min({nBatchSize, Cardinality(queue) \div (total + idle + 1)})})

(* When the master may return, with the queue empty; and what is then left *)
(* for the next block.                                                     *)
Done(todo) == todo = 0
ResultKept(result) == result
ResultReset(result) == nullopt

(* The rest of the critical section, from "logically, the do loop starts   *)
(* here": return, wait, exit, or take a batch.  The counters and the       *)
(* result are as the part before it left them.                             *)
Return(t, total, todo, result, woken) ==
    /\ queue = {} /\ ~m_request_stop
    /\ t = Master /\ Done(todo)
    /\ nTotal' = total - 1 /\ nTodo' = todo
    /\ verdict' = result /\ m_result' = ResultReset(result)
    /\ pc' = Moved(t, "returned", woken)
    /\ batch' = [batch EXCEPT ![t] = {}]
    /\ UNCHANGED queue

Wait(t, total, todo, result, woken) ==
    /\ queue = {} /\ ~m_request_stop
    /\ ~(t = Master /\ Done(todo))
    /\ nTotal' = total /\ nTodo' = todo /\ m_result' = result
    /\ pc' = Moved(t, "waiting", woken)
    /\ batch' = [batch EXCEPT ![t] = {}]
    /\ UNCHANGED <<queue, verdict>>

Exit(t, total, todo, result, woken) ==
    /\ m_request_stop
    /\ nTotal' = total /\ nTodo' = todo /\ m_result' = result
    /\ pc' = Moved(t, "exited", woken)
    /\ batch' = [batch EXCEPT ![t] = {}]
    /\ UNCHANGED <<queue, verdict>>

Take(t, total, idle, todo, result, woken) ==
    /\ queue # {} /\ ~m_request_stop
    /\ nTotal' = total /\ nTodo' = todo /\ m_result' = result
    /\ \E b \in kSubset(nNow(total, idle), queue) :
          /\ batch' = [batch EXCEPT ![t] = b]
          /\ queue' = queue \ b
    /\ pc' = Moved(t, IF result = nullopt THEN "execute" ELSE "lock", woken)
    /\ UNCHANGED verdict

LoopHead(t, total, idle, todo, result, woken) ==
    \/ Return(t, total, todo, result, woken) /\ nIdle' = idle
    \/ Wait(t, total, todo, result, woken) /\ nIdle' = idle + 1
    \/ Exit(t, total, todo, result, woken) /\ nIdle' = idle
    \/ Take(t, total, idle, todo, result, woken) /\ nIdle' = idle

(* The first iteration of Loop *)
LoopStart(t) ==
    /\ pc[t] = "start"
    /\ LoopHead(t, nTotal + 1, nIdle, nTodo, m_result, {})
    /\ UNCHANGED <<m_request_stop, local_result, control>>

(* "execute work": until a check fails.  The batch is in any order. *)
Execute(t) ==
    /\ pc[t] = "execute"
    /\ \E r \in (IF \E item \in batch[t] : Fails(item) THEN {i \in batch[t] : Fails(i)}
                 ELSE {nullopt}) :
          local_result' = [local_result EXCEPT ![t] = r]
    /\ pc' = [pc EXCEPT ![t] = "lock"]
    /\ UNCHANGED <<queue, nIdle, nTotal, nTodo, m_result, m_request_stop, batch,
                   control, verdict>>

(* "the clean-up of the previous loop run": the error is swapped in, or    *)
(* stays with the thread; the last check done wakes the master.            *)
SwapResult(t) == local_result[t] # nullopt /\ m_result = nullopt
NotifyMasterNever(t, todo) == {}
NotifyMaster(t, todo) == IF todo = 0 /\ t # Master THEN {Master} ELSE {}

LoopAgain(t) ==
    LET result == IF SwapResult(t) THEN local_result[t] ELSE m_result
        todo == nTodo - Cardinality(batch[t])
    IN  /\ pc[t] = "lock"
        /\ local_result' = [local_result EXCEPT ![t] = IF SwapResult(t) THEN m_result ELSE @]
        /\ LoopHead(t, nTotal, nIdle, todo, result, NotifyMaster(t, todo))
        /\ UNCHANGED <<m_request_stop, control>>

(* The return from cond.wait; and a spurious wakeup. *)
RelockStillIdle(t) ==
    /\ pc[t] = "woken"
    /\ LoopHead(t, nTotal, nIdle, nTodo, m_result, {})
    /\ UNCHANGED <<m_request_stop, local_result, control>>
Relock(t) ==
    /\ pc[t] = "woken"
    /\ LoopHead(t, nTotal, nIdle - 1, nTodo, m_result, {})
    /\ UNCHANGED <<m_request_stop, local_result, control>>

SpuriousWakeup(t) ==
    /\ pc[t] = "waiting"
    /\ pc' = [pc EXCEPT ![t] = "woken"]
    /\ UNCHANGED <<queue, nIdle, nTotal, nTodo, m_result, m_request_stop, batch,
                   local_result, control, verdict>>

-----------------------------------------------------------------------------
rest == <<nIdle, nTotal, m_result, batch, local_result, verdict>>

(* CCheckQueueControl *)
NewControl ==
    /\ pc[Master] = "idle" /\ session < MaxSessions
    /\ session' = session + 1
    /\ pc' = [pc EXCEPT ![Master] = "control"]
    /\ UNCHANGED <<added, queue, nTodo, m_request_stop, rest>>

TodoAfterAddOne(items) == nTodo + 1
TodoAfterAdd(items) == nTodo + Cardinality(items)

(* Add: the critical section, and then the notification. *)
Add(checks) ==
    LET items == {session} \X checks
    IN  /\ pc[Master] = "control"
        /\ checks # {} /\ items \cap added = {}
        /\ queue' = queue \cup items
        /\ nTodo' = TodoAfterAdd(items)
        /\ added' = added \cup items
        /\ pc' = [pc EXCEPT ![Master] = IF Cardinality(items) = 1 THEN "notify_one"
                                        ELSE "notify_all"]
        /\ UNCHANGED <<session, m_request_stop, rest>>

Waiting == {w \in Workers : pc[w] = "waiting"}
(* notify_one *)
NotifiedNone == {{}}
Notified == IF Waiting = {} THEN {{}} ELSE {{w} : w \in Waiting}

NotifyOne ==
    /\ pc[Master] = "notify_one"
    /\ \E woken \in Notified : pc' = Moved(Master, "control", woken)
    /\ UNCHANGED <<queue, nTodo, m_request_stop, control, rest>>

NotifyAll ==
    /\ pc[Master] = "notify_all"
    /\ pc' = Moved(Master, "control", Workers)
    /\ UNCHANGED <<queue, nTodo, m_request_stop, control, rest>>

(* Complete, called by the owner of the control object or by its           *)
(* destructor; Loop(true) starts with fresh local variables.               *)
Complete ==
    /\ pc[Master] = "control"
    /\ pc' = [pc EXCEPT ![Master] = "start"]
    /\ local_result' = [local_result EXCEPT ![Master] = nullopt]
    /\ UNCHANGED <<queue, nIdle, nTotal, nTodo, m_result, m_request_stop, batch, control,
                   verdict>>

EndControl ==
    /\ pc[Master] = "returned"
    /\ pc' = [pc EXCEPT ![Master] = "idle"]
    /\ added' = {} /\ verdict' = nullopt
    /\ UNCHANGED <<queue, nIdle, nTotal, nTodo, m_result, m_request_stop, batch,
                   local_result, session>>

(* ~CCheckQueue: the request, the notification, and the wait in join. *)
RequestStop ==
    /\ pc[Master] = "idle"
    /\ m_request_stop' = TRUE
    /\ pc' = [pc EXCEPT ![Master] = "stop"]
    /\ UNCHANGED <<queue, nTodo, control, rest>>

NotifyStopOne ==
    /\ pc[Master] = "stop"
    /\ \E woken \in Notified : pc' = Moved(Master, "join", woken)
    /\ UNCHANGED <<queue, nTodo, m_request_stop, control, rest>>
NotifyStop ==
    /\ pc[Master] = "stop"
    /\ pc' = Moved(Master, "join", Workers)
    /\ UNCHANGED <<queue, nTodo, m_request_stop, control, rest>>

Joined ==
    /\ pc[Master] = "join" /\ \A w \in Workers : pc[w] = "exited"
    /\ UNCHANGED vars

Loop(t) == LoopStart(t) \/ Execute(t) \/ LoopAgain(t) \/ Relock(t)
Caller == NewControl \/ NotifyOne \/ NotifyAll \/ Complete \/ EndControl \/ NotifyStop

Next ==
    \/ \E t \in Threads : Loop(t) \/ SpuriousWakeup(t)
    \/ Caller
    \/ \E checks \in Txs : Add(checks)
    \/ RequestStop
    \/ Joined

Spec == Init /\ [][Next]_vars

(* A thread that has something to do and can get the lock does it.  Adding *)
(* checks, spurious wakeups and shutting down may never happen.            *)
FairSpec ==
    /\ Spec
    /\ \A t \in Threads : WF_vars(Loop(t))
    /\ WF_vars(NotifyOne \/ NotifyAll \/ NotifyStop)

-----------------------------------------------------------------------------
(* Complete returns an error exactly when one of the checks of this block  *)
(* fails, and then the error of such a check: no failure is lost between   *)
(* the threads, and none is left over from the block before.  Nor is any   *)
(* check of the block still with a worker when it returns, with references *)
(* into the block and its coins.                                           *)
CompleteIsRight ==
    pc[Master] = "returned" =>
        /\ IF verdict = nullopt THEN \A item \in added : ~Fails(item)
           ELSE verdict \in added /\ Fails(verdict)
        /\ queue = {} /\ \A w \in Workers : pc[w] \notin {"execute", "lock"}

InHand == {t \in Threads : pc[t] \in {"execute", "lock"}}

(* nTodo, nIdle and nTotal count what their comments say: the checks that  *)
(* are not completed, in the queue or in batches; and the threads that are *)
(* idle, and that are in Loop.                                             *)
CountersCount ==
    ~m_request_stop =>
        /\ nTodo = Cardinality(queue \cup UNION {batch[t] : t \in InHand})
        /\ nIdle = Cardinality({t \in Threads : pc[t] \in {"waiting", "woken"}})
        /\ nTotal = Cardinality({t \in Threads : pc[t] \in {"execute", "lock", "waiting", "woken"}})

(* No wakeup is lost: checks in the queue have a worker that is awake, or  *)
(* a notification to come; and the master does not sleep when all checks   *)
(* are done.                                                               *)
NoLostWakeup ==
    /\ (queue # {} /\ Workers # {} /\ Waiting = Workers) => pc[Master] \in {"notify_one", "notify_all"}
    /\ pc[Master] = "waiting" => nTodo > 0

(* Once the master waits for the outcome, it gets it. *)
CompleteReturns == pc[Master] = "start" ~> pc[Master] = "returned"

(* After the destructor's request every worker exits, so join returns. *)
WorkersExit == m_request_stop ~> \A w \in Workers : pc[w] = "exited"
=============================================================================
