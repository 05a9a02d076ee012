------------------------------ MODULE TaskWait ------------------------------
(***************************************************************************)
(* Tasks, wait enrollment and wake-up, as the synchronization objects of   *)
(* src/Rust/sched see them (sync_wait.rs, wait_node.rs, scheduler.rs,      *)
(* task/task_registry.rs).                                                 *)
(*                                                                         *)
(* Every operation between wait::enter() and wait::leave() runs under the  *)
(* scheduler's Runtime owner, so it is one atomic step here; two such      *)
(* sections of one call are two steps and other tasks may run in between.  *)
(*                                                                         *)
(* A task is "Running" on some processor, "Ready" (dispatchable),          *)
(* "Blocked" in a wait queue or "Dead".  node[t] is the task's intrusive   *)
(* wait node: the queue it is linked to, its place in the FIFO, counted    *)
(* from one, and the wake rank published for it (module WaitNode shows     *)
(* that the pointer list and the u64 order keys of wait_node.rs keep       *)
(* exactly this order).  timed[t] says that wake_tick is set, i.e. that    *)
(* the wait can time out.  Task names stand for the exact (id, generation) *)
(* identity; names are not reused.                                         *)
(***************************************************************************)
EXTENDS Naturals, FiniteSets

CONSTANTS Task,      \* exact task identities
          Queue,     \* wait queues
          NoQueue,   \* the null queue pointer of an unlinked node
          Ranks,     \* wake ranks in use: 0 Input ... 3 Batch
          MaxGen     \* generations are counted modulo this width (u64 in the code)

ASSUME TaskWaitAssumption ==
    /\ IsFiniteSet(Task)
    /\ NoQueue \notin Queue
    /\ Ranks \subseteq 0..3
    /\ MaxGen \in Nat \ {0, 1}

VARIABLES state, node, timed, result, closing, generation

waitVars == <<state, node, timed, result, closing, generation>>

WaitResult == {"None", "Signaled", "Timeout", "Cancelled", "Killed", "Failed"}
Node == [queue : Queue \cup {NoQueue}, place : Nat, rank : 0..3]
Unlinked == [queue |-> NoQueue, place |-> 0, rank |-> 0]

WaitTypeOK ==
    /\ state \in [Task -> {"Running", "Ready", "Blocked", "Dead"}]
    /\ node \in [Task -> Node]
    /\ timed \in [Task -> BOOLEAN]
    /\ result \in [Task -> WaitResult]
    /\ closing \in [Queue -> BOOLEAN]
    /\ generation \in [Queue -> 1..(MaxGen - 1)]

WaitInit ==
    /\ state = [t \in Task |-> "Ready"]
    /\ node = [t \in Task |-> Unlinked]
    /\ timed = [t \in Task |-> FALSE]
    /\ result = [t \in Task |-> "None"]
    /\ closing = [q \in Queue |-> FALSE]
    /\ generation = [q \in Queue |-> 1]

-----------------------------------------------------------------------------
(* The queue: the linked tasks, the FIFO head, the head of the rank index. *)

Linked(q) == {t \in Task : node[t].queue = q}

\* (rank, order) of the priority index.
Before(t, u) ==
    \/ node[t].rank < node[u].rank
    \/ node[t].rank = node[u].rank /\ node[t].place < node[u].place

IsHead(t, q) ==
    /\ t \in Linked(q)
    /\ \A u \in Linked(q) : node[t].place <= node[u].place

IsFirstRanked(t, q) ==
    /\ t \in Linked(q)
    /\ \A u \in Linked(q) \ {t} : Before(t, u)

Link(t, q, r) ==
    [node EXCEPT ![t] =
        [queue |-> q, place |-> Cardinality(Linked(q)) + 1, rank |-> r]]

\* Detach the tasks of S; those that stay keep their relative order.
Detach(S) ==
    [t \in Task |->
        IF t \in S \/ node[t].queue = NoQueue THEN Unlinked
        ELSE [queue |-> node[t].queue,
              rank |-> node[t].rank,
              place |-> Cardinality({u \in Linked(node[t].queue) \ S :
                                        node[u].place <= node[t].place})]]

-----------------------------------------------------------------------------
(* begin_wait and finish_wait, the only ways into and out of "Blocked".     *)

\* wait_impl from link_ranked to the park: enroll with the wake rank r the
\* task has at this moment, then block.
Block(t, q, bounded, r) ==
    /\ node' = Link(t, q, r)
    /\ state' = [state EXCEPT ![t] = "Blocked"]
    /\ timed' = [timed EXCEPT ![t] = bounded]
    /\ result' = [result EXCEPT ![t] = "None"]

\* wake_task for every task of S, with the result r[t].
WakeEach(S, r) ==
    /\ node' = Detach(S)
    /\ state' = [t \in Task |-> IF t \in S THEN "Ready" ELSE state[t]]
    /\ timed' = [t \in Task |-> IF t \in S THEN FALSE ELSE timed[t]]
    /\ result' = [t \in Task |-> IF t \in S THEN r[t] ELSE result[t]]

WakeAll(S, r) == WakeEach(S, [t \in S |-> r])

\* transition_dead: the node leaves its queue before the descriptor dies.
Bury(t) ==
    /\ node' = Detach({t})
    /\ state' = [state EXCEPT ![t] = "Dead"]
    /\ timed' = [timed EXCEPT ![t] = FALSE]
    /\ result' = [result EXCEPT ![t] = "Killed"]

-----------------------------------------------------------------------------
(* Dispatch and preemption: which task runs is the scheduler's choice.      *)

Dispatch(t) ==
    /\ state[t] = "Ready"
    /\ state' = [state EXCEPT ![t] = "Running"]
    /\ UNCHANGED <<node, timed, result, closing, generation>>

Preempt(t) ==
    /\ state[t] = "Running"
    /\ state' = [state EXCEPT ![t] = "Ready"]
    /\ UNCHANGED <<node, timed, result, closing, generation>>

\* mutex_pi::changed: a role or donation change publishes the new wake rank of
\* a queued task in the rank index; its FIFO place stays.
SetRank(t, r) ==
    /\ node[t].queue # NoQueue
    /\ r # node[t].rank
    /\ node' = [node EXCEPT ![t].rank = r]
    /\ UNCHANGED <<state, timed, result, closing, generation>>

\* wake_expired: the deadline index names a blocked task whose tick came.
Expire(t) ==
    /\ state[t] = "Blocked"
    /\ timed[t]
    /\ WakeAll({t}, "Timeout")
    /\ UNCHANGED <<closing, generation>>

\* sync_queue operation 7: cancel exactly this blocked task in this queue.
CancelExact(t) ==
    /\ state[t] = "Blocked"
    /\ node[t].queue # NoQueue
    /\ WakeAll({t}, "Cancelled")
    /\ UNCHANGED <<closing, generation>>

NextGen(g) == IF g + 1 = MaxGen THEN 1 ELSE g + 1

\* sync_queue operation 4: close once, then drain every waiter.
Close(q) ==
    /\ closing' = [closing EXCEPT ![q] = TRUE]
    /\ generation' = [generation EXCEPT ![q] = IF closing[q] THEN @ ELSE NextGen(@)]
    /\ WakeAll(Linked(q), "Cancelled")

\* sync_queue operation 5: a closed, empty queue admits waiters again.
Reopen(q) ==
    /\ closing[q]
    /\ Linked(q) = {}
    /\ closing' = [closing EXCEPT ![q] = FALSE]
    /\ generation' = [generation EXCEPT ![q] = NextGen(@)]
    /\ UNCHANGED <<state, node, timed, result>>
=============================================================================
