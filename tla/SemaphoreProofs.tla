-------------------------- MODULE SemaphoreProofs ---------------------------
(***************************************************************************)
(* The inductive invariant of the semaphore, the tasks a release serves,    *)
(* the steps that keep the invariant, and the results for any number of     *)
(* tasks and every counter width.                                           *)
(***************************************************************************)
EXTENDS Semaphore, TaskWaitProofs

\* The only queue of this object is its own.
OwnQueue == \A t \in Task : node[t].queue \in {sem, NoQueue}

\* Where a task can be while a permit is on its way to it, and what blocks it.
Phases ==
    /\ \A t \in Task : state[t] = "Blocked" => pc[t] \in {"plain", "guarded"} /\ ~pending[t]
    /\ \A t \in Task : pending[t] => pc[t] \in {"plain", "guarded"} /\ result[t] = "Signaled"
    /\ \A t \in Task : (pc[t] \in {"plain", "guarded"} /\ result[t] = "Signaled" /\ state[t] # "Dead")
                          => pending[t]
    /\ \A t \in InFlight : state[t] \in {"Ready", "Running"}

\* The inductive invariant.
IInv ==
    /\ TypeOK
    /\ WaitInv
    /\ OwnQueue
    /\ Phases
    /\ UnwindExact
    /\ NoLostWakeup
    /\ PermitConservation

\* The semaphore has a queue of its own, which is not the null queue.
LEMMA SemInQueue == sem \in Queue /\ sem # NoQueue
  BY SemaphoreAssumption, TaskWaitAssumption, Zenon DEF sem

\* What the invariant says of the queue.
LEMMA Queued ==
  ASSUME IInv
  PROVE  /\ WaitTypeOK /\ Ordered
         /\ BlockedIffLinked
         /\ \A t \in Linked(sem) : t \in Task /\ state[t] = "Blocked"
  BY SemInQueue, Zenon DEF IInv, WaitInv, OwnQueue, BlockedIffLinked, Linked

-----------------------------------------------------------------------------
(* The tasks a release serves. *)

\* Ahead numbers the receivers 0, 1, 2, ... in rank order.
LEMMA AheadNumbers ==
  ASSUME IInv
  PROVE  LET ahead == [t \in Receivers |-> Ahead(t)]
             N == Cardinality(Receivers)
         IN  /\ N \in Nat
             /\ ahead \in Injection(Receivers, 0..(N - 1))
             /\ ahead \in Surjection(Receivers, 0..(N - 1))
  <1> DEFINE number == [t \in Receivers |-> Cardinality({u \in Receivers : <<u, t>> \in RankOrder})]
             N == Cardinality(Receivers)
  <1>1. Receivers \in SUBSET Linked(sem)
    BY Zenon DEF Receivers
  <1>2. /\ IsFiniteSet(Receivers)
        /\ LinearOn(Receivers, RankOrder)
        /\ \A t, u \in Receivers : <<t, u>> \in RankOrder <=> Before(t, u)
    BY <1>1, Queued, SemInQueue, RankLinear, Zenon
  <1>3. /\ N \in Nat
        /\ number \in Injection(Receivers, 0..(N - 1))
        /\ number \in Surjection(Receivers, 0..(N - 1))
    BY <1>2, OrderNumbers, Zenon
  <1>4. \A t \in Receivers : {u \in Receivers : <<u, t>> \in RankOrder}
                               = {u \in Receivers : Before(u, t)}
    BY <1>2, Zenon
  <1>5. number = [t \in Receivers |-> Ahead(t)]
    BY <1>4, Zenon DEF Ahead
  <1> QED
    BY <1>3, <1>5, Zenon

\* handoff_permit in a loop of n: it serves min(n, receivers) tasks.
LEMMA HandedExact ==
  ASSUME IInv, NEW n \in Nat
  PROVE  /\ Cardinality(Handed(n)) \in Nat
         /\ Cardinality(Handed(n)) <= n
         /\ Cardinality(Handed(n)) < n => Handed(n) = Receivers
  <1> DEFINE ahead == [t \in Receivers |-> Ahead(t)]
             N == Cardinality(Receivers)
             H == Handed(n)
             part == [t \in H |-> Ahead(t)]
  <1>1. /\ N \in Nat
        /\ ahead \in Injection(Receivers, 0..(N - 1))
        /\ ahead \in Surjection(Receivers, 0..(N - 1))
    BY AheadNumbers, Zenon
  <1>2. H \in SUBSET Receivers /\ Receivers \in SUBSET Task
    BY Zenon DEF Handed, Receivers, Linked
  <1>3. IsFiniteSet(H) /\ Cardinality(H) \in Nat
    BY <1>2, FiniteTasks, Zenon
  <1>4. \A t \in Receivers : Ahead(t) \in 0..(N - 1)
    BY <1>1, Zenon DEF Injection
  <1>5. \A t, u \in Receivers : t # u => Ahead(t) # Ahead(u)
    <2>1. \A t, u \in Receivers : ahead[t] = ahead[u] => t = u
      BY <1>1, Zenon DEF Injection, IsInjective
    <2> QED
      BY <2>1, Zenon
  <1>6. \A t \in H : Ahead(t) \in 0..(n - 1)
    BY <1>1, <1>4 DEF Handed
  <1>7. part \in Injection(H, 0..(n - 1))
    BY <1>2, <1>5, <1>6, Zenon DEF Injection, IsInjective
  <1>8. IsFiniteSet(0..(n - 1)) /\ Cardinality(0..(n - 1)) = n
    BY FS_Interval
  <1>9. Cardinality(H) <= n
    BY <1>7, <1>8, FS_Injection
  <1>10. ASSUME Cardinality(H) < n PROVE H = Receivers
    <2>1. CASE N <= n
      BY <2>1, <1>1, <1>4 DEF Handed
    <2>2. CASE n < N
      <3>1. ASSUME NEW k \in 0..(n - 1) PROVE \E t \in H : part[t] = k
        <4>1. k \in 0..(N - 1)
          BY <2>2, <1>1
        <4>2. PICK t \in Receivers : ahead[t] = k
          BY <4>1, <1>1, Zenon DEF Surjection
        <4>3. Ahead(t) = k /\ k < n
          BY <4>2
        <4>4. t \in H
          BY <4>3, Zenon DEF Handed
        <4> QED
          BY <4>3, <4>4, Zenon
      <3>2. part \in [H -> 0..(n - 1)]
        BY <1>6, Zenon
      <3>3. part \in Surjection(H, 0..(n - 1))
        BY <3>1, <3>2, Zenon DEF Surjection
      <3>4. n <= Cardinality(H)
        BY <3>3, <1>3, <1>8, FS_Surjection
      <3> QED
        BY <3>4, <1>10, <1>3
    <2> QED
      BY <2>1, <2>2, <1>1
  <1> QED
    BY <1>3, <1>9, <1>10, Zenon

\* A release that has permits left over leaves nobody in the queue.
LEMMA AllServed ==
  ASSUME IInv, NEW n \in Nat, Cardinality(Handed(n)) < n
  PROVE  Handed(n) \cup TurnedAway(n) = Linked(sem)
  <1>1. Handed(n) = Receivers /\ Cardinality(Receivers) \in Nat /\ Cardinality(Receivers) < n
    BY HandedExact, Zenon
  <1>2. Receivers \in SUBSET Task
    BY Zenon DEF Receivers, Linked
  <1>3. ASSUME NEW t \in Linked(sem), Refused(t) PROVE Ahead(t) < n
    <2> DEFINE F == {u \in Receivers : Before(u, t)}
    <2>1. F \in SUBSET Receivers /\ IsFiniteSet(Receivers) /\ Cardinality(F) \in Nat
      BY <1>2, FiniteTasks, Zenon
    <2>2. Cardinality(F) <= Cardinality(Receivers)
      BY <2>1, FS_Subset, Zenon
    <2> QED
      BY <2>1, <2>2, <1>1 DEF Ahead
  <1> QED
    BY <1>1, <1>3, Zenon DEF TurnedAway, Receivers

-----------------------------------------------------------------------------
(* The rest of the kernel. *)

\* Steps that leave the fields of the semaphore alone and move tasks only out of
\* the queue, without a permit.
LEMMA QuietKeeps ==
  ASSUME IInv, WaitInv', UNCHANGED semVars,
         \A t \in Task : node'[t].queue \in {node[t].queue, NoQueue},
         \A t \in Task : state'[t] = "Blocked" => state[t] = "Blocked",
         \A t \in InFlight : state'[t] \in {"Ready", "Running"} /\ result'[t] = result[t],
         \A t \in Task : result'[t] = "Signaled" /\ state'[t] # "Dead" =>
                            result[t] = "Signaled" /\ state[t] # "Dead"
  PROVE  IInv'
  <1> USE DEF IInv
  <1>1. InFlight' = InFlight
    BY Zenon DEF InFlight, semVars
  <1>2. TypeOK'
    BY Zenon DEF TypeOK, WaitInv, semVars
  <1>3. OwnQueue'
    BY Zenon DEF OwnQueue
  <1>4. Linked(sem)' \subseteq Linked(sem)
    BY SemInQueue, Zenon DEF Linked
  <1>5. Phases'
    <2>1. pc' = pc /\ pending' = pending
      BY Zenon DEF semVars
    <2>2. \A t \in Task : pending[t] => t \in InFlight
      BY Zenon DEF InFlight
    <2> QED
      BY <1>1, <2>1, <2>2 DEF Phases
  <1>6. UnwindExact' /\ NoLostWakeup'
    BY <1>1, <1>4, Zenon DEF UnwindExact, NoLostWakeup, semVars
  <1>7. PermitConservation'
    BY <1>1, Zenon DEF PermitConservation, semVars
  <1> QED
    BY <1>2, <1>3, <1>5, <1>6, <1>7, Zenon

\* A task with a permit on its way is not queued, and it unwinds.
LEMMA InFlightAwake ==
  ASSUME IInv, NEW t \in InFlight
  PROVE  t \in Task /\ state[t] \in {"Ready", "Running"} /\ t \notin Linked(sem) /\ unwind[t] # 0
  <1>1. t \in Task /\ state[t] \in {"Ready", "Running"}
    BY Zenon DEF IInv, Phases, InFlight
  <1>2. t \notin Linked(sem)
    BY <1>1, Queued, Zenon
  <1>3. unwind[t] = token[t] + 1 /\ token[t] \in Nat
    BY <1>1, SemaphoreAssumption DEF IInv, UnwindExact, TypeOK
  <1> QED
    BY <1>1, <1>2, <1>3

\* Kill and exit bury a task that does not unwind, so no permit is with it.
LEMMA BuryClean ==
  ASSUME IInv, NEW t \in Task, unwind[t] = 0, Bury(t), UNCHANGED <<closing, generation>>,
         UNCHANGED semVars
  PROVE  IInv'
  <1>1. /\ WaitInv'
        /\ \A u \in Task : node'[u].queue = IF u = t THEN NoQueue ELSE node[u].queue
        /\ \A u \in Task : state'[u] = IF u = t THEN "Dead" ELSE state[u]
        /\ \A u \in Task : result'[u] = IF u = t THEN "Killed" ELSE result[u]
    BY BuryKeeps, Zenon DEF IInv
  <1>2. \A u \in InFlight : u \in Task /\ u # t /\ state[u] \in {"Ready", "Running"}
    BY InFlightAwake, Zenon
  <1> QED
    BY <1>1, <1>2, QuietKeeps, Zenon

\* Timeouts and exact cancels wake one queued task without a permit.
LEMMA WakeOneClean ==
  ASSUME IInv, NEW t \in Task, Expire(t) \/ CancelExact(t), UNCHANGED semVars
  PROVE  IInv'
  <1>1. /\ WaitInv' /\ state[t] = "Blocked"
        /\ \A u \in Task : node'[u].queue = IF u = t THEN NoQueue ELSE node[u].queue
        /\ \A u \in Task : state'[u] = IF u = t THEN "Ready" ELSE state[u]
        /\ \A u \in Task \ {t} : result'[u] = result[u]
        /\ result'[t] \in {"Timeout", "Cancelled"}
    BY WakeOneKeeps, Zenon DEF IInv
  <1>2. \A u \in InFlight : u \in Task /\ u # t /\ state[u] \in {"Ready", "Running"}
    BY <1>1, InFlightAwake, Zenon
  <1> QED
    BY <1>1, <1>2, QuietKeeps, Zenon

\* Close cancels every queued task.
LEMMA CloseClean ==
  ASSUME IInv, Close(sem), UNCHANGED semVars
  PROVE  IInv'
  <1>1. /\ WaitInv'
        /\ \A t \in Task : node'[t].queue = IF t \in Linked(sem) THEN NoQueue ELSE node[t].queue
        /\ \A t \in Task : state'[t] = IF t \in Linked(sem) THEN "Ready" ELSE state[t]
        /\ \A t \in Task : result'[t] = IF t \in Linked(sem) THEN "Cancelled" ELSE result[t]
    BY CloseKeeps, SemInQueue, Zenon DEF IInv
  <1>2. \A t \in InFlight : t \in Task /\ t \notin Linked(sem) /\ state[t] \in {"Ready", "Running"}
    BY InFlightAwake, Zenon
  <1> QED
    BY <1>1, <1>2, QuietKeeps, Zenon

\* Dispatch, preemption, a new wake rank and a reopen.
LEMMA SchedulerClean ==
  ASSUME IInv, UNCHANGED semVars,
         \/ \E t \in Task : Dispatch(t) \/ Preempt(t)
         \/ \E t \in Task, r \in Ranks : SetRank(t, r)
         \/ Reopen(sem)
         \/ UNCHANGED waitVars
  PROVE  IInv'
  <1>1. \A u \in InFlight : u \in Task /\ state[u] \in {"Ready", "Running"}
    BY InFlightAwake, Zenon
  <1>2. ASSUME NEW t \in Task, Dispatch(t) \/ Preempt(t) PROVE IInv'
    <2>1. /\ WaitInv' /\ node' = node /\ result' = result
          /\ state[t] \in {"Ready", "Running"} /\ state'[t] \in {"Ready", "Running"}
          /\ \A u \in Task \ {t} : state'[u] = state[u]
      BY <1>2, SwitchKeeps, Zenon DEF IInv
    <2> QED
      BY <1>1, <2>1, QuietKeeps, Zenon
  <1>3. ASSUME NEW t \in Task, NEW r \in Ranks, SetRank(t, r) PROVE IInv'
    <2>1. /\ WaitInv' /\ state' = state /\ result' = result
          /\ \A u \in Task : node'[u].queue = node[u].queue
      BY <1>3, RankKeeps, Zenon DEF IInv
    <2> QED
      BY <1>1, <2>1, QuietKeeps, Zenon
  <1>4. ASSUME Reopen(sem) PROVE IInv'
    <2>1. WaitInv' /\ node' = node /\ state' = state /\ result' = result
      BY <1>4, ReopenKeeps, SemInQueue, Zenon DEF IInv
    <2> QED
      BY <1>1, <2>1, QuietKeeps, Zenon
  <1>5. ASSUME UNCHANGED waitVars PROVE IInv'
    <2>1. WaitInv' /\ node' = node /\ state' = state /\ result' = result
      BY <1>5, WaitStutter, Zenon DEF IInv, waitVars
    <2> QED
      BY <1>1, <2>1, QuietKeeps, Zenon
  <1> QED
    BY <1>2, <1>3, <1>4, <1>5, Zenon

-----------------------------------------------------------------------------
(* Release. *)

\* release(n): permits go to waiters first, the rest to the counter.
LEMMA ReleaseKeeps ==
  ASSUME IInv, NEW n \in Nat, Release(n)
  PROVE  IInv'
  <1> USE DEF IInv
  <1> DEFINE H == Handed(n)
             X == TurnedAway(n)
             h == Cardinality(H)
             rest == n - h
             stored == IF rest <= MaxCount - count THEN rest ELSE MaxCount - count
  <1>1. /\ node' = Detach(H \cup X)
        /\ state' = [t \in Task |-> IF t \in H \cup X THEN "Ready" ELSE state[t]]
        /\ timed' = [t \in Task |-> IF t \in H \cup X THEN FALSE ELSE timed[t]]
        /\ result' = [t \in Task |-> IF t \in H THEN "Signaled"
                                     ELSE IF t \in X THEN "Failed" ELSE result[t]]
    BY Zenon DEF Release, WakeEach
  <1>2. /\ pending' = [t \in Task |-> IF t \in H THEN TRUE ELSE pending[t]]
        /\ unwind' = [t \in Task |-> IF t \in H THEN unwind[t] + 1 ELSE unwind[t]]
        /\ UNCHANGED <<closing, generation, token, pc, taken>>
    BY Zenon DEF Release, Handoff
  <1>3. count' = count + stored /\ issued' = issued + h + stored
    BY Zenon DEF Release
  <1>4. H \in SUBSET Linked(sem) /\ X \in SUBSET Linked(sem) /\ Linked(sem) \in SUBSET Task
    BY Zenon DEF Handed, TurnedAway, Receivers, Linked
  <1> DEFINE res == [t \in H \cup X |-> IF t \in H THEN "Signaled" ELSE "Failed"]
  <1>5. /\ WaitInv'
        /\ Linked(sem)' = Linked(sem) \ (H \cup X)
        /\ \A t \in Task : node'[t].queue = IF t \in H \cup X THEN NoQueue ELSE node[t].queue
    <2>1. H \cup X \in SUBSET Task /\ WakeEach(H \cup X, res)
      BY <1>4, Zenon DEF Release
    <2>2. \A t \in H \cup X : res[t] \in WaitResult
      BY Zenon DEF WaitResult
    <2>3. /\ closing' \in [Queue -> BOOLEAN]
          /\ generation' \in [Queue -> 1..(MaxGen - 1)]
          /\ \A q \in Queue : closing'[q] => closing[q] \/ Linked(q) \subseteq H \cup X
      BY <1>2, Zenon DEF WaitInv, WaitTypeOK
    <2> DEFINE S == H \cup X
    <2> HIDE DEF H, X, res, S
    <2>4. /\ WaitInv'
          /\ \A q \in Queue : Linked(q)' = Linked(q) \ S
          /\ \A t \in Task : node'[t].queue = IF t \in S THEN NoQueue ELSE node[t].queue
      BY <2>1, <2>2, <2>3, WakeKeeps, Zenon DEF S
    <2> QED
      BY <2>4, SemInQueue, Zenon DEF S
  <1>6. \A t \in H : ~pending[t] /\ unwind[t] # MaxUnwind
    BY Zenon DEF Handed, Receivers, Refused
  <1>7. \A t \in H \cup X : state[t] = "Blocked" /\ pc[t] \in {"plain", "guarded"} /\ ~pending[t]
    BY <1>4, Queued, Zenon DEF Phases
  <1>8. h \in Nat /\ h <= n
    BY HandedExact, Zenon
  <1>9. /\ count \in 0..MaxCount /\ MaxCount \in Nat /\ MaxUnwind \in Nat /\ issued \in Nat
        /\ unwind \in [Task -> 0..MaxUnwind] /\ token \in [Task -> 0..MaxUnwind] /\ taken \in Nat
    BY SemaphoreAssumption, Zenon DEF TypeOK
  <1>10. stored \in Nat /\ count + stored \in 0..MaxCount /\ (stored # 0 => h < n)
    BY <1>8, <1>9
  <1>11. /\ \A t \in H : pending'[t]
         /\ \A t \in Task \ H : pending'[t] <=> pending[t]
         /\ pending' \in [Task -> BOOLEAN]
    BY ZenonT(40), <1>2, <1>4 DEF TypeOK
  <1>12. InFlight' = InFlight \cup H
    BY ZenonT(40), <1>2, <1>4, <1>11 DEF InFlight
  <1>13. InFlight \cap H = {}
    BY <1>4, <1>7, Zenon DEF InFlight
  <1> HIDE DEF H, X, h, rest, stored, res
  <1>14. TypeOK'
    <2>1. unwind' \in [Task -> 0..MaxUnwind]
      BY <1>2, <1>6, <1>9
    <2>2. WaitTypeOK'
      BY <1>5, Zenon DEF WaitInv
    <2>3. count' \in 0..MaxCount /\ issued' \in Nat
      BY <1>3, <1>8, <1>9, <1>10, SMTT(30)
    <2>4. /\ token' \in [Task -> 0..MaxUnwind]
          /\ pc' \in [Task -> {"idle", "plain", "guarded", "leave"}]
          /\ taken' \in Nat
      BY <1>2, Zenon DEF TypeOK
    <2> QED
      BY <1>11, <2>1, <2>2, <2>3, <2>4, Zenon DEF TypeOK
  <1>15. /\ \A t \in H : state'[t] = "Ready" /\ result'[t] = "Signaled"
         /\ \A t \in X \ H : state'[t] = "Ready" /\ result'[t] = "Failed"
         /\ \A t \in Task \ (H \cup X) : state'[t] = state[t] /\ result'[t] = result[t]
    BY <1>1, <1>4, Zenon
  <1>16. \A t \in InFlight' : state'[t] \in {"Ready", "Running"}
    BY <1>4, <1>7, <1>12, <1>15, Zenon DEF Phases, InFlight
  <1>17. Phases'
    <2>1. ASSUME NEW t \in Task
          PROVE  /\ state'[t] = "Blocked" => pc'[t] \in {"plain", "guarded"} /\ ~pending'[t]
                 /\ pending'[t] => pc'[t] \in {"plain", "guarded"} /\ result'[t] = "Signaled"
                 /\ (pc'[t] \in {"plain", "guarded"} /\ result'[t] = "Signaled" /\ state'[t] # "Dead")
                       => pending'[t]
      <3>1. CASE t \in H
        BY <3>1, <1>2, <1>7, <1>11, <1>15, Zenon
      <3>2. CASE t \in X \ H
        BY <3>2, <1>2, <1>7, <1>11, <1>15, Zenon
      <3>3. CASE t \notin H \cup X
        BY <3>3, <1>2, <1>11, <1>15 DEF Phases
      <3> QED
        BY <3>1, <3>2, <3>3, Zenon
    <2> QED
      BY <1>16, <2>1, Zenon DEF Phases
  <1>18. OwnQueue'
    BY <1>5, Zenon DEF OwnQueue
  <1>19. UnwindExact'
    <2>1. ASSUME NEW t \in Task
          PROVE  unwind'[t] = token'[t] + (IF t \in InFlight' THEN 1 ELSE 0)
      BY <1>2, <1>9, <1>12, <1>13 DEF UnwindExact
    <2> QED
      BY <2>1, Zenon DEF UnwindExact
  <1>20. NoLostWakeup'
    <2>1. CASE stored = 0
      BY <2>1, <1>3, <1>5, <1>9 DEF NoLostWakeup
    <2>2. CASE stored # 0
      <3>1. H \cup X = Linked(sem)
        BY <2>2, <1>10, AllServed, Zenon DEF H, X, h
      <3> QED
        BY <3>1, <1>5, Zenon DEF NoLostWakeup
    <2> QED
      BY <2>1, <2>2, Zenon
  <1>21. PermitConservation'
    <2>1. InFlight \in SUBSET Task /\ H \in SUBSET Task
      BY <1>4, Zenon DEF InFlight
    <2>2. IsFiniteSet(InFlight) /\ IsFiniteSet(H) /\ Cardinality(InFlight) \in Nat
      BY <2>1, FiniteTasks, Zenon
    <2>3. Cardinality(InFlight \cap H) = 0
      BY <1>13, FS_EmptySet, Zenon
    <2>4. Cardinality(InFlight)' = Cardinality(InFlight) + h
      <3>1. Cardinality(InFlight \cup H)
              = Cardinality(InFlight) + Cardinality(H) - Cardinality(InFlight \cap H)
        BY <2>2, FS_Union, Zenon
      <3>2. Cardinality(H) = h
        BY Zenon DEF h
      <3> QED
        BY <1>8, <1>12, <2>2, <2>3, <3>1, <3>2, SMTT(30)
    <2>5. issued' = count' + Cardinality(InFlight)' + taken'
      BY <1>2, <1>3, <1>8, <1>9, <1>10, <2>2, <2>4, SMTT(30) DEF PermitConservation
    <2> QED
      BY <1>16, <2>5, Zenon DEF PermitConservation
  <1> QED
    BY <1>5, <1>14, <1>17, <1>18, <1>19, <1>20, <1>21, Zenon

-----------------------------------------------------------------------------
\* consume(): a permit goes from the counter to the caller.
LEMMA TryKeeps ==
  ASSUME IInv, NEW t \in Task, Try(t)
  PROVE  IInv'
  <1> USE DEF IInv
  <1>1. /\ UNCHANGED <<state, node, timed, result, closing, generation>>
        /\ UNCHANGED <<pending, unwind, token, pc, issued>>
        /\ count > 0 /\ count' = count - 1 /\ taken' = taken + 1
    BY Zenon DEF Try, waitVars
  <1>2. InFlight' = InFlight /\ Linked(sem)' = Linked(sem)
    BY <1>1, Zenon DEF InFlight, Linked
  <1>3. count \in 0..MaxCount /\ taken \in Nat /\ MaxCount \in Nat
    BY SemaphoreAssumption, Zenon DEF TypeOK
  <1>4. TypeOK'
    BY <1>1, <1>3 DEF TypeOK, WaitTypeOK
  <1>5. WaitInv' /\ OwnQueue' /\ Phases'
    <2>1. WaitInv'
      BY <1>1, WaitStutter, Zenon DEF waitVars
    <2>2. OwnQueue' /\ Phases'
      BY <1>1, <1>2, Zenon DEF OwnQueue, Phases
    <2> QED
      BY <2>1, <2>2, Zenon
  <1>6. UnwindExact' /\ NoLostWakeup'
    BY <1>1, <1>2, <1>3, Zenon DEF UnwindExact, NoLostWakeup
  <1>7. PermitConservation'
    <2>1. InFlight \in SUBSET Task
      BY Zenon DEF InFlight
    <2>2. Cardinality(InFlight) \in Nat
      BY <2>1, FiniteTasks, Zenon
    <2> QED
      BY <1>1, <1>2, <1>3, <2>2, SMTT(30) DEF PermitConservation
  <1> QED
    BY <1>4, <1>5, <1>6, <1>7, Zenon

\* guarded_needed(): the same, with an unwind token for the caller.
LEMMA TryGuardedKeeps ==
  ASSUME IInv, NEW t \in Task, TryGuarded(t)
  PROVE  IInv'
  <1> USE DEF IInv
  <1>1. /\ UNCHANGED <<state, node, timed, result, closing, generation>>
        /\ UNCHANGED <<pending, pc, issued>>
        /\ count > 0 /\ count' = count - 1 /\ taken' = taken + 1
        /\ unwind[t] < MaxUnwind
        /\ unwind' = [unwind EXCEPT ![t] = @ + 1]
        /\ token' = [token EXCEPT ![t] = @ + 1]
    BY Zenon DEF TryGuarded, waitVars
  <1>2. InFlight' = InFlight /\ Linked(sem)' = Linked(sem)
    BY <1>1, Zenon DEF InFlight, Linked
  <1>3. /\ count \in 0..MaxCount /\ taken \in Nat /\ MaxCount \in Nat /\ MaxUnwind \in Nat
        /\ unwind \in [Task -> 0..MaxUnwind] /\ token \in [Task -> 0..MaxUnwind]
    BY SemaphoreAssumption, Zenon DEF TypeOK
  <1>4. token[t] <= unwind[t]
    BY <1>3 DEF UnwindExact
  <1>5. TypeOK'
    BY <1>1, <1>3, <1>4, SMTT(30) DEF TypeOK, WaitTypeOK
  <1>6. WaitInv' /\ OwnQueue' /\ Phases'
    <2>1. WaitInv'
      BY <1>1, WaitStutter, Zenon DEF waitVars
    <2>2. OwnQueue' /\ Phases'
      BY <1>1, <1>2, Zenon DEF OwnQueue, Phases
    <2> QED
      BY <2>1, <2>2, Zenon
  <1>7. UnwindExact'
    BY <1>1, <1>2, <1>3 DEF UnwindExact
  <1>8. NoLostWakeup'
    BY <1>1, <1>2, <1>3, Zenon DEF NoLostWakeup
  <1>9. PermitConservation'
    <2>1. InFlight \in SUBSET Task
      BY Zenon DEF InFlight
    <2>2. Cardinality(InFlight) \in Nat
      BY <2>1, FiniteTasks, Zenon
    <2> QED
      BY <1>1, <1>2, <1>3, <2>2, SMTT(30) DEF PermitConservation
  <1> QED
    BY <1>5, <1>6, <1>7, <1>8, <1>9, Zenon

\* A task without a permit enrolls in an open queue and blocks.
LEMMA WaitKeeps ==
  ASSUME IInv, NEW t \in Task, NEW b \in BOOLEAN, NEW r \in Ranks,
         WaitPlain(t, b, r) \/ WaitGuarded(t, b, r)
  PROVE  IInv'
  <1> USE DEF IInv
  <1>1. /\ state[t] = "Running" /\ pc[t] = "idle" /\ ~closing[sem] /\ count = 0
        /\ Block(t, sem, b, r)
        /\ pc' \in {[pc EXCEPT ![t] = "plain"], [pc EXCEPT ![t] = "guarded"]}
        /\ UNCHANGED <<closing, generation>>
        /\ UNCHANGED <<count, pending, unwind, token, issued, taken>>
    BY Zenon DEF WaitPlain, WaitGuarded, Calls
  <1>2. /\ WaitInv'
        /\ \A u \in Task : node'[u].queue = IF u = t THEN sem ELSE node[u].queue
        /\ \A u \in Task : state'[u] = IF u = t THEN "Blocked" ELSE state[u]
        /\ \A u \in Task : result'[u] = IF u = t THEN "None" ELSE result[u]
    BY <1>1, SemInQueue, BlockKeeps, SMTT(30)
  <1>3. /\ pc' \in [Task -> {"idle", "plain", "guarded", "leave"}]
        /\ pc'[t] \in {"plain", "guarded"}
        /\ \A u \in Task \ {t} : pc'[u] = pc[u]
    BY <1>1, Zenon DEF TypeOK
  <1>4. ~pending[t]
    BY <1>1, Zenon DEF Phases
  <1>5. InFlight' = InFlight
    BY <1>1, <1>3, Zenon DEF InFlight
  <1>6. t \notin InFlight
    BY <1>1, <1>4, Zenon DEF InFlight
  <1>7. TypeOK' /\ OwnQueue'
    BY <1>1, <1>2, <1>3, Zenon DEF TypeOK, WaitInv, OwnQueue
  <1>8. Phases'
    <2>1. /\ \A u \in Task \ {t} : pc'[u] = pc[u] /\ state'[u] = state[u] /\ result'[u] = result[u]
          /\ pending' = pending /\ ~pending'[t] /\ result'[t] = "None" /\ pc'[t] \in {"plain", "guarded"}
      BY <1>1, <1>2, <1>3, <1>4, Zenon
    <2>2. Phases
      BY Zenon
    <2>3. \A u \in InFlight' : u \in Task /\ u # t /\ state[u] \in {"Ready", "Running"}
      BY <1>5, <1>6, <2>2 DEF Phases, InFlight
    <2> HIDE DEF IInv
    <2> QED
      BY <2>1, <2>2, <2>3, SMTT(30) DEF Phases
  <1>9. UnwindExact' /\ NoLostWakeup'
    <2>1. UnwindExact'
      BY <1>1, <1>5, Zenon DEF UnwindExact
    <2>2. ~(count' > 0)
      BY <1>1, SMTT(30)
    <2> QED
      BY <2>1, <2>2, Zenon DEF NoLostWakeup
  <1>10. PermitConservation'
    <2>1. \A u \in InFlight : state'[u] # "Dead"
      BY <1>2, <1>6, Zenon DEF PermitConservation, InFlight
    <2> QED
      BY <1>1, <1>5, <2>1, Zenon DEF PermitConservation
  <1> QED
    BY <1>2, <1>7, <1>8, <1>9, <1>10, Zenon

\* A wait that ended without a permit returns.
LEMMA ResumeFailedKeeps ==
  ASSUME IInv, NEW t \in Task, ResumeFailed(t)
  PROVE  IInv'
  <1> USE DEF IInv
  <1>1. /\ UNCHANGED <<state, node, timed, result, closing, generation>>
        /\ UNCHANGED <<count, pending, unwind, token, issued, taken>>
        /\ state[t] = "Running" /\ pc[t] \in {"plain", "guarded"} /\ result[t] # "Signaled"
        /\ pc' = [pc EXCEPT ![t] = "idle"]
    BY Zenon DEF ResumeFailed, waitVars
  <1>2. ~pending[t]
    BY <1>1, Zenon DEF Phases
  <1>3. \A u \in Task : pc'[u] = IF u = t THEN "idle" ELSE pc[u]
    BY <1>1, Zenon DEF TypeOK
  <1>4. InFlight' = InFlight /\ Linked(sem)' = Linked(sem)
    BY <1>1, <1>3 DEF InFlight, Linked
  <1>5. TypeOK'
    BY <1>1, Zenon DEF TypeOK, WaitTypeOK
  <1>6. WaitInv' /\ OwnQueue'
    BY <1>1, WaitStutter, Zenon DEF waitVars, OwnQueue
  <1>7. Phases'
    BY <1>1, <1>2, <1>3, <1>4, SMTT(30) DEF Phases
  <1>8. UnwindExact' /\ NoLostWakeup' /\ PermitConservation'
    BY <1>1, <1>4, Zenon DEF UnwindExact, NoLostWakeup, PermitConservation
  <1> QED
    BY <1>5, <1>6, <1>7, <1>8, Zenon

\* A task that was signaled always finds its handoff.
LEMMA SignaledClaims ==
  ASSUME IInv, NEW t \in Task, state[t] = "Running", pc[t] \in {"plain", "guarded"},
         result[t] = "Signaled"
  PROVE  pending[t] /\ Claimable(t) /\ t \in InFlight /\ unwind[t] = token[t] + 1
  <1> USE DEF IInv
  <1>1. pending[t]
    BY Zenon DEF Phases
  <1>2. t \in InFlight
    BY <1>1, Zenon DEF InFlight
  <1>3. unwind[t] = token[t] + 1 /\ token[t] \in Nat
    BY <1>2, SemaphoreAssumption, SMTT(30) DEF UnwindExact, TypeOK
  <1> QED
    BY <1>1, <1>2, <1>3, SMTT(30) DEF Claimable

\* claim() of a plain wait: the permit stays in flight, now in the call.
LEMMA ClaimPlainKeeps ==
  ASSUME IInv, NEW t \in Task, ClaimPlain(t)
  PROVE  IInv'
  <1> USE DEF IInv
  <1>1. state[t] = "Running" /\ pc[t] = "plain" /\ result[t] = "Signaled"
    BY Zenon DEF ClaimPlain
  <1>2. pending[t] /\ Claimable(t) /\ t \in InFlight
    BY <1>1, SignaledClaims, Zenon
  <1>3. /\ UNCHANGED <<state, node, timed, result, closing, generation>>
        /\ UNCHANGED <<count, unwind, token, issued, taken>>
        /\ pending' = [pending EXCEPT ![t] = FALSE]
        /\ pc' = [pc EXCEPT ![t] = "leave"]
    BY ZenonT(40), <1>2 DEF ClaimPlain, waitVars
  <1>4. /\ pc'[t] = "leave" /\ ~pending'[t]
        /\ \A u \in Task \ {t} : pc'[u] = pc[u] /\ (pending'[u] <=> pending[u])
    BY <1>3, Zenon DEF TypeOK
  <1>5. InFlight' = InFlight /\ Linked(sem)' = Linked(sem)
    BY <1>2, <1>3, <1>4, Zenon DEF InFlight, Linked
  <1>6. TypeOK'
    BY <1>3, Zenon DEF TypeOK, WaitTypeOK
  <1>7. WaitInv' /\ OwnQueue'
    BY <1>3, WaitStutter, Zenon DEF waitVars, OwnQueue
  <1>8. Phases'
    BY <1>1, <1>3, <1>4, <1>5, ZenonT(40) DEF Phases
  <1>9. UnwindExact' /\ NoLostWakeup' /\ PermitConservation'
    BY <1>3, <1>5, Zenon DEF UnwindExact, NoLostWakeup, PermitConservation
  <1> QED
    BY <1>6, <1>7, <1>8, <1>9, Zenon

\* Taking one task out of the permits in flight.
LEMMA Landed ==
  ASSUME NEW t \in InFlight, InFlight' = InFlight \ {t}
  PROVE  /\ Cardinality(InFlight)' \in Nat
         /\ Cardinality(InFlight)' + 1 = Cardinality(InFlight)
  <1>1. InFlight \in SUBSET Task
    BY Zenon DEF InFlight
  <1>2. IsFiniteSet(InFlight) /\ Cardinality(InFlight) \in Nat
    BY <1>1, FiniteTasks, Zenon
  <1>3. Cardinality(InFlight \ {t}) = Cardinality(InFlight) - 1
    BY <1>2, FS_RemoveElement, Zenon
  <1>4. InFlight \ {t} \in SUBSET Task
    BY <1>1, Zenon
  <1>5. Cardinality(InFlight \ {t}) \in Nat
    BY <1>4, FiniteTasks, Zenon
  <1> QED
    BY <1>2, <1>3, <1>5, SMTT(30)

\* leave() of a plain wait: the permit reaches the caller.
LEMMA LeavePlainKeeps ==
  ASSUME IInv, NEW t \in Task, LeavePlain(t)
  PROVE  IInv'
  <1> USE DEF IInv
  <1>1. /\ UNCHANGED <<state, node, timed, result, closing, generation>>
        /\ UNCHANGED <<count, pending, token, issued>>
        /\ state[t] = "Running" /\ pc[t] = "leave" /\ unwind[t] # 0
        /\ unwind' = [unwind EXCEPT ![t] = @ - 1]
        /\ pc' = [pc EXCEPT ![t] = "idle"]
        /\ taken' = taken + 1
    BY Zenon DEF LeavePlain, waitVars
  <1>2. t \in InFlight /\ ~pending[t]
    BY <1>1, Zenon DEF InFlight, Phases
  <1>3. \A u \in Task : pc'[u] = IF u = t THEN "idle" ELSE pc[u]
    BY <1>1, Zenon DEF TypeOK
  <1>4. InFlight' = InFlight \ {t} /\ Linked(sem)' = Linked(sem)
    BY <1>1, <1>2, <1>3, SMTT(30) DEF InFlight, Linked
  <1>5. unwind \in [Task -> 0..MaxUnwind] /\ token \in [Task -> 0..MaxUnwind]
        /\ MaxUnwind \in Nat /\ taken \in Nat /\ count \in Nat
    BY SemaphoreAssumption, SMTT(30) DEF TypeOK
  <1>6. TypeOK'
    BY <1>1, <1>5, SMTT(30) DEF TypeOK, WaitTypeOK
  <1>7. WaitInv' /\ OwnQueue' /\ NoLostWakeup'
    <2>1. WaitInv'
      BY <1>1, WaitStutter, Zenon DEF waitVars
    <2> QED
      BY <2>1, <1>1, <1>4, Zenon DEF OwnQueue, NoLostWakeup
  <1>8. Phases'
    BY <1>1, <1>2, <1>3, <1>4, SMTT(30) DEF Phases
  <1>9. UnwindExact'
    BY <1>1, <1>2, <1>4, <1>5, SMTT(30) DEF UnwindExact
  <1>10. PermitConservation'
    <2>1. Cardinality(InFlight)' + 1 = Cardinality(InFlight) /\ Cardinality(InFlight)' \in Nat
      BY <1>2, <1>4, Landed, Zenon
    <2> QED
      BY <1>1, <1>4, <1>5, <2>1, SMTT(30) DEF PermitConservation
  <1> QED
    BY <1>6, <1>7, <1>8, <1>9, <1>10, Zenon

\* claim() of a guarded wait: the permit and its token reach the caller.
LEMMA ClaimGuardedKeeps ==
  ASSUME IInv, NEW t \in Task, ClaimGuarded(t)
  PROVE  IInv'
  <1> USE DEF IInv
  <1>1. state[t] = "Running" /\ pc[t] = "guarded" /\ result[t] = "Signaled"
    BY Zenon DEF ClaimGuarded
  <1>2. pending[t] /\ Claimable(t) /\ t \in InFlight /\ unwind[t] = token[t] + 1
    BY <1>1, SignaledClaims, Zenon
  <1>3. /\ UNCHANGED <<state, node, timed, result, closing, generation>>
        /\ UNCHANGED <<count, unwind, issued>>
        /\ pending' = [pending EXCEPT ![t] = FALSE]
        /\ token' = [token EXCEPT ![t] = @ + 1]
        /\ pc' = [pc EXCEPT ![t] = "idle"]
        /\ taken' = taken + 1
    BY ZenonT(40), <1>2 DEF ClaimGuarded, waitVars
  <1>4. /\ pc'[t] = "idle" /\ ~pending'[t]
        /\ \A u \in Task \ {t} : pc'[u] = pc[u] /\ (pending'[u] <=> pending[u])
    BY <1>3, Zenon DEF TypeOK
  <1>5. InFlight' = InFlight \ {t} /\ Linked(sem)' = Linked(sem)
    BY <1>3, <1>4, Zenon DEF InFlight, Linked
  <1>6. unwind \in [Task -> 0..MaxUnwind] /\ token \in [Task -> 0..MaxUnwind]
        /\ MaxUnwind \in Nat /\ taken \in Nat /\ count \in Nat
    BY SemaphoreAssumption DEF TypeOK
  <1>7. TypeOK'
    BY <1>2, <1>3, <1>6, SMTT(30) DEF TypeOK, WaitTypeOK
  <1>8. WaitInv' /\ OwnQueue' /\ NoLostWakeup'
    <2>1. WaitInv'
      BY <1>3, WaitStutter, Zenon DEF waitVars
    <2> QED
      BY <2>1, <1>3, <1>5, Zenon DEF OwnQueue, NoLostWakeup
  <1>9. Phases'
    BY <1>1, <1>3, <1>4, <1>5, Zenon DEF Phases
  <1>10. UnwindExact'
    BY <1>2, <1>3, <1>5, <1>6, SMTT(30) DEF UnwindExact
  <1>11. PermitConservation'
    <2>1. Cardinality(InFlight)' + 1 = Cardinality(InFlight) /\ Cardinality(InFlight)' \in Nat
      BY ZenonT(40), <1>2, <1>5, Landed
    <2> QED
      BY <1>3, <1>5, <1>6, <2>1 DEF PermitConservation
  <1> QED
    BY <1>7, <1>8, <1>9, <1>10, <1>11, Zenon

\* The caller of a guarded wait returns its token.
LEMMA LeaveTokenKeeps ==
  ASSUME IInv, NEW t \in Task, LeaveToken(t)
  PROVE  IInv'
  <1> USE DEF IInv
  <1>1. /\ UNCHANGED <<state, node, timed, result, closing, generation>>
        /\ UNCHANGED <<count, pending, pc, issued, taken>>
        /\ token[t] # 0
        /\ token' = [token EXCEPT ![t] = @ - 1]
        /\ unwind' = [unwind EXCEPT ![t] = @ - 1]
    BY Zenon DEF LeaveToken, waitVars
  <1>2. InFlight' = InFlight /\ Linked(sem)' = Linked(sem)
    BY <1>1, Zenon DEF InFlight, Linked
  <1>3. unwind \in [Task -> 0..MaxUnwind] /\ token \in [Task -> 0..MaxUnwind]
        /\ MaxUnwind \in Nat
    BY SemaphoreAssumption, Zenon DEF TypeOK
  <1>4. token[t] <= unwind[t]
    BY <1>3 DEF UnwindExact
  <1>5. TypeOK'
    BY <1>1, <1>3, <1>4, SMTT(30) DEF TypeOK, WaitTypeOK
  <1>6. WaitInv' /\ OwnQueue' /\ Phases'
    <2>1. WaitInv'
      BY <1>1, WaitStutter, Zenon DEF waitVars
    <2>2. OwnQueue' /\ Phases'
      BY <1>1, <1>2, Zenon DEF OwnQueue, Phases
    <2> QED
      BY <2>1, <2>2, Zenon
  <1>7. UnwindExact'
    BY <1>1, <1>2, <1>3, SMTT(30) DEF UnwindExact
  <1>8. NoLostWakeup' /\ PermitConservation'
    BY <1>1, <1>2, Zenon DEF NoLostWakeup, PermitConservation
  <1> QED
    BY <1>5, <1>6, <1>7, <1>8, Zenon

-----------------------------------------------------------------------------
(* The theorems. *)

\* The initial state, before any call.
LEMMA InitIInv == Init => IInv
  <1> SUFFICES ASSUME Init PROVE IInv
    BY Zenon
  <1>1. WaitInv
    BY WaitInitInv, Zenon DEF Init
  <1> USE DEF Init, WaitInit
  <1>2. Linked(sem) = {} /\ InFlight = {}
    BY SemInQueue, Zenon DEF Linked, Unlinked, InFlight
  <1>3. Cardinality(InFlight) = 0
    BY <1>2, FS_EmptySet, Zenon
  <1>4. TypeOK
    BY <1>1, SemaphoreAssumption, SMTT(30) DEF TypeOK, WaitInv
  <1>5. OwnQueue
    BY Zenon DEF OwnQueue, Unlinked
  <1>6. Phases
    BY <1>2, Zenon DEF Phases
  <1>7. UnwindExact /\ NoLostWakeup
    BY <1>2 DEF UnwindExact, NoLostWakeup
  <1>8. PermitConservation
    BY <1>2, <1>3, SemaphoreAssumption, SMTT(30) DEF PermitConservation
  <1> QED
    BY <1>1, <1>4, <1>5, <1>6, <1>7, <1>8, Zenon DEF IInv

\* Every step of every task, of the kernel and of the releasing callers keeps
\* the inductive invariant.
LEMMA StepIInv == IInv /\ [Next]_vars => IInv'
  <1> SUFFICES ASSUME IInv, [Next]_vars PROVE IInv'
    BY Zenon
  <1>1. ASSUME NEW t \in Task, TaskStep(t) PROVE IInv'
    BY <1>1, TryKeeps, TryGuardedKeeps, WaitKeeps, LeaveTokenKeeps, Zenon DEF TaskStep
  <1>2. ASSUME NEW t \in Task, Finish(t) PROVE IInv'
    BY <1>2, ResumeFailedKeeps, ClaimPlainKeeps, LeavePlainKeeps, ClaimGuardedKeeps, Zenon DEF Finish
  <1>3. ASSUME NEW n \in 1..MaxRelease, ReleaseCall(n) PROVE IInv'
    <2>1. n \in Nat
      BY SemaphoreAssumption
    <2> QED
      BY <1>3, <2>1, ReleaseKeeps, Zenon DEF ReleaseCall
  <1>4. ASSUME NEW t \in Task, Dispatch(t) \/ Preempt(t), Mute PROVE IInv'
    BY <1>4, SchedulerClean, Zenon DEF Mute
  <1>5. ASSUME NEW t \in Task, Expire(t) \/ CancelExact(t), Mute PROVE IInv'
    BY <1>5, WakeOneClean, Zenon DEF Mute
  <1>6. ASSUME NEW t \in Task, NEW r \in Ranks, SetRank(t, r), Mute PROVE IInv'
    BY <1>6, SchedulerClean, Zenon DEF Mute
  <1>7. ASSUME NEW t \in Task, Kill(t) \/ Exit(t) PROVE IInv'
    BY <1>7, BuryClean, Zenon DEF Kill, Exit, Mute
  <1>8. ASSUME Close(sem), Mute PROVE IInv'
    BY <1>8, CloseClean, Zenon DEF Mute
  <1>9. ASSUME Reopen(sem), Mute PROVE IInv'
    BY <1>9, SchedulerClean, Zenon DEF Mute
  <1>10. ASSUME UNCHANGED vars PROVE IInv'
    BY <1>10, SchedulerClean, Zenon DEF vars
  <1> QED
    BY <1>1, <1>2, <1>3, <1>4, <1>5, <1>6, <1>7, <1>8, <1>9, <1>10, Zenon DEF Next

\* The inductive invariant holds in every reachable state.
LEMMA Inductive == Spec => []IInv
  BY InitIInv, StepIInv, PTL DEF Spec

\* Every field keeps its type, in particular count never exceeds max_count and
\* no unwind counter leaves 0..MaxUnwind.
THEOREM TypeCorrect == Spec => []TypeOK
  <1>1. IInv => TypeOK
    BY Zenon DEF IInv
  <1> QED
    BY <1>1, Inductive, PTL

\* release/handoff/claim neither lose nor duplicate a permit, for any number of
\* tasks and any rank order, across timeouts, cancels, closes and kills.
THEOREM PermitsConserved == Spec => []PermitConservation
  <1>1. IInv => PermitConservation
    BY Zenon DEF IInv
  <1> QED
    BY <1>1, Inductive, PTL

\* No task stays queued while the counter holds a permit.
THEOREM NobodyMissed == Spec => []NoLostWakeup
  <1>1. IInv => NoLostWakeup
    BY Zenon DEF IInv
  <1> QED
    BY <1>1, Inductive, PTL

\* unwind_guard_count equals the outstanding tokens and handoffs of each task.
THEOREM UnwindsExact == Spec => []UnwindExact
  <1>1. IInv => UnwindExact
    BY Zenon DEF IInv
  <1> QED
    BY <1>1, Inductive, PTL

\* Exactly the blocked tasks are linked, and a closed queue holds nobody.
THEOREM BlockedAreLinked == Spec => []BlockedIffLinked
  <1>1. IInv => BlockedIffLinked
    BY Queued, Zenon
  <1> QED
    BY <1>1, Inductive, PTL
=============================================================================
