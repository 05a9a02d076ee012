---------------------------- MODULE SignalProofs -----------------------------
(***************************************************************************)
(* The theorems about the event and the completion, for any number of      *)
(* tasks and ranks: no lost wake-up, and one use of every signal.          *)
(***************************************************************************)
EXTENDS MCSignals, TaskWaitProofs

-----------------------------------------------------------------------------
(* The event. *)

\* The inductive invariant of the event.  Only a manual signal has a second
\* half, and a queued task has no wait result yet.
EventInv ==
    /\ TypeOK
    /\ WaitInv
    /\ \A t \in Task : node[t].queue \in {ev, NoQueue}
    /\ \A t \in Task : pc[t] = "wakeall" => mode = 0
    /\ \A t \in Linked(ev) : result[t] = "None"
    /\ NoLostWakeup

\* The event has a queue of its own, which is not the null queue.
LEMMA EvInQueue == ev \in Queue /\ ev # NoQueue
  BY EventAssumption, TaskWaitAssumption, Zenon DEF ev

\* The initial state, in either mode.
LEMMA EventInit == Init => EventInv
  <1> SUFFICES ASSUME Init PROVE EventInv
    BY Zenon
  <1>1. WaitInv
    BY WaitInitInv, Zenon DEF Init
  <1>2. \A t \in Task : node[t].queue = NoQueue
    BY Zenon DEF Init, WaitInit, Unlinked
  <1>3. TypeOK
    BY <1>1, Zenon DEF WaitInv, Init, TypeOK
  <1>4. Linked(ev) = {}
    BY <1>2, EvInQueue, Zenon DEF Linked
  <1>5. NoLostWakeup
    BY <1>4, Zenon DEF NoLostWakeup
  <1>6. \A t \in Task : pc[t] # "wakeall"
    BY Zenon DEF Init
  <1> QED
    BY <1>1, <1>2, <1>3, <1>4, <1>5, <1>6, Zenon DEF EventInv

\* Everything the rest of the kernel does only takes tasks out of the queue.
LEMMA EventShrinks ==
  ASSUME EventInv, WaitInv', UNCHANGED eventVars,
         \A t \in Task : node'[t].queue \in {node[t].queue, NoQueue},
         \A t \in Task : node'[t].queue = ev => result'[t] = result[t]
  PROVE  EventInv'
  <1> USE DEF EventInv
  <1>1. mode' = mode /\ signaled' = signaled /\ pc' = pc
    BY Zenon DEF eventVars
  <1>2. TypeOK'
    BY <1>1, Zenon DEF TypeOK, WaitInv
  <1>3. \A t \in Linked(ev)' : t \in Linked(ev) /\ result'[t] = "None"
    <2>1. ASSUME NEW t \in Task, node'[t].queue = ev
          PROVE  node[t].queue = ev /\ result'[t] = result[t]
      BY <2>1, EvInQueue, Zenon
    <2> QED
      BY <2>1, Zenon DEF Linked
  <1>4. NoLostWakeup'
    <2> SUFFICES ASSUME signaled', Linked(ev)' # {}
                 PROVE  mode' # 1 /\ \E t \in Task : pc'[t] = "wakeall"
      BY Zenon DEF NoLostWakeup, AutoReset
    <2>1. signaled /\ Linked(ev) # {}
      BY <1>1, <1>3, Zenon
    <2> QED
      BY <1>1, <2>1, Zenon DEF NoLostWakeup, AutoReset
  <1>5. \A t \in Task : node'[t].queue \in {ev, NoQueue}
    BY Zenon
  <1>6. \A t \in Task : pc'[t] = "wakeall" => mode' = 0
    BY <1>1, Zenon
  <1> QED
    BY <1>2, <1>3, <1>4, <1>5, <1>6, Zenon

\* Steps of a call that leave the tasks and the queue alone.
LEMMA EventCallKeeps ==
  ASSUME EventInv, UNCHANGED waitVars, UNCHANGED mode,
         signaled' \in BOOLEAN,
         pc' \in [Task -> {"idle", "wait", "wakeall"}],
         \A t \in Task : pc'[t] = "wakeall" => mode = 0,
         signaled' => \/ signaled /\ \A t \in Task : pc[t] = "wakeall" => pc'[t] = "wakeall"
                      \/ ~AutoReset /\ \E t \in Task : pc'[t] = "wakeall"
  PROVE  EventInv'
  <1> USE DEF EventInv
  <1>1. WaitInv' /\ Linked(ev)' = Linked(ev)
    BY WaitStutter, Zenon
  <1>2. node' = node /\ result' = result /\ mode' = mode
    BY Zenon DEF waitVars
  <1>3. TypeOK'
    BY <1>1, <1>2, Zenon DEF TypeOK, WaitInv
  <1>4. NoLostWakeup'
    <2> SUFFICES ASSUME signaled', Linked(ev)' # {}
                 PROVE  mode' # 1 /\ \E t \in Task : pc'[t] = "wakeall"
      BY Zenon DEF NoLostWakeup, AutoReset
    <2>1. CASE signaled /\ \A t \in Task : pc[t] = "wakeall" => pc'[t] = "wakeall"
      <3>1. mode # 1 /\ \E t \in Task : pc[t] = "wakeall"
        BY <1>1, <2>1, Zenon DEF NoLostWakeup, AutoReset
      <3> QED
        BY <1>2, <2>1, <3>1, Zenon
    <2> QED
      BY <1>2, <2>1, Zenon DEF AutoReset
  <1> QED
    BY <1>1, <1>2, <1>3, <1>4, Zenon

\* Signals: the woken tasks leave the queue with Signaled.
LEMMA EventWakeKeeps ==
  ASSUME EventInv, NEW S \in SUBSET Linked(ev), WakeAll(S, "Signaled"),
         UNCHANGED <<closing, generation, mode>>,
         signaled' \in BOOLEAN,
         pc' \in [Task -> {"idle", "wait", "wakeall"}],
         \A t \in Task : pc'[t] = "wakeall" => pc[t] = "wakeall",
         \/ S = Linked(ev)
         \/ pc' = pc /\ (signaled' => signaled)
  PROVE  /\ EventInv'
         /\ \A t \in Linked(ev) : result'[t] = "Signaled" => t \in S
  <1> USE DEF EventInv
  <1> DEFINE res == [t \in S |-> "Signaled"]
  <1>1. WakeEach(S, res) /\ \A t \in S : res[t] \in WaitResult
    BY Zenon DEF WakeAll, WaitResult
  <1>2. S \in SUBSET Task
    BY Zenon DEF Linked
  <1>3. /\ closing' \in [Queue -> BOOLEAN]
        /\ generation' \in [Queue -> 1..(MaxGen - 1)]
        /\ \A q \in Queue : closing'[q] => closing[q] \/ Linked(q) \subseteq S
    BY Zenon DEF WaitInv, WaitTypeOK
  <1> HIDE DEF res
  <1>4. /\ WaitInv'
        /\ \A q \in Queue : Linked(q)' = Linked(q) \ S
        /\ \A t \in Task : node'[t].queue = IF t \in S THEN NoQueue ELSE node[t].queue
        /\ \A t \in Task : result'[t] = IF t \in S THEN res[t] ELSE result[t]
    BY <1>1, <1>2, <1>3, WakeKeeps, Zenon
  <1>5. Linked(ev)' = Linked(ev) \ S
    BY <1>4, EvInQueue, Zenon
  <1>6. TypeOK'
    BY <1>4, Zenon DEF TypeOK, WaitInv
  <1>7. NoLostWakeup'
    <2> SUFFICES ASSUME signaled', Linked(ev)' # {}
                 PROVE  mode' # 1 /\ \E t \in Task : pc'[t] = "wakeall"
      BY Zenon DEF NoLostWakeup, AutoReset
    <2>1. signaled /\ pc' = pc /\ Linked(ev) # {}
      BY <1>5, Zenon
    <2> QED
      BY <2>1, Zenon DEF NoLostWakeup, AutoReset
  <1>8. \A t \in Linked(ev) : t \notin S => result'[t] = "None"
    BY <1>4, Zenon DEF Linked
  <1>9. \A t \in Task : node'[t].queue \in {ev, NoQueue}
    BY <1>4, Zenon
  <1>10. \A t \in Task : pc'[t] = "wakeall" => mode' = 0
    BY Zenon
  <1> QED
    BY <1>4, <1>5, <1>6, <1>7, <1>8, <1>9, <1>10, Zenon

\* A task enrolls only on a clear event.
LEMMA EventWaitKeeps ==
  ASSUME EventInv, NEW t \in Task, NEW b \in BOOLEAN, NEW r \in Ranks, Wait(t, b, r)
  PROVE  EventInv'
  <1> USE DEF EventInv
  <1>1. /\ state[t] = "Running" /\ pc[t] = "idle" /\ ~closing[ev] /\ ~signaled
        /\ Block(t, ev, b, r)
        /\ pc' = [pc EXCEPT ![t] = "wait"]
        /\ UNCHANGED <<closing, generation>> /\ mode' = mode /\ signaled' = signaled
    BY Zenon DEF Wait, Calls
  <1>2. /\ WaitInv'
        /\ \A p \in Queue : Linked(p)' = IF p = ev THEN Linked(p) \cup {t} ELSE Linked(p)
        /\ \A u \in Task : node'[u].queue = IF u = t THEN ev ELSE node[u].queue
        /\ \A u \in Task : result'[u] = IF u = t THEN "None" ELSE result[u]
    BY <1>1, EvInQueue, BlockKeeps
  <1>3. Linked(ev)' = Linked(ev) \cup {t} /\ Linked(ev) \subseteq Task
    BY <1>2, EvInQueue, Zenon DEF Linked
  <1>4. TypeOK'
    BY <1>1, <1>2, Zenon DEF TypeOK, WaitInv
  <1>5. NoLostWakeup'
    BY <1>1, Zenon DEF NoLostWakeup
  <1>6. \A u \in Linked(ev)' : result'[u] = "None"
    BY <1>2, <1>3, Zenon
  <1>7. \A u \in Task : node'[u].queue \in {ev, NoQueue} /\ (pc'[u] = "wakeall" => mode' = 0)
    BY <1>1, <1>2, Zenon DEF TypeOK
  <1> QED
    BY <1>2, <1>4, <1>5, <1>6, <1>7, Zenon

\* Every step of a task inside an event call, and every signal and reset.
LEMMA EventCallSteps ==
  ASSUME EventInv,
         \/ \E t \in Task : TakeFlag(t) \/ SignalManual(t) \/ Finish(t)
         \/ \E t \in Task, b \in BOOLEAN, r \in Ranks : Wait(t, b, r)
         \/ SignalAuto
         \/ Reset
  PROVE  EventInv'
  <1> USE DEF EventInv
  <1>1. mode \in {0, 1} /\ signaled \in BOOLEAN /\ pc \in [Task -> {"idle", "wait", "wakeall"}]
    BY Zenon DEF TypeOK
  <1>2. ASSUME NEW t \in Task, TakeFlag(t) PROVE EventInv'
    <2>1. /\ UNCHANGED waitVars /\ mode' = mode /\ pc' = pc
          /\ signaled /\ signaled' = (mode # 1)
      BY <1>2, Zenon DEF TakeFlag, AutoReset
    <2> QED
      BY <1>1, <2>1, EventCallKeeps, Zenon
  <1>3. ASSUME NEW t \in Task, SignalManual(t) PROVE EventInv'
    <2>1. /\ UNCHANGED waitVars /\ mode' = mode /\ signaled' = TRUE /\ mode # 1
          /\ pc' = [pc EXCEPT ![t] = "wakeall"]
      BY <1>3, Zenon DEF SignalManual, AutoReset
    <2>2. pc' \in [Task -> {"idle", "wait", "wakeall"}] /\ pc'[t] = "wakeall" /\ mode = 0
      BY <1>1, <2>1, Zenon
    <2> QED
      BY <2>1, <2>2, EventCallKeeps, Zenon DEF AutoReset
  <1>4. ASSUME NEW t \in Task, Return(t) PROVE EventInv'
    <2>1. /\ UNCHANGED waitVars /\ mode' = mode /\ signaled' = signaled
          /\ pc[t] = "wait" /\ pc' = [pc EXCEPT ![t] = "idle"]
      BY <1>4, Zenon DEF Return
    <2>2. /\ pc' \in [Task -> {"idle", "wait", "wakeall"}]
          /\ \A u \in Task : pc'[u] = "wakeall" <=> pc[u] = "wakeall"
      BY <1>1, <2>1, Zenon
    <2> QED
      BY <1>1, <2>1, <2>2, EventCallKeeps, Zenon
  <1>5. ASSUME NEW t \in Task, WakeWaiters(t) PROVE EventInv'
    <2>1. /\ WakeAll(Linked(ev), "Signaled")
          /\ UNCHANGED <<closing, generation, mode>> /\ signaled' = signaled
          /\ pc' = [pc EXCEPT ![t] = "idle"]
      BY <1>5, Zenon DEF WakeWaiters
    <2>2. /\ pc' \in [Task -> {"idle", "wait", "wakeall"}]
          /\ \A u \in Task : pc'[u] = "wakeall" => pc[u] = "wakeall"
      BY <1>1, <2>1, Zenon
    <2> QED
      BY <1>1, <2>1, <2>2, EventWakeKeeps, Zenon
  <1>6. ASSUME SignalAuto PROVE EventInv'
    <2> DEFINE S == {t \in Task : IsFirstRanked(t, ev)}
    <2>1. /\ WakeAll(S, "Signaled")
          /\ UNCHANGED <<closing, generation, mode>> /\ pc' = pc
          /\ signaled' = (signaled \/ Linked(ev) = {})
      BY <1>6, Zenon DEF SignalAuto
    <2>2. S \in SUBSET Linked(ev)
      BY Zenon DEF IsFirstRanked
    <2>3. S = Linked(ev) \/ (signaled' => signaled)
      BY <2>1, <2>2, Zenon
    <2>4. signaled' \in BOOLEAN
      BY <2>1, Zenon
    <2> HIDE DEF S
    <2> QED
      BY <1>1, <2>1, <2>2, <2>3, <2>4, EventWakeKeeps, Zenon
  <1>7. ASSUME Reset PROVE EventInv'
    <2>1. UNCHANGED waitVars /\ mode' = mode /\ pc' = pc /\ signaled' = FALSE
      BY <1>7, Zenon DEF Reset
    <2> QED
      BY <1>1, <2>1, EventCallKeeps, ZenonT(40)
  <1> QED
    BY <1>2, <1>3, <1>4, <1>5, <1>6, <1>7, EventWaitKeeps, Zenon DEF Finish

\* Every step keeps the inductive invariant of the event.
LEMMA EventStep == EventInv /\ [Next]_vars => EventInv'
  <1> SUFFICES ASSUME EventInv, [Next]_vars PROVE EventInv'
    BY Zenon
  <1> USE DEF EventInv
  <1>1. ASSUME NEW t \in Task, Dispatch(t) \/ Preempt(t), Mute PROVE EventInv'
    <2>1. WaitInv' /\ node' = node /\ result' = result
      BY <1>1, SwitchKeeps, Zenon
    <2> QED
      BY <1>1, <2>1, EventShrinks, Zenon DEF Mute
  <1>2. ASSUME NEW t \in Task, Expire(t) \/ CancelExact(t), Mute PROVE EventInv'
    <2>1. /\ WaitInv'
          /\ \A u \in Task : node'[u].queue = IF u = t THEN NoQueue ELSE node[u].queue
          /\ \A u \in Task \ {t} : result'[u] = result[u]
      BY <1>2, WakeOneKeeps, Zenon
    <2> QED
      BY <1>2, <2>1, EventShrinks, EvInQueue, Zenon DEF Mute
  <1>3. ASSUME NEW t \in Task, NEW r \in Ranks, SetRank(t, r), Mute PROVE EventInv'
    <2>1. WaitInv' /\ result' = result /\ \A u \in Task : node'[u].queue = node[u].queue
      BY <1>3, RankKeeps, Zenon
    <2> QED
      BY <1>3, <2>1, EventShrinks, Zenon DEF Mute
  <1>4. ASSUME NEW t \in Task, Kill(t) \/ Exit(t) PROVE EventInv'
    <2>1. Bury(t) /\ UNCHANGED <<closing, generation>> /\ UNCHANGED eventVars
      BY <1>4, Zenon DEF Kill, Exit, Mute
    <2>2. /\ WaitInv'
          /\ \A u \in Task : node'[u].queue = IF u = t THEN NoQueue ELSE node[u].queue
          /\ \A u \in Task : result'[u] = IF u = t THEN "Killed" ELSE result[u]
      BY <2>1, BuryKeeps, Zenon
    <2> QED
      BY <2>1, <2>2, EventShrinks, EvInQueue, Zenon
  <1>5. ASSUME Close(ev), Mute PROVE EventInv'
    <2>1. /\ WaitInv'
          /\ \A t \in Task : node'[t].queue = IF t \in Linked(ev) THEN NoQueue ELSE node[t].queue
          /\ \A t \in Task : result'[t] = IF t \in Linked(ev) THEN "Cancelled" ELSE result[t]
      BY <1>5, CloseKeeps, EvInQueue, Zenon
    <2> QED
      BY <1>5, <2>1, EventShrinks, EvInQueue, Zenon DEF Mute
  <1>6. ASSUME Reopen(ev), Mute PROVE EventInv'
    <2>1. WaitInv' /\ node' = node /\ result' = result
      BY <1>6, ReopenKeeps, EvInQueue, Zenon
    <2> QED
      BY <1>6, <2>1, EventShrinks, Zenon DEF Mute
  <1>7. ASSUME UNCHANGED vars PROVE EventInv'
    <2>1. UNCHANGED waitVars /\ UNCHANGED eventVars
      BY <1>7, Zenon DEF vars
    <2>2. WaitInv' /\ node' = node /\ result' = result
      BY <2>1, WaitStutter, Zenon DEF waitVars
    <2> QED
      BY <2>1, <2>2, EventShrinks, Zenon
  <1> QED
    BY <1>1, <1>2, <1>3, <1>4, <1>5, <1>6, <1>7, EventCallSteps, Zenon DEF Next

\* The inductive invariant of the event holds in every reachable state.
LEMMA EventInductive == Spec => []EventInv
  BY EventInit, EventStep, PTL DEF Spec

\* No task is left queued on a signaled event, but between the two critical
\* sections of a manual signal.
THEOREM EventWakesAll == Spec => []NoLostWakeup
  <1>1. EventInv => NoLostWakeup
    BY Zenon DEF EventInv
  <1> QED
    BY <1>1, EventInductive, PTL

\* A step leaves a queued task without a wait result, or wakes it with another
\* result, unless it is a signal.
LEMMA EventOthersSilent ==
  ASSUME EventInv, [Next]_vars, NEW t \in Linked(ev), result'[t] = "Signaled"
  PROVE  SignalAuto \/ \E u \in Task : WakeWaiters(u)
  <1> USE DEF EventInv
  <1>1. t \in Task /\ state[t] = "Blocked" /\ result[t] = "None"
    BY EvInQueue, Zenon DEF Linked, WaitInv
  <1>2. result' # result
    BY <1>1, Zenon
  <1>3. ASSUME NEW u \in Task, NEW b \in BOOLEAN, NEW r \in Ranks, Wait(u, b, r) PROVE FALSE
    <2>1. state[u] = "Running" /\ result' = [result EXCEPT ![u] = "None"]
      BY <1>3, Zenon DEF Wait, Calls, Block
    <2> QED
      BY <2>1, <1>1, Zenon DEF WaitInv, WaitTypeOK
  <1>4. ASSUME NEW u \in Task, Expire(u) \/ CancelExact(u) PROVE FALSE
    <2>1. result'[u] \in {"Timeout", "Cancelled"} /\ \A v \in Task \ {u} : result'[v] = result[v]
      BY <1>4, WakeOneKeeps, Zenon
    <2> QED
      BY <2>1, <1>1, Zenon
  <1>5. ASSUME NEW u \in Task, Kill(u) \/ Exit(u) PROVE FALSE
    <2>1. Bury(u) /\ UNCHANGED <<closing, generation>>
      BY <1>5, Zenon DEF Kill, Exit
    <2>2. \A v \in Task : result'[v] = IF v = u THEN "Killed" ELSE result[v]
      BY <2>1, BuryKeeps, Zenon
    <2> QED
      BY <2>2, <1>1, Zenon
  <1>6. ASSUME Close(ev) PROVE FALSE
    <2>1. \A v \in Task : result'[v] = IF v \in Linked(ev) THEN "Cancelled" ELSE result[v]
      BY <1>6, CloseKeeps, EvInQueue, Zenon
    <2> QED
      BY <2>1, <1>1, Zenon
  <1>7. ASSUME UNCHANGED waitVars PROVE FALSE
    BY <1>7, <1>2, Zenon DEF waitVars
  <1>8. ASSUME NEW u \in Task, Dispatch(u) \/ Preempt(u) PROVE FALSE
    BY <1>8, <1>2, Zenon DEF Dispatch, Preempt
  <1>9. ASSUME NEW u \in Task, NEW r \in Ranks, SetRank(u, r) PROVE FALSE
    BY <1>9, <1>2, Zenon DEF SetRank
  <1>10. ASSUME Reopen(ev) PROVE FALSE
    BY <1>10, <1>2, Zenon DEF Reopen
  <1> QED
    BY <1>3, <1>4, <1>5, <1>6, <1>7, <1>8, <1>9, <1>10, ZenonT(40)
       DEF Next, TakeFlag, SignalManual, Finish, Return, Reset, vars

\* An auto-reset signal releases one waiter, the best-ranked one, and leaves the
\* flag down.
THEOREM EventReleasesOne == Spec => OneReleasePerSignal
  <1> DEFINE A == \A t \in Linked(ev) :
                    AutoReset /\ result'[t] = "Signaled" => ~signaled' /\ IsFirstRanked(t, ev)
  <1>1. EventInv /\ [Next]_vars => [A]_vars
    <2> SUFFICES ASSUME EventInv, [Next]_vars, NEW t \in Linked(ev), AutoReset,
                        result'[t] = "Signaled"
                 PROVE  ~signaled' /\ IsFirstRanked(t, ev)
      BY Zenon
    <2>1. ASSUME NEW u \in Task, WakeWaiters(u) PROVE FALSE
      BY <2>1 DEF WakeWaiters, EventInv, AutoReset
    <2>2. SignalAuto
      BY <2>1, EventOthersSilent, Zenon
    <2> DEFINE S == {u \in Task : IsFirstRanked(u, ev)}
    <2>3. /\ WakeAll(S, "Signaled")
          /\ UNCHANGED <<closing, generation, mode>> /\ pc' = pc
          /\ signaled' = (signaled \/ Linked(ev) = {})
      BY <2>2, Zenon DEF SignalAuto
    <2>4. S \in SUBSET Linked(ev)
      BY Zenon DEF IsFirstRanked
    <2>5. ~signaled
      BY Zenon DEF EventInv, NoLostWakeup
    <2>6. ~signaled' /\ signaled' \in BOOLEAN
      BY <2>3, <2>5, ZenonT(40)
    <2>7. pc \in [Task -> {"idle", "wait", "wakeall"}]
      BY Zenon DEF EventInv, TypeOK
    <2>8. t \in S
      <3> HIDE DEF S
      <3> QED
        BY <2>3, <2>4, <2>6, <2>7, EventWakeKeeps, Zenon
    <2> QED
      BY <2>6, <2>8, Zenon
  <1>2. Spec => [][A]_vars
    BY <1>1, EventInductive, PTL DEF Spec
  <1> QED
    BY <1>2, Zenon DEF OneReleasePerSignal

-----------------------------------------------------------------------------
(* The completion. *)

\* The completion module speaks of the same tasks and the same queue.
LEMMA SameQueue ==
  /\ C!cq = ev
  /\ \A q : C!Linked(q) = Linked(q)
  /\ \A t, q : C!IsFirstRanked(t, q) <=> IsFirstRanked(t, q)
  BY Zenon DEF C!cq, ev, C!Linked, Linked, C!IsFirstRanked, IsFirstRanked, C!Before, Before

\* So do its operations on tasks.
LEMMA SameSteps ==
  ASSUME NEW t, NEW q, NEW b, NEW r, NEW S
  PROVE  /\ C!WaitInit <=> WaitInit
         /\ C!Block(t, q, b, r) <=> Block(t, q, b, r)
         /\ C!WakeAll(S, r) <=> WakeAll(S, r)
         /\ C!Bury(t) <=> Bury(t)
         /\ C!Dispatch(t) <=> Dispatch(t)
         /\ C!Preempt(t) <=> Preempt(t)
         /\ C!Expire(t) <=> Expire(t)
         /\ C!CancelExact(t) <=> CancelExact(t)
         /\ C!SetRank(t, r) <=> SetRank(t, r)
         /\ C!Close(q) <=> Close(q)
         /\ C!Reopen(q) <=> Reopen(q)
  <1> USE DEF C!Linked, Linked
  <1>0. \A T : C!Cardinality(T) = Cardinality(T)
    BY Zenon DEF C!Cardinality, Cardinality
  <1>1. \A T : C!Detach(T) = Detach(T)
    BY <1>0, Zenon DEF C!Detach, Detach, C!Unlinked, Unlinked
  <1>2. \A T, x : C!WakeAll(T, x) <=> WakeAll(T, x)
    BY <1>1, Zenon DEF C!WakeAll, WakeAll, C!WakeEach, WakeEach
  <1>3. C!Block(t, q, b, r) <=> Block(t, q, b, r)
    BY <1>0, Zenon DEF C!Block, Block, C!Link, Link
  <1>4. C!Bury(t) <=> Bury(t)
    BY <1>1, Zenon DEF C!Bury, Bury
  <1>5. C!Dispatch(t) <=> Dispatch(t)
    BY Zenon DEF C!Dispatch, Dispatch
  <1>6. C!Preempt(t) <=> Preempt(t)
    BY Zenon DEF C!Preempt, Preempt
  <1>7. C!Expire(t) <=> Expire(t)
    BY <1>2, Zenon DEF C!Expire, Expire
  <1>8. C!CancelExact(t) <=> CancelExact(t)
    BY <1>2, Zenon DEF C!CancelExact, CancelExact
  <1>9. C!SetRank(t, r) <=> SetRank(t, r)
    BY Zenon DEF C!SetRank, SetRank
  <1>10. C!Close(q) <=> Close(q)
    BY <1>2, Zenon DEF C!Close, Close, C!NextGen, NextGen
  <1>11. C!Reopen(q) <=> Reopen(q)
    BY Zenon DEF C!Reopen, Reopen, C!NextGen, NextGen
  <1>12. C!WaitInit <=> WaitInit
    BY Zenon DEF C!WaitInit, WaitInit, C!Unlinked, Unlinked
  <1> QED
    BY <1>2, <1>3, <1>4, <1>5, <1>6, <1>7, <1>8, <1>9, <1>10, <1>11, <1>12, ZenonT(40)

\* The inductive invariant of the completion.
CompletionInv ==
    /\ WaitInv
    /\ completed \in 0..MaxCompleted
    /\ pc \in [Task -> {"idle", "wait"}]
    /\ \A t \in Task : node[t].queue \in {ev, NoQueue}
    /\ \A t \in Linked(ev) : result[t] = "None"
    /\ completed > 0 => Linked(ev) = {}
    /\ closing[ev] => completed = 0

\* The invariant says more than the property.
LEMMA CompletionHoldsNothing == CompletionInv => NothingHeldBack
  BY SameQueue, EvInQueue, Zenon DEF CompletionInv, WaitInv, NothingHeldBack, C!NothingHeldBack

\* The initial state.
LEMMA CompletionInit == C!Init => CompletionInv
  <1> SUFFICES ASSUME C!Init PROVE CompletionInv
    BY Zenon
  <1>1. WaitInit /\ completed = 0 /\ pc = [t \in Task |-> "idle"]
    BY SameSteps, Zenon DEF C!Init
  <1>2. WaitInv
    BY <1>1, WaitInitInv, Zenon
  <1>3. \A t \in Task : node[t].queue = NoQueue
    BY <1>1, Zenon DEF WaitInit, Unlinked
  <1>4. Linked(ev) = {}
    BY <1>3, EvInQueue, Zenon DEF Linked
  <1> QED
    BY <1>1, <1>2, <1>3, <1>4, CompletionAssumption, SMTT(30) DEF CompletionInv

\* Steps that only take tasks out of the queue and post no completion, unless
\* the queue is empty and open.
LEMMA CompletionShrinks ==
  ASSUME CompletionInv, WaitInv', UNCHANGED pc,
         \A t \in Task : node'[t].queue \in {node[t].queue, NoQueue},
         \A t \in Task : node'[t].queue = ev => result'[t] = result[t],
         completed' \in 0..MaxCompleted,
         completed' > completed => Linked(ev) = {} /\ ~closing'[ev],
         closing'[ev] => closing[ev] \/ completed' = 0
  PROVE  CompletionInv'
  <1> USE DEF CompletionInv
  <1>1. completed \in Nat /\ completed' \in Nat
    BY CompletionAssumption, SMTT(30)
  <1>2. \A t \in Linked(ev)' : t \in Linked(ev) /\ result'[t] = "None"
    <2>1. ASSUME NEW t \in Task, node'[t].queue = ev
          PROVE  node[t].queue = ev /\ result'[t] = result[t]
      BY <2>1, EvInQueue, Zenon
    <2> QED
      BY <2>1, Zenon DEF Linked
  <1>3. completed' > 0 => Linked(ev)' = {}
    <2>1. completed' > 0 => completed' > completed \/ completed > 0
      BY <1>1, SMTT(30)
    <2> QED
      BY <2>1, <1>2, Zenon
  <1>4. closing'[ev] => completed' = 0
    BY <1>1, SMTT(30)
  <1>5. \A t \in Task : node'[t].queue \in {ev, NoQueue}
    BY Zenon
  <1> QED
    BY <1>2, <1>3, <1>4, <1>5, Zenon

\* The completing operations: the woken tasks leave with one result.
LEMMA CompletionWakeKeeps ==
  ASSUME CompletionInv, NEW S \in SUBSET Linked(ev), NEW r \in WaitResult, WakeAll(S, r),
         UNCHANGED <<closing, generation, pc>>,
         completed' \in 0..MaxCompleted,
         completed' > completed => Linked(ev) = {} /\ ~closing[ev]
  PROVE  CompletionInv'
  <1> USE DEF CompletionInv
  <1> DEFINE res == [t \in S |-> r]
  <1>1. WakeEach(S, res) /\ \A t \in S : res[t] \in WaitResult
    BY Zenon DEF WakeAll
  <1>2. S \in SUBSET Task
    BY Zenon DEF Linked
  <1>3. /\ closing' \in [Queue -> BOOLEAN]
        /\ generation' \in [Queue -> 1..(MaxGen - 1)]
        /\ \A q \in Queue : closing'[q] => closing[q] \/ Linked(q) \subseteq S
    BY Zenon DEF WaitInv, WaitTypeOK
  <1> HIDE DEF res
  <1>4. /\ WaitInv'
        /\ \A t \in Task : node'[t].queue = IF t \in S THEN NoQueue ELSE node[t].queue
        /\ \A t \in Task : result'[t] = IF t \in S THEN res[t] ELSE result[t]
    BY <1>1, <1>2, <1>3, WakeKeeps, SMTT(30)
  <1>5. \A t \in Task : node'[t].queue = ev => result'[t] = result[t]
    BY <1>4, EvInQueue, Zenon
  <1>6. \A t \in Task : node'[t].queue \in {node[t].queue, NoQueue}
    BY <1>4, Zenon
  <1> QED
    BY <1>4, <1>5, <1>6, CompletionShrinks, Zenon

\* A task enrolls only when there is no completion to take.
LEMMA CompletionWaitKeeps ==
  ASSUME CompletionInv, NEW t \in Task, NEW b \in BOOLEAN, NEW r \in Ranks, C!Wait(t, b, r)
  PROVE  CompletionInv'
  <1> USE DEF CompletionInv
  <1>1. /\ state[t] = "Running" /\ ~closing[ev] /\ completed = 0
        /\ Block(t, ev, b, r)
        /\ pc' = [pc EXCEPT ![t] = "wait"]
        /\ UNCHANGED <<closing, generation>> /\ completed' = completed
    BY SameQueue, SameSteps, ZenonT(40) DEF C!Wait, C!Calls
  <1>2. /\ WaitInv'
        /\ \A p \in Queue : Linked(p)' = IF p = ev THEN Linked(p) \cup {t} ELSE Linked(p)
        /\ \A u \in Task : node'[u].queue = IF u = t THEN ev ELSE node[u].queue
        /\ \A u \in Task : result'[u] = IF u = t THEN "None" ELSE result[u]
    BY <1>1, EvInQueue, BlockKeeps, SMTT(30)
  <1>3. Linked(ev)' = Linked(ev) \cup {t} /\ Linked(ev) \subseteq Task
    BY <1>2, EvInQueue, Zenon DEF Linked
  <1>4. \A u \in Linked(ev)' : result'[u] = "None"
    BY <1>2, <1>3, Zenon
  <1>5. \A u \in Task : node'[u].queue \in {ev, NoQueue}
    BY <1>2, Zenon
  <1> QED
    BY <1>1, <1>2, <1>4, <1>5, SMTT(30)

\* Every step of a call on the completion keeps its invariant.
LEMMA CompletionCallSteps ==
  ASSUME CompletionInv,
         \/ \E t \in Task : C!Take(t) \/ C!Return(t)
         \/ \E t \in Task, b \in BOOLEAN, r \in Ranks : C!Wait(t, b, r)
         \/ C!CompleteOne
         \/ C!CompleteAll
         \/ C!ResetCompletion
         \/ C!CloseCompletion
  PROVE  CompletionInv'
  <1> USE DEF CompletionInv
  <1>1. /\ MaxCompleted \in Nat /\ completed \in 0..MaxCompleted
        /\ {"Signaled", "Cancelled"} \subseteq WaitResult
        /\ C!SaturatingInc(completed) \in 0..MaxCompleted
    BY CompletionAssumption, SMTT(30) DEF WaitResult, C!SaturatingInc
  <1>2. ASSUME NEW t \in Task, C!Take(t) PROVE CompletionInv'
    <2>1. UNCHANGED waitVars /\ pc' = pc /\ completed > 0 /\ completed' = completed - 1
      BY <1>2, Zenon DEF C!Take, C!waitVars, waitVars
    <2>2. WaitInv' /\ node' = node /\ result' = result /\ closing' = closing
      BY <2>1, WaitStutter, Zenon DEF waitVars
    <2>3. completed' \in 0..MaxCompleted /\ ~(completed' > completed)
      BY <1>1, <2>1, SMTT(30)
    <2> QED
      BY <2>1, <2>2, <2>3, CompletionShrinks, Zenon
  <1>3. ASSUME NEW t \in Task, C!Return(t) PROVE CompletionInv'
    <2>1. UNCHANGED waitVars /\ pc' = [pc EXCEPT ![t] = "idle"] /\ completed' = completed
      BY <1>3, Zenon DEF C!Return, C!waitVars, waitVars
    <2>2. WaitInv' /\ node' = node /\ result' = result /\ closing' = closing
      BY <2>1, WaitStutter, Zenon DEF waitVars
    <2>3. Linked(ev)' = Linked(ev)
      BY <2>1, WaitStutter, Zenon
    <2> QED
      BY <2>1, <2>2, <2>3, Zenon
  <1>4. ASSUME C!CompleteOne PROVE CompletionInv'
    <2> DEFINE S == {t \in Task : IsFirstRanked(t, ev)}
    <2>1. {t \in Task : C!IsFirstRanked(t, C!cq)} = S
      BY SameQueue, Zenon
    <2>2. /\ ~closing[ev]
          /\ WakeAll(S, "Signaled")
          /\ completed' = IF Linked(ev) = {} THEN C!SaturatingInc(completed) ELSE completed
          /\ UNCHANGED <<closing, generation, pc>>
      BY <1>4, <2>1, SameQueue, SameSteps, Zenon DEF C!CompleteOne
    <2>3. S \in SUBSET Linked(ev)
      BY Zenon DEF IsFirstRanked
    <2>4. completed' \in 0..MaxCompleted /\ (completed' > completed => Linked(ev) = {})
      BY <1>1, <2>2
    <2> HIDE DEF S
    <2> QED
      BY <1>1, <2>2, <2>3, <2>4, CompletionWakeKeeps, Zenon
  <1>5. ASSUME C!CompleteAll PROVE CompletionInv'
    <2>1. /\ ~closing[ev]
          /\ WakeAll(Linked(ev), "Signaled")
          /\ completed' = IF Linked(ev) = {} THEN C!SaturatingInc(completed) ELSE completed
          /\ UNCHANGED <<closing, generation, pc>>
      BY <1>5, SameQueue, SameSteps, Zenon DEF C!CompleteAll
    <2>2. completed' \in 0..MaxCompleted /\ (completed' > completed => Linked(ev) = {})
      BY <1>1, <2>1, SMTT(30)
    <2> QED
      BY <1>1, <2>1, <2>2, CompletionWakeKeeps, ZenonT(40)
  <1>6. ASSUME C!ResetCompletion PROVE CompletionInv'
    <2>1. /\ completed' = 0
          /\ WakeAll(Linked(ev), "Cancelled")
          /\ UNCHANGED <<closing, generation, pc>>
      BY <1>6, SameQueue, SameSteps, Zenon DEF C!ResetCompletion
    <2>2. completed' \in 0..MaxCompleted /\ ~(completed' > completed)
      BY <1>1, <2>1, SMTT(30)
    <2> QED
      BY <1>1, <2>1, <2>2, CompletionWakeKeeps, ZenonT(40)
  <1>7. ASSUME C!CloseCompletion PROVE CompletionInv'
    <2>1. completed' = 0 /\ Close(ev) /\ pc' = pc
      BY <1>7, SameQueue, SameSteps, ZenonT(40) DEF C!CloseCompletion
    <2>2. /\ WaitInv'
          /\ \A t \in Task : node'[t].queue = IF t \in Linked(ev) THEN NoQueue ELSE node[t].queue
          /\ \A t \in Task : result'[t] = IF t \in Linked(ev) THEN "Cancelled" ELSE result[t]
      BY <2>1, CloseKeeps, EvInQueue, Zenon
    <2>3. completed' \in 0..MaxCompleted /\ ~(completed' > completed)
      BY <1>1, <2>1, SMTT(30)
    <2> QED
      BY <2>1, <2>2, <2>3, EvInQueue, CompletionShrinks, Zenon
  <1> QED
    BY <1>2, <1>3, <1>4, <1>5, <1>6, <1>7, CompletionWaitKeeps, ZenonT(40)

\* Every step keeps the inductive invariant of the completion.
LEMMA CompletionStep == CompletionInv /\ [C!Next]_(C!vars) => CompletionInv'
  <1> SUFFICES ASSUME CompletionInv, [C!Next]_(C!vars) PROVE CompletionInv'
    BY Zenon
  <1> USE DEF CompletionInv
  <1>1. ASSUME C!Mute PROVE completed' = completed /\ pc' = pc /\ ~(completed' > completed)
    <2>1. completed' = completed /\ pc' = pc /\ completed \in Int
      BY <1>1, CompletionAssumption, SMTT(30) DEF C!Mute, C!completionVars
    <2> QED
      BY <2>1
  <1>2. ASSUME NEW t \in Task, C!Dispatch(t) \/ C!Preempt(t), C!Mute PROVE CompletionInv'
    <2>1. WaitInv' /\ node' = node /\ result' = result /\ closing' = closing
      BY <1>2, SwitchKeeps, SameSteps, ZenonT(40)
    <2> QED
      BY <1>1, <1>2, <2>1, CompletionShrinks, Zenon
  <1>3. ASSUME NEW t \in Task, C!Expire(t) \/ C!CancelExact(t), C!Mute PROVE CompletionInv'
    <2>1. /\ WaitInv' /\ closing' = closing
          /\ \A u \in Task : node'[u].queue = IF u = t THEN NoQueue ELSE node[u].queue
          /\ \A u \in Task \ {t} : result'[u] = result[u]
      BY <1>3, WakeOneKeeps, SameSteps, ZenonT(40)
    <2> QED
      BY <1>1, <1>3, <2>1, CompletionShrinks, EvInQueue, ZenonT(40)
  <1>4. ASSUME NEW t \in Task, NEW r \in Ranks, C!SetRank(t, r), C!Mute PROVE CompletionInv'
    <2>1. /\ WaitInv' /\ result' = result /\ closing' = closing
          /\ \A u \in Task : node'[u].queue = node[u].queue
      BY <1>4, RankKeeps, SameSteps, ZenonT(40)
    <2> QED
      BY <1>1, <1>4, <2>1, CompletionShrinks, Zenon
  <1>5. ASSUME NEW t \in Task, C!Kill(t) \/ C!Exit(t) PROVE CompletionInv'
    <2>1. Bury(t) /\ UNCHANGED <<closing, generation>> /\ C!Mute
      BY <1>5, SameSteps, ZenonT(40) DEF C!Kill, C!Exit
    <2>2. /\ WaitInv'
          /\ \A u \in Task : node'[u].queue = IF u = t THEN NoQueue ELSE node[u].queue
          /\ \A u \in Task : result'[u] = IF u = t THEN "Killed" ELSE result[u]
      BY <2>1, BuryKeeps, Zenon
    <2> QED
      BY <1>1, <2>1, <2>2, CompletionShrinks, EvInQueue, Zenon
  <1>6. ASSUME C!Reopen(C!cq), C!Mute PROVE CompletionInv'
    <2>1. WaitInv' /\ node' = node /\ result' = result /\ (closing'[ev] => closing[ev])
      BY <1>6, ReopenKeeps, EvInQueue, SameQueue, SameSteps, ZenonT(40)
    <2> QED
      BY <1>1, <1>6, <2>1, CompletionShrinks, Zenon
  <1>7. ASSUME UNCHANGED C!vars PROVE CompletionInv'
    <2>1. UNCHANGED waitVars /\ C!Mute
      BY <1>7, Zenon DEF C!vars, C!waitVars, waitVars, C!Mute
    <2>2. WaitInv' /\ node' = node /\ result' = result /\ closing' = closing
      BY <2>1, WaitStutter, Zenon DEF waitVars
    <2> QED
      BY <1>1, <2>1, <2>2, CompletionShrinks, Zenon
  <1> QED
    BY <1>2, <1>3, <1>4, <1>5, <1>6, <1>7, CompletionCallSteps, ZenonT(40) DEF C!Next

\* The inductive invariant of the completion holds in every reachable state.
LEMMA CompletionInductive == C!Spec => []CompletionInv
  BY CompletionInit, CompletionStep, PTL DEF C!Spec

\* A posted completion is never behind a waiter, and a closed completion holds
\* neither a waiter nor a completion.
THEOREM CompletionExact == C!Spec => []NothingHeldBack
  BY CompletionHoldsNothing, CompletionInductive, PTL

\* One complete has one use: while tasks are queued no step posts a completion,
\* so none is left behind by a step that releases one of them.
THEOREM CompletionUsedOnce == C!Spec => OneUse
  <1> DEFINE A == \A t \in C!Linked(C!cq) :
                    result'[t] = "Signaled" => completed = 0 /\ completed' = 0
  <1>1. CompletionInv /\ [C!Next]_(C!vars) => [A]_(C!vars)
    <2> SUFFICES ASSUME CompletionInv, [C!Next]_(C!vars), Linked(ev) # {}
                 PROVE  completed = 0 /\ completed' = 0
      BY SameQueue, Zenon
    <2>1. completed = 0
      BY CompletionAssumption, SMTT(30) DEF CompletionInv
    <2>2. ASSUME C!CompleteOne \/ C!CompleteAll PROVE completed' = completed
      BY <2>2, SameQueue, Zenon DEF C!CompleteOne, C!CompleteAll
    <2>3. ASSUME C!ResetCompletion \/ C!CloseCompletion PROVE completed' = 0
      BY <2>3, Zenon DEF C!ResetCompletion, C!CloseCompletion
    <2>4. ASSUME NEW t \in Task, C!Take(t) PROVE FALSE
      BY <2>1, <2>4 DEF C!Take
    <2>5. ASSUME C!Mute \/ UNCHANGED C!vars PROVE completed' = completed
      BY <2>5, Zenon DEF C!Mute, C!completionVars, C!vars
    <2>6. ASSUME NEW t \in Task,
                 C!Return(t) \/ \E b \in BOOLEAN, r \in Ranks : C!Wait(t, b, r)
          PROVE  completed' = completed
      BY <2>6, Zenon DEF C!Return, C!Wait
    <2> QED
      BY <2>1, <2>2, <2>3, <2>4, <2>5, <2>6, ZenonT(40) DEF C!Next, C!Kill, C!Exit
  <1>2. C!Spec => [][A]_(C!vars)
    BY <1>1, CompletionInductive, PTL DEF C!Spec
  <1> QED
    BY <1>2, Zenon DEF OneUse, C!OneUse
=============================================================================
