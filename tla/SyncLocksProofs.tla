-------------------------- MODULE SyncLocksProofs ---------------------------
(***************************************************************************)
(* The steps of mutex_lock, mutex_try and mutex_unlock with mutex_handoff; *)
(* waiting, claim(), death and what the scheduler does to a task in a call;*)
(* and the results: what holds of mutexes and unwind guards for any number *)
(* of tasks and locks and for every counter width.                         *)
(***************************************************************************)
EXTENDS SyncLocksGuard

(* mutex_unlock. *)

\* mutex_handoff finds the first eligible waiter in rank order; when there is
\* none everybody in the queue is dismissed.
LEMMA HeirShape ==
  ASSUME WaitInv, NEW m \in Queue
  PROVE  /\ Dismissed(m) \subseteq Saturated(m) /\ Saturated(m) \subseteq Linked(m)
         /\ \/ Heir(m) = {} /\ Dismissed(m) = Linked(m)
            \/ \E h \in Linked(m) \ Saturated(m) :
                  /\ Heir(m) = {h}
                  /\ \A u \in Linked(m) \ {h} : Before(h, u) \/ held[u] = MaxHeld
  <1>1. Dismissed(m) \subseteq Saturated(m) /\ Saturated(m) \subseteq Linked(m)
    BY Zenon DEF Dismissed, Saturated
  <1>2. CASE Linked(m) \ Saturated(m) = {}
    <2>1. Heir(m) = {}
      BY <1>2, Zenon DEF Heir
    <2>2. Dismissed(m) = Linked(m)
      BY <1>1, <1>2, <2>1, ZenonT(40) DEF Dismissed
    <2> QED
      BY <1>1, <2>1, <2>2, Zenon
  <1>3. CASE Linked(m) \ Saturated(m) # {}
    <2>1. PICK h \in Linked(m) \ Saturated(m) :
             \A u \in (Linked(m) \ Saturated(m)) \ {h} : Before(h, u)
      <3> DEFINE S == Linked(m) \ Saturated(m)
      <3>1. S \in SUBSET Linked(m) /\ S # {}
        BY <1>3, Zenon
      <3> HIDE DEF S
      <3>2. \E h \in S : \A u \in S \ {h} : Before(h, u)
        BY <3>1, FirstRanked DEF WaitInv
      <3> QED
        BY <3>2, Zenon DEF S
    <2>2. h \in Heir(m)
      BY <2>1, Zenon DEF Heir
    <2>3. ASSUME NEW k \in Heir(m), k # h PROVE FALSE
      <3>1. Before(h, k) /\ Before(k, h) /\ h \in Task /\ k \in Task
        BY <2>1, <2>3, Zenon DEF Heir, Linked
      <3>2. ~Before(h, h)
        BY <3>1, BeforeOrder, Zenon DEF WaitInv
      <3> QED
        BY <3>1, <3>2, BeforeOrder, Zenon DEF WaitInv
    <2>4. Heir(m) = {h}
      BY <2>2, <2>3, Zenon
    <2>5. \A u \in Linked(m) \ {h} : Before(h, u) \/ held[u] = MaxHeld
      BY <2>1, Zenon DEF Saturated
    <2> QED
      BY <1>1, <2>4, <2>5, Zenon
  <1> QED
    BY <1>2, <1>3, Zenon

\* mutex_handoff has woken the waiters W of mutex m, the last level of which t
\* gives up, and passed it on to o, one of them, or to nobody.
PassedOn(t, m, o, W) ==
    /\ state[t] = "Running" /\ pc[t] = "idle" /\ owner[m] = t /\ depth[m] = 1
    /\ W \subseteq Linked(m)
    /\ IF o = NoTask THEN W = Linked(m)
       ELSE /\ o \in W /\ held[o] # MaxHeld
            /\ \A u \in Linked(m) \ {o} : Before(o, u) \/ held[u] = MaxHeld
    /\ WakeEach(W, [u \in W |-> IF u = o THEN "Signaled" ELSE "Cancelled"])
    /\ owner' = [owner EXCEPT ![m] = o]
    /\ depth' = [depth EXCEPT ![m] = IF o = NoTask THEN 0 ELSE 1]
    /\ handoff' = [handoff EXCEPT ![m] = (o # NoTask)]
    /\ held' = [u \in Task |-> IF u = t THEN held[u] - 1
                               ELSE IF u = o THEN held[u] + 1 ELSE held[u]]
    /\ Undo(t, m)
    /\ UNCHANGED <<closing, generation, epoch, offer, unwind, pc, want, other>>

\* That is what the last mutex_unlock does.
LEMMA PassChoice ==
  ASSUME IInv, NEW t \in Task, NEW m \in Mutexes, MutexUnlock(t, m), depth[m] = 1
  PROVE  \E o \in Task \cup {NoTask} : \E W : PassedOn(t, m, o, W)
  <1>1. /\ state[t] = "Running" /\ pc[t] = "idle" /\ owner[m] = t /\ Undo(t, m)
        /\ UNCHANGED <<closing, generation, epoch, offer, unwind, pc, want, other>>
        /\ PassMutex(t, m)
    BY Zenon DEF MutexUnlock, Calls
  <1>2. WaitInv /\ m \in Queue /\ NoTask \notin Task
    BY SyncLocksAssumption, Zenon DEF IInv
  <1> DEFINE W == Heir(m) \cup Dismissed(m)
  <1>3. W \subseteq Linked(m) /\ W \in SUBSET Task
    BY <1>2, HeirShape, Zenon DEF Linked, Heir
  <1>4. ASSUME NEW o \in Task \cup {NoTask}, \A u \in Task : u \in Heir(m) <=> u = o,
               Heir(m) = {} <=> o = NoTask, owner' = [owner EXCEPT ![m] = o],
               IF o = NoTask THEN W = Linked(m)
               ELSE /\ o \in W /\ held[o] # MaxHeld
                    /\ \A u \in Linked(m) \ {o} : Before(o, u) \/ held[u] = MaxHeld
        PROVE  PassedOn(t, m, o, W)
    <2>1. WakeEach(W, [u \in W |-> IF u = o THEN "Signaled" ELSE "Cancelled"])
      <3>1. WakeEach(W, [u \in W |-> IF u \in Heir(m) THEN "Signaled" ELSE "Cancelled"])
        BY <1>1, Zenon DEF PassMutex
      <3>2. [u \in W |-> IF u \in Heir(m) THEN "Signaled" ELSE "Cancelled"]
              = [u \in W |-> IF u = o THEN "Signaled" ELSE "Cancelled"]
        BY <1>3, <1>4, Zenon
      <3> QED
        BY <3>1, <3>2, Zenon
    <2>2. /\ depth' = [depth EXCEPT ![m] = IF o = NoTask THEN 0 ELSE 1]
          /\ handoff' = [handoff EXCEPT ![m] = (o # NoTask)]
          /\ held' = [u \in Task |-> IF u = t THEN held[u] - 1
                                     ELSE IF u = o THEN held[u] + 1 ELSE held[u]]
      BY <1>1, <1>4, ZenonT(40) DEF PassMutex
    <2> HIDE DEF W
    <2> QED
      BY <1>1, <1>3, <1>4, <2>1, <2>2, ZenonT(40) DEF PassedOn
  <1>5. CASE Heir(m) = {}
    <2>1. Dismissed(m) = Linked(m)
      BY <1>2, <1>5, HeirShape, Zenon
    <2>2. owner' = [owner EXCEPT ![m] = NoTask]
      BY <1>1, <1>5, Zenon DEF PassMutex
    <2> QED
      BY <1>2, <1>3, <1>4, <1>5, <2>1, <2>2, ZenonT(40)
  <1>6. CASE Heir(m) # {}
    <2>1. PICK h \in Linked(m) \ Saturated(m) :
             /\ Heir(m) = {h}
             /\ \A u \in Linked(m) \ {h} : Before(h, u) \/ held[u] = MaxHeld
      BY <1>2, <1>6, HeirShape, Zenon
    <2>2. (CHOOSE x \in {h} : TRUE) = h
      BY Zenon
    <2>3. h \in Task /\ held[h] # MaxHeld /\ owner' = [owner EXCEPT ![m] = h]
      BY <1>1, <2>1, <2>2, Zenon DEF PassMutex, Linked, Saturated
    <2> QED
      BY <1>2, <1>3, <1>4, <2>1, <2>3, Zenon
  <1> QED
    BY <1>5, <1>6, Zenon

\* The tasks W, all of them waiting for m, are woken, and nobody else is touched.
Woken(m, o, W) ==
    /\ W \subseteq Task
    /\ \A q \in Queue : Linked(q)' = Linked(q) \ W
    /\ \A u \in Task : node'[u].queue = IF u \in W THEN NoQueue ELSE node[u].queue
    /\ \A u \in Task \ W : state'[u] = state[u] /\ result'[u] = result[u]
    /\ \A u \in W : state[u] = "Blocked" /\ pc[u] = "parked" /\ want[u] = m /\ state'[u] = "Ready"
    /\ o # NoTask => o \in W /\ result'[o] = "Signaled"

\* mutex_handoff wakes so.
LEMMA PassWaits ==
  ASSUME IInv, NEW t \in Task, NEW m \in Mutexes, NEW o \in Task \cup {NoTask},
         NEW W, PassedOn(t, m, o, W)
  PROVE  WaitInv' /\ Woken(m, o, W)
  <1>1. PICK r : r = [u \in W |-> IF u = o THEN "Signaled" ELSE "Cancelled"]
    BY Zenon
  <1>2. /\ WakeEach(W, r) /\ W \subseteq Linked(m) /\ W \in SUBSET Task
        /\ UNCHANGED <<closing, generation>> /\ (o # NoTask => o \in W)
    BY <1>1, Zenon DEF PassedOn, Linked
  <1>3. \A u \in W : r[u] \in WaitResult
    BY <1>1, Zenon DEF WaitResult
  <1>4. o \in W => r[o] = "Signaled"
    BY <1>1, Zenon
  <1>5. /\ WaitInv /\ closing' \in [Queue -> BOOLEAN] /\ generation' \in [Queue -> 1..(MaxGen - 1)]
        /\ \A q \in Queue : closing'[q] => closing[q]
    BY <1>2, Zenon DEF IInv, WaitInv, WaitTypeOK
  <1>6. /\ WaitInv'
        /\ \A q \in Queue : Linked(q)' = Linked(q) \ W
        /\ \A u \in Task : node'[u].queue = IF u \in W THEN NoQueue ELSE node[u].queue
        /\ \A u \in Task : state'[u] = IF u \in W THEN "Ready" ELSE state[u]
        /\ \A u \in Task : result'[u] = IF u \in W THEN r[u] ELSE result[u]
    BY <1>2, <1>3, <1>5, WakeKeeps, ZenonT(40)
  <1>7. ASSUME NEW u \in W PROVE state[u] = "Blocked" /\ pc[u] = "parked" /\ want[u] = m
    <2>1. u \in Task /\ node[u].queue = m /\ m # NoQueue
      BY <1>2, SyncLocksAssumption, TaskWaitAssumption, ZenonT(40) DEF Linked
    <2>2. state[u] = "Blocked"
      BY <1>5, <2>1, Zenon DEF WaitInv
    <2> QED
      BY <2>1, <2>2, Zenon DEF IInv, Phases
  <1> QED
    BY <1>2, <1>4, <1>6, <1>7 DEF Woken

\* The record of m.
LEMMA PassRecord ==
  ASSUME IInv, NEW t \in Task, NEW m \in Mutexes, NEW o \in Task \cup {NoTask},
         NEW W, PassedOn(t, m, o, W)
  PROVE  /\ m \in Queue /\ m \notin Guards /\ OnlyAt(m) /\ ~handoff[m]
         /\ owner'[m] = o /\ (handoff'[m] <=> o # NoTask)
         /\ o = NoTask => depth'[m] = 0
         /\ o # NoTask => depth'[m] = 1
  <1>1. m \in Queue /\ m \notin Guards
    BY SyncLocksAssumption, Zenon
  <1>2. /\ owner' = [owner EXCEPT ![m] = o]
        /\ depth' = [depth EXCEPT ![m] = IF o = NoTask THEN 0 ELSE 1]
        /\ handoff' = [handoff EXCEPT ![m] = (o # NoTask)] /\ epoch' = epoch
    BY Zenon DEF PassedOn
  <1>3. ~handoff[m]
    BY <1>1, LockByLock, Zenon DEF PassedOn, LockFine, Informed
  <1>4. owner'[m] = o /\ depth'[m] = (IF o = NoTask THEN 0 ELSE 1) /\ (handoff'[m] <=> o # NoTask)
    BY <1>1, <1>2, Zenon DEF IInv, TypeOK
  <1>5. OnlyAt(m)
    BY <1>1, <1>2, ZenonT(40) DEF IInv, TypeOK, OnlyAt
  <1> QED
    BY <1>1, <1>3, <1>4, <1>5, ZenonT(40)

\* What the callers have been told of m.
LEMMA PassGrants ==
  ASSUME IInv, NEW t \in Task, NEW m \in Mutexes, NEW o \in Task \cup {NoTask},
         NEW W, PassedOn(t, m, o, W)
  PROVE  /\ granted' \in [Task \cup {Boot} -> [Queue -> 0..MaxDepth]]
         /\ GrantsFollow(m)
  <1>1. m \in Queue /\ ~handoff[m] /\ owner'[m] = o /\ (handoff'[m] <=> o # NoTask)
    BY PassRecord, Zenon
  <1>2. owner[m] = t /\ depth[m] = 1 /\ Undo(t, m)
    BY Zenon DEF PassedOn
  <1>3. /\ granted' \in [Task \cup {Boot} -> [Queue -> 0..MaxDepth]]
        /\ \A d \in Task \cup {Boot}, k \in Queue :
              granted'[d][k] = IF k = m THEN 0 ELSE granted[d][k]
    BY <1>1, <1>2, LastUndo, ZenonT(40)
  <1>4. \A d \in Task \cup {Boot} : ~(owner'[m] = d /\ ~handoff'[m])
    BY <1>1, SyncLocksAssumption, Zenon
  <1> QED
    BY <1>3, <1>4, Zenon DEF GrantsFollow

\* Types, phases and counters.
LEMMA PassTypes ==
  ASSUME IInv, NEW t \in Task, NEW m \in Mutexes, NEW o \in Task \cup {NoTask},
         NEW W, PassedOn(t, m, o, W)
  PROVE  TypeOK' /\ Phases' /\ CountsExact'
  <1>1. m \in Queue /\ m \notin Guards /\ OnlyAt(m) /\ owner'[m] = o
    BY PassRecord, Zenon
  <1>2. WaitInv' /\ Woken(m, o, W)
    BY PassWaits, Zenon
  <1>3. /\ state[t] = "Running" /\ owner[m] = t
        /\ held' = [u \in Task |-> IF u = t THEN held[u] - 1
                                   ELSE IF u = o THEN held[u] + 1 ELSE held[u]]
        /\ o # NoTask => o \in W /\ held[o] # MaxHeld
        /\ UNCHANGED <<unwind, pc, want, other, offer, epoch>>
    BY Zenon DEF PassedOn
  <1>4. /\ t # o /\ NoTask \notin Task
        /\ \A u \in Task : held[u] \in 0..MaxHeld /\ unwind[u] \in 0..MaxUnwind
        /\ MaxHeld \in Nat /\ MaxUnwind \in Nat
    BY <1>2, <1>3, SyncLocksAssumption, SMTT(30) DEF IInv, TypeOK, Woken
  <1>5. held[t] # 0
    BY <1>3, OwnerCounted, Zenon
  <1>6. held' \in [Task -> 0..MaxHeld]
    <2>1. \A u \in Task : held'[u] \in 0..MaxHeld
      BY <1>3, <1>4, <1>5, SMTT(30)
    <2> QED
      BY <1>3, <2>1, Zenon
  <1>7. /\ depth' \in [Queue -> 0..MaxDepth] /\ handoff' \in [Queue -> BOOLEAN]
        /\ owner' \in [Queue -> Task \cup {NoTask, Boot}]
    BY SyncLocksAssumption, SMTT(30) DEF IInv, TypeOK, PassedOn
  <1>8. TypeOK'
    <2>1. granted' \in [Task \cup {Boot} -> [Queue -> 0..MaxDepth]]
      BY PassGrants, ZenonT(40)
    <2> QED
      BY <1>2, <1>3, <1>6, <1>7, <2>1, Zenon DEF IInv, TypeOK, WaitInv
  <1>9. Phases'
    BY <1>2, <1>3 DEF IInv, Phases, Woken
  <1>10. CountersFollow(m)
    <2>1. ASSUME NEW u \in Task
          PROVE  held'[u] = held[u] + One(m \in Mutexes /\ owner'[m] = u)
                                    - One(m \in Mutexes /\ owner[m] = u)
      BY <1>1, <1>3, <1>4, SMTT(30) DEF One
    <2>2. ASSUME NEW u \in Task
          PROVE  unwind'[u] = unwind[u] + One(m \in Guards /\ owner'[m] = u /\ depth'[m] # 0)
                                        - One(m \in Guards /\ owner[m] = u /\ depth[m] # 0)
      <3>1. unwind'[u] = unwind[u] /\ unwind[u] \in Int
        BY <1>3, <1>4, SMTT(30)
      <3> QED
        BY <1>1, <3>1, SMTT(30) DEF One
    <2> QED
      BY <1>3, <2>1, <2>2, Zenon DEF CountersFollow
  <1> QED
    BY <1>1, <1>8, <1>9, <1>10, CountsMove, ZenonT(40)

\* The mutex is owned by the heir, who has been told, or free and unwanted.
LEMMA PassLock ==
  ASSUME IInv, NEW t \in Task, NEW m \in Mutexes, NEW o \in Task \cup {NoTask},
         NEW W, PassedOn(t, m, o, W)
  PROVE  LockFine(m)'
  <1>1. /\ m \in Queue /\ m \notin Guards
        /\ owner'[m] = o /\ (handoff'[m] <=> o # NoTask)
        /\ o = NoTask => depth'[m] = 0
        /\ o # NoTask => depth'[m] = 1
    BY PassRecord, Zenon
  <1>0. Woken(m, o, W)
    BY PassWaits, Zenon
  <1>2. CASE o = NoTask
    <2>1. W = Linked(m)
      BY <1>2, Zenon DEF PassedOn
    <2>2. Linked(m)' = {}
      BY <1>0, <1>1, <2>1, SMTT(30) DEF Woken
    <2> QED
      BY <1>1, <1>2, <2>2, Zenon DEF LockFine, Free
  <1>3. CASE o # NoTask
    <2>1. UNCHANGED <<pc, want>>
      BY Zenon DEF PassedOn
    <2>2. o \in W /\ result'[o] = "Signaled"
      BY <1>0, <1>3, Zenon DEF Woken
    <2>3. state'[o] = "Ready" /\ pc[o] = "parked" /\ want[o] = m
      BY <1>0, <2>2, Zenon DEF Woken
    <2>4. Informed(o)' /\ want'[o] = m /\ o \in Task
      BY <1>3, <2>1, <2>2, <2>3, ZenonT(40) DEF Informed
    <2> QED
      BY <1>1, <1>3, <2>4, SMTT(30) DEF LockFine, Free
  <1> QED
    BY <1>2, <1>3, Zenon

\* Passing a mutex on keeps the invariant; the heir is the best waiter that can
\* hold one more.
LEMMA PassStep ==
  ASSUME IInv, NEW t \in Task, NEW m \in Mutexes, NEW o \in Task \cup {NoTask},
         NEW W, PassedOn(t, m, o, W)
  PROVE  IInv' /\ \A l \in Queue : FairAt(l)
  <1>1. /\ \A k \in Queue : LockFine(k)
        /\ \A u \in Task : offer[u] # NoOffer => OfferFine(u)
    BY LockByLock, ZenonT(40)
  <1>2. m \in Queue /\ m \notin Guards /\ OnlyAt(m) /\ owner'[m] = o
    BY PassRecord, Zenon
  <1>3. WaitInv' /\ Woken(m, o, W)
    BY PassWaits, Zenon
  <1>4. UNCHANGED <<offer, pc, want>>
    BY Zenon DEF PassedOn
  <1>5. ASSUME NEW u \in Task, state[u] \in {"Ready", "Running"} PROVE Undisturbed(u)
    BY <1>3, <1>4, <1>5, Zenon DEF Undisturbed, Woken
  <1>6. ASSUME NEW k \in Queue \ {m}, handoff[k] PROVE Undisturbed(owner[k])
    <2>1. owner[k] \in Task /\ state[owner[k]] \in {"Ready", "Running"}
      BY <1>1, <1>6, Zenon DEF LockFine, Informed
    <2> QED
      BY <1>5, <2>1, Zenon
  <1>7. /\ \A u \in Task : offer[u] # NoOffer /\ offer[u].guard # m =>
              offer'[u] = offer[u] /\ Undisturbed(u)
        /\ \A u \in Task : offer'[u] # NoOffer =>
              \/ offer'[u].guard = m /\ OfferFine(u)'
              \/ offer'[u].guard # m /\ offer'[u] = offer[u]
    <2>1. ASSUME NEW u \in Task, offer[u] # NoOffer
          PROVE  Undisturbed(u) /\ offer[u].guard # m
      <3>1. state[u] \in {"Ready", "Running"} /\ offer[u].guard # m
        BY <1>1, <1>2, <2>1, SMTT(30) DEF OfferFine, IInv, TypeOK, Offer
      <3> QED
        BY <1>5, <3>1, Zenon
    <2> QED
      BY <1>4, <2>1, Zenon
  <1>8. \A u \in Task : node'[u].queue = node[u].queue \/ node'[u].queue = NoQueue
    BY <1>3, Zenon DEF Woken
  <1>9. \/ owner'[m] = owner[m]
        \/ owner'[m] \notin Task
        \/ node'[owner'[m]].queue = NoQueue
    <2>1. o # NoTask => o \in W
      BY Zenon DEF PassedOn
    <2>2. \A u \in W : node'[u].queue = NoQueue
      BY <1>3, Zenon DEF Woken
    <2>3. NoTask \notin Task
      BY SyncLocksAssumption, Zenon
    <2> QED
      BY <1>2, <2>1, <2>2, <2>3, Zenon
  <1>10. ChangesOnly(m)
    <2>1. LockFine(m)'
      BY PassLock, Zenon
    <2>2. GrantsFollow(m)
      BY PassGrants, Zenon
    <2>3. \A k \in Queue \ {m} : handoff[k] => Undisturbed(owner[k])
      BY <1>6, Zenon
    <2> QED
      BY <1>2, <1>7, <1>8, <1>9, <2>1, <2>2, <2>3, ZenonT(40) DEF ChangesOnly
  <1>11. IInv'
    <2>1. TypeOK' /\ Phases' /\ CountsExact'
      BY PassTypes, Zenon
    <2> QED
      BY <1>3, <1>2, <1>10, <2>1, MoveKeeps, ZenonT(40)
  <1>12. FairAt(m)
    <2>1. CASE o = NoTask
      <3>1. Linked(m)' = {}
        <4>1. W = Linked(m)
          BY <2>1, Zenon DEF PassedOn
        <4> QED
          BY <1>3, <1>2, <4>1, ZenonT(40) DEF Woken
      <3> QED
        BY <1>2, <2>1, <3>1, Zenon DEF FairAt
    <2>2. CASE o # NoTask
      <3>1. o \in Linked(m) /\ \A u \in Linked(m) \ {o} : Before(o, u) \/ held[u] = MaxHeld
        BY <2>2, Zenon DEF PassedOn
      <3> QED
        BY <1>2, <3>1, Zenon DEF FairAt
    <2> QED
      BY <2>1, <2>2, Zenon
  <1> QED
    BY <1>2, <1>11, <1>12, Zenon DEF FairAt, OnlyAt

\* mutex_unlock.
LEMMA MutexUnlockStep ==
  ASSUME IInv, NEW t \in Task, NEW m \in Mutexes, MutexUnlock(t, m)
  PROVE  Correct
  <1>1. /\ state[t] = "Running" /\ pc[t] = "idle" /\ owner[m] = t /\ depth[m] # 0 /\ Undo(t, m)
        /\ UNCHANGED <<closing, generation, epoch, offer, unwind, pc, want, other>>
    BY Zenon DEF MutexUnlock, Calls
  <1>2. m \in Queue /\ ~handoff[m]
    BY <1>1, SyncLocksAssumption, Zenon DEF IInv, HandoffExact, Informed
  <1>3. Served
    BY <1>1, <1>2, UndoServed, Zenon
  <1>4. CASE depth[m] = 1
    <2>1. PICK o \in Task \cup {NoTask} : \E W : PassedOn(t, m, o, W)
      BY <1>4, PassChoice, Zenon
    <2>2. PICK W : PassedOn(t, m, o, W)
      BY <2>1, Zenon
    <2>3. IInv' /\ \A l \in Queue : FairAt(l)
      BY <2>2, PassStep, Zenon
    <2> QED
      BY <1>3, <2>3, Zenon DEF Correct
  <1>5. CASE depth[m] # 1
    <2>1. /\ depth' = [depth EXCEPT ![m] = @ - 1]
          /\ UNCHANGED <<state, node, timed, result, owner, handoff, held>>
      BY <1>5, Zenon DEF MutexUnlock
    <2>2. StepsDown(t, m)
      BY <1>1, <1>2, <1>5, <2>1, Zenon DEF StepsDown, waitVars
    <2>3. IInv'
      BY <1>2, <2>2, LeaveLevel, Zenon
    <2> QED
      BY <1>3, <2>1, <2>3, Zenon DEF Correct, FairAt
  <1> QED
    BY <1>4, <1>5, Zenon

-----------------------------------------------------------------------------
(* mutex_lock and mutex_try. *)

\* mutex_try succeeds, from outside or at the end of mutex_lock.
LEMMA MutexTakeStep ==
  ASSUME IInv, NEW t \in Task, NEW m \in Mutexes, state[t] = "Running",
         MutexTake(t, m), UNCHANGED other,
         \/ pc[t] = "idle" /\ UNCHANGED <<pc, want>>
         \/ pc[t] = "retry" /\ want[t] = m /\ Return(t)
  PROVE  /\ IInv'
         /\ granted[t][m] < MaxDepth
         /\ Free(m) \/ owner[m] = t
  <1>1. /\ \A k \in Queue : LockFine(k)
        /\ \A u \in Task : offer[u] # NoOffer => OfferFine(u)
    BY LockByLock, Zenon
  <1>2. m \in Queue /\ m \notin Guards /\ NoTask \notin Task
    BY SyncLocksAssumption, Zenon
  <1>3. Free(m) \/ owner[m] = t
    BY Zenon DEF MutexTake, MutexTrySucceeds
  <1>4. /\ depth[m] \in 0..MaxDepth /\ held[t] \in 0..MaxHeld
        /\ granted[t][m] = IF owner[m] = t /\ ~handoff[m] THEN depth[m] ELSE 0
    BY <1>2, Zenon DEF IInv, TypeOK, GrantsMatchDepth
  <1>5. /\ granted[t][m] < MaxDepth
        /\ granted[t][m] + 1 = IF handoff[m] THEN depth[m] ELSE depth[m] + 1
    <2>1. LockFine(m)
      BY <1>1, <1>2, Zenon
    <2> QED
      BY <1>2, <1>3, <1>4, <2>1, SyncLocksAssumption, SMTT(30)
      DEF LockFine, MutexTake, MutexTrySucceeds, Free
  <1>6. Counted(t, m)
    <2>1. Free(m) => held[t] < MaxHeld
      BY <1>2, Zenon DEF MutexTake, MutexTrySucceeds, Free
    <2>2. /\ held' = [held EXCEPT ![t] = IF Free(m) THEN @ + 1 ELSE @]
          /\ held \in [Task -> 0..MaxHeld]
          /\ unwind' = unwind /\ unwind \in [Task -> 0..MaxUnwind]
      BY Zenon DEF MutexTake, IInv, TypeOK
    <2>3. MaxHeld \in Nat
      BY SyncLocksAssumption, Zenon
    <2>4. \A u \in Task : held'[u] = held[u] + One(m \in Mutexes /\ t = u /\ Free(m))
      BY <2>2, SMTT(30) DEF One
    <2>5. held' \in [Task -> 0..MaxHeld]
      BY <2>1, <2>2, <2>3, SMTT(30)
    <2>6. \A u \in Task : unwind'[u] = unwind[u] + One(m \in Guards /\ t = u /\ depth[m] = 0)
      BY <1>2, <2>2, SMTT(30) DEF One
    <2> QED
      BY <2>2, <2>4, <2>5, <2>6, Zenon DEF Counted
  <1>7. Settled(m)
    BY <1>2, Zenon DEF MutexTake, IInv, TypeOK, Offer, Settled
  <1>8. Returned(t)
    BY ZenonT(40) DEF IInv, TypeOK, Return, Goto, Returned
  <1>9. NothingElseFor(t, m)
    <2>1. \A k \in Queue \ {m} : handoff[k] => owner[k] # t
      BY <1>1 DEF LockFine, Informed
    <2>2. offer[t] = NoOffer
      BY <1>1, <1>2, Zenon DEF OfferFine
    <2> QED
      BY <1>7, <2>1, <2>2, Zenon DEF NothingElseFor, Settled
  <1>10. Acquires(t, m)
    BY <1>5, ZenonT(40) DEF MutexTake, waitVars, IInv, WaitInv, WaitTypeOK, Acquires
  <1>11. IInv'
    BY <1>2, <1>3, <1>5, <1>6, <1>7, <1>8, <1>9, <1>10, AcquireKeeps, ZenonT(40)
  <1> QED
    BY <1>3, <1>5, <1>11, Zenon

\* A task that takes a mutex, in mutex_try or when it tries again after a wait.
LEMMA MutexTakeCorrect ==
  ASSUME IInv, NEW t \in Task, NEW m \in Mutexes, MutexTake(t, m), UNCHANGED other,
         state[t] = "Running",
         \/ pc[t] = "idle" /\ UNCHANGED <<pc, want>>
         \/ pc[t] = "retry" /\ want[t] = m /\ Return(t)
  PROVE  Correct
  <1>1. IInv' /\ granted[t][m] < MaxDepth /\ (Free(m) \/ owner[m] = t)
    BY MutexTakeStep, Zenon
  <1>2. owner' = [owner EXCEPT ![m] = t] /\ Grant(t, m) /\ m \in Queue
    BY SyncLocksAssumption, Zenon DEF MutexTake
  <1> QED
    BY <1>1, <1>2, TakeCorrect, ZenonT(40)

\* A task that waits for a mutex is offered no guard.
LEMMA MutexCaller ==
  ASSUME IInv, NEW t \in Task
  PROVE  /\ pc[t] \in {"idle", "check", "wait"} => ~Expects(t)
         /\ pc[t] \in {"check", "retry"} => want[t] \in Mutexes
         /\ want[t] \in Mutexes => want[t] \in Queue /\ offer[t] = NoOffer
  <1>1. pc[t] \in {"idle", "check", "wait"} => ~Expects(t)
    BY ExpectsAwake, Zenon
  <1>2. pc[t] \in {"check", "retry"} => want[t] \in Mutexes
    BY Zenon DEF IInv, Phases
  <1>3. want[t] \in Mutexes => want[t] \in Queue /\ offer[t] = NoOffer
    BY SyncLocksAssumption DEF IInv, OfferExact, TypeOK, Offer
  <1> QED
    BY <1>1, <1>2, <1>3, Zenon

\* mutex_try, and the calls that do not reach the wait queue.
LEMMA MutexCalls ==
  ASSUME IInv, NEW t \in Task,
         \/ \E m \in Mutexes : MutexTry(t, m) \/ MutexContended(t, m)
         \/ MutexCheck(t) \/ MutexGiveUp(t)
  PROVE  Correct
  <1>1. ASSUME NEW m \in Mutexes, MutexTry(t, m) PROVE Correct
    BY <1>1, MutexTakeCorrect, Zenon DEF MutexTry, Calls
  <1>2. ASSUME NEW m \in Mutexes, MutexContended(t, m) PROVE Correct
    <2>1. /\ state[t] = "Running" /\ pc[t] = "idle" /\ UNCHANGED <<waitVars, record>>
          /\ Goto(t, "check", m)
      BY <1>2, Zenon DEF MutexContended, Calls, record
    <2>2. ~Expects(t) /\ m \in Queue
      BY <2>1, MutexCaller, SyncLocksAssumption, Zenon
    <2> QED
      BY <2>1, <2>2, CallCorrect, Zenon
  <1>3. CASE MutexCheck(t)
    <2>1. /\ state[t] = "Running" /\ pc[t] = "check" /\ UNCHANGED <<waitVars, record>>
          /\ Return(t) \/ Goto(t, "wait", want[t])
      BY <1>3, Zenon DEF MutexCheck, At, record
    <2>2. ~Expects(t) /\ want[t] \in Queue
      BY <2>1, MutexCaller, Zenon
    <2> QED
      BY <2>1, <2>2, CallCorrect, ReturnCorrect, Zenon
  <1>4. CASE MutexGiveUp(t)
    <2>1. /\ state[t] = "Running" /\ pc[t] = "check" /\ UNCHANGED <<waitVars, record>>
          /\ Return(t)
      BY <1>4, Zenon DEF MutexGiveUp, At, record
    <2>2. ~Expects(t)
      BY <2>1, MutexCaller, Zenon
    <2> QED
      BY <2>1, <2>2, ReturnCorrect, Zenon
  <1> QED
    BY <1>1, <1>2, <1>3, <1>4, Zenon

\* The task that returns from the wait, and its next try.
LEMMA MutexResumes ==
  ASSUME IInv, NEW t \in Task, MutexResume(t) \/ MutexRetry(t)
  PROVE  Correct
  <1>1. PICK l : l = want[t]
    BY Zenon
  <1>2. l \in Mutexes => l \in Queue /\ offer[t] = NoOffer
    BY <1>1, MutexCaller, Zenon
  <1>3. CASE MutexResume(t)
    <2>1. /\ state[t] = "Running" /\ pc[t] = "parked" /\ l \in Mutexes
          /\ UNCHANGED <<waitVars, record>>
          /\ IF result[t] = "Signaled" THEN Goto(t, "retry", l) ELSE Return(t)
      BY <1>1, <1>3, Zenon DEF MutexResume, At, record
    <2>2. CASE result[t] = "Signaled"
      BY <1>1, <1>2, <2>1, <2>2, CallCorrect, ZenonT(40)
    <2>3. CASE result[t] # "Signaled"
      <3>1. ~Expects(t)
        BY <1>2, <2>1, <2>3, ExpectsAwake, Zenon
      <3> QED
        BY <2>1, <2>3, <3>1, ReturnCorrect, Zenon
    <2> QED
      BY <2>2, <2>3, Zenon
  <1>4. CASE MutexRetry(t)
    <2>1. state[t] = "Running" /\ pc[t] = "retry" /\ l \in Mutexes /\ UNCHANGED other
      BY <1>1, <1>4, MutexCaller, Zenon DEF MutexRetry, At
    <2>2. CASE MutexTake(t, l) /\ Return(t)
      BY <1>1, <2>1, <2>2, MutexTakeCorrect, ZenonT(40)
    <2>3. CASE /\ ~MutexTrySucceeds(t, l) /\ Goto(t, "check", l)
               /\ UNCHANGED <<waitVars, owner, depth, handoff, epoch, offer, held, unwind, granted>>
      <3>1. \A m \in Queue : handoff[m] /\ owner[m] = t => l = m
        BY <1>1, Zenon DEF IInv, HandoffExact
      <3>2. ~Expects(t)
        BY <1>2, <2>1, <2>3, <3>1, Zenon DEF Expects, MutexTrySucceeds
      <3>3. UNCHANGED <<waitVars, record>>
        BY <2>1, <2>3, Zenon DEF record
      <3> QED
        BY <1>2, <2>1, <2>3, <3>2, <3>3, CallCorrect, ZenonT(40)
    <2> QED
      BY <1>1, <1>4, <2>2, <2>3, ZenonT(40) DEF MutexRetry
  <1> QED
    BY <1>3, <1>4, Zenon

-----------------------------------------------------------------------------
(* wait_mutex, wait_guard and claim(). *)

\* wait_impl for a lock that somebody owns, after the validation walk.
LEMMA EnrollKeeps ==
  ASSUME IInv, NEW t \in Task, state[t] = "Running", pc[t] = "wait",
         NEW l \in Queue, ~closing[l], ~Free(l), NEW b \in BOOLEAN, NEW r \in Ranks,
         Enroll(t, l, b, r), Goto(t, "parked", l), UNCHANGED <<closing, generation, record>>
  PROVE  IInv'
  <1>1. ~Expects(t)
    BY ExpectsAwake, Zenon
  <1>2. /\ pc' \in [Task -> {"idle", "check", "wait", "parked", "retry"}]
        /\ want' \in [Task -> Queue \cup {NoQueue}]
        /\ \A u \in Task : pc'[u] = IF u = t THEN "parked" ELSE pc[u]
        /\ \A u \in Task : want'[u] = IF u = t THEN l ELSE want[u]
    BY Zenon DEF IInv, TypeOK, Goto
  <1>3. owner' = owner
    BY Zenon DEF record
  <1>4. CASE Acyclic(t, l)
    <2>1. Block(t, l, b, r)
      BY <1>4, Zenon DEF Enroll
    <2>2. /\ WaitInv'
          /\ \A p \in Queue : Linked(p)' = IF p = l THEN Linked(p) \cup {t} ELSE Linked(p)
          /\ \A u \in Task : node'[u].queue = IF u = t THEN l ELSE node[u].queue
          /\ \A u \in Task : state'[u] = IF u = t THEN "Blocked" ELSE state[u]
          /\ \A u \in Task : result'[u] = IF u = t THEN "None" ELSE result[u]
      BY <2>1, BlockKeeps, ZenonT(40) DEF IInv
    <2>3. Phases'
      BY <1>2, <2>2, ZenonT(40) DEF IInv, Phases
    <2>4. NoCircularWait'
      BY <1>3, <1>4, <2>2, WaitingIsSafe, ZenonT(40) DEF IInv, WaitInv
    <2>5. \A k \in Queue : Free(k) => Linked(k)' = {}
      BY <2>2, Zenon DEF IInv, NoStrandedWaiter
    <2>6. ASSUME NEW u \in Task, Expects(u)
          PROVE  /\ state'[u] \in {"Ready", "Running"} /\ want'[u] = want[u]
                 /\ pc'[u] = pc[u] /\ result'[u] = result[u]
      BY <1>1, <1>2, <2>2, <2>6, ExpectsAwake, ZenonT(40)
    <2> QED
      BY <1>2, <2>2, <2>3, <2>4, <2>5, <2>6, SilentKeeps, ZenonT(40)
  <1>5. CASE ~Acyclic(t, l)
    <2>1. /\ state' = [state EXCEPT ![t] = "Ready"]
          /\ timed' = [timed EXCEPT ![t] = FALSE]
          /\ result' = [result EXCEPT ![t] = "Failed"]
          /\ node' = node
      BY <1>5, Zenon DEF Enroll
    <2>2. \A q : Linked(q)' = Linked(q)
      BY <2>1, Zenon DEF Linked
    <2>3. /\ \A u \in Task : state'[u] = IF u = t THEN "Ready" ELSE state[u]
          /\ \A u \in Task : result'[u] = IF u = t THEN "Failed" ELSE result[u]
      BY <2>1, Zenon DEF IInv, WaitInv, WaitTypeOK
    <2>4. WaitInv'
      <3>1. WaitTypeOK'
        BY <2>1, Zenon DEF IInv, WaitInv, WaitTypeOK, WaitResult
      <3>2. Ordered'
        BY <2>1, Zenon DEF IInv, WaitInv, Ordered, Linked
      <3> QED
        BY <2>1, <2>2, <2>3, <3>1, <3>2, SMTT(30) DEF IInv, WaitInv
    <2>5. Phases'
      BY <1>2, <2>1, <2>3, SMTT(30) DEF IInv, Phases
    <2>6. NoCircularWait'
      BY <1>3, <2>1, Zenon DEF IInv, NoCircularWait, WaitsFor
    <2>7. \A k \in Queue : Free(k) => Linked(k)' = {}
      BY <2>2, Zenon DEF IInv, NoStrandedWaiter
    <2>8. ASSUME NEW u \in Task, Expects(u)
          PROVE  /\ state'[u] \in {"Ready", "Running"} /\ want'[u] = want[u]
                 /\ pc'[u] = pc[u] /\ result'[u] = result[u]
      BY <1>1, <1>2, <2>3, <2>8, ExpectsAwake, ZenonT(40)
    <2> QED
      BY <1>2, <2>4, <2>5, <2>6, <2>7, <2>8, SilentKeeps, ZenonT(40) DEF record
  <1> QED
    BY <1>4, <1>5, Zenon

\* wait_mutex.
LEMMA MutexWaits ==
  ASSUME IInv, NEW t \in Task, NEW b \in BOOLEAN, NEW r \in Ranks, MutexWait(t, b, r)
  PROVE  Correct
  <1>1. PICK l : l = want[t]
    BY Zenon
  <1>2. /\ state[t] = "Running" /\ pc[t] = "wait" /\ l \in Mutexes
        /\ UNCHANGED <<closing, generation, record>>
    BY <1>1, Zenon DEF MutexWait, At, record
  <1>3. ~Expects(t) /\ l \in Queue
    BY <1>1, <1>2, MutexCaller, Zenon
  <1>4. CASE Return(t) /\ UNCHANGED <<state, node, timed, result>>
    BY <1>2, <1>3, <1>4, ReturnCorrect, ZenonT(40) DEF waitVars
  <1>5. CASE Goto(t, "retry", l) /\ UNCHANGED <<state, node, timed, result>>
    BY <1>2, <1>3, <1>5, CallCorrect, ZenonT(40) DEF waitVars
  <1>6. CASE ~closing[l] /\ ~Free(l) /\ Enroll(t, l, b, r) /\ Goto(t, "parked", l)
    <2>1. IInv'
      BY <1>2, <1>3, <1>6, EnrollKeeps, ZenonT(40)
    <2>2. UNCHANGED <<owner, granted>>
      BY <1>2, Zenon DEF record
    <2> QED
      BY <2>1, <2>2, SilentCorrect, Zenon
  <1> QED
    BY <1>1, <1>4, <1>5, <1>6, Zenon DEF MutexWait

\* guard_try, and guard_enter up to its wait.
LEMMA GuardCalls ==
  ASSUME IInv, NEW t \in Task, NEW g \in Guards, GuardTry(t, g) \/ GuardContended(t, g)
  PROVE  Correct
  <1>1. CASE GuardTry(t, g)
    BY <1>1, GuardTakeCorrect, Zenon DEF GuardTry, Calls
  <1>2. CASE GuardContended(t, g)
    <2>1. /\ state[t] = "Running" /\ pc[t] = "idle" /\ UNCHANGED <<waitVars, record>>
          /\ Goto(t, "wait", g)
      BY <1>2, Zenon DEF GuardContended, Calls, record
    <2>2. ~Expects(t) /\ g \in Queue
      BY <2>1, ExpectsAwake, SyncLocksAssumption, Zenon
    <2> QED
      BY <2>1, <2>2, CallCorrect, Zenon
  <1> QED
    BY <1>1, <1>2, Zenon

\* wait_guard.
LEMMA GuardWaits ==
  ASSUME IInv, NEW t \in Task, NEW b \in BOOLEAN, NEW r \in Ranks, GuardWait(t, b, r)
  PROVE  Correct
  <1>1. PICK g : g = want[t]
    BY Zenon
  <1>2. /\ state[t] = "Running" /\ pc[t] = "wait" /\ g \in Guards
        /\ UNCHANGED <<closing, generation, handoff, epoch, offer, held, other>>
    BY <1>1, Zenon DEF GuardWait, At
  <1>3. ~Expects(t) /\ g \in Queue
    BY <1>2, ExpectsAwake, SyncLocksAssumption, Zenon
  <1>4. CASE Return(t) /\ UNCHANGED <<state, node, timed, result, owner, depth, unwind, granted>>
    <2>1. UNCHANGED <<waitVars, record>>
      BY <1>2, <1>4, Zenon DEF waitVars, record
    <2> QED
      BY <1>2, <1>3, <1>4, <2>1, ReturnCorrect, ZenonT(40)
  <1>5. CASE GuardTake(t, g) /\ Return(t) /\ UNCHANGED <<state, node, timed, result>>
    BY <1>2, <1>5, GuardTakeCorrect, Zenon DEF waitVars
  <1>6. CASE /\ ~closing[g] /\ ~Free(g) /\ Enroll(t, g, b, r) /\ Goto(t, "parked", g)
             /\ UNCHANGED <<owner, depth, unwind, granted>>
    <2>1. UNCHANGED <<closing, generation, record>>
      BY <1>2, <1>6, Zenon DEF record
    <2>2. IInv'
      BY <1>2, <1>3, <1>6, <2>1, EnrollKeeps, ZenonT(40)
    <2> QED
      BY <1>6, <2>2, SilentCorrect, Zenon
  <1> QED
    BY <1>1, <1>4, <1>5, <1>6, ZenonT(40) DEF GuardWait

\* claim() takes the offer of t up.
LEMMA ClaimStep ==
  ASSUME IInv, NEW t \in Task, NEW late \in BOOLEAN, GuardClaim(t, late),
         offer[t] # NoOffer, ClaimFailure(t, late) = "None"
  PROVE  /\ IInv'
         /\ offer[t].guard \in Queue
         /\ Grant(t, offer[t].guard)
         /\ granted[t][offer[t].guard] < MaxDepth
         /\ owner[offer[t].guard] = t
  <1>1. /\ \A k \in Queue : LockFine(k)
        /\ \A u \in Task : offer[u] # NoOffer => OfferFine(u)
    BY LockByLock, Zenon
  <1>2. PICK g \in Guards : g = offer[t].guard
    BY Zenon DEF IInv, TypeOK, Offer
  <1>3. g \in Queue /\ g \notin Mutexes /\ LockFine(g) /\ OfferFine(t)
    BY <1>1, SyncLocksAssumption, Zenon
  <1>4. owner[g] = t /\ depth[g] = 0 /\ want[t] = g /\ pc[t] = "parked" /\ ~handoff[g]
    BY <1>2, <1>3, Zenon DEF OfferFine, LockFine
  <1>5. granted[t][g] = 0 /\ granted[t][g] < MaxDepth
    BY <1>3, <1>4, SyncLocksAssumption, SMTT(30) DEF IInv, GrantsMatchDepth
  <1>6. /\ state[t] = "Running" /\ Return(t)
        /\ depth' = [depth EXCEPT ![g] = 1]
        /\ unwind' = [unwind EXCEPT ![t] = @ + 1]
        /\ offer' = [offer EXCEPT ![t] = NoOffer]
        /\ timed' = [timed EXCEPT ![t] = FALSE]
        /\ Grant(t, g)
        /\ UNCHANGED <<state, node, result, closing, generation, owner, epoch>>
        /\ UNCHANGED <<handoff, held, other>>
    BY <1>2, Zenon DEF GuardClaim, At
  <1>7. unwind[t] # MaxUnwind
    BY Zenon DEF ClaimFailure
  <1>8. Counted(t, g)
    <2>1. unwind \in [Task -> 0..MaxUnwind] /\ held \in [Task -> 0..MaxHeld]
      BY Zenon DEF IInv, TypeOK
    <2> QED
      BY <1>3, <1>4, <1>6, <1>7, <2>1, SyncLocksAssumption, SMTT(30) DEF One, Counted
  <1>9. Settled(g)
    <2>1. \A u \in Task : offer[u] # NoOffer => (offer[u].guard = g <=> u = t)
      BY <1>1, <1>2, <1>4, Zenon DEF OfferFine
    <2>2. offer \in [Task -> Offer \cup {NoOffer}]
      BY Zenon DEF IInv, TypeOK
    <2> QED
      BY <1>6, <2>1, <2>2, Zenon DEF Settled
  <1>10. Returned(t)
    BY <1>6, Zenon DEF IInv, TypeOK, Return, Goto, Returned
  <1>11. NothingElseFor(t, g)
    <2>1. \A k \in Queue \ {g} : handoff[k] => owner[k] # t
      BY <1>1, <1>4, SMTT(30) DEF LockFine, Informed
    <2> QED
      BY <1>2, <1>9, <2>1, ZenonT(40) DEF NothingElseFor, Settled
  <1>12. Acquires(t, g)
    BY <1>3, <1>4, <1>5, <1>6, SMTT(30) DEF IInv, WaitInv, WaitTypeOK, TypeOK, Acquires
  <1>13. IInv'
    <2>1. state[t] = "Running" /\ (Free(g) \/ owner[g] = t)
      BY <1>4, <1>6, Zenon
    <2> QED
      BY <1>3, <1>5, <1>8, <1>9, <1>10, <1>11, <1>12, <2>1, AcquireKeeps, ZenonT(40)
  <1> QED
    BY <1>2, <1>3, <1>4, <1>5, <1>6, <1>13, ZenonT(40)

\* claim(): an offer that stands, one that is void, late or one too many, or none.
LEMMA GuardClaims ==
  ASSUME IInv, NEW t \in Task, NEW late \in BOOLEAN, GuardClaim(t, late)
  PROVE  Correct
  <1>1. /\ state[t] = "Running" /\ pc[t] = "parked" /\ want[t] \in Guards /\ Return(t)
        /\ UNCHANGED <<handoff, held, other>>
    BY Zenon DEF GuardClaim, At
  <1>2. CASE offer[t] = NoOffer
    <2>1. UNCHANGED <<waitVars, record>>
      BY <1>2, Zenon DEF GuardClaim, record
    <2>2. want[t] \notin Mutexes
      BY <1>1, SyncLocksAssumption, Zenon
    <2>3. ~Expects(t)
      BY <1>2, <2>2, Zenon DEF Expects, IInv, HandoffExact
    <2> QED
      BY <1>1, <2>1, <2>3, ReturnCorrect, Zenon
  <1>3. CASE offer[t] # NoOffer /\ ClaimFailure(t, late) = "None"
    <2>1. PICK g : g = offer[t].guard
      BY Zenon
    <2>2. /\ IInv' /\ g \in Queue /\ Grant(t, g) /\ granted[t][g] < MaxDepth
          /\ owner[g] = t
      BY <1>3, <2>1, ClaimStep, Zenon
    <2>3. owner' = owner
      BY <1>3, Zenon DEF GuardClaim
    <2>4. owner' = [owner EXCEPT ![g] = t]
      BY <2>2, <2>3, ZenonT(40) DEF IInv, TypeOK
    <2> QED
      BY <2>2, <2>4, TakeCorrect, ZenonT(40)
  <1>4. CASE offer[t] # NoOffer /\ ClaimFailure(t, late) # "None"
    <2>1. PICK f : f = ClaimFailure(t, late)
      BY Zenon
    <2>2. f \in WaitResult
      BY <2>1, Zenon DEF ClaimFailure, WaitResult
    <2>3. CancelOffer(t, f, "Running")
      BY <1>1, <1>4, <2>1, ZenonT(40) DEF GuardClaim
    <2>4. UNCHANGED <<closing, generation, depth, handoff, held, unwind, granted, other>>
      BY <1>1, <1>4, Zenon DEF GuardClaim
    <2> QED
      BY <1>1, <1>4, <2>2, <2>3, <2>4, CancelStep, ZenonT(40)
  <1> QED
    BY <1>2, <1>3, <1>4, Zenon

-----------------------------------------------------------------------------
(* The scheduler, and the death of a task. *)

\* What the scheduler does to tasks outside their calls: waits may end, but none
\* begins and nobody is disturbed who expects a lock.
LEMMA KernelMoves ==
  ASSUME IInv, WaitInv', UNCHANGED <<record, pc, want>>,
         \A u \in Task : node'[u].queue = node[u].queue \/ node'[u].queue = NoQueue,
         \A u \in Task : Expects(u) =>
            state'[u] \in {"Ready", "Running"} /\ result'[u] = result[u]
  PROVE  IInv'
  <1>1. owner' = owner
    BY Zenon DEF record
  <1>2. Phases'
    BY ZenonT(40) DEF IInv, Phases, WaitInv
  <1>3. NoCircularWait'
    BY <1>1, NoNewCircle, Zenon DEF IInv, WaitInv
  <1>4. \A k \in Queue : Free(k) => Linked(k)' = {}
    BY TaskWaitAssumption, SMTT(30) DEF IInv, NoStrandedWaiter, Linked
  <1>5. /\ pc' \in [Task -> {"idle", "check", "wait", "parked", "retry"}]
        /\ want' \in [Task -> Queue \cup {NoQueue}]
        /\ pc' = pc /\ want' = want
    BY Zenon DEF IInv, TypeOK
  <1> QED
    BY <1>2, <1>3, <1>4, <1>5, SilentKeeps, ZenonT(40) DEF record

\* Scheduling, timeouts, cancellation, rank changes, closing and reopening.
LEMMA KernelSteps ==
  ASSUME IInv, Mute,
         \/ \E t \in Task : Dispatch(t) \/ Preempt(t) \/ Expire(t) \/ CancelExact(t)
         \/ \E t \in Task, r \in Ranks : SetRank(t, r)
         \/ \E l \in Queue : Close(l) \/ Reopen(l)
  PROVE  IInv'
  <1>1. UNCHANGED <<record, pc, want>> /\ WaitInv
    BY Zenon DEF Mute, lockVars, record, IInv
  <1>2. ASSUME NEW t \in Task, Dispatch(t) \/ Preempt(t)
        PROVE  IInv'
    <2>1. /\ WaitInv'
          /\ UNCHANGED <<node, timed, result, closing, generation>>
          /\ state'[t] \in {"Ready", "Running"}
          /\ \A u \in Task \ {t} : state'[u] = state[u]
      BY <1>1, <1>2, SwitchKeeps, Zenon
    <2>2. ASSUME NEW u \in Task, Expects(u)
          PROVE  state'[u] \in {"Ready", "Running"} /\ result'[u] = result[u]
      BY <2>1, <2>2, ExpectsAwake, Zenon
    <2> QED
      BY <1>1, <2>1, <2>2, KernelMoves, Zenon
  <1>3. ASSUME NEW t \in Task, Expire(t) \/ CancelExact(t)
        PROVE  IInv'
    <2>1. /\ WaitInv' /\ state[t] = "Blocked"
          /\ \A u \in Task : node'[u].queue = IF u = t THEN NoQueue ELSE node[u].queue
          /\ \A u \in Task : state'[u] = IF u = t THEN "Ready" ELSE state[u]
          /\ \A u \in Task \ {t} : result'[u] = result[u]
      BY <1>1, <1>3, WakeOneKeeps, Zenon
    <2>2. ASSUME NEW u \in Task, Expects(u)
          PROVE  state'[u] \in {"Ready", "Running"} /\ result'[u] = result[u]
      BY <2>1, <2>2, ExpectsAwake, Zenon
    <2> QED
      BY <1>1, <2>1, <2>2, KernelMoves, Zenon
  <1>4. ASSUME NEW t \in Task, NEW r \in Ranks, SetRank(t, r)
        PROVE  IInv'
    <2>1. /\ WaitInv' /\ state' = state /\ result' = result
          /\ \A u \in Task : node'[u].queue = node[u].queue
      BY <1>1, <1>4, RankKeeps, Zenon
    <2>2. ASSUME NEW u \in Task, Expects(u)
          PROVE  state'[u] \in {"Ready", "Running"} /\ result'[u] = result[u]
      BY <2>1, <2>2, ExpectsAwake, Zenon
    <2> QED
      BY <1>1, <2>1, <2>2, KernelMoves, Zenon
  <1>5. ASSUME NEW l \in Queue, Close(l)
        PROVE  IInv'
    <2>1. /\ WaitInv'
          /\ \A u \in Task : node'[u].queue = IF u \in Linked(l) THEN NoQueue ELSE node[u].queue
          /\ \A u \in Task : state'[u] = IF u \in Linked(l) THEN "Ready" ELSE state[u]
          /\ \A u \in Task : result'[u] = IF u \in Linked(l) THEN "Cancelled" ELSE result[u]
      BY <1>1, <1>5, CloseKeeps, Zenon
    <2>2. ASSUME NEW u \in Task, Expects(u)
          PROVE  state'[u] \in {"Ready", "Running"} /\ result'[u] = result[u]
      <3>1. u \notin Linked(l)
        BY <1>1, <2>2, ExpectsAwake, TaskWaitAssumption, ZenonT(40) DEF WaitInv, Linked
      <3> QED
        BY <2>1, <2>2, <3>1, ExpectsAwake, Zenon
    <2> QED
      BY <1>1, <2>1, <2>2, KernelMoves, ZenonT(40)
  <1>6. ASSUME NEW l \in Queue, Reopen(l)
        PROVE  IInv'
    <2>1. WaitInv' /\ state' = state /\ result' = result /\ node' = node
      BY <1>1, <1>6, ReopenKeeps, Zenon
    <2>2. ASSUME NEW u \in Task, Expects(u)
          PROVE  state'[u] \in {"Ready", "Running"} /\ result'[u] = result[u]
      BY <2>1, <2>2, ExpectsAwake, Zenon
    <2> QED
      BY <1>1, <2>1, <2>2, KernelMoves, Zenon
  <1> QED
    BY <1>2, <1>3, <1>4, <1>5, <1>6, Zenon

\* A task that holds and expects nothing dies or is killed.
LEMMA BuryStep ==
  ASSUME IInv, NEW t \in Task, held[t] = 0, offer[t] = NoOffer, Bury(t),
         UNCHANGED <<closing, generation, record, pc, want>>
  PROVE  IInv'
  <1>1. ~Expects(t)
    <2>1. ASSUME NEW m \in Queue, handoff[m], owner[m] = t
          PROVE  FALSE
      <3>1. m \in Mutexes
        BY <2>1, Zenon DEF IInv, HandoffExact
      <3> QED
        BY <2>1, <3>1, OwnerCounted, Zenon
    <2> QED
      BY <2>1, Zenon DEF Expects
  <1>2. /\ WaitInv'
        /\ \A u \in Task : node'[u].queue = IF u = t THEN NoQueue ELSE node[u].queue
        /\ \A u \in Task : state'[u] = IF u = t THEN "Dead" ELSE state[u]
        /\ \A u \in Task : result'[u] = IF u = t THEN "Killed" ELSE result[u]
    BY BuryKeeps, Zenon DEF IInv
  <1>3. ASSUME NEW u \in Task, Expects(u)
        PROVE  state'[u] \in {"Ready", "Running"} /\ result'[u] = result[u]
    BY <1>1, <1>2, <1>3, ExpectsAwake, Zenon
  <1> QED
    BY <1>2, <1>3, KernelMoves, Zenon

\* transition_dead, reached by kill and by exit.
LEMMA DieStep ==
  ASSUME IInv, NEW t \in Task, held[t] = 0, Die(t),
         UNCHANGED <<closing, generation, depth, handoff, held, unwind, pc, want, granted, other>>
  PROVE  Correct
  <1>1. CASE offer[t] # NoOffer
    <2>1. CancelOffer(t, "Killed", "Dead") /\ "Killed" \in WaitResult
      BY <1>1, Zenon DEF Die, WaitResult
    <2> QED
      BY <1>1, <2>1, CancelStep, Zenon
  <1>2. CASE offer[t] = NoOffer
    <2>1. Bury(t) /\ UNCHANGED record /\ UNCHANGED owner
      BY <1>2, Zenon DEF Die, record
    <2>2. IInv'
      BY <1>2, <2>1, BuryStep, Zenon
    <2> QED
      BY <2>1, <2>2, SilentCorrect, Zenon
  <1> QED
    BY <1>1, <1>2, Zenon

-----------------------------------------------------------------------------
(* Every step. *)

\* Every step keeps the invariant, is one of LockService or none there, and lets
\* no lock pass its queue by.
LEMMA EveryStep == IInv /\ [Next]_vars => Correct
  <1> SUFFICES ASSUME IInv, [Next]_vars PROVE Correct
    BY Zenon
  <1>1. ASSUME NEW t \in Task, TaskStep(t) \/ Progress(t) PROVE Correct
    <2>1. ASSUME NEW m \in Mutexes, MutexUnlock(t, m) PROVE Correct
      BY <2>1, MutexUnlockStep, Zenon
    <2>2. ASSUME NEW g \in Guards, GuardLeave(t, g) PROVE Correct
      <3>1. Leaves(t, g)
        BY <2>2, Zenon DEF GuardLeave, Calls, Leaves
      <3> QED
        BY <3>1, LeaveStep, Zenon
    <2> QED
      BY <1>1, <2>1, <2>2, MutexCalls, MutexWaits, MutexResumes, GuardCalls, GuardWaits,
         GuardClaims, ZenonT(40) DEF TaskStep, Progress
  <1>2. ASSUME NEW g \in Guards, BootTry(g) PROVE Correct
    <2>1. IInv' /\ granted[Boot][g] < MaxDepth /\ (Free(g) \/ owner[g] = Boot) /\ g \in Queue
      BY <1>2, BootTryStep, SyncLocksAssumption, Zenon
    <2> QED
      BY <1>2, <2>1, TakeCorrect, Zenon DEF BootTry
  <1>3. ASSUME NEW g \in Guards, BootLeave(g) PROVE Correct
    <2>1. Boot \notin Task
      BY SyncLocksAssumption, Zenon
    <2>2. Leaves(Boot, g)
      BY <1>3, <2>1, Zenon DEF BootLeave, Leaves
    <2> QED
      BY <2>2, LeaveStep, Zenon
  <1>4. ASSUME NEW t \in Task, ExpireOffer(t) PROVE Correct
    <2>1. state[t] \in {"Running", "Ready"} /\ "Timeout" \in WaitResult
      BY <1>4, Zenon DEF ExpireOffer, IInv, OfferExact, WaitResult
    <2> QED
      BY <1>4, <2>1, CancelStep, Zenon DEF ExpireOffer
  <1>5. ASSUME NEW t \in Task, Kill(t) \/ Exit(t) PROVE Correct
    BY <1>5, DieStep, Zenon DEF Kill, Exit
  <1>6. ASSUME Mute,
               \/ \E t \in Task : Dispatch(t) \/ Preempt(t) \/ Expire(t) \/ CancelExact(t)
               \/ \E t \in Task, r \in Ranks : SetRank(t, r)
               \/ \E l \in Queue : Close(l) \/ Reopen(l)
        PROVE  Correct
    <2>1. IInv' /\ UNCHANGED <<owner, granted>>
      BY <1>6, KernelSteps, Zenon DEF Mute, lockVars
    <2> QED
      BY <2>1, SilentCorrect, Zenon
  <1>7. CASE UNCHANGED vars
    <2>1. UNCHANGED <<waitVars, record, pc, want, owner, granted>>
      BY <1>7, Zenon DEF vars, lockVars, record
    <2>2. WaitInv' /\ node' = node /\ state' = state /\ result' = result
      BY <2>1, WaitStutter, Zenon DEF IInv, waitVars
    <2>3. IInv'
      BY <2>1, <2>2, ExpectsAwake, KernelMoves, Zenon
    <2> QED
      BY <2>1, <2>3, SilentCorrect, Zenon
  <1> QED
    BY <1>1, <1>2, <1>3, <1>4, <1>5, <1>6, <1>7, ZenonT(40) DEF Next

-----------------------------------------------------------------------------
(* The results. *)

\* Every variable of the model of mutex_*, guard_* and their handovers keeps its
\* type and the whole inductive invariant holds in every reachable state.
THEOREM Invariant == Spec => []IInv
  <1>1. IInv /\ [Next]_vars => IInv'
    BY EveryStep, Zenon DEF Correct
  <1> QED
    BY InitCorrect, <1>1, PTL DEF Spec

\* What callers of mutex_lock, mutex_unlock, guard_enter and guard_leave were
\* told is what owner, depth and handoff_pending record.
THEOREM GrantsRecorded == Spec => []GrantsMatchDepth
  <1>1. IInv => GrantsMatchDepth
    BY Zenon DEF IInv
  <1> QED
    BY <1>1, Invariant, PTL

\* held_lock_count and unwind_guard_count, which keep kill and exit away from an
\* owner, count exactly the locks a task owns.
THEOREM CountersExact == Spec => []CountsExact
  <1>1. IInv => CountsExact
    BY Zenon DEF IInv
  <1> QED
    BY <1>1, Invariant, PTL

\* mutex_unlock, guard_leave, cancel and the enrollment under the admission
\* leave no task in the queue of a lock that nobody owns.
THEOREM NobodyStranded == Spec => []NoStrandedWaiter
  <1>1. IInv => NoStrandedWaiter
    BY Zenon DEF IInv
  <1> QED
    BY <1>1, Invariant, PTL

\* A guard is reserved exactly for the live task that carries its guard_offer.
THEOREM OffersExact == Spec => []OfferExact
  <1>1. IInv => OfferExact
    BY Zenon DEF IInv
  <1> QED
    BY <1>1, Invariant, PTL

\* The walk of acyclic() before every lock wait, bounded by VALIDATION_STEPS,
\* keeps the waits-for graph free of circles for any number of tasks and locks.
THEOREM DeadlockFree == Spec => []NoCircularWait
  <1>1. IInv => NoCircularWait
    BY Zenon DEF IInv
  <1> QED
    BY <1>1, Invariant, PTL

\* A lock with waiters changes hands only to the waiter that mutex_handoff or
\* select() has to choose.
THEOREM QueueRespected == Spec => NoBarging
  <1>1. IInv /\ [Next]_vars =>
          [\A l \in Queue :
             Linked(l) # {} /\ owner'[l] # owner[l] =>
                \/ owner'[l] = NoTask /\ (closing[l] \/ Linked(l)' = {})
                \/ /\ owner'[l] \in Linked(l)
                   /\ l \in Guards => IsHead(owner'[l], l)
                   /\ l \in Mutexes => \A u \in Linked(l) \ {owner'[l]} :
                                          Before(owner'[l], u) \/ held[u] = MaxHeld]_vars
    BY EveryStep, Zenon DEF Correct, FairAt
  <1> QED
    BY <1>1, Invariant, PTL DEF Spec, NoBarging

\* Seen by their callers, mutexes and unwind guards with their handoffs, offers,
\* timeouts and kills are the recursive exclusive lock of LockService.
THEOREM LocksImplementService == Spec => ImplementsLockService
  <1>1. Init => Service!Init
    BY Zenon DEF Init, Service!Init
  <1>2. IInv /\ [Next]_vars => [Service!Next]_granted
    BY EveryStep, Zenon DEF Correct, Served, Service!Next
  <1> QED
    BY <1>1, <1>2, Invariant, PTL DEF Spec, ImplementsLockService, Service!Spec
=============================================================================
