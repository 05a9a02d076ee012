---------------------------- MODULE SyncLocksInv ----------------------------
(***************************************************************************)
(* The inductive invariant of the mutex and the unwind guard, what is to be*)
(* shown of every step, and what steps of both locks have in common: a lock*)
(* taken, a level given back, a move inside a call, and the validation walk*)
(* before a wait.  SyncLocksGuard adds the steps of the guard, and         *)
(* SyncLocksProofs those of the mutex and the conclusions.                 *)
(***************************************************************************)
EXTENDS SyncLocks, TaskWaitProofs

\* A blocked task is parked for the lock whose queue it is in, a task inside a
\* call knows its lock, and only mutex_lock has the steps check and retry.
Phases ==
    \A t \in Task :
        /\ state[t] = "Blocked" => pc[t] = "parked" /\ want[t] = node[t].queue
        /\ pc[t] # "idle" => want[t] \in Queue
        /\ pc[t] \in {"check", "retry"} => want[t] \in Mutexes

\* A lock nobody owns has no depth; a mutex has a task for an owner, never the
\* boot context, and is owned at some depth.
Recorded ==
    \A l \in Queue :
        /\ Free(l) => depth[l] = 0
        /\ l \in Mutexes /\ ~Free(l) => owner[l] \in Task /\ depth[l] # 0

\* The new owner of a mutex that is on its way is awake inside mutex_lock and
\* about to find out.
Informed(t) ==
    /\ state[t] \in {"Ready", "Running"}
    /\ pc[t] = "retry" \/ (pc[t] = "parked" /\ result[t] = "Signaled")

HandoffExact ==
    \A m \in Queue : handoff[m] =>
        /\ m \in Mutexes /\ depth[m] = 1
        /\ owner[m] \in Task /\ want[owner[m]] = m /\ Informed(owner[m])

IInv ==
    /\ TypeOK /\ WaitInv /\ Phases
    /\ Recorded /\ HandoffExact /\ GrantsMatchDepth /\ CountsExact
    /\ NoStrandedWaiter /\ OfferExact /\ NoCircularWait

-----------------------------------------------------------------------------
(* What every step respects: the invariant, LockService, and the queues. *)

Served ==
    \/ UNCHANGED granted
    \/ \E c \in Task \cup {Boot}, l \in Queue : Service!Acquire(c, l) \/ Service!Release(c, l)

FairAt(l) ==
    Linked(l) # {} /\ owner'[l] # owner[l] =>
        \/ owner'[l] = NoTask /\ (closing[l] \/ Linked(l)' = {})
        \/ /\ owner'[l] \in Linked(l)
           /\ l \in Guards => IsHead(owner'[l], l)
           /\ l \in Mutexes => \A u \in Linked(l) \ {owner'[l]} :
                                  Before(owner'[l], u) \/ held[u] = MaxHeld

Correct == IInv' /\ Served /\ \A l \in Queue : FairAt(l)

-----------------------------------------------------------------------------
(* Counting locks, and circles in the waits-for graph. *)

\* A change at one lock changes the size of a set of locks by at most one.
LEMMA CountChange ==
  ASSUME NEW A \in SUBSET Queue, NEW B \in SUBSET Queue, NEW l \in Queue, A \ {l} = B \ {l}
  PROVE  /\ Cardinality(A) \in Nat
         /\ Cardinality(B) =
              Cardinality(A) + (IF l \in B THEN 1 ELSE 0) - (IF l \in A THEN 1 ELSE 0)
  <1>1. IsFiniteSet(A) /\ IsFiniteSet(B) /\ Cardinality(A) \in Nat /\ Cardinality(B) \in Nat
    BY SyncLocksAssumption, FS_Subset, FS_CardinalityType, Zenon
  <1>2. CASE l \in A <=> l \in B
    <2>1. A = B
      BY <1>2
    <2> QED
      BY <1>1, <2>1
  <1>3. CASE l \in A /\ l \notin B
    <2>1. B = A \ {l}
      BY <1>3, Zenon
    <2>2. Cardinality(A \ {l}) = Cardinality(A) - 1
      BY <1>1, <1>3, FS_RemoveElement, Zenon
    <2> QED
      BY <1>1, <1>3, <2>1, <2>2
  <1>4. CASE l \notin A /\ l \in B
    <2>1. B = A \cup {l}
      BY <1>4, Zenon
    <2>2. Cardinality(A \cup {l}) = Cardinality(A) + 1
      BY <1>1, <1>4, FS_AddElement, Zenon
    <2> QED
      BY <1>1, <1>4, <2>1, <2>2
  <1> QED
    BY <1>2, <1>3, <1>4, Zenon

\* The owner of a mutex, a task on its way to one included, holds a lock by its
\* own count.
LEMMA OwnerCounted ==
  ASSUME IInv, NEW m \in Mutexes, NEW t \in Task, owner[m] = t
  PROVE  held[t] # 0
  <1> DEFINE A == {k \in Mutexes : owner[k] = t}
  <1>1. A \in SUBSET Queue /\ A \ {m} \in SUBSET Queue /\ m \in A /\ m \in Queue
    BY SyncLocksAssumption, Zenon
  <1>2. /\ Cardinality(A \ {m}) \in Nat
        /\ Cardinality(A) = Cardinality(A \ {m}) + 1
    <2>1. (A \ {m}) \ {m} = A \ {m} /\ m \notin A \ {m}
      BY Zenon
    <2> HIDE DEF A
    <2> QED
      BY <1>1, <2>1, CountChange
  <1>3. held[t] = other[t] + Cardinality(A)
    BY Zenon DEF IInv, CountsExact
  <1>4. other[t] \in Nat
    BY SyncLocksAssumption DEF IInv, TypeOK
  <1> HIDE DEF A
  <1> QED
    BY <1>2, <1>3, <1>4

\* A task inside a guard unwinds by its own count.
LEMMA UnwinderCounted ==
  ASSUME IInv, NEW g \in Guards, NEW t \in Task, owner[g] = t, depth[g] # 0
  PROVE  unwind[t] # 0
  <1> DEFINE A == {k \in Guards : owner[k] = t /\ depth[k] # 0}
  <1>1. A \in SUBSET Queue /\ A \ {g} \in SUBSET Queue /\ g \in A /\ g \in Queue
    BY SyncLocksAssumption, Zenon
  <1>2. /\ Cardinality(A \ {g}) \in Nat
        /\ Cardinality(A) = Cardinality(A \ {g}) + 1
    <2>1. (A \ {g}) \ {g} = A \ {g} /\ g \notin A \ {g}
      BY Zenon
    <2> HIDE DEF A
    <2> QED
      BY <1>1, <2>1, CountChange
  <1>3. unwind[t] = Cardinality(A)
    BY Zenon DEF IInv, CountsExact
  <1> HIDE DEF A
  <1> QED
    BY <1>2, <1>3

\* Circles appear only where a wait begins: a step that starts no wait keeps the
\* graph free of them if every lock it passes on goes to somebody who does not
\* wait.
LEMMA NoNewCircle ==
  ASSUME WaitTypeOK, NoCircularWait,
         \A t \in Task : node'[t].queue # NoQueue =>
            /\ node'[t].queue = node[t].queue
            /\ \/ owner'[node[t].queue] = owner[node[t].queue]
               \/ owner'[node[t].queue] \notin Task
               \/ node'[owner'[node[t].queue]].queue = NoQueue
  PROVE  NoCircularWait'
  <1> SUFFICES ASSUME NEW S \in (SUBSET Task) \ {{}},
                      \A t \in S : node'[t].queue # NoQueue /\ owner'[node'[t].queue] \in S
               PROVE  FALSE
    BY Zenon DEF NoCircularWait, WaitsFor
  <1>1. PICK t \in S : node[t].queue = NoQueue \/ owner[node[t].queue] \notin S
    BY Zenon DEF NoCircularWait, WaitsFor
  <1>2. t \in Task /\ node'[t].queue = node[t].queue /\ node'[t].queue # NoQueue
    BY Zenon
  <1>3. owner'[node[t].queue] \in S
    BY <1>2, Zenon
  <1>4. node'[owner'[node[t].queue]].queue # NoQueue /\ owner'[node[t].queue] \in Task
    BY <1>3, Zenon
  <1> QED
    BY <1>1, <1>2, <1>3, <1>4, Zenon

\* No lock has an owner, no task waits.
LEMMA InitCorrect == Init => IInv
  <1> SUFFICES ASSUME Init PROVE IInv
    BY Zenon
  <1>1. WaitInv /\ \A l \in Queue : Linked(l) = {}
    BY WaitInitInv, TaskWaitAssumption, Zenon DEF Init, WaitInit, Linked, Unlinked
  <1>2. TypeOK
    BY <1>1, SyncLocksAssumption DEF Init, TypeOK, WaitInv
  <1>3. Phases /\ Recorded /\ HandoffExact /\ NoStrandedWaiter
    BY <1>1, SyncLocksAssumption, Zenon DEF Init, WaitInit, Phases, Recorded, HandoffExact, NoStrandedWaiter, Free
  <1>4. GrantsMatchDepth
    BY SyncLocksAssumption, Zenon DEF Init, GrantsMatchDepth
  <1>5. OfferExact
    BY SyncLocksAssumption, Zenon DEF Init, OfferExact, Free
  <1>6. NoCircularWait
    <2>1. \A t \in Task : node[t].queue = NoQueue
      BY Zenon DEF Init, WaitInit, Unlinked
    <2>2. ASSUME NEW S \in SUBSET Task, S # {}
          PROVE  \E t \in S : node[t].queue = NoQueue \/ WaitsFor(t) \notin S
      BY <2>1, <2>2, Zenon
    <2> QED
      BY <2>2, Zenon DEF NoCircularWait
  <1>7. CountsExact
    <2> SUFFICES ASSUME NEW t \in Task
                 PROVE  /\ held[t] = other[t] + Cardinality({m \in Mutexes : owner[m] = t})
                        /\ unwind[t] = Cardinality({g \in Guards : owner[g] = t /\ depth[g] # 0})
      BY Zenon DEF CountsExact
    <2>1. /\ {m \in Mutexes : owner[m] = t} = {}
          /\ {g \in Guards : owner[g] = t /\ depth[g] # 0} = {}
      BY SyncLocksAssumption, Zenon DEF Init
    <2>2. other[t] \in Int /\ held[t] = other[t] /\ unwind[t] = 0
      BY SyncLocksAssumption DEF Init
    <2> QED
      BY <2>1, <2>2, FS_EmptySet
  <1> QED
    BY <1>1, <1>2, <1>3, <1>4, <1>5, <1>6, <1>7, Zenon DEF IInv

\* What a lock records of the levels a caller was told of: nobody but the owner
\* was told of any.
LEMMA OthersHoldNothing ==
  ASSUME IInv, NEW c \in Task \cup {Boot}, NEW l \in Queue, Free(l) \/ owner[l] = c,
         NEW d \in Task \cup {Boot}, d # c
  PROVE  granted[d][l] = 0
  <1>1. NoTask \notin Task \cup {Boot}
    BY SyncLocksAssumption, Zenon
  <1> QED
    BY <1>1, Zenon DEF IInv, GrantsMatchDepth, Free

\* A level given back leaves the others as they are.
LEMMA UndoEffect ==
  ASSUME IInv, NEW c \in Task \cup {Boot}, NEW l \in Queue, granted[c][l] # 0, Undo(c, l)
  PROVE  /\ granted' \in [Task \cup {Boot} -> [Queue -> 0..MaxDepth]]
         /\ \A d \in Task \cup {Boot}, k \in Queue :
               granted'[d][k] = IF d = c /\ k = l THEN granted[c][l] - 1 ELSE granted[d][k]
  <1>1. granted \in [Task \cup {Boot} -> [Queue -> 0..MaxDepth]] /\ MaxDepth \in Nat
    BY SyncLocksAssumption, Zenon DEF IInv, TypeOK
  <1> QED
    BY <1>1 DEF Undo

\* The owner that gives up its only level holds nothing of the lock any more.
LEMMA LastUndo ==
  ASSUME IInv, NEW c \in Task \cup {Boot}, NEW l \in Queue, owner[l] = c, ~handoff[l],
         depth[l] = 1, Undo(c, l)
  PROVE  /\ granted' \in [Task \cup {Boot} -> [Queue -> 0..MaxDepth]]
         /\ \A d \in Task \cup {Boot}, k \in Queue :
               granted'[d][k] = IF k = l THEN 0 ELSE granted[d][k]
  <1>1. granted[c][l] = 1
    BY Zenon DEF IInv, GrantsMatchDepth
  <1>2. \A d \in Task \cup {Boot} : d # c => granted[d][l] = 0
    BY OthersHoldNothing, Zenon
  <1>3. /\ granted' \in [Task \cup {Boot} -> [Queue -> 0..MaxDepth]]
        /\ \A d \in Task \cup {Boot}, k \in Queue :
              granted'[d][k] = IF d = c /\ k = l THEN granted[c][l] - 1 ELSE granted[d][k]
    <2>1. granted[c][l] # 0
      BY <1>1
    <2> QED
      BY <2>1, UndoEffect, ZenonT(40)
  <1>4. granted[c][l] - 1 = 0
    BY <1>1
  <1>5. ASSUME NEW d \in Task \cup {Boot}, NEW k \in Queue
        PROVE  granted'[d][k] = IF k = l THEN 0 ELSE granted[d][k]
    BY <1>2, <1>3, <1>4
  <1> QED
    BY <1>3, <1>5, Zenon

\* A releasing step is one of an owner that was told so.
LEMMA UndoServed ==
  ASSUME IInv, NEW c \in Task \cup {Boot}, NEW l \in Queue, owner[l] = c, ~handoff[l],
         depth[l] # 0, Undo(c, l)
  PROVE  Served
  <1>1. granted[c][l] > 0
    <2>1. granted[c][l] = depth[l]
      BY Zenon DEF IInv, GrantsMatchDepth
    <2>2. depth[l] \in Nat
      BY SyncLocksAssumption DEF IInv, TypeOK
    <2> QED
      BY <2>1, <2>2
  <1>2. Service!Release(c, l)
    BY <1>1, Zenon DEF Service!Release, Undo
  <1> QED
    BY <1>2, Zenon DEF Served

-----------------------------------------------------------------------------
(* Those who expect a lock, and steps that change no owner. *)

record == <<owner, depth, handoff, epoch, offer, held, other, unwind, granted>>

\* A lock is on its way to t.
Expects(t) == offer[t] # NoOffer \/ \E m \in Queue : handoff[m] /\ owner[m] = t

\* Whoever expects a lock is awake inside the call for it.
LEMMA ExpectsAwake ==
  ASSUME IInv, NEW t \in Task, Expects(t)
  PROVE  /\ state[t] \in {"Ready", "Running"}
         /\ pc[t] \in {"parked", "retry"}
         /\ pc[t] = "parked" => offer[t] # NoOffer \/ result[t] = "Signaled"
  BY DEF IInv, OfferExact, HandoffExact, Expects, Informed

\* Steps without a grant or a release that change no owner.
LEMMA SilentCorrect ==
  ASSUME IInv', UNCHANGED <<owner, granted>>
  PROVE  Correct
  BY Zenon DEF Correct, Served, FairAt

-----------------------------------------------------------------------------
(* The invariant lock by lock, and a step that changes the record of one. *)

\* The conjuncts of IInv that speak about one lock, or about one offer.
LockFine(l) ==
    /\ Free(l) => depth[l] = 0 /\ Linked(l) = {}
    /\ l \in Mutexes /\ ~Free(l) => owner[l] \in Task /\ depth[l] # 0
    /\ handoff[l] =>
          /\ l \in Mutexes /\ depth[l] = 1
          /\ owner[l] \in Task /\ want[owner[l]] = l /\ Informed(owner[l])
    /\ l \in Guards /\ ~Free(l) /\ depth[l] = 0 =>
          owner[l] \in Task /\ offer[owner[l]] # NoOffer /\ offer[owner[l]].guard = l

OfferFine(t) ==
    /\ owner[offer[t].guard] = t
    /\ depth[offer[t].guard] = 0
    /\ epoch[offer[t].guard] = offer[t].epoch
    /\ state[t] \in {"Ready", "Running"} /\ pc[t] = "parked"
    /\ want[t] = offer[t].guard

\* IInv, lock by lock and task by task.
LEMMA LockByLock ==
  ASSUME IInv
  PROVE  /\ \A l \in Queue : LockFine(l)
         /\ \A t \in Task : offer[t] # NoOffer => OfferFine(t)
  <1>1. ASSUME NEW l \in Queue PROVE LockFine(l)
    BY Zenon DEF IInv, LockFine, Recorded, HandoffExact, NoStrandedWaiter, OfferExact
  <1>2. ASSUME NEW t \in Task, offer[t] # NoOffer PROVE OfferFine(t)
    BY <1>2, Zenon DEF IInv, OfferFine, OfferExact
  <1> QED
    BY <1>1, <1>2, Zenon

\* A step changes the record of no lock but l.
OnlyAt(l) ==
    \A k \in Queue \ {l} : /\ owner'[k] = owner[k] /\ depth'[k] = depth[k]
                           /\ handoff'[k] = handoff[k] /\ epoch'[k] = epoch[k]

\* A step leaves task u, which is awake inside a call, as it is.
Undisturbed(u) ==
    /\ state'[u] \in {"Ready", "Running"}
    /\ pc'[u] = pc[u] /\ want'[u] = want[u] /\ result'[u] = result[u]

One(b) == IF b THEN 1 ELSE 0

\* The counters of every task follow the change at lock l.
CountersFollow(l) ==
    /\ UNCHANGED other
    /\ \A t \in Task : held'[t] = held[t] + One(l \in Mutexes /\ owner'[l] = t)
                                          - One(l \in Mutexes /\ owner[l] = t)
    /\ \A t \in Task : unwind'[t] = unwind[t]
                          + One(l \in Guards /\ owner'[l] = t /\ depth'[l] # 0)
                          - One(l \in Guards /\ owner[l] = t /\ depth[l] # 0)

\* The counters stay exact if they follow the change at one lock.
LEMMA CountsMove ==
  ASSUME IInv, NEW l \in Queue, OnlyAt(l), CountersFollow(l)
  PROVE  CountsExact'
  <1> SUFFICES ASSUME NEW t \in Task
               PROVE  /\ held'[t] = other[t] + Cardinality({m \in Mutexes : owner'[m] = t})
                      /\ unwind'[t] = Cardinality({g \in Guards : owner'[g] = t /\ depth'[g] # 0})
    BY Zenon DEF CountsExact, CountersFollow
  <1>1. other[t] \in Nat
    BY SyncLocksAssumption DEF IInv, TypeOK
  <1>2. held'[t] = other[t] + Cardinality({m \in Mutexes : owner'[m] = t})
    <2> DEFINE A == {m \in Mutexes : owner[m] = t}
               B == {m \in Mutexes : owner'[m] = t}
    <2>1. A \in SUBSET Queue /\ B \in SUBSET Queue /\ A \ {l} = B \ {l}
      BY SyncLocksAssumption, Zenon DEF OnlyAt
    <2>2. held[t] = other[t] + Cardinality(A)
      BY Zenon DEF IInv, CountsExact
    <2>3. held'[t] = held[t] + One(l \in B) - One(l \in A)
      BY Zenon DEF One, CountersFollow
    <2> HIDE DEF A, B
    <2>4. /\ Cardinality(A) \in Nat
          /\ Cardinality(B) = Cardinality(A) + One(l \in B) - One(l \in A)
      BY <2>1, CountChange, Zenon DEF One
    <2>5. held'[t] = other[t] + Cardinality(B)
      BY <1>1, <2>2, <2>3, <2>4 DEF One
    <2> QED
      BY <2>5, Zenon DEF B
  <1>3. unwind'[t] = Cardinality({g \in Guards : owner'[g] = t /\ depth'[g] # 0})
    <2> DEFINE A == {g \in Guards : owner[g] = t /\ depth[g] # 0}
               B == {g \in Guards : owner'[g] = t /\ depth'[g] # 0}
    <2>1. A \in SUBSET Queue /\ B \in SUBSET Queue /\ A \ {l} = B \ {l}
      BY SyncLocksAssumption, Zenon DEF OnlyAt
    <2>2. unwind[t] = Cardinality(A)
      BY ZenonT(40) DEF IInv, CountsExact
    <2>3. unwind'[t] = unwind[t] + One(l \in B) - One(l \in A)
      BY Zenon DEF One, CountersFollow
    <2> HIDE DEF A, B
    <2>4. /\ Cardinality(A) \in Nat
          /\ Cardinality(B) = Cardinality(A) + One(l \in B) - One(l \in A)
      BY <2>1, CountChange, Zenon DEF One
    <2>5. unwind'[t] = Cardinality(B)
      BY <2>2, <2>3, <2>4, Zenon DEF One
    <2> QED
      BY <2>5, Zenon DEF B
  <1> QED
    BY <1>2, <1>3, Zenon

\* What the callers have been told of l is what l records, and of other locks
\* they have been told nothing new.
GrantsFollow(l) ==
    \A d \in Task \cup {Boot}, k \in Queue :
        granted'[d][k] = IF k # l THEN granted[d][k]
                         ELSE IF owner'[l] = d /\ ~handoff'[l] THEN depth'[l] ELSE 0

\* A step at lock l that begins no wait, keeps the invariant at l, and leaves
\* those alone who expect another lock.
ChangesOnly(l) ==
    /\ OnlyAt(l)
    /\ GrantsFollow(l)
    /\ \A u \in Task : node'[u].queue = node[u].queue \/ node'[u].queue = NoQueue
    /\ \/ owner'[l] = owner[l]
       \/ owner'[l] \notin Task
       \/ node'[owner'[l]].queue = NoQueue
    /\ LockFine(l)'
    /\ \A k \in Queue \ {l} : handoff[k] => Undisturbed(owner[k])
    /\ \A u \in Task : offer[u] # NoOffer /\ offer[u].guard # l =>
          offer'[u] = offer[u] /\ Undisturbed(u)
    /\ \A u \in Task : offer'[u] # NoOffer =>
          \/ offer'[u].guard = l /\ OfferFine(u)'
          \/ offer'[u].guard # l /\ offer'[u] = offer[u]

\* Such a step keeps the invariant.
LEMMA MoveKeeps ==
  ASSUME IInv, TypeOK', WaitInv', Phases', CountsExact', NEW l \in Queue, ChangesOnly(l)
  PROVE  IInv'
  <1>1. /\ \A k \in Queue : LockFine(k)
        /\ \A t \in Task : offer[t] # NoOffer => OfferFine(t)
    BY LockByLock, Zenon
  <1>2. GrantsMatchDepth'
    BY DEF IInv, GrantsMatchDepth, OnlyAt, GrantsFollow, ChangesOnly
  <1>3. NoCircularWait'
    <2>1. ASSUME NEW t \in Task, node'[t].queue # NoQueue
          PROVE  /\ node'[t].queue = node[t].queue
                 /\ \/ owner'[node[t].queue] = owner[node[t].queue]
                    \/ owner'[node[t].queue] \notin Task
                    \/ node'[owner'[node[t].queue]].queue = NoQueue
      <3>1. node'[t].queue = node[t].queue
        BY <2>1, Zenon DEF ChangesOnly
      <3>2. node[t].queue \in Queue
        BY <2>1, <3>1, NodeType, Zenon DEF IInv, WaitInv
      <3> QED
        BY <3>1, <3>2, Zenon DEF OnlyAt, ChangesOnly
    <2> QED
      BY <2>1, NoNewCircle, Zenon DEF IInv, WaitInv
  <1>4. ASSUME NEW k \in Queue \ {l} PROVE LockFine(k)'
    <2>1. owner'[k] = owner[k] /\ depth'[k] = depth[k] /\ handoff'[k] = handoff[k]
      BY Zenon DEF OnlyAt, ChangesOnly
    <2>2. Linked(k)' \subseteq Linked(k)
      BY TaskWaitAssumption, Zenon DEF Linked, ChangesOnly
    <2>3. LockFine(k)
      BY <1>1, Zenon
    <2>4. CASE ~handoff[k]
      <3>1. k \in Guards /\ ~Free(k) /\ depth[k] = 0 => offer'[owner[k]] = offer[owner[k]]
        BY <2>3, Zenon DEF LockFine, ChangesOnly
      <3> QED
        BY <2>1, <2>2, <2>3, <2>4, <3>1, Zenon DEF LockFine, Free
    <2>5. CASE handoff[k]
      <3>1. /\ k \in Mutexes /\ depth[k] = 1
            /\ owner[k] \in Task /\ want[owner[k]] = k /\ Informed(owner[k])
        BY <2>3, <2>5, Zenon DEF LockFine
      <3>2. Undisturbed(owner[k])
        BY <2>5, Zenon DEF ChangesOnly
      <3> QED
        BY <2>1, <3>1, <3>2, SyncLocksAssumption, SMTT(30) DEF LockFine, Free, Undisturbed, Informed
    <2> QED
      BY <2>4, <2>5, Zenon
  <1>5. ASSUME NEW u \in Task, offer'[u] # NoOffer PROVE OfferFine(u)'
    <2>1. CASE offer'[u].guard = l
      BY <1>5, <2>1, Zenon DEF ChangesOnly
    <2>2. CASE offer'[u].guard # l
      <3>1. offer'[u] = offer[u] /\ Undisturbed(u)
        BY <1>5, <2>2, Zenon DEF ChangesOnly
      <3>2. OfferFine(u) /\ offer[u].guard \in Queue \ {l}
        BY <1>1, <1>5, <2>2, <3>1, SyncLocksAssumption, Zenon DEF IInv, TypeOK, Offer
      <3>3. OnlyAt(l)
        BY Zenon DEF ChangesOnly
      <3> QED
        BY <3>1, <3>2, <3>3, Zenon DEF OfferFine, Undisturbed, OnlyAt
    <2> QED
      BY <2>1, <2>2, Zenon
  <1>6. LockFine(l)'
    BY Zenon DEF ChangesOnly
  <1>7. \A k \in Queue : LockFine(k)'
    BY <1>4, <1>6, Zenon
  <1>8. Recorded' /\ HandoffExact' /\ NoStrandedWaiter'
    BY <1>7, Zenon DEF LockFine, Recorded, HandoffExact, NoStrandedWaiter
  <1>9. OfferExact'
    BY <1>5, <1>7, SyncLocksAssumption, Zenon DEF LockFine, OfferFine, OfferExact
  <1> QED
    BY <1>2, <1>3, <1>8, <1>9, Zenon DEF IInv

-----------------------------------------------------------------------------
(* One level less of a lock that stays owned. *)

\* c gives one of several levels of lock l back.
StepsDown(c, l) ==
    /\ owner[l] = c /\ ~handoff[l] /\ depth[l] # 0 /\ depth[l] # 1
    /\ depth' = [depth EXCEPT ![l] = @ - 1]
    /\ Undo(c, l)
    /\ UNCHANGED <<waitVars, owner, handoff, epoch, offer, held, unwind, pc, want, other>>

\* The record of the lock, and nothing else, follows.
LEMMA LevelRecord ==
  ASSUME IInv, NEW c \in Task \cup {Boot}, NEW l \in Queue, StepsDown(c, l)
  PROVE  /\ depth[l] \in 2..MaxDepth /\ depth' \in [Queue -> 0..MaxDepth]
         /\ granted[c][l] = depth[l] /\ depth'[l] = depth[l] - 1
         /\ OnlyAt(l)
  <1>1. depth \in [Queue -> 0..MaxDepth] /\ MaxDepth \in Nat
    BY SyncLocksAssumption, Zenon DEF IInv, TypeOK
  <1>2. granted[c][l] = depth[l]
    BY Zenon DEF IInv, GrantsMatchDepth, StepsDown
  <1>3. depth[l] \in 2..MaxDepth
    BY <1>1 DEF StepsDown
  <1>4. depth'[l] = depth[l] - 1 /\ depth' \in [Queue -> 0..MaxDepth]
    BY <1>1, <1>3, SMTT(30) DEF StepsDown
  <1>5. OnlyAt(l)
    BY <1>1, Zenon DEF IInv, TypeOK, OnlyAt, StepsDown
  <1> QED
    BY <1>2, <1>3, <1>4, <1>5, Zenon

\* Types, phases and counters.
LEMMA LevelTypes ==
  ASSUME IInv, NEW c \in Task \cup {Boot}, NEW l \in Queue, StepsDown(c, l)
  PROVE  WaitInv' /\ TypeOK' /\ Phases' /\ CountsExact'
  <1>1. WaitInv'
    BY WaitStutter, Zenon DEF IInv, StepsDown
  <1>2. TypeOK'
    <2>1. granted[c][l] # 0
      BY LevelRecord, SMTT(30)
    <2>2. granted' \in [Task \cup {Boot} -> [Queue -> 0..MaxDepth]]
      BY <2>1, UndoEffect, Zenon DEF StepsDown
    <2>3. depth' \in [Queue -> 0..MaxDepth]
      BY LevelRecord, Zenon
    <2> QED
      BY <1>1, <2>2, <2>3, Zenon DEF IInv, TypeOK, WaitInv, StepsDown
  <1>3. Phases'
    BY Zenon DEF IInv, Phases, StepsDown, waitVars
  <1>4. CountersFollow(l)
    <2>1. \A t \in Task : held[t] \in Int /\ unwind[t] \in Int
      BY SyncLocksAssumption DEF IInv, TypeOK
    <2>2. depth[l] # 0 /\ depth'[l] # 0
      BY LevelRecord
    <2>3. UNCHANGED <<owner, held, unwind, other>>
      BY Zenon DEF StepsDown
    <2> QED
      BY <2>1, <2>2, <2>3 DEF One, CountersFollow
  <1> QED
    BY <1>1, <1>2, <1>3, <1>4, LevelRecord, CountsMove, Zenon

\* One level less keeps the invariant.
LEMMA LeaveLevel ==
  ASSUME IInv, NEW c \in Task \cup {Boot}, NEW l \in Queue, StepsDown(c, l)
  PROVE  IInv'
  <1>1. /\ \A k \in Queue : LockFine(k)
        /\ \A u \in Task : offer[u] # NoOffer => OfferFine(u)
    BY LockByLock, Zenon
  <1>2. /\ owner[l] = c /\ ~handoff[l] /\ depth[l] # 0 /\ Undo(c, l)
        /\ owner' = owner /\ handoff' = handoff /\ offer' = offer
        /\ pc' = pc /\ want' = want /\ state' = state /\ node' = node /\ result' = result
    BY Zenon DEF StepsDown, waitVars
  <1>3. granted[c][l] # 0 /\ depth'[l] # 0 /\ depth'[l] = granted[c][l] - 1 /\ OnlyAt(l)
    BY LevelRecord
  <1>4. GrantsFollow(l)
    <2>1. ASSUME NEW d \in Task \cup {Boot}, NEW k \in Queue
          PROVE  granted'[d][k] = IF k # l THEN granted[d][k]
                                  ELSE IF owner'[l] = d /\ ~handoff'[l] THEN depth'[l] ELSE 0
      <3>1. granted'[d][k] = IF d = c /\ k = l THEN granted[c][l] - 1 ELSE granted[d][k]
        BY <1>2, <1>3, UndoEffect, SMTT(30)
      <3>2. d # c => granted[d][l] = 0
        BY <1>2, OthersHoldNothing, Zenon
      <3> QED
        BY <1>2, <1>3, <3>1, <3>2, Zenon
    <2> QED
      BY <2>1, Zenon DEF GrantsFollow
  <1>5. LockFine(l)'
    <2>1. c # NoTask
      BY SyncLocksAssumption, Zenon
    <2>2. l \in Mutexes => c \in Task
      BY <1>1, <1>2, <2>1, Zenon DEF LockFine, Free
    <2> QED
      BY <1>2, <1>3, <2>1, <2>2, Zenon DEF LockFine, Free
  <1>6. ASSUME NEW k \in Queue \ {l}, handoff[k] PROVE Undisturbed(owner[k])
    BY <1>1, <1>2, <1>6, Zenon DEF LockFine, Informed, Undisturbed
  <1>7. ASSUME NEW u \in Task, offer[u] # NoOffer PROVE offer[u].guard # l /\ Undisturbed(u)
    BY <1>1, <1>2, <1>7, Zenon DEF OfferFine, Undisturbed
  <1>8. ChangesOnly(l)
    BY <1>2, <1>3, <1>4, <1>5, <1>6, <1>7, Zenon DEF ChangesOnly
  <1> QED
    BY <1>8, LevelTypes, MoveKeeps, Zenon

-----------------------------------------------------------------------------
(* Taking a lock. *)

\* Deadlines say nothing about the wait queues.
LEMMA WaitsUntouched ==
  ASSUME WaitInv, UNCHANGED <<state, node, result, closing, generation>>,
         timed' \in [Task -> BOOLEAN]
  PROVE  /\ WaitInv'
         /\ \A q : Linked(q)' = Linked(q)
  <1>1. \A q : Linked(q)' = Linked(q)
    BY Zenon DEF Linked
  <1>2. WaitTypeOK' /\ Ordered'
    BY DEF WaitInv, WaitTypeOK, Ordered, Linked
  <1> QED
    BY <1>1, <1>2, Zenon DEF WaitInv

\* Caller c becomes the owner of l, with one level more than it was told of so
\* far; nobody's wait changes but for its deadline.
Acquires(c, l) ==
    /\ owner' = [owner EXCEPT ![l] = c]
    /\ handoff' = [handoff EXCEPT ![l] = FALSE]
    /\ depth' = [depth EXCEPT ![l] = granted[c][l] + 1]
    /\ Grant(c, l)
    /\ UNCHANGED <<state, node, result, closing, generation, epoch, other>>
    /\ timed' \in [Task -> BOOLEAN]

\* The caller's counters of mutexes held and guards to unwind follow.
Counted(c, l) ==
    /\ held' \in [Task -> 0..MaxHeld] /\ unwind' \in [Task -> 0..MaxUnwind]
    /\ \A t \in Task : held'[t] = held[t] + One(l \in Mutexes /\ c = t /\ Free(l))
    /\ \A t \in Task : unwind'[t] = unwind[t] + One(l \in Guards /\ c = t /\ depth[l] = 0)

\* An offer of l is used up, every other offer stands.
Settled(l) ==
    /\ offer' \in [Task -> Offer \cup {NoOffer}]
    /\ \A u \in Task :
          offer'[u] = IF offer[u] # NoOffer /\ offer[u].guard = l THEN NoOffer ELSE offer[u]

\* The caller is outside any lock call afterwards, the others are where they were.
Returned(c) ==
    /\ pc' \in [Task -> {"idle", "check", "wait", "parked", "retry"}]
    /\ want' \in [Task -> Queue \cup {NoQueue}]
    /\ \A u \in Task \ {c} : pc'[u] = pc[u] /\ want'[u] = want[u]
    /\ c \in Task => pc'[c] = "idle"

\* Nothing but l was on its way to c.
NothingElseFor(c, l) ==
    /\ \A k \in Queue \ {l} : handoff[k] => owner[k] # c
    /\ c \in Task => offer'[c] = NoOffer

\* An acquiring step keeps the types and the phases of the lock calls.
LEMMA AcquireTypes ==
  ASSUME IInv, NEW c \in Task \cup {Boot}, NEW l \in Queue, granted[c][l] < MaxDepth,
         c \in Task => state[c] = "Running",
         Acquires(c, l), Counted(c, l), Settled(l), Returned(c)
  PROVE  /\ WaitInv' /\ \A q : Linked(q)' = Linked(q)
         /\ owner'[l] = c /\ ~handoff'[l] /\ depth'[l] = granted[c][l] + 1 /\ depth'[l] # 0
         /\ OnlyAt(l)
         /\ TypeOK'
         /\ Phases'
  <1>1. WaitInv' /\ \A q : Linked(q)' = Linked(q)
    BY WaitsUntouched, Zenon DEF IInv, Acquires
  <1>2. granted[c][l] \in 0..MaxDepth
    BY DEF IInv, TypeOK
  <1>3. owner'[l] = c /\ ~handoff'[l] /\ depth'[l] = granted[c][l] + 1 /\ depth'[l] # 0
    BY <1>2, SMTT(30) DEF IInv, TypeOK, Acquires
  <1>4. OnlyAt(l)
    BY Zenon DEF IInv, TypeOK, OnlyAt, Acquires
  <1>5. TypeOK'
    <2>0. granted[c][l] + 1 \in 0..MaxDepth
      <3>1. MaxDepth \in Nat
        BY SyncLocksAssumption, Zenon
      <3> QED
        BY <1>2, <3>1, SMTT(30)
    <2>1. granted' \in [Task \cup {Boot} -> [Queue -> 0..MaxDepth]]
      <3>1. granted \in [Task \cup {Boot} -> [Queue -> 0..MaxDepth]]
        BY Zenon DEF IInv, TypeOK
      <3>2. granted' = [granted EXCEPT ![c][l] = granted[c][l] + 1]
        BY Zenon DEF Grant, Acquires
      <3> QED
        BY <2>0, <3>1, <3>2, Zenon
    <2>2. depth' \in [Queue -> 0..MaxDepth]
      <3>1. depth \in [Queue -> 0..MaxDepth]
        BY Zenon DEF IInv, TypeOK
      <3>2. depth' = [depth EXCEPT ![l] = granted[c][l] + 1]
        BY Zenon DEF Acquires
      <3> QED
        BY <2>0, <3>1, <3>2, Zenon
    <2>3. /\ owner' \in [Queue -> Task \cup {NoTask, Boot}] /\ handoff' \in [Queue -> BOOLEAN]
          /\ epoch' \in [Queue -> 0..(MaxEpoch - 1)] /\ other' \in [Task -> 0..MaxOther]
      BY Zenon DEF IInv, TypeOK, Acquires
    <2>4. WaitTypeOK'
      BY <1>1, Zenon DEF WaitInv
    <2> QED
      BY <2>1, <2>2, <2>3, <2>4, Zenon DEF TypeOK, Counted, Settled, Returned
  <1>6. Phases'
    <2> SUFFICES ASSUME NEW t \in Task
                 PROVE  /\ state[t] = "Blocked" => pc'[t] = "parked" /\ want'[t] = node[t].queue
                        /\ pc'[t] # "idle" => want'[t] \in Queue
                        /\ pc'[t] \in {"check", "retry"} => want'[t] \in Mutexes
      BY Zenon DEF Phases, Acquires
    <2> QED
      BY Zenon DEF IInv, Phases, Returned
  <1> QED
    BY <1>1, <1>3, <1>4, <1>5, <1>6, Zenon

\* An acquiring step keeps the counters exact.
LEMMA AcquireCounts ==
  ASSUME IInv, NEW c \in Task \cup {Boot}, NEW l \in Queue, Free(l) \/ owner[l] = c,
         OnlyAt(l), UNCHANGED other, owner'[l] = c, depth'[l] # 0, Counted(c, l)
  PROVE  CountsExact'
  <1>1. NoTask \notin Task /\ NoTask # Boot
    BY SyncLocksAssumption, Zenon
  <1>2. ASSUME NEW t \in Task
        PROVE  held'[t] = held[t] + One(l \in Mutexes /\ owner'[l] = t)
                                  - One(l \in Mutexes /\ owner[l] = t)
    <2>1. held[t] \in Int /\ held'[t] = held[t] + One(l \in Mutexes /\ c = t /\ Free(l))
      BY SyncLocksAssumption, SMTT(30) DEF IInv, TypeOK, Counted
    <2> QED
      BY <1>1, <2>1, SMTT(30) DEF One, Free
  <1>3. ASSUME NEW t \in Task
        PROVE  unwind'[t] = unwind[t] + One(l \in Guards /\ owner'[l] = t /\ depth'[l] # 0)
                                      - One(l \in Guards /\ owner[l] = t /\ depth[l] # 0)
    <2>1. unwind[t] \in Int /\ unwind'[t] = unwind[t] + One(l \in Guards /\ c = t /\ depth[l] = 0)
      BY SyncLocksAssumption, SMTT(30) DEF IInv, TypeOK, Counted
    <2>2. Free(l) => depth[l] = 0
      BY LockByLock, Zenon DEF LockFine
    <2> QED
      BY <1>1, <2>1, <2>2, SMTT(30) DEF One, Free
  <1>4. CountersFollow(l)
    BY <1>2, <1>3, Zenon DEF CountersFollow
  <1> QED
    BY <1>4, CountsMove, Zenon

\* Caller c acquires lock l, with whatever was on its way to it.
LEMMA AcquireKeeps ==
  ASSUME IInv, NEW c \in Task \cup {Boot}, NEW l \in Queue,
         Free(l) \/ owner[l] = c, l \in Mutexes => c \in Task, granted[c][l] < MaxDepth,
         c \in Task => state[c] = "Running",
         Acquires(c, l), Counted(c, l), Settled(l), Returned(c), NothingElseFor(c, l)
  PROVE  IInv'
  <1>1. /\ \A k \in Queue : LockFine(k)
        /\ \A t \in Task : offer[t] # NoOffer => OfferFine(t)
    BY LockByLock, Zenon
  <1>2. /\ WaitInv' /\ \A q : Linked(q)' = Linked(q)
        /\ owner'[l] = c /\ ~handoff'[l] /\ depth'[l] = granted[c][l] + 1 /\ depth'[l] # 0
        /\ OnlyAt(l) /\ TypeOK' /\ Phases'
    BY AcquireTypes, ZenonT(40)
  <1>3. CountsExact'
    <2>1. UNCHANGED other
      BY Zenon DEF Acquires
    <2> QED
      BY <1>2, <2>1, AcquireCounts, ZenonT(40)
  <1>4. GrantsFollow(l)
    <2>1. ASSUME NEW d \in Task \cup {Boot}, NEW k \in Queue
          PROVE  granted'[d][k] = IF k # l THEN granted[d][k]
                                  ELSE IF owner'[l] = d /\ ~handoff'[l] THEN depth'[l] ELSE 0
      <3>1. granted'[d][k] = IF d = c /\ k = l THEN granted[c][l] + 1 ELSE granted[d][k]
        BY Zenon DEF IInv, TypeOK, Grant, Acquires
      <3>2. d # c => granted[d][l] = 0
        BY OthersHoldNothing, Zenon
      <3> QED
        BY <1>2, <3>1, <3>2, Zenon
    <2> QED
      BY <2>1, Zenon DEF GrantsFollow
  <1>5. LockFine(l)'
    <2>1. ~Free(l)'
      BY <1>2, SyncLocksAssumption, ZenonT(40) DEF Free
    <2> QED
      BY <1>2, <2>1, ZenonT(40) DEF LockFine
  <1>6. ASSUME NEW u \in Task \ {c}, state[u] \in {"Ready", "Running"} PROVE Undisturbed(u)
    BY <1>6, ZenonT(40) DEF Undisturbed, Acquires, Returned
  <1>7. ASSUME NEW k \in Queue \ {l}, handoff[k] PROVE Undisturbed(owner[k])
    <2>1. owner[k] \in Task /\ state[owner[k]] \in {"Ready", "Running"}
      BY <1>1, <1>7, ZenonT(40) DEF LockFine, Informed
    <2>2. owner[k] # c
      BY <1>7, Zenon DEF NothingElseFor
    <2> QED
      BY <1>6, <2>1, <2>2, ZenonT(40)
  <1>8. ASSUME NEW u \in Task, offer[u] # NoOffer, offer[u].guard # l
        PROVE  offer'[u] = offer[u] /\ Undisturbed(u)
    <2>1. offer'[u] = offer[u]
      BY <1>8, Zenon DEF Settled
    <2>2. state[u] \in {"Ready", "Running"}
      BY <1>1, <1>8, Zenon DEF OfferFine
    <2>3. u # c
      BY <1>8, <2>1, Zenon DEF NothingElseFor
    <2> QED
      BY <1>6, <2>1, <2>2, <2>3, Zenon
  <1>9. \A u \in Task : offer'[u] # NoOffer => offer'[u].guard # l /\ offer'[u] = offer[u]
    BY Zenon DEF Settled
  <1>10. node' = node
    BY Zenon DEF Acquires
  <1>11. owner'[l] = owner[l] \/ owner'[l] \notin Task \/ node'[owner'[l]].queue = NoQueue
    <2>1. c \in Task => node[c].queue = NoQueue
      BY Zenon DEF IInv, WaitInv
    <2> QED
      BY <1>2, <1>10, <2>1, ZenonT(40)
  <1>12. ChangesOnly(l)
    BY <1>2, <1>4, <1>5, <1>7, <1>8, <1>9, <1>10, <1>11, ZenonT(40) DEF ChangesOnly
  <1> QED
    BY <1>2, <1>3, <1>12, MoveKeeps, ZenonT(40)

\* An acquiring step takes a lock that is free, so that nobody waits for it, or
\* its caller's own already.
LEMMA TakeCorrect ==
  ASSUME IInv, IInv', NEW c \in Task \cup {Boot}, NEW l \in Queue, Free(l) \/ owner[l] = c,
         granted[c][l] < MaxDepth, Grant(c, l), owner' = [owner EXCEPT ![l] = c]
  PROVE  Correct
  <1>1. \A d \in (Task \cup {Boot}) \ {c} : granted[d][l] = 0
    BY OthersHoldNothing, Zenon
  <1>2. Service!Acquire(c, l)
    BY <1>1, Zenon DEF Service!Acquire, Grant
  <1>3. ASSUME NEW k \in Queue PROVE FairAt(k)
    <2>1. owner'[k] # owner[k] => Linked(k) = {}
      BY Zenon DEF IInv, TypeOK, NoStrandedWaiter
    <2> QED
      BY <2>1, Zenon DEF FairAt
  <1> QED
    BY <1>2, <1>3, Zenon DEF Correct, Served

-----------------------------------------------------------------------------
(* Moves inside a call. *)

\* A step that changes no record keeps the invariant if it lets nobody queue for
\* a free lock, closes no circle, and leaves those alone who expect a lock.
LEMMA SilentKeeps ==
  ASSUME IInv, WaitInv', UNCHANGED record,
         pc' \in [Task -> {"idle", "check", "wait", "parked", "retry"}],
         want' \in [Task -> Queue \cup {NoQueue}],
         Phases', NoCircularWait',
         \A l \in Queue : Free(l) => Linked(l)' = {},
         \A u \in Task : Expects(u) =>
            /\ state'[u] \in {"Ready", "Running"} /\ want'[u] = want[u]
            /\ pc'[u] = pc[u] \/ (offer[u] = NoOffer /\ pc'[u] = "retry")
            /\ result'[u] = result[u]
  PROVE  IInv'
  <1>1. TypeOK'
    BY Zenon DEF IInv, TypeOK, WaitInv, record
  <1>2. Recorded'
    BY Zenon DEF IInv, Recorded, Free, record
  <1>3. HandoffExact'
    <2> SUFFICES ASSUME NEW m \in Queue, handoff[m]
                 PROVE  /\ m \in Mutexes /\ depth[m] = 1
                        /\ owner[m] \in Task /\ want'[owner[m]] = m /\ Informed(owner[m])'
      BY Zenon DEF HandoffExact, record, Informed
    <2>1. /\ m \in Mutexes /\ depth[m] = 1
          /\ owner[m] \in Task /\ want[owner[m]] = m /\ Informed(owner[m])
      BY ZenonT(40) DEF IInv, HandoffExact
    <2>2. Expects(owner[m])
      BY ZenonT(40) DEF Expects
    <2> QED
      BY <2>1, <2>2, Zenon DEF Informed, record
  <1>4. GrantsMatchDepth'
    BY SMTT(30) DEF IInv, GrantsMatchDepth, record
  <1>5. CountsExact'
    BY ZenonT(40) DEF IInv, CountsExact, record
  <1>6. NoStrandedWaiter'
    BY Zenon DEF NoStrandedWaiter, Free, record
  <1>7. OfferExact'
    <2>1. ASSUME NEW t \in Task, offer[t] # NoOffer
          PROVE  /\ state'[t] \in {"Ready", "Running"} /\ pc'[t] = "parked"
                 /\ want'[t] = offer[t].guard
      BY <2>1, ZenonT(40) DEF IInv, OfferExact, Expects
    <2> QED
      BY <2>1, SMTT(30) DEF IInv, OfferExact, record, Free
  <1> QED
    BY <1>1, <1>2, <1>3, <1>4, <1>5, <1>6, <1>7, ZenonT(40) DEF IInv

\* A move inside a lock call, without waiting: a task that expects a lock only
\* goes on to take it up.
LEMMA CallMoves ==
  ASSUME IInv, NEW t \in Task, state[t] = "Running", UNCHANGED <<waitVars, record>>,
         NEW p \in {"idle", "check", "wait", "retry"}, NEW l \in Queue \cup {NoQueue},
         Goto(t, p, l),
         p # "idle" => l \in Queue,
         p \in {"check", "retry"} => l \in Mutexes,
         Expects(t) => p = "retry" /\ want[t] = l /\ offer[t] = NoOffer
  PROVE  IInv'
  <1>1. WaitInv' /\ \A q : Linked(q)' = Linked(q)
    BY WaitStutter, ZenonT(40) DEF IInv
  <1>2. /\ pc' \in [Task -> {"idle", "check", "wait", "parked", "retry"}]
        /\ want' \in [Task -> Queue \cup {NoQueue}]
        /\ \A u \in Task : pc'[u] = IF u = t THEN p ELSE pc[u]
        /\ \A u \in Task : want'[u] = IF u = t THEN l ELSE want[u]
    BY Zenon DEF IInv, TypeOK, Goto
  <1>3. state' = state /\ node' = node /\ result' = result /\ owner' = owner
    BY ZenonT(40) DEF waitVars, record
  <1>4. Phases'
    BY <1>2, <1>3, ZenonT(40) DEF IInv, Phases
  <1>5. NoCircularWait'
    BY <1>3, Zenon DEF IInv, NoCircularWait, WaitsFor
  <1>6. \A k \in Queue : Free(k) => Linked(k)' = {}
    BY <1>1, Zenon DEF IInv, NoStrandedWaiter
  <1>7. ASSUME NEW u \in Task, Expects(u)
        PROVE  /\ state'[u] \in {"Ready", "Running"} /\ want'[u] = want[u]
               /\ pc'[u] = pc[u] \/ (offer[u] = NoOffer /\ pc'[u] = "retry")
               /\ result'[u] = result[u]
    BY <1>2, <1>3, <1>7, ExpectsAwake, Zenon
  <1> QED
    BY <1>1, <1>2, <1>4, <1>5, <1>6, <1>7, SilentKeeps, Zenon

\* A step that only moves its task within a call: it expects no lock, or goes on
\* to try the mutex it was promised.
LEMMA CallCorrect ==
  ASSUME IInv, NEW t \in Task, state[t] = "Running", UNCHANGED <<waitVars, record>>,
         NEW p \in {"idle", "check", "wait", "retry"}, NEW l \in Queue \cup {NoQueue},
         Goto(t, p, l),
         p # "idle" => l \in Queue,
         p \in {"check", "retry"} => l \in Mutexes,
         Expects(t) => p = "retry" /\ want[t] = l /\ offer[t] = NoOffer
  PROVE  Correct
  <1>1. IInv'
    BY CallMoves, Zenon
  <1>2. UNCHANGED <<owner, granted>>
    BY Zenon DEF record
  <1> QED
    BY <1>1, <1>2, SilentCorrect, Zenon

\* A call that returns without a lock.
LEMMA ReturnCorrect ==
  ASSUME IInv, NEW t \in Task, state[t] = "Running", UNCHANGED <<waitVars, record>>,
         Return(t), ~Expects(t)
  PROVE  Correct
  BY CallCorrect, Zenon DEF Return

-----------------------------------------------------------------------------
(* The validation walk of acyclic(). *)

\* A set of numbers up to n that is not empty has a least element.
LEMMA LeastNumber ==
  ASSUME NEW n \in Nat, NEW S \in SUBSET (0..n), S # {}
  PROVE  \E k \in S : \A j \in S : k <= j
  <1>0. PICK R : R = {p \in (0..n) \X (0..n) : p[1] < p[2]}
    BY Zenon
  <1>1. IsFiniteSet(S)
    <2>1. IsFiniteSet(0..n)
      BY FS_Interval
    <2> QED
      BY <2>1, FS_Subset, Zenon
  <1>2. \A i, j \in S : <<i, j>> \in R <=> i < j
    BY <1>0, Zenon
  <1>3. LinearOn(S, R)
    BY <1>2 DEF LinearOn
  <1>4. PICK k \in S : \A j \in S \ {k} : <<k, j>> \in R
    <2>1. ASSUME NEW T, IsFiniteSet(T), T # {}, LinearOn(T, R)
          PROVE  \E k \in T : \A j \in T \ {k} : <<k, j>> \in R
      BY <2>1, HasFirst
    <2> QED
      BY <1>1, <1>3, <2>1, Zenon
  <1>5. ASSUME NEW j \in S PROVE k <= j
    <2>1. CASE j = k
      BY <2>1
    <2>2. CASE j # k
      <3>1. <<k, j>> \in R
        BY <2>2, <1>4, Zenon
      <3> QED
        BY <3>1, <1>2
    <2> QED
      BY <2>1, <2>2, Zenon
  <1> QED
    BY <1>5, Zenon

\* f holds the sets of the walk for t, up to step n.
IsWalk(f, t, n) == f = [k \in 0..n |-> IF k = 0 THEN {} ELSE EndsWell(t, f[k - 1])]

\* The walk of acyclic() is well defined.
LEMMA WalkDefined ==
  ASSUME NEW t, NEW n \in Nat
  PROVE  \E f : IsWalk(f, t, n)
  <1> DEFINE Bad == {m \in 0..n : ~\E f : IsWalk(f, t, m)}
  <1> SUFFICES ASSUME Bad # {} PROVE FALSE
    OBVIOUS
  <1>1. PICK m \in Bad : \A j \in Bad : m <= j
    BY LeastNumber, ZenonT(40)
  <1>2. m # 0
    <2> DEFINE e == [k \in 0..0 |-> {}]
    <2>1. IsWalk(e, t, 0)
      BY DEF IsWalk
    <2> QED
      BY <2>1, Zenon
  <1>3. PICK f : IsWalk(f, t, m - 1)
    <2>1. m - 1 \in 0..n /\ m - 1 \notin Bad
      BY <1>1, <1>2
    <2> QED
      BY <2>1, Zenon
  <1> DEFINE g == [k \in 0..m |-> IF k = m THEN EndsWell(t, f[m - 1]) ELSE f[k]]
  <1>4. ASSUME NEW k \in 0..m PROVE g[k] = IF k = 0 THEN {} ELSE EndsWell(t, g[k - 1])
    <2>1. \A j \in 0..(m - 1) : f[j] = IF j = 0 THEN {} ELSE EndsWell(t, f[j - 1])
      BY <1>3, <1>2, ZenonT(40) DEF IsWalk
    <2>2. CASE k = 0
      BY <2>1, <2>2, <1>2
    <2>3. CASE k = m
      BY <2>3, <1>2
    <2>4. CASE k # 0 /\ k # m
      BY <2>1, <2>4, <1>2
    <2> QED
      BY <2>2, <2>3, <2>4, Zenon
  <1>5. IsWalk(g, t, m)
    BY <1>4, Zenon DEF IsWalk
  <1> QED
    BY <1>1, <1>5, Zenon

\* A wait that acyclic() lets pass closes no circle, however long the chains
\* are: on a circle the walk would never end well.
LEMMA WaitingIsSafe ==
  ASSUME WaitTypeOK, NoCircularWait, NEW t \in Task, NEW l \in Queue, Acyclic(t, l),
         UNCHANGED owner, node'[t].queue = l,
         \A u \in Task \ {t} : node'[u].queue = node[u].queue
  PROVE  NoCircularWait'
  <1> SUFFICES ASSUME NEW S \in (SUBSET Task) \ {{}},
                      \A u \in S : node'[u].queue # NoQueue /\ owner[node'[u].queue] \in S
               PROVE  FALSE
    BY Zenon DEF NoCircularWait, WaitsFor
  <1>1. t \in S
    BY Zenon DEF NoCircularWait, WaitsFor
  <1>2. owner[l] \in S
    BY <1>1, Zenon
  <1>3. PICK w : IsWalk(w, t, ValidationSteps) /\ owner[l] \in w[ValidationSteps]
    <2> DEFINE walk == CHOOSE f : IsWalk(f, t, ValidationSteps)
    <2>1. \E f : IsWalk(f, t, ValidationSteps)
      BY WalkDefined, SyncLocksAssumption, Zenon
    <2>2. owner[l] \in walk[ValidationSteps]
      BY Zenon DEF Acyclic, IsWalk
    <2>3. IsWalk(walk, t, ValidationSteps)
      BY <2>1, Zenon
    <2> HIDE DEF walk
    <2> QED
      BY <2>2, <2>3, Zenon
  <1>4. \A k \in 0..ValidationSteps : w[k] = IF k = 0 THEN {} ELSE EndsWell(t, w[k - 1])
    BY <1>3, Zenon DEF IsWalk
  <1> DEFINE Bad == {k \in 0..ValidationSteps : \E u \in S : u \in w[k]}
  <1>5. ValidationSteps \in Bad
    BY <1>2, <1>3, SyncLocksAssumption
  <1>6. PICK k \in Bad : \A j \in Bad : k <= j
    BY <1>5, LeastNumber, SyncLocksAssumption, Zenon
  <1>7. PICK u \in S : u \in w[k]
    BY Zenon
  <1>8. k # 0 /\ u \in EndsWell(t, w[k - 1])
    BY <1>4, <1>7, Zenon
  <1>9. u # t /\ WaitsFor(u) \in w[k - 1] /\ node[u].queue # NoQueue
    BY <1>8, Zenon DEF EndsWell
  <1>10. WaitsFor(u) \in S
    BY <1>9, Zenon DEF WaitsFor
  <1>11. k - 1 \in Bad
    BY <1>8, <1>9, <1>10, SyncLocksAssumption, SMTT(30)
  <1> QED
    BY <1>6, <1>11, SyncLocksAssumption, SMTT(30)
=============================================================================
