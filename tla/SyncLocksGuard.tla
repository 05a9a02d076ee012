--------------------------- MODULE SyncLocksGuard ---------------------------
(***************************************************************************)
(* The steps of guard_try, of guard_leave with select(), and of cancel() of an*)
(* offered guard.                                                          *)
(***************************************************************************)
EXTENDS SyncLocksInv

(* select(). *)

\* select() finds the FIFO head, and nobody only when nobody waits.
LEMMA SuccessorShape ==
  ASSUME WaitInv, NEW g \in Queue
  PROVE  \/ Successor(g) = {} /\ Linked(g) = {}
         \/ \E h \in Linked(g) : Successor(g) = {h} /\ IsHead(h, g)
  <1>1. /\ Linked(g) # {} => \E h \in Task : IsHead(h, g)
        /\ \A h, k \in Task : IsHead(h, g) /\ IsHead(k, g) => h = k
    BY OneHead, Zenon DEF WaitInv
  <1>2. CASE Linked(g) = {}
    BY <1>2, Zenon DEF Successor, IsHead
  <1>3. CASE Linked(g) # {}
    <2>1. PICK h \in Task : IsHead(h, g)
      BY <1>1, <1>3, Zenon
    <2>2. ~closing[g] /\ h \in Linked(g)
      BY <1>3, <2>1, Zenon DEF WaitInv, IsHead
    <2>3. Successor(g) = {h}
      BY <1>1, <2>1, <2>2, Zenon DEF Successor
    <2> QED
      BY <2>1, <2>2, <2>3, Zenon
  <1> QED
    BY <1>2, <1>3, Zenon

\* Caller c gives guard g up, the last level of it or only an offer, and has set
\* the task fields to st, rs and of before select().  Only its own fields differ,
\* and it expects no other lock.
GivesUp(g, c, st, rs, of) ==
    /\ owner[g] = c
    /\ UNCHANGED <<closing, generation, handoff, held, other>>
    /\ depth' = [depth EXCEPT ![g] = 0]
    /\ st \in [Task -> {"Running", "Ready", "Blocked", "Dead"}]
    /\ rs \in [Task -> WaitResult]
    /\ of \in [Task -> Offer \cup {NoOffer}]
    /\ \A u \in Task \ {c} : st[u] = state[u] /\ rs[u] = result[u] /\ of[u] = offer[u]
    /\ c \in Task => state[c] # "Blocked" /\ st[c] # "Blocked" /\ of[c] = NoOffer
    /\ granted' \in [Task \cup {Boot} -> [Queue -> 0..MaxDepth]]
    /\ \A d \in Task \cup {Boot}, k \in Queue :
          granted'[d][k] = IF k = g THEN 0 ELSE granted[d][k]
    /\ unwind' \in [Task -> 0..MaxUnwind]
    /\ \A u \in Task : unwind'[u] = unwind[u] - One(u = c /\ depth[g] # 0)
    /\ pc' \in [Task -> {"idle", "check", "wait", "parked", "retry"}]
    /\ want' \in [Task -> Queue \cup {NoQueue}]
    /\ \A u \in Task \ {c} : pc'[u] = pc[u] /\ want'[u] = want[u]
    /\ c \in Task => pc'[c] = "idle" \/ (pc'[c] = pc[c] /\ want'[c] = want[c])
    /\ \A k \in Queue \ {g} : handoff[k] => owner[k] # c
    /\ c \in Task /\ offer[c] # NoOffer => offer[c].guard = g

\* select() has offered guard g to o, the head of its queue, or nobody waits.
Offered(g, o, st, rs, of) ==
    /\ IF o = NoTask THEN Linked(g) = {} ELSE o \in Linked(g) /\ IsHead(o, g)
    /\ node' = Detach({u \in Task : u = o})
    /\ state' = [u \in Task |-> IF u = o THEN "Ready" ELSE st[u]]
    /\ timed' \in [Task -> BOOLEAN]
    /\ result' = [u \in Task |-> IF u = o THEN "Signaled" ELSE rs[u]]
    /\ epoch' = [epoch EXCEPT ![g] = IF o = NoTask THEN @ ELSE NextEpoch(@)]
    /\ offer' = [u \in Task |->
                    IF u = o THEN [guard |-> g, generation |-> generation[g], epoch |-> epoch'[g]]
                    ELSE of[u]]
    /\ owner' = [owner EXCEPT ![g] = o]

\* That is what select() does.
LEMMA SelectChoice ==
  ASSUME WaitInv, NEW g \in Guards, NEW st, NEW tm \in [Task -> BOOLEAN], NEW rs, NEW of,
         Select(g, st, tm, rs, of)
  PROVE  \E o \in Task \cup {NoTask} : Offered(g, o, st, rs, of)
  <1>1. g \in Queue /\ NoTask \notin Task
    BY SyncLocksAssumption, Zenon
  <1>2. ASSUME NEW o \in Task \cup {NoTask}, Successor(g) = {u \in Task : u = o},
               IF o = NoTask THEN Linked(g) = {} ELSE o \in Linked(g) /\ IsHead(o, g),
               owner' = [owner EXCEPT ![g] = o]
        PROVE  Offered(g, o, st, rs, of)
    <2>1. /\ Successor(g) = {} <=> o = NoTask
          /\ \A u \in Task : u \in Successor(g) <=> u = o
      BY <1>1, <1>2, Zenon
    <2> QED
      BY <1>2, <2>1, Zenon DEF Select, Offered
  <1>3. CASE Successor(g) = {}
    <2>1. Linked(g) = {}
      BY <1>1, <1>3, SuccessorShape, Zenon
    <2>2. owner' = [owner EXCEPT ![g] = NoTask]
      BY <1>3, Zenon DEF Select
    <2>3. Successor(g) = {u \in Task : u = NoTask}
      BY <1>1, <1>3, Zenon
    <2> QED
      BY <1>2, <2>1, <2>2, <2>3, Zenon
  <1>4. CASE Successor(g) # {}
    <2>1. PICK h \in Linked(g) : Successor(g) = {h} /\ IsHead(h, g)
      BY <1>1, <1>4, SuccessorShape, Zenon
    <2>2. (CHOOSE x \in {h} : TRUE) = h
      BY Zenon
    <2>3. owner' = [owner EXCEPT ![g] = h] /\ h \in Task
      BY <2>1, <2>2, Zenon DEF Select, Linked
    <2>4. Successor(g) = {u \in Task : u = h} /\ h # NoTask
      BY <1>1, <2>1, <2>3, Zenon
    <2> QED
      BY <1>2, <2>1, <2>3, <2>4, Zenon
  <1> QED
    BY <1>3, <1>4, Zenon

\* What follows for the queues and for the task that is offered the guard.
OfferPlaced(g, c, o) ==
    /\ g \in Queue /\ g \notin Mutexes /\ NoTask \notin Task
    /\ node' \in [Task -> Node] /\ Ordered'
    /\ \A q \in Queue : Linked(q)' = Linked(q) \ {o}
    /\ \A u \in Task : node'[u].queue = IF u = o THEN NoQueue ELSE node[u].queue
    /\ o # NoTask => /\ o \in Task /\ o # c /\ state[o] = "Blocked" /\ node[o].queue = g
                     /\ pc[o] = "parked" /\ want[o] = g

\* The offered task waited for the guard, and leaves its queue.
LEMMA SelectQueues ==
  ASSUME IInv, NEW g \in Guards, NEW c \in Task \cup {Boot}, NEW o \in Task \cup {NoTask},
         NEW st, NEW rs, NEW of, GivesUp(g, c, st, rs, of), Offered(g, o, st, rs, of)
  PROVE  OfferPlaced(g, c, o)
  <1>1. g \in Queue /\ g \notin Mutexes /\ NoTask \notin Task
    BY SyncLocksAssumption, Zenon
  <1>2. WaitInv /\ WaitTypeOK /\ Ordered
    BY Zenon DEF IInv, WaitInv
  <1>3. /\ node' \in [Task -> Node] /\ Ordered'
        /\ \A q \in Queue : Linked(q)' = Linked(q) \ {o}
        /\ \A u \in Task : node'[u].queue = IF u = o THEN NoQueue ELSE node[u].queue
    <2>1. PICK S \in SUBSET Task : S = {u \in Task : u = o}
      BY Zenon
    <2>2. node' = Detach(S)
      BY <2>1, Zenon DEF Offered
    <2>3. /\ node' \in [Task -> Node] /\ Ordered'
          /\ \A q \in Queue : Linked(q)' = Linked(q) \ S
          /\ \A u \in Task : node'[u].queue = IF u \in S THEN NoQueue ELSE node[u].queue
      BY <1>2, <2>2, DetachEffect, Zenon
    <2>4. \A q \in Queue : Linked(q) \ S = Linked(q) \ {o}
      BY <2>1, Zenon DEF Linked
    <2> QED
      BY <2>1, <2>3, <2>4, Zenon
  <1>4. ASSUME o # NoTask
        PROVE  /\ o \in Task /\ o # c /\ state[o] = "Blocked" /\ node[o].queue = g
               /\ pc[o] = "parked" /\ want[o] = g
    <2>1. o \in Task /\ node[o].queue = g /\ g # NoQueue
      BY <1>1, <1>4, TaskWaitAssumption, Zenon DEF Linked, Offered
    <2>2. state[o] = "Blocked"
      BY <1>2, <2>1, Zenon DEF WaitInv
    <2>3. pc[o] = "parked" /\ want[o] = g
      BY <2>1, <2>2, Zenon DEF IInv, Phases
    <2>4. o # c
      BY <2>1, <2>2, Zenon DEF GivesUp
    <2> QED
      BY <2>1, <2>2, <2>3, <2>4, Zenon
  <1> QED
    BY <1>1, <1>3, <1>4, Zenon DEF OfferPlaced

\* Only the awake caller and the offered task change their states.
LEMMA SelectWaits ==
  ASSUME IInv, NEW g \in Guards, NEW c \in Task \cup {Boot}, NEW o \in Task \cup {NoTask},
         NEW st, NEW rs, NEW of, GivesUp(g, c, st, rs, of), Offered(g, o, st, rs, of),
         OfferPlaced(g, c, o)
  PROVE  WaitInv'
  <1>1. WaitInv /\ closing' = closing /\ generation' = generation
    BY Zenon DEF IInv, GivesUp
  <1>2. WaitTypeOK'
    <2>1. /\ state' \in [Task -> {"Running", "Ready", "Blocked", "Dead"}]
          /\ result' \in [Task -> WaitResult] /\ timed' \in [Task -> BOOLEAN]
      BY Zenon DEF Offered, GivesUp, WaitResult
    <2>2. node' \in [Task -> Node]
      BY Zenon DEF OfferPlaced
    <2> QED
      BY <1>1, <2>1, <2>2, Zenon DEF WaitInv, WaitTypeOK
  <1>3. ASSUME NEW u \in Task PROVE state'[u] = "Blocked" <=> node'[u].queue # NoQueue
    <2>1. state[u] = "Blocked" <=> node[u].queue # NoQueue
      BY <1>1, Zenon DEF WaitInv
    <2>2. /\ u = c => state[u] # "Blocked" /\ st[u] # "Blocked"
          /\ u # c => st[u] = state[u]
      BY Zenon DEF GivesUp
    <2>3. state'[u] = IF u = o THEN "Ready" ELSE st[u]
      BY Zenon DEF Offered
    <2>4. node'[u].queue = IF u = o THEN NoQueue ELSE node[u].queue
      BY Zenon DEF OfferPlaced
    <2> QED
      BY <2>1, <2>2, <2>3, <2>4, Zenon
  <1>4. \A q \in Queue : closing'[q] => Linked(q)' = {}
    BY <1>1, Zenon DEF WaitInv, OfferPlaced
  <1> QED
    BY <1>2, <1>3, <1>4, Zenon DEF WaitInv, OfferPlaced

\* The record of g, and the offer.
OfferMade(g, o, of) ==
    /\ OnlyAt(g) /\ owner'[g] = o /\ depth'[g] = 0 /\ ~handoff'[g]
    /\ epoch' \in [Queue -> 0..(MaxEpoch - 1)]
    /\ offer' \in [Task -> Offer \cup {NoOffer}]
    /\ \A u \in Task \ {o} : offer'[u] = of[u]
    /\ o # NoTask => offer'[o] # NoOffer /\ offer'[o].guard = g /\ offer'[o].epoch = epoch'[g]

\* select() records the guard's new owner and an offer with the guard's epoch.
LEMMA SelectRecord ==
  ASSUME IInv, NEW g \in Guards, NEW c \in Task \cup {Boot}, NEW o \in Task \cup {NoTask},
         NEW st, NEW rs, NEW of, GivesUp(g, c, st, rs, of), Offered(g, o, st, rs, of)
  PROVE  OfferMade(g, o, of)
  <1>1. g \in Queue /\ g \notin Mutexes /\ NoTask \notin Task
    BY SyncLocksAssumption, Zenon
  <1>2. /\ epoch' \in [Queue -> 0..(MaxEpoch - 1)]
        /\ o # NoTask => epoch'[g] \in 1..(MaxEpoch - 1)
        /\ \A k \in Queue \ {g} : epoch'[k] = epoch[k]
    <2>1. /\ epoch' = [epoch EXCEPT ![g] = IF o = NoTask THEN @ ELSE NextEpoch(@)]
          /\ epoch \in [Queue -> 0..(MaxEpoch - 1)]
      BY Zenon DEF Offered, IInv, TypeOK
    <2>2. NextEpoch(epoch[g]) \in 1..(MaxEpoch - 1)
      BY <1>1, <2>1, SyncLocksAssumption, SMTT(30) DEF NextEpoch
    <2> QED
      BY <1>1, <2>1, <2>2, SyncLocksAssumption, SMTT(30)
  <1>3. ~handoff[g]
    BY <1>1, LockByLock, Zenon DEF LockFine
  <1>4. owner'[g] = o /\ depth'[g] = 0 /\ ~handoff'[g] /\ OnlyAt(g)
    BY <1>1, <1>2, <1>3, SMTT(30) DEF IInv, TypeOK, OnlyAt, GivesUp, Offered
  <1>5. PICK mark : mark = [guard |-> g, generation |-> generation[g], epoch |-> epoch'[g]]
    BY Zenon
  <1>6. o # NoTask => mark \in Offer
    <2>1. generation[g] \in 1..(MaxGen - 1)
      BY <1>1, Zenon DEF IInv, WaitInv, WaitTypeOK
    <2> QED
      BY <1>2, <1>5, <2>1, Zenon DEF Offer
  <1>7. /\ offer' = [u \in Task |-> IF u = o THEN mark ELSE of[u]]
        /\ of \in [Task -> Offer \cup {NoOffer}]
    BY <1>5, Zenon DEF Offered, GivesUp
  <1>8. mark.guard = g /\ mark.epoch = epoch'[g]
    BY <1>5, Zenon
  <1>9. offer' \in [Task -> Offer \cup {NoOffer}] /\ \A u \in Task \ {o} : offer'[u] = of[u]
    BY <1>1, <1>6, <1>7, Zenon
  <1>10. o # NoTask => offer'[o] # NoOffer /\ offer'[o].guard = g /\ offer'[o].epoch = epoch'[g]
    BY <1>6, <1>7, <1>8, SyncLocksAssumption, Zenon
  <1> QED
    BY <1>2, <1>4, <1>9, <1>10, ZenonT(40) DEF OfferMade

\* Types, phases and counters.
LEMMA SelectTypes ==
  ASSUME IInv, NEW g \in Guards, NEW c \in Task \cup {Boot}, NEW o \in Task \cup {NoTask},
         NEW st, NEW rs, NEW of, GivesUp(g, c, st, rs, of), Offered(g, o, st, rs, of),
         OfferPlaced(g, c, o), OfferMade(g, o, of), WaitInv'
  PROVE  TypeOK' /\ Phases' /\ CountsExact'
  <1>1. TypeOK'
    <2>1. /\ depth' \in [Queue -> 0..MaxDepth] /\ handoff' \in [Queue -> BOOLEAN]
          /\ held' \in [Task -> 0..MaxHeld] /\ other' \in [Task -> 0..MaxOther]
      BY SyncLocksAssumption, SMTT(30) DEF IInv, TypeOK, GivesUp
    <2>2. owner' \in [Queue -> Task \cup {NoTask, Boot}]
      BY ZenonT(40) DEF IInv, TypeOK, Offered
    <2>3. WaitTypeOK'
      BY Zenon DEF WaitInv
    <2>4. epoch' \in [Queue -> 0..(MaxEpoch - 1)] /\ offer' \in [Task -> Offer \cup {NoOffer}]
      BY Zenon DEF OfferMade
    <2> QED
      BY <2>1, <2>2, <2>3, <2>4, Zenon DEF TypeOK, GivesUp
  <1>2. Phases'
    <2> SUFFICES ASSUME NEW u \in Task
                 PROVE  /\ state'[u] = "Blocked" => pc'[u] = "parked" /\ want'[u] = node'[u].queue
                        /\ pc'[u] # "idle" => want'[u] \in Queue
                        /\ pc'[u] \in {"check", "retry"} => want'[u] \in Mutexes
      BY Zenon DEF Phases
    <2>1. /\ state[u] = "Blocked" => pc[u] = "parked" /\ want[u] = node[u].queue
          /\ pc[u] # "idle" => want[u] \in Queue
          /\ pc[u] \in {"check", "retry"} => want[u] \in Mutexes
      BY Zenon DEF IInv, Phases
    <2>2. /\ u = c => st[u] # "Blocked" /\ (pc'[u] = "idle" \/ (pc'[u] = pc[u] /\ want'[u] = want[u]))
          /\ u # c => st[u] = state[u] /\ pc'[u] = pc[u] /\ want'[u] = want[u]
      BY Zenon DEF GivesUp
    <2>3. state'[u] = IF u = o THEN "Ready" ELSE st[u]
      BY Zenon DEF Offered
    <2>4. node'[u].queue = IF u = o THEN NoQueue ELSE node[u].queue
      BY Zenon DEF OfferPlaced
    <2> QED
      BY <2>1, <2>2, <2>3, <2>4, Zenon
  <1>3. CountersFollow(g)
    <2>1. /\ \A u \in Task : held[u] \in Int /\ unwind[u] \in Int
          /\ owner[g] = c /\ held' = held /\ other' = other
          /\ \A u \in Task : unwind'[u] = unwind[u] - One(u = c /\ depth[g] # 0)
      BY SyncLocksAssumption, SMTT(30) DEF IInv, TypeOK, GivesUp
    <2>2. g \notin Mutexes /\ depth'[g] = 0
      BY Zenon DEF OfferPlaced, OfferMade
    <2> QED
      BY <2>1, <2>2, SMTT(30) DEF One, CountersFollow
  <1>4. g \in Queue /\ OnlyAt(g)
    BY Zenon DEF OfferPlaced, OfferMade
  <1> QED
    BY <1>1, <1>2, <1>3, <1>4, CountsMove, Zenon

\* The guard is offered to its new owner, or free and unwanted; the other offers
\* and handoffs stand.
LEMMA SelectLocks ==
  ASSUME IInv, NEW g \in Guards, NEW c \in Task \cup {Boot}, NEW o \in Task \cup {NoTask},
         NEW st, NEW rs, NEW of, GivesUp(g, c, st, rs, of), Offered(g, o, st, rs, of),
         OfferPlaced(g, c, o), OfferMade(g, o, of)
  PROVE  ChangesOnly(g)
  <1>1. /\ \A k \in Queue : LockFine(k)
        /\ \A u \in Task : offer[u] # NoOffer => OfferFine(u)
    BY LockByLock, Zenon
  <1>2. g \in Queue /\ g \notin Mutexes /\ NoTask \notin Task
    BY Zenon DEF OfferPlaced
  <1>3. OnlyAt(g) /\ owner'[g] = o /\ depth'[g] = 0 /\ ~handoff'[g]
    BY Zenon DEF OfferMade
  <1>4. LockFine(g)'
    <2>1. CASE o = NoTask
      <3>1. Linked(g)' = {}
        BY <1>2, <2>1, Zenon DEF Offered, OfferPlaced
      <3> QED
        BY <1>2, <1>3, <2>1, <3>1, Zenon DEF LockFine, Free
    <2>2. CASE o # NoTask
      <3>1. offer'[o] # NoOffer /\ offer'[o].guard = g
        BY <2>2, Zenon DEF OfferMade
      <3> QED
        BY <1>2, <1>3, <2>2, <3>1, Zenon DEF LockFine, Free
    <2> QED
      BY <2>1, <2>2, Zenon
  <1>5. ASSUME NEW u \in Task \ {c}, state[u] \in {"Ready", "Running"}
        PROVE  u # o /\ Undisturbed(u)
    <2>1. u # o
      BY <1>2, <1>5, Zenon DEF OfferPlaced
    <2>2. state'[u] = st[u] /\ result'[u] = rs[u]
      BY <2>1, Zenon DEF Offered
    <2> QED
      BY <1>5, <2>1, <2>2, Zenon DEF Undisturbed, GivesUp
  <1>6. ASSUME NEW k \in Queue \ {g}, handoff[k] PROVE Undisturbed(owner[k])
    <2>1. owner[k] \in Task /\ state[owner[k]] \in {"Ready", "Running"}
      BY <1>1, <1>6, Zenon DEF LockFine, Informed
    <2>2. owner[k] # c
      BY <1>6, Zenon DEF GivesUp
    <2> QED
      BY <1>5, <2>1, <2>2, Zenon
  <1>7. ASSUME NEW u \in Task, offer[u] # NoOffer, offer[u].guard # g
        PROVE  offer'[u] = offer[u] /\ Undisturbed(u)
    <2>1. state[u] \in {"Ready", "Running"}
      BY <1>1, <1>7, Zenon DEF OfferFine
    <2>2. u # c
      BY <1>7, Zenon DEF GivesUp
    <2>3. u # o /\ Undisturbed(u)
      BY <1>5, <2>1, <2>2, Zenon
    <2>4. offer'[u] = of[u] /\ of[u] = offer[u]
      BY <2>2, <2>3, Zenon DEF OfferMade, GivesUp
    <2> QED
      BY <2>3, <2>4, ZenonT(40)
  <1>8. ASSUME NEW u \in Task, offer'[u] # NoOffer
        PROVE  \/ offer'[u].guard = g /\ OfferFine(u)'
               \/ offer'[u].guard # g /\ offer'[u] = offer[u]
    <2>1. CASE u = o
      <3>1. offer'[o].guard = g /\ offer'[o].epoch = epoch'[g]
        BY <1>2, <2>1, Zenon DEF OfferMade
      <3>2. o # c /\ pc[o] = "parked" /\ want[o] = g
        BY <1>2, <2>1, Zenon DEF OfferPlaced
      <3>3. state'[o] = "Ready" /\ pc'[o] = "parked" /\ want'[o] = g
        BY <2>1, <3>2, Zenon DEF Offered, GivesUp
      <3> QED
        BY <1>3, <2>1, <3>1, <3>3, ZenonT(40) DEF OfferFine
    <2>2. CASE u # o
      <3>1. offer'[u] = of[u]
        BY <2>2, Zenon DEF OfferMade
      <3>2. u # c /\ of[u] = offer[u]
        BY <1>8, <3>1, Zenon DEF GivesUp
      <3>3. owner[offer[u].guard] = u
        BY <1>1, <1>8, <3>1, <3>2, ZenonT(40) DEF OfferFine
      <3>4. owner[g] = c
        BY ZenonT(40) DEF GivesUp
      <3> QED
        BY <3>1, <3>2, <3>3, <3>4, Zenon
    <2> QED
      BY <2>1, <2>2, Zenon
  <1>9. /\ \A u \in Task : node'[u].queue = node[u].queue \/ node'[u].queue = NoQueue
        /\ owner'[g] \notin Task \/ node'[owner'[g]].queue = NoQueue
    BY <1>3, ZenonT(40) DEF OfferPlaced
  <1>10. GrantsFollow(g)
    BY <1>3, ZenonT(40) DEF GivesUp, GrantsFollow
  <1> QED
    BY <1>3, <1>4, <1>6, <1>7, <1>8, <1>9, <1>10, Zenon DEF ChangesOnly

\* select() keeps the invariant and offers the guard to the head of its queue.
LEMMA SelectStep ==
  ASSUME IInv, NEW g \in Guards, NEW c \in Task \cup {Boot}, NEW st,
         NEW tm \in [Task -> BOOLEAN], NEW rs, NEW of,
         GivesUp(g, c, st, rs, of), Select(g, st, tm, rs, of)
  PROVE  IInv' /\ \A l \in Queue : FairAt(l)
  <1>1. PICK o \in Task \cup {NoTask} : Offered(g, o, st, rs, of)
    BY SelectChoice, Zenon DEF IInv
  <1>2. OfferPlaced(g, c, o)
    BY <1>1, SelectQueues, Zenon
  <1>3. OfferMade(g, o, of)
    BY <1>1, SelectRecord, Zenon
  <1>4. WaitInv'
    BY <1>1, <1>2, SelectWaits, Zenon
  <1>5. TypeOK' /\ Phases' /\ CountsExact'
    BY <1>1, <1>2, <1>3, <1>4, SelectTypes, Zenon
  <1>6. ChangesOnly(g)
    BY <1>1, <1>2, <1>3, SelectLocks, Zenon
  <1>7. g \in Queue /\ g \notin Mutexes /\ OnlyAt(g) /\ owner'[g] = o
    BY <1>2, <1>3, Zenon DEF OfferPlaced, OfferMade
  <1>8. IInv'
    BY <1>4, <1>5, <1>6, <1>7, MoveKeeps, ZenonT(40)
  <1>9. FairAt(g)
    BY <1>1, <1>7, Zenon DEF FairAt, Offered
  <1> QED
    BY <1>7, <1>8, <1>9, Zenon DEF FairAt, OnlyAt

-----------------------------------------------------------------------------
(* guard_leave and cancel(). *)

\* guard_leave, by a task or in the boot context, which unwinds nothing.
Leaves(c, g) ==
    /\ owner[g] = c /\ depth[g] # 0
    /\ c \in Task => state[c] = "Running" /\ pc[c] = "idle"
    /\ depth' = [depth EXCEPT ![g] = @ - 1]
    /\ Undo(c, g)
    /\ IF depth[g] = 1 THEN Select(g, state, timed, result, offer)
       ELSE UNCHANGED <<state, node, timed, result, owner, epoch, offer>>
    /\ unwind' = IF c \in Task /\ depth[g] = 1 THEN [unwind EXCEPT ![c] = @ - 1] ELSE unwind
    /\ UNCHANGED <<closing, generation, handoff, held, pc, want, other>>

\* Leaving the last level counts one guard less for a task.
LEMMA LeaveUnwinds ==
  ASSUME IInv, NEW c \in Task \cup {Boot}, NEW g \in Guards, Leaves(c, g), depth[g] = 1
  PROVE  /\ unwind' \in [Task -> 0..MaxUnwind]
         /\ \A u \in Task : unwind'[u] = unwind[u] - One(u = c /\ depth[g] # 0)
  <1>1. /\ unwind \in [Task -> 0..MaxUnwind] /\ MaxUnwind \in Nat
        /\ c \in Task => unwind[c] # 0
    BY SyncLocksAssumption, UnwinderCounted, Zenon DEF IInv, TypeOK, Leaves
  <1>2. CASE c \in Task
    <2>1. unwind' = [unwind EXCEPT ![c] = @ - 1]
      BY <1>2, Zenon DEF Leaves
    <2> QED
      BY <1>1, <1>2, <2>1 DEF One
  <1>3. CASE c \notin Task
    <2>1. unwind' = unwind
      BY <1>3, Zenon DEF Leaves
    <2> QED
      BY <1>1, <1>3, <2>1, SMTT(30) DEF One
  <1> QED
    BY <1>2, <1>3, Zenon

\* Leaving the last level gives the guard up.
LEMMA LeaveGivesUp ==
  ASSUME IInv, NEW c \in Task \cup {Boot}, NEW g \in Guards, Leaves(c, g), depth[g] = 1
  PROVE  GivesUp(g, c, state, result, offer)
  <1>1. g \in Queue /\ ~handoff[g]
    BY SyncLocksAssumption, Zenon DEF IInv, HandoffExact
  <1>2. /\ owner[g] = c /\ Undo(c, g) /\ pc' = pc /\ want' = want
        /\ UNCHANGED <<closing, generation, handoff, held, other>>
        /\ c \in Task => state[c] = "Running" /\ pc[c] = "idle"
    BY Zenon DEF Leaves
  <1>3. depth' = [depth EXCEPT ![g] = 0]
    BY SMTT(30) DEF Leaves
  <1>4. c \in Task => state[c] # "Blocked" /\ offer[c] = NoOffer
    BY <1>2, Zenon DEF IInv, OfferExact
  <1>5. \A k \in Queue : handoff[k] => owner[k] # c
    BY <1>2, Zenon DEF IInv, HandoffExact, Informed
  <1>6. /\ granted' \in [Task \cup {Boot} -> [Queue -> 0..MaxDepth]]
        /\ \A d \in Task \cup {Boot}, k \in Queue :
              granted'[d][k] = IF k = g THEN 0 ELSE granted[d][k]
    BY <1>1, <1>2, LastUndo, ZenonT(40)
  <1>7. /\ pc \in [Task -> {"idle", "check", "wait", "parked", "retry"}]
        /\ want \in [Task -> Queue \cup {NoQueue}]
        /\ state \in [Task -> {"Running", "Ready", "Blocked", "Dead"}]
        /\ result \in [Task -> WaitResult] /\ offer \in [Task -> Offer \cup {NoOffer}]
    BY Zenon DEF IInv, TypeOK, WaitTypeOK
  <1> QED
    BY <1>2, <1>3, <1>4, <1>5, <1>6, <1>7, LeaveUnwinds, ZenonT(40) DEF GivesUp

\* guard_leave keeps the invariant, is a Release, and respects the queue.
LEMMA LeaveStep ==
  ASSUME IInv, NEW c \in Task \cup {Boot}, NEW g \in Guards, Leaves(c, g)
  PROVE  Correct
  <1>1. g \in Queue /\ ~handoff[g]
    BY SyncLocksAssumption, Zenon DEF IInv, HandoffExact
  <1>2. owner[g] = c /\ depth[g] # 0 /\ Undo(c, g)
    BY Zenon DEF Leaves
  <1>3. Served
    BY <1>1, <1>2, UndoServed, Zenon
  <1>4. CASE depth[g] = 1
    <2>1. timed \in [Task -> BOOLEAN] /\ Select(g, state, timed, result, offer)
      BY <1>4, Zenon DEF IInv, TypeOK, WaitTypeOK, Leaves
    <2>2. IInv' /\ \A l \in Queue : FairAt(l)
      BY <1>4, <2>1, LeaveGivesUp, SelectStep, ZenonT(40)
    <2> QED
      BY <1>3, <2>2, Zenon DEF Correct
  <1>5. CASE depth[g] # 1
    <2>1. UNCHANGED <<state, node, timed, result, owner, epoch, offer, unwind>>
      BY <1>5, Zenon DEF Leaves
    <2>2. StepsDown(c, g)
      BY <1>1, <1>5, <2>1, Zenon DEF StepsDown, Leaves, waitVars
    <2>3. IInv'
      BY <1>1, <2>2, LeaveLevel, Zenon
    <2> QED
      BY <1>3, <2>1, <2>3, Zenon DEF Correct, FairAt
  <1> QED
    BY <1>4, <1>5, Zenon

\* cancel(): an offer withdrawn, by the task itself, by its deadline or by its
\* death, passes the guard on.
LEMMA CancelStep ==
  ASSUME IInv, NEW t \in Task, offer[t] # NoOffer, NEW r \in WaitResult,
         NEW s \in {"Running", "Ready", "Dead"}, CancelOffer(t, r, s),
         UNCHANGED <<closing, generation, depth, handoff, held, unwind, granted, other>>,
         UNCHANGED <<pc, want>> \/ Return(t)
  PROVE  Correct
  <1>1. PICK g : g = offer[t].guard
    BY Zenon
  <1>2. /\ g \in Guards /\ owner[g] = t /\ depth[g] = 0
        /\ state[t] \in {"Ready", "Running"} /\ pc[t] = "parked" /\ want[t] = g
    BY <1>1, SMTT(30) DEF IInv, OfferExact, TypeOK, Offer
  <1>3. g \in Queue /\ g \notin Mutexes
    BY <1>2, SyncLocksAssumption, Zenon
  <1>4. PICK st, tm, rs, of :
           /\ st = [state EXCEPT ![t] = s] /\ tm = [timed EXCEPT ![t] = FALSE]
           /\ rs = [result EXCEPT ![t] = r] /\ of = [offer EXCEPT ![t] = NoOffer]
    BY ZenonT(40)
  <1>5. /\ st \in [Task -> {"Running", "Ready", "Blocked", "Dead"}]
        /\ tm \in [Task -> BOOLEAN] /\ rs \in [Task -> WaitResult]
        /\ of \in [Task -> Offer \cup {NoOffer}]
        /\ \A u \in Task \ {t} : st[u] = state[u] /\ rs[u] = result[u] /\ of[u] = offer[u]
        /\ st[t] # "Blocked" /\ of[t] = NoOffer
    BY <1>4, Zenon DEF IInv, TypeOK, WaitTypeOK
  <1>6. Select(g, st, tm, rs, of)
    BY <1>1, <1>4, Zenon DEF CancelOffer
  <1>7. GivesUp(g, t, st, rs, of)
    <2>1. \A d \in Task \cup {Boot} : granted[d][g] = 0
      BY <1>2, <1>3, Zenon DEF IInv, GrantsMatchDepth
    <2>2. /\ pc' \in [Task -> {"idle", "check", "wait", "parked", "retry"}]
          /\ want' \in [Task -> Queue \cup {NoQueue}]
          /\ \A u \in Task \ {t} : pc'[u] = pc[u] /\ want'[u] = want[u]
          /\ pc'[t] = "idle" \/ (pc'[t] = pc[t] /\ want'[t] = want[t])
      BY Zenon DEF IInv, TypeOK, Return, Goto
    <2>3. \A k \in Queue \ {g} : handoff[k] => owner[k] # t
      BY <1>2, <1>3 DEF IInv, HandoffExact
    <2>4. depth' = [depth EXCEPT ![g] = 0]
      BY <1>2, <1>3, Zenon DEF IInv, TypeOK
    <2>5. /\ granted' \in [Task \cup {Boot} -> [Queue -> 0..MaxDepth]]
          /\ \A d \in Task \cup {Boot}, k \in Queue :
                granted'[d][k] = IF k = g THEN 0 ELSE granted[d][k]
      BY <2>1, Zenon DEF IInv, TypeOK
    <2>6. /\ unwind' \in [Task -> 0..MaxUnwind]
          /\ \A u \in Task : unwind'[u] = unwind[u] - One(u = t /\ depth[g] # 0)
      BY <1>2, SyncLocksAssumption, SMTT(30) DEF IInv, TypeOK, One
    <2> QED
      BY <1>1, <1>2, <1>5, <2>2, <2>3, <2>4, <2>5, <2>6, Zenon DEF GivesUp
  <1>8. IInv' /\ \A l \in Queue : FairAt(l)
    BY <1>2, <1>5, <1>6, <1>7, SelectStep, Zenon
  <1> QED
    BY <1>8, Zenon DEF Correct, Served

-----------------------------------------------------------------------------
(* guard_try, by a task and in the boot context. *)

\* A guard that a caller may take records exactly the levels it was told of.
LEMMA GuardLevel ==
  ASSUME IInv, NEW g \in Guards, NEW c \in Task \cup {Boot}, Free(g) \/ owner[g] = c
  PROVE  /\ g \in Queue /\ g \notin Mutexes /\ NoTask \notin Task \cup {Boot}
         /\ ~handoff[g] /\ granted[c][g] = depth[g] /\ depth[g] \in 0..MaxDepth
         /\ Free(g) => depth[g] = 0
  <1>1. g \in Queue /\ g \notin Mutexes /\ NoTask \notin Task \cup {Boot}
    BY SyncLocksAssumption, Zenon
  <1>2. LockFine(g)
    BY <1>1, LockByLock, Zenon
  <1>3. ~handoff[g] /\ (Free(g) => depth[g] = 0)
    BY <1>1, <1>2, ZenonT(40) DEF LockFine, Free
  <1>4. /\ depth[g] \in 0..MaxDepth
        /\ granted[c][g] = IF owner[g] = c /\ ~handoff[g] THEN depth[g] ELSE 0
    BY <1>1, Zenon DEF IInv, TypeOK, GrantsMatchDepth
  <1>5. granted[c][g] = depth[g]
    BY <1>1, <1>3, <1>4, Zenon DEF Free
  <1> QED
    BY <1>1, <1>3, <1>4, <1>5, Zenon

\* A guard that is free, entered or in the hands of the boot context is on offer
\* to nobody.
LEMMA NotOnOffer ==
  ASSUME IInv, NEW g \in Guards, Free(g) \/ depth[g] # 0 \/ owner[g] = Boot
  PROVE  \A u \in Task : offer[u] # NoOffer => offer[u].guard # g
  <1>1. NoTask \notin Task /\ Boot \notin Task
    BY SyncLocksAssumption, Zenon
  <1>2. \A u \in Task : offer[u] # NoOffer => OfferFine(u)
    BY LockByLock, Zenon
  <1> QED
    BY <1>1, <1>2, SMTT(30) DEF OfferFine, Free

\* guard_try succeeds, from outside or under the admission of wait_guard.
LEMMA GuardTakeStep ==
  ASSUME IInv, NEW t \in Task, NEW g \in Guards, state[t] = "Running",
         GuardTake(t, g), UNCHANGED <<waitVars, handoff, epoch, offer, held, other>>,
         \/ pc[t] = "idle" /\ UNCHANGED <<pc, want>>
         \/ pc[t] = "wait" /\ Return(t)
  PROVE  /\ IInv'
         /\ granted[t][g] < MaxDepth
         /\ Free(g) \/ owner[g] = t
  <1>1. /\ \A k \in Queue : LockFine(k)
        /\ \A u \in Task : offer[u] # NoOffer => OfferFine(u)
    BY LockByLock, Zenon
  <1>2. Free(g) \/ owner[g] = t
    BY Zenon DEF GuardTake, GuardTrySucceeds
  <1>3. /\ g \in Queue /\ g \notin Mutexes /\ NoTask \notin Task
        /\ ~handoff[g] /\ granted[t][g] = depth[g] /\ depth[g] \in 0..MaxDepth
        /\ Free(g) => depth[g] = 0
    BY <1>2, GuardLevel, Zenon
  <1>4. Free(g) => unwind[t] < MaxUnwind
    BY <1>3, Zenon DEF GuardTake, GuardTrySucceeds, Free
  <1>5. MaxDepth \in Nat \ {0} /\ MaxUnwind \in Nat
    BY SyncLocksAssumption, Zenon
  <1>6. granted[t][g] < MaxDepth
    BY <1>3, <1>5, SMTT(30) DEF GuardTake, GuardTrySucceeds, Free
  <1>7. Free(g) <=> depth[g] = 0
    BY <1>3, Zenon DEF GuardTake, GuardTrySucceeds, Free
  <1>8. Counted(t, g)
    <2>1. /\ unwind' = [unwind EXCEPT ![t] = IF Free(g) THEN @ + 1 ELSE @]
          /\ unwind \in [Task -> 0..MaxUnwind]
          /\ held' = held /\ held \in [Task -> 0..MaxHeld]
      BY Zenon DEF GuardTake, IInv, TypeOK
    <2> QED
      BY <1>3, <1>4, <1>5, <1>7, <2>1, SMTT(30) DEF Counted, One
  <1>9. Settled(g)
    <2>1. \A u \in Task : offer[u] # NoOffer => offer[u].guard # g
      BY <1>7, NotOnOffer, ZenonT(40)
    <2> QED
      BY <2>1, Zenon DEF IInv, TypeOK, Settled
  <1>10. Returned(t)
    BY ZenonT(40) DEF IInv, TypeOK, Return, Goto, Returned
  <1>11. NothingElseFor(t, g)
    <2>1. \A k \in Queue \ {g} : handoff[k] => owner[k] # t
      BY <1>1 DEF LockFine, Informed
    <2>2. offer[t] = NoOffer
      BY <1>1, Zenon DEF OfferFine
    <2> QED
      BY <1>9, <2>1, <2>2, Zenon DEF NothingElseFor, Settled
  <1>12. Acquires(t, g)
    BY <1>3, <1>6, SMTT(30) DEF GuardTake, waitVars, IInv, WaitInv, WaitTypeOK, TypeOK, Acquires
  <1>13. IInv'
    BY <1>2, <1>3, <1>6, <1>8, <1>9, <1>10, <1>11, <1>12, AcquireKeeps, ZenonT(40)
  <1> QED
    BY <1>2, <1>6, <1>13, Zenon

\* A task that takes a guard, in guard_try or when it finds it free in wait_guard.
LEMMA GuardTakeCorrect ==
  ASSUME IInv, NEW t \in Task, NEW g \in Guards, GuardTake(t, g), state[t] = "Running",
         UNCHANGED <<waitVars, handoff, epoch, offer, held, other>>,
         \/ pc[t] = "idle" /\ UNCHANGED <<pc, want>>
         \/ pc[t] = "wait" /\ Return(t)
  PROVE  Correct
  <1>1. IInv' /\ granted[t][g] < MaxDepth /\ (Free(g) \/ owner[g] = t)
    BY GuardTakeStep, ZenonT(40)
  <1>2. owner' = [owner EXCEPT ![g] = t] /\ Grant(t, g) /\ g \in Queue
    BY SyncLocksAssumption, Zenon DEF GuardTake
  <1> QED
    BY <1>1, <1>2, TakeCorrect, ZenonT(40)

\* The boot context enters a guard.
LEMMA BootTryStep ==
  ASSUME IInv, NEW g \in Guards, BootTry(g)
  PROVE  /\ IInv'
         /\ granted[Boot][g] < MaxDepth
         /\ Free(g) \/ owner[g] = Boot
  <1>1. /\ \A k \in Queue : LockFine(k)
        /\ \A u \in Task : offer[u] # NoOffer => OfferFine(u)
    BY LockByLock, Zenon
  <1>2. Free(g) \/ owner[g] = Boot
    BY Zenon DEF BootTry
  <1>3. /\ g \in Queue /\ g \notin Mutexes /\ NoTask \notin Task
        /\ ~handoff[g] /\ granted[Boot][g] = depth[g] /\ depth[g] \in 0..MaxDepth
        /\ Free(g) => depth[g] = 0
    BY <1>2, GuardLevel, Zenon
  <1>4. /\ Boot \notin Task /\ Boot # NoTask
        /\ MaxDepth \in Nat \ {0} /\ MaxUnwind \in Nat /\ MaxHeld \in Nat
    BY SyncLocksAssumption, Zenon
  <1>5. LockFine(g)
    BY <1>1, <1>3, Zenon
  <1>6. granted[Boot][g] < MaxDepth
    BY <1>3, <1>4, SMTT(30) DEF BootTry
  <1>7. Counted(Boot, g)
    BY <1>3, <1>4, SMTT(30) DEF BootTry, IInv, TypeOK, One, Counted
  <1>8. Settled(g)
    <2>1. \A u \in Task : offer[u] # NoOffer => offer[u].guard # g
      BY <1>2, NotOnOffer, Zenon
    <2> QED
      BY <2>1, Zenon DEF BootTry, IInv, TypeOK, Settled
  <1>9. Returned(Boot)
    BY <1>4, Zenon DEF BootTry, IInv, TypeOK, Returned
  <1>10. NothingElseFor(Boot, g)
    BY <1>1, <1>4, Zenon DEF LockFine, NothingElseFor
  <1>11. Acquires(Boot, g)
    BY <1>3, <1>6, SMTT(30) DEF BootTry, waitVars, IInv, WaitInv, WaitTypeOK, TypeOK, Acquires
  <1>12. IInv'
    BY <1>2, <1>3, <1>4, <1>6, <1>7, <1>8, <1>9, <1>10, <1>11, AcquireKeeps, ZenonT(40)
  <1> QED
    BY <1>2, <1>6, <1>12, Zenon
=============================================================================
