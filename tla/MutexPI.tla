------------------------------ MODULE MutexPI ------------------------------
(***************************************************************************)
(* Priority inheritance through mutexes and unwind guards                  *)
(* (src/Rust/sched/mutex_pi.rs, the donation part of                       *)
(* task/task_registry.rs).                                                 *)
(*                                                                         *)
(* A blocked task's edge adds one to the waiter count of its rank on the   *)
(* lock; the lock donates its best count to its owner; the owner's wake    *)
(* rank then changes its own edge, one lock further on.  That last hop is  *)
(* not taken at once: the owner is put on the PENDING list, and pump()     *)
(* works off at most Steps entries per critical section, timer tick or     *)
(* dispatch.                                                               *)
(*                                                                         *)
(* The state is one record g, which the operators take and return, so that *)
(* an action is the composition of the calls the code makes.  Ranks are    *)
(* 0 (Input) to 3 (Batch); NoRank stands for 255.  budget[t] says that     *)
(* both donation budgets of t are non-zero; direct[t] is the number of     *)
(* donations per rank that do not come from a lock; boot holds the guards  *)
(* entered by code that runs outside any task, which have no owner task.   *)
(***************************************************************************)
EXTENDS Naturals, FiniteSets, SequencesExt

CONSTANTS Task, Lock, NoTask, NoLock,
          Guard,       \* the locks that are unwind guards
          Ranks,       \* roles in use
          Donated,     \* ranks of direct donations
          Steps,       \* STEPS of pump
          MaxDirect    \* bound on the direct donations at any time

NoRank == 4

ASSUME MutexPIAssumption ==
    /\ NoTask \notin Task /\ NoLock \notin Lock
    /\ Guard \subseteq Lock
    /\ Ranks \subseteq 0..3 /\ Donated \subseteq 0..3
    /\ Steps \in Nat \ {0} /\ MaxDirect \in Nat

VARIABLE g

Edge == [lock : Lock \cup {NoLock}, rank : 0..NoRank]
NoEdge == [lock |-> NoLock, rank |-> NoRank]
Counts == [0..3 -> Nat]
NoCounts == [r \in 0..3 |-> 0]

State ==
    [boot : SUBSET Guard,
     owner : [Lock -> Task \cup {NoTask}],
     waiters : [Lock -> Counts],
     donation : [Lock -> 0..2 \cup {NoRank}],
     edge : [Task -> Edge],
     published : [Task -> 0..3],
     role : [Task -> 0..3],
     inherited : [Task -> Counts],
     budget : [Task -> BOOLEAN],
     direct : [Task -> Counts],
     pending : Seq(Task)]

Init ==
    \E role \in [Task -> Ranks] :
        g = [boot |-> {},
             owner |-> [l \in Lock |-> NoTask],
             waiters |-> [l \in Lock |-> NoCounts],
             donation |-> [l \in Lock |-> NoRank],
             edge |-> [t \in Task |-> NoEdge],
             published |-> [t \in Task |-> 2],
             role |-> role,
             inherited |-> [t \in Task |-> NoCounts],
             budget |-> [t \in Task |-> FALSE],
             direct |-> [t \in Task |-> NoCounts],
             pending |-> <<>>]

-----------------------------------------------------------------------------
(* Ranks. *)

\* The best rank of S that counts has an entry for.
Best(counts, S) ==
    LET used == {r \in S : counts[r] # 0} IN
    IF used = {} THEN NoRank ELSE CHOOSE r \in used : \A q \in used : r <= q

InheritedRank(s, t) == Best(s.inherited[t], 0..3)

WakeRank(s, t) ==
    IF s.budget[t] /\ InheritedRank(s, t) < s.role[t] THEN InheritedRank(s, t) ELSE s.role[t]

Blocked(s, t) == s.edge[t].lock # NoLock

-----------------------------------------------------------------------------
(* Propagation. *)

\* Mutant: the rank in the wait queue's index waits for the pump.
ChangedUnpublished(s, t) ==
    IF ~Blocked(s, t) \/ t \in ToSet(s.pending) THEN s
    ELSE [s EXCEPT !.pending = Append(@, t)]

\* changed(): publish the wake rank of a queued task at once, and put it on the
\* list unless it is there.
Changed(s, t) ==
    IF ~Blocked(s, t) THEN s
    ELSE [s EXCEPT !.published[t] = WakeRank(s, t),
                   !.pending = IF t \in ToSet(@) THEN @ ELSE Append(@, t)]

\* replace_donation_owned: one contribution of t changes from one rank to
\* another; the budget is renewed by a stronger best rank only.
ReplaceDonation(s, t, from, to) ==
    LET counts == [r \in 0..3 |-> s.inherited[t][r] + (IF r = to THEN 1 ELSE 0)
                                                     - (IF r = from THEN 1 ELSE 0)]
        next == Best(counts, 0..3)
    IN Changed([s EXCEPT !.inherited[t] = counts,
                         !.budget[t] = IF next = NoRank THEN FALSE
                                       ELSE IF next < InheritedRank(s, t) THEN TRUE ELSE @],
               t)

\* refresh(): the owner gets the best rank among the lock's waiters; Batch
\* waiters donate nothing.
Refresh(s, l) ==
    LET t == s.owner[l]
        rank == Best(s.waiters[l], 0..2)
        old == s.donation[l]
    IN IF t = NoTask \/ rank = old THEN s
       ELSE [ReplaceDonation(s, t, old, rank) EXCEPT !.donation[l] = rank]

\* Mutant: a new owner does not see the waiters that are already there.
AcceptOwnerBlind(s, l, t) == [s EXCEPT !.owner[l] = t]

AcceptOwner(s, l, t) == Refresh([s EXCEPT !.owner[l] = t], l)

\* Mutant: the donation stays with the task that gave the lock up.
ReleaseOwnerKeeping(s, l) == [s EXCEPT !.donation[l] = NoRank, !.owner[l] = NoTask]

ReleaseOwner(s, l) ==
    LET old == s.donation[l]
        paid == IF old = NoRank THEN s ELSE ReplaceDonation(s, s.owner[l], old, NoRank)
    IN [paid EXCEPT !.donation[l] = NoRank, !.owner[l] = NoTask]

\* bind(), once the edge is known to be acyclic.
Bind(s, t, l) ==
    LET r == WakeRank(s, t) IN
    Refresh([s EXCEPT !.waiters[l][r] = @ + 1,
                      !.edge[t] = [lock |-> l, rank |-> r],
                      !.published[t] = r], l)

\* Mutant: the contribution is withdrawn from the rank the task has by now.
UnbindByRank(s, t) ==
    LET e == s.edge[t] IN
    IF e.lock = NoLock THEN s
    ELSE Refresh([s EXCEPT !.edge[t] = NoEdge,
                           !.pending = SelectSeq(@, LAMBDA u : u # t),
                           !.waiters[e.lock][WakeRank(s, t)] = @ - 1], e.lock)

\* detach(): the edge goes with the rank it was counted under, which can differ
\* from the rank the task has now.
Unbind(s, t) ==
    LET e == s.edge[t] IN
    IF e.lock = NoLock THEN s
    ELSE Refresh([s EXCEPT !.edge[t] = NoEdge,
                           !.pending = SelectSeq(@, LAMBDA u : u # t),
                           !.waiters[e.lock][e.rank] = @ - 1], e.lock)

\* Mutant: the first task goes to the end of the list instead of off it.
PumpOneRequeue(s) == [s EXCEPT !.pending = Append(Tail(@), Head(@))]

\* One turn of pump(): move the first pending task to its current rank.
PumpOne(s) ==
    LET t == Head(s.pending)
        e == s.edge[t]
        r == WakeRank(s, t)
        rest == [s EXCEPT !.pending = Tail(@)]
    IN IF r = e.rank THEN rest
       ELSE Refresh([rest EXCEPT !.waiters[e.lock] =
                         [q \in 0..3 |-> @[q] + (IF q = r THEN 1 ELSE 0)
                                              - (IF q = e.rank THEN 1 ELSE 0)],
                                 !.edge[t].rank = r], e.lock)

RECURSIVE PumpSteps(_, _)
PumpSteps(s, n) ==
    IF n = 0 \/ s.pending = <<>> THEN s ELSE PumpSteps(PumpOne(s), n - 1)

Pump(s) == PumpSteps(s, Steps)

-----------------------------------------------------------------------------
(* Operations.  Those of the lock modules end in wait::leave(), which pumps. *)

\* acyclic(): following owners from l never comes back to t.
RECURSIVE LeadsTo(_, _, _)
LeadsTo(s, u, t) ==
    \/ u = t
    \/ u \in Task /\ Blocked(s, u) /\ LeadsTo(s, s.owner[s.edge[u].lock], t)

TryLock(t, l) ==
    /\ ~Blocked(g, t)
    /\ g.owner[l] = NoTask /\ l \notin g.boot
    /\ g' = Pump(AcceptOwner(g, l, t))

Wait(t, l) ==
    /\ ~Blocked(g, t)
    /\ g.owner[l] # NoTask \/ l \in g.boot
    /\ ~LeadsTo(g, g.owner[l], t)
    /\ g' = Pump(Bind(g, t, l))

Waiting(l) == {t \in Task : g.edge[t].lock = l}

\* The freed lock goes to a waiter, whichever the rule of its kind picks.  The
\* new owner's activation starts with reset_activation, whose changed() has
\* nothing to do for a task without an edge.
Pass(freed, l) ==
    \/ Waiting(l) = {} /\ g' = Pump(freed)
    \/ \E h \in Waiting(l) : g' = Pump(AcceptOwner(Unbind(freed, h), l, h))

\* unlock and leave; also the end of an offer that is not claimed.
Unlock(t, l) ==
    /\ ~Blocked(g, t)
    /\ g.owner[l] = t
    /\ Pass(ReleaseOwner(g, l), l)

\* guard_try and guard_leave outside any task.
BootEnter(l) ==
    /\ g.owner[l] = NoTask /\ l \in Guard \ g.boot
    /\ g' = [g EXCEPT !.boot = @ \cup {l}]

BootLeave(l) ==
    /\ l \in g.boot
    /\ Pass([g EXCEPT !.boot = @ \ {l}], l)

\* Timeout, cancel, kill or dismissal of a waiter; a drain repeats this.  The
\* timer tick and wait::leave() pump in the same handler, kill() and poll_timed()
\* do not.
GiveUp(t) ==
    /\ Blocked(g, t)
    /\ g' \in {Unbind(g, t), Pump(Unbind(g, t))}

\* assign_role and configure_role.
AssignRole(t, r) ==
    /\ r # g.role[t]
    /\ g' = Changed([g EXCEPT !.role[t] = r], t)

\* consume_dispatch and consume_run: only a running task uses its budget up.
ExhaustDonation(t) ==
    /\ ~Blocked(g, t)
    /\ g.budget[t]
    /\ g' = [g EXCEPT !.budget[t] = FALSE]

\* The number of direct donations.
SumOf(direct) ==
    FoldFunction(LAMBDA counts, n : FoldFunction(+, n, counts), 0, direct)

\* donate and remove_donation.
Donate(t, r) ==
    /\ SumOf(g.direct) < MaxDirect
    /\ g' = [ReplaceDonation(g, t, NoRank, r) EXCEPT !.direct[t][r] = @ + 1]

RemoveDonation(t, r) ==
    /\ g.direct[t][r] # 0
    /\ g' = [ReplaceDonation(g, t, r, NoRank) EXCEPT !.direct[t][r] = @ - 1]

\* The timer tick, a dispatch or the idle loop.
Tick ==
    /\ g.pending # <<>>
    /\ g' = Pump(g)

Next ==
    \/ \E t \in Task, l \in Lock : TryLock(t, l) \/ Wait(t, l) \/ Unlock(t, l)
    \/ \E l \in Lock : BootEnter(l) \/ BootLeave(l)
    \/ \E t \in Task : GiveUp(t) \/ ExhaustDonation(t)
    \/ \E t \in Task, r \in Ranks : AssignRole(t, r)
    \/ \E t \in Task, r \in Donated : Donate(t, r) \/ RemoveDonation(t, r)
    \/ Tick

Spec == Init /\ [][Next]_g

-----------------------------------------------------------------------------
(* Properties. *)

\* Waiter counts are exactly the edges on the lock, by the rank each edge was
\* counted under, although a detach may come between a rank change and its
\* propagation.
WaitersExact ==
    /\ g \in State
    /\ \A l \in Lock, r \in 0..3 :
          g.waiters[l][r] = Cardinality({t \in Task : g.edge[t] = [lock |-> l, rank |-> r]})

\* Every owned lock donates its best waiter rank to its owner, and a task
\* inherits exactly what its locks and its direct donors give: nothing stays
\* behind when a lock is passed on, and nothing is given back twice.
DonationsExact ==
    /\ \A l \in Lock : g.donation[l] = IF g.owner[l] = NoTask THEN NoRank
                                       ELSE Best(g.waiters[l], 0..2)
    /\ \A t \in Task, r \in 0..3 :
          g.inherited[t][r] = g.direct[t][r]
              + Cardinality({l \in Lock : g.owner[l] = t /\ g.donation[l] = r})

\* No change of rank is forgotten: the index of the wait queue, which directed
\* wake-ups read, has every queued task at its wake rank at once, and a task whose
\* edge does not carry that rank yet is on the list, once; the list names queued
\* tasks only.
NothingForgotten ==
    /\ \A t \in Task : Blocked(g, t) => g.published[t] = WakeRank(g, t)
    /\ \A t \in Task : Blocked(g, t) /\ g.edge[t].rank # WakeRank(g, t) => t \in ToSet(g.pending)
    /\ \A t \in ToSet(g.pending) : Blocked(g, t)
    /\ IsInjective(g.pending)

\* Once the list is empty inheritance is complete along every chain of locks: an
\* owner with budget is at least as urgent as each of its waiters above Batch,
\* and only a guard entered outside any task has waiters and no owner.
InheritanceComplete ==
    g.pending = <<>> =>
        \A t \in Task : Blocked(g, t) /\ WakeRank(g, t) < 3 =>
            LET o == g.owner[g.edge[t].lock] IN
            IF o = NoTask THEN g.edge[t].lock \in g.boot
            ELSE g.budget[o] => WakeRank(g, o) <= WakeRank(g, t)

\* Bounded propagation: no event moves a pending task back in the list, and each
\* timer tick moves it Steps places forward or takes it off, so a change waits
\* for no more ticks than there are tasks ahead of it.
WorkedOffInTurn ==
    [][\A i \in DOMAIN g.pending, j \in DOMAIN g'.pending :
         g.pending[i] = g'.pending[j] =>
            j <= (IF Tick THEN i - Steps ELSE i)]_g
=============================================================================
