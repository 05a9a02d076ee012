# TLA+ models of the R4OS kernel

This directory holds TLA+ specifications of the scheduling and synchronization core
of the R4OS kernel (`src/Rust/sched`), of its update recovery (`src/Rust/update`)
and of the drivers' work queue (`src/Rust/driver/work.rs`), TLC configurations that
check them, and TLAPS proofs about the synchronization objects, the release of dead
tasks and update recovery. `PROJECT.json` maps every definition to the lines it
models and lists components, runs, hazards and theorems.

## 1. Inventory

The kernel is about 327,000 lines of Rust. Its parts, the state each one keeps and
what could go wrong with it:

| Part | State | Operations | Hard behaviour | What must hold |
|---|---|---|---|---|
| Wait enrollment (`sync_wait.rs`) | task state, wait node, result, deadline | wait, wake one / all, cancel, close, reopen | wake-up racing enrollment, timeout racing signal, death of a waiter | no lost wake-up; blocked = linked |
| Wait queue (`wait_node.rs`) | doubly linked FIFO, rank index, order keys, generation | link, detach, set rank, drain, close, reopen | order-key wrap; ranks that change during a drain | list and index agree with an abstract ranked FIFO |
| Ordered index (`task_index.rs`) | intrusive AVL tree | insert, remove, next, lookup, neighbors | double rotations on removal | sorted, balanced, `first` exact |
| Semaphore (`sync_objects.rs`) | count, queue, per-task handoff flag and unwind count | try, wait, guarded wait, release | permit handed to a task that is about to time out or be killed | permits conserved |
| Event (`sync_objects.rs`) | flag, queue | signal, reset, wait | manual signal in two critical sections | no lost wake-up |
| Completion (`sync_objects.rs`) | saturating count, queue | complete one / all, reset, close, wait | late complete after close | one use per complete |
| Mutex (`sync_locks.rs`) | owner, depth, handoff flag | try, lock, unlock | ownership transferred before the new owner runs | exclusive, no barging, no stranded waiter |
| Unwind guard (`sync_guard.rs`) | owner, depth, offer, epoch | try, enter, leave | an offer that times out, is cancelled or dies | offer exact, passed on |
| Priority inheritance (`mutex_pi.rs`) | waiter counts, donations, budgets, PENDING list | bind, detach, accept, release, pump | propagation cut off after STEPS | nothing forgotten; inheritance complete when quiet |
| Task registry (`task/task_registry.rs`) | ready queues, deadline list, identity tables | ready, run, block, wake, retire | rank change while queued; deadline batches | queue membership = state |
| Task lifecycle (`task/task_lifecycle.rs`) | pins, claims, retire flags, reap list, notice | kill, exit, retire, reap, pin, release | retirement against pins, claims and heap failures on other CPUs | released once, not before time, not forgotten |
| Scheduler (`scheduler.rs`, `task/balance.rs`) | current task, need-resched and fairness per CPU, IPI, one-shot timer | dispatch, yield, preempt, migrate, tick, idle | idle entry against a wake-up or an earlier deadline of another CPU | no ready task is forgotten, no deadline slept over |
| Update and recovery (`update/`) | two-slot journal, staged files | stage, commit, roll back, clean up, replay at boot | power loss between any two writes | old or new version, never a mix |
| Driver work (`driver/work.rs`, `driver/work_queue.rs`) | 16 slots with tickets, three queues, two workers, a completion per slot | submit, run, continue, publish, cancel, wait, release, clean up | the end of a ticket is published outside the admission that ends it; slots are reused | a ticket stays with its users; published once; no work slept over |
| Upload claims (`update/claim*.rs`) | claim records on disk | claim, replay at boot | power loss between claim and file | every claim is settled |
| Services / IPC (`service/`) | endpoints, requests | call, reply, close | close against a pending reply | every call is answered once |
| Memory, storage, fs, net, program, other driver code, loader, display, gfx, usb, audio, arch, platform, input, font, boot, serial | | | | not modelled; reasons in `PROJECT.json` |

The parts interact from the bottom up: the index orders the wait queue, the wait
queue holds tasks for all synchronization objects, locks feed priority
inheritance, inheritance changes ranks in the wait queues, the scheduler picks by
those ranks, and task lifecycle relies on the counters that locks and semaphores
maintain. Driver work sits on top: its workers sleep on events and its callers on
completions. Update recovery runs before any of it, at boot, over the file systems.

## 2. Plan

Built, in this order:

1. `TaskWait` (shared base), then `Semaphore`, `Event`, `Completion`, `SyncLocks` on top of it.
2. Abstract specifications: `LockService` (what both locks promise), `RankedQueue` (what a wait queue promises).
3. Below the base: `WaitNode` (implements `RankedQueue`) and `TaskIndex`.
4. Beside the locks: `MutexPI`.
5. `TaskWaitProofs` (what all objects' proofs need of the shared base), then
   `SemaphoreProofs`, `SignalProofs` (event and completion) and the proofs of both
   locks in `SyncLocksInv`, `SyncLocksGuard` and `SyncLocksProofs`.
6. `UpdateRecovery` against the abstract `AtomicUpdate`.
7. `TaskLifecycle`, then `Dispatch`.
8. `DriverWork`, a user of events and completions.
9. `TaskLifecycleProofs` and `UpdateProofs`.

Next:

1. `UploadClaim`: claim replay at boot. `WaitQueue`: the sequence protocol of queue operations 8 and 9.
2. Role budgets, the audio reservation and CPU draining in `Dispatch`; task creation and its rollback list in `TaskLifecycle`.
3. Proofs about `DriverWork`. `MutexPI` and `Dispatch` are written with recursive operators; proving about them needs these as recursive functions.

## 3. How the models correspond to the code

**Atomicity.** Code between `wait::enter()` and `wait::leave()` runs under the
scheduler's Runtime owner with preemption off: one action. A call with several
such sections is several actions, with a program counter `pc[t]` between them,
and any other action may come in between (for instance `ClaimPlain` /
`LeavePlain`, `SignalManual` / `WakeWaiters`, `MutexContended` / `MutexCheck` /
`MutexWait`).

**`TaskWait`.** `state`, `node`, `timed`, `result` are the task's state, wait
node, `wake_tick != 0` and `wait_result`; `closing`, `generation` belong to the
queue. `Block` is `wait_impl` from enrollment to the park, `WakeEach` is
`wake_task`, `Bury` is `transition_dead`. `Dispatch` and `Preempt` leave the
choice of the next task open, so every schedule on any number of CPUs is covered.
Task names stand for exact (id, generation) identities. The place in the FIFO is
a number; `WaitNode` shows that pointers and order keys keep that order.

**`Semaphore`.** `pending` is `wait_handoff_guard_pending`, `unwind` is
`unwind_guard_count`, `token` counts unwind tokens held by callers. `issued` and
`taken` are history counters. `Release(n)` is the whole loop of
`handoff_permit`: `Handed(n)` are the waiters it serves, in rank order,
`TurnedAway(n)` the saturated ones it fails on the way.

**`Event`, `Completion`.** One action per operation and critical section. `mode` of an
event is chosen at the start.

**`SyncLocks`.** One action per critical section of `mutex_lock`,
`mutex_unlock`, `guard_enter`, `guard_leave`; `offer` is the task's
`guard_offer`. `granted` is a history variable: what callers were told. It is the
refinement mapping to `LockService`. The boot context, which has no task, is
`Boot`. `other` counts mutexes a task holds outside the model; it is chosen at the
start and stays, so that saturated waiters are met with a single mutex.

**`MutexPI`.** The state is one record and the operators compose as the calls do:
`Refresh` calls `ReplaceDonation`, which calls `Changed`. `budget[t]` abstracts
the two donation counters to "both non-zero"; `ExhaustDonation` lets them run out
at any moment while the task runs. Which waiter gets a freed lock is left open
(`SyncLocks` has the exact rule), and removing a donation is only done by someone
who made one. A waiter's timeout, kill or cancel comes with or without a pump in the
same handler, as in the code.

**`WaitNode`.** All pointers are explicit. The index is the sequence its tree
reads as: insertion goes by the keys of that moment, and keys that change later
move nobody, so a wrong compaction shows. A drain is many steps, during which only
ranks can change.

**`TaskIndex`.** Trees as records of pointer maps, with every store of the code in
its order.

**`UpdateRecovery`.** `slots` are the two journal files, `disk[i]` the four names of
payload `i` (target, staged file, backup, backup of the package before), each named
by the contents behind it: equal values are two names of one file. `mem`, `slot`
and the replay position (`op`, `cursor`, `leg`) are lost with the power. An action
is at most one durable write: `replaceWrite` is the next directory write of
`replace` in the FAT or the NTFS driver, `persistBegin` / `persistEnd` the rewrite of
the inactive journal slot, absent or torn in between. `BootOp` chooses the replay
from the journal's phase. `PowerCut` and `DeviceError` strike between any two
actions, during the recovery from an earlier one included. `seen` is a history
variable: the versions the loader found at the last boot; it is the mapping to
`AtomicUpdate`. The updater itself is a program outside `src/`: it stages files
and advances the phase, 0, 1, 2, 3, 4, 5 without a reboot and 0, 1, reboot, 6, 5
for a batch. Assumed: the first journal write of all is durable (torn, it makes
`select` fail and the boot stop); a failed replay while the system is up is
followed by a restart; a legacy payload (whose old contents the journal does not
know) is staged but not committed, so its backup is never another name of its
target; a staged file has its name only once it is complete (`Stage` is one step: a
partly written stage under a journal of phase 0 would be `Content::Other`, which
`existing_allowed`, `atomic.rs:137`, rejects, and the rollback at the next boot would
end in a conflict that `NeverStuck` excludes); the writes below a directory entry are
atomic; the 64-bit generation does not run out.

**`TaskLifecycle`.** `onCpu` is `running_cpu != 0xff`, what kill, retire and release
look at; `physical` is that a CPU really executes on the task's stack, which they
cannot see. `held` abstracts `held_lock_count` and `unwind_guard_count`, `rip` is
`release_in_progress`, `reap` the reap list, `notice` the task's retire notice.
`Context` are CPUs or tasks that call into the lifecycle; `job` is where each of
them stands in a release, since stack and descriptor are freed outside the
admission that claimed them. `want` is the program's thread retirement: parked until
it is rung. Any task runs a reap pass after a context switch, so `reap_pass` is
always possible. `Sleep` enrolls and parks in two admissions. A task that is woken in
between (`finish_wait`) is Ready but still bound to its CPU and in no ready queue, and
`park_blocked_owned` resumes it in place (`ResumeInPlace`); `mark_ready`, which
unbinds, is for the outgoing task of a switch. A switch is one action, because the
Runtime admission ends only after the outgoing stack is saved.

**`Dispatch`.** `sch` is what the Runtime admission protects, and each handler maps it
to the set of its possible results, calling others as the code does. `line` is the
order of `ready_order`, one counter for all CPUs that a migration keeps; a CPU's
queue is the part of `line` at home there. `left` and `armed` count ticks to a
deadline, so that time needs no clock. Topology, memory anchors, the migration
cooldown and the length of a quantum are free choices: what is checked holds for
any of them. Ranks are fixed (the roles Interactive and Batch without donation), and
the audio reservation, placement requests and CPU draining are left out. A block is
enrolled and parked in one admission, as all synchronization objects do.

**`DriverWork`.** `item` are the slots, `queue` the three lists, `bell` and `posted`
what the workers' events and the slots' completions hold; parked tasks are those
at `"blocked"`. One action is one section between `Critical::enter()` and
`leave()`, or one call of an event or a completion; `at[a]` is the place in
between, with the ticket as the code remembers it: slot and generation. So the
worker's way from `finish` over `publish` to `mark`, a caller's from `wait` over
`enroll` to `leave` and from `release` over `close` to `free`, and the loop of
`cleanup` are interleaved freely. A ticket's user may name any ticket ever issued,
and cleanup calls the sections of `cancel` and `release` as the code does.
`deferred` abstracts `resume_tick`, which is at most one tick ahead. What an ended
ticket no longer needs is cleared at its end and not at its release, which merges
states nobody can tell apart. Left out: calls from inside a handler, the death of a
waiting task, the wrap of the 24-bit generation, ledgers, metrics and status reads.

`MCIndexes` and `MCSignals` put two components into one run: a behaviour chooses at
the start which of the two it is about.

## 4. What is checked

| Run | Bounds | Shows |
|---|---|---|
| `semaphore` | 2 tasks of 2 ranks and an interrupt handler that releases up to 2; max count 1, unwind limit 2, 3 permits | `PermitConservation`, `NoLostWakeup`, `UnwindExact`, `HandoffArrives` |
| `signals` | an event of either mode or a completion per behaviour, 3 tasks, 2 ranks, counter limit 2 | `NoLostWakeup`, `OneReleasePerSignal`, `ManualSignalReaches`, `NothingHeldBack`, `OneUse` |
| `lock` | 1 mutex or 1 guard per behaviour, 3 tasks and the boot context, 2 ranks, depth limit 2, 4 queue generations, so that the queue is closed and reopened once; one of the tasks may already hold as many other mutexes as it can | `GrantsMatchDepth`, `CountsExact`, `NoStrandedWaiter`, `OfferExact`, `NoBarging`, `ImplementsLockService` |
| `locks` | 1 mutex and 1 guard, 2 tasks, 2 ranks | `NoCircularWait`, `HandoverResolves` |
| `indexes` | a wait queue of 4 nodes, 2 ranks, order counter limit 3 and generation width 3, or a tree of 12 nodes with 2 generations per id | `ListExact`, `IndexExact`, `ImplementsRankedQueue`, `BalancedTree`, `QueriesExact` |
| `inheritance` | 3 tasks, 2 locks (one a guard), roles 0 and 3, one direct donation of rank 1, pump of 1 step | `WaitersExact`, `DonationsExact`, `NothingForgotten`, `InheritanceComplete`, `WorkedOffInTurn` |
| `update` | 2 payloads of any kind on FAT or NTFS, 3 power cuts or device errors | `NothingLost`, `NeverStuck`, `TerminalExact`, `ImplementsAtomicUpdate`, `RecoveryFinishes` |
| `lifecycle` | 2 tasks (one critical), 2 contexts, any number of pins, 1 failed release | `ReleaseExact`, `NoticeKept`, `ReapedInTurn` |
| `dispatch` | 2 interactive tasks and a batch task, 2 CPUs, 2 rank picks, batch of 1, timeouts up to 2 ticks | `BoundedBypass`, `NoSleepOverWork` |
| `work` | 2 tasks, 1 driver, 2 slots, 2 tickets of any class, 2 turns of a continuation | `TicketsKept`, `OnePublisher`, `NoForgottenWork` |
| `work_wait` | as `work` | violates `PublicationReleases`, see below |

`TypeOK` documents the state of a module; it is part of every inductive invariant of section 5.

Why the bounds are enough: three tasks give an owner, a successor and a bystander
that can overtake; two ranks give every outcome of a comparison; limits of 1 to 3
for counters that are `u32::MAX` or `u64::MAX` in the code make saturation and wrap
happen within a few steps; two locks close a circle; two locks and a pump of one
step make a chain longer than a pump; twelve nodes are the smallest AVL tree of
height five and exercise every rotation on removal. Two tasks suffice for the
semaphore's wake-ups because releases come from anywhere, and its safety is proved
for any number. Queue generations matter where an offer outlives a close and a
reopen: four of them tell the old life of a guard's queue from the new one (run
`lock`); in `locks` there is one, so an offer there survives a reopen, which the
code excludes with `2^64` generations. Two payloads give one that is done
or in work and one that is in work or untouched; three cuts interrupt the recovery
of an interrupted recovery. (`N = 3` with two cuts passes as well, with 644,418
states.) Two contexts race for one task while the other task waits in the reap list;
each holds one pin at a time, so that a task has up to two, and may pin again for ever. Three
tasks give the watched one two that pass it over, one of them older; a batch of one
leaves a rest after every pass; two ticks give a deadline earlier than the armed
one. Two tickets are two in the queue at once or one after the other in the same
slot, and two callers besides the two workers are a waiter and whoever releases,
cancels or cleans up; the limits of 2 spare slots and 4 interrupt tickets in a row
are 0 and 1, so that the class that is held back gets its turn. Symmetry is used in runs without liveness
properties only.

`CHECK_DEADLOCK FALSE` stands where all tasks may have died, a legal end.

**Fairness.** `Dispatch` is weakly fair per task: after seven picks by rank
`Fairness::choose` (`sched/scheduler/selection.rs`) owes the ready FIFO's head one
pick, so every ready task gets to the front and runs. Urgent picks (forced priority
and audio) defer that turn; the assumption is that they do not do so for ever. The
steps with which a woken task ends its call are strongly fair: a task that is
dispatched again and again is not preempted before its first instruction each time.
Nothing is assumed of callers: they need not release, signal or leave. `MutexPI`
needs no fairness: `WorkedOffInTurn` bounds the number of timer ticks instead, and
`BoundedBypass` counts picks, which is what justifies the fairness of `Dispatch`
above. In `UpdateRecovery` the replay, which is straight code, is weakly fair and a
halted machine is switched on again; cuts are bounded by `MaxCuts`. In
`TaskLifecycle` a context finishes the release it has begun and starts another reap
pass, as every context switch does.

**A disagreement.** A wait for driver work counts itself in `waiter_count`, leaves the admission and
then enrolls in the ticket's completion (`driver/work.rs:1059-1072`). `publish` calls
`complete_all` once, which wakes the parked waiters or, only if there are none,
leaves one token. With two waiters, of which an owner's cleanup may be one, the
publication can come while the second is still on its way: it then parks although
its ticket has ended and is published. With a limit it returns a timeout, without
one it never returns, and release is refused all the while because a waiter is
counted. The comment at `driver/work.rs:1020` and the one at
`sched/sync_objects.rs:166` promise the waiters their completion, and the test at
`sched/task_probe/continuations.rs:106` takes a timeout of such a wait for a failure.
Run `work_wait` shows the ten steps.

**Known limits that the properties state.** A manual event whose signalling task is
killed between flag and wake-up leaves its waiters queued with the flag up
(`NoLostWakeup` and `ManualSignalReaches` in `Event` name this case). An event or
completion released to a task that is killed before it runs is gone; permits are
not, because the handoff raises the unwind count.

## 5. What is proved

Every proof is of a property that a run of section 4 checks on a small instance, and
holds for any finite set of tasks, any ranks and any limits. It rests on the named
assumptions of the modules (`TaskWaitAssumption` and its like: the sets of names are
disjoint, the limits are positive numbers), which TLC evaluates in every run.

### The shared base

`TaskWaitProofs` has the invariant `WaitInv` that each operation of `TaskWait` keeps:
exactly the blocked tasks are linked, a closed queue is empty, and FIFO places are
distinct and at most the queue's length (`Ordered`), which makes the rank order total.
Without `Ordered` two waiters could tie and one wake-up would reach both. The module
also proves that a finite set of tasks in that order has a first one (`HasFirst`), and
numbers the tasks that stand before a task (`OrderNumbers`).

### The semaphore

`SemaphoreProofs`, from `SemaphoreAssumption`:

* `TypeCorrect`: `Spec => []TypeOK`
* `PermitsConserved`: `Spec => []PermitConservation`
* `NobodyMissed`: `Spec => []NoLostWakeup`
* `UnwindsExact`: `Spec => []UnwindExact`
* `BlockedAreLinked`: `Spec => []BlockedIffLinked`

The inductive invariant `IInv` adds `WaitInv` and `Phases` (a task that was signaled
and lives is exactly one with a pending handoff). Without `Phases` a claim could find
nothing and a permit would vanish. The hardest step is `ReleaseKeeps`: that the loop
serves exactly min(n, receivers) tasks is `HandedExact`, which numbers the receivers
by an injection into `0..N-1`.

### The event and the completion

`SignalProofs`, from `EventAssumption` and `CompletionAssumption`:

* `EventWakesAll`: `Spec => []NoLostWakeup`
* `EventReleasesOne`: `Spec => OneReleasePerSignal`
* `CompletionExact`: `C!Spec => []NothingHeldBack`
* `CompletionUsedOnce`: `C!Spec => OneUse`

`EventInv` adds that only a manual signal has a second half and that a queued task has
no wait result yet; the latter makes the action properties provable, since a task that
leaves the queue with `Signaled` must then have got it in this step. `CompletionInv` is
its like.

### The mutex and the unwind guard

`SyncLocksProofs`, from `SyncLocksAssumption`, for any finite number of mutexes and guards:

* `Invariant`: `Spec => []IInv`
* `GrantsRecorded`, `CountersExact`, `NobodyStranded`, `OffersExact`: `GrantsMatchDepth`,
  `CountsExact`, `NoStrandedWaiter`, `OfferExact` always hold
* `DeadlockFree`: `Spec => []NoCircularWait`
* `QueueRespected`: `Spec => NoBarging`
* `LocksImplementService`: `Spec => ImplementsLockService`, the refinement of `LockService`

The safety invariants need each other: that a lock without owner has no waiter depends
on the counters (a waiter that can hold no more locks is dismissed), those on the
recorded owners, and those on the offers. So `IInv` is their conjunction with

* `Phases`: where in a call a task with a given state stands;
* `Recorded`: a lock without owner has no depth, and a mutex is owned by a task at some depth;
* `HandoffExact`: the new owner of a mutex on its way is awake inside `mutex_lock` and
  about to find out. Without it a task could die, or begin another wait, with a mutex it
  does not know of.

`Correct` is what each step shows at once: `IInv'`, a step of `LockService` or no change
of `granted`, and respect for the queues. `SyncLocksInv` reduces it to one lock:
`ChangesOnly(l)` is a step at lock `l` that keeps the invariant there and leaves alone
whoever expects another lock, and `MoveKeeps` shows that such a step keeps `IInv`. It
also has the two ways a lock changes level (taken, one level less), and
`WaitingIsSafe`: a wait that the bounded walk of `acyclic()` admits closes no circle. The
walk is a recursive function on `0..ValidationSteps`, and instead of an induction its
proof takes the least number with which the walk would go wrong (`LeastNumber`).
`SyncLocksGuard` has the steps of a guard and its offers, `SyncLocksProofs` those of a
mutex, enrollment, claims, the rest of the kernel and the results.

### Releasing dead tasks

`TaskLifecycleProofs` proves, for any finite set of contexts, any tasks, any number of
pins and any number of heap failures, from `LifecycleAssumption`:

* `ReleasedOnce`: `Spec => []ReleaseExact`
* `ReapersRung`: `Spec => []NoticeKept`

The inductive invariant, also called `IInv`, says why a claim stays true while its
owner works outside the registry lock:

* `Bound`: a stack that a CPU executes on belongs to a task that is bound to a CPU, so
  nobody kills or releases it. It holds across the two admissions of a sleep because
  `finish_wait` leaves the binding alone; with `mark_ready` in its place, which is the
  mutant of `ReleaseExact`, it fails.
* `Gone`: memory goes only from tasks that are dead and off their CPU.
* `Counted`: a task's pin count is the number of contexts that hold a pin on it.
* `Marked`: a task being released has no pin, and release_in_progress stays set once
  it has left the registry, so that nobody can pin or claim it again.
* `Listed`: the reap list names each task once, and none that is being released.
  Without it a pass could take up a release that another context has in hand.
* `Busy`: a context in the middle of a release is the only one with that task, the task
  is still eligible, and it is in the registry until the descriptor is being freed.

The lemmas of the module are, in this order, what the steps need of the reap list
(append, unlink and rotate keep it without repetition), the four ways a claim changes
(taken up, carried on, ended, left alone), and one lemma per action or group of like
actions. That `IInv` implies the check in `anchor` holds shows that the retry in
`complete_admitted` is a precaution that is never taken.

For the notice `NInv` is added: a parked reaper's notice stands together with a blocker
that is bound to change (`Stands`), or the releaser has it in hand (`InHand`), which it
has only after the task left the registry (`TakenLate`). Every step either rings, or
parks nobody and ends no blocker (`RungOrKept`).

### Update recovery

`UpdateProofs` proves, for any number of payloads, any mixture of their kinds, both
file systems and any number of power cuts and device errors, from `UpdateAssumption`:

* `RecoveryInvariant`: `Spec => []IInv`
* `OldFilesSurvive`: `Spec => []NothingLost`
* `RecoveryNeverRefuses`: `Spec => []NeverStuck`
* `EndedJournalsExact`: `Spec => []TerminalExact`
* `UpdatesAreAtomic`: `Spec => ImplementsAtomicUpdate`, the refinement of `AtomicUpdate`

`IInv` speaks of what is on the disk and of where a running machine stands:

* `AllArranged`: the names of every payload are in one of the arrangements that the
  writes of `replace`, interrupted anywhere and started again, lead through
  (`Arranged`). Without it a boot could meet files that the entry check rejects.
* `Anchored`: of the two slots one holds the newest whole journal, and what it says is
  so (`Sound`: well formed, of the right size, and `Kept`: a payload marked as committed
  is applied, one marked as rolled back is as it was).
* `Placed`: each place of a replay with what the code relies on there: which payloads
  are done (`DownTo`, `NextUp`), what the next leg of a transition needs (`OnLeg`), and
  that a journal about to be written is sound and follows the one it replaces.

A power cut keeps the first two and resets the third, which is why recovery from an
interrupted recovery needs no case of its own. The lemmas go from one journal and one
payload's files (what each mark, phase and directory write leaves) over the parts the
handlers share to one lemma per action. The refinement rests on `Located`: there is
always exactly one journal that a boot would continue from.

### Only model-checked

All liveness, since fairness is out of the prover's reach: `HandoffArrives`,
`ManualSignalReaches`, `HandoverResolves`, `RecoveryFinishes`, `ReapedInTurn`.
`TaskIndex`, `WaitNode`, `MutexPI` and `Dispatch`, whose recursive
operators the prover does not accept. `DriverWork`, which is not yet proved.

## 6. What is not modelled

Statistics, lock-order records, log text, probes and self tests; CPU topology in
placement; the audio reservation; CPU draining; the FPU; delivery failures of the
interrupt controller; task creation; release callbacks of a wait (they run before enrollment,
in the same critical section). Whole subsystems and the reason for each are listed
under `components` in `PROJECT.json`.
