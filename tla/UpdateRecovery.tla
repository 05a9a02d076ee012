--------------------------- MODULE UpdateRecovery ---------------------------
(***************************************************************************)
(* The update journal and its replay (src/Rust/update), on files that the  *)
(* FAT and NTFS drivers replace by several durable writes.                 *)
(*                                                                         *)
(* One action is one durable write, or a decision taken without one, so    *)
(* that the power can go (PowerCut), or a device report an error           *)
(* (DeviceError), between any two writes.  Journal slots and files survive *)
(* both; the resident journal and the place in the code do not.            *)
(*                                                                         *)
(* The updater is a program outside the kernel: its part is what the       *)
(* journal format lets it do, calling the kernel for every file it moves.  *)
(***************************************************************************)
EXTENDS Naturals

CONSTANTS N,         \* payloads of the package
          Kinds,     \* the kinds of payload a package may hold
          MaxCuts    \* power cuts and device errors in a behaviour

ASSUME UpdateAssumption ==
    /\ N \in Nat \ {0, 1}
    /\ Kinds \subseteq {"replace", "create", "longname", "same", "legacy"}
    /\ MaxCuts \in Nat

Payload == 1 .. N

VARIABLES pkg,    \* batch or not, the volume, the kind of each payload
          slots,  \* SYSUPD0.JRN and SYSUPD1.JRN
          disk,   \* target, stage, backup and previous backup of each payload
          mem,    \* the resident journal
          slot,   \* the slot that holds it
          pc,     \* where the machine is
          op,     \* the replay under way
          cursor, \* the payload it is at
          leg,    \* how far the transition of that payload is
          booting, status, cuts, seen

replay == <<op, cursor, leg>>
vars == <<pkg, slots, disk, mem, slot, pc, replay, booting, status, cuts, seen>>

-----------------------------------------------------------------------------
\* The facts the journal records of a payload.

existed(i) == pkg.kind[i] \in {"replace", "same", "legacy"}
old_known(i) == pkg.kind[i] \in {"replace", "same"}
replace_required(i) == pkg.kind[i] # "same"

\* A file is named by its contents; two names of one file are equal.
Original(i) ==
    [t |-> CASE pkg.kind[i] = "same" -> "new"
             [] existed(i) /\ replace_required(i) -> "old"
             [] OTHER -> "none",
     s |-> "none",
     b |-> "none",
     p |-> IF pkg.kind[i] = "replace" THEN "prev" ELSE "none"]

Content(i, f) ==
    CASE f = "none" -> "Missing"
      [] f = "new" -> "New"
      [] f = "old" /\ old_known(i) -> "Old"
      [] OTHER -> "Other"

\* What cleanup and check_last_good expect of an applied payload.
Applied(i) ==
    /\ disk[i].t = "new"
    /\ replace_required(i) =>
         /\ disk[i].s = "none"
         /\ CASE old_known(i) -> disk[i].b = "old"
              [] existed(i) /\ ~old_known(i) -> disk[i].b # "none"
              [] OTHER -> disk[i].b = "none"

-----------------------------------------------------------------------------
\* The journal.

Blank == [phase |-> 0, committed |-> {}, rolled |-> {}, n |-> N, gen |-> 0]

Used(j) == 1 .. j.n

Valid(j) ==
    /\ j.n \in {N - 1, N}
    /\ j.committed \subseteq Used(j) /\ j.rolled \subseteq Used(j)
    /\ j.committed \cap j.rolled = {}
    /\ \A i \in j.committed : 1 .. i \subseteq j.committed
    /\ \A i \in j.rolled : i .. j.n \subseteq j.rolled
    /\ CASE j.phase \in {0, 1} -> j.committed = {} /\ j.rolled = {}
         [] j.phase = 2 -> j.rolled = {}
         [] j.phase = 3 -> j.n = N - 1 /\ j.committed = Used(j)
         [] j.phase = 4 -> j.n = N /\ 1 .. N - 1 \subseteq j.committed /\ j.rolled = {}
         [] j.phase \in {5, 6, 7} -> j.committed = Used(j) /\ (j.phase = 6 => pkg.batch)
         [] j.phase = 8 -> TRUE
         [] j.phase = 9 -> j.rolled = Used(j)

Parsed(k) == slots[k].file = "whole" /\ Valid(slots[k].j)

\* The slot a boot continues from; none when the slots cannot be told apart.
select ==
    LET parsed == {k \in {0, 1} : Parsed(k)} IN
    IF parsed # {0, 1} THEN parsed
    ELSE {k \in parsed : slots[k].j.gen > slots[1 - k].j.gen}

\* The journal on the disk: what a boot right now would find.
Durable == slots[CHOOSE k \in select : TRUE].j

-----------------------------------------------------------------------------
\* The next durable write of replace(t, s, b) in either driver.  Both lead from
\* one recoverable arrangement to the next and start again from any of them.
\* FAT overwrites the target entry; NTFS removes the name and adds it anew.

\* Mutant: the target is overwritten before it has its backup name.
replaceWriteNoBackup(d, t, s, b) ==
    IF d[t] = d[s] THEN [d EXCEPT ![s] = "none"]
    ELSE [d EXCEPT ![t] = d[s]]

replaceWrite(d, t, s, b) ==
    IF d[t] = d[s] THEN [d EXCEPT ![s] = "none"]
    ELSE IF d[t] = "none" THEN [d EXCEPT ![t] = d[s]]
    ELSE IF d[b] = "none" THEN [d EXCEPT ![b] = d[t]]
    ELSE [d EXCEPT ![t] = IF pkg.fs = "fat" THEN d[s] ELSE "none"]

\* A staged file that is gone means that the replacement is over.
replaceDone(d, t, s) == d[t] # "none" /\ d[s] = "none"

replaceRefused(i, d, t, s, b) ==
    \/ d[t] = "none" /\ d[s] = "none"
    \/ pkg.fs = "fat" /\ d[t] = "none" /\ (pkg.kind[i] = "longname" \/ d[b] # "none")
    \/ d[t] # "none" /\ d[s] \notin {"none", d[t]} /\ d[b] \notin {"none", d[t]}

\* Mutant: a target that already has its backup name is not recognised.
existingAllowedNoAlias(i) ==
    LET d == disk[i]
        t == Content(i, d.t)
        s == Content(i, d.s)
        b == Content(i, d.b)
    IN  /\ s \in {"Missing", "New"}
        /\ IF old_known(i)
           THEN /\ b \in {"Missing", "Old"}
                /\ CASE t = "Old" -> d.b = "none"
                     [] t = "Missing" -> b = "Old" /\ s = "New"
                     [] t = "New" -> b = "Old" /\ d.s \in {"none", d.t}
                     [] OTHER -> FALSE
           ELSE t = "Other" /\ d.b \in {"none", d.t}

\* The arrangements a transition accepts.
existing_allowed(i) ==
    LET d == disk[i]
        t == Content(i, d.t)
        s == Content(i, d.s)
        b == Content(i, d.b)
    IN  /\ s \in {"Missing", "New"}
        /\ IF old_known(i)
           THEN /\ b \in {"Missing", "Old"}
                /\ CASE t = "Old" -> d.b \in {"none", d.t}
                     [] t = "Missing" -> b = "Old" /\ s = "New"
                     [] t = "New" -> b = "Old" /\ d.s \in {"none", d.t}
                     [] OTHER -> FALSE
           ELSE t = "Other" /\ d.b \in {"none", d.t}

create_allowed(i) ==
    /\ disk[i].b = "none"
    /\ {disk[i].t, disk[i].s} \subseteq {"none", "new"}

Back == op = "rollback"

-----------------------------------------------------------------------------
\* How a replay starts and ends.

Persist(j) == mem' = j /\ pc' = "persist"

Halt(code) ==
    pc' = "halt" /\ status' = code /\ UNCHANGED <<mem, replay, booting, seen>>

\* What the loader finds behind the name of a target.
Version(i) ==
    CASE disk[i].t = "new" -> "new"
      [] disk[i].t = Original(i).t -> "old"
      [] OTHER -> "damaged"

Changing == {i \in Payload : replace_required(i)}

Idle == op' = "none" /\ cursor' = 0 /\ leg' = "none"

Begin(o, j) ==
    CASE o = "none" ->
           pc' = "done" /\ mem' = j /\ Idle /\ UNCHANGED <<status, booting, seen>>
      [] o = "forward" /\ pkg.batch ->
           /\ Persist([j EXCEPT !.phase = 2])
           /\ op' = o /\ cursor' = 0 /\ leg' = "none"
           /\ UNCHANGED <<status, booting, seen>>
      [] o = "rollback" /\ Valid(j) /\ j.phase \notin {5, 7} ->
           /\ Persist([j EXCEPT !.phase = 8])
           /\ op' = o /\ cursor' = j.n /\ leg' = "none"
           /\ UNCHANGED <<status, booting, seen>>
      [] o = "cleanup" /\ j.phase = 5 /\ \A i \in Used(j) : Applied(i) ->
           /\ pc' = "step" /\ mem' = j
           /\ op' = o /\ cursor' = 1 /\ leg' = "none"
           /\ UNCHANGED <<status, booting, seen>>
      [] OTHER -> Halt(IF o = "cleanup" /\ j.phase = 5 THEN 2 ELSE 1)

\* A conflict met going forward turns into a rollback; any other one stops.
Conflict ==
    IF op \in {"forward", "commit"} THEN Begin("rollback", mem) ELSE Halt(2)

\* Mutant: a payload marked before is left without going to the next.
MovedStuck ==
    LET i == cursor IN
    /\ leg' = "none"
    /\ CASE op \in {"forward", "commit"} ->
              /\ Persist([mem EXCEPT !.committed = @ \cup {i}, !.rolled = @ \ {i}])
              /\ UNCHANGED cursor
         [] op = "rollback" /\ i \in mem.rolled ->
              pc' = "step" /\ UNCHANGED <<cursor, mem>>
         [] OTHER ->
              /\ Persist([mem EXCEPT !.committed = @ \ {i}, !.rolled = @ \cup {i}])
              /\ cursor' = i - 1
    /\ UNCHANGED <<op, status, booting, seen>>

\* The transition of payload cursor is complete.
Moved ==
    LET i == cursor IN
    /\ leg' = "none"
    /\ CASE op \in {"forward", "commit"} ->
              /\ Persist([mem EXCEPT !.committed = @ \cup {i}, !.rolled = @ \ {i}])
              /\ UNCHANGED cursor
         [] op = "rollback" /\ i \in mem.rolled ->
              pc' = "step" /\ cursor' = i - 1 /\ UNCHANGED mem
         [] OTHER ->
              /\ Persist([mem EXCEPT !.committed = @ \ {i}, !.rolled = @ \cup {i}])
              /\ cursor' = i - 1
    /\ UNCHANGED <<op, status, booting, seen>>

-----------------------------------------------------------------------------
\* Boot: read both slots, continue what the newest journal says.

\* Mutant: a rollback under way counts as finished.
BootOpSkips(j) ==
    CASE j.phase \in {7, 8, 9} -> "none"
      [] j.phase = 5 -> "cleanup"
      [] j.phase = 6 /\ pkg.batch -> "none"
      [] j.phase \in {1, 2} /\ pkg.batch -> "forward"
      [] OTHER -> "rollback"

BootOp(j) ==
    CASE j.phase \in {7, 9} -> "none"
      [] j.phase = 5 -> "cleanup"
      [] j.phase = 6 /\ pkg.batch -> "none"
      [] j.phase \in {1, 2} /\ pkg.batch -> "forward"
      [] OTHER -> "rollback"

recover_before_runtime ==
    /\ pc = "off"
    /\ IF select # {}
       THEN \E k \in select : Begin(BootOp(slots[k].j), slots[k].j) /\ slot' = k
       ELSE Halt(1) /\ UNCHANGED slot
    /\ UNCHANGED <<pkg, slots, disk, cuts>>

\* persist: the inactive slot is deleted and written again, then read back.
persistBegin ==
    /\ pc = "persist"
    /\ IF Valid(mem)
       THEN /\ \E f \in {"absent", "torn"} :
                 slots' = [slots EXCEPT ![1 - slot] = [file |-> f, j |-> Blank]]
            /\ pc' = "writing"
            /\ UNCHANGED <<mem, replay, booting, status, seen>>
       ELSE Halt(3) /\ UNCHANGED slots
    /\ UNCHANGED <<pkg, disk, slot, cuts>>

persistEnd ==
    LET j == [mem EXCEPT !.gen = @ + 1] IN
    /\ pc = "writing"
    /\ slots' = [slots EXCEPT ![1 - slot] = [file |-> "whole", j |-> j]]
    /\ slot' = 1 - slot
    /\ mem' = j
    /\ IF op \in {"commit", "advance"} \/ j.phase \in {6, 7, 9}
       THEN pc' = "done" /\ Idle
       ELSE pc' = "step" /\ UNCHANGED replay
    /\ UNCHANGED <<pkg, disk, booting, status, cuts, seen>>

\* The replay returns; at boot the loader comes next.
Return ==
    /\ pc = "done"
    /\ pc' = "up"
    /\ booting' = FALSE
    /\ seen' = IF booting THEN {Version(i) : i \in Changing} ELSE seen
    /\ UNCHANGED <<pkg, slots, disk, mem, slot, replay, status, cuts>>

-----------------------------------------------------------------------------
\* The loops of the three replays; each turn starts at "step".

IsNext(i) == i \in Used(mem) \ mem.committed /\ 1 .. i - 1 \subseteq mem.committed

Visit(i) ==
    /\ pc' = "mutate" /\ cursor' = i /\ leg' = "enter"
    /\ UNCHANGED <<mem, op, booting, status, seen>>

forward ==
    /\ pc = "step" /\ op = "forward"
    /\ \/ \E i \in Payload : IsNext(i) /\ Visit(i)
       \/ /\ mem.committed = Used(mem)
          /\ IF \A i \in Used(mem) : disk[i].t = "new"
             THEN /\ Persist([mem EXCEPT !.phase = 6])
                  /\ UNCHANGED <<replay, booting, status, seen>>
             ELSE Conflict
    /\ UNCHANGED <<pkg, slots, disk, slot, cuts>>

\* Mutant: only committed payloads are taken back.
rollbackCommitted ==
    /\ pc = "step" /\ op = "rollback"
    /\ \/ cursor = 0 /\ Persist([mem EXCEPT !.phase = 9])
          /\ UNCHANGED <<replay, booting, status, seen>>
       \/ cursor > 0 /\ cursor \in mem.committed /\ Visit(cursor)
       \/ cursor > 0 /\ cursor \notin mem.committed /\ Moved
    /\ UNCHANGED <<pkg, slots, disk, slot, cuts>>

\* Every payload is taken back again, also one already marked rolled back.
rollback ==
    /\ pc = "step" /\ op = "rollback"
    /\ \/ cursor = 0 /\ Persist([mem EXCEPT !.phase = 9])
          /\ UNCHANGED <<replay, booting, status, seen>>
       \/ cursor > 0 /\ replace_required(cursor) /\ Visit(cursor)
       \/ cursor > 0 /\ ~replace_required(cursor) /\ Moved
    /\ UNCHANGED <<pkg, slots, disk, slot, cuts>>

\* One payload: its own backup stays, the one of the package before goes.
cleanup ==
    /\ pc = "step" /\ op = "cleanup"
    /\ IF cursor > mem.n
       THEN /\ Persist([mem EXCEPT !.phase = 7])
            /\ UNCHANGED <<disk, replay, booting, status, seen>>
       ELSE IF Applied(cursor)
       THEN /\ disk' = [disk EXCEPT ![cursor].p = "none"]
            /\ cursor' = cursor + 1
            /\ UNCHANGED <<mem, pc, op, leg, booting, status, seen>>
       ELSE Halt(2) /\ UNCHANGED disk
    /\ UNCHANGED <<pkg, slots, slot, cuts>>

-----------------------------------------------------------------------------
\* The transition of one payload, forward or back, in legs: "forth" is
\* replace(t, s, b), "back" is replace(t, b, s), "clear" deletes the stage.

Turn(l) == leg' = l /\ UNCHANGED <<mem, pc, op, cursor, booting, status, seen>>

\* A target that has a backup name is first brought forward, then back.
transition ==
    LET i == cursor IN
    /\ pc = "mutate" /\ leg = "enter"
    /\ IF ~replace_required(i)
       THEN IF disk[i].t = "new" THEN Moved ELSE Conflict
       ELSE IF IF existed(i) THEN ~existing_allowed(i) ELSE ~create_allowed(i)
       THEN Conflict
       ELSE IF existed(i) /\ (Back \/ ~old_known(i)) /\ disk[i].b = "none"
       THEN Turn("clear")
       ELSE IF existed(i) /\ ~old_known(i) /\ disk[i].s # "new"
       THEN Conflict
       ELSE IF ~existed(i) /\ Back /\ "none" \in {disk[i].t, disk[i].s}
       THEN Turn("clear")
       ELSE Turn("forth")
    /\ UNCHANGED <<pkg, slots, disk, slot, cuts>>

\* What follows a finished replace: the check of its result, the next leg.
Forth(i) ==
    CASE existed(i) /\ ~old_known(i) -> Turn("back")
      [] existed(i) /\ old_known(i) /\ ~Applied(i) -> Conflict
      [] existed(i) /\ old_known(i) /\ Applied(i) -> IF Back THEN Turn("back") ELSE Moved
      [] OTHER -> IF Back THEN Turn("clear") ELSE IF Applied(i) THEN Moved ELSE Conflict

replaceStep(l, t, s, b) ==
    LET i == cursor
        d == disk[i]
    IN  /\ pc = "mutate" /\ leg = l
        /\ IF replaceRefused(i, d, t, s, b) THEN Conflict /\ UNCHANGED disk
           ELSE IF replaceDone(d, t, s)
           THEN (IF l = "forth" THEN Forth(i) ELSE Turn("clear")) /\ UNCHANGED disk
           ELSE /\ disk' = [disk EXCEPT ![i] = replaceWrite(d, t, s, b)]
                /\ UNCHANGED <<mem, pc, replay, booting, status, seen>>
        /\ UNCHANGED <<pkg, slots, slot, cuts>>

\* verify_existing(true), the end of legacy_rollback and of create_rollback.
clear ==
    LET i == cursor
        d == disk[i]
        gone == IF existed(i) THEN "s" ELSE IF d.t # "none" THEN "t" ELSE "s"
    IN  /\ pc = "mutate" /\ leg = "clear"
        /\ IF d.b # "none" \/ (existed(i) /\ d.t # "old") \/ d[gone] \notin {"none", "new"}
           THEN Conflict /\ UNCHANGED disk
           ELSE IF d[gone] = "none" THEN Moved /\ UNCHANGED disk
           ELSE /\ disk' = [disk EXCEPT ![i][gone] = "none"]
                /\ UNCHANGED <<mem, pc, replay, booting, status, seen>>
        /\ UNCHANGED <<pkg, slots, slot, cuts>>

-----------------------------------------------------------------------------
\* The updater, while the system is up.

Updates == pc = "up"

Staged(i) == replace_required(i) => disk[i].s = "new"

\* The updater stages a file under its final name in one step.
Stage(i) ==
    /\ Updates
    /\ mem.phase \in {0, 4}
    /\ i \in Used(mem) \ mem.committed
    /\ ~Staged(i)
    /\ disk' = [disk EXCEPT ![i].s = "new"]
    /\ UNCHANGED <<pkg, slots, mem, slot, pc, replay, booting, status, cuts, seen>>

Advance ==
    /\ Updates
    /\ LET all == mem.committed = Used(mem) IN
       \/ /\ mem.phase = 0 /\ \A i \in Used(mem) : Staged(i)
          /\ Persist([mem EXCEPT !.phase = 1])
       \/ ~pkg.batch /\ mem.phase = 1 /\ Persist([mem EXCEPT !.phase = 2])
       \/ ~pkg.batch /\ mem.phase = 2 /\ all /\ Persist([mem EXCEPT !.phase = 3])
       \/ mem.phase = 3 /\ Persist([mem EXCEPT !.phase = 4, !.n = N])
       \/ mem.phase \in {4, 6} /\ all /\ Persist([mem EXCEPT !.phase = 5])
    /\ op' = "advance"
    /\ UNCHANGED <<pkg, slots, disk, slot, cursor, leg, booting, status, cuts, seen>>

\* r4os_rust_sys_update_checked, for the next payload of a package without reboot.
CommitNext(i) ==
    /\ Updates
    /\ ~pkg.batch /\ mem.phase \in {2, 4}
    /\ IsNext(i) /\ Staged(i) /\ pkg.kind[i] # "legacy"
    /\ pc' = "mutate" /\ op' = "commit" /\ cursor' = i /\ leg' = "enter"
    /\ UNCHANGED <<pkg, slots, disk, mem, slot, booting, status, cuts, seen>>

\* r4os_rust_recovery_run, operations 1 and 3.
RunAtRuntime(o) ==
    /\ Updates
    /\ IF o = "cleanup" THEN mem.phase = 5 ELSE mem.phase \notin {5, 7, 9}
    /\ Begin(o, mem)
    /\ UNCHANGED <<pkg, slots, disk, slot, cuts>>

-----------------------------------------------------------------------------
\* Losing the power, and starting again.

Off ==
    /\ pc' = "off" /\ mem' = Blank /\ slot' = 0 /\ booting' = TRUE /\ status' = 0
    /\ Idle
    /\ UNCHANGED <<pkg, slots, disk, seen>>

Restart == pc \in {"up", "halt"} /\ Off /\ UNCHANGED cuts

Working == pc \in {"persist", "writing", "step", "mutate", "done"}

PowerCut == Working /\ cuts < MaxCuts /\ cuts' = cuts + 1 /\ Off

\* Every read, write and flush can fail; the replay gives up with status 3.
DeviceError ==
    /\ Working /\ cuts < MaxCuts /\ cuts' = cuts + 1
    /\ Halt(3)
    /\ UNCHANGED <<pkg, slots, disk, slot>>

-----------------------------------------------------------------------------
Init ==
    /\ pkg \in [batch : BOOLEAN, fs : {"fat", "ntfs"}, kind : [Payload -> Kinds]]
    /\ \E i \in Payload : replace_required(i)
    /\ \A i \in Payload : /\ pkg.kind[i] = "legacy" => ~pkg.batch
                          /\ pkg.kind[i] = "longname" => pkg.batch /\ pkg.fs = "fat"
    /\ disk = [i \in Payload |-> Original(i)]
    /\ mem = [phase |-> 0, committed |-> {}, rolled |-> {},
              n |-> IF pkg.batch THEN N ELSE N - 1, gen |-> 1]
    /\ slot = 0
    /\ slots = [k \in {0, 1} |-> IF k = 0 THEN [file |-> "whole", j |-> mem]
                                          ELSE [file |-> "absent", j |-> Blank]]
    /\ pc = "up" /\ op = "none" /\ cursor = 0 /\ leg = "none"
    /\ booting = FALSE /\ status = 0 /\ cuts = 0 /\ seen = {"old"}

Replay ==
    \/ recover_before_runtime
    \/ persistBegin \/ persistEnd \/ Return
    \/ forward \/ rollback \/ cleanup
    \/ transition
    \/ replaceStep("forth", "t", "s", "b")
    \/ replaceStep("back", "t", "b", "s")
    \/ clear

Updater ==
    \/ \E i \in Payload : Stage(i) \/ CommitNext(i)
    \/ Advance
    \/ \E o \in {"rollback", "cleanup"} : RunAtRuntime(o)

Next == Replay \/ Updater \/ Restart \/ PowerCut \/ DeviceError

Spec == Init /\ [][Next]_vars

\* Replay is one thread that never waits for anybody, and a machine that
\* stopped is switched on again; the updater and the faults owe nothing.
FairSpec == Spec /\ WF_vars(Replay) /\ WF_vars(pc = "halt" /\ Restart)

-----------------------------------------------------------------------------
\* The old file is always behind the target or the backup name, and the backup
\* of the package before goes only when this one is confirmed, wherever
\* rollback, forward, cleanup or a driver's replace is interrupted.
NothingLost ==
    \A i \in Payload :
        /\ existed(i) => "old" \in {disk[i].t, disk[i].b} \/ ~replace_required(i)
        /\ disk[i].p # Original(i).p => Durable.phase \in {5, 7}

\* Boot recovery stops only when a device failed: whatever the power cut left,
\* no journal is rejected as invalid and no arrangement of files as a conflict.
\* Assumed of the updater, which is not under src/: a staged file has its name
\* only once it is complete (Stage).  A partly written one under a journal of
\* phase 0 would be Content::Other, a conflict that stops the boot.
NeverStuck == pc = "halt" => status = 3 /\ Valid(mem)

\* A journal that says applied is right about every file of the package, with
\* the old file kept for a rollback; one that says rolled back has restored all.
TerminalExact ==
    /\ Durable.phase \in {5, 6, 7} => \A i \in Payload : Applied(i)
    /\ Durable.phase = 9 =>
         \A i \in Payload : disk[i] = Original(i)

Fate ==
    LET phase == Durable.phase IN
    CASE phase = 6 -> "trial"
      [] phase \in {5, 7} -> "applied"
      [] phase = 8 -> "undoing"
      [] phase = 9 -> "undone"
      [] OTHER -> "open"

Abstract == INSTANCE AtomicUpdate WITH fate <- Fate, seen <- seen

\* The loader sees all of the old package or all of the new one, and an applied
\* or rolled back package stays so (recover_before_runtime before the loader).
ImplementsAtomicUpdate == Abstract!Spec

\* However often the power fails (finitely often), the system comes up again.
RecoveryFinishes == []<>(pc = "up")
=============================================================================
