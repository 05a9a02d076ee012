---------------------------- MODULE UpdateProofs ----------------------------
(***************************************************************************)
(* Proofs about UpdateRecovery for every number of payloads, every mixture *)
(* of their kinds and every number of power cuts and device errors.        *)
(*                                                                         *)
(* The facts the code computes from pkg and disk are restated as operators *)
(* of constants (Orig, Done, WellFormed, Kept), so that lemmas about files *)
(* and journals speak of one value each; Restated links them to the model. *)
(***************************************************************************)
EXTENDS UpdateRecovery, TLAPS

AllKinds == {"replace", "create", "longname", "same", "legacy"}

Files == [t : {"none", "old", "new"}, s : {"none", "new"}, b : {"none", "old"},
          p : {"none", "prev"}]

Journal == [phase : 0 .. 9, committed : SUBSET Payload, rolled : SUBSET Payload,
            n : {N - 1, N}, gen : Nat]

\* Original(i) for a payload of kind k.
Orig(k) ==
    [t |-> IF k = "same" THEN "new" ELSE IF k \in {"replace", "legacy"} THEN "old" ELSE "none",
     s |-> "none", b |-> "none",
     p |-> IF k = "replace" THEN "prev" ELSE "none"]

\* Applied(i) for a payload of kind k with the files d.
Done(k, d) ==
    /\ d.t = "new"
    /\ k # "same" => d.s = "none"
    /\ k = "replace" => d.b = "old"
    /\ k = "legacy" => d.b # "none"
    /\ k \in {"create", "longname"} => d.b = "none"

\* The arrangements of the names of a payload that the writes of a replay,
\* interrupted anywhere and started again, lead through.
Arranged(k, fs, d) ==
    /\ d \in Files
    /\ k = "replace" =>
         /\ d.t = "none" => d.s = "new" /\ d.b = "old" /\ fs = "ntfs"
         /\ d.t = "old" /\ d.b = "old" => d.s = "new"
         /\ d.t = "new" => d.b = "old"
    /\ k = "legacy" => d.t = "old" /\ d.b = "none"
    /\ k = "same" => d.t = "new" /\ d.s = "none" /\ d.b = "none"
    /\ k \in {"create", "longname"} => d.t # "old" /\ d.b = "none"

\* Valid(j), batch or not.
WellFormed(batch, j) ==
    /\ j.committed \subseteq 1 .. j.n /\ j.rolled \subseteq 1 .. j.n
    /\ \A i \in j.committed : i \notin j.rolled
    /\ \A i \in j.committed : 1 .. i \subseteq j.committed
    /\ \A i \in j.rolled : i .. j.n \subseteq j.rolled
    /\ j.phase \in {0, 1} => j.committed = {}
    /\ j.phase \in {0, 1, 2, 4} => j.rolled = {}
    /\ j.phase \in {3, 5, 6, 7} => j.committed = 1 .. j.n
    /\ j.phase = 3 => j.n = N - 1
    /\ j.phase = 4 => j.n = N /\ 1 .. N - 1 \subseteq j.committed
    /\ j.phase = 6 => batch
    /\ j.phase = 9 => j.rolled = 1 .. j.n

\* How many payloads a journal in its phase covers.
Sized(batch, j) ==
    /\ batch \/ j.phase \in 4 .. 7 => j.n = N
    /\ ~batch /\ j.phase \in 0 .. 3 => j.n = N - 1

\* What journal j promises about the files of every payload.
Kept(kind, files, j) ==
    /\ j.phase \in 0 .. 7 => \A i \in j.committed : Done(kind[i], files[i])
    /\ j.phase \in {8, 9} => \A i \in j.rolled : files[i] = Orig(kind[i])
    /\ \A i \in Payload \ Used(j) : files[i] = Orig(kind[i])
    /\ j.phase \notin {5, 7} => \A i \in Payload : files[i].p = Orig(kind[i]).p

Sound(p, files, j) == WellFormed(p.batch, j) /\ Sized(p.batch, j) /\ Kept(p.kind, files, j)

\* Slot k holds the journal a boot continues from.
Newest(sl, k) ==
    /\ sl[k].file = "whole"
    /\ sl[1 - k].file = "whole" => sl[1 - k].j.gen < sl[k].j.gen

\* The phases that may follow one another on the disk.
Follows(p, q) ==
    \/ <<p, q>> \in {<<0, 1>>, <<1, 2>>, <<2, 2>>, <<2, 3>>, <<3, 4>>, <<4, 4>>,
                     <<4, 5>>, <<6, 5>>, <<2, 6>>, <<5, 7>>, <<8, 9>>}
    \/ p \notin {5, 7, 9} /\ q = 8

Packages == [batch : BOOLEAN, fs : {"fat", "ntfs"}, kind : [Payload -> Kinds]]

\* Init's choice of a package, which no step changes.
Packed ==
    /\ pkg \in Packages
    /\ \E i \in Payload : pkg.kind[i] # "same"
    /\ \A i \in Payload : /\ pkg.kind[i] = "legacy" => ~pkg.batch
                          /\ pkg.kind[i] = "longname" => pkg.batch /\ pkg.fs = "fat"

Typed ==
    /\ disk \in [Payload -> Files]
    /\ slots \in [{0, 1} -> [file : {"whole", "absent", "torn"}, j : Journal]]
    /\ mem \in Journal
    /\ slot \in {0, 1}
    /\ pc \in {"off", "persist", "writing", "step", "mutate", "done", "up", "halt"}
    /\ op \in {"none", "forward", "rollback", "cleanup", "commit", "advance"}
    /\ cursor \in Nat
    /\ leg \in {"none", "enter", "forth", "back", "clear"}
    /\ booting \in BOOLEAN

AllArranged == \A i \in Payload : Arranged(pkg.kind[i], pkg.fs, disk[i])

\* The rollback of journal j has come down to payload c.
DownTo(c, j) == c \in 0 .. j.n /\ \A i \in c + 1 .. j.n : i \in j.rolled

\* Payload c is the next one of journal j to go forward.
NextUp(c, j) == c \in 1 .. j.n /\ c \notin j.committed /\ 1 .. c - 1 \subseteq j.committed

AtStep ==
    /\ op \in {"forward", "rollback", "cleanup"}
    /\ op = "forward" => mem.phase = 2 /\ pkg.batch
    /\ op = "rollback" => mem.phase = 8 /\ DownTo(cursor, mem)
    /\ op = "cleanup" => mem.phase = 5 /\ cursor \in 1 .. mem.n + 1

AtMutate ==
    /\ op \in {"forward", "commit", "rollback"}
    /\ cursor \in 1 .. mem.n
    /\ op = "forward" => mem.phase = 2 /\ pkg.batch
    /\ op = "commit" => mem.phase \in {2, 4}
    /\ op # "rollback" => NextUp(cursor, mem) /\ pkg.kind[cursor] # "legacy"
    /\ op = "rollback" => mem.phase = 8 /\ DownTo(cursor, mem)

\* What leg l of the transition of a payload of kind k relies on.
OnLeg(l, k, d, back, rolled) ==
    /\ l # "none"
    /\ l # "enter" => k # "same"
    /\ l = "forth" => k # "legacy"
    /\ l = "forth" /\ back /\ k = "replace" => d.b = "old"
    /\ l = "forth" /\ back /\ k # "replace" => d.t = "new"
    /\ l = "back" => back /\ k = "replace"
    /\ l = "clear" => back /\ (k \in {"replace", "legacy"} => d.t = "old" /\ d.b = "none")
    /\ back /\ rolled => l \in {"enter", "clear"}

AtLeg == OnLeg(leg, pkg.kind[cursor], disk[cursor], Back, cursor \in mem.rolled)

AtPersist ==
    /\ Sound(pkg, disk, mem)
    /\ mem.gen = slots[slot].j.gen
    /\ Follows(slots[slot].j.phase, mem.phase)
    /\ op \in {"forward", "rollback", "cleanup", "commit", "advance"}
    /\ op = "forward" => mem.phase \in {2, 6} /\ pkg.batch
    /\ op = "rollback" => mem.phase \in {8, 9} /\ DownTo(cursor, mem)
    /\ op = "cleanup" => mem.phase = 7
    /\ op \in {"commit", "advance"} => mem.phase \in 1 .. 5

\* A running machine works on the newest journal.
Anchored == Newest(slots, slot) /\ Sound(pkg, disk, slots[slot].j)

Placed ==
    /\ pc \in {"step", "mutate", "done", "up"} => mem = slots[slot].j
    /\ pc = "step" => AtStep
    /\ pc = "mutate" => AtMutate /\ AtLeg
    /\ pc \in {"persist", "writing"} => AtPersist
    /\ pc = "writing" => slots[1 - slot].file # "whole"
    /\ pc = "done" /\ booting => mem.phase \in {6, 7, 9}
    /\ pc = "up" => ~booting
    /\ booting => op \notin {"commit", "advance"}
    /\ pc = "halt" => status = 3 /\ WellFormed(pkg.batch, mem)

IInv ==
    /\ Packed /\ Typed /\ AllArranged
    /\ pc = "off" => \E k \in {0, 1} : Newest(slots, k) /\ Sound(pkg, disk, slots[k].j)
    /\ pc # "off" => Anchored /\ Placed

-----------------------------------------------------------------------------
\* The operators of the model, restated.

\* A package holds only payloads of the five kinds.
LEMMA KindsOf ==
    ASSUME Packed, NEW i \in Payload
    PROVE  pkg.kind[i] \in AllKinds
  BY UpdateAssumption, Zenon DEF Packed, Packages, AllKinds

\* What a payload's record says, and how its files looked before the update.
LEMMA Restated ==
    ASSUME Packed, NEW i \in Payload
    PROVE  /\ existed(i) = (pkg.kind[i] \in {"replace", "same", "legacy"})
           /\ old_known(i) = (pkg.kind[i] \in {"replace", "same"})
           /\ replace_required(i) = (pkg.kind[i] # "same")
           /\ Original(i) = Orig(pkg.kind[i])
           /\ Applied(i) = Done(pkg.kind[i], disk[i])
  <1>1. pkg.kind[i] \in AllKinds
    BY KindsOf, Zenon
  <1>2. /\ existed(i) = (pkg.kind[i] \in {"replace", "same", "legacy"})
        /\ old_known(i) = (pkg.kind[i] \in {"replace", "same"})
        /\ replace_required(i) = (pkg.kind[i] # "same")
    BY Zenon DEF existed, old_known, replace_required
  <1>3. Original(i) = Orig(pkg.kind[i])
    BY <1>1, <1>2, Zenon DEF Original, Orig, AllKinds
  <1>4. Applied(i) = Done(pkg.kind[i], disk[i])
    BY <1>1, <1>2, Zenon DEF Applied, Done, AllKinds
  <1> QED BY <1>2, <1>3, <1>4, Zenon

\* The journal the code accepts is one that is well formed.
LEMMA ValidIs ==
    ASSUME NEW j \in Journal
    PROVE  Valid(j) <=> WellFormed(pkg.batch, j)
  <1>1. /\ j.phase \in 0 .. 9 /\ j.n \in {N - 1, N}
        /\ j.committed \subseteq Payload /\ j.rolled \subseteq Payload
    BY Zenon DEF Journal
  <1>2. N \in Nat \ {0, 1}
    BY UpdateAssumption, Zenon
  <1>3. j.committed \cap j.rolled = {} <=> \A i \in j.committed : i \notin j.rolled
    BY Zenon
  <1>4. CASE j.phase = 0
    BY <1>1, <1>3, <1>4 DEF Valid, WellFormed, Used
  <1>5. CASE j.phase = 1
    BY <1>1, <1>3, <1>5 DEF Valid, WellFormed, Used
  <1>6. CASE j.phase = 2
    BY <1>1, <1>3, <1>6 DEF Valid, WellFormed, Used
  <1>7. CASE j.phase = 3
    BY <1>1, <1>3, <1>7 DEF Valid, WellFormed, Used
  <1>8. CASE j.phase = 4
    BY <1>1, <1>3, <1>8 DEF Valid, WellFormed, Used
  <1>9. CASE j.phase = 5
    BY <1>1, <1>3, <1>9 DEF Valid, WellFormed, Used
  <1>10. CASE j.phase = 6
    BY <1>1, <1>3, <1>10 DEF Valid, WellFormed, Used
  <1>11. CASE j.phase = 7
    BY <1>1, <1>3, <1>11 DEF Valid, WellFormed, Used
  <1>12. CASE j.phase = 8
    BY <1>1, <1>3, <1>12 DEF Valid, WellFormed, Used
  <1>13. CASE j.phase = 9
    BY <1>1, <1>3, <1>13 DEF Valid, WellFormed, Used
  <1> QED BY <1>1, <1>4, <1>5, <1>6, <1>7, <1>8, <1>9, <1>10, <1>11, <1>12, <1>13

\* A boot finds exactly the newest of the two journals.
LEMMA DurableIs ==
    ASSUME slots \in [{0, 1} -> [file : {"whole", "absent", "torn"}, j : Journal]],
           NEW k \in {0, 1}, Newest(slots, k), WellFormed(pkg.batch, slots[k].j)
    PROVE  select = {k} /\ Durable = slots[k].j
  <1>1. Parsed(k)
    BY ValidIs, Zenon DEF Parsed, Newest
  <1>2. 1 - k \in {0, 1} /\ 1 - k # k /\ 1 - (1 - k) = k
    OBVIOUS
  <1>3. slots[k].j.gen \in Nat /\ slots[1 - k].j.gen \in Nat
    BY <1>2, Zenon DEF Journal
  <1>4. Parsed(1 - k) => slots[1 - k].j.gen < slots[k].j.gen
    BY Zenon DEF Parsed, Newest
  <1>5. select = {k}
    <2>1. CASE Parsed(1 - k)
      <3>1. {m \in {0, 1} : Parsed(m)} = {0, 1}
        BY <1>1, <1>2, <2>1, Zenon
      <3>2. \A m \in {0, 1} : slots[m].j.gen > slots[1 - m].j.gen <=> m = k
        BY <1>2, <1>3, <1>4, <2>1
      <3> QED BY <3>1, <3>2, Zenon DEF select
    <2>2. CASE ~Parsed(1 - k)
      <3>1. {m \in {0, 1} : Parsed(m)} = {k}
        BY <1>1, <1>2, <2>2, Zenon
      <3> QED BY <1>2, <3>1, Zenon DEF select
    <2> QED BY <2>1, <2>2, Zenon
  <1> QED BY <1>5, Zenon DEF Durable

-----------------------------------------------------------------------------
\* Journals: what each change a replay or the updater persists leaves.

\* A journal that only enters another phase keeps its marks.
LEMMA Rephased ==
    ASSUME NEW batch \in BOOLEAN, NEW j \in Journal, WellFormed(batch, j), Sized(batch, j),
           NEW q \in 1 .. 9,
           q = 1 => j.phase = 0,
           q = 2 => j.phase \in {1, 2},
           q = 3 => ~batch /\ j.phase = 2 /\ j.committed = 1 .. j.n,
           q # 4,
           q = 5 => j.phase \in {4, 6} /\ j.committed = 1 .. j.n,
           q = 6 => batch /\ j.phase = 2 /\ j.committed = 1 .. j.n,
           q = 7 => j.phase = 5,
           q = 9 => j.phase = 8 /\ j.rolled = 1 .. j.n
    PROVE  LET k == [j EXCEPT !.phase = q] IN
           k \in Journal /\ WellFormed(batch, k) /\ Sized(batch, k)
  <1> DEFINE k == [j EXCEPT !.phase = q]
  <1>1. /\ k \in Journal /\ k.phase = q /\ k.committed = j.committed /\ k.rolled = j.rolled
        /\ k.n = j.n
    BY DEF Journal
  <1>2. j.phase \in 0 .. 9 /\ j.n \in {N - 1, N} /\ N \in Nat \ {0, 1}
    BY UpdateAssumption, Zenon DEF Journal
  <1> HIDE DEF k
  <1>3. Sized(batch, k)
    BY <1>1, <1>2 DEF Sized
  <1>4. /\ k.committed \subseteq 1 .. k.n /\ k.rolled \subseteq 1 .. k.n
        /\ \A i \in k.committed : i \notin k.rolled
        /\ \A i \in k.committed : 1 .. i \subseteq k.committed
        /\ \A i \in k.rolled : i .. k.n \subseteq k.rolled
    BY <1>1, Zenon DEF WellFormed
  <1>5. k.phase = 3 => k.n = N - 1
    BY <1>1, <1>2 DEF Sized
  <1>6. /\ k.phase \in {0, 1} => k.committed = {}
        /\ k.phase \in {0, 1, 2, 4} => k.rolled = {}
    BY <1>1 DEF WellFormed
  <1>7. /\ k.phase \in {3, 5, 6, 7} => k.committed = 1 .. k.n
        /\ k.phase = 9 => k.rolled = 1 .. k.n
        /\ k.phase = 6 => batch
        /\ k.phase # 4
    BY <1>1, Zenon DEF WellFormed
  <1>8. WellFormed(batch, k)
    BY <1>4, <1>5, <1>6, <1>7, Zenon DEF WellFormed
  <1> QED BY <1>1, <1>3, <1>8, Zenon DEF k

\* The kernel payload of a package without reboot comes last.
LEMMA Extended ==
    ASSUME NEW batch \in BOOLEAN, NEW j \in Journal, WellFormed(batch, j), Sized(batch, j),
           j.phase = 3
    PROVE  LET k == [j EXCEPT !.phase = 4, !.n = N] IN
           k \in Journal /\ WellFormed(batch, k) /\ Sized(batch, k)
  <1> DEFINE k == [j EXCEPT !.phase = 4, !.n = N]
  <1>1. /\ k \in Journal /\ k.phase = 4 /\ k.committed = j.committed /\ k.rolled = j.rolled
        /\ k.n = N
    <2>1. 4 \in 0 .. 9 /\ N \in {N - 1, N}
      OBVIOUS
    <2>2. /\ k.phase = 4 /\ k.committed = j.committed /\ k.rolled = j.rolled
          /\ k.n = N /\ k.gen = j.gen
      BY Zenon DEF Journal
    <2>3. k \in Journal
      BY <2>1, Zenon DEF Journal
    <2> QED BY <2>2, <2>3, Zenon
  <1>2. N \in Nat \ {0, 1}
    BY UpdateAssumption, Zenon
  <1> HIDE DEF k
  <1>3. j.n = N - 1 /\ j.committed = 1 .. N - 1
    BY Zenon DEF WellFormed
  <1>4. j.rolled = {}
    BY <1>3, Zenon DEF WellFormed
  <1>5. Sized(batch, k)
    BY <1>1 DEF Sized
  <1>6. /\ k.committed \subseteq 1 .. k.n
        /\ \A i \in k.committed : 1 .. i \subseteq k.committed
    BY <1>1, <1>2, <1>3
  <1>7. WellFormed(batch, k)
    BY <1>1, <1>3, <1>4, <1>6 DEF WellFormed
  <1> QED BY <1>1, <1>5, <1>7, Zenon DEF k

\* Marking the next payload as committed.
LEMMA Committed ==
    ASSUME NEW batch \in BOOLEAN, NEW j \in Journal, WellFormed(batch, j), Sized(batch, j),
           j.phase \in {2, 4}, NEW c, NextUp(c, j)
    PROVE  LET k == [j EXCEPT !.committed = @ \cup {c}, !.rolled = @ \ {c}] IN
           k \in Journal /\ WellFormed(batch, k) /\ Sized(batch, k)
  <1> DEFINE k == [j EXCEPT !.committed = @ \cup {c}, !.rolled = @ \ {c}]
  <1>1. j.n \in {N - 1, N} /\ N \in Nat \ {0, 1} /\ j.rolled = {}
    BY UpdateAssumption, Zenon DEF Journal, WellFormed
  <1>2. c \in 1 .. j.n /\ c \in Payload /\ 1 .. c - 1 \subseteq j.committed
    BY <1>1 DEF NextUp, Payload
  <1>3. /\ k \in Journal /\ k.phase = j.phase /\ k.committed = j.committed \cup {c}
        /\ k.rolled = {} /\ k.n = j.n
    BY <1>1, <1>2, Zenon DEF Journal
  <1> HIDE DEF k
  <1>4. Sized(batch, k)
    BY <1>3, Zenon DEF Sized
  <1>5. k.committed \subseteq 1 .. k.n
    BY <1>2, <1>3, Zenon DEF WellFormed
  <1>6. ASSUME NEW i \in k.committed PROVE 1 .. i \subseteq k.committed
    <2>1. CASE i = c
      BY <1>1, <1>2, <1>3, <2>1
    <2>2. CASE i \in j.committed
      BY <1>3, <2>2, Zenon DEF WellFormed
    <2> QED BY <1>3, <1>6, <2>1, <2>2, Zenon
  <1>7. k.phase = 4 => k.n = N /\ 1 .. N - 1 \subseteq k.committed
    BY <1>3, Zenon DEF WellFormed
  <1>8. WellFormed(batch, k)
    <2>1. \A i \in k.committed : i \notin k.rolled
      BY <1>3, Zenon
    <2>2. \A i \in k.rolled : i .. k.n \subseteq k.rolled
      BY <1>3, Zenon
    <2>3. k.rolled \subseteq 1 .. k.n /\ k.phase \in {2, 4}
      BY <1>3, Zenon
    <2>4. CASE k.phase = 2
      BY <1>3, <1>5, <1>6, <2>1, <2>2, <2>3, <2>4 DEF WellFormed
    <2>5. CASE k.phase = 4
      BY <1>3, <1>5, <1>6, <1>7, <2>1, <2>2, <2>3, <2>5 DEF WellFormed
    <2> QED BY <2>3, <2>4, <2>5, Zenon
  <1> QED BY <1>3, <1>4, <1>8, Zenon DEF k

\* Marking a payload as rolled back, when all behind it are.
LEMMA TakenBack ==
    ASSUME NEW batch \in BOOLEAN, NEW j \in Journal, WellFormed(batch, j), Sized(batch, j),
           j.phase = 8, NEW c \in Nat \ {0}, DownTo(c, j), c \notin j.rolled
    PROVE  LET k == [j EXCEPT !.committed = @ \ {c}, !.rolled = @ \cup {c}] IN
           k \in Journal /\ WellFormed(batch, k) /\ Sized(batch, k) /\ DownTo(c - 1, k)
  <1> DEFINE k == [j EXCEPT !.committed = @ \ {c}, !.rolled = @ \cup {c}]
  <1>1. j.n \in {N - 1, N} /\ N \in Nat \ {0, 1}
    BY UpdateAssumption, Zenon DEF Journal
  <1>2. c \in 1 .. j.n /\ c \in Payload /\ \A i \in c + 1 .. j.n : i \in j.rolled
    BY <1>1 DEF DownTo, Payload
  <1>3. /\ k \in Journal /\ k.phase = 8 /\ k.committed = j.committed \ {c}
        /\ k.rolled = j.rolled \cup {c} /\ k.n = j.n
    BY <1>1, <1>2, Zenon DEF Journal
  <1> HIDE DEF k
  <1>4. Sized(batch, k)
    BY <1>3, Zenon DEF Sized
  <1>5. k.committed \subseteq 1 .. k.n /\ k.rolled \subseteq 1 .. k.n
    BY <1>2, <1>3, Zenon DEF WellFormed
  <1>6. ASSUME NEW i \in j.committed PROVE i \in 1 .. c
    BY <1>1, <1>2, <1>6 DEF WellFormed
  <1>7. ASSUME NEW i \in k.committed PROVE 1 .. i \subseteq k.committed
    <2>1. i \in j.committed /\ i # c /\ 1 .. i \subseteq j.committed
      BY <1>3, <1>7, Zenon DEF WellFormed
    <2>2. i \in 1 .. c
      BY <1>6, <2>1, Zenon
    <2> QED BY <1>1, <1>2, <1>3, <2>1, <2>2
  <1>8. ASSUME NEW i \in k.rolled PROVE i .. k.n \subseteq k.rolled
    <2>1. CASE i = c
      BY <1>1, <1>2, <1>3, <2>1
    <2>2. CASE i \in j.rolled
      BY <1>3, <2>2, Zenon DEF WellFormed
    <2> QED BY <1>3, <1>8, <2>1, <2>2, Zenon
  <1>9. \A i \in k.committed : i \notin k.rolled
    BY <1>3, Zenon DEF WellFormed
  <1>10. WellFormed(batch, k)
    BY <1>3, <1>5, <1>7, <1>8, <1>9 DEF WellFormed
  <1>11. DownTo(c - 1, k)
    BY <1>1, <1>2, <1>3 DEF DownTo
  <1> QED BY <1>3, <1>4, <1>10, <1>11, Zenon DEF k

-----------------------------------------------------------------------------
\* The promises of a journal, kept through the changes of it and of the files.

\* Outside a rollback no payload is marked as rolled back.
LEMMA NothingRolled ==
    ASSUME NEW batch, NEW j, WellFormed(batch, j), j.phase \in 0 .. 7
    PROVE  j.rolled = {}
  <1>1. CASE j.phase \in {0, 1, 2, 4}
    BY <1>1, Zenon DEF WellFormed
  <1>2. CASE j.phase \in {3, 5, 6, 7}
    <2>1. j.committed = 1 .. j.n /\ j.rolled \subseteq 1 .. j.n
      BY <1>2, Zenon DEF WellFormed
    <2>2. \A i \in j.committed : i \notin j.rolled
      BY Zenon DEF WellFormed
    <2> QED BY <2>1, <2>2, Zenon
  <1> QED BY <1>1, <1>2

\* Entering the next phase promises nothing that is not so already.
LEMMA KeptOn ==
    ASSUME NEW batch, NEW kind, NEW files, NEW j \in Journal, NEW k \in Journal,
           WellFormed(batch, j), Kept(kind, files, j),
           k.committed = j.committed, k.rolled = j.rolled, k.n = j.n \/ k.n = N,
           Follows(j.phase, k.phase)
    PROVE  Kept(kind, files, k)
  <1>1. /\ j.phase \in 0 .. 9 /\ k.phase \in 0 .. 9
        /\ j.n \in {N - 1, N} /\ N \in Nat \ {0, 1}
    BY UpdateAssumption, Zenon DEF Journal
  <1>2. /\ k.phase \in 0 .. 7 => j.phase \in 0 .. 7
        /\ k.phase = 9 => j.phase = 8
        /\ k.phase \notin {5, 7} => j.phase \notin {5, 7}
    BY <1>1 DEF Follows
  <1>3. k.phase \in 0 .. 7 => \A i \in k.committed : Done(kind[i], files[i])
    BY <1>2, Zenon DEF Kept
  <1>4. k.phase \in {8, 9} => \A i \in k.rolled : files[i] = Orig(kind[i])
    <2>1. CASE j.phase \in {8, 9}
      BY <2>1, Zenon DEF Kept
    <2>2. CASE j.phase \in 0 .. 7
      BY <2>2, NothingRolled, Zenon
    <2> QED BY <1>1, <2>1, <2>2
  <1>5. \A i \in Payload \ Used(k) : files[i] = Orig(kind[i])
    BY <1>1, Zenon DEF Kept, Used, Payload
  <1>6. k.phase \notin {5, 7} => \A i \in Payload : files[i].p = Orig(kind[i]).p
    BY <1>2, Zenon DEF Kept
  <1> QED BY <1>3, <1>4, <1>5, <1>6, Zenon DEF Kept

\* A payload that is applied may be marked as committed.
LEMMA KeptCommitted ==
    ASSUME NEW kind, NEW files, NEW j \in Journal, NEW c, Kept(kind, files, j),
           j.phase \in {2, 4}, Done(kind[c], files[c])
    PROVE  Kept(kind, files, [j EXCEPT !.committed = @ \cup {c}, !.rolled = @ \ {c}])
  <1> DEFINE k == [j EXCEPT !.committed = @ \cup {c}, !.rolled = @ \ {c}]
  <1>1. k.phase = j.phase /\ k.committed = j.committed \cup {c} /\ k.n = j.n
    BY Zenon DEF Journal
  <1> HIDE DEF k
  <1>2. \A i \in k.committed : Done(kind[i], files[i])
    BY <1>1 DEF Kept
  <1>3. \A i \in Payload \ Used(k) : files[i] = Orig(kind[i])
    BY <1>1, Zenon DEF Kept, Used
  <1>4. \A i \in Payload : files[i].p = Orig(kind[i]).p
    BY DEF Kept
  <1>5. k.phase \notin {8, 9}
    BY <1>1
  <1>6. Kept(kind, files, k)
    BY <1>2, <1>3, <1>4, <1>5, Zenon DEF Kept
  <1> QED BY <1>6, Zenon DEF k

\* A payload that is as it was before may be marked as rolled back.
LEMMA KeptTakenBack ==
    ASSUME NEW kind, NEW files, NEW j \in Journal, NEW c, Kept(kind, files, j),
           j.phase = 8, files[c] = Orig(kind[c])
    PROVE  Kept(kind, files, [j EXCEPT !.committed = @ \ {c}, !.rolled = @ \cup {c}])
  <1> DEFINE k == [j EXCEPT !.committed = @ \ {c}, !.rolled = @ \cup {c}]
  <1>1. k.phase = 8 /\ k.rolled = j.rolled \cup {c} /\ k.n = j.n
    BY Zenon DEF Journal
  <1> HIDE DEF k
  <1>2. \A i \in k.rolled : files[i] = Orig(kind[i])
    BY <1>1, Zenon DEF Kept
  <1>3. \A i \in Payload \ Used(k) : files[i] = Orig(kind[i])
    BY <1>1, Zenon DEF Kept, Used
  <1>4. \A i \in Payload : files[i].p = Orig(kind[i]).p
    BY DEF Kept
  <1>5. Kept(kind, files, k)
    BY <1>1, <1>2, <1>3, <1>4 DEF Kept
  <1> QED BY <1>5, Zenon DEF k

\* The files of a payload that carries no mark may change.
LEMMA KeptWritten ==
    ASSUME NEW kind, NEW files \in [Payload -> Files], NEW j, NEW c \in 1 .. j.n, NEW d,
           Kept(kind, files, j), c \in Payload, d.p = files[c].p,
           j.phase \in 0 .. 7 => c \notin j.committed,
           j.phase \in {8, 9} => c \notin j.rolled,
           j.committed \subseteq Payload, j.rolled \subseteq Payload
    PROVE  Kept(kind, [files EXCEPT ![c] = d], j)
  <1> DEFINE new == [files EXCEPT ![c] = d]
  <1>1. new[c] = d /\ \A i \in Payload : i # c => new[i] = files[i]
    BY Zenon
  <1> HIDE DEF new
  <1>2. j.phase \in 0 .. 7 => \A i \in j.committed : Done(kind[i], new[i])
    BY <1>1, Zenon DEF Kept
  <1>3. j.phase \in {8, 9} => \A i \in j.rolled : new[i] = Orig(kind[i])
    BY <1>1, Zenon DEF Kept
  <1>4. \A i \in Payload \ Used(j) : new[i] = Orig(kind[i])
    BY <1>1, Zenon DEF Kept, Used
  <1>5. j.phase \notin {5, 7} => \A i \in Payload : new[i].p = Orig(kind[i]).p
    BY <1>1, Zenon DEF Kept
  <1>6. Kept(kind, new, j)
    BY <1>2, <1>3, <1>4, <1>5, Zenon DEF Kept
  <1> QED BY <1>6, Zenon DEF new

\* Cleanup touches no file that a confirmed package needs.
LEMMA KeptCleaned ==
    ASSUME NEW kind, NEW files \in [Payload -> Files], NEW j, NEW c \in 1 .. j.n,
           Kept(kind, files, j), c \in Payload, j.phase = 5, j.committed \subseteq Payload
    PROVE  Kept(kind, [files EXCEPT ![c].p = "none"], j)
  <1> DEFINE new == [files EXCEPT ![c].p = "none"]
  <1>1. /\ new[c].t = files[c].t /\ new[c].s = files[c].s /\ new[c].b = files[c].b
        /\ \A i \in Payload : i # c => new[i] = files[i]
    BY DEF Files
  <1> HIDE DEF new
  <1>2. \A i \in j.committed : Done(kind[i], new[i])
    <2>1. \A i \in j.committed : Done(kind[i], files[i])
      BY DEF Kept
    <2>2. ASSUME NEW i \in j.committed PROVE Done(kind[i], new[i])
      <3>1. Done(kind[i], files[i])
        BY <2>1, Zenon
      <3>2. new[i].t = files[i].t /\ new[i].s = files[i].s /\ new[i].b = files[i].b
        BY <1>1, Zenon
      <3> QED BY <3>1, <3>2, Zenon DEF Done
    <2> QED BY <2>2, Zenon
  <1>3. \A i \in Payload \ Used(j) : new[i] = Orig(kind[i])
    BY <1>1, Zenon DEF Kept, Used
  <1>4. Kept(kind, new, j)
    BY <1>2, <1>3 DEF Kept
  <1> QED BY <1>4, Zenon DEF new

-----------------------------------------------------------------------------
\* Files: what the writes of a replace do to one payload.

\* Before the update every payload is in one of the arrangements.
LEMMA OrigArranged ==
    ASSUME NEW k \in AllKinds, NEW fs
    PROVE  Orig(k) \in Files /\ Arranged(k, fs, Orig(k))
  <1>1. Orig(k) \in Files
    BY Zenon DEF Orig, Files, AllKinds
  <1> QED BY <1>1, Zenon DEF Arranged, Orig, AllKinds

\* A write of the forward replace leads to the next arrangement, and keeps the
\* backup, or the created target, that it may be brought back with.
LEMMA ForthWrite ==
    ASSUME NEW k \in AllKinds \ {"same", "legacy"}, NEW d, Arranged(k, pkg.fs, d),
           NEW i, pkg.kind[i] = k, pkg.fs \in {"fat", "ntfs"},
           ~replaceRefused(i, d, "t", "s", "b"), ~replaceDone(d, "t", "s")
    PROVE  LET w == replaceWrite(d, "t", "s", "b") IN
           /\ Arranged(k, pkg.fs, w) /\ w.p = d.p
           /\ d.b = "old" => w.b = "old"
           /\ k # "replace" /\ d.t = "new" => w.t = "new"
  <1> DEFINE w == replaceWrite(d, "t", "s", "b")
  <1>1. d \in Files
    BY Zenon DEF Arranged
  <1>2. d["t"] = d.t /\ d["s"] = d.s /\ d["b"] = d.b
    BY Zenon
  <1>3. CASE d.t = d.s
    <2>1. w = [d EXCEPT !.s = "none"]
      BY <1>2, <1>3, Zenon DEF replaceWrite
    <2>2. w \in Files /\ w.t = d.t /\ w.s = "none" /\ w.b = d.b /\ w.p = d.p
      BY <1>1, <2>1, Zenon DEF Files
    <2>3. d.t = "new"
      BY <1>1, <1>2, <1>3, Zenon DEF replaceRefused, Files
    <2> HIDE DEF w
    <2>4. Arranged(k, pkg.fs, w)
      BY <2>2, <2>3, Zenon DEF Arranged, AllKinds
    <2> QED BY <2>2, <2>4, Zenon DEF w
  <1>4. CASE d.t # d.s /\ d.t = "none"
    <2>1. w = [d EXCEPT !.t = d.s]
      BY <1>2, <1>4, Zenon DEF replaceWrite
    <2>2. w \in Files /\ w.t = d.s /\ w.s = d.s /\ w.b = d.b /\ w.p = d.p
      BY <1>1, <2>1, Zenon DEF Files
    <2>3. d.s = "new"
      BY <1>1, <1>4, Zenon DEF Files
    <2> HIDE DEF w
    <2>4. Arranged(k, pkg.fs, w)
      BY <1>4, <2>2, <2>3, Zenon DEF Arranged, AllKinds
    <2> QED BY <1>4, <2>2, <2>4, Zenon DEF w
  <1>5. CASE d.t # d.s /\ d.t # "none"
    <2>1. d.s = "new" /\ d.t = "old" /\ k = "replace"
      BY <1>1, <1>2, <1>5, Zenon DEF replaceDone, Files, Arranged, AllKinds
    <2>2. CASE d.b = "none"
      <3>1. w = [d EXCEPT !.b = d.t]
        BY <1>2, <1>5, <2>2, Zenon DEF replaceWrite
      <3>2. w \in Files /\ w.t = "old" /\ w.s = "new" /\ w.b = "old" /\ w.p = d.p
        BY <1>1, <2>1, <3>1, Zenon DEF Files
      <3> HIDE DEF w
      <3>3. Arranged(k, pkg.fs, w)
        BY <2>1, <3>2, Zenon DEF Arranged
      <3> QED BY <2>1, <2>2, <3>2, <3>3, Zenon DEF w
    <2>3. CASE d.b # "none"
      <3>1. w = [d EXCEPT !.t = IF pkg.fs = "fat" THEN d.s ELSE "none"]
        BY <1>2, <1>5, <2>3, Zenon DEF replaceWrite
      <3>2. /\ w \in Files /\ w.s = "new" /\ w.b = "old" /\ w.p = d.p
            /\ w.t = IF pkg.fs = "fat" THEN "new" ELSE "none"
        BY <1>1, <2>1, <2>3, <3>1, Zenon DEF Files
      <3> HIDE DEF w
      <3>3. Arranged(k, pkg.fs, w)
        BY <2>1, <3>2, Zenon DEF Arranged
      <3> QED BY <2>1, <3>2, <3>3, Zenon DEF w
    <2> QED BY <2>2, <2>3, Zenon
  <1> QED BY <1>3, <1>4, <1>5, Zenon

\* A write of the replace that takes a payload back, from the backup name.
LEMMA BackWrite ==
    ASSUME NEW d, Arranged("replace", pkg.fs, d), pkg.fs \in {"fat", "ntfs"},
           ~replaceDone(d, "t", "b")
    PROVE  LET w == replaceWrite(d, "t", "b", "s") IN
           Arranged("replace", pkg.fs, w) /\ w.p = d.p
  <1> DEFINE w == replaceWrite(d, "t", "b", "s")
  <1>1. d \in Files
    BY Zenon DEF Arranged
  <1>2. d["t"] = d.t /\ d["s"] = d.s /\ d["b"] = d.b
    BY Zenon
  <1>3. d.b = "old"
    BY <1>1, <1>2, Zenon DEF replaceDone, Files, Arranged
  <1>4. CASE d.t = "old"
    <2>1. w = [d EXCEPT !.b = "none"]
      BY <1>2, <1>3, <1>4, Zenon DEF replaceWrite
    <2>2. w \in Files /\ w.t = "old" /\ w.b = "none" /\ w.p = d.p
      BY <1>1, <1>4, <2>1, Zenon DEF Files
    <2> HIDE DEF w
    <2>3. Arranged("replace", pkg.fs, w)
      BY <2>2, Zenon DEF Arranged
    <2> QED BY <2>2, <2>3, Zenon DEF w
  <1>5. CASE d.t = "none"
    <2>1. w = [d EXCEPT !.t = d.b]
      BY <1>2, <1>3, <1>5, Zenon DEF replaceWrite
    <2>2. d.s = "new"
      BY <1>5, Zenon DEF Arranged
    <2>3. w \in Files /\ w.t = "old" /\ w.b = "old" /\ w.s = "new" /\ w.p = d.p
      BY <1>1, <1>3, <2>1, <2>2, Zenon DEF Files
    <2> HIDE DEF w
    <2>4. Arranged("replace", pkg.fs, w)
      BY <2>3, Zenon DEF Arranged
    <2> QED BY <2>3, <2>4, Zenon DEF w
  <1>6. CASE d.t = "new" /\ d.s = "none"
    <2>1. w = [d EXCEPT !.s = d.t]
      BY <1>2, <1>3, <1>6, Zenon DEF replaceWrite
    <2>2. w \in Files /\ w.t = "new" /\ w.b = "old" /\ w.p = d.p
      BY <1>1, <1>3, <1>6, <2>1, Zenon DEF Files
    <2> HIDE DEF w
    <2>3. Arranged("replace", pkg.fs, w)
      BY <2>2, Zenon DEF Arranged
    <2> QED BY <2>2, <2>3, Zenon DEF w
  <1>7. CASE d.t = "new" /\ d.s = "new"
    <2>1. w = [d EXCEPT !.t = IF pkg.fs = "fat" THEN d.b ELSE "none"]
      BY <1>2, <1>3, <1>7, Zenon DEF replaceWrite
    <2>2. /\ w \in Files /\ w.s = "new" /\ w.b = "old" /\ w.p = d.p
          /\ w.t = IF pkg.fs = "fat" THEN "old" ELSE "none"
      BY <1>1, <1>3, <1>7, <2>1, Zenon DEF Files
    <2> HIDE DEF w
    <2>3. Arranged("replace", pkg.fs, w)
      BY <2>2, Zenon DEF Arranged
    <2> QED BY <2>2, <2>3, Zenon DEF w
  <1> QED BY <1>1, <1>4, <1>5, <1>6, <1>7, Zenon DEF Files

\* On the way back no driver refuses an arrangement it can meet.
LEMMA NotRefused ==
    ASSUME NEW k \in AllKinds, NEW d, Arranged(k, pkg.fs, d), NEW i
    PROVE  /\ k = "replace" /\ d.b = "old" => ~replaceRefused(i, d, "t", "s", "b")
           /\ k \in {"create", "longname"} /\ d.t = "new" => ~replaceRefused(i, d, "t", "s", "b")
           /\ k = "replace" => ~replaceRefused(i, d, "t", "b", "s")
  <1>1. d \in Files
    BY Zenon DEF Arranged
  <1>2. d["t"] = d.t /\ d["s"] = d.s /\ d["b"] = d.b
    BY Zenon
  <1>3. k = "replace" /\ d.b = "old" => ~replaceRefused(i, d, "t", "s", "b")
    BY <1>1, <1>2, Zenon DEF replaceRefused, Files, Arranged
  <1>4. k \in {"create", "longname"} /\ d.t = "new" => ~replaceRefused(i, d, "t", "s", "b")
    BY <1>1, <1>2, Zenon DEF replaceRefused, Files, Arranged
  <1>5. k = "replace" => ~replaceRefused(i, d, "t", "b", "s")
    BY <1>1, <1>2, Zenon DEF replaceRefused, Files, Arranged
  <1> QED BY <1>3, <1>4, <1>5, Zenon

\* A replace that is over has brought the payload where it should be.
LEMMA ReplaceOver ==
    ASSUME NEW d, Arranged("replace", pkg.fs, d)
    PROVE  /\ replaceDone(d, "t", "s") /\ d.b = "old" => Done("replace", d)
           /\ replaceDone(d, "t", "b") => d.t = "old" /\ d.b = "none"
  <1>1. d \in Files
    BY Zenon DEF Arranged
  <1>2. d["t"] = d.t /\ d["s"] = d.s /\ d["b"] = d.b
    BY Zenon
  <1>3. replaceDone(d, "t", "s") /\ d.b = "old" => Done("replace", d)
    BY <1>1, <1>2, Zenon DEF replaceDone, Files, Arranged, Done
  <1>4. replaceDone(d, "t", "b") => d.t = "old" /\ d.b = "none"
    BY <1>1, <1>2, Zenon DEF replaceDone, Files, Arranged
  <1> QED BY <1>3, <1>4, Zenon

\* Deleting the stage of a replaced file, or a created file.
LEMMA ClearWrite ==
    ASSUME NEW k \in AllKinds \ {"same"}, NEW fs, NEW d, Arranged(k, fs, d),
           k \in {"replace", "legacy"} => d.t = "old" /\ d.b = "none"
    PROVE  /\ LET w == [d EXCEPT !.s = "none"] IN
              Arranged(k, fs, w) /\ w.p = d.p /\ w.t = d.t /\ w.b = d.b
           /\ k \in {"create", "longname"} =>
                LET w == [d EXCEPT !.t = "none"] IN Arranged(k, fs, w) /\ w.p = d.p
  <1>1. d \in Files
    BY Zenon DEF Arranged
  <1> DEFINE v == [d EXCEPT !.s = "none"]
             w == [d EXCEPT !.t = "none"]
  <1>2. v \in Files /\ v.s = "none" /\ v.t = d.t /\ v.b = d.b /\ v.p = d.p
    BY <1>1, Zenon DEF Files
  <1>3. w \in Files /\ w.t = "none" /\ w.b = d.b /\ w.p = d.p
    BY <1>1, Zenon DEF Files
  <1> HIDE DEF v, w
  <1>4. Arranged(k, fs, v)
    BY <1>2, Zenon DEF Arranged, AllKinds
  <1>5. k \in {"create", "longname"} => Arranged(k, fs, w)
    BY <1>3, Zenon DEF Arranged
  <1> QED BY <1>2, <1>3, <1>4, <1>5, Zenon DEF v, w

\* Once that is done, and the older backup is untouched, all is as before.
LEMMA Cleared ==
    ASSUME NEW k \in AllKinds \ {"same"}, NEW fs, NEW d, Arranged(k, fs, d), d.p = Orig(k).p,
           d.s = "none", k \in {"replace", "legacy"} => d.t = "old" /\ d.b = "none",
           k \in {"create", "longname"} => d.t = "none"
    PROVE  d = Orig(k)
  <1>1. d \in Files
    BY Zenon DEF Arranged
  <1>2. d.t = Orig(k).t /\ d.b = Orig(k).b /\ d.s = Orig(k).s
    BY Zenon DEF Orig, AllKinds, Arranged
  <1>3. Orig(k) \in Files
    BY OrigArranged, Zenon
  <1> QED BY <1>1, <1>2, <1>3 DEF Files

-----------------------------------------------------------------------------
\* Ways of going on: the parts that the handlers share.

\* A step that leaves journals and files alone has only its place to account for.
LEMMA Arrive ==
    ASSUME IInv, NEW k \in {0, 1}, Newest(slots, k), Sound(pkg, disk, slots[k].j),
           UNCHANGED <<pkg, slots, disk>>, slot' = k, pc' # "off", Typed', Placed'
    PROVE  IInv'
  <1>1. Packed' /\ AllArranged'
    BY Zenon DEF IInv, Packed, AllArranged
  <1>2. Anchored'
    BY Zenon DEF Anchored
  <1> QED BY <1>1, <1>2, Zenon DEF IInv

\* The types of what a step that only persists journal j leaves.
LEMMA PersistKeeps ==
    ASSUME IInv, NEW k \in {0, 1}, Newest(slots, k), Sound(pkg, disk, slots[k].j),
           UNCHANGED <<pkg, slots, disk>>, slot' = k,
           NEW j \in Journal, Persist(j), Sound(pkg, disk, j), j.gen = slots[k].j.gen,
           Follows(slots[k].j.phase, j.phase),
           op' \in {"forward", "rollback", "cleanup", "commit", "advance"},
           cursor' \in Nat, leg' \in {"none", "enter", "forth", "back", "clear"},
           op' = "forward" => j.phase \in {2, 6} /\ pkg.batch,
           op' = "rollback" => j.phase \in {8, 9} /\ DownTo(cursor', j),
           op' = "cleanup" => j.phase = 7,
           op' \in {"commit", "advance"} => j.phase \in 1 .. 5,
           booting' \in BOOLEAN, booting' => op' \notin {"commit", "advance"}
    PROVE  IInv'
  <1>1. pc' = "persist" /\ mem' = j
    BY Zenon DEF Persist
  <1>2. Typed'
    BY <1>1, Zenon DEF IInv, Typed
  <1>3. AtPersist'
    BY <1>1, Zenon DEF AtPersist
  <1>4. Placed'
    BY <1>1, <1>3, Zenon DEF Placed
  <1> QED BY <1>1, <1>2, <1>4, Arrive, Zenon

\* A journal that is sound has a phase, a size and marks of their types.
LEMMA SoundParts ==
    ASSUME NEW j, Sound(pkg, disk, j)
    PROVE  WellFormed(pkg.batch, j) /\ Sized(pkg.batch, j) /\ Kept(pkg.kind, disk, j)
  BY Zenon DEF Sound

\* Entering another phase keeps a journal sound.
LEMMA SoundRephased ==
    ASSUME IInv, NEW j \in Journal, Sound(pkg, disk, j), NEW q \in 1 .. 9,
           NEW k, k = [j EXCEPT !.phase = q], Follows(j.phase, q), q # 4, q = 2 => j.phase # 4,
           q = 3 => ~pkg.batch /\ j.committed = 1 .. j.n,
           q = 5 => j.committed = 1 .. j.n,
           q = 6 => pkg.batch /\ j.committed = 1 .. j.n,
           q = 9 => j.rolled = 1 .. j.n
    PROVE  /\ k \in Journal /\ Sound(pkg, disk, k)
           /\ k.committed = j.committed /\ k.rolled = j.rolled /\ k.n = j.n /\ k.phase = q
           /\ k.gen = j.gen
  <1>1. pkg.batch \in BOOLEAN
    BY Zenon DEF IInv, Packed, Packages
  <1>2. /\ q = 1 => j.phase = 0
        /\ q = 2 => j.phase \in {1, 2}
        /\ q = 3 => j.phase = 2
        /\ q = 5 => j.phase \in {4, 6}
        /\ q = 6 => j.phase = 2
        /\ q = 7 => j.phase = 5
        /\ q = 9 => j.phase = 8
    BY DEF Follows
  <1>3. k \in Journal /\ WellFormed(pkg.batch, k) /\ Sized(pkg.batch, k)
    BY <1>1, <1>2, SoundParts, Rephased, Zenon
  <1>4. /\ k.committed = j.committed /\ k.rolled = j.rolled /\ k.n = j.n /\ k.phase = q
        /\ k.gen = j.gen
    BY Zenon DEF Journal
  <1>5. Kept(pkg.kind, disk, k)
    BY <1>3, <1>4, SoundParts, KeptOn, Zenon
  <1>6. Sound(pkg, disk, k)
    BY <1>3, <1>5, Zenon DEF Sound
  <1> QED BY <1>3, <1>4, <1>6, Zenon

\* Beginning a replay that the journal calls for never stops the machine.
LEMMA BeginKeeps ==
    ASSUME IInv, NEW k \in {0, 1}, Newest(slots, k), Sound(pkg, disk, slots[k].j),
           UNCHANGED <<pkg, slots, disk>>, slot' = k,
           NEW o \in {"none", "forward", "rollback", "cleanup"}, Begin(o, slots[k].j),
           o = "none" => slots[k].j.phase \in {6, 7, 9},
           o = "forward" => pkg.batch /\ slots[k].j.phase \in {1, 2},
           o = "rollback" => slots[k].j.phase \notin {5, 7, 9},
           o = "cleanup" => slots[k].j.phase = 5
    PROVE  IInv'
  <1> DEFINE j == slots[k].j
  <1>1. /\ j \in Journal /\ booting \in BOOLEAN
        /\ \A i \in Payload : Applied(i) = Done(pkg.kind[i], disk[i])
    BY Restated, Zenon DEF IInv, Typed
  <1>2. WellFormed(pkg.batch, j) /\ Sized(pkg.batch, j) /\ Kept(pkg.kind, disk, j) /\ Valid(j)
    BY <1>1, SoundParts, ValidIs, Zenon
  <1>4. Sound(pkg, disk, j)
    BY Zenon
  <1>3. /\ j.phase \in 0 .. 9 /\ j.n \in Nat /\ j.n <= N /\ N \in Nat
        /\ j.n >= 1
    BY <1>1, UpdateAssumption DEF Journal
  <1>5. CASE o = "none"
    <2>1. pc' = "done" /\ mem' = j /\ Idle /\ UNCHANGED booting
      BY <1>5, Zenon DEF Begin
    <2>2. Typed'
      BY <1>1, <2>1, Zenon DEF IInv, Typed, Idle
    <2>3. Placed'
      BY <1>5, <2>1, Zenon DEF Placed, Idle
    <2> QED BY <2>1, <2>2, <2>3, Arrive, Zenon
  <1>6. CASE o = "forward"
    <2> DEFINE l == [j EXCEPT !.phase = 2]
    <2>1. Persist(l) /\ op' = "forward" /\ cursor' = 0 /\ leg' = "none" /\ UNCHANGED booting
      BY <1>6, Zenon DEF Begin
    <2>2. Follows(j.phase, 2) /\ j.phase # 4
      BY <1>6 DEF Follows
    <2>3. l \in Journal /\ Sound(pkg, disk, l) /\ l.phase = 2 /\ l.gen = j.gen
      <3>1. l = [j EXCEPT !.phase = 2]
        BY Zenon
      <3> HIDE DEF l, j
      <3> QED BY <1>1, <1>4, <2>2, <3>1, SoundRephased
    <2> HIDE DEF l
    <2> QED BY <1>1, <1>6, <2>1, <2>2, <2>3, PersistKeeps, Zenon
  <1>7. CASE o = "rollback"
    <2> DEFINE l == [j EXCEPT !.phase = 8]
    <2>1. Persist(l) /\ op' = "rollback" /\ cursor' = j.n /\ leg' = "none" /\ UNCHANGED booting
      BY <1>2, <1>7, Zenon DEF Begin
    <2>2. Follows(j.phase, 8)
      BY <1>7, Zenon DEF Follows
    <2>3. /\ l \in Journal /\ Sound(pkg, disk, l) /\ l.phase = 8 /\ l.gen = j.gen
          /\ l.n = j.n
      <3>1. l = [j EXCEPT !.phase = 8]
        BY Zenon
      <3> HIDE DEF l, j
      <3> QED BY <1>1, <1>4, <2>2, <3>1, SoundRephased
    <2> HIDE DEF l
    <2>4. DownTo(cursor', l)
      BY <1>3, <2>1, <2>3, SMTT(30) DEF DownTo
    <2> QED BY <1>1, <1>3, <2>1, <2>2, <2>3, <2>4, PersistKeeps, Zenon
  <1>8. CASE o = "cleanup"
    <2>1. \A i \in Used(j) : Applied(i)
      <3>1. j.phase = 5 /\ 5 \in 0 .. 7
        <4>1. 5 \in 0 .. 7
          OBVIOUS
        <4> QED BY <1>8, <4>1, Zenon
      <3>2. j.committed = Used(j)
        BY <1>2, <3>1, Zenon DEF WellFormed, Used
      <3>3. \A i \in j.committed : Done(pkg.kind[i], disk[i])
        BY <1>2, <3>1, Zenon DEF Kept
      <3>4. Used(j) \subseteq Payload
        <4> HIDE DEF j
        <4> QED BY <1>3 DEF Used, Payload
      <3> QED BY <1>1, <3>2, <3>3, <3>4, Zenon
    <2>2. /\ pc' = "step" /\ mem' = j /\ op' = "cleanup" /\ cursor' = 1 /\ leg' = "none"
          /\ UNCHANGED booting
      BY <1>8, <2>1, Zenon DEF Begin
    <2>3. Typed'
      BY <1>1, <2>2, Zenon DEF IInv, Typed
    <2>4. AtStep'
      BY <1>3, <1>8, <2>2 DEF AtStep
    <2>5. Placed'
      BY <1>8, <2>2, <2>4, Zenon DEF Placed
    <2> QED BY <2>2, <2>3, <2>5, Arrive, Zenon
  <1> QED BY <1>5, <1>6, <1>7, <1>8, Zenon

\* Where a replay is at work its journal is the newest one.
LEMMA AtWork ==
    ASSUME IInv, pc \in {"step", "mutate", "up", "done"}
    PROVE  /\ mem = slots[slot].j /\ mem \in Journal /\ slot \in {0, 1}
           /\ Newest(slots, slot) /\ Sound(pkg, disk, mem)
           /\ pkg.batch \in BOOLEAN /\ booting \in BOOLEAN
           /\ mem.n \in {N - 1, N} /\ mem.n \in Nat \ {0} /\ N \in Nat \ {0, 1}
           /\ 1 .. mem.n \subseteq Payload
           /\ mem.phase \in 0 .. 9
  <1>1. Anchored /\ Placed /\ mem \in Journal /\ slot \in {0, 1} /\ booting \in BOOLEAN
    BY Zenon DEF IInv, Typed
  <1>2. mem = slots[slot].j
    BY <1>1, Zenon DEF Placed
  <1>3. mem.n \in {N - 1, N} /\ N \in Nat \ {0, 1} /\ mem.phase \in 0 .. 9
    BY <1>1, UpdateAssumption, Zenon DEF Journal
  <1>4. mem.n \in Nat \ {0} /\ 1 .. mem.n \subseteq Payload
    BY <1>3 DEF Payload
  <1> QED BY <1>1, <1>2, <1>3, <1>4, Zenon DEF Anchored, IInv, Packed, Packages

\* A conflict met on the way forward turns into a rollback.
LEMMA ConflictKeeps ==
    ASSUME IInv, pc \in {"step", "mutate"}, op \in {"forward", "commit"}, Conflict,
           UNCHANGED <<pkg, slots, disk, slot>>
    PROVE  IInv'
  <1>1. mem.phase \in {2, 4}
    BY Zenon DEF IInv, Placed, AtStep, AtMutate
  <1>2. Begin("rollback", slots[slot].j)
    BY AtWork, Zenon DEF Conflict
  <1>3. slots[slot].j.phase \in {2, 4}
    BY <1>1, AtWork, Zenon
  <1> QED BY <1>2, <1>3, AtWork, BeginKeeps, SMTT(30)

\* The next leg of a transition.
LEMMA TurnKeeps ==
    ASSUME IInv, pc = "mutate", NEW l \in {"forth", "back", "clear"}, Turn(l),
           OnLeg(l, pkg.kind[cursor], disk[cursor], Back, cursor \in mem.rolled),
           UNCHANGED <<pkg, slots, disk, slot>>
    PROVE  IInv'
  <1>1. leg' = l /\ UNCHANGED <<mem, pc, op, cursor, booting, status>>
    BY Zenon DEF Turn
  <1>2. Typed'
    BY <1>1, Zenon DEF IInv, Typed
  <1>3. AtMutate'
    BY <1>1, Zenon DEF IInv, Placed, AtMutate
  <1>4. AtLeg'
    BY <1>1, Zenon DEF AtLeg, Back
  <1>5. Placed'
    BY <1>1, <1>3, <1>4, Zenon DEF IInv, Placed
  <1> QED BY <1>1, <1>2, <1>5, AtWork, Arrive, Zenon

\* A durable write to the files of the payload in transition.
LEMMA WriteKeeps ==
    ASSUME IInv, pc = "mutate", NEW w, disk' = [disk EXCEPT ![cursor] = w],
           Arranged(pkg.kind[cursor], pkg.fs, w), w.p = disk[cursor].p,
           Back => cursor \notin mem.rolled,
           OnLeg(leg, pkg.kind[cursor], w, Back, cursor \in mem.rolled),
           UNCHANGED <<pkg, slots, slot, mem, pc, replay, booting, status>>
    PROVE  IInv'
  <1>1. AtMutate /\ cursor \in Payload /\ cursor \in 1 .. mem.n
    BY AtWork, Zenon DEF IInv, Placed, AtMutate
  <1>2. disk \in [Payload -> Files] /\ w \in Files
    BY Zenon DEF IInv, Typed, Arranged
  <1>3. disk'[cursor] = w /\ \A i \in Payload : i # cursor => disk'[i] = disk[i]
    BY <1>1, <1>2, Zenon
  <1>4. disk' \in [Payload -> Files]
    BY <1>2, Zenon
  <1>5. Kept(pkg.kind, disk', mem)
    <2>1. mem.phase \in 0 .. 7 => cursor \notin mem.committed
      BY <1>1 DEF AtMutate, NextUp
    <2>2. mem.phase \in {8, 9} => cursor \notin mem.rolled
      BY <1>1 DEF AtMutate, Back
    <2>3. mem.committed \subseteq Payload /\ mem.rolled \subseteq Payload
      BY AtWork, Zenon DEF Journal
    <2>4. Kept(pkg.kind, disk, mem)
      BY AtWork, Zenon DEF Sound
    <2>5. Kept(pkg.kind, [disk EXCEPT ![cursor] = w], mem)
      BY <1>1, <1>2, <2>1, <2>2, <2>3, <2>4, KeptWritten, Zenon
    <2> QED BY <2>5, Zenon
  <1>6. Sound(pkg, disk', mem)
    BY <1>5, AtWork, Zenon DEF Sound
  <1>7. Packed' /\ Typed'
    BY <1>4, Zenon DEF IInv, Packed, Typed, replay
  <1>8. AllArranged'
    BY <1>3, Zenon DEF IInv, AllArranged
  <1>9. Anchored'
    BY <1>6, AtWork, Zenon DEF Anchored
  <1>10. AtMutate'
    BY <1>1, Zenon DEF AtMutate, replay
  <1>11. AtLeg'
    BY <1>3, Zenon DEF AtLeg, Back, replay
  <1>12. Placed'
    BY <1>10, <1>11, Zenon DEF IInv, Placed, replay
  <1> QED BY <1>7, <1>8, <1>9, <1>12, Zenon DEF IInv

\* The end of a transition, with the payload where the replay wants it.
LEMMA MovedKeeps ==
    ASSUME IInv, Moved, cursor > 0,
           \/ pc = "mutate"
           \/ pc = "step" /\ op = "rollback",
           op \in {"forward", "commit"} => Done(pkg.kind[cursor], disk[cursor]),
           op = "rollback" => disk[cursor] = Orig(pkg.kind[cursor]),
           UNCHANGED <<pkg, slots, disk, slot>>
    PROVE  IInv'
  <1>1. /\ op \in {"forward", "commit", "rollback"} /\ cursor \in 1 .. mem.n
        /\ cursor \in Nat \ {0}
    <2>1. CASE pc = "mutate"
      BY <2>1, AtWork, SMTT(30) DEF IInv, Placed, AtMutate
    <2>2. CASE pc = "step" /\ op = "rollback"
      BY <2>2, AtWork DEF IInv, Placed, AtStep, DownTo
    <2> QED BY <2>1, <2>2, Zenon
  <1>2. Kept(pkg.kind, disk, mem) /\ WellFormed(pkg.batch, mem) /\ Sized(pkg.batch, mem)
    BY AtWork, Zenon DEF Sound
  <1>3. leg' = "none" /\ op' = op /\ booting' = booting
    BY Zenon DEF Moved
  <1>4. booting => op \notin {"commit", "advance"}
    BY Zenon DEF IInv, Placed
  <1>5. CASE op \in {"forward", "commit"}
    <2> DEFINE j == [mem EXCEPT !.committed = @ \cup {cursor}, !.rolled = @ \ {cursor}]
    <2>1. Persist(j) /\ cursor' = cursor
      BY <1>5, Zenon DEF Moved
    <2>2. /\ mem.phase \in {2, 4} /\ NextUp(cursor, mem)
          /\ op = "forward" => mem.phase = 2 /\ pkg.batch
      BY <1>5, Zenon DEF IInv, Placed, AtMutate
    <2>3. j \in Journal /\ WellFormed(pkg.batch, j) /\ Sized(pkg.batch, j)
      BY <1>2, <2>2, AtWork, Committed, ZenonT(40)
    <2>4. Kept(pkg.kind, disk, j)
      BY <1>2, <1>5, <2>2, AtWork, KeptCommitted, Zenon
    <2>5. j.phase = mem.phase /\ j.gen = mem.gen
      BY AtWork, Zenon DEF Journal
    <2> HIDE DEF j
    <2>6. Sound(pkg, disk, j)
      BY <2>3, <2>4, Zenon DEF Sound
    <2>7. Follows(mem.phase, j.phase)
      BY <2>2, <2>5, Zenon DEF Follows
    <2> QED BY <1>1, <1>3, <1>4, <1>5, <2>1, <2>2, <2>3, <2>5, <2>6, <2>7, AtWork, PersistKeeps
  <1>6. CASE op = "rollback"
    <2>1. mem.phase = 8 /\ DownTo(cursor, mem)
      BY <1>6, Zenon DEF IInv, Placed, AtMutate, AtStep
    <2>2. CASE cursor \in mem.rolled
      <3>1. pc' = "step" /\ cursor' = cursor - 1 /\ mem' = mem
        BY <1>6, <2>2, Zenon DEF Moved
      <3>2. Typed'
        BY <1>1, <1>3, <3>1, SMTT(30) DEF IInv, Typed
      <3>3. DownTo(cursor - 1, mem)
        BY <1>1, <2>1, <2>2, AtWork, SMTT(30) DEF DownTo
      <3>4. AtStep'
        BY <1>3, <1>6, <2>1, <3>1, <3>3, Zenon DEF AtStep
      <3>5. Placed'
        BY <1>3, <1>4, <3>1, <3>4, AtWork, Zenon DEF Placed
      <3> QED BY <3>1, <3>2, <3>5, AtWork, Arrive, Zenon
    <2>3. CASE cursor \notin mem.rolled
      <3> DEFINE j == [mem EXCEPT !.committed = @ \ {cursor}, !.rolled = @ \cup {cursor}]
      <3>1. Persist(j) /\ cursor' = cursor - 1
        BY <1>6, <2>3, Zenon DEF Moved
      <3>2. j \in Journal /\ WellFormed(pkg.batch, j) /\ Sized(pkg.batch, j) /\ DownTo(cursor - 1, j)
        BY <1>1, <1>2, <2>1, <2>3, AtWork, TakenBack, ZenonT(40)
      <3>3. Kept(pkg.kind, disk, j)
        BY <1>2, <1>6, <2>1, AtWork, KeptTakenBack, Zenon
      <3>4. j.phase = 8 /\ j.gen = mem.gen
        BY <2>1, AtWork, Zenon DEF Journal
      <3> HIDE DEF j
      <3>5. Sound(pkg, disk, j)
        BY <3>2, <3>3, Zenon DEF Sound
      <3>6. Follows(mem.phase, j.phase)
        BY <2>1, <3>4 DEF Follows
      <3>7. cursor' \in Nat
        BY <1>1, <3>1, SMTT(30)
      <3> QED BY <1>3, <1>4, <1>6, <3>1, <3>2, <3>4, <3>5, <3>6, <3>7, AtWork, PersistKeeps, Zenon
    <2> QED BY <2>2, <2>3, Zenon
  <1> QED BY <1>1, <1>5, <1>6, Zenon

-----------------------------------------------------------------------------
\* The transition of one payload.

\* What is known of the payload in transition.
LEMMA InTransition ==
    ASSUME IInv, pc = "mutate"
    PROVE  /\ op \in {"forward", "commit", "rollback"} /\ Back = (op = "rollback")
           /\ cursor \in Payload /\ cursor > 0
           /\ pkg.kind[cursor] \in AllKinds /\ pkg.fs \in {"fat", "ntfs"}
           /\ Arranged(pkg.kind[cursor], pkg.fs, disk[cursor]) /\ disk[cursor] \in Files
           /\ AtLeg
           /\ ~Back => pkg.kind[cursor] # "legacy"
           /\ disk[cursor].p = Orig(pkg.kind[cursor]).p
           /\ Back /\ cursor \in mem.rolled => disk[cursor] = Orig(pkg.kind[cursor])
  <1>1. AtMutate /\ AtLeg /\ Packed
    BY Zenon DEF IInv, Placed
  <1>2. cursor \in Payload /\ cursor \in 1 .. mem.n
    BY <1>1, AtWork, Zenon DEF AtMutate
  <1>3. op \in {"forward", "commit", "rollback"} /\ Back = (op = "rollback")
    BY <1>1, Zenon DEF AtMutate, Back
  <1>4. pkg.kind[cursor] \in AllKinds
    BY <1>1, <1>2, KindsOf, Zenon
  <1>5. Arranged(pkg.kind[cursor], pkg.fs, disk[cursor])
    BY <1>2, Zenon DEF IInv, AllArranged
  <1>6. mem.phase \in {2, 4, 8} /\ (Back => mem.phase = 8)
    BY <1>1, Zenon DEF AtMutate, Back
  <1>7. Kept(pkg.kind, disk, mem)
    BY AtWork, Zenon DEF Sound
  <1>8. disk[cursor].p = Orig(pkg.kind[cursor]).p
    BY <1>2, <1>6, <1>7 DEF Kept
  <1>9. Back /\ cursor \in mem.rolled => disk[cursor] = Orig(pkg.kind[cursor])
    BY <1>6, <1>7, Zenon DEF Kept
  <1>10. ~Back => pkg.kind[cursor] # "legacy"
    BY <1>1, Zenon DEF AtMutate, Back
  <1>11. pkg.fs \in {"fat", "ntfs"} /\ cursor > 0
    BY <1>1, <1>2 DEF Packed, Packages
  <1>12. disk[cursor] \in Files
    BY <1>5, Zenon DEF Arranged
  <1> QED
    BY <1>1, <1>2, <1>3, <1>4, <1>5, <1>8, <1>9, <1>10, <1>11, <1>12, Zenon

\* No arrangement is one the entry check rejects.
LEMMA EntryAllowed ==
    ASSUME Packed, NEW i \in Payload, Arranged(pkg.kind[i], pkg.fs, disk[i])
    PROVE  /\ pkg.kind[i] \in {"replace", "legacy"} => existing_allowed(i)
           /\ pkg.kind[i] \in {"create", "longname"} => create_allowed(i)
           /\ pkg.kind[i] = "same" => disk[i].t = "new"
  <1>1. disk[i] \in Files
    BY Zenon DEF Arranged
  <1>2. CASE pkg.kind[i] = "replace"
    <2>1. old_known(i) /\ existed(i)
      BY <1>2, Restated, Zenon
    <2>2. /\ disk[i].t \in {"none", "old", "new"} /\ disk[i].s \in {"none", "new"}
          /\ disk[i].b \in {"none", "old"}
      BY <1>1, Zenon DEF Files
    <2>3. /\ Content(i, disk[i].s) = IF disk[i].s = "none" THEN "Missing" ELSE "New"
          /\ Content(i, disk[i].b) = IF disk[i].b = "none" THEN "Missing" ELSE "Old"
          /\ Content(i, disk[i].t) = IF disk[i].t = "none" THEN "Missing"
                                     ELSE IF disk[i].t = "new" THEN "New" ELSE "Old"
      BY <2>1, <2>2, Zenon DEF Content
    <2>4. existing_allowed(i)
      BY <1>2, <2>1, <2>2, <2>3, Zenon DEF existing_allowed, Arranged
    <2> QED BY <1>2, <2>4, Zenon
  <1>3. CASE pkg.kind[i] = "legacy"
    <2>1. ~old_known(i) /\ disk[i].t = "old" /\ disk[i].b = "none" /\ disk[i].s \in {"none", "new"}
      BY <1>1, <1>3, Restated, ZenonT(40) DEF Arranged, Files
    <2>2. /\ Content(i, disk[i].s) = IF disk[i].s = "none" THEN "Missing" ELSE "New"
          /\ Content(i, disk[i].t) = "Other"
      BY <2>1, Zenon DEF Content
    <2>3. existing_allowed(i)
      BY <2>1, <2>2, Zenon DEF existing_allowed
    <2> QED BY <1>3, <2>3, Zenon
  <1>4. CASE pkg.kind[i] \in {"create", "longname"}
    BY <1>1, <1>4, Zenon DEF create_allowed, Arranged, Files
  <1>5. CASE pkg.kind[i] = "same"
    BY <1>5, Zenon DEF Arranged
  <1> QED BY <1>2, <1>3, <1>4, <1>5, Zenon

\* The entry of a transition picks its first leg.
LEMMA TransitionKeeps ==
    ASSUME IInv, transition
    PROVE  IInv'
  <1> DEFINE k == pkg.kind[cursor]
             d == disk[cursor]
  <1>1. pc = "mutate" /\ leg = "enter" /\ UNCHANGED <<pkg, slots, disk, slot>>
    BY Zenon DEF transition
  <1>2. Packed /\ cursor \in Payload /\ k \in AllKinds
    BY <1>1, InTransition, Zenon DEF IInv
  <1>3. /\ existed(cursor) = (k \in {"replace", "same", "legacy"})
        /\ old_known(cursor) = (k \in {"replace", "same"})
        /\ replace_required(cursor) = (k # "same")
    BY <1>2, Restated, Zenon
  <1>4. /\ k \in {"replace", "legacy"} => existing_allowed(cursor)
        /\ k \in {"create", "longname"} => create_allowed(cursor)
        /\ k = "same" => d.t = "new"
    BY <1>1, <1>2, InTransition, EntryAllowed, Zenon
  <1>5. /\ d.t \in {"none", "old", "new"} /\ d.s \in {"none", "new"} /\ d.b \in {"none", "old"}
    BY <1>1, InTransition, Zenon DEF Files
  <1>6. CASE k = "same"
    <2>1. Moved
      BY <1>1, <1>3, <1>4, <1>6, Zenon DEF transition
    <2>2. d.s = "none" /\ d.b = "none" /\ d.t = "new" /\ d.p = Orig(k).p /\ d \in Files
      BY <1>1, <1>6, InTransition, Zenon DEF Arranged
    <2>3. Done(k, d)
      BY <1>6, <2>2, Zenon DEF Done
    <2>4. d = Orig(k)
      BY <1>6, <2>2, Zenon DEF Orig, Files
    <2> QED BY <1>1, <2>1, <2>3, <2>4, InTransition, MovedKeeps, Zenon
  <1>7. CASE k = "replace"
    <2>1. CASE Back /\ d.b = "none"
      <3>1. Turn("clear")
        BY <1>1, <1>3, <1>4, <1>7, <2>1, Zenon DEF transition
      <3>2. d.t = "old"
        BY <1>1, <1>5, <1>7, <2>1, InTransition, Zenon DEF Arranged
      <3>3. OnLeg("clear", k, d, Back, cursor \in mem.rolled)
        BY <1>7, <2>1, <3>2, Zenon DEF OnLeg
      <3> QED BY <1>1, <3>1, <3>3, TurnKeeps, Zenon
    <2>2. CASE ~(Back /\ d.b = "none")
      <3>1. Turn("forth")
        BY <1>1, <1>3, <1>4, <1>7, <2>2, Zenon DEF transition
      <3>2. Back => d.b = "old" /\ cursor \notin mem.rolled
        BY <1>1, <1>5, <2>2, InTransition DEF Orig
      <3>3. OnLeg("forth", k, d, Back, cursor \in mem.rolled)
        BY <1>7, <3>2, Zenon DEF OnLeg
      <3> QED BY <1>1, <3>1, <3>3, TurnKeeps, Zenon
    <2> QED BY <2>1, <2>2, Zenon
  <1>8. CASE k = "legacy"
    <2>1. d.t = "old" /\ d.b = "none" /\ Back
      BY <1>1, <1>8, InTransition, Zenon DEF Arranged
    <2>2. Turn("clear")
      BY <1>1, <1>3, <1>4, <1>8, <2>1, Zenon DEF transition
    <2>3. OnLeg("clear", k, d, Back, cursor \in mem.rolled)
      BY <1>8, <2>1, Zenon DEF OnLeg
    <2> QED BY <1>1, <2>2, <2>3, TurnKeeps, Zenon
  <1>9. CASE k \in {"create", "longname"}
    <2>1. CASE Back /\ "none" \in {d.t, d.s}
      <3>1. Turn("clear")
        BY <1>1, <1>3, <1>4, <1>9, <2>1, Zenon DEF transition
      <3>2. OnLeg("clear", k, d, Back, cursor \in mem.rolled)
        BY <1>9, <2>1, Zenon DEF OnLeg
      <3> QED BY <1>1, <3>1, <3>2, TurnKeeps, Zenon
    <2>2. CASE ~(Back /\ "none" \in {d.t, d.s})
      <3>1. Turn("forth")
        BY <1>1, <1>3, <1>4, <1>9, <2>2, Zenon DEF transition
      <3>2. Back => d.t = "new" /\ d.s = "new"
        BY <1>1, <1>5, <1>9, <2>2, InTransition, Zenon DEF Arranged
      <3>3. Back => cursor \notin mem.rolled
        BY <1>1, <3>2, InTransition DEF Orig
      <3>4. OnLeg("forth", k, d, Back, cursor \in mem.rolled)
        BY <1>9, <3>2, <3>3, Zenon DEF OnLeg
      <3> QED BY <1>1, <3>1, <3>4, TurnKeeps, Zenon
    <2> QED BY <2>1, <2>2, Zenon
  <1> QED BY <1>2, <1>6, <1>7, <1>8, <1>9, Zenon DEF AllKinds

\* The forward replace, on the way forward and as the first leg of the way back.
LEMMA ForthKeeps ==
    ASSUME IInv, replaceStep("forth", "t", "s", "b")
    PROVE  IInv'
  <1> DEFINE k == pkg.kind[cursor]
             d == disk[cursor]
  <1>1. pc = "mutate" /\ leg = "forth" /\ UNCHANGED <<pkg, slots, slot>>
    BY Zenon DEF replaceStep
  <1>2. /\ Packed /\ cursor \in Payload /\ k \in AllKinds \ {"same", "legacy"}
        /\ Arranged(k, pkg.fs, d)
    BY <1>1, InTransition, Zenon DEF IInv, AtLeg, OnLeg
  <1>3. /\ existed(cursor) = (k = "replace") /\ old_known(cursor) = (k = "replace")
        /\ Applied(cursor) = Done(k, d)
    BY <1>2, Restated, SMTT(30)
  <1>4. /\ Back => cursor \notin mem.rolled
        /\ Back /\ k = "replace" => d.b = "old"
        /\ Back /\ k # "replace" => d.t = "new"
    BY <1>1, InTransition, Zenon DEF AtLeg, OnLeg
  <1>5. ~Back => op \in {"forward", "commit"}
    BY <1>1, InTransition, Zenon
  <1>6. CASE replaceRefused(cursor, d, "t", "s", "b")
    <2>1. ~Back
      BY <1>2, <1>4, <1>6, NotRefused, Zenon DEF AllKinds
    <2>2. Conflict /\ UNCHANGED disk
      BY <1>6, Zenon DEF replaceStep
    <2> QED BY <1>1, <1>5, <2>1, <2>2, ConflictKeeps, Zenon
  <1>7. CASE ~replaceRefused(cursor, d, "t", "s", "b") /\ replaceDone(d, "t", "s")
    <2>1. Forth(cursor) /\ UNCHANGED disk
      BY <1>7, Zenon DEF replaceStep
    <2>2. CASE ~Back /\ ~Done(k, d)
      <3>1. Conflict
        BY <1>3, <2>1, <2>2, Zenon DEF Forth
      <3> QED BY <1>1, <1>5, <2>1, <2>2, <3>1, ConflictKeeps, Zenon
    <2>3. CASE ~Back /\ Done(k, d)
      <3>1. Moved
        BY <1>3, <2>1, <2>3, Zenon DEF Forth
      <3> QED BY <1>1, <1>5, <2>1, <2>3, <3>1, InTransition, MovedKeeps, Zenon
    <2>4. CASE Back /\ k = "replace"
      <3>1. Done("replace", d)
        BY <1>2, <1>4, <1>7, <2>4, ReplaceOver, Zenon
      <3>2. Turn("back")
        BY <1>3, <2>1, <2>4, <3>1, Zenon DEF Forth
      <3>3. OnLeg("back", k, d, Back, cursor \in mem.rolled)
        BY <1>4, <2>4, Zenon DEF OnLeg
      <3> QED BY <1>1, <2>1, <3>2, <3>3, TurnKeeps, Zenon
    <2>5. CASE Back /\ k # "replace"
      <3>1. Turn("clear")
        BY <1>3, <2>1, <2>5, Zenon DEF Forth
      <3>2. OnLeg("clear", k, d, Back, cursor \in mem.rolled)
        BY <1>2, <1>4, <2>5, Zenon DEF OnLeg
      <3> QED BY <1>1, <2>1, <3>1, <3>2, TurnKeeps, Zenon
    <2> QED BY <2>2, <2>3, <2>4, <2>5, Zenon
  <1>8. CASE ~replaceRefused(cursor, d, "t", "s", "b") /\ ~replaceDone(d, "t", "s")
    <2> DEFINE w == replaceWrite(d, "t", "s", "b")
    <2>1. /\ disk' = [disk EXCEPT ![cursor] = w]
          /\ UNCHANGED <<mem, pc, replay, booting, status>>
      BY <1>8, Zenon DEF replaceStep
    <2>2. /\ Arranged(k, pkg.fs, w) /\ w.p = d.p
          /\ d.b = "old" => w.b = "old"
          /\ k # "replace" /\ d.t = "new" => w.t = "new"
      BY <1>1, <1>2, <1>8, InTransition, ForthWrite
    <2> HIDE DEF w
    <2>3. OnLeg("forth", k, w, Back, cursor \in mem.rolled)
      BY <1>2, <1>4, <2>2, Zenon DEF OnLeg
    <2> QED BY <1>1, <1>4, <2>1, <2>2, <2>3, WriteKeeps, ZenonT(40)
  <1> QED BY <1>6, <1>7, <1>8, Zenon

\* The replace from the backup name, which only a rollback does.
LEMMA BackKeeps ==
    ASSUME IInv, replaceStep("back", "t", "b", "s")
    PROVE  IInv'
  <1> DEFINE k == pkg.kind[cursor]
             d == disk[cursor]
  <1>1. pc = "mutate" /\ leg = "back" /\ UNCHANGED <<pkg, slots, slot>>
    BY Zenon DEF replaceStep
  <1>2. /\ Back /\ k = "replace" /\ cursor \notin mem.rolled
        /\ Arranged("replace", pkg.fs, d) /\ pkg.fs \in {"fat", "ntfs"}
    BY <1>1, InTransition, Zenon DEF AtLeg, OnLeg
  <1>3. ~replaceRefused(cursor, d, "t", "b", "s")
    BY <1>2, NotRefused, Zenon DEF AllKinds
  <1>4. CASE replaceDone(d, "t", "b")
    <2>1. Turn("clear") /\ UNCHANGED disk
      BY <1>3, <1>4, Zenon DEF replaceStep
    <2>2. d.t = "old" /\ d.b = "none"
      BY <1>2, <1>4, ReplaceOver, Zenon
    <2>3. OnLeg("clear", k, d, Back, cursor \in mem.rolled)
      BY <1>2, <2>2, Zenon DEF OnLeg
    <2> QED BY <1>1, <2>1, <2>3, TurnKeeps, Zenon
  <1>5. CASE ~replaceDone(d, "t", "b")
    <2> DEFINE w == replaceWrite(d, "t", "b", "s")
    <2>1. /\ disk' = [disk EXCEPT ![cursor] = w]
          /\ UNCHANGED <<mem, pc, replay, booting, status>>
      BY <1>3, <1>5, Zenon DEF replaceStep
    <2>2. Arranged("replace", pkg.fs, w) /\ w.p = d.p
      BY <1>2, <1>5, BackWrite, Zenon
    <2> HIDE DEF w
    <2>3. OnLeg("back", k, w, Back, cursor \in mem.rolled)
      BY <1>2, Zenon DEF OnLeg
    <2> QED BY <1>1, <1>2, <2>1, <2>2, <2>3, WriteKeeps, Zenon
  <1> QED BY <1>4, <1>5, Zenon

\* The end of a rollback of one payload.
LEMMA ClearKeeps ==
    ASSUME IInv, clear
    PROVE  IInv'
  <1> DEFINE k == pkg.kind[cursor]
             d == disk[cursor]
             gone == IF existed(cursor) THEN "s" ELSE IF d.t # "none" THEN "t" ELSE "s"
  <1>1. pc = "mutate" /\ leg = "clear" /\ UNCHANGED <<pkg, slots, slot>>
    BY Zenon DEF clear
  <1>2. /\ Back /\ op = "rollback" /\ k \in AllKinds \ {"same"} /\ Arranged(k, pkg.fs, d)
        /\ d.p = Orig(k).p /\ cursor > 0 /\ d \in Files /\ cursor \in Payload
        /\ k \in {"replace", "legacy"} => d.t = "old" /\ d.b = "none"
        /\ cursor \in mem.rolled => d = Orig(k)
    BY <1>1, InTransition, Zenon DEF AtLeg, OnLeg
  <1>3. existed(cursor) = (k \in {"replace", "legacy"})
    BY <1>2, Restated DEF IInv
  <1>4. d.b = "none" /\ (k \in {"create", "longname"} => d.t # "old")
    BY <1>2, Zenon DEF Arranged, AllKinds
  <1>5. d.t \in {"none", "old", "new"} /\ d.s \in {"none", "new"}
    BY <1>2, Zenon DEF Files
  <1>6. CASE k \in {"replace", "legacy"} \/ d.t = "none"
    <2>1. gone = "s" /\ d[gone] = d.s
      BY <1>3, <1>6, Zenon
    <2>2. CASE d.s = "none"
      <3>1. Moved /\ UNCHANGED disk
        BY <1>2, <1>3, <1>4, <2>1, <2>2, Zenon DEF clear
      <3>2. d = Orig(k)
        BY <1>2, <1>6, <2>2, Cleared, Zenon
      <3> QED BY <1>1, <1>2, <3>1, <3>2, MovedKeeps, Zenon
    <2>3. CASE d.s # "none"
      <3> DEFINE w == [d EXCEPT !.s = "none"]
      <3>1. /\ disk' = [disk EXCEPT ![cursor]["s"] = "none"]
            /\ UNCHANGED <<mem, pc, replay, booting, status>>
        BY <1>2, <1>3, <1>4, <1>5, <2>1, <2>3, Zenon DEF clear
      <3>2. disk' = [disk EXCEPT ![cursor] = w]
        BY <3>1, Zenon
      <3>3. Arranged(k, pkg.fs, w) /\ w.p = d.p /\ w.t = d.t /\ w.b = d.b
        BY <1>2, ClearWrite, ZenonT(40)
      <3>4. cursor \notin mem.rolled
        BY <1>2, <2>3 DEF Orig
      <3> HIDE DEF w
      <3>5. OnLeg("clear", k, w, Back, cursor \in mem.rolled)
        BY <1>2, <3>3, Zenon DEF OnLeg
      <3> QED BY <1>1, <3>1, <3>2, <3>3, <3>4, <3>5, WriteKeeps, Zenon
    <2> QED BY <2>2, <2>3, Zenon
  <1>7. CASE k \in {"create", "longname"} /\ d.t # "none"
    <2>1. gone = "t" /\ d[gone] = d.t /\ d.t = "new"
      BY <1>3, <1>4, <1>5, <1>7, Zenon
    <2> DEFINE w == [d EXCEPT !.t = "none"]
    <2>2. /\ disk' = [disk EXCEPT ![cursor]["t"] = "none"]
          /\ UNCHANGED <<mem, pc, replay, booting, status>>
      BY <1>3, <1>4, <1>5, <1>7, <2>1, Zenon DEF clear
    <2>3. disk' = [disk EXCEPT ![cursor] = w]
      BY <2>2, Zenon
    <2>4. Arranged(k, pkg.fs, w) /\ w.p = d.p
      BY <1>2, <1>7, ClearWrite, ZenonT(40)
    <2>5. cursor \notin mem.rolled
      BY <1>2, <1>7 DEF Orig
    <2> HIDE DEF w
    <2>6. OnLeg("clear", k, w, Back, cursor \in mem.rolled)
      BY <1>2, <1>7, Zenon DEF OnLeg
    <2> QED BY <1>1, <2>2, <2>3, <2>4, <2>5, <2>6, WriteKeeps, Zenon
  <1> QED BY <1>2, <1>6, <1>7, Zenon DEF AllKinds

-----------------------------------------------------------------------------
\* The loops of the replays, and the writes of the journal.

\* A replay goes to payload i.
LEMMA VisitKeeps ==
    ASSUME IInv, pc = "step", op \in {"forward", "rollback"}, NEW i, Visit(i),
           i \in 1 .. mem.n, op = "forward" => NextUp(i, mem),
           op = "rollback" => i = cursor,
           UNCHANGED <<pkg, slots, disk, slot>>
    PROVE  IInv'
  <1>1. /\ pc' = "mutate" /\ cursor' = i /\ leg' = "enter"
        /\ UNCHANGED <<mem, op, booting, status>>
    BY Zenon DEF Visit
  <1>2. AtStep /\ i \in Payload /\ i \in Nat /\ 1 .. mem.n \subseteq Payload
    BY AtWork DEF IInv, Placed
  <1>3. Typed'
    BY <1>1, <1>2, Zenon DEF IInv, Typed
  <1>4. op = "forward" => pkg.kind[i] # "legacy"
    BY <1>2, Zenon DEF AtStep, IInv, Packed
  <1>5. AtMutate'
    BY <1>1, <1>2, <1>4, Zenon DEF AtMutate, AtStep
  <1>6. AtLeg'
    BY <1>1, Zenon DEF AtLeg, OnLeg
  <1>7. Placed'
    BY <1>1, <1>5, <1>6, AtWork, Zenon DEF IInv, Placed
  <1> QED BY <1>1, <1>3, <1>7, AtWork, Arrive, Zenon

\* A loop persists the phase its journal is to enter.
LEMMA RephaseKeeps ==
    ASSUME IInv, pc = "step", NEW q \in {6, 7, 9}, Persist([mem EXCEPT !.phase = q]),
           q = 6 => op = "forward" /\ mem.committed = 1 .. mem.n,
           q = 7 => op = "cleanup",
           q = 9 => op = "rollback" /\ mem.rolled = 1 .. mem.n,
           UNCHANGED <<pkg, slots, disk, slot, replay, booting>>
    PROVE  IInv'
  <1> DEFINE j == [mem EXCEPT !.phase = q]
  <1>1. /\ AtStep /\ op \in {"forward", "rollback", "cleanup"} /\ cursor \in Nat
        /\ leg \in {"none", "enter", "forth", "back", "clear"}
        /\ booting => op \notin {"commit", "advance"}
    BY Zenon DEF IInv, Placed, AtStep, Typed
  <1>2. Follows(mem.phase, q) /\ (q = 6 => pkg.batch)
    BY <1>1, Zenon DEF AtStep, Follows
  <1>3. j = [mem EXCEPT !.phase = q] /\ Persist(j)
    BY Zenon
  <1> HIDE DEF j
  <1>4. /\ j \in Journal /\ Sound(pkg, disk, j) /\ j.phase = q
        /\ j.gen = mem.gen /\ j.n = mem.n /\ j.rolled = mem.rolled
    BY <1>2, <1>3, AtWork, SoundRephased
  <1>5. op = "rollback" => DownTo(cursor, j)
    BY <1>1, <1>4, Zenon DEF AtStep, DownTo
  <1>6. op' = op /\ cursor' = cursor /\ leg' = leg /\ booting' = booting
    BY Zenon DEF replay
  <1>7. /\ op = "forward" => q = 6 /\ pkg.batch
        /\ op = "rollback" => q = 9
        /\ op = "cleanup" => q = 7
    BY <1>1, <1>2, Zenon
  <1> QED
    BY <1>1, <1>2, <1>3, <1>4, <1>5, <1>6, <1>7, AtWork, PersistKeeps, ZenonT(40)

\* The forward loop.
LEMMA ForwardKeeps ==
    ASSUME IInv, forward
    PROVE  IInv'
  <1>1. pc = "step" /\ op = "forward" /\ UNCHANGED <<pkg, slots, disk, slot>>
    BY Zenon DEF forward
  <1>2. CASE \E i \in Payload : IsNext(i) /\ Visit(i)
    <2>1. PICK i \in Payload : IsNext(i) /\ Visit(i)
      BY <1>2, Zenon
    <2>2. i \in 1 .. mem.n /\ NextUp(i, mem)
      BY <2>1, Zenon DEF IsNext, Used, NextUp
    <2> QED BY <1>1, <2>1, <2>2, VisitKeeps, Zenon
  <1>3. CASE /\ mem.committed = Used(mem) /\ Persist([mem EXCEPT !.phase = 6])
             /\ UNCHANGED <<replay, booting, status, seen>>
    BY <1>1, <1>3, RephaseKeeps DEF Used
  <1>4. CASE Conflict
    BY <1>1, <1>4, ConflictKeeps, Zenon
  <1> QED BY <1>2, <1>3, <1>4, Zenon DEF forward

\* The rollback loop.
LEMMA RollbackKeeps ==
    ASSUME IInv, rollback
    PROVE  IInv'
  <1>1. pc = "step" /\ op = "rollback" /\ UNCHANGED <<pkg, slots, disk, slot>>
    BY Zenon DEF rollback
  <1>2. mem.phase = 8 /\ DownTo(cursor, mem) /\ Packed /\ AllArranged
    BY <1>1, Zenon DEF IInv, Placed, AtStep
  <1>3. CASE /\ cursor = 0 /\ Persist([mem EXCEPT !.phase = 9])
             /\ UNCHANGED <<replay, booting, status, seen>>
    <2>1. mem.rolled \subseteq 1 .. mem.n
      BY <1>1, AtWork, Zenon DEF Sound, WellFormed
    <2>2. 1 .. mem.n \subseteq mem.rolled
      BY <1>2, <1>3 DEF DownTo
    <2>3. mem.rolled = 1 .. mem.n
      BY <2>1, <2>2, ZenonT(40)
    <2> QED BY <1>1, <1>3, <2>3, RephaseKeeps, SMTT(30)
  <1>4. CASE cursor > 0 /\ Visit(cursor)
    <2>1. cursor \in 1 .. mem.n
      BY <1>1, <1>2, <1>4, AtWork DEF DownTo
    <2> QED BY <1>1, <1>4, <2>1, VisitKeeps, Zenon
  <1>5. CASE cursor > 0 /\ ~replace_required(cursor) /\ Moved
    <2>1. cursor \in Payload
      BY <1>1, <1>2, <1>5, AtWork DEF DownTo
    <2>2. pkg.kind[cursor] = "same"
      BY <1>2, <1>5, <2>1, Restated, Zenon
    <2>3. /\ disk[cursor].t = "new" /\ disk[cursor].s = "none" /\ disk[cursor].b = "none"
          /\ disk[cursor] \in Files
      BY <1>2, <2>1, <2>2, Zenon DEF AllArranged, Arranged
    <2>4. disk[cursor].p = Orig("same").p
      BY <1>1, <1>2, <2>1, <2>2, AtWork DEF Sound, Kept
    <2>5. disk[cursor] = Orig("same")
      BY <2>3, <2>4, Zenon DEF Orig, Files
    <2> QED BY <1>1, <1>5, <2>2, <2>5, MovedKeeps, Zenon
  <1> QED BY <1>3, <1>4, <1>5, Zenon DEF rollback

\* The cleanup loop.
LEMMA CleanupKeeps ==
    ASSUME IInv, cleanup
    PROVE  IInv'
  <1>1. pc = "step" /\ op = "cleanup" /\ UNCHANGED <<pkg, slots, slot>>
    BY Zenon DEF cleanup
  <1>2. mem.phase = 5 /\ cursor \in 1 .. mem.n + 1 /\ Packed
    BY <1>1, Zenon DEF IInv, Placed, AtStep
  <1>3. CASE cursor > mem.n
    <2>1. /\ Persist([mem EXCEPT !.phase = 7])
          /\ UNCHANGED <<disk, replay, booting>>
      BY <1>3, Zenon DEF cleanup
    <2> QED BY <1>1, <2>1, RephaseKeeps
  <1>4. CASE ~(cursor > mem.n)
    <2>1. cursor \in 1 .. mem.n /\ cursor \in Payload
      BY <1>1, <1>2, <1>4, AtWork, SMTT(30)
    <2>2. Kept(pkg.kind, disk, mem) /\ WellFormed(pkg.batch, mem)
      BY <1>1, AtWork, Zenon DEF Sound
    <2>3. Done(pkg.kind[cursor], disk[cursor])
      <3>1. cursor \in mem.committed
        BY <1>2, <2>1, <2>2, Zenon DEF WellFormed
      <3> QED BY <1>2, <2>2, <3>1, SMTT(30) DEF Kept
    <2>4. Applied(cursor)
      BY <1>2, <2>1, <2>3, Restated, Zenon
    <2>5. /\ disk' = [disk EXCEPT ![cursor].p = "none"] /\ cursor' = cursor + 1
          /\ UNCHANGED <<mem, pc, op, leg, booting, status>>
      BY <1>4, <2>4, Zenon DEF cleanup
    <2>6. disk \in [Payload -> Files] /\ mem.committed \subseteq Payload
      BY <1>1, AtWork, Zenon DEF IInv, Typed, Journal
    <2>7. Kept(pkg.kind, disk', mem)
      BY <1>2, <2>1, <2>2, <2>5, <2>6, KeptCleaned, Zenon
    <2>8. disk' \in [Payload -> Files]
      BY <2>5, <2>6, ZenonT(40) DEF Files
    <2>9. \A i \in Payload : disk'[i].t = disk[i].t /\ disk'[i].s = disk[i].s /\ disk'[i].b = disk[i].b
      BY <2>1, <2>5, <2>6, Zenon DEF Files
    <2>10. AllArranged'
      <3> SUFFICES ASSUME NEW i \in Payload PROVE Arranged(pkg.kind[i], pkg.fs, disk'[i])
        BY <1>1, Zenon DEF AllArranged
      <3>1. Arranged(pkg.kind[i], pkg.fs, disk[i]) /\ disk'[i] \in Files
        BY <2>8, Zenon DEF IInv, AllArranged
      <3> QED BY <2>9, <3>1, Zenon DEF Arranged
    <2>11. Packed' /\ Typed'
      BY <1>1, <1>2, <2>1, <2>5, <2>8 DEF IInv, Packed, Typed
    <2>12. Anchored'
      BY <1>1, <2>5, <2>7, AtWork, Zenon DEF Anchored, Sound
    <2>13. AtStep'
      BY <1>1, <1>2, <2>1, <2>5, AtWork DEF AtStep
    <2>14. Placed'
      BY <1>1, <2>5, <2>13, Zenon DEF IInv, Placed
    <2> QED BY <1>1, <2>5, <2>10, <2>11, <2>12, <2>14, Zenon DEF IInv
  <1> QED BY <1>3, <1>4, Zenon

\* The inactive slot is deleted; the machine never finds its journal invalid.
LEMMA PersistBeginKeeps ==
    ASSUME IInv, persistBegin
    PROVE  IInv'
  <1>1. pc = "persist" /\ UNCHANGED <<pkg, disk, slot>>
    BY Zenon DEF persistBegin
  <1>2. /\ Anchored /\ AtPersist /\ mem \in Journal /\ slot \in {0, 1} /\ booting \in BOOLEAN
        /\ slots \in [{0, 1} -> [file : {"whole", "absent", "torn"}, j : Journal]]
        /\ booting => op \notin {"commit", "advance"}
    BY <1>1, Zenon DEF IInv, Placed, Typed
  <1>3. Valid(mem)
    BY <1>2, ValidIs, Zenon DEF AtPersist, Sound
  <1>4. PICK f \in {"absent", "torn"} :
            slots' = [slots EXCEPT ![1 - slot] = [file |-> f, j |-> Blank]]
    BY <1>3, Zenon DEF persistBegin
  <1>5. pc' = "writing" /\ UNCHANGED <<mem, replay, booting, status>>
    BY <1>3, Zenon DEF persistBegin
  <1>6. Blank \in Journal
    BY UpdateAssumption DEF Blank, Journal, Payload
  <1>7. 1 - slot \in {0, 1} /\ 1 - slot # slot
    BY <1>2
  <1>8. /\ slots' \in [{0, 1} -> [file : {"whole", "absent", "torn"}, j : Journal]]
        /\ slots'[slot] = slots[slot] /\ slots'[1 - slot].file # "whole"
    BY <1>2, <1>4, <1>6, <1>7, Zenon
  <1>9. Packed' /\ Typed' /\ AllArranged'
    BY <1>1, <1>5, <1>8, Zenon DEF IInv, Packed, Typed, AllArranged, replay
  <1>10. Anchored'
    BY <1>1, <1>2, <1>8, Zenon DEF Anchored, Newest
  <1>11. AtPersist'
    BY <1>1, <1>2, <1>5, <1>8, Zenon DEF AtPersist, replay
  <1>12. Placed'
    BY <1>1, <1>2, <1>5, <1>8, <1>11, Zenon DEF Placed, replay
  <1> QED BY <1>5, <1>9, <1>10, <1>12, Zenon DEF IInv

\* What a journal promises does not depend on its generation.
LEMMA SoundAgain ==
    ASSUME NEW p, NEW files, NEW j, NEW k, Sound(p, files, j),
           k.phase = j.phase, k.committed = j.committed, k.rolled = j.rolled, k.n = j.n
    PROVE  Sound(p, files, k)
  <1>1. WellFormed(p.batch, k)
    BY Zenon DEF Sound, WellFormed
  <1>2. Sized(p.batch, k)
    BY Zenon DEF Sound, Sized
  <1>3. Kept(p.kind, files, k)
    BY Zenon DEF Sound, Kept, Used
  <1> QED BY <1>1, <1>2, <1>3, Zenon DEF Sound

\* The new journal is whole: it is the newest one, and what it says is so.
LEMMA PersistEndKeeps ==
    ASSUME IInv, persistEnd
    PROVE  /\ IInv'
           /\ slot' = 1 - slot /\ slots'[1 - slot].j.phase = mem.phase
  <1> DEFINE j == [mem EXCEPT !.gen = @ + 1]
  <1>1. /\ pc = "writing" /\ UNCHANGED <<pkg, disk, booting, status>>
        /\ slots' = [slots EXCEPT ![1 - slot] = [file |-> "whole", j |-> j]]
        /\ slot' = 1 - slot /\ mem' = j
    BY Zenon DEF persistEnd
  <1>2. /\ Anchored /\ AtPersist /\ mem \in Journal /\ slot \in {0, 1} /\ booting \in BOOLEAN
        /\ slots \in [{0, 1} -> [file : {"whole", "absent", "torn"}, j : Journal]]
        /\ booting => op \notin {"commit", "advance"}
    BY <1>1, Zenon DEF IInv, Placed, Typed
  <1>3. /\ j \in Journal /\ j.phase = mem.phase /\ j.committed = mem.committed
        /\ j.rolled = mem.rolled /\ j.n = mem.n /\ j.gen = mem.gen + 1 /\ mem.gen \in Nat
    BY <1>2 DEF Journal
  <1>4. IF op \in {"commit", "advance"} \/ j.phase \in {6, 7, 9}
        THEN pc' = "done" /\ Idle
        ELSE pc' = "step" /\ UNCHANGED replay
    BY Zenon DEF persistEnd
  <1> HIDE DEF j
  <1>5. 1 - slot \in {0, 1} /\ 1 - slot # slot /\ 1 - (1 - slot) = slot
    BY <1>2
  <1>6. /\ slots' \in [{0, 1} -> [file : {"whole", "absent", "torn"}, j : Journal]]
        /\ slots'[slot] = slots[slot]
        /\ slots'[1 - slot].file = "whole" /\ slots'[1 - slot].j = j
    BY <1>1, <1>2, <1>3, <1>5, Zenon
  <1>7. Newest(slots', 1 - slot)
    BY <1>2, <1>3, <1>5, <1>6 DEF Newest, AtPersist
  <1>8. Sound(pkg, disk, j)
    BY <1>2, <1>3, SoundAgain, Zenon DEF AtPersist
  <1>9. Anchored'
    BY <1>1, <1>6, <1>7, <1>8, Zenon DEF Anchored
  <1>10. Packed' /\ AllArranged'
    BY <1>1, Zenon DEF IInv, Packed, AllArranged
  <1>11. CASE op \in {"commit", "advance"} \/ j.phase \in {6, 7, 9}
    <2>1. pc' = "done" /\ Idle
      BY <1>4, <1>11, Zenon
    <2>2. Typed'
      BY <1>1, <1>3, <1>5, <1>6, <2>1, Zenon DEF IInv, Typed, Idle
    <2>3. Placed'
      BY <1>1, <1>2, <1>6, <1>11, <2>1, Zenon DEF Placed, Idle
    <2> QED BY <1>1, <1>3, <1>6, <1>9, <1>10, <2>1, <2>2, <2>3, Zenon DEF IInv
  <1>12. CASE ~(op \in {"commit", "advance"} \/ j.phase \in {6, 7, 9})
    <2>1. pc' = "step" /\ UNCHANGED <<op, cursor, leg>>
      BY <1>4, <1>12, Zenon DEF replay
    <2>2. Typed'
      BY <1>1, <1>3, <1>5, <1>6, <2>1, Zenon DEF IInv, Typed
    <2>3. AtStep'
      <3>1. /\ op \in {"forward", "rollback"}
            /\ op = "forward" => mem.phase = 2 /\ pkg.batch
            /\ op = "rollback" => mem.phase = 8 /\ DownTo(cursor, mem)
        BY <1>2, <1>3, <1>12, Zenon DEF AtPersist
      <3>2. op = "rollback" => DownTo(cursor, j)
        BY <1>3, <3>1, Zenon DEF DownTo
      <3> QED BY <1>1, <1>3, <2>1, <3>1, <3>2, Zenon DEF AtStep
    <2>4. Placed'
      BY <1>1, <1>2, <1>6, <2>1, <2>3, Zenon DEF Placed
    <2> QED BY <1>1, <1>3, <1>6, <1>9, <1>10, <2>1, <2>2, <2>4, Zenon DEF IInv
  <1> QED BY <1>11, <1>12, Zenon

\* The replay returns.
LEMMA ReturnKeeps ==
    ASSUME IInv, Return
    PROVE  IInv'
  <1>1. /\ pc = "done" /\ pc' = "up" /\ booting' = FALSE
        /\ UNCHANGED <<pkg, slots, disk, mem, slot, op, cursor, leg, status>>
    BY Zenon DEF Return, replay
  <1>2. Typed'
    BY <1>1, Zenon DEF IInv, Typed
  <1>3. Placed'
    BY <1>1, AtWork, Zenon DEF Placed
  <1> QED BY <1>1, <1>2, <1>3, AtWork, Arrive, Zenon

\* Booting: whatever a cut left, exactly one journal is found and can be acted on.
LEMMA BootKeeps ==
    ASSUME IInv, recover_before_runtime
    PROVE  IInv'
  <1>1. pc = "off" /\ UNCHANGED <<pkg, slots, disk>>
    BY Zenon DEF recover_before_runtime
  <1>2. PICK k \in {0, 1} : Newest(slots, k) /\ Sound(pkg, disk, slots[k].j)
    BY <1>1, Zenon DEF IInv
  <1>3. slots \in [{0, 1} -> [file : {"whole", "absent", "torn"}, j : Journal]]
    BY Zenon DEF IInv, Typed
  <1>4. select = {k}
    BY <1>2, <1>3, SoundParts, DurableIs, Zenon
  <1> DEFINE o == BootOp(slots[k].j)
  <1>5. Begin(o, slots[k].j) /\ slot' = k
    BY <1>4, Zenon DEF recover_before_runtime
  <1>6. slots[k].j.phase \in 0 .. 9
    BY <1>3, Zenon DEF Journal
  <1>7. /\ o \in {"none", "forward", "rollback", "cleanup"}
        /\ o = "none" => slots[k].j.phase \in {6, 7, 9}
        /\ o = "forward" => pkg.batch /\ slots[k].j.phase \in {1, 2}
        /\ o = "rollback" => slots[k].j.phase \notin {5, 7, 9}
        /\ o = "cleanup" => slots[k].j.phase = 5
    BY <1>6, Zenon DEF BootOp
  <1> HIDE DEF o
  <1> QED BY <1>1, <1>2, <1>5, <1>7, BeginKeeps, Zenon

-----------------------------------------------------------------------------
\* The updater and the faults.

\* Staging a payload that is not committed yet.
LEMMA StageKeeps ==
    ASSUME IInv, NEW i \in Payload, Stage(i)
    PROVE  IInv'
  <1> DEFINE k == pkg.kind[i]
             d == disk[i]
             w == [d EXCEPT !.s = "new"]
  <1>1. /\ pc = "up" /\ mem.phase \in {0, 4} /\ i \in 1 .. mem.n /\ i \notin mem.committed
        /\ disk' = [disk EXCEPT ![i].s = "new"]
        /\ UNCHANGED <<pkg, slots, mem, slot, pc, op, cursor, leg, booting, status>>
    BY Zenon DEF Stage, Updates, Used, replay
  <1>2. /\ Packed /\ disk \in [Payload -> Files] /\ Arranged(k, pkg.fs, d)
        /\ k \in AllKinds
    BY KindsOf, Zenon DEF IInv, Typed, AllArranged
  <1>3. k # "same"
    BY <1>2, Restated, Zenon DEF Stage, Staged
  <1>4. d \in Files
    BY <1>2, Zenon
  <1>5. w \in Files /\ w.t = d.t /\ w.s = "new" /\ w.b = d.b /\ w.p = d.p
    BY <1>4, Zenon DEF Files
  <1>6. disk' = [disk EXCEPT ![i] = w]
    BY <1>1, Zenon
  <1> HIDE DEF w
  <1>7. Arranged(k, pkg.fs, w)
    BY <1>2, <1>3, <1>5, Zenon DEF Arranged
  <1>8. disk' \in [Payload -> Files] /\ \A m \in Payload : disk'[m] = IF m = i THEN w ELSE disk[m]
    BY <1>2, <1>5, <1>6, Zenon
  <1>9. Kept(pkg.kind, disk', mem)
    <2>1. mem.committed \subseteq Payload /\ mem.rolled \subseteq Payload
      BY <1>1, AtWork, Zenon DEF Journal
    <2>2. Kept(pkg.kind, disk, mem)
      BY <1>1, AtWork, Zenon DEF Sound
    <2>3. mem.phase \notin {8, 9}
      BY <1>1
    <2>4. Kept(pkg.kind, [disk EXCEPT ![i] = w], mem)
      BY <1>1, <1>2, <1>5, <2>1, <2>2, <2>3, KeptWritten, Zenon
    <2> QED BY <1>6, <2>4, Zenon
  <1>10. Packed' /\ Typed'
    BY <1>1, <1>8, Zenon DEF IInv, Packed, Typed
  <1>11. AllArranged'
    BY <1>1, <1>7, <1>8, Zenon DEF IInv, AllArranged
  <1>12. Anchored'
    BY <1>1, <1>9, AtWork, Zenon DEF Anchored, Sound
  <1>13. Placed'
    BY <1>1, Zenon DEF IInv, Placed
  <1> QED BY <1>1, <1>10, <1>11, <1>12, <1>13, Zenon DEF IInv

\* The updater moves the journal to its next phase.
LEMMA AdvanceKeeps ==
    ASSUME IInv, Advance
    PROVE  IInv'
  <1>1. /\ pc = "up" /\ op' = "advance"
        /\ UNCHANGED <<pkg, slots, disk, slot, cursor, leg, booting>>
    BY Zenon DEF Advance, Updates
  <1>2. /\ ~booting /\ cursor \in Nat /\ leg \in {"none", "enter", "forth", "back", "clear"}
        /\ booting \in BOOLEAN
    BY <1>1, Zenon DEF IInv, Placed, Typed
  <1>3. ASSUME NEW j \in Journal, Persist(j), Sound(pkg, disk, j), j.gen = mem.gen,
               Follows(mem.phase, j.phase), j.phase \in 1 .. 5
        PROVE  IInv'
    BY <1>1, <1>2, <1>3, AtWork, PersistKeeps, Zenon
  <1>4. ASSUME NEW q \in {1, 2, 3, 5}, Persist([mem EXCEPT !.phase = q]),
               \/ q = 1 /\ mem.phase = 0
               \/ q = 2 /\ mem.phase = 1
               \/ q = 3 /\ mem.phase = 2 /\ ~pkg.batch /\ mem.committed = Used(mem)
               \/ q = 5 /\ mem.phase \in {4, 6} /\ mem.committed = Used(mem)
        PROVE  IInv'
    <2> DEFINE j == [mem EXCEPT !.phase = q]
    <2>1. j = [mem EXCEPT !.phase = q] /\ Persist(j)
      BY <1>4, Zenon
    <2>2. Follows(mem.phase, q)
      BY <1>4, Zenon DEF Follows
    <2>3. /\ q = 2 => mem.phase # 4
          /\ q = 3 => ~pkg.batch /\ mem.committed = 1 .. mem.n
          /\ q = 5 => mem.committed = 1 .. mem.n
      BY <1>4 DEF Used
    <2> HIDE DEF j
    <2>4. j \in Journal /\ Sound(pkg, disk, j) /\ j.phase = q /\ j.gen = mem.gen
      BY <1>1, <2>1, <2>2, <2>3, AtWork, SoundRephased
    <2>5. Follows(mem.phase, j.phase) /\ j.phase \in 1 .. 5
      BY <2>2, <2>4, SMTT(30)
    <2> QED BY <1>3, <2>1, <2>4, <2>5, Zenon
  <1>5. ASSUME mem.phase = 3, Persist([mem EXCEPT !.phase = 4, !.n = N])
        PROVE  IInv'
    <2> DEFINE j == [mem EXCEPT !.phase = 4, !.n = N]
    <2>1. j \in Journal /\ WellFormed(pkg.batch, j) /\ Sized(pkg.batch, j)
      BY <1>1, <1>5, AtWork, SoundParts, Extended, Zenon
    <2>2. /\ j.phase = 4 /\ j.n = N /\ j.gen = mem.gen /\ j.committed = mem.committed
          /\ j.rolled = mem.rolled
      BY <1>1, AtWork, Zenon DEF Journal
    <2>3. Persist(j)
      BY <1>5, Zenon
    <2> HIDE DEF j
    <2>4. Follows(mem.phase, j.phase)
      BY <1>5, <2>2, Zenon DEF Follows
    <2>5. Kept(pkg.kind, disk, j)
      BY <1>1, <2>1, <2>2, <2>4, AtWork, SoundParts, KeptOn, Zenon
    <2>6. Sound(pkg, disk, j)
      BY <2>1, <2>5, Zenon DEF Sound
    <2> QED BY <1>3, <2>1, <2>2, <2>3, <2>4, <2>6, SMTT(30)
  <1>6. CASE mem.phase = 0 /\ Persist([mem EXCEPT !.phase = 1])
    BY <1>4, <1>6, Zenon
  <1>7. CASE mem.phase = 1 /\ Persist([mem EXCEPT !.phase = 2])
    BY <1>4, <1>7, Zenon
  <1>8. CASE /\ ~pkg.batch /\ mem.phase = 2 /\ mem.committed = Used(mem)
             /\ Persist([mem EXCEPT !.phase = 3])
    BY <1>4, <1>8, Zenon
  <1>9. CASE mem.phase = 3 /\ Persist([mem EXCEPT !.phase = 4, !.n = N])
    BY <1>5, <1>9, Zenon
  <1>10. CASE /\ mem.phase \in {4, 6} /\ mem.committed = Used(mem)
              /\ Persist([mem EXCEPT !.phase = 5])
    BY <1>4, <1>10, Zenon
  <1> QED BY <1>6, <1>7, <1>8, <1>9, <1>10, Zenon DEF Advance

\* The updater has the next payload committed.
LEMMA CommitNextKeeps ==
    ASSUME IInv, NEW i \in Payload, CommitNext(i)
    PROVE  IInv'
  <1>1. /\ pc = "up" /\ mem.phase \in {2, 4} /\ IsNext(i) /\ pkg.kind[i] # "legacy"
        /\ pc' = "mutate" /\ op' = "commit" /\ cursor' = i /\ leg' = "enter"
        /\ UNCHANGED <<pkg, slots, disk, mem, slot, booting, status>>
    BY Zenon DEF CommitNext, Updates
  <1>2. i \in 1 .. mem.n /\ NextUp(i, mem) /\ i \in Nat
    BY <1>1, SMTT(30) DEF IsNext, Used, NextUp, Payload
  <1>3. ~booting
    BY <1>1, Zenon DEF IInv, Placed
  <1>4. Typed'
    BY <1>1, <1>2, Zenon DEF IInv, Typed
  <1>5. AtMutate'
    BY <1>1, <1>2, Zenon DEF AtMutate
  <1>6. AtLeg'
    BY <1>1, Zenon DEF AtLeg, OnLeg, Back
  <1>7. Placed'
    BY <1>1, <1>3, <1>5, <1>6, AtWork, Zenon DEF Placed
  <1> QED BY <1>1, <1>4, <1>7, AtWork, Arrive, Zenon

\* The updater has a package rolled back or cleaned up.
LEMMA RunKeeps ==
    ASSUME IInv, NEW o \in {"rollback", "cleanup"}, RunAtRuntime(o)
    PROVE  IInv'
  <1>1. /\ pc = "up" /\ Begin(o, mem) /\ UNCHANGED <<pkg, slots, disk, slot>>
        /\ o = "cleanup" => mem.phase = 5
        /\ o = "rollback" => mem.phase \notin {5, 7, 9}
    BY Zenon DEF RunAtRuntime, Updates
  <1>2. Begin(o, slots[slot].j)
    BY <1>1, AtWork, Zenon
  <1> QED BY <1>1, <1>2, AtWork, BeginKeeps, Zenon

\* Losing the power loses nothing that is on the disk.
LEMMA OffKeeps ==
    ASSUME IInv, pc # "off", Off
    PROVE  IInv'
  <1>1. /\ pc' = "off" /\ mem' = Blank /\ slot' = 0 /\ booting' = TRUE /\ Idle
        /\ UNCHANGED <<pkg, slots, disk>>
    BY Zenon DEF Off
  <1>2. Blank \in Journal
    BY UpdateAssumption, SMTT(30) DEF Blank, Journal, Payload
  <1>3. Packed' /\ AllArranged'
    BY <1>1, Zenon DEF IInv, Packed, AllArranged
  <1>4. Typed'
    BY <1>1, <1>2, Zenon DEF IInv, Typed, Idle
  <1>5. Newest(slots, slot) /\ Sound(pkg, disk, slots[slot].j) /\ slot \in {0, 1}
    BY Zenon DEF IInv, Anchored, Typed
  <1>6. \E k \in {0, 1} : Newest(slots', k) /\ Sound(pkg', disk', slots'[k].j)
    BY <1>1, <1>5, Zenon
  <1> QED BY <1>1, <1>3, <1>4, <1>6, Zenon DEF IInv

\* A device error stops the machine with a journal that is well formed.
LEMMA ErrorKeeps ==
    ASSUME IInv, DeviceError
    PROVE  IInv'
  <1>1. /\ Working /\ pc' = "halt" /\ status' = 3
        /\ UNCHANGED <<pkg, slots, disk, slot, mem, op, cursor, leg, booting>>
    BY Zenon DEF DeviceError, Halt, replay
  <1>2. WellFormed(pkg.batch, mem)
    <2>1. CASE pc \in {"persist", "writing"}
      BY <2>1, Zenon DEF IInv, Placed, AtPersist, Sound
    <2>2. CASE pc \in {"step", "mutate", "done"}
      BY <2>2, AtWork, Zenon DEF Sound
    <2> QED BY <1>1, <2>1, <2>2, Zenon DEF Working
  <1>3. Typed'
    BY <1>1, Zenon DEF IInv, Typed
  <1>4. pc # "off"
    BY <1>1, Zenon DEF Working
  <1>5. Placed'
    BY <1>1, <1>2, <1>4, Zenon DEF IInv, Placed
  <1>6. Newest(slots, slot) /\ Sound(pkg, disk, slots[slot].j) /\ slot \in {0, 1}
    BY <1>4, Zenon DEF IInv, Anchored, Typed
  <1> QED BY <1>1, <1>3, <1>5, <1>6, Arrive, Zenon

-----------------------------------------------------------------------------
\* A package that has not been touched satisfies the invariant.
LEMMA InitIInv == Init => IInv
  <1> SUFFICES ASSUME Init PROVE IInv
    BY Zenon
  <1>1. Packed
    BY Zenon DEF Init, Packed, Packages, replace_required
  <1>2. disk = [i \in Payload |-> Orig(pkg.kind[i])]
    BY <1>1, Restated, Zenon DEF Init
  <1>3. \A i \in Payload : disk[i] \in Files /\ Arranged(pkg.kind[i], pkg.fs, disk[i])
    BY <1>1, <1>2, KindsOf, OrigArranged, Zenon
  <1>4. AllArranged /\ disk \in [Payload -> Files]
    BY <1>2, <1>3, Zenon DEF AllArranged
  <1>5. /\ mem.phase = 0 /\ mem.committed = {} /\ mem.rolled = {} /\ mem.gen = 1
        /\ mem.n = IF pkg.batch THEN N ELSE N - 1
    BY Zenon DEF Init
  <1>6. mem \in Journal /\ Blank \in Journal
    BY UpdateAssumption DEF Init, Journal, Blank, Payload
  <1>7. /\ slots \in [{0, 1} -> [file : {"whole", "absent", "torn"}, j : Journal]]
        /\ slots[0].file = "whole" /\ slots[0].j = mem /\ slots[1].file = "absent"
    <2>1. \A f \in {"whole", "absent", "torn"}, j \in Journal :
            [file |-> f, j |-> j] \in [file : {"whole", "absent", "torn"}, j : Journal]
      BY Zenon
    <2>2. slots = [k \in {0, 1} |-> IF k = 0 THEN [file |-> "whole", j |-> mem]
                                            ELSE [file |-> "absent", j |-> Blank]]
      BY Zenon DEF Init
    <2> QED BY <1>6, <2>1, <2>2
  <1>8. Sound(pkg, disk, mem)
    <2>1. WellFormed(pkg.batch, mem)
      BY <1>5 DEF WellFormed
    <2>2. Sized(pkg.batch, mem)
      BY <1>1, <1>5, SMTT(30) DEF Sized, Packed, Packages
    <2>3. Kept(pkg.kind, disk, mem)
      BY <1>2, <1>5, Zenon DEF Kept
    <2> QED BY <2>1, <2>2, <2>3, Zenon DEF Sound
  <1>9. slot = 0 /\ pc = "up" /\ op = "none" /\ cursor = 0 /\ leg = "none" /\ booting = FALSE
    BY Zenon DEF Init
  <1>10. Typed
    BY <1>4, <1>6, <1>7, <1>9, Zenon DEF Typed
  <1>11. Anchored
    BY <1>7, <1>8, <1>9 DEF Anchored, Newest
  <1>12. Placed
    BY <1>7, <1>9, Zenon DEF Placed
  <1> QED BY <1>1, <1>4, <1>9, <1>10, <1>11, <1>12, Zenon DEF IInv

\* Every step of the machine, of the updater and of the faults keeps it.
LEMMA NextIInv == IInv /\ [Next]_vars => IInv'
  <1> SUFFICES ASSUME IInv, [Next]_vars PROVE IInv'
    BY Zenon
  <1>1. CASE UNCHANGED vars
    <2>1. UNCHANGED <<pkg, slots, disk, mem, slot, pc, op, cursor, leg, booting, status>>
      BY <1>1, Zenon DEF vars, replay
    <2>2. Packed' = Packed /\ Typed' = Typed /\ AllArranged' = AllArranged
      BY <2>1, Zenon DEF Packed, Typed, AllArranged
    <2>3. Anchored' = Anchored
      BY <2>1, Zenon DEF Anchored
    <2>4. AtStep' = AtStep /\ AtMutate' = AtMutate /\ AtPersist' = AtPersist
      BY <2>1, Zenon DEF AtStep, AtMutate, AtPersist
    <2>5. AtLeg' = AtLeg
      BY <2>1, Zenon DEF AtLeg, Back
    <2>6. Placed' = Placed
      BY <2>1, <2>4, <2>5, Zenon DEF Placed
    <2> QED BY <2>1, <2>2, <2>3, <2>6, Zenon DEF IInv
  <1>2. CASE Replay
    BY <1>2, BootKeeps, PersistBeginKeeps, PersistEndKeeps, ReturnKeeps, ForwardKeeps,
       RollbackKeeps, CleanupKeeps, TransitionKeeps, ForthKeeps, BackKeeps, ClearKeeps, Zenon
    DEF Replay
  <1>3. CASE Updater
    BY <1>3, StageKeeps, CommitNextKeeps, AdvanceKeeps, RunKeeps, Zenon DEF Updater
  <1>4. CASE Restart \/ PowerCut
    BY <1>4, OffKeeps, Zenon DEF Restart, PowerCut, Working
  <1>5. CASE DeviceError
    BY <1>5, ErrorKeeps, Zenon
  <1> QED BY <1>1, <1>2, <1>3, <1>4, <1>5, Zenon DEF Next

\* The invariant holds in every state of every behaviour.
THEOREM RecoveryInvariant == Spec => []IInv
  <1>1. Init => IInv
    BY InitIInv, Zenon
  <1>2. IInv /\ [Next]_vars => IInv'
    BY NextIInv, Zenon
  <1> QED BY <1>1, <1>2, PTL DEF Spec

-----------------------------------------------------------------------------
\* What the invariant says to a boot, and the theorems.

\* Fate for a journal in phase p.
FateOf(p) ==
    IF p = 6 THEN "trial" ELSE IF p \in {5, 7} THEN "applied"
    ELSE IF p = 8 THEN "undoing" ELSE IF p = 9 THEN "undone" ELSE "open"

\* A boot would continue from slot k, and that journal is right about the files.
Continues(k) ==
    /\ Newest(slots, k) /\ Sound(pkg, disk, slots[k].j) /\ slots[k].j \in Journal
    /\ Durable = slots[k].j /\ Fate = FateOf(slots[k].j.phase)
    /\ pc # "off" => k = slot

Located == Typed /\ \E k \in {0, 1} : Continues(k)

\* There is always exactly one journal a boot continues from.
LEMMA AlwaysLocated == IInv => Located
  <1> SUFFICES ASSUME IInv PROVE Located
    BY Zenon
  <1>1. Typed /\ slot \in {0, 1}
        /\ slots \in [{0, 1} -> [file : {"whole", "absent", "torn"}, j : Journal]]
    BY Zenon DEF IInv, Typed
  <1>2. PICK k \in {0, 1} : /\ Newest(slots, k) /\ Sound(pkg, disk, slots[k].j)
                            /\ pc # "off" => k = slot
    BY <1>1, Zenon DEF IInv, Anchored
  <1>3. slots[k].j \in Journal
    BY <1>1, Zenon
  <1>4. Durable = slots[k].j
    BY <1>1, <1>2, DurableIs, Zenon DEF Sound
  <1>5. slots[k].j.phase \in 0 .. 9
    BY <1>3, Zenon DEF Journal
  <1>6. Fate = FateOf(slots[k].j.phase)
    BY <1>4, <1>5 DEF Fate, FateOf
  <1> QED BY <1>1, <1>2, <1>3, <1>4, <1>6, Zenon DEF Located, Continues

\* Two slots are never both the newest.
LEMMA OneNewest ==
    ASSUME slots \in [{0, 1} -> [file : {"whole", "absent", "torn"}, j : Journal]],
           NEW k \in {0, 1}, NEW m \in {0, 1}, Newest(slots, k), Newest(slots, m)
    PROVE  k = m
  <1>1. slots[0].j.gen \in Nat /\ slots[1].j.gen \in Nat
    BY Zenon DEF Journal
  <1>2. 1 - 0 = 1 /\ 1 - 1 = 0
    OBVIOUS
  <1>3. ~(Newest(slots, 0) /\ Newest(slots, 1))
    BY <1>1, <1>2 DEF Newest
  <1> QED BY <1>3

\* A journal that ended is right about every file.
LEMMA EndedExact == IInv => TerminalExact
  <1> SUFFICES ASSUME IInv PROVE TerminalExact
    BY Zenon
  <1>1. PICK k \in {0, 1} : Continues(k)
    BY AlwaysLocated, Zenon DEF Located
  <1> DEFINE j == slots[k].j
  <1>2. Durable = j /\ Sound(pkg, disk, j) /\ j \in Journal
    BY <1>1, Zenon DEF Continues
  <1> HIDE DEF j
  <1>3. Packed
    BY Zenon DEF IInv
  <1>4. ASSUME j.phase \in {5, 6, 7}, NEW i \in Payload
        PROVE  Applied(i)
    <2>1. j.phase \in 4 .. 7 /\ j.phase \in 0 .. 7
      BY <1>4
    <2>2. j.n = N
      BY <1>2, <2>1, Zenon DEF Sound, Sized
    <2>3. j.committed = 1 .. j.n
      BY <1>2, <1>4, Zenon DEF Sound, WellFormed
    <2>4. i \in j.committed
      BY <2>2, <2>3, Zenon DEF Payload
    <2>5. Done(pkg.kind[i], disk[i])
      BY <1>2, <2>1, <2>4, Zenon DEF Sound, Kept
    <2> QED BY <1>3, <2>5, Restated, Zenon
  <1>5. ASSUME j.phase = 9, NEW i \in Payload
        PROVE  disk[i] = Original(i)
    <2>1. i \in j.rolled \/ i \in Payload \ Used(j)
      BY <1>2, <1>5, Zenon DEF Sound, WellFormed, Used
    <2>2. disk[i] = Orig(pkg.kind[i])
      BY <1>2, <1>5, <2>1, Zenon DEF Sound, Kept
    <2> QED BY <1>3, <2>2, Restated, Zenon
  <1> QED BY <1>2, <1>4, <1>5, Zenon DEF TerminalExact

\* The old file and the backup before it are where they must be.
LEMMA FilesKept == IInv => NothingLost
  <1> SUFFICES ASSUME IInv, NEW i \in Payload
               PROVE  /\ existed(i) => "old" \in {disk[i].t, disk[i].b} \/ ~replace_required(i)
                      /\ disk[i].p # Original(i).p => Durable.phase \in {5, 7}
    BY Zenon DEF NothingLost
  <1>1. Packed /\ Arranged(pkg.kind[i], pkg.fs, disk[i]) /\ pkg.kind[i] \in AllKinds
    BY KindsOf, Zenon DEF IInv, AllArranged
  <1>2. existed(i) => "old" \in {disk[i].t, disk[i].b} \/ ~replace_required(i)
    <2>1. disk[i].t \in {"none", "old", "new"}
      BY <1>1, Zenon DEF Arranged, Files
    <2>2. pkg.kind[i] \in {"replace", "legacy"} => disk[i].t = "old" \/ disk[i].b = "old"
      BY <1>1, <2>1, Zenon DEF Arranged
    <2> QED BY <1>1, <2>2, Restated, Zenon
  <1>3. PICK k \in {0, 1} : Continues(k)
    BY AlwaysLocated, Zenon DEF Located
  <1>4. Durable.phase \notin {5, 7} => disk[i].p = Orig(pkg.kind[i]).p
    BY <1>3, Zenon DEF Continues, Sound, Kept
  <1> QED BY <1>1, <1>2, <1>4, Restated, Zenon

\* A machine that stopped did so for a device error, with a valid journal.
LEMMA StopsForDevices == IInv => NeverStuck
  <1> SUFFICES ASSUME IInv, pc = "halt" PROVE status = 3 /\ Valid(mem)
    BY Zenon DEF NeverStuck
  <1> QED BY ValidIs, Zenon DEF IInv, Placed, Typed

\* The old file is always behind the target or the backup name, and the backup
\* of the package before goes only when this one is confirmed.
THEOREM OldFilesSurvive == Spec => []NothingLost
  BY RecoveryInvariant, FilesKept, PTL

\* Whatever a power cut left, a boot stops only when a device failed.
THEOREM RecoveryNeverRefuses == Spec => []NeverStuck
  BY RecoveryInvariant, StopsForDevices, PTL

\* A journal that says applied, on trial or rolled back is right about all files.
THEOREM EndedJournalsExact == Spec => []TerminalExact
  BY RecoveryInvariant, EndedExact, PTL

-----------------------------------------------------------------------------
\* The loader's view.

\* A package starts undecided, with the old files in use.
LEMMA StartsOpen == Init => Abstract!Init
  <1> SUFFICES ASSUME Init PROVE Abstract!Init
    BY Zenon
  <1>1. PICK k \in {0, 1} : Continues(k)
    BY InitIInv, AlwaysLocated, Zenon DEF Located
  <1>2. k = 0 /\ slots[0].j.phase = 0 /\ seen = {"old"}
    BY <1>1, ZenonT(40) DEF Continues, Init
  <1>3. Fate = FateOf(0)
    BY <1>1, <1>2, Zenon DEF Continues
  <1>4. Fate = "open"
    BY <1>3 DEF FateOf
  <1> QED BY <1>2, <1>4, Zenon DEF Abstract!Init

\* A step that writes no slot decides nothing.
LEMMA Undecided ==
    ASSUME Located, Located', UNCHANGED slots
    PROVE  UNCHANGED Fate
  <1>1. PICK k \in {0, 1} : Newest(slots, k) /\ Fate = FateOf(slots[k].j.phase)
    BY Zenon DEF Located, Continues
  <1>2. PICK m \in {0, 1} : Newest(slots', m) /\ Fate' = FateOf(slots'[m].j.phase)
    BY Zenon DEF Located, Continues
  <1>3. k = m
    BY <1>1, <1>2, OneNewest, Zenon DEF Located, Typed
  <1> QED BY <1>1, <1>2, <1>3, Zenon

\* Only writing the second half of a journal decides, and only by the next phase.
LEMMA JournalDecides ==
    ASSUME IInv, Located, Located', persistEnd
    PROVE  [Abstract!Next]_<<Fate, seen>>
  <1>1. /\ pc = "writing" /\ seen' = seen /\ pc' # "off" /\ slot \in {0, 1}
        /\ slot' = 1 - slot /\ slots'[1 - slot].j.phase = mem.phase
    BY PersistEndKeeps, Zenon DEF persistEnd, Located, Typed
  <1> DEFINE p == slots[slot].j.phase
             q == mem.phase
  <1>2. Fate = FateOf(p)
    BY <1>1, Zenon DEF Located, Continues
  <1>3. Fate' = FateOf(q)
    BY <1>1, Zenon DEF Located, Continues
  <1>4. Follows(p, q) /\ p \in 0 .. 9 /\ q \in 0 .. 9
    BY <1>1, Zenon DEF IInv, Placed, AtPersist, Typed, Journal
  <1> HIDE DEF p, q
  <1>5. \/ FateOf(p) = FateOf(q)
        \/ <<FateOf(p), FateOf(q)>> \in
             {<<"open", "trial">>, <<"open", "applied">>, <<"open", "undoing">>,
              <<"trial", "applied">>, <<"trial", "undoing">>, <<"undoing", "undone">>}
    BY <1>4 DEF Follows, FateOf
  <1> QED BY <1>1, <1>2, <1>3, <1>5, Zenon DEF Abstract!Next, Abstract!Decide

\* When a boot hands over to the loader, the package is old or new as a whole.
LEMMA LoaderSees ==
    ASSUME IInv, Located, Located', Return
    PROVE  [Abstract!Next]_<<Fate, seen>>
  <1>1. /\ pc = "done" /\ UNCHANGED slots
        /\ seen' = IF booting THEN {Version(i) : i \in Changing} ELSE seen
    BY Zenon DEF Return
  <1>2. UNCHANGED Fate
    BY <1>1, Undecided, Zenon
  <1>3. CASE ~booting
    BY <1>1, <1>2, <1>3, Zenon
  <1>4. CASE booting
    <2>1. mem.phase \in {6, 7, 9} /\ Durable = mem /\ Fate = FateOf(mem.phase)
      BY <1>1, <1>4, Zenon DEF IInv, Placed, Located, Continues
    <2>2. TerminalExact /\ Packed
      BY EndedExact, Zenon DEF IInv
    <2>3. PICK c \in Payload : c \in Changing
      BY <2>2, Restated, Zenon DEF Packed, Changing
    <2>4. seen' = {Version(i) : i \in Changing}
      BY <1>1, <1>4, Zenon
    <2>5. CASE mem.phase \in {6, 7}
      <3>1. ASSUME NEW i \in Changing
            PROVE  Version(i) = "new"
        <4>1. i \in Payload /\ disk[i].t = "new" /\ pkg.kind[i] # "same"
          BY <2>1, <2>2, <2>5, <3>1, Restated, Zenon DEF TerminalExact, Applied, Changing
        <4>2. Original(i).t # "new"
          BY <2>2, <4>1, Restated DEF Orig
        <4> QED BY <4>1, <4>2, Zenon DEF Version
      <3>2. \A v : v \in seen' <=> v = "new"
        <4>1. Version(c) = "new" /\ Version(c) \in seen'
          BY <2>3, <2>4, <3>1, Zenon
        <4>2. ASSUME NEW v \in seen' PROVE v = "new"
          BY <2>4, <3>1, <4>2, Zenon
        <4> QED BY <4>1, <4>2, Zenon
      <3>3. Fate \in {"trial", "applied"}
        BY <2>1, <2>5, Zenon DEF FateOf
      <3>4. seen' = {"new"}
        BY <3>2, Zenon
      <3> QED BY <1>2, <3>3, <3>4, Zenon DEF Abstract!Next, Abstract!Load
    <2>6. CASE mem.phase = 9
      <3>1. ASSUME NEW i \in Changing
            PROVE  Version(i) = "old"
        <4>1. i \in Payload /\ disk[i] = Original(i) /\ pkg.kind[i] # "same"
          BY <2>1, <2>2, <2>6, <3>1, Restated, Zenon DEF TerminalExact, Changing
        <4>2. Original(i).t # "new"
          BY <2>2, <4>1, Restated DEF Orig
        <4> QED BY <4>1, <4>2, Zenon DEF Version
      <3>2. \A v : v \in seen' <=> v = "old"
        <4>1. Version(c) = "old" /\ Version(c) \in seen'
          BY <2>3, <2>4, <3>1, Zenon
        <4>2. ASSUME NEW v \in seen' PROVE v = "old"
          BY <2>4, <3>1, <4>2, Zenon
        <4> QED BY <4>1, <4>2, Zenon
      <3>3. Fate = "undone"
        BY <2>1, <2>6 DEF FateOf
      <3>4. seen' = {"old"}
        BY <3>2, Zenon
      <3> QED BY <1>2, <3>3, <3>4, Zenon DEF Abstract!Next, Abstract!Load
    <2> QED BY <2>1, <2>5, <2>6, Zenon
  <1> QED BY <1>3, <1>4, Zenon DEF IInv, Typed

\* Starting to write a journal removes the older one, never the newest.
LEMMA BeginsUndecided ==
    ASSUME IInv, Located, Located', persistBegin
    PROVE  UNCHANGED <<Fate, seen>>
  <1>1. pc = "persist" /\ pc' \in {"writing", "halt"} /\ slot' = slot /\ seen' = seen
    BY Zenon DEF persistBegin, Halt
  <1>2. slots'[slot].j = slots[slot].j
    <2>1. slot \in {0, 1} /\ 1 - slot # slot
          /\ slots \in [{0, 1} -> [file : {"whole", "absent", "torn"}, j : Journal]]
      BY DEF Located, Typed
    <2> QED BY <2>1, Zenon DEF persistBegin
  <1>3. Fate = FateOf(slots[slot].j.phase)
    BY <1>1, Zenon DEF Located, Continues
  <1>4. Fate' = FateOf(slots'[slot].j.phase)
    BY <1>1, Zenon DEF Located, Continues
  <1> QED BY <1>1, <1>2, <1>3, <1>4, Zenon

\* Starting a replay, or stopping one, is not seen by the loader.
LEMMA BeginUnseen ==
    ASSUME NEW o, NEW j, Begin(o, j)
    PROVE  seen' = seen
  <1>1. CASE o = "none"
    BY <1>1, Zenon DEF Begin
  <1>2. CASE o = "forward" /\ pkg.batch
    BY <1>2, Zenon DEF Begin
  <1>3. CASE o = "rollback" /\ Valid(j) /\ j.phase \notin {5, 7}
    BY <1>3, Zenon DEF Begin
  <1>4. CASE o = "cleanup" /\ j.phase = 5 /\ \A i \in Used(j) : Applied(i)
    BY <1>4, Zenon DEF Begin
  <1>5. CASE /\ o # "none" /\ ~(o = "forward" /\ pkg.batch)
             /\ ~(o = "rollback" /\ Valid(j) /\ j.phase \notin {5, 7})
             /\ ~(o = "cleanup" /\ j.phase = 5 /\ \A i \in Used(j) : Applied(i))
    BY <1>5, Zenon DEF Begin, Halt
  <1> QED BY <1>1, <1>2, <1>3, <1>4, <1>5, Zenon

\* Nor is how the transition of a payload ends.
LEMMA TurnsUnseen ==
    /\ Conflict => seen' = seen
    /\ Moved => seen' = seen
    /\ \A l : Turn(l) => seen' = seen
    /\ \A i : Forth(i) => seen' = seen
  <1>1. Conflict => seen' = seen
    BY BeginUnseen, Zenon DEF Conflict, Halt
  <1>2. Moved => seen' = seen
    BY Zenon DEF Moved
  <1>3. \A l : Turn(l) => seen' = seen
    BY Zenon DEF Turn
  <1>4. ASSUME NEW i, Forth(i) PROVE seen' = seen
    <2>1. CASE existed(i) /\ ~old_known(i)
      BY <1>3, <1>4, <2>1, Zenon DEF Forth
    <2>2. CASE existed(i) /\ old_known(i) /\ ~Applied(i)
      BY <1>1, <1>4, <2>2, Zenon DEF Forth
    <2>3. CASE existed(i) /\ old_known(i) /\ Applied(i)
      BY <1>2, <1>3, <1>4, <2>3, Zenon DEF Forth
    <2>4. CASE ~existed(i)
      BY <1>1, <1>2, <1>3, <1>4, <2>4, Zenon DEF Forth
    <2> QED BY <2>1, <2>2, <2>3, <2>4, Zenon
  <1> QED BY <1>1, <1>2, <1>3, <1>4, Zenon

\* Every other step writes no slot and is not seen by the loader.
LEMMA OthersUndecided ==
    ASSUME Next, ~persistBegin, ~persistEnd, ~Return
    PROVE  UNCHANGED <<slots, seen>>
  <1>1. CASE Replay
    <2>1. CASE recover_before_runtime
      BY <2>1, BeginUnseen, Zenon DEF recover_before_runtime, Halt
    <2>2. CASE forward
      BY <2>2, TurnsUnseen, Zenon DEF forward, Visit
    <2>3. CASE rollback
      BY <2>3, TurnsUnseen, Zenon DEF rollback, Visit
    <2>4. CASE cleanup
      BY <2>4, Zenon DEF cleanup, Halt
    <2>5. CASE transition
      BY <2>5, TurnsUnseen, Zenon DEF transition
    <2>6. CASE \/ replaceStep("forth", "t", "s", "b") \/ replaceStep("back", "t", "b", "s")
      BY <2>6, TurnsUnseen, Zenon DEF replaceStep
    <2>7. CASE clear
      BY <2>7, TurnsUnseen, Zenon DEF clear
    <2> QED BY <1>1, <2>1, <2>2, <2>3, <2>4, <2>5, <2>6, <2>7, Zenon DEF Replay
  <1>2. CASE Updater
    BY <1>2, BeginUnseen, Zenon DEF Updater, Stage, CommitNext, Advance, RunAtRuntime
  <1>3. CASE Restart \/ PowerCut \/ DeviceError
    BY <1>3, Zenon DEF Restart, PowerCut, DeviceError, Off, Halt
  <1> QED BY <1>1, <1>2, <1>3, Zenon DEF Next

\* Every step is one the loader's specification allows, or it sees nothing of it.
LEMMA StepRefines ==
    ASSUME IInv, Located, Located', [Next]_vars
    PROVE  [Abstract!Next]_<<Fate, seen>>
  <1>1. CASE persistBegin
    BY <1>1, BeginsUndecided, Zenon
  <1>2. CASE persistEnd
    BY <1>2, JournalDecides, Zenon
  <1>3. CASE Return
    BY <1>3, LoaderSees, Zenon
  <1>4. CASE UNCHANGED vars
    BY <1>4, Undecided, Zenon DEF vars
  <1>5. CASE Next /\ ~persistBegin /\ ~persistEnd /\ ~Return
    BY <1>5, OthersUndecided, Undecided, Zenon
  <1> QED BY <1>1, <1>2, <1>3, <1>4, <1>5, Zenon

\* The loader sees all of the old package or all of the new one at every boot,
\* and a package that was applied or rolled back stays so.
THEOREM UpdatesAreAtomic == Spec => ImplementsAtomicUpdate
  <1>1. Init => Abstract!Init
    BY StartsOpen, Zenon
  <1>2. IInv => Located
    BY AlwaysLocated, Zenon
  <1>3. IInv /\ Located /\ Located' /\ [Next]_vars => [Abstract!Next]_<<Fate, seen>>
    BY StepRefines, Zenon
  <1> QED BY <1>1, <1>2, <1>3, RecoveryInvariant, PTL
          DEF Spec, ImplementsAtomicUpdate, Abstract!Spec
=============================================================================
