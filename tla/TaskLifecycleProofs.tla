------------------------ MODULE TaskLifecycleProofs -------------------------
(***************************************************************************)
(* The theorems ReleasedOnce and ReapersRung: ReleaseExact and NoticeKept of *)
(* TaskLifecycle for any set of tasks and any finite set of contexts.       *)
(* First the inductive invariant and what its proof needs to know of the    *)
(* reap list; then the steps that leave claims alone, those that may claim a *)
(* task and those that end a release; then the actions, and the same for the *)
(* invariant of the notice.                                                 *)
(***************************************************************************)
EXTENDS TaskLifecycle, FiniteSetTheorems, SequenceTheorems, TLAPS

Job ==
    [at : {"idle", "reap", "resources", "anchor", "free"},
     task : Task \cup {NoTask},
     why : {"none", "other", "retire", "reap"},
     notice : BOOLEAN,
     left : Nat]

LifeTyped ==
    /\ state \in [Task -> {"Ready", "Running", "Blocked", "Dead"}]
    /\ onCpu \in [Task -> BOOLEAN]
    /\ physical \in [Task -> BOOLEAN]
    /\ held \in [Task -> {0, 1}]
    /\ pins \in [Task -> Nat]
    /\ retire \in [Task -> BOOLEAN]
    /\ notice \in [Task -> BOOLEAN]
    /\ holds \in [Context -> SUBSET Task]

ClaimTyped ==
    /\ rip \in [Task -> BOOLEAN]
    /\ inReg \in [Task -> BOOLEAN]
    /\ memory \in [Task -> {"whole", "bare", "freed"}]
    /\ job \in [Context -> Job]

\* running_cpu stands as long as a CPU executes on the stack.
Bound ==
    \A t \in Task :
        /\ state[t] = "Running" => onCpu[t]
        /\ physical[t] => onCpu[t]
        /\ state[t] = "Dead" => held[t] = 0

\* Memory goes only when the task is dead and off its CPU.
Gone == \A t \in Task : memory[t] # "whole" => state[t] = "Dead" /\ ~onCpu[t]

Holders(t) == {c \in Context : t \in holds[c]}

Counted == \A t \in Task : pins[t] = Cardinality(Holders(t))

\* What release_in_progress excludes; it stays set when the task is gone.
Marked ==
    \A t \in Task :
        /\ rip[t] => pins[t] = 0
        /\ ~inReg[t] => rip[t]
        /\ memory[t] = "freed" => ~inReg[t]

Distinct(s) == \A i, j \in 1 .. Len(s) : s[i] = s[j] => i = j

\* A task is listed once, and not while somebody releases it.
Listed ==
    /\ reap \in Seq(Task)
    /\ Distinct(reap)
    /\ \A t \in Range(reap) : ~rip[t]

\* A context in the middle of a release is the only one, and its claim holds.
Owned(c, t) ==
    /\ rip[t] /\ eligible(t) /\ memory[t] # "freed"
    /\ inReg[t] <=> job[c].at # "free"
    /\ \A d \in Context \ {c} : job[d].task # t

Busy ==
    \A c \in Context :
        /\ job[c].at \in {"idle", "reap"} <=> job[c].task = NoTask
        /\ \A t \in Task : job[c].task = t => Owned(c, t)

\* The inductive invariant.
IInv ==
    /\ LifeTyped /\ ClaimTyped
    /\ Bound /\ Gone /\ Counted /\ Marked /\ Listed /\ Busy

-----------------------------------------------------------------------------
(* The reap list. *)

\* The tasks of a list, by their places.
LEMMA RangeOfList ==
  ASSUME NEW s \in Seq(Task)
  PROVE  \A u : u \in Range(s) <=> \E i \in 1 .. Len(s) : s[i] = u
  BY DEF Range

\* A list without the element at one place: the later ones move up.
LEMMA RemoveAtEffect ==
  ASSUME NEW s \in Seq(Task), NEW i \in 1 .. Len(s)
  PROVE  LET r == SubSeq(s, 1, i - 1) \o SubSeq(s, i + 1, Len(s)) IN
         /\ r \in Seq(Task) /\ Len(r) = Len(s) - 1
         /\ \A k \in 1 .. Len(s) - 1 : r[k] = IF k < i THEN s[k] ELSE s[k + 1]
  <1> DEFINE a == SubSeq(s, 1, i - 1)
             b == SubSeq(s, i + 1, Len(s))
  <1>1. /\ a \in Seq(Task) /\ Len(a) = i - 1
        /\ \A k \in 1 .. i - 1 : a[k] = s[k]
    BY SubSeqProperties
  <1>2. /\ b \in Seq(Task) /\ Len(b) = Len(s) - i
        /\ \A k \in 1 .. Len(s) - i : b[k] = s[i + k]
    BY SubSeqProperties
  <1> HIDE DEF a, b
  <1>3. /\ a \o b \in Seq(Task) /\ Len(a \o b) = Len(a) + Len(b)
        /\ \A k \in 1 .. Len(a) + Len(b) :
              (a \o b)[k] = IF k <= Len(a) THEN a[k] ELSE b[k - Len(a)]
    BY ZenonT(40), <1>1, <1>2, ConcatProperties
  <1>4. ASSUME NEW k \in 1 .. Len(s) - 1
        PROVE  (a \o b)[k] = IF k < i THEN s[k] ELSE s[k + 1]
    <2>1. CASE k < i
      BY <1>1, <1>2, <1>3, <2>1
    <2>2. CASE ~(k < i)
      <3>1. k - (i - 1) \in 1 .. Len(s) - i /\ i + (k - (i - 1)) = k + 1
        BY <2>2
      <3>2. (a \o b)[k] = b[k - (i - 1)]
        BY <1>1, <1>2, <1>3, <2>2, SMTT(30)
      <3>3. b[k - (i - 1)] = s[i + (k - (i - 1))]
        BY ZenonT(40), <1>2, <3>1
      <3> QED
        BY <2>2, <3>1, <3>2, <3>3, Zenon
    <2> QED
      BY ZenonT(40), <2>1, <2>2
  <1>5. Len(a \o b) = Len(s) - 1
    BY <1>1, <1>2, <1>3
  <1> QED
    BY ZenonT(40), <1>3, <1>4, <1>5 DEF a, b

\* unlink_reap leaves the others, each still listed once.
LEMMA UnlinkEffect ==
  ASSUME NEW s \in Seq(Task), Distinct(s), NEW t \in Task
  PROVE  /\ unlink_reap(s, t) \in Seq(Task)
         /\ Distinct(unlink_reap(s, t))
         /\ Range(unlink_reap(s, t)) \subseteq Range(s) \ {t}
  <1>1. CASE t \notin Range(s)
    BY <1>1, Zenon DEF unlink_reap
  <1>2. CASE t \in Range(s)
    <2> DEFINE i == CHOOSE k \in 1 .. Len(s) : s[k] = t
               r == unlink_reap(s, t)
               from(k) == IF k < i THEN k ELSE k + 1
    <2>1. i \in 1 .. Len(s) /\ s[i] = t
      BY <1>2, RangeOfList, Zenon
    <2>2. r = SubSeq(s, 1, i - 1) \o SubSeq(s, i + 1, Len(s))
      BY ZenonT(40), <1>2 DEF unlink_reap
    <2> HIDE DEF i, r
    <2>3. /\ r \in Seq(Task) /\ Len(r) = Len(s) - 1
          /\ \A k \in 1 .. Len(s) - 1 : r[k] = s[from(k)]
      BY ZenonT(40), <2>1, <2>2, RemoveAtEffect
    <2>4. /\ \A k \in 1 .. Len(s) - 1 : from(k) \in 1 .. Len(s) /\ from(k) # i
          /\ \A k, l \in 1 .. Len(s) - 1 : from(k) = from(l) => k = l
      BY <2>1
    <2> HIDE DEF from
    <2>5. Distinct(r)
      BY <2>3, <2>4 DEF Distinct
    <2>6. ASSUME NEW u \in Range(r)
          PROVE  u \in Range(s) \ {t}
      <3>1. PICK k \in 1 .. Len(s) - 1 : r[k] = u
        BY <2>3, RangeOfList, Zenon
      <3>2. s[from(k)] = u /\ from(k) \in 1 .. Len(s) /\ from(k) # i
        BY <2>3, <2>4, <3>1, Zenon
      <3>3. u # t
        BY <2>1, <3>2, Zenon DEF Distinct
      <3> QED
        BY <3>2, <3>3, RangeOfList, Zenon
    <2> QED
      BY <2>3, <2>5, <2>6, Zenon DEF r
  <1> QED
    BY <1>1, <1>2, Zenon

\* A task that is not listed can be appended.
LEMMA AppendEffect ==
  ASSUME NEW s \in Seq(Task), Distinct(s), NEW t \in Task, t \notin Range(s)
  PROVE  /\ Append(s, t) \in Seq(Task)
         /\ Distinct(Append(s, t))
         /\ Range(Append(s, t)) \subseteq Range(s) \cup {t}
  <1> DEFINE r == Append(s, t)
  <1>1. /\ r \in Seq(Task) /\ Len(r) = Len(s) + 1
        /\ \A k \in 1 .. Len(s) : r[k] = s[k]
        /\ r[Len(s) + 1] = t
    BY AppendProperties
  <1>2. Len(s) \in Nat /\ \A k \in 1 .. Len(s) : s[k] # t /\ s[k] \in Range(s)
    BY RangeOfList
  <1> HIDE DEF r
  <1>3. Distinct(r)
    BY <1>1, <1>2, SMTT(30) DEF Distinct
  <1>4. ASSUME NEW u \in Range(r)
        PROVE  u \in Range(s) \cup {t}
    <2>1. PICK k \in 1 .. Len(s) + 1 : r[k] = u
      BY <1>1, RangeOfList
    <2> QED
      BY <1>1, <1>2, <2>1
  <1> QED
    BY <1>1, <1>3, <1>4, Zenon DEF r

\* The head of the list and the rest of it.
LEMMA TailEffect ==
  ASSUME NEW s \in Seq(Task), Distinct(s), s # <<>>
  PROVE  /\ Head(s) \in Task \cap Range(s)
         /\ Tail(s) \in Seq(Task)
         /\ Distinct(Tail(s))
         /\ Range(Tail(s)) \subseteq Range(s) \ {Head(s)}
  <1> DEFINE r == Tail(s)
             h == Head(s)
  <1>1. /\ h \in Task /\ r \in Seq(Task) /\ Len(r) = Len(s) - 1
        /\ \A k \in 1 .. Len(s) - 1 : r[k] = s[k + 1]
    BY HeadTailProperties, Zenon
  <1>2. Len(s) \in Nat \ {0} /\ h = s[1]
    OBVIOUS
  <1> HIDE DEF r, h
  <1>3. h \in Range(s)
    BY <1>2, RangeOfList
  <1>4. Distinct(r)
    BY <1>1, <1>2 DEF Distinct
  <1>5. ASSUME NEW u \in Range(r)
        PROVE  u \in Range(s) \ {h}
    <2>1. PICK k \in 1 .. Len(s) - 1 : r[k] = u
      BY <1>1, RangeOfList, Zenon
    <2>2. s[k + 1] = u /\ k + 1 \in 1 .. Len(s) /\ k + 1 # 1
      BY <1>1, <1>2, <2>1
    <2>3. u # h
      BY <1>2, <2>2 DEF Distinct
    <2> QED
      BY <2>2, <2>3, RangeOfList, Zenon
  <1> QED
    BY <1>1, <1>3, <1>4, <1>5, Zenon DEF r, h

\* rotate_reap lists the same tasks.
LEMMA RotateEffect ==
  ASSUME NEW s \in Seq(Task), Distinct(s)
  PROVE  /\ rotate_reap(s) \in Seq(Task)
         /\ Distinct(rotate_reap(s))
         /\ Range(rotate_reap(s)) \subseteq Range(s)
  <1>1. CASE s = <<>>
    BY <1>1, Zenon DEF rotate_reap
  <1>2. CASE s # <<>>
    <2>1. rotate_reap(s) = Append(Tail(s), Head(s))
      BY <1>2, Zenon DEF rotate_reap
    <2> DEFINE h == Head(s)
               r == Tail(s)
    <2>2. /\ h \in Task \cap Range(s) /\ r \in Seq(Task)
          /\ Distinct(r) /\ Range(r) \subseteq Range(s) \ {h}
      BY <1>2, TailEffect, Zenon
    <2> HIDE DEF h, r
    <2>3. /\ Append(r, h) \in Seq(Task) /\ Distinct(Append(r, h))
          /\ Range(Append(r, h)) \subseteq Range(r) \cup {h}
      BY <2>2, AppendEffect, Zenon
    <2> QED
      BY <2>1, <2>2, <2>3, Zenon DEF h, r
  <1> QED
    BY <1>1, <1>2, Zenon

\* link_reap: what it lists nobody is releasing.
LEMMA LinkedEffect ==
  ASSUME Listed, NEW t \in Task
  PROVE  /\ Linked(t) \in Seq(Task)
         /\ Distinct(Linked(t))
         /\ \A u \in Range(Linked(t)) : ~rip[u]
  <1>1. CASE t \in Range(reap) \/ rip[t]
    BY <1>1, Zenon DEF Linked, Listed
  <1>2. CASE ~(t \in Range(reap) \/ rip[t])
    <2>1. Linked(t) = Append(reap, t)
      BY <1>2, Zenon DEF Linked
    <2> QED
      BY <1>2, <2>1, AppendEffect DEF Listed
  <1> QED
    BY <1>1, <1>2, Zenon

-----------------------------------------------------------------------------
\* Once dead and off its CPU, a task stays so; retire_pending is never cleared.
Settled ==
    \A t \in Task :
        /\ state[t] = "Dead" /\ ~onCpu[t] => state'[t] = "Dead" /\ ~onCpu'[t]
        /\ retire[t] => retire'[t]

\* A task whose release is in progress stays eligible for it.
LEMMA EligibleStays ==
  ASSUME Bound', Marked, Settled, \A u \in Task : pins[u] = 0 => pins'[u] = 0
  PROVE  \A u \in Task : eligible(u) /\ rip[u] => eligible(u)'
  BY Zenon DEF eligible, Settled, Bound, Marked

\* A step that leaves pins, claims and memory alone keeps the claims true.
LEMMA AsideKeeps ==
  ASSUME IInv, Aside, LifeTyped', Bound', Listed', Settled
  PROVE  IInv'
  <1>1. ClaimTyped' /\ Marked' /\ Counted'
    BY Zenon DEF IInv, Aside, ClaimTyped, Marked, Counted, Holders
  <1>2. Gone'
    BY Zenon DEF IInv, Aside, Gone, Settled
  <1>3. \A t \in Task : eligible(t) /\ rip[t] => eligible(t)'
    BY EligibleStays, Zenon DEF IInv, Aside
  <1>4. Busy'
    BY <1>3, Zenon DEF IInv, Aside, Busy, Owned
  <1> QED
    BY <1>1, <1>2, <1>4, Zenon DEF IInv

\* A release that c takes up: the task was nobody's, and is c's alone.
LEMMA TakeKeeps ==
  ASSUME IInv, NEW c \in Context, NEW t \in Task, NEW new \in Job,
         job[c].task = NoTask, ~rip[t], eligible(t)',
         new.at = "resources", new.task = t,
         rip' = [rip EXCEPT ![t] = TRUE], job' = [job EXCEPT ![c] = new],
         reap' \in Seq(Task), Distinct(reap'),
         \A u \in Range(reap') : u # t /\ ~rip[u],
         UNCHANGED <<inReg, memory>>,
         LifeTyped', Bound', Counted', Settled,
         \A u \in Task : pins[u] = 0 => pins'[u] = 0
  PROVE  IInv'
  <1>1. Gone'
    BY Zenon DEF IInv, Gone, Settled
  <1>2. \A u \in Task : eligible(u) /\ rip[u] => eligible(u)'
    BY EligibleStays, Zenon DEF IInv
  <1>3. /\ rip' \in [Task -> BOOLEAN] /\ rip'[t]
        /\ \A u \in Task : rip[u] => rip'[u]
        /\ \A u \in Task \ {t} : rip'[u] = rip[u]
    BY Zenon DEF IInv, ClaimTyped
  <1>4. /\ job' \in [Context -> Job] /\ job'[c] = new
        /\ \A d \in Context \ {c} : job'[d] = job[d]
    BY Zenon DEF IInv, ClaimTyped
  <1>5. ClaimTyped'
    BY <1>3, <1>4, Zenon DEF IInv, ClaimTyped
  <1>6. Marked'
    BY <1>3, Zenon DEF IInv, Marked, eligible
  <1>7. Listed'
    <2>1. \A u \in Range(reap') : u \in Task
      BY DEF Range
    <2> QED
      BY <1>3, <2>1, Zenon DEF Listed
  <1>8. inReg[t] /\ memory[t] # "freed" /\ \A d \in Context : job[d].task # t
    BY Zenon DEF IInv, Marked, Busy, Owned
  <1>9. Owned(c, t)'
    BY <1>3, <1>4, <1>8, Zenon DEF Owned
  <1>10. \A d \in Context \ {c}, u \in Task : job[d].task = u => Owned(d, u)'
    <2>1. SUFFICES ASSUME NEW d \in Context \ {c}, NEW u \in Task, job[d].task = u
                   PROVE  Owned(d, u)'
      BY Zenon
    <2>2. Owned(d, u) /\ u # t
      BY <1>8, <2>1, Zenon DEF IInv, Busy
    <2> QED
      BY <1>2, <1>3, <1>4, <2>2, Zenon DEF Owned
  <1>11. t # NoTask
    BY LifecycleAssumption, Zenon
  <1>12. Busy'
    BY <1>4, <1>9, <1>10, <1>11, Zenon DEF IInv, Busy
  <1> QED
    BY <1>1, <1>5, <1>6, <1>7, <1>12, Zenon DEF IInv

\* claim(): either the release is taken up or nothing but the list changes.
LEMMA ClaimKeeps ==
  ASSUME IInv, NEW c \in Context, NEW t \in Task, NEW why \in {"other", "retire"},
         Free(c), UNCHANGED <<inReg, memory>>,
         LifeTyped', Bound', Counted', Settled,
         \A u \in Task : pins[u] = 0 => pins'[u] = 0,
         \/ claim(c, t, why, reap, reap)
         \/ claim(c, t, why, Linked(t), Linked(t))
  PROVE  IInv'
  <1>1. PICK list \in Seq(Task) :
          /\ Distinct(list) /\ \A u \in Range(list) : ~rip[u]
          /\ claim(c, t, why, list, list)
    <2>1. CASE claim(c, t, why, reap, reap)
      BY <2>1, Zenon DEF IInv, Listed
    <2>2. CASE claim(c, t, why, Linked(t), Linked(t))
      BY <2>2, LinkedEffect, Zenon DEF IInv
    <2> QED
      BY <2>1, <2>2, Zenon
  <1>2. CASE ~(~rip[t] /\ eligible(t)')
    <2>1. reap' = list /\ rip' = rip /\ job' = job
      BY <1>1, <1>2, Zenon DEF claim
    <2>2. ClaimTyped' /\ Marked'
      BY <2>1, Zenon DEF IInv, ClaimTyped, Marked
    <2>3. Listed'
      BY <1>1, <2>1, Zenon DEF Listed
    <2>4. Gone'
      BY Zenon DEF IInv, Gone, Settled
    <2>5. \A u \in Task : eligible(u) /\ rip[u] => eligible(u)'
      BY EligibleStays, Zenon DEF IInv
    <2>6. Busy'
      BY <2>1, <2>5, Zenon DEF IInv, Busy, Owned
    <2> QED
      BY <2>2, <2>3, <2>4, <2>6, Zenon DEF IInv
  <1>3. CASE ~rip[t] /\ eligible(t)'
    <2> DEFINE new == [job[c] EXCEPT !.at = "resources", !.task = t, !.why = why]
    <2>1. /\ rip' = [rip EXCEPT ![t] = TRUE]
          /\ reap' = unlink_reap(list, t)
          /\ job' = [job EXCEPT ![c] = new]
      BY <1>1, <1>3, Zenon DEF claim, Release
    <2>2. job[c] \in Job
      BY Zenon DEF IInv, ClaimTyped
    <2>3. new \in Job /\ new.at = "resources" /\ new.task = t
      BY ZenonT(40), <2>2 DEF Job
    <2>4. job[c].task = NoTask
      BY Zenon DEF IInv, Busy, Free
    <2> HIDE DEF new
    <2>5. /\ reap' \in Seq(Task) /\ Distinct(reap')
          /\ \A u \in Range(reap') : u # t /\ ~rip[u]
      BY <1>1, <2>1, UnlinkEffect, Zenon
    <2> QED
      BY ZenonT(40), <1>3, <2>1, <2>3, <2>4, <2>5, TakeKeeps
  <1> QED
    BY <1>2, <1>3, Zenon

\* A context that goes on with its release, or with its pass over the list.
LEMMA AdvanceKeeps ==
  ASSUME IInv, NEW c \in Context, NEW new \in Job,
         job' = [job EXCEPT ![c] = new], new.task = job[c].task,
         new.at \in {"idle", "reap"} <=> job[c].at \in {"idle", "reap"},
         UNCHANGED <<life, pins, retire, holds, rip>>, LifeTyped', Listed',
         inReg' \in [Task -> BOOLEAN], memory' \in [Task -> {"whole", "bare", "freed"}],
         \A u \in Task : u # job[c].task => inReg'[u] = inReg[u] /\ memory'[u] = memory[u],
         \A u \in Task : u = job[c].task =>
            memory'[u] # "freed" /\ (inReg'[u] <=> new.at # "free")
  PROVE  IInv'
  <1>1. \A u \in Task : eligible(u) => eligible(u)'
    BY Zenon DEF eligible, life
  <1>2. Bound' /\ Counted'
    BY DEF IInv, Bound, Counted, Holders, life
  <1>3. /\ job' \in [Context -> Job] /\ job'[c] = new
        /\ \A d \in Context \ {c} : job'[d] = job[d]
    BY Zenon DEF IInv, ClaimTyped
  <1>4. \A d \in Context : job'[d].task = job[d].task
    BY <1>3, Zenon
  <1>5. ClaimTyped'
    BY <1>3, Zenon DEF IInv, ClaimTyped
  <1>6. \A u \in Task : u = job[c].task => Owned(c, u)
    BY Zenon DEF IInv, Busy
  <1>7. Gone'
    BY <1>6, Zenon DEF IInv, Gone, Owned, eligible, life
  <1>8. Marked'
    BY <1>6, Zenon DEF IInv, Marked, Owned
  <1>9. ASSUME NEW d \in Context, NEW u \in Task, job[d].task = u
        PROVE  Owned(d, u)'
    <2>1. Owned(d, u)
      BY <1>9, Zenon DEF IInv, Busy
    <2>2. CASE d = c
      BY <1>1, <1>3, <1>4, <1>9, <2>1, <2>2, Zenon DEF Owned
    <2>3. CASE d # c
      BY <1>1, <1>3, <1>4, <1>9, <2>1, <2>3, SMTT(30) DEF Owned
    <2> QED
      BY <2>2, <2>3, Zenon
  <1>10. Busy'
    BY <1>3, <1>4, <1>9, SMTT(30) DEF IInv, Busy
  <1> QED
    BY <1>2, <1>5, <1>7, <1>8, <1>10, Zenon DEF IInv

\* The end of a release: the task is gone, or up for another attempt.
LEMMA EndKeeps ==
  ASSUME IInv, NEW c \in Context, NEW t \in Task, NEW new \in Job, job[c].task = t,
         job' = [job EXCEPT ![c] = new], new.task = NoTask, new.at \in {"idle", "reap"},
         UNCHANGED <<life, pins, holds>>, LifeTyped', \A u \in Task : retire[u] => retire'[u],
         \/ /\ UNCHANGED <<rip, reap>>
            /\ inReg' = [inReg EXCEPT ![t] = FALSE]
            /\ memory' = [memory EXCEPT ![t] = "freed"]
         \/ /\ rip' = [rip EXCEPT ![t] = FALSE]
            /\ reap' = Append(reap, t)
            /\ inReg' = [inReg EXCEPT ![t] = TRUE]
            /\ UNCHANGED memory
  PROVE  IInv'
  <1>1. \A u \in Task : eligible(u) => eligible(u)'
    BY Zenon DEF eligible, life
  <1>2. Bound' /\ Counted'
    BY DEF IInv, Bound, Counted, Holders, life
  <1>3. /\ job' \in [Context -> Job] /\ job'[c] = new
        /\ \A d \in Context \ {c} : job'[d] = job[d]
    BY Zenon DEF IInv, ClaimTyped
  <1>4. Owned(c, t)
    BY Zenon DEF IInv, Busy
  <1>5. /\ rip' \in [Task -> BOOLEAN] /\ inReg' \in [Task -> BOOLEAN]
        /\ memory' \in [Task -> {"whole", "bare", "freed"}]
        /\ \A u \in Task \ {t} : rip'[u] = rip[u] /\ inReg'[u] = inReg[u] /\ memory'[u] = memory[u]
        /\ \/ rip'[t] = rip[t] /\ ~inReg'[t] /\ memory'[t] = "freed"
           \/ ~rip'[t] /\ inReg'[t] /\ memory'[t] = memory[t]
    <2>1. CASE /\ UNCHANGED <<rip, reap>>
               /\ inReg' = [inReg EXCEPT ![t] = FALSE]
               /\ memory' = [memory EXCEPT ![t] = "freed"]
      BY <2>1, Zenon DEF IInv, ClaimTyped
    <2>2. CASE /\ rip' = [rip EXCEPT ![t] = FALSE]
               /\ inReg' = [inReg EXCEPT ![t] = TRUE]
               /\ UNCHANGED memory
      BY <2>2, Zenon DEF IInv, ClaimTyped
    <2> QED
      BY <2>1, <2>2, Zenon
  <1>6. ClaimTyped'
    BY <1>3, <1>5, Zenon DEF ClaimTyped
  <1>7. Gone'
    BY <1>4, <1>5, Zenon DEF IInv, Gone, Owned, eligible, life
  <1>8. Marked'
    BY <1>4, <1>5 DEF IInv, Marked, Owned
  <1>9. Listed'
    <2>1. CASE UNCHANGED <<rip, reap>>
      BY <2>1, Zenon DEF IInv, Listed
    <2>2. CASE ~rip'[t] /\ reap' = Append(reap, t)
      <3>1. t \notin Range(reap)
        BY <1>4, Zenon DEF IInv, Listed, Owned
      <3>2. /\ reap' \in Seq(Task) /\ Distinct(reap')
            /\ Range(reap') \subseteq Range(reap) \cup {t}
        BY <2>2, <3>1, AppendEffect, Zenon DEF IInv, Listed
      <3>3. \A u \in Range(reap) : u \in Task
        BY DEF IInv, Listed, Range
      <3> QED
        BY <1>5, <2>2, <3>2, <3>3, Zenon DEF IInv, Listed
    <2> QED
      BY <2>1, <2>2, <1>5, Zenon
  <1>10. ASSUME NEW d \in Context, NEW u \in Task, job'[d].task = u
         PROVE  Owned(d, u)'
    <2>1. d # c
      BY <1>3, <1>10, LifecycleAssumption, Zenon
    <2>2. job'[d] = job[d] /\ Owned(d, u)
      BY <1>3, <1>10, <2>1, Zenon DEF IInv, Busy
    <2>3. u # t
      BY <2>1, <2>2, Zenon DEF Owned
    <2>4. \A e \in Context \ {d} : job'[e].task # u
      BY <1>3, <2>2, LifecycleAssumption, Zenon DEF Owned
    <2> QED
      BY <1>1, <1>5, <2>2, <2>3, <2>4, Zenon DEF Owned
  <1>11. Busy'
    BY <1>3, <1>10, Zenon DEF IInv, Busy
  <1> QED
    BY <1>2, <1>6, <1>7, <1>8, <1>9, <1>11, Zenon DEF IInv

-----------------------------------------------------------------------------
\* A step that leaves the reap list alone as well.
LEMMA QuietKeeps ==
  ASSUME IInv, Aside, UNCHANGED reap, LifeTyped', Bound', Settled
  PROVE  IInv'
  <1>1. Listed'
    BY Zenon DEF IInv, Aside, Listed
  <1> QED
    BY <1>1, AsideKeeps, Zenon

\* The steps of a task that lives or has just died, and of the scheduler.
LEMMA LiveKeeps ==
  ASSUME IInv, NEW t \in Task, Live(t) \/ kill(t)
  PROVE  IInv'
  <1>1. LifeTyped /\ Bound /\ Listed
    BY Zenon DEF IInv
  <1>2. CASE Dispatch(t)
    <2>1. Aside /\ reap' = reap
      BY <1>2, Zenon DEF Dispatch
    <2>2. LifeTyped'
      BY <1>1, <1>2, <2>1, Zenon DEF Dispatch, Aside, LifeTyped
    <2>3. Bound'
      BY <1>1, <1>2, Zenon DEF Dispatch, LifeTyped, Bound
    <2>4. Settled
      BY <1>1, <1>2, Zenon DEF Dispatch, LifeTyped, Settled
    <2> QED
      BY <1>1, <2>1, <2>2, <2>3, <2>4, QuietKeeps, Zenon
  <1>3. CASE Preempt(t)
    <2>1. Aside /\ reap' = reap
      BY <1>3, Zenon DEF Preempt
    <2>2. LifeTyped'
      BY <1>1, <1>3, <2>1, Zenon DEF Preempt, mark_ready, notify_retire_waiter, Aside, LifeTyped
    <2>3. Bound'
      BY <1>1, <1>3, Zenon DEF Preempt, mark_ready, notify_retire_waiter, LifeTyped, Bound
    <2>4. Settled
      BY <1>1, <1>3, Zenon DEF Preempt, mark_ready, notify_retire_waiter, LifeTyped, Settled
    <2> QED
      BY <1>1, <2>1, <2>2, <2>3, <2>4, QuietKeeps, Zenon
  <1>4. CASE Wake(t)
    <2>1. Aside /\ reap' = reap
      BY <1>4, Zenon DEF Wake
    <2>2. LifeTyped'
      BY <1>1, <1>4, <2>1, Zenon DEF Wake, finish_wait, Aside, LifeTyped
    <2>3. Bound'
      BY <1>1, <1>4, Zenon DEF Wake, finish_wait, LifeTyped, Bound
    <2>4. Settled
      BY <1>1, <1>4, Zenon DEF Wake, finish_wait, LifeTyped, Settled
    <2> QED
      BY <1>1, <2>1, <2>2, <2>3, <2>4, QuietKeeps, Zenon
  <1>5. CASE Enter(t)
    <2>1. Aside /\ reap' = reap
      BY <1>5, Zenon DEF Enter
    <2>2. LifeTyped'
      BY <1>1, <1>5, <2>1, Zenon DEF Enter, Aside, LifeTyped
    <2>3. Bound'
      BY <1>1, <1>5, Zenon DEF Enter, LifeTyped, Bound
    <2>4. Settled
      BY <1>1, <1>5, Zenon DEF Enter, LifeTyped, Settled
    <2> QED
      BY <1>1, <2>1, <2>2, <2>3, <2>4, QuietKeeps, Zenon
  <1>6. CASE Leave(t)
    <2>1. Aside /\ reap' = reap
      BY <1>6, Zenon DEF Leave
    <2>2. LifeTyped'
      BY <1>1, <1>6, <2>1, Zenon DEF Leave, Aside, LifeTyped
    <2>3. Bound'
      BY <1>1, <1>6, Zenon DEF Leave, LifeTyped, Bound
    <2>4. Settled
      BY <1>1, <1>6, Zenon DEF Leave, LifeTyped, Settled
    <2> QED
      BY <1>1, <2>1, <2>2, <2>3, <2>4, QuietKeeps, Zenon
  <1>7. CASE Wait(t)
    <2>1. Aside /\ reap' = reap
      BY <1>7, Zenon DEF Wait
    <2>2. LifeTyped'
      BY <1>1, <1>7, <2>1, Zenon DEF Wait, switched_out, notify_retire_waiter, Aside, LifeTyped
    <2>3. Bound'
      BY <1>1, <1>7, Zenon DEF Wait, switched_out, notify_retire_waiter, LifeTyped, Bound
    <2>4. Settled
      BY <1>1, <1>7, Zenon DEF Wait, switched_out, notify_retire_waiter, LifeTyped, Settled
    <2> QED
      BY <1>1, <2>1, <2>2, <2>3, <2>4, QuietKeeps, Zenon
  <1>8. CASE Sleep(t)
    <2>1. Aside /\ reap' = reap
      BY <1>8, Zenon DEF Sleep
    <2>2. LifeTyped'
      BY <1>1, <1>8, <2>1, Zenon DEF Sleep, Aside, LifeTyped
    <2>3. Bound'
      BY <1>1, <1>8, Zenon DEF Sleep, LifeTyped, Bound
    <2>4. Settled
      BY <1>1, <1>8, Zenon DEF Sleep, LifeTyped, Settled
    <2> QED
      BY <1>1, <2>1, <2>2, <2>3, <2>4, QuietKeeps, Zenon
  <1>9. CASE ResumeInPlace(t)
    <2>1. Aside /\ reap' = reap
      BY <1>9, Zenon DEF ResumeInPlace
    <2>2. LifeTyped'
      BY <1>1, <1>9, <2>1, Zenon DEF ResumeInPlace, Aside, LifeTyped
    <2>3. Bound'
      BY <1>1, <1>9, Zenon DEF ResumeInPlace, LifeTyped, Bound
    <2>4. Settled
      BY <1>1, <1>9, Zenon DEF ResumeInPlace, LifeTyped, Settled
    <2> QED
      BY <1>1, <2>1, <2>2, <2>3, <2>4, QuietKeeps, Zenon
  <1>10. CASE SwitchOut(t)
    <2>1. Aside /\ reap' = reap
      BY <1>10, Zenon DEF SwitchOut
    <2>2. LifeTyped'
      BY <1>1, <1>10, <2>1, Zenon DEF SwitchOut, switched_out, notify_retire_waiter, Aside, LifeTyped
    <2>3. Bound'
      BY <1>1, <1>10, Zenon DEF SwitchOut, switched_out, notify_retire_waiter, LifeTyped, Bound
    <2>4. Settled
      BY <1>1, <1>10, Zenon DEF SwitchOut, switched_out, notify_retire_waiter, LifeTyped, Settled
    <2> QED
      BY <1>1, <2>1, <2>2, <2>3, <2>4, QuietKeeps, Zenon
  <1>11. CASE kill(t)
    <2>1. Aside /\ reap' = reap
      BY <1>11, Zenon DEF kill
    <2>2. LifeTyped'
      BY <1>1, <1>11, <2>1, Zenon DEF kill, Die, notify_retire_waiter, Aside, LifeTyped
    <2>3. Bound'
      BY <1>1, <1>11, Zenon DEF kill, Die, notify_retire_waiter, LifeTyped, Bound
    <2>4. Settled
      BY <1>1, <1>11, Zenon DEF kill, Die, notify_retire_waiter, LifeTyped, Settled
    <2> QED
      BY <1>1, <2>1, <2>2, <2>3, <2>4, QuietKeeps, Zenon
  <1>12. ASSUME NEW r \in BOOLEAN, Exit(t, r)
        PROVE  IInv'
    <2>1. Aside
      BY <1>12, Zenon DEF Exit
    <2>2. LifeTyped'
      BY <1>1, <1>12, <2>1, Zenon DEF Exit, Die, notify_retire_waiter, Aside, LifeTyped
    <2>3. Bound' /\ Settled
      BY <1>1, <1>12, Zenon DEF Exit, Die, LifeTyped, Bound, Settled
    <2>4. reap' = Linked(t) \/ reap' = reap
      BY <1>12, Zenon DEF Exit
    <2>5. Listed'
      BY <1>1, <2>1, <2>4, LinkedEffect, Zenon DEF Aside, Listed
    <2> QED
      BY <2>1, <2>2, <2>3, <2>5, AsideKeeps, Zenon
  <1> QED
    BY <1>2, <1>3, <1>4, <1>5, <1>6, <1>7, <1>8, <1>9, <1>10, <1>11, <1>12, Zenon DEF Live

\* The program reaper's own steps.
LEMMA WatchKeeps ==
  ASSUME IInv, NEW t \in Task, Ask(t) \/ observe_retirement(t)
  PROVE  IInv'
  <1>1. LifeTyped /\ Bound /\ Listed
    BY Zenon DEF IInv
  <1>2. Aside /\ UNCHANGED <<life, retire, reap>> /\ LifeTyped'
    <2>1. CASE Ask(t)
      BY <1>1, <2>1, Zenon DEF Ask, Aside, LifeTyped, life, claims
    <2>2. CASE observe_retirement(t)
      BY <1>1, <2>2, Zenon DEF observe_retirement, Aside, LifeTyped, life, claims
    <2> QED
      BY <2>1, <2>2, Zenon
  <1>3. Bound' /\ Settled
    BY <1>1, <1>2, Zenon DEF Bound, Settled, life
  <1> QED
    BY <1>2, <1>3, QuietKeeps, Zenon

-----------------------------------------------------------------------------
(* Pins. *)

\* The contexts that pin a task are finitely many, so they can be counted.
LEMMA HoldersFinite ==
  \A t \in Task : IsFiniteSet(Holders(t))
  BY LifecycleAssumption, FS_Subset, Zenon DEF Holders

\* pin(): one more holder; the task is nobody's to release.
LEMMA PinKeeps ==
  ASSUME IInv, NEW c \in Context, NEW t \in Task, pin(c, t)
  PROVE  IInv'
  <1>1. /\ pins' = [pins EXCEPT ![t] = @ + 1]
        /\ holds' = [holds EXCEPT ![c] = @ \cup {t}]
        /\ t \notin holds[c] /\ inReg[t] /\ ~rip[t]
        /\ UNCHANGED <<life, retire, notice, inReg, memory, rip, reap, job>>
    BY Zenon DEF pin, claims
  <1>2. LifeTyped'
    <2>1. pins' \in [Task -> Nat] /\ holds' \in [Context -> SUBSET Task]
      BY <1>1 DEF IInv, LifeTyped
    <2> QED
      BY <1>1, <2>1, Zenon DEF IInv, LifeTyped, life
  <1>3. ClaimTyped' /\ Gone' /\ Bound' /\ Listed'
    BY <1>1, Zenon DEF IInv, ClaimTyped, Gone, Bound, Listed, life
  <1>4. \A u \in Task \ {t} : pins'[u] = pins[u]
    BY <1>1, Zenon DEF IInv, LifeTyped
  <1>5. Counted'
    <2>1. Holders(t)' = Holders(t) \cup {c} /\ c \notin Holders(t)
      BY <1>1, Zenon DEF IInv, LifeTyped, Holders
    <2>2. \A u \in Task \ {t} : Holders(u)' = Holders(u)
      BY <1>1, Zenon DEF IInv, LifeTyped, Holders
    <2>3. Cardinality(Holders(t) \cup {c}) = Cardinality(Holders(t)) + 1
      BY ZenonT(40), <2>1, HoldersFinite, FS_AddElement
    <2>4. pins'[t] = Cardinality(Holders(t)')
      BY <1>1, <2>1, <2>3, Zenon DEF IInv, LifeTyped, Counted
    <2> QED
      BY <1>4, <2>2, <2>4, Zenon DEF IInv, Counted
  <1>6. Marked'
    BY <1>1, <1>4, Zenon DEF IInv, Marked
  <1>7. \A u \in Task : eligible(u) /\ rip[u] => eligible(u)'
    BY <1>1, <1>4, Zenon DEF eligible, life
  <1>8. Busy'
    BY <1>1, <1>7 DEF IInv, Busy, Owned
  <1> QED
    BY <1>2, <1>3, <1>5, <1>6, <1>8, Zenon DEF IInv

\* A pin given back: one holder less.
LEMMA UnpinCounts ==
  ASSUME IInv, NEW c \in Context, NEW t \in Task, t \in holds[c],
         pins' = [pins EXCEPT ![t] = @ - 1], holds' = [holds EXCEPT ![c] = @ \ {t}]
  PROVE  /\ Counted'
         /\ pins' \in [Task -> Nat] /\ holds' \in [Context -> SUBSET Task]
         /\ \A u \in Task : pins[u] = 0 => pins'[u] = 0
  <1>1. Holders(t)' = Holders(t) \ {c} /\ c \in Holders(t)
    BY Zenon DEF IInv, LifeTyped, Holders
  <1>2. \A u \in Task \ {t} : Holders(u)' = Holders(u)
    BY Zenon DEF IInv, LifeTyped, Holders
  <1>3. Cardinality(Holders(t) \ {c}) = Cardinality(Holders(t)) - 1
    BY ZenonT(40), <1>1, HoldersFinite, FS_RemoveElement
  <1>4. Cardinality(Holders(t) \ {c}) \in Nat
    BY <1>1, HoldersFinite, FS_RemoveElement, FS_CardinalityType, Zenon
  <1>5. pins[t] = Cardinality(Holders(t)) /\ pins \in [Task -> Nat]
    BY Zenon DEF IInv, LifeTyped, Counted
  <1>6. /\ pins' \in [Task -> Nat] /\ pins'[t] = Cardinality(Holders(t)')
        /\ pins[t] # 0 /\ \A u \in Task \ {t} : pins'[u] = pins[u]
    BY <1>1, <1>3, <1>4, <1>5
  <1>7. holds' \in [Context -> SUBSET Task]
    BY Zenon DEF IInv, LifeTyped
  <1> QED
    BY <1>2, <1>6, <1>7, Zenon DEF IInv, Counted

\* unpin(): the last pin of a dead task may take up its release.
LEMMA UnpinKeeps ==
  ASSUME IInv, NEW c \in Context, NEW t \in Task, unpin(c, t)
  PROVE  IInv'
  <1>1. /\ Counted' /\ pins' \in [Task -> Nat] /\ holds' \in [Context -> SUBSET Task]
        /\ \A u \in Task : pins[u] = 0 => pins'[u] = 0
    BY ZenonT(40), UnpinCounts DEF unpin
  <1>2. UNCHANGED <<life, retire>> /\ notice' \in [Task -> BOOLEAN]
    BY ZenonT(40) DEF unpin, notify_retire_waiter, IInv, LifeTyped
  <1>3. LifeTyped' /\ Bound' /\ Settled
    BY <1>1, <1>2, Zenon DEF IInv, LifeTyped, Bound, Settled, life
  <1>4. Free(c) /\ UNCHANGED <<inReg, memory>> /\ claim(c, t, "other", reap, reap)
    BY Zenon DEF unpin
  <1> QED
    BY <1>1, <1>3, <1>4, ClaimKeeps, Zenon

\* retire_diagnostic_pin(): the last pin is traded for the claim.
LEMMA DiagnosticKeeps ==
  ASSUME IInv, NEW c \in Context, NEW t \in Task, retire_diagnostic_pin(c, t)
  PROVE  IInv'
  <1>1. /\ retire' = [retire EXCEPT ![t] = TRUE]
        /\ pins[t] = 1 /\ pins' = [pins EXCEPT ![t] = 0] /\ t \in holds[c]
        /\ holds' = [holds EXCEPT ![c] = @ \ {t}]
        /\ UNCHANGED <<life, notice, inReg, memory>> /\ Free(c)
        /\ claim(c, t, "other", Linked(t), Linked(t))
    BY Zenon DEF retire_diagnostic_pin
  <1>2. pins' = [pins EXCEPT ![t] = @ - 1]
    BY <1>1
  <1>3. /\ Counted' /\ pins' \in [Task -> Nat] /\ holds' \in [Context -> SUBSET Task]
        /\ \A u \in Task : pins[u] = 0 => pins'[u] = 0
    BY ZenonT(40), <1>1, <1>2, UnpinCounts
  <1>4. LifeTyped'
    BY <1>1, <1>3, Zenon DEF IInv, LifeTyped, life
  <1>5. Bound'
    BY <1>1, Zenon DEF IInv, Bound, life
  <1>6. Settled
    BY <1>1, Zenon DEF IInv, LifeTyped, Settled, life
  <1> QED
    BY <1>1, <1>3, <1>4, <1>5, <1>6, ClaimKeeps, Zenon

-----------------------------------------------------------------------------
(* Retirement. *)

\* retire(): the kill, and the release if the task is eligible.
LEMMA RetireKeeps ==
  ASSUME IInv, NEW c \in Context, NEW t \in Task, retire_task(c, t)
  PROVE  IInv'
  <1>1. Free(c) /\ UNCHANGED <<pins, inReg, memory, holds, failed>>
    BY Zenon DEF retire_task
  <1>2. CASE UNCHANGED <<life, retire, notice, claims>>
    <2>1. Aside /\ UNCHANGED reap /\ LifeTyped' /\ Bound' /\ Settled
      BY <1>1, <1>2, Zenon DEF IInv, Aside, LifeTyped, Bound, Settled, life, claims
    <2> QED
      BY <2>1, QuietKeeps, Zenon
  <1>3. CASE /\ ~Refused(t)
             /\ state' = [state EXCEPT ![t] = "Dead"]
             /\ retire' = [retire EXCEPT ![t] = TRUE]
             /\ UNCHANGED <<onCpu, physical, held, pins>>
             /\ claim(c, t, "retire", Linked(t), Linked(t))
             /\ notice' = [notice EXCEPT ![t] = @ /\ state[t] = "Dead"]
    <2>1. LifeTyped'
      BY <1>1, <1>3, Zenon DEF IInv, LifeTyped
    <2>2. Bound'
      BY <1>3, Zenon DEF IInv, LifeTyped, Bound, Refused
    <2>3. Settled
      BY <1>3, Zenon DEF IInv, LifeTyped, Settled
    <2>4. Counted'
      BY <1>1, Zenon DEF IInv, Counted, Holders
    <2> QED
      BY <1>1, <1>3, <2>1, <2>2, <2>3, <2>4, ClaimKeeps, Zenon
  <1> QED
    BY <1>2, <1>3, Zenon DEF retire_task

\* release_dead(): a dead task is claimed by the context that asks.
LEMMA ReleaseDeadKeeps ==
  ASSUME IInv, NEW c \in Context, NEW t \in Task, release_dead(c, t)
  PROVE  IInv'
  <1>1. /\ Free(c) /\ retire' = [retire EXCEPT ![t] = TRUE]
        /\ UNCHANGED <<life, pins, notice, inReg, memory, holds>>
        /\ claim(c, t, "other", Linked(t), Linked(t))
    BY Zenon DEF release_dead
  <1>2. LifeTyped'
    BY <1>1, Zenon DEF IInv, LifeTyped, life
  <1>3. Bound'
    BY <1>1, Zenon DEF IInv, Bound, life
  <1>4. Settled
    BY <1>1, Zenon DEF IInv, LifeTyped, Settled, life
  <1>5. Counted'
    BY <1>1, Zenon DEF IInv, Counted, Holders
  <1> QED
    BY <1>1, <1>2, <1>3, <1>4, <1>5, ClaimKeeps, Zenon

-----------------------------------------------------------------------------
(* Reaping. *)

\* The facts a step of a context starts from.
LEMMA AtWork ==
  ASSUME IInv, NEW c \in Context
  PROVE  /\ job[c] \in Job /\ job \in [Context -> Job]
         /\ job[c].at \in {"idle", "reap"} => job[c].task = NoTask
         /\ job[c].at \notin {"idle", "reap"} => job[c].task \in Task /\ Owned(c, job[c].task)
  <1>1. job[c] \in Job /\ job \in [Context -> Job]
    BY Zenon DEF IInv, ClaimTyped
  <1>2. job[c].task \in Task \cup {NoTask}
    BY <1>1, Zenon DEF Job
  <1> QED
    BY <1>1, <1>2, Zenon DEF IInv, Busy

\* A pass that begins, goes to the next task or ends without a claim.
LEMMA PassKeeps ==
  ASSUME IInv, NEW c \in Context, NEW new \in Job, job[c].at \in {"idle", "reap"},
         job' = [job EXCEPT ![c] = new], new.at \in {"idle", "reap"}, new.task = NoTask,
         UNCHANGED <<life, pins, retire, notice, inReg, memory, holds, rip>>, Listed'
  PROVE  IInv'
  <1>1. job[c].task = NoTask
    BY AtWork, Zenon
  <1>2. LifeTyped'
    BY Zenon DEF IInv, LifeTyped, life
  <1>3. inReg' \in [Task -> BOOLEAN] /\ memory' \in [Task -> {"whole", "bare", "freed"}]
    BY Zenon DEF IInv, ClaimTyped
  <1>4. \A u \in Task : u # job[c].task
    BY <1>1, LifecycleAssumption, Zenon
  <1> QED
    BY ZenonT(40), <1>1, <1>2, <1>3, <1>4, AdvanceKeeps

\* reap(): each turn takes up a release, turns the list or ends the pass.
LEMMA ReapKeeps ==
  ASSUME IInv, NEW c \in Context, reap_pass(c) \/ reap_turn(c) \/ reap_end(c)
  PROVE  IInv'
  <1>1. job[c] \in Job /\ job \in [Context -> Job] /\ Listed
    BY AtWork, Zenon DEF IInv
  <1>2. CASE reap_pass(c)
    <2> DEFINE new == [job[c] EXCEPT !.at = "reap", !.left = Len(reap)]
    <2>1. Len(reap) \in Nat
      BY <1>1 DEF Listed
    <2>2. new \in Job /\ new.at = "reap" /\ new.task = job[c].task
      BY ZenonT(40), <1>1, <2>1 DEF Job
    <2>3. job' = [job EXCEPT ![c] = new]
      BY ZenonT(40), <1>1, <1>2 DEF reap_pass, Job
    <2>4. job[c].at = "idle" /\ job[c].task = NoTask
      BY <1>2, AtWork, Zenon DEF reap_pass, Free
    <2>5. UNCHANGED <<life, pins, retire, notice, inReg, memory, holds, rip, reap>>
      BY <1>2, Zenon DEF reap_pass
    <2>6. Listed'
      BY <1>1, <2>5, Zenon DEF Listed
    <2> HIDE DEF new
    <2> QED
      BY ZenonT(40), <2>2, <2>3, <2>4, <2>5, <2>6, PassKeeps
  <1>3. CASE reap_end(c)
    <2>1. Idle \in Job /\ Idle.at = "idle" /\ Idle.task = NoTask
      BY Zenon DEF Idle, Job
    <2>2. /\ job[c].at = "reap" /\ job' = [job EXCEPT ![c] = Idle]
          /\ UNCHANGED <<life, pins, retire, notice, inReg, memory, holds, rip, reap>>
      BY <1>3, Zenon DEF reap_end
    <2>3. Listed'
      BY <1>1, <2>2, Zenon DEF Listed
    <2> QED
      BY ZenonT(40), <2>1, <2>2, <2>3, PassKeeps
  <1>4. CASE reap_turn(c)
    <2> DEFINE next == [job[c] EXCEPT !.left = @ - 1]
    <2>1. /\ job[c].at = "reap" /\ job[c].left # 0
          /\ UNCHANGED <<life, pins, retire, notice, inReg, memory, holds>>
      BY <1>4, Zenon DEF reap_turn
    <2>2. job[c].left \in Nat /\ job[c].left - 1 \in Nat /\ job[c].task = NoTask
      BY <1>1, <2>1, AtWork DEF Job
    <2>3. CASE reap # <<>> /\ ~rip[Head(reap)] /\ eligible(Head(reap))
      <3>1. /\ Head(reap) \in Task /\ Tail(reap) \in Seq(Task) /\ Distinct(Tail(reap))
            /\ Range(Tail(reap)) \subseteq Range(reap) \ {Head(reap)}
        BY <1>1, <2>3, TailEffect, Zenon DEF Listed
      <3>2. PICK t \in Task : t = Head(reap)
        BY <3>1, Zenon
      <3> DEFINE new == [job[c] EXCEPT !.left = @ - 1, !.at = "resources", !.task = t, !.why = "reap"]
      <3>3. /\ rip' = [rip EXCEPT ![t] = TRUE] /\ reap' = Tail(reap)
            /\ job' = [job EXCEPT ![c] = new]
        BY <1>1, <1>4, <2>3, <3>2, Zenon DEF reap_turn, Job
      <3>4. new \in Job /\ new.at = "resources" /\ new.task = t
        BY ZenonT(40), <1>1, <2>2 DEF Job
      <3> HIDE DEF new
      <3>5. \A u \in Range(reap') : u # t /\ ~rip[u]
        <4>1. Range(reap') \subseteq Range(reap) \ {t}
          BY <3>1, <3>2, <3>3, Zenon
        <4> QED
          BY <1>1, <4>1, Zenon DEF Listed
      <3>6. LifeTyped' /\ Bound' /\ Settled /\ Counted'
        <4>1. UNCHANGED <<state, onCpu, physical, held, pins, retire, notice, holds>>
          BY <2>1, Zenon DEF life
        <4>2. LifeTyped'
          BY <4>1, Zenon DEF IInv, LifeTyped
        <4>3. Bound'
          BY <4>1, Zenon DEF IInv, Bound
        <4>4. Settled
          BY <4>1, Zenon DEF Settled
        <4>5. Counted'
          BY <4>1, Zenon DEF IInv, Counted, Holders
        <4> QED
          BY <4>2, <4>3, <4>4, <4>5, Zenon
      <3>7. ~rip[t] /\ eligible(t)'
        BY <2>1, <2>3, <3>2, Zenon DEF eligible, life
      <3>8. reap' \in Seq(Task) /\ Distinct(reap')
        BY <3>1, <3>3, Zenon
      <3>9. \A u \in Task : pins[u] = 0 => pins'[u] = 0
        BY <2>1, Zenon
      <3> QED
        BY ZenonT(40), <2>1, <2>2, <3>3, <3>4, <3>5, <3>6, <3>7, <3>8, <3>9, TakeKeeps
    <2>4. CASE ~(reap # <<>> /\ ~rip[Head(reap)] /\ eligible(Head(reap)))
      <3>1. reap' = rotate_reap(reap) /\ UNCHANGED rip /\ job' = [job EXCEPT ![c] = next]
        BY <1>1, <1>4, <2>4, Zenon DEF reap_turn, Job
      <3>2. next \in Job /\ next.at = "reap" /\ next.task = NoTask
        BY <1>1, <2>1, <2>2, Zenon DEF Job
      <3>3. Listed'
        BY <1>1, <3>1, RotateEffect, Zenon DEF Listed
      <3> HIDE DEF next
      <3> QED
        BY ZenonT(40), <2>1, <3>1, <3>2, <3>3, PassKeeps
    <2> QED
      BY <2>3, <2>4, Zenon
  <1> QED
    BY <1>2, <1>3, <1>4, Zenon

-----------------------------------------------------------------------------
(* The release of a task. *)

\* What a context goes back to after a release.
Back(c) ==
    IF job[c].why = "reap" THEN [Idle EXCEPT !.at = "reap", !.left = job[c].left] ELSE Idle

\* Where a context goes after a release: back to its pass, or idle.
LEMMA BackToPass ==
  ASSUME NEW c \in Context, job[c] \in Job
  PROVE  /\ Back(c) \in Job
         /\ Back(c).task = NoTask /\ Back(c).at \in {"idle", "reap"}
  <1>1. job[c].left \in Nat
    BY Zenon DEF Job
  <1>2. Idle \in Job /\ Idle.task = NoTask /\ Idle.at = "idle"
    BY Zenon DEF Idle, Job
  <1> DEFINE back == [Idle EXCEPT !.at = "reap", !.left = job[c].left]
  <1>3. back \in Job /\ back.task = NoTask /\ back.at = "reap"
    BY ZenonT(40), <1>1, <1>2 DEF Job
  <1> QED
    BY <1>2, <1>3, Zenon DEF Back

\* A release that failed gives the claim back.
LEMMA RetryKeeps ==
  ASSUME IInv, NEW c \in Context, NEW t \in Task, t = job[c].task,
         rip' = [rip EXCEPT ![t] = FALSE], retire' = [retire EXCEPT ![t] = TRUE],
         reap' = Append(reap, t), job' = [job EXCEPT ![c] = Back(c)],
         UNCHANGED <<life, pins, holds, memory>>, notice' \in [Task -> BOOLEAN],
         inReg' = [inReg EXCEPT ![t] = TRUE]
  PROVE  IInv'
  <1>1. /\ Back(c) \in Job
        /\ Back(c).task = NoTask /\ Back(c).at \in {"idle", "reap"}
    BY AtWork, BackToPass, Zenon
  <1>2. LifeTyped' /\ \A u \in Task : retire[u] => retire'[u]
    BY ZenonT(40) DEF IInv, LifeTyped, life
  <1> QED
    BY ZenonT(40), <1>1, <1>2, EndKeeps

\* The stack is given back, or the attempt fails and the task is listed again.
LEMMA ResourcesKeeps ==
  ASSUME IInv, NEW c \in Context, release_resources(c)
  PROVE  IInv'
  <1>1. /\ job[c].at = "resources" /\ job[c] \in Job /\ job \in [Context -> Job]
        /\ job[c].task \in Task /\ Owned(c, job[c].task)
    BY AtWork, Zenon DEF release_resources
  <1>2. PICK t \in Task : t = job[c].task
    BY <1>1, Zenon
  <1>3. inReg[t] /\ memory[t] # "freed"
    BY <1>1, <1>2, Zenon DEF Owned
  <1>4. UNCHANGED <<life, pins, inReg, holds>>
    BY Zenon DEF release_resources
  <1>5. CASE /\ job' = [job EXCEPT ![c].at = "anchor"]
             /\ \/ memory' = [memory EXCEPT ![t] = "bare"]
                \/ memory' = [memory EXCEPT ![t] = @]
             /\ UNCHANGED <<retire, notice, rip, reap>>
    <2> DEFINE new == [job[c] EXCEPT !.at = "anchor"]
    <2>1. new \in Job /\ new.at = "anchor" /\ new.task = t
      BY <1>1, <1>2, Zenon DEF Job
    <2>2. job' = [job EXCEPT ![c] = new]
      BY <1>5, Zenon
    <2> HIDE DEF new
    <2>3. LifeTyped'
      BY <1>4, <1>5, Zenon DEF IInv, LifeTyped, life
    <2>4. Listed'
      BY <1>5, Zenon DEF IInv, Listed
    <2>5. /\ memory' \in [Task -> {"whole", "bare", "freed"}] /\ memory'[t] # "freed"
          /\ \A u \in Task \ {t} : memory'[u] = memory[u]
      BY <1>3, <1>5, Zenon DEF IInv, ClaimTyped
    <2>6. inReg' = inReg /\ inReg' \in [Task -> BOOLEAN]
      BY <1>4, Zenon DEF IInv, ClaimTyped
    <2>7. UNCHANGED <<life, pins, retire, holds, rip>>
      BY <1>4, <1>5, Zenon
    <2>8. new.at \in {"idle", "reap"} <=> job[c].at \in {"idle", "reap"}
      BY <1>1, <2>1, Zenon
    <2>9. /\ \A u \in Task : u # job[c].task => inReg'[u] = inReg[u] /\ memory'[u] = memory[u]
          /\ \A u \in Task : u = job[c].task =>
                memory'[u] # "freed" /\ (inReg'[u] <=> new.at # "free")
      BY <1>2, <1>3, <2>1, <2>5, <2>6, Zenon
    <2>10. new \in Job /\ new.task = job[c].task
      BY <1>2, <2>1, Zenon
    <2> QED
      BY ZenonT(40), <2>2, <2>3, <2>4, <2>5, <2>6, <2>7, <2>8, <2>9, <2>10, AdvanceKeeps
  <1>6. CASE /\ notice' = [notice EXCEPT ![t] = FALSE]
             /\ retry(c, notice[t])
             /\ UNCHANGED memory
    <2>1. /\ rip' = [rip EXCEPT ![t] = FALSE] /\ retire' = [retire EXCEPT ![t] = TRUE]
          /\ reap' = Append(reap, t) /\ job' = [job EXCEPT ![c] = Back(c)]
      BY <1>2, <1>6, Zenon DEF retry, Over, Back
    <2>2. inReg' = [inReg EXCEPT ![t] = TRUE]
      BY <1>3, <1>4, Zenon DEF IInv, ClaimTyped
    <2>3. notice' \in [Task -> BOOLEAN]
      BY <1>6, Zenon DEF IInv, LifeTyped
    <2> QED
      BY ZenonT(40), <1>2, <1>4, <1>6, <2>1, <2>2, <2>3, RetryKeeps
  <1> QED
    BY <1>2, <1>5, <1>6, Zenon DEF release_resources

\* The verified claim: the task leaves the registry, a critical one is free with that.
LEMMA AnchorKeeps ==
  ASSUME IInv, NEW c \in Context, anchor(c)
  PROVE  IInv'
  <1>1. /\ job[c].at = "anchor" /\ job[c] \in Job /\ job \in [Context -> Job]
        /\ job[c].task \in Task /\ Owned(c, job[c].task)
    BY AtWork, Zenon DEF anchor
  <1>2. PICK t \in Task : t = job[c].task
    BY <1>1, Zenon
  <1>3. inReg[t] /\ rip[t] /\ eligible(t) /\ memory[t] # "freed"
    BY <1>1, <1>2, Zenon DEF Owned
  <1>4. /\ notice' = [notice EXCEPT ![t] = FALSE] /\ inReg' = [inReg EXCEPT ![t] = FALSE]
        /\ UNCHANGED <<life, pins, holds, retire, rip, reap>>
    BY <1>2, <1>3, Zenon DEF anchor
  <1>5. notice[t] \in BOOLEAN /\ notice' \in [Task -> BOOLEAN]
    BY <1>4, Zenon DEF IInv, LifeTyped
  <1>6. LifeTyped'
    BY <1>4, <1>5, Zenon DEF IInv, LifeTyped, life
  <1>7. CASE t \in Critical
    <2>1. memory' = [memory EXCEPT ![t] = "freed"] /\ job' = [job EXCEPT ![c] = Back(c)]
      BY <1>2, <1>3, <1>7, Zenon DEF anchor, Over, Back
    <2>2. /\ Back(c) \in Job
          /\ Back(c).task = NoTask /\ Back(c).at \in {"idle", "reap"}
      BY <1>1, BackToPass, Zenon
    <2>3. \A u \in Task : retire[u] => retire'[u]
      BY <1>4, Zenon
    <2> QED
      BY ZenonT(40), <1>2, <1>4, <1>6, <2>1, <2>2, <2>3, EndKeeps
  <1>8. CASE t \notin Critical
    <2> DEFINE new == [job[c] EXCEPT !.at = "free", !.notice = notice[t]]
    <2>1. new \in Job /\ new.at = "free" /\ new.task = t
      BY ZenonT(40), <1>1, <1>2, <1>5 DEF Job
    <2>2. job' = [job EXCEPT ![c].at = "free", ![c].notice = notice[t]] /\ memory' = memory
      BY <1>2, <1>3, <1>8, Zenon DEF anchor
    <2>3. job' = [job EXCEPT ![c] = new]
      BY ZenonT(40), <1>1, <2>2
    <2> HIDE DEF new
    <2>4. Listed'
      BY <1>4, Zenon DEF IInv, Listed
    <2>5. /\ memory' \in [Task -> {"whole", "bare", "freed"}] /\ inReg' \in [Task -> BOOLEAN]
          /\ ~inReg'[t] /\ \A u \in Task \ {t} : inReg'[u] = inReg[u]
      BY <1>4, <2>2, Zenon DEF IInv, ClaimTyped
    <2>6. UNCHANGED <<life, pins, retire, holds, rip>>
      BY <1>4, Zenon
    <2>7. new.at \in {"idle", "reap"} <=> job[c].at \in {"idle", "reap"}
      BY <1>1, <2>1, Zenon
    <2>8. /\ \A u \in Task : u # job[c].task => inReg'[u] = inReg[u] /\ memory'[u] = memory[u]
          /\ \A u \in Task : u = job[c].task =>
                memory'[u] # "freed" /\ (inReg'[u] <=> new.at # "free")
      BY <1>2, <1>3, <2>1, <2>2, <2>5, SMTT(30)
    <2>9. new \in Job /\ new.task = job[c].task
      BY <1>2, <2>1, Zenon
    <2> QED
      BY ZenonT(40), <1>6, <2>3, <2>4, <2>5, <2>6, <2>7, <2>8, <2>9, AdvanceKeeps
  <1> QED
    BY <1>7, <1>8, Zenon

\* The descriptor goes, or that fails and the task is registered and listed again.
LEMMA MetadataKeeps ==
  ASSUME IInv, NEW c \in Context, free_metadata(c)
  PROVE  IInv'
  <1>1. /\ job[c].at = "free" /\ job[c] \in Job
        /\ job[c].task \in Task /\ Owned(c, job[c].task)
    BY AtWork, Zenon DEF free_metadata
  <1>2. PICK t \in Task : t = job[c].task
    BY <1>1, Zenon
  <1>3. UNCHANGED <<life, pins, notice, holds>> /\ notice' \in [Task -> BOOLEAN]
    BY Zenon DEF free_metadata, IInv, LifeTyped
  <1>4. CASE /\ memory' = [memory EXCEPT ![t] = "freed"]
             /\ Over(c, TRUE, Rung(job[c].notice, want))
             /\ UNCHANGED <<retire, inReg, rip, reap>>
    <2>1. job' = [job EXCEPT ![c] = Back(c)]
      BY <1>4, Zenon DEF Over, Back
    <2>2. /\ Back(c) \in Job
          /\ Back(c).task = NoTask /\ Back(c).at \in {"idle", "reap"}
      BY <1>1, BackToPass, Zenon
    <2>3. LifeTyped' /\ \A u \in Task : retire[u] => retire'[u]
      BY <1>3, <1>4, Zenon DEF IInv, LifeTyped, life
    <2>4. ~inReg[t] /\ inReg \in [Task -> BOOLEAN]
      BY <1>1, <1>2, Zenon DEF IInv, ClaimTyped, Owned
    <2>5. inReg' = [inReg EXCEPT ![t] = FALSE]
      BY <1>4, <2>4, Zenon
    <2> QED
      BY ZenonT(40), <1>2, <1>3, <1>4, <2>1, <2>2, <2>3, <2>5, EndKeeps
  <1>5. CASE /\ inReg' = [inReg EXCEPT ![t] = TRUE]
             /\ retry(c, job[c].notice)
             /\ UNCHANGED memory
    <2>1. /\ rip' = [rip EXCEPT ![t] = FALSE] /\ retire' = [retire EXCEPT ![t] = TRUE]
          /\ reap' = Append(reap, t) /\ job' = [job EXCEPT ![c] = Back(c)]
      BY <1>2, <1>5, Zenon DEF retry, Over, Back
    <2> QED
      BY ZenonT(40), <1>2, <1>3, <1>5, <2>1, RetryKeeps
  <1> QED
    BY ZenonT(40), <1>2, <1>4, <1>5 DEF free_metadata

-----------------------------------------------------------------------------
(* The theorem. *)

\* The invariant holds of the initial states.
LEMMA InitIInv == Init => IInv
  <1> SUFFICES ASSUME Init PROVE IInv
    BY Zenon
  <1>1. Idle \in Job /\ Idle.at = "idle" /\ Idle.task = NoTask
    BY Zenon DEF Idle, Job
  <1>2. LifeTyped /\ Bound /\ Gone /\ Marked
    BY Zenon DEF Init, LifeTyped, Bound, Gone, Marked
  <1>3. ClaimTyped
    BY <1>1, Zenon DEF Init, ClaimTyped
  <1>4. Counted
    <2>1. \A t \in Task : Holders(t) = {}
      BY Zenon DEF Init, Holders
    <2> QED
      BY ZenonT(40), <2>1, FS_EmptySet DEF Init, Counted
  <1>5. Listed
    <2>1. reap = <<>> /\ reap \in Seq(Task) /\ Len(reap) = 0
      BY DEF Init
    <2>2. Range(reap) = {}
      <3>1. \A u : u \in Range(reap) <=> \E i \in 1 .. Len(reap) : reap[i] = u
        BY ZenonT(40), <2>1, RangeOfList
      <3>2. 1 .. Len(reap) = {}
        BY <2>1, SMTT(30)
      <3> QED
        BY <3>1, <3>2, Zenon
    <2> QED
      BY <2>1, <2>2 DEF Listed, Distinct
  <1>6. Busy
    BY <1>1, LifecycleAssumption, Zenon DEF Init, Busy
  <1> QED
    BY <1>2, <1>3, <1>4, <1>5, <1>6, Zenon DEF IInv

\* Every step of every context, task and CPU keeps the invariant.
LEMMA StepIInv == IInv /\ [Next]_vars => IInv'
  <1> SUFFICES ASSUME IInv, [Next]_vars PROVE IInv'
    BY Zenon
  <1>1. ASSUME NEW t \in Task, Live(t) \/ Ask(t) \/ kill(t) \/ observe_retirement(t)
        PROVE  IInv'
    BY <1>1, LiveKeeps, WatchKeeps, Zenon
  <1>2. ASSUME NEW c \in Context, NEW t \in Task, Call(c, t)
        PROVE  IInv'
    BY <1>2, PinKeeps, UnpinKeeps, DiagnosticKeeps, RetireKeeps, ReleaseDeadKeeps, Zenon DEF Call
  <1>3. ASSUME NEW c \in Context, reap_pass(c) \/ Work(c)
        PROVE  IInv'
    BY <1>3, ReapKeeps, ResourcesKeeps, AnchorKeeps, MetadataKeeps, Zenon DEF Work
  <1>4. CASE UNCHANGED vars
    <2>1. Aside /\ UNCHANGED <<life, retire, notice, reap>>
      BY <1>4, Zenon DEF vars, Aside, claims
    <2>2. LifeTyped' /\ Bound' /\ Settled
      BY <2>1, Zenon DEF IInv, Aside, LifeTyped, Bound, Settled, life
    <2> QED
      BY <2>1, <2>2, QuietKeeps, Zenon
  <1> QED
    BY <1>1, <1>2, <1>3, <1>4, Zenon DEF Next

\* The invariant implies that nothing in use is released.
LEMMA IInvReleaseExact == IInv => ReleaseExact
  <1> SUFFICES ASSUME IInv PROVE ReleaseExact
    BY Zenon
  <1>1. \A t \in Task : physical[t] => memory[t] = "whole"
    BY Zenon DEF IInv, LifeTyped, Bound, Gone
  <1>2. ASSUME NEW t \in Task
        PROVE  /\ pins[t] = Cardinality({c \in Context : t \in holds[c]})
               /\ pins[t] # 0 => inReg[t] /\ memory[t] # "freed"
               /\ memory[t] = "freed" => ~inReg[t] /\ t \notin Range(reap)
    BY ZenonT(40) DEF IInv, Counted, Holders, Marked, Listed
  <1>3. ASSUME NEW c \in Context, job[c].task # NoTask
        PROVE  /\ rip[job[c].task] /\ eligible(job[c].task) /\ memory[job[c].task] # "freed"
               /\ \A d \in Context \ {c} : job[d].task # job[c].task
    <2>1. Owned(c, job[c].task)
      BY <1>3, AtWork, Zenon
    <2> QED
      BY <2>1, Zenon DEF Owned
  <1> QED
    BY ZenonT(40), <1>1, <1>2, <1>3 DEF ReleaseExact

\* Whatever the number of tasks and contexts, and however often the heap fails:
\* no stack goes while a CPU executes on it, a pinned task keeps its descriptor,
\* a task has one releaser at most, and a claim stays true until the release is
\* over (claim, complete_admitted, unpin, reap, finish_wait, park_blocked_owned).
THEOREM ReleasedOnce == Spec => []ReleaseExact
  <1>1. Init => IInv
    BY InitIInv, Zenon
  <1>2. IInv /\ [Next]_vars => IInv'
    BY StepIInv, Zenon
  <1>3. IInv => ReleaseExact
    BY IInvReleaseExact, Zenon
  <1> QED
    BY <1>1, <1>2, <1>3, PTL DEF Spec

-----------------------------------------------------------------------------
(* The notice of a retirement. *)

\* How far the wait for the end of a task has come.
WantTyped == want \in [Task -> {"no", "due", "pending", "parked", "called", "done"}]

\* A releaser has the notice in hand only after the task left the registry.
TakenLate == \A c \in Context : job[c].notice => job[c].at = "free"

\* The two ways in which the reaper of t is sure to be rung.
Stands(t) == notice[t] /\ changing(t) /\ inReg[t]
InHand(t) == \E c \in Context : job[c].task = t /\ job[c].notice

\* The inductive invariant of the notice, on top of IInv.
NInv == WantTyped /\ TakenLate /\ \A t \in Task : want[t] = "parked" => Stands(t) \/ InHand(t)

\* A step that rings, or that parks nobody and spoils no notice, is safe.
LEMMA RungOrKept ==
  ASSUME NInv, WantTyped', TakenLate',
         \A u \in Task : want'[u] = "parked" =>
            \/ want[u] = "parked" /\ (Stands(u) => Stands(u)' \/ InHand(u)') /\ (InHand(u) => InHand(u)')
            \/ Stands(u)'
  PROVE  NInv'
  BY Zenon DEF NInv

\* What the bell leaves: nobody is parked if it rang.
LEMMA RungEffect ==
  ASSUME WantTyped, NEW ring \in BOOLEAN, want' = Rung(ring, want)
  PROVE  /\ WantTyped'
         /\ \A u \in Task : want'[u] = "parked" => want[u] = "parked" /\ ~ring
  BY Zenon DEF WantTyped, Rung

\* Jobs that are not touched.
LEMMA SameHands ==
  ASSUME TakenLate, job' = job
  PROVE  TakenLate' /\ \A u \in Task : InHand(u) => InHand(u)'
  BY Zenon DEF TakenLate, InHand

\* mark_ready, switched_out, transition_dead: the step may end what the reaper of
\* t waits for, and takes the notice of t.
LEMMA NotifyKeeps ==
  ASSUME IInv, NInv, NEW t \in Task, notify_retire_waiter(t), UNCHANGED inReg,
         TakenLate', \A u \in Task : InHand(u) => InHand(u)',
         \A u \in Task \ {t} : changing(u) => changing(u)'
  PROVE  NInv'
  <1>1. WantTyped /\ notice \in [Task -> BOOLEAN]
    BY Zenon DEF NInv, IInv, LifeTyped
  <1>2. WantTyped' /\ \A u \in Task : want'[u] = "parked" => want[u] = "parked" /\ ~notice[t]
    <2>1. notice[t] \in BOOLEAN /\ want' = Rung(notice[t], want)
      BY <1>1, Zenon DEF notify_retire_waiter
    <2> QED
      BY <1>1, <2>1, RungEffect, Zenon
  <1>3. ASSUME NEW u \in Task, want'[u] = "parked", Stands(u) PROVE Stands(u)'
    <2>1. u # t /\ changing(u)' /\ notice'[u] = notice[u]
      BY <1>1, <1>2, <1>3, Zenon DEF Stands, notify_retire_waiter
    <2> QED
      BY <1>3, <2>1, Zenon DEF Stands
  <1> QED
    BY <1>2, <1>3, RungOrKept, Zenon

\* A step that leaves notices and reapers alone and ends nothing they wait for.
LEMMA UnnoticedKeeps ==
  ASSUME NInv, UNCHANGED <<notice, want, inReg>>, TakenLate',
         \A u \in Task : InHand(u) => InHand(u)',
         \A u \in Task : changing(u) => changing(u)'
  PROVE  NInv'
  <1>1. WantTyped'
    BY Zenon DEF NInv, WantTyped
  <1>2. \A u \in Task : Stands(u) => Stands(u)'
    BY Zenon DEF Stands
  <1> QED
    BY <1>1, <1>2, RungOrKept, Zenon

\* The steps of a living task.
LEMMA LiveNotifies ==
  ASSUME IInv, NInv, NEW t \in Task, Live(t) \/ kill(t)
  PROVE  NInv'
  <1>1. LifeTyped /\ Bound /\ TakenLate
    BY Zenon DEF IInv, NInv
  <1>2. ASSUME Aside, \A u \in Task \ {t} : state'[u] = state[u] /\ onCpu'[u] = onCpu[u] /\ held'[u] = held[u]
        PROVE  /\ UNCHANGED inReg /\ TakenLate' /\ \A u \in Task : InHand(u) => InHand(u)'
               /\ \A u \in Task \ {t} : changing(u) => changing(u)'
    <2>1. UNCHANGED <<inReg, pins, rip, job>>
      BY <1>2, Zenon DEF Aside
    <2> QED
      BY <1>1, <1>2, <2>1, SameHands, Zenon DEF changing
  <1>3. CASE Preempt(t)
    BY <1>1, <1>2, <1>3, NotifyKeeps, Zenon DEF Preempt, mark_ready, LifeTyped
  <1>4. CASE Wait(t) \/ SwitchOut(t)
    BY <1>1, <1>2, <1>4, NotifyKeeps, Zenon DEF Wait, SwitchOut, switched_out, LifeTyped
  <1>5. CASE kill(t) \/ \E r \in BOOLEAN : Exit(t, r)
    BY <1>1, <1>2, <1>5, NotifyKeeps, Zenon DEF kill, Exit, Die, LifeTyped
  <1>6. CASE Dispatch(t) \/ Wake(t) \/ Enter(t) \/ Leave(t) \/ Sleep(t) \/ ResumeInPlace(t)
    <2>1. Aside /\ UNCHANGED <<notice, want>>
      BY <1>6, Zenon DEF Dispatch, Wake, finish_wait, Enter, Leave, Sleep, ResumeInPlace
    <2>2. UNCHANGED <<job, inReg, pins, rip>>
      BY <2>1, Zenon DEF Aside
    <2>3. TakenLate' /\ \A u \in Task : InHand(u) => InHand(u)'
      BY <1>1, <2>2, SameHands, Zenon
    <2>4. \A u \in Task \ {t} : changing(u) => changing(u)'
      BY <1>1, <1>6, <2>2, Zenon DEF Dispatch, Wake, finish_wait, Enter, Leave, Sleep, ResumeInPlace, LifeTyped, changing
    <2>5. changing(t) => changing(t)'
      BY <1>1, <1>6, <2>2, Zenon DEF Dispatch, Wake, finish_wait, Enter, Leave, Sleep, ResumeInPlace, LifeTyped, Bound, changing
    <2> QED
      BY <2>1, <2>2, <2>3, <2>4, <2>5, UnnoticedKeeps, Zenon
  <1> QED
    BY <1>3, <1>4, <1>5, <1>6, Zenon DEF Live

\* A context outside a release has no notice in hand, and what it takes up leaves
\* the others' alone.
LEMMA OtherHands ==
  ASSUME IInv, TakenLate, NEW c \in Context, job[c].at \in {"idle", "reap"},
         \A d \in Context \ {c} : job'[d] = job[d], ~job'[c].notice
  PROVE  TakenLate' /\ \A u \in Task : InHand(u) => InHand(u)'
  <1>1. job[c].task = NoTask
    BY AtWork, Zenon
  <1>2. TakenLate'
    BY Zenon DEF TakenLate
  <1>3. ASSUME NEW u \in Task, InHand(u) PROVE InHand(u)'
    <2>1. PICK d \in Context : job[d].task = u /\ job[d].notice
      BY <1>3, Zenon DEF InHand
    <2>2. d # c
      BY <1>1, <2>1, LifecycleAssumption, Zenon
    <2> QED
      BY <2>1, <2>2, Zenon DEF InHand
  <1> QED
    BY <1>2, <1>3, Zenon

\* claim(): if there is one the task is marked, and the marks of others stay.
LEMMA ClaimHands ==
  ASSUME IInv, TakenLate, NEW c \in Context, NEW t \in Task, NEW why \in {"other", "retire"},
         NEW list, NEW rest, Free(c), claim(c, t, why, list, rest)
  PROVE  /\ TakenLate' /\ \A u \in Task : InHand(u) => InHand(u)'
         /\ \A u \in Task : rip[u] => rip'[u]
         /\ eligible(t)' => rip'[t]
  <1>1. job[c] \in Job /\ job \in [Context -> Job] /\ job[c].at = "idle" /\ rip \in [Task -> BOOLEAN]
    BY AtWork, Zenon DEF Free, IInv, ClaimTyped
  <1>2. /\ \A u \in Task : rip[u] => rip'[u]
        /\ eligible(t)' => rip'[t]
    BY <1>1, Zenon DEF claim
  <1>3. CASE job' = job
    BY <1>2, <1>3, SameHands, Zenon
  <1>4. CASE job' = Release(c, t, why)
    <2>1. \A d \in Context \ {c} : job'[d] = job[d]
      BY <1>1, <1>4, Zenon DEF Release
    <2>2. job'[c].notice = job[c].notice
      BY <1>1, <1>4, Zenon DEF Release, Job
    <2>3. ~job[c].notice
      BY <1>1, Zenon DEF TakenLate
    <2> QED
      BY <1>1, <1>2, <2>1, <2>2, <2>3, OtherHands, Zenon
  <1> QED
    BY <1>3, <1>4, Zenon DEF claim

\* Pins: one more is one more reason to wait, and the last one rings or becomes a
\* claim.
LEMMA PinNotifies ==
  ASSUME IInv, NInv, NEW c \in Context, NEW t \in Task,
         pin(c, t) \/ unpin(c, t) \/ retire_diagnostic_pin(c, t) \/ release_dead(c, t)
  PROVE  NInv'
  <1>1. LifeTyped /\ TakenLate /\ pins \in [Task -> Nat]
    BY Zenon DEF IInv, NInv, LifeTyped
  <1>2. CASE pin(c, t)
    <2>1. UNCHANGED <<notice, want, inReg, job>>
      BY <1>2, Zenon DEF pin, claims
    <2>2. TakenLate' /\ \A u \in Task : InHand(u) => InHand(u)'
      BY <1>1, <2>1, SameHands, Zenon
    <2>3. pins' = [pins EXCEPT ![t] = @ + 1] /\ UNCHANGED <<state, onCpu, held, rip>>
      BY <1>2, Zenon DEF pin, claims, life
    <2>4. \A u \in Task : pins[u] # 0 => pins'[u] # 0
      BY <1>1, <2>3
    <2>5. \A u \in Task : changing(u) => changing(u)'
      BY <2>3, <2>4, Zenon DEF changing
    <2> QED
      BY <2>1, <2>2, <2>5, UnnoticedKeeps, Zenon
  <1>3. CASE unpin(c, t)
    <2>1. /\ Free(c) /\ claim(c, t, "other", reap, reap)
          /\ UNCHANGED <<state, onCpu, held, inReg>>
          /\ pins' = [pins EXCEPT ![t] = @ - 1]
      BY <1>3, Zenon DEF unpin, life
    <2>2. /\ TakenLate' /\ \A u \in Task : InHand(u) => InHand(u)'
          /\ \A u \in Task : rip[u] => rip'[u]
      BY <1>1, <2>1, ClaimHands, Zenon
    <2>3. \A u \in Task \ {t} : changing(u) => changing(u)'
      BY <1>1, <2>1, <2>2, Zenon DEF changing
    <2>4. CASE pins[t] = 1
      <3>1. notify_retire_waiter(t)
        BY <1>3, <2>4, Zenon DEF unpin
      <3> QED
        BY <2>1, <2>2, <2>3, <3>1, NotifyKeeps, Zenon
    <2>5. CASE pins[t] # 1
      <3>1. UNCHANGED <<notice, want, inReg>>
        BY <1>3, <2>5, Zenon DEF unpin
      <3>2. pins'[t] # 0
        BY <1>1, <2>1, <2>5
      <3>3. changing(t)'
        BY <3>2, Zenon DEF changing
      <3> QED
        BY <2>2, <2>3, <3>1, <3>3, UnnoticedKeeps, Zenon
    <2> QED
      BY <2>4, <2>5, Zenon
  <1>4. CASE retire_diagnostic_pin(c, t)
    <2>1. /\ Free(c) /\ claim(c, t, "other", Linked(t), Linked(t))
          /\ UNCHANGED <<state, onCpu, held, inReg, notice, want>>
          /\ pins' = [pins EXCEPT ![t] = 0]
          /\ retire' = [retire EXCEPT ![t] = TRUE]
          /\ state[t] = "Dead" /\ ~onCpu[t] /\ held[t] = 0
      BY <1>4, Zenon DEF retire_diagnostic_pin, life
    <2>2. eligible(t)'
      BY <1>1, <2>1, Zenon DEF eligible, LifeTyped
    <2>3. /\ TakenLate' /\ \A u \in Task : InHand(u) => InHand(u)'
          /\ \A u \in Task : rip[u] => rip'[u]
          /\ rip'[t]
      BY <1>1, <2>1, <2>2, ClaimHands, Zenon
    <2>4. \A u \in Task : changing(u) => changing(u)'
      BY <1>1, <2>1, <2>3, Zenon DEF changing
    <2> QED
      BY <2>1, <2>3, <2>4, UnnoticedKeeps, Zenon
  <1>5. CASE release_dead(c, t)
    <2>1. /\ Free(c) /\ claim(c, t, "other", Linked(t), Linked(t))
          /\ UNCHANGED <<state, onCpu, held, pins, inReg, notice, want>>
      BY <1>5, Zenon DEF release_dead, life
    <2>2. /\ TakenLate' /\ \A u \in Task : InHand(u) => InHand(u)'
          /\ \A u \in Task : rip[u] => rip'[u]
      BY <1>1, <2>1, ClaimHands, Zenon
    <2>3. \A u \in Task : changing(u) => changing(u)'
      BY <2>1, <2>2, Zenon DEF changing
    <2> QED
      BY <2>1, <2>2, <2>3, UnnoticedKeeps, Zenon
  <1> QED
    BY <1>2, <1>3, <1>4, <1>5, Zenon

\* Ask, observe_retirement and retire(): the reaper's own steps.
LEMMA AskNotifies ==
  ASSUME IInv, NInv, NEW t \in Task, Ask(t) \/ observe_retirement(t)
  PROVE  NInv'
  <1>1. LifeTyped /\ WantTyped /\ TakenLate
    BY Zenon DEF IInv, NInv
  <1>2. UNCHANGED <<state, onCpu, held, pins, rip, inReg, job>>
    BY Zenon DEF Ask, observe_retirement, life, claims
  <1>3. TakenLate' /\ \A u \in Task : InHand(u) => InHand(u)'
    BY <1>1, <1>2, SameHands, Zenon
  <1>4. \A u \in Task : changing(u)' = changing(u)
    BY <1>2, Zenon DEF changing
  <1>5. CASE Ask(t)
    <2>1. want' = [want EXCEPT ![t] = "due"] /\ notice' = notice
      BY <1>5, Zenon DEF Ask
    <2>2. WantTyped' /\ \A u \in Task : want'[u] = "parked" => want[u] = "parked"
      BY <1>1, <2>1, Zenon DEF WantTyped
    <2>3. \A u \in Task : Stands(u) => Stands(u)'
      BY <1>2, <1>4, <2>1, Zenon DEF Stands
    <2> QED
      BY <1>3, <2>2, <2>3, RungOrKept, Zenon
  <1>6. CASE observe_retirement(t)
    <2>1. PICK sure \in BOOLEAN :
             /\ sure = (inReg[t] /\ t \notin Critical /\ changing(t))
             /\ notice' = [notice EXCEPT ![t] = @ \/ sure]
             /\ want' = [want EXCEPT ![t] = IF sure THEN "parked" ELSE "due"]
      BY <1>6, Zenon DEF observe_retirement
    <2>2. WantTyped' /\ \A u \in Task \ {t} : want'[u] = want[u] /\ notice'[u] = notice[u]
      BY <1>1, <2>1, Zenon DEF WantTyped, LifeTyped
    <2>3. want'[t] = "parked" => Stands(t)'
      BY <1>1, <1>2, <1>4, <2>1, Zenon DEF WantTyped, LifeTyped, Stands
    <2>4. \A u \in Task \ {t} : Stands(u) => Stands(u)'
      BY <1>2, <1>4, <2>2, Zenon DEF Stands
    <2> QED
      BY <1>3, <2>2, <2>3, <2>4, RungOrKept, Zenon
  <1> QED
    BY <1>5, <1>6, Zenon

\* retire(): the reaper of t is not parked, and a task that is killed rings.
LEMMA RetireNotifies ==
  ASSUME IInv, NInv, NEW c \in Context, NEW t \in Task, retire_task(c, t)
  PROVE  NInv'
  <1>1. LifeTyped /\ WantTyped /\ TakenLate
    BY Zenon DEF IInv, NInv
  <1>2. UNCHANGED <<onCpu, held, pins, inReg>>
    BY Zenon DEF retire_task, life
  <1>3. CASE ~inReg[t] \/ Refused(t)
    <2>1. /\ want' = [want EXCEPT ![t] = "done"] \/ want' = [want EXCEPT ![t] = "pending"]
          /\ UNCHANGED <<state, notice, rip, job>>
      BY <1>3, Zenon DEF retire_task, life, claims
    <2>2. WantTyped' /\ \A u \in Task : want'[u] = "parked" => want[u] = "parked"
      BY <1>1, <2>1, Zenon DEF WantTyped
    <2>3. \A u \in Task : Stands(u) => Stands(u)'
      BY <1>2, <2>1, Zenon DEF Stands, changing
    <2>4. TakenLate' /\ \A u \in Task : InHand(u) => InHand(u)'
      BY <1>1, <2>1, SameHands, Zenon
    <2> QED
      BY <2>2, <2>3, <2>4, RungOrKept, Zenon
  <1>4. CASE inReg[t] /\ ~Refused(t)
    <2> DEFINE ring == notice[t] /\ state[t] # "Dead"
               last == IF rip'[t] /\ ~rip[t] THEN "called" ELSE "pending"
    <2>1. /\ Free(c) /\ claim(c, t, "retire", Linked(t), Linked(t))
          /\ state' = [state EXCEPT ![t] = "Dead"]
          /\ notice' = [notice EXCEPT ![t] = @ /\ state[t] = "Dead"]
          /\ want' = [Rung(ring, want) EXCEPT ![t] = last]
      BY <1>4, Zenon DEF retire_task
    <2>2. /\ WantTyped' /\ want'[t] # "parked"
          /\ \A u \in Task : want'[u] = "parked" => want[u] = "parked"
      BY <1>1, <2>1, Zenon DEF WantTyped, Rung
    <2>3. /\ TakenLate' /\ \A u \in Task : InHand(u) => InHand(u)'
          /\ \A u \in Task : rip[u] => rip'[u]
      BY <1>1, <2>1, ClaimHands, Zenon
    <2>4. ASSUME NEW u \in Task \ {t}, Stands(u) PROVE Stands(u)'
      <3>1. notice'[u] = notice[u] /\ state'[u] = state[u]
        BY <1>1, <2>1, Zenon DEF LifeTyped
      <3> QED
        BY <1>2, <2>3, <2>4, <3>1, Zenon DEF Stands, changing
    <2> QED
      BY <2>2, <2>3, <2>4, RungOrKept, Zenon
  <1> QED
    BY <1>3, <1>4, Zenon

\* reap(): a turn may claim, and has no notice in hand.
LEMMA ReapNotifies ==
  ASSUME IInv, NInv, NEW c \in Context, reap_pass(c) \/ reap_turn(c) \/ reap_end(c)
  PROVE  NInv'
  <1>1. /\ TakenLate /\ rip \in [Task -> BOOLEAN]
        /\ job[c] \in Job /\ job \in [Context -> Job] /\ job[c].at \in {"idle", "reap"}
    BY AtWork, Zenon DEF NInv, IInv, ClaimTyped, Free, reap_pass, reap_turn, reap_end
  <1>2. UNCHANGED <<state, onCpu, held, pins, notice, want, inReg>>
    BY Zenon DEF reap_pass, reap_turn, reap_end, life
  <1>3. ~job[c].notice
    BY <1>1, Zenon DEF TakenLate
  <1>4. (\A d \in Context \ {c} : job'[d] = job[d]) /\ ~job'[c].notice
    <2>1. CASE reap_pass(c)
      BY <1>1, <1>3, <2>1, Zenon DEF reap_pass, Job
    <2>2. CASE reap_end(c)
      BY <1>1, <2>2, Zenon DEF reap_end, Idle
    <2>3. CASE reap_turn(c)
      <3> DEFINE turn == [job EXCEPT ![c].left = @ - 1]
      <3>1. \/ job' = turn
            \/ job' = [turn EXCEPT ![c].at = "resources", ![c].task = Head(reap), ![c].why = "reap"]
        BY <2>3, Zenon DEF reap_turn
      <3>2. /\ \A d \in Context \ {c} : turn[d] = job[d]
            /\ turn[c].notice = job[c].notice
        BY <1>1 DEF Job
      <3> QED
        BY <1>1, <1>3, <3>1, <3>2 DEF Job
    <2> QED
      BY <2>1, <2>2, <2>3, Zenon
  <1>5. TakenLate' /\ \A u \in Task : InHand(u) => InHand(u)'
    BY <1>1, <1>4, OtherHands, Zenon
  <1>6. \A u \in Task : rip[u] => rip'[u]
    BY <1>1, Zenon DEF reap_pass, reap_turn, reap_end
  <1>7. \A u \in Task : changing(u) => changing(u)'
    BY <1>2, <1>6, Zenon DEF changing
  <1> QED
    BY <1>2, <1>5, <1>7, UnnoticedKeeps, Zenon

\* The end of a release rings if a notice stood at its task or was in hand.
LEMMA EndNotifies ==
  ASSUME IInv, NInv, NEW c \in Context, NEW t \in Task, t = job[c].task,
         NEW ring \in BOOLEAN, Stands(t) => ring, job[c].notice => ring,
         NEW done, Over(c, done, Rung(ring, want)),
         \A u \in Task \ {t} : notice'[u] = notice[u] /\ inReg'[u] = inReg[u],
         \A u \in Task \ {t} : changing(u) => changing(u)'
  PROVE  NInv'
  <1>1. /\ WantTyped /\ TakenLate /\ job \in [Context -> Job]
        /\ \A d \in Context \ {c} : job[d].task # t
    BY AtWork, LifecycleAssumption, Zenon DEF NInv, Owned
  <1>2. /\ WantTyped'
        /\ \A u \in Task : want'[u] = "parked" => want[u] = "parked" /\ ~ring
    BY <1>1, Zenon DEF Over, WantTyped, Rung
  <1>3. job' = [job EXCEPT ![c] = Back(c)]
    BY Zenon DEF Over, Back
  <1>4. ~Back(c).notice
    BY Zenon DEF Back, Idle
  <1>5. TakenLate'
    BY <1>1, <1>3, <1>4, Zenon DEF TakenLate
  <1>6. ASSUME NEW u \in Task, want'[u] = "parked"
        PROVE  /\ want[u] = "parked"
               /\ Stands(u) => Stands(u)'
               /\ InHand(u) => InHand(u)'
    <2>1. want[u] = "parked" /\ ~ring
      BY <1>2, <1>6, Zenon
    <2>2. Stands(u) => Stands(u)'
      BY <2>1, Zenon DEF Stands
    <2>3. ASSUME InHand(u) PROVE InHand(u)'
      <3>1. PICK d \in Context : job[d].task = u /\ job[d].notice
        BY <2>3, Zenon DEF InHand
      <3>2. d # c
        BY <2>1, <3>1, Zenon
      <3>3. job'[d] = job[d]
        BY <1>1, <1>3, <3>2, Zenon
      <3> QED
        BY <3>1, <3>3, Zenon DEF InHand
    <2> QED
      BY <2>1, <2>2, <2>3, Zenon
  <1> QED
    BY <1>2, <1>5, <1>6, RungOrKept, Zenon

\* Releasing the stack: a failure rings, success leaves the notice where it is.
LEMMA ResourcesNotify ==
  ASSUME IInv, NInv, NEW c \in Context, release_resources(c)
  PROVE  NInv'
  <1> DEFINE t == job[c].task
  <1>1. /\ LifeTyped /\ ClaimTyped /\ TakenLate /\ job[c].at = "resources"
        /\ job[c] \in Job /\ job \in [Context -> Job] /\ t \in Task
    BY AtWork, Zenon DEF NInv, IInv, release_resources
  <1>2. UNCHANGED <<state, onCpu, held, pins, inReg>> /\ ~job[c].notice
    BY <1>1, Zenon DEF release_resources, life, TakenLate
  <1>3. CASE job' = [job EXCEPT ![c].at = "anchor"] /\ UNCHANGED <<rip, notice, want>>
    <2>1. TakenLate'
      BY <1>1, <1>2, <1>3, Zenon DEF TakenLate, Job
    <2>2. \A u \in Task : InHand(u) => InHand(u)'
      BY <1>1, <1>2, <1>3, Zenon DEF InHand
    <2>3. \A u \in Task : changing(u) => changing(u)'
      BY <1>2, <1>3, Zenon DEF changing
    <2> QED
      BY <1>2, <1>3, <2>1, <2>2, <2>3, UnnoticedKeeps, Zenon
  <1>4. CASE notice' = [notice EXCEPT ![t] = FALSE] /\ retry(c, notice[t])
    <2>1. rip' = [rip EXCEPT ![t] = FALSE] /\ Over(c, FALSE, Rung(notice[t], want))
      BY <1>4, Zenon DEF retry
    <2>2. \A u \in Task \ {t} : notice'[u] = notice[u] /\ inReg'[u] = inReg[u] /\ rip'[u] = rip[u]
      BY <1>1, <1>2, <1>4, <2>1, Zenon DEF LifeTyped, ClaimTyped
    <2>3. \A u \in Task \ {t} : changing(u) => changing(u)'
      BY <1>2, <2>2, Zenon DEF changing
    <2>4. notice[t] \in BOOLEAN /\ (Stands(t) => notice[t])
      BY <1>1, Zenon DEF LifeTyped, Stands
    <2> HIDE DEF t
    <2> QED
      BY <1>1, <1>2, <2>1, <2>2, <2>3, <2>4, EndNotifies, ZenonT(40) DEF t
  <1> QED
    BY <1>3, <1>4, Zenon DEF release_resources

\* anchor(): the task leaves the registry and its notice goes to the releaser, or,
\* with a critical reserve, rings at once.
LEMMA AnchorNotifies ==
  ASSUME IInv, NInv, NEW c \in Context, anchor(c)
  PROVE  NInv'
  <1>1. PICK t \in Task : t = job[c].task /\ Owned(c, t)
    BY AtWork, Zenon DEF anchor
  <1>2. /\ LifeTyped /\ ClaimTyped /\ TakenLate /\ job[c].at = "anchor"
        /\ job[c] \in Job /\ job \in [Context -> Job]
    BY AtWork, Zenon DEF NInv, IInv, anchor
  <1>3. /\ inReg[t] /\ rip[t] /\ eligible(t) /\ ~job[c].notice
        /\ \A d \in Context \ {c} : job[d].task # t
    BY <1>1, <1>2, Zenon DEF Owned, TakenLate
  <1>4. /\ notice' = [notice EXCEPT ![t] = FALSE]
        /\ inReg' = [inReg EXCEPT ![t] = FALSE]
        /\ UNCHANGED <<state, onCpu, held, pins, rip>>
    BY <1>1, <1>3, Zenon DEF anchor, life
  <1>5. /\ \A u \in Task \ {t} : notice'[u] = notice[u] /\ inReg'[u] = inReg[u]
        /\ \A u \in Task \ {t} : changing(u) => changing(u)'
    BY <1>2, <1>4, Zenon DEF LifeTyped, ClaimTyped, changing
  <1>6. notice[t] \in BOOLEAN
    BY <1>2, Zenon DEF LifeTyped
  <1>7. CASE t \in Critical
    <2>1. Over(c, TRUE, Rung(notice[t], want))
      BY <1>1, <1>3, <1>7, Zenon DEF anchor
    <2>2. Stands(t) => notice[t]
      BY Zenon DEF Stands
    <2> QED
      BY <1>1, <1>3, <1>5, <1>6, <2>1, <2>2, EndNotifies, Zenon
  <1>8. CASE t \notin Critical
    <2>1. job' = [job EXCEPT ![c].at = "free", ![c].notice = notice[t]] /\ want' = want
      BY <1>1, <1>3, <1>8, Zenon DEF anchor
    <2>2. /\ job'[c].at = "free" /\ job'[c].task = t /\ job'[c].notice = notice[t]
          /\ \A d \in Context \ {c} : job'[d] = job[d]
      BY <1>1, <1>2, <2>1, Zenon DEF Job
    <2>3. TakenLate' /\ WantTyped'
      BY <1>2, <2>1, <2>2, Zenon DEF NInv, TakenLate, WantTyped
    <2>4. Stands(t) => InHand(t)'
      BY <2>2, Zenon DEF Stands, InHand
    <2>5. \A u \in Task : InHand(u) => InHand(u)'
      BY <1>3, <2>2, Zenon DEF InHand
    <2>6. \A u \in Task \ {t} : Stands(u) => Stands(u)'
      BY <1>5, Zenon DEF Stands
    <2> QED
      BY <2>1, <2>3, <2>4, <2>5, <2>6, RungOrKept, Zenon
  <1> QED
    BY <1>7, <1>8, Zenon

\* Freeing the descriptor, or failing to, rings if a notice came along.
LEMMA MetadataNotifies ==
  ASSUME IInv, NInv, NEW c \in Context, free_metadata(c)
  PROVE  NInv'
  <1>1. PICK t \in Task : t = job[c].task /\ Owned(c, t)
    BY AtWork, Zenon DEF free_metadata
  <1>2. /\ ClaimTyped /\ job[c].at = "free" /\ job[c].notice \in BOOLEAN
    BY AtWork, Zenon DEF IInv, free_metadata, Job
  <1>3. ~Stands(t)
    BY <1>1, <1>2, Zenon DEF Owned, Stands
  <1>4. UNCHANGED <<state, onCpu, held, pins, notice>>
    BY Zenon DEF free_metadata, life
  <1>5. PICK done \in BOOLEAN : Over(c, done, Rung(job[c].notice, want))
    BY Zenon DEF free_metadata, retry
  <1>6. \A u \in Task \ {t} : inReg'[u] = inReg[u] /\ rip'[u] = rip[u]
    BY <1>1, <1>2, Zenon DEF free_metadata, retry, ClaimTyped
  <1>7. \A u \in Task \ {t} : changing(u) => changing(u)'
    BY <1>4, <1>6, Zenon DEF changing
  <1> QED
    BY <1>1, <1>2, <1>3, <1>4, <1>5, <1>6, <1>7, EndNotifies, ZenonT(40)

\* Every step keeps the notices.
LEMMA StepNInv == IInv /\ NInv /\ [Next]_vars => NInv'
  <1> SUFFICES ASSUME IInv, NInv, [Next]_vars PROVE NInv'
    BY Zenon
  <1>1. ASSUME NEW t \in Task, Live(t) \/ Ask(t) \/ kill(t) \/ observe_retirement(t)
        PROVE  NInv'
    BY <1>1, LiveNotifies, AskNotifies, Zenon
  <1>2. ASSUME NEW c \in Context, NEW t \in Task, Call(c, t)
        PROVE  NInv'
    BY <1>2, PinNotifies, RetireNotifies, Zenon DEF Call
  <1>3. ASSUME NEW c \in Context, reap_pass(c) \/ Work(c)
        PROVE  NInv'
    BY <1>3, ReapNotifies, ResourcesNotify, AnchorNotifies, MetadataNotifies, Zenon DEF Work
  <1>4. CASE UNCHANGED vars
    <2>1. UNCHANGED <<state, onCpu, held, pins, rip, inReg, notice, want, job>>
      BY <1>4, Zenon DEF vars, life, claims
    <2>2. TakenLate' /\ \A u \in Task : InHand(u) => InHand(u)'
      BY <2>1, SameHands, Zenon DEF NInv
    <2>3. \A u \in Task : changing(u) => changing(u)'
      BY <2>1, Zenon DEF changing
    <2> QED
      BY <2>1, <2>2, <2>3, UnnoticedKeeps, Zenon
  <1> QED
    BY <1>1, <1>2, <1>3, <1>4, Zenon DEF Next

\* A reaper parks only where somebody is bound to ring: observe_retirement leaves a
\* notice, and no step of kill, exit, unpin, retire, reap or a release, failed or
\* not, ends what it waits for without taking the notice along.
THEOREM ReapersRung == Spec => []NoticeKept
  <1>1. Init => IInv /\ NInv
    <2> SUFFICES ASSUME Init PROVE IInv /\ NInv
      BY Zenon
    <2>1. WantTyped /\ \A t \in Task : want[t] # "parked"
      BY Zenon DEF Init, WantTyped
    <2>2. TakenLate
      BY Zenon DEF Init, Idle, TakenLate
    <2> QED
      BY <2>1, <2>2, InitIInv, Zenon DEF NInv
  <1>2. IInv /\ NInv /\ [Next]_vars => IInv' /\ NInv'
    BY StepIInv, StepNInv, Zenon
  <1>3. NInv => NoticeKept
    BY Zenon DEF NInv, Stands, InHand, NoticeKept
  <1> QED
    BY <1>1, <1>2, <1>3, PTL DEF Spec
=============================================================================
