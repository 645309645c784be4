---------------------------- MODULE Watchers_proofs ----------------------------
(***************************************************************************)
(* Proofs about the watchers, for every number of watchers, threads, wakes *)
(* and commands: the type invariant, that a sweep which comes to its end   *)
(* has evaluated every watcher, and that each run of a skill is paid for.  *)
(***************************************************************************)
EXTENDS WatchersProps, FiniteSetTheorems, WellFoundedInduction, TLAPS

-------------------------------------------------------------------------------
(* The inductive invariant. *)

\* The worker's sweep is the task that holds the lock, and no other task runs.
WorkerHoldsLock ==
  LET s == sweeps[Worker]
  IN  /\ s.pc # "idle" => s.wake \in Wake /\ fate[s.wake] = "running" /\ lock = s.wake
      /\ \A k \in Wake : fate[k] = "running" => s.pc # "idle" /\ s.wake = k

\* The watchers of a sweep are those it is done with, those to do and the one it
\* is at.  A thread is picked for a watcher that is done or about to run.
SweepOK(s) ==
  /\ s.pc = "load" => s.done = {}
  /\ s.pc = "next" => s.done \cup s.todo = Watcher
  /\ s.pc \in {"scan", "skill"} =>
       /\ s.watcher \in Watcher
       /\ s.watcher \notin s.done \cup s.todo
       /\ s.done \cup s.todo \cup {s.watcher} = Watcher
  /\ s.pc \in {"next", "scan", "skill"} => s.done \cap s.todo = {}
  /\ s.pc = "end" => s.done = Watcher
  /\ \A w \in Watcher :
       \/ s.picked[w] = {}
       \/ /\ \E t \in Thread : s.picked[w] = {t}
          /\ w \in s.done \/ (s.pc = "skill" /\ w = s.watcher)

\* The wakes whose task got the lock, and what a sweep may yet run.
Begun == {k \in Wake : fate[k] \in {"running", "swept", "lost"}}
Owes(s, w) == IF s.pc # "idle" /\ w \notin s.done THEN 1 ELSE 0

\* The runs of a skill and those that sweeps in progress may still make.
Paid ==
  /\ IsFiniteSet(Begun)
  /\ \A w \in Watcher :
       fired[w] + Owes(sweeps[Worker], w) + Owes(sweeps[Command], w)
         <= Cardinality(Begun) + commands

IInv == /\ TypeOK
        /\ WorkerHoldsLock
        /\ \A p \in Sweeper : SweepOK(sweeps[p])
        /\ Paid

-------------------------------------------------------------------------------
(* The thread that is looked at next, and the queue. *)

\* While threads are left to look at, the newest is one of them.
LEMMA NewestIsLeft ==
  ASSUME NEW left \in SUBSET Thread, left # {}
  PROVE  /\ Newest(left) \in left
         /\ Newest(left) \in Thread
<1> DEFINE Above == {Threads - t : t \in left}
<1>0. Threads \in Nat
  BY BoundsAssumption
<1>1. Above \subseteq Nat /\ Above # {}
  <2>1. \A t \in Thread : Threads - t \in Nat
    BY <1>0 DEF Thread
  <2> QED BY <2>1
<1>2. PICK m \in Above : \A y \in Above : ~ (<<y, m>> \in OpToRel(<, Nat))
  <2> HIDE DEF Above
  <2> QED BY <1>1, NatLessThanWellFounded, WFMin, Zenon
<1>3. \A y \in Above : m <= y
  <2> HIDE DEF Above
  <2>1. \A y \in Above : ~ (y < m)
    BY <1>1, <1>2, Zenon DEF OpToRel
  <2> QED BY <1>1, <2>1
<1>4. PICK t \in left : m = Threads - t
  OBVIOUS
<1>5. \A u \in left : u <= t
  <2> SUFFICES ASSUME NEW u \in left PROVE u <= t
    OBVIOUS
  <2>1. m <= Threads - u
    BY <1>3
  <2> QED BY <2>1, <1>4, <1>0 DEF Thread
<1> QED BY <1>4, <1>5 DEF Newest

\* A new task at the end of the queue keeps it free of duplicates.
LEMMA AppendKeepsOnce ==
  ASSUME NEW S, NEW s \in Seq(S), NEW e \in S, e \notin ToSet(s), IsInjective(s)
  PROVE  /\ Append(s, e) \in Seq(S)
         /\ ToSet(Append(s, e)) = ToSet(s) \cup {e}
         /\ IsInjective(Append(s, e))
<1> DEFINE a == Append(s, e)
<1>0. a \in Seq(S) /\ DOMAIN a = 1..Len(s) + 1 /\ DOMAIN s = 1..Len(s) /\ Len(s) \in Nat
  OBVIOUS
<1>1. a[Len(s) + 1] = e /\ \A i \in DOMAIN s : a[i] = s[i]
  OBVIOUS
<1> HIDE DEF a
<1>2. ToSet(a) = ToSet(s) \cup {e}
  BY <1>0, <1>1 DEF ToSet
<1>3. IsInjective(a)
  <2> SUFFICES ASSUME NEW i \in DOMAIN a, NEW j \in DOMAIN a, a[i] = a[j] PROVE i = j
    BY DEF IsInjective
  <2>1. \A k \in DOMAIN s : s[k] # e
    BY DEF ToSet
  <2> QED BY <2>1, <1>0, <1>1 DEF IsInjective
<1> QED BY <1>0, <1>2, <1>3 DEF a

\* Taking the first task leaves the others, once each.
LEMMA TailKeepsOnce ==
  ASSUME NEW S, NEW s \in Seq(S), s # <<>>, IsInjective(s)
  PROVE  /\ Head(s) \in ToSet(s)
         /\ Head(s) \in S
         /\ Tail(s) \in Seq(S)
         /\ ToSet(Tail(s)) = ToSet(s) \ {Head(s)}
         /\ IsInjective(Tail(s))
<1> DEFINE r == Tail(s)
<1>0. r \in Seq(S) /\ DOMAIN r = 1..Len(s) - 1 /\ DOMAIN s = 1..Len(s) /\ Len(s) \in Nat \ {0}
  OBVIOUS
<1>1. Head(s) = s[1] /\ \A i \in DOMAIN r : r[i] = s[i + 1]
  OBVIOUS
<1> HIDE DEF r
<1>2. ToSet(r) = ToSet(s) \ {Head(s)}
  <2>1. ASSUME NEW i \in DOMAIN r PROVE r[i] \in ToSet(s) \ {Head(s)}
    <3>1. i + 1 \in DOMAIN s /\ 1 \in DOMAIN s /\ i + 1 # 1
      BY <1>0
    <3> QED BY <3>1, <1>1 DEF ToSet, IsInjective
  <2>2. ASSUME NEW i \in DOMAIN s, s[i] # s[1] PROVE s[i] \in ToSet(r)
    <3>1. i - 1 \in DOMAIN r
      BY <1>0, <2>2
    <3>2. r[i - 1] = s[i]
      BY <3>1, <1>1, <1>0
    <3> QED BY <3>1, <3>2 DEF ToSet
  <2> QED BY <2>1, <2>2, <1>1 DEF ToSet
<1>3. IsInjective(r)
  <2> SUFFICES ASSUME NEW i \in DOMAIN r, NEW j \in DOMAIN r, r[i] = r[j] PROVE i = j
    BY DEF IsInjective
  <2>1. i + 1 \in DOMAIN s /\ j + 1 \in DOMAIN s /\ s[i + 1] = s[j + 1]
    BY <1>0, <1>1
  <2>2. i + 1 = j + 1
    BY <2>1 DEF IsInjective
  <2> QED BY <2>2, <1>0
<1> QED BY <1>0, <1>1, <1>2, <1>3 DEF r, ToSet

-------------------------------------------------------------------------------
(* The initial states. *)

LEMMA IdleIsSweep == Idle \in Sweep /\ SweepOK(Idle)
BY DEF Idle, Sweep, SweepOK

LEMMA InitInv == Init => IInv
<1> SUFFICES ASSUME Init PROVE IInv
  OBVIOUS
<1> USE DEF Init
<1>1. TypeOK
  <2>1. ToSet(tasks) = {} /\ {k \in Wake : fate[k] = "queued"} = {} /\ IsInjective(tasks)
    BY DEF ToSet, IsInjective
  <2>2. sweeps \in [Sweeper -> Sweep]
    BY IdleIsSweep
  <2>3. fate \in [Wake -> Fate]
    BY DEF Fate
  <2> QED BY <2>1, <2>2, <2>3, BoundsAssumption DEF TypeOK
<1>2. WorkerHoldsLock
  BY DEF WorkerHoldsLock, Idle, Sweeper
<1>3. \A p \in Sweeper : SweepOK(sweeps[p])
  BY IdleIsSweep
<1>4. Paid
  <2>1. Begun = {}
    BY DEF Begun
  <2>2. IsFiniteSet(Begun) /\ Cardinality(Begun) = 0
    BY <2>1, FS_EmptySet
  <2>3. \A w \in Watcher : Owes(sweeps[Worker], w) = 0 /\ Owes(sweeps[Command], w) = 0
    BY DEF Owes, Idle, Sweeper
  <2> QED BY <2>2, <2>3 DEF Paid
<1> QED BY <1>1, <1>2, <1>3, <1>4 DEF IInv

-------------------------------------------------------------------------------
(* The steps inside a sweep. *)

\* What a step inside p's sweep does to the rest: nothing, but that it may run a
\* skill it owed.
Goes(p) ==
  /\ sweeps' = [sweeps EXCEPT ![p] = sweeps'[p]]
  /\ sweeps[p].pc # "idle"
  /\ sweeps'[p] \in Sweep
  /\ SweepOK(sweeps'[p])
  /\ sweeps'[p].pc # "idle"
  /\ sweeps'[p].wake = sweeps[p].wake
  /\ fired' \in [Watcher -> Nat]
  /\ \A w \in Watcher :
       fired'[w] + Owes(sweeps'[p], w) <= fired[w] + Owes(sweeps[p], w)
  /\ UNCHANGED <<slack, tasks, lock, fate, up, bounds>>

\* A step that runs no skill goes on if its sweep is well-formed afterwards and
\* forgets none of the watchers that are done.
LEMMA Quiet ==
  ASSUME IInv, NEW p \in Sweeper, NEW r \in Sweep,
         sweeps' = [sweeps EXCEPT ![p] = r],
         sweeps[p].pc # "idle", r.pc # "idle", r.wake = sweeps[p].wake,
         sweeps[p].done \subseteq r.done, SweepOK(r),
         UNCHANGED <<slack, tasks, lock, fate, fired, up, bounds>>
  PROVE  Goes(p)
<1>1. sweeps \in [Sweeper -> Sweep] /\ fired \in [Watcher -> Nat]
  BY DEF IInv, TypeOK
<1>2. sweeps'[p] = r
  BY <1>1
<1>3. \A w \in Watcher : Owes(r, w) <= Owes(sweeps[p], w)
  BY DEF Owes
<1>4. \A w \in Watcher : Owes(r, w) \in Nat /\ Owes(sweeps[p], w) \in Nat
  BY DEF Owes
<1>5. \A w \in Watcher : fired'[w] + Owes(sweeps'[p], w) <= fired[w] + Owes(sweeps[p], w)
  BY <1>1, <1>2, <1>3, <1>4
<1> QED BY <1>1, <1>2, <1>5 DEF Goes

LEMMA LoadGoes == ASSUME IInv, NEW p \in Sweeper, Load(p) PROVE Goes(p)
<1> PICK s \in Sweep : s = sweeps[p]
  BY DEF IInv, TypeOK
<1> DEFINE r == [s EXCEPT !.pc = "next", !.todo = Watcher]
<1>1. sweeps' = [sweeps EXCEPT ![p] = r]
  BY DEF Load, IInv, TypeOK
<1>2. s.pc = "load" /\ SweepOK(s)
  BY DEF Load, IInv
<1>3. r \in Sweep /\ r.pc = "next" /\ r.wake = s.wake /\ s.done \subseteq r.done
  BY DEF Sweep
<1>4. SweepOK(r)
  BY <1>2 DEF SweepOK, Sweep
<1> HIDE DEF r
<1> QED BY <1>1, <1>2, <1>3, <1>4, Quiet DEF Load

LEMMA ReadChannelGoes ==
  ASSUME IInv, NEW p \in Sweeper, NEW w \in Watcher, ReadChannel(p, w) PROVE Goes(p)
<1> PICK s \in Sweep : s = sweeps[p]
  BY DEF IInv, TypeOK
<1> DEFINE r == [s EXCEPT !.pc = "scan", !.watcher = w, !.todo = @ \ {w}, !.left = Thread]
<1>1. sweeps' = [sweeps EXCEPT ![p] = r]
  BY DEF ReadChannel, IInv, TypeOK
<1>2. s.pc = "next" /\ SweepOK(s) /\ w \in s.todo
  BY DEF ReadChannel, IInv
<1>3. r \in Sweep /\ r.pc = "scan" /\ r.wake = s.wake /\ s.done \subseteq r.done
  BY DEF Sweep
<1>4. SweepOK(r)
  <2>1. s.done \cup s.todo = Watcher /\ s.done \cap s.todo = {}
    BY <1>2 DEF SweepOK
  <2>2. \A v \in Watcher :
          \/ s.picked[v] = {}
          \/ (\E t \in Thread : s.picked[v] = {t}) /\ v \in s.done
    BY <1>2 DEF SweepOK
  <2>3. /\ r.done = s.done /\ r.todo = s.todo \ {w} /\ r.watcher = w
        /\ r.picked = s.picked /\ r.pc = "scan"
    BY DEF Sweep
  <2> HIDE DEF r
  <2> QED BY <1>2, <2>1, <2>2, <2>3 DEF SweepOK
<1> HIDE DEF r
<1> QED BY <1>1, <1>2, <1>3, <1>4, Quiet DEF ReadChannel

LEMMA ReadThreadGoes == ASSUME IInv, NEW p \in Sweeper, ReadThread(p) PROVE Goes(p)
<1> PICK s \in Sweep : s = sweeps[p]
  BY DEF IInv, TypeOK
<1>1. s.pc = "scan" /\ SweepOK(s) /\ s.left # {} /\ s.left \in SUBSET Thread
  BY DEF ReadThread, IInv, Sweep
<1> PICK t \in Thread : t = Newest(s.left)
  BY <1>1, NewestIsLeft
<1>2. s.watcher \in Watcher /\ s.watcher \notin s.done
  BY <1>1 DEF SweepOK
<1>3. CASE Passes(s.watcher, t)
  <2> DEFINE q == [s.picked EXCEPT ![s.watcher] = s.picked[s.watcher] \cup {t}]
  <2> DEFINE r == [s EXCEPT !.pc = "skill", !.thread = t, !.left = {}, !.picked = q]
  <2>1. sweeps' = [sweeps EXCEPT ![p] = r]
    BY <1>3 DEF ReadThread, IInv, TypeOK
  <2>2. s.picked \in [Watcher -> SUBSET Thread] /\ s.picked[s.watcher] = {}
    BY <1>1, <1>2 DEF SweepOK, Sweep
  <2>3. q \in [Watcher -> SUBSET Thread] /\ q[s.watcher] = {t}
    BY <2>2, <1>2
  <2>4. \A w \in Watcher \ {s.watcher} : q[w] = s.picked[w]
    BY <2>2
  <2> HIDE DEF q
  <2>5. r \in Sweep /\ r.pc = "skill" /\ r.wake = s.wake /\ s.done \subseteq r.done
    BY <2>3 DEF Sweep
  <2>6. /\ r.done = s.done /\ r.todo = s.todo /\ r.watcher = s.watcher /\ r.picked = q
        /\ r.pc = "skill"
    BY DEF Sweep
  <2> HIDE DEF r
  <2>7. SweepOK(r)
    BY <1>1, <2>3, <2>4, <2>6 DEF SweepOK
  <2> QED BY <1>1, <2>1, <2>5, <2>7, Quiet DEF ReadThread
<1>4. CASE ~ Passes(s.watcher, t)
  <2> DEFINE r == [s EXCEPT !.left = @ \ {t}]
  <2>1. sweeps' = [sweeps EXCEPT ![p] = r]
    BY <1>4 DEF ReadThread, IInv, TypeOK
  <2>2. r \in Sweep /\ r.pc = s.pc /\ r.wake = s.wake /\ s.done \subseteq r.done
    BY DEF Sweep
  <2>3. SweepOK(r)
    BY <1>1 DEF SweepOK, Sweep
  <2> HIDE DEF r
  <2> QED BY <1>1, <2>1, <2>2, <2>3, Quiet DEF ReadThread
<1> QED BY <1>3, <1>4

\* A watcher whose evaluation is over goes to the watchers that are done.
LEMMA WatcherOver ==
  ASSUME NEW s \in Sweep, NEW r \in Sweep, SweepOK(s), s.pc \in {"scan", "skill"},
         r.pc = "next", r.todo = s.todo, r.done = s.done \cup {s.watcher},
         r.picked = s.picked
  PROVE  SweepOK(r)
<1>1. /\ s.watcher \in Watcher
      /\ s.watcher \notin s.done
      /\ s.done \cup s.todo \cup {s.watcher} = Watcher
      /\ s.watcher \notin s.todo
      /\ s.done \cap s.todo = {}
  BY DEF SweepOK
<1>2. r.done \cup r.todo = Watcher /\ r.done \cap r.todo = {}
  BY <1>1
<1>3. ASSUME NEW w \in Watcher
      PROVE  \/ r.picked[w] = {}
             \/ (\E t \in Thread : r.picked[w] = {t}) /\ w \in r.done
  BY <1>1 DEF SweepOK
<1> QED BY <1>2, <1>3 DEF SweepOK

LEMMA NoneEligibleGoes == ASSUME IInv, NEW p \in Sweeper, NoneEligible(p) PROVE Goes(p)
<1> PICK s \in Sweep : s = sweeps[p]
  BY DEF IInv, TypeOK
<1> DEFINE r == [s EXCEPT !.pc = "next", !.watcher = None, !.done = @ \cup {s.watcher}]
<1>1. sweeps' = [sweeps EXCEPT ![p] = r]
  BY DEF NoneEligible, IInv, TypeOK
<1>2. s.pc = "scan" /\ SweepOK(s) /\ s.watcher \in Watcher
  BY DEF NoneEligible, IInv, SweepOK
<1>3. r \in Sweep /\ r.pc = "next" /\ r.wake = s.wake /\ s.done \subseteq r.done
  BY <1>2 DEF Sweep
<1>4. r.todo = s.todo /\ r.done = s.done \cup {s.watcher} /\ r.picked = s.picked
  BY DEF Sweep
<1> HIDE DEF r
<1>5. SweepOK(r)
  BY <1>2, <1>3, <1>4, WatcherOver
<1> QED BY <1>1, <1>2, <1>3, <1>5, Quiet DEF NoneEligible

LEMMA RaiseGoes == ASSUME IInv, NEW p \in Sweeper, Raise(p) PROVE Goes(p)
<1> PICK s \in Sweep : s = sweeps[p]
  BY DEF IInv, TypeOK
<1> DEFINE r == [s EXCEPT !.pc = "next", !.watcher = None, !.thread = None, !.left = {},
                   !.done = @ \cup {s.watcher}]
<1>1. sweeps' = [sweeps EXCEPT ![p] = r]
  BY DEF Raise, IInv, TypeOK
<1>2. s.pc \in {"scan", "skill"} /\ SweepOK(s) /\ s.watcher \in Watcher
  BY DEF Raise, IInv, SweepOK
<1>3. r \in Sweep /\ r.pc = "next" /\ r.wake = s.wake /\ s.done \subseteq r.done
  BY <1>2 DEF Sweep
<1>4. r.todo = s.todo /\ r.done = s.done \cup {s.watcher} /\ r.picked = s.picked
  BY DEF Sweep
<1> HIDE DEF r
<1>5. SweepOK(r)
  BY <1>2, <1>3, <1>4, WatcherOver
<1> QED BY <1>1, <1>2, <1>3, <1>5, Quiet DEF Raise

LEMMA SweepEndsGoes == ASSUME IInv, NEW p \in Sweeper, SweepEnds(p) PROVE Goes(p)
<1> PICK s \in Sweep : s = sweeps[p]
  BY DEF IInv, TypeOK
<1> DEFINE r == [s EXCEPT !.pc = "end"]
<1>1. sweeps' = [sweeps EXCEPT ![p] = r]
  BY DEF SweepEnds, IInv, TypeOK
<1>2. s.pc = "next" /\ SweepOK(s) /\ s.todo = {}
  BY DEF SweepEnds, IInv
<1>3. r \in Sweep /\ r.pc = "end" /\ r.wake = s.wake /\ s.done \subseteq r.done
  BY DEF Sweep
<1>4. SweepOK(r)
  BY <1>2 DEF SweepOK, Sweep
<1> HIDE DEF r
<1> QED BY <1>1, <1>2, <1>3, <1>4, Quiet DEF SweepEnds

\* The run of a skill is one the sweep owed: its watcher was not done before.
LEMMA RunSkillGoes == ASSUME IInv, NEW p \in Sweeper, RunSkill(p) PROVE Goes(p)
<1> PICK s \in Sweep : s = sweeps[p]
  BY DEF IInv, TypeOK
<1> DEFINE r == [s EXCEPT !.pc = "next", !.watcher = None, !.thread = None,
                   !.done = @ \cup {s.watcher}]
<1>0. sweeps \in [Sweeper -> Sweep] /\ fired \in [Watcher -> Nat]
  BY DEF IInv, TypeOK
<1>1. sweeps' = [sweeps EXCEPT ![p] = r] /\ fired' = [fired EXCEPT ![s.watcher] = @ + 1]
  BY DEF RunSkill, IInv, TypeOK
<1>2. s.pc = "skill" /\ SweepOK(s) /\ s.watcher \in Watcher /\ s.watcher \notin s.done
  BY DEF RunSkill, IInv, SweepOK
<1>3. /\ r \in Sweep /\ r.pc = "next" /\ r.wake = s.wake /\ r.done = s.done \cup {s.watcher}
      /\ r.todo = s.todo /\ r.picked = s.picked
  BY <1>2 DEF Sweep
<1> HIDE DEF r
<1>4. SweepOK(r)
  BY <1>2, <1>3, WatcherOver
<1>5. sweeps'[p] = r
  BY <1>0, <1>1
<1>6. fired' \in [Watcher -> Nat]
  BY <1>0, <1>1, <1>2
<1>7. ASSUME NEW w \in Watcher PROVE fired'[w] + Owes(r, w) <= fired[w] + Owes(s, w)
  <2>1. CASE w = s.watcher
    <3>1. Owes(s, w) = 1 /\ Owes(r, w) = 0 /\ fired'[w] = fired[w] + 1
      BY <2>1, <1>0, <1>1, <1>2, <1>3 DEF Owes
    <3> QED BY <3>1, <1>0
  <2>2. CASE w # s.watcher
    <3>1. Owes(r, w) = Owes(s, w) /\ Owes(s, w) \in Nat /\ fired'[w] = fired[w]
      BY <2>2, <1>0, <1>1, <1>2, <1>3 DEF Owes
    <3> QED BY <3>1, <1>0
  <2> QED BY <2>1, <2>2
<1> QED BY <1>1, <1>2, <1>3, <1>4, <1>5, <1>6, <1>7 DEF Goes, RunSkill

-------------------------------------------------------------------------------
(* Each step keeps the invariant. *)

\* The wakes that got the lock are counted anew only when there is one more.
LEMMA SameBegun ==
  ASSUME Paid, Begun' = Begun, commands' = commands, commands \in Nat,
         sweeps \in [Sweeper -> Sweep], fired \in [Watcher -> Nat], fired' \in [Watcher -> Nat],
         \A w \in Watcher :
           fired'[w] + Owes(sweeps'[Worker], w) + Owes(sweeps'[Command], w)
             <= fired[w] + Owes(sweeps[Worker], w) + Owes(sweeps[Command], w)
  PROVE  Paid'
<1>1. Cardinality(Begun) \in Nat
  BY FS_CardinalityType DEF Paid
<1>2. IsFiniteSet(Begun') /\ Cardinality(Begun') = Cardinality(Begun)
  BY DEF Paid
<1>3. ASSUME NEW w \in Watcher
      PROVE  fired'[w] + Owes(sweeps'[Worker], w) + Owes(sweeps'[Command], w)
               <= Cardinality(Begun) + commands
  <2>1. fired[w] + Owes(sweeps[Worker], w) + Owes(sweeps[Command], w)
          <= Cardinality(Begun) + commands
    BY DEF Paid
  <2>2. \A s : Owes(s, w) \in Nat
    BY DEF Owes
  <2>3. fired[w] \in Nat /\ fired'[w] \in Nat
    OBVIOUS
  <2> QED BY <1>1, <2>1, <2>2, <2>3
<1> QED BY <1>2, <1>3 DEF Paid, Owes

LEMMA GoesInv == ASSUME IInv, NEW p \in Sweeper, Goes(p) PROVE IInv'
<1>0. /\ TypeOK /\ WorkerHoldsLock /\ Paid /\ \A q \in Sweeper : SweepOK(sweeps[q])
      /\ sweeps \in [Sweeper -> Sweep] /\ fired \in [Watcher -> Nat] /\ commands \in Nat
  BY DEF IInv, TypeOK
<1> PICK r \in Sweep : r = sweeps'[p]
  BY DEF Goes
<1>1. /\ sweeps' = [sweeps EXCEPT ![p] = r] /\ SweepOK(r) /\ r.pc # "idle"
      /\ r.wake = sweeps[p].wake /\ sweeps[p].pc # "idle"
  BY DEF Goes
<1>2. sweeps' \in [Sweeper -> Sweep]
  BY <1>0, <1>1
<1>3. \A q \in Sweeper : SweepOK(sweeps'[q])
  BY <1>0, <1>1
<1>4. TypeOK'
  BY <1>0, <1>2 DEF TypeOK, Goes, slack, bounds
<1>5. WorkerHoldsLock'
  <2>1. /\ sweeps'[Worker].wake = sweeps[Worker].wake
        /\ sweeps'[Worker].pc = "idle" <=> sweeps[Worker].pc = "idle"
    <3>1. CASE p = Worker
      BY <3>1, <1>0, <1>1
    <3>2. CASE p # Worker
      BY <3>2, <1>0, <1>1 DEF Sweeper
    <3> QED BY <3>1, <3>2
  <2>2. fate' = fate /\ lock' = lock
    BY DEF Goes
  <2> QED BY <1>0, <2>1, <2>2 DEF WorkerHoldsLock
<1>6. Paid'
  <2>1. Begun' = Begun /\ commands' = commands
    BY DEF Goes, Begun, bounds
  <2>2. fired' \in [Watcher -> Nat]
    BY DEF Goes
  <2>3. ASSUME NEW w \in Watcher
        PROVE  fired'[w] + Owes(sweeps'[Worker], w) + Owes(sweeps'[Command], w)
                 <= fired[w] + Owes(sweeps[Worker], w) + Owes(sweeps[Command], w)
    <3>1. fired'[w] + Owes(sweeps'[p], w) <= fired[w] + Owes(sweeps[p], w)
      BY DEF Goes
    <3>2. \A s : Owes(s, w) \in Nat
      BY DEF Owes
    <3>3. fired[w] \in Nat /\ fired'[w] \in Nat
      BY <1>0, <2>2
    <3>4. \A q \in Sweeper \ {p} : sweeps'[q] = sweeps[q]
      BY <1>0, <1>1
    <3>5. CASE p = Worker
      <4>1. sweeps'[Command] = sweeps[Command]
        BY <3>4, <3>5 DEF Sweeper, Worker, Command
      <4> QED BY <3>1, <3>2, <3>3, <3>5, <4>1
    <3>6. CASE p = Command
      <4>1. sweeps'[Worker] = sweeps[Worker]
        BY <3>4, <3>6 DEF Sweeper, Worker, Command
      <4> QED BY <3>1, <3>2, <3>3, <3>6, <4>1
    <3> QED BY <3>5, <3>6 DEF Sweeper
  <2> QED BY <1>0, <2>1, <2>2, <2>3, SameBegun
<1> QED BY <1>3, <1>4, <1>5, <1>6 DEF IInv

\* A step that leaves the sweeps and the runs alone, and lets no wake begin or end.
LEMMA AsideInv ==
  ASSUME IInv, TypeOK', UNCHANGED <<lock, sweeps, fired, bounds>>,
         \A k \in Wake : fate'[k] = fate[k] \/ (fate[k] = "none" /\ fate'[k] = "queued")
  PROVE  IInv'
<1>1. Begun' = Begun
  BY DEF Begun
<1>2. WorkerHoldsLock'
  <2>1. \A k \in Wake : fate'[k] = "running" <=> fate[k] = "running"
    OBVIOUS
  <2> QED BY <2>1 DEF WorkerHoldsLock, IInv
<1>3. (\A p \in Sweeper : SweepOK(sweeps[p]))'
  BY DEF IInv
<1>4. Paid'
  BY <1>1 DEF Paid, IInv, bounds
<1> QED BY <1>2, <1>3, <1>4 DEF IInv

LEMMA EnqueueInv == ASSUME IInv, NEW k \in Wake, Enqueue(k) PROVE IInv'
<1>1. /\ TypeOK /\ tasks \in Seq(Wake) /\ fate \in [Wake -> Fate] /\ fate[k] = "none"
      /\ tasks' = Append(tasks, k) /\ fate' = [fate EXCEPT ![k] = "queued"]
      /\ UNCHANGED <<slack, lock, sweeps, fired, up, bounds>>
  BY DEF IInv, TypeOK, Enqueue
<1>2. ToSet(tasks) = {i \in Wake : fate[i] = "queued"} /\ IsInjective(tasks)
  BY <1>1 DEF TypeOK
<1>3. /\ tasks' \in Seq(Wake)
      /\ ToSet(tasks') = ToSet(tasks) \cup {k}
      /\ IsInjective(tasks')
  BY <1>1, <1>2, AppendKeepsOnce
<1>4. fate' \in [Wake -> Fate]
  BY <1>1 DEF Fate
<1>5. ToSet(tasks') = {i \in Wake : fate'[i] = "queued"}
  BY <1>1, <1>2, <1>3
<1>6. lock # None => fate'[lock] \in {"running", "lost"}
  BY <1>1 DEF TypeOK
<1>7. TypeOK'
  BY <1>1, <1>3, <1>4, <1>5, <1>6 DEF TypeOK, slack, bounds, ToSet, IsInjective
<1>8. \A i \in Wake : fate'[i] = fate[i] \/ (fate[i] = "none" /\ fate'[i] = "queued")
  BY <1>1
<1> QED BY <1>1, <1>7, <1>8, AsideInv

LEMMA WriteInInv == ASSUME IInv, NEW t \in Thread, WriteIn(t) PROVE IInv'
<1>1. size' \in [Thread -> 1..MaxSize] /\ hot' \subseteq Thread
  BY BoundsAssumption DEF IInv, TypeOK, WriteIn
<1>2. TypeOK'
  BY <1>1 DEF IInv, TypeOK, WriteIn, bounds
<1> QED BY <1>2, AsideInv DEF WriteIn

LEMMA SettleInv == ASSUME IInv, NEW t \in Thread, Settle(t) PROVE IInv'
<1>1. hot' \subseteq Thread
  BY DEF IInv, TypeOK, Settle
<1>2. TypeOK'
  BY <1>1 DEF IInv, TypeOK, Settle, bounds
<1> QED BY <1>2, AsideInv DEF Settle

LEMMA StartInv == ASSUME IInv, Start PROVE IInv'
<1>1. TypeOK'
  BY DEF IInv, TypeOK, Start, bounds, slack
<1> QED BY <1>1, AsideInv DEF Start

\* A sweep that begins owes each watcher at most one run.
LEMMA Begins ==
  ASSUME NEW r \in Sweep, r.pc = "load", r.done = {}, r.picked = [w \in Watcher |-> {}]
  PROVE  SweepOK(r) /\ \A w \in Watcher : Owes(r, w) = 1
BY DEF SweepOK, Owes

LEMMA DequeueInv == ASSUME IInv, Dequeue PROVE IInv'
<1>0. /\ TypeOK /\ WorkerHoldsLock /\ Paid /\ \A q \in Sweeper : SweepOK(sweeps[q])
      /\ sweeps \in [Sweeper -> Sweep] /\ fired \in [Watcher -> Nat] /\ commands \in Nat
      /\ tasks \in Seq(Wake) /\ fate \in [Wake -> Fate]
  BY DEF IInv, TypeOK
<1>1. /\ sweeps[Worker].pc = "idle" /\ tasks # <<>> /\ tasks' = Tail(tasks)
      /\ UNCHANGED <<slack, fired, up, bounds>>
  BY DEF Dequeue
<1>2. ToSet(tasks) = {i \in Wake : fate[i] = "queued"} /\ IsInjective(tasks)
  BY <1>0 DEF TypeOK
<1>3. PICK k \in Wake : k = Head(tasks)
  BY <1>0, <1>1, <1>2, TailKeepsOnce
<1>4. /\ fate[k] = "queued"
      /\ tasks' \in Seq(Wake)
      /\ ToSet(tasks') = ToSet(tasks) \ {k}
      /\ IsInjective(tasks')
  BY <1>0, <1>1, <1>2, <1>3, TailKeepsOnce
<1>5. \A i \in Wake : fate[i] # "running"
  BY <1>0, <1>1 DEF WorkerHoldsLock
<1>6. CASE /\ lock = None
           /\ lock' = k
           /\ fate' = [fate EXCEPT ![k] = "running"]
           /\ sweeps' = [sweeps EXCEPT ![Worker] = [Idle EXCEPT !.pc = "load", !.wake = k]]
  <2> PICK r \in Sweep : r = [Idle EXCEPT !.pc = "load", !.wake = k]
    BY DEF Idle, Sweep
  <2>1. r.pc = "load" /\ r.done = {} /\ r.picked = [w \in Watcher |-> {}] /\ r.wake = k
    BY DEF Idle
  <2>2. SweepOK(r) /\ \A w \in Watcher : Owes(r, w) = 1
    BY <2>1, Begins
  <2>3. sweeps' = [sweeps EXCEPT ![Worker] = r]
    BY <1>6
  <2>4. /\ sweeps' \in [Sweeper -> Sweep] /\ sweeps'[Worker] = r
        /\ sweeps'[Command] = sweeps[Command]
    BY <1>0, <2>3 DEF Sweeper, Worker, Command
  <2>5. fate' \in [Wake -> Fate]
    BY <1>0, <1>6 DEF Fate
  <2>6. ToSet(tasks') = {i \in Wake : fate'[i] = "queued"}
    BY <1>0, <1>2, <1>4, <1>6
  <2>7. TypeOK'
    BY <1>0, <1>1, <1>4, <1>6, <2>4, <2>5, <2>6 DEF TypeOK, slack, bounds, ToSet, IsInjective
  <2>8. WorkerHoldsLock'
    BY <1>0, <1>5, <1>6, <2>1, <2>4 DEF WorkerHoldsLock
  <2>9. (\A q \in Sweeper : SweepOK(sweeps[q]))'
    BY <1>0, <2>2, <2>3
  <2>10. Paid'
    <3>1. Begun' = Begun \cup {k} /\ k \notin Begun
      BY <1>0, <1>4, <1>6 DEF Begun
    <3>2. IsFiniteSet(Begun) /\ Cardinality(Begun) \in Nat
      BY <1>0, FS_CardinalityType DEF Paid
    <3>3. IsFiniteSet(Begun') /\ Cardinality(Begun') = Cardinality(Begun) + 1
      BY <3>1, <3>2, FS_AddElement
    <3>4. ASSUME NEW w \in Watcher
          PROVE  fired[w] + Owes(r, w) + Owes(sweeps[Command], w)
                   <= Cardinality(Begun) + 1 + commands
      <4>1. Owes(sweeps[Worker], w) = 0 /\ Owes(r, w) = 1 /\ Owes(sweeps[Command], w) \in Nat
        BY <1>1, <2>2 DEF Owes
      <4>2. fired[w] + Owes(sweeps[Worker], w) + Owes(sweeps[Command], w)
              <= Cardinality(Begun) + commands
        BY <1>0 DEF Paid
      <4> QED BY <4>1, <4>2, <1>0, <3>2
    <3>5. fired' = fired /\ commands' = commands
      BY <1>1 DEF bounds
    <3> QED BY <3>3, <3>4, <3>5, <2>4 DEF Paid
  <2> QED BY <2>7, <2>8, <2>9, <2>10 DEF IInv
<1>7. CASE /\ lock # None
           /\ fate' = [fate EXCEPT ![k] = "dropped"]
           /\ UNCHANGED <<lock, sweeps>>
  <2>1. fate' \in [Wake -> Fate]
    BY <1>0, <1>7 DEF Fate
  <2>2. ToSet(tasks') = {i \in Wake : fate'[i] = "queued"}
    BY <1>0, <1>2, <1>4, <1>7
  <2>3. fate'[lock] \in {"running", "lost"}
    BY <1>0, <1>4, <1>7 DEF TypeOK
  <2>4. TypeOK'
    BY <1>0, <1>1, <1>4, <1>7, <2>1, <2>2, <2>3 DEF TypeOK, slack, bounds, ToSet, IsInjective
  <2>5. Begun' = Begun
    BY <1>0, <1>4, <1>7 DEF Begun
  <2>6. WorkerHoldsLock'
    BY <1>0, <1>1, <1>5, <1>7 DEF WorkerHoldsLock
  <2>7. Paid'
    BY <1>0, <1>1, <1>7, <2>5 DEF Paid, bounds
  <2> QED BY <1>0, <1>7, <2>4, <2>6, <2>7 DEF IInv
<1> QED BY <1>3, <1>6, <1>7 DEF Dequeue

LEMMA RunOnceInv == ASSUME IInv, RunOnce PROVE IInv'
<1>0. /\ TypeOK /\ WorkerHoldsLock /\ Paid /\ \A q \in Sweeper : SweepOK(sweeps[q])
      /\ sweeps \in [Sweeper -> Sweep] /\ fired \in [Watcher -> Nat] /\ commands \in Nat
  BY DEF IInv, TypeOK
<1> PICK r \in Sweep : r = [Idle EXCEPT !.pc = "load"]
  BY DEF Idle, Sweep
<1>1. r.pc = "load" /\ r.done = {} /\ r.picked = [w \in Watcher |-> {}]
  BY DEF Idle
<1>2. SweepOK(r) /\ \A w \in Watcher : Owes(r, w) = 1
  BY <1>1, Begins
<1>3. /\ sweeps' = [sweeps EXCEPT ![Command] = r]
      /\ sweeps[Command].pc = "idle" /\ commands' = commands + 1 /\ commands < MaxCommands
      /\ UNCHANGED <<slack, tasks, lock, fate, fired, up, crashes>>
  BY DEF RunOnce
<1>4. /\ sweeps' \in [Sweeper -> Sweep] /\ sweeps'[Command] = r
      /\ sweeps'[Worker] = sweeps[Worker]
  BY <1>0, <1>3 DEF Sweeper, Worker, Command
<1>5. commands' \in 0..MaxCommands
  BY <1>0, <1>3, BoundsAssumption DEF TypeOK
<1>6. TypeOK'
  BY <1>0, <1>3, <1>4, <1>5 DEF TypeOK, slack, ToSet, IsInjective
<1>7. WorkerHoldsLock'
  BY <1>0, <1>3, <1>4 DEF WorkerHoldsLock
<1>8. (\A q \in Sweeper : SweepOK(sweeps[q]))'
  BY <1>0, <1>2, <1>3
<1>9. Paid'
  <2>1. Begun' = Begun /\ Cardinality(Begun) \in Nat
    BY <1>0, <1>3, FS_CardinalityType DEF Begun, Paid
  <2>2. ASSUME NEW w \in Watcher
        PROVE  fired[w] + Owes(sweeps[Worker], w) + Owes(r, w) <= Cardinality(Begun) + commands + 1
    <3>1. Owes(sweeps[Command], w) = 0 /\ Owes(r, w) = 1 /\ Owes(sweeps[Worker], w) \in Nat
      BY <1>2, <1>3 DEF Owes
    <3>2. fired[w] + Owes(sweeps[Worker], w) + Owes(sweeps[Command], w)
            <= Cardinality(Begun) + commands
      BY <1>0 DEF Paid
    <3> QED BY <3>1, <3>2, <1>0, <2>1
  <2>3. \A w \in Watcher :
          fired[w] + Owes(sweeps[Worker], w) + Owes(r, w) <= Cardinality(Begun) + (commands + 1)
    BY <2>1, <2>2, <1>0
  <2> QED BY <1>0, <1>3, <1>4, <2>1, <2>3 DEF Paid
<1> QED BY <1>6, <1>7, <1>8, <1>9 DEF IInv

\* A sweep that is over, or cut off, owes nothing any more.
LEMMA IdleOwesLess ==
  ASSUME IInv, NEW p \in Sweeper, sweeps' = [sweeps EXCEPT ![p] = Idle],
         Begun' = Begun, commands' = commands, fired' = fired
  PROVE  Paid'
<1>0. /\ Paid /\ sweeps \in [Sweeper -> Sweep] /\ fired \in [Watcher -> Nat]
      /\ commands \in Nat
  BY DEF IInv, TypeOK
<1>1. ASSUME NEW w \in Watcher
      PROVE  fired'[w] + Owes(sweeps'[Worker], w) + Owes(sweeps'[Command], w)
               <= fired[w] + Owes(sweeps[Worker], w) + Owes(sweeps[Command], w)
  <2>1. \A s : Owes(s, w) \in Nat
    BY DEF Owes
  <2>2. Owes(Idle, w) = 0
    BY DEF Owes, Idle
  <2>3. \A q \in Sweeper : sweeps'[q] = Idle \/ sweeps'[q] = sweeps[q]
    BY <1>0
  <2>4. \A q \in Sweeper : Owes(sweeps'[q], w) <= Owes(sweeps[q], w)
    BY <2>1, <2>2, <2>3
  <2>5. /\ Owes(sweeps'[Worker], w) <= Owes(sweeps[Worker], w)
        /\ Owes(sweeps'[Command], w) <= Owes(sweeps[Command], w)
    BY <2>4 DEF Sweeper
  <2> QED BY <2>1, <2>5, <1>0
<1> QED BY <1>0, <1>1, SameBegun

LEMMA FinishInv == ASSUME IInv, NEW p \in Sweeper, Finish(p) PROVE IInv'
<1>0. /\ TypeOK /\ WorkerHoldsLock /\ Paid /\ \A q \in Sweeper : SweepOK(sweeps[q])
      /\ sweeps \in [Sweeper -> Sweep] /\ fired \in [Watcher -> Nat] /\ commands \in Nat
      /\ fate \in [Wake -> Fate]
  BY DEF IInv, TypeOK
<1>1. /\ sweeps[p].pc = "end" /\ sweeps' = [sweeps EXCEPT ![p] = Idle]
      /\ UNCHANGED <<slack, tasks, fired, up, bounds>>
  BY DEF Finish
<1>2. sweeps' \in [Sweeper -> Sweep]
  BY <1>0, <1>1, IdleIsSweep
<1>3. (\A q \in Sweeper : SweepOK(sweeps[q]))'
  BY <1>0, <1>1, IdleIsSweep
<1>4. CASE /\ p = Worker
           /\ lock' = None
           /\ fate' = [fate EXCEPT ![sweeps[p].wake] = "swept"]
  <2>1. PICK k \in Wake : k = sweeps[Worker].wake /\ fate[k] = "running"
    BY <1>0, <1>1, <1>4 DEF WorkerHoldsLock
  <2>2. fate' = [fate EXCEPT ![k] = "swept"]
    BY <1>4, <2>1
  <2>3. fate' \in [Wake -> Fate]
    BY <1>0, <2>2 DEF Fate
  <2>4. {i \in Wake : fate'[i] = "queued"} = {i \in Wake : fate[i] = "queued"}
    BY <1>0, <2>1, <2>2
  <2>5. TypeOK'
    BY <1>0, <1>1, <1>2, <1>4, <2>3, <2>4 DEF TypeOK, slack, bounds, ToSet, IsInjective
  <2>6. WorkerHoldsLock'
    <3>1. \A i \in Wake : fate'[i] # "running"
      BY <1>0, <2>1, <2>2 DEF WorkerHoldsLock
    <3>2. sweeps'[Worker].pc = "idle"
      BY <1>0, <1>1, <1>4 DEF Idle
    <3> QED BY <3>1, <3>2 DEF WorkerHoldsLock
  <2>7. Begun' = Begun
    BY <1>0, <2>1, <2>2 DEF Begun
  <2>8. Paid'
    BY <1>1, <2>7, IdleOwesLess DEF bounds
  <2> QED BY <1>3, <2>5, <2>6, <2>8 DEF IInv
<1>5. CASE p = Command /\ UNCHANGED <<lock, fate>>
  <2>1. TypeOK'
    BY <1>0, <1>1, <1>2, <1>5 DEF TypeOK, slack, bounds, ToSet, IsInjective
  <2>2. sweeps'[Worker] = sweeps[Worker]
    BY <1>0, <1>1, <1>5 DEF Sweeper, Worker, Command
  <2>3. WorkerHoldsLock'
    BY <1>0, <1>5, <2>2 DEF WorkerHoldsLock
  <2>4. Begun' = Begun
    BY <1>5 DEF Begun
  <2>5. Paid'
    BY <1>1, <2>4, IdleOwesLess DEF bounds
  <2> QED BY <1>3, <2>1, <2>3, <2>5 DEF IInv
<1> QED BY <1>4, <1>5 DEF Finish

LEMMA CrashInv == ASSUME IInv, Crash PROVE IInv'
<1>0. /\ TypeOK /\ WorkerHoldsLock /\ \A q \in Sweeper : SweepOK(sweeps[q])
      /\ sweeps \in [Sweeper -> Sweep] /\ fate \in [Wake -> Fate]
  BY DEF IInv, TypeOK
<1>1. /\ sweeps' = [sweeps EXCEPT ![Worker] = Idle]
      /\ fate' = [k \in Wake |-> IF fate[k] = "running" THEN "lost" ELSE fate[k]]
      /\ up' = FALSE /\ crashes' = crashes + 1 /\ crashes < MaxCrashes
      /\ UNCHANGED <<slack, tasks, lock, fired, commands>>
  BY DEF Crash
<1>2. sweeps' \in [Sweeper -> Sweep]
  BY <1>0, <1>1, IdleIsSweep
<1>3. (\A q \in Sweeper : SweepOK(sweeps[q]))'
  BY <1>0, <1>1, IdleIsSweep
<1>4. fate' \in [Wake -> Fate]
  BY <1>0, <1>1 DEF Fate
<1>5. {i \in Wake : fate'[i] = "queued"} = {i \in Wake : fate[i] = "queued"}
  BY <1>1
<1>6. lock # None => fate'[lock] \in {"running", "lost"}
  BY <1>0, <1>1 DEF TypeOK
<1>7. crashes' \in 0..MaxCrashes
  BY <1>0, <1>1, BoundsAssumption DEF TypeOK
<1>8. TypeOK'
  <2>1. ToSet(tasks) = {i \in Wake : fate[i] = "queued"} /\ IsInjective(tasks)
    BY <1>0 DEF TypeOK
  <2>2. ToSet(tasks') = {i \in Wake : fate'[i] = "queued"} /\ IsInjective(tasks')
    BY <2>1, <1>1, <1>5
  <2>3. /\ size' \in [Thread -> 1..MaxSize] /\ hot' \subseteq Thread /\ tasks' \in Seq(Wake)
        /\ lock' \in Wake \cup {None} /\ fired' \in [Watcher -> Nat]
        /\ commands' \in 0..MaxCommands
    BY <1>0, <1>1 DEF TypeOK, slack
  <2>4. up' \in BOOLEAN /\ lock' = lock
    BY <1>1
  <2> QED BY <2>2, <2>3, <2>4, <1>2, <1>4, <1>6, <1>7 DEF TypeOK, ToSet, IsInjective
<1>9. WorkerHoldsLock'
  <2>1. \A i \in Wake : fate'[i] # "running"
    BY <1>1
  <2>2. sweeps'[Worker].pc = "idle"
    BY <1>0, <1>1 DEF Idle, Sweeper
  <2> QED BY <2>1, <2>2 DEF WorkerHoldsLock
<1>10. Begun' = Begun
  BY <1>0, <1>1 DEF Begun
<1>11. Paid'
  BY <1>1, <1>10, IdleOwesLess DEF Sweeper
<1> QED BY <1>3, <1>8, <1>9, <1>11 DEF IInv

LEMMA SweepStepInv == ASSUME IInv, NEW p \in Sweeper, SweepStep(p) PROVE IInv'
<1>1. CASE Finish(p)
  BY <1>1, FinishInv
<1>2. CASE ~ Finish(p)
  <2>1. Goes(p)
    BY <1>2, LoadGoes, ReadChannelGoes, ReadThreadGoes, NoneEligibleGoes, RunSkillGoes,
       RaiseGoes, SweepEndsGoes, Zenon DEF SweepStep
  <2> QED BY <2>1, GoesInv
<1> QED BY <1>1, <1>2

\* Every step keeps the inductive invariant.
LEMMA NextInv == IInv /\ [Next]_vars => IInv'
<1> SUFFICES ASSUME IInv, [Next]_vars PROVE IInv'
  OBVIOUS
<1>1. CASE UNCHANGED vars
  <2>1. TypeOK'
    BY <1>1 DEF IInv, TypeOK, vars, slack, bounds
  <2> QED BY <1>1, <2>1, AsideInv DEF vars, slack, bounds
<1>2. CASE Next
  BY <1>2, DequeueInv, RunOnceInv, CrashInv, StartInv, SweepStepInv, EnqueueInv, WriteInInv,
     SettleInv, Zenon DEF Next
<1> QED BY <1>1, <1>2

-------------------------------------------------------------------------------
(* The theorems. *)

\* The variables hold the kinds of values the code keeps in them; the queue holds
\* each queued wake once, and the lock a task that runs or died running: no sweep
\* gives back a lock it does not hold.
THEOREM TypeCorrect == Spec => []TypeOK
<1>1. IInv => TypeOK
  BY DEF IInv
<1> QED BY <1>1, InitInv, NextInv, PTL DEF Spec

\* A sweep that comes to its end has evaluated every watcher, whichever of them
\* failed on the way, and picked at most one thread for each.
THEOREM EverySweepIsComplete == Spec => []SweepsAreComplete
<1>1. IInv => SweepsAreComplete
  <2> SUFFICES ASSUME IInv, NEW p \in Sweeper
               PROVE  /\ sweeps[p].pc = "end" => sweeps[p].done = Watcher
                      /\ \A w \in Watcher : Cardinality(sweeps[p].picked[w]) <= 1
    BY DEF SweepsAreComplete
  <2>1. SweepOK(sweeps[p])
    BY DEF IInv
  <2>2. ASSUME NEW w \in Watcher PROVE Cardinality(sweeps[p].picked[w]) <= 1
    <3>1. sweeps[p].picked[w] = {} \/ \E t \in Thread : sweeps[p].picked[w] = {t}
      BY <2>1 DEF SweepOK
    <3>2. Cardinality({}) = 0 /\ \A t \in Thread : Cardinality({t}) = 1
      BY FS_EmptySet, FS_Singleton
    <3> QED BY <3>1, <3>2
  <2> QED BY <2>1, <2>2 DEF SweepOK
<1> QED BY <1>1, InitInv, NextInv, PTL DEF Spec

\* Every run of a watcher's skill is paid for, by a wake whose task got the lock
\* or by a command, however sweeps of the worker and of commands interleave and
\* wherever the consumer crashes.
THEOREM EveryRunIsPaidFor == Spec => []SkillsArePaidFor
<1>1. IInv => SkillsArePaidFor
  <2> SUFFICES ASSUME IInv, NEW w \in Watcher
               PROVE  fired[w] <= Cardinality(Begun) + commands
    BY DEF SkillsArePaidFor, Begun
  <2>1. fired[w] + Owes(sweeps[Worker], w) + Owes(sweeps[Command], w)
          <= Cardinality(Begun) + commands
    BY DEF IInv, Paid
  <2>2. Owes(sweeps[Worker], w) \in Nat /\ Owes(sweeps[Command], w) \in Nat
    BY DEF Owes
  <2>3. Cardinality(Begun) \in Nat /\ fired[w] \in Nat /\ commands \in Nat
    BY FS_CardinalityType DEF IInv, Paid, TypeOK
  <2> QED BY <2>1, <2>2, <2>3
<1> QED BY <1>1, InitInv, NextInv, PTL DEF Spec
===============================================================================
