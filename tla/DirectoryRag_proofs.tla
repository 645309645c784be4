-------------------------- MODULE DirectoryRag_proofs --------------------------
(***************************************************************************)
(* The directory index holds nobody twice and, unless a rebuild was        *)
(* spoiled, what the last build collected: for any members, groups, calls, *)
(* changes, failures and restarts.                                         *)
(***************************************************************************)
EXTENDS DirectoryRagProps, TLAPS

-------------------------------------------------------------------------------
\* What the builder relies on without saying: from its deletion to its insertion
\* nobody else touches the collection, so there is nothing in it.
RebuildsFromNothing ==
  \A t \in Thread :
    /\ jobs[t].pc \in Rebuilding => copies = NoCopies
    /\ jobs[t].pc = "upsert" => exists

-------------------------------------------------------------------------------
(* Types, and who holds the lock. *)

Locked == Building \cup {"release"}
JobsOK ==
  /\ jobs \in [Thread -> JobInfo]
  /\ \A t \in Thread : jobs[t].pc \in Locked <=> lock = t
  /\ jobs["loop"].pc # "off" => jobs["main"].pc = "up"

\* The rest of the types.
OthersOK ==
  /\ directory \subseteq Listed
  /\ scope \in BOOLEAN
  /\ exists \in BOOLEAN
  /\ copies \in [Listed -> Nat]
  /\ lock \in Thread \cup {None}
  /\ last = None \/ last \subseteq Listed
  /\ spoiled \in BOOLEAN
  /\ changes \in 0..MaxChanges
  /\ failures \in 0..MaxFailures
  /\ restarts \in 0..MaxRestarts

\* A thread that is on its way, in a build or before one.
OnItsWay(t) == t \in Thread /\ (t \in Call \/ jobs[t].pc \notin {"off", "up"})

\* A step of one thread, which takes, keeps, gives up or does not touch the lock.
LEMMA ThreadStep ==
  ASSUME JobsOK, NEW t, OnItsWay(t), NEW job \in JobInfo,
         jobs' = [jobs EXCEPT ![t] = job],
         job.pc \in Locked <=> lock' = t,
         \A u \in Thread \ {t} : lock' = u <=> lock = u
  PROVE  JobsOK'
<1>1. \A u \in Thread : jobs'[u].pc \in Locked <=> lock' = u
  BY DEF JobsOK, OnItsWay
<1>2. jobs'["loop"].pc # "off" => jobs'["main"].pc = "up"
  BY NoneAssumption DEF JobsOK, OnItsWay, Thread
<1> QED
  BY <1>1, <1>2 DEF JobsOK, OnItsWay

\* One to another place in the code.
LEMMA GotoStep ==
  ASSUME JobsOK, NEW t, OnItsWay(t), NEW pc \in PC, Goto(t, pc),
         pc \in Locked <=> lock' = t,
         \A u \in Thread \ {t} : lock' = u <=> lock = u
  PROVE  JobsOK'
<1>1. jobs[t] \in JobInfo
  BY DEF JobsOK, OnItsWay
<1> DEFINE job == [jobs[t] EXCEPT !.pc = pc]
<1>2. job \in JobInfo /\ job.pc = pc
  BY <1>1 DEF JobInfo
<1>3. jobs' = [jobs EXCEPT ![t] = job]
  BY DEF Goto
<1> QED
  BY <1>2, <1>3, ThreadStep

\* The end of a build, or a thread that rests.
LEMMA RestStep ==
  ASSUME JobsOK, NEW t, OnItsWay(t), NEW pc \in PC,
         NEW failed \in {"no", "scope", "error"},
         jobs' = [jobs EXCEPT ![t] = [Resting(pc) EXCEPT !.failed = failed]],
         pc \in Locked <=> lock' = t,
         \A u \in Thread \ {t} : lock' = u <=> lock = u
  PROVE  JobsOK'
<1> DEFINE job == [Resting(pc) EXCEPT !.failed = failed]
<1>1. job \in JobInfo /\ job.pc = pc
  BY DEF JobInfo, Resting
<1> QED
  BY <1>1, ThreadStep

\* The start of the refresh thread, by the main thread.
LEMMA LoopStarts ==
  ASSUME JobsOK, StartLoop, jobs["main"].pc # "up", lock' # "loop", lock' # "main",
         \A u \in Thread \ {"main", "loop"} : lock' = u <=> lock = u
  PROVE  JobsOK'
<1>1. Resting("up") \in JobInfo /\ Resting("sleep") \in JobInfo
  BY DEF Resting, JobInfo, PC
<1>2. "main" \in Thread /\ "loop" \in Thread
  BY DEF Thread
<1>3. "up" \notin Locked /\ "sleep" \notin Locked
  BY DEF Locked, Building, Rebuilding
<1> QED
  BY <1>1, <1>2, <1>3 DEF JobsOK, StartLoop, Resting

\* Every step keeps the types, and the lock with the thread that builds.
LEMMA NextTypes == JobsOK /\ OthersOK /\ [Next]_vars => JobsOK' /\ OthersOK'
<1> SUFFICES ASSUME JobsOK, OthersOK, [Next]_vars PROVE JobsOK' /\ OthersOK'
  OBVIOUS
<1>a. None \notin Thread
  BY NoneAssumption DEF Thread
<1>b. Building \cup {"off", "check", "wait", "release", "up", "sleep", "search",
                     "query", "done", "lost"} = PC
      /\ Building = {"users", "groups", "delete", "create", "upsert"}
      /\ Locked = Building \cup {"release"}
  BY DEF PC, Building, Rebuilding, Locked
<1>c. ASSUME NEW t \in Thread PROVE jobs[t].pc \in Locked <=> lock = t
  BY DEF JobsOK
<1>1. ASSUME NEW c \in Call, Ask(c) PROVE JobsOK' /\ OthersOK'
  <2>1. OnItsWay(c)
    BY DEF OnItsWay, Thread
  <2>2. JobsOK'
    BY <1>1, <1>b, <1>c, <2>1, GotoStep DEF Ask, OnItsWay
  <2> QED
    BY <1>1, <2>2 DEF OthersOK, Ask, slack, index, history, bounds
<1>2. ASSUME NEW t \in Thread, Check(t) PROVE JobsOK' /\ OthersOK'
  <2>1. JobsOK'
    <3>1. CASE Goto(t, "wait") \/ Goto(t, "search")
      BY <1>2, <1>b, <1>c, <3>1, GotoStep DEF Check, OnItsWay
    <3>2. CASE t = "main" /\ StartLoop
      <4>1. jobs["main"].pc = "check" /\ jobs["loop"].pc = "off" /\ lock' = lock
        BY <1>2, <3>2 DEF Check, JobsOK
      <4>2. lock # "main" /\ lock # "loop"
        BY <1>b, <1>c, <4>1 DEF Thread
      <4> QED
        BY <3>2, <4>1, <4>2, LoopStarts
    <3> QED
      BY <1>2, <3>1, <3>2 DEF Check
  <2> QED
    BY <1>2, <2>1 DEF OthersOK, Check, slack, index, history, bounds
<1>3. ASSUME Tick PROVE JobsOK' /\ OthersOK'
  <2>1. JobsOK'
    BY <1>3, <1>b, <1>c, GotoStep DEF Tick, Thread, OnItsWay
  <2> QED
    BY <1>3, <2>1 DEF OthersOK, Tick, slack, index, history, bounds
<1>4. ASSUME NEW t \in Thread, Acquire(t) PROVE JobsOK' /\ OthersOK'
  <2>1. JobsOK'
    BY <1>4, <1>a, <1>b, <1>c, GotoStep DEF Acquire, OnItsWay
  <2> QED
    BY <1>4, <2>1 DEF OthersOK, Acquire, slack, index, history, bounds
<1>5. ASSUME NEW t \in Thread, CollectUsers(t) \/ CollectGroups(t)
      PROVE  JobsOK' /\ OthersOK'
  <2>1. PICK pc \in {"users", "groups"}, kind \in {Person, Group}, next \in {"groups", "delete"} :
          Collect(t, pc, kind, next)
    BY <1>5 DEF CollectUsers, CollectGroups
  <2> DEFINE job == [jobs[t] EXCEPT !.pc = next, !.docs = @ \cup (directory \cap kind)]
  <2>2. job \in JobInfo /\ job.pc = next
    BY <1>b DEF JobsOK, JobInfo, Listed
  <2>3. jobs' = [jobs EXCEPT ![t] = job] /\ lock' = lock /\ jobs[t].pc = pc
    BY <2>1 DEF Collect
  <2>4. JobsOK'
    <3>1. job.pc \in Locked /\ jobs[t].pc \in Locked /\ OnItsWay(t)
      BY <1>b, <2>2, <2>3 DEF OnItsWay
    <3>2. lock = t
      BY <1>c, <3>1
    <3> HIDE DEF job
    <3> QED
      BY <2>2, <2>3, <3>1, <3>2, ThreadStep
  <2> QED
    BY <2>1, <2>4 DEF OthersOK, Collect, slack, index, history, bounds
<1>6. ASSUME NEW t \in Thread, MissingScope(t) PROVE JobsOK' /\ OthersOK'
  <2>1. JobsOK'
    BY <1>6, <1>b, <1>c, RestStep DEF MissingScope, OnItsWay
  <2> QED
    BY <1>6, <2>1 DEF OthersOK, MissingScope, slack, index, history, bounds
<1>7. ASSUME NEW t \in Thread, Delete(t) PROVE JobsOK' /\ OthersOK'
  <2>1. JobsOK'
    BY <1>7, <1>b, <1>c, GotoStep DEF Delete, OnItsWay
  <2> QED
    BY <1>7, <2>1 DEF OthersOK, Delete, slack, history, bounds, NoCopies
<1>8. ASSUME NEW t \in Thread, Finish(t), jobs[t].pc \in Building, lock' = lock
      PROVE  JobsOK' /\ (last' = None \/ last' \subseteq Listed) /\ spoiled' \in BOOLEAN
  <2>1. jobs' = [jobs EXCEPT ![t] = [Resting("release") EXCEPT !.failed = "no"]]
    BY <1>8 DEF Finish, Resting
  <2>2. JobsOK'
    BY <1>8, <1>b, <1>c, <2>1, RestStep DEF OnItsWay
  <2> QED
    BY <1>8, <2>2 DEF Finish, JobsOK, JobInfo
<1>9. ASSUME NEW t \in Thread, Create(t) PROVE JobsOK' /\ OthersOK'
  <2>1. JobsOK' /\ (last' = None \/ last' \subseteq Listed) /\ spoiled' \in BOOLEAN
    <3>1. CASE Finish(t)
      BY <1>8, <1>9, <1>b, <3>1 DEF Create
    <3>2. CASE Goto(t, "upsert") /\ UNCHANGED history
      BY <1>9, <1>b, <1>c, <3>2, GotoStep DEF Create, OnItsWay, history, OthersOK
    <3> QED
      BY <1>9, <3>1, <3>2 DEF Create
  <2> QED
    BY <1>9, <2>1 DEF OthersOK, Create, slack, bounds
<1>10. ASSUME NEW docs \in SUBSET Listed, Add(docs) PROVE copies' \in [Listed -> Nat]
  BY <1>10 DEF Add, OthersOK
<1>11. ASSUME NEW t \in Thread, Upsert(t) PROVE JobsOK' /\ OthersOK'
  <2>1. JobsOK' /\ (last' = None \/ last' \subseteq Listed) /\ spoiled' \in BOOLEAN
    BY <1>8, <1>11, <1>b DEF Upsert
  <2>2. copies' \in [Listed -> Nat]
    BY <1>10, <1>11 DEF Upsert, JobsOK, JobInfo
  <2> QED
    BY <1>11, <2>1, <2>2 DEF OthersOK, Upsert, slack, bounds
<1>12. ASSUME NEW t \in Thread, NEW stored \in SUBSET Listed, Fail(t, stored)
       PROVE  JobsOK' /\ OthersOK'
  <2>1. JobsOK'
    BY <1>12, <1>b, <1>c, RestStep DEF Fail, OnItsWay
  <2>2. copies' \in [Listed -> Nat]
    BY <1>10, <1>12 DEF Fail
  <2>3. failures' \in 0..MaxFailures
    BY <1>12, BoundsAssumption DEF Fail, OthersOK
  <2>4. spoiled' \in BOOLEAN
    BY <1>12 DEF Fail
  <2> QED
    BY <1>12, <2>1, <2>2, <2>3, <2>4 DEF OthersOK, Fail, slack
<1>13. ASSUME NEW t \in Thread, Release(t) PROVE JobsOK' /\ OthersOK'
  <2>1. jobs[t].pc = "release" /\ lock = t /\ lock' = None
    BY <1>13, <1>b, <1>c DEF Release
  <2>2. JobsOK'
    <3>1. CASE t = "main" /\ exists
      BY <1>13, <1>a, <2>1, <3>1, LoopStarts DEF Release, Thread
    <3>2. CASE ~(t = "main" /\ exists)
      <4>1. PICK pc \in {"up", "sleep", "done", "search"} :
              jobs' = [jobs EXCEPT ![t] = [Resting(pc) EXCEPT !.failed = "no"]]
        BY <1>13, <3>2 DEF Release, Resting
      <4> QED
        BY <1>a, <1>b, <2>1, <4>1, RestStep DEF OnItsWay
    <3> QED
      BY <3>1, <3>2
  <2> QED
    BY <1>13, <2>1, <2>2 DEF OthersOK, Release, slack, index, history, bounds
<1>14. ASSUME NEW t \in Thread, Search(t) \/ Query(t) PROVE JobsOK' /\ OthersOK'
  <2>1. JobsOK'
    BY <1>14, <1>b, <1>c, GotoStep DEF Search, Query, OnItsWay
  <2> QED
    BY <1>14, <2>1 DEF OthersOK, Search, Query, slack, index, history, bounds
<1>15. ASSUME NEW wiped \in BOOLEAN, Reboot(wiped), restarts' \in 0..MaxRestarts,
              UNCHANGED <<changes, failures>>
       PROVE  JobsOK' /\ OthersOK'
  <2>1. \A t \in Thread : \E pc \in PC \ Locked : jobs'[t] = Resting(pc)
    <3> SUFFICES ASSUME NEW t \in Thread
                 PROVE  \E pc \in PC \ Locked : jobs'[t] = Resting(pc)
      OBVIOUS
    <3>1. jobs'[t] = Resting("check") \/ jobs'[t] = Resting("off")
          \/ jobs'[t] = Resting("done") \/ jobs'[t] = Resting("lost")
      BY <1>15 DEF Reboot
    <3> QED
      BY <1>b, <3>1
  <2>2. jobs' \in [Thread -> JobInfo]
    <3>1. \A pc \in PC : Resting(pc) \in JobInfo
      BY DEF Resting, JobInfo
    <3>2. jobs' = [t \in Thread |-> jobs'[t]]
      BY <1>15 DEF Reboot
    <3> QED
      BY <2>1, <3>1, <3>2
  <2>3. jobs'["loop"] = Resting("off")
    BY <1>15 DEF Reboot, Thread
  <2>4. \A t \in Thread : jobs'[t].pc \notin Locked /\ lock' # t
    BY <1>15, <1>a, <2>1 DEF Resting, Reboot
  <2>5. JobsOK'
    BY <2>2, <2>3, <2>4 DEF JobsOK, Resting
  <2> QED
    BY <1>15, <2>5 DEF OthersOK, Reboot, NoCopies, slack
<1>16. ASSUME NEW wiped \in BOOLEAN, Restart(wiped) \/ BootFails(wiped)
       PROVE  JobsOK' /\ OthersOK'
  <2>1. restarts' \in 0..MaxRestarts /\ UNCHANGED <<changes, failures>>
    BY <1>16, BoundsAssumption DEF OthersOK, Restart, BootFails, bounds
  <2> QED
    BY <1>15, <1>16, <2>1 DEF Restart, BootFails
<1>17. ASSUME Reinstall \/ \E e \in Listed : Change(e) PROVE JobsOK' /\ OthersOK'
  <2>1. JobsOK'
    BY <1>17 DEF Reinstall, Change, JobsOK
  <2>2. CASE Reinstall
    BY <2>1, <2>2 DEF Reinstall, OthersOK, index, history, bounds
  <2>3. CASE \E e \in Listed : Change(e)
    <3>1. PICK e \in Listed : Change(e)
      BY <2>3
    <3>2. directory' \subseteq Listed
      BY <3>1 DEF Change, OthersOK
    <3>3. changes' \in 0..MaxChanges
      BY <3>1, BoundsAssumption DEF Change, OthersOK
    <3> QED
      BY <2>1, <3>1, <3>2, <3>3 DEF Change, OthersOK, index, history
  <2> QED
    BY <1>17, <2>2, <2>3
<1>18. ASSUME UNCHANGED vars PROVE JobsOK' /\ OthersOK'
  BY <1>18 DEF vars, JobsOK, OthersOK
<1> QED
  BY <1>1, <1>2, <1>3, <1>4, <1>5, <1>6, <1>7, <1>9, <1>11, <1>12, <1>13, <1>14, <1>16,
     <1>17, <1>18 DEF Next, World, Boot, Step

-------------------------------------------------------------------------------
(* What the index holds. *)

IInv == JobsOK /\ OthersOK /\ RebuildsFromNothing /\ NeverDoubled /\ IndexIsLastBuild

\* Initially the collection is not there.
LEMMA InitInv == Init => IInv
<1> SUFFICES ASSUME Init PROVE IInv
  OBVIOUS
<1>1. jobs \in [Thread -> JobInfo]
  BY DEF Init, Resting, JobInfo, PC, Building, Rebuilding
<1>2. \A t \in Thread : jobs[t].pc \in {"check", "off"} /\ lock # t
  BY NoneAssumption DEF Init, Resting, Thread
<1>3. jobs["loop"].pc = "off"
  BY DEF Init, Resting, Thread
<1>4. JobsOK
  BY <1>1, <1>2, <1>3 DEF JobsOK, Locked, Building, Rebuilding
<1>5. OthersOK
  <2>1. copies \in [Listed -> Nat] /\ lock \in Thread \cup {None}
    BY DEF Init, NoCopies
  <2>2. changes \in 0..MaxChanges /\ failures \in 0..MaxFailures
        /\ restarts \in 0..MaxRestarts
    BY BoundsAssumption DEF Init
  <2> QED
    BY <2>1, <2>2 DEF Init, OthersOK
<1>6. RebuildsFromNothing /\ NeverDoubled
  BY <1>2 DEF Init, RebuildsFromNothing, NeverDoubled, Rebuilding, NoCopies
<1>7. IndexIsLastBuild
  BY DEF Init, IndexIsLastBuild
<1> QED
  BY <1>4, <1>5, <1>6, <1>7 DEF IInv

\* A step outside the last part of a build that leaves the collection alone.
LEMMA KeepsIndex ==
  ASSUME RebuildsFromNothing, NeverDoubled, IndexIsLastBuild,
         UNCHANGED <<index, history>>,
         \A t \in Thread : \/ jobs'[t].pc = jobs[t].pc
                           \/ jobs[t].pc \notin Rebuilding /\ jobs'[t].pc \notin Rebuilding
  PROVE  RebuildsFromNothing' /\ NeverDoubled' /\ IndexIsLastBuild'
<1>1. RebuildsFromNothing'
  BY DEF RebuildsFromNothing, Rebuilding, index, NoCopies
<1>2. NeverDoubled'
  BY DEF NeverDoubled, index
<1>3. IndexIsLastBuild'
  BY DEF IndexIsLastBuild, index, history, Indexed
<1> QED
  BY <1>1, <1>2, <1>3

\* Only one thread is in a build.
LEMMA OneBuilds ==
  ASSUME JobsOK, NEW t \in Thread, jobs[t].pc \in Building, NEW u \in Thread \ {t}
  PROVE  jobs[u].pc \notin Building
BY DEF JobsOK, Locked

\* The end of a build: nobody rebuilds, and the index holds its documents.
LEMMA FinishInv ==
  ASSUME IInv, NEW t \in Thread, jobs[t].pc \in Building, Finish(t),
         exists', copies' = [e \in Listed |-> IF e \in jobs[t].docs THEN 1 ELSE 0]
  PROVE  RebuildsFromNothing' /\ NeverDoubled' /\ IndexIsLastBuild'
<1>1. jobs'[t].pc = "release" /\ \A u \in Thread \ {t} : jobs'[u] = jobs[u]
  BY DEF Finish, Resting, IInv, JobsOK
<1>2. \A u \in Thread : jobs'[u].pc \notin Rebuilding
  BY <1>1, OneBuilds DEF IInv, Building, Rebuilding
<1>3. RebuildsFromNothing' /\ NeverDoubled'
  BY <1>2 DEF RebuildsFromNothing, NeverDoubled, Rebuilding
<1>4. jobs[t].docs \subseteq Listed
  BY DEF IInv, JobsOK, JobInfo
<1>5. IndexIsLastBuild'
  <2>1. last' = jobs[t].docs /\ last' # None
    BY <1>4, NoneAssumption DEF Finish, Listed
  <2>2. Indexed' = jobs[t].docs
    BY <1>4 DEF Indexed
  <2> QED
    BY <2>1, <2>2 DEF IndexIsLastBuild
<1> QED
  BY <1>3, <1>5

\* A call that raises spoils a rebuild, or leaves everything as it was.
LEMMA FailInv ==
  ASSUME IInv, NEW t \in Thread, NEW stored \in SUBSET Listed, Fail(t, stored)
  PROVE  RebuildsFromNothing' /\ NeverDoubled' /\ IndexIsLastBuild'
<1>1. jobs'[t].pc = "release" /\ \A u \in Thread \ {t} : jobs'[u] = jobs[u]
  BY DEF Fail, Resting, IInv, JobsOK
<1>2. \A u \in Thread : jobs'[u].pc \notin Rebuilding
  BY <1>1, OneBuilds DEF Fail, IInv, Building, Rebuilding
<1>3. RebuildsFromNothing'
  BY <1>2 DEF RebuildsFromNothing, Rebuilding
<1>4. CASE jobs[t].pc \in Rebuilding
  <2>1. copies = NoCopies
    BY <1>4 DEF IInv, RebuildsFromNothing
  <2>2. NeverDoubled'
    BY <2>1 DEF Fail, Add, NeverDoubled, NoCopies
  <2> QED
    BY <1>3, <1>4, <2>2 DEF Fail, IndexIsLastBuild
<1>5. CASE jobs[t].pc \notin Rebuilding
  <2>1. stored = {}
    BY <1>5 DEF Fail, Rebuilding
  <2>2. copies' = copies
    BY <2>1 DEF Fail, Add, IInv, OthersOK
  <2>3. UNCHANGED <<index, history>>
    BY <1>5, <2>2 DEF Fail, index, history, IInv, OthersOK
  <2> QED
    BY <1>1, <1>2, <1>5, <2>3, KeepsIndex DEF IInv
<1> QED
  BY <1>4, <1>5

\* A new process builds nothing yet; in a new container there is no collection.
LEMMA RebootInv ==
  ASSUME IInv, NEW wiped \in BOOLEAN, Reboot(wiped)
  PROVE  RebuildsFromNothing' /\ NeverDoubled' /\ IndexIsLastBuild'
<1>1. \A t \in Thread : jobs'[t].pc \notin Rebuilding
  <2> SUFFICES ASSUME NEW t \in Thread PROVE jobs'[t].pc \notin Rebuilding
    OBVIOUS
  <2>1. jobs'[t].pc \in {"check", "off", "done", "lost"}
    BY DEF Reboot, Resting
  <2> QED
    BY <2>1 DEF Rebuilding
<1>2. RebuildsFromNothing'
  BY <1>1 DEF RebuildsFromNothing, Rebuilding
<1>3. CASE wiped
  BY <1>2, <1>3 DEF Reboot, NeverDoubled, IndexIsLastBuild, NoCopies
<1>4. CASE ~wiped
  <2>1. UNCHANGED index /\ last' = last
    BY <1>4 DEF Reboot, index, IInv, OthersOK
  <2>2. NeverDoubled'
    BY <2>1 DEF IInv, NeverDoubled, index
  <2>3. spoiled' = (spoiled \/ \E t \in Thread : jobs[t].pc \in Rebuilding)
    BY <1>4 DEF Reboot
  <2>4. IndexIsLastBuild'
    BY <2>1, <2>3 DEF IInv, IndexIsLastBuild, index, Indexed
  <2> QED
    BY <1>2, <2>2, <2>4
<1> QED
  BY <1>3, <1>4

\* Every step keeps what the index must hold.
LEMMA NextInv == IInv /\ [Next]_vars => IInv'
<1> SUFFICES ASSUME IInv, [Next]_vars
             PROVE  RebuildsFromNothing' /\ NeverDoubled' /\ IndexIsLastBuild'
  BY NextTypes DEF IInv
<1> DEFINE Kept == RebuildsFromNothing' /\ NeverDoubled' /\ IndexIsLastBuild'
<1>a. jobs \in [Thread -> JobInfo] /\ RebuildsFromNothing /\ NeverDoubled /\ IndexIsLastBuild
  BY DEF IInv, JobsOK
<1>b. ASSUME NEW t \in Thread, NEW pc, Goto(t, pc), jobs[t].pc \notin Rebuilding,
             pc \notin Rebuilding, UNCHANGED <<index, history>>
      PROVE  Kept
  <2>1. \A u \in Thread : jobs'[u].pc = IF u = t THEN pc ELSE jobs[u].pc
    BY <1>a, <1>b DEF Goto, JobInfo
  <2> QED
    BY <1>a, <1>b, <2>1, KeepsIndex
<1>c. Rebuilding = {"create", "upsert"}
  BY DEF Rebuilding
<1>1. ASSUME NEW c \in Call, Ask(c) PROVE Kept
  <2>1. c \in Thread
    BY DEF Thread
  <2> QED
    BY <1>1, <1>b, <1>c, <2>1 DEF Ask
<1>2. ASSUME StartLoop, UNCHANGED <<index, history>>, jobs["main"].pc \notin Rebuilding,
             jobs["loop"].pc \notin Rebuilding
      PROVE  Kept
  <2>1. \A u \in Thread : \/ jobs'[u].pc = jobs[u].pc
                          \/ u \in {"main", "loop"} /\ jobs'[u].pc \notin Rebuilding
    BY <1>2, <1>a, <1>c DEF StartLoop, Resting
  <2> QED
    BY <1>2, <1>a, <2>1, KeepsIndex
<1>3. ASSUME NEW t \in Thread, Check(t) PROVE Kept
  <2>1. CASE Goto(t, "wait") \/ Goto(t, "search")
    BY <1>3, <1>b, <1>c, <2>1 DEF Check
  <2>2. CASE t = "main" /\ StartLoop
    <3>1. jobs["loop"].pc = "off"
      BY <1>3, <2>2 DEF Check, IInv, JobsOK
    <3> QED
      BY <1>2, <1>3, <1>c, <2>2, <3>1 DEF Check
  <2> QED
    BY <1>3, <2>1, <2>2 DEF Check
<1>4. ASSUME Tick PROVE Kept
  BY <1>4, <1>b, <1>c DEF Tick, Thread
<1>5. ASSUME NEW t \in Thread, Acquire(t) PROVE Kept
  BY <1>5, <1>b, <1>c DEF Acquire
<1>6. ASSUME NEW t \in Thread, CollectUsers(t) \/ CollectGroups(t) \/ MissingScope(t)
      PROVE  Kept
  <2>1. \A u \in Thread : \/ jobs'[u].pc = jobs[u].pc
                          \/ jobs[u].pc \notin Rebuilding /\ jobs'[u].pc \notin Rebuilding
    BY <1>6, <1>a, <1>c DEF CollectUsers, CollectGroups, Collect, MissingScope, Resting, JobInfo
  <2>2. UNCHANGED <<index, history>>
    BY <1>6 DEF CollectUsers, CollectGroups, Collect, MissingScope
  <2> QED
    BY <1>a, <2>1, <2>2, KeepsIndex
<1>7. ASSUME NEW t \in Thread, Delete(t) PROVE Kept
  <2>1. jobs'[t].pc = "create" /\ \A u \in Thread \ {t} : jobs'[u] = jobs[u]
    BY <1>7, <1>a DEF Delete, Goto, JobInfo
  <2>2. \A u \in Thread \ {t} : jobs'[u].pc \notin Rebuilding
    BY <1>7, <2>1, OneBuilds DEF Delete, IInv, Building
  <2>3. RebuildsFromNothing'
    BY <1>7, <2>1, <2>2 DEF Delete, RebuildsFromNothing, Rebuilding, NoCopies
  <2>4. NeverDoubled'
    BY <1>7 DEF Delete, NeverDoubled, NoCopies
  <2>5. IndexIsLastBuild'
    BY <2>1 DEF IndexIsLastBuild, Rebuilding
  <2> QED
    BY <2>3, <2>4, <2>5
<1>8. ASSUME NEW t \in Thread, Create(t) PROVE Kept
  <2>1. copies' = NoCopies /\ exists'
    BY <1>8, <1>a, <1>c DEF Create, RebuildsFromNothing
  <2>2. CASE jobs[t].docs = {} /\ Finish(t)
    <3>1. copies' = [e \in Listed |-> IF e \in jobs[t].docs THEN 1 ELSE 0]
      BY <2>1, <2>2 DEF NoCopies
    <3> QED
      BY <1>8, <2>1, <2>2, <3>1, FinishInv DEF Create, Building, Rebuilding
  <2>3. CASE Goto(t, "upsert")
    <3>1. \A u \in Thread : jobs'[u].pc = IF u = t THEN "upsert" ELSE jobs[u].pc
      BY <1>a, <2>3 DEF Goto, JobInfo
    <3>2. RebuildsFromNothing'
      BY <2>1 DEF RebuildsFromNothing, NoCopies
    <3>3. NeverDoubled'
      BY <2>1 DEF NeverDoubled, NoCopies
    <3> QED
      BY <3>1, <3>2, <3>3 DEF IndexIsLastBuild, Rebuilding
  <2> QED
    BY <1>8, <2>2, <2>3 DEF Create
<1>9. ASSUME NEW t \in Thread, Upsert(t) PROVE Kept
  <2>1. copies = NoCopies /\ exists'
    BY <1>9, <1>a, <1>c DEF Upsert, RebuildsFromNothing
  <2>2. copies' = [e \in Listed |-> IF e \in jobs[t].docs THEN 1 ELSE 0]
    BY <1>9, <2>1 DEF Upsert, Add, NoCopies
  <2> QED
    BY <1>9, <2>1, <2>2, FinishInv DEF Upsert, Building, Rebuilding
<1>10. ASSUME NEW t \in Thread, NEW stored \in SUBSET Listed, Fail(t, stored) PROVE Kept
  BY <1>10, FailInv
<1>11. ASSUME NEW t \in Thread, Release(t) PROVE Kept
  <2>1. CASE t = "main" /\ exists
    <3>1. jobs["loop"].pc = "off"
      BY <1>11, <2>1 DEF Release, IInv, JobsOK
    <3> QED
      BY <1>2, <1>11, <1>c, <2>1, <3>1 DEF Release
  <2>2. CASE ~(t = "main" /\ exists)
    <3>1. PICK pc \in {"up", "sleep", "done", "search"} :
            jobs' = [jobs EXCEPT ![t] = Resting(pc)]
      BY <1>11, <2>2 DEF Release
    <3>2. \A u \in Thread : jobs'[u].pc = IF u = t THEN pc ELSE jobs[u].pc
      BY <1>a, <3>1 DEF Resting
    <3> QED
      BY <1>11, <1>a, <1>c, <3>2, KeepsIndex DEF Release
  <2> QED
    BY <2>1, <2>2
<1>12. ASSUME NEW t \in Thread, Search(t) \/ Query(t) PROVE Kept
  BY <1>12, <1>b, <1>c DEF Search, Query
<1>13. ASSUME NEW wiped \in BOOLEAN, Restart(wiped) \/ BootFails(wiped) PROVE Kept
  BY <1>13, RebootInv DEF Restart, BootFails
<1>14. ASSUME UNCHANGED <<index, history, jobs>> PROVE Kept
  BY <1>14, <1>a, KeepsIndex
<1>15. ASSUME Reinstall \/ \E e \in Listed : Change(e) PROVE Kept
  BY <1>14, <1>15 DEF Reinstall, Change
<1>16. ASSUME UNCHANGED vars PROVE Kept
  BY <1>14, <1>16 DEF vars, index, history
<1> QED
  BY <1>1, <1>3, <1>4, <1>5, <1>6, <1>7, <1>8, <1>9, <1>10, <1>11, <1>12, <1>13, <1>15,
     <1>16 DEF Next, World, Boot, Step

-------------------------------------------------------------------------------
\* The invariant the theorems follow from.
LEMMA Invariant == Spec => []IInv
BY InitInv, NextInv, PTL DEF Spec

\* Every variable has its type, and a thread holds the lock exactly while it is in
\* build().
THEOREM TypeCorrect == Spec => []TypeOK
<1>1. IInv => TypeOK
  BY DEF IInv, TypeOK, JobsOK, OthersOK, Locked
<1> QED
  BY <1>1, Invariant, PTL

\* Nobody is found twice, however many calls find the index missing at once and
\* wherever builds fail or the bot restarts.
THEOREM NobodyIsDoubled == Spec => []NeverDoubled
<1>1. IInv => NeverDoubled
  BY DEF IInv
<1> QED
  BY <1>1, Invariant, PTL

\* The index is what the last build collected, unless a later one ended between
\* its deletion and its insertion.
THEOREM IndexIsFromABuild == Spec => []IndexIsLastBuild
<1>1. IInv => IndexIsLastBuild
  BY DEF IInv
<1> QED
  BY <1>1, Invariant, PTL
===============================================================================
