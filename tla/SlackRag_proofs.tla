---------------------------- MODULE SlackRag_proofs ----------------------------
(***************************************************************************)
(* The channel index, for any channels, requests, posts, failures and      *)
(* restarts: a watermark never claims a message that the index lacks, a    *)
(* message is stored twice only after a failure, and no reader sees one    *)
(* disappear within a life of the process.                                 *)
(***************************************************************************)
EXTENDS SlackRagProps, TLAPS

Working == {"delete", "create", "upsert"}
Holding == Building \cup {"pass", "release"}

\* What the page held when it was fetched is among the documents of the build, or
\* in the index below the watermark, or older than the checkpoint by now.
PageIsCovered(job) ==
  LET c == job.channel
  IN  /\ job.newest \in 1..posted[c]
      /\ mark[c] <= job.newest
      /\ \A t \in job.docs : t <= job.newest
      /\ \A t \in Ts \ Noise :
           t > job.newest - Limit /\ t <= job.newest /\ t > horizon[c]
             => t \in job.docs \/ (mark[c] # 0 /\ t \in Indexed(c))

\* A build goes on under the lock of its channel.  It deletes only where there is
\* no watermark, and adds without one only to an empty collection.
ThreadOK(b) ==
  LET job == jobs[b]
      c == job.channel
  IN  /\ job.pc \notin {"idle", "plan", "done", "lost"} => c \in Channel
      /\ job.pc \in Holding => lock[c] = b
      /\ job.pc = "delete" => mark[c] = 0
      /\ job.pc = "upsert" => c \in exists
      /\ job.pc \in {"create", "upsert"} =>
           /\ mark[c] = 0 => copies[c] = NoCopies
           /\ \A t \in job.docs : copies[c][t] <= failures
      /\ job.pc \in Working => PageIsCovered(job)

\* Beyond the watermark, only failed upserts have stored anything.
ChannelOK(c) ==
  /\ mark[c] <= posted[c]
  /\ mark[c] # 0 =>
       /\ c \in exists
       /\ \A t \in Ts \ Noise :
            t > mark[c] - Limit /\ t <= mark[c] /\ t > horizon[c] => t \in Indexed(c)
       /\ \A t \in Ts : t > mark[c] => copies[c][t] <= failures
  /\ \A t \in Ts : copies[c][t] <= 1 + failures

IInv ==
  /\ TypeOK
  /\ \A b \in Thread : ThreadOK(b)
  /\ \A c \in Channel : ChannelOK(c)

-------------------------------------------------------------------------------
\* A thread that is started at boot has its channel to look at.
LEMMA BootingJob ==
  ASSUME NEW b, b[2] \in Channel
  PROVE  Booting(b) \in JobInfo /\ Booting(b).pc = "check" /\ Booting(b).channel = b[2]
<1>1. Resting("check") \in JobInfo /\ Resting("check").pc = "check"
  BY BoundsAssumption DEF Resting, JobInfo, PC
<1>2. PICK rest \in JobInfo : rest = Resting("check") /\ rest.pc = "check"
  BY <1>1
<1>3. (b \in Loop) \in BOOLEAN
  OBVIOUS
<1>4. [rest EXCEPT !.channel = b[2], !.boot = b \in Loop] \in JobInfo
  BY <1>3 DEF JobInfo
<1> QED
  BY <1>2, <1>4 DEF Booting, JobInfo

\* Initially nobody builds and there is no index.
LEMMA InitInv == Init => IInv
<1> SUFFICES ASSUME Init PROVE IInv
  OBVIOUS
<1> USE BoundsAssumption, ConfigAssumption, ThreadsAssumption
<1>1. ASSUME NEW b \in Thread PROVE jobs[b] \in JobInfo /\ ThreadOK(b)
  <2>1. CASE b \in Request
    <3>1. jobs[b] = Resting("idle")
      BY <2>1 DEF Init
    <3> QED
      BY <3>1 DEF Resting, JobInfo, PC, Building, ThreadOK, Holding, Working
  <2>2. CASE b \notin Request
    <3>1. jobs[b] = Booting(b) /\ b[2] \in Channel
      BY <2>2 DEF Init, Thread, Loop, Starter
    <3>2. Booting(b) \in JobInfo /\ Booting(b).pc = "check" /\ Booting(b).channel = b[2]
      BY <3>1, BootingJob
    <3> QED
      BY <3>1, <3>2 DEF ThreadOK, Holding, Working, Building
  <2> QED
    BY <2>1, <2>2
<1>2. TypeOK
  <2>1. jobs \in [Thread -> JobInfo]
    BY <1>1 DEF Init
  <2>2. copies \in [Channel -> [Ts -> Nat]] /\ \A c \in Channel : Indexed(c) = {}
    BY DEF Init, NoCopies, Indexed
  <2> QED
    BY <2>1, <2>2 DEF Init, TypeOK
<1>3. ASSUME NEW c \in Channel PROVE ChannelOK(c)
  <2>1. mark[c] = 0 /\ posted[c] \in Nat /\ failures = 0 /\ \A t \in Ts : copies[c][t] = 0
    BY DEF Init, NoCopies
  <2> QED
    BY <2>1 DEF ChannelOK
<1> QED
  BY <1>1, <1>2, <1>3 DEF IInv

\* Two threads that hold a lock hold that of different channels.
LEMMA HoldersApart ==
  ASSUME IInv, NEW b \in Thread, NEW d \in Thread, b # d,
         jobs[b].pc \in Holding, jobs[d].pc \in Holding
  PROVE  jobs[b].channel # jobs[d].channel
BY DEF IInv, ThreadOK

\* Time passing, new messages and failures do not disturb a thread whose channel
\* nobody else writes to while it holds the lock.
LEMMA OtherThreads ==
  ASSUME IInv, TypeOK', NEW d \in Thread, jobs'[d] = jobs[d], failures' >= failures,
         \A c \in Channel : posted'[c] >= posted[c] /\ horizon'[c] >= horizon[c],
         jobs[d].pc \in Holding =>
           /\ lock'[jobs[d].channel] = lock[jobs[d].channel]
           /\ mark'[jobs[d].channel] = mark[jobs[d].channel]
           /\ copies'[jobs[d].channel] = copies[jobs[d].channel]
           /\ jobs[d].channel \in exists => jobs[d].channel \in exists'
  PROVE  ThreadOK(d)'
<1> USE BoundsAssumption
<1>1. PICK job : job = jobs[d]
  OBVIOUS
<1>2. PICK c : c = job.channel
  OBVIOUS
<1>3. jobs'[d] = job /\ ThreadOK(d)
  BY <1>1 DEF IInv
<1>4. CASE job.pc \notin Holding
  BY <1>1, <1>3, <1>4 DEF ThreadOK, Holding, Building, Working
<1>5. CASE job.pc \in Holding
  <2>1. c \in Channel /\ job \in JobInfo
    BY <1>1, <1>2, <1>3, <1>5 DEF ThreadOK, Holding, Building, IInv, TypeOK
  <2>2. /\ posted'[c] >= posted[c] /\ horizon'[c] >= horizon[c]
        /\ posted'[c] \in Int /\ posted[c] \in Int
        /\ horizon'[c] \in Int /\ horizon[c] \in Int
        /\ failures \in Int /\ failures' \in Int /\ copies[c] \in [Ts -> Nat]
    BY <2>1 DEF IInv, TypeOK
  <2>3. Indexed(c)' = Indexed(c)
    BY <1>1, <1>2, <1>5 DEF Indexed
  <2>4. job.pc \in Working => PageIsCovered(job)'
    <3>1. job.pc \in Working => PageIsCovered(job)
      BY <1>1, <1>3 DEF ThreadOK
    <3> QED
      BY <1>1, <1>2, <1>5, <2>1, <2>2, <2>3, <3>1 DEF PageIsCovered, JobInfo, Ts
  <2>5. \A t \in job.docs : copies[c][t] <= failures => copies[c][t] <= failures'
    BY <2>1, <2>2 DEF JobInfo
  <2> QED
    BY <1>1, <1>2, <1>3, <1>5, <2>1, <2>4, <2>5 DEF ThreadOK
<1> QED
  BY <1>4, <1>5

\* Nor do they disturb a channel that nobody builds.
LEMMA OtherChannels ==
  ASSUME IInv, TypeOK', NEW c \in Channel, failures' >= failures,
         posted'[c] >= posted[c], horizon'[c] >= horizon[c],
         copies'[c] = copies[c], mark'[c] = mark[c], c \in exists => c \in exists'
  PROVE  ChannelOK(c)'
<1> USE BoundsAssumption
<1>1. /\ posted'[c] \in Int /\ posted[c] \in Int
      /\ horizon'[c] \in Int /\ horizon[c] \in Int
      /\ failures \in Int /\ failures' \in Int /\ mark[c] \in Int
      /\ copies[c] \in [Ts -> Nat]
  BY DEF IInv, TypeOK
<1>2. ChannelOK(c)
  BY DEF IInv
<1>3. Indexed(c)' = Indexed(c)
  BY DEF Indexed
<1>4. mark[c] # 0 => \A t \in Ts : t > mark[c] => copies'[c][t] <= failures'
  BY <1>1, <1>2 DEF ChannelOK
<1>5. \A t \in Ts : copies'[c][t] <= 1 + failures'
  BY <1>1, <1>2 DEF ChannelOK
<1>6. mark[c] # 0 => \A t \in Ts \ Noise :
        t > mark[c] - Limit /\ t <= mark[c] /\ t > horizon'[c] => t \in Indexed(c)'
  BY <1>1, <1>2, <1>3 DEF ChannelOK, Ts
<1> QED
  BY <1>1, <1>2, <1>4, <1>5, <1>6 DEF ChannelOK

\* Thread b gets to where it does not build.
Gets(b, job) ==
  /\ jobs' = [jobs EXCEPT ![b] = job]
  /\ job.pc \notin Holding
  /\ job.pc \notin {"idle", "plan", "done", "lost"} => job.channel \in Channel

\* A thread that does not build may change nothing but what it is at.
LEMMA NotBuilding ==
  ASSUME IInv, NEW b \in Thread, NEW job \in JobInfo, Gets(b, job),
         UNCHANGED <<slack, index, mark, lock, restarts>>,
         failures' \in 0..MaxFailures, failures' >= failures
  PROVE  IInv'
<1> USE BoundsAssumption DEF slack, index, Gets
<1>1. TypeOK'
  BY DEF IInv, TypeOK, Indexed
<1>2. ThreadOK(b)'
  <2>1. jobs'[b] = job
    BY DEF IInv, TypeOK
  <2> QED
    BY <2>1 DEF ThreadOK, Holding, Working, Building
<1>3. \A d \in Thread : horizon' = horizon /\ (d # b => jobs'[d] = jobs[d])
  BY DEF IInv, TypeOK
<1>4. \A c \in Channel : posted[c] \in Int /\ horizon[c] \in Int
  BY DEF IInv, TypeOK
<1>5. \A d \in Thread : d # b => ThreadOK(d)'
  BY <1>1, <1>3, <1>4, OtherThreads
<1>6. \A c \in Channel : ChannelOK(c)'
  BY <1>1, <1>4, OtherChannels
<1> QED
  BY <1>1, <1>2, <1>5, <1>6 DEF IInv

\* A step of a build disturbs neither the other threads nor the other channels.
LEMMA OneBuilds ==
  ASSUME IInv, NEW b \in Thread, NEW c \in Channel, jobs[b].channel = c,
         jobs[b].pc \in Holding \/ lock[c] = None,
         TypeOK', ThreadOK(b)', ChannelOK(c)', UNCHANGED slack, failures' >= failures,
         \A d \in Thread : d # b => jobs'[d] = jobs[d],
         \A k \in Channel : k # c =>
           /\ lock'[k] = lock[k] /\ mark'[k] = mark[k] /\ copies'[k] = copies[k]
           /\ k \in exists => k \in exists'
  PROVE  IInv'
<1>1. \A k \in Channel : /\ posted'[k] = posted[k] /\ horizon'[k] = horizon[k]
                         /\ posted[k] \in Int /\ horizon[k] \in Int
  BY DEF IInv, TypeOK, slack
<1>2. ASSUME NEW d \in Thread, d # b PROVE ThreadOK(d)'
  <2>1. jobs[d].pc \in Holding => jobs[d].channel \in Channel /\ jobs[d].channel # c
    BY <1>2, HoldersApart, ThreadsAssumption DEF IInv, ThreadOK, Holding, Building
  <2> QED
    BY <1>1, <1>2, <2>1, OtherThreads
<1>3. ASSUME NEW k \in Channel, k # c PROVE ChannelOK(k)'
  BY <1>1, <1>3, OtherChannels
<1> QED
  BY <1>2, <1>3 DEF IInv

\* A restart leaves no build, lock or watermark behind.
LEMMA RebootInv ==
  ASSUME IInv, NEW wiped \in BOOLEAN, Reboot(wiped), failures' = failures,
         restarts' \in 0..MaxRestarts
  PROVE  IInv'
<1> USE BoundsAssumption, ConfigAssumption, ThreadsAssumption DEF slack
<1>1. ASSUME NEW b \in Thread PROVE jobs'[b] \in JobInfo /\ ThreadOK(b)'
  <2>1. CASE b \notin Request
    <3>1. jobs'[b] = Booting(b) /\ b[2] \in Channel
      BY <2>1 DEF Reboot, Thread, Loop, Starter
    <3>2. Booting(b) \in JobInfo /\ Booting(b).pc = "check" /\ Booting(b).channel = b[2]
      BY <3>1, BootingJob
    <3> QED
      BY <3>1, <3>2 DEF ThreadOK, Holding, Working, Building
  <2>2. CASE b \in Request /\ jobs[b].pc \in {"idle", "done", "lost"}
    <3>1. jobs'[b] = jobs[b]
      BY <2>2 DEF Reboot
    <3> QED
      BY <2>2, <3>1 DEF IInv, TypeOK, ThreadOK, Holding, Working, Building
  <2>3. CASE b \in Request /\ jobs[b].pc \notin {"idle", "done", "lost"}
    <3>1. jobs'[b] = Resting("lost")
      BY <2>3 DEF Reboot
    <3> QED
      BY <3>1 DEF Resting, JobInfo, PC, ThreadOK, Holding, Working, Building
  <2> QED
    BY <2>1, <2>2, <2>3
<1>2. ASSUME NEW c \in Channel
      PROVE  /\ copies'[c] \in [Ts -> Nat]
             /\ c \notin exists' => Indexed(c)' = {}
             /\ \A t \in Ts : copies'[c][t] <= 1 + failures
             /\ mark'[c] = 0
  <2>1. (copies'[c] = copies[c] /\ exists' = exists) \/ copies'[c] = NoCopies
    BY DEF Reboot
  <2>2. \A t \in Ts : copies[c][t] \in Nat /\ copies[c][t] <= 1 + failures
    BY DEF IInv, TypeOK, ChannelOK
  <2>3. failures \in Nat /\ c \notin exists => Indexed(c) = {}
    BY DEF IInv, TypeOK
  <2> QED
    BY <2>1, <2>2, <2>3 DEF IInv, TypeOK, NoCopies, Indexed, Reboot
<1>3. TypeOK'
  <2>1. jobs' \in [Thread -> JobInfo]
    BY <1>1 DEF Reboot
  <2>2. copies' \in [Channel -> [Ts -> Nat]]
    BY <1>2 DEF Reboot, IInv, TypeOK
  <2>3. exists' \subseteq Channel
    BY DEF Reboot, IInv, TypeOK
  <2> QED
    BY <1>2, <2>1, <2>2, <2>3 DEF Reboot, IInv, TypeOK
<1>4. \A c \in Channel : ChannelOK(c)'
  BY <1>2 DEF ChannelOK, Reboot, IInv, TypeOK
<1> QED
  BY <1>1, <1>3, <1>4 DEF IInv

\* A thread at rest has no locals but perhaps its channel.
LEMMA RestingJob ==
  ASSUME NEW pc \in PC
  PROVE  /\ Resting(pc) \in JobInfo /\ Resting(pc).pc = pc
         /\ \A c \in Channel : LET job == [Resting(pc) EXCEPT !.channel = c]
                               IN  job \in JobInfo /\ job.pc = pc /\ job.channel = c
<1>1. Resting(pc) \in JobInfo /\ Resting(pc).pc = pc
  BY BoundsAssumption DEF Resting, JobInfo
<1>2. PICK rest \in JobInfo : rest = Resting(pc) /\ rest.pc = pc
  BY <1>1
<1>3. \A c \in Channel : LET job == [rest EXCEPT !.channel = c]
                         IN  job \in JobInfo /\ job.pc = pc /\ job.channel = c
  BY <1>2 DEF JobInfo
<1> QED
  BY <1>1, <1>2, <1>3

\* The threads that look after the index: their steps outside of a build.
LEMMA WaitingInv ==
  ASSUME IInv, NEW b \in Thread,
         CheckAtBoot(b) \/ Tick(b) \/ (TryLock(b) /\ lock[jobs[b].channel] # None)
  PROVE  IInv'
<1>1. jobs[b] \in JobInfo /\ ThreadOK(b)
  BY DEF IInv, TypeOK
<1>2. failures' = failures /\ failures \in 0..MaxFailures
  BY DEF IInv, TypeOK, CheckAtBoot, Tick, TryLock
<1>3. UNCHANGED <<slack, index, mark, lock, restarts>>
  BY DEF CheckAtBoot, Tick, TryLock, slack, index
<1>4. \E job \in JobInfo : Gets(b, job)
  <2>1. ASSUME NEW pc \in {"try", "wait"}, jobs' = [jobs EXCEPT ![b].pc = pc],
               jobs[b].channel \in Channel
        PROVE  \E job \in JobInfo : Gets(b, job)
    <3> DEFINE job == [jobs[b] EXCEPT !.pc = pc]
    <3>1. job \in JobInfo /\ job.pc = pc /\ job.channel \in Channel
      BY <1>1, <2>1 DEF JobInfo, PC
    <3>2. jobs' = [jobs EXCEPT ![b] = job]
      BY <2>1
    <3> QED
      BY <3>1, <3>2 DEF Gets, Holding, Building
  <2>2. CASE CheckAtBoot(b)
    <3>1. jobs[b].channel \in Channel
      BY <1>1, <2>2 DEF CheckAtBoot, ThreadOK
    <3>2. CASE jobs[b].channel \notin exists
      BY <2>1, <2>2, <3>1, <3>2 DEF CheckAtBoot
    <3>3. CASE jobs[b].channel \in exists /\ b \in Loop
      <4>1. jobs' = [jobs EXCEPT ![b] = [Resting("sleep") EXCEPT !.channel = b[2]]]
        BY <2>2, <3>3 DEF CheckAtBoot
      <4>2. b[2] \in Channel
        BY <3>3, ConfigAssumption DEF Loop
      <4> QED
        <5> DEFINE job == [Resting("sleep") EXCEPT !.channel = b[2]]
        <5>1. "sleep" \in PC
          BY DEF PC
        <5>2. job \in JobInfo /\ job.pc = "sleep" /\ job.channel = b[2]
          BY <4>2, <5>1, RestingJob
        <5> HIDE DEF job
        <5> QED
          BY <4>1, <4>2, <5>2 DEF Gets, Holding, Building, job
    <3>4. CASE jobs[b].channel \in exists /\ b \notin Loop
      <4>1. jobs' = [jobs EXCEPT ![b] = Resting("done")]
        BY <2>2, <3>4 DEF CheckAtBoot
      <4> QED
        BY <4>1, RestingJob DEF PC, Gets, Holding, Building
    <3> QED
      BY <3>2, <3>3, <3>4
  <2>3. CASE Tick(b)
    <3>1. jobs[b].channel \in Channel
      BY <1>1, <2>3 DEF Tick, ThreadOK
    <3> QED
      BY <2>1, <2>3, <3>1 DEF Tick, Goto
  <2>4. CASE TryLock(b) /\ lock[jobs[b].channel] # None
    <3>1. jobs[b].channel \in Channel
      BY <1>1, <2>4 DEF TryLock, ThreadOK
    <3> QED
      BY <2>1, <2>4, <3>1 DEF TryLock, Goto
  <2> QED
    BY <2>2, <2>3, <2>4
<1> QED
  BY <1>2, <1>3, <1>4, NotBuilding

\* A request builds nothing but under a lock.
LEMMA RequestInv ==
  ASSUME IInv, NEW r \in Request,
         \/ \E c \in Channel :
              BuildMissing(r, c) \/ Look(r, c) \/ BeginOwn(r, c) \/ BeginCross(r, c)
         \/ Read(r) \/ ReadFails(r) \/ Answer(r)
  PROVE  IInv'
<1>1. r \in Thread /\ jobs[r] \in JobInfo /\ ThreadOK(r)
  BY DEF IInv, TypeOK, Thread
<1>2. failures' \in 0..MaxFailures /\ failures' >= failures
  <2>1. failures' = failures \/ (failures' = failures + 1 /\ failures < MaxFailures)
    BY DEF BuildMissing, Look, Read, ReadFails, Answer, BeginOwn, BeginCross, Begin
  <2> QED
    BY <2>1, BoundsAssumption DEF IInv, TypeOK
<1>3. UNCHANGED <<slack, index, mark, lock, restarts>>
  BY DEF BuildMissing, Look, Read, ReadFails, Answer, BeginOwn, BeginCross, Begin, slack, index
<1>4. \E job \in JobInfo : Gets(r, job)
  <2>1. ASSUME NEW c \in Channel, BuildMissing(r, c) PROVE \E job \in JobInfo : Gets(r, job)
    <3> DEFINE job == [jobs[r] EXCEPT !.pc = "try", !.channel = c,
                                      !.todo = jobs[r].todo \ {c}]
    <3>1. job \in JobInfo /\ job.pc = "try" /\ job.channel = c
      BY <1>1 DEF JobInfo, PC
    <3>2. jobs' = [jobs EXCEPT ![r] = job]
      BY <2>1 DEF BuildMissing
    <3> QED
      BY <3>1, <3>2 DEF Gets, Holding, Building
  <2>2. ASSUME NEW c \in Channel, Look(r, c) PROVE \E job \in JobInfo : Gets(r, job)
    <3>1. PICK pc \in {"read", "plan"} : pc = IF c \in exists THEN "read" ELSE "plan"
      OBVIOUS
    <3> DEFINE job == [jobs[r] EXCEPT !.ask = jobs[r].ask \ {c}, !.pc = pc, !.channel = c]
    <3>2. job \in JobInfo /\ job.pc = pc /\ job.channel = c
      BY <1>1 DEF JobInfo, PC
    <3>3. jobs' = [jobs EXCEPT ![r] = job]
      BY <2>2, <3>1 DEF Look
    <3> QED
      BY <3>2, <3>3 DEF Gets, Holding, Building
  <2>3. CASE Read(r)
    <3> DEFINE k == jobs[r].channel
               pc == IF k \in exists THEN "plan" ELSE "done"
               answer == IF k \notin exists THEN {}
                         ELSE IF Indexed(k) = {} THEN jobs[r].answer ELSE jobs[r].answer \cup {k}
               job == [jobs[r] EXCEPT !.pc = pc, !.answer = answer]
    <3>1. pc \in {"plan", "done"} /\ answer \subseteq Channel
      BY <1>1, <2>3 DEF Read, ThreadOK, JobInfo
    <3>2. jobs' = [jobs EXCEPT ![r] = job]
      BY <2>3 DEF Read
    <3> HIDE DEF pc, answer
    <3>3. job \in JobInfo /\ job.pc = pc
      BY <1>1, <3>1 DEF JobInfo, PC
    <3> QED
      BY <3>1, <3>2, <3>3 DEF Gets, Holding, Building
  <2>4. CASE ReadFails(r)
    <3> DEFINE job == [jobs[r] EXCEPT !.pc = "done", !.answer = {}, !.failed = TRUE]
    <3>1. job \in JobInfo /\ job.pc = "done"
      BY <1>1 DEF JobInfo, PC
    <3>2. jobs' = [jobs EXCEPT ![r] = job]
      BY <2>4 DEF ReadFails
    <3> QED
      BY <3>1, <3>2 DEF Gets, Holding, Building
  <2>5. CASE Answer(r)
    <3> DEFINE job == [jobs[r] EXCEPT !.pc = "done"]
    <3>1. job \in JobInfo /\ job.pc = "done"
      BY <1>1 DEF JobInfo, PC
    <3>2. jobs' = [jobs EXCEPT ![r] = job]
      BY <2>5 DEF Answer, Goto
    <3> QED
      BY <3>1, <3>2 DEF Gets, Holding, Building
  <2>6. ASSUME NEW wanted \in SUBSET Channel, NEW ask \in SUBSET Channel,
               Begin(r, wanted, ask)
        PROVE  \E job \in JobInfo : Gets(r, job)
    <3>1. Resting("plan") \in JobInfo /\ Resting("plan").pc = "plan"
      BY RestingJob DEF PC
    <3>2. PICK rest \in JobInfo : rest = Resting("plan") /\ rest.pc = "plan"
      BY <3>1
    <3> DEFINE found == {k \in ask : Indexed(k) # {}}
               job == [rest EXCEPT !.todo = wanted \ exists, !.ask = ask, !.found = found]
    <3>3. found \subseteq Channel
      OBVIOUS
    <3>4. jobs' = [jobs EXCEPT ![r] = job]
      BY <2>6, <3>2 DEF Begin
    <3> HIDE DEF found
    <3>5. job \in JobInfo /\ job.pc = "plan"
      BY <3>2, <3>3 DEF JobInfo
    <3> QED
      BY <3>4, <3>5 DEF Gets, Holding, Building
  <2> QED
    BY <2>1, <2>2, <2>3, <2>4, <2>5, <2>6, ConfigAssumption DEF BeginOwn, BeginCross
<1> QED
  BY <1>1, <1>2, <1>3, <1>4, NotBuilding

\* What a step of a build starts from.
LEMMA AtBuild ==
  ASSUME IInv, NEW b \in Thread, jobs[b].pc \in Holding \cup {"try", "wait"},
         NEW c, c = jobs[b].channel
  PROVE  /\ c \in Channel /\ jobs[b] \in JobInfo /\ ThreadOK(b) /\ ChannelOK(c)
         /\ posted[c] \in 0..MaxPosted /\ horizon[c] \in 0..MaxPosted
         /\ mark[c] \in 0..MaxPosted /\ failures \in 0..MaxFailures
         /\ copies[c] \in [Ts -> Nat]
         /\ jobs[b].docs \subseteq Ts /\ jobs[b].newest \in 0..MaxPosted
         /\ MaxPosted \in Nat /\ MaxFailures \in Nat /\ Limit \in Nat \ {0}
         /\ c \notin exists => Indexed(c) = {}
BY BoundsAssumption DEF IInv, TypeOK, ThreadOK, Holding, Building, JobInfo

\* A thread that only goes on keeps its locals.
LEMMA OnlyGoesOn ==
  ASSUME IInv, NEW b \in Thread, NEW pc \in PC, jobs' = [jobs EXCEPT ![b].pc = pc]
  PROVE  /\ jobs' \in [Thread -> JobInfo]
         /\ jobs'[b].pc = pc
         /\ jobs'[b].channel = jobs[b].channel
         /\ jobs'[b].docs = jobs[b].docs
         /\ jobs'[b].newest = jobs[b].newest
         /\ \A d \in Thread : d # b => jobs'[d] = jobs[d]
<1>1. jobs \in [Thread -> JobInfo]
  BY DEF IInv, TypeOK
<1>2. PICK job : job = [jobs[b] EXCEPT !.pc = pc]
  OBVIOUS
<1>3. /\ job \in JobInfo /\ job.pc = pc /\ job.channel = jobs[b].channel
      /\ job.docs = jobs[b].docs /\ job.newest = jobs[b].newest
  BY <1>1, <1>2 DEF JobInfo
<1>4. jobs' = [jobs EXCEPT ![b] = job]
  BY <1>2
<1> QED
  BY <1>1, <1>3, <1>4

\* Taking the lock, freely or after a wait.
LEMMA LockInv ==
  ASSUME IInv, NEW b \in Thread,
         (TryLock(b) /\ lock[jobs[b].channel] = None) \/ WaitLock(b)
  PROVE  IInv'
<1>1. PICK c : c = jobs[b].channel
  OBVIOUS
<1>2. c \in Channel /\ jobs[b] \in JobInfo
  BY <1>1, AtBuild DEF TryLock, WaitLock
<1>3. PICK pc \in {"fetch", "pass"} : jobs' = [jobs EXCEPT ![b].pc = pc]
  BY DEF TryLock, WaitLock, Goto
<1>4. /\ lock[c] = None /\ lock' = [lock EXCEPT ![c] = b]
      /\ UNCHANGED <<slack, index, mark, failures, restarts>>
  BY <1>1, ThreadsAssumption DEF TryLock, WaitLock
<1>5. TypeOK'
  <2>1. jobs' \in [Thread -> JobInfo]
    BY <1>3, OnlyGoesOn DEF PC, Building
  <2>2. lock' \in [Channel -> Thread \cup {None}]
    BY <1>2, <1>4 DEF IInv, TypeOK
  <2> QED
    BY <1>4, <2>1, <2>2 DEF IInv, TypeOK, slack, index, Indexed
<1>6. ThreadOK(b)'
  <2>1. jobs'[b].pc = pc /\ jobs'[b].channel = c
    BY <1>1, <1>3, OnlyGoesOn DEF PC, Building
  <2>2. lock'[c] = b
    BY <1>2, <1>4 DEF IInv, TypeOK
  <2> QED
    BY <1>2, <2>1, <2>2 DEF ThreadOK, Holding, Building, Working
<1>7. ChannelOK(c)'
  BY <1>2, <1>4, <1>5, OtherChannels DEF IInv, TypeOK, slack, index
<1> QED
  <2>1. \A d \in Thread : d # b => jobs'[d] = jobs[d]
    BY <1>3, OnlyGoesOn DEF PC, Building
  <2>2. \A k \in Channel : k # c =>
           /\ lock'[k] = lock[k] /\ mark'[k] = mark[k] /\ copies'[k] = copies[k]
           /\ k \in exists => k \in exists'
    BY <1>4 DEF IInv, TypeOK, index
  <2>3. failures' >= failures
    BY <1>4 DEF IInv, TypeOK
  <2> QED
    BY <1>1, <1>2, <1>4, <1>5, <1>6, <1>7, <2>1, <2>2, <2>3, OneBuilds

\* What was fetched covers the page, with what the watermark speaks for.
LEMMA FetchInv ==
  ASSUME IInv, NEW b \in Thread, Fetch(b)
  PROVE  IInv'
<1>1. PICK c : c = jobs[b].channel
  OBVIOUS
<1>2. jobs[b].pc = "fetch" /\ jobs[b].pc \in Holding
  BY DEF Fetch, Holding, Building
<1>a. /\ c \in Channel /\ jobs[b] \in JobInfo /\ ThreadOK(b) /\ ChannelOK(c)
      /\ posted[c] \in 0..MaxPosted /\ horizon[c] \in 0..MaxPosted
      /\ mark[c] \in 0..MaxPosted /\ MaxPosted \in Nat /\ Limit \in Nat \ {0}
      /\ lock[c] = b
  BY <1>1, <1>2, AtBuild DEF ThreadOK
<1>3. /\ exists \subseteq exists' /\ exists' \subseteq Channel
      /\ UNCHANGED <<slack, copies, mark, lock, failures, restarts>>
  BY <1>1, <1>a DEF Fetch, IInv, TypeOK
<1>b. failures' >= failures
  BY <1>3 DEF IInv, TypeOK
<1>4. CASE jobs' = [jobs EXCEPT ![b].pc = "release"]
  <2>1. TypeOK'
    <3>1. jobs' \in [Thread -> JobInfo]
      BY <1>4, OnlyGoesOn DEF PC
    <3> QED
      BY <1>3, <3>1 DEF IInv, TypeOK, slack, Indexed
  <2>2. ThreadOK(b)'
    <3>1. jobs'[b].pc = "release" /\ jobs'[b].channel = c /\ lock'[c] = b
      BY <1>1, <1>a, <1>3, <1>4, OnlyGoesOn DEF PC
    <3> QED
      BY <1>a, <3>1 DEF ThreadOK, Working
  <2>3. ChannelOK(c)'
    BY <1>a, <1>3, <2>1, OtherChannels DEF IInv, TypeOK, slack
  <2> QED
    <3>1. \A d \in Thread : d # b => jobs'[d] = jobs[d]
      BY <1>4, OnlyGoesOn DEF PC
    <3> QED
      BY <1>1, <1>2, <1>a, <1>3, <1>b, <2>1, <2>2, <2>3, <3>1, OneBuilds
<1>5. CASE NewMessages(c) # {} /\ jobs' = [jobs EXCEPT
             ![b].pc = IF Incremental(c) THEN "create" ELSE "delete",
             ![b].docs = NewMessages(c) \ Noise, ![b].newest = posted[c]]
  <2>1. PICK pc : pc = IF Incremental(c) THEN "create" ELSE "delete"
    OBVIOUS
  <2>2. PICK docs : docs = NewMessages(c) \ Noise
    OBVIOUS
  <2>3. /\ docs \subseteq Ts
        /\ \A t \in docs : t <= posted[c] /\ (Incremental(c) => t > mark[c])
        /\ posted[c] # 0
    <3>1. \A t \in NewMessages(c) : t \in Ts /\ t <= posted[c] /\ (Incremental(c) => t > mark[c])
      BY DEF NewMessages, Page
    <3>2. posted[c] # 0
      BY <1>5, <1>a, <3>1 DEF Ts
    <3> QED
      BY <2>2, <3>1, <3>2
  <2>4. PICK job : job = [jobs[b] EXCEPT !.pc = pc, !.docs = docs, !.newest = posted[c]]
    OBVIOUS
  <2>5. /\ job \in JobInfo /\ job.pc = pc /\ job.channel = c /\ job.docs = docs
        /\ job.newest = posted[c]
    BY <1>1, <1>a, <2>1, <2>3, <2>4 DEF JobInfo, PC, Building
  <2>6. jobs' = [jobs EXCEPT ![b] = job] /\ jobs'[b] = job
    BY <1>5, <2>1, <2>2, <2>4 DEF IInv, TypeOK
  <2>7. TypeOK'
    BY <1>3, <2>5, <2>6 DEF IInv, TypeOK, slack, Indexed
  <2>8. PageIsCovered(job)'
    <3>1. ASSUME NEW t \in Ts \ Noise, t > posted[c] - Limit, t <= posted[c], t > horizon[c],
                 t \notin docs
          PROVE  mark[c] # 0 /\ t \in Indexed(c)
      <4>1. Incremental(c) /\ t <= mark[c]
        BY <1>a, <2>2, <3>1 DEF NewMessages, Page, Ts
      <4>2. mark[c] # 0 /\ t > mark[c] - Limit
        BY <1>a, <3>1, <4>1 DEF Incremental, ChannelOK, Ts
      <4> QED
        BY <1>a, <3>1, <4>1, <4>2 DEF ChannelOK
    <3>2. mark[c] <= posted[c]
      BY <1>a DEF ChannelOK
    <3>3. /\ posted' = posted /\ mark' = mark /\ horizon' = horizon
          /\ Indexed(c)' = Indexed(c)
      BY <1>3 DEF slack, Indexed
    <3> QED
      BY <1>a, <2>3, <2>5, <3>1, <3>2, <3>3 DEF PageIsCovered
  <2>9. ThreadOK(b)'
    <3>1. pc = "create" => mark[c] # 0 /\ \A t \in docs : copies[c][t] <= failures
      BY <1>a, <2>1, <2>3 DEF Incremental, ChannelOK
    <3>2. pc = "delete" => mark[c] = 0
      BY <1>a, <2>1 DEF Incremental, ChannelOK
    <3>3. pc \in {"create", "delete"}
      BY <2>1
    <3> QED
      BY <1>a, <1>3, <2>5, <2>6, <2>8, <3>1, <3>2, <3>3 DEF ThreadOK
  <2>10. ChannelOK(c)'
    BY <1>a, <1>3, <2>7, OtherChannels DEF IInv, TypeOK, slack
  <2> QED
    <3>1. \A d \in Thread : d # b => jobs'[d] = jobs[d]
      BY <2>6 DEF IInv, TypeOK
    <3> QED
      BY <1>1, <1>2, <1>a, <1>3, <1>b, <2>7, <2>9, <2>10, <3>1, OneBuilds
<1> QED
  BY <1>1, <1>4, <1>5 DEF Fetch, Goto

\* A rebuild starts from an empty collection.
LEMMA DeleteInv ==
  ASSUME IInv, NEW b \in Thread, Delete(b)
  PROVE  IInv'
<1>1. PICK c : c = jobs[b].channel
  OBVIOUS
<1>2. jobs[b].pc = "delete" /\ jobs[b].pc \in Holding
  BY DEF Delete, Holding, Building
<1>a. /\ c \in Channel /\ jobs[b] \in JobInfo /\ ThreadOK(b) /\ ChannelOK(c)
      /\ posted[c] \in 0..MaxPosted /\ horizon[c] \in 0..MaxPosted
      /\ mark[c] \in 0..MaxPosted /\ MaxPosted \in Nat /\ Limit \in Nat \ {0}
      /\ copies[c] \in [Ts -> Nat] /\ failures \in Nat /\ jobs[b].docs \subseteq Ts
      /\ jobs[b].newest \in 0..MaxPosted /\ lock[c] = b
  BY <1>1, <1>2, AtBuild DEF ThreadOK
<1>3. /\ exists' = exists \ {c} /\ copies' = [copies EXCEPT ![c] = NoCopies]
      /\ jobs' = [jobs EXCEPT ![b].pc = "create"]
      /\ UNCHANGED <<slack, mark, lock, failures, restarts>>
  BY <1>1 DEF Delete, Goto
<1>4. /\ jobs' \in [Thread -> JobInfo] /\ jobs'[b].pc = "create" /\ jobs'[b].channel = c
      /\ jobs'[b].docs = jobs[b].docs /\ jobs'[b].newest = jobs[b].newest
      /\ \A d \in Thread : d # b => jobs'[d] = jobs[d]
  BY <1>1, <1>3, OnlyGoesOn DEF PC, Building
<1>5. /\ copies' \in [Channel -> [Ts -> Nat]] /\ copies'[c] = NoCopies
      /\ \A k \in Channel : k # c => copies'[k] = copies[k]
  BY <1>a, <1>3 DEF IInv, TypeOK, NoCopies
<1>6. \A t \in Ts : copies'[c][t] = 0
  BY <1>5 DEF NoCopies
<1>7. TypeOK'
  <2>1. \A k \in Channel \ exists' : Indexed(k)' = {}
    BY <1>3, <1>5, <1>6 DEF IInv, TypeOK, Indexed
  <2> QED
    BY <1>3, <1>4, <1>5, <2>1 DEF IInv, TypeOK, slack
<1>8. mark[c] = 0 /\ PageIsCovered(jobs[b])
  BY <1>1, <1>2, <1>a DEF ThreadOK, Working
<1>9. ThreadOK(b)'
  <2>1. PICK job : job = jobs'[b]
    OBVIOUS
  <2>2. PageIsCovered(job)'
    BY <1>1, <1>3, <1>4, <1>8, <2>1 DEF PageIsCovered, slack
  <2>3. \A t \in jobs[b].docs : copies'[c][t] <= failures
    BY <1>a, <1>6
  <2> QED
    BY <1>a, <1>3, <1>4, <1>5, <1>8, <2>1, <2>2, <2>3 DEF ThreadOK
<1>10. ChannelOK(c)'
  BY <1>a, <1>3, <1>6, <1>8 DEF ChannelOK, slack
<1> QED
  BY <1>1, <1>2, <1>a, <1>3, <1>4, <1>5, <1>7, <1>9, <1>10, OneBuilds

\* Without documents, a build is over as soon as the collection is there.
LEMMA CreateInv ==
  ASSUME IInv, NEW b \in Thread, Create(b)
  PROVE  IInv'
<1>1. PICK c : c = jobs[b].channel
  OBVIOUS
<1>2. jobs[b].pc = "create" /\ jobs[b].pc \in Holding
  BY DEF Create, Holding, Building
<1>a. /\ c \in Channel /\ jobs[b] \in JobInfo /\ ThreadOK(b) /\ ChannelOK(c)
      /\ posted[c] \in 0..MaxPosted /\ horizon[c] \in 0..MaxPosted
      /\ mark[c] \in 0..MaxPosted /\ MaxPosted \in Nat /\ Limit \in Nat \ {0}
      /\ copies[c] \in [Ts -> Nat] /\ failures \in Nat /\ jobs[b].docs \subseteq Ts
      /\ jobs[b].newest \in 0..MaxPosted /\ lock[c] = b
  BY <1>1, <1>2, AtBuild DEF ThreadOK
<1>3. /\ exists' = exists \cup {c} /\ UNCHANGED <<slack, copies, lock, failures, restarts>>
  BY <1>1 DEF Create
<1>4. PICK pc \in {"upsert", "release"} :
        /\ jobs' = [jobs EXCEPT ![b].pc = pc]
        /\ pc = "upsert" => mark' = mark
        /\ pc = "release" => /\ jobs[b].docs = {}
                             /\ mark' = [mark EXCEPT ![c] = jobs[b].newest]
  BY <1>1 DEF Create, Goto
<1>5. /\ jobs' \in [Thread -> JobInfo] /\ jobs'[b].pc = pc /\ jobs'[b].channel = c
      /\ jobs'[b].docs = jobs[b].docs /\ jobs'[b].newest = jobs[b].newest
      /\ \A d \in Thread : d # b => jobs'[d] = jobs[d]
  BY <1>1, <1>4, OnlyGoesOn DEF PC, Building
<1>6. PageIsCovered(jobs[b])
  BY <1>1, <1>2, <1>a DEF ThreadOK, Working
<1>7. TypeOK'
  <2>1. mark' \in [Channel -> 0..MaxPosted]
    BY <1>a, <1>4 DEF IInv, TypeOK
  <2> QED
    BY <1>a, <1>3, <1>5, <2>1 DEF IInv, TypeOK, slack, Indexed
<1>8. CASE pc = "upsert"
  <2>1. ThreadOK(b)'
    <3>1. PICK job : job = jobs'[b]
      OBVIOUS
    <3>2. PageIsCovered(job)'
      BY <1>1, <1>3, <1>4, <1>5, <1>6, <1>8, <3>1 DEF PageIsCovered, slack, Indexed
    <3> QED
      BY <1>1, <1>2, <1>a, <1>3, <1>4, <1>5, <1>8, <3>1, <3>2 DEF ThreadOK
  <2>2. ChannelOK(c)'
    <3>1. /\ posted' = posted /\ horizon' = horizon /\ copies' = copies /\ mark' = mark
          /\ failures' = failures /\ c \in exists'
      BY <1>3, <1>4, <1>8 DEF slack
    <3> QED
      BY <1>a, <1>7, <3>1, OtherChannels
  <2> QED
    BY <1>1, <1>2, <1>a, <1>3, <1>4, <1>5, <1>7, <1>8, <2>1, <2>2, OneBuilds
<1>9. CASE pc = "release"
  <2>1. ThreadOK(b)'
    BY <1>a, <1>3, <1>5, <1>9 DEF ThreadOK, Working
  <2>2. mark'[c] = jobs[b].newest /\ \A k \in Channel : k # c => mark'[k] = mark[k]
    BY <1>a, <1>4, <1>9 DEF IInv, TypeOK
  <2>3. \A t \in Ts : t > jobs[b].newest => copies[c][t] <= failures
    <3>1. CASE mark[c] = 0
      BY <1>1, <1>2, <1>a, <3>1 DEF ThreadOK, NoCopies
    <3>2. CASE mark[c] # 0
      BY <1>1, <1>a, <1>6, <3>2 DEF ChannelOK, PageIsCovered, Ts
    <3> QED
      BY <3>1, <3>2
  <2>4. ChannelOK(c)'
    <3>1. jobs[b].newest <= posted[c] /\ jobs[b].docs = {}
      BY <1>1, <1>a, <1>4, <1>6, <1>9 DEF PageIsCovered
    <3>2. \A t \in Ts \ Noise : t > jobs[b].newest - Limit /\ t <= jobs[b].newest
            /\ t > horizon[c] => t \in Indexed(c)
      BY <1>1, <1>6, <3>1 DEF PageIsCovered
    <3>3. \A t \in Ts : copies[c][t] <= 1 + failures
      BY <1>a DEF ChannelOK
    <3>4. Indexed(c)' = Indexed(c) /\ horizon' = horizon /\ posted' = posted
      BY <1>3 DEF slack, Indexed
    <3>5. copies' = copies /\ failures' = failures /\ c \in exists'
      BY <1>3
    <3> QED
      BY <2>2, <2>3, <3>1, <3>2, <3>3, <3>4, <3>5 DEF ChannelOK
  <2> QED
    BY <1>1, <1>2, <1>a, <1>3, <1>5, <1>7, <2>1, <2>2, <2>4, OneBuilds
<1> QED
  BY <1>4, <1>8, <1>9

\* What Add does to a channel.
LEMMA AddOne ==
  ASSUME IInv, NEW c \in Channel, NEW docs \in SUBSET Ts, Add(c, docs)
  PROVE  /\ copies' \in [Channel -> [Ts -> Nat]]
         /\ \A t \in Ts : copies'[c][t] = IF t \in docs THEN copies[c][t] + 1 ELSE copies[c][t]
         /\ \A k \in Channel : k # c => copies'[k] = copies[k]
         /\ Indexed(c)' = Indexed(c) \cup docs
<1>1. copies \in [Channel -> [Ts -> Nat]]
  BY DEF IInv, TypeOK
<1>a. \A t \in Ts : (IF t \in docs THEN copies[c][t] + 1 ELSE copies[c][t]) \in Nat
  BY <1>1
<1>2. PICK more : more = [t \in Ts |-> IF t \in docs THEN copies[c][t] + 1 ELSE copies[c][t]]
  OBVIOUS
<1>b. more \in [Ts -> Nat]
  BY <1>a, <1>2
<1>3. copies' = [copies EXCEPT ![c] = more]
  BY <1>2 DEF Add
<1>4. copies'[c] = more
  BY <1>1, <1>3
<1>5. Indexed(c)' = Indexed(c) \cup docs
  BY <1>1, <1>2, <1>4 DEF Indexed
<1> QED
  BY <1>1, <1>2, <1>b, <1>3, <1>4, <1>5

\* An upsert stores the documents and moves the watermark in one step.
LEMMA UpsertInv ==
  ASSUME IInv, NEW b \in Thread, Upsert(b)
  PROVE  IInv'
<1>1. PICK c : c = jobs[b].channel
  OBVIOUS
<1>2. jobs[b].pc = "upsert" /\ jobs[b].pc \in Holding
  BY DEF Upsert, Holding, Building
<1>a. /\ c \in Channel /\ jobs[b] \in JobInfo /\ ThreadOK(b) /\ ChannelOK(c)
      /\ posted[c] \in 0..MaxPosted /\ horizon[c] \in 0..MaxPosted
      /\ mark[c] \in 0..MaxPosted /\ MaxPosted \in Nat /\ Limit \in Nat \ {0}
      /\ copies[c] \in [Ts -> Nat] /\ failures \in Nat /\ jobs[b].docs \subseteq Ts
      /\ jobs[b].newest \in 0..MaxPosted /\ lock[c] = b
  BY <1>1, <1>2, AtBuild DEF ThreadOK
<1>3. /\ Add(c, jobs[b].docs) /\ mark' = [mark EXCEPT ![c] = jobs[b].newest]
      /\ jobs' = [jobs EXCEPT ![b].pc = "release"]
      /\ UNCHANGED <<slack, exists, lock, failures, restarts>>
  BY <1>1 DEF Upsert, Goto
<1>4. /\ jobs' \in [Thread -> JobInfo] /\ jobs'[b].pc = "release" /\ jobs'[b].channel = c
      /\ \A d \in Thread : d # b => jobs'[d] = jobs[d]
  BY <1>1, <1>3, OnlyGoesOn DEF PC
<1>5. PageIsCovered(jobs[b]) /\ c \in exists
  BY <1>1, <1>2, <1>a DEF ThreadOK, Working
<1>6. PICK docs \in SUBSET Ts : docs = jobs[b].docs
  BY <1>a
<1>7. /\ copies' \in [Channel -> [Ts -> Nat]]
      /\ \A t \in Ts : copies'[c][t] = IF t \in docs THEN copies[c][t] + 1 ELSE copies[c][t]
      /\ \A k \in Channel : k # c => copies'[k] = copies[k]
      /\ Indexed(c)' = Indexed(c) \cup docs
  BY <1>a, <1>3, <1>6, AddOne
<1>8. /\ mark' \in [Channel -> 0..MaxPosted] /\ mark'[c] = jobs[b].newest
      /\ \A k \in Channel : k # c => mark'[k] = mark[k]
  BY <1>a, <1>3 DEF IInv, TypeOK
<1>9. TypeOK'
  <2>1. \A k \in Channel \ exists' : Indexed(k)' = {}
    BY <1>3, <1>5, <1>7 DEF IInv, TypeOK, Indexed
  <2> QED
    BY <1>3, <1>4, <1>7, <1>8, <2>1 DEF IInv, TypeOK, slack
<1>10. ThreadOK(b)'
  BY <1>a, <1>3, <1>4 DEF ThreadOK, Working
<1>11. ChannelOK(c)'
  <2>1. \A t \in Ts : copies[c][t] \in Nat /\ copies[c][t] <= 1 + failures
    BY <1>a DEF ChannelOK
  <2>2. \A t \in docs : copies[c][t] <= failures
    BY <1>1, <1>2, <1>a, <1>6 DEF ThreadOK
  <2>3. \A t \in Ts : copies'[c][t] <= 1 + failures
    BY <1>a, <1>7, <2>1, <2>2
  <2>4. \A t \in Ts : t > jobs[b].newest => copies'[c][t] <= failures
    <3>1. \A t \in Ts : t > jobs[b].newest => t \notin docs
      BY <1>1, <1>a, <1>5, <1>6 DEF PageIsCovered, Ts
    <3>2. CASE mark[c] = 0
      BY <1>1, <1>2, <1>a, <1>7, <3>1, <3>2 DEF ThreadOK, NoCopies
    <3>3. CASE mark[c] # 0
      <4>1. mark[c] <= jobs[b].newest
        BY <1>1, <1>5 DEF PageIsCovered
      <4>2. \A t \in Ts : t > mark[c] => copies[c][t] <= failures
        BY <1>a, <3>3 DEF ChannelOK
      <4>3. \A t \in Ts : t > jobs[b].newest => t > mark[c]
        BY <1>a, <4>1 DEF Ts
      <4> QED
        BY <1>7, <3>1, <4>2, <4>3
    <3> QED
      BY <3>2, <3>3
  <2>5. \A t \in Ts \ Noise : t > jobs[b].newest - Limit /\ t <= jobs[b].newest
          /\ t > horizon[c] => t \in Indexed(c)'
    BY <1>1, <1>5, <1>6, <1>7 DEF PageIsCovered
  <2>6. jobs[b].newest <= posted[c]
    BY <1>1, <1>a, <1>5 DEF PageIsCovered
  <2> QED
    BY <1>3, <1>5, <1>8, <2>3, <2>4, <2>5, <2>6 DEF ChannelOK, slack
<1> QED
  BY <1>1, <1>2, <1>a, <1>3, <1>4, <1>7, <1>8, <1>9, <1>10, <1>11, OneBuilds

\* A failed call may leave a second copy of a message, one for each failure.
LEMMA FailInv ==
  ASSUME IInv, NEW b \in Thread, NEW stored \in SUBSET Ts, Fail(b, stored)
  PROVE  IInv'
<1>1. PICK c : c = jobs[b].channel
  OBVIOUS
<1>2. jobs[b].pc \in Holding
  BY DEF Fail, Holding
<1>a. /\ c \in Channel /\ jobs[b] \in JobInfo /\ ThreadOK(b) /\ ChannelOK(c)
      /\ mark[c] \in 0..MaxPosted /\ copies[c] \in [Ts -> Nat]
      /\ failures \in 0..MaxFailures /\ MaxFailures \in Nat /\ lock[c] = b
      /\ c \notin exists => Indexed(c) = {}
  BY <1>1, <1>2, AtBuild DEF ThreadOK
<1>3. /\ Add(c, stored) /\ failures < MaxFailures /\ failures' = failures + 1
      /\ jobs' = [jobs EXCEPT ![b].pc = "release", ![b].failed = TRUE]
      /\ UNCHANGED <<slack, exists, mark, lock, restarts>>
  BY <1>1 DEF Fail
<1>4. /\ jobs' \in [Thread -> JobInfo] /\ jobs'[b].pc = "release" /\ jobs'[b].channel = c
      /\ \A d \in Thread : d # b => jobs'[d] = jobs[d]
  <2>1. jobs \in [Thread -> JobInfo]
    BY DEF IInv, TypeOK
  <2>2. PICK job : job = [jobs[b] EXCEPT !.pc = "release", !.failed = TRUE]
    OBVIOUS
  <2>3. job \in JobInfo /\ job.pc = "release" /\ job.channel = c
    BY <1>1, <1>a, <2>2 DEF JobInfo, PC
  <2>4. jobs' = [jobs EXCEPT ![b] = job]
    BY <1>3, <2>2
  <2> QED
    BY <2>1, <2>3, <2>4
<1>5. /\ copies' \in [Channel -> [Ts -> Nat]]
      /\ \A t \in Ts : copies'[c][t] = IF t \in stored THEN copies[c][t] + 1 ELSE copies[c][t]
      /\ \A k \in Channel : k # c => copies'[k] = copies[k]
      /\ Indexed(c)' = Indexed(c) \cup stored
  BY <1>a, <1>3, AddOne
<1>6. \A t \in stored : c \in exists /\ copies[c][t] <= failures
  <2>1. stored # {} => jobs[b].pc = "upsert" /\ stored \subseteq jobs[b].docs
    BY DEF Fail
  <2> QED
    BY <1>1, <1>a, <2>1 DEF ThreadOK
<1>7. TypeOK'
  <2>1. \A k \in Channel \ exists' : Indexed(k)' = {}
    BY <1>a, <1>3, <1>5, <1>6 DEF IInv, TypeOK, Indexed
  <2>2. failures' \in 0..MaxFailures
    BY <1>a, <1>3
  <2> QED
    BY <1>3, <1>4, <1>5, <2>1, <2>2 DEF IInv, TypeOK, slack
<1>8. ThreadOK(b)'
  BY <1>a, <1>3, <1>4 DEF ThreadOK, Working
<1>9. ChannelOK(c)'
  <2>1. \A t \in Ts : copies'[c][t] <= 1 + failures'
    BY <1>a, <1>3, <1>5, <1>6 DEF ChannelOK
  <2>2. mark[c] # 0 => \A t \in Ts : t > mark[c] => copies'[c][t] <= failures'
    BY <1>a, <1>3, <1>5, <1>6 DEF ChannelOK
  <2> QED
    BY <1>a, <1>3, <1>5, <2>1, <2>2 DEF ChannelOK, slack
<1> QED
  BY <1>1, <1>2, <1>a, <1>3, <1>4, <1>5, <1>7, <1>8, <1>9, OneBuilds

\* The end of a build gives the lock back.
LEMMA ReleaseInv ==
  ASSUME IInv, NEW b \in Thread, Release(b)
  PROVE  IInv'
<1>1. PICK c : c = jobs[b].channel
  OBVIOUS
<1>2. jobs[b].pc \in Holding
  BY DEF Release, Holding
<1>a. c \in Channel /\ jobs[b] \in JobInfo /\ lock[c] = b
  BY <1>1, <1>2, AtBuild DEF ThreadOK
<1>3. /\ lock' = [lock EXCEPT ![c] = None]
      /\ UNCHANGED <<slack, exists, copies, mark, failures, restarts>>
  BY <1>1 DEF Release, index
<1>4. PICK job \in JobInfo :
        /\ jobs' = [jobs EXCEPT ![b] = job]
        /\ job.pc \in {"sleep", "done", "plan"}
        /\ job.pc = "sleep" => job.channel \in Channel
  <2>1. CASE b \in Loop
    <3> DEFINE job == [Resting("sleep") EXCEPT !.channel = b[2]]
    <3>1. "sleep" \in PC /\ b[2] \in Channel
      BY <2>1, ConfigAssumption DEF PC, Loop
    <3>2. job \in JobInfo /\ job.pc = "sleep" /\ job.channel = b[2]
      BY <3>1, RestingJob
    <3>3. jobs' = [jobs EXCEPT ![b] = job]
      BY <2>1 DEF Release
    <3> HIDE DEF job
    <3> QED
      BY <3>1, <3>2, <3>3
  <2>2. CASE b \notin Loop /\ b \in Starter
    <3>1. Resting("done") \in JobInfo /\ Resting("done").pc = "done"
      BY RestingJob DEF PC
    <3>2. jobs' = [jobs EXCEPT ![b] = Resting("done")]
      BY <2>2 DEF Release
    <3> QED
      BY <3>1, <3>2
  <2>3. CASE b \notin Loop /\ b \notin Starter
    <3> DEFINE pc == IF jobs[b].failed THEN "done" ELSE "plan"
               job == [jobs[b] EXCEPT !.pc = pc, !.docs = {}, !.newest = 0]
    <3>1. pc \in {"done", "plan"}
      OBVIOUS
    <3>2. jobs' = [jobs EXCEPT ![b] = job]
      BY <2>3 DEF Release
    <3> HIDE DEF pc
    <3>3. job \in JobInfo /\ job.pc = pc
      <4>1. pc \in PC /\ {} \in SUBSET Ts /\ 0 \in 0..MaxPosted
        BY <3>1, BoundsAssumption DEF PC
      <4> QED
        BY <1>a, <4>1 DEF JobInfo
    <3> QED
      BY <3>1, <3>2, <3>3
  <2> QED
    BY <2>1, <2>2, <2>3
<1>5. /\ jobs' \in [Thread -> JobInfo] /\ jobs'[b] = job
      /\ \A d \in Thread : d # b => jobs'[d] = jobs[d]
  BY <1>4 DEF IInv, TypeOK
<1>6. TypeOK'
  <2>1. lock' \in [Channel -> Thread \cup {None}]
    BY <1>3 DEF IInv, TypeOK
  <2> QED
    BY <1>3, <1>5, <2>1 DEF IInv, TypeOK, slack, Indexed
<1>7. ThreadOK(b)'
  BY <1>4, <1>5 DEF ThreadOK, Holding, Building, Working
<1>8. failures' >= failures
  BY <1>3 DEF IInv, TypeOK
<1>9. ChannelOK(c)'
  BY <1>a, <1>3, <1>6, <1>8, OtherChannels DEF IInv, TypeOK, slack
<1>10. \A k \in Channel : k # c => lock'[k] = lock[k]
  BY <1>3 DEF IInv, TypeOK
<1> QED
  BY <1>1, <1>2, <1>a, <1>3, <1>5, <1>6, <1>7, <1>8, <1>9, <1>10, OneBuilds

\* Messages are posted and get old while others build.
LEMMA SlackInv ==
  ASSUME IInv, NEW c \in Channel, PostMessage(c) \/ Age(c)
  PROVE  IInv'
<1> USE BoundsAssumption
<1>1. UNCHANGED <<index, mark, lock, jobs, failures, restarts>>
  BY DEF PostMessage, Age
<1>2. /\ posted' \in [Channel -> 0..MaxPosted] /\ horizon' \in [Channel -> 0..MaxPosted]
      /\ \A k \in Channel : posted'[k] >= posted[k] /\ horizon'[k] >= horizon[k]
  <2>1. posted \in [Channel -> 0..MaxPosted] /\ horizon \in [Channel -> 0..MaxPosted]
    BY DEF IInv, TypeOK
  <2>2. CASE PostMessage(c)
    BY <2>1, <2>2 DEF PostMessage
  <2>3. CASE Age(c)
    BY <2>1, <2>3 DEF Age
  <2> QED
    BY <2>2, <2>3
<1>3. TypeOK'
  BY <1>1, <1>2 DEF IInv, TypeOK, index, Indexed
<1>4. failures' >= failures
  BY <1>1 DEF IInv, TypeOK
<1>5. \A d \in Thread : ThreadOK(d)'
  BY <1>1, <1>2, <1>3, <1>4, OtherThreads DEF index
<1>6. \A k \in Channel : ChannelOK(k)'
  BY <1>1, <1>2, <1>3, <1>4, OtherChannels DEF index
<1> QED
  BY <1>3, <1>5, <1>6 DEF IInv

\* Every step keeps the invariant.
LEMMA NextInv == IInv /\ [Next]_vars => IInv'
<1> SUFFICES ASSUME IInv, [Next]_vars PROVE IInv'
  OBVIOUS
<1>1. CASE World
  <2>1. CASE \E wiped \in BOOLEAN : Restart(wiped)
    <3>1. restarts' \in 0..MaxRestarts
      BY <2>1, BoundsAssumption DEF Restart, IInv, TypeOK
    <3> QED
      BY <2>1, <3>1, RebootInv DEF Restart
  <2> QED
    BY <1>1, <2>1, SlackInv, RequestInv DEF World
<1>2. ASSUME NEW b \in Thread, BuildStep(b) PROVE IInv'
  <2>1. ASSUME NEW wiped \in BOOLEAN, BootFails(b, wiped) PROVE IInv'
    <3>1. restarts' \in 0..MaxRestarts
      BY <2>1 DEF BootFails, IInv, TypeOK
    <3> QED
      BY <2>1, <3>1, RebootInv DEF BootFails
  <2> QED
    BY <1>2, <2>1, WaitingInv, LockInv, FetchInv, DeleteInv, CreateInv, UpsertInv, FailInv,
       ReleaseInv DEF BuildStep
<1>3. ASSUME NEW r \in Request, RequestStep(r) PROVE IInv'
  BY <1>3, RequestInv DEF RequestStep
<1>4. CASE UNCHANGED vars
  BY <1>4 DEF vars, IInv, TypeOK, ThreadOK, ChannelOK, PageIsCovered, Indexed
<1> QED
  BY <1>1, <1>2, <1>3, <1>4, LockInv DEF Next, Step

\* The index, its watermarks and the threads hold what the model says they hold, and
\* a channel without a collection holds no message.
THEOREM TypeCorrect == Spec => []TypeOK
<1>1. IInv => TypeOK
  BY DEF IInv
<1> QED
  BY <1>1, InitInv, NextInv, PTL DEF Spec

\* Skipping what is below the watermark loses nothing of the last page: the watermark
\* of a channel never claims a message that its collection does not hold.
THEOREM WatermarksAreTrue == Spec => []MarkIsCovered
<1>1. IInv => MarkIsCovered
  <2> SUFFICES ASSUME IInv, NEW c \in Channel, mark[c] # 0
               PROVE  /\ c \in exists
                      /\ \A t \in Ts \ Noise :
                           t \in (mark[c] - Limit + 1)..mark[c] /\ t > horizon[c]
                             => t \in Indexed(c)
    BY DEF MarkIsCovered
  <2>1. ChannelOK(c) /\ mark[c] \in 0..MaxPosted /\ Limit \in Nat /\ MaxPosted \in Nat
    BY BoundsAssumption DEF IInv, TypeOK
  <2> QED
    BY <2>1 DEF ChannelOK, Ts
<1> QED
  BY <1>1, InitInv, NextInv, PTL DEF Spec

\* A second copy of a message takes a failed upsert: a refresh, a rebuild or a restart
\* by itself stores nothing twice.
THEOREM NoSecondCopy == Spec => []StoredOnce
<1>1. IInv => StoredOnce
  BY DEF IInv, ChannelOK, StoredOnce
<1> QED
  BY <1>1, InitInv, NextInv, PTL DEF Spec

\* As long as a channel has a watermark, no reader sees a message disappear.
THEOREM NothingDisappears == Spec => OnlyGrows
<1> DEFINE A == \A c \in Channel :
                  mark[c] # 0 /\ mark'[c] # 0 => Indexed(c) \subseteq Indexed(c)'
<1>1. IInv /\ [Next]_vars => [A]_vars
  <2> SUFFICES ASSUME IInv, Next, NEW c \in Channel, mark[c] # 0, mark'[c] # 0
               PROVE  Indexed(c) \subseteq Indexed(c)'
    OBVIOUS
  <2>1. CASE copies' = copies
    BY <2>1 DEF Indexed
  <2>2. ASSUME NEW b \in Thread, Delete(b) PROVE Indexed(c) \subseteq Indexed(c)'
    <3>1. jobs[b].channel # c
      BY <2>2 DEF Delete, IInv, ThreadOK
    <3>2. copies'[c] = copies[c]
      BY <2>2, <3>1 DEF Delete, IInv, TypeOK
    <3> QED
      BY <3>2 DEF Indexed
  <2>3. ASSUME NEW b \in Thread, NEW stored \in SUBSET Ts, Upsert(b) \/ Fail(b, stored)
        PROVE  Indexed(c) \subseteq Indexed(c)'
    <3>1. jobs[b].channel \in Channel /\ jobs[b].docs \subseteq Ts
      BY <2>3, AtBuild DEF Upsert, Fail, Holding, Building
    <3>2. PICK docs \in SUBSET Ts : Add(jobs[b].channel, docs)
      BY <2>3, <3>1 DEF Upsert, Fail
    <3>3. CASE jobs[b].channel = c
      BY <3>2, <3>3, AddOne
    <3>4. CASE jobs[b].channel # c
      <4>1. copies'[c] = copies[c]
        BY <3>1, <3>2, <3>4, AddOne
      <4> QED
        BY <4>1 DEF Indexed
    <3> QED
      BY <3>3, <3>4
  <2>4. ASSUME NEW wiped \in BOOLEAN, Reboot(wiped) PROVE FALSE
    BY <2>4 DEF Reboot
  <2>5. \/ copies' = copies
        \/ \E b \in Thread : Delete(b) \/ Upsert(b) \/ \E stored \in SUBSET Ts : Fail(b, stored)
        \/ \E wiped \in BOOLEAN : Reboot(wiped)
    BY DEF Next, World, PostMessage, Age, Restart, BeginOwn, BeginCross, Begin, Step, BuildStep,
       CheckAtBoot, Tick, TryLock, Fetch, Create, Release, BootFails, RequestStep, BuildMissing,
       Look, Read, ReadFails, Answer, WaitLock, index
  <2> QED
    BY <2>1, <2>2, <2>3, <2>4, <2>5
<1> QED
  BY <1>1, InitInv, NextInv, PTL DEF Spec, OnlyGrows

===============================================================================
