------------------------ MODULE PromptScheduler_proofs ------------------------
(***************************************************************************)
(* Scheduled prompts, for any jobs, processes and callers, any clock, life *)
(* time and number of crashes and commands: every live job on disk is      *)
(* registered with the process that made it and, once the bot that found   *)
(* it serves, with the bot; a process runs a one-shot job once; no live    *)
(* job loses its files but to the command that clears them.                *)
(***************************************************************************)
EXTENDS PromptSchedulerProps, SequenceTheorems, TLAPS

Types ==
  /\ now \in 0..MaxNow
  /\ meta \in [JobId -> Meta \cup {None}]
  /\ disk \in [JobId -> Disk]
  /\ tool \in [JobId -> Tool]
  /\ held \subseteq JobId
  /\ proc \in [Process -> Proc]
  /\ found \subseteq JobId
  /\ due \in [Process -> [JobId -> Nat \cup {None}]]
  /\ queue \in [Process -> Seq(JobId)]
  /\ late \in [Process -> SUBSET JobId]
  /\ run \in [Process -> Run]
  /\ missed \in [Process -> SUBSET JobId]
  /\ began \in [Process -> SUBSET JobId]
  /\ crashes \in 0..MaxCrashes
  /\ calls \in 0..MaxCalls

\* A process has a job in flight once at most.
InFlightOnce(p) ==
  /\ \A i, k \in 1..Len(queue[p]) : queue[p][i] = queue[p][k] => i = k
  /\ \A i \in 1..Len(queue[p]) : queue[p][i] # run[p].job

\* An executor without a run has no job, and only the command to clear has
\* directories left to visit when all jobs are loaded.
Actor(p) ==
  /\ run[p].pc = "idle" <=> run[p].job = None
  /\ proc[p].pc = "work" /\ proc[p].mode # "clear" => proc[p].todo = {}
  /\ proc[p].pc = "serve" => proc[p].todo = {}
  /\ proc[p].pc = "load" /\ proc[p].mode = "clear" => p # Bot

\* The files of a job follow the call that writes them, and the call the process
\* that makes it.  What a starting bot finds was written before.
FilesFollowTool(j) ==
  /\ disk[j] \in {"torn", "ready"} => meta[j] \in Meta
  /\ tool[j] = "off" => disk[j] = "none"
  /\ tool[j] = "open" => disk[j] \in {"none", "prompt"}
  /\ tool[j] = "write" => disk[j] \in {"none", "torn"}
  /\ tool[j] \in {"open", "write", "register"} => j \in held
  /\ j \in held => proc[Caller[j]].pc = "serve"
  /\ j \in found => tool[j] \in {"register", "over"}

\* A job that can still run is registered where it was made once the call is over,
\* and with a bot that has found it once the reload has got to it.
RegisteredInTime(j) ==
  /\ j \in held /\ tool[j] = "over" /\ Registrable(j) => due[Caller[j]][j] # None
  /\ /\ proc[Bot].pc \in {"load", "serve"}
     /\ j \in found \ proc[Bot].todo
     /\ Registrable(j)
     => due[Bot][j] # None

\* What a scheduler knows is whole on disk, or gone by now.
Known(p, j) ==
  due[p][j] # None \/ InFlight(p, j) \/ j \in began[p]
    => /\ tool[j] \in {"register", "over"}
       /\ meta[j] \in Meta
       /\ disk[j] \in {"none", "ready"}

\* A one-shot job is due at its time, in flight after it, and then handed to the
\* copilot by the run that ends it: one after the other.
OneShot(p, j) ==
  meta[j] # None /\ meta[j].kind = "once" =>
    /\ due[p][j] # None => /\ due[p][j] = meta[j].runAt
                           /\ ~InFlight(p, j)
                           /\ j \notin began[p]
    /\ InFlight(p, j) \/ j \in began[p] => meta[j].runAt <= now
    /\ InFlight(p, j) /\ j \in began[p] => run[p].job = j /\ run[p].pc = "react"

IInv ==
  /\ Types
  /\ \A p \in Process : InFlightOnce(p) /\ Actor(p)
  /\ \A j \in JobId : FilesFollowTool(j) /\ RegisteredInTime(j)
  /\ \A p \in Process, j \in JobId : Known(p, j) /\ OneShot(p, j)

-------------------------------------------------------------------------------
LEMMA BotAndCallers == Bot \in Process /\ \A j \in JobId : Caller[j] \in Process
BY ProcessAssumption DEF Process

\* Initially there are no jobs.
LEMMA InitInv == Init => IInv
<1> SUFFICES ASSUME Init PROVE IInv
  OBVIOUS
<1> USE BoundsAssumption, NoneAssumption, BotAndCallers
<1>1. Types
  <2>1. /\ Down \in Proc /\ Idle \in Run
        /\ [Down EXCEPT !.pc = "serve", !.mode = "bot"] \in Proc
    BY DEF Down, Proc, Idle, Run
  <2>2. Unscheduled \in [JobId -> Nat \cup {None}]
    BY DEF Unscheduled
  <2> QED
    BY <2>1, <2>2 DEF Init, Types, Disk, Tool
<1>2. ASSUME NEW p \in Process PROVE InFlightOnce(p) /\ Actor(p)
  BY <1>2 DEF Init, InFlightOnce, Actor, Idle, Down
<1>3. ASSUME NEW j \in JobId PROVE FilesFollowTool(j) /\ RegisteredInTime(j)
  BY DEF Init, FilesFollowTool, RegisteredInTime, Registrable
<1>4. ASSUME NEW p \in Process, NEW j \in JobId PROVE Known(p, j) /\ OneShot(p, j)
  <2>1. due[p][j] = None /\ ~InFlight(p, j) /\ began[p] = {}
    BY DEF Init, InFlight, Idle, Unscheduled
  <2> QED
    BY <2>1 DEF Known, OneShot
<1> QED
  BY <1>1, <1>2, <1>3, <1>4 DEF IInv

\* A cron trigger has a next time, and so has a job that can be registered.
LEMMA RunTimes ==
  ASSUME Types
  PROVE  /\ NextTime \in Nat
         /\ \A j \in JobId : Registrable(j) /\ FilesFollowTool(j) => FirstRun(j) \in Nat
<1> USE BoundsAssumption
<1>1. now \in Nat /\ NextTime \in Nat
  BY DEF Types, NextTime
<1>2. ASSUME NEW j \in JobId, Registrable(j), FilesFollowTool(j) PROVE FirstRun(j) \in Nat
  <2>1. meta[j].runAt \in Nat
    BY <1>2 DEF Registrable, FilesFollowTool, Meta
  <2> QED
    BY <1>1, <2>1 DEF FirstRun
<1> QED
  BY <1>1, <1>2

\* Registering a job touches no other job and no other process, and not this one if
\* it cannot run.
LEMMA RegisteredOne ==
  ASSUME Types, NEW p \in Process, NEW i \in JobId, FilesFollowTool(i)
  PROVE  /\ Registered(p, i) \in [Process -> [JobId -> Nat \cup {None}]]
         /\ \A q \in Process, j \in JobId : Registered(p, i)[q][j] =
              IF q = p /\ j = i /\ Registrable(i) THEN FirstRun(i) ELSE due[q][j]
         /\ Registrable(i) => FirstRun(i) \in Nat
BY RunTimes DEF Registered, Types

\* A process changes by what it does and by no other.
LEMMA OneProcess ==
  ASSUME Types, NEW p \in Process, NEW new \in Proc, proc' = [proc EXCEPT ![p] = new]
  PROVE  /\ proc' \in [Process -> Proc]
         /\ proc'[p] = new
         /\ \A q \in Process \ {p} : proc'[q] = proc[q]
BY DEF Types

\* Only the write of its metadata makes a job one that can be registered.
LEMMA StaysRegistrable ==
  ASSUME Types, now' \in Nat, now <= now', NEW j \in JobId, meta'[j] = meta[j],
         disk'[j] = "ready" => disk[j] = "ready",
         FilesFollowTool(j)
  PROVE  Registrable(j)' => Registrable(j)
<1> SUFFICES ASSUME Registrable(j)' PROVE Registrable(j)
  OBVIOUS
<1>1. meta[j] \in Meta /\ disk[j] = "ready" /\ now \in Nat
  BY BoundsAssumption DEF Registrable, FilesFollowTool, Types
<1> QED
  BY <1>1 DEF Registrable, Expired, RunAtPassed, Meta

\* A run that is taken or dropped leaves the others in their order.
LEMMA QueueLosesHead ==
  ASSUME NEW q \in Seq(JobId), q # <<>>
  PROVE  /\ Tail(q) \in Seq(JobId)
         /\ Head(q) \in JobId
         /\ Head(q) = q[1]
         /\ Len(q) \in Nat \ {0}
         /\ Len(Tail(q)) = Len(q) - 1
         /\ \A i \in 1..Len(Tail(q)) : Tail(q)[i] = q[i + 1] /\ i + 1 \in 1..Len(q)
OBVIOUS

\* The end of a run, with its job removed or not.
LEMMA RunEnds ==
  ASSUME IInv, NEW p \in Process, run[p].pc # "idle", Return(p) \/ Remove(p),
         UNCHANGED <<now, meta, requests, processes, queue, late, missed, began>>
  PROVE  IInv'
<1> USE NoneAssumption, BotAndCallers
<1>0. /\ run[p].job \in JobId
      /\ Types
      /\ UNCHANGED <<now, meta, tool, held, proc, found, queue, late, missed, began,
                     crashes, calls>>
  BY DEF IInv, Types, Actor, Run, requests, processes
<1>1. run' = [run EXCEPT ![p] = Idle]
  BY DEF Return, Remove
<1>2. /\ disk' \in [JobId -> Disk]
      /\ \A j \in JobId : disk'[j] = disk[j] \/ disk'[j] = "none"
  BY <1>0 DEF Return, Remove, FilesWithout, Disk, Types
<1>3. /\ due' \in [Process -> [JobId -> Nat \cup {None}]]
      /\ \A q \in Process, j \in JobId :
           due'[q][j] = due[q][j] \/ (due'[q][j] = None /\ disk'[j] = "none")
  <2>1. CASE Return(p)
    BY <1>0, <2>1 DEF Return, Types
  <2>2. CASE Remove(p)
    <3>1. due' = [due EXCEPT ![p] = [due[p] EXCEPT ![run[p].job] = None]]
      BY <2>2 DEF Remove
    <3>2. \A j \in JobId : disk'[j] = IF j = run[p].job THEN "none" ELSE disk[j]
      BY <1>0, <2>2 DEF Remove, FilesWithout, Types
    <3> QED
      BY <1>0, <3>1, <3>2 DEF Types
  <2> QED
    BY <2>1, <2>2
<1>4. Types'
  BY <1>0, <1>1, <1>2, <1>3 DEF Types, Idle, Run
<1>5. \A q \in Process, j \in JobId :
        /\ InFlight(q, j)' => InFlight(q, j)
        /\ InFlight(p, j)' => j # run[p].job
  <2>1. \A i \in 1..Len(queue[p]) : queue[p][i] # run[p].job
    BY DEF IInv, InFlightOnce
  <2>2. run'[p].job = None /\ \A q \in Process \ {p} : run'[q] = run[q]
    BY <1>0, <1>1 DEF Types, Idle
  <2> QED
    BY <1>0, <2>1, <2>2 DEF InFlight
<1>6. ASSUME NEW q \in Process PROVE InFlightOnce(q)' /\ Actor(q)'
  <2>1. CASE q = p
    <3>1. run'[p] = Idle
      BY <1>0, <1>1 DEF Types
    <3>2. \A i \in 1..Len(queue[p]) : queue[p][i] # None
      BY <1>0 DEF Types
    <3> QED
      BY <1>0, <2>1, <3>1, <3>2 DEF IInv, InFlightOnce, Actor, Idle
  <2>2. CASE q # p
    <3>1. run'[q] = run[q]
      BY <1>0, <1>1, <2>2 DEF Types
    <3> QED
      BY <1>0, <3>1 DEF IInv, InFlightOnce, Actor
  <2> QED
    BY <2>1, <2>2
<1>7. ASSUME NEW j \in JobId PROVE FilesFollowTool(j)'
  BY <1>0, <1>2 DEF IInv, FilesFollowTool, Types
<1>8. ASSUME NEW j \in JobId PROVE RegisteredInTime(j)'
  <2>1. Registrable(j)' => Registrable(j) /\ disk'[j] = "ready"
    BY <1>0, <1>2 DEF Registrable, Expired, RunAtPassed, Disk
  <2>2. Registrable(j)' => due'[Bot][j] = due[Bot][j]
                           /\ due'[Caller[j]][j] = due[Caller[j]][j]
    BY <1>3, <2>1
  <2> QED
    BY <1>0, <2>1, <2>2 DEF IInv, RegisteredInTime
<1>9. ASSUME NEW q \in Process, NEW j \in JobId PROVE Known(q, j)' /\ OneShot(q, j)'
  <2>1. Known(q, j) /\ OneShot(q, j)
    BY DEF IInv
  <2>2. Known(q, j)'
    BY <1>0, <1>2, <1>3, <1>5, <2>1 DEF Known
  <2>3. OneShot(q, j)'
    <3>1. CASE q = p
      <4>1. meta[j] # None /\ meta[j].kind = "once" /\ InFlight(p, j)' => j \notin began[p]
        BY <1>5, <2>1, <3>1 DEF OneShot
      <4> QED
        BY <1>0, <1>3, <1>5, <2>1, <3>1, <4>1 DEF OneShot
    <3>2. CASE q # p
      <4>1. run'[q] = run[q]
        BY <1>0, <1>1, <3>2 DEF Types
      <4> QED
        BY <1>0, <1>3, <1>5, <2>1, <4>1 DEF OneShot
    <3> QED
      BY <3>1, <3>2
  <2> QED
    BY <2>2, <2>3
<1> QED
  BY <1>4, <1>6, <1>7, <1>8, <1>9 DEF IInv

\* A job that is registered, in its turn of a reload or by the tool, or removed.
LEMMA Registers ==
  ASSUME IInv, NEW p \in Process, NEW i \in JobId,
         due' = Registered(p, i),
         disk' = IF MustRemove(i) THEN FilesWithout(i) ELSE disk,
         UNCHANGED <<now, meta, executor>>,
         \A j \in JobId : tool[j] \in {"register", "over"} => tool'[j] \in {"register", "over"}
  PROVE  /\ disk' \in [JobId -> Disk]
         /\ due' \in [Process -> [JobId -> Nat \cup {None}]]
         /\ \A j \in JobId : disk'[j] = disk[j] \/ disk'[j] = "none"
         /\ \A j \in JobId : Registrable(j)' => Registrable(j)
         /\ \A q \in Process, j \in JobId : due[q][j] # None => due'[q][j] # None
         /\ Registrable(i) => due'[p][i] # None
         /\ \A q \in Process, j \in JobId : Known(q, j)' /\ OneShot(q, j)'
<1> USE NoneAssumption
<1>0. /\ Types /\ FilesFollowTool(i)
      /\ UNCHANGED <<now, meta, queue, late, run, missed, began>>
      /\ now \in Nat
  BY BoundsAssumption DEF IInv, Types, executor
<1>1. disk' \in [JobId -> Disk] /\ \A j \in JobId : disk'[j] = disk[j] \/ disk'[j] = "none"
  BY <1>0 DEF Types, FilesWithout, Disk
<1>2. /\ due' \in [Process -> [JobId -> Nat \cup {None}]]
      /\ Registrable(i) => FirstRun(i) \in Nat
      /\ \A q \in Process, j \in JobId :
           due'[q][j] = IF q = p /\ j = i /\ Registrable(i) THEN FirstRun(i) ELSE due[q][j]
  BY <1>0, RegisteredOne
<1>3. \A j \in JobId : Registrable(j)' => Registrable(j)
  BY <1>0, <1>1 DEF Registrable, Expired, RunAtPassed
<1>4. \A q \in Process, j \in JobId : InFlight(q, j)' <=> InFlight(q, j)
  BY <1>0 DEF InFlight
<1>5. ASSUME NEW q \in Process, NEW j \in JobId PROVE Known(q, j)' /\ OneShot(q, j)'
  <2>1. Known(q, j) /\ OneShot(q, j)
    BY DEF IInv
  <2>2. CASE q = p /\ j = i /\ Registrable(i)
    <3>1. tool[i] \in {"register", "over"} /\ meta[i] \in Meta /\ disk'[i] \in {"none", "ready"}
      BY <1>0, <1>1, <2>2 DEF Registrable, FilesFollowTool, Types, Tool
    <3>2. /\ due'[p][i] = FirstRun(i)
          /\ meta[i].kind = "once" => FirstRun(i) = meta[i].runAt /\ now < meta[i].runAt
      BY <1>0, <1>2, <2>2, <3>1 DEF Registrable, FirstRun, RunAtPassed, Meta
    <3>3. meta[i].kind = "once" => ~InFlight(p, i) /\ i \notin began[p]
      BY <1>0, <2>1, <2>2, <3>1, <3>2, MetaAssumption DEF OneShot, Meta
    <3> QED
      BY <1>0, <1>4, <2>1, <2>2, <3>1, <3>2, <3>3 DEF Known, OneShot
  <2>3. CASE ~(q = p /\ j = i /\ Registrable(i))
    <3>1. due'[q][j] = due[q][j]
      BY <1>2, <2>3
    <3> QED
      BY <1>0, <1>1, <1>4, <2>1, <3>1 DEF Known, OneShot
  <2> QED
    BY <2>2, <2>3
<1> QED
  BY <1>1, <1>2, <1>3, <1>5

\* Every step keeps the invariant.
LEMMA NextInv == IInv /\ [Next]_vars => IInv'
<1> SUFFICES ASSUME IInv, [Next]_vars PROVE IInv'
  OBVIOUS
<1> USE BoundsAssumption, NoneAssumption, BotAndCallers
<1> USE DEF IInv, files, requests, processes, executor
<1>1. CASE Tick
  <2>1. Types'
    BY <1>1 DEF Types, Tick
  <2>2. \A q \in Process, j \in JobId : InFlight(q, j)' => InFlight(q, j)
    BY <1>1 DEF Types, InFlight, Tick
  <2>3. ASSUME NEW q \in Process PROVE InFlightOnce(q)'
    BY <1>1 DEF Types, InFlightOnce, Tick
  <2>4. ASSUME NEW q \in Process PROVE Actor(q)'
    BY <1>1 DEF Types, Actor, Tick
  <2>5. ASSUME NEW j \in JobId PROVE FilesFollowTool(j)'
    BY <1>1 DEF Types, FilesFollowTool, Tick
  <2>6. ASSUME NEW j \in JobId PROVE RegisteredInTime(j)'
    BY <1>1, StaysRegistrable DEF Types, RegisteredInTime, Tick
  <2>7. ASSUME NEW q \in Process, NEW j \in JobId PROVE Known(q, j)'
    BY <1>1, <2>2 DEF Types, FilesFollowTool, Known, Tick
  <2>8. ASSUME NEW q \in Process, NEW j \in JobId PROVE OneShot(q, j)'
    BY <1>1, <2>2 DEF Types, OneShot, Tick, Meta
  <2> QED
    BY <2>1, <2>3, <2>4, <2>5, <2>6, <2>7, <2>8
<1>2. CASE Start
  <2>1. Types'
    BY <1>2 DEF Types, Start, Alive, Directories, Proc
  <2>2. \A q \in Process, j \in JobId : InFlight(q, j)' => InFlight(q, j)
    BY <1>2 DEF Types, InFlight, Start, Alive, Directories, Proc
  <2>3. ASSUME NEW q \in Process PROVE InFlightOnce(q)'
    BY <1>2 DEF Types, InFlightOnce, Start, Alive, Directories, Proc
  <2>4. ASSUME NEW q \in Process PROVE Actor(q)'
    BY <1>2 DEF Types, Actor, Start, Alive, Directories, Proc
  <2>5. ASSUME NEW j \in JobId PROVE FilesFollowTool(j)'
    <3>1. proc[Bot].pc = "down" /\ \A q \in Process \ {Bot} : proc'[q] = proc[q]
      BY <1>2 DEF Types, Start, Alive
    <3>2. disk[j] = "ready" => tool[j] \in {"register", "over"}
      BY DEF Types, FilesFollowTool, Tool
    <3> QED
      BY <1>2, <3>1, <3>2 DEF FilesFollowTool, Start
  <2>6. ASSUME NEW j \in JobId PROVE RegisteredInTime(j)'
    BY <1>2 DEF Types, FilesFollowTool, RegisteredInTime, Registrable, Expired,
       RunAtPassed, Start, Alive, Directories, Proc
  <2>7. ASSUME NEW q \in Process, NEW j \in JobId PROVE Known(q, j)'
    BY <1>2, <2>2 DEF Types, FilesFollowTool, Known, Start, Alive, Directories, Proc
  <2>8. ASSUME NEW q \in Process, NEW j \in JobId PROVE OneShot(q, j)'
    BY <1>2, <2>2 DEF Types, FilesFollowTool, Known, OneShot, Start, Alive,
       Directories, Proc
  <2> QED
    BY <2>1, <2>3, <2>4, <2>5, <2>6, <2>7, <2>8
<1>3. ASSUME NEW p \in Process, Crash(p) PROVE IInv'
  <2>1. Types'
    BY <1>3 DEF Types, Crash, Stop, Idle, Down, Unscheduled, Tool, Proc, Run
  <2>2. \A q \in Process, j \in JobId : InFlight(q, j)' <=> q # p /\ InFlight(q, j)
    BY <1>3 DEF Types, InFlight, Crash, Stop, Idle, Down, Unscheduled, Tool, Proc,
       Run
  <2>3. ASSUME NEW q \in Process PROVE InFlightOnce(q)'
    <3>1. /\ q = p => queue'[q] = <<>>
          /\ q # p => queue'[q] = queue[q] /\ run'[q] = run[q]
      BY <1>3 DEF Types, Crash
    <3> QED
      BY <3>1 DEF InFlightOnce
  <2>4. ASSUME NEW q \in Process PROVE Actor(q)'
    BY <1>3 DEF Types, Actor, Crash, Stop, Idle, Down, Unscheduled, Tool, Proc, Run
  <2>5. ASSUME NEW j \in JobId PROVE FilesFollowTool(j)'
    BY <1>3 DEF Types, FilesFollowTool, Crash, Stop, Idle, Down, Unscheduled, Tool,
       Proc, Run
  <2>6. ASSUME NEW j \in JobId PROVE RegisteredInTime(j)'
    BY <1>3 DEF Types, FilesFollowTool, RegisteredInTime, Registrable, Expired,
       RunAtPassed, Crash, Stop, Idle, Down, Unscheduled, Tool, Proc, Run
  <2>7. ASSUME NEW q \in Process, NEW j \in JobId PROVE Known(q, j)'
    BY <1>3, <2>2 DEF Types, FilesFollowTool, Known, Crash, Stop, Idle, Down,
       Unscheduled, Tool, Proc, Run
  <2>8. ASSUME NEW q \in Process, NEW j \in JobId PROVE OneShot(q, j)'
    <3>1. /\ q = p => due'[q][j] = None
          /\ q # p => due'[q] = due[q] /\ run'[q] = run[q]
          /\ UNCHANGED <<now, meta, began>>
      BY <1>3 DEF Types, Crash, Stop, Unscheduled
    <3> QED
      BY <2>2, <3>1 DEF OneShot
  <2> QED
    BY <2>1, <2>3, <2>4, <2>5, <2>6, <2>7, <2>8
<1>4. ASSUME NEW p \in Process, StartWatchers(p) PROVE IInv'
  <2>1. Types'
    BY <1>4 DEF Types, StartWatchers, Alive, Proc
  <2>2. \A q \in Process, j \in JobId : InFlight(q, j)' => InFlight(q, j)
    BY <1>4 DEF Types, InFlight, StartWatchers, Alive, Proc
  <2>3. ASSUME NEW q \in Process PROVE InFlightOnce(q)'
    BY <1>4 DEF Types, InFlightOnce, StartWatchers, Alive, Proc
  <2>4. ASSUME NEW q \in Process PROVE Actor(q)'
    BY <1>4 DEF Types, Actor, StartWatchers, Alive, Proc
  <2>5. ASSUME NEW j \in JobId PROVE FilesFollowTool(j)'
    BY <1>4 DEF Types, FilesFollowTool, StartWatchers, Alive, Proc
  <2>6. ASSUME NEW j \in JobId PROVE RegisteredInTime(j)'
    <3>1. p # Bot
      BY <1>4, ProcessAssumption DEF StartWatchers
    <3> QED
      BY <1>4, <3>1 DEF Types, RegisteredInTime, StartWatchers, Registrable, Expired, RunAtPassed
  <2>7. ASSUME NEW q \in Process, NEW j \in JobId PROVE Known(q, j)'
    BY <1>4, <2>2 DEF Types, FilesFollowTool, Known, StartWatchers, Alive, Proc
  <2>8. ASSUME NEW q \in Process, NEW j \in JobId PROVE OneShot(q, j)'
    BY <1>4, <2>2 DEF Types, FilesFollowTool, Known, OneShot, StartWatchers, Alive,
       Proc
  <2> QED
    BY <2>1, <2>3, <2>4, <2>5, <2>6, <2>7, <2>8
<1>5. ASSUME NEW p \in Process, NEW mode \in {"list", "clear"}, StartCommand(p, mode) PROVE IInv'
  <2>1. Types'
    BY <1>5 DEF Types, StartCommand, Alive, Directories, Proc
  <2>2. \A q \in Process, j \in JobId : InFlight(q, j)' => InFlight(q, j)
    BY <1>5 DEF Types, InFlight, StartCommand, Alive, Directories, Proc
  <2>3. ASSUME NEW q \in Process PROVE InFlightOnce(q)'
    BY <1>5 DEF Types, InFlightOnce, StartCommand, Alive, Directories, Proc
  <2>4. ASSUME NEW q \in Process PROVE Actor(q)'
    <3>1. p # Bot
      BY <1>5, ProcessAssumption DEF StartCommand
    <3> QED
      BY <1>5, <3>1 DEF Types, Actor, StartCommand
  <2>5. ASSUME NEW j \in JobId PROVE FilesFollowTool(j)'
    BY <1>5 DEF Types, FilesFollowTool, StartCommand, Alive, Directories, Proc
  <2>6. ASSUME NEW j \in JobId PROVE RegisteredInTime(j)'
    BY <1>5 DEF Types, FilesFollowTool, RegisteredInTime, Registrable, Expired,
       RunAtPassed, StartCommand, Alive, Directories, Proc
  <2>7. ASSUME NEW q \in Process, NEW j \in JobId PROVE Known(q, j)'
    BY <1>5, <2>2 DEF Types, FilesFollowTool, Known, StartCommand, Alive,
       Directories, Proc
  <2>8. ASSUME NEW q \in Process, NEW j \in JobId PROVE OneShot(q, j)'
    BY <1>5, <2>2 DEF Types, FilesFollowTool, Known, OneShot, StartCommand, Alive,
       Directories, Proc
  <2> QED
    BY <2>1, <2>3, <2>4, <2>5, <2>6, <2>7, <2>8
<1>6. ASSUME NEW p \in Process, Loaded(p) PROVE IInv'
  <2>1. Types'
    <3> DEFINE new == [proc[p] EXCEPT !.pc = IF p = Bot THEN "serve" ELSE "work",
                                      !.todo = IF proc[p].mode = "clear" THEN Directories
                                                                         ELSE {}]
    <3>1. new \in Proc
      <4>1. proc[p] \in Proc /\ Directories \in SUBSET JobId
        BY DEF Types, Directories
      <4> QED
        BY <4>1 DEF Proc
    <3>2. proc' = [proc EXCEPT ![p] = new]
      BY <1>6 DEF Loaded
    <3> HIDE DEF new
    <3> QED
      BY <1>6, <3>1, <3>2, OneProcess DEF Types, Loaded
  <2>2. \A q \in Process, j \in JobId : InFlight(q, j)' => InFlight(q, j)
    BY <1>6 DEF Types, InFlight, Loaded, Directories, Proc
  <2>3. ASSUME NEW q \in Process PROVE InFlightOnce(q)'
    BY <1>6 DEF Types, InFlightOnce, Loaded, Directories, Proc
  <2>4. ASSUME NEW q \in Process PROVE Actor(q)'
    BY <1>6 DEF Types, Actor, Loaded, Directories, Proc
  <2>5. ASSUME NEW j \in JobId PROVE FilesFollowTool(j)'
    BY <1>6 DEF Types, FilesFollowTool, Loaded, Directories, Proc
  <2>6. ASSUME NEW j \in JobId PROVE RegisteredInTime(j)'
    <3>1. /\ proc'[Bot].pc \in {"load", "serve"} => proc[Bot].pc \in {"load", "serve"}
          /\ proc'[Bot].todo = proc[Bot].todo \/ proc[Bot].todo = {}
      BY <1>6 DEF Types, Loaded, Proc
    <3>2. UNCHANGED <<now, meta, disk, tool, held, found, due>>
      BY <1>6 DEF Loaded
    <3> QED
      BY <3>1, <3>2 DEF RegisteredInTime, Registrable, Expired, RunAtPassed
  <2>7. ASSUME NEW q \in Process, NEW j \in JobId PROVE Known(q, j)'
    BY <1>6, <2>2 DEF Types, FilesFollowTool, Known, Loaded, Directories, Proc
  <2>8. ASSUME NEW q \in Process, NEW j \in JobId PROVE OneShot(q, j)'
    BY <1>6, <2>2 DEF Types, FilesFollowTool, Known, OneShot, Loaded, Directories,
       Proc
  <2> QED
    BY <2>1, <2>3, <2>4, <2>5, <2>6, <2>7, <2>8
<1>7. ASSUME NEW p \in Process, NEW i \in JobId, Reload(p, i) PROVE IInv'
  <2> DEFINE new == [proc[p] EXCEPT !.todo = proc[p].todo \ {i}]
  <2>0. /\ due' = Registered(p, i)
        /\ disk' = IF MustRemove(i) THEN FilesWithout(i) ELSE disk
        /\ UNCHANGED <<now, meta, tool, held, found, queue, late, run, missed, began,
                       crashes, calls>>
        /\ proc' = [proc EXCEPT ![p] = new]
        /\ new \in Proc /\ new.pc = proc[p].pc /\ new.mode = proc[p].mode
        /\ proc[p].pc = "load" /\ new.todo = proc[p].todo \ {i}
    <3>1. proc[p] \in Proc /\ proc[p].todo \ {i} \in SUBSET JobId
      BY DEF Types, Proc
    <3> QED
      BY <1>7, <3>1 DEF Reload, Proc
  <2> HIDE DEF new
  <2>a. /\ disk' \in [JobId -> Disk]
        /\ due' \in [Process -> [JobId -> Nat \cup {None}]]
        /\ \A j \in JobId : disk'[j] = disk[j] \/ disk'[j] = "none"
        /\ \A j \in JobId : Registrable(j)' => Registrable(j)
        /\ \A q \in Process, j \in JobId : due[q][j] # None => due'[q][j] # None
        /\ Registrable(i) => due'[p][i] # None
        /\ \A q \in Process, j \in JobId : Known(q, j)' /\ OneShot(q, j)'
    BY <2>0, Registers
  <2>1. Types'
    BY <2>0, <2>a, OneProcess DEF Types
  <2>2. /\ proc'[p] = new
        /\ \A q \in Process \ {p} : proc'[q] = proc[q]
    BY <2>0, OneProcess
  <2>3. ASSUME NEW q \in Process PROVE InFlightOnce(q)' /\ Actor(q)'
    BY <2>0, <2>2 DEF InFlightOnce, Actor
  <2>4. ASSUME NEW j \in JobId PROVE FilesFollowTool(j)'
    BY <2>0, <2>a, <2>2 DEF FilesFollowTool, Types
  <2>5. ASSUME NEW j \in JobId PROVE RegisteredInTime(j)'
    BY <2>0, <2>a, <2>2 DEF RegisteredInTime
  <2> QED
    BY <2>1, <2>3, <2>4, <2>5, <2>a
<1>8. ASSUME NEW p \in Process, NEW i \in JobId, ReloadFails(p, i) PROVE IInv'
  <2>1. Types'
    BY <1>8 DEF Types, ReloadFails, Stop, Down, Unscheduled, Proc
  <2>2. \A q \in Process, j \in JobId : InFlight(q, j)' => InFlight(q, j)
    BY <1>8 DEF Types, InFlight, ReloadFails, Stop, Down, Unscheduled, Proc
  <2>3. ASSUME NEW q \in Process PROVE InFlightOnce(q)'
    BY <1>8 DEF Types, InFlightOnce, ReloadFails, Stop, Down, Unscheduled, Proc
  <2>4. ASSUME NEW q \in Process PROVE Actor(q)'
    BY <1>8 DEF Types, Actor, ReloadFails, Stop, Down, Unscheduled, Proc
  <2>5. ASSUME NEW j \in JobId PROVE FilesFollowTool(j)'
    BY <1>8 DEF Types, FilesFollowTool, ReloadFails, Stop, Down, Unscheduled, Proc
  <2>6. ASSUME NEW j \in JobId PROVE RegisteredInTime(j)'
    BY <1>8 DEF Types, FilesFollowTool, RegisteredInTime, Registrable, Expired,
       RunAtPassed, ReloadFails, Stop, Down, Unscheduled, Proc
  <2>7. ASSUME NEW q \in Process, NEW j \in JobId PROVE Known(q, j)'
    BY <1>8, <2>2 DEF Types, FilesFollowTool, Known, ReloadFails, Stop, Down,
       Unscheduled, Proc
  <2>8. ASSUME NEW q \in Process, NEW j \in JobId PROVE OneShot(q, j)'
    BY <1>8, <2>2 DEF Types, FilesFollowTool, Known, OneShot, ReloadFails, Stop,
       Down, Unscheduled, Proc
  <2> QED
    BY <2>1, <2>3, <2>4, <2>5, <2>6, <2>7, <2>8
<1>9. ASSUME NEW p \in Process, End(p) PROVE IInv'
  <2>1. Types'
    BY <1>9 DEF Types, End, Stop, Down, Unscheduled, Calling, Proc
  <2>2. \A q \in Process, j \in JobId : InFlight(q, j)' => InFlight(q, j)
    BY <1>9 DEF Types, InFlight, End, Stop, Down, Unscheduled, Calling, Proc
  <2>3. ASSUME NEW q \in Process PROVE InFlightOnce(q)'
    BY <1>9 DEF Types, InFlightOnce, End, Stop, Down, Unscheduled, Calling, Proc
  <2>4. ASSUME NEW q \in Process PROVE Actor(q)'
    BY <1>9 DEF Types, Actor, End, Stop, Down, Unscheduled, Calling, Proc
  <2>5. ASSUME NEW j \in JobId PROVE FilesFollowTool(j)'
    BY <1>9 DEF Types, FilesFollowTool, End, Stop, Down, Unscheduled, Calling, Proc
  <2>6. ASSUME NEW j \in JobId PROVE RegisteredInTime(j)'
    BY <1>9 DEF Types, FilesFollowTool, RegisteredInTime, Registrable, Expired,
       RunAtPassed, End, Stop, Down, Unscheduled, Calling, Proc
  <2>7. ASSUME NEW q \in Process, NEW j \in JobId PROVE Known(q, j)'
    BY <1>9, <2>2 DEF Types, FilesFollowTool, Known, End, Stop, Down, Unscheduled,
       Calling, Proc
  <2>8. ASSUME NEW q \in Process, NEW j \in JobId PROVE OneShot(q, j)'
    BY <1>9, <2>2 DEF Types, FilesFollowTool, Known, OneShot, End, Stop, Down,
       Unscheduled, Calling, Proc
  <2> QED
    BY <2>1, <2>3, <2>4, <2>5, <2>6, <2>7, <2>8
<1>10. ASSUME NEW p \in Process, Take(p) PROVE IInv'
  <2>1. Types'
    BY <1>10 DEF Types, Take, Idle, Run
  <2>2. \A q \in Process, j \in JobId : InFlight(q, j)' => InFlight(q, j)
    BY <1>10 DEF Types, InFlight, Take, Idle, Run
  <2>3. ASSUME NEW q \in Process PROVE InFlightOnce(q)'
    <3>1. CASE q = p
      <4>1. queue[p] \in Seq(JobId) /\ queue[p] # <<>> /\ queue'[p] = Tail(queue[p])
            /\ run'[p].job = Head(queue[p])
        BY <1>10 DEF Types, Take
      <4>2. /\ Len(queue[p]) \in Nat \ {0} /\ 1 \in 1..Len(queue[p])
            /\ Head(queue[p]) = queue[p][1]
            /\ \A k \in 1..Len(queue'[p]) :
                 queue'[p][k] = queue[p][k + 1] /\ k + 1 \in 1..Len(queue[p]) /\ k + 1 # 1
        BY <4>1, QueueLosesHead
      <4>3. \A k, l \in 1..Len(queue[p]) : queue[p][k] = queue[p][l] => k = l
        BY DEF InFlightOnce
      <4>4. Len(queue'[p]) \in Nat
        BY <4>1, <4>2, QueueLosesHead
      <4>5. \A k, l \in 1..Len(queue'[p]) : queue'[p][k] = queue'[p][l] => k = l
        BY <4>2, <4>3, <4>4
      <4>6. \A k \in 1..Len(queue'[p]) : queue'[p][k] # queue[p][1]
        BY <4>2, <4>3, <4>4
      <4> QED
        BY <3>1, <4>1, <4>2, <4>5, <4>6 DEF InFlightOnce
    <3>2. CASE q # p
      BY <1>10, <3>2 DEF Types, InFlightOnce, Take
    <3> QED
      BY <3>1, <3>2
  <2>4. ASSUME NEW q \in Process PROVE Actor(q)'
    BY <1>10 DEF Types, Actor, Take, Idle, Run
  <2>5. ASSUME NEW j \in JobId PROVE FilesFollowTool(j)'
    BY <1>10 DEF Types, FilesFollowTool, Take, Idle, Run
  <2>6. ASSUME NEW j \in JobId PROVE RegisteredInTime(j)'
    BY <1>10 DEF Types, FilesFollowTool, RegisteredInTime, Registrable, Expired,
       RunAtPassed, Take, Idle, Run
  <2>7. ASSUME NEW q \in Process, NEW j \in JobId PROVE Known(q, j)'
    BY <1>10, <2>2 DEF Types, FilesFollowTool, Known, Take, Idle, Run
  <2>8. ASSUME NEW q \in Process, NEW j \in JobId PROVE OneShot(q, j)'
    BY <1>10, <2>2 DEF Types, FilesFollowTool, Known, OneShot, Take, Idle, Run
  <2> QED
    BY <2>1, <2>3, <2>4, <2>5, <2>6, <2>7, <2>8
<1>11. ASSUME NEW p \in Process, Misfire(p) PROVE IInv'
  <2>1. Types'
    BY <1>11 DEF Types, Misfire, Idle, Run
  <2>2. \A q \in Process, j \in JobId : InFlight(q, j)' => InFlight(q, j)
    BY <1>11 DEF Types, InFlight, Misfire, Idle, Run
  <2>3. ASSUME NEW q \in Process PROVE InFlightOnce(q)'
    BY <1>11 DEF Types, InFlightOnce, Misfire, Idle, Run
  <2>4. ASSUME NEW q \in Process PROVE Actor(q)'
    BY <1>11 DEF Types, Actor, Misfire, Idle, Run
  <2>5. ASSUME NEW j \in JobId PROVE FilesFollowTool(j)'
    BY <1>11 DEF Types, FilesFollowTool, Misfire, Idle, Run
  <2>6. ASSUME NEW j \in JobId PROVE RegisteredInTime(j)'
    BY <1>11 DEF Types, FilesFollowTool, RegisteredInTime, Registrable, Expired,
       RunAtPassed, Misfire, Idle, Run
  <2>7. ASSUME NEW q \in Process, NEW j \in JobId PROVE Known(q, j)'
    BY <1>11, <2>2 DEF Types, FilesFollowTool, Known, Misfire, Idle, Run
  <2>8. ASSUME NEW q \in Process, NEW j \in JobId PROVE OneShot(q, j)'
    BY <1>11, <2>2 DEF Types, FilesFollowTool, Known, OneShot, Misfire, Idle, Run
  <2> QED
    BY <2>1, <2>3, <2>4, <2>5, <2>6, <2>7, <2>8
<1>12. ASSUME NEW p \in Process, ReadMetadata(p) PROVE IInv'
  <2>a. CASE began' = began /\ (Return(p) \/ Remove(p))
    BY <1>12, <2>a, RunEnds DEF ReadMetadata
  <2>b. CASE GoOn(p, "prompt")
    <3>0. /\ run[p].job \in JobId /\ run[p].pc = "meta"
          /\ run'[p].job = run[p].job /\ run'[p].pc = "prompt"
          /\ \A q \in Process \ {p} : run'[q] = run[q]
          /\ run' \in [Process -> Run]
      <4>1. /\ run[p] \in Run /\ run[p].pc = "meta"
            /\ run' = [run EXCEPT ![p] = [run[p] EXCEPT !.pc = "prompt"]]
        BY <1>12, <2>b DEF Types, ReadMetadata, GoOn
      <4>2. run[p].job \in JobId
        BY <4>1 DEF Actor, Run
      <4>3. [run[p] EXCEPT !.pc = "prompt"] \in Run
        BY <4>1 DEF Run
      <4> QED
        BY <4>1, <4>2, <4>3 DEF Types, Run
    <3>a. UNCHANGED <<now, meta, disk, tool, held, proc, found, due, queue, late, missed,
                       crashes, calls>>
      BY <1>12, <2>b DEF ReadMetadata, GoOn
    <3>1. Types'
      BY <1>12, <3>0, <3>a DEF Types, ReadMetadata
    <3>2. \A q \in Process, j \in JobId : InFlight(q, j)' <=> InFlight(q, j)
      BY <3>0, <3>a DEF InFlight
    <3>3. ASSUME NEW q \in Process PROVE InFlightOnce(q)' /\ Actor(q)'
      BY <3>0, <3>a DEF InFlightOnce, Actor
    <3>4. ASSUME NEW j \in JobId PROVE FilesFollowTool(j)' /\ RegisteredInTime(j)'
      BY <3>a DEF FilesFollowTool, RegisteredInTime, Registrable, Expired, RunAtPassed
    <3>5. ASSUME NEW q \in Process, NEW j \in JobId PROVE Known(q, j)' /\ OneShot(q, j)'
      <4>1. began' = began
        BY <1>12 DEF ReadMetadata
      <4>2. q = p => ~(InFlight(p, j) /\ j \in began[p] /\ meta[j] # None
                         /\ meta[j].kind = "once")
        BY <3>0 DEF OneShot
      <4> QED
        BY <3>0, <3>a, <3>2, <4>1, <4>2 DEF Known, OneShot
    <3> QED
      BY <3>1, <3>3, <3>4, <3>5
  <2> QED
    BY <1>12, <2>a, <2>b DEF ReadMetadata
<1>13. ASSUME NEW p \in Process, ReadPrompt(p) PROVE IInv'
  <2>a. CASE began' = began /\ (Return(p) \/ Remove(p))
    BY <1>13, <2>a, RunEnds DEF ReadPrompt
  <2>b. CASE GoOn(p, "react")
    <3>0. /\ run[p].job \in JobId /\ run[p].pc = "prompt"
          /\ run'[p].job = run[p].job /\ run'[p].pc = "react"
          /\ \A q \in Process \ {p} : run'[q] = run[q]
          /\ run' \in [Process -> Run]
      <4>1. /\ run[p] \in Run /\ run[p].pc = "prompt"
            /\ run' = [run EXCEPT ![p] = [run[p] EXCEPT !.pc = "react"]]
        BY <1>13, <2>b DEF Types, ReadPrompt, GoOn
      <4>2. run[p].job \in JobId
        BY <4>1 DEF Actor, Run
      <4>3. [run[p] EXCEPT !.pc = "react"] \in Run
        BY <4>1 DEF Run
      <4> QED
        BY <4>1, <4>2, <4>3 DEF Types, Run
    <3>a. UNCHANGED <<now, meta, disk, tool, held, proc, found, due, queue, late, missed,
                       crashes, calls>>
      BY <1>13, <2>b DEF ReadPrompt, GoOn
    <3>b. began' = began \/ began' = [began EXCEPT ![p] = began[p] \cup {run[p].job}]
      BY <1>13 DEF ReadPrompt
    <3>c. began' \in [Process -> SUBSET JobId]
      <4>1. began[p] \cup {run[p].job} \in SUBSET JobId
        BY <3>0 DEF Types
      <4> QED
        BY <3>b, <4>1 DEF Types
    <3>1. Types'
      BY <3>0, <3>a, <3>c DEF Types
    <3>2. \A q \in Process, j \in JobId : InFlight(q, j)' <=> InFlight(q, j)
      BY <3>0, <3>a DEF InFlight
    <3>3. ASSUME NEW q \in Process PROVE InFlightOnce(q)' /\ Actor(q)'
      BY <3>0, <3>a DEF InFlightOnce, Actor
    <3>4. ASSUME NEW j \in JobId PROVE FilesFollowTool(j)' /\ RegisteredInTime(j)'
      BY <3>a DEF FilesFollowTool, RegisteredInTime, Registrable, Expired, RunAtPassed
    <3>5. ASSUME NEW q \in Process, NEW j \in JobId PROVE Known(q, j)' /\ OneShot(q, j)'
      <4>0. InFlight(p, run[p].job)
        BY DEF InFlight
      <4>1. /\ \A k \in JobId : k \in began'[q] => k \in began[q] \/ (q = p /\ k = run[p].job)
            /\ \A k \in JobId : k \in began[q] => k \in began'[q]
        BY <3>b DEF Types
      <4>2. CASE q = p /\ j = run[p].job
        BY <3>0, <3>a, <3>2, <4>0, <4>1, <4>2 DEF Known, OneShot
      <4>3. CASE ~(q = p /\ j = run[p].job)
        BY <3>0, <3>a, <3>2, <4>1, <4>3 DEF Known, OneShot
      <4> QED
        BY <4>2, <4>3
    <3> QED
      BY <3>1, <3>3, <3>4, <3>5
  <2> QED
    BY <1>13, <2>a, <2>b DEF ReadPrompt
<1>14. ASSUME NEW p \in Process, EndRun(p) PROVE IInv'
  BY <1>14, RunEnds DEF EndRun
<1>15. ASSUME NEW p \in Process, NEW i \in JobId, Fire(p, i) PROVE IInv'
  <2>1. Types'
    <3>1. due' \in [Process -> [JobId -> Nat \cup {None}]]
      BY <1>15, RunTimes DEF Types, Fire
    <3>2. queue' \in [Process -> Seq(JobId)]
      <4>1. queue' = queue \/ queue' = [queue EXCEPT ![p] = Append(queue[p], i)]
        BY <1>15 DEF Fire
      <4>2. queue \in [Process -> Seq(JobId)]
        BY DEF Types
      <4>3. Append(queue[p], i) \in Seq(JobId)
        BY <4>2
      <4> QED
        BY <4>1, <4>2, <4>3
    <3>3. late' \in [Process -> SUBSET JobId] /\ missed' \in [Process -> SUBSET JobId]
      <4>1. late[p] \cup {i} \in SUBSET JobId /\ missed[p] \ {i} \in SUBSET JobId
        BY DEF Types
      <4>2. /\ late' = late \/ late' = [late EXCEPT ![p] = late[p] \cup {i}]
            /\ missed' = missed \/ missed' = [missed EXCEPT ![p] = missed[p] \ {i}]
        BY <1>15 DEF Fire
      <4>3. late' \in [Process -> SUBSET JobId]
        BY <4>1, <4>2 DEF Types
      <4>4. missed' \in [Process -> SUBSET JobId]
        <5> DEFINE new == missed[p] \ {i}
        <5>1. new \in SUBSET JobId
          BY <4>1
        <5>2. missed' = missed \/ missed' = [missed EXCEPT ![p] = new]
          BY <4>2
        <5> HIDE DEF new
        <5> QED
          BY <5>1, <5>2 DEF Types
      <4> QED
        BY <4>3, <4>4
    <3> QED
      BY <1>15, <3>1, <3>2, <3>3 DEF Types, Fire
  <2>2. \A q \in Process, j \in JobId : InFlight(q, j)' => InFlight(q, j) \/ (q = p /\ j = i)
    <3>1. queue' = queue \/ queue' = [queue EXCEPT ![p] = Append(queue[p], i)]
      BY <1>15 DEF Fire
    <3>2. ASSUME NEW q \in Process, NEW j \in JobId, InFlight(q, j)'
          PROVE  InFlight(q, j) \/ (q = p /\ j = i)
      <4>1. run'[q] = run[q] /\ queue[p] \in Seq(JobId)
        BY <1>15 DEF Types, Fire
      <4>2. CASE queue'[q] = queue[q]
        BY <3>2, <4>1, <4>2 DEF InFlight
      <4>3. CASE q = p /\ queue'[p] = Append(queue[p], i)
        <5>1. \A k \in 1..Len(queue'[p]) :
                queue'[p][k] = i \/ (k \in 1..Len(queue[p]) /\ queue'[p][k] = queue[p][k])
          BY <4>1, <4>3, AppendProperties
        <5> QED
          BY <3>2, <4>1, <4>3, <5>1 DEF InFlight
      <4> QED
        BY <3>1, <4>2, <4>3 DEF Types
    <3> QED
      BY <3>2
  <2>3. ASSUME NEW q \in Process PROVE InFlightOnce(q)'
    <3>0. \A k, l \in 1..Len(queue[q]) : queue[q][k] = queue[q][l] => k = l
      BY DEF InFlightOnce
    <3>1. CASE queue'[q] = queue[q]
      BY <1>15, <3>1 DEF InFlightOnce, Fire
    <3>2. CASE q = p /\ queue'[p] = Append(queue[p], i) /\ ~InFlight(p, i)
      <4>1. queue[p] \in Seq(JobId) /\ run' = run /\ Len(queue[p]) \in Nat
        BY <1>15 DEF Types, Fire
      <4>2. /\ Len(queue'[p]) = Len(queue[p]) + 1
            /\ \A k \in 1..Len(queue'[p]) :
                 IF k \in 1..Len(queue[p]) THEN queue'[p][k] = queue[p][k] /\ queue[p][k] # i
                 ELSE queue'[p][k] = i /\ k = Len(queue[p]) + 1
        BY <3>2, <4>1, AppendProperties DEF InFlight
      <4>3. run[p].job # i
        BY <3>2 DEF InFlight
      <4> QED
        BY <3>0, <3>2, <4>1, <4>2, <4>3 DEF InFlightOnce
    <3> QED
      BY <1>15, <3>1, <3>2 DEF Types, Fire
  <2>4. ASSUME NEW q \in Process PROVE Actor(q)'
    BY <1>15 DEF Types, Actor, Fire
  <2>5. ASSUME NEW j \in JobId PROVE FilesFollowTool(j)'
    BY <1>15 DEF Types, FilesFollowTool, Fire
  <2>6. ASSUME NEW j \in JobId PROVE RegisteredInTime(j)'
    <3>1. Registrable(j)' => Registrable(j)
      BY <1>15 DEF Fire, Registrable, Expired, RunAtPassed
    <3>2. \A q \in Process : due[q][j] # None /\ due'[q][j] = None =>
            q = p /\ j = i /\ meta[i].kind = "once" /\ due[p][i] <= now
      BY <1>15, RunTimes DEF Types, Fire
    <3>3. \A q \in Process : due[q][j] # None /\ Registrable(j) => due'[q][j] # None
      <4>1. due[p][i] # None =>
              meta[i] \in Meta /\ (meta[i].kind = "once" => due[p][i] = meta[i].runAt)
        BY MetaAssumption DEF Known, OneShot
      <4> QED
        BY <3>2, <4>1 DEF Types, Registrable, RunAtPassed, Meta
    <3> QED
      BY <1>15, <3>1, <3>3 DEF RegisteredInTime, Fire
  <2>7. ASSUME NEW q \in Process, NEW j \in JobId PROVE Known(q, j)'
    <3>1. due'[q][j] # None => due[q][j] # None
      BY <1>15 DEF Types, Fire
    <3> QED
      BY <1>15, <2>2, <3>1 DEF Known, Fire
  <2>8. ASSUME NEW q \in Process, NEW j \in JobId PROVE OneShot(q, j)'
    <3>1. due[p][i] # None /\ due[p][i] <= now /\ UNCHANGED <<now, meta, run, began>>
      BY <1>15 DEF Fire
    <3>2. /\ ~(q = p /\ j = i) => due'[q][j] = due[q][j]
          /\ meta[i].kind = "once" => due'[p][i] = None
      BY <1>15 DEF Types, Fire
    <3>3. CASE q = p /\ j = i
      BY <3>1, <3>2, <3>3 DEF OneShot
    <3>4. CASE ~(q = p /\ j = i)
      BY <2>2, <3>1, <3>2, <3>4 DEF OneShot
    <3> QED
      BY <3>3, <3>4
  <2> QED
    BY <2>1, <2>3, <2>4, <2>5, <2>6, <2>7, <2>8
<1>16. ASSUME NEW p \in Process, NEW i \in JobId, ClearJob(p, i) PROVE IInv'
  <2>1. Types'
    <3> DEFINE new == [proc[p] EXCEPT !.todo = proc[p].todo \ {i}]
    <3>1. new \in Proc
      <4>1. proc[p] \in Proc /\ proc[p].todo \ {i} \in SUBSET JobId
        BY DEF Types, Proc
      <4> QED
        BY <4>1 DEF Proc
    <3>2. proc' = [proc EXCEPT ![p] = new]
      BY <1>16 DEF ClearJob
    <3> HIDE DEF new
    <3>3. due' \in [Process -> [JobId -> Nat \cup {None}]] /\ disk' \in [JobId -> Disk]
      BY <1>16 DEF Types, ClearJob, FilesWithout, Disk
    <3> QED
      BY <1>16, <3>1, <3>2, <3>3, OneProcess DEF Types, ClearJob
  <2>2. \A q \in Process, j \in JobId : InFlight(q, j)' => InFlight(q, j)
    BY <1>16 DEF Types, InFlight, ClearJob, FilesWithout, Proc, Disk
  <2>3. ASSUME NEW q \in Process PROVE InFlightOnce(q)'
    BY <1>16 DEF Types, InFlightOnce, ClearJob, FilesWithout, Proc, Disk
  <2>4. ASSUME NEW q \in Process PROVE Actor(q)'
    BY <1>16 DEF Types, Actor, ClearJob, FilesWithout, Proc, Disk
  <2>5. ASSUME NEW j \in JobId PROVE FilesFollowTool(j)'
    BY <1>16 DEF Types, FilesFollowTool, ClearJob, FilesWithout, Proc, Disk
  <2>6. ASSUME NEW j \in JobId PROVE RegisteredInTime(j)'
    BY <1>16 DEF Types, FilesFollowTool, RegisteredInTime, Registrable, Expired,
       RunAtPassed, ClearJob, FilesWithout, Proc, Disk
  <2>7. ASSUME NEW q \in Process, NEW j \in JobId PROVE Known(q, j)'
    BY <1>16, <2>2 DEF Types, FilesFollowTool, Known, ClearJob, FilesWithout, Proc,
       Disk
  <2>8. ASSUME NEW q \in Process, NEW j \in JobId PROVE OneShot(q, j)'
    BY <1>16, <2>2 DEF Types, FilesFollowTool, Known, OneShot, ClearJob,
       FilesWithout, Proc, Disk
  <2> QED
    BY <2>1, <2>3, <2>4, <2>5, <2>6, <2>7, <2>8
<1>17. ASSUME NEW i \in JobId, MakeDirectory(i) PROVE IInv'
  <2>1. Types'
    BY <1>17 DEF Types, MakeDirectory, Tool, Disk
  <2>2. \A q \in Process, j \in JobId : InFlight(q, j)' => InFlight(q, j)
    BY <1>17 DEF Types, InFlight, MakeDirectory, Tool, Disk
  <2>3. ASSUME NEW q \in Process PROVE InFlightOnce(q)'
    BY <1>17 DEF Types, InFlightOnce, MakeDirectory, Tool, Disk
  <2>4. ASSUME NEW q \in Process PROVE Actor(q)'
    BY <1>17 DEF Types, Actor, MakeDirectory, Tool, Disk
  <2>5. ASSUME NEW j \in JobId PROVE FilesFollowTool(j)'
    BY <1>17 DEF Types, FilesFollowTool, MakeDirectory, Tool, Disk
  <2>6. ASSUME NEW j \in JobId PROVE RegisteredInTime(j)'
    BY <1>17 DEF Types, FilesFollowTool, RegisteredInTime, Registrable, Expired,
       RunAtPassed, MakeDirectory, Tool, Disk
  <2>7. ASSUME NEW q \in Process, NEW j \in JobId PROVE Known(q, j)'
    BY <1>17, <2>2 DEF Types, FilesFollowTool, Known, MakeDirectory, Tool, Disk
  <2>8. ASSUME NEW q \in Process, NEW j \in JobId PROVE OneShot(q, j)'
    BY <1>17, <2>2 DEF Types, FilesFollowTool, Known, OneShot, MakeDirectory, Tool,
       Disk
  <2> QED
    BY <2>1, <2>3, <2>4, <2>5, <2>6, <2>7, <2>8
<1>18. ASSUME NEW i \in JobId, DirectoryGone(i) PROVE IInv'
  <2>1. Types'
    BY <1>18 DEF Types, DirectoryGone, Tool
  <2>2. \A q \in Process, j \in JobId : InFlight(q, j)' => InFlight(q, j)
    BY <1>18 DEF Types, InFlight, DirectoryGone, Tool
  <2>3. ASSUME NEW q \in Process PROVE InFlightOnce(q)'
    BY <1>18 DEF Types, InFlightOnce, DirectoryGone, Tool
  <2>4. ASSUME NEW q \in Process PROVE Actor(q)'
    BY <1>18 DEF Types, Actor, DirectoryGone, Tool
  <2>5. ASSUME NEW j \in JobId PROVE FilesFollowTool(j)'
    BY <1>18 DEF Types, FilesFollowTool, DirectoryGone, Tool
  <2>6. ASSUME NEW j \in JobId PROVE RegisteredInTime(j)'
    BY <1>18 DEF Types, FilesFollowTool, RegisteredInTime, Registrable, Expired,
       RunAtPassed, DirectoryGone, Tool
  <2>7. ASSUME NEW q \in Process, NEW j \in JobId PROVE Known(q, j)'
    BY <1>18, <2>2 DEF Types, FilesFollowTool, Known, DirectoryGone, Tool
  <2>8. ASSUME NEW q \in Process, NEW j \in JobId PROVE OneShot(q, j)'
    BY <1>18, <2>2 DEF Types, FilesFollowTool, Known, OneShot, DirectoryGone, Tool
  <2> QED
    BY <2>1, <2>3, <2>4, <2>5, <2>6, <2>7, <2>8
<1>19. ASSUME NEW i \in JobId, NEW kind \in {"cron", "once", "bad"}, OpenMetadata(i, kind)
       PROVE  IInv'
  <2>1. Types'
    BY <1>19 DEF Types, OpenMetadata, Tool, Disk, Meta
  <2>2. \A q \in Process, j \in JobId : InFlight(q, j)' => InFlight(q, j)
    BY <1>19 DEF Types, InFlight, OpenMetadata, Tool, Disk, Meta
  <2>3. ASSUME NEW q \in Process PROVE InFlightOnce(q)'
    BY <1>19 DEF Types, InFlightOnce, OpenMetadata, Tool, Disk, Meta
  <2>4. ASSUME NEW q \in Process PROVE Actor(q)'
    BY <1>19 DEF Types, Actor, OpenMetadata, Tool, Disk, Meta
  <2>5. ASSUME NEW j \in JobId PROVE FilesFollowTool(j)'
    BY <1>19 DEF Types, FilesFollowTool, OpenMetadata, Tool, Disk, Meta
  <2>6. ASSUME NEW j \in JobId PROVE RegisteredInTime(j)'
    BY <1>19 DEF Types, FilesFollowTool, RegisteredInTime, Registrable, Expired,
       RunAtPassed, OpenMetadata, Tool, Disk, Meta
  <2>7. ASSUME NEW q \in Process, NEW j \in JobId PROVE Known(q, j)'
    BY <1>19, <2>2 DEF Types, FilesFollowTool, Known, OpenMetadata, Tool, Disk, Meta
  <2>8. ASSUME NEW q \in Process, NEW j \in JobId PROVE OneShot(q, j)'
    BY <1>19, <2>2 DEF Types, FilesFollowTool, Known, OneShot, OpenMetadata, Tool,
       Disk, Meta
  <2> QED
    BY <2>1, <2>3, <2>4, <2>5, <2>6, <2>7, <2>8
<1>20. ASSUME NEW i \in JobId, WriteMetadata(i) PROVE IInv'
  <2>1. Types'
    BY <1>20 DEF Types, WriteMetadata, Tool, Disk
  <2>2. \A q \in Process, j \in JobId : InFlight(q, j)' => InFlight(q, j)
    BY <1>20 DEF Types, InFlight, WriteMetadata, Tool, Disk
  <2>3. ASSUME NEW q \in Process PROVE InFlightOnce(q)'
    BY <1>20 DEF Types, InFlightOnce, WriteMetadata, Tool, Disk
  <2>4. ASSUME NEW q \in Process PROVE Actor(q)'
    BY <1>20 DEF Types, Actor, WriteMetadata, Tool, Disk
  <2>5. ASSUME NEW j \in JobId PROVE FilesFollowTool(j)'
    BY <1>20 DEF Types, FilesFollowTool, WriteMetadata, Tool, Disk
  <2>6. ASSUME NEW j \in JobId PROVE RegisteredInTime(j)'
    BY <1>20 DEF Types, FilesFollowTool, RegisteredInTime, Registrable, Expired,
       RunAtPassed, WriteMetadata, Tool, Disk
  <2>7. ASSUME NEW q \in Process, NEW j \in JobId PROVE Known(q, j)'
    BY <1>20, <2>2 DEF Types, FilesFollowTool, Known, WriteMetadata, Tool, Disk
  <2>8. ASSUME NEW q \in Process, NEW j \in JobId PROVE OneShot(q, j)'
    BY <1>20, <2>2 DEF Types, FilesFollowTool, Known, OneShot, WriteMetadata, Tool,
       Disk
  <2> QED
    BY <2>1, <2>3, <2>4, <2>5, <2>6, <2>7, <2>8
<1>21. ASSUME NEW i \in JobId, Register(i) PROVE IInv'
  <2>0. /\ due' = Registered(Caller[i], i)
        /\ disk' = IF MustRemove(i) THEN FilesWithout(i) ELSE disk
        /\ UNCHANGED <<now, meta, held, proc, found, queue, late, run, missed, began,
                       crashes, calls>>
        /\ tool[i] = "register" /\ tool' = [tool EXCEPT ![i] = "over"]
        /\ tool' \in [JobId -> Tool]
    BY <1>21 DEF Register, Types, Tool
  <2>a. /\ disk' \in [JobId -> Disk]
        /\ due' \in [Process -> [JobId -> Nat \cup {None}]]
        /\ \A j \in JobId : disk'[j] = disk[j] \/ disk'[j] = "none"
        /\ \A j \in JobId : Registrable(j)' => Registrable(j)
        /\ \A q \in Process, j \in JobId : due[q][j] # None => due'[q][j] # None
        /\ Registrable(i) => due'[Caller[i]][i] # None
        /\ \A q \in Process, j \in JobId : Known(q, j)' /\ OneShot(q, j)'
    <3>1. \A j \in JobId : tool[j] \in {"register", "over"} => tool'[j] \in {"register", "over"}
      BY <2>0 DEF Types
    <3> QED
      BY <2>0, <3>1, Registers
  <2>1. Types'
    BY <2>0, <2>a DEF Types
  <2>3. ASSUME NEW q \in Process PROVE InFlightOnce(q)' /\ Actor(q)'
    BY <2>0 DEF InFlightOnce, Actor
  <2>4. ASSUME NEW j \in JobId PROVE FilesFollowTool(j)'
    BY <2>0, <2>a DEF FilesFollowTool, Types
  <2>5. ASSUME NEW j \in JobId PROVE RegisteredInTime(j)'
    BY <2>0, <2>a DEF RegisteredInTime, Types
  <2> QED
    BY <2>1, <2>3, <2>4, <2>5, <2>a
<1>22. CASE UNCHANGED vars
  <2>1. Types'
    BY <1>22 DEF vars, Types
  <2>2. \A q \in Process, j \in JobId : InFlight(q, j)' <=> InFlight(q, j)
    BY <1>22 DEF vars, InFlight
  <2>3. ASSUME NEW q \in Process PROVE InFlightOnce(q)' /\ Actor(q)'
    BY <1>22 DEF vars, InFlightOnce, Actor
  <2>4. ASSUME NEW j \in JobId PROVE FilesFollowTool(j)' /\ RegisteredInTime(j)'
    BY <1>22 DEF vars, FilesFollowTool, RegisteredInTime, Registrable, Expired, RunAtPassed
  <2>5. ASSUME NEW q \in Process, NEW j \in JobId PROVE Known(q, j)' /\ OneShot(q, j)'
    BY <1>22, <2>2 DEF vars, Known, OneShot
  <2> QED
    BY <2>1, <2>3, <2>4, <2>5
<1> QED
  BY <1>1, <1>2, <1>3, <1>4, <1>5, <1>6, <1>7, <1>8, <1>9, <1>10, <1>11, <1>12,
     <1>13, <1>14, <1>15, <1>16, <1>17, <1>18, <1>19, <1>20, <1>21, <1>22 DEF Next,
     ProcessStep, Launch, Load, Executor, ToolStep

\* The variables hold what the model says they hold, and a process has a job in
\* flight once at most.
THEOREM TypeCorrect == Spec => []TypeOK
<1>1. IInv => TypeOK
  BY DEF IInv, Types, InFlightOnce, TypeOK
<1> QED
  BY <1>1, InitInv, NextInv, PTL DEF Spec

\* A job on disk that can still run is registered with the process that made it, and
\* with the serving bot that found it, whatever crashed, reloaded, fired or was
\* removed beside it in any other process.
THEOREM LiveJobsAreRegistered == Spec => []JobsOnDiskAreRegistered
<1>1. IInv => JobsOnDiskAreRegistered
  <2> SUFFICES ASSUME IInv, NEW j \in JobId, Registrable(j), tool[j] # "register"
               PROVE  /\ j \in held => due[Caller[j]][j] # None
                      /\ proc[Bot].pc = "serve" /\ j \in found => due[Bot][j] # None
    BY DEF JobsOnDiskAreRegistered
  <2>1. FilesFollowTool(j) /\ RegisteredInTime(j) /\ Actor(Bot) /\ tool[j] \in Tool
    BY BotAndCallers DEF IInv, Types
  <2>2. tool[j] = "over"
    BY <2>1 DEF FilesFollowTool, Registrable, Tool
  <2> QED
    BY <2>1, <2>2 DEF RegisteredInTime, Actor
<1> QED
  BY <1>1, InitInv, NextInv, PTL DEF Spec

\* No process hands a one-shot prompt to the copilot a second time, for any number
\* of reloads, crashes and restarts and any order of queueing and registering.
THEOREM OneShotsAreRunOnce == Spec => OneShotsRunOnce
<1> DEFINE A == \A p \in Process :
                  run[p].pc = "prompt" /\ run'[p].pc = "react" /\ meta[run[p].job].kind = "once"
                    => run[p].job \notin began[p]
<1>1. IInv /\ [Next]_vars => [A]_vars
  <2> SUFFICES ASSUME IInv, NEW p \in Process, run[p].pc = "prompt",
                      meta[run[p].job].kind = "once"
               PROVE  run[p].job \notin began[p]
    OBVIOUS
  <2>1. run[p].job \in JobId
    BY NoneAssumption DEF IInv, Types, Actor, Run
  <2>2. InFlight(p, run[p].job)
    BY DEF InFlight
  <2>3. Known(p, run[p].job) /\ OneShot(p, run[p].job)
    BY <2>1 DEF IInv
  <2> QED
    BY <2>2, <2>3, MetaAssumption DEF Known, OneShot
<1> QED
  BY <1>1, InitInv, NextInv, PTL DEF Spec, OneShotsRunOnce

\* Whole files go when they have expired or when the command clears them.
LEMMA WhoRemoves ==
  ASSUME IInv, [Next]_vars, NEW j \in JobId, disk[j] = "ready", disk'[j] # "ready"
  PROVE  Expired(j) \/ Clearing
<1> USE DEF files, requests, processes, executor
<1>0. disk \in [JobId -> Disk] /\ tool \in [JobId -> Tool]
      /\ \A i \in JobId : FilesFollowTool(i)
  BY DEF IInv, Types
<1>1. ASSUME NEW p \in Process, NEW i \in JobId, Reload(p, i) PROVE Expired(j)
  BY <1>0, <1>1 DEF Reload, MustRemove, FilesWithout
<1>2. ASSUME NEW i \in JobId, Register(i) PROVE Expired(j)
  BY <1>0, <1>2 DEF Register, MustRemove, FilesWithout
<1>3. ASSUME NEW p \in Process, ReadMetadata(p) PROVE Expired(j)
  BY <1>0, <1>3 DEF ReadMetadata, Return, Remove, GoOn, FilesWithout
<1>4. ASSUME NEW p \in Process, ReadPrompt(p) PROVE FALSE
  BY <1>0, <1>4 DEF ReadPrompt, Return, Remove, GoOn, FilesWithout
<1>5. ASSUME NEW p \in Process, NEW i \in JobId, ClearJob(p, i) PROVE Clearing
  BY <1>5 DEF ClearJob, Clearing, IInv, Actor
<1>6. ASSUME NEW i \in JobId,
             MakeDirectory(i) \/ WriteMetadata(i)
               \/ \E kind \in {"cron", "once", "bad"} : OpenMetadata(i, kind)
      PROVE  FALSE
  BY <1>0, <1>6 DEF MakeDirectory, WriteMetadata, OpenMetadata, FilesFollowTool
<1>7. \/ disk' = disk
      \/ \E p \in Process : ReadMetadata(p) \/ ReadPrompt(p)
           \/ \E i \in JobId : Reload(p, i) \/ ClearJob(p, i)
      \/ \E i \in JobId : Register(i) \/ MakeDirectory(i) \/ WriteMetadata(i)
           \/ \E kind \in {"cron", "once", "bad"} : OpenMetadata(i, kind)
  BY DEF Next, Tick, Start, ProcessStep, Crash, Launch, StartWatchers, StartCommand, Load,
     Loaded, ReloadFails, End, Executor, Take, Misfire, EndRun, Return, Fire, ToolStep,
     DirectoryGone, vars
<1> QED
  BY <1>1, <1>2, <1>3, <1>4, <1>5, <1>6, <1>7

\* Only the command that clears all jobs removes the files of a live one.
THEOREM LiveFilesAreKept == Spec => KeptUntilExpiry
<1> DEFINE A == \A j \in JobId :
                  disk[j] = "ready" /\ ~Expired(j) /\ disk'[j] # "ready" => Clearing
<1>1. IInv /\ [Next]_vars => [A]_vars
  BY WhoRemoves
<1> QED
  BY <1>1, InitInv, NextInv, PTL DEF Spec, KeptUntilExpiry

-------------------------------------------------------------------------------
(* The schedulers implement the prompt store. *)

LEMMA StoreInitially == Init => Store!StoreInit
<1> SUFFICES ASSUME Init PROVE Store!StoreInit
  OBVIOUS
<1>1. Lives = [j \in JobId |-> "new"] /\ Ends = [j \in JobId |-> None]
  BY DEF Init, Lives, LifeOf, Ends
<1>2. \A p \in Process : run[p].pc = "idle" /\ proc[p].pc # "work"
  BY DEF Init, Idle, Down
<1>3. /\ Stages = [p \in Process |-> "idle"]
      /\ Prompts = [p \in Process |-> None]
  BY <1>2 DEF Stages, Prompts
<1>4. Clearing = FALSE
  BY <1>2 DEF Clearing
<1> QED BY <1>1, <1>3, <1>4 DEF Init, Store!StoreInit

\* Steps that leave whole files whole and calls before, in or behind the write.
LEMMA LivesKept ==
  ASSUME UNCHANGED meta,
         \A j \in JobId : /\ disk'[j] = "ready" <=> disk[j] = "ready"
                          /\ \/ tool'[j] = tool[j]
                             \/ tool[j] \in {"off", "open"} /\ tool'[j] \in {"off", "open"}
                             \/ tool[j] \in {"register", "over"}
                                  /\ tool'[j] \in {"register", "over"}
  PROVE  Lives' = Lives /\ Ends' = Ends
<1>1. \A j \in JobId : LifeOf(j)' = LifeOf(j)
  BY DEF LifeOf
<1> QED BY <1>1 DEF Lives, Ends

\* A step that no prompt notices starts or ends a command to clear, or none.
LEMMA NoPromptNotices ==
  ASSUME UNCHANGED <<now, Lives, Ends, Stages, Prompts>>
  PROVE  [Store!StoreNext]_(Store!storeVars)
<1>1. CASE Clearing' = Clearing
  BY <1>1 DEF Store!storeVars
<1>2. CASE Clearing' # Clearing
  <2>1. Clearing' = ~Clearing
    BY <1>2 DEF Clearing
  <2>2. Store!Clear
    BY <2>1 DEF Store!Clear
  <2> QED BY <2>2 DEF Store!StoreNext
<1> QED BY <1>1, <1>2

\* The removal of files that have expired, or are cleared, or are not whole.
LEMMA FilesRemoved ==
  ASSUME IInv, NEW i \in JobId, disk' = FilesWithout(i), UNCHANGED <<now, meta>>,
         \/ tool' = tool
         \/ tool[i] = "register" /\ tool' = [tool EXCEPT ![i] = "over"],
         disk[i] = "ready" => Expired(i) \/ Clearing,
         Clearing' = Clearing, UNCHANGED <<Stages, Prompts>>
  PROVE  [Store!StoreNext]_(Store!storeVars)
<1>1. /\ disk \in [JobId -> Disk] /\ tool \in [JobId -> Tool]
      /\ \A j \in JobId : disk'[j] = IF j = i THEN "none" ELSE disk[j]
  BY DEF IInv, Types, FilesWithout
<1>2. CASE disk[i] # "ready"
  <2>1. Lives' = Lives /\ Ends' = Ends
    BY <1>1, <1>2, LivesKept
  <2> QED BY <2>1 DEF Store!storeVars
<1>3. CASE disk[i] = "ready"
  <2>1. meta[i] \in Meta /\ tool[i] \in {"register", "over"}
    BY <1>1, <1>3 DEF IInv, FilesFollowTool, Tool
  <2>2. LifeOf(i) = "kept" /\ LifeOf(i)' = "gone"
    BY <1>1, <1>3, <2>1 DEF LifeOf
  <2>3. \A j \in JobId : j # i => LifeOf(j)' = LifeOf(j)
    BY <1>1 DEF LifeOf
  <2>4. Lives[i] = "kept" /\ Lives' = [Lives EXCEPT ![i] = "gone"] /\ Ends' = Ends
    BY <2>2, <2>3 DEF Lives, Ends
  <2>5. now >= Ends[i] \/ Clearing
    BY <1>3, <2>1, MetaAssumption DEF Ends, Expired
  <2>6. Store!Drop(i)
    BY <2>4, <2>5 DEF Store!Drop
  <2> QED BY <2>6 DEF Store!StoreNext
<1> QED BY <1>2, <1>3

\* A process that has no run any more is an idle runner.
LEMMA RunnerRests ==
  ASSUME NEW p \in Process, run \in [Process -> Run], run' = [run EXCEPT ![p] = Idle]
  PROVE  Store!Rest(p)
<1>1. run'[p] = Idle /\ \A q \in Process \ {p} : run'[q] = run[q]
  OBVIOUS
<1>2. Stages' = [Stages EXCEPT ![p] = "idle"] /\ Prompts' = [Prompts EXCEPT ![p] = None]
  BY <1>1 DEF Stages, Prompts, Idle
<1> QED BY <1>2 DEF Store!Rest

\* Calls of the tool that come to nothing, a run that does, or both and a command.
LEMMA ComeToNothing ==
  ASSUME UNCHANGED <<now, meta>>, Clearing' = Clearing \/ Clearing' = FALSE,
         UNCHANGED <<Stages, Prompts>> \/ \E p \in Process : Store!Rest(p),
         \A j \in JobId : \/ LifeOf(j)' = LifeOf(j)
                          \/ LifeOf(j) \in {"new", "asked"} /\ LifeOf(j)' = "gone"
  PROVE  Store!StoreNext
<1>1. \A j \in JobId : \/ Lives'[j] = Lives[j]
                       \/ (Lives[j] \in {"new", "asked"} /\ Lives'[j] = "gone")
  BY DEF Lives
<1>2. Lives' = [j \in JobId |-> Lives'[j]]
  BY DEF Lives
<1>3. Ends' = Ends
  BY DEF Ends
<1>4. Store!Fail
  BY <1>1, <1>2, <1>3 DEF Store!Fail
<1> QED BY <1>4 DEF Store!StoreNext

\* Files that are whole and have not expired are of a job the store keeps.
LEMMA LiveIsKept ==
  ASSUME IInv, NEW j \in JobId, disk[j] = "ready", ~Expired(j)
  PROVE  Lives[j] = "kept" /\ now < Ends[j]
<1>1. meta[j] \in Meta /\ now \in Int
  BY DEF IInv, Types, FilesFollowTool
<1> QED BY <1>1, MetaAssumption DEF Lives, LifeOf, Ends, Expired, Meta

\* A tool call asks for its prompt, keeps it, or fails.
LEMMA ToolSteps ==
  ASSUME IInv, NEW i \in JobId, ToolStep(i)
  PROVE  [Store!StoreNext]_(Store!storeVars)
<1>0. /\ disk \in [JobId -> Disk] /\ tool \in [JobId -> Tool]
      /\ FilesFollowTool(i)
  BY DEF IInv, Types
<1>1. UNCHANGED <<now, run, proc>>
  BY DEF ToolStep, MakeDirectory, DirectoryGone, WriteMetadata, Register, OpenMetadata,
         executor, processes
<1>a. Clearing' = Clearing
  BY <1>1 DEF Clearing
<1>b. Stages' = Stages /\ Prompts' = Prompts
  BY <1>1 DEF Stages, Prompts
<1>2. CASE MakeDirectory(i)
  <2>1. disk' = [disk EXCEPT ![i] = "prompt"] /\ tool' = [tool EXCEPT ![i] = "open"]
        /\ tool[i] = "off" /\ disk[i] = "none" /\ meta' = meta
    BY <1>0, <1>2 DEF MakeDirectory, FilesFollowTool
  <2>2. Lives' = Lives /\ Ends' = Ends
    BY <1>0, <2>1, LivesKept
  <2> QED BY <1>1, <1>b, <2>2, NoPromptNotices
<1>3. CASE DirectoryGone(i)
  <2>1. disk' = disk /\ tool' = [tool EXCEPT ![i] = "over"] /\ meta' = meta
        /\ tool[i] = "open" /\ disk[i] = "none"
    BY <1>3 DEF DirectoryGone, files
  <2>2. LifeOf(i) = "new" /\ LifeOf(i)' = "gone"
    BY <1>0, <2>1 DEF LifeOf
  <2>3. \A j \in JobId : j # i => LifeOf(j)' = LifeOf(j)
    BY <1>0, <2>1 DEF LifeOf
  <2> QED BY <1>1, <1>a, <1>b, <2>1, <2>2, <2>3, ComeToNothing
<1>4. ASSUME NEW kind \in {"cron", "once", "bad"}, OpenMetadata(i, kind)
      PROVE  [Store!StoreNext]_(Store!storeVars)
  <2> DEFINE data == [kind |-> kind, runAt |-> now + 1, expires |-> now + Life]
  <2>1. disk' = [disk EXCEPT ![i] = "torn"] /\ tool' = [tool EXCEPT ![i] = "write"]
        /\ meta' = [meta EXCEPT ![i] = data] /\ tool[i] = "open" /\ disk[i] = "prompt"
    BY <1>4 DEF OpenMetadata
  <2>2. data \in Meta /\ data.expires = now + Life /\ meta \in [JobId -> Meta \cup {None}]
    BY BoundsAssumption DEF IInv, Types, Meta
  <2> HIDE DEF data
  <2>3. LifeOf(i) = "new" /\ LifeOf(i)' = "asked"
        /\ \A j \in JobId : j # i => LifeOf(j)' = LifeOf(j)
    BY <1>0, <2>1 DEF LifeOf
  <2>4. Lives[i] = "new" /\ Lives' = [Lives EXCEPT ![i] = "asked"]
    BY <2>3 DEF Lives
  <2>5. Ends' = [Ends EXCEPT ![i] = now + Life]
    BY <2>1, <2>2, MetaAssumption DEF Ends
  <2>6. Store!Ask(i)
    BY <1>1, <1>a, <1>b, <2>4, <2>5 DEF Store!Ask
  <2> QED BY <2>6 DEF Store!StoreNext
<1>5. CASE WriteMetadata(i)
  <2>1. tool[i] = "write" /\ tool' = [tool EXCEPT ![i] = "register"] /\ meta' = meta
        /\ disk' = [disk EXCEPT ![i] = IF disk[i] = "torn" THEN "ready" ELSE disk[i]]
    BY <1>5 DEF WriteMetadata
  <2>2. disk[i] \in {"none", "torn"}
    BY <1>0, <2>1 DEF FilesFollowTool
  <2>3. LifeOf(i) = "asked" /\ \A j \in JobId : j # i => LifeOf(j)' = LifeOf(j)
    BY <1>0, <2>1, <2>2 DEF LifeOf
  <2>4. CASE disk[i] = "none"
    <3>1. LifeOf(i)' = "gone"
      BY <1>0, <2>1, <2>4 DEF LifeOf
    <3> QED BY <1>1, <1>a, <1>b, <2>1, <2>3, <3>1, ComeToNothing
  <2>5. CASE disk[i] = "torn"
    <3>1. LifeOf(i)' = "kept"
      BY <1>0, <2>1, <2>5 DEF LifeOf
    <3>2. Lives[i] = "asked" /\ Lives' = [Lives EXCEPT ![i] = "kept"] /\ Ends' = Ends
      BY <2>1, <2>3, <3>1 DEF Lives, Ends
    <3>3. Store!Keep(i)
      BY <1>1, <1>a, <1>b, <3>2 DEF Store!Keep
    <3> QED BY <3>3 DEF Store!StoreNext
  <2> QED BY <2>2, <2>4, <2>5
<1>6. CASE Register(i)
  <2>1. tool[i] = "register" /\ tool' = [tool EXCEPT ![i] = "over"] /\ UNCHANGED <<now, meta>>
    BY <1>6 DEF Register
  <2>2. CASE MustRemove(i)
    <3>1. disk' = FilesWithout(i) /\ Expired(i)
      BY <1>6, <2>2 DEF Register, MustRemove
    <3> QED BY <1>a, <1>b, <2>1, <3>1, FilesRemoved
  <2>3. CASE ~MustRemove(i)
    <3>1. disk' = disk
      BY <1>6, <2>3 DEF Register
    <3>2. Lives' = Lives /\ Ends' = Ends
      BY <1>0, <2>1, <3>1, LivesKept
    <3> QED BY <1>1, <1>b, <3>2, NoPromptNotices
  <2> QED BY <2>2, <2>3
<1> QED BY <1>2, <1>3, <1>4, <1>5, <1>6 DEF ToolStep

\* An executor drops what expired, takes up what it reads in time, and runs it if
\* its files are still there.
LEMMA ExecutorSteps ==
  ASSUME IInv, NEW p \in Process, Executor(p)
  PROVE  [Store!StoreNext]_(Store!storeVars)
<1> DEFINE j == run[p].job
<1>0. /\ run \in [Process -> Run] /\ disk \in [JobId -> Disk] /\ None \notin JobId
      /\ run[p].pc # "idle" => j \in JobId
      /\ UNCHANGED <<now, meta, tool, proc>>
  BY NoneAssumption DEF IInv, Types, Actor, Run, Executor, Take, Misfire, ReadMetadata,
     ReadPrompt, EndRun, files, requests, processes
<1>a. Clearing' = Clearing
  BY <1>0 DEF Clearing
<1>b. disk' = disk => Lives' = Lives /\ Ends' = Ends
  BY <1>0, LivesKept
<1>c. ASSUME run' = [run EXCEPT ![p] = Idle], run[p].pc = "meta"
      PROVE  UNCHANGED <<Stages, Prompts>>
  <2>1. run'[p].pc = "idle" /\ \A q \in Process \ {p} : run'[q] = run[q]
    BY <1>0, <1>c DEF Idle
  <2> QED BY <1>c, <2>1 DEF Stages, Prompts
<1>d. ASSUME disk' = disk, run' = [run EXCEPT ![p] = Idle] PROVE Store!StoreNext
  <2>1. Store!Rest(p)
    BY <1>0, <1>d, RunnerRests
  <2>2. \A i \in JobId : LifeOf(i)' = LifeOf(i)
    BY <1>0, <1>d DEF LifeOf
  <2> QED BY <1>0, <1>a, <2>1, <2>2, ComeToNothing
<1> HIDE DEF j
<1>1. CASE Take(p) \/ Misfire(p)
  <2>1. disk' = disk
    BY <1>1 DEF Take, Misfire, files
  <2>2. \A q \in Process :
          run'[q] = run[q] \/ (run[q].pc = "idle" /\ run'[q].pc = "meta")
    BY <1>0, <1>1 DEF Take, Misfire, Idle
  <2>3. UNCHANGED <<Stages, Prompts>>
    BY <2>2 DEF Stages, Prompts
  <2> QED BY <1>0, <1>b, <2>1, <2>3, NoPromptNotices
<1>2. CASE ReadMetadata(p)
  <2>0. run[p].pc = "meta" /\ j \in JobId
    BY <1>0, <1>2 DEF ReadMetadata
  <2>1. CASE Return(p)
    <3>1. disk' = disk /\ UNCHANGED <<Stages, Prompts>>
      BY <1>c, <2>0, <2>1 DEF Return
    <3> QED BY <1>0, <1>b, <3>1, NoPromptNotices
  <2>2. CASE Remove(p) /\ (disk[j] = "none" \/ Expired(j))
    <3>1. disk' = FilesWithout(j) /\ UNCHANGED <<Stages, Prompts>>
      BY <1>c, <2>0, <2>2 DEF Remove, j
    <3> QED BY <1>0, <1>a, <2>0, <2>2, <3>1, FilesRemoved
  <2>3. CASE GoOn(p, "prompt") /\ disk[j] # "none" /\ ~Expired(j)
    <3>1. disk[j] = "ready"
      <4>1. InFlight(p, j)
        BY DEF InFlight, j
      <4> QED BY <2>0, <2>3, <4>1 DEF IInv, Known
    <3>2. Lives[j] = "kept" /\ now < Ends[j]
      BY <2>0, <2>3, <3>1, LiveIsKept
    <3>3. /\ disk' = disk
          /\ run'[p].pc = "prompt" /\ run'[p].job = j
          /\ \A q \in Process \ {p} : run'[q] = run[q]
      BY <1>0, <2>3 DEF GoOn, j, Run
    <3>4. /\ Stages[p] = "idle"
          /\ Stages' = [Stages EXCEPT ![p] = "taken"]
          /\ Prompts' = [Prompts EXCEPT ![p] = j]
      BY <2>0, <3>3 DEF Stages, Prompts
    <3>5. Store!TakeUp(p, j)
      BY <1>0, <1>a, <1>b, <3>2, <3>3, <3>4 DEF Store!TakeUp
    <3> QED BY <2>0, <3>5 DEF Store!StoreNext
  <2> QED BY <1>2, <2>1, <2>2, <2>3 DEF ReadMetadata, j
<1>3. CASE ReadPrompt(p)
  <2>0. run[p].pc = "prompt" /\ j \in JobId
    BY <1>0, <1>3 DEF ReadPrompt
  <2>1. CASE disk[j] = "none" /\ (Remove(p) \/ Return(p))
    <3>1. run' = [run EXCEPT ![p] = Idle]
      BY <2>1 DEF Remove, Return
    <3>2. disk' = disk
      BY <1>0, <2>1 DEF Remove, Return, FilesWithout, j
    <3> QED BY <1>d, <3>1, <3>2
  <2>2. CASE disk[j] # "none" /\ GoOn(p, "react")
    <3>1. disk[j] = "ready"
      <4>1. InFlight(p, j)
        BY DEF InFlight, j
      <4> QED BY <2>0, <2>2, <4>1 DEF IInv, Known
    <3>2. /\ disk' = disk
          /\ run'[p].pc = "react" /\ run'[p].job = j
          /\ \A q \in Process \ {p} : run'[q] = run[q]
      BY <1>0, <2>2 DEF GoOn, j, Run
    <3>3. /\ Stages[p] = "taken" /\ Prompts[p] = j
          /\ Stages' = [Stages EXCEPT ![p] = "running"]
          /\ Prompts' = Prompts
      BY <2>0, <3>2 DEF Stages, Prompts, j
    <3>4. Lives[j] = "kept"
      BY <2>0, <3>1 DEF Lives, LifeOf
    <3>5. Store!Run(p)
      BY <1>0, <1>a, <1>b, <3>2, <3>3, <3>4 DEF Store!Run
    <3> QED BY <3>5 DEF Store!StoreNext
  <2> QED BY <1>3, <2>1, <2>2 DEF ReadPrompt, j
<1>4. CASE EndRun(p)
  BY <1>d, <1>4 DEF EndRun, Return
<1> QED BY <1>1, <1>2, <1>3, <1>4 DEF Executor

\* A process that is killed takes its calls, its run and its command with it.
LEMMA CrashStep == ASSUME IInv, NEW p \in Process, Crash(p) PROVE Store!StoreNext
<1>1. /\ UNCHANGED <<now, meta, disk>>
      /\ run' = [run EXCEPT ![p] = Idle]
      /\ proc' = [proc EXCEPT ![p] = Down]
      /\ \A j \in JobId : tool'[j] = tool[j] \/ (j \in held /\ tool'[j] = "over")
      /\ run \in [Process -> Run] /\ proc \in [Process -> Proc]
      /\ tool \in [JobId -> Tool]
  BY DEF Crash, Stop, files, IInv, Types
<1>2. Store!Rest(p)
  BY <1>1, RunnerRests
<1>3. Clearing' => Clearing
  <2>1. \A q \in Process : proc'[q] = proc[q] \/ proc'[q].pc = "down"
    BY <1>1 DEF Down
  <2> QED BY <2>1 DEF Clearing
<1>4. Clearing' = Clearing \/ Clearing' = FALSE
  BY <1>3 DEF Clearing
<1>5. ASSUME NEW j \in JobId
      PROVE  \/ LifeOf(j)' = LifeOf(j)
             \/ LifeOf(j) \in {"new", "asked"} /\ LifeOf(j)' = "gone"
  <2>1. CASE disk[j] = "ready"
    BY <1>1, <2>1 DEF LifeOf
  <2>2. CASE disk[j] # "ready"
    BY <1>1, <2>2 DEF LifeOf, Tool
  <2> QED BY <2>1, <2>2
<1> QED BY <1>1, <1>2, <1>4, <1>5, ComeToNothing

\* A process that loads, clears, begins or ends drops what expired or is cleared.
LEMMA ProcessSteps ==
  ASSUME IInv, NEW p \in Process,
         \/ Launch(p) \/ Load(p) \/ End(p) \/ Start
         \/ \E j \in JobId : Fire(p, j) \/ ClearJob(p, j)
  PROVE  [Store!StoreNext]_(Store!storeVars)
<1>0. /\ UNCHANGED <<now, meta, tool, run>> /\ proc \in [Process -> Proc]
      /\ disk \in [JobId -> Disk]
  BY DEF Launch, StartWatchers, StartCommand, Load, Loaded, Reload, ReloadFails, End, Stop,
     Start, Fire, ClearJob, files, requests, executor, IInv, Types
<1>a. UNCHANGED <<Stages, Prompts>>
  BY <1>0 DEF Stages, Prompts
<1>1. CASE disk' = disk
  <2>1. Lives' = Lives /\ Ends' = Ends
    BY <1>0, <1>1, LivesKept
  <2> QED BY <1>0, <1>a, <2>1, NoPromptNotices
<1>2. ASSUME NEW j \in JobId, Reload(p, j) \/ ClearJob(p, j)
      PROVE  /\ \A q \in Process : proc'[q].pc = proc[q].pc /\ proc'[q].mode = proc[q].mode
             /\ proc[p].pc \in {"load", "work"}
  BY <1>0, <1>2 DEF Reload, ClearJob, Proc
<1>3. ASSUME NEW j \in JobId, Reload(p, j), disk' # disk
      PROVE  [Store!StoreNext]_(Store!storeVars)
  <2>1. disk' = FilesWithout(j) /\ Expired(j)
    BY <1>3 DEF Reload, MustRemove
  <2>2. Clearing' = Clearing
    BY <1>2, <1>3 DEF Clearing
  <2> QED BY <1>0, <1>a, <2>1, <2>2, FilesRemoved
<1>4. ASSUME NEW j \in JobId, ClearJob(p, j)
      PROVE  [Store!StoreNext]_(Store!storeVars)
  <2>1. disk' = FilesWithout(j)
    BY <1>4 DEF ClearJob
  <2>2. Clearing' = Clearing
    BY <1>2, <1>4 DEF Clearing
  <2>3. Clearing
    BY <1>4 DEF ClearJob, Clearing, IInv, Actor
  <2> QED BY <1>0, <1>a, <2>1, <2>2, <2>3, FilesRemoved
<1>5. \/ disk' = disk
      \/ \E j \in JobId : Reload(p, j) \/ ClearJob(p, j)
  BY DEF Launch, StartWatchers, StartCommand, Load, Loaded, ReloadFails, End, Start, Fire,
     files
<1> QED BY <1>1, <1>3, <1>4, <1>5

LEMMA StoreSteps ==
  ASSUME IInv, [Next]_vars
  PROVE  [Store!StoreNext]_(Store!storeVars)
<1>1. CASE Tick
  <2>1. now' = now + 1 /\ UNCHANGED <<meta, disk, tool, run, proc>>
    BY <1>1 DEF Tick, files, requests, processes, executor
  <2>2. Lives' = Lives /\ Ends' = Ends
    BY <2>1, LivesKept
  <2>3. Store!Pass
    BY <2>1, <2>2 DEF Store!Pass, Clearing, Stages, Prompts
  <2> QED BY <2>3 DEF Store!StoreNext
<1>2. CASE UNCHANGED vars
  <2>1. UNCHANGED <<now, meta, disk, tool, run, proc>>
    BY <1>2 DEF vars
  <2>2. Lives' = Lives /\ Ends' = Ends
    BY <2>1, LivesKept
  <2>3. UNCHANGED <<Stages, Prompts>>
    BY <2>1 DEF Stages, Prompts
  <2> QED BY <2>1, <2>2, <2>3, NoPromptNotices
<1> QED BY <1>1, <1>2, BotAndCallers, ToolSteps, ExecutorSteps, CrashStep, ProcessSteps
        DEF Next, ProcessStep

\* For any jobs, processes, life times and crashes, a prompt is kept once, dropped
\* early only by a command that clears, taken up by any process in time only, and run
\* only while it is kept.
THEOREM ImplementsStore == Spec => StoreSpec
<1> QED
  BY InitInv, NextInv, StoreInitially, StoreSteps, PTL
     DEF Spec, StoreSpec, Store!StoreSpec
===============================================================================
