-------------------------- MODULE PromptSchedulerProps --------------------------
(* What scheduled prompts must never do, and what must become of them. *)
EXTENDS PromptScheduler

\* The variables hold the kinds of values the code keeps in them, and a job is
\* in flight once at most in each process.
TypeOK ==
  /\ now \in 0..MaxNow
  /\ meta \in [JobId -> Meta \cup {None}]
  /\ disk \in [JobId -> Disk]
  /\ tool \in [JobId -> Tool]
  /\ held \subseteq JobId
  /\ proc \in [Process -> Proc]
  /\ found \subseteq JobId
  /\ due \in [Process -> [JobId -> Nat \cup {None}]]
  /\ queue \in [Process -> Seq(JobId)]
  /\ late \in [Process -> SUBSET JobId]
  /\ run \in [Process -> Run]
  /\ missed \in [Process -> SUBSET JobId]
  /\ began \in [Process -> SUBSET JobId]
  /\ crashes \in 0..MaxCrashes
  /\ calls \in 0..MaxCalls
  /\ \A p \in Process :
       /\ \A i, k \in 1..Len(queue[p]) : queue[p][i] = queue[p][k] => i = k
       /\ \A i \in 1..Len(queue[p]) : queue[p][i] # run[p].job

\* A job on disk that can still run is registered with the process that made it,
\* as long as that lives, and with the bot once it serves if the job was whole when
\* the bot started: whatever crashed, reloaded, fired or was removed beside it.  (A
\* job whose process has ended is on no schedule until the bot starts again.)
JobsOnDiskAreRegistered ==
  \A j \in JobId :
    Registrable(j) /\ tool[j] # "register" =>
      /\ j \in held => due[Caller[j]][j] # None
      /\ proc[Bot].pc = "serve" /\ j \in found => due[Bot][j] # None

\* A process hands a one-shot prompt to the copilot once at most, through queueing,
\* reloads, crashes and restarts; two processes that both have it may each do so.
OneShotsRunOnce ==
  [][\A p \in Process :
       run[p].pc = "prompt" /\ run'[p].pc = "react" /\ meta[run[p].job].kind = "once"
         => run[p].job \notin began[p]]_vars

Clearing == \E p \in Process : proc[p].pc = "work" /\ proc[p].mode = "clear"

\* The files of a job that has not expired are only removed by the command to
\* clear them: no reload, run, restart or listing takes a live job away.
KeptUntilExpiry ==
  [][\A j \in JobId :
       disk[j] = "ready" /\ ~Expired(j) /\ disk'[j] # "ready" => Clearing]_vars

\* A prompt's life is told by its files and, until metadata.json is whole, by the
\* call that writes them.
LifeOf(j) ==
  CASE disk[j] = "ready" -> "kept"
    [] disk[j] # "ready" /\ tool[j] \in {"off", "open"} -> "new"
    [] disk[j] # "ready" /\ tool[j] = "write" -> "asked"
    [] OTHER -> "gone"
Lives == [j \in JobId |-> LifeOf(j)]
Ends == [j \in JobId |-> IF meta[j] = None THEN None ELSE meta[j].expires]
Stages == [p \in Process |-> CASE run[p].pc = "prompt" -> "taken"
                               [] run[p].pc = "react" -> "running"
                               [] OTHER -> "idle"]
Prompts == [p \in Process |-> IF run[p].pc \in {"prompt", "react"} THEN run[p].job ELSE None]

Store == INSTANCE PromptStore WITH Runner <- Process, clock <- now, life <- Lives,
                                   ends <- Ends, clearing <- Clearing,
                                   stage <- Stages, prompt <- Prompts

\* The tool calls, the files and the schedulers of all processes, through crashes
\* and reloads, keep a prompt once, drop it early only for the command that clears,
\* and run only what was taken up in time and is still kept.
StoreSpec == Store!StoreSpec

\* A recurring job of the bot that has expired is removed by its next run, unless
\* that run is dropped or the bot goes down.
ExpiredJobsLeave ==
  \A j \in JobId :
    due[Bot][j] # None /\ disk[j] = "ready" /\ meta[j].kind = "cron" /\ Expired(j)
      ~> disk[j] = "none" \/ j \in missed[Bot] \/ proc[Bot].pc = "down"

-------------------------------------------------------------------------------
(* What the repository says and the code does not do. *)

\* PRD.md: jobs are reloaded from disk on restart; a bot that starts gets there.
RestartsIntoService == proc[Bot].pc = "load" ~> proc[Bot].pc = "serve"
===============================================================================
