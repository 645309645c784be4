---------------------------- MODULE PromptScheduler ----------------------------
(***************************************************************************)
(* Scheduled prompts: common/tools/schedule_tool.py writes a job to disk   *)
(* and registers it with APScheduler, prompt_scheduler.py reloads, runs    *)
(* and removes jobs.  Each process that touches jobs has a scheduler of    *)
(* its own on the same files: the bot, the commands that list and clear    *)
(* the jobs (make scheduled_prompts_list / _clear), and the watchers (the  *)
(* Huey consumer or watchers_run_once), whose skills may schedule prompts  *)
(* as the bot's runs may.                                                  *)
(***************************************************************************)
EXTENDS Integers, Sequences

CONSTANTS JobId,       \* numbers in the order of their directories' names
          Bot,         \* the bot's process
          Command,     \* bound: commands to list or clear the jobs there are at a time
          Watcher,     \* bound: processes that run watchers there are at a time
          Caller,      \* the process of the run of the copilot that asks for a job
          MaxNow,      \* bound: the time, in steps of a cron period
          Life,        \* how long after its creation a job expires
          MaxCrashes,  \* bound: processes that are killed
          MaxCalls,    \* bound: starts of processes beside the bot
          None

Process == {Bot} \cup Command \cup Watcher

ASSUME BoundsAssumption == /\ MaxNow \in Nat
                           /\ Life \in Nat \ {0}
                           /\ MaxCrashes \in Nat
                           /\ MaxCalls \in Nat
ASSUME JobIdAssumption == JobId \subseteq Nat
ASSUME ProcessAssumption == /\ Bot \notin Command \cup Watcher
                            /\ Command \cap Watcher = {}
                            /\ Caller \in [JobId -> Process]
ASSUME NoneAssumption == None \notin JobId /\ None \notin Nat /\ None \notin Process

VARIABLES now,
          meta,      \* metadata.json as the tool writes it: what and until when
          disk,      \* how much of a job's directory is on disk
          tool,      \* where the schedule_prompt call of a job is
          held,      \* jobs whose caller has not ended since it asked for them
          proc,      \* the processes, and the directories they have yet to visit
          found,     \* jobs that were whole when the bot last listed them
          due,       \* each process's APScheduler jobs: their next run time
          queue,     \* its submitted runs, oldest first
          late,      \* queued runs that found the executor busy
          run,       \* the run on its executor
          missed,    \* jobs whose last submitted run was dropped as a misfire
          began,     \* one-shot jobs it has handed to the copilot
          crashes, calls

vars == <<now, meta, disk, tool, held, proc, found, due, queue, late, run, missed,
          began, crashes, calls>>
files == <<meta, disk>>
requests == <<tool, held>>
processes == <<proc, found, crashes, calls>>
executor == <<queue, late, run, missed, began>>

-------------------------------------------------------------------------------
\* A recurring job, a one-shot job of debug mode (run_at), or a cron expression
\* that is none.
Meta == [kind : {"cron", "once", "bad"}, runAt : Nat, expires : Nat]
ASSUME MetaAssumption == None \notin Meta
Disk == {"none", "prompt", "torn", "ready"}
Tool == {"off", "open", "write", "register", "over"}
Run == [job : JobId \cup {None}, pc : {"idle", "meta", "prompt", "react"}]
Proc == [pc : {"down", "load", "work", "serve"},
         mode : {"none", "bot", "list", "clear", "watch"}, todo : SUBSET JobId]

Idle == [job |-> None, pc |-> "idle"]
Down == [pc |-> "down", mode |-> "none", todo |-> {}]
Unscheduled == [j \in JobId |-> None]

Init ==
  /\ now = 0
  /\ meta = [j \in JobId |-> None]
  /\ disk = [j \in JobId |-> "none"]
  /\ tool = [j \in JobId |-> "off"]
  /\ held = {}
  /\ proc = [p \in Process |-> IF p = Bot THEN [Down EXCEPT !.pc = "serve", !.mode = "bot"]
                                         ELSE Down]
  /\ found = {}
  /\ due = [p \in Process |-> Unscheduled]
  /\ queue = [p \in Process |-> <<>>]
  /\ late = [p \in Process |-> {}]
  /\ run = [p \in Process |-> Idle]
  /\ missed = [p \in Process |-> {}]
  /\ began = [p \in Process |-> {}]
  /\ crashes = 0
  /\ calls = 0

\* in_past, for the two dates of a job.
Expired(j) == now >= meta[j].expires
RunAtPassed(j) == meta[j].kind = "once" /\ now >= meta[j].runAt

\* register_job_from_disk adds an APScheduler job unless the metadata is gone,
\* expired, a one-shot of the past or without a usable cron expression.
Registrable(j) ==
  /\ disk[j] = "ready"
  /\ ~Expired(j)
  /\ ~RunAtPassed(j)
  /\ meta[j].kind # "bad"

\* The next time a cron trigger fires is never the present.  The last step of
\* the clock stands for all later times, so a job stays due there.
NextTime == IF now < MaxNow THEN now + 1 ELSE now
FirstRun(j) == IF meta[j].kind = "once" THEN meta[j].runAt ELSE NextTime

Registered(p, j) == IF Registrable(j) THEN [due EXCEPT ![p][j] = FirstRun(j)] ELSE due

\* Bug: whatever cannot be registered is removed.
MustRemove_Unregistrable(j) == disk[j] = "ready" /\ ~Registrable(j)

MustRemove(j) == disk[j] = "ready" /\ Expired(j)
FilesWithout(j) == [disk EXCEPT ![j] = "none"]

\* A reload visits the directories there are when it begins, by name, and passes
\* over those that have no metadata.json yet when it gets to them.
Directories == {j \in JobId : disk[j] # "none"}
IsFirst(j, todo) == j \in todo /\ \A i \in todo : j <= i

-------------------------------------------------------------------------------
(* handle_schedule_prompt_call, in a run of the copilot. *)

Calling(p) == \E j \in held : Caller[j] = p /\ tool[j] # "over"

\* The threads of the bot's listeners and the one worker of the watchers make such
\* calls.  The directory and prompt.txt are one step: without metadata.json nothing
\* that reads the directory tells whether the prompt is in it.
MakeDirectory(j) ==
  /\ proc[Caller[j]].pc = "serve"
  /\ Caller[j] = Bot \/ ~Calling(Caller[j])
  /\ tool[j] = "off"
  /\ tool' = [tool EXCEPT ![j] = "open"]
  /\ held' = held \cup {j}
  /\ disk' = [disk EXCEPT ![j] = "prompt"]
  /\ UNCHANGED <<now, meta, processes, due, executor>>

\* A write into a directory that the command line has removed raises.
DirectoryGone(j) ==
  /\ tool[j] = "open"
  /\ disk[j] = "none"
  /\ tool' = [tool EXCEPT ![j] = "over"]
  /\ UNCHANGED <<now, files, held, processes, due, executor>>

\* write_text first creates the empty file.
OpenMetadata(j, kind) ==
  /\ tool[j] = "open"
  /\ disk[j] = "prompt"
  /\ kind \in {"cron", "once", "bad"}
  /\ tool' = [tool EXCEPT ![j] = "write"]
  /\ disk' = [disk EXCEPT ![j] = "torn"]
  /\ meta' = [meta EXCEPT ![j] =
                [kind |-> kind, runAt |-> now + 1, expires |-> now + Life]]
  /\ UNCHANGED <<now, held, processes, due, executor>>

\* A file that was unlinked meanwhile takes the text and is gone all the same.
WriteMetadata(j) ==
  /\ tool[j] = "write"
  /\ tool' = [tool EXCEPT ![j] = "register"]
  /\ disk' = [disk EXCEPT ![j] = IF @ = "torn" THEN "ready" ELSE @]
  /\ UNCHANGED <<now, meta, held, processes, due, executor>>

\* With the scheduler of the process that made it, and with no other.  The tool
\* says "scheduled" whatever register_job_from_disk did.
Register(j) ==
  /\ tool[j] = "register"
  /\ tool' = [tool EXCEPT ![j] = "over"]
  /\ disk' = IF MustRemove(j) THEN FilesWithout(j) ELSE disk
  /\ due' = Registered(Caller[j], j)
  /\ UNCHANGED <<now, meta, held, processes, executor>>

-------------------------------------------------------------------------------
(* APScheduler: a BackgroundScheduler with a ThreadPoolExecutor(1). *)

InFlight(p, j) == run[p].job = j \/ \E i \in 1..Len(queue[p]) : queue[p][i] = j

\* Bug: a job that still runs is submitted again.
Fire_Again(p, j) ==
  /\ proc[p].pc # "down"
  /\ due[p][j] # None
  /\ due[p][j] <= now
  /\ due' = [due EXCEPT ![p][j] = IF meta[j].kind = "once" THEN None ELSE NextTime]
  /\ queue' = [queue EXCEPT ![p] = Append(@, j)]
  /\ late' = IF run[p].job # None \/ queue[p] # <<>>
             THEN [late EXCEPT ![p] = @ \cup {j}] ELSE late
  /\ UNCHANGED <<now, files, requests, processes, run, missed, began>>

\* Bug: a one-shot job stays scheduled after its run time.
Fire_Recurring(p, j) ==
  /\ proc[p].pc # "down"
  /\ due[p][j] # None
  /\ due[p][j] <= now
  /\ ~InFlight(p, j)
  /\ due' = [due EXCEPT ![p][j] = NextTime]
  /\ queue' = [queue EXCEPT ![p] = Append(@, j)]
  /\ UNCHANGED <<now, files, requests, processes, late, run, missed, began>>

\* The scheduler thread submits a due job, once for all the run times that have
\* passed, and not while an earlier run of it is in flight (max_instances).
Fire(p, j) ==
  /\ proc[p].pc # "down"
  /\ due[p][j] # None
  /\ due[p][j] <= now
  /\ due' = [due EXCEPT ![p][j] = IF meta[j].kind = "once" THEN None ELSE NextTime]
  /\ \/ InFlight(p, j) /\ UNCHANGED <<queue, late, missed>>
     \/ /\ ~InFlight(p, j)
        /\ queue' = [queue EXCEPT ![p] = Append(@, j)]
        /\ late' = IF run[p].job # None \/ queue[p] # <<>>
                   THEN [late EXCEPT ![p] = @ \cup {j}] ELSE late
        /\ missed' = [missed EXCEPT ![p] = @ \ {j}]
  /\ UNCHANGED <<now, files, requests, processes, run, began>>

Take(p) ==
  /\ run[p] = Idle
  /\ queue[p] # <<>>
  /\ run' = [run EXCEPT ![p] = [job |-> Head(queue[p]), pc |-> "meta"]]
  /\ queue' = [queue EXCEPT ![p] = Tail(@)]
  /\ late' = [late EXCEPT ![p] = @ \ {Head(queue[p])}]
  /\ UNCHANGED <<now, files, requests, processes, due, missed, began>>

\* A run that waited behind another for more than misfire_grace_time, which is
\* one second by default, is dropped.
Misfire(p) ==
  /\ run[p] = Idle
  /\ queue[p] # <<>>
  /\ Head(queue[p]) \in late[p]
  /\ queue' = [queue EXCEPT ![p] = Tail(@)]
  /\ late' = [late EXCEPT ![p] = @ \ {Head(queue[p])}]
  /\ missed' = [missed EXCEPT ![p] = @ \cup {Head(queue[p])}]
  /\ UNCHANGED <<now, files, requests, processes, due, run, began>>

-------------------------------------------------------------------------------
(* run_scheduled_prompt, on the executor of a process. *)

\* The run is over, or has raised: APScheduler logs that, and the job stays.
Return(p) == run' = [run EXCEPT ![p] = Idle] /\ UNCHANGED <<disk, due>>

\* remove_job, which knows the scheduler of its own process only.
Remove(p) ==
  /\ disk' = FilesWithout(run[p].job)
  /\ due' = [due EXCEPT ![p][run[p].job] = None]
  /\ run' = [run EXCEPT ![p] = Idle]

GoOn(p, pc) == run' = [run EXCEPT ![p].pc = pc] /\ UNCHANGED <<disk, due>>

\* Bug: the expiry is only checked when a job is registered.
ReadMetadata_Late(p) ==
  /\ run[p].pc = "meta"
  /\ IF disk[run[p].job] = "none" THEN Return(p) \/ Remove(p) ELSE GoOn(p, "prompt")
  /\ UNCHANGED <<now, meta, requests, processes, queue, late, missed, began>>

\* A metadata.json that is gone is missed when it is looked for, or raises when it
\* is read.  One that is there is compared with the clock.
ReadMetadata(p) ==
  LET j == run[p].job
  IN  /\ run[p].pc = "meta"
      /\ \/ disk[j] = "none" /\ (Remove(p) \/ Return(p))
         \/ disk[j] # "none" /\ Expired(j) /\ Remove(p)
         \/ disk[j] # "none" /\ ~Expired(j) /\ GoOn(p, "prompt")
      /\ UNCHANGED <<now, meta, requests, processes, queue, late, missed, began>>

\* Bug: a prompt that was read with the metadata runs though it was cleared since.
ReadPrompt_Cleared(p) ==
  /\ run[p].pc = "prompt"
  /\ GoOn(p, "react")
  /\ UNCHANGED <<now, meta, requests, processes, queue, late, missed, began>>

\* The prompt goes to run_react_and_confirm, with schedule_prompt excluded: by now
\* it may have expired.  A prompt.txt that is gone is missed or raises as above.
ReadPrompt(p) ==
  LET j == run[p].job
  IN  /\ run[p].pc = "prompt"
      /\ \/ /\ disk[j] = "none"
            /\ Remove(p) \/ Return(p)
            /\ UNCHANGED began
         \/ /\ disk[j] # "none"
            /\ GoOn(p, "react")
            /\ began' = IF meta[j].kind = "once" THEN [began EXCEPT ![p] = @ \cup {j}]
                                                 ELSE began
      /\ UNCHANGED <<now, meta, requests, processes, queue, late, missed>>

EndRun(p) ==
  /\ run[p].pc = "react"
  /\ Return(p)
  /\ UNCHANGED <<now, meta, requests, processes, queue, late, missed, began>>

-------------------------------------------------------------------------------
(* The processes. *)

\* A process whose main thread has ended still works off its executor's queue.
Alive(p) == proc[p].pc # "down" \/ queue[p] # <<>> \/ run[p] # Idle

\* The main thread of a process ends, and its scheduler with it.
Stop(p) ==
  /\ proc' = [proc EXCEPT ![p] = Down]
  /\ due' = [due EXCEPT ![p] = Unscheduled]
  /\ held' = {j \in held : Caller[j] # p}
  /\ found' = IF p = Bot THEN {} ELSE found

Crash(p) ==
  /\ Alive(p)
  /\ crashes < MaxCrashes
  /\ crashes' = crashes + 1
  /\ Stop(p)
  /\ tool' = [j \in JobId |-> IF j \in held \ held' THEN "over" ELSE tool[j]]
  /\ queue' = [queue EXCEPT ![p] = <<>>]
  /\ late' = [late EXCEPT ![p] = {}]
  /\ run' = [run EXCEPT ![p] = Idle]
  /\ missed' = [missed EXCEPT ![p] = {}]
  /\ UNCHANGED <<now, files, began, calls>>

\* start(): the scheduler runs, then reload_jobs_from_disk lists the directories.
Start ==
  /\ ~Alive(Bot)
  /\ proc' = [proc EXCEPT ![Bot] = [pc |-> "load", mode |-> "bot", todo |-> Directories]]
  /\ found' = {j \in JobId : disk[j] = "ready"}
  /\ UNCHANGED <<now, files, requests, due, executor, crashes, calls>>

\* The commands to list and to clear the jobs load them first.
StartCommand(p, mode) ==
  /\ p \in Command
  /\ ~Alive(p)
  /\ calls < MaxCalls
  /\ calls' = calls + 1
  /\ mode \in {"list", "clear"}
  /\ proc' = [proc EXCEPT ![p] = [pc |-> "load", mode |-> mode, todo |-> Directories]]
  /\ UNCHANGED <<now, files, requests, found, due, executor, crashes>>

\* The watchers load none: they have a scheduler once a skill schedules a prompt.
StartWatchers(p) ==
  /\ p \in Watcher
  /\ ~Alive(p)
  /\ calls < MaxCalls
  /\ calls' = calls + 1
  /\ proc' = [proc EXCEPT ![p] = [pc |-> "serve", mode |-> "watch", todo |-> {}]]
  /\ UNCHANGED <<now, files, requests, found, due, executor, crashes>>

\* Bug: the reload ends at a job it does not register.
Reload_StopsEarly(p, j) ==
  /\ proc[p].pc = "load"
  /\ IsFirst(j, proc[p].todo)
  /\ disk[j] # "torn"
  /\ proc' = [proc EXCEPT ![p].todo = IF Registrable(j) THEN @ \ {j} ELSE {}]
  /\ disk' = IF MustRemove(j) THEN FilesWithout(j) ELSE disk
  /\ due' = Registered(p, j)
  /\ UNCHANGED <<now, meta, requests, found, executor, crashes, calls>>

Reload(p, j) ==
  /\ proc[p].pc = "load"
  /\ IsFirst(j, proc[p].todo)
  /\ disk[j] # "torn"
  /\ proc' = [proc EXCEPT ![p].todo = @ \ {j}]
  /\ disk' = IF MustRemove(j) THEN FilesWithout(j) ELSE disk
  /\ due' = Registered(p, j)
  /\ UNCHANGED <<now, meta, requests, found, executor, crashes, calls>>

\* json.loads raises on a torn file, out of start() or the command: the process
\* ends, after the runs it has submitted.
ReloadFails(p, j) ==
  /\ proc[p].pc = "load"
  /\ IsFirst(j, proc[p].todo)
  /\ disk[j] = "torn"
  /\ Stop(p)
  /\ UNCHANGED <<now, files, tool, executor, crashes, calls>>

\* All are loaded: the bot serves, the jobs are printed, or their directories
\* removed one by one.
Loaded(p) ==
  /\ proc[p].pc = "load"
  /\ proc[p].todo = {}
  /\ proc' = [proc EXCEPT ![p].pc = IF p = Bot THEN "serve" ELSE "work",
                          ![p].todo = IF proc[p].mode = "clear" THEN Directories ELSE {}]
  /\ UNCHANGED <<now, files, requests, found, due, executor, crashes, calls>>

ClearJob(p, j) ==
  /\ proc[p].pc = "work"
  /\ j \in proc[p].todo
  /\ proc' = [proc EXCEPT ![p].todo = @ \ {j}]
  /\ due' = [due EXCEPT ![p][j] = None]
  /\ disk' = FilesWithout(j)
  /\ UNCHANGED <<now, meta, requests, found, executor, crashes, calls>>

\* A command has done its work (shutdown_scheduler), or the watchers are through
\* with their sweep or stopped between two.
End(p) ==
  /\ p # Bot
  /\ proc[p].pc \in {"work", "serve"}
  /\ proc[p].todo = {}
  /\ ~Calling(p)
  /\ Stop(p)
  /\ UNCHANGED <<now, files, tool, executor, crashes, calls>>

-------------------------------------------------------------------------------
Tick ==
  /\ now < MaxNow
  /\ now' = now + 1
  /\ UNCHANGED <<files, requests, processes, due, executor>>

ToolStep(j) ==
  \/ MakeDirectory(j) \/ DirectoryGone(j) \/ WriteMetadata(j) \/ Register(j)
  \/ \E kind \in {"cron", "once", "bad"} : OpenMetadata(j, kind)

Executor(p) ==
  \/ Take(p) \/ Misfire(p)
  \/ ReadMetadata(p) \/ ReadPrompt(p) \/ EndRun(p)

Load(p) == Loaded(p) \/ \E j \in JobId : Reload(p, j) \/ ReloadFails(p, j)

Launch(p) == StartWatchers(p) \/ \E mode \in {"list", "clear"} : StartCommand(p, mode)

ProcessStep(p) ==
  \/ Crash(p) \/ Launch(p) \/ Load(p) \/ End(p) \/ Executor(p)
  \/ \E j \in JobId : Fire(p, j) \/ ClearJob(p, j)

Next ==
  \/ Tick \/ Start
  \/ \E p \in Process : ProcessStep(p)
  \/ \E j \in JobId : ToolStep(j)

Spec == Init /\ [][Next]_vars

\* Time passes, and the bot's scheduler and its executor keep running.  The requests,
\* the other processes and crashes are not to be counted on.
FairSpec ==
  /\ Spec
  /\ WF_vars(Tick)
  /\ WF_vars(Executor(Bot))
  /\ \A j \in JobId : WF_vars(Fire(Bot, j))

\* And the bot is started again after it went down.
RestartedSpec == FairSpec /\ WF_vars(Start \/ Load(Bot))
===============================================================================
