------------------------------- MODULE Watchers -------------------------------
(***************************************************************************)
(* Watchers: a tool confirmation enqueues a Huey task in SQLite; the       *)
(* consumer process takes the tasks one at a time and each sweeps over all *)
(* watchers (common/watchers/watchers.py), running the skill of a watcher  *)
(* on the first thread of its channel that passes the filters.  The        *)
(* command watchers_run_once sweeps in a process of its own.               *)
(***************************************************************************)
EXTENDS Integers, Sequences, FiniteSets

CONSTANTS Watcher,
          Threads,      \* how many threads the channel has, oldest first
          Threshold,    \* thread_had_more_than_x_messages_since_last_skill_run
          Wake,         \* bound: tasks enqueued by tool confirmations
          MaxSize,      \* bound: messages in a thread
          MaxCrashes,   \* bound: crashes of the consumer
          MaxCommands,  \* bound: invocations of watchers_run_once
          None

Thread == 1..Threads
Worker == "worker"
Command == "command"
Sweeper == {Worker, Command}

ASSUME BoundsAssumption == /\ Threads \in Nat
                           /\ Threshold \in Nat
                           /\ MaxSize \in Nat \ {0}
                           /\ MaxCrashes \in Nat
                           /\ MaxCommands \in Nat
ASSUME NoneAssumption == None \notin Watcher \cup Wake \cup Nat

VARIABLES size,     \* messages in each thread
          hot,      \* threads whose last message is younger than the quiet time
          tasks,    \* the Huey queue
          lock,     \* the Huey lock "watchers": the task that holds it
          sweeps,   \* what the worker and the command are doing
          fate,     \* what has become of each wake
          fired,    \* how often a watcher ran its skill
          up,       \* whether the consumer process runs
          crashes, commands

vars == <<size, hot, tasks, lock, sweeps, fate, fired, up, crashes, commands>>
slack == <<size, hot>>
bounds == <<crashes, commands>>

\* A sweep: the watchers it has yet to evaluate, the one it is at, the threads
\* of the channel it has yet to look at (None before the channel is read), the
\* watchers whose evaluation is over and the threads picked for them.
Sweep == [pc : {"idle", "load", "next", "scan", "skill", "end"},
          wake : Wake \cup {None}, todo : SUBSET Watcher,
          watcher : Watcher \cup {None}, left : SUBSET Thread,
          thread : Thread \cup {None}, done : SUBSET Watcher,
          picked : [Watcher -> SUBSET Thread]]

Fate == {"none", "queued", "running", "swept", "dropped", "lost"}

Idle == [pc |-> "idle", wake |-> None, todo |-> {}, watcher |-> None, left |-> {},
         thread |-> None, done |-> {}, picked |-> [w \in Watcher |-> {}]]

Init ==
  /\ size \in [Thread -> 1..MaxSize]
  /\ hot = {}
  /\ tasks = <<>>
  /\ lock = None
  /\ sweeps = [p \in Sweeper |-> Idle]
  /\ fate = [k \in Wake |-> "none"]
  /\ fired = [w \in Watcher |-> 0]
  /\ up = TRUE
  /\ crashes = 0
  /\ commands = 0

\* The skill_runs collection: nothing in the program writes a row to it, so
\* find_latest_run finds none and there is no last run to count from.
LastRun(w, t) == None

\* The filter chain, on what is read of the thread.
DidntRunFor(w, t) == LastRun(w, t) = None
MessagesSince(w, t) == size[t]    \* all of them: there is no last run
Passes(w, t) == /\ DidntRunFor(w, t)
                /\ MessagesSince(w, t) > Threshold
                /\ t \notin hot

Newest(left) == CHOOSE t \in left : \A u \in left : u <= t

-------------------------------------------------------------------------------
(* The queue. *)

\* dispatch_watchers_async, from a confirmation.
Enqueue(k) ==
  /\ fate[k] = "none"
  /\ tasks' = Append(tasks, k)
  /\ fate' = [fate EXCEPT ![k] = "queued"]
  /\ UNCHANGED <<slack, lock, sweeps, fired, up, bounds>>

\* The consumer's only worker takes a task, and off the queue, and the lock.
\* A task that finds the lock taken raises TaskLockedException and is dropped.
Dequeue ==
  /\ up
  /\ sweeps[Worker].pc = "idle"
  /\ tasks # <<>>
  /\ tasks' = Tail(tasks)
  /\ \/ /\ lock = None
        /\ lock' = Head(tasks)
        /\ fate' = [fate EXCEPT ![Head(tasks)] = "running"]
        /\ sweeps' = [sweeps EXCEPT ![Worker] =
                        [Idle EXCEPT !.pc = "load", !.wake = Head(tasks)]]
     \/ /\ lock # None
        /\ fate' = [fate EXCEPT ![Head(tasks)] = "dropped"]
        /\ UNCHANGED <<lock, sweeps>>
  /\ UNCHANGED <<slack, fired, up, bounds>>

\* make watchers_run_once: no queue, no lock.
RunOnce ==
  /\ sweeps[Command].pc = "idle"
  /\ commands < MaxCommands
  /\ commands' = commands + 1
  /\ sweeps' = [sweeps EXCEPT ![Command] = [Idle EXCEPT !.pc = "load"]]
  /\ UNCHANGED <<slack, tasks, lock, fate, fired, up, crashes>>

-------------------------------------------------------------------------------
(* A sweep of p: run_all_watchers and run_watchers_for_trigger. *)

\* load_all.
Load(p) ==
  /\ sweeps[p].pc = "load"
  /\ sweeps' = [sweeps EXCEPT ![p].pc = "next", ![p].todo = Watcher]
  /\ UNCHANGED <<slack, tasks, lock, fate, fired, up, bounds>>

\* The history of the watcher's channel: each thread in it once, newest first.
ReadChannel(p, w) ==
  /\ sweeps[p].pc = "next"
  /\ w \in sweeps[p].todo
  /\ sweeps' = [sweeps EXCEPT ![p].pc = "scan", ![p].watcher = w,
                  ![p].todo = @ \ {w}, ![p].left = Thread]
  /\ UNCHANGED <<slack, tasks, lock, fate, fired, up, bounds>>

\* The newest thread that is left passes, or the next one is looked at.
ReadThread(p) ==
  LET s == sweeps[p]
      t == Newest(s.left)
  IN  /\ s.pc = "scan"
      /\ s.left # {}
      /\ sweeps' = [sweeps EXCEPT ![p] =
           IF Passes(s.watcher, t)
           THEN [s EXCEPT !.pc = "skill", !.thread = t, !.left = {},
                          !.picked = [@ EXCEPT ![s.watcher] = s.picked[s.watcher] \cup {t}]]
           ELSE [s EXCEPT !.left = @ \ {t}]]
      /\ UNCHANGED <<slack, tasks, lock, fate, fired, up, bounds>>

NoneEligible(p) ==
  /\ sweeps[p].pc = "scan"
  /\ sweeps[p].left = {}
  /\ sweeps' = [sweeps EXCEPT ![p].pc = "next", ![p].watcher = None,
                  ![p].done = @ \cup {sweeps[p].watcher}]
  /\ UNCHANGED <<slack, tasks, lock, fate, fired, up, bounds>>

\* Bug: the sweep goes on to the watcher's next thread.
RunSkill_GoesOn(p) ==
  LET s == sweeps[p]
  IN  /\ s.pc = "skill"
      /\ fired' = [fired EXCEPT ![s.watcher] = @ + 1]
      /\ sweeps' = [sweeps EXCEPT ![p].pc = "scan", ![p].thread = None,
                      ![p].left = {u \in Thread : u < s.thread}]
      /\ UNCHANGED <<slack, tasks, lock, fate, up, bounds>>

\* run_react_and_confirm with the watcher's skill; it may show a card, and
\* returns whatever happens.  It writes nothing down about the thread.
RunSkill(p) ==
  LET s == sweeps[p]
  IN  /\ s.pc = "skill"
      /\ fired' = [fired EXCEPT ![s.watcher] = @ + 1]
      /\ sweeps' = [sweeps EXCEPT ![p].pc = "next", ![p].watcher = None,
                      ![p].thread = None, ![p].done = @ \cup {s.watcher}]
      /\ UNCHANGED <<slack, tasks, lock, fate, up, bounds>>

\* Bug: an exception ends the sweep.
Raise_Ends(p) ==
  /\ sweeps[p].pc \in {"scan", "skill"}
  /\ sweeps' = [sweeps EXCEPT ![p].pc = "end", ![p].watcher = None,
                  ![p].thread = None, ![p].left = {}, ![p].todo = {},
                  ![p].done = @ \cup {sweeps[p].watcher}]
  /\ UNCHANGED <<slack, tasks, lock, fate, fired, up, bounds>>

\* Slack refuses a call: the failure is logged and the next watcher is next.
Raise(p) ==
  /\ sweeps[p].pc \in {"scan", "skill"}
  /\ sweeps' = [sweeps EXCEPT ![p].pc = "next", ![p].watcher = None,
                  ![p].thread = None, ![p].left = {},
                  ![p].done = @ \cup {sweeps[p].watcher}]
  /\ UNCHANGED <<slack, tasks, lock, fate, fired, up, bounds>>

SweepEnds(p) ==
  /\ sweeps[p].pc = "next"
  /\ sweeps[p].todo = {}
  /\ sweeps' = [sweeps EXCEPT ![p].pc = "end"]
  /\ UNCHANGED <<slack, tasks, lock, fate, fired, up, bounds>>

\* Bugs: the lock outlives its task; the worker never gets to the next one.
Finish_KeepsLock(p) ==
  /\ sweeps[p].pc = "end"
  /\ sweeps' = [sweeps EXCEPT ![p] = Idle]
  /\ fate' = IF p = Worker THEN [fate EXCEPT ![sweeps[p].wake] = "swept"] ELSE fate
  /\ UNCHANGED <<slack, tasks, lock, fired, up, bounds>>
Finish_Never(p) == p = Command /\ FALSE

\* The task is over and gives the lock back.
Finish(p) ==
  /\ sweeps[p].pc = "end"
  /\ sweeps' = [sweeps EXCEPT ![p] = Idle]
  /\ \/ /\ p = Worker
        /\ lock' = None
        /\ fate' = [fate EXCEPT ![sweeps[p].wake] = "swept"]
     \/ /\ p = Command
        /\ UNCHANGED <<lock, fate>>
  /\ UNCHANGED <<slack, tasks, fired, up, bounds>>

-------------------------------------------------------------------------------
(* The world around the sweeps. *)

\* Someone writes in a thread; later it has been quiet for long enough.
WriteIn(t) ==
  /\ size[t] < MaxSize
  /\ size' = [size EXCEPT ![t] = @ + 1]
  /\ hot' = hot \cup {t}
  /\ UNCHANGED <<tasks, lock, sweeps, fate, fired, up, bounds>>

Settle(t) ==
  /\ t \in hot
  /\ hot' = hot \ {t}
  /\ UNCHANGED <<size, tasks, lock, sweeps, fate, fired, up, bounds>>

\* The consumer is killed.  The queue and the lock are rows of a SQLite file and
\* stay; huey_consumer is started without --flush-locks.
Crash ==
  /\ up
  /\ crashes < MaxCrashes
  /\ crashes' = crashes + 1
  /\ up' = FALSE
  /\ sweeps' = [sweeps EXCEPT ![Worker] = Idle]
  /\ fate' = [k \in Wake |-> IF fate[k] = "running" THEN "lost" ELSE fate[k]]
  /\ UNCHANGED <<slack, tasks, lock, fired, commands>>

Start ==
  /\ ~up
  /\ up' = TRUE
  /\ UNCHANGED <<slack, tasks, lock, sweeps, fate, fired, bounds>>

-------------------------------------------------------------------------------
SweepStep(p) ==
  \/ Load(p) \/ ReadThread(p) \/ NoneEligible(p) \/ RunSkill(p) \/ Raise(p)
  \/ SweepEnds(p) \/ Finish(p)
  \/ \E w \in Watcher : ReadChannel(p, w)

Next ==
  \/ Dequeue \/ RunOnce \/ Crash \/ Start
  \/ \E p \in Sweeper : SweepStep(p)
  \/ \E k \in Wake : Enqueue(k)
  \/ \E t \in Thread : WriteIn(t) \/ Settle(t)

Spec == Init /\ [][Next]_vars

\* The consumer's worker keeps working and the consumer is started again.
FairSpec ==
  Spec /\ WF_vars(Dequeue) /\ WF_vars(Start) /\ WF_vars(SweepStep(Worker))
===============================================================================
