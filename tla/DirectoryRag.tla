----------------------------- MODULE DirectoryRag -----------------------------
(***************************************************************************)
(* The index of the workspace's members and user groups,                   *)
(* slack_directory_rag.py: built at the start of the bot, rebuilt daily by *)
(* a thread that is only started when the index is ready then, and built   *)
(* by a list_users call that finds it missing.  Builds are serialised by a *)
(* lock; whether one is needed is asked, and searches are made, without it. *)
(***************************************************************************)
EXTENDS Integers

CONSTANTS Person, Group,  \* the members and user groups there may be
          Call,           \* bound: list_users calls
          MaxChanges,     \* bound: changes of the directory in Slack
          MaxFailures,    \* bound: calls to Slack, the embedder or Qdrant that raise
          MaxRestarts,    \* bound: restarts of the bot
          None

ASSUME EntriesAssumption == Person \cap Group = {}
ASSUME BoundsAssumption == /\ MaxChanges \in Nat
                           /\ MaxFailures \in Nat
                           /\ MaxRestarts \in Nat
ASSUME NoneAssumption == /\ {"main", "loop"} \cap Call = {}
                         /\ None \notin Call \cup {"main", "loop"}
                         /\ \A docs \in SUBSET (Person \cup Group) : docs # None

Listed == Person \cup Group
Thread == {"main", "loop"} \cup Call

VARIABLES directory,  \* who is listed in Slack
          scope,      \* whether the app has the scopes to list them
          exists,     \* whether the collection is there
          copies,     \* how often it holds a document
          lock,       \* the thread that holds _build_lock
          jobs,       \* what each thread is doing
          last,       \* the documents of the last build that was finished
          spoiled,    \* a later one ended after it had deleted the collection
          changes, failures, restarts

vars == <<directory, scope, exists, copies, lock, jobs, last, spoiled, changes,
          failures, restarts>>
slack == <<directory, scope>>
index == <<exists, copies>>
history == <<last, spoiled>>
bounds == <<changes, failures, restarts>>

-------------------------------------------------------------------------------
Rebuilding == {"create", "upsert"}  \* the old collection is gone
Building == {"users", "groups", "delete"} \cup Rebuilding
PC == Building \cup {"off", "check", "wait", "release", "up", "sleep",
                     "search", "query", "done", "lost"}

\* A thread's locals: the documents it collected, and why its build raised.
JobInfo == [pc : PC, docs : SUBSET Listed, failed : {"no", "scope", "error"}]
Resting(pc) == [pc |-> pc, docs |-> {}, failed |-> "no"]

NoCopies == [e \in Listed |-> 0]
Indexed == {e \in Listed : copies[e] > 0}

Init ==
  /\ directory \in SUBSET Listed
  /\ scope \in BOOLEAN
  /\ exists = FALSE
  /\ copies = NoCopies
  /\ lock = None
  /\ jobs = [t \in Thread |-> Resting(IF t = "main" THEN "check" ELSE "off")]
  /\ last = None
  /\ spoiled = FALSE
  /\ changes = 0
  /\ failures = 0
  /\ restarts = 0

Goto(t, pc) == jobs' = [jobs EXCEPT ![t].pc = pc]

Looping == jobs["loop"].pc # "off"
Serving == jobs["main"].pc = "up"

-------------------------------------------------------------------------------
(* Who builds, and when. *)

Ask(c) ==
  /\ Serving
  /\ c \in Call
  /\ jobs[c].pc = "off"
  /\ Goto(c, "check")
  /\ UNCHANGED <<slack, index, lock, history, bounds>>

\* schedule_daily_refresh, when the index is ready at the start.
StartLoop ==
  jobs' = [jobs EXCEPT !["main"] = Resting("up"), !["loop"] = Resting("sleep")]

\* build_if_missing asks without the lock.
Check(t) ==
  /\ jobs[t].pc = "check"
  /\ IF ~exists THEN Goto(t, "wait")
     ELSE IF t = "main" THEN StartLoop ELSE Goto(t, "search")
  /\ UNCHANGED <<slack, index, lock, history, bounds>>

\* A day is over.
Tick ==
  /\ jobs["loop"].pc = "sleep"
  /\ Goto("loop", "wait")
  /\ UNCHANGED <<slack, index, lock, history, bounds>>

-------------------------------------------------------------------------------
(* build. *)

\* Bug: builds are not serialised.
Acquire_Never(t) ==
  /\ jobs[t].pc = "wait"
  /\ Goto(t, "users")
  /\ UNCHANGED <<slack, index, lock, history, bounds>>

\* Bug: the collection is deleted before the new documents are collected.
Acquire_Deletes(t) ==
  /\ jobs[t].pc = "wait"
  /\ lock = None
  /\ lock' = t
  /\ exists' = FALSE
  /\ copies' = NoCopies
  /\ Goto(t, "users")
  /\ UNCHANGED <<slack, history, bounds>>

\* Whoever waited builds too, whether or not it is still needed.
Acquire(t) ==
  /\ jobs[t].pc = "wait"
  /\ lock = None
  /\ lock' = t
  /\ Goto(t, "users")
  /\ UNCHANGED <<slack, index, history, bounds>>

\* users_list, then usergroups_list.
Collect(t, pc, kind, next) ==
  /\ jobs[t].pc = pc
  /\ scope
  /\ jobs' = [jobs EXCEPT ![t].pc = next, ![t].docs = @ \cup (directory \cap kind)]
  /\ UNCHANGED <<slack, index, lock, history, bounds>>

CollectUsers(t) == Collect(t, "users", Person, "groups")
CollectGroups(t) == Collect(t, "groups", Group, "delete")

MissingScope(t) ==
  /\ jobs[t].pc \in {"users", "groups"}
  /\ ~scope
  /\ jobs' = [jobs EXCEPT ![t] = [Resting("release") EXCEPT !.failed = "scope"]]
  /\ UNCHANGED <<slack, index, lock, history, bounds>>

\* Bug: a rebuild adds to what is there.
Delete_Skipped(t) ==
  /\ jobs[t].pc = "delete"
  /\ Goto(t, "create")
  /\ UNCHANGED <<slack, index, lock, history, bounds>>

Delete(t) ==
  /\ jobs[t].pc = "delete"
  /\ exists' = FALSE
  /\ copies' = NoCopies
  /\ Goto(t, "create")
  /\ UNCHANGED <<slack, lock, history, bounds>>

Finish(t) ==
  /\ jobs' = [jobs EXCEPT ![t] = Resting("release")]
  /\ last' = jobs[t].docs
  /\ spoiled' = FALSE

Create(t) ==
  /\ jobs[t].pc = "create"
  /\ exists' = TRUE
  /\ \/ jobs[t].docs = {} /\ Finish(t)
     \/ jobs[t].docs # {} /\ Goto(t, "upsert") /\ UNCHANGED history
  /\ UNCHANGED <<slack, copies, lock, bounds>>

\* Every document gets a new id: one more copy, whatever is there.
Add(docs) ==
  copies' = [e \in Listed |-> IF e \in docs THEN copies[e] + 1 ELSE copies[e]]

Upsert(t) ==
  /\ jobs[t].pc = "upsert"
  /\ Add(jobs[t].docs)
  /\ Finish(t)
  /\ UNCHANGED <<slack, exists, lock, bounds>>

\* A call of the build raises.  An upsert may have stored part of its points.
Fail(t, stored) ==
  /\ failures < MaxFailures
  /\ failures' = failures + 1
  /\ jobs[t].pc \in Building
  /\ stored \subseteq jobs[t].docs
  /\ stored # {} => jobs[t].pc = "upsert"
  /\ Add(stored)
  /\ spoiled' = (spoiled \/ jobs[t].pc \in Rebuilding)
  /\ jobs' = [jobs EXCEPT ![t] = [Resting("release") EXCEPT !.failed = "error"]]
  /\ UNCHANGED <<slack, exists, lock, last, changes, restarts>>

\* The loop swallows what the build raised.  A missing scope leaves the start
\* without a loop and a call with a search of nothing; any other exception ends a
\* call with an error, and the start of the bot (BootFails).
Release(t) ==
  /\ jobs[t].pc = "release"
  /\ ~(t = "main" /\ jobs[t].failed = "error")
  /\ lock' = None
  /\ IF t = "main" /\ exists THEN StartLoop
     ELSE jobs' = [jobs EXCEPT ![t] = Resting(
            IF t = "main" THEN "up"
            ELSE IF t = "loop" THEN "sleep"
            ELSE IF jobs[t].failed = "error" THEN "done" ELSE "search")]
  /\ UNCHANGED <<slack, index, history, bounds>>

-------------------------------------------------------------------------------
(* search. *)

Search(c) ==
  /\ jobs[c].pc = "search"
  /\ Goto(c, IF exists THEN "query" ELSE "done")
  /\ UNCHANGED <<slack, index, lock, history, bounds>>

\* With hits, or with the error of a collection that was deleted meanwhile.
Query(c) ==
  /\ jobs[c].pc = "query"
  /\ Goto(c, "done")
  /\ UNCHANGED <<slack, index, lock, history, bounds>>

-------------------------------------------------------------------------------
(* The world around the index. *)

Change(e) ==
  /\ changes < MaxChanges
  /\ changes' = changes + 1
  /\ directory' = IF e \in directory THEN directory \ {e} ELSE directory \cup {e}
  /\ UNCHANGED <<scope, index, lock, jobs, history, failures, restarts>>

\* The app is installed again, with the scopes.
Reinstall ==
  /\ ~scope
  /\ scope' = TRUE
  /\ UNCHANGED <<directory, index, lock, jobs, history, bounds>>

\* The process ends and starts again, on the same storage or in a new container.
Reboot(wiped) ==
  /\ exists' = (exists /\ ~wiped)
  /\ copies' = IF wiped THEN NoCopies ELSE copies
  /\ lock' = None
  /\ jobs' = [t \in Thread |->
       IF t = "main" THEN Resting("check")
       ELSE IF t = "loop" \/ jobs[t].pc \in {"off", "done"} THEN
         Resting(IF t = "loop" THEN "off" ELSE jobs[t].pc)
       ELSE Resting("lost")]
  /\ last' = IF wiped THEN None ELSE last
  /\ spoiled' = (~wiped /\ (spoiled \/ \E t \in Thread : jobs[t].pc \in Rebuilding))
  /\ UNCHANGED slack

Restart(wiped) ==
  /\ restarts < MaxRestarts
  /\ restarts' = restarts + 1
  /\ Reboot(wiped)
  /\ UNCHANGED <<changes, failures>>

BootFails(wiped) ==
  /\ jobs["main"].pc = "release"
  /\ jobs["main"].failed = "error"
  /\ Reboot(wiped)
  /\ UNCHANGED bounds

-------------------------------------------------------------------------------
Step(t) ==
  \/ Check(t) \/ CollectUsers(t) \/ CollectGroups(t) \/ MissingScope(t)
  \/ Delete(t) \/ Create(t) \/ Upsert(t) \/ Release(t) \/ Search(t) \/ Query(t)
  \/ \E stored \in SUBSET Listed : Fail(t, stored)

Boot == \E wiped \in BOOLEAN : BootFails(wiped)

World ==
  \/ Reinstall
  \/ \E e \in Listed : Change(e)
  \/ \E c \in Call : Ask(c)
  \/ \E wiped \in BOOLEAN : Restart(wiped)

Next == World \/ Boot \/ Tick \/ \E t \in Thread : Step(t) \/ Acquire(t)

Spec == Init /\ [][Next]_vars

\* Python runs every thread, days go by, and a lock that is free for the whole of
\* a day is had by those who wait for it.
FairSpec ==
  /\ Spec
  /\ WF_vars(Tick)
  /\ WF_vars(Boot)
  /\ \A t \in Thread : WF_vars(Step(t)) /\ SF_vars(Acquire(t))
===============================================================================
