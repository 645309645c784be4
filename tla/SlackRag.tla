------------------------------- MODULE SlackRag -------------------------------
(***************************************************************************)
(* The per-channel message index of common/slack/slack_rag/slack_rag.py,   *)
(* kept in Qdrant collections by common/rag/rag.py.  Requests build the    *)
(* index of a channel when it is missing and then query it; threads of     *)
(* the bot build it at startup and refresh it periodically.  Builds of one *)
(* channel are serialised by a lock; queries take no lock.                 *)
(***************************************************************************)
EXTENDS Integers

CONSTANTS Channel,
          Scheduled,    \* rag.slack: the channels refreshed periodically
          Cross,        \* rag.cross_channel
          Request,      \* bound: requests for context
          Noise,        \* timestamps of messages that are not indexed
          Limit,        \* the page size of conversations_history
          MaxPosted,    \* bound: messages posted to a channel
          MaxFailures,  \* bound: calls to Slack, the embedder or Qdrant that raise
          MaxRestarts,  \* bound: restarts of the bot
          None

ASSUME ConfigAssumption == Scheduled \subseteq Channel /\ Cross \subseteq Channel
ASSUME BoundsAssumption == /\ Limit \in Nat \ {0}
                           /\ MaxPosted \in Nat
                           /\ MaxFailures \in Nat
                           /\ MaxRestarts \in Nat

\* The threads: a request's own, one loop for each scheduled channel (started by
\* the main thread after its build_if_missing), one starter for each cross channel.
Loop == {"loop"} \X Scheduled
Starter == {"starter"} \X Cross
Thread == Request \cup Loop \cup Starter
ASSUME ThreadsAssumption == /\ Request \cap (Loop \cup Starter) = {}
                            /\ None \notin Thread \cup Channel

\* The timestamps of a channel's messages, as their rank in the channel.
Ts == 1..MaxPosted

VARIABLES posted,    \* how many messages each channel has
          horizon,   \* the newest message older than the checkpoint
          exists,    \* channels that have a Qdrant collection
          copies,    \* how often the collection of a channel holds a message
          mark,      \* _last_indexed_ts, 0 when the channel has no entry
          lock,      \* rag._locks: the thread that holds the channel's lock
          jobs,      \* what each thread is doing
          failures, restarts

vars == <<posted, horizon, exists, copies, mark, lock, jobs, failures, restarts>>
slack == <<posted, horizon>>
index == <<exists, copies>>

Building == {"fetch", "delete", "create", "upsert"}
PC == {"idle", "check", "sleep", "try", "wait", "pass", "release", "plan",
       "read", "done", "lost"} \cup Building

\* A thread's locals.  docs and newest are the documents of a build and the
\* newest timestamp it fetched; todo and ask the channels a request still has to
\* build and to query; answer those that gave it hits, found those that had
\* something to give when it began.
JobInfo == [pc : PC, channel : Channel \cup {None}, boot : BOOLEAN,
            docs : SUBSET Ts, newest : 0..MaxPosted,
            todo : SUBSET Channel, ask : SUBSET Channel, answer : SUBSET Channel,
            found : SUBSET Channel, failed : BOOLEAN]

Resting(pc) ==
  [pc |-> pc, channel |-> None, boot |-> FALSE, docs |-> {},
   newest |-> 0, todo |-> {}, ask |-> {}, answer |-> {}, found |-> {},
   failed |-> FALSE]

Booting(b) == [Resting("check") EXCEPT !.channel = b[2], !.boot = b \in Loop]

NoCopies == [t \in Ts |-> 0]
Indexed(c) == {t \in Ts : copies[c][t] > 0}

Init ==
  /\ posted \in [Channel -> 0..MaxPosted]
  /\ horizon = [c \in Channel |-> 0]
  /\ exists = {}
  /\ copies = [c \in Channel |-> NoCopies]
  /\ mark = [c \in Channel |-> 0]
  /\ lock = [c \in Channel |-> None]
  /\ jobs = [b \in Thread |-> IF b \in Request THEN Resting("idle") ELSE Booting(b)]
  /\ failures = 0
  /\ restarts = 0

\* The loops that run are those whose first build is over; the bot listens to
\* Slack once they all are.
Listening == \A b \in Loop : ~jobs[b].boot

Goto(b, pc) == jobs' = [jobs EXCEPT ![b].pc = pc]

-------------------------------------------------------------------------------
(* Who builds, and when. *)

\* The start of the bot: build_all_missing looks at every cross channel first,
\* then the main thread goes through the scheduled ones with build_if_missing.
CheckAtBoot(b) ==
  /\ jobs[b].pc = "check"
  /\ b \in Loop =>
       /\ \A s \in Starter : jobs[s].pc # "check"
       /\ \A l \in Loop : jobs[l].boot => jobs[l].pc = "check"
  /\ jobs' = [jobs EXCEPT ![b] =
       IF jobs[b].channel \notin exists THEN [@ EXCEPT !.pc = "try"]
       ELSE IF b \in Loop THEN [Resting("sleep") EXCEPT !.channel = b[2]]
       ELSE Resting("done")]
  /\ UNCHANGED <<slack, index, mark, lock, failures, restarts>>

\* The interval of a loop is over.
Tick(b) ==
  /\ b \in Loop
  /\ jobs[b].pc = "sleep"
  /\ Goto(b, "try")
  /\ UNCHANGED <<slack, index, mark, lock, failures, restarts>>

\* A request looks which of the channels it wants are missing.
Begin(r, wanted, ask) ==
  /\ Listening
  /\ jobs[r].pc = "idle"
  /\ jobs' = [jobs EXCEPT ![r] =
       [Resting("plan") EXCEPT !.todo = wanted \ exists, !.ask = ask,
          !.found = {c \in ask : Indexed(c) # {}}]]
  /\ UNCHANGED <<slack, index, mark, lock, failures, restarts>>

\* The channel of the conversation, or the configured ones but that channel.
BeginOwn(r, c) == Begin(r, {c}, {c})
BeginCross(r, c) == Begin(r, Cross, Cross \ {c})

BuildMissing(r, c) ==
  /\ jobs[r].pc = "plan"
  /\ c \in jobs[r].todo
  /\ jobs' = [jobs EXCEPT ![r].pc = "try", ![r].channel = c, ![r].todo = @ \ {c}]
  /\ UNCHANGED <<slack, index, mark, lock, failures, restarts>>

-------------------------------------------------------------------------------
(* build and _build_index. *)

\* Bug: the build goes ahead without the lock.
TryLock_Never(b) ==
  /\ jobs[b].pc = "try"
  /\ Goto(b, "fetch")
  /\ UNCHANGED <<slack, index, mark, lock, failures, restarts>>

\* Bug: whoever finds the lock taken asks again and again instead of waiting.
TryLock_Polls(b) ==
  LET c == jobs[b].channel
  IN  /\ jobs[b].pc = "try"
      /\ lock[c] = None
      /\ lock' = [lock EXCEPT ![c] = b]
      /\ Goto(b, "fetch")
      /\ UNCHANGED <<slack, index, mark, failures, restarts>>

\* Whoever finds the lock taken waits for its holder and does not build.
TryLock(b) ==
  LET c == jobs[b].channel
  IN  /\ jobs[b].pc = "try"
      /\ \/ /\ lock[c] = None
            /\ lock' = [lock EXCEPT ![c] = b]
            /\ Goto(b, "fetch")
         \/ /\ lock[c] # None
            /\ Goto(b, "wait")
            /\ UNCHANGED lock
      /\ UNCHANGED <<slack, index, mark, failures, restarts>>

WaitLock(b) ==
  /\ jobs[b].pc = "wait"
  /\ lock[jobs[b].channel] = None
  /\ lock' = [lock EXCEPT ![jobs[b].channel] = b]
  /\ Goto(b, "pass")
  /\ UNCHANGED <<slack, index, mark, failures, restarts>>

\* conversations_history returns one page, the newest messages since oldest.
Page(c) == {t \in Ts : t <= posted[c] /\ t > posted[c] - Limit /\ t > horizon[c]}

Incremental(c) == mark[c] # 0 /\ c \in exists

NewMessages(c) == {t \in Page(c) : Incremental(c) => t > mark[c]}

\* Nothing in the window: only make sure that the collection exists.  Nothing
\* new: leave.  Otherwise the new messages are embedded.
Fetch(b) ==
  LET c == jobs[b].channel
  IN  /\ jobs[b].pc = "fetch"
      /\ \/ /\ Page(c) = {}
            /\ exists' = exists \cup {c}
            /\ Goto(b, "release")
         \/ /\ Page(c) # {}
            /\ NewMessages(c) = {}
            /\ Goto(b, "release")
            /\ UNCHANGED exists
         \/ /\ NewMessages(c) # {}
            /\ jobs' = [jobs EXCEPT
                 ![b].pc = IF Incremental(c) THEN "create" ELSE "delete",
                 ![b].docs = NewMessages(c) \ Noise, ![b].newest = posted[c]]
            /\ UNCHANGED exists
      /\ UNCHANGED <<slack, copies, mark, lock, failures, restarts>>

\* Bug: a rebuild adds to what is there.
Delete_Skipped(b) ==
  /\ jobs[b].pc = "delete"
  /\ Goto(b, "create")
  /\ UNCHANGED <<slack, index, mark, lock, failures, restarts>>

Delete(b) ==
  LET c == jobs[b].channel
  IN  /\ jobs[b].pc = "delete"
      /\ exists' = exists \ {c}
      /\ copies' = [copies EXCEPT ![c] = NoCopies]
      /\ Goto(b, "create")
      /\ UNCHANGED <<slack, mark, lock, failures, restarts>>

\* Bug: the watermark moves before the documents are in.
Create_Marks(b) ==
  /\ jobs[b].pc = "create"
  /\ exists' = exists \cup {jobs[b].channel}
  /\ mark' = [mark EXCEPT ![jobs[b].channel] = jobs[b].newest]
  /\ Goto(b, IF jobs[b].docs = {} THEN "release" ELSE "upsert")
  /\ UNCHANGED <<slack, copies, lock, failures, restarts>>

\* Bug: documents are inserted without a collection.
Create_Skipped(b) ==
  /\ jobs[b].pc = "create"
  /\ Goto(b, IF jobs[b].docs = {} THEN "release" ELSE "upsert")
  /\ UNCHANGED <<slack, index, mark, lock, failures, restarts>>

Create(b) ==
  LET c == jobs[b].channel
  IN  /\ jobs[b].pc = "create"
      /\ exists' = exists \cup {c}
      /\ \/ /\ jobs[b].docs # {}
            /\ Goto(b, "upsert")
            /\ UNCHANGED mark
         \/ /\ jobs[b].docs = {}
            /\ mark' = [mark EXCEPT ![c] = jobs[b].newest]
            /\ Goto(b, "release")
      /\ UNCHANGED <<slack, copies, lock, failures, restarts>>

\* Every document gets a new id: one more copy, whatever is there.
Add(c, docs) ==
  copies' = [copies EXCEPT ![c] =
               [t \in Ts |-> IF t \in docs THEN @[t] + 1 ELSE @[t]]]

Upsert(b) ==
  LET c == jobs[b].channel
  IN  /\ jobs[b].pc = "upsert"
      /\ Add(c, jobs[b].docs)
      /\ mark' = [mark EXCEPT ![c] = jobs[b].newest]
      /\ Goto(b, "release")
      /\ UNCHANGED <<slack, exists, lock, failures, restarts>>

\* A call of the build raises.  An upsert may have stored part of its points.
Fail(b, stored) ==
  /\ failures < MaxFailures
  /\ jobs[b].pc \in Building
  /\ stored \subseteq jobs[b].docs
  /\ stored # {} => jobs[b].pc = "upsert"
  /\ Add(jobs[b].channel, stored)
  /\ failures' = failures + 1
  /\ jobs' = [jobs EXCEPT ![b].pc = "release", ![b].failed = TRUE]
  /\ UNCHANGED <<slack, exists, mark, lock, restarts>>

\* The end of build.  The exception of a failed one ends a request without any
\* context, is swallowed by loops and starters, and ends the bot when it is
\* raised in the main thread, before the loop is started (BootFails).
Release(b) ==
  /\ jobs[b].pc \in {"pass", "release"}
  /\ ~(jobs[b].boot /\ jobs[b].failed)
  /\ lock' = [lock EXCEPT ![jobs[b].channel] = None]
  /\ jobs' = [jobs EXCEPT ![b] =
       IF b \in Loop THEN [Resting("sleep") EXCEPT !.channel = b[2]]
       ELSE IF b \in Starter THEN Resting("done")
       ELSE [@ EXCEPT !.pc = IF jobs[b].failed THEN "done" ELSE "plan",
                      !.docs = {}, !.newest = 0]]
  /\ UNCHANGED <<slack, index, mark, failures, restarts>>

-------------------------------------------------------------------------------
(* query_channel and query_cross_channel. *)

\* rag.query: a channel without a collection gives no hits.
Look(r, c) ==
  /\ jobs[r].pc = "plan"
  /\ jobs[r].todo = {}
  /\ c \in jobs[r].ask
  /\ jobs' = [jobs EXCEPT
       ![r].ask = @ \ {c},
       ![r].pc = IF c \in exists THEN "read" ELSE "plan",
       ![r].channel = c]
  /\ UNCHANGED <<slack, index, mark, lock, failures, restarts>>

\* The collection may have been deleted since: Qdrant raises and the request
\* goes on without the hits it has.
Read(r) ==
  LET c == jobs[r].channel
  IN  /\ jobs[r].pc = "read"
      /\ jobs' = [jobs EXCEPT
           ![r].pc = IF c \in exists THEN "plan" ELSE "done",
           ![r].answer = IF c \notin exists THEN {}
                         ELSE IF Indexed(c) = {} THEN @ ELSE @ \cup {c}]
      /\ UNCHANGED <<slack, index, mark, lock, failures, restarts>>

ReadFails(r) ==
  /\ failures < MaxFailures
  /\ jobs[r].pc = "read"
  /\ jobs' = [jobs EXCEPT ![r].pc = "done", ![r].answer = {}, ![r].failed = TRUE]
  /\ failures' = failures + 1
  /\ UNCHANGED <<slack, index, mark, lock, restarts>>

Answer(r) ==
  /\ jobs[r].pc = "plan"
  /\ jobs[r].todo = {}
  /\ jobs[r].ask = {}
  /\ Goto(r, "done")
  /\ UNCHANGED <<slack, index, mark, lock, failures, restarts>>

-------------------------------------------------------------------------------
(* The world around the index. *)

PostMessage(c) ==
  /\ posted[c] < MaxPosted
  /\ posted' = [posted EXCEPT ![c] = @ + 1]
  /\ UNCHANGED <<horizon, index, mark, lock, jobs, failures, restarts>>

\* A message gets older than the checkpoint.
Age(c) ==
  /\ horizon[c] < posted[c]
  /\ horizon' = [horizon EXCEPT ![c] = @ + 1]
  /\ UNCHANGED <<posted, index, mark, lock, jobs, failures, restarts>>

\* The process ends: its locks, watermarks and threads with it.  The bot starts
\* again, on the same storage or in a new container without it.
Reboot(wiped) ==
  /\ exists' = IF wiped THEN {} ELSE exists
  /\ copies' = IF wiped THEN [c \in Channel |-> NoCopies] ELSE copies
  /\ mark' = [c \in Channel |-> 0]
  /\ lock' = [c \in Channel |-> None]
  /\ jobs' = [b \in Thread |->
       IF b \notin Request THEN Booting(b)
       ELSE IF jobs[b].pc \in {"idle", "done", "lost"} THEN jobs[b]
       ELSE Resting("lost")]
  /\ UNCHANGED slack

Restart(wiped) ==
  /\ restarts < MaxRestarts
  /\ restarts' = restarts + 1
  /\ Reboot(wiped)
  /\ UNCHANGED failures

BootFails(b, wiped) ==
  /\ jobs[b].pc = "release"
  /\ jobs[b].boot
  /\ jobs[b].failed
  /\ Reboot(wiped)
  /\ UNCHANGED <<failures, restarts>>

-------------------------------------------------------------------------------
BuildStep(b) ==
  \/ CheckAtBoot(b) \/ Tick(b) \/ TryLock(b)
  \/ Fetch(b) \/ Delete(b) \/ Create(b) \/ Upsert(b) \/ Release(b)
  \/ \E stored \in SUBSET Ts : Fail(b, stored)
  \/ \E wiped \in BOOLEAN : BootFails(b, wiped)

RequestStep(r) ==
  \/ \E c \in Channel : BuildMissing(r, c) \/ Look(r, c)
  \/ Read(r) \/ ReadFails(r) \/ Answer(r)

Step(b) == BuildStep(b) \/ (b \in Request /\ RequestStep(b))

World ==
  \/ \E c \in Channel : PostMessage(c) \/ Age(c)
  \/ \E wiped \in BOOLEAN : Restart(wiped)
  \/ \E r \in Request, c \in Channel : BeginOwn(r, c) \/ BeginCross(r, c)

Next ==
  \/ World
  \/ \E b \in Thread : Step(b) \/ WaitLock(b)

Spec == Init /\ [][Next]_vars

\* Python runs every thread.  A waiter gets a lock that is free again and again:
\* it is free for the whole interval between two refreshes.
FairSpec == Spec /\ \A b \in Thread : WF_vars(Step(b)) /\ SF_vars(WaitLock(b))
===============================================================================
