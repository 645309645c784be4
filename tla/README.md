# Open Slack Copilot in TLA+

Specifications of [Open Slack Copilot](../src/README.md), a Slack bot that drafts
replies with a language model, asks its user to confirm what it would send, keeps
an index of channels, runs prompts on a schedule and wakes watchers. The modules
model the parts of the program that keep state and meet concurrency or failure;
TLC checks them on small instances, and TLAPS proves for every instance each safety
property that TLC checks on one. `PROJECT.json` says, for every definition,
which lines of the source it stands for.

## The system

Processes: the **bot** (Bolt listener threads, APScheduler threads, index threads,
in one Python process), the **Huey consumer** (one worker), the **command line**
(`make` targets, each a process of its own) and the **OAuth server**. They share
files (`.cache`, `agent_logs`, scheduled prompts, tokens), a SQLite queue and, in
the bot, a Qdrant store. Everything else is Slack's.

| Component | State it keeps | Operations | Hard behaviours |
|---|---|---|---|
| Tool confirmation (`common/slack/slack_bot/tool_confirmation.py`, `send_*` tools) | draft files; cards and dialogs, which Slack keeps; OAuth tokens | draft, show a card, Confirm, Revise, submit a revision | clicks interleave on threads; cards outlive the process; answers of Slack are lost, and the Slack client sends a request again when its connection breaks |
| Channel RAG (`common/slack/slack_rag`, `common/rag`) | a collection per channel; watermarks and locks in memory | build, refresh, query, query across channels | readers take no lock; the watermark is apart from the collection; failures in mid-build |
| Prompt scheduler (`common/tools/prompt_scheduler`, `schedule_tool.py`) | a directory per job; APScheduler jobs in the memory of each process | schedule, register, fire, run, expire, reload, list, clear | crashes between file writes; schedulers of several processes on the same files; the expiry passes between check and run; misfires |
| Watchers (`common/watchers`, Huey) | the task queue and lock in SQLite | enqueue, take, sweep, run a skill | bursts; a stale lock after a crash; failures in a sweep |
| Copilot run (`react_runner.py`, `copilot_pipeline.py`, `tool_loop.py`, listeners) | the conversation and trace of each run | start, select skills, complete, call tools, log, tell the user | a failure at each step; cards and other actions in one run |
| Agent log (`agent_log.py`) | a global and a per-thread file, a lock per process | append, read recent lines | two writes of which the second may fail |
| Disk cache (`common/cache.py`) | a JSON file per call of a decorated function, shared by the processes; a lock per process | look up, unlink, compute, write | the time is taken first; the lock covers the file and not the computation, and one process only |
| OAuth server and token store (`slack_user_oauth`, `oauth_token_store.py`, `common/data_layer`) | states in the memory of the server; a token file per member; the owner's id in the memory of the bot | start, callback, exchange, save, read | callbacks come late, again, or to a server started anew; a save is cut; the bot reads meanwhile |
| Directory RAG (`slack_directory_rag.py`, `list_users.py`) | a collection of members and groups | build, daily refresh, build and search by `list_users` | whether it is missing is asked without the lock; a rebuild deletes first |
| Skill runs, thumbs up, `append_csv_row` | files | see `PROJECT.json`, `components` | partly modelled or left out, see below |

They interact by calls and callbacks: a listener (or the scheduler, or a sweep)
starts a **copilot run**; the run queries the **index** for context and calls
tools, of which some show a **confirmation** card, `schedule_prompt` registers a
**job** and `list_users` may build the **directory**; names in prompts come from the
**disk cache**; a confirmed card posts with a **user token**, and enqueues a task for the
**watchers**; a revision starts a run again; a scheduled prompt or a watcher's skill is a run too.

What makes each part correct:

- confirmation: nothing is written that was not offered on a card and confirmed by
  its viewer; never under another member's name; once for each click, or twice if the
  connection broke on the way; what the
  requester is told is true; a card on screen can be used;
- index: the watermark never claims messages the collection lacks; nothing is
  stored twice; readers do not lose messages; requests are not left waiting;
- scheduler: a job is registered with the process that made it and with a bot that found
  it; a process runs a one-shot prompt once; what runs was taken up in time and is still
  kept; nothing live is removed unasked; expired jobs go;
- watchers: a sweep evaluates every watcher; each run of a skill is paid for by a
  wake or a command; a wake is taken in the end;
- run: the conversation is one the API accepts; actions are reported; cards are not
  denied; nothing ends in silence; outcomes are logged; runs end;
- disk cache: no answer is older than its time to live; within one process no write
  spoils another;
- tokens: a token is saved once for each consent, of a state that was fresh; a member
  who was told so has it, whatever happens to later saves;
- directory: nobody is in it twice; it is what a build collected, unless a rebuild was
  cut; with the refresh running it catches up.

## The modules

| Module | What it is |
|---|---|
| `SlackWorld` | people, threads, texts and tools the confirmation modules share |
| `ApprovalGate` | abstract: offers, approvals, and a feed written once per approval, or twice over a broken connection |
| `ToolConfirmation`, `ToolConfirmationProps` | the confirmation flow, and its properties with the refinement mapping to `ApprovalGate` |
| `ToolConfirmation_proofs` | its theorems |
| `SlackRag`, `SlackRagProps`, `SlackRag_proofs` | the index of the channels |
| `PromptStore` | abstract: prompts that are asked for, kept and dropped once each, and runners that take them up and run them |
| `PromptScheduler`, `PromptSchedulerProps`, `PromptScheduler_proofs` | scheduled prompts, and their refinement mapping to `PromptStore` |
| `Watchers`, `WatchersProps`, `Watchers_proofs` | the queue, the lock and the sweeps |
| `CopilotRun`, `CopilotRunProps`, `CopilotRun_proofs` | triggers, tool loop, notices, agent log |
| `DiskCache`, `DiskCacheProps`, `DiskCache_proofs` | one entry of the cache |
| `UserTokens`, `UserTokensProps`, `UserTokens_proofs` | the OAuth server, the token files and the bot's reads |
| `DirectoryRag`, `DirectoryRagProps`, `DirectoryRag_proofs` | the directory index |
| `MC*` | the small sets TLC uses |

Each component has a module of its code, one of its properties and one of its theorems.
A `*Props` module first states what should hold and then, in a section of its
own, a sentence of the repository that the code does not keep, where a run refutes one.
An operator whose name ends in `_` and a word (`Post_Retried`) is a plausible
bug. Nothing uses it: it takes the place of the operator it is named after to show
that a property would notice.

### ToolConfirmation

A *job* is one Bolt listener invocation; `jobs[j].pc` is where it stands. A run
(`StartRun`, `SubmitRevision`, `SaveDraft`, `ShowCard`, `LoseCard`, `EndRun`) is the
part of `run_react_and_confirm` that the cards need; `SaveDraft` is `_save_draft` with
the conversion before it, `ShowCard` the rest of `queue_tool_confirmation`.
`ClickConfirm` to `Reply` is `handle_confirm_action` and the ephemeral answer, one
action for each call after which another thread or a crash can come in. `Post` has
two outcomes because Slack's answer can be lost. `LoseConnection` is a connection that
breaks before the answer: `get_client` builds its `WebClient` without retry handlers of its
own, so the default one of `slack_sdk` sends the request again, once, and the first may have
been written (`resent`). A job that is over keeps what it was (`kind`, `user`, `card`,
`resent`, `result`) if it was a Confirm, since the properties speak of it. A draft whose
file cannot be written leaves no card, as `LoseCard` does, and a card that is sent twice is
one card, since both copies carry the same payload. `cards` and `modals` are Slack's
and survive `Restart`; `drafts` are files and survive it too, unless the container
is removed with them (`docker run --rm`, `Makefile`). A text is its words and the number
of passes of `to_slack_mrkdwn` that would still change it. Left out: the layout of
blocks, payloads of an older version, the empty text no tool drafts.

### SlackRag

Threads are the requests, a loop for each scheduled channel and a starter for each
cross channel. `TryLock` to `Release` is `build` with `_build_index`, cut wherever
Qdrant or Slack is called: `Fetch`, `Delete`, `Create`, `Upsert`. `Fail` is an
exception at any of these, and an upsert may have stored part of its points.
`mark` is `_last_indexed_ts`. The time is abstracted to `horizon`, the newest message
older than the checkpoint. A `Restart` drops locks, watermarks and threads and may
find the storage wiped; `BootFails` is `build_if_missing` raising in the main thread.

### PromptScheduler

Processes are the bot, the commands that list and clear the jobs, and those that run
watchers (the Huey consumer and `watchers_run_once`), whose skills call `schedule_prompt` as
the bot's runs do. Each has APScheduler jobs, submitted runs and one executor thread of its
own, as `_ensure_scheduler` configures them (`due`, `queue`, `late`, `run`), all on the same
files; a job is registered by the process that makes it (`Caller[j]`) and by whoever
reloads it. `Fire`, `Take` and `Misfire` are external.

`disk[j]` is how far the two files of a job got: `torn` is a `metadata.json` that was
created and not yet written. `Reload` and `ReloadFails` are `register_job_from_disk` at the
start of the bot or a command, `Loaded` the end of the reload, `ClearJob` and `End` what
commands do then; the watchers reload nothing. A run is cut at its two files:
`ReadMetadata` compares the expiry with the clock, `ReadPrompt` begins the prompt, and
between them time may pass (`Tick`) and other processes may remove the job. A process whose
main thread has ended still works off its queue (`Alive`).

Job ids are numbers because a reload goes by the names of the directories, in order. Every
job lives for `Life` periods. The clock steps by cron periods, of which the last stands for
all later times. `held`, `found`, `began` and `missed` are history: the jobs whose process
has not ended since it was asked for them; those that were whole when the bot started; the
one-shot jobs a process has handed to the copilot; and those whose last submitted run was
dropped.

### Watchers

`Enqueue` and `Dequeue` are Huey's queue and `lock_task`, `Load` to `Finish` a sweep.
The sweep of `watchers_run_once` is the same code without queue and lock. `LastRun`
is constant: the program never writes a row of `skill_runs`. `fired` counts the runs of
each watcher's skill, by worker and command together. A thread is its number of
messages and whether its last one is too young.

### CopilotRun

`runs[r].pc` follows `run_react_and_confirm`: context, skill, prompt, then
completions and tools, then the log and the notice. `talk` is the message list sent
to the API, `trace` the records the notice is built from; `cards` and `acted` are
what really happened, which the trace need not show (`Outcome`: a handler acts and
its answer is lost). `writer` is the `_WRITE_LOCK` of each process: watchers run in
the consumer.

### DiskCache

One decorated function and one argument, so one entry. A file is named by the call
that created it; `path` and `tmp` say which file is in the entry's place and under the
temporary name, so that an `os.replace` or an `unlink` by one process takes away what
another has open (`fd`). A name of Slack's is the number of names before it, and
`until` says when each was replaced; -1 is the empty name or the id that a failing
function returns, and that is cached too. Between `Open` and `Clean` the call holds the
lock of its process; `Crash` ends a process anywhere and frees its lock, and leaves its
files.

### UserTokens

The server is an `HTTPServer` without threads: one request at a time, cut at the calls to
Slack and to the disk. An `Attempt` is a visit to `/slack/oauth/start` and the browser's
later ways back: `Callback` may come any number of times, for any member who consents,
after `StateTtl`, or after `Restart`. `Write` and `Replace` are the two halves of
`FileKeyValueCollection.set`. Tokens are numbered as Slack gives them out, so that
"newer" can be said. Readers are threads of the bot in `get_user_token`, with the
window between the look at `_owner_user_id_cache` and its assignment.

### DirectoryRag

Threads are `main` (the start), `loop` (the daily refresh, which starts only when the
index is ready at the start) and the `list_users` calls. `Check` is `is_ready` without
the lock, `Acquire` to `Release` is `build`, cut at each call to Slack and Qdrant. A
document's copies are counted because each gets a new id. `last` and `spoiled` are
history: what the last finished build collected, and whether a later one ended between
its deletion and its insertion. A failing start ends the process (`BootFails`), which a
restart on the same storage or in a new container follows.

### How the modules compose

`ToolConfirmation` INSTANCEs `ApprovalGate` with a refinement mapping, and
`PromptScheduler` `PromptStore`. The components
meet at narrow interfaces that each module keeps: a wake (`ToolConfirmation`'s
`WakeWatchers`, `Watchers`' `Enqueue`), a run (`CopilotRun`'s `Called`, `PromptScheduler`'s
`ReadPrompt`, `Watchers`' `RunSkill`, `ToolConfirmation`'s `StartRun`), a scheduled prompt
(a run's tool call, `PromptScheduler`'s `MakeDirectory`, by `Caller`), a query
(`SlackRag`'s `BeginOwn`, `CopilotRun`'s `ComposePrompt`). A module composing
confirmation, queue and run is planned.

## What the runs check

| Run | Shows | Bounds |
|---|---|---|
| `confirm` | `TypeOK`, `Approved`, `NoImpersonation`, `TwiceOnlyIfResent`, `HonestReply`, `CardsHaveDrafts`, `GateSpec` (the flow implements `ApprovalGate`) | 2 members, 1 thread, 2 texts, 2 cards, 3 jobs, `MaxLayers` 1, up to the symmetry of members, texts, cards and jobs |
| `rag` | `TypeOK`, `MarkIsCovered`, `StoredOnce`, `OnlyGrows`, `RequestsAnswered`, `ScheduledCatchUp` | 1 channel with loop, starter and request; 3 messages, one of them not indexed; page of 2; 1 failure, 1 restart |
| `sched` | `TypeOK`, `JobsOnDiskAreRegistered`, `OneShotsRunOnce`, `KeptUntilExpiry`, `ExpiredJobsLeave`, `StoreSpec` (the scheduler implements `PromptStore`) | 2 jobs, one asked for in the bot and one in the watchers; clock 0..3, `Life` 2, 1 crash, 1 start of a command or of the watchers beside the bot |
| `watchers` | `TypeOK`, `SweepsAreComplete`, `SkillsArePaidFor`, `WakesAreTaken` | 2 watchers, 2 threads of up to 2 messages, 2 wakes, 1 crash, 1 command |
| `run_safety` | `TypeOK`, `ConversationWellFormed`, `ActionsAreReported`, `CardsAreNotDenied`, `NeverSilent`, `OutcomesAreLogged` | 1 run, 2 rounds of up to 2 calls, 1 edit of the skill |
| `run_live` | `RunsEnd` | 2 runs, 1 round of 1 call |
| `cache` | `TypeOK`, `NeverStale`, `SoleWriterIsSafe` | 3 calls in 2 processes, `Ttl` 1, clock 0..2, 1 renaming, 1 failure, 1 crash, up to symmetry |
| `tokens` | `TypeOK`, `SavesAreFresh`, `PickedUp` | 2 members, 2 visits, 2 reads, `StateTtl` 1, clock 0..2, 1 failure, 1 restart, visits and reads up to symmetry |
| `dir` | `TypeOK`, `NeverDoubled`, `IndexIsLastBuild`, `CatchesUp` | 1 member, 1 group, 2 calls, 2 changes, 1 failure, 1 restart |

Why these are enough to be interesting: a run, a click on Revise and a revision, or a
run and two clicks on one card, take three jobs, and a second card is there to be
confused with the first; three messages with a page of two make a page leave one out;
one failure and one restart can fall at every step; two jobs on one executor make the
second late, and a clock that goes beyond `Life` lets an expired job be met at several
times; two wakes make the second meet the lock of the first, running or dead; two
calls in each of two rounds put a card before, beside and after an action; three calls
of the cache are two threads of one process beside another process, and a clock of
twice the time to live lets an entry expire under a call that began before; two visits
make the second start while the first is being saved; a member and a group make the two
listings differ, and two calls find the index missing together with the start. Symmetry
is used only where no liveness is checked, and only between things nothing tells apart
(in `tokens` the members are not: one of them owns the token of the environment). Where
a bound ends a behaviour (jobs, wakes, runs, calls, crashes) the .cfg turns deadlock
checking off; `rag` keeps it, since the loops never stop.

In `sched` one process is started beside the bot, a command or the watchers, and a crash
before or after makes it meet every stage of the bot; that a command and the watchers run
beside each other and the bot is left to the proofs, which bound no number of processes.

Three runs end in a counterexample. Each shows that a sentence of the repository is
not what the code does:

| Run | Property | The sentence, and what happens |
|---|---|---|
| `rag_doc_served` | `ServedFromIndex` | `docs/milestones/m1_slash_command/m1_3_channel_rag.md:12`: other requests "wait or get served from existing index". A full build deletes the collection first (`slack_rag.py:199`), and readers take no lock |
| `sched_doc_restart` | `RestartsIntoService` | `docs/PRD.md:55`: "Reloaded from disk on restart". A `metadata.json` torn by a crash raises out of the reload (`prompt_scheduler.py:55`), and the bot never starts again |
| `watch_doc_dropped` | `DroppedInBurstsOnly` | the plan of the watchers: tasks are dropped while a sweep holds the lock. The lock is a row in SQLite (`watchers.py:22`) and outlives a crash, after which every task is dropped though nothing runs |

Other divergences met while modelling. They can be read off the code, so no run is
kept for them; the models follow the code:

| The document | The code |
|---|---|
| `common/watchers/watchers.md:12`, "any successful tool confirmation" wakes | every confirmation that reached its tool does, also one whose tool failed (`tool_confirmation.py:341`) |
| `send_thread_reply_on_behalf_of_requester.py:24`, "This will be posted" | the text is converted for the card and once more by the post (`slack_api.py:170`), which nested markdown does not survive |
| `m6_send_dm.md:75`, the card says "Draft DM to @Dan" | `send_dm_as_app.py:17` names no extra parameter to display, so the card shows no recipient |
| `m1_3_channel_rag.md:11`, the first build fetches from the checkpoint | it fetches one page (`slack_api.py:51`) |
| `m1_3_channel_rag.md:135`, a refresh "replaces old index entries" | it adds new ones and removes none (`slack_rag.py:172`) |
| `m1_4_cross_channel_rag.md:110`, a channel that fails is "skipped" | its exception ends the query, and the run gets no results (`slack_rag.py:50`) |
| `m7_skill_scheduler.md:176`, "Second waits for first to complete" | a run that waits longer than the default misfire grace time is dropped (`prompt_scheduler.py:25`) |
| `m7_skill_scheduler.md:13`, "one at a time" | the bot, the commands and the watchers each start a scheduler of their own on the same files (`prompt_scheduler.py:22`, `:136`), so two of them may run one job at the same time |
| `schedule_tool.py:76`, the tool answers "scheduled" | in the consumer or the watchers command the job is registered with that process only: the bot runs it after its next start, and if the other ended nobody does until then (`prompt_scheduler.py:50`) |
| `README.md:36`, checks go on "until the job expires" | the expiry is compared with the clock before the prompt is read (`prompt_scheduler.py:197`): a run that was in time may begin after it |
| `README.md:36`, "the check repeats until the job expires" | an invalid cron expression is logged, and the tool answers "scheduled" (`prompt_scheduler.py:74`) |
| `watchers.md:21`, a burst collapses into one run | one worker: a wake enqueued in a sweep waits and sweeps next (`watchers.py:21`) |
| the plan of the watchers, `:264`, `skill_didnt_run_for` prevents re-firing | nothing records the runs of a skill (`watchers.py:89`) |
| `README.md:154`, a shortcut without `SKILL.md` is "ignored silently" | the user gets an error (`slack_listener_with_threads.py:210`) |
| `agent_logs.md:14`, each event "in two places" | the second write can fail after the first (`agent_log.py:121`) |
| `oauth_token_store.py:30`, "cache the owner's Slack user_id" | two threads may both ask Slack, and the later answer stays, also that of a failure (`oauth_token_store.py:39`) |
| `slack_directory_rag.py:6`, "refreshed on a daily schedule" | a start without the scopes starts no schedule, and calls that build the index later start none (`slack_bot.py:103`) |
| `docs/PRD.md:75`, runs get relevant messages of the channel | the storage folder of Qdrant admits one process (`rag.py:44`): beside the bot, runs in the consumer get none |
| `append_csv_row.py:1`, "Append one row" | two first rows at the same time both open the file for writing, and the second empties it (`append_csv_row.py:74`) |
| `docs/PRD.md:59`, "on confirm, posts in the thread" | the client sends a request again whose connection breaks (`slack_api.py:27`): one click may post twice, and may say that it failed |
| `cache.py:108`, `_atomic_write_json` | two processes use the same temporary name, and the lock is of one process: each may tear, move or remove what the other writes |
| `agent_logs.md:85`, summaries of "2–20 words" | one to 24 pass (`agent_log.py:225`) |

### Fairness

- `SlackRag`: threads keep running, and a thread waiting for a lock that is free again
  and again gets it (strong fairness of `WaitLock`): a refresh loop leaves it free for
  the whole of its interval. `BootFails` ends the process and starts it anew in one step,
  so somebody is assumed to start the bot again after a failing boot: `make run` and
  `docker-run` (`Makefile:57`) name no restart policy. Messages, restarts and failures are
  not fair.
- `PromptScheduler`: time passes (`Tick`), and the bot's scheduler and executor go on, to the
  end of each run; nothing is assumed of the other processes, the requests, the commands or
  crashes. That the bot is started again is assumed (`RestartedSpec`) only where a run shows
  that its start fails.
- `Watchers`: the consumer's worker works and is started again.
- `CopilotRun`: a started thread runs on; the log's lock needs no more, since a run
  takes it once.
- `DirectoryRag`: threads run on, days pass (`Tick`), the process that failed is started
  again (`Boot`), and who waits for the lock gets it when it is free again and again
  (strong fairness of `Acquire`). Changes, failures and restarts are not fair.
- `ToolConfirmation`, `DiskCache` and `UserTokens` claim safety only: nothing is assumed.

## What is proved

Each theorem has the form `Spec => []P` (`Spec => P` for an action property or an
abstract specification), for all values of the constants under the assumptions the
modules name: bounds are natural numbers, life times are positive, and `None` and the
other markers are none of the values they stand beside (an empty or torn file is no entry
of the cache, `ContentAssumption`; `None` is no notice and no metadata, `NoticeAssumption`,
`MetaAssumption`). So the bounds of the runs are not bounds of these results. Every
invariant and action property of the passing runs is a theorem. TLC checked each `IInv` as
an invariant of its run before it was proved.

| Module | Theorem | Property |
|---|---|---|
| `ToolConfirmation_proofs` | `TypeCorrect` | `TypeOK` |
| | `OnlyApproved` | `Approved` |
| | `RepeatedOnlyOverABrokenConnection` | `TwiceOnlyIfResent` |
| | `NoImpersonationEver` | `NoImpersonation` |
| | `RepliesHonest` | `HonestReply` |
| | `CardsUsable` | `CardsHaveDrafts` |
| | `ImplementsGate` | `GateSpec` |
| `DirectoryRag_proofs` | `TypeCorrect` | `TypeOK` |
| | `NobodyIsDoubled` | `NeverDoubled` |
| | `IndexIsFromABuild` | `IndexIsLastBuild` |
| `UserTokens_proofs` | `TypeCorrect` | `TypeOK` |
| | `SavedOnceAndInTime` | `SavesAreFresh` |
| | `TokensArePickedUp` | `PickedUp` |
| `DiskCache_proofs` | `TypeCorrect` | `TypeOK` |
| | `AnswersAreFresh` | `NeverStale` |
| | `OneWriterIsSafe` | `SoleWriterIsSafe` |
| `PromptScheduler_proofs` | `TypeCorrect` | `TypeOK` |
| | `LiveJobsAreRegistered` | `JobsOnDiskAreRegistered` |
| | `OneShotsAreRunOnce` | `OneShotsRunOnce` |
| | `LiveFilesAreKept` | `KeptUntilExpiry` |
| | `ImplementsStore` | `StoreSpec` |
| `SlackRag_proofs` | `TypeCorrect` | `TypeOK` |
| | `WatermarksAreTrue` | `MarkIsCovered` |
| | `NoSecondCopy` | `StoredOnce` |
| | `NothingDisappears` | `OnlyGrows` |
| `Watchers_proofs` | `TypeCorrect` | `TypeOK` |
| | `EverySweepIsComplete` | `SweepsAreComplete` |
| | `EveryRunIsPaidFor` | `SkillsArePaidFor` |
| `CopilotRun_proofs` | `TypeCorrect` | `TypeOK` |
| | `ConversationIsWellFormed` | `ConversationWellFormed` |
| | `ActionsReachTheUser` | `ActionsAreReported` |
| | `CardsHaveTheWord` | `CardsAreNotDenied` |
| | `SilenceHasAReason` | `NeverSilent` |
| | `LogsComeFirst` | `OutcomesAreLogged` |

**Confirmation.** None of these is inductive as it stands. The invariant `IInv` adds what the code
relies on without saying: a card's viewer and preparer are one person and its draft
is on disk (`CardsInv`); what a job has read or is about to show agrees with its card
and its place in the handler (`JobsInv`); no two runs draft the same card
(`OneRunPerCard`); an open dialog belongs to a card (`DialogsInv`). `Approved` needs
`JobsInv` because the text is read in one step and posted in a later one, and `JobsInv`
needs `CardsInv` because it is read from a file and not from the card.
`NoImpersonation` follows from `Approved` and `CardsInv`. `TwiceOnlyIfResent` needs
to know that a job which still sends has written nothing, or once over a connection that broke
(`ResultInv`), and that it is not sending any more once it has its answer. The refinement
maps a job's click to an approval, `LoseConnection` to `Break`, `Post` to `CarryOut`,
`ShowCard` to `Show`, and every other step to a stutter.

**Directory.** `NeverDoubled` alone is not inductive: an upsert adds a copy of each
document. What the builder relies on is `RebuildsFromNothing`: from its deletion to its
insertion the collection is empty. That holds because only one thread is in a build
(`JobsOK`: a thread is in `build` exactly while it holds the lock), although whoever waited
builds again. `IndexIsLastBuild` then follows at `Finish`, and an end anywhere else in
the last part of a build is what `spoiled` records.

**Tokens.** `VisitsOK` ties the server's states to the visits: a state that was used is
not held, so a second callback is refused, and until the file is in place the visit has
no save. `FilesOK` says that the token in the server's hands is the last one given out,
so files only get newer ones, and members hear of a token after it is in the file. A read
that knows of a token therefore finds a file (`ReadersOK`), and never falls back on the
owner's.

**Cache.** `Good(value, t)` says that the value was still true `Ttl` before `t`, or later. It
stays true while time passes, names change and Slack fails (`StaysGood`). What a call
computed is good for `Ttl` from the time it took at its begin, hence so is the entry it
writes, in whichever file it ends up, and an answer read from an entry that has not
expired is good at the call. No fact about locks is needed: processes that write into
each other's files tear entries, and do not make them stale. `SoleWriterIsSafe` does need
the lock. `LockOK` says that the lock of a process is held by the call of it that is
between `unlink` and `clean`, and `Opened` that whoever has opened the file is among the
writers; so with one writer one call at a time has a file open (`Alone`). `WholeOK` then
follows its file: it is the temporary one, it is empty until it is written whole, and it
is not the one in the entry's place until `Replace` puts it there. A crash loses the lock
and leaves the file, which the next write empties again.

**Scheduler.** The invariant speaks of one process, one job, or one of each. `RegisteredInTime`
carries `JobsOnDiskAreRegistered`: a job that could still run is registered with its maker
from the end of the call, and with the bot from the moment the reload has passed it
(`proc[Bot].todo`), if the bot found it whole. `FilesFollowTool` ties the files to the call
that writes them, and the call to a process that serves; `Known` says that what a scheduler
has in its hands was written to the end, so a run never meets a torn file, whichever process
removes it meanwhile. `OneShot` orders the life of a one-shot job in a process: it is due at
its own time, then in flight, then handed to the copilot by the run that is about to end, and
none of these twice; a reload cannot bring it back because its time has passed by then. That
is `OneShotsRunOnce`, also over crashes. `InFlightOnce` is `max_instances` and part of
`TypeOK`. The refinement `ImplementsStore` tells a prompt's life by its files, and before
`metadata.json` is whole by the call that writes them: `WriteMetadata` is `Keep`, or a failure
when a command has taken the file meanwhile; every removal of files is `Drop`, which needs the
expiry or the command (`FilesRemoved`); `ReadMetadata` is `TakeUp` and `ReadPrompt` is `Run`,
so that what lies between them, the passing of the expiry among it, is not hidden; a crash
fails the requests of the process and rests its runner.

**Channel index.** What is hard is that the watermark is set after the collection was
filled, by a build that another thread, a failure or a restart may have preceded.
`PageIsCovered` carries `MarkIsCovered` through a build: each message of the fetched page
is among the documents to be stored, or stored and below the old watermark, or older than
the checkpoint by now. `ThreadOK` says under which lock that is so, and that a build without a
watermark adds to an empty collection only; `ChannelOK` that beyond the watermark only
failed upserts have left anything, which is why one more copy is at most one more failure.

**Watchers.** `SkillsArePaidFor` bounds a count by a count and is not inductive, because a
sweep may owe runs it has not made. `Paid` adds them: for every watcher, the runs made, and
one for each sweep under way that is not done with that watcher, are no more than the wakes
that got the lock and the commands. A wake that gets the lock raises both sides by one; so
does a command; running the skill moves one from what is owed to what is made. That needs
`WorkerHoldsLock` (no task begins while the worker sweeps) and `SweepOK` (a sweep is at a
watcher it has not been at, and picks one thread).

**Runs.** A round puts an assistant message and then its answers into the conversation, one
at a time, so `ConversationWellFormed` is broken in the middle of each. `AnsweredOrPending` is
what holds throughout: the k-th call of a message is answered k places behind it, or is the
pending call that will be. `AnswersBelong` and `PendingBelongs` say the converse. `TraceOK`
keeps what was carried out, and the cards, inside the trace the notice is built from,
whichever way a call ends; `EndOK` says what is heard at the end, by kind of notice;
`LoggedOK` follows the two logs.

Only model-checked: liveness (`RequestsAnswered`, `ScheduledCatchUp`, `ExpiredJobsLeave`,
`WakesAreTaken`, `RunsEnd`, `CatchesUp`), which with fairness and `ENABLED` is beyond the
reach of the proof system; and the three runs that end in a counterexample.

## Not modelled

The words of prompts, cards and notices; the parsing of configuration; the provider side
of the OAuth handshake; the providers of language models; the ranking of hits; how a
call's arguments become a cache file's name; crashes in a copilot run (its cards and drafts
are covered by `ToolConfirmation`), and its return in silence when it is given no recipient
(`react_runner.py:203`), which no caller does; the folder lock of the vector store and the
operators' inspections of it; the file of `append_csv_row`. Three parts have no caller
in the program and so no behaviour: `skill_runs.init_run`,
`skill_thumbs_up.add_reference`, and `send_dm_on_behalf_of_requester`, which is not
among the registered tools. `PROJECT.json` gives the reason for each under
`components`, and lists under `hazards` the ones no property covers, with the reason:
all of them are things the code does, so a property could only deny them.

## Plan

In order: (1) an abstract index (a set of messages a reader may rely on) implemented by
`SlackRag`; (2) a composition
of confirmation, queue and run, so that the wake of a click is followed to the card its
sweep shows; (3) crashes in `CopilotRun`.
