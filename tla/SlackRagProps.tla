----------------------------- MODULE SlackRagProps -----------------------------
(* What the channel index must never do, and what it must eventually do. *)
EXTENDS SlackRag

\* The variables hold the kinds of values the code keeps in them, and a channel
\* without a collection holds no message.
TypeOK ==
  /\ posted \in [Channel -> 0..MaxPosted]
  /\ horizon \in [Channel -> 0..MaxPosted]
  /\ exists \subseteq Channel
  /\ copies \in [Channel -> [Ts -> Nat]]
  /\ mark \in [Channel -> 0..MaxPosted]
  /\ lock \in [Channel -> Thread \cup {None}]
  /\ jobs \in [Thread -> JobInfo]
  /\ failures \in 0..MaxFailures
  /\ restarts \in 0..MaxRestarts
  /\ \A c \in Channel \ exists : Indexed(c) = {}

\* A watermark is kept apart from the collection it speaks of, yet never claims
\* too much: what the last fetched page held and the checkpoint still covers is
\* in the collection, so skipping everything up to the watermark loses nothing.
MarkIsCovered ==
  \A c \in Channel :
    mark[c] # 0 =>
      /\ c \in exists
      /\ \A t \in Ts \ Noise :
           t \in (mark[c] - Limit + 1)..mark[c] /\ t > horizon[c] => t \in Indexed(c)

\* Points get fresh ids, so nothing in Qdrant keeps a message from being stored
\* twice: only the lock, the watermark and the deletion before a full build do.
\* A second copy takes a failed upsert that had stored some of its points.
StoredOnce == \A c \in Channel, t \in Ts : copies[c][t] <= 1 + failures

\* Within one life of the process, the readers of a channel whose first build is
\* over never see a message disappear.
OnlyGrows ==
  [][\A c \in Channel :
       mark[c] # 0 /\ mark'[c] # 0 => Indexed(c) \subseteq Indexed(c)']_vars

\* Every request gets to its answer, whoever it waits for, unless the process
\* ends: a lock is always released, also by a build that raises.
RequestsAnswered ==
  \A r \in Request : jobs[r].pc = "plan" ~> jobs[r].pc \in {"done", "lost"}

\* A scheduled channel catches up with Slack: once failures, restarts and new
\* messages have come to an end, its index holds what the last page holds.
ScheduledCatchUp ==
  \A c \in Scheduled : <>[](Page(c) \ Noise \subseteq Indexed(c))

-------------------------------------------------------------------------------
(* What the repository says and the code does not do. *)

\* m1_3_channel_rag.md: while a build is under way, other requests wait or are
\* served from the existing index.
ServedFromIndex ==
  \A r \in Request :
    jobs[r].pc = "done" /\ ~jobs[r].failed => jobs[r].found \subseteq jobs[r].answer
===============================================================================
