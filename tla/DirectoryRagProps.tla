--------------------------- MODULE DirectoryRagProps ---------------------------
(* What the directory index must never hold, and what must become of it. *)
EXTENDS DirectoryRag

\* The variables hold the kinds of values the code keeps in them, and a thread
\* that builds holds the lock.
TypeOK ==
  /\ directory \subseteq Listed
  /\ scope \in BOOLEAN
  /\ exists \in BOOLEAN
  /\ copies \in [Listed -> Nat]
  /\ lock \in Thread \cup {None}
  /\ jobs \in [Thread -> JobInfo]
  /\ last = None \/ last \subseteq Listed
  /\ spoiled \in BOOLEAN
  /\ changes \in 0..MaxChanges
  /\ failures \in 0..MaxFailures
  /\ restarts \in 0..MaxRestarts
  /\ \A t \in Thread : jobs[t].pc \in Building \cup {"release"} <=> lock = t

\* Nobody is found twice, although points get fresh ids, calls that find the index
\* missing all build it, and a build that failed may have stored some points.
NeverDoubled == \A e \in Listed : copies[e] <= 1

\* Outside the last part of a build the index is that of the last build that was
\* finished: one that cannot list members or groups leaves the old index alone.
\* Only one that ended after the deletion has spoiled it, until the next.
IndexIsLastBuild ==
  \/ spoiled
  \/ \E t \in Thread : jobs[t].pc \in Rebuilding
  \/ (exists <=> last # None) /\ (exists => Indexed = last)

\* With the daily refresh running, the index catches up with the directory again
\* and again, whatever failed before.
CatchesUp == []<>(Looping => Indexed = directory)
===============================================================================
