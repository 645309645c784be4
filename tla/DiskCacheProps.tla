---------------------------- MODULE DiskCacheProps ----------------------------
(* What the cache may answer, and what its files must never hold. *)
EXTENDS DiskCache

\* The variables hold the kinds of values the code keeps in them, and a call
\* within the locked part, and no other, holds the lock of its process.
TypeOK ==
  /\ now \in 0..MaxNow
  /\ until \in Seq(0..MaxNow)
  /\ failedAt \in 0..MaxNow \cup {None}
  /\ file \in [Call -> Content]
  /\ path \in Call \cup {None}
  /\ tmp \in Call \cup {None}
  /\ lock \in [Process -> Call \cup {None}]
  /\ calls \in [Call -> CallInfo]
  /\ writers \subseteq Process
  /\ failures \in 0..MaxFailures
  /\ crashes \in 0..MaxCrashes
  /\ \A p \in Process, c \in Call :
       lock[p] = c <=> Home(c) = p /\ calls[c].pc \in Holding

\* No answer is older than the time to live, whoever cached it and however long
\* computing, waiting and writing took: a name was the member's own, and Slack's
\* failure behind an empty one happened, at some time after the call less Ttl.
NeverStale ==
  \A c \in Call :
    calls[c].pc = "done" =>
      IF calls[c].value = Fallback THEN failedAt + Ttl > calls[c].stamp
      ELSE calls[c].value < Name => until[calls[c].value + 1] + Ttl > calls[c].stamp

\* While one process alone has written the entry, through its crashes, failures
\* and concurrent threads, the entry in place is whole and no write finds its
\* temporary file gone: the lock is enough for threads, not for processes.
SoleWriterIsSafe ==
  (\A p, q \in writers : p = q) =>
    /\ path # None => Readable
    /\ \A c \in Call : calls[c].error # "gone"
===============================================================================
