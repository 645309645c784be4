------------------------------- MODULE DiskCache -------------------------------
(***************************************************************************)
(* The cache decorator of common/cache.py, as slack_api.py uses it for the *)
(* names of channels and members.  The listener threads of the bot and the *)
(* Huey consumer share the directory .cache.  Each process has a lock of   *)
(* its own for each decorated function; nothing locks the processes        *)
(* against each other.  The module is about one function and one argument. *)
(***************************************************************************)
EXTENDS Integers, Sequences

CONSTANTS Process,
          Call,         \* bound: calls of the function
          Ttl,          \* ttl_seconds
          MaxNow,       \* bound: the time
          MaxRenames,   \* bound: how often the name changes in Slack
          MaxFailures,  \* bound: calls to Slack and writes that fail
          MaxCrashes,   \* bound: crashes of a process
          Empty,        \* the content of a file that was opened for writing
          Torn,         \* the content of a file that does not parse
          None

ASSUME BoundsAssumption == /\ Ttl \in Nat \ {0}
                           /\ MaxNow \in Nat
                           /\ MaxRenames \in Nat
                           /\ MaxFailures \in Nat
                           /\ MaxCrashes \in Nat
ASSUME NoneAssumption == None \notin Call \cup Process

VARIABLES now,
          until,     \* when each name but the present one was replaced in Slack
          failedAt,  \* when Slack last failed to answer
          file,      \* what is in the file that each call created
          path,      \* the file in the place of the entry
          tmp,       \* the file under the temporary name
          lock,      \* the call that holds the lock of each process
          calls,
          writers,   \* the processes that ever wrote the entry
          failures, crashes

vars == <<now, until, failedAt, file, path, tmp, lock, calls, writers, failures, crashes>>
slack == <<now, until, failedAt>>
disk == <<file, path, tmp>>
bounds == <<failures, crashes>>

-------------------------------------------------------------------------------
\* A name is how many names were there before it.  A function that cannot tell
\* returns an empty name or the id, which is cached like any other answer.
Fallback == -1
Name == Len(until)
Value == 0..MaxRenames \cup {Fallback}

Entry == [output : Value, expiry : Nat]
Content == Entry \cup {Empty, Torn}
ASSUME ContentAssumption == Empty \notin Entry /\ Torn \notin Entry

Holding == {"unlink", "flush", "replace", "clean"}
PC == Holding \cup {"off", "lookup", "compute", "open", "done", "raised", "lost"}

\* A call: its process, the wall time it began at, the value it computed or was
\* given, the file it has open, and why its write raised.
CallInfo == [pc : PC, process : Process \cup {None}, stamp : Nat,
             value : Value \cup {None}, fd : Call \cup {None},
             error : {"none", "disk", "gone"}]

Resting(pc) == [pc |-> pc, process |-> None, stamp |-> 0, value |-> None,
                fd |-> None, error |-> "none"]

Init ==
  /\ now = 0
  /\ until = <<>>
  /\ failedAt = None
  /\ file = [c \in Call |-> Empty]
  /\ path = None
  /\ tmp = None
  /\ lock = [p \in Process |-> None]
  /\ calls = [c \in Call |-> Resting("off")]
  /\ writers = {}
  /\ failures = 0
  /\ crashes = 0

Home(c) == calls[c].process
Goto(c, pc) == calls' = [calls EXCEPT ![c].pc = pc]
Return(c, pc, value) ==
  calls' = [calls EXCEPT ![c] = [Resting(pc) EXCEPT
              !.stamp = calls[c].stamp, !.value = value, !.error = calls[c].error]]
Free(c) == lock[Home(c)] = None
Acquire(c) == lock' = [lock EXCEPT ![Home(c)] = c]
Unlock(c) == lock' = [lock EXCEPT ![Home(c)] = None]

-------------------------------------------------------------------------------
\* The time is taken before the lock is waited for.
Begin(c, p) ==
  /\ calls[c].pc = "off"
  /\ calls' = [calls EXCEPT ![c] =
                 [Resting("lookup") EXCEPT !.process = p, !.stamp = now]]
  /\ UNCHANGED <<slack, disk, lock, writers, bounds>>

Readable == path # None /\ file[path] \notin {Empty, Torn}
Hit(c) == Readable /\ calls[c].stamp < file[path].expiry

\* _read_cache_entry: a file that is not there or does not parse is a miss.  An
\* expired entry is unlinked, with the lock still held.
Lookup(c) ==
  /\ calls[c].pc = "lookup"
  /\ Free(c)
  /\ \/ /\ Hit(c)
        /\ Return(c, "done", file[path].output)
        /\ UNCHANGED lock
     \/ /\ ~Readable
        /\ Goto(c, "compute")
        /\ UNCHANGED lock
     \/ /\ Readable
        /\ ~Hit(c)
        /\ Acquire(c)
        /\ Goto(c, "unlink")
  /\ UNCHANGED <<slack, disk, writers, bounds>>

\* Another process may have replaced the expired entry by then.
Unlink(c) ==
  /\ calls[c].pc = "unlink"
  /\ path' = None
  /\ Unlock(c)
  /\ Goto(c, "compute")
  /\ UNCHANGED <<slack, file, tmp, writers, bounds>>

\* The function runs without the lock: several calls may compute.
Compute(c) ==
  /\ calls[c].pc = "compute"
  /\ calls' = [calls EXCEPT ![c].pc = "open", ![c].value = Name]
  /\ UNCHANGED <<slack, disk, lock, writers, bounds>>

ComputeFails(c) ==
  /\ calls[c].pc = "compute"
  /\ failures < MaxFailures
  /\ failures' = failures + 1
  /\ failedAt' = now
  /\ calls' = [calls EXCEPT ![c].pc = "open", ![c].value = Fallback]
  /\ UNCHANGED <<now, until, disk, lock, writers, crashes>>

-------------------------------------------------------------------------------
(* _atomic_write_json. *)

\* write_text empties the temporary file that is there, also one that another
\* process is writing, or creates it.
OpenTmp(c) ==
  /\ tmp' = IF tmp = None THEN c ELSE tmp
  /\ file' = [file EXCEPT ![tmp'] = Empty]
  /\ calls' = [calls EXCEPT ![c].pc = "flush", ![c].fd = tmp']
  /\ writers' = writers \cup {Home(c)}

\* Bug: only the lookup takes the lock.
Open_Unlocked(c) ==
  /\ calls[c].pc = "open"
  /\ OpenTmp(c)
  /\ UNCHANGED <<slack, path, lock, bounds>>

Open(c) ==
  /\ calls[c].pc = "open"
  /\ Free(c)
  /\ Acquire(c)
  /\ OpenTmp(c)
  /\ UNCHANGED <<slack, path, bounds>>

\* Bug: the entry counts from the time it is written.
EntryOf_Late(c) == [output |-> calls[c].value, expiry |-> now + Ttl]

EntryOf(c) == [output |-> calls[c].value, expiry |-> calls[c].stamp + Ttl]

\* Over the text of another writer, the end of a longer one stays.
Flush(c) ==
  LET f == calls[c].fd
  IN  /\ calls[c].pc = "flush"
      /\ \E content \in {EntryOf(c)} \cup (IF file[f] = Empty THEN {} ELSE {Torn}) :
           file' = [file EXCEPT ![f] = content]
      /\ Goto(c, "replace")
      /\ UNCHANGED <<slack, path, tmp, lock, writers, bounds>>

\* The disk is full after a part of the text.
FlushFails(c) ==
  /\ calls[c].pc = "flush"
  /\ failures < MaxFailures
  /\ failures' = failures + 1
  /\ file' = [file EXCEPT ![calls[c].fd] = Torn]
  /\ calls' = [calls EXCEPT ![c].pc = "clean", ![c].error = "disk"]
  /\ UNCHANGED <<slack, path, tmp, lock, writers, crashes>>

\* Another process may have moved or removed the temporary file.
Replace(c) ==
  /\ calls[c].pc = "replace"
  /\ \/ /\ tmp # None
        /\ path' = tmp
        /\ tmp' = None
        /\ Goto(c, "clean")
     \/ /\ tmp = None
        /\ calls' = [calls EXCEPT ![c].pc = "clean", ![c].error = "gone"]
        /\ UNCHANGED <<path, tmp>>
  /\ UNCHANGED <<slack, file, lock, writers, bounds>>

\* finally: the temporary file is removed if there is one, whosever it is.  What
\* the write raised reaches the caller, in the place of the value.
Clean(c) ==
  /\ calls[c].pc = "clean"
  /\ tmp' = None
  /\ Unlock(c)
  /\ Return(c, IF calls[c].error = "none" THEN "done" ELSE "raised", calls[c].value)
  /\ UNCHANGED <<slack, file, path, writers, bounds>>

-------------------------------------------------------------------------------
Tick ==
  /\ now < MaxNow
  /\ now' = now + 1
  /\ UNCHANGED <<until, failedAt, disk, lock, calls, writers, bounds>>

Rename ==
  /\ Name < MaxRenames
  /\ until' = Append(until, now)
  /\ UNCHANGED <<now, failedAt, disk, lock, calls, writers, bounds>>

\* A process ends, with its lock; what it wrote stays.
Crash(p) ==
  /\ crashes < MaxCrashes
  /\ crashes' = crashes + 1
  /\ lock' = [lock EXCEPT ![p] = None]
  /\ calls' = [c \in Call |-> IF Home(c) = p THEN Resting("lost") ELSE calls[c]]
  /\ UNCHANGED <<slack, disk, writers, failures>>

Step(c) ==
  \/ Lookup(c) \/ Unlink(c) \/ Compute(c) \/ ComputeFails(c)
  \/ Open(c) \/ Flush(c) \/ FlushFails(c) \/ Replace(c) \/ Clean(c)

Next ==
  \/ Tick \/ Rename
  \/ \E p \in Process : Crash(p) \/ \E c \in Call : Begin(c, p)
  \/ \E c \in Call : Step(c)

Spec == Init /\ [][Next]_vars
===============================================================================
