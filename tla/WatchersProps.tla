----------------------------- MODULE WatchersProps -----------------------------
(* What sweeps over the watchers must never do, and what wakes lead to. *)
EXTENDS Watchers, SequencesExt

\* The variables hold the kinds of values the code keeps in them; the queue
\* holds each queued wake once, and the lock a task that runs or died running.
TypeOK ==
  /\ size \in [Thread -> 1..MaxSize]
  /\ hot \subseteq Thread
  /\ tasks \in Seq(Wake)
  /\ lock \in Wake \cup {None}
  /\ sweeps \in [Sweeper -> Sweep]
  /\ fate \in [Wake -> Fate]
  /\ fired \in [Watcher -> Nat]
  /\ up \in BOOLEAN
  /\ crashes \in 0..MaxCrashes
  /\ commands \in 0..MaxCommands
  /\ ToSet(tasks) = {k \in Wake : fate[k] = "queued"}
  /\ IsInjective(tasks)
  /\ lock # None => fate[lock] \in {"running", "lost"}

\* A sweep that comes to its end has evaluated every watcher, whichever of them
\* failed on the way, and picked at most one thread for each.
SweepsAreComplete ==
  \A p \in Sweeper :
    /\ sweeps[p].pc = "end" => sweeps[p].done = Watcher
    /\ \A w \in Watcher : Cardinality(sweeps[p].picked[w]) <= 1

\* Every run of a watcher's skill is paid for: by a wake whose task got the lock,
\* or by a command.  Queued, dropped and locked-out tasks run nothing, and a sweep
\* runs the skill on one thread at most, however many pass.
SkillsArePaidFor ==
  LET sweepsBegun == Cardinality({k \in Wake : fate[k] \in {"running", "swept", "lost"}})
  IN  \A w \in Watcher : fired[w] <= sweepsBegun + commands

\* A confirmation's task is taken by the consumer in the end, and either sweeps,
\* or is dropped, or is lost with the process.
WakesAreTaken ==
  \A k \in Wake : fate[k] = "queued" ~> fate[k] \in {"swept", "dropped", "lost"}

-------------------------------------------------------------------------------
(* What the repository says and the code does not do. *)

\* The plan of the watchers: a task is dropped while another sweep holds the
\* lock; so a confirmation outside of a burst is never without effect.
DroppedInBurstsOnly ==
  [][\A k \in Wake :
       fate[k] = "queued" /\ fate'[k] = "dropped"
         => \E i \in Wake : fate[i] = "running"]_vars
===============================================================================
