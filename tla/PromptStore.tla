------------------------------ MODULE PromptStore ------------------------------
(***************************************************************************)
(* What scheduled prompts promise, whatever their files, schedulers and    *)
(* processes do: a prompt is kept once, from its request on for Life at    *)
(* most; it is dropped before its end only by a command to clear, and then *)
(* for good; a runner has one prompt at a time, takes it up only before    *)
(* its end and runs it only while it is still kept.  Nothing is said of    *)
(* the time between: a prompt that was taken up in time may run late.      *)
(***************************************************************************)
EXTENDS Integers

CONSTANTS JobId, Runner, Life, None

VARIABLES clock,
          life,      \* where each prompt is in its life
          ends,      \* when it expires, once it was asked for
          clearing,  \* whether a command to clear is at work
          stage,     \* whether a runner is idle, has taken a prompt up or runs it
          prompt     \* which prompt that is

storeVars == <<clock, life, ends, clearing, stage, prompt>>

StoreInit ==
  /\ clock = 0
  /\ life = [j \in JobId |-> "new"]
  /\ ends = [j \in JobId |-> None]
  /\ clearing = FALSE
  /\ stage = [w \in Runner |-> "idle"]
  /\ prompt = [w \in Runner |-> None]

Pass ==
  /\ clock' = clock + 1
  /\ UNCHANGED <<life, ends, clearing, stage, prompt>>

Ask(j) ==
  /\ life[j] = "new"
  /\ life' = [life EXCEPT ![j] = "asked"]
  /\ ends' = [ends EXCEPT ![j] = clock + Life]
  /\ UNCHANGED <<clock, clearing, stage, prompt>>

Keep(j) ==
  /\ life[j] = "asked"
  /\ life' = [life EXCEPT ![j] = "kept"]
  /\ UNCHANGED <<clock, ends, clearing, stage, prompt>>

\* A runner has nothing any more: its run is over, given up or dead.
Rest(w) ==
  /\ stage' = [stage EXCEPT ![w] = "idle"]
  /\ prompt' = [prompt EXCEPT ![w] = None]

\* Requests come to nothing; a process may end with them, and with it a run and a
\* command to clear.
Fail ==
  /\ \A j \in JobId : \/ life'[j] = life[j]
                      \/ (life[j] \in {"new", "asked"} /\ life'[j] = "gone")
  /\ life' = [j \in JobId |-> life'[j]]
  /\ UNCHANGED <<stage, prompt>> \/ \E w \in Runner : Rest(w)
  /\ clearing' \in {clearing, FALSE}
  /\ UNCHANGED <<clock, ends>>

Drop(j) ==
  /\ life[j] = "kept"
  /\ clock >= ends[j] \/ clearing
  /\ life' = [life EXCEPT ![j] = "gone"]
  /\ UNCHANGED <<clock, ends, clearing, stage, prompt>>

Clear ==
  /\ clearing' = ~clearing
  /\ UNCHANGED <<clock, life, ends, stage, prompt>>

TakeUp(w, j) ==
  /\ stage[w] = "idle"
  /\ life[j] = "kept"
  /\ clock < ends[j]
  /\ stage' = [stage EXCEPT ![w] = "taken"]
  /\ prompt' = [prompt EXCEPT ![w] = j]
  /\ UNCHANGED <<clock, life, ends, clearing>>

Run(w) ==
  /\ stage[w] = "taken"
  /\ life[prompt[w]] = "kept"
  /\ stage' = [stage EXCEPT ![w] = "running"]
  /\ UNCHANGED <<clock, life, ends, clearing, prompt>>

StoreNext ==
  \/ Pass \/ Clear \/ Fail
  \/ \E w \in Runner : Run(w) \/ \E j \in JobId : TakeUp(w, j)
  \/ \E j \in JobId : Ask(j) \/ Keep(j) \/ Drop(j)

StoreSpec == StoreInit /\ [][StoreNext]_storeVars
===============================================================================
