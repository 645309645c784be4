------------------------------ MODULE CopilotRun ------------------------------
(***************************************************************************)
(* One run of the copilot, from the event that asks for it to the notice   *)
(* that ends it: the listeners (slack_listener_with_threads.py), the       *)
(* runner (react_runner.py), the pipeline (copilot_pipeline.py), the loop  *)
(* of completions and tool calls (tool_loop.py) and the agent log          *)
(* (agent_log.py).  Runs are threads of the bot, or of the Huey consumer    *)
(* for watchers; they share the installed skills and the log's files.      *)
(***************************************************************************)
EXTENDS Integers, Sequences, FiniteSets

CONSTANTS Run,
          MaxRounds,    \* llm.max_tool_rounds
          MaxCalls,     \* bound: tool calls in one completion
          MaxEdits,     \* bound: times SKILL.md is installed or removed
          None

ASSUME BoundsAssumption == /\ MaxRounds \in Nat \ {0}
                           /\ MaxCalls \in Nat \ {0}
                           /\ MaxEdits \in Nat
ASSUME NoneAssumption == None \notin STRING /\ None \notin Run

VARIABLES runs,       \* what each run is doing and has done
          installed,  \* whether the skill that triggers name has its SKILL.md
          globalLog,  \* the runs with a line in agent_logs/llm_actions.log
          threadLog,  \* the runs with a line in the log of their thread
          writer,     \* for each process, the run that holds its _WRITE_LOCK
          edits

vars == <<runs, installed, globalLog, threadLog, writer, edits>>
logs == <<globalLog, threadLog, writer>>
skill == <<installed, edits>>

Trigger == {"slash_command", "message_shortcut", "app_mention",
            "tool_confirm_revise", "scheduled_prompt", "watcher"}

\* Triggers that name the skill to use; for the others the LLM selects skills.
ForcesSkill(trigger) == trigger \in {"message_shortcut", "watcher"}

\* The process a run is a thread of.
Process == {"bot", "consumer"}
ProcessOf(run) == IF run.trigger = "watcher" THEN "consumer" ELSE "bot"

\* Calls are numbered in a run; a tool asks for a confirmation or just acts.
Call == [id : 1..(MaxRounds * MaxCalls), confirms : BOOLEAN]

\* What a handler's JSON says: a confirmation card was shown, the action was
\* carried out, an error, or an error whose text is empty.
Result == {"shown", "acted", "error", "blank"}

Message == [role : {"assistant"}, calls : Seq(Call)] \cup [role : {"tool"}, call : Call]

\* The parts of the closing notice: assistant text, receipts, tool errors.
Notice == [kind : {"usage", "missing", "dialog", "invite", "failed", "empty",
                   "no_submit"}]
            \cup [kind : {"outcome"}, text : BOOLEAN, receipts : SUBSET Call,
                  errors : SUBSET Call]
ASSUME NoticeAssumption == None \notin Notice

RunState == [pc : {"new", "dialog", "context", "skill", "prompt", "complete", "tools",
                   "log", "log_thread", "post", "failed", "done"},
             trigger : Trigger \cup {None}, round : 0..MaxRounds,
             talk : Seq(Message), pending : Seq(Call),
             trace : Seq([call : Call, result : Result]), text : BOOLEAN,
             cards : SUBSET Call, acted : SUBSET Call,
             notice : Notice \cup {None}, unheard : BOOLEAN]

New == [pc |-> "new", trigger |-> None, round |-> 0, talk |-> <<>>, pending |-> <<>>,
        trace |-> <<>>, text |-> FALSE, cards |-> {}, acted |-> {},
        notice |-> None, unheard |-> FALSE]

Init ==
  /\ runs = [r \in Run |-> New]
  /\ installed = TRUE
  /\ globalLog = {}
  /\ threadLog = {}
  /\ writer = [p \in Process |-> None]
  /\ edits = 0

-------------------------------------------------------------------------------
(* Helpers on a run's state. *)

Goto(r, pc) == runs' = [runs EXCEPT ![r].pc = pc]

\* An ephemeral ends the run; when Slack refuses it the exception leaves the
\* handler (or is swallowed) and the user hears nothing.
Close(r, notice) ==
  \/ runs' = [runs EXCEPT ![r].pc = "done", ![r].notice = notice]
  \/ runs' = [runs EXCEPT ![r].pc = "done", ![r].unheard = TRUE]

Starts(r, trigger, pc) ==
  runs' = [runs EXCEPT ![r].trigger = trigger, ![r].pc = pc]

\* A listener that turns the event down.
Refuse(r, trigger, notice) ==
  \/ runs' = [runs EXCEPT ![r].trigger = trigger, ![r].pc = "done", ![r].notice = notice]
  \/ runs' = [runs EXCEPT ![r].trigger = trigger, ![r].pc = "done", ![r].unheard = TRUE]

ErrorsOf(trace) == {trace[i].call : i \in {j \in DOMAIN trace : trace[j].result = "error"}}

\* The receipt of a run: a line for every call of a tool without a confirmation.
Receipts(trace) == {trace[i].call : i \in {j \in DOMAIN trace : ~trace[j].call.confirms}}

ConfirmPending(trace) ==
  \E i \in DOMAIN trace : trace[i].call.confirms /\ trace[i].result = "shown"

-------------------------------------------------------------------------------
(* Events that ask for a run. *)

\* /copilot, inside a thread or not.
SlashCommand(r) ==
  /\ runs[r].pc = "new"
  /\ \/ Starts(r, "slash_command", "context")
     \/ Refuse(r, "slash_command", [kind |-> "usage"])
  /\ UNCHANGED <<skill, logs>>

\* An app mention: its messages are read before the run; without them the user
\* is told to invite the bot.
AppMention(r) ==
  /\ runs[r].pc = "new"
  /\ \/ Starts(r, "app_mention", "skill")
     \/ Refuse(r, "app_mention", [kind |-> "invite"])
  /\ UNCHANGED <<skill, logs>>

\* A message shortcut opens the dialog for an instruction.
Shortcut(r) ==
  /\ runs[r].pc = "new"
  /\ \/ /\ ~installed
        /\ Refuse(r, "message_shortcut", [kind |-> "missing"])
     \/ /\ installed
        /\ \/ Starts(r, "message_shortcut", "dialog")
           \/ Refuse(r, "message_shortcut", [kind |-> "invite"])
           \/ Refuse(r, "message_shortcut", [kind |-> "dialog"])
  /\ UNCHANGED <<skill, logs>>

\* The dialog is submitted.  Without the skill, or the messages, it stays open
\* with an error in it.
SubmitDialog(r) ==
  /\ runs[r].pc = "dialog"
  /\ installed
  /\ Goto(r, "skill")
  /\ UNCHANGED <<skill, logs>>

\* A revise dialog, a scheduled prompt and a watcher call the runner themselves.
\* (Whoever does names a recipient: without one the runner would return at once.)
Called(r, trigger) ==
  /\ runs[r].pc = "new"
  /\ trigger \in {"tool_confirm_revise", "scheduled_prompt", "watcher"}
  /\ Starts(r, trigger, "context")
  /\ UNCHANGED <<skill, logs>>

-------------------------------------------------------------------------------
(* run_react_and_confirm, up to the loop. *)

\* _resolve_thread_messages; its ThreadFetchError or ReviseError closes the run
\* with a word to the user.
ReadContext(r) ==
  /\ runs[r].pc = "context"
  /\ Goto(r, "skill") \/ Close(r, [kind |-> "invite"])
  /\ UNCHANGED <<skill, logs>>

\* A forced skill is loaded; gone, it ends the run without a word.  Else the
\* LLM selects skills, and may fail.
LoadSkill(r) ==
  /\ runs[r].pc = "skill"
  /\ IF ForcesSkill(runs[r].trigger)
     THEN IF installed
          THEN Goto(r, "prompt")
          ELSE Goto(r, "done")
     ELSE Goto(r, "prompt") \/ Goto(r, "failed")
  /\ UNCHANGED <<skill, logs>>

\* RAG and the log's recent lines go into the system prompt; what raises
\* outside of their own handlers fails the run.
ComposePrompt(r) ==
  /\ runs[r].pc = "prompt"
  /\ Goto(r, "complete") \/ Goto(r, "failed")
  /\ UNCHANGED <<skill, logs>>

-------------------------------------------------------------------------------
(* The loop of completions and tool calls. *)

\* The calls of the next completion, numbered on from those before.
NextCalls(r) ==
  LET before == Len(runs[r].trace)
  IN  {[k \in 1..n |-> [id |-> before + k, confirms |-> c[k]]] :
         n \in 1..MaxCalls, c \in [1..MaxCalls -> BOOLEAN]}

\* A completion that calls tools.
CompleteWithCalls(r) ==
  /\ runs[r].pc = "complete"
  /\ runs[r].round < MaxRounds
  /\ \E calls \in NextCalls(r) :
       runs' = [runs EXCEPT ![r].pc = "tools", ![r].round = @ + 1, ![r].pending = calls,
                  ![r].talk = Append(@, [role |-> "assistant", calls |-> calls])]
  /\ UNCHANGED <<skill, logs>>

\* A completion without calls ends the loop, with a text or an empty one.
CompleteWithText(r) ==
  /\ runs[r].pc = "complete"
  /\ runs[r].round < MaxRounds
  /\ \E text \in BOOLEAN :
       runs' = [runs EXCEPT ![r].pc = "log", ![r].round = @ + 1, ![r].text = text]
  /\ UNCHANGED <<skill, logs>>

\* A completion that raises: the trace is lost with the exception.
CompletionFails(r) ==
  /\ runs[r].pc = "complete"
  /\ runs[r].round < MaxRounds
  /\ Goto(r, "failed")
  /\ UNCHANGED <<skill, logs>>

\* The loop gives up after max_tool_rounds, with no text.
RoundsUsedUp(r) ==
  /\ runs[r].pc = "complete"
  /\ runs[r].round = MaxRounds
  /\ Goto(r, "log")
  /\ UNCHANGED <<skill, logs>>

\* What may come of a call: its result, the card Slack shows for it, the action
\* it carries out.  A handler may have acted, or Slack shown its card, and the
\* answer be lost: then the result is an error all the same.
Outcome(call) ==
  IF call.confirms
  THEN {<<"shown", {call}, {}>>, <<"error", {}, {}>>, <<"error", {call}, {}>>,
        <<"blank", {}, {}>>}
  ELSE {<<"acted", {}, {call}>>, <<"error", {}, {}>>, <<"error", {}, {call}>>,
        <<"blank", {}, {}>>}

\* The call at the head of the batch has come to outcome out; answer is what it
\* adds to the conversation.
Answered(r, out, answer) ==
  LET call == Head(runs[r].pending)
  IN  runs' = [runs EXCEPT
        ![r].pc = IF Len(runs[r].pending) = 1 THEN "complete" ELSE "tools",
        ![r].pending = Tail(@),
        ![r].trace = Append(@, [call |-> call, result |-> out[1]]),
        ![r].cards = @ \cup out[2],
        ![r].acted = @ \cup out[3],
        ![r].talk = @ \o answer]

ToolMessage(call) == <<[role |-> "tool", call |-> call]>>

\* Bug: a call whose handler raised gets no answer in the conversation.
RunTool_Unanswered(r) ==
  /\ runs[r].pc = "tools"
  /\ \E out \in Outcome(Head(runs[r].pending)) :
       Answered(r, out, IF out[1] = "error" THEN <<>>
                        ELSE ToolMessage(Head(runs[r].pending)))
  /\ UNCHANGED <<skill, logs>>

\* The next call of the batch is run and answered in the conversation, its
\* exception as an error.
RunTool(r) ==
  /\ runs[r].pc = "tools"
  /\ \E out \in Outcome(Head(runs[r].pending)) :
       Answered(r, out, ToolMessage(Head(runs[r].pending)))
  /\ UNCHANGED <<skill, logs>>

-------------------------------------------------------------------------------
(* The log, and what the user is told. *)

\* append_entry, under the lock: first the line in the global log.
LogGlobal(r) ==
  /\ runs[r].pc = "log"
  /\ writer[ProcessOf(runs[r])] = None
  /\ \/ /\ Goto(r, "log_thread")
        /\ globalLog' = globalLog \cup {r}
        /\ writer' = [writer EXCEPT ![ProcessOf(runs[r])] = r]
     \/ /\ Goto(r, "failed")
        /\ UNCHANGED <<globalLog, writer>>
  /\ UNCHANGED <<skill, threadLog>>

\* Bug: a write that fails leaves the lock taken.
LogThread_KeepsLock(r) ==
  /\ runs[r].pc = "log_thread"
  /\ \/ /\ Goto(r, "post")
        /\ threadLog' = threadLog \cup {r}
        /\ writer' = [writer EXCEPT ![ProcessOf(runs[r])] = None]
     \/ /\ Goto(r, "failed")
        /\ UNCHANGED <<threadLog, writer>>
  /\ UNCHANGED <<skill, globalLog>>

\* Bug: a write that fails is taken for one that succeeded.
LogThread_Swallowed(r) ==
  /\ runs[r].pc = "log_thread"
  /\ writer' = [writer EXCEPT ![ProcessOf(runs[r])] = None]
  /\ Goto(r, "post")
  /\ threadLog' = threadLog \cup {r} \/ UNCHANGED threadLog
  /\ UNCHANGED <<skill, globalLog>>

\* Then the line in the thread's log.
LogThread(r) ==
  /\ runs[r].pc = "log_thread"
  /\ writer' = [writer EXCEPT ![ProcessOf(runs[r])] = None]
  /\ \/ /\ Goto(r, "post")
        /\ threadLog' = threadLog \cup {r}
     \/ /\ Goto(r, "failed")
        /\ UNCHANGED threadLog
  /\ UNCHANGED <<skill, globalLog>>

\* The text of a ReactLoopResult: the assistant's, with the tool errors added.
Draft(run) == run.text \/ ErrorsOf(run.trace) # {}

\* The notice _compose_post_loop_message builds; the assistant's text is left
\* out while a card waits for the user.
OutcomeOf(run) ==
  [kind |-> "outcome", text |-> Draft(run) /\ ~ConfirmPending(run.trace),
   receipts |-> Receipts(run.trace), errors |-> ErrorsOf(run.trace)]

HasBody(notice) == notice.text \/ notice.receipts # {} \/ notice.errors # {}

\* Bug: a card is taken for all there is to say.
PostOutcome_CardOnly(r) ==
  /\ runs[r].pc = "post"
  /\ LET run == runs[r]
     IN  \/ /\ ConfirmPending(run.trace)
            /\ Goto(r, "done")
         \/ /\ ~ConfirmPending(run.trace)
            /\ Close(r, IF HasBody(OutcomeOf(run)) THEN OutcomeOf(run)
                        ELSE [kind |-> IF run.trace = <<>> THEN "empty" ELSE "no_submit"])
  /\ UNCHANGED <<skill, logs>>

\* Bug: only the last call is looked at for a card.
PostOutcome_LastOnly(r) ==
  /\ runs[r].pc = "post"
  /\ LET run == runs[r]
         shown == run.trace # <<>> /\ run.trace[Len(run.trace)].result = "shown"
     IN  IF HasBody(OutcomeOf(run)) THEN Close(r, OutcomeOf(run))
         ELSE IF shown THEN Goto(r, "done")
         ELSE Close(r, [kind |-> IF run.trace = <<>> THEN "empty" ELSE "no_submit"])
  /\ UNCHANGED <<skill, logs>>

\* Bug: a run with nothing to say says nothing.
PostOutcome_Silent(r) ==
  /\ runs[r].pc = "post"
  /\ LET run == runs[r]
     IN  IF HasBody(OutcomeOf(run)) THEN Close(r, OutcomeOf(run)) ELSE Goto(r, "done")
  /\ UNCHANGED <<skill, logs>>

\* _post_loop_ephemeral.
PostOutcome(r) ==
  /\ runs[r].pc = "post"
  /\ LET run == runs[r]
     IN  \/ /\ HasBody(OutcomeOf(run))
            /\ Close(r, OutcomeOf(run))
         \/ /\ ~HasBody(OutcomeOf(run))
            /\ ConfirmPending(run.trace)
            /\ Goto(r, "done")
         \/ /\ ~HasBody(OutcomeOf(run))
            /\ ~ConfirmPending(run.trace)
            /\ Close(r, [kind |-> IF run.trace = <<>> THEN "empty" ELSE "no_submit"])
  /\ UNCHANGED <<skill, logs>>

\* What any other exception of the run comes to: "Failed to process".
PostFailure(r) ==
  /\ runs[r].pc = "failed"
  /\ Close(r, [kind |-> "failed"])
  /\ UNCHANGED <<skill, logs>>

-------------------------------------------------------------------------------
\* External: somebody installs or removes the SKILL.md.
EditSkill ==
  /\ edits < MaxEdits
  /\ installed' = ~installed
  /\ edits' = edits + 1
  /\ UNCHANGED <<runs, logs>>

\* The steps a thread of the process takes once an event has started it.
Advance(r) ==
  \/ ReadContext(r) \/ LoadSkill(r) \/ ComposePrompt(r)
  \/ CompleteWithCalls(r) \/ CompleteWithText(r) \/ CompletionFails(r) \/ RoundsUsedUp(r)
  \/ RunTool(r) \/ LogGlobal(r) \/ LogThread(r) \/ PostOutcome(r) \/ PostFailure(r)

Ask(r) ==
  \/ SlashCommand(r) \/ AppMention(r) \/ Shortcut(r) \/ SubmitDialog(r)
  \/ \E trigger \in Trigger : Called(r, trigger)

Next == EditSkill \/ \E r \in Run : Ask(r) \/ Advance(r)

Spec == Init /\ [][Next]_vars

\* A started thread runs on.  The log's lock needs no more: each run takes it
\* once, so it is free for good in the end.
Fairness == \A r \in Run : WF_vars(Advance(r))

FairSpec == Spec /\ Fairness
===============================================================================
