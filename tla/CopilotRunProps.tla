---------------------------- MODULE CopilotRunProps ----------------------------
(* What a run of the copilot must never do, and what it leads to. *)
EXTENDS CopilotRun

\* The variables hold the kinds of values the code keeps in them; the log's lock
\* of a process is held by its run between two lines, and only by it.
TypeOK ==
  /\ runs \in [Run -> RunState]
  /\ installed \in BOOLEAN
  /\ globalLog \subseteq Run
  /\ threadLog \subseteq globalLog
  /\ writer \in [Process -> Run \cup {None}]
  /\ edits \in 0..MaxEdits
  /\ \A r \in Run, p \in Process :
       writer[p] = r <=> runs[r].pc = "log_thread" /\ ProcessOf(runs[r]) = p

\* The conversation sent for a completion is one the API accepts: an assistant
\* message is followed by one answer to each of its calls, in their order, and
\* nothing else answers.  (_append_assistant_tool_calls, _run_tools_and_append_results.)
ConversationWellFormed ==
  \A r \in Run :
    LET talk == runs[r].talk
    IN  runs[r].pc = "complete" =>
          /\ \A i \in DOMAIN talk : talk[i].role = "assistant" =>
               \A k \in DOMAIN talk[i].calls :
                 /\ i + k \in DOMAIN talk
                 /\ talk[i + k] = [role |-> "tool", call |-> talk[i].calls[k]]
          /\ \A j \in DOMAIN talk : talk[j].role = "tool" =>
               \E i \in 1..(j - 1) :
                 /\ talk[i].role = "assistant"
                 /\ j - i \in DOMAIN talk[i].calls

\* A run that ends with its outcome names every action a tool carried out without
\* a confirmation, in whatever round, also those whose handler then failed, and
\* also when a card waits for the user.  (_build_notify_mode_receipt.)
ActionsAreReported ==
  \A r \in Run :
    runs[r].pc = "done" /\ ~runs[r].unheard /\ (r \in threadLog)
      => runs[r].acted \subseteq
           IF runs[r].notice # None /\ runs[r].notice.kind = "outcome"
           THEN runs[r].notice.receipts ELSE {}

\* A user with a card of the run before them is never told that the run came to
\* nothing or that the reply was not submitted, nor shown the assistant's text
\* beside it, whichever call showed the card; but for a card whose call failed on
\* its way back.  (_trace_shows_confirm_ui_pending.)
CardsAreNotDenied ==
  \A r \in Run :
    LET notice == runs[r].notice
        reported == {runs[r].trace[i].call :
                       i \in {k \in DOMAIN runs[r].trace : runs[r].trace[k].result = "shown"}}
    IN  runs[r].cards \cap reported # {} /\ notice # None =>
          /\ notice.kind \notin {"empty", "no_submit"}
          /\ notice.kind = "outcome" => ~notice.text

\* A run ends in silence only if Slack refused its notice, or its forced skill was
\* removed before anything was done.
NeverSilent ==
  \A r \in Run :
    runs[r].pc = "done" /\ runs[r].notice = None /\ runs[r].cards = {} /\ ~runs[r].unheard
      => ForcesSkill(runs[r].trigger) /\ runs[r].round = 0

\* What a user hears as the outcome is in both logs by then.
OutcomesAreLogged ==
  \A r \in Run :
    runs[r].notice # None /\ runs[r].notice.kind \in {"outcome", "empty", "no_submit"}
      => r \in globalLog \cap threadLog

\* A run that was started comes to its end, whatever the LLM asks for; a dialog
\* may stay open.
RunsEnd ==
  \A r \in Run : runs[r].pc \notin {"new", "dialog"} ~> runs[r].pc = "done"
===============================================================================
