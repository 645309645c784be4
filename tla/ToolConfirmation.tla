--------------------------- MODULE ToolConfirmation ---------------------------
(***************************************************************************)
(* The confirmation flow of common/slack/slack_bot/tool_confirmation.py    *)
(* and of the tools that use it.  An agent run calls a tool that needs a   *)
(* confirmation: the drafted text is written to a file and a card with     *)
(* Revise and Confirm buttons is shown to the requester alone.  Each click *)
(* is a Bolt listener invocation (a job) on a thread of its own, so jobs   *)
(* interleave; the card outlives them all, in Slack.                       *)
(***************************************************************************)
EXTENDS SlackWorld, Sequences

CONSTANTS Card,      \* confirmation cards; a card's draft_ref is its identity
          Job        \* bound: Bolt listener invocations

ASSUME IdsAssumption == None \notin Card /\ None \notin Job

VARIABLES drafts,    \* .cache/tool_confirm_drafts: the text of each draft_ref
          cards,     \* the ephemeral cards Slack shows
          modals,    \* cards whose Revise dialog is open
          jobs,      \* the listener invocations
          feed,      \* messages written to Slack, oldest first
          tokens,    \* members with a user OAuth token
          discarded  \* cards whose draft file went with a container

vars == <<drafts, cards, modals, jobs, feed, tokens, discarded>>

-------------------------------------------------------------------------------
\* What a card carries: the payload of its buttons, whom Slack shows it to, and
\* the text in its body.
CardInfo == [tool : Tool, thread : Thread, to : Thread \cup User,
             prepareUser : User, viewer : User, text : Text]

\* A job: who caused it, the card its button belongs to or the one it is about
\* to show, and the thread of the run it executes.  result is what
\* execute_after_confirm or the loading of the draft returned, which is what
\* the job replies.  resent is the retry state of the Slack client: the request
\* is sent again because its connection broke.
PC == {"idle", "load", "open", "post", "wake", "reply", "react", "card", "done"}
Result == {"none", "posted", "failed", "not connected", "unreadable",
           "no dialog"}
JobInfo == [pc : PC, kind : {"none", "confirm", "revise", "run"},
            user : User \cup {None}, card : Card \cup {None},
            thread : Thread \cup {None}, text : Text \cup {None},
            resent : BOOLEAN, result : Result]

NewJob == [pc |-> "idle", kind |-> "none", user |-> None, card |-> None,
           thread |-> None, text |-> None, resent |-> FALSE, result |-> "none"]

Init ==
  /\ drafts = [c \in Card |-> None]
  /\ cards = [c \in Card |-> None]
  /\ modals = {}
  /\ jobs = [j \in Job |-> NewJob]
  /\ feed = <<>>
  /\ tokens \in SUBSET User
  /\ discarded = {}

\* What the message of job j says, when it carries out the card's action with
\* the text read from the draft file.
MessageOf(j, card, text) ==
  [click |-> j, to |-> card.to, as |-> Identity(card.tool, card.prepareUser),
   text |-> ToSlackMrkdwn(text)]

\* The locals of a job die with it; what it did and told its user remains.
Goto(j, pc) == jobs' = [jobs EXCEPT ![j].pc = pc]
Return(j, pc, result) ==
  jobs' = [jobs EXCEPT ![j].pc = pc, ![j].result = result, ![j].text = None]
End(job) ==
  IF job.kind = "confirm" THEN [job EXCEPT !.pc = "done", !.text = None]
                          ELSE [NewJob EXCEPT !.pc = "done", !.result = job.result]

-------------------------------------------------------------------------------
(* An agent run: run_react_and_confirm in the thread of a Bolt listener. *)

\* /copilot, the message shortcut or a mention starts a run for its own user.
StartRun(j, user, thread) ==
  /\ jobs[j].pc = "idle"
  /\ jobs' = [jobs EXCEPT ![j] = [NewJob EXCEPT !.pc = "react", !.kind = "run",
                                    !.user = user, !.thread = thread]]
  /\ UNCHANGED <<drafts, cards, modals, feed, tokens, discarded>>

\* The submit button of a Revise dialog: a run in the thread of the payload,
\* prepared for the payload's user.  An empty instruction leaves the dialog open.
SubmitRevision(j, c) ==
  /\ jobs[j].pc = "idle"
  /\ c \in modals
  /\ modals' = modals \ {c}
  /\ jobs' = [jobs EXCEPT ![j] = [NewJob EXCEPT !.pc = "react", !.kind = "run",
                                    !.user = cards[c].prepareUser,
                                    !.thread = cards[c].thread]]
  /\ UNCHANGED <<drafts, cards, feed, tokens, discarded>>

\* Bugs: one draft file for all cards; a draft that never reaches the disk.
SaveDraft_OneFile(j, c, text) ==
  /\ jobs[j].pc = "react"
  /\ cards[c] = None
  /\ drafts' = [d \in Card |-> ToSlackMrkdwn(text)]
  /\ jobs' = [jobs EXCEPT ![j].pc = "card", ![j].card = c,
                          ![j].text = ToSlackMrkdwn(text)]
  /\ UNCHANGED <<cards, modals, feed, tokens, discarded>>
SaveDraft_InMemory(j, c, text) ==
  /\ jobs[j].pc = "react"
  /\ cards[c] = None
  /\ jobs' = [jobs EXCEPT ![j].pc = "card", ![j].card = c,
                          ![j].text = ToSlackMrkdwn(text)]
  /\ UNCHANGED <<drafts, cards, modals, feed, tokens, discarded>>

\* The model calls a confirm tool: the converted text goes to a file of its own.
\* (When the write raises, there is no card either, and the run goes on.)
SaveDraft(j, c, text) ==
  /\ jobs[j].pc = "react"
  /\ drafts[c] = None
  /\ cards[c] = None
  /\ \A i \in Job : jobs[i].pc = "card" => jobs[i].card # c
  /\ drafts' = [drafts EXCEPT ![c] = ToSlackMrkdwn(text)]
  /\ jobs' = [jobs EXCEPT ![j].pc = "card", ![j].card = c,
                          ![j].text = ToSlackMrkdwn(text)]
  /\ UNCHANGED <<cards, modals, feed, tokens, discarded>>

\* The card is posted to the run's user.  When the call raises, the tool returns
\* an error to the model, but Slack may have shown the card all the same.  (One
\* the client sends twice is one card here: both copies carry the same payload.)
ShowCard(j, tool, to) ==
  /\ jobs[j].pc = "card"
  /\ to \in Destination(tool, jobs[j].thread)
  /\ cards' = [cards EXCEPT ![jobs[j].card] =
                 [tool |-> tool, thread |-> jobs[j].thread, to |-> to,
                  prepareUser |-> jobs[j].user, viewer |-> jobs[j].user,
                  text |-> jobs[j].text]]
  /\ jobs' = [jobs EXCEPT ![j].pc = "react", ![j].card = None, ![j].text = None]
  /\ UNCHANGED <<drafts, modals, feed, tokens, discarded>>

\* The blocks exceed a limit, or Slack refuses them: the draft stays behind.
LoseCard(j) ==
  /\ jobs[j].pc = "card"
  /\ jobs' = [jobs EXCEPT ![j].pc = "react", ![j].card = None, ![j].text = None]
  /\ UNCHANGED <<drafts, cards, modals, feed, tokens, discarded>>

EndRun(j) ==
  /\ jobs[j].pc = "react"
  /\ jobs' = [jobs EXCEPT ![j] = End(@)]
  /\ UNCHANGED <<drafts, cards, modals, feed, tokens, discarded>>

-------------------------------------------------------------------------------
(* The Confirm button: _on_confirm and handle_confirm_action. *)

\* Bug: the card is posted in the thread, where any member can click it.
ClickConfirm_ByAnyone(j, c) ==
  /\ jobs[j].pc = "idle"
  /\ cards[c] # None
  /\ \E user \in User :
       jobs' = [jobs EXCEPT ![j] = [NewJob EXCEPT !.pc = "load", !.kind = "confirm",
                                         !.user = user, !.card = c]]
  /\ UNCHANGED <<drafts, cards, modals, feed, tokens, discarded>>

\* Nothing marks a card as used: every click on it starts a job.
ClickConfirm(j, c) ==
  /\ jobs[j].pc = "idle"
  /\ cards[c] # None
  /\ jobs' = [jobs EXCEPT ![j] = [NewJob EXCEPT !.pc = "load", !.kind = "confirm",
                                    !.user = cards[c].viewer, !.card = c]]
  /\ UNCHANGED <<drafts, cards, modals, feed, tokens, discarded>>

LoadDraft(j) ==
  /\ jobs[j].pc = "load"
  /\ drafts[jobs[j].card] # None
  /\ jobs' = [jobs EXCEPT ![j].pc = "post", ![j].text = drafts[jobs[j].card]]
  /\ UNCHANGED <<drafts, cards, modals, feed, tokens, discarded>>

DraftMissing(j) ==
  /\ jobs[j].pc = "load"
  /\ drafts[jobs[j].card] = None
  /\ Return(j, "reply", "unreadable")
  /\ UNCHANGED <<drafts, cards, modals, feed, tokens, discarded>>

NeedsToken(j) ==
  LET card == cards[jobs[j].card]
  IN  OnBehalf(card.tool) /\ card.prepareUser \notin tokens

\* The token is read once, before the message is sent.
Sends(j) == jobs[j].pc = "post" /\ (jobs[j].resent \/ ~NeedsToken(j))

NotConnected(j) ==
  /\ jobs[j].pc = "post"
  /\ ~Sends(j)
  /\ Return(j, "wake", "not connected")
  /\ UNCHANGED <<drafts, cards, modals, feed, tokens, discarded>>

Sent(j) == Append(feed, MessageOf(j, cards[jobs[j].card], jobs[j].text))

\* Bug: a broken connection is retried until it holds.
LoseConnection_Forever(j) ==
  /\ Sends(j)
  /\ jobs' = [jobs EXCEPT ![j].resent = TRUE]
  /\ feed' \in {feed, Sent(j)}
  /\ UNCHANGED <<drafts, cards, modals, tokens, discarded>>

\* The connection breaks before the answer.  WebClient is built without retry
\* handlers of its own, so the default one of slack_sdk sends the request again,
\* once, although Slack may have written the message of the first.
LoseConnection(j) ==
  /\ Sends(j)
  /\ ~jobs[j].resent
  /\ jobs' = [jobs EXCEPT ![j].resent = TRUE]
  /\ feed' \in {feed, Sent(j)}
  /\ UNCHANGED <<drafts, cards, modals, tokens, discarded>>

\* Bug: the tool posts again when the answer is lost.
Post_Retried(j, result) ==
  /\ Sends(j)
  /\ feed' = Sent(j)
  /\ \/ result = "posted" /\ Return(j, "wake", result)
     \/ result = "failed" /\ UNCHANGED jobs
  /\ UNCHANGED <<drafts, cards, modals, tokens, discarded>>

\* Slack takes the message; the answer may still be lost, by a timeout or a
\* second broken connection, which the tool reports as a failure.
Post(j, result) ==
  /\ Sends(j)
  /\ feed' = Sent(j)
  /\ result \in {"posted", "failed"}
  /\ Return(j, "wake", result)
  /\ UNCHANGED <<drafts, cards, modals, tokens, discarded>>

\* Bug: the error of the post is swallowed.
PostFails_Silently(j) ==
  /\ Sends(j)
  /\ Return(j, "wake", "posted")
  /\ UNCHANGED <<drafts, cards, modals, feed, tokens, discarded>>

PostFails(j) ==
  /\ Sends(j)
  /\ Return(j, "wake", "failed")
  /\ UNCHANGED <<drafts, cards, modals, feed, tokens, discarded>>

\* dispatch_watchers_async, whatever the tool returned; a failure to enqueue is
\* swallowed.  The queue and its worker are module Watchers.
WakeWatchers(j) ==
  /\ jobs[j].pc = "wake"
  /\ Goto(j, "reply")
  /\ UNCHANGED <<drafts, cards, modals, feed, tokens, discarded>>

\* The ephemeral answer; a failing one raises in the listener, which ends too.
Reply(j) ==
  /\ jobs[j].pc = "reply"
  /\ jobs' = [jobs EXCEPT ![j] = End(@)]
  /\ UNCHANGED <<drafts, cards, modals, feed, tokens, discarded>>

-------------------------------------------------------------------------------
(* The Revise button: handle_revise_open_modal. *)

ClickRevise(j, c) ==
  /\ jobs[j].pc = "idle"
  /\ cards[c] # None
  /\ jobs' = [jobs EXCEPT ![j] = [NewJob EXCEPT !.pc = "open", !.kind = "revise",
                                    !.user = cards[c].viewer, !.card = c]]
  /\ UNCHANGED <<drafts, cards, modals, feed, tokens, discarded>>

OpenDialog(j) ==
  /\ jobs[j].pc = "open"
  /\ drafts[jobs[j].card] # None
  /\ modals' = modals \cup {jobs[j].card}
  /\ jobs' = [jobs EXCEPT ![j] = End(@)]
  /\ UNCHANGED <<drafts, cards, feed, tokens, discarded>>

\* The draft is gone, or views_open is refused: the requester is told.  The
\* dialog may be open all the same, when it is the answer that was lost.
DialogFails(j, result) ==
  /\ jobs[j].pc = "open"
  /\ result = IF drafts[jobs[j].card] = None THEN "unreadable" ELSE "no dialog"
  /\ \/ UNCHANGED modals
     \/ result = "no dialog" /\ modals' = modals \cup {jobs[j].card}
  /\ Return(j, "reply", result)
  /\ UNCHANGED <<drafts, cards, feed, tokens, discarded>>

-------------------------------------------------------------------------------
(* The world around the handlers. *)

\* A member connects through the OAuth server, which stores the token.
Connect(user) ==
  /\ user \notin tokens
  /\ tokens' = tokens \cup {user}
  /\ UNCHANGED <<drafts, cards, modals, jobs, feed, discarded>>

\* The bot process dies: no job survives it.  The cards and dialogs are Slack's
\* and the drafts are files, so both do, unless the files were those of a
\* container that docker run --rm removed.
Restart(gone) ==
  /\ gone \in {{}, {c \in Card : drafts[c] # None}}
  /\ jobs' = [j \in Job |-> IF jobs[j].pc \in {"idle", "done"}
                            THEN jobs[j] ELSE End(jobs[j])]
  /\ drafts' = [c \in Card |-> IF c \in gone THEN None ELSE drafts[c]]
  /\ discarded' = discarded \cup gone
  /\ UNCHANGED <<cards, modals, feed, tokens>>

-------------------------------------------------------------------------------
RunStep(j) ==
  \/ \E c \in Card, text \in Text : SaveDraft(j, c, text)
  \/ \E tool \in Tool, to \in Thread \cup User : ShowCard(j, tool, to)
  \/ LoseCard(j)
  \/ EndRun(j)

ConfirmStep(j) ==
  \/ LoadDraft(j)
  \/ DraftMissing(j)
  \/ NotConnected(j)
  \/ LoseConnection(j)
  \/ \E result \in Result : Post(j, result)
  \/ PostFails(j)
  \/ WakeWatchers(j)

ReviseStep(j) ==
  \/ OpenDialog(j)
  \/ \E result \in Result : DialogFails(j, result)

Handler(j) == RunStep(j) \/ ConfirmStep(j) \/ ReviseStep(j) \/ Reply(j)

ButtonOrCommand(j) ==
  \/ \E user \in User, thread \in Thread : StartRun(j, user, thread)
  \/ \E c \in Card : SubmitRevision(j, c) \/ ClickConfirm(j, c) \/ ClickRevise(j, c)

Next ==
  \/ \E j \in Job : Handler(j) \/ ButtonOrCommand(j)
  \/ \E user \in User : Connect(user)
  \/ \E gone \in SUBSET Card : Restart(gone)

Spec == Init /\ [][Next]_vars
===============================================================================
