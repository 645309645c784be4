------------------------------ MODULE SlackWorld ------------------------------
(***************************************************************************)
(* What the confirmation flow and its abstract specification share: the    *)
(* people, threads and texts of a workspace, the tools that ask for a      *)
(* confirmation, and the messages they leave in Slack.                     *)
(***************************************************************************)
EXTENDS Integers

CONSTANTS User,         \* workspace members who talk to the copilot
          Thread,       \* channel threads the copilot is asked about
          Body,         \* the words of a message
          MaxLayers,    \* bound: how deep the markdown of a drafted text nests
          App,          \* the bot's own identity
          None          \* "nothing here"

ASSUME LayersAssumption == MaxLayers \in Nat
ASSUME NamesAssumption == /\ App \notin User
                          /\ None \notin User
                          /\ None \notin Thread
                          /\ User \cap Thread = {}

\* A text is its words and the number of passes to_slack_mrkdwn would still
\* change: "# **T**" has two, "**T**" one and "*T*" none.
Text == [body : Body, layers : 0..MaxLayers]

\* Bug: a pass strips a layer that is not there.
ToSlackMrkdwn_Unguarded(text) == [text EXCEPT !.layers = @ - 1]

\* One pass of to_slack_mrkdwn.  Each substitution runs once over the text, so
\* a pass turns only the outer markers into mrkdwn and leaves what they wrapped.
ToSlackMrkdwn(text) ==
  [text EXCEPT !.layers = IF @ = 0 THEN 0 ELSE @ - 1]

\* The registered tools that require a confirmation.
ThreadTool == {"send_thread_reply_on_behalf_of_requester",
               "send_thread_reply_as_app"}
Tool == ThreadTool \cup {"send_dm_as_app"}

OnBehalf(tool) == tool = "send_thread_reply_on_behalf_of_requester"

\* Under whose name a tool writes, when user prepared the action.
Identity(tool, user) == IF OnBehalf(tool) THEN user ELSE App

\* Where a tool may write: the thread of the run, or any member's DM.
Destination(tool, thread) == IF tool \in ThreadTool THEN {thread} ELSE User

\* What a confirmation card offers to do.
Offer == [tool : Tool, to : Thread \cup User, as : User \cup {App}, text : Text]

ASSUME OfferAssumption == None \notin Offer
===============================================================================
