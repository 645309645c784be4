------------------------ MODULE ToolConfirmationProps ------------------------
(* What the confirmation flow must never do. *)
EXTENDS ToolConfirmation

Message == [click : Job, to : Thread \cup User, as : User \cup {App}, text : Text]

\* The variables hold the kinds of values the code keeps in them.
TypeOK ==
  /\ drafts \in [Card -> Text \cup {None}]
  /\ cards \in [Card -> CardInfo \cup {None}]
  /\ modals \subseteq Card
  /\ jobs \in [Job -> JobInfo]
  /\ feed \in Seq(Message)
  /\ tokens \subseteq User
  /\ discarded \subseteq Card

\* Every message the copilot wrote was offered, to the letter but for the
\* mrkdwn conversion, on a card whose Confirm button the job's user clicked,
\* although the text came back from a file and the destination from a button.
Approved ==
  \A i \in 1..Len(feed) :
    LET job == jobs[feed[i].click]
    IN  /\ job.kind = "confirm"
        /\ feed[i] = MessageOf(feed[i].click, cards[job.card], cards[job.card].text)
        /\ job.user = cards[job.card].viewer

\* A message under a member's name was sent by a click of that very member: the
\* identity comes from the button's payload and the click from Slack, through
\* any number of revisions.
NoImpersonation ==
  \A i \in 1..Len(feed) :
    feed[i].as # App => feed[i].as = jobs[feed[i].click].user

\* A click writes one message.  Only one whose connection broke while it was
\* sent may have written two, and none writes three: nothing but the client's
\* one retry repeats a message, whatever Slack answered and however often the
\* process died.
TwiceOnlyIfResent ==
  \A i, k \in 1..Len(feed) :
    feed[i].click = feed[k].click /\ i # k =>
      /\ jobs[feed[i].click].resent
      /\ \A l \in 1..Len(feed) : feed[l].click = feed[i].click => l \in {i, k}

\* A requester who is told the message was posted can find it in Slack, and one
\* who is told the account is not connected or the draft unreadable cannot.
\* ("failed" promises neither: Slack's answer may be what was lost.)
HonestReply ==
  \A j \in Job :
    LET written == \E i \in 1..Len(feed) : feed[i].click = j
    IN  /\ jobs[j].result = "posted" => written
        /\ jobs[j].result \in {"not connected", "unreadable"} => ~written

\* A card on screen can be confirmed or revised: its draft was on disk before
\* the card was shown, and stays until a redeployment discards it.
CardsHaveDrafts ==
  \A c \in Card \ discarded :
    cards[c] # None => drafts[c] = cards[c].text

-------------------------------------------------------------------------------
(* The flow implements the gate. *)
OfferOf(card) ==
  [tool |-> card.tool, to |-> card.to,
   as |-> Identity(card.tool, card.prepareUser), text |-> card.text]

Offered == [c \in Card |-> IF cards[c] = None THEN None ELSE OfferOf(cards[c])]
ApprovedCard ==
  [j \in Job |-> IF jobs[j].kind = "confirm" THEN jobs[j].card ELSE None]

Resent == {j \in Job : jobs[j].resent}

Gate == INSTANCE ApprovalGate WITH Click <- Job, offered <- Offered,
                                   approved <- ApprovedCard, resent <- Resent

\* The flow with its files, threads, failures, restarts and resent requests is an
\* approval gate: it writes only what a click approved, once for that click, and a
\* second time only over a broken connection.
GateSpec == Gate!GateSpec
===============================================================================
