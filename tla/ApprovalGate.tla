----------------------------- MODULE ApprovalGate -----------------------------
(***************************************************************************)
(* What the confirmation flow promises, whatever its handlers, files and   *)
(* failures: the copilot only writes what a card offered, after a click on *)
(* the Confirm button of that card, and once for each click.  When the     *)
(* connection breaks while a message is sent, nobody can tell whether it   *)
(* was written, and it may be written a second time, never a third.        *)
(***************************************************************************)
EXTENDS SlackWorld, Sequences

CONSTANTS Card,      \* confirmation cards
          Click      \* clicks on a Confirm button

VARIABLES offered,   \* the content each card offers, None before it is shown
          approved,  \* the card each click approves, None before the click
          resent,    \* clicks whose message was sent over a connection that broke
          feed       \* the messages written to Slack, oldest first

gateVars == <<offered, approved, resent, feed>>

\* The message a click leaves when its card's offer is carried out.  The text
\* goes through the mrkdwn conversion once more on its way out.
Carried(click, offer) ==
  [click |-> click, to |-> offer.to, as |-> offer.as,
   text |-> ToSlackMrkdwn(offer.text)]

GateInit ==
  /\ offered = [c \in Card |-> None]
  /\ approved = [k \in Click |-> None]
  /\ resent = {}
  /\ feed = <<>>

Show(c) ==
  /\ offered[c] = None
  /\ offered'[c] \in Offer
  /\ offered' = [offered EXCEPT ![c] = offered'[c]]
  /\ UNCHANGED <<approved, resent, feed>>

Approve(k, c) ==
  /\ offered[c] # None
  /\ approved[k] = None
  /\ approved' = [approved EXCEPT ![k] = c]
  /\ UNCHANGED <<offered, resent, feed>>

Copies(k) == {i \in 1..Len(feed) : feed[i].click = k}

\* The message leaves over a connection that breaks: written or not, it will be
\* sent once more.
Break(k) ==
  /\ approved[k] # None
  /\ k \notin resent
  /\ Copies(k) = {}
  /\ resent' = resent \cup {k}
  /\ feed' \in {feed, Append(feed, Carried(k, offered[approved[k]]))}
  /\ UNCHANGED <<offered, approved>>

CarryOut(k) ==
  /\ approved[k] # None
  /\ k \in resent \/ Copies(k) = {}
  /\ \A i, l \in Copies(k) : i = l
  /\ feed' = Append(feed, Carried(k, offered[approved[k]]))
  /\ UNCHANGED <<offered, approved, resent>>

GateNext ==
  \/ \E c \in Card : Show(c)
  \/ \E k \in Click, c \in Card : Approve(k, c)
  \/ \E k \in Click : Break(k) \/ CarryOut(k)

GateSpec == GateInit /\ [][GateNext]_gateVars
===============================================================================
