----------------------- MODULE ToolConfirmation_proofs -----------------------
(***************************************************************************)
(* The confirmation flow writes only what was approved, for any number of  *)
(* members, threads, cards and clicks, and implements the approval gate.   *)
(***************************************************************************)
EXTENDS ToolConfirmationProps, TLAPS

Written(j) == \E i \in 1..Len(feed) : feed[i].click = j
Once(j) == \A i, k \in 1..Len(feed) : feed[i].click = j /\ feed[k].click = j => i = k

\* A card is shown to the member it acts for, and its draft is what it shows.
CardsInv ==
  \A c \in Card :
    cards[c] # None =>
      /\ cards[c].viewer = cards[c].prepareUser
      /\ drafts[c] \in {cards[c].text, None}
      /\ c \notin discarded => drafts[c] = cards[c].text

\* A run holds its user and thread; between SaveDraft and ShowCard it also
\* holds a card not yet shown, whose draft is on disk.
RunInv(job) ==
  /\ job.pc \in {"react", "card"} =>
       job.kind = "run" /\ job.user \in User /\ job.thread \in Thread
  /\ job.pc = "card" =>
       /\ job.card \in Card
       /\ job.text \in Text
       /\ cards[job.card] = None
       /\ drafts[job.card] = job.text

\* A click is on a card that is on screen, by the member it is shown to; a
\* Confirm click that is about to post holds the text of its card.
ClickInv(job) ==
  /\ job.pc = "idle" => job.kind = "none"
  /\ job.kind = "confirm" =>
       /\ job.card \in Card
       /\ cards[job.card] # None
       /\ job.user = cards[job.card].viewer
  /\ job.pc \in {"load", "post", "wake"} => job.kind = "confirm"
  /\ job.pc = "open" =>
       job.kind = "revise" /\ job.card \in Card /\ cards[job.card] # None
  /\ job.pc = "post" => job.text = cards[job.card].text
  /\ job.pc = "load" \/ job.kind # "confirm" => ~job.resent

\* What a job returned agrees with what it wrote; before it returned, and
\* unless it is a click on Confirm, it wrote nothing; while it is sending, only a
\* request that is sent again may have written, and only once.
ResultInv(job, written, once) ==
  /\ job.pc \in {"idle", "load", "open"} => ~written
  /\ job.pc = "post" => once /\ (written => job.resent)
  /\ job.pc \in {"idle", "load", "post", "open", "react", "card"} =>
       job.result = "none"
  /\ job.kind # "confirm" => ~written
  /\ job.result = "posted" => written
  /\ job.result \in {"not connected", "unreadable"} => ~written
  /\ job.pc = "wake" => job.result \in {"posted", "failed", "not connected"}

JobInv(j, job) == RunInv(job) /\ ClickInv(job) /\ ResultInv(job, Written(j), Once(j))
JobsInv == \A j \in Job : JobInv(j, jobs[j])

\* No two runs are about to show the same card.
OneRunPerCard ==
  \A i, j \in Job :
    /\ jobs[i].pc = "card"
    /\ jobs[j].pc = "card"
    /\ jobs[i].card = jobs[j].card
    => i = j

DialogsInv == \A c \in modals : cards[c] # None

IInv ==
  /\ TypeOK
  /\ CardsInv
  /\ JobsInv
  /\ OneRunPerCard
  /\ DialogsInv
  /\ Approved
  /\ TwiceOnlyIfResent

-------------------------------------------------------------------------------
\* The conversion returns a text: a pass leaves no more layers than it found.
LEMMA MrkdwnType ==
  ASSUME NEW text \in Text
  PROVE  ToSlackMrkdwn(text) \in Text
BY LayersAssumption DEF ToSlackMrkdwn, Text

\* An element of a sequence over S is in S.
LEMMA SeqElement ==
  ASSUME NEW S, NEW s \in Seq(S), NEW i \in 1..Len(s)
  PROVE  s[i] \in S
OBVIOUS

\* What is not written at all is not written twice; and nothing changes about
\* what is written while no message is added.
LEMMA WrittenOnce ==
  /\ \A k : ~Written(k) => Once(k)
  /\ feed' = feed => \A k : (Written(k)' <=> Written(k)) /\ (Once(k)' <=> Once(k))
BY DEF Written, Once

\* The flow starts in the invariant.
LEMMA InitInv == Init => IInv
<1> SUFFICES ASSUME Init PROVE IInv
  OBVIOUS
<1> USE DEF Init, NewJob
<1>1. TypeOK
  BY DEF TypeOK, JobInfo, PC, Result
<1>2. CardsInv /\ OneRunPerCard /\ DialogsInv
  BY DEF CardsInv, OneRunPerCard, DialogsInv
<1>3. Len(feed) = 0
  OBVIOUS
<1>4. Approved /\ TwiceOnlyIfResent
  BY <1>3 DEF Approved, TwiceOnlyIfResent
<1>5. \A j \in Job : ~Written(j)
  BY <1>3 DEF Written
<1>6. JobsInv
  BY <1>5, WrittenOnce DEF JobsInv, JobInv, RunInv, ClickInv, ResultInv
<1> QED
  BY <1>1, <1>2, <1>4, <1>6 DEF IInv

\* Messages once approved stay approved, as long as no message is added, cards
\* on screen stay as they are, and the clicks that wrote keep what they were on.
LEMMA FeedKept ==
  ASSUME IInv, feed' = feed,
         \A c \in Card : cards[c] # None => cards'[c] = cards[c],
         \A k \in Job : Written(k) =>
            /\ jobs'[k].kind = jobs[k].kind
            /\ jobs'[k].card = jobs[k].card
            /\ jobs'[k].user = jobs[k].user
            /\ jobs[k].resent => jobs'[k].resent
  PROVE  Approved' /\ TwiceOnlyIfResent'
<1>1. TwiceOnlyIfResent'
  <2>1. ASSUME NEW i \in 1..Len(feed), NEW k \in 1..Len(feed),
               feed[i].click = feed[k].click, i # k
        PROVE  /\ jobs'[feed[i].click].resent
               /\ \A l \in 1..Len(feed) : feed[l].click = feed[i].click => l \in {i, k}
    <3>1. feed[i].click \in Job /\ Written(feed[i].click)
      <4>1. feed[i] \in Message
        BY SeqElement DEF IInv, TypeOK
      <4> QED
        BY <4>1 DEF Message, Written
    <3> QED
      BY <2>1, <3>1 DEF IInv, TwiceOnlyIfResent
  <2> QED
    BY <2>1 DEF TwiceOnlyIfResent
<1>2. ASSUME NEW i \in 1..Len(feed)
      PROVE  LET job == jobs'[feed[i].click]
             IN  /\ job.kind = "confirm"
                 /\ feed[i] = MessageOf(feed[i].click, cards'[job.card],
                                        cards'[job.card].text)
                 /\ job.user = cards'[job.card].viewer
  <2> DEFINE k == feed[i].click
  <2>1. k \in Job /\ Written(k)
    <3>1. feed[i] \in Message
      BY SeqElement DEF IInv, TypeOK
    <3> QED
      BY <3>1 DEF Message, Written
  <2>2. /\ jobs[k].kind = "confirm"
        /\ jobs[k].card \in Card
        /\ cards[jobs[k].card] # None
    BY <2>1 DEF IInv, Approved, JobsInv, JobInv, ClickInv
  <2>3. cards'[jobs'[k].card] = cards[jobs[k].card]
    BY <2>1, <2>2
  <2> QED
    BY <2>1, <2>2, <2>3 DEF IInv, Approved
<1> QED
  BY <1>1, <1>2 DEF Approved, MessageOf

\* A step of one job that touches neither files, cards nor messages keeps the
\* invariant if the job's new state satisfies its part of it.
LEMMA JobStep ==
  ASSUME IInv, NEW j \in Job, NEW job \in JobInfo,
         jobs' = [jobs EXCEPT ![j] = job],
         UNCHANGED <<drafts, cards, feed, discarded>>,
         tokens' \subseteq User,
         modals' \subseteq Card, \A c \in modals' : cards[c] # None,
         JobInv(j, job), job.pc # "card",
         jobs[j].kind = "confirm" =>
           /\ job.kind = "confirm" /\ job.card = jobs[j].card
           /\ job.user = jobs[j].user /\ (jobs[j].resent => job.resent)
  PROVE  IInv'
<1>1. jobs \in [Job -> JobInfo]
  BY DEF IInv, TypeOK
<1>2. jobs'[j] = job /\ \A k \in Job : k # j => jobs'[k] = jobs[k]
  BY <1>1
<1>3. TypeOK'
  BY <1>1 DEF IInv, TypeOK
<1>4. CardsInv' /\ DialogsInv'
  BY DEF IInv, CardsInv, DialogsInv
<1>5. JobsInv'
  <2>1. ASSUME NEW k \in Job PROVE JobInv(k, jobs'[k])
    BY <1>2 DEF IInv, JobsInv
  <2>2. \A k \in Job : (Written(k)' <=> Written(k)) /\ (Once(k)' <=> Once(k))
    BY WrittenOnce
  <2>3. ASSUME NEW k \in Job PROVE JobInv(k, jobs[k])'
    BY ZenonT(40), <2>1, <2>2 DEF JobInv, RunInv, ClickInv, ResultInv
  <2> QED
    BY <2>3 DEF JobsInv
<1>6. OneRunPerCard'
  <2>1. OneRunPerCard
    BY DEF IInv
  <2>2. jobs'[j].pc # "card"
    BY <1>2
  <2> QED
    BY <1>2, <2>1, <2>2 DEF OneRunPerCard
<1>7. Approved' /\ TwiceOnlyIfResent'
  <2>1. Written(j) => jobs[j].kind = "confirm"
    BY DEF IInv, JobsInv, JobInv, ResultInv
  <2> QED
    BY <1>2, <2>1, FeedKept
<1> QED
  BY <1>3, <1>4, <1>5, <1>6, <1>7 DEF IInv

-------------------------------------------------------------------------------
\* Starting a run, from a command or from a Revise dialog.
LEMMA StartInv ==
  ASSUME IInv, NEW j \in Job, jobs[j].pc = "idle",
         NEW user \in User, NEW thread \in Thread,
         jobs' = [jobs EXCEPT ![j] =
                    [NewJob EXCEPT !.pc = "react", !.kind = "run",
                                   !.user = user, !.thread = thread]],
         modals' \subseteq modals,
         UNCHANGED <<drafts, cards, feed, tokens, discarded>>
  PROVE  IInv'
<1> DEFINE job == [NewJob EXCEPT !.pc = "react", !.kind = "run",
                                 !.user = user, !.thread = thread]
<1>1. job \in JobInfo
  BY DEF NewJob, JobInfo, PC, Result
<1>2. ~Written(j) /\ jobs[j].kind = "none"
  BY DEF IInv, JobsInv, JobInv, ClickInv, ResultInv
<1>3. JobInv(j, job)
  BY <1>2 DEF JobInv, RunInv, ClickInv, ResultInv, NewJob
<1>4. /\ modals' \subseteq Card /\ tokens' \subseteq User
      /\ \A c \in modals' : cards[c] # None
  BY DEF IInv, TypeOK, DialogsInv
<1> QED
  BY <1>1, <1>2, <1>3, <1>4, JobStep DEF NewJob

\* A click on Confirm or on Revise.
LEMMA ClickedInv ==
  ASSUME IInv, NEW j \in Job, NEW c \in Card, ClickConfirm(j, c) \/ ClickRevise(j, c)
  PROVE  IInv'
<1> PICK pc \in {"load", "open"}, kind \in {"confirm", "revise"} :
      /\ pc = "load" <=> kind = "confirm"
      /\ jobs' = [jobs EXCEPT ![j] = [NewJob EXCEPT !.pc = pc, !.kind = kind,
                                        !.user = cards[c].viewer, !.card = c]]
  BY DEF ClickConfirm, ClickRevise
<1> DEFINE job == [NewJob EXCEPT !.pc = pc, !.kind = kind,
                                 !.user = cards[c].viewer, !.card = c]
<1>1. /\ jobs[j].pc = "idle"
      /\ cards[c] # None
      /\ UNCHANGED <<drafts, cards, modals, feed, tokens, discarded>>
  BY DEF ClickConfirm, ClickRevise
<1>2. job \in JobInfo
  <2>1. cards[c] \in CardInfo
    BY <1>1 DEF IInv, TypeOK
  <2>2. cards[c].viewer \in User
    BY <2>1 DEF CardInfo
  <2> QED
    BY <2>2 DEF NewJob, JobInfo, PC, Result
<1>3. ~Written(j) /\ jobs[j].kind = "none"
  BY <1>1 DEF IInv, JobsInv, JobInv, ClickInv, ResultInv
<1>4. JobInv(j, job)
  BY <1>1, <1>3 DEF JobInv, RunInv, ClickInv, ResultInv, NewJob
<1>5. /\ modals' \subseteq Card /\ tokens' \subseteq User
      /\ \A d \in modals' : cards[d] # None
  BY <1>1 DEF IInv, TypeOK, DialogsInv
<1>6. jobs' = [jobs EXCEPT ![j] = job] /\ job.pc # "card"
  BY DEF NewJob
<1> HIDE DEF job
<1> QED
  BY <1>1, <1>2, <1>3, <1>4, <1>5, <1>6, JobStep

\* The steps of a job that only change the job: everything it shares with the
\* others is left alone, and it keeps what it was started for.
LEMMA LocalInv ==
  ASSUME IInv, NEW j \in Job,
         \/ LoseCard(j)
         \/ LoadDraft(j)
         \/ DraftMissing(j)
         \/ NotConnected(j)
         \/ PostFails(j)
         \/ LoseConnection(j) /\ feed' = feed
         \/ \E result \in Result : DialogFails(j, result)
  PROVE  IInv'
<1> DEFINE job == jobs'[j]
<1>1. jobs \in [Job -> JobInfo] /\ JobInv(j, jobs[j])
  BY DEF IInv, TypeOK, JobsInv
<1>2. UNCHANGED <<drafts, cards, feed, tokens, discarded>>
  BY DEF LoseCard, LoadDraft, DraftMissing, NotConnected, LoseConnection, PostFails,
         DialogFails
<1>3. /\ jobs' = [jobs EXCEPT ![j] = job]
      /\ job \in JobInfo
      /\ JobInv(j, job)
      /\ job.pc # "card"
      /\ jobs[j].kind = "confirm" =>
           /\ job.kind = "confirm" /\ job.card = jobs[j].card
           /\ job.user = jobs[j].user /\ (jobs[j].resent => job.resent)
  <2> USE DEF JobInfo, PC, Result, JobInv, RunInv, ClickInv, ResultInv
  <2>1. CASE LoseCard(j)
    BY ZenonT(40), <1>1, <2>1 DEF LoseCard
  <2>2. CASE LoadDraft(j)
    <3>1. jobs[j].card \in Card /\ jobs[j].kind = "confirm"
      BY <1>1, <2>2 DEF LoadDraft
    <3>2. drafts[jobs[j].card] \in Text
      BY <3>1, <2>2 DEF LoadDraft, IInv, TypeOK
    <3>3. drafts[jobs[j].card] = cards[jobs[j].card].text
      BY <1>1, <2>2, <3>1 DEF LoadDraft, IInv, CardsInv
    <3>4. jobs[j].pc = "load" /\ ~Written(j) /\ Once(j) /\ ~jobs[j].resent
      BY <1>1, <2>2, <3>1, WrittenOnce DEF LoadDraft
    <3>5. jobs' = [jobs EXCEPT ![j] = [jobs[j] EXCEPT !.pc = "post",
                                         !.text = drafts[jobs[j].card]]]
      BY <1>1, <2>2 DEF LoadDraft
    <3> QED
      BY ZenonT(40), <1>1, <3>1, <3>2, <3>3, <3>4, <3>5
  <2>3. CASE DraftMissing(j)
    <3>1. jobs[j].kind = "confirm" /\ jobs[j].pc = "load" /\ ~Written(j)
      BY <1>1, <2>3 DEF DraftMissing
    <3>2. jobs' = [jobs EXCEPT ![j] = [jobs[j] EXCEPT !.pc = "reply",
                                         !.result = "unreadable", !.text = None]]
      BY <1>1, <2>3 DEF DraftMissing, Return
    <3> QED
      BY ZenonT(40), <1>1, <3>1, <3>2
  <2>4. CASE NotConnected(j)
    <3>1. jobs[j].kind = "confirm" /\ jobs[j].pc = "post" /\ ~Written(j)
      BY <1>1, <2>4 DEF NotConnected, Sends
    <3>2. jobs' = [jobs EXCEPT ![j] = [jobs[j] EXCEPT !.pc = "wake",
                                         !.result = "not connected", !.text = None]]
      BY <1>1, <2>4 DEF NotConnected, Return
    <3> QED
      BY ZenonT(40), <1>1, <3>1, <3>2
  <2>5. CASE PostFails(j)
    BY ZenonT(40), <1>1, <2>5 DEF PostFails, Sends, Return
  <2>7. CASE LoseConnection(j)
    <3>1. jobs[j].kind = "confirm" /\ jobs[j].pc = "post"
      BY <1>1, <2>7 DEF LoseConnection, Sends
    <3>2. jobs' = [jobs EXCEPT ![j] = [jobs[j] EXCEPT !.resent = TRUE]]
      BY <1>1, <2>7 DEF LoseConnection
    <3> QED
      BY ZenonT(40), <1>1, <3>1, <3>2
  <2>6. CASE \E result \in Result : DialogFails(j, result)
    <3>1. PICK result \in Result : DialogFails(j, result)
      BY <2>6
    <3>2. /\ result \in {"unreadable", "no dialog"}
          /\ jobs' = [jobs EXCEPT ![j] = [jobs[j] EXCEPT !.pc = "reply",
                                           !.result = result, !.text = None]]
      BY <1>1, <3>1 DEF DialogFails, Return
    <3>3. jobs[j].kind = "revise" /\ jobs[j].pc = "open" /\ ~Written(j)
      BY <1>1, <3>1 DEF DialogFails
    <3> QED
      BY ZenonT(40), <1>1, <3>2, <3>3
  <2> QED
    BY <2>1, <2>2, <2>3, <2>4, <2>5, <2>6, <2>7
<1>4. /\ modals' \subseteq Card /\ tokens' \subseteq User
      /\ \A d \in modals' : cards[d] # None
  <2>1. modals \subseteq Card /\ tokens \subseteq User /\ \A d \in modals : cards[d] # None
    BY DEF IInv, TypeOK, DialogsInv
  <2>2. jobs[j].pc = "open" => jobs[j].card \in Card /\ cards[jobs[j].card] # None
    BY <1>1 DEF JobInv, ClickInv
  <2> QED
    BY <2>1, <2>2 DEF LoseCard, LoadDraft, DraftMissing, NotConnected,
                      LoseConnection, PostFails, DialogFails
<1> QED
  BY <1>2, <1>3, <1>4, JobStep

\* A job that ends keeps what it told its user, and a click on Confirm also keeps
\* who clicked, the card, and whether its message was sent again.
LEMMA JobEnds ==
  ASSUME NEW job \in JobInfo
  PROVE  /\ End(job) \in JobInfo
         /\ End(job).pc = "done" /\ End(job).result = job.result
         /\ \/ /\ job.kind = "confirm" /\ End(job).kind = job.kind
               /\ End(job).card = job.card /\ End(job).user = job.user
               /\ End(job).resent = job.resent
            \/ /\ job.kind # "confirm" /\ End(job).kind = "none"
               /\ ~End(job).resent
<1>1. CASE job.kind = "confirm"
  BY ZenonT(40), <1>1 DEF End, JobInfo, PC, Result
<1>2. CASE job.kind # "confirm"
  BY ZenonT(40), <1>2 DEF End, NewJob, JobInfo, PC, Result
<1> QED
  BY <1>1, <1>2

\* A step that ends a job or wakes the watchers on its way out.
LEMMA EndingInv ==
  ASSUME IInv, NEW j \in Job,
         EndRun(j) \/ OpenDialog(j) \/ Reply(j) \/ WakeWatchers(j)
  PROVE  IInv'
<1> DEFINE job == jobs'[j]
<1>1. jobs \in [Job -> JobInfo] /\ JobInv(j, jobs[j])
  BY DEF IInv, TypeOK, JobsInv
<1>2. /\ UNCHANGED <<drafts, cards, feed, tokens, discarded>>
      /\ modals' \subseteq Card
      /\ \A c \in modals' : cards[c] # None
      /\ tokens' \subseteq User
  <2>1. modals \subseteq Card /\ tokens \subseteq User
    BY DEF IInv, TypeOK
  <2>2. \A c \in modals : cards[c] # None
    BY DEF IInv, DialogsInv
  <2>3. jobs[j].pc = "open" => jobs[j].card \in Card /\ cards[jobs[j].card] # None
    BY <1>1 DEF JobInv, ClickInv
  <2> QED
    BY <2>1, <2>2, <2>3 DEF EndRun, OpenDialog, Reply, WakeWatchers
<1>3. /\ jobs' = [jobs EXCEPT ![j] = job]
      /\ job \in {End(jobs[j]), [jobs[j] EXCEPT !.pc = "reply"]}
      /\ job.pc \in {"done", "reply"}
      /\ job.result = jobs[j].result
  <2>1. CASE EndRun(j) \/ OpenDialog(j) \/ Reply(j)
    <3>1. jobs' = [jobs EXCEPT ![j] = End(jobs[j])]
      BY <2>1 DEF EndRun, OpenDialog, Reply
    <3>2. job = End(jobs[j])
      BY <1>1, <3>1
    <3>3. /\ End(jobs[j]).pc = "done"
          /\ End(jobs[j]).result = jobs[j].result
      BY <1>1, JobEnds
    <3> QED
      BY <3>1, <3>2, <3>3
  <2>2. CASE WakeWatchers(j)
    <3>1. jobs' = [jobs EXCEPT ![j] = [jobs[j] EXCEPT !.pc = "reply"]]
      BY <2>2 DEF WakeWatchers, Goto
    <3>2. job = [jobs[j] EXCEPT !.pc = "reply"]
      BY <1>1, <3>1
    <3>3. job.pc = "reply" /\ job.result = jobs[j].result
      BY <1>1, <3>2 DEF JobInfo
    <3> QED
      BY <3>1, <3>2, <3>3
  <2> QED
    BY <2>1, <2>2
<1>4. /\ job \in JobInfo
      /\ jobs[j].kind = "confirm" =>
           /\ job.kind = "confirm" /\ job.card = jobs[j].card
           /\ job.user = jobs[j].user /\ (jobs[j].resent => job.resent)
  BY ZenonT(40), <1>1, <1>3 DEF End, NewJob, JobInfo, PC, Result
<1>5. JobInv(j, job)
  <2>1. \/ job.kind = jobs[j].kind /\ job.resent = jobs[j].resent
        \/ job.kind = "none" /\ jobs[j].kind # "confirm" /\ ~job.resent
    <3>1. jobs[j] \in JobInfo
      BY <1>1
    <3>2. CASE job = End(jobs[j])
      BY <3>1, <3>2, JobEnds
    <3>3. CASE job = [jobs[j] EXCEPT !.pc = "reply"]
      BY <1>1, <3>3 DEF JobInfo
    <3> QED
      BY <1>3, <3>2, <3>3
  <2> QED
    BY <1>1, <1>3, <1>4, <2>1 DEF JobInv, RunInv, ClickInv, ResultInv
<1> QED
  BY <1>2, <1>3, <1>4, <1>5, JobStep

\* Slack takes the message of a job: one that had written nothing, or that sends
\* again what may have been written once.  It goes on to wake the watchers, or its
\* connection broke and it will send again.
LEMMA PostInv ==
  ASSUME IInv, NEW j \in Job,
         \/ \E result \in Result : Post(j, result)
         \/ LoseConnection(j) /\ feed' = Sent(j)
  PROVE  IInv'
<1> DEFINE c == jobs[j].card
           msg == MessageOf(j, cards[c], jobs[j].text)
           job == jobs'[j]
<1>1. jobs \in [Job -> JobInfo] /\ feed \in Seq(Message)
  BY DEF IInv, TypeOK
<1>2. /\ jobs[j].pc = "post" /\ jobs[j].kind = "confirm"
      /\ Once(j) /\ (Written(j) => jobs[j].resent)
      /\ jobs[j].result = "none"
      /\ c \in Card /\ cards[c] # None
      /\ jobs[j].text = cards[c].text
      /\ jobs[j].user = cards[c].viewer
  <2>1. jobs[j].pc = "post" /\ JobInv(j, jobs[j])
    BY DEF Post, LoseConnection, Sends, IInv, JobsInv
  <2> QED
    BY <2>1 DEF JobInv, ClickInv, ResultInv
<1>3. /\ feed' = Append(feed, msg)
      /\ UNCHANGED <<drafts, cards, modals, tokens, discarded>>
  BY DEF Post, LoseConnection, Sent
<1>4. /\ job \in JobInfo
      /\ jobs' \in [Job -> JobInfo]
      /\ \A k \in Job : k # j => jobs'[k] = jobs[k]
      /\ job.kind = "confirm" /\ job.card = c /\ job.user = jobs[j].user
      /\ jobs[j].resent => job.resent
      /\ \/ job.pc = "wake" /\ job.result \in {"posted", "failed"}
         \/ /\ job.pc = "post" /\ job.result = "none" /\ job.text = jobs[j].text
            /\ job.resent /\ ~jobs[j].resent
  <2>1. CASE \E result \in Result : Post(j, result)
    <3>1. PICK result \in {"posted", "failed"} :
            jobs' = [jobs EXCEPT ![j] = [jobs[j] EXCEPT !.pc = "wake",
                                           !.result = result, !.text = None]]
      BY <1>1, <2>1 DEF Post, Return
    <3> QED
      BY ZenonT(40), <1>1, <1>2, <3>1 DEF JobInfo, PC, Result
  <2>2. CASE LoseConnection(j)
    <3>1. /\ jobs' = [jobs EXCEPT ![j] = [jobs[j] EXCEPT !.resent = TRUE]]
          /\ ~jobs[j].resent
      BY <1>1, <2>2 DEF LoseConnection
    <3> QED
      BY ZenonT(40), <1>1, <1>2, <3>1 DEF JobInfo
  <2> QED
    BY <2>1, <2>2
<1> HIDE DEF job
<1>5. msg \in Message
  <2>1. cards[c] \in CardInfo
    BY <1>2 DEF IInv, TypeOK
  <2>2. ToSlackMrkdwn(jobs[j].text) \in Text
    BY <1>2, <2>1, MrkdwnType DEF CardInfo
  <2> QED
    BY <2>1, <2>2 DEF Message, MessageOf, CardInfo, Identity
<1>6. /\ feed' \in Seq(Message)
      /\ Len(feed') = Len(feed) + 1
      /\ feed'[Len(feed')].click = j
      /\ \A i \in 1..Len(feed) : feed'[i] = feed[i]
  <2> HIDE DEF msg
  <2>1. msg.click = j
    BY DEF msg, MessageOf
  <2> QED
    BY <1>1, <1>3, <1>5, <2>1
<1>7. /\ \A k \in Job : Written(k)' <=> Written(k) \/ k = j
      /\ \A k \in Job : k # j => (Once(k)' <=> Once(k))
      /\ ~Written(j) => Once(j)'
  <2>1. 1..Len(feed') = 1..Len(feed) \cup {Len(feed')} /\ Len(feed) \in Nat
    BY <1>1, <1>6
  <2>2. \A k \in Job : Written(k)' <=> Written(k) \/ k = j
    BY <1>6, <2>1 DEF Written
  <2>3. \A k \in Job : k # j => (Once(k)' <=> Once(k))
    BY <1>6, <2>1 DEF Once
  <2>4. ~Written(j) => Once(j)'
    BY <1>6, <2>1 DEF Once, Written
  <2> QED
    BY <2>2, <2>3, <2>4
<1>8. TypeOK'
  BY <1>1, <1>3, <1>4, <1>6 DEF IInv, TypeOK
<1>9. CardsInv' /\ DialogsInv'
  BY <1>3 DEF IInv, CardsInv, DialogsInv
<1>10. JobsInv'
  <2>1. ASSUME NEW k \in Job, k # j PROVE JobInv(k, jobs[k])'
    <3>1. /\ jobs'[k] = jobs[k] /\ JobInv(k, jobs[k])
          /\ (Written(k)' <=> Written(k)) /\ (Once(k)' <=> Once(k))
      BY <1>4, <1>7, <2>1 DEF IInv, JobsInv
    <3> QED
      BY <1>3, <3>1 DEF JobInv, RunInv, ClickInv, ResultInv
  <2>2. Written(j)' /\ (job.pc = "post" => Once(j)')
    BY <1>2, <1>4, <1>7
  <2>3. JobInv(j, jobs[j])'
    BY <1>2, <1>3, <1>4, <2>2 DEF JobInv, RunInv, ClickInv, ResultInv, job
  <2> QED
    BY <2>1, <2>3 DEF JobsInv
<1>11. OneRunPerCard'
  <2>1. jobs'[j].pc # "card"
    BY <1>4 DEF job
  <2> QED
    BY <1>4, <2>1 DEF IInv, OneRunPerCard
<1>12. TwiceOnlyIfResent'
  <2>1. 1..Len(feed') = 1..Len(feed) \cup {Len(feed')} /\ Len(feed) \in Nat
    BY <1>1, <1>6
  <2>2. ASSUME NEW i \in 1..Len(feed'), NEW k \in 1..Len(feed'),
               feed'[i].click = feed'[k].click, i # k
        PROVE  /\ jobs'[feed'[i].click].resent
               /\ \A l \in 1..Len(feed') :
                    feed'[l].click = feed'[i].click => l \in {i, k}
    <3>1. CASE feed'[i].click = j
      <4>1. \A l, m \in 1..Len(feed) : feed'[l].click = j /\ feed'[m].click = j => l = m
        BY <1>2, <1>6 DEF Once
      <4>2. i = Len(feed') \/ k = Len(feed')
        BY <2>1, <2>2, <3>1, <4>1
      <4>3. Written(j)
        BY <1>6, <2>1, <2>2, <3>1, <4>2 DEF Written
      <4>4. jobs'[j].resent
        BY <1>2, <1>4, <4>3 DEF job
      <4> QED
        BY <2>1, <2>2, <3>1, <4>1, <4>2, <4>4
    <3>2. CASE feed'[i].click # j
      <4>1. i \in 1..Len(feed) /\ k \in 1..Len(feed)
        BY <1>6, <2>1, <2>2, <3>2
      <4>2. feed[i].click \in Job
        <5>1. feed[i] \in Message
          BY <1>1, <4>1, SeqElement
        <5> QED
          BY <5>1 DEF Message
      <4>3. jobs'[feed[i].click] = jobs[feed[i].click]
        BY <1>4, <1>6, <3>2, <4>1, <4>2
      <4>4. /\ jobs[feed[i].click].resent
            /\ \A l \in 1..Len(feed) : feed[l].click = feed[i].click => l \in {i, k}
        BY <1>6, <2>2, <4>1 DEF IInv, TwiceOnlyIfResent
      <4> QED
        BY <1>6, <2>1, <3>2, <4>1, <4>3, <4>4
    <3> QED
      BY <3>1, <3>2
  <2> QED
    BY <2>2 DEF TwiceOnlyIfResent
<1>13. Approved'
  <2>1. ASSUME NEW i \in 1..Len(feed), feed[i].click # j
        PROVE  /\ feed[i].click \in Job
               /\ jobs'[feed[i].click] = jobs[feed[i].click]
    <3>1. feed[i] \in Message
      BY <1>1, SeqElement
    <3> QED
      BY <1>4, <2>1, <3>1 DEF Message
  <2>2. jobs'[j].kind = "confirm" /\ jobs'[j].card = c /\ jobs'[j].user = cards[c].viewer
    BY <1>2, <1>4 DEF job
  <2>3. feed'[Len(feed')] = MessageOf(j, cards[c], cards[c].text)
    BY <1>1, <1>2, <1>3
  <2>4. ASSUME NEW i \in 1..Len(feed')
        PROVE  LET k == feed'[i].click
               IN  /\ jobs'[k].kind = "confirm"
                   /\ feed'[i] = MessageOf(k, cards[jobs'[k].card], cards[jobs'[k].card].text)
                   /\ jobs'[k].user = cards[jobs'[k].card].viewer
    <3>1. CASE i \in 1..Len(feed) /\ feed[i].click # j
      BY <1>6, <2>1, <3>1 DEF IInv, Approved
    <3>2. CASE i \in 1..Len(feed) /\ feed[i].click = j
      <4>1. feed[i] = MessageOf(j, cards[c], cards[c].text)
        BY <3>2 DEF IInv, Approved
      <4> QED
        BY <1>6, <2>2, <3>2, <4>1
    <3>3. CASE i = Len(feed')
      BY <1>6, <2>2, <2>3, <3>3
    <3> QED
      BY <1>1, <1>6, <3>1, <3>2, <3>3
  <2> QED
    BY ZenonT(40), <1>3, <2>4 DEF Approved, MessageOf
<1> QED
  BY <1>8, <1>9, <1>10, <1>11, <1>12, <1>13 DEF IInv

\* A step that changes files or cards keeps a job's part of the invariant, if
\* the cards on screen and the draft a run is about to show stay.
LEMMA JobKept ==
  ASSUME NEW j \in Job, JobInv(j, jobs[j]),
         feed' = feed, jobs'[j] = jobs[j],
         \A c \in Card : cards[c] # None => cards'[c] = cards[c],
         jobs[j].pc = "card" =>
           /\ cards'[jobs[j].card] = None
           /\ drafts'[jobs[j].card] = drafts[jobs[j].card]
  PROVE  JobInv(j, jobs[j])'
<1>1. (Written(j)' <=> Written(j)) /\ (Once(j)' <=> Once(j))
  BY WrittenOnce
<1>2. RunInv(jobs[j])'
  BY DEF JobInv, RunInv
<1>3. ClickInv(jobs[j])'
  <2> USE DEF JobInv, ClickInv
  <2>1. jobs[j].kind = "confirm" => cards'[jobs[j].card] = cards[jobs[j].card]
    OBVIOUS
  <2>2. jobs[j].pc = "open" => cards'[jobs[j].card] = cards[jobs[j].card]
    OBVIOUS
  <2> QED
    BY <2>1, <2>2
<1> QED
  BY <1>1, <1>2, <1>3 DEF JobInv, ResultInv

\* A draft is written to a file nothing refers to yet.
LEMMA SaveDraftInv ==
  ASSUME IInv, NEW j \in Job, NEW c \in Card, NEW text \in Text,
         SaveDraft(j, c, text)
  PROVE  IInv'
<1> DEFINE draft == ToSlackMrkdwn(text)
           job == [jobs[j] EXCEPT !.pc = "card", !.card = c, !.text = draft]
<1>1. /\ jobs \in [Job -> JobInfo] /\ drafts \in [Card -> Text \cup {None}]
      /\ JobInv(j, jobs[j])
  BY DEF IInv, TypeOK, JobsInv
<1>2. draft \in Text
  BY MrkdwnType
<1>3. /\ jobs[j].pc = "react" /\ drafts[c] = None /\ cards[c] = None
      /\ \A i \in Job : jobs[i].pc = "card" => jobs[i].card # c
      /\ jobs' = [jobs EXCEPT ![j] = job]
      /\ drafts' = [drafts EXCEPT ![c] = draft]
      /\ UNCHANGED <<cards, modals, feed, tokens, discarded>>
  BY <1>1 DEF SaveDraft
<1> HIDE DEF draft
<1>4. job \in JobInfo /\ jobs'[j] = job /\ \A k \in Job : k # j => jobs'[k] = jobs[k]
  BY <1>1, <1>2, <1>3 DEF JobInfo, PC, Result
<1>5. TypeOK'
  BY <1>1, <1>2, <1>3, <1>4 DEF IInv, TypeOK
<1>6. CardsInv' /\ DialogsInv'
  BY <1>1, <1>3 DEF IInv, CardsInv, DialogsInv
<1>7. JobsInv'
  <2>1. ASSUME NEW k \in Job, k # j PROVE JobInv(k, jobs[k])'
    <3>1. JobInv(k, jobs[k])
      BY DEF IInv, JobsInv
    <3>2. jobs[k].pc = "card" => /\ jobs[k].card \in Card /\ jobs[k].card # c
                                 /\ cards[jobs[k].card] = None
      BY <1>3, <3>1 DEF JobInv, RunInv
    <3> QED
      BY <1>1, <1>3, <1>4, <2>1, <3>1, <3>2, JobKept
  <2>2. JobInv(j, jobs[j])'
    <3>1. /\ job.pc = "card" /\ job.card = c /\ job.text = draft
          /\ job.kind = jobs[j].kind /\ job.user = jobs[j].user
          /\ job.thread = jobs[j].thread /\ job.result = jobs[j].result
          /\ job.resent = jobs[j].resent
      BY <1>1 DEF JobInfo
    <3>2. drafts'[c] = draft /\ (Written(j)' <=> Written(j)) /\ (Once(j)' <=> Once(j))
      BY <1>1, <1>3, WrittenOnce
    <3> QED
      BY <1>1, <1>2, <1>3, <1>4, <3>1, <3>2 DEF JobInv, RunInv, ClickInv, ResultInv
  <2> QED
    BY <2>1, <2>2 DEF JobsInv
<1>8. OneRunPerCard'
  BY <1>1, <1>3, <1>4 DEF IInv, OneRunPerCard, JobInfo
<1>9. Approved' /\ TwiceOnlyIfResent'
  <2>1. jobs[j].kind = "run"
    BY <1>1, <1>3 DEF JobInv, RunInv
  <2>2. ~Written(j)
    BY <1>1, <2>1 DEF JobInv, ResultInv
  <2> QED
    BY <1>3, <1>4, <2>2, FeedKept
<1> QED
  BY <1>5, <1>6, <1>7, <1>8, <1>9 DEF IInv

\* The card shows the text of its draft, to the member it acts for.
LEMMA ShowCardInv ==
  ASSUME IInv, NEW j \in Job, NEW tool \in Tool, NEW to \in Thread \cup User,
         ShowCard(j, tool, to)
  PROVE  IInv'
<1> DEFINE c == jobs[j].card
           card == [tool |-> tool, thread |-> jobs[j].thread, to |-> to,
                    prepareUser |-> jobs[j].user, viewer |-> jobs[j].user,
                    text |-> jobs[j].text]
           job == [jobs[j] EXCEPT !.pc = "react", !.card = None, !.text = None]
<1>1. /\ jobs \in [Job -> JobInfo] /\ cards \in [Card -> CardInfo \cup {None}]
      /\ JobInv(j, jobs[j])
  BY DEF IInv, TypeOK, JobsInv
<1>2. /\ jobs[j].pc = "card"
      /\ jobs' = [jobs EXCEPT ![j] = job]
      /\ cards' = [cards EXCEPT ![c] = card]
      /\ UNCHANGED <<drafts, modals, feed, tokens, discarded>>
  BY <1>1 DEF ShowCard
<1>3. /\ c \in Card /\ cards[c] = None /\ drafts[c] = jobs[j].text
      /\ jobs[j].kind = "run" /\ jobs[j].user \in User
      /\ jobs[j].thread \in Thread /\ jobs[j].text \in Text
      /\ ~Written(j) /\ ~jobs[j].resent /\ jobs[j].result = "none"
  BY <1>1, <1>2 DEF JobInv, RunInv, ClickInv, ResultInv
<1>4. /\ job \in JobInfo /\ jobs'[j] = job
      /\ \A k \in Job : k # j => jobs'[k] = jobs[k]
      /\ job.pc = "react" /\ job.kind = "run" /\ job.user = jobs[j].user
      /\ job.thread = jobs[j].thread /\ job.result = jobs[j].result
      /\ ~job.resent
  <2>1. job \in JobInfo
    BY ZenonT(40), <1>1 DEF JobInfo, PC, Result
  <2>2. /\ job.pc = "react" /\ job.kind = "run" /\ job.user = jobs[j].user
        /\ job.thread = jobs[j].thread /\ job.result = jobs[j].result
        /\ ~job.resent
    BY <1>1, <1>3 DEF JobInfo
  <2> HIDE DEF job
  <2> QED
    BY <1>1, <1>2, <2>1, <2>2
<1>5. card \in CardInfo
  BY <1>3 DEF CardInfo
<1>6. TypeOK'
  BY <1>1, <1>2, <1>4, <1>5 DEF IInv, TypeOK
<1>7. cards'[c] = card /\ \A d \in Card : d # c => cards'[d] = cards[d]
  BY <1>1, <1>2, <1>3
<1>8. CardsInv'
  BY <1>2, <1>3, <1>7 DEF IInv, CardsInv
<1>9. DialogsInv'
  <2>1. modals \subseteq Card
    BY DEF IInv, TypeOK
  <2> QED
    BY <1>2, <1>3, <1>7, <2>1 DEF IInv, DialogsInv
<1>10. JobsInv'
  <2>1. ASSUME NEW k \in Job, k # j PROVE JobInv(k, jobs[k])'
    <3>1. JobInv(k, jobs[k])
      BY DEF IInv, JobsInv
    <3>2. jobs[k].pc = "card" => /\ jobs[k].card \in Card /\ jobs[k].card # c
                                 /\ cards[jobs[k].card] = None
      BY <1>2, <2>1, <3>1 DEF IInv, OneRunPerCard, JobInv, RunInv
    <3> QED
      BY <1>2, <1>3, <1>4, <1>7, <2>1, <3>1, <3>2, JobKept
  <2>2. JobInv(j, jobs[j])'
    <3>1. (Written(j)' <=> Written(j)) /\ (Once(j)' <=> Once(j))
      BY <1>2, WrittenOnce
    <3> QED
      BY <1>3, <1>4, <3>1 DEF JobInv, RunInv, ClickInv, ResultInv
  <2> QED
    BY <2>1, <2>2 DEF JobsInv
<1>11. OneRunPerCard'
  <2> HIDE DEF job
  <2>1. jobs'[j].pc # "card"
    BY <1>4
  <2> QED
    BY <1>4, <2>1 DEF IInv, OneRunPerCard
<1>12. Approved' /\ TwiceOnlyIfResent'
  BY <1>2, <1>3, <1>4, <1>7, FeedKept
<1> QED
  BY <1>6, <1>8, <1>9, <1>10, <1>11, <1>12 DEF IInv

\* A restart ends a job that was under way, and a click on Confirm keeps its
\* card and its user.
LEMMA RestartJob ==
  ASSUME jobs \in [Job -> JobInfo], NEW gone \in SUBSET Card, Restart(gone),
         NEW j \in Job
  PROVE  /\ jobs'[j] \in JobInfo
         /\ jobs'[j].pc \in {"idle", "done"}
         /\ jobs'[j].result = jobs[j].result
         /\ \/ jobs'[j] = jobs[j]
            \/ /\ jobs'[j].pc = "done"
               /\ \/ /\ jobs'[j].kind = jobs[j].kind
                     /\ jobs'[j].card = jobs[j].card
                     /\ jobs'[j].user = jobs[j].user
                     /\ jobs'[j].resent = jobs[j].resent
                  \/ /\ jobs'[j].kind = "none" /\ jobs[j].kind # "confirm"
                     /\ ~jobs'[j].resent
<1>1. jobs[j] \in JobInfo
  OBVIOUS
<1>2. CASE jobs[j].pc \in {"idle", "done"}
  BY <1>1, <1>2 DEF Restart
<1>3. CASE jobs[j].pc \notin {"idle", "done"}
  <2>1. jobs'[j] = End(jobs[j])
    BY <1>3 DEF Restart
  <2> QED
    BY <1>1, <2>1, JobEnds
<1> QED
  BY <1>2, <1>3

\* A restart loses the jobs, and maybe the drafts, but no card and no message.
LEMMA RestartInv ==
  ASSUME IInv, NEW gone \in SUBSET Card, Restart(gone)
  PROVE  IInv'
<1>1. /\ jobs \in [Job -> JobInfo] /\ drafts \in [Card -> Text \cup {None}]
      /\ \A j \in Job : JobInv(j, jobs[j])
  BY DEF IInv, TypeOK, JobsInv
<1>2. /\ UNCHANGED <<cards, modals, feed, tokens>>
      /\ discarded' = discarded \cup gone
      /\ drafts' = [c \in Card |-> IF c \in gone THEN None ELSE drafts[c]]
  BY DEF Restart
<1>3. ASSUME NEW j \in Job
      PROVE  /\ jobs'[j] \in JobInfo
             /\ jobs'[j].pc \in {"idle", "done"}
             /\ jobs'[j].result = jobs[j].result
             /\ \/ jobs'[j] = jobs[j]
                \/ /\ jobs'[j].pc = "done"
                   /\ \/ /\ jobs'[j].kind = jobs[j].kind
                         /\ jobs'[j].card = jobs[j].card
                         /\ jobs'[j].user = jobs[j].user
                         /\ jobs'[j].resent = jobs[j].resent
                      \/ /\ jobs'[j].kind = "none" /\ jobs[j].kind # "confirm"
                         /\ ~jobs'[j].resent
  BY <1>1, RestartJob
<1>4. jobs' \in [Job -> JobInfo]
  <2>1. jobs' = [j \in Job |-> jobs'[j]]
    BY DEF Restart
  <2> QED
    BY <1>3, <2>1
<1>5. TypeOK'
  <2>1. discarded' \subseteq Card
    BY <1>2 DEF IInv, TypeOK
  <2> QED
    BY <1>1, <1>2, <1>4, <2>1 DEF IInv, TypeOK
<1>6. CardsInv' /\ DialogsInv'
  BY <1>2 DEF IInv, CardsInv, DialogsInv
<1>7. JobsInv'
  <2>1. ASSUME NEW j \in Job PROVE JobInv(j, jobs[j])'
    <3>1. (Written(j)' <=> Written(j)) /\ (Once(j)' <=> Once(j))
      BY <1>2, WrittenOnce
    <3> QED
      BY ZenonT(40), <1>1, <1>2, <1>3, <3>1 DEF JobInv, RunInv, ClickInv, ResultInv
  <2> QED
    BY <2>1 DEF JobsInv
<1>8. OneRunPerCard'
  BY <1>3 DEF OneRunPerCard
<1>9. Approved' /\ TwiceOnlyIfResent'
  <2>1. \A k \in Job : Written(k) => jobs[k].kind = "confirm"
    BY <1>1 DEF JobInv, ResultInv
  <2> QED
    BY <1>2, <1>3, <2>1, FeedKept
<1> QED
  BY <1>5, <1>6, <1>7, <1>8, <1>9 DEF IInv

\* Every step keeps the invariant.
LEMMA NextInv == IInv /\ [Next]_vars => IInv'
<1> SUFFICES ASSUME IInv, [Next]_vars PROVE IInv'
  OBVIOUS
<1>1. ASSUME NEW j \in Job, NEW user \in User, NEW thread \in Thread,
             StartRun(j, user, thread)
      PROVE  IInv'
  BY <1>1, StartInv DEF StartRun
<1>2. ASSUME NEW j \in Job, NEW c \in Card, SubmitRevision(j, c)
      PROVE  IInv'
  <2>1. cards[c] \in CardInfo
    BY <1>2 DEF SubmitRevision, IInv, TypeOK, DialogsInv
  <2> QED
    BY <1>2, <2>1, StartInv DEF SubmitRevision, CardInfo
<1>3. ASSUME NEW j \in Job, NEW c \in Card, ClickConfirm(j, c) \/ ClickRevise(j, c)
      PROVE  IInv'
  BY <1>3, ClickedInv
<1>4. ASSUME NEW j \in Job, Handler(j)
      PROVE  IInv'
  <2>1. CASE RunStep(j)
    BY <2>1, SaveDraftInv, ShowCardInv, LocalInv, EndingInv DEF RunStep
  <2>2. CASE ConfirmStep(j)
    <3>1. LoseConnection(j) => feed' = feed \/ feed' = Sent(j)
      BY DEF LoseConnection
    <3> QED
      BY <2>2, <3>1, PostInv, LocalInv, EndingInv DEF ConfirmStep
  <2>3. CASE ReviseStep(j)
    BY <2>3, LocalInv, EndingInv DEF ReviseStep
  <2>4. CASE Reply(j)
    BY <2>4, EndingInv
  <2> QED
    BY <1>4, <2>1, <2>2, <2>3, <2>4 DEF Handler
<1>5. ASSUME NEW user \in User, Connect(user)
      PROVE  IInv'
  <2>1. UNCHANGED <<drafts, cards, modals, jobs, feed, discarded>>
    BY <1>5 DEF Connect
  <2>2. TypeOK'
    BY <1>5, <2>1 DEF Connect, IInv, TypeOK
  <2>3. JobsInv'
    <3>1. ASSUME NEW j \in Job PROVE JobInv(j, jobs[j])'
      <4>1. JobInv(j, jobs[j])
        BY DEF IInv, JobsInv
      <4>2. jobs[j].pc = "card" => cards[jobs[j].card] = None
        BY <4>1 DEF JobInv, RunInv
      <4> QED
        BY <2>1, <4>1, <4>2, JobKept
    <3> QED
      BY <3>1 DEF JobsInv
  <2> QED
    BY <2>1, <2>2, <2>3 DEF IInv, CardsInv, OneRunPerCard, DialogsInv, Approved,
                            TwiceOnlyIfResent, MessageOf
<1>6. ASSUME NEW gone \in SUBSET Card, Restart(gone)
      PROVE  IInv'
  BY <1>6, RestartInv
<1>7. CASE UNCHANGED vars
  <2>1. UNCHANGED <<drafts, cards, modals, jobs, feed, tokens, discarded>>
    BY <1>7 DEF vars
  <2>2. TypeOK'
    BY <2>1 DEF IInv, TypeOK
  <2>3. JobsInv'
    <3>1. ASSUME NEW j \in Job PROVE JobInv(j, jobs[j])'
      <4>1. JobInv(j, jobs[j])
        BY DEF IInv, JobsInv
      <4>2. jobs[j].pc = "card" => cards[jobs[j].card] = None
        BY <4>1 DEF JobInv, RunInv
      <4> QED
        BY <2>1, <4>1, <4>2, JobKept
    <3> QED
      BY <3>1 DEF JobsInv
  <2> QED
    BY <2>1, <2>2, <2>3 DEF IInv, CardsInv, OneRunPerCard, DialogsInv, Approved,
                            TwiceOnlyIfResent, MessageOf
<1> QED
  BY <1>1, <1>2, <1>3, <1>4, <1>5, <1>6, <1>7 DEF Next, ButtonOrCommand

\* Every reachable state satisfies the invariant.
LEMMA Invariance == Spec => []IInv
<1> QED
  BY InitInv, NextInv, PTL DEF Spec

\* The variables keep their kinds of values.
THEOREM TypeCorrect == Spec => []TypeOK
<1>1. IInv => TypeOK
  BY DEF IInv
<1> QED
  BY <1>1, Invariance, PTL

\* Everything the copilot writes was offered on a card and confirmed by the
\* member who saw it, for any number of cards, clicks, failures and restarts.
THEOREM OnlyApproved == Spec => []Approved
<1>1. IInv => Approved
  BY DEF IInv
<1> QED
  BY <1>1, Invariance, PTL

\* For any members, cards, clicks and restarts, and whatever Slack answers, a
\* click writes one message, or two over a connection that broke, never three.
THEOREM RepeatedOnlyOverABrokenConnection == Spec => []TwiceOnlyIfResent
<1>1. IInv => TwiceOnlyIfResent
  BY DEF IInv
<1> QED
  BY <1>1, Invariance, PTL

\* A message under a member's name comes from that member's own click.
THEOREM NoImpersonationEver == Spec => []NoImpersonation
<1>1. IInv => NoImpersonation
  <2> SUFFICES ASSUME IInv, NEW i \in 1..Len(feed), feed[i].as # App
               PROVE  feed[i].as = jobs[feed[i].click].user
    BY DEF NoImpersonation
  <2> DEFINE job == jobs[feed[i].click]
  <2>1. feed[i] \in Message
    BY SeqElement DEF IInv, TypeOK
  <2>2. job.card \in Card /\ cards[job.card] # None
    BY <2>1 DEF IInv, Approved, JobsInv, JobInv, ClickInv, Message
  <2>3. cards[job.card].viewer = cards[job.card].prepareUser
    BY <2>2 DEF IInv, CardsInv
  <2>4. feed[i].as = Identity(cards[job.card].tool, cards[job.card].prepareUser)
    <3>1. feed[i] = MessageOf(feed[i].click, cards[job.card], cards[job.card].text)
      BY DEF IInv, Approved
    <3> QED
      BY <3>1 DEF MessageOf
  <2>5. job.user = cards[job.card].viewer
    BY DEF IInv, Approved
  <2> QED
    BY <2>3, <2>4, <2>5 DEF Identity
<1> QED
  BY <1>1, Invariance, PTL

\* What the requester is told about a message is true of Slack.
THEOREM RepliesHonest == Spec => []HonestReply
<1>1. IInv => HonestReply
  BY DEF IInv, JobsInv, JobInv, ResultInv, Written, HonestReply
<1> QED
  BY <1>1, Invariance, PTL

\* A card on screen can be carried out unless a redeployment lost its draft.
THEOREM CardsUsable == Spec => []CardsHaveDrafts
<1>1. IInv => CardsHaveDrafts
  BY DEF IInv, CardsInv, CardsHaveDrafts
<1> QED
  BY <1>1, Invariance, PTL

-------------------------------------------------------------------------------
\* The gate, which is instantiated with the flow's constants, offers the same.
LEMMA SameOffers == Gate!Offer = Offer
BY DEF Offer, Tool, ThreadTool, Text, Gate!Offer, Gate!Tool, Gate!ThreadTool, Gate!Text

\* The flow starts as the gate does; then each of its steps shows a card,
\* approves one, carries an approved one out, or changes nothing it can see.
LEMMA GateInitially == Init => Gate!GateInit
<1> SUFFICES ASSUME Init PROVE Gate!GateInit
  OBVIOUS
<1>1. Offered = [c \in Card |-> None]
  BY DEF Init, Offered
<1>2. ApprovedCard = [j \in Job |-> None]
  BY DEF Init, NewJob, ApprovedCard
<1>3. Resent = {}
  BY DEF Init, NewJob, Resent
<1> QED
  BY <1>1, <1>2, <1>3 DEF Init, Gate!GateInit

\* A step that leaves cards, messages and what confirm clicks are on alone.
LEMMA GateStutter ==
  ASSUME cards' = cards, feed' = feed,
         \A j \in Job : /\ jobs'[j].kind = "confirm" <=> jobs[j].kind = "confirm"
                        /\ jobs[j].kind = "confirm" => jobs'[j].card = jobs[j].card
                        /\ jobs'[j].resent <=> jobs[j].resent
  PROVE  UNCHANGED Gate!gateVars
<1>1. Offered' = Offered
  BY DEF Offered
<1>2. ApprovedCard' = ApprovedCard
  BY DEF ApprovedCard
<1>3. Resent' = Resent
  BY DEF Resent
<1> QED
  BY <1>1, <1>2, <1>3 DEF Gate!gateVars

\* Showing a card is the gate's Show.
LEMMA GateShow ==
  ASSUME IInv, NEW j \in Job, NEW tool \in Tool, NEW to \in Thread \cup User,
         ShowCard(j, tool, to)
  PROVE  [Gate!GateNext]_(Gate!gateVars)
<1> DEFINE c == jobs[j].card
           card == [tool |-> tool, thread |-> jobs[j].thread, to |-> to,
                    prepareUser |-> jobs[j].user, viewer |-> jobs[j].user,
                    text |-> jobs[j].text]
<1>1. /\ jobs \in [Job -> JobInfo] /\ cards \in [Card -> CardInfo \cup {None}]
      /\ jobs[j].pc = "card" /\ RunInv(jobs[j])
      /\ cards' = [cards EXCEPT ![c] = card] /\ feed' = feed
      /\ jobs' = [jobs EXCEPT ![j] = [jobs[j] EXCEPT !.pc = "react",
                                        !.card = None, !.text = None]]
  BY DEF IInv, TypeOK, JobsInv, JobInv, ShowCard
<1>2. /\ c \in Card /\ cards[c] = None /\ jobs[j].kind = "run"
      /\ jobs[j].user \in User /\ jobs[j].text \in Text
  BY <1>1 DEF RunInv
<1>3. OfferOf(card) \in Offer /\ OfferOf(card) # None
  <2>1. OfferOf(card) \in Offer
    BY <1>2 DEF OfferOf, Offer, Identity
  <2> QED
    BY <2>1, OfferAssumption
<1>4. cards'[c] = card /\ \A d \in Card : d # c => cards'[d] = cards[d]
  BY <1>1, <1>2
<1>5. ApprovedCard' = ApprovedCard /\ Resent' = Resent
  <2>1. /\ jobs'[j].kind = "run" /\ jobs'[j].resent = jobs[j].resent
        /\ \A k \in Job : k # j => jobs'[k] = jobs[k]
    BY <1>1, <1>2 DEF JobInfo
  <2> QED
    BY <1>2, <2>1 DEF ApprovedCard, Resent
<1>6. CASE card = None
  <2>1. Offered' = Offered
    BY <1>2, <1>4, <1>6 DEF Offered
  <2> QED
    BY <1>1, <1>5, <2>1 DEF Gate!gateVars
<1>7. CASE card # None
  <2>1. Offered' = [Offered EXCEPT ![c] = OfferOf(card)]
    BY <1>2, <1>4, <1>7 DEF Offered
  <2>2. Offered[c] = None
    BY <1>2 DEF Offered
  <2>3. OfferOf(card) \in Gate!Offer
    BY <1>3, SameOffers
  <2>4. Offered'[c] = OfferOf(card)
    BY <1>2, <2>1 DEF Offered
  <2>5. Gate!Show(c)
    <3> HIDE DEF card
    <3> QED
      BY <1>1, <1>5, <2>1, <2>2, <2>3, <2>4 DEF Gate!Show
  <2> QED
    BY <1>2, <2>5 DEF Gate!GateNext
<1> QED
  BY <1>6, <1>7

\* A click on Confirm is the gate's Approve.
LEMMA GateApprove ==
  ASSUME IInv, NEW j \in Job, NEW c \in Card, ClickConfirm(j, c)
  PROVE  Gate!GateNext
<1>1. /\ jobs \in [Job -> JobInfo] /\ ClickInv(jobs[j])
      /\ cards' = cards /\ feed' = feed
      /\ jobs[j].pc = "idle" /\ cards[c] # None
  BY DEF IInv, TypeOK, JobsInv, JobInv, ClickConfirm
<1>2. /\ jobs'[j].kind = "confirm" /\ jobs'[j].card = c /\ ~jobs'[j].resent
      /\ \A k \in Job : k # j => jobs'[k] = jobs[k]
  BY <1>1 DEF ClickConfirm, NewJob
<1>3. /\ ApprovedCard[j] = None /\ ApprovedCard' = [ApprovedCard EXCEPT ![j] = c]
      /\ Resent' = Resent
  <2>1. jobs[j].kind = "none" /\ ~jobs[j].resent
    BY <1>1 DEF ClickInv
  <2>2. Resent' = Resent
    BY <1>2, <2>1 DEF Resent
  <2> QED
    BY <1>2, <2>1, <2>2 DEF ApprovedCard
<1>4. Offered' = Offered
  BY <1>1 DEF Offered
<1>5. Offered[c] # None
  <2>1. cards[c] \in CardInfo
    BY <1>1 DEF IInv, TypeOK
  <2>2. OfferOf(cards[c]) \in Offer
    BY <2>1 DEF OfferOf, Offer, Identity, CardInfo
  <2> QED
    BY <1>1, <2>2, OfferAssumption DEF Offered
<1>6. Gate!Approve(j, c)
  BY <1>1, <1>3, <1>4, <1>5 DEF Gate!Approve
<1> QED
  BY <1>6 DEF Gate!GateNext

\* A message that Slack takes is the gate's CarryOut, and a connection that
\* breaks is its Break.
LEMMA GateCarryOut ==
  ASSUME IInv, NEW j \in Job,
         (\E result \in Result : Post(j, result)) \/ LoseConnection(j)
  PROVE  Gate!GateNext
<1> DEFINE c == jobs[j].card
<1>1. /\ jobs \in [Job -> JobInfo] /\ JobInv(j, jobs[j]) /\ jobs[j].pc = "post"
      /\ cards' = cards
  BY DEF IInv, TypeOK, JobsInv, Post, LoseConnection, Sends
<1>2. /\ jobs[j].kind = "confirm" /\ c \in Card /\ cards[c] # None
      /\ jobs[j].text = cards[c].text /\ Once(j) /\ (Written(j) => jobs[j].resent)
  BY <1>1 DEF JobInv, ClickInv, ResultInv
<1>3. ApprovedCard[j] = c /\ c # None
  BY <1>2, IdsAssumption DEF ApprovedCard
<1>4. /\ jobs'[j].kind = jobs[j].kind /\ jobs'[j].card = c
      /\ \A k \in Job : k # j => jobs'[k] = jobs[k]
      /\ \/ jobs'[j].resent = jobs[j].resent /\ feed' = Sent(j)
         \/ /\ LoseConnection(j) /\ jobs'[j].resent /\ ~jobs[j].resent
            /\ feed' \in {feed, Sent(j)}
  <2>1. CASE \E result \in Result : Post(j, result)
    <3>1. PICK result \in Result :
            /\ jobs' = [jobs EXCEPT ![j] = [jobs[j] EXCEPT !.pc = "wake",
                                              !.result = result, !.text = None]]
            /\ feed' = Sent(j)
      BY <1>1, <2>1 DEF Post, Return
    <3> QED
      BY <1>1, <3>1 DEF JobInfo
  <2>2. CASE LoseConnection(j)
    BY <1>1, <2>2 DEF LoseConnection, JobInfo
  <2> QED
    BY <2>1, <2>2
<1>5. ApprovedCard' = ApprovedCard /\ Offered' = Offered
  <2>1. \A k \in Job : jobs'[k].kind = jobs[k].kind /\ jobs'[k].card = jobs[k].card
    BY <1>4
  <2> QED
    BY <1>1, <2>1 DEF ApprovedCard, Offered
<1>6. Sent(j) = Append(feed, Gate!Carried(j, Offered[ApprovedCard[j]]))
  <2>1. MessageOf(j, cards[c], jobs[j].text) = Gate!Carried(j, Offered[c])
    BY <1>2 DEF MessageOf, Gate!Carried, Offered, OfferOf, ToSlackMrkdwn,
                Gate!ToSlackMrkdwn
  <2> QED
    BY <1>3, <2>1 DEF Sent
<1>7. /\ \A i, l \in Gate!Copies(j) : i = l
      /\ Gate!Copies(j) # {} <=> Written(j)
  BY <1>2 DEF Gate!Copies, Once, Written
<1>8. CASE jobs'[j].resent = jobs[j].resent /\ feed' = Sent(j)
  <2>1. Resent' = Resent
    BY <1>4, <1>8 DEF Resent
  <2>2. j \in Resent \/ Gate!Copies(j) = {}
    BY <1>2, <1>7 DEF Resent
  <2>3. Gate!CarryOut(j)
    BY <1>3, <1>5, <1>6, <1>7, <1>8, <2>1, <2>2 DEF Gate!CarryOut
  <2> QED
    BY <2>3 DEF Gate!GateNext
<1>9. CASE jobs'[j].resent /\ ~jobs[j].resent /\ feed' \in {feed, Sent(j)}
  <2>1. Resent' = Resent \cup {j} /\ j \notin Resent
    BY <1>4, <1>9 DEF Resent
  <2>2. Gate!Copies(j) = {}
    BY <1>2, <1>7, <1>9
  <2>3. Gate!Break(j)
    BY <1>3, <1>5, <1>6, <1>9, <2>1, <2>2 DEF Gate!Break
  <2> QED
    BY <2>3 DEF Gate!GateNext
<1> QED
  BY <1>4, <1>8, <1>9

\* Every step of the flow is a step of the gate or invisible to it.
LEMMA GateSteps == IInv /\ [Next]_vars => [Gate!GateNext]_(Gate!gateVars)
<1> SUFFICES ASSUME IInv, [Next]_vars PROVE [Gate!GateNext]_(Gate!gateVars)
  OBVIOUS
<1>0. jobs \in [Job -> JobInfo] /\ \A j \in Job : JobInv(j, jobs[j])
  BY DEF IInv, TypeOK, JobsInv
<1>1. ASSUME NEW j \in Job, ButtonOrCommand(j)
      PROVE  [Gate!GateNext]_(Gate!gateVars)
  <2>1. CASE \E c \in Card : ClickConfirm(j, c)
    BY <2>1, GateApprove
  <2>2. CASE ~\E c \in Card : ClickConfirm(j, c)
    <3>1. /\ jobs[j].pc = "idle" /\ cards' = cards /\ feed' = feed
          /\ jobs'[j].kind # "confirm" /\ ~jobs'[j].resent
          /\ \A k \in Job : k # j => jobs'[k] = jobs[k]
      BY ZenonT(40), <1>0, <1>1, <2>2 DEF ButtonOrCommand, StartRun, SubmitRevision,
                               ClickRevise, NewJob
    <3>2. jobs[j].kind = "none" /\ ~jobs[j].resent
      BY <1>0, <3>1 DEF JobInv, ClickInv
    <3> QED
      BY <3>1, <3>2, GateStutter
  <2> QED
    BY <2>1, <2>2
<1>2. ASSUME NEW j \in Job, Handler(j)
      PROVE  [Gate!GateNext]_(Gate!gateVars)
  <2>1. CASE \E tool \in Tool, to \in Thread \cup User : ShowCard(j, tool, to)
    BY <2>1, GateShow
  <2>2. CASE (\E result \in Result : Post(j, result)) \/ LoseConnection(j)
    BY <2>2, GateCarryOut
  <2>3. CASE \E c \in Card, text \in Text : SaveDraft(j, c, text)
    <3>1. cards' = cards /\ feed' = feed /\ jobs[j].pc = "react"
          /\ jobs'[j].kind = jobs[j].kind /\ jobs'[j].resent = jobs[j].resent
          /\ \A k \in Job : k # j => jobs'[k] = jobs[k]
      BY <1>0, <2>3 DEF SaveDraft, JobInfo
    <3>2. jobs[j].kind = "run"
      BY <1>0, <3>1 DEF JobInv, RunInv
    <3> QED
      BY <3>1, <3>2, GateStutter
  <2>4. CASE LoseCard(j)
    <3>1. cards' = cards /\ feed' = feed /\ jobs[j].pc = "card"
          /\ jobs'[j].kind = jobs[j].kind /\ jobs'[j].resent = jobs[j].resent
          /\ \A k \in Job : k # j => jobs'[k] = jobs[k]
      BY <1>0, <2>4 DEF LoseCard, JobInfo
    <3>2. jobs[j].kind = "run"
      BY <1>0, <3>1 DEF JobInv, RunInv
    <3> QED
      BY <3>1, <3>2, GateStutter
  <2>5. CASE \/ LoadDraft(j) \/ DraftMissing(j) \/ NotConnected(j) \/ PostFails(j)
             \/ \E result \in Result : DialogFails(j, result)
    <3>1. /\ cards' = cards /\ feed' = feed
          /\ jobs'[j].kind = jobs[j].kind /\ jobs'[j].card = jobs[j].card
          /\ jobs'[j].resent = jobs[j].resent
          /\ \A k \in Job : k # j => jobs'[k] = jobs[k]
      <4>1. CASE LoadDraft(j)
        BY <1>0, <4>1 DEF LoadDraft, JobInfo
      <4>2. CASE DraftMissing(j) \/ NotConnected(j) \/ PostFails(j)
                 \/ \E result \in Result : DialogFails(j, result)
        <5>1. /\ cards' = cards /\ feed' = feed
              /\ \E pc \in PC, result \in Result : Return(j, pc, result)
          BY <4>2 DEF DraftMissing, NotConnected, PostFails, DialogFails, PC, Result
        <5> QED
          BY <1>0, <5>1 DEF Return, JobInfo
      <4> QED
        BY <2>5, <4>1, <4>2
    <3> QED
      BY <3>1, GateStutter
  <2>6. CASE EndRun(j) \/ OpenDialog(j) \/ Reply(j) \/ WakeWatchers(j)
    <3>1. /\ cards' = cards /\ feed' = feed
          /\ \/ /\ jobs'[j].kind = jobs[j].kind /\ jobs'[j].card = jobs[j].card
                /\ jobs'[j].resent = jobs[j].resent
             \/ /\ jobs'[j].kind = "none" /\ jobs[j].kind # "confirm"
                /\ ~jobs'[j].resent
          /\ \A k \in Job : k # j => jobs'[k] = jobs[k]
      <4>1. /\ cards' = cards /\ feed' = feed
            /\ \/ jobs' = [jobs EXCEPT ![j] = End(jobs[j])]
               \/ jobs' = [jobs EXCEPT ![j].pc = "reply"]
        BY <1>0, <2>6 DEF EndRun, OpenDialog, Reply, WakeWatchers, Goto
      <4>2. \A k \in Job : k # j => jobs'[k] = jobs[k]
        BY <1>0, <4>1
      <4>3. \/ jobs'[j] = End(jobs[j])
            \/ /\ jobs'[j].kind = jobs[j].kind /\ jobs'[j].card = jobs[j].card
               /\ jobs'[j].resent = jobs[j].resent
        BY <1>0, <4>1 DEF JobInfo
      <4> QED
        BY <1>0, <4>1, <4>2, <4>3, JobEnds
    <3>2. jobs[j].kind # "confirm" => ~jobs[j].resent
      BY <1>0 DEF JobInv, ClickInv
    <3> QED
      BY <3>1, <3>2, GateStutter
  <2> QED
    BY <1>2, <2>1, <2>2, <2>3, <2>4, <2>5, <2>6
       DEF Handler, RunStep, ConfirmStep, ReviseStep
<1>3. CASE \E user \in User : Connect(user)
  BY <1>3, GateStutter DEF Connect
<1>4. CASE \E gone \in SUBSET Card : Restart(gone)
  <2>1. cards' = cards /\ feed' = feed
    BY <1>4 DEF Restart
  <2>2. ASSUME NEW j \in Job
        PROVE  \/ jobs'[j] = jobs[j]
               \/ /\ jobs'[j].kind = jobs[j].kind /\ jobs'[j].card = jobs[j].card
                  /\ jobs'[j].resent = jobs[j].resent
               \/ /\ jobs'[j].kind = "none" /\ jobs[j].kind # "confirm"
                  /\ ~jobs'[j].resent
    BY <1>0, <1>4, RestartJob
  <2>3. \A j \in Job : jobs[j].kind # "confirm" => ~jobs[j].resent
    BY <1>0 DEF JobInv, ClickInv
  <2> QED
    BY <2>1, <2>2, <2>3, GateStutter
<1>5. CASE UNCHANGED vars
  BY <1>5, GateStutter DEF vars
<1> QED
  BY <1>1, <1>2, <1>3, <1>4, <1>5 DEF Next

\* The flow with its files, threads, broken connections, lost answers and restarts
\* implements the approval gate, for every set of members, cards and clicks.
THEOREM ImplementsGate == Spec => GateSpec
<1>1. Init => Gate!GateInit
  BY GateInitially
<1>2. IInv /\ [Next]_vars => [Gate!GateNext]_(Gate!gateVars)
  BY GateSteps
<1> QED
  BY <1>1, <1>2, Invariance, PTL DEF Spec, GateSpec, Gate!GateSpec
===============================================================================
