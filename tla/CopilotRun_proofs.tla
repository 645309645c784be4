--------------------------- MODULE CopilotRun_proofs ---------------------------
(***************************************************************************)
(* Proofs about the runs of the copilot, for any number of runs, rounds    *)
(* and calls: types, the conversation sent to the LLM, and what the user   *)
(* is told at the end.                                                     *)
(***************************************************************************)
EXTENDS CopilotRunProps, TLAPS

-------------------------------------------------------------------------------
(* The inductive invariant. *)

\* Calls are pending while tools run, and then only; a round has MaxCalls at most.
CallsOK(run) ==
  /\ run.pc = "tools" <=> run.pending # <<>>
  /\ Len(run.trace) + Len(run.pending) <= run.round * MaxCalls

\* Each call of an assistant message has its answer behind it in the conversation,
\* or is pending, in its order.
AnsweredOrPending(talk, pending) ==
  \A i \in DOMAIN talk : talk[i].role = "assistant" =>
    \A k \in DOMAIN talk[i].calls :
      /\ i + k <= Len(talk) =>
           talk[i + k] = [role |-> "tool", call |-> talk[i].calls[k]]
      /\ i + k > Len(talk) =>
           /\ i + k - Len(talk) \in DOMAIN pending
           /\ pending[i + k - Len(talk)] = talk[i].calls[k]

\* An answer belongs to an assistant message before it, and so will the next one.
AnswersBelong(talk) ==
  \A j \in DOMAIN talk : talk[j].role = "tool" =>
    \E i \in 1..(j - 1) : /\ talk[i].role = "assistant"
                          /\ j - i \in DOMAIN talk[i].calls
PendingBelongs(talk, pending) ==
  pending # <<>> =>
    \E i \in DOMAIN talk : /\ talk[i].role = "assistant"
                           /\ i + Len(talk[i].calls) = Len(talk) + Len(pending)

TalkOK(run) == /\ AnsweredOrPending(run.talk, run.pending)
               /\ AnswersBelong(run.talk)
               /\ PendingBelongs(run.talk, run.pending)

\* The trace accounts for what was carried out, and for cards.
TraceOK(run) ==
  /\ run.acted \subseteq Receipts(run.trace)
  /\ \A i \in DOMAIN run.trace : run.trace[i].result = "shown" =>
       run.trace[i].call.confirms /\ run.trace[i].call \in run.cards

PhaseOK(run) ==
  /\ run.pc \in {"new", "dialog", "context", "skill", "prompt"} => run.round = 0
  /\ run.pc # "done" => run.notice = None /\ ~run.unheard

\* What the user hears, or does not, at the end of a run that is logged or not.
EndOK(run, logged) ==
  run.pc = "done" =>
    /\ ~run.unheard /\ logged =>
         run.acted \subseteq IF run.notice # None /\ run.notice.kind = "outcome"
                             THEN run.notice.receipts ELSE {}
    /\ run.notice # None =>
         /\ run.notice.kind \in {"empty", "no_submit"} => ~ConfirmPending(run.trace)
         /\ run.notice.kind = "outcome" => ~run.notice.text \/ ~ConfirmPending(run.trace)
         /\ run.notice.kind \in {"outcome", "empty", "no_submit"} => logged
    /\ run.notice = None /\ run.cards = {} /\ ~run.unheard =>
         ForcesSkill(run.trigger) /\ run.round = 0

RunOK(run, logged) == /\ CallsOK(run)
                      /\ TalkOK(run)
                      /\ TraceOK(run)
                      /\ PhaseOK(run)
                      /\ EndOK(run, logged)

\* How far a run is tells what is in the logs.
LoggedOK(r) ==
  /\ runs[r].pc = "log_thread" => r \in globalLog
  /\ runs[r].pc = "post" => r \in threadLog
  /\ r \in threadLog => runs[r].pc \in {"post", "done"}

IInv == /\ TypeOK
        /\ \A r \in Run : RunOK(runs[r], r \in threadLog) /\ LoggedOK(r)

-------------------------------------------------------------------------------
(* The conversation. *)

LEMMA LenIsNat == ASSUME NEW S, NEW s \in Seq(S) PROVE Len(s) \in Nat
OBVIOUS

\* What Append and Tail leave where.
LEMMA AppendFacts ==
  ASSUME NEW S, NEW s \in Seq(S), NEW e \in S
  PROVE  /\ Append(s, e) \in Seq(S)
         /\ Len(Append(s, e)) = Len(s) + 1 /\ Len(s) \in Nat
         /\ DOMAIN Append(s, e) = 1..Len(s) + 1 /\ DOMAIN s = 1..Len(s)
         /\ Append(s, e)[Len(s) + 1] = e
         /\ \A i \in DOMAIN s : Append(s, e)[i] = s[i]
OBVIOUS

LEMMA TailFacts ==
  ASSUME NEW S, NEW s \in Seq(S), s # <<>>
  PROVE  /\ Head(s) \in S /\ Head(s) = s[1]
         /\ Tail(s) \in Seq(S)
         /\ Len(s) \in Nat \ {0} /\ Len(Tail(s)) = Len(s) - 1
         /\ DOMAIN Tail(s) = 1..Len(s) - 1 /\ DOMAIN s = 1..Len(s)
         /\ \A k \in DOMAIN Tail(s) : Tail(s)[k] = s[k + 1]
OBVIOUS

\* With no call pending, each call has its answer.
LEMMA NoneIsPending ==
  ASSUME NEW talk \in Seq(Message), AnsweredOrPending(talk, <<>>),
         NEW i \in DOMAIN talk, talk[i].role = "assistant", NEW k \in DOMAIN talk[i].calls
  PROVE  i + k \in DOMAIN talk /\ talk[i + k] = [role |-> "tool", call |-> talk[i].calls[k]]
<1>0. DOMAIN talk = 1..Len(talk) /\ Len(talk) \in Nat /\ talk[i] \in Message
  OBVIOUS
<1>1. k \in Nat \ {0}
  <2>1. talk[i].calls \in Seq(Call)
    BY <1>0 DEF Message
  <2> QED BY <2>1
<1>2. i + k <= Len(talk)
  <2>1. DOMAIN <<>> = {}
    OBVIOUS
  <2>2. ~(i + k > Len(talk))
    BY <2>1 DEF AnsweredOrPending
  <2> QED BY <2>2, <1>0, <1>1
<1> QED BY <1>0, <1>1, <1>2 DEF AnsweredOrPending

\* A completion with calls leaves all of them pending.
LEMMA TalkAfterCompletion ==
  ASSUME NEW talk \in Seq(Message), NEW calls \in Seq(Call), calls # <<>>,
         AnsweredOrPending(talk, <<>>), AnswersBelong(talk),
         NEW new, new = Append(talk, [role |-> "assistant", calls |-> calls])
  PROVE  /\ new \in Seq(Message)
         /\ AnsweredOrPending(new, calls)
         /\ AnswersBelong(new)
         /\ PendingBelongs(new, calls)
<1> PICK m \in Message : m = [role |-> "assistant", calls |-> calls]
  BY DEF Message
<1>1. m.role = "assistant" /\ m.calls = calls
  OBVIOUS
<1>2. /\ new \in Seq(Message) /\ Len(new) = Len(talk) + 1 /\ Len(talk) \in Nat
      /\ DOMAIN new = 1..Len(talk) + 1 /\ DOMAIN talk = 1..Len(talk)
      /\ new[Len(talk) + 1] = m /\ \A i \in DOMAIN talk : new[i] = talk[i]
  OBVIOUS
<1>3. ASSUME NEW i \in DOMAIN talk, talk[i].role = "assistant",
             NEW k \in DOMAIN talk[i].calls
      PROVE  i + k \in DOMAIN talk /\ talk[i + k] = [role |-> "tool", call |-> talk[i].calls[k]]
  BY <1>3, NoneIsPending
<1>4. AnsweredOrPending(new, calls)
  <2> SUFFICES ASSUME NEW i \in DOMAIN new, new[i].role = "assistant",
                      NEW k \in DOMAIN new[i].calls
               PROVE  /\ i + k <= Len(new) =>
                           new[i + k] = [role |-> "tool", call |-> new[i].calls[k]]
                      /\ i + k > Len(new) =>
                           /\ i + k - Len(new) \in DOMAIN calls
                           /\ calls[i + k - Len(new)] = new[i].calls[k]
    BY DEF AnsweredOrPending
  <2>1. CASE i \in DOMAIN talk
    <3>1. new[i] = talk[i]
      BY <2>1, <1>2
    <3>2. i + k \in DOMAIN talk /\ talk[i + k] = [role |-> "tool", call |-> talk[i].calls[k]]
      BY <2>1, <3>1, <1>3
    <3>3. i + k <= Len(new) /\ ~(i + k > Len(new)) /\ new[i + k] = talk[i + k]
      BY <1>2, <3>2
    <3>4. new[i + k] = [role |-> "tool", call |-> new[i].calls[k]]
      BY ONLY <3>1, <3>2, <3>3
    <3> QED BY ONLY <3>3, <3>4
  <2>2. CASE i = Len(talk) + 1
    <3>1. new[i].calls = calls
      BY <2>2, <1>1, <1>2
    <3>2. k \in Nat \ {0} /\ i = Len(new)
      BY <3>1, <2>2, <1>2
    <3>3. i + k - Len(new) = k /\ ~(i + k <= Len(new))
      BY ONLY <3>2, <1>2
    <3> QED BY <3>1, <3>3
  <2>3. i \in DOMAIN talk \/ i = Len(talk) + 1
    BY ONLY <1>2, i \in DOMAIN new
  <2> QED BY <2>1, <2>2, <2>3
<1>5. AnswersBelong(new)
  <2> SUFFICES ASSUME NEW j \in DOMAIN new, new[j].role = "tool"
               PROVE  \E i \in 1..(j - 1) : /\ new[i].role = "assistant"
                                            /\ j - i \in DOMAIN new[i].calls
    BY DEF AnswersBelong
  <2>1. j \in DOMAIN talk /\ new[j] = talk[j]
    BY <1>1, <1>2
  <2>2. PICK i \in 1..(j - 1) : talk[i].role = "assistant" /\ j - i \in DOMAIN talk[i].calls
    BY <2>1 DEF AnswersBelong
  <2>3. new[i] = talk[i]
    BY <2>1, <2>2, <1>2
  <2> QED BY <2>2, <2>3
<1>6. PendingBelongs(new, calls)
  <2>1. Len(talk) + 1 \in DOMAIN new /\ Len(calls) \in Nat
    BY <1>2
  <2>2. Len(talk) + 1 + Len(new[Len(talk) + 1].calls) = Len(new) + Len(calls)
    BY <1>1, <1>2, <2>1
  <2> QED BY <1>1, <1>2, <2>1, <2>2 DEF PendingBelongs
<1> QED BY <1>2, <1>4, <1>5, <1>6

\* An answer to the first pending call leaves the others pending.
LEMMA TalkAfterAnswer ==
  ASSUME NEW talk \in Seq(Message), NEW pending \in Seq(Call), pending # <<>>,
         AnsweredOrPending(talk, pending), AnswersBelong(talk), PendingBelongs(talk, pending),
         NEW new, new = talk \o ToolMessage(Head(pending))
  PROVE  /\ new \in Seq(Message)
         /\ AnsweredOrPending(new, Tail(pending))
         /\ AnswersBelong(new)
         /\ PendingBelongs(new, Tail(pending))
<1> PICK c \in Call : c = Head(pending)
  BY TailFacts
<1> PICK m \in Message : m = [role |-> "tool", call |-> c]
  BY DEF Message
<1>1. m.role = "tool" /\ m.role # "assistant"
  OBVIOUS
<1>2. new = Append(talk, m)
  BY DEF ToolMessage
<1>3. /\ new \in Seq(Message) /\ Len(new) = Len(talk) + 1 /\ Len(talk) \in Nat
      /\ DOMAIN new = 1..Len(talk) + 1 /\ DOMAIN talk = 1..Len(talk)
      /\ new[Len(talk) + 1] = m /\ \A i \in DOMAIN talk : new[i] = talk[i]
  <2> DEFINE e == Append(talk, m)
  <2>1. /\ e \in Seq(Message) /\ Len(e) = Len(talk) + 1 /\ Len(talk) \in Nat
        /\ DOMAIN e = 1..Len(talk) + 1 /\ DOMAIN talk = 1..Len(talk)
        /\ e[Len(talk) + 1] = m /\ \A i \in DOMAIN talk : e[i] = talk[i]
    BY ONLY AppendFacts, talk \in Seq(Message), m \in Message
  <2> HIDE DEF e
  <2> QED BY ONLY <2>1, <1>2 DEF e
<1> PICK rest \in Seq(Call) : rest = Tail(pending)
  BY TailFacts
<1>4. /\ Len(pending) \in Nat \ {0} /\ Len(rest) = Len(pending) - 1
      /\ DOMAIN rest = 1..Len(pending) - 1 /\ DOMAIN pending = 1..Len(pending)
      /\ c = pending[1] /\ \A k \in DOMAIN rest : rest[k] = pending[k + 1]
  BY TailFacts
<1>5. AnsweredOrPending(new, rest)
  <2> SUFFICES ASSUME NEW i \in DOMAIN new, new[i].role = "assistant",
                      NEW k \in DOMAIN new[i].calls
               PROVE  /\ i + k <= Len(new) =>
                           new[i + k] = [role |-> "tool", call |-> new[i].calls[k]]
                      /\ i + k > Len(new) =>
                           /\ i + k - Len(new) \in DOMAIN rest
                           /\ rest[i + k - Len(new)] = new[i].calls[k]
    BY DEF AnsweredOrPending
  <2>1. i \in DOMAIN talk /\ new[i] = talk[i]
    BY <1>1, <1>3
  <2>2. k \in Nat \ {0}
    <3>1. talk[i] \in Message /\ talk[i].role = "assistant"
      BY <2>1
    <3>2. talk[i].calls \in Seq(Call)
      BY <3>1 DEF Message
    <3> QED BY <2>1, <3>2
  <2>3. CASE i + k <= Len(talk)
    <3>1. talk[i + k] = [role |-> "tool", call |-> talk[i].calls[k]]
      BY <2>1, <2>3 DEF AnsweredOrPending
    <3>2. i + k \in DOMAIN talk
      BY <2>1, <2>2, <2>3, <1>3
    <3> QED BY <2>1, <3>1, <3>2, <1>3
  <2>4. CASE ~(i + k <= Len(talk))
    <3>0. i + k > Len(talk)
      BY ONLY <2>1, <2>2, <2>4, <1>3
    <3>1. /\ i + k - Len(talk) \in DOMAIN pending
          /\ pending[i + k - Len(talk)] = talk[i].calls[k]
      BY <2>1, <3>0 DEF AnsweredOrPending
    <3>2. CASE i + k = Len(talk) + 1
      <4>1. i + k - Len(talk) = 1
        BY <2>1, <2>2, <3>2, <1>3
      <4>2. c = talk[i].calls[k]
        BY <3>1, <4>1, <1>4
      <4> QED BY <2>1, <3>2, <4>2, <1>3
    <3>3. CASE i + k # Len(talk) + 1
      <4>1. i + k - Len(new) \in Nat \ {0} /\ ~(i + k <= Len(new))
        BY <2>1, <2>2, <2>4, <3>3, <1>3
      <4>2. /\ i + k - Len(talk) = (i + k - Len(new)) + 1
            /\ i + k - Len(new) \in DOMAIN rest
        BY <2>1, <2>2, <3>1, <4>1, <1>3, <1>4
      <4>3. rest[i + k - Len(new)] = talk[i].calls[k]
        BY <3>1, <4>2, <1>4
      <4> QED BY <2>1, <4>1, <4>2, <4>3
    <3> QED BY <3>2, <3>3
  <2> QED BY <2>3, <2>4
<1>6. PICK a \in DOMAIN talk : /\ talk[a].role = "assistant"
                               /\ a + Len(talk[a].calls) = Len(talk) + Len(pending)
  BY DEF PendingBelongs
<1>7. a \in DOMAIN new /\ new[a] = talk[a] /\ talk[a].calls \in Seq(Call)
  BY <1>3, <1>6 DEF Message
<1>8. AnswersBelong(new)
  <2> SUFFICES ASSUME NEW j \in DOMAIN new, new[j].role = "tool"
               PROVE  \E i \in 1..(j - 1) : /\ new[i].role = "assistant"
                                            /\ j - i \in DOMAIN new[i].calls
    BY DEF AnswersBelong
  <2>1. CASE j \in DOMAIN talk
    <3>1. PICK i \in 1..(j - 1) : talk[i].role = "assistant" /\ j - i \in DOMAIN talk[i].calls
      BY <2>1, <1>3 DEF AnswersBelong
    <3>2. new[i] = talk[i]
      BY <2>1, <3>1, <1>3
    <3> QED BY <3>1, <3>2
  <2>2. CASE j = Len(talk) + 1
    <3>1. a \in 1..(j - 1) /\ j - a \in 1..Len(talk[a].calls)
      BY <2>2, <1>3, <1>4, <1>6, <1>7
    <3> QED BY <3>1, <1>6, <1>7
  <2> QED BY <2>1, <2>2, <1>3
<1>9. PendingBelongs(new, rest)
  <2>2. Len(new) + Len(rest) = Len(talk) + Len(pending)
    BY ONLY <1>3, <1>4
  <2>3. a + Len(new[a].calls) = Len(new) + Len(rest)
    BY <2>2, <1>6, <1>7
  <2> QED BY <2>3, <1>6, <1>7 DEF PendingBelongs
<1> QED BY <1>3, <1>5, <1>8, <1>9

-------------------------------------------------------------------------------
(* The initial states, and how a run's record may change. *)

LEMMA InitInv == Init => IInv
<1> SUFFICES ASSUME Init PROVE IInv
  OBVIOUS
<1>1. New \in RunState
  <2>1. <<>> \in Seq(Message) /\ <<>> \in Seq(Call)
        /\ <<>> \in Seq([call : Call, result : Result])
    OBVIOUS
  <2>2. 0 \in 0..MaxRounds
    BY BoundsAssumption
  <2> QED BY <2>1, <2>2 DEF New, RunState
<1>2. TypeOK
  <2>1. \A r \in Run : runs[r] = New /\ New.pc = "new"
    BY DEF Init, New
  <2>2. \A r \in Run, p \in Process : writer[p] # r
    BY NoneAssumption DEF Init
  <2> QED BY <1>1, <2>1, <2>2, BoundsAssumption DEF Init, TypeOK
<1>3. RunOK(New, FALSE)
  <2>1. Len(<<>>) = 0 /\ DOMAIN <<>> = {} /\ 0 <= 0 * MaxCalls
    BY BoundsAssumption
  <2>2. CallsOK(New)
    BY <2>1, BoundsAssumption DEF CallsOK, New
  <2>3. TalkOK(New)
    BY <2>1 DEF TalkOK, AnsweredOrPending, AnswersBelong, PendingBelongs, New
  <2>4. TraceOK(New) /\ PhaseOK(New) /\ EndOK(New, FALSE)
    BY <2>1 DEF TraceOK, PhaseOK, EndOK, New
  <2> QED BY <2>2, <2>3, <2>4 DEF RunOK
<1>4. ASSUME NEW r \in Run PROVE RunOK(runs[r], r \in threadLog) /\ LoggedOK(r)
  <2>1. runs[r] = New /\ New.pc = "new" /\ (r \in threadLog) = FALSE
    BY DEF Init, New
  <2> QED BY <1>3, <2>1 DEF LoggedOK
<1> QED BY <1>2, <1>4 DEF IInv

Early == {"new", "dialog", "context", "skill", "prompt"}

\* A step of r that leaves the logs alone keeps the invariant if it keeps r's part.
LEMMA MoveInv ==
  ASSUME IInv, NEW r \in Run, NEW new \in RunState, runs' = [runs EXCEPT ![r] = new],
         RunOK(new, r \in threadLog), new.pc \notin {"log_thread", "post"},
         runs[r].pc # "log_thread", r \in threadLog => new.pc = "done",
         UNCHANGED <<skill, logs>>
  PROVE  IInv'
<1>1. /\ runs \in [Run -> RunState] /\ TypeOK
      /\ UNCHANGED <<installed, edits, globalLog, threadLog, writer>>
  BY DEF IInv, TypeOK, skill, logs
<1>2. runs' \in [Run -> RunState]
  BY <1>1
<1>3. \A q \in Run, p \in Process :
        writer'[p] = q <=> runs'[q].pc = "log_thread" /\ ProcessOf(runs'[q]) = p
  <2> SUFFICES ASSUME NEW q \in Run, NEW p \in Process
               PROVE  writer[p] = q <=> runs'[q].pc = "log_thread" /\ ProcessOf(runs'[q]) = p
    BY <1>1
  <2>1. writer[p] = q <=> runs[q].pc = "log_thread" /\ ProcessOf(runs[q]) = p
    BY <1>1 DEF TypeOK
  <2>2. CASE q = r
    <3>1. runs'[q].pc # "log_thread" /\ runs[q].pc # "log_thread"
      BY <2>2, <1>1
    <3> QED BY <2>1, <3>1
  <2>3. CASE q # r
    <3>1. runs'[q] = runs[q]
      BY <2>3, <1>1
    <3> QED BY <2>1, <3>1
  <2> QED BY <2>2, <2>3
<1>4. TypeOK'
  BY <1>1, <1>2, <1>3 DEF TypeOK, ProcessOf
<1>5. ASSUME NEW q \in Run PROVE RunOK(runs'[q], q \in threadLog') /\ LoggedOK(q)'
  <2>1. RunOK(runs[q], q \in threadLog) /\ LoggedOK(q)
    BY DEF IInv
  <2>2. CASE q = r
    <3>1. runs'[q] = new
      BY <2>2, <1>1
    <3> QED BY <1>1, <2>2, <3>1 DEF LoggedOK
  <2>3. CASE q # r
    <3>1. runs'[q] = runs[q]
      BY <2>3, <1>1
    <3> QED BY <1>1, <2>1, <3>1 DEF LoggedOK
  <2> QED BY <2>2, <2>3
<1> QED BY <1>4, <1>5 DEF IInv

\* A run may go on to another place if no tools run there or here.
LEMMA GoesOn ==
  ASSUME NEW run \in RunState, NEW new \in RunState, NEW logged, RunOK(run, logged),
         run.pc \notin {"tools", "done"}, new.pc \notin {"tools", "done"},
         new.pc \in Early => run.pc \in Early,
         new.round = run.round \/ (new.pc \notin Early /\ new.round = run.round + 1),
         new.talk = run.talk, new.pending = run.pending, new.trace = run.trace,
         new.cards = run.cards, new.acted = run.acted, new.notice = run.notice,
         new.unheard = run.unheard
  PROVE  RunOK(new, logged)
<1>1. CallsOK(new)
  <2>1. run.pending = <<>> /\ Len(run.trace) + Len(run.pending) <= run.round * MaxCalls
    BY DEF RunOK, CallsOK
  <2>2. run.round \in Nat /\ run.trace \in Seq([call : Call, result : Result])
        /\ run.pending \in Seq(Call)
    BY DEF RunState
  <2>3. run.round * MaxCalls <= new.round * MaxCalls
    <3>1. CASE new.round = run.round
      BY <3>1, <2>2, BoundsAssumption
    <3>2. CASE new.round = run.round + 1
      <4>1. (run.round + 1) * MaxCalls = run.round * MaxCalls + MaxCalls
        BY <2>2, BoundsAssumption
      <4>2. run.round * MaxCalls \in Nat
        BY <2>2, BoundsAssumption
      <4> QED BY <3>2, <4>1, <4>2, BoundsAssumption
    <3> QED BY <3>1, <3>2
  <2>4. run.round * MaxCalls \in Nat /\ new.round * MaxCalls \in Nat
    BY <2>2, BoundsAssumption
  <2>5. Len(run.trace) \in Nat /\ Len(run.pending) \in Nat
    BY ONLY <2>2, LenIsNat, Zenon
  <2>6. Len(new.trace) + Len(new.pending) <= new.round * MaxCalls
    BY <2>1, <2>3, <2>4, <2>5
  <2> QED BY <2>1, <2>6 DEF CallsOK
<1>2. TalkOK(new) /\ TraceOK(new)
  BY DEF RunOK, TalkOK, TraceOK
<1>3. PhaseOK(new)
  BY DEF RunOK, PhaseOK, Early
<1>4. EndOK(new, logged)
  BY DEF EndOK
<1> QED BY <1>1, <1>2, <1>3, <1>4 DEF RunOK

\* Nor does the end of a run change what it has done.
LEMMA ComesToEnd ==
  ASSUME NEW run \in RunState, NEW new \in RunState, NEW logged, RunOK(run, logged),
         run.pc \notin {"tools", "done"}, new.pc = "done",
         new.round = run.round, new.talk = run.talk, new.pending = run.pending,
         new.trace = run.trace, new.cards = run.cards, new.acted = run.acted,
         EndOK(new, logged)
  PROVE  RunOK(new, logged)
BY DEF RunOK, CallsOK, TalkOK, TraceOK, PhaseOK

\* A notice that may end the run.
Says(run, notice, logged) ==
  /\ logged => run.acted \subseteq IF notice.kind = "outcome" THEN notice.receipts ELSE {}
  /\ notice.kind \in {"empty", "no_submit"} => ~ConfirmPending(run.trace)
  /\ notice.kind = "outcome" => ~notice.text \/ ~ConfirmPending(run.trace)
  /\ notice.kind \in {"outcome", "empty", "no_submit"} => logged

LEMMA Notified ==
  ASSUME NEW run \in RunState, NEW new \in RunState, NEW logged, NEW notice \in Notice,
         Says(run, notice, logged),
         new.trace = run.trace, new.acted = run.acted,
         new.notice = notice \/ (new.notice = None /\ new.unheard)
  PROVE  EndOK(new, logged)
BY NoticeAssumption DEF EndOK, Says

\* Before the loop is over, any notice that is not about the loop's outcome.
LEMMA PlainNotice ==
  ASSUME NEW kind \in {"usage", "missing", "dialog", "invite", "failed"}, NEW run
  PROVE  [kind |-> kind] \in Notice /\ Says(run, [kind |-> kind], FALSE)
BY DEF Notice, Says

-------------------------------------------------------------------------------
(* The ways a run goes on and ends. *)

LEMMA NotLogged ==
  ASSUME IInv, NEW r \in Run, runs[r].pc \notin {"post", "done"}
  PROVE  /\ runs[r] \in RunState
         /\ (r \in threadLog) = FALSE
         /\ RunOK(runs[r], FALSE)
<1>1. RunOK(runs[r], r \in threadLog) /\ LoggedOK(r) /\ runs[r] \in RunState
  BY DEF IInv, TypeOK
<1>2. (r \in threadLog) = FALSE
  BY <1>1 DEF LoggedOK
<1> QED BY <1>1, <1>2

LEMMA GotoInv ==
  ASSUME IInv, NEW r \in Run,
         NEW target \in {"dialog", "context", "skill", "prompt", "complete", "log", "failed"},
         Goto(r, target), runs[r].pc \in Early \cup {"complete", "log"},
         target \in Early => runs[r].pc \in Early,
         UNCHANGED <<skill, logs>>
  PROVE  IInv'
<1>1. runs[r].pc \notin {"post", "done", "tools", "log_thread"}
  BY DEF Early
<1> PICK run \in RunState : run = runs[r]
  BY <1>1, NotLogged
<1>2. RunOK(run, FALSE) /\ (r \in threadLog) = FALSE
  BY <1>1, NotLogged
<1> DEFINE new == [run EXCEPT !.pc = target]
<1>3. runs' = [runs EXCEPT ![r] = new]
  BY DEF Goto, IInv, TypeOK
<1>4. /\ new \in RunState /\ new.pc = target /\ new.round = run.round /\ new.talk = run.talk
      /\ new.pending = run.pending /\ new.trace = run.trace /\ new.cards = run.cards
      /\ new.acted = run.acted /\ new.notice = run.notice /\ new.unheard = run.unheard
  BY DEF RunState
<1> HIDE DEF new
<1>5. RunOK(new, FALSE)
  BY <1>1, <1>2, <1>4, GoesOn
<1> QED BY <1>1, <1>2, <1>3, <1>4, <1>5, MoveInv

LEMMA StartsInv ==
  ASSUME IInv, NEW r \in Run, NEW trigger \in Trigger, NEW target \in {"dialog", "context", "skill"},
         Starts(r, trigger, target), runs[r].pc = "new", UNCHANGED <<skill, logs>>
  PROVE  IInv'
<1>1. runs[r].pc \notin {"post", "done", "tools", "log_thread"} /\ runs[r].pc \in Early
  BY DEF Early
<1> PICK run \in RunState : run = runs[r]
  BY <1>1, NotLogged
<1>2. RunOK(run, FALSE) /\ (r \in threadLog) = FALSE
  BY <1>1, NotLogged
<1> DEFINE new == [run EXCEPT !.trigger = trigger, !.pc = target]
<1>3. runs' = [runs EXCEPT ![r] = new]
  BY DEF Starts, IInv, TypeOK
<1>4. /\ new \in RunState /\ new.pc = target /\ new.round = run.round /\ new.talk = run.talk
      /\ new.pending = run.pending /\ new.trace = run.trace /\ new.cards = run.cards
      /\ new.acted = run.acted /\ new.notice = run.notice /\ new.unheard = run.unheard
  BY DEF RunState
<1> HIDE DEF new
<1>5. RunOK(new, FALSE)
  BY <1>1, <1>2, <1>4, GoesOn
<1> QED BY <1>1, <1>2, <1>3, <1>4, <1>5, MoveInv

\* A run that ends on a step of its own that leaves the logs alone.
LEMMA EndInv ==
  ASSUME IInv, NEW r \in Run, NEW new \in RunState, runs' = [runs EXCEPT ![r] = new],
         runs[r].pc \notin {"tools", "done", "log_thread"}, new.pc = "done",
         new.round = runs[r].round, new.talk = runs[r].talk, new.pending = runs[r].pending,
         new.trace = runs[r].trace, new.cards = runs[r].cards, new.acted = runs[r].acted,
         EndOK(new, r \in threadLog), UNCHANGED <<skill, logs>>
  PROVE  IInv'
<1> PICK run \in RunState : run = runs[r]
  BY DEF IInv, TypeOK
<1>1. RunOK(run, r \in threadLog)
  BY DEF IInv
<1>2. RunOK(new, r \in threadLog)
  BY <1>1, ComesToEnd
<1> QED BY <1>2, MoveInv

LEMMA CloseInv ==
  ASSUME IInv, NEW r \in Run, NEW notice \in Notice, Close(r, notice),
         runs[r].pc \notin {"tools", "done", "log_thread"},
         Says(runs[r], notice, r \in threadLog), UNCHANGED <<skill, logs>>
  PROVE  IInv'
<1> PICK run \in RunState : run = runs[r]
  BY DEF IInv, TypeOK
<1>0. PhaseOK(run)
  BY DEF IInv, RunOK
<1> DEFINE told == [run EXCEPT !.pc = "done", !.notice = notice]
           refused == [run EXCEPT !.pc = "done", !.unheard = TRUE]
<1>1. runs' = [runs EXCEPT ![r] = told] \/ runs' = [runs EXCEPT ![r] = refused]
  BY DEF Close, IInv, TypeOK
<1>2. /\ told \in RunState /\ told.pc = "done" /\ told.round = run.round /\ told.talk = run.talk
      /\ told.pending = run.pending /\ told.trace = run.trace /\ told.cards = run.cards
      /\ told.acted = run.acted /\ told.notice = notice
  BY DEF RunState
<1>3. /\ refused \in RunState /\ refused.pc = "done" /\ refused.round = run.round
      /\ refused.talk = run.talk /\ refused.pending = run.pending /\ refused.trace = run.trace
      /\ refused.cards = run.cards /\ refused.acted = run.acted
      /\ refused.notice = None /\ refused.unheard
  BY <1>0 DEF RunState, PhaseOK
<1> HIDE DEF told, refused
<1>4. EndOK(told, r \in threadLog)
  BY <1>2, Notified
<1>5. EndOK(refused, r \in threadLog)
  BY <1>3, Notified
<1>6. CASE runs' = [runs EXCEPT ![r] = told]
  BY <1>2, <1>4, <1>6, EndInv
<1>7. CASE runs' = [runs EXCEPT ![r] = refused]
  BY <1>3, <1>5, <1>7, EndInv
<1> QED BY <1>1, <1>6, <1>7

LEMMA RefuseInv ==
  ASSUME IInv, NEW r \in Run, NEW trigger \in Trigger, NEW notice \in Notice,
         Refuse(r, trigger, notice), runs[r].pc = "new",
         Says(runs[r], notice, FALSE), UNCHANGED <<skill, logs>>
  PROVE  IInv'
<1> PICK run \in RunState : run = runs[r]
  BY DEF IInv, TypeOK
<1>0. PhaseOK(run) /\ (r \in threadLog) = FALSE
  BY NotLogged DEF RunOK
<1> DEFINE told == [run EXCEPT !.trigger = trigger, !.pc = "done", !.notice = notice]
           refused == [run EXCEPT !.trigger = trigger, !.pc = "done", !.unheard = TRUE]
<1>1. runs' = [runs EXCEPT ![r] = told] \/ runs' = [runs EXCEPT ![r] = refused]
  BY DEF Refuse, IInv, TypeOK
<1>2. /\ told \in RunState /\ told.pc = "done" /\ told.round = run.round /\ told.talk = run.talk
      /\ told.pending = run.pending /\ told.trace = run.trace /\ told.cards = run.cards
      /\ told.acted = run.acted /\ told.notice = notice
  BY DEF RunState
<1>3. /\ refused \in RunState /\ refused.pc = "done" /\ refused.round = run.round
      /\ refused.talk = run.talk /\ refused.pending = run.pending /\ refused.trace = run.trace
      /\ refused.cards = run.cards /\ refused.acted = run.acted
      /\ refused.notice = None /\ refused.unheard
  BY <1>0 DEF RunState, PhaseOK
<1> HIDE DEF told, refused
<1>4. EndOK(told, r \in threadLog)
  BY <1>0, <1>2, Notified
<1>5. EndOK(refused, r \in threadLog)
  BY <1>0, <1>3, Notified
<1>6. CASE runs' = [runs EXCEPT ![r] = told]
  BY <1>2, <1>4, <1>6, EndInv
<1>7. CASE runs' = [runs EXCEPT ![r] = refused]
  BY <1>3, <1>5, <1>7, EndInv
<1> QED BY <1>1, <1>6, <1>7

-------------------------------------------------------------------------------
(* The steps up to the loop. *)

LEMMA SlashCommandInv == ASSUME IInv, NEW r \in Run, SlashCommand(r) PROVE IInv'
<1>1. "slash_command" \in Trigger
  BY DEF Trigger
<1>2. CASE Starts(r, "slash_command", "context")
  BY <1>1, <1>2, StartsInv DEF SlashCommand
<1>3. CASE Refuse(r, "slash_command", [kind |-> "usage"])
  BY <1>1, <1>3, RefuseInv, PlainNotice DEF SlashCommand
<1> QED BY <1>2, <1>3 DEF SlashCommand

LEMMA AppMentionInv == ASSUME IInv, NEW r \in Run, AppMention(r) PROVE IInv'
<1>1. "app_mention" \in Trigger
  BY DEF Trigger
<1>2. CASE Starts(r, "app_mention", "skill")
  BY <1>1, <1>2, StartsInv DEF AppMention
<1>3. CASE Refuse(r, "app_mention", [kind |-> "invite"])
  BY <1>1, <1>3, RefuseInv, PlainNotice DEF AppMention
<1> QED BY <1>2, <1>3 DEF AppMention

LEMMA ShortcutInv == ASSUME IInv, NEW r \in Run, Shortcut(r) PROVE IInv'
<1>1. "message_shortcut" \in Trigger
  BY DEF Trigger
<1>2. CASE Starts(r, "message_shortcut", "dialog")
  BY <1>1, <1>2, StartsInv DEF Shortcut
<1>3. ASSUME NEW kind \in {"missing", "invite", "dialog"},
             Refuse(r, "message_shortcut", [kind |-> kind])
      PROVE  IInv'
  BY <1>1, <1>3, RefuseInv, PlainNotice DEF Shortcut
<1> QED BY <1>2, <1>3 DEF Shortcut

LEMMA SubmitDialogInv == ASSUME IInv, NEW r \in Run, SubmitDialog(r) PROVE IInv'
BY GotoInv DEF SubmitDialog, Early

LEMMA CalledInv ==
  ASSUME IInv, NEW r \in Run, NEW trigger \in Trigger, Called(r, trigger) PROVE IInv'
BY StartsInv DEF Called

LEMMA ReadContextInv == ASSUME IInv, NEW r \in Run, ReadContext(r) PROVE IInv'
<1>1. (r \in threadLog) = FALSE /\ runs[r].pc = "context"
  BY NotLogged DEF ReadContext
<1>2. CASE Goto(r, "skill")
  BY <1>1, <1>2, GotoInv DEF ReadContext, Early
<1>3. CASE Close(r, [kind |-> "invite"])
  BY <1>1, <1>3, CloseInv, PlainNotice DEF ReadContext
<1> QED BY <1>2, <1>3 DEF ReadContext

LEMMA LoadSkillInv == ASSUME IInv, NEW r \in Run, LoadSkill(r) PROVE IInv'
<1>1. runs[r].pc = "skill" /\ UNCHANGED <<skill, logs>>
  BY DEF LoadSkill
<1>2. CASE Goto(r, "prompt")
  BY <1>1, <1>2, GotoInv DEF Early
<1>3. CASE Goto(r, "failed")
  BY <1>1, <1>3, GotoInv DEF Early
<1>4. CASE ForcesSkill(runs[r].trigger) /\ Goto(r, "done")
  <2> PICK run \in RunState : run = runs[r]
    BY DEF IInv, TypeOK
  <2>1. RunOK(run, FALSE) /\ (r \in threadLog) = FALSE /\ run.round = 0 /\ run.notice = None
    BY <1>1, NotLogged DEF RunOK, PhaseOK
  <2> DEFINE new == [run EXCEPT !.pc = "done"]
  <2>2. runs' = [runs EXCEPT ![r] = new]
    BY <1>4 DEF Goto, IInv, TypeOK
  <2>3. /\ new \in RunState /\ new.pc = "done" /\ new.round = run.round /\ new.talk = run.talk
        /\ new.pending = run.pending /\ new.trace = run.trace /\ new.cards = run.cards
        /\ new.acted = run.acted /\ new.notice = None /\ new.trigger = run.trigger
    BY <2>1 DEF RunState
  <2> HIDE DEF new
  <2>4. EndOK(new, r \in threadLog)
    BY <1>4, <2>1, <2>3 DEF EndOK
  <2> QED BY <1>1, <2>2, <2>3, <2>4, EndInv
<1> QED BY <1>2, <1>3, <1>4 DEF LoadSkill

LEMMA ComposePromptInv == ASSUME IInv, NEW r \in Run, ComposePrompt(r) PROVE IInv'
BY GotoInv DEF ComposePrompt, Early

-------------------------------------------------------------------------------
(* The loop. *)

\* Calls are numbered on from those before, within the bound on numbers.
LEMMA CallsInBounds ==
  ASSUME NEW round \in Nat, round < MaxRounds, NEW before \in Nat, before <= round * MaxCalls,
         NEW k \in 1..MaxCalls
  PROVE  /\ before + k \in 1..(MaxRounds * MaxCalls)
         /\ before + k <= (round + 1) * MaxCalls
<1>1. (round + 1) * MaxCalls = round * MaxCalls + MaxCalls
  BY BoundsAssumption
<1>2. PICK d \in Nat : MaxRounds = (round + 1) + d
  <2>1. MaxRounds - (round + 1) \in Nat /\ MaxRounds = (round + 1) + (MaxRounds - (round + 1))
    BY BoundsAssumption
  <2> QED BY <2>1
<1>3. MaxRounds * MaxCalls = (round + 1) * MaxCalls + d * MaxCalls
  BY <1>2, BoundsAssumption
<1>4. d * MaxCalls \in Nat /\ round * MaxCalls \in Nat
  BY BoundsAssumption
<1>5. MaxCalls \in Nat
  BY BoundsAssumption
<1> DEFINE rm == round * MaxCalls
           dm == d * MaxCalls
           mm == MaxRounds * MaxCalls
<1>6. mm = rm + MaxCalls + dm /\ before <= rm /\ rm \in Nat /\ dm \in Nat
  BY <1>1, <1>3, <1>4
<1> HIDE DEF rm, dm, mm
<1>7. before + k \in 1..mm /\ before + k <= rm + MaxCalls
  BY <1>5, <1>6
<1> QED BY <1>1, <1>7 DEF rm, mm

LEMMA CompleteWithCallsInv == ASSUME IInv, NEW r \in Run, CompleteWithCalls(r) PROVE IInv'
<1> PICK run \in RunState : run = runs[r]
  BY DEF IInv, TypeOK
<1>1. run.pc = "complete" /\ run.round < MaxRounds /\ UNCHANGED <<skill, logs>>
  BY DEF CompleteWithCalls
<1>2. RunOK(run, FALSE) /\ (r \in threadLog) = FALSE
  BY <1>1, NotLogged
<1>3. PICK calls \in NextCalls(r) :
        runs' = [runs EXCEPT ![r].pc = "tools", ![r].round = @ + 1, ![r].pending = calls,
                   ![r].talk = Append(@, [role |-> "assistant", calls |-> calls])]
  BY DEF CompleteWithCalls
<1>4. run.round \in Nat /\ Len(run.trace) \in Nat /\ run.talk \in Seq(Message)
      /\ run.pending = <<>> /\ Len(run.trace) <= run.round * MaxCalls
  <2>1. run.round \in Nat /\ run.trace \in Seq([call : Call, result : Result])
        /\ run.talk \in Seq(Message)
    BY DEF RunState
  <2>2. Len(run.trace) \in Nat
    BY ONLY <2>1, LenIsNat, Zenon
  <2>3. run.pending = <<>> /\ Len(run.trace) + Len(run.pending) <= run.round * MaxCalls
    BY <1>1, <1>2 DEF RunOK, CallsOK
  <2>4. Len(<<>>) = 0
    OBVIOUS
  <2> QED BY <2>1, <2>2, <2>3, <2>4
<1>5. /\ calls \in Seq(Call) /\ calls # <<>>
      /\ Len(run.trace) + Len(calls) <= (run.round + 1) * MaxCalls
  <2>1. PICK n \in 1..MaxCalls, c \in [1..MaxCalls -> BOOLEAN] :
          calls = [k \in 1..n |-> [id |-> Len(run.trace) + k, confirms |-> c[k]]]
    BY DEF NextCalls
  <2>2. ASSUME NEW k \in 1..n
        PROVE  [id |-> Len(run.trace) + k, confirms |-> c[k]] \in Call
    <3>1. k \in 1..MaxCalls
      BY <2>1, BoundsAssumption
    <3>2. Len(run.trace) + k \in 1..(MaxRounds * MaxCalls)
      BY <3>1, <1>1, <1>4, CallsInBounds
    <3> QED BY <3>1, <3>2 DEF Call
  <2>3. n \in Nat \ {0}
    BY BoundsAssumption
  <2>4. calls \in [1..n -> Call]
    BY <2>1, <2>2
  <2>5. calls \in Seq(Call) /\ Len(calls) = n
    BY ONLY <2>3, <2>4
  <2>6. calls # <<>>
    BY ONLY <2>3, <2>5
  <2>7. Len(run.trace) + n <= (run.round + 1) * MaxCalls
    BY <1>1, <1>4, CallsInBounds
  <2> QED BY <2>5, <2>6, <2>7
<1> PICK talk : talk = Append(run.talk, [role |-> "assistant", calls |-> calls])
  OBVIOUS
<1>6. /\ talk \in Seq(Message) /\ AnsweredOrPending(talk, calls) /\ AnswersBelong(talk)
      /\ PendingBelongs(talk, calls)
  BY <1>2, <1>4, <1>5, TalkAfterCompletion DEF RunOK, TalkOK
<1> PICK round : round = run.round + 1
  OBVIOUS
<1>7. round \in 0..MaxRounds
  BY <1>1, <1>4, BoundsAssumption
<1> DEFINE new == [run EXCEPT !.pc = "tools", !.round = round, !.pending = calls, !.talk = talk]
<1>8. runs' = [runs EXCEPT ![r] = new]
  BY <1>3 DEF IInv, TypeOK
<1>9. /\ new \in RunState /\ new.pc = "tools" /\ new.round = round /\ new.talk = talk
      /\ new.pending = calls /\ new.trace = run.trace /\ new.cards = run.cards
      /\ new.acted = run.acted /\ new.notice = run.notice /\ new.unheard = run.unheard
  BY <1>5, <1>6, <1>7 DEF RunState
<1> HIDE DEF new
<1>10. CallsOK(new) /\ TalkOK(new)
  BY <1>5, <1>6, <1>9 DEF CallsOK, TalkOK
<1>11. TraceOK(new) /\ PhaseOK(new) /\ EndOK(new, FALSE)
  BY <1>1, <1>2, <1>9 DEF RunOK, TraceOK, PhaseOK, EndOK
<1>12. RunOK(new, r \in threadLog)
  BY <1>2, <1>10, <1>11 DEF RunOK
<1> QED BY <1>1, <1>2, <1>8, <1>9, <1>12, MoveInv

LEMMA CompleteWithTextInv == ASSUME IInv, NEW r \in Run, CompleteWithText(r) PROVE IInv'
<1> PICK run \in RunState : run = runs[r]
  BY DEF IInv, TypeOK
<1>1. run.pc = "complete" /\ run.round < MaxRounds /\ UNCHANGED <<skill, logs>>
  BY DEF CompleteWithText
<1>2. RunOK(run, FALSE) /\ (r \in threadLog) = FALSE
  BY <1>1, NotLogged
<1>3. PICK text \in BOOLEAN :
        runs' = [runs EXCEPT ![r].pc = "log", ![r].round = @ + 1, ![r].text = text]
  BY DEF CompleteWithText
<1> PICK round : round = run.round + 1
  OBVIOUS
<1>4. round \in 0..MaxRounds
  BY <1>1, BoundsAssumption DEF RunState
<1> DEFINE new == [run EXCEPT !.pc = "log", !.round = round, !.text = text]
<1>5. runs' = [runs EXCEPT ![r] = new]
  BY <1>3 DEF IInv, TypeOK
<1>6. /\ new \in RunState /\ new.pc = "log" /\ new.round = round /\ new.talk = run.talk
      /\ new.pending = run.pending /\ new.trace = run.trace /\ new.cards = run.cards
      /\ new.acted = run.acted /\ new.notice = run.notice /\ new.unheard = run.unheard
  BY <1>4 DEF RunState
<1> HIDE DEF new
<1>7. RunOK(new, r \in threadLog)
  BY <1>1, <1>2, <1>6, GoesOn DEF Early
<1> QED BY <1>1, <1>2, <1>5, <1>6, <1>7, MoveInv

LEMMA CompletionFailsInv == ASSUME IInv, NEW r \in Run, CompletionFails(r) PROVE IInv'
BY GotoInv DEF CompletionFails, Early

LEMMA RoundsUsedUpInv == ASSUME IInv, NEW r \in Run, RoundsUsedUp(r) PROVE IInv'
BY GotoInv DEF RoundsUsedUp, Early

\* One call less is pending, one more is in the trace.
LEMMA MovedOver ==
  ASSUME NEW a \in Nat, NEW b \in Nat \ {0}
  PROVE  (a + 1) + (b - 1) = a + b
OBVIOUS

Traced == [call : Call, result : Result]

\* What a trace reports are calls; a longer trace reports what it did before.
LEMMA ReportsAreCalls ==
  ASSUME NEW trace \in Seq(Traced)
  PROVE  Receipts(trace) \subseteq Call /\ ErrorsOf(trace) \subseteq Call
<1>1. \A i \in DOMAIN trace : trace[i] \in Traced
  OBVIOUS
<1> QED BY <1>1 DEF Receipts, ErrorsOf, Traced

LEMMA ReceiptsGrow ==
  ASSUME NEW trace \in Seq(Traced), NEW e \in Traced
  PROVE  \E longer \in Seq(Traced) :
           /\ longer = Append(trace, e)
           /\ Len(longer) = Len(trace) + 1
           /\ DOMAIN longer = DOMAIN trace \cup {Len(trace) + 1}
           /\ \A i \in DOMAIN trace : longer[i] = trace[i]
           /\ longer[Len(trace) + 1] = e
           /\ Receipts(trace) \subseteq Receipts(longer)
           /\ ~e.call.confirms => e.call \in Receipts(longer)
<1> DEFINE longer == Append(trace, e)
<1>1. /\ longer \in Seq(Traced) /\ Len(longer) = Len(trace) + 1
      /\ DOMAIN longer = 1..Len(trace) + 1 /\ DOMAIN trace = 1..Len(trace) /\ Len(trace) \in Nat
      /\ longer[Len(trace) + 1] = e /\ \A i \in DOMAIN trace : longer[i] = trace[i]
  BY AppendFacts
<1>2. longer = Append(trace, e)
  OBVIOUS
<1> HIDE DEF longer
<1>3. DOMAIN longer = DOMAIN trace \cup {Len(trace) + 1}
  BY ONLY <1>1
<1>4. Receipts(trace) \subseteq Receipts(longer)
  BY ONLY <1>1, <1>3 DEF Receipts
<1>5. ~e.call.confirms => e.call \in Receipts(longer)
  BY ONLY <1>1, <1>3 DEF Receipts
<1> QED BY <1>1, <1>2, <1>3, <1>4, <1>5

LEMMA RunToolInv == ASSUME IInv, NEW r \in Run, RunTool(r) PROVE IInv'
<1> PICK run \in RunState : run = runs[r]
  BY DEF IInv, TypeOK
<1>1. run.pc = "tools" /\ UNCHANGED <<skill, logs>>
  BY DEF RunTool
<1>2. RunOK(run, FALSE) /\ (r \in threadLog) = FALSE
  BY <1>1, NotLogged
<1>3. /\ run.pending # <<>> /\ run.pending \in Seq(Call) /\ run.talk \in Seq(Message)
      /\ run.trace \in Seq(Traced)
  BY <1>1, <1>2 DEF RunOK, CallsOK, RunState, Traced
<1>4. PICK call \in Call : call = Head(run.pending)
  BY <1>3, TailFacts
<1>5. PICK rest \in Seq(Call) : rest = Tail(run.pending)
  BY <1>3, TailFacts
<1>6. PICK out \in Outcome(call) : Answered(r, out, ToolMessage(call))
  BY <1>4 DEF RunTool
<1>7. /\ out[1] \in Result
      /\ out[2] \in SUBSET {call} /\ out[3] \in SUBSET {call}
      /\ out[3] # {} => ~call.confirms
      /\ out[1] = "shown" => call.confirms /\ call \in out[2]
  <2>1. call.confirms \in BOOLEAN
    BY DEF Call
  <2> QED BY <2>1 DEF Outcome, Result
<1>8. PICK e \in Traced : e = [call |-> call, result |-> out[1]]
  BY <1>7 DEF Traced
<1>9. e.call = call /\ e.result = out[1]
  BY <1>8
<1>10. PICK talk : talk = run.talk \o ToolMessage(call)
  OBVIOUS
<1>11. PICK trace \in Seq(Traced) :
         /\ trace = Append(run.trace, e)
         /\ Len(trace) = Len(run.trace) + 1
         /\ DOMAIN trace = DOMAIN run.trace \cup {Len(run.trace) + 1}
         /\ \A i \in DOMAIN run.trace : trace[i] = run.trace[i]
         /\ trace[Len(run.trace) + 1] = e
         /\ Receipts(run.trace) \subseteq Receipts(trace)
         /\ ~e.call.confirms => e.call \in Receipts(trace)
  <2>1. run.trace \in Seq(Traced)
    BY <1>3
  <2> QED BY ONLY <2>1, e \in Traced, ReceiptsGrow, Zenon
<1>12. PICK pc \in {"complete", "tools"} :
         pc = IF Len(run.pending) = 1 THEN "complete" ELSE "tools"
  OBVIOUS
<1>13. PICK cards \in SUBSET Call : cards = run.cards \cup out[2]
  BY <1>7 DEF RunState
<1>14. PICK acted \in SUBSET Call : acted = run.acted \cup out[3]
  BY <1>7 DEF RunState
<1> DEFINE new == [run EXCEPT !.pc = pc, !.pending = rest, !.trace = trace, !.cards = cards,
                     !.acted = acted, !.talk = talk]
<1>15. runs' = [runs EXCEPT ![r] = new]
  BY <1>4, <1>5, <1>6, <1>8, <1>10, <1>11, <1>12, <1>13, <1>14 DEF Answered, IInv, TypeOK
<1>16. /\ talk \in Seq(Message) /\ AnsweredOrPending(talk, rest) /\ AnswersBelong(talk)
       /\ PendingBelongs(talk, rest)
  BY <1>2, <1>3, <1>4, <1>5, <1>10, TalkAfterAnswer DEF RunOK, TalkOK
<1>17. /\ trace \in Seq(Traced) /\ Len(trace) = Len(run.trace) + 1
       /\ DOMAIN trace = DOMAIN run.trace \cup {Len(run.trace) + 1}
       /\ \A i \in DOMAIN run.trace : trace[i] = run.trace[i]
       /\ trace[Len(run.trace) + 1] = e
       /\ Receipts(run.trace) \subseteq Receipts(trace)
       /\ ~call.confirms => call \in Receipts(trace)
  BY <1>9, <1>11
<1>18. /\ new \in RunState /\ new.pc = pc /\ new.round = run.round /\ new.talk = talk
       /\ new.pending = rest /\ new.trace = trace /\ new.cards = cards
       /\ new.acted = acted /\ new.notice = run.notice /\ new.unheard = run.unheard
  BY <1>16, <1>17 DEF RunState, Traced
<1> HIDE DEF new
<1>19. CallsOK(new)
  <2>1. /\ Len(rest) = Len(run.pending) - 1 /\ Len(run.pending) \in Nat \ {0}
    BY <1>3, <1>5, TailFacts
  <2>2. rest # <<>> <=> Len(rest) # 0
    BY ONLY rest \in Seq(Call)
  <2>3. pc = "tools" <=> rest # <<>>
    BY ONLY <2>1, <2>2, <1>12
  <2>4. Len(run.trace) \in Nat
    BY ONLY <1>3, LenIsNat, Zenon
  <2>5. Len(trace) + Len(rest) = Len(run.trace) + Len(run.pending)
    <3>1. Len(trace) = Len(run.trace) + 1
      BY <1>17
    <3> QED BY ONLY <3>1, <2>1, <2>4, MovedOver
  <2>6. Len(run.trace) + Len(run.pending) <= run.round * MaxCalls
    BY <1>2 DEF RunOK, CallsOK
  <2> QED BY <2>3, <2>5, <2>6, <1>18 DEF CallsOK
<1>20. TalkOK(new)
  BY <1>16, <1>18 DEF TalkOK
<1>21. TraceOK(new)
  <2>1. TraceOK(run)
    BY <1>2 DEF RunOK
  <2>2. acted \subseteq Receipts(trace)
    BY <2>1, <1>7, <1>14, <1>17 DEF TraceOK
  <2>3. ASSUME NEW i \in DOMAIN trace, trace[i].result = "shown"
        PROVE  trace[i].call.confirms /\ trace[i].call \in cards
    <3>1. CASE i \in DOMAIN run.trace
      BY <2>1, <2>3, <3>1, <1>13, <1>17 DEF TraceOK
    <3>2. CASE i = Len(run.trace) + 1
      BY <2>3, <3>2, <1>7, <1>9, <1>13, <1>17
    <3> QED BY <3>1, <3>2, <1>17
  <2> QED BY <2>2, <2>3, <1>18 DEF TraceOK
<1>22. PhaseOK(new) /\ EndOK(new, FALSE)
  BY <1>1, <1>2, <1>18 DEF RunOK, PhaseOK, EndOK
<1>23. RunOK(new, r \in threadLog)
  BY <1>2, <1>19, <1>20, <1>21, <1>22 DEF RunOK
<1> QED BY <1>1, <1>2, <1>15, <1>18, <1>23, MoveInv

-------------------------------------------------------------------------------
(* The log, and what the user is told. *)

\* The lines in the logs, one after the other, under the lock.
LEMMA LogGlobalInv == ASSUME IInv, NEW r \in Run, LogGlobal(r) PROVE IInv'
<1> PICK run \in RunState : run = runs[r]
  BY DEF IInv, TypeOK
<1>1. run.pc = "log" /\ writer[ProcessOf(run)] = None /\ UNCHANGED <<skill, threadLog>>
  BY DEF LogGlobal
<1>2. RunOK(run, FALSE) /\ (r \in threadLog) = FALSE
  BY <1>1, NotLogged
<1>3. CASE Goto(r, "failed") /\ UNCHANGED <<globalLog, writer>>
  BY <1>1, <1>3, GotoInv DEF Early, logs
<1>4. CASE /\ Goto(r, "log_thread")
           /\ globalLog' = globalLog \cup {r}
           /\ writer' = [writer EXCEPT ![ProcessOf(runs[r])] = r]
  <2> DEFINE new == [run EXCEPT !.pc = "log_thread"]
  <2>0. /\ TypeOK /\ runs \in [Run -> RunState] /\ writer \in [Process -> Run \cup {None}]
        /\ UNCHANGED <<installed, edits, threadLog>>
    BY <1>1 DEF IInv, TypeOK, skill
  <2>1. runs' = [runs EXCEPT ![r] = new]
    BY <1>4, <2>0 DEF Goto
  <2>2. /\ new \in RunState /\ new.pc = "log_thread" /\ new.trigger = run.trigger
        /\ new.round = run.round /\ new.talk = run.talk
        /\ new.pending = run.pending /\ new.trace = run.trace /\ new.cards = run.cards
        /\ new.acted = run.acted /\ new.notice = run.notice /\ new.unheard = run.unheard
    BY DEF RunState
  <2> HIDE DEF new
  <2>3. RunOK(new, FALSE)
    BY <1>1, <1>2, <2>2, GoesOn DEF Early
  <2>4. ProcessOf(new) = ProcessOf(run) /\ ProcessOf(run) \in Process
    BY <2>2 DEF ProcessOf, Process
  <2>5. ASSUME NEW q \in Run, NEW p \in Process
        PROVE  writer'[p] = q <=> runs'[q].pc = "log_thread" /\ ProcessOf(runs'[q]) = p
    <3>1. writer[p] = q <=> runs[q].pc = "log_thread" /\ ProcessOf(runs[q]) = p
      BY <2>0 DEF TypeOK
    <3>2. CASE q = r
      <4>1. runs'[q] = new
        BY <3>2, <2>0, <2>1
      <4>2. writer[p] # r
        BY <1>1, <3>1, <3>2
      <4>3. writer'[p] = r <=> p = ProcessOf(run)
        BY <1>4, <2>0, <4>2
      <4> QED BY <3>2, <4>1, <4>3, <2>2, <2>4
    <3>3. CASE q # r
      <4>1. runs'[q] = runs[q]
        BY <3>3, <2>0, <2>1
      <4>2. writer'[p] = q <=> writer[p] = q
        <5>1. CASE p = ProcessOf(run)
          BY <5>1, <1>1, <1>4, <2>0, <3>3, NoneAssumption
        <5>2. CASE p # ProcessOf(run)
          BY <5>2, <1>4, <2>0
        <5> QED BY <5>1, <5>2
      <4> QED BY <3>1, <4>1, <4>2
    <3> QED BY <3>2, <3>3
  <2>6. runs' \in [Run -> RunState] /\ writer' \in [Process -> Run \cup {None}]
    BY <1>4, <2>0, <2>1, <2>2
  <2>7. TypeOK'
    BY <1>4, <2>0, <2>5, <2>6 DEF TypeOK, ProcessOf
  <2>8. ASSUME NEW q \in Run PROVE RunOK(runs'[q], q \in threadLog') /\ LoggedOK(q)'
    <3>1. RunOK(runs[q], q \in threadLog) /\ LoggedOK(q)
      BY DEF IInv
    <3>2. CASE q = r
      <4>1. runs'[q] = new
        BY <3>2, <2>0, <2>1
      <4> QED BY <1>2, <1>4, <2>0, <2>2, <2>3, <3>2, <4>1 DEF LoggedOK
    <3>3. CASE q # r
      <4>1. runs'[q] = runs[q]
        BY <3>3, <2>0, <2>1
      <4> QED BY <1>4, <2>0, <3>1, <4>1 DEF LoggedOK
    <3> QED BY <3>2, <3>3
  <2> QED BY <2>7, <2>8 DEF IInv
<1> QED BY <1>3, <1>4 DEF LogGlobal

LEMMA LogThreadInv == ASSUME IInv, NEW r \in Run, LogThread(r) PROVE IInv'
<1> PICK run \in RunState : run = runs[r]
  BY DEF IInv, TypeOK
<1>1. /\ run.pc = "log_thread" /\ UNCHANGED <<skill, globalLog>>
      /\ writer' = [writer EXCEPT ![ProcessOf(run)] = None]
  BY DEF LogThread
<1>2. /\ RunOK(run, FALSE) /\ (r \in threadLog) = FALSE /\ LoggedOK(r) /\ r \in globalLog
  BY <1>1, NotLogged DEF IInv, LoggedOK
<1>3. /\ TypeOK /\ runs \in [Run -> RunState] /\ writer \in [Process -> Run \cup {None}]
      /\ UNCHANGED <<installed, edits>>
  BY <1>1 DEF IInv, TypeOK, skill
<1>4. PICK pc \in {"post", "failed"} :
        /\ Goto(r, pc)
        /\ threadLog' = IF pc = "post" THEN threadLog \cup {r} ELSE threadLog
  BY DEF LogThread
<1> DEFINE new == [run EXCEPT !.pc = pc]
<1>5. runs' = [runs EXCEPT ![r] = new]
  BY <1>3, <1>4 DEF Goto
<1>6. /\ new \in RunState /\ new.pc = pc /\ new.round = run.round /\ new.talk = run.talk
      /\ new.pending = run.pending /\ new.trace = run.trace /\ new.cards = run.cards
      /\ new.acted = run.acted /\ new.notice = run.notice /\ new.unheard = run.unheard
  BY DEF RunState
<1> HIDE DEF new
<1>7. RunOK(new, r \in threadLog')
  <2>1. EndOK(run, r \in threadLog')
    BY <1>1 DEF EndOK
  <2>2. RunOK(run, r \in threadLog')
    BY <1>2, <2>1 DEF RunOK
  <2> QED BY <1>1, <2>2, <1>6, GoesOn DEF Early
<1>8. ASSUME NEW q \in Run, NEW p \in Process
      PROVE  writer'[p] = q <=> runs'[q].pc = "log_thread" /\ ProcessOf(runs'[q]) = p
  <2>1. writer[p] = q <=> runs[q].pc = "log_thread" /\ ProcessOf(runs[q]) = p
    BY <1>3 DEF TypeOK
  <2>2. writer[p] = r <=> p = ProcessOf(run)
    BY <1>1, <1>3 DEF TypeOK
  <2>3. CASE q = r
    <3>1. runs'[q] = new /\ writer'[p] # r
      BY <2>2, <2>3, <1>1, <1>3, <1>5, NoneAssumption
    <3> QED BY <2>3, <3>1, <1>6
  <2>4. CASE q # r
    <3>1. runs'[q] = runs[q]
      BY <2>4, <1>3, <1>5
    <3>2. writer'[p] = q <=> writer[p] = q
      <4>1. CASE p = ProcessOf(run)
        BY <4>1, <2>2, <2>4, <1>1, <1>3, NoneAssumption
      <4>2. CASE p # ProcessOf(run)
        BY <4>2, <1>1, <1>3
      <4> QED BY <4>1, <4>2
    <3> QED BY <2>1, <3>1, <3>2
  <2> QED BY <2>3, <2>4
<1>9. runs' \in [Run -> RunState] /\ writer' \in [Process -> Run \cup {None}]
  BY <1>1, <1>3, <1>5, <1>6
<1>10. threadLog' \subseteq globalLog'
  BY <1>1, <1>2, <1>3, <1>4 DEF TypeOK
<1>11. TypeOK'
  BY <1>1, <1>3, <1>8, <1>9, <1>10 DEF TypeOK, ProcessOf
<1>12. ASSUME NEW q \in Run PROVE RunOK(runs'[q], q \in threadLog') /\ LoggedOK(q)'
  <2>1. RunOK(runs[q], q \in threadLog) /\ LoggedOK(q)
    BY DEF IInv
  <2>2. CASE q = r
    <3>1. runs'[q] = new /\ (q \in threadLog' <=> pc = "post")
      BY <2>2, <1>2, <1>3, <1>4, <1>5
    <3> QED BY <1>6, <1>7, <2>2, <3>1 DEF LoggedOK
  <2>3. CASE q # r
    <3>1. runs'[q] = runs[q] /\ (q \in threadLog') = (q \in threadLog)
      BY <2>3, <1>3, <1>4, <1>5
    <3> QED BY <1>1, <2>1, <3>1 DEF LoggedOK
  <2> QED BY <2>2, <2>3
<1> QED BY <1>11, <1>12 DEF IInv

LEMMA PostOutcomeInv == ASSUME IInv, NEW r \in Run, PostOutcome(r) PROVE IInv'
<1> PICK run \in RunState : run = runs[r]
  BY DEF IInv, TypeOK
<1>1. run.pc = "post" /\ UNCHANGED <<skill, logs>>
  BY DEF PostOutcome
<1>2. RunOK(run, r \in threadLog) /\ r \in threadLog
  BY <1>1 DEF IInv, LoggedOK
<1>3. run.acted \subseteq Receipts(run.trace) /\ run.notice = None
  BY <1>1, <1>2 DEF RunOK, TraceOK, PhaseOK
<1>4. run.trace \in Seq(Traced)
  BY DEF RunState, Traced
<1>5. PICK text \in BOOLEAN : text = (Draft(run) /\ ~ConfirmPending(run.trace))
  OBVIOUS
<1>6. text => ~ConfirmPending(run.trace)
  BY <1>5
<1>7. PICK outcome \in Notice : outcome = OutcomeOf(run)
  <2>1. OutcomeOf(run) = [kind |-> "outcome", text |-> text, receipts |-> Receipts(run.trace),
                          errors |-> ErrorsOf(run.trace)]
    BY <1>5 DEF OutcomeOf
  <2>2. Receipts(run.trace) \subseteq Call /\ ErrorsOf(run.trace) \subseteq Call
    BY <1>4, ReportsAreCalls
  <2> QED BY <2>1, <2>2 DEF Notice
<1>8. /\ outcome.kind = "outcome" /\ outcome.receipts = Receipts(run.trace)
      /\ outcome.text => ~ConfirmPending(run.trace)
  BY <1>5, <1>6, <1>7 DEF OutcomeOf
<1>9. CASE HasBody(outcome) /\ Close(r, outcome)
  <2>1. Says(run, outcome, r \in threadLog)
    BY <1>2, <1>3, <1>8 DEF Says
  <2> QED BY <1>1, <1>9, <2>1, CloseInv
<1>10. CASE ~HasBody(outcome) /\ ConfirmPending(run.trace) /\ Goto(r, "done")
  <2>1. run.acted = {}
    BY <1>3, <1>8, <1>10 DEF HasBody
  <2>2. run.cards # {}
    BY <1>2, <1>10 DEF RunOK, TraceOK, ConfirmPending
  <2> DEFINE new == [run EXCEPT !.pc = "done"]
  <2>3. runs' = [runs EXCEPT ![r] = new]
    BY <1>10 DEF Goto, IInv, TypeOK
  <2>4. /\ new \in RunState /\ new.pc = "done" /\ new.round = run.round /\ new.talk = run.talk
        /\ new.pending = run.pending /\ new.trace = run.trace /\ new.cards = run.cards
        /\ new.acted = run.acted /\ new.notice = None
    BY <1>3 DEF RunState
  <2> HIDE DEF new
  <2>5. EndOK(new, r \in threadLog)
    BY <2>1, <2>2, <2>4 DEF EndOK
  <2> QED BY <1>1, <2>3, <2>4, <2>5, EndInv
<1>11. ASSUME NEW kind \in {"empty", "no_submit"}, ~HasBody(outcome),
              ~ConfirmPending(run.trace), Close(r, [kind |-> kind])
       PROVE  IInv'
  <2>1. run.acted = {}
    BY <1>3, <1>8, <1>11 DEF HasBody
  <2>2. PICK notice \in Notice : notice = [kind |-> kind]
    BY DEF Notice
  <2>3. Says(run, notice, r \in threadLog)
    BY <1>2, <1>11, <2>1, <2>2 DEF Says
  <2> QED BY <1>1, <1>11, <2>2, <2>3, CloseInv
<1> QED BY <1>7, <1>9, <1>10, <1>11 DEF PostOutcome

LEMMA PostFailureInv == ASSUME IInv, NEW r \in Run, PostFailure(r) PROVE IInv'
<1>1. (r \in threadLog) = FALSE /\ runs[r].pc = "failed"
  BY NotLogged DEF PostFailure
<1> QED BY <1>1, CloseInv, PlainNotice DEF PostFailure

-------------------------------------------------------------------------------
(* Every step keeps the invariant. *)

LEMMA EditSkillInv == ASSUME IInv, EditSkill PROVE IInv'
<1>1. installed' \in BOOLEAN /\ edits' \in 0..MaxEdits
  BY BoundsAssumption DEF EditSkill, IInv, TypeOK
<1>2. UNCHANGED <<runs, globalLog, threadLog, writer>>
  BY DEF EditSkill, logs
<1>3. TypeOK'
  BY <1>1, <1>2 DEF IInv, TypeOK, ProcessOf
<1>4. \A r \in Run : RunOK(runs'[r], r \in threadLog') /\ LoggedOK(r)'
  BY <1>2 DEF IInv, LoggedOK
<1> QED BY <1>3, <1>4 DEF IInv

LEMMA NextInv == IInv /\ [Next]_vars => IInv'
<1> SUFFICES ASSUME IInv, [Next]_vars PROVE IInv'
  OBVIOUS
<1>1. CASE UNCHANGED vars
  <2>1. UNCHANGED <<runs, installed, globalLog, threadLog, writer, edits>>
    BY <1>1 DEF vars
  <2>2. TypeOK'
    BY <2>1 DEF IInv, TypeOK, ProcessOf
  <2>3. \A r \in Run : RunOK(runs'[r], r \in threadLog') /\ LoggedOK(r)'
    BY <2>1 DEF IInv, LoggedOK
  <2> QED BY <2>2, <2>3 DEF IInv
<1>2. CASE EditSkill
  BY <1>2, EditSkillInv
<1>3. ASSUME NEW r \in Run, Ask(r) PROVE IInv'
  BY <1>3, SlashCommandInv, AppMentionInv, ShortcutInv, SubmitDialogInv, CalledInv, Zenon DEF Ask
<1>4. ASSUME NEW r \in Run, Advance(r) PROVE IInv'
  BY <1>4, ReadContextInv, LoadSkillInv, ComposePromptInv, CompleteWithCallsInv,
     CompleteWithTextInv, CompletionFailsInv, RoundsUsedUpInv, RunToolInv, LogGlobalInv,
     LogThreadInv, PostOutcomeInv, PostFailureInv, Zenon DEF Advance
<1> QED BY <1>1, <1>2, <1>3, <1>4 DEF Next

-------------------------------------------------------------------------------
(* The theorems. *)

\* The variables hold the kinds of values the code keeps in them; the log's lock
\* of a process is held by its run between two lines, and only by it.
THEOREM TypeCorrect == Spec => []TypeOK
<1>1. IInv => TypeOK
  BY DEF IInv
<1> QED BY <1>1, InitInv, NextInv, PTL DEF Spec

\* Whatever the LLM asks for and whichever handlers fail, the conversation sent
\* for a completion answers each call of each assistant message, in order, and
\* answers nothing else.
THEOREM ConversationIsWellFormed == Spec => []ConversationWellFormed
<1>1. IInv => ConversationWellFormed
  <2> SUFFICES ASSUME IInv, NEW r \in Run, runs[r].pc = "complete"
               PROVE  LET talk == runs[r].talk
                      IN  /\ \A i \in DOMAIN talk : talk[i].role = "assistant" =>
                               \A k \in DOMAIN talk[i].calls :
                                 /\ i + k \in DOMAIN talk
                                 /\ talk[i + k] = [role |-> "tool", call |-> talk[i].calls[k]]
                          /\ \A j \in DOMAIN talk : talk[j].role = "tool" =>
                               \E i \in 1..(j - 1) :
                                 /\ talk[i].role = "assistant"
                                 /\ j - i \in DOMAIN talk[i].calls
    BY DEF ConversationWellFormed
  <2>1. PICK talk \in Seq(Message) : talk = runs[r].talk
    BY DEF IInv, TypeOK, RunState
  <2>2. AnsweredOrPending(talk, <<>>) /\ AnswersBelong(talk)
    BY <2>1 DEF IInv, RunOK, CallsOK, TalkOK
  <2>3. ASSUME NEW i \in DOMAIN talk, talk[i].role = "assistant",
               NEW k \in DOMAIN talk[i].calls
        PROVE  i + k \in DOMAIN talk /\ talk[i + k] = [role |-> "tool", call |-> talk[i].calls[k]]
    BY <2>2, <2>3, NoneIsPending
  <2> QED BY <2>1, <2>2, <2>3 DEF AnswersBelong
<1> QED BY <1>1, InitInv, NextInv, PTL DEF Spec

\* A run that ends with its outcome names every action a tool carried out without
\* a confirmation, in any round, failed handlers and pending cards included.
THEOREM ActionsReachTheUser == Spec => []ActionsAreReported
<1>1. IInv => ActionsAreReported
  BY DEF IInv, RunOK, EndOK, ActionsAreReported
<1> QED BY <1>1, InitInv, NextInv, PTL DEF Spec

\* Whichever of its calls showed a card, a run does not tell its user that it came
\* to nothing, and shows no text of the assistant beside the card.
THEOREM CardsHaveTheWord == Spec => []CardsAreNotDenied
<1>1. IInv => CardsAreNotDenied
  <2> SUFFICES ASSUME IInv, NEW r \in Run, runs[r].notice # None,
                      runs[r].cards \cap
                        {runs[r].trace[i].call :
                          i \in {k \in DOMAIN runs[r].trace : runs[r].trace[k].result = "shown"}} # {}
               PROVE  /\ runs[r].notice.kind \notin {"empty", "no_submit"}
                      /\ runs[r].notice.kind = "outcome" => ~runs[r].notice.text
    BY DEF CardsAreNotDenied
  <2>1. RunOK(runs[r], r \in threadLog)
    BY DEF IInv
  <2>2. ConfirmPending(runs[r].trace)
    BY <2>1 DEF RunOK, TraceOK, ConfirmPending
  <2>3. runs[r].pc = "done"
    BY <2>1 DEF RunOK, PhaseOK
  <2> QED BY <2>1, <2>2, <2>3 DEF RunOK, EndOK
<1> QED BY <1>1, InitInv, NextInv, PTL DEF Spec

\* A run ends in silence only if Slack refused its notice, or its forced skill was
\* removed before anything was done.
THEOREM SilenceHasAReason == Spec => []NeverSilent
<1>1. IInv => NeverSilent
  BY DEF IInv, RunOK, EndOK, NeverSilent
<1> QED BY <1>1, InitInv, NextInv, PTL DEF Spec

\* What a user hears as the outcome is in both logs by then.
THEOREM LogsComeFirst == Spec => []OutcomesAreLogged
<1>1. IInv => OutcomesAreLogged
  <2> SUFFICES ASSUME IInv, NEW r \in Run, runs[r].notice # None,
                      runs[r].notice.kind \in {"outcome", "empty", "no_submit"}
               PROVE  r \in globalLog \cap threadLog
    BY DEF OutcomesAreLogged
  <2>1. RunOK(runs[r], r \in threadLog)
    BY DEF IInv
  <2>2. runs[r].pc = "done"
    BY <2>1 DEF RunOK, PhaseOK
  <2>3. r \in threadLog
    BY <2>1, <2>2 DEF RunOK, EndOK
  <2> QED BY <2>3 DEF IInv, TypeOK
<1> QED BY <1>1, InitInv, NextInv, PTL DEF Spec
===============================================================================
