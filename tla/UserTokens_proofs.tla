--------------------------- MODULE UserTokens_proofs ---------------------------
(***************************************************************************)
(* Saves are fresh and members are not told of tokens they do not have:    *)
(* for any members, visits, reads, times, failures and restarts.           *)
(***************************************************************************)
EXTENDS UserTokensProps, TLAPS

Types ==
  /\ now \in 0..MaxNow
  /\ states \in [Attempt -> Nat \cup {None}]
  /\ attempts \in [Attempt -> AttemptInfo]
  /\ server \in Server
  /\ tokens \in Nat
  /\ file \in [Member -> Nat]
  /\ connected \in [Member -> Nat]
  /\ owner \in Member \cup {None, Nobody}
  /\ readers \in [Reader -> ReaderInfo]
  /\ failures \in 0..MaxFailures
  /\ restarts \in 0..MaxRestarts

\* What is known of a visit whose state the server holds, and of any other: a
\* state that was used is not held, and there is no save without a use.
VisitOK(state, attempt) ==
  /\ state # None => state = attempt.issued /\ attempt.used = None
  /\ attempt.issued = None => attempt.used = None
  /\ attempt.used = None => attempt.saves = 0
  /\ attempt.used # None => attempt.used - attempt.issued <= StateTtl
  /\ attempt.saves <= 1

\* The server is idle, or handles a callback whose state it took; until it has
\* put the file in place the visit has no save.
ServerOK ==
  \/ server = Idle
  \/ /\ server.pc # "idle"
     /\ server.attempt \in Attempt
     /\ server.member \in Member
     /\ states[server.attempt] = None
     /\ attempts[server.attempt].used # None
     /\ server.pc # "reply" => attempts[server.attempt].saves = 0

VisitsOK == (\A a \in Attempt : VisitOK(states[a], attempts[a])) /\ ServerOK

\* The token in the server's hands is the last one given out, so files only get
\* newer ones; a member is told of a token after it is in the file.
FilesOK ==
  /\ server.pc \in {"write", "replace", "reply"} => server.token = tokens
  /\ server.pc = "reply" => file[server.member] = server.token
  /\ \A m \in Member : connected[m] <= file[m] /\ file[m] <= tokens

\* A read that was told of a token finds a file, and never asks for the owner.
ReaderOK(reader) ==
  /\ reader.pc \in {"read", "auth"} => reader.member \in Member
  /\ reader.pc = "read" => reader.since <= file[reader.member]
  /\ reader.pc = "auth" => reader.since = 0
  /\ reader.pc = "done" => reader.since = 0 \/ reader.got >= reader.since

ReadersOK == \A r \in Reader : ReaderOK(readers[r])

IInv == Types /\ VisitsOK /\ FilesOK /\ ReadersOK

-------------------------------------------------------------------------------
\* Initially nobody has come, and there is no token.
LEMMA InitInv == Init => IInv
<1> SUFFICES ASSUME Init PROVE IInv
  OBVIOUS
<1>1. Types
  <2>1. attempts \in [Attempt -> AttemptInfo] /\ server \in Server
    BY DEF Init, AttemptInfo, Page, Server, Idle
  <2>2. readers \in [Reader -> ReaderInfo]
    BY DEF Init, ReaderInfo
  <2>3. now \in 0..MaxNow /\ failures \in 0..MaxFailures /\ restarts \in 0..MaxRestarts
    BY BoundsAssumption DEF Init
  <2> QED
    BY <2>1, <2>2, <2>3 DEF Init, Types
<1>2. VisitsOK
  BY DEF Init, VisitsOK, VisitOK, ServerOK
<1>3. FilesOK
  BY DEF Init, FilesOK, Idle
<1>4. ReadersOK
  BY DEF Init, ReadersOK, ReaderOK
<1> QED
  BY <1>1, <1>2, <1>3, <1>4 DEF IInv

\* Every step keeps the types.
LEMMA NextTypes == IInv /\ [Next]_vars => Types'
<1> SUFFICES ASSUME IInv, [Next]_vars PROVE Types'
  OBVIOUS
<1> USE DEF IInv, Types
<1>a. ASSUME NEW a \in Attempt, NEW page \in Page, Show(a, page)
      PROVE  attempts' \in [Attempt -> AttemptInfo]
  BY <1>a DEF Show, AttemptInfo
<1>b. Idle \in Server /\ now \in Nat
  BY BoundsAssumption DEF Idle, Server
<1>c. ASSUME MayFail PROVE failures' \in 0..MaxFailures
  BY <1>c, BoundsAssumption DEF MayFail
<1>d. {"refused", "failed", "broken", "connected"} \subseteq Page
  BY DEF Page
<1>e. Purged \in [Attempt -> Nat \cup {None}]
  BY DEF Purged
<1>1. ASSUME Tick PROVE Types'
  BY <1>1, BoundsAssumption DEF Tick, web, bot, bounds
<1>2. ASSUME NEW a \in Attempt, Visit(a) PROVE Types'
  <2>1. attempts' \in [Attempt -> AttemptInfo]
    BY <1>2, <1>b DEF Visit, AttemptInfo
  <2>2. states' \in [Attempt -> Nat \cup {None}]
    BY <1>2, <1>b, <1>e DEF Visit
  <2> QED
    BY <1>2, <2>1, <2>2 DEF Visit, bot, bounds
<1>3. ASSUME NEW a \in Attempt, CallbackError(a) PROVE Types'
  BY <1>3, <1>a, <1>d DEF CallbackError, bot, bounds
<1>4. ASSUME NEW a \in Attempt, NEW m \in Member, Callback(a, m) PROVE Types'
  <2>1. attempts' \in [Attempt -> AttemptInfo]
    <3>1. CASE Show(a, "refused")
      BY <1>a, <1>d, <3>1
    <3>2. CASE attempts' = [attempts EXCEPT ![a].used = now]
      BY <1>b, <3>2 DEF AttemptInfo
    <3> QED
      BY <1>4, <3>1, <3>2 DEF Callback
  <2>2. states' \in [Attempt -> Nat \cup {None}]
    BY <1>4, <1>e DEF Callback
  <2>3. server' \in Server
    BY <1>4 DEF Callback, Server, Idle
  <2> QED
    BY <1>4, <2>1, <2>2, <2>3 DEF Callback, bot, bounds
<1>5. ASSUME Exchange PROVE Types'
  <2>1. tokens' \in Nat /\ server' = [server EXCEPT !.pc = "write", !.token = tokens']
    BY <1>5 DEF Exchange
  <2>2. server' \in Server
    BY <2>1 DEF Server
  <2> QED
    BY <1>5, <2>1, <2>2 DEF Exchange, bot, bounds
<1>6. ASSUME server.pc # "idle" PROVE server.attempt \in Attempt /\ server.member \in Member
  BY <1>6 DEF VisitsOK, ServerOK, Idle
<1>7. ASSUME ExchangeFails PROVE Types'
  <2>1. PICK page \in {"failed", "broken"} : Show(server.attempt, page)
    BY <1>7 DEF ExchangeFails
  <2>2. attempts' \in [Attempt -> AttemptInfo]
    BY <1>7, <1>6, <1>a, <1>d, <2>1 DEF ExchangeFails
  <2> QED
    BY <1>7, <1>b, <1>c, <2>2 DEF ExchangeFails, bot
<1>8. ASSUME Write PROVE Types'
  <2>1. server' \in Server
    BY <1>8 DEF Write, Server
  <2> QED
    BY <1>8, <2>1 DEF Write, bot, bounds
<1>9. ASSUME Replace PROVE Types'
  <2>1. server' \in Server /\ server.token \in Nat
    BY <1>9 DEF Replace, Server
  <2>2. attempts' \in [Attempt -> AttemptInfo]
    BY <1>9, <1>6 DEF Replace, AttemptInfo
  <2>3. file' \in [Member -> Nat]
    BY <1>9, <1>6, <2>1 DEF Replace
  <2> QED
    BY <1>9, <2>1, <2>2, <2>3 DEF Replace, bot, bounds
<1>10. ASSUME SaveFails PROVE Types'
  <2>1. attempts' \in [Attempt -> AttemptInfo]
    BY <1>10, <1>6, <1>a, <1>d DEF SaveFails
  <2> QED
    BY <1>10, <1>b, <1>c, <2>1 DEF SaveFails, bot
<1>11. ASSUME Reply PROVE Types'
  <2>1. attempts' \in [Attempt -> AttemptInfo]
    BY <1>11, <1>6, <1>a, <1>d DEF Reply
  <2>2. connected' \in [Member -> Nat]
    BY <1>11, <1>6 DEF Reply, Server
  <2> QED
    BY <1>11, <1>b, <2>1, <2>2 DEF Reply, bot, bounds
<1>12. ASSUME Restart PROVE Types'
  BY <1>12, <1>b, BoundsAssumption DEF Restart, bot
<1>13. ASSUME NEW r \in Reader, NEW m \in Member, Ask(r, m) PROVE Types'
  <2>1. readers' \in [Reader -> ReaderInfo]
    BY <1>13 DEF Ask, ReaderInfo
  <2> QED
    BY <1>13, <2>1 DEF Ask, web, bounds
<1>14. ASSUME NEW r \in Reader, NEW token \in Nat \cup {EnvToken}, Got(r, token)
       PROVE  readers' \in [Reader -> ReaderInfo]
  BY <1>14 DEF Got, ReaderInfo
<1>15. ASSUME NEW id, NEW m PROVE TokenOf(id, m) \in Nat \cup {EnvToken}
  BY DEF TokenOf
<1>16. ASSUME NEW r \in Reader, Read(r) PROVE Types'
  <2>1. readers' \in [Reader -> ReaderInfo]
    <3>1. CASE Got(r, file[readers[r].member])
      <4>1. readers[r].member \in Member
        BY <1>16 DEF ReadersOK, ReaderOK, Read
      <4> QED
        BY <1>14, <3>1, <4>1
    <3>2. CASE Got(r, TokenOf(owner, readers[r].member))
      BY <1>14, <1>15, <3>2
    <3>3. CASE readers' = [readers EXCEPT ![r].pc = "auth"]
      BY <3>3 DEF ReaderInfo
    <3> QED
      BY <1>16, <3>1, <3>2, <3>3 DEF Read
  <2> QED
    BY <1>16, <2>1 DEF Read, web, bounds
<1>17. ASSUME NEW r \in Reader, Resolve(r) PROVE Types'
  <2>1. readers' \in [Reader -> ReaderInfo]
    BY <1>17, <1>14, <1>15 DEF Resolve
  <2> QED
    BY <1>17, <2>1, OwnerAssumption DEF Resolve, web, bounds
<1>18. ASSUME NEW r \in Reader, ResolveFails(r) PROVE Types'
  <2>1. readers' \in [Reader -> ReaderInfo]
    BY <1>18, <1>14 DEF ResolveFails
  <2> QED
    BY <1>18, <1>c, <2>1 DEF ResolveFails, web
<1>19. ASSUME UNCHANGED vars PROVE Types'
  BY <1>19 DEF vars
<1> QED
  BY <1>1, <1>2, <1>3, <1>4, <1>5, <1>7, <1>8, <1>9, <1>10, <1>11, <1>12, <1>13, <1>16,
     <1>17, <1>18, <1>19 DEF Next, ServerStep, ReaderStep

\* A state is taken by the first callback of its visit, and gone with a restart.
LEMMA NextVisits == IInv /\ [Next]_vars => VisitsOK'
<1> SUFFICES ASSUME IInv, [Next]_vars PROVE VisitsOK'
  OBVIOUS
<1> USE DEF IInv
<1>a. /\ states \in [Attempt -> Nat \cup {None}]
      /\ attempts \in [Attempt -> AttemptInfo]
      /\ now \in Nat
      /\ \A a \in Attempt : VisitOK(states[a], attempts[a])
      /\ ServerOK
  BY BoundsAssumption DEF Types, VisitsOK
<1>b. ASSUME NEW a \in Attempt, NEW page, Show(a, page)
      PROVE  \A b \in Attempt : /\ attempts'[b].issued = attempts[b].issued
                                /\ attempts'[b].used = attempts[b].used
                                /\ attempts'[b].saves = attempts[b].saves
  BY <1>a, <1>b DEF Show, AttemptInfo
<1>c. \A a \in Attempt : Purged[a] = states[a] \/ Purged[a] = None
  BY DEF Purged
<1>1. ASSUME UNCHANGED <<states, attempts, server>> PROVE VisitsOK'
  BY <1>1, <1>a DEF VisitsOK, VisitOK, ServerOK, Idle
<1>2. ASSUME NEW a \in Attempt, Visit(a) PROVE VisitsOK'
  <2>1. /\ states'[a] = now /\ attempts'[a] = [attempts[a] EXCEPT !.issued = now]
        /\ \A b \in Attempt \ {a} : attempts'[b] = attempts[b] /\ states'[b] = Purged[b]
    BY <1>2, <1>a DEF Visit, Purged
  <2>2. VisitOK(states'[a], attempts'[a])
    BY <1>2, <1>a, <2>1, NoneAssumption DEF Visit, VisitOK, AttemptInfo
  <2>3. \A b \in Attempt \ {a} : VisitOK(states'[b], attempts'[b])
    BY <1>a, <1>c, <2>1 DEF VisitOK
  <2>4. ServerOK'
    BY <1>2 DEF Visit, ServerOK, Idle
  <2> QED
    BY <2>2, <2>3, <2>4 DEF VisitsOK
<1>3. ASSUME NEW a \in Attempt, NEW page, Show(a, page),
             \A b \in Attempt : states'[b] = states[b] \/ states'[b] = None,
             server' = Idle
      PROVE  VisitsOK'
  <2>1. \A b \in Attempt : VisitOK(states'[b], attempts'[b])
    BY <1>3, <1>a, <1>b DEF VisitOK
  <2> QED
    BY <1>3, <2>1 DEF VisitsOK, ServerOK, Idle
<1>4. ASSUME NEW a \in Attempt, CallbackError(a) PROVE VisitsOK'
  BY <1>3, <1>4 DEF CallbackError
<1>5. ASSUME NEW a \in Attempt, NEW m \in Member, Callback(a, m) PROVE VisitsOK'
  <2>1. states'[a] = None /\ \A b \in Attempt \ {a} : states'[b] = Purged[b]
    BY <1>5 DEF Callback, Purged
  <2>2. CASE Show(a, "refused") /\ UNCHANGED server
    BY <1>3, <1>5, <1>c, <2>1, <2>2 DEF Callback
  <2>3. CASE /\ Fresh(a)
             /\ attempts' = [attempts EXCEPT ![a].used = now]
             /\ server' = [Idle EXCEPT !.pc = "exchange", !.attempt = a, !.member = m]
    <3>1. /\ attempts'[a] = [attempts[a] EXCEPT !.used = now]
          /\ \A b \in Attempt \ {a} : attempts'[b] = attempts[b]
      BY <1>a, <2>3
    <3>2. /\ states[a] = attempts[a].issued /\ states[a] \in Nat /\ now - states[a] <= StateTtl
          /\ attempts[a].saves = 0 /\ now # None
      BY <1>a, <2>3, NoneAssumption DEF Fresh, VisitOK
    <3>3. VisitOK(states'[a], attempts'[a])
      BY <1>a, <2>1, <3>1, <3>2, NoneAssumption DEF VisitOK, AttemptInfo
    <3>4. \A b \in Attempt \ {a} : VisitOK(states'[b], attempts'[b])
      BY <1>a, <1>c, <2>1, <3>1 DEF VisitOK
    <3>5. ServerOK'
      BY <1>a, <2>1, <2>3, <3>1, <3>2 DEF ServerOK, Idle, AttemptInfo
    <3> QED
      BY <3>3, <3>4, <3>5 DEF VisitsOK
  <2> QED
    BY <1>5, <2>2, <2>3 DEF Callback
<1>6. ASSUME Exchange \/ Write PROVE VisitsOK'
  <2>1. /\ server' \in Server /\ server'.attempt = server.attempt
        /\ server'.member = server.member /\ server'.pc \notin {"idle", "reply"}
        /\ server.pc \notin {"idle", "reply"}
        /\ UNCHANGED <<states, attempts>>
    BY <1>6, NextTypes DEF Exchange, Write, Types, Server
  <2>2. server # Idle
    BY <2>1 DEF Idle
  <2> QED
    BY <1>a, <2>1, <2>2 DEF VisitsOK, VisitOK, ServerOK
<1>7. ASSUME Replace PROVE VisitsOK'
  <2> DEFINE a == server.attempt
  <2>1. /\ a \in Attempt /\ server.member \in Member /\ states[a] = None
        /\ attempts[a].used # None /\ attempts[a].saves = 0
    BY <1>7, <1>a DEF Replace, ServerOK, Idle
  <2>2. /\ attempts'[a] = [attempts[a] EXCEPT !.saves = @ + 1]
        /\ \A b \in Attempt \ {a} : attempts'[b] = attempts[b]
        /\ UNCHANGED states
    BY <1>7, <1>a, <2>1 DEF Replace
  <2>3. \A b \in Attempt : VisitOK(states'[b], attempts'[b])
    BY <1>a, <2>1, <2>2 DEF VisitOK, AttemptInfo
  <2>4. /\ server'.attempt = a /\ server'.member = server.member /\ server'.pc = "reply"
    BY <1>7 DEF Replace, Types, Server
  <2>5. ServerOK'
    BY <1>a, <2>1, <2>2, <2>4 DEF ServerOK, AttemptInfo
  <2> QED
    BY <2>3, <2>5 DEF VisitsOK
<1>8. ASSUME ExchangeFails \/ SaveFails \/ Reply PROVE VisitsOK'
  <2>1. server.attempt \in Attempt
    BY <1>8, <1>a DEF ExchangeFails, SaveFails, Reply, ServerOK, Idle
  <2>2. PICK page : Show(server.attempt, page)
    BY <1>8 DEF ExchangeFails, SaveFails, Reply
  <2> QED
    BY <1>3, <1>8, <2>1, <2>2 DEF ExchangeFails, SaveFails, Reply
<1>9. ASSUME Restart PROVE VisitsOK'
  BY <1>9, <1>a DEF Restart, VisitsOK, VisitOK, ServerOK, Idle
<1>10. ASSUME Tick \/ \E r \in Reader : ReaderStep(r) PROVE VisitsOK'
  BY <1>1, <1>10 DEF Tick, ReaderStep, Ask, Read, Resolve, ResolveFails, web
<1> QED
  BY <1>1, <1>2, <1>4, <1>5, <1>6, <1>7, <1>8, <1>9, <1>10 DEF Next, ServerStep, vars

\* Files get newer tokens only, before their members hear of them.
LEMMA NextFiles == IInv /\ [Next]_vars => FilesOK' /\ \A m \in Member : file[m] <= file'[m]
<1> DEFINE Kept == FilesOK' /\ \A m \in Member : file[m] <= file'[m]
<1> SUFFICES ASSUME IInv, [Next]_vars PROVE Kept
  OBVIOUS
<1>a. /\ file \in [Member -> Nat] /\ connected \in [Member -> Nat] /\ tokens \in Nat
      /\ server \in Server /\ FilesOK
  BY DEF IInv, Types
<1>1. ASSUME UNCHANGED <<tokens, file, connected>>, server' = server \/ server'.pc = "idle"
      PROVE  Kept
  BY <1>1, <1>a DEF FilesOK
<1>2. ASSUME NEW a \in Attempt, Visit(a) \/ CallbackError(a) PROVE Kept
  BY <1>1, <1>2 DEF Visit, CallbackError
<1>3. ASSUME NEW a \in Attempt, NEW m \in Member, Callback(a, m) PROVE Kept
  <2>1. server' = server \/ server'.pc = "exchange"
    BY <1>3 DEF Callback, Idle
  <2> QED
    BY <1>3, <1>a, <2>1 DEF Callback, FilesOK
<1>4. ASSUME Exchange PROVE Kept
  <2>1. server'.pc = "write" /\ server'.token = tokens + 1
    BY <1>4, <1>a DEF Exchange, Server
  <2> QED
    BY <1>4, <1>a, <2>1 DEF Exchange, FilesOK
<1>5. ASSUME Write PROVE Kept
  <2>1. server'.pc = "replace" /\ server'.token = server.token
    BY <1>5, <1>a DEF Write, Server
  <2> QED
    BY <1>5, <1>a, <2>1 DEF Write, FilesOK
<1>6. ASSUME server.pc # "idle" PROVE server.member \in Member
  BY <1>6 DEF IInv, VisitsOK, ServerOK, Idle
<1>7. ASSUME Replace PROVE Kept
  <2>1. server'.pc = "reply" /\ server'.token = server.token /\ server'.member = server.member
    BY <1>7, <1>a DEF Replace, Server
  <2>2. server.member \in Member /\ server.token = tokens
    BY <1>7, <1>6, <1>a DEF Replace, FilesOK
  <2>3. \A m \in Member : file'[m] = IF m = server.member THEN tokens ELSE file[m]
    BY <1>7, <1>a, <2>2 DEF Replace
  <2> QED
    BY <1>7, <1>a, <2>1, <2>2, <2>3 DEF Replace, FilesOK
<1>8. ASSUME ExchangeFails \/ SaveFails \/ Restart PROVE Kept
  BY <1>1, <1>8 DEF ExchangeFails, SaveFails, Restart, Idle
<1>9. ASSUME Reply PROVE Kept
  <2>1. server.member \in Member /\ file[server.member] = server.token
    BY <1>9, <1>6, <1>a DEF Reply, FilesOK
  <2>2. \A m \in Member :
          connected'[m] = IF m = server.member THEN server.token ELSE connected[m]
    BY <1>9, <1>a, <2>1 DEF Reply
  <2> QED
    BY <1>9, <1>a, <2>1, <2>2 DEF Reply, FilesOK, Idle
<1>10. ASSUME Tick \/ \E r \in Reader : ReaderStep(r) PROVE Kept
  BY <1>1, <1>10 DEF Tick, ReaderStep, Ask, Read, Resolve, ResolveFails, web
<1>11. ASSUME UNCHANGED vars PROVE Kept
  BY <1>1, <1>11 DEF vars
<1> QED
  BY <1>2, <1>3, <1>4, <1>5, <1>7, <1>8, <1>9, <1>10, <1>11 DEF Next, ServerStep

\* A read ends with what its member was told of, or newer.
LEMMA NextReaders == IInv /\ [Next]_vars => ReadersOK'
<1> SUFFICES ASSUME IInv, [Next]_vars PROVE ReadersOK'
  OBVIOUS
<1>a. /\ file \in [Member -> Nat] /\ connected \in [Member -> Nat]
      /\ readers \in [Reader -> ReaderInfo]
      /\ \A m \in Member : connected[m] <= file[m]
      /\ ReadersOK
  BY DEF IInv, Types, FilesOK
<1>b. /\ \A m \in Member : file[m] <= file'[m]
      /\ file' \in [Member -> Nat]
  BY NextFiles, NextTypes DEF Types
<1>1. ASSUME UNCHANGED readers PROVE ReadersOK'
  BY <1>1, <1>a, <1>b DEF ReadersOK, ReaderOK, ReaderInfo
<1>2. ASSUME NEW r \in Reader, ReaderOK(readers[r])', UNCHANGED file,
             \A q \in Reader \ {r} : readers'[q] = readers[q]
      PROVE  ReadersOK'
  BY <1>2, <1>a DEF ReadersOK, ReaderOK
<1>3. ASSUME NEW r \in Reader, NEW m \in Member, Ask(r, m) PROVE ReadersOK'
  <2>1. readers'[r] = [pc |-> "read", member |-> m, since |-> connected[m], got |-> 0]
    BY <1>3, <1>a DEF Ask
  <2>2. ReaderOK(readers[r])'
    BY <1>3, <1>a, <2>1 DEF Ask, ReaderOK
  <2> QED
    BY <1>2, <1>3, <1>a, <2>2 DEF Ask
<1>4. ASSUME NEW r \in Reader, NEW token \in Nat \cup {EnvToken}, Got(r, token),
             UNCHANGED file, readers[r].since = 0 \/ token >= readers[r].since
      PROVE  ReadersOK'
  <2>1. /\ readers'[r].pc = "done" /\ readers'[r].got = token
        /\ readers'[r].since = readers[r].since
        /\ \A q \in Reader \ {r} : readers'[q] = readers[q]
    BY <1>4, <1>a DEF Got, ReaderInfo
  <2>2. ReaderOK(readers[r])'
    BY <1>4, <2>1 DEF ReaderOK
  <2> QED
    BY <1>2, <1>4, <2>1, <2>2
<1>5. \A id, m : TokenOf(id, m) \in Nat \cup {EnvToken}
  BY DEF TokenOf
<1>6. ASSUME NEW r \in Reader, Read(r) PROVE ReadersOK'
  <2> DEFINE m == readers[r].member
  <2>1. m \in Member /\ readers[r].since <= file[m] /\ readers[r].since \in Nat
    BY <1>6, <1>a DEF Read, ReadersOK, ReaderOK, ReaderInfo
  <2>2. CASE file[m] # 0 /\ Got(r, file[m])
    BY <1>4, <1>6, <1>a, <2>1, <2>2 DEF Read
  <2>3. CASE file[m] = 0 /\ Got(r, TokenOf(owner, m))
    BY <1>4, <1>5, <1>6, <2>1, <2>3 DEF Read
  <2>4. CASE file[m] = 0 /\ readers' = [readers EXCEPT ![r].pc = "auth"]
    <3>1. /\ readers'[r].pc = "auth" /\ readers'[r].since = 0 /\ readers'[r].member = m
          /\ \A q \in Reader \ {r} : readers'[q] = readers[q]
      BY <1>a, <2>1, <2>4 DEF ReaderInfo
    <3>2. ReaderOK(readers[r])'
      BY <2>1, <3>1 DEF ReaderOK
    <3> QED
      BY <1>2, <1>6, <3>1, <3>2 DEF Read
  <2> QED
    BY <1>6, <2>2, <2>3, <2>4 DEF Read
<1>7. ASSUME NEW r \in Reader, Resolve(r) \/ ResolveFails(r) PROVE ReadersOK'
  <2>1. readers[r].since = 0
    BY <1>7, <1>a DEF Resolve, ResolveFails, ReadersOK, ReaderOK
  <2>2. PICK token \in Nat \cup {EnvToken} : Got(r, token)
    BY <1>5, <1>7 DEF Resolve, ResolveFails
  <2>3. UNCHANGED file
    BY <1>7 DEF Resolve, ResolveFails
  <2> QED
    BY <1>4, <2>1, <2>2, <2>3
<1>8. ASSUME Tick \/ ServerStep \/ UNCHANGED vars PROVE ReadersOK'
  BY <1>1, <1>8 DEF Tick, ServerStep, Exchange, ExchangeFails, Write, Replace, SaveFails,
                    Reply, Restart, Visit, CallbackError, Callback, bot, vars
<1> QED
  BY <1>3, <1>6, <1>7, <1>8 DEF Next, ReaderStep

-------------------------------------------------------------------------------
\* The invariant the theorems follow from.
LEMMA Invariant == Spec => []IInv
<1>1. IInv /\ [Next]_vars => IInv'
  BY NextTypes, NextVisits, NextFiles, NextReaders DEF IInv
<1> QED
  BY <1>1, InitInv, PTL DEF Spec

\* Every variable has its type, and the state of the callback in hand is taken.
THEOREM TypeCorrect == Spec => []TypeOK
<1>1. IInv => TypeOK
  BY DEF IInv, Types, TypeOK, VisitsOK, ServerOK
<1> QED
  BY <1>1, Invariant, PTL

\* A visit leads to one save at most, for a state of the last StateTtl seconds,
\* whatever is reloaded, late, or sent to a server that was started anew.
THEOREM SavedOnceAndInTime == Spec => []SavesAreFresh
<1>1. IInv => SavesAreFresh
  BY DEF IInv, VisitsOK, VisitOK, SavesAreFresh
<1> QED
  BY <1>1, Invariant, PTL

\* A read that begins after a member was told of a token gets it or a newer one.
THEOREM TokensArePickedUp == Spec => []PickedUp
<1>1. IInv => PickedUp
  BY DEF IInv, ReadersOK, ReaderOK, PickedUp
<1> QED
  BY <1>1, Invariant, PTL
===============================================================================
