------------------------------ MODULE UserTokens ------------------------------
(***************************************************************************)
(* User tokens: the OAuth server of slack_user_oauth/local_server.py       *)
(* exchanges codes for tokens and saves them with oauth_token_store.py in  *)
(* the data layer, one file for each member; the threads of the bot read   *)
(* them.  The server handles one request at a time, and browsers may send  *)
(* any of them late, again, or to a server that was started anew.          *)
(***************************************************************************)
EXTENDS Integers

CONSTANTS Member,
          Owner,        \* the member of SLACK_USER_TOKEN
          Attempt,      \* bound: visits to /slack/oauth/start
          Reader,       \* bound: reads of a token by the bot
          StateTtl,     \* _STATE_TTL_SEC
          MaxNow,       \* bound: the time
          MaxFailures,  \* bound: exchanges, saves and auth.test calls that fail
          MaxRestarts,  \* bound: restarts of the server
          None

ASSUME OwnerAssumption == Owner \in Member
ASSUME BoundsAssumption == /\ StateTtl \in Nat
                           /\ MaxNow \in Nat
                           /\ MaxFailures \in Nat
                           /\ MaxRestarts \in Nat
ASSUME NoneAssumption == None \notin Member \cup Attempt \cup Nat

VARIABLES now,
          states,     \* _states: when each state was issued, in the server's memory
          attempts,   \* what became of each visit
          server,     \* the request the server handles
          tokens,     \* how many tokens Slack has given out
          file,       \* the token in each member's file, 0 when it has none
          connected,  \* the token each member was last told was stored
          owner,      \* _owner_user_id_cache of the bot
          readers,
          failures, restarts

vars == <<now, states, attempts, server, tokens, file, connected, owner, readers,
          failures, restarts>>
web == <<states, attempts, server, tokens, connected>>
bot == <<owner, readers>>
bounds == <<failures, restarts>>

-------------------------------------------------------------------------------
\* Tokens are numbered as they are given out.  The one of the environment is
\* older than all.
EnvToken == -1

Page == {"none", "refused", "failed", "broken", "connected"}
AttemptInfo == [issued : Nat \cup {None}, used : Nat \cup {None}, saves : Nat,
                page : Page]
Server == [pc : {"idle", "exchange", "write", "replace", "reply"},
           attempt : Attempt \cup {None}, member : Member \cup {None}, token : Nat]
\* What the cache of the owner's id holds: nothing yet, an id, or the empty name
\* left by an auth.test that failed.
Nobody == "nobody"
ReaderInfo == [pc : {"off", "read", "auth", "done"}, member : Member \cup {None},
               since : Nat, got : Nat \cup {EnvToken}]

Idle == [pc |-> "idle", attempt |-> None, member |-> None, token |-> 0]

Init ==
  /\ now = 0
  /\ states = [a \in Attempt |-> None]
  /\ attempts = [a \in Attempt |->
                   [issued |-> None, used |-> None, saves |-> 0, page |-> "none"]]
  /\ server = Idle
  /\ tokens = 0
  /\ file = [m \in Member |-> 0]
  /\ connected = [m \in Member |-> 0]
  /\ owner = None
  /\ readers = [r \in Reader |-> [pc |-> "off", member |-> None, since |-> 0, got |-> 0]]
  /\ failures = 0
  /\ restarts = 0

Fresh(a) == states[a] # None /\ now - states[a] <= StateTtl

\* _purge_expired_states.
Purged == [a \in Attempt |-> IF Fresh(a) THEN states[a] ELSE None]

Show(a, page) == attempts' = [attempts EXCEPT ![a].page = page]

MayFail == failures < MaxFailures /\ failures' = failures + 1

-------------------------------------------------------------------------------
(* The server. *)

\* _handle_start and _issue_state: the browser goes on to Slack.
Visit(a) ==
  /\ server = Idle
  /\ attempts[a].issued = None
  /\ states' = [Purged EXCEPT ![a] = now]
  /\ attempts' = [attempts EXCEPT ![a].issued = now]
  /\ UNCHANGED <<now, server, tokens, connected, file, bot, bounds>>

\* Slack sends the browser back with an error, or without a code.
CallbackError(a) ==
  /\ server = Idle
  /\ attempts[a].issued # None
  /\ Show(a, "refused")
  /\ UNCHANGED <<now, states, server, tokens, connected, file, bot, bounds>>

\* Bug: a state is good for any number of callbacks.
Callback_KeepsState(a, m) ==
  /\ server = Idle
  /\ attempts[a].issued # None
  /\ states' = Purged
  /\ \/ /\ ~Fresh(a)
        /\ Show(a, "refused")
        /\ UNCHANGED server
     \/ /\ Fresh(a)
        /\ attempts' = [attempts EXCEPT ![a].used = now]
        /\ server' = [Idle EXCEPT !.pc = "exchange", !.attempt = a, !.member = m]
  /\ UNCHANGED <<now, tokens, connected, file, bot, bounds>>

\* Bug: states are purged when one is issued, and only then.
Callback_Unpurged(a, m) ==
  /\ server = Idle
  /\ attempts[a].issued # None
  /\ states' = [states EXCEPT ![a] = None]
  /\ \/ /\ states[a] = None
        /\ Show(a, "refused")
        /\ UNCHANGED server
     \/ /\ states[a] # None
        /\ attempts' = [attempts EXCEPT ![a].used = now]
        /\ server' = [Idle EXCEPT !.pc = "exchange", !.attempt = a, !.member = m]
  /\ UNCHANGED <<now, tokens, connected, file, bot, bounds>>

\* _handle_callback with a code, for the member who consented; also a reload of
\* an earlier one.  _consume_state takes the state at the first.
Callback(a, m) ==
  /\ server = Idle
  /\ attempts[a].issued # None
  /\ states' = [Purged EXCEPT ![a] = None]
  /\ \/ /\ ~Fresh(a)
        /\ Show(a, "refused")
        /\ UNCHANGED server
     \/ /\ Fresh(a)
        /\ attempts' = [attempts EXCEPT ![a].used = now]
        /\ server' = [Idle EXCEPT !.pc = "exchange", !.attempt = a, !.member = m]
  /\ UNCHANGED <<now, tokens, connected, file, bot, bounds>>

Exchange ==
  /\ server.pc = "exchange"
  /\ tokens' = tokens + 1
  /\ server' = [server EXCEPT !.pc = "write", !.token = tokens + 1]
  /\ UNCHANGED <<now, states, attempts, connected, file, bot, bounds>>

\* Slack refuses the code, which is a page of its own, or cannot be reached,
\* which ends the handler without one.
ExchangeFails ==
  /\ server.pc = "exchange"
  /\ MayFail
  /\ \E page \in {"failed", "broken"} : Show(server.attempt, page)
  /\ server' = Idle
  /\ UNCHANGED <<now, states, tokens, connected, file, bot, restarts>>

\* Bug: the member's own file is opened and written.
Write_InPlace ==
  /\ server.pc = "write"
  /\ server' = [server EXCEPT !.pc = "replace"]
  /\ file' = [file EXCEPT ![server.member] = 0]
  /\ UNCHANGED <<now, states, attempts, tokens, connected, bot, bounds>>

\* save_user_token writes a file beside the member's, which no reader opens,
Write ==
  /\ server.pc = "write"
  /\ server' = [server EXCEPT !.pc = "replace"]
  /\ UNCHANGED <<now, states, attempts, tokens, connected, file, bot, bounds>>

\* and puts it in its place.
Replace ==
  /\ server.pc = "replace"
  /\ file' = [file EXCEPT ![server.member] = server.token]
  /\ attempts' = [attempts EXCEPT ![server.attempt].saves = @ + 1]
  /\ server' = [server EXCEPT !.pc = "reply"]
  /\ UNCHANGED <<now, states, tokens, connected, bot, bounds>>

\* The disk is full: no handler catches that.
SaveFails ==
  /\ server.pc \in {"write", "replace"}
  /\ MayFail
  /\ Show(server.attempt, "broken")
  /\ server' = Idle
  /\ UNCHANGED <<now, states, tokens, connected, file, bot, restarts>>

Reply ==
  /\ server.pc = "reply"
  /\ Show(server.attempt, "connected")
  /\ connected' = [connected EXCEPT ![server.member] = server.token]
  /\ server' = Idle
  /\ UNCHANGED <<now, states, tokens, file, bot, bounds>>

\* The server is stopped, wherever it is, and started again without its states.
Restart ==
  /\ restarts < MaxRestarts
  /\ restarts' = restarts + 1
  /\ states' = [a \in Attempt |-> None]
  /\ server' = Idle
  /\ UNCHANGED <<now, attempts, tokens, connected, file, bot, failures>>

-------------------------------------------------------------------------------
(* get_user_token and _resolve_owner_user_id, on the threads of the bot. *)

Ask(r, m) ==
  /\ readers[r].pc = "off"
  /\ readers' = [readers EXCEPT ![r] = [pc |-> "read", member |-> m,
                                        since |-> connected[m], got |-> 0]]
  /\ UNCHANGED <<now, web, file, owner, bounds>>

TokenOf(id, m) == IF id = m THEN EnvToken ELSE 0
Got(r, token) == readers' = [readers EXCEPT ![r].pc = "done", ![r].got = token]

\* The member's own token, or the owner's as far as it is known who that is.
Read(r) ==
  LET m == readers[r].member
  IN  /\ readers[r].pc = "read"
      /\ \/ file[m] # 0 /\ Got(r, file[m])
         \/ file[m] = 0 /\ owner # None /\ Got(r, TokenOf(owner, m))
         \/ /\ file[m] = 0
            /\ owner = None
            /\ readers' = [readers EXCEPT ![r].pc = "auth"]
      /\ UNCHANGED <<now, web, file, owner, bounds>>

\* auth.test answers.  Another thread may have asked it too and been first.
Resolve(r) ==
  /\ readers[r].pc = "auth"
  /\ owner' = Owner
  /\ Got(r, TokenOf(Owner, readers[r].member))
  /\ UNCHANGED <<now, web, file, bounds>>

ResolveFails(r) ==
  /\ readers[r].pc = "auth"
  /\ MayFail
  /\ owner' = Nobody
  /\ Got(r, 0)
  /\ UNCHANGED <<now, web, file, restarts>>

-------------------------------------------------------------------------------
Tick ==
  /\ now < MaxNow
  /\ now' = now + 1
  /\ UNCHANGED <<web, file, bot, bounds>>

ServerStep ==
  \/ Exchange \/ ExchangeFails \/ Write \/ Replace \/ SaveFails \/ Reply \/ Restart
  \/ \E a \in Attempt : Visit(a) \/ CallbackError(a) \/ \E m \in Member : Callback(a, m)

ReaderStep(r) == Read(r) \/ Resolve(r) \/ ResolveFails(r) \/ \E m \in Member : Ask(r, m)

Next == Tick \/ ServerStep \/ \E r \in Reader : ReaderStep(r)

Spec == Init /\ [][Next]_vars
===============================================================================
