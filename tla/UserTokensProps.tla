---------------------------- MODULE UserTokensProps ----------------------------
(* What the store of user tokens guarantees to members and to the bot. *)
EXTENDS UserTokens

\* The variables hold the kinds of values the code keeps in them, and the state
\* of the callback that is handled is no longer good for another.
TypeOK ==
  /\ now \in 0..MaxNow
  /\ states \in [Attempt -> Nat \cup {None}]
  /\ attempts \in [Attempt -> AttemptInfo]
  /\ server \in Server
  /\ tokens \in Nat
  /\ file \in [Member -> Nat]
  /\ connected \in [Member -> Nat]
  /\ owner \in Member \cup {None, Nobody}
  /\ readers \in [Reader -> ReaderInfo]
  /\ failures \in 0..MaxFailures
  /\ restarts \in 0..MaxRestarts
  /\ server # Idle => states[server.attempt] = None

\* A token is saved for a visit of the last StateTtl seconds, and once for each
\* visit, however often, late or after a restart its callback is loaded.
SavesAreFresh ==
  \A a \in Attempt :
    /\ attempts[a].saves <= 1
    /\ attempts[a].used # None => attempts[a].used - attempts[a].issued <= StateTtl

\* README.md, the user token is picked up automatically: a read that begins after
\* a member was told so gets that token or a newer one of the member, while
\* others are saved, saves fail and the server is stopped within one.
PickedUp ==
  \A r \in Reader :
    readers[r].pc = "done" /\ readers[r].since # 0 => readers[r].got >= readers[r].since
===============================================================================
