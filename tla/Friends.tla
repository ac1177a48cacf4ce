------------------------------ MODULE Friends ------------------------------
(* Blocks, friend requests and friendships of the two users:                  *)
(* packages/database/src/social.ts and friends.ts.  A request row and a       *)
(* friendship (with its thread) are known by the request that inserted them;  *)
(* 0 is the row that was there at the start.  The database's locks are the    *)
(* steps that hold them.                                                      *)
EXTENDS Encounters

VARIABLES asked,        \* friend_requests, or None
          friendships   \* friendships: None, active, ended

friendVars == <<asked, friendships>>

Ids == {0} \cup Reqs
Answered == {"accepted", "rejected", "cancelled", "expired"}

FriendRequest == [sender : Users, state : {"pending"} \cup Answered,
                  age : {"fresh", "expired", "purgeable"}]
FriendshipStates == {"active", "ended"}

ASSUME NoneAssumption == None \notin FriendRequest \cup FriendshipStates

FriendTypeOK ==
  /\ asked \in [Ids -> {None} \cup FriendRequest]
  /\ friendships \in [Ids -> {None} \cup FriendshipStates]

FriendInit ==
  /\ asked \in IF "asked" \in workload.starts
       THEN {[[i \in Ids |-> None] EXCEPT ![0] =
                [sender |-> u, state |-> "pending", age |-> "fresh"]] :
             u \in Users}
       ELSE {[i \in Ids |-> None]}
  /\ friendships = [[i \in Ids |-> None] EXCEPT ![0] =
       IF "friends" \in workload.starts THEN "active" ELSE None]

Pending == {i \in Ids : asked[i] # None /\ asked[i].state = "pending"}
Live == {i \in Pending : asked[i].age = "fresh"}
Active == {i \in Ids : friendships[i] = "active"}
ActiveFriends == Active # {}

(* What the open transactions hold: the pair's advisory lock, a request row.  *)
PairLocked == Some({"opposite", "insert request", "befriend"})
RowHeld(r, i) == req[r].pc \in {"blocked?", "settle", "befriend"} /\ req[r].got = i
RowLocked(i) == \E q \in Reqs : RowHeld(q, i)

Resolved(i, state) == [asked EXCEPT ![i].state = state]

(* createRequest(): the pair's lock first, then everything it reads.          *)
AskStart(r) == \E u \in Users :
  Begin(r, "ask", u, None, None, "lock pair") /\ UNCHANGED friendVars

(* Mutant: without the pair's lock.                                          *)
LockPairUnlocked(r) ==
  /\ At(r, "lock pair")
  /\ IF hasEitherDirection \/ ~encounter.visible \/ ~encounter.participants
     THEN Refuse(r) ELSE Go(r, "opposite")
  /\ UNCHANGED friendVars

LockPair(r) ==
  /\ At(r, "lock pair") /\ ~PairLocked
  /\ IF hasEitherDirection \/ ~encounter.visible \/ ~encounter.participants
     THEN Refuse(r) ELSE Go(r, "opposite")
  /\ UNCHANGED friendVars

Opposite(r) == {i \in Live : asked[i].sender = peer(req[r].by)}

FindOpposite(r) ==
  /\ At(r, "opposite")
  /\ \/ ActiveFriends /\ Done(r)
     \/ ~ActiveFriends /\ Opposite(r) = {} /\ Go(r, "insert request")
     \/ /\ ~ActiveFriends
        /\ \E i \in Opposite(r) : ~RowLocked(i) /\ Take(r, "befriend", i)
  /\ UNCHANGED friendVars

(* The request lives 48 hours, and no longer than its encounter; a pending    *)
(* row of the same sender is answered instead, expired or not.                *)
InsertRequest(r) ==
  LET u == req[r].by
  IN  /\ At(r, "insert request")
      /\ Done(r)
      /\ asked' = IF \E i \in Pending : asked[i].sender = u THEN asked
                  ELSE [asked EXCEPT ![r] =
                    [sender |-> u, state |-> "pending",
                     age |-> IF encounter.visible THEN "fresh" ELSE "expired"]]
      /\ UNCHANGED friendships

createRequest(r) ==
  AskStart(r) \/ LockPair(r) \/ FindOpposite(r) \/ InsertRequest(r)

(* The insert of createFriendship(), which the index of active pairs guards,  *)
(* and the commit of the transaction it is in.                                *)
createFriendship(r) ==
  /\ At(r, "befriend")
  /\ IF ActiveFriends
     THEN Answer(r, "collision") /\ UNCHANGED friendVars
     ELSE /\ Done(r)
          /\ asked' = Resolved(req[r].got, "accepted")
          /\ friendships' = [friendships EXCEPT ![r] = "active"]

(* resolve(): the row's lock first, the pair's lock only to accept.           *)
ResolveRequestStart(r) == \E i \in Ids, op \in {"accept", "reject", "cancel"} :
  /\ asked[i] # None
  /\ Begin(r, op, IF op = "cancel" THEN asked[i].sender ELSE peer(asked[i].sender),
           i, None, "take row")
  /\ UNCHANGED friendVars

(* Mutant: without FOR UPDATE.                                               *)
TakeRowUnlocked(r) ==
  LET i == req[r].on
  IN  /\ At(r, "take row")
      /\ IF i \in Live THEN Go(r, "blocked?") ELSE Refuse(r)
      /\ UNCHANGED friendVars

TakeRow(r) ==
  LET i == req[r].on
  IN  /\ At(r, "take row") /\ ~RowLocked(i)
      /\ IF i \in Live THEN Take(r, "blocked?", i) ELSE Refuse(r)
      /\ UNCHANGED friendVars

CheckBlocked(r) ==
  /\ At(r, "blocked?")
  /\ IF hasEitherDirection THEN Refuse(r) ELSE Go(r, "settle")
  /\ UNCHANGED friendVars

Settle(r) ==
  LET i == req[r].on
  IN  /\ At(r, "settle")
      /\ \/ /\ req[r].op # "accept" /\ Done(r)
            /\ asked' = Resolved(i, IF req[r].op = "reject" THEN "rejected"
                                    ELSE "cancelled")
         \/ /\ req[r].op = "accept" /\ ~PairLocked
            /\ IF ActiveFriends
               THEN Done(r) /\ asked' = Resolved(i, "accepted")
               ELSE Take(r, "befriend", i) /\ UNCHANGED asked
      /\ UNCHANGED friendships

resolve(r) == \/ ResolveRequestStart(r) \/ TakeRow(r) \/ CheckBlocked(r)
              \/ Settle(r)

(* A request that waits for a row whose holder waits for the pair: the        *)
(* database rolls one of the two back.                                        *)
Deadlock(r) == \E q \in Reqs \ {r} :
  /\ At(r, "opposite") /\ Opposite(r) # {} /\ ~ActiveFriends
  /\ At(q, "settle") /\ req[q].op = "accept" /\ req[q].got \in Opposite(r)
  /\ \E victim \in {r, q} : Answer(victim, "deadlock")
  /\ UNCHANGED friendVars

unfriend(r) == \E i \in Active, u \in Users :
  /\ Begin(r, "unfriend", u, i, None, "done")
  /\ friendships' = [friendships EXCEPT ![i] = "ended"]
  /\ UNCHANGED asked

(* Blocks.  create() is four statements, each committed by itself, and the    *)
(* route goes on with the reveals, the offers and the match.                  *)
BlockStart(r) == \E u \in Users :
  /\ Begin(r, "block", u, None, None, "insert block")
  /\ UNCHANGED <<blocks, overtaken>>

PastTheirCheck ==
  {"opposite", "insert request", "befriend", "upsert consent", "fetch",
   "upsert maxed", "upsert offer"}

BlockRow(r) ==
  /\ At(r, "insert block")
  /\ Go(r, "hide")
  /\ blocks' = [blocks EXCEPT ![req[r].by] = r]
  /\ overtaken' = overtaken \cup {q \in Reqs : req[q].pc \in PastTheirCheck}

(* Mutant: whatever the state of the request.                                *)
CancelAnswered(r) ==
  /\ At(r, "cancel requests") /\ \A i \in Pending : ~RowLocked(i)
  /\ Go(r, "end friendship")
  /\ asked' = [i \in Ids |-> IF asked[i] # None
                             THEN [asked[i] EXCEPT !.state = "cancelled"]
                             ELSE asked[i]]
  /\ UNCHANGED friendships

CancelRequests(r) ==
  /\ At(r, "cancel requests") /\ \A i \in Pending : ~RowLocked(i)
  /\ Go(r, "end friendship")
  /\ asked' = [i \in Ids |-> IF i \in Pending
                             THEN [asked[i] EXCEPT !.state = "cancelled"]
                             ELSE asked[i]]
  /\ UNCHANGED friendships

EndFriendship(r) ==
  /\ At(r, "end friendship")
  /\ Go(r, "revoke reveals")
  /\ friendships' = [i \in Ids |-> IF i \in Active THEN "ended"
                                   ELSE friendships[i]]
  /\ UNCHANGED asked

remove(r) == \E u \in Users :
  /\ Begin(r, "unblock", u, None, None, "done")
  /\ blocks' = [blocks EXCEPT ![u] = None]
  /\ UNCHANGED overtaken

(* The worker's cleanup(): the ids chosen first, the rows changed later,      *)
(* whatever they have become.                                                 *)
(* Mutant: the comparison of the expiry turned round.                         *)
ChooseLive ==
  /\ worker.pc = "requests"
  /\ worker' = [pc |-> "expire requests", got |-> Live]
  /\ UNCHANGED friendVars

ChooseRequests ==
  /\ worker.pc = "requests"
  /\ worker' = [pc |-> "expire requests", got |-> Pending \ Live]
  /\ UNCHANGED friendVars

ExpireRequests ==
  /\ worker.pc = "expire requests" /\ \A i \in worker.got : ~RowLocked(i)
  /\ Pass("purge requests")
  /\ asked' = [i \in Ids |-> IF i \in worker.got /\ asked[i] # None
                             THEN [asked[i] EXCEPT !.state = "expired"]
                             ELSE asked[i]]
  /\ UNCHANGED friendships

PurgeRequests ==
  /\ worker.pc = "purge requests"
  /\ \A i \in Ids : ~RowLocked(i)
  /\ worker' = [pc |-> "calls", got |-> {}]
  /\ asked' = [i \in Ids |-> IF asked[i] # None /\ asked[i].age = "purgeable"
                             THEN None ELSE asked[i]]
  /\ UNCHANGED friendships

cleanup == ChooseRequests \/ ExpireRequests \/ PurgeRequests

Older == [fresh |-> "expired", expired |-> "purgeable"]

(* The purge comes 30 days after a request ran out, when what was under way   *)
(* and what was asked then is over.                                           *)
RequestAges == \E i \in Ids :
  /\ "age" \in workload.ops
  /\ asked[i] # None /\ asked[i].age # "purgeable"
  /\ asked[i].age = "expired" =>
       Live = {} /\ \A q \in Reqs : req[q].pc \in {"new", "done"}
  /\ asked' = [asked EXCEPT ![i].age = Older[@]]
  /\ UNCHANGED friendships
=============================================================================
