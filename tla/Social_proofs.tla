--------------------------- MODULE Social_proofs ---------------------------
(* Proofs about Social: what the locks of createRequest, resolve and block    *)
(* are for.  Whoever answers a friend request holds its row, alone, and the   *)
(* row is still pending; whoever inserts one, or a friendship, holds the lock *)
(* on the pair, alone, and what it read under the lock still holds.           *)
EXTENDS Social, TLAPS

PairSteps == {"opposite", "insert request", "befriend"}
RowSteps == {"blocked?", "settle", "befriend"}
Locking == {"lock pair"} \cup PairSteps \cup RowSteps

Shape == /\ DOMAIN req = Reqs
         /\ \A r \in Reqs : DOMAIN req[r] = DOMAIN Unused

(* The rows.                                                                  *)
RowsOK == /\ asked \in [Ids -> {None} \cup FriendRequest]
          /\ friendships \in [Ids -> {None} \cup FriendshipStates]

(* A lock has one holder.                                                     *)
Exclusive ==
  /\ \A r, q \in Reqs : req[r].pc \in PairSteps /\ req[q].pc \in PairSteps => r = q
  /\ \A r, q \in Reqs : /\ req[r].pc \in RowSteps /\ req[q].pc \in RowSteps
                        /\ req[r].got = req[q].got
                        => r = q

(* What a request knows while it holds a lock.                                *)
RowKnown(r) ==
  /\ req[r].pc \in RowSteps =>
       req[r].got \in Pending /\ asked[req[r].got].age # "purgeable"
  /\ req[r].pc \in {"blocked?", "settle"} => req[r].got = req[r].on

PairKnown(r) ==
  /\ req[r].pc \in {"lock pair", "opposite", "insert request"} => req[r].by \in Users
  /\ req[r].pc = "insert request" => ~ActiveFriends /\ Opposite(r) = {}
  /\ req[r].pc = "befriend" => ~ActiveFriends

(* A request inserts its row at its end.                                      *)
OwnRow == \A r \in Reqs : asked[r] # None => req[r].pc = "done"

(* Beside a friendship a request is live only if the accepted one ran out.    *)
Excused == \E i \in Ids : /\ asked[i] # None /\ asked[i].age = "expired"
                          /\ asked[i].state \in {"accepted", "expired"}
LiveOne == /\ \A i, j \in Live : i = j
           /\ ActiveFriends /\ Live # {} => Excused

LockInv ==
  /\ Shape /\ RowsOK /\ Exclusive /\ OwnRow /\ LiveOne
  /\ \A r \in Reqs : RowKnown(r) /\ PairKnown(r)

-----------------------------------------------------------------------------
(* A step of request r, and what it must know to keep the invariant when the  *)
(* rows stay as they are.                                                     *)
Moves(r) ==
  /\ req[r].pc # "done"
  /\ DOMAIN req' = Reqs /\ DOMAIN req'[r] = DOMAIN Unused
  /\ \A q \in Reqs \ {r} : req'[q] = req[q]
  /\ UNCHANGED friendVars

LEMMA MovesKeep ==
  ASSUME LockInv, NEW r \in Reqs, Moves(r), RowKnown(r)', PairKnown(r)',
         req'[r].pc \in PairSteps => \A q \in Reqs \ {r} : req[q].pc \notin PairSteps,
         req'[r].pc \in RowSteps =>
           \A q \in Reqs \ {r} : req[q].pc \in RowSteps => req[q].got # req'[r].got
  PROVE  LockInv'
<1> USE DEF LockInv, Moves, friendVars
<1>1. Pending' = Pending /\ Live' = Live /\ ActiveFriends' = ActiveFriends
  BY DEF Pending, Live, ActiveFriends, Active
<1>2. Shape' BY DEF Shape, Unused
<1>3. RowsOK' BY DEF RowsOK
<1>4. Exclusive' BY DEF Exclusive
<1>5. OwnRow' BY DEF OwnRow
<1>6. LiveOne' BY <1>1 DEF LiveOne, Excused
<1>7. ASSUME NEW q \in Reqs, q # r PROVE (RowKnown(q) /\ PairKnown(q))'
  <2>1. req'[q] = req[q] BY <1>7
  <2> QED BY <1>1, <2>1 DEF RowKnown, PairKnown, Opposite
<1> QED BY <1>2, <1>3, <1>4, <1>5, <1>6, <1>7

(* A step of request r that has no lock afterwards.                           *)
Elsewhere(r) == Moves(r) /\ req'[r].pc \notin Locking

LEMMA ElsewhereKeeps ==
  ASSUME LockInv, NEW r \in Reqs, Elsewhere(r)
  PROVE  LockInv'
<1>1. RowKnown(r)' /\ PairKnown(r)'
  BY DEF Elsewhere, RowKnown, PairKnown, Locking, PairSteps, RowSteps
<1> QED BY <1>1, MovesKeep DEF Elsewhere, Locking

(* A step that changes rows, but makes nothing live or active that was not,   *)
(* and leaves alone the rows that are held.                                   *)
Shrinks ==
  /\ RowsOK' /\ Shape'
  /\ \A q \in Reqs : \/ req'[q] = req[q]
                     \/ req[q].pc # "done" /\ req'[q].pc \notin Locking
  /\ Live' \subseteq Live /\ (ActiveFriends' => ActiveFriends)
  /\ \A i \in Ids : asked'[i] # None => asked[i] # None
  /\ \A i \in Live' : asked'[i].sender = asked[i].sender
  /\ \A q \in Reqs : req'[q].pc \in RowSteps =>
       req[q].got \in Pending' /\ asked'[req[q].got].age # "purgeable"
  /\ Excused => Excused' \/ Live' = {}

LEMMA ShrinksKeeps ==
  ASSUME LockInv, Shrinks
  PROVE  LockInv'
<1> USE DEF LockInv, Shrinks
<1>4. Exclusive' BY DEF Exclusive, Locking
<1>5. OwnRow'
  <2>1. Reqs \subseteq Ids BY DEF Ids
  <2> QED BY <2>1 DEF OwnRow
<1>6. LiveOne' BY DEF LiveOne
<1>7. ASSUME NEW q \in Reqs PROVE (RowKnown(q) /\ PairKnown(q))'
  <2>1. CASE req'[q] = req[q]
    <3>1. Opposite(q)' \subseteq Opposite(q) BY <2>1 DEF Opposite
    <3> QED BY <2>1, <3>1 DEF RowKnown, PairKnown
  <2>2. CASE req'[q].pc \notin Locking
    BY <2>2 DEF RowKnown, PairKnown, Locking, PairSteps, RowSteps
  <2> QED BY <2>1, <2>2
<1> QED BY <1>4, <1>5, <1>6, <1>7

LEMMA Goes ==
  ASSUME Shape, NEW r \in Reqs, NEW pc, pc \notin Locking, req[r].pc # "done",
         Go(r, pc), UNCHANGED friendVars
  PROVE  Elsewhere(r)
BY DEF Shape, Elsewhere, Moves, Go, Unused

LEMMA Takes ==
  ASSUME Shape, NEW r \in Reqs, NEW pc, NEW x, pc \notin Locking,
         req[r].pc # "done", Take(r, pc, x), UNCHANGED friendVars
  PROVE  Elsewhere(r)
BY DEF Shape, Elsewhere, Moves, Take, Unused

LEMMA Replies ==
  ASSUME Shape, NEW r \in Reqs, NEW a, NEW x,
         req[r].pc # "done", Reply(r, a, x), UNCHANGED friendVars
  PROVE  Elsewhere(r)
BY DEF Shape, Elsewhere, Moves, Reply, Unused, Locking, PairSteps, RowSteps

LEMMA Begins ==
  ASSUME Shape, NEW r \in Reqs, NEW op, NEW by, NEW on, NEW arg, NEW pc,
         pc \notin Locking, Begin(r, op, by, on, arg, pc), UNCHANGED friendVars
  PROVE  Elsewhere(r)
BY DEF Shape, Elsewhere, Moves, Begin, Unused

-----------------------------------------------------------------------------
(* Everything a request does about the encounter and the messages.            *)
LEMMA MeetingElsewhere ==
  ASSUME Shape, NEW r \in Reqs, UNCHANGED friendVars, OfMeeting(r)
  PROVE  Elsewhere(r)
<1> USE DEF At, Locking, PairSteps, RowSteps
<1>1. CASE Leave(r)
  <2>1. CASE LeaveStart(r) BY <2>1, Begins DEF LeaveStart
  <2>2. CASE end(r) BY <2>2, Goes DEF end
  <2>3. CASE finalizeTiming(r) BY <2>3, Replies DEF finalizeTiming, Done, Answer
  <2> QED BY <1>1, <2>1, <2>2, <2>3 DEF Leave
<1>2. CASE Report(r)
  <2>1. CASE ReportStart(r) BY <2>1, Begins DEF ReportStart
  <2>2. CASE ReportLook(r)
    BY <2>2, Goes, Replies DEF ReportLook, Done, Refuse, Answer
  <2>3. CASE createReport(r) BY <2>3, Replies DEF createReport, Done, Answer
  <2> QED BY <1>2, <2>1, <2>2, <2>3 DEF Report
<1>3. CASE Rate(r)
  <2>1. CASE RateStart(r) BY <2>1, Begins DEF RateStart
  <2>2. CASE RateCheck(r) BY <2>2, Goes, Replies DEF RateCheck, Refuse, Answer
  <2>3. CASE RateInsert(r) BY <2>3, Goes, Replies DEF RateInsert, Refuse, Answer
  <2>4. CASE RateReadPeer(r) BY <2>4, Takes DEF RateReadPeer
  <2>5. CASE RateCommit(r) BY <2>5, Replies DEF RateCommit, Answer
  <2> QED BY <1>3, <2>1, <2>2, <2>3, <2>4, <2>5 DEF Rate
<1>4. CASE Cards(r)
  <2>1. CASE CardStart(r) BY <2>1, Begins DEF CardStart
  <2>2. CASE revealOwnCard(r) BY <2>2, Goes, Replies DEF revealOwnCard, Refuse, Answer
  <2>3. CASE authorizeCallCard(r)
    BY <2>3, Goes, Takes, Replies DEF authorizeCallCard, Done, Refuse, Answer
  <2> QED BY <1>4, <2>1, <2>2, <2>3 DEF Cards
<1>5. CASE Reconnect(r)
  <2>1. CASE OfferStart(r) BY <2>1, Begins DEF OfferStart
  <2>2. CASE createReconnect(r)
    BY <2>2, Goes, Replies DEF createReconnect, Done, Refuse, Answer
  <2>3. CASE ResolveStart(r) BY <2>3, Begins DEF ResolveStart
  <2>4. CASE resolveReconnect(r)
    BY <2>4, Goes, Replies DEF resolveReconnect, Done, Refuse, Answer
  <2> QED BY <1>5, <2>1, <2>2, <2>3, <2>4 DEF Reconnect
<1>6. CASE hide(r) BY <1>6, Begins DEF hide
<1>7. CASE BlockHide(r) BY <1>7, Goes DEF BlockHide
<1>8. CASE RevokeReveals(r) BY <1>8, Goes DEF RevokeReveals
<1>9. CASE InvalidateOffers(r) BY <1>9, Goes, Replies DEF InvalidateOffers, Done, Answer
<1> QED BY <1>1, <1>2, <1>3, <1>4, <1>5, <1>6, <1>7, <1>8, <1>9 DEF OfMeeting

LEMMA ChatElsewhere ==
  ASSUME Shape, NEW r \in Reqs, UNCHANGED friendVars, Chat(r)
  PROVE  Elsewhere(r)
<1> USE DEF At, Locking, PairSteps, RowSteps
<1>1. CASE ChatStart(r) BY <1>1, Begins DEF ChatStart
<1>2. CASE nextSequence(r) BY <1>2, Takes DEF nextSequence
<1>3. CASE addRandomMessage(r)
  BY <1>3, Goes, Replies DEF addRandomMessage, Refuse, Answer
<1> QED BY <1>1, <1>2, <1>3 DEF Chat

LEMMA MessagesElsewhere ==
  ASSUME Shape, NEW r \in Reqs, OfMessages(r)
  PROVE  Elsewhere(r)
<1> USE DEF At, Locking, PairSteps, RowSteps
<1>f. UNCHANGED friendVars BY DEF OfMessages
<1>1. CASE send(r)
  <2>1. CASE SendStart(r) BY <1>f, <2>1, Begins DEF SendStart
  <2>2. CASE SendAccess(r) BY <1>f, <2>2, Goes, Replies DEF SendAccess, Refuse, Answer
  <2>3. CASE SendLock(r) BY <1>f, <2>3, Takes, Replies DEF SendLock, Answer
  <2>4. CASE Store(r) BY <1>f, <2>4, Replies DEF Store, Answer
  <2> QED BY <1>1, <2>1, <2>2, <2>3, <2>4 DEF send
<1>2. CASE deleteMessage(r) BY <1>f, <1>2, Begins DEF deleteMessage
<1>3. CASE markRead(r) BY <1>f, <1>3, Begins DEF markRead
<1> QED BY <1>1, <1>2, <1>3 DEF OfMessages

-----------------------------------------------------------------------------
(* Requests and friendships.                                                  *)
LEMMA PeerFacts ==
  \A u \in Users : /\ peer(u) \in Users /\ peer(u) # u
                   /\ \A v \in Users : v = u \/ v = peer(u)
BY PairAssumption DEF peer

LEMMA AskKeeps ==
  ASSUME LockInv, NEW r \in Reqs, AskStart(r) \/ LockPair(r) \/ FindOpposite(r)
  PROVE  LockInv' /\ UNCHANGED friendVars
<1> USE DEF LockInv, At, PairSteps, RowSteps
<1>1. CASE AskStart(r)
  <2> PICK u \in Users : Begin(r, "ask", u, None, None, "lock pair")
    BY <1>1 DEF AskStart
  <2>0. req[r] = Unused /\ Unused.pc = "new" BY DEF Begin, Unused
  <2>1. Moves(r) BY <1>1, <2>0 DEF AskStart, Begin, Moves, Shape, Unused
  <2>2. req'[r].pc = "lock pair" /\ req'[r].by \in Users BY DEF Begin, Shape
  <2>3. RowKnown(r)' /\ PairKnown(r)' BY <2>2 DEF RowKnown, PairKnown
  <2> QED BY <2>1, <2>2, <2>3, MovesKeep DEF Moves
<1>2. CASE LockPair(r)
  <2>1. CASE Refuse(r)
    BY <1>2, <2>1, Replies, ElsewhereKeeps DEF LockPair, Refuse, Answer
  <2>2. CASE Go(r, "opposite")
    <3>1. Moves(r) BY <1>2, <2>2 DEF LockPair, Go, Moves, Shape, Unused
    <3>2. req'[r].pc = "opposite" /\ req'[r].by = req[r].by
      BY <2>2 DEF Go, Shape, Unused
    <3>3. RowKnown(r)' /\ PairKnown(r)' BY <1>2, <3>2 DEF LockPair, RowKnown, PairKnown
    <3>4. \A q \in Reqs : req[q].pc \notin PairSteps BY <1>2 DEF LockPair, PairLocked, Some
    <3> QED BY <3>1, <3>2, <3>3, <3>4, MovesKeep DEF Moves
  <2> QED BY <1>2, <2>1, <2>2 DEF LockPair
<1>3. CASE FindOpposite(r)
  <2>0. UNCHANGED friendVars /\ req[r].pc = "opposite" BY <1>3 DEF FindOpposite
  <2>p. \A q \in Reqs \ {r} : req[q].pc \notin PairSteps BY <2>0 DEF Exclusive
  <2>1. CASE Done(r) BY <2>0, <2>1, Replies, ElsewhereKeeps DEF Done, Answer
  <2>2. CASE ~ActiveFriends /\ Opposite(r) = {} /\ Go(r, "insert request")
    <3>1. Moves(r) BY <2>0, <2>2 DEF Go, Moves, Shape, Unused
    <3>2. req'[r].pc = "insert request" /\ req'[r].by = req[r].by
      BY <2>2 DEF Go, Shape, Unused
    <3>3. ~ActiveFriends' /\ Opposite(r)' = {}
      BY <2>0, <2>2, <3>2
      DEF friendVars, ActiveFriends, Active, Opposite, Live, Pending
    <3>4. RowKnown(r)' /\ PairKnown(r)' BY <2>0, <3>2, <3>3 DEF RowKnown, PairKnown
    <3> QED BY <2>0, <2>p, <3>1, <3>2, <3>4, MovesKeep
  <2>3. ASSUME ~ActiveFriends,
               NEW i \in Opposite(r), ~RowLocked(i), Take(r, "befriend", i)
        PROVE  LockInv'
    <3>1. Moves(r) BY <2>0, <2>3 DEF Take, Moves, Shape, Unused
    <3>2. req'[r].pc = "befriend" /\ req'[r].got = i
      BY <2>3 DEF Take, Shape, Unused
    <3>3. i \in Live BY DEF Opposite
    <3>4. ~ActiveFriends' /\ i \in Pending' /\ asked'[i].age # "purgeable"
      BY <2>0, <2>3, <3>3 DEF friendVars, ActiveFriends, Active, Live, Pending
    <3>5. RowKnown(r)' /\ PairKnown(r)' BY <3>2, <3>4 DEF RowKnown, PairKnown
    <3>6. \A q \in Reqs \ {r} : req[q].pc \in RowSteps => req[q].got # i
      BY <2>3 DEF RowLocked, RowHeld
    <3> QED BY <2>p, <3>1, <3>2, <3>5, <3>6, MovesKeep
  <2> QED BY <1>3, <2>0, <2>1, <2>2, <2>3 DEF FindOpposite
<1> QED BY <1>1, <1>2, <1>3 DEF AskStart, LockPair

LEMMA InsertKeeps ==
  ASSUME LockInv, NEW r \in Reqs, InsertRequest(r)
  PROVE  LockInv' /\ asked[r] = None /\ \A i \in Ids \ {r} : asked'[i] = asked[i]
<1> DEFINE row == [sender |-> req[r].by, state |-> "pending",
                   age |-> IF encounter.visible THEN "fresh" ELSE "expired"]
<1>0. req[r].pc = "insert request" /\ req[r].by \in Users /\ r \in Ids
  BY DEF InsertRequest, At, LockInv, PairKnown, Ids
<1>1. asked[r] = None BY <1>0 DEF LockInv, OwnRow
<1>2. asked' = asked \/ asked' = [asked EXCEPT ![r] = row] BY DEF InsertRequest
<1>e. \A i \in Ids \ {r} : asked'[i] = asked[i] BY <1>2 DEF LockInv, RowsOK
<1>3. CASE asked' = asked
  <2>1. Elsewhere(r)
    BY <1>0, <1>3, Replies DEF InsertRequest, Done, Answer, friendVars, LockInv
  <2> QED BY <1>1, <1>e, <2>1, ElsewhereKeeps
<1>4. CASE asked' = [asked EXCEPT ![r] = row] /\ ~\E i \in Pending : asked[i].sender = req[r].by
  <2> USE DEF LockInv
  <2>1. row \in FriendRequest BY <1>0 DEF FriendRequest
  <2>2. asked'[r] = row /\ row # None
    BY <1>0, <1>4, <2>1, NoneAssumption DEF RowsOK
  <2>3. RowsOK' BY <1>0, <1>4, <2>1 DEF RowsOK, InsertRequest
  <2>4. /\ DOMAIN req' = Reqs /\ DOMAIN req'[r] = DOMAIN Unused
        /\ req'[r].pc = "done" /\ \A q \in Reqs \ {r} : req'[q] = req[q]
    BY DEF InsertRequest, Done, Answer, Reply, Shape, Unused
  <2>5. Shape' BY <2>4 DEF Shape, Unused
  <2>6. Live = {}
    <3> SUFFICES ASSUME NEW i \in Live PROVE FALSE OBVIOUS
    <3>1. i \in Pending /\ asked[i].sender \in Users
      BY DEF Live, Pending, RowsOK, FriendRequest
    <3>2. asked[i].sender = peer(req[r].by) BY <1>0, <1>4, <3>1, PeerFacts
    <3> QED BY <1>0, <3>2 DEF PairKnown, Opposite
  <2>7. Pending' = Pending \cup {r}
    <3>1. row.state = "pending" OBVIOUS
    <3> HIDE DEF row
    <3> QED BY <1>0, <1>1, <1>e, <2>2, <3>1 DEF Pending
  <2>8. Live' \subseteq {r}
    <3>1. \A i \in Pending : i # r /\ i \in Ids BY <1>1 DEF Pending
    <3> QED BY <1>e, <2>6, <2>7, <3>1 DEF Live
  <2>9. ~ActiveFriends' BY <1>0 DEF InsertRequest, PairKnown, ActiveFriends, Active
  <2>10. Exclusive' BY <2>4 DEF Exclusive, PairSteps, RowSteps
  <2>11. OwnRow' BY <1>e, <2>4 DEF OwnRow, Ids
  <2>12. LiveOne' BY <2>8, <2>9 DEF LiveOne
  <2>13. ASSUME NEW q \in Reqs PROVE (RowKnown(q) /\ PairKnown(q))'
    <3>1. CASE q = r BY <2>4, <3>1 DEF RowKnown, PairKnown, RowSteps
    <3>2. CASE q # r
      <4>1. req'[q] = req[q] BY <2>4, <3>2
      <4>2. req[q].pc \notin PairSteps BY <1>0, <3>2 DEF Exclusive, PairSteps
      <4>3. RowKnown(q)' BY <1>1, <1>e, <2>7, <4>1 DEF RowKnown, Pending
      <4>4. PairKnown(q)' BY <4>1, <4>2 DEF PairKnown, PairSteps
      <4> QED BY <4>3, <4>4
    <3> QED BY <3>1, <3>2
  <2> QED BY <1>1, <1>e, <2>3, <2>5, <2>10, <2>11, <2>12, <2>13
<1> QED BY <1>3, <1>4 DEF InsertRequest

(* What SettledStays says of one step.                                        *)
Stays == \A i \in Ids : asked[i] # None /\ asked[i].state \in Answered =>
  \/ asked'[i] = None
  \/ asked'[i].state = asked[i].state
  \/ i \in worker.got /\ asked'[i].state = "expired"

LEMMA UnchangedStays == UNCHANGED asked => Stays
BY DEF Stays

(* A row is resolved, by whoever held it.                                     *)
LEMMA ResolvedFacts ==
  ASSUME RowsOK, NEW i \in Pending, NEW state \in Answered, asked' = Resolved(i, state)
  PROVE  /\ asked' \in [Ids -> {None} \cup FriendRequest]
         /\ asked'[i] # None /\ asked'[i].state = state /\ asked'[i].age = asked[i].age
         /\ \A j \in Ids \ {i} : asked'[j] = asked[j]
         /\ Pending' = Pending \ {i} /\ Live' = Live \ {i}
         /\ Excused => Excused'
         /\ Stays
<1> DEFINE new == [asked[i] EXCEPT !.state = state]
<1>1. i \in Ids /\ asked[i] \in FriendRequest /\ asked[i].state = "pending"
  BY DEF Pending, RowsOK
<1>2. new \in FriendRequest /\ new.state = state /\ new.age = asked[i].age
  BY <1>1 DEF FriendRequest
<1>3. asked' = [asked EXCEPT ![i] = new] BY DEF Resolved
<1> HIDE DEF new
<1>4. asked' \in [Ids -> {None} \cup FriendRequest] BY <1>2, <1>3 DEF RowsOK
<1>5. asked'[i] = new /\ \A j \in Ids \ {i} : asked'[j] = asked[j]
  BY <1>1, <1>3 DEF RowsOK
<1>6. new # None BY <1>2, NoneAssumption
<1>7. state # "pending" BY DEF Answered
<1>8. Pending' = Pending \ {i} BY <1>1, <1>2, <1>5, <1>7 DEF Pending
<1>9. Live' = Live \ {i} BY <1>5, <1>8 DEF Live, Pending
<1>10. Excused => Excused' BY <1>1, <1>5 DEF Excused
<1>11. Stays BY <1>1, <1>5 DEF Stays, Answered
<1> QED BY <1>2, <1>4, <1>5, <1>6, <1>8, <1>9, <1>10, <1>11

LEMMA FriendshipKeeps ==
  ASSUME LockInv, NEW r \in Reqs, createFriendship(r)
  PROVE  LockInv' /\ Stays
<1> DEFINE i == req[r].got
<1> USE DEF LockInv
<1>0. req[r].pc = "befriend" BY DEF createFriendship, At
<1>1. i \in Pending /\ asked[i].age # "purgeable" /\ ~ActiveFriends
  BY <1>0 DEF RowKnown, PairKnown, RowSteps
<1>2. Done(r) /\ asked' = Resolved(i, "accepted")
      /\ friendships' = [friendships EXCEPT ![r] = "active"]
  BY <1>1 DEF createFriendship
<1> HIDE DEF i
<1>3. "accepted" \in Answered BY DEF Answered
<1> DEFINE Facts ==
      /\ asked' \in [Ids -> {None} \cup FriendRequest]
      /\ asked'[i] # None /\ asked'[i].state = "accepted" /\ asked'[i].age = asked[i].age
      /\ \A j \in Ids \ {i} : asked'[j] = asked[j]
      /\ Pending' = Pending \ {i} /\ Live' = Live \ {i}
<1>4. Facts /\ Stays BY <1>1, <1>2, <1>3, ResolvedFacts
<1>5. RowsOK' BY <1>2, <1>4 DEF RowsOK, FriendshipStates, Ids
<1>6. /\ DOMAIN req' = Reqs /\ DOMAIN req'[r] = DOMAIN Unused
      /\ req'[r].pc = "done" /\ \A q \in Reqs \ {r} : req'[q] = req[q]
  BY <1>2 DEF Done, Answer, Reply, Shape, Unused
<1>7. Shape' BY <1>6 DEF Shape, Unused
<1>8. Exclusive' BY <1>6 DEF Exclusive, PairSteps, RowSteps
<1>9. OwnRow' BY <1>1, <1>4, <1>6 DEF OwnRow, Ids, Pending
<1>10. LiveOne'
  <2>1. CASE asked[i].age = "fresh"
    <3>1. i \in Live BY <1>1, <2>1 DEF Live
    <3>2. Live' = {} BY <1>4, <3>1 DEF LiveOne
    <3> QED BY <3>2 DEF LiveOne
  <2>2. CASE asked[i].age # "fresh"
    <3>1. i \in Ids /\ asked[i].age = "expired"
      BY <1>1, <2>2 DEF Pending, RowsOK, FriendRequest
    <3>2. Excused' BY <1>4, <3>1 DEF Excused
    <3> QED BY <1>4, <3>2 DEF LiveOne
  <2> QED BY <2>1, <2>2
<1>11. ASSUME NEW q \in Reqs PROVE (RowKnown(q) /\ PairKnown(q))'
  <2>1. CASE q = r BY <1>6, <2>1 DEF RowKnown, PairKnown, RowSteps
  <2>2. CASE q # r
    <3>1. req'[q] = req[q] BY <1>6, <2>2
    <3>2. req[q].pc \notin PairSteps BY <1>0, <2>2 DEF Exclusive, PairSteps
    <3>3. req[q].pc \in RowSteps => req[q].got # i
      BY <1>0, <2>2 DEF Exclusive, RowSteps, i
    <3>4. RowKnown(q)' BY <1>4, <3>1, <3>3 DEF RowKnown, RowSteps, Pending
    <3>5. PairKnown(q)' BY <3>1, <3>2 DEF PairKnown, PairSteps
    <3> QED BY <3>4, <3>5
  <2> QED BY <2>1, <2>2
<1> QED BY <1>4, <1>5, <1>7, <1>8, <1>9, <1>10, <1>11

LEMMA ResolveKeeps ==
  ASSUME LockInv, NEW r \in Reqs, resolve(r)
  PROVE  LockInv' /\ Stays
<1> USE DEF LockInv, At
<1>1. CASE ResolveRequestStart(r)
  <2>1. UNCHANGED friendVars /\ Elsewhere(r)
    BY <1>1, Begins DEF ResolveRequestStart, Locking, PairSteps, RowSteps
  <2> QED BY <2>1, ElsewhereKeeps, UnchangedStays DEF friendVars
<1>2. CASE TakeRow(r)
  <2>0. UNCHANGED friendVars /\ req[r].pc = "take row" BY <1>2 DEF TakeRow
  <2>s. Stays BY <2>0, UnchangedStays DEF friendVars
  <2>1. CASE Refuse(r) BY <2>0, <2>s, <2>1, Replies, ElsewhereKeeps DEF Refuse, Answer
  <2>2. CASE req[r].on \in Live /\ ~RowLocked(req[r].on) /\ Take(r, "blocked?", req[r].on)
    <3>1. Moves(r) BY <2>0, <2>2 DEF Take, Moves, Shape, Unused
    <3>2. req'[r].pc = "blocked?" /\ req'[r].got = req[r].on /\ req'[r].on = req[r].on
      BY <2>2 DEF Take, Shape, Unused
    <3>3. req[r].on \in Pending' /\ asked'[req[r].on].age # "purgeable"
      BY <2>0, <2>2 DEF friendVars, Live, Pending
    <3>4. RowKnown(r)' /\ PairKnown(r)' BY <3>2, <3>3 DEF RowKnown, PairKnown
    <3>5. \A q \in Reqs \ {r} : req[q].pc \in RowSteps => req[q].got # req[r].on
      BY <2>2 DEF RowLocked, RowHeld, RowSteps
    <3>6. req'[r].pc \notin PairSteps BY <3>2 DEF PairSteps
    <3> QED BY <2>s, <3>1, <3>2, <3>4, <3>5, <3>6, MovesKeep
  <2> QED BY <1>2, <2>1, <2>2 DEF TakeRow
<1>3. CASE CheckBlocked(r)
  <2>0. UNCHANGED friendVars /\ req[r].pc = "blocked?" BY <1>3 DEF CheckBlocked
  <2>s. Stays BY <2>0, UnchangedStays DEF friendVars
  <2>1. CASE Refuse(r) BY <2>0, <2>s, <2>1, Replies, ElsewhereKeeps DEF Refuse, Answer
  <2>2. CASE Go(r, "settle")
    <3>1. Moves(r) BY <2>0, <2>2 DEF Go, Moves, Shape, Unused
    <3>2. req'[r].pc = "settle" /\ req'[r].got = req[r].got /\ req'[r].on = req[r].on
      BY <2>2 DEF Go, Shape, Unused
    <3>3. RowKnown(r)' /\ PairKnown(r)'
      BY <2>0, <3>2 DEF RowKnown, PairKnown, RowSteps, Pending, friendVars
    <3>5. \A q \in Reqs \ {r} : req[q].pc \in RowSteps => req[q].got # req[r].got
      BY <2>0 DEF Exclusive, RowSteps
    <3>6. req'[r].pc \notin PairSteps BY <3>2 DEF PairSteps
    <3> QED BY <2>s, <3>1, <3>2, <3>3, <3>5, <3>6, MovesKeep
  <2> QED BY <1>3, <2>1, <2>2 DEF CheckBlocked
<1>4. CASE Settle(r)
  <2> DEFINE i == req[r].on
  <2>0. req[r].pc = "settle" /\ UNCHANGED friendships BY <1>4 DEF Settle
  <2>1. i = req[r].got /\ i \in Pending /\ asked[i].age # "purgeable"
    BY <2>0 DEF RowKnown, RowSteps
  <2>2. \A q \in Reqs \ {r} : req[q].pc \in RowSteps => req[q].got # i
    BY <2>0, <2>1 DEF Exclusive, RowSteps
  <2>3. ASSUME NEW state \in Answered, Done(r), asked' = Resolved(i, state)
        PROVE  LockInv' /\ Stays
    <3> HIDE DEF i
    <3>1. /\ asked' \in [Ids -> {None} \cup FriendRequest]
          /\ \A j \in Ids \ {i} : asked'[j] = asked[j]
          /\ Pending' = Pending \ {i} /\ Live' = Live \ {i}
          /\ Excused => Excused'
          /\ Stays
      BY <2>1, <2>3, ResolvedFacts
    <3>2. /\ DOMAIN req' = Reqs /\ DOMAIN req'[r] = DOMAIN Unused
          /\ req'[r].pc = "done" /\ \A q \in Reqs \ {r} : req'[q] = req[q]
      BY <2>3 DEF Done, Answer, Reply, Shape, Unused
    <3>3. RowsOK' /\ Shape' BY <2>0, <3>1, <3>2 DEF RowsOK, Shape, Unused
    <3>4. \A q \in Reqs : \/ req'[q] = req[q]
                          \/ req[q].pc # "done" /\ req'[q].pc \notin Locking
      BY <2>0, <3>2 DEF Locking, PairSteps, RowSteps
    <3>5. ActiveFriends' => ActiveFriends BY <2>0 DEF ActiveFriends, Active
    <3>6. \A q \in Reqs : req'[q].pc \in RowSteps =>
            req[q].got \in Pending' /\ asked'[req[q].got].age # "purgeable"
      <4> SUFFICES ASSUME NEW q \in Reqs, req'[q].pc \in RowSteps
                   PROVE  req[q].got \in Pending' /\ asked'[req[q].got].age # "purgeable"
        OBVIOUS
      <4>1. q # r BY <3>2 DEF RowSteps
      <4>2. req[q].pc \in RowSteps /\ req[q].got # i BY <2>2, <3>2, <4>1
      <4> QED BY <3>1, <4>2 DEF RowKnown, Pending
    <3>7. \A j \in Ids : asked'[j] # None => asked[j] # None
      BY <2>1, <3>1 DEF Pending
    <3>8. \A j \in Live' : asked'[j].sender = asked[j].sender
      BY <3>1 DEF Live, Pending
    <3>9. Live' \subseteq Live BY <3>1
    <3>10. Shrinks BY <3>1, <3>3, <3>4, <3>5, <3>6, <3>7, <3>8, <3>9 DEF Shrinks
    <3>11. LockInv' BY <3>10, ShrinksKeeps
    <3> QED BY <3>1, <3>11
  <2>4. CASE ~PairLocked /\ ~ActiveFriends /\ Take(r, "befriend", i) /\ UNCHANGED asked
    <3>1. Moves(r) BY <2>0, <2>4 DEF Take, Moves, Shape, Unused, friendVars
    <3>2. req'[r].pc = "befriend" /\ req'[r].got = i BY <2>4 DEF Take, Shape, Unused
    <3>3. ~ActiveFriends' /\ i \in Pending' /\ asked'[i].age # "purgeable"
      BY <2>0, <2>1, <2>4 DEF ActiveFriends, Active, Pending
    <3>4. RowKnown(r)' /\ PairKnown(r)' BY <3>2, <3>3 DEF RowKnown, PairKnown
    <3>5. \A q \in Reqs : req[q].pc \notin PairSteps
      BY <2>4 DEF PairLocked, Some, PairSteps
    <3> QED BY <2>2, <2>4, <3>1, <3>2, <3>4, <3>5, MovesKeep, UnchangedStays
  <2>5. {"rejected", "cancelled", "accepted"} \subseteq Answered BY DEF Answered
  <2> QED BY <1>4, <2>3, <2>4, <2>5 DEF Settle
<1> QED BY <1>1, <1>2, <1>3, <1>4 DEF resolve

LEMMA DeadlockKeeps ==
  ASSUME LockInv, NEW r \in Reqs, Deadlock(r)
  PROVE  LockInv' /\ Stays
<1> PICK q \in Reqs \ {r} :
      /\ At(r, "opposite") /\ At(q, "settle")
      /\ \E victim \in {r, q} : Answer(victim, "deadlock")
  BY DEF Deadlock
<1>1. PICK victim \in {r, q} : Answer(victim, "deadlock") OBVIOUS
<1>2. UNCHANGED friendVars /\ victim \in Reqs BY DEF Deadlock
<1>3. req[victim].pc # "done" BY DEF At
<1>4. Elsewhere(victim) BY <1>1, <1>2, <1>3, Replies DEF Answer, LockInv
<1> QED BY <1>2, <1>4, ElsewhereKeeps, UnchangedStays DEF friendVars

(* Friendships end.                                                           *)
LEMMA EndKeeps ==
  ASSUME LockInv, NEW r \in Reqs, unfriend(r) \/ EndFriendship(r)
  PROVE  LockInv' /\ Stays
<1> USE DEF LockInv
<1>1. UNCHANGED asked BY DEF unfriend, EndFriendship
<1>2. /\ friendships' \in [Ids -> {None} \cup FriendshipStates]
      /\ Active' \subseteq Active
  BY DEF unfriend, EndFriendship, RowsOK, Active, FriendshipStates
<1>3. /\ req[r].pc # "done" /\ DOMAIN req' = Reqs /\ DOMAIN req'[r] = DOMAIN Unused
      /\ req'[r].pc \notin Locking /\ \A q \in Reqs \ {r} : req'[q] = req[q]
  <2>1. CASE unfriend(r)
    <3> PICK i \in Active, u \in Users : Begin(r, "unfriend", u, i, None, "done")
      BY <2>1 DEF unfriend
    <3>1. req[r] = Unused /\ Unused.pc = "new" BY DEF Begin, Unused
    <3> QED BY <3>1 DEF Begin, Shape, Unused, Locking, PairSteps, RowSteps
  <2>2. CASE EndFriendship(r)
    BY <2>2 DEF EndFriendship, At, Go, Shape, Unused, Locking, PairSteps, RowSteps
  <2> QED BY <2>1, <2>2
<1>4. RowsOK' /\ Shape' BY <1>1, <1>2, <1>3 DEF RowsOK, Shape, Unused
<1>5. Live' = Live /\ Pending' = Pending /\ (ActiveFriends' => ActiveFriends)
  BY <1>1, <1>2 DEF Live, Pending, ActiveFriends
<1>6. \A q \in Reqs : req'[q].pc \in RowSteps =>
        req[q].got \in Pending' /\ asked'[req[q].got].age # "purgeable"
  BY <1>1, <1>3, <1>5 DEF RowKnown, Locking
<1>7. Excused' = Excused BY <1>1 DEF Excused
<1>8. Shrinks BY <1>1, <1>3, <1>4, <1>5, <1>6, <1>7 DEF Shrinks
<1> QED BY <1>1, <1>8, ShrinksKeeps, UnchangedStays

(* A block cancels what is pending; nothing that it cancels is held.          *)
LEMMA CancelKeeps ==
  ASSUME LockInv, NEW r \in Reqs, CancelRequests(r)
  PROVE  LockInv' /\ Stays
<1> USE DEF LockInv
<1>0. req[r].pc = "cancel requests" /\ UNCHANGED friendships
      /\ \A i \in Pending : ~RowLocked(i)
  BY DEF CancelRequests, At
<1>1. asked' = [i \in Ids |-> IF i \in Pending THEN [asked[i] EXCEPT !.state = "cancelled"]
                              ELSE asked[i]]
  BY DEF CancelRequests
<1>2. \A i \in Pending : /\ i \in Ids /\ asked[i] # None
                         /\ asked[i] \in FriendRequest /\ asked[i].state = "pending"
  BY DEF Pending, RowsOK
<1>3. \A i \in Pending : /\ asked'[i] \in FriendRequest
                         /\ asked'[i].state = "cancelled"
                         /\ asked'[i].sender = asked[i].sender
  BY <1>1, <1>2 DEF FriendRequest, Answered
<1>4. \A i \in Ids \ Pending : asked'[i] = asked[i] BY <1>1
<1>5. asked' \in [Ids -> {None} \cup FriendRequest] BY <1>1, <1>2, <1>3 DEF RowsOK
<1>6. \A q \in Reqs : req[q].pc \notin RowSteps
  BY <1>0 DEF RowKnown, RowLocked, RowHeld, RowSteps
<1>7. /\ DOMAIN req' = Reqs /\ DOMAIN req'[r] = DOMAIN Unused
      /\ req'[r].pc = "end friendship" /\ \A q \in Reqs \ {r} : req'[q] = req[q]
  BY DEF CancelRequests, Go, Shape, Unused
<1>8. RowsOK' /\ Shape' BY <1>0, <1>5, <1>7 DEF RowsOK, Shape, Unused
<1>9. Pending' = {} BY <1>3, <1>4 DEF Pending
<1>10. Live' = {} BY <1>9 DEF Live
<1>11. \A i \in Ids : asked'[i] # None => asked[i] # None BY <1>2, <1>4
<1>12. \A q \in Reqs : req'[q].pc \notin RowSteps BY <1>6, <1>7 DEF RowSteps
<1>13. Shrinks
  BY <1>0, <1>7, <1>8, <1>10, <1>11, <1>12
  DEF Shrinks, Locking, PairSteps, RowSteps, ActiveFriends, Active
<1>14. Stays BY <1>2, <1>4 DEF Stays, Answered
<1> QED BY <1>13, <1>14, ShrinksKeeps

LEMMA BlockElsewhere ==
  ASSUME LockInv, NEW r \in Reqs, BlockStart(r) \/ BlockRow(r) \/ remove(r),
         UNCHANGED friendVars
  PROVE  Elsewhere(r)
<1> USE DEF LockInv, At, Locking, PairSteps, RowSteps
<1>1. CASE BlockStart(r) BY <1>1, Begins DEF BlockStart
<1>2. CASE BlockRow(r) BY <1>2, Goes DEF BlockRow
<1>3. CASE remove(r) BY <1>3, Begins DEF remove
<1> QED BY <1>1, <1>2, <1>3

-----------------------------------------------------------------------------
(* The worker and time.                                                       *)
LEMMA ExpireKeeps ==
  ASSUME LockInv, ExpireRequests, UNCHANGED req
  PROVE  LockInv' /\ Stays
<1> USE DEF LockInv
<1>0. UNCHANGED friendships /\ \A i \in worker.got : ~RowLocked(i)
  BY DEF ExpireRequests
<1>1. asked' = [i \in Ids |-> IF i \in worker.got /\ asked[i] # None
                              THEN [asked[i] EXCEPT !.state = "expired"] ELSE asked[i]]
  BY DEF ExpireRequests
<1> DEFINE Over == {i \in Ids : i \in worker.got /\ asked[i] # None}
<1>2. \A i \in Over : asked[i] \in FriendRequest BY DEF RowsOK
<1>3. \A i \in Over : /\ asked'[i] \in FriendRequest
                      /\ asked'[i].state = "expired" /\ asked'[i].age = asked[i].age
                      /\ asked'[i].sender = asked[i].sender
  BY <1>1, <1>2 DEF FriendRequest, Answered
<1>4. \A i \in Ids \ Over : asked'[i] = asked[i] BY <1>1
<1>5. RowsOK' BY <1>0, <1>1, <1>2, <1>3 DEF RowsOK
<1>6. Shape' BY DEF Shape, Unused
<1>7. Pending' = Pending \ Over BY <1>3, <1>4 DEF Pending
<1>8. Live' \subseteq Live /\ \A i \in Live' : asked'[i] = asked[i]
  BY <1>4, <1>7 DEF Live, Pending
<1>9. \A q \in Reqs : req'[q].pc \in RowSteps =>
        req[q].got \in Pending' /\ asked'[req[q].got].age # "purgeable"
  <2> SUFFICES ASSUME NEW q \in Reqs, req[q].pc \in RowSteps
               PROVE  req[q].got \in Pending' /\ asked'[req[q].got].age # "purgeable"
    OBVIOUS
  <2>1. req[q].got \in Pending /\ asked[req[q].got].age # "purgeable" BY DEF RowKnown
  <2>2. req[q].got \notin worker.got BY <1>0 DEF RowLocked, RowHeld, RowSteps
  <2> QED BY <1>4, <1>7, <2>1, <2>2 DEF Pending
<1>10. \A i \in Ids : asked'[i] # None => asked[i] # None BY <1>4
<1>11. Excused => Excused'
  <2> SUFFICES ASSUME NEW i \in Ids, asked[i] # None, asked[i].age = "expired",
                      asked[i].state \in {"accepted", "expired"}
               PROVE  Excused'
    BY DEF Excused
  <2>1. asked'[i] # None BY <1>3, <1>4, NoneAssumption
  <2> QED BY <1>3, <1>4, <2>1 DEF Excused
<1>12. Shrinks BY <1>0, <1>5, <1>6, <1>8, <1>9, <1>10, <1>11 DEF Shrinks, ActiveFriends, Active
<1>13. Stays BY <1>3, <1>4 DEF Stays
<1> QED BY <1>12, <1>13, ShrinksKeeps

LEMMA PurgeKeeps ==
  ASSUME LockInv, PurgeRequests, UNCHANGED req
  PROVE  LockInv' /\ Stays
<1> USE DEF LockInv
<1>0. UNCHANGED friendships /\ \A i \in Ids : ~RowLocked(i) BY DEF PurgeRequests
<1>1. asked' = [i \in Ids |-> IF asked[i] # None /\ asked[i].age = "purgeable"
                              THEN None ELSE asked[i]]
  BY DEF PurgeRequests
<1>2. \A i \in Ids : asked'[i] # None => asked'[i] = asked[i] BY <1>1
<1>3. RowsOK' BY <1>0, <1>1 DEF RowsOK
<1>4. Shape' BY DEF Shape, Unused
<1>5. Live' \subseteq Live /\ \A i \in Live' : asked'[i] = asked[i]
  BY <1>2 DEF Live, Pending
<1>6. \A q \in Reqs : req[q].pc \notin RowSteps
  BY <1>0 DEF RowLocked, RowHeld, RowSteps, RowKnown, Pending
<1>7. Excused => Excused' BY <1>1 DEF Excused
<1>8. Shrinks BY <1>0, <1>2, <1>3, <1>4, <1>5, <1>6, <1>7 DEF Shrinks, ActiveFriends, Active
<1>9. Stays BY <1>2 DEF Stays
<1> QED BY <1>8, <1>9, ShrinksKeeps

LEMMA AgesKeeps ==
  ASSUME LockInv, RequestAges, UNCHANGED req
  PROVE  LockInv' /\ Stays
<1> USE DEF LockInv
<1>0. UNCHANGED friendships BY DEF RequestAges
<1>1. PICK i \in Ids :
        /\ asked[i] # None /\ asked[i].age # "purgeable"
        /\ asked[i].age = "expired" =>
             Live = {} /\ \A q \in Reqs : req[q].pc \in {"new", "done"}
        /\ asked' = [asked EXCEPT ![i].age = Older[@]]
  BY DEF RequestAges
<1> DEFINE new == [asked[i] EXCEPT !.age = Older[asked[i].age]]
<1>2. asked[i] \in FriendRequest /\ asked[i].age \in {"fresh", "expired"}
  BY <1>1 DEF RowsOK, FriendRequest
<1>3. /\ new \in FriendRequest /\ new.state = asked[i].state /\ new.age # "fresh"
      /\ asked[i].age = "fresh" => new.age = "expired"
  BY <1>2 DEF FriendRequest, Older
<1>4. asked' = [asked EXCEPT ![i] = new] BY <1>1
<1> HIDE DEF new
<1>5. asked'[i] = new /\ \A j \in Ids \ {i} : asked'[j] = asked[j] BY <1>4 DEF RowsOK
<1>6. RowsOK' BY <1>0, <1>3, <1>4 DEF RowsOK
<1>7. Shape' BY DEF Shape, Unused
<1>8. new # None BY <1>3, NoneAssumption
<1>9. Pending' = Pending BY <1>1, <1>3, <1>5, <1>8 DEF Pending
<1>10. Live' \subseteq Live \ {i} BY <1>3, <1>5, <1>9 DEF Live, Pending
<1>11. \A j \in Live' : asked'[j] = asked[j] BY <1>5, <1>10 DEF Live, Pending
<1>12. \A q \in Reqs : req'[q].pc \in RowSteps =>
         req[q].got \in Pending' /\ asked'[req[q].got].age # "purgeable"
  <2> SUFFICES ASSUME NEW q \in Reqs, req[q].pc \in RowSteps
               PROVE  req[q].got \in Pending /\ asked'[req[q].got].age # "purgeable"
    BY <1>9
  <2>1. req[q].got \in Pending /\ asked[req[q].got].age # "purgeable" BY DEF RowKnown
  <2>2. asked[i].age = "fresh" BY <1>1, <1>2 DEF RowSteps
  <2> QED BY <1>3, <1>5, <2>1, <2>2 DEF Pending
<1>13. Excused => Excused' \/ Live' = {}
  <2>1. CASE asked[i].age = "fresh" BY <1>3, <1>5, <2>1 DEF Excused
  <2>2. CASE asked[i].age = "expired" BY <1>1, <1>10, <2>2
  <2> QED BY <1>2, <2>1, <2>2
<1>14. \A j \in Ids : asked'[j] # None => asked[j] # None BY <1>1, <1>5
<1>15. Shrinks
  BY <1>0, <1>6, <1>7, <1>10, <1>11, <1>12, <1>13, <1>14 DEF Shrinks, ActiveFriends, Active
<1>16. Stays BY <1>3, <1>5 DEF Stays
<1> QED BY <1>15, <1>16, ShrinksKeeps

-----------------------------------------------------------------------------
LEMMA StepKeeps ==
  ASSUME LockInv, NEW r \in Reqs, Step(r)
  PROVE  LockInv' /\ Stays
<1>1. CASE OfEncounter(r)
  <2>1. UNCHANGED friendVars BY <1>1 DEF OfEncounter
  <2>2. Elsewhere(r)
    BY <1>1, <2>1, ChatElsewhere, MeetingElsewhere DEF OfEncounter, LockInv
  <2> QED BY <2>1, <2>2, ElsewhereKeeps, UnchangedStays DEF friendVars
<1>2. CASE OfMessages(r)
  <2>1. UNCHANGED friendVars BY <1>2 DEF OfMessages
  <2>2. Elsewhere(r) BY <1>2, MessagesElsewhere DEF LockInv
  <2> QED BY <2>1, <2>2, ElsewhereKeeps, UnchangedStays DEF friendVars
<1>3. CASE OfFriends(r)
  <2>1. CASE createRequest(r)
    <3>1. CASE AskStart(r) \/ LockPair(r) \/ FindOpposite(r)
      BY <3>1, AskKeeps, UnchangedStays DEF friendVars
    <3>2. CASE InsertRequest(r)
      <4>1. LockInv' /\ asked[r] = None /\ \A i \in Ids \ {r} : asked'[i] = asked[i]
        BY <3>2, InsertKeeps
      <4>2. Stays BY <4>1 DEF Stays
      <4> QED BY <4>1, <4>2
    <3> QED BY <2>1, <3>1, <3>2 DEF createRequest
  <2>2. CASE createFriendship(r) BY <2>2, FriendshipKeeps
  <2>3. CASE resolve(r) BY <2>3, ResolveKeeps
  <2>4. CASE Deadlock(r) BY <2>4, DeadlockKeeps
  <2>5. CASE unfriend(r) \/ EndFriendship(r) BY <2>5, EndKeeps
  <2>6. CASE CancelRequests(r) BY <2>6, CancelKeeps
  <2>7. CASE (BlockStart(r) \/ BlockRow(r) \/ remove(r)) /\ UNCHANGED friendVars
    BY <2>7, BlockElsewhere, ElsewhereKeeps, UnchangedStays DEF friendVars
  <2> QED BY <1>3, <2>1, <2>2, <2>3, <2>4, <2>5, <2>6, <2>7 DEF OfFriends
<1> QED BY <1>1, <1>2, <1>3 DEF Step

LEMMA StillKeeps ==
  ASSUME LockInv, UNCHANGED req, UNCHANGED friendVars
  PROVE  LockInv' /\ Stays
<1> USE DEF LockInv, friendVars
<1>1. Pending' = Pending /\ Live' = Live /\ ActiveFriends' = ActiveFriends
  BY DEF Pending, Live, ActiveFriends, Active
<1>2. Shape' /\ RowsOK' /\ OwnRow' BY DEF Shape, RowsOK, OwnRow
<1>3. Exclusive' BY DEF Exclusive
<1>4. LiveOne' BY <1>1 DEF LiveOne, Excused
<1>5. ASSUME NEW q \in Reqs PROVE (RowKnown(q) /\ PairKnown(q))'
  BY <1>1 DEF RowKnown, PairKnown, Opposite
<1> QED BY <1>2, <1>3, <1>4, <1>5, UnchangedStays

LEMMA NextKeeps ==
  ASSUME LockInv, [Next]_vars
  PROVE  LockInv' /\ Stays
<1>1. ASSUME NEW r \in Reqs, Step(r) PROVE LockInv' /\ Stays BY <1>1, StepKeeps
<1>2. ASSUME NEW r \in Reqs, Die(r), UNCHANGED friendVars PROVE LockInv' /\ Stays
  <2>1. Elsewhere(r) BY <1>2, Replies DEF Die, Answer, LockInv
  <2> QED BY <1>2, <2>1, ElsewhereKeeps, UnchangedStays DEF friendVars
<1>3. CASE Staffed BY <1>3, StillKeeps DEF Staffed, requestVars
<1>4. CASE Time
  <2>1. UNCHANGED req BY <1>4 DEF Time, requestVars
  <2>2. CASE RequestAges BY <2>1, <2>2, AgesKeeps
  <2>3. CASE UNCHANGED friendVars BY <2>1, <2>3, StillKeeps
  <2> QED BY <1>4, <2>2, <2>3 DEF Time
<1>5. CASE RetentionPass
  <2>1. UNCHANGED req BY <1>5 DEF RetentionPass, requestVars
  <2>2. CASE UNCHANGED friendVars BY <2>1, <2>2, StillKeeps
  <2>3. CASE cleanup
    BY <2>1, <2>3, ExpireKeeps, PurgeKeeps, StillKeeps DEF cleanup, ChooseRequests
  <2> QED BY <1>5, <2>2, <2>3 DEF RetentionPass
<1>6. CASE UNCHANGED vars BY <1>6, StillKeeps DEF vars, requestVars
<1> QED BY <1>1, <1>2, <1>3, <1>4, <1>5, <1>6 DEF Next

LEMMA InitLocks == Init => LockInv
<1> SUFFICES ASSUME Init PROVE LockInv OBVIOUS
<1>1. req = [r \in Reqs |-> Unused] /\ workload \in Workloads BY DEF Init
<1>2. \A r \in Reqs : req[r] = Unused /\ Unused.pc = "new" BY <1>1 DEF Unused
<1>3. Shape BY <1>1 DEF Shape
<1>4. 0 \in Ids /\ Reqs \subseteq Ids /\ 0 \notin Reqs BY DEF Ids, Reqs
<1>5. /\ \A i \in Ids : asked[i] # None => i = 0 /\ "asked" \in workload.starts
      /\ asked \in [Ids -> {None} \cup FriendRequest]
  <2>1. CASE "asked" \in workload.starts
    <3> PICK u \in Users :
          asked = [[i \in Ids |-> None] EXCEPT ![0] =
                    [sender |-> u, state |-> "pending", age |-> "fresh"]]
      BY <2>1 DEF Init, FriendInit
    <3>1. [sender |-> u, state |-> "pending", age |-> "fresh"] \in FriendRequest
      BY DEF FriendRequest
    <3> QED BY <1>4, <2>1, <3>1
  <2>2. CASE "asked" \notin workload.starts BY <2>2 DEF Init, FriendInit
  <2> QED BY <2>1, <2>2
<1>6. /\ friendships \in [Ids -> {None} \cup FriendshipStates]
      /\ ActiveFriends => "friends" \in workload.starts
  BY <1>4, NoneAssumption DEF Init, FriendInit, FriendshipStates, ActiveFriends, Active
<1>7. RowsOK BY <1>5, <1>6 DEF RowsOK
<1>8. Live # {} => "asked" \in workload.starts BY <1>5 DEF Live, Pending
<1>9. LiveOne
  <2>1. \A i \in Live : i = 0 BY <1>5 DEF Live, Pending
  <2>2. ~(ActiveFriends /\ Live # {})
    BY <1>1, <1>6, <1>8, StartsAssumption
  <2> QED BY <2>1, <2>2 DEF LiveOne
<1>10. OwnRow BY <1>4, <1>5 DEF OwnRow
<1>11. Exclusive BY <1>2 DEF Exclusive, PairSteps, RowSteps
<1>12. \A r \in Reqs : RowKnown(r) /\ PairKnown(r)
  BY <1>2 DEF RowKnown, PairKnown, RowSteps
<1> QED BY <1>3, <1>7, <1>9, <1>10, <1>11, <1>12 DEF LockInv

(* The locks keep what they are for, in every behaviour: any number of        *)
(* requests under way, any workload, any staff (createRequest, resolve).      *)
THEOREM LocksHold == Spec => []LockInv
<1>1. LockInv /\ [Next]_vars => LockInv' BY NextKeeps
<1> QED BY <1>1, InitLocks, PTL DEF Spec

(* Two users never have two live requests between them, nor one beside their  *)
(* friendship unless the accepted one had run out meanwhile.                  *)
THEOREM RequestsAlwaysAgree == Spec => []RequestsAgree
<1>1. LockInv => RequestsAgree
  BY DEF LockInv, LiveOne, Excused, RequestsAgree
<1> QED BY <1>1, LocksHold, PTL

(* A friend request keeps its answer, but for the worker's late update.       *)
THEOREM AnswersStay == Spec => SettledStays
<1>1. LockInv /\ [Next]_vars =>
        [\A i \in Ids : asked[i] # None /\ asked[i].state \in Answered =>
            \/ asked'[i] = None
            \/ asked'[i].state = asked[i].state
            \/ i \in worker.got /\ asked'[i].state = "expired"]_vars
  BY NextKeeps DEF Stays
<1> QED BY <1>1, LocksHold, PTL DEF Spec, SettledStays
=============================================================================
