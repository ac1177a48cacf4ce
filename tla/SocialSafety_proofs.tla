------------------------ MODULE SocialSafety_proofs ------------------------
(* Proofs about Social: every request stays on the route of its handler, the  *)
(* messages of a thread are numbered without a gap, of two ratings the later  *)
(* is told the earlier, and nothing a block has removed comes back.           *)
EXTENDS Social_proofs, FiniteSetTheorems

RateSteps == {"insert rating", "read peer", "commit rating"}
CardSteps == {"own card", "upsert consent", "peer's card", "fetch",
              "upsert maxed", "show"}
BlockSteps == {"insert block", "hide", "cancel requests", "end friendship",
               "revoke reveals", "invalidate offers"}
Answering == {"accept", "reject", "cancel"}

(* Where each handler's awaits are, and what it was given.                    *)
Route(op, on, arg, pc) ==
  \/ op \in {"leave", "block"} /\ pc \in {"end", "timing"}
  \/ /\ op = "chat" /\ arg \in Clients
     /\ pc \in {"next sequence", "find thread", "insert chat"}
  \/ op = "report" /\ on \in ReportOf /\ pc \in {"look for report", "file report"}
  \/ op = "rate" /\ arg \in Outcomes /\ pc \in {"check rating"} \cup RateSteps
  \/ op \in {"reveal", "card"} /\ on \in Users /\ pc \in CardSteps
  \/ op = "offer" /\ pc \in {"previous encounter", "upsert offer"}
  \/ /\ op = "answer offer" /\ arg \in {"accepted", "declined"}
     /\ pc \in {"eligible pair", "settle offer"}
  \/ op = "ask" /\ pc \in {"lock pair"} \cup PairSteps
  \/ op \in Answering /\ pc \in {"take row"} \cup RowSteps
  \/ op = "block" /\ pc \in BlockSteps
  \/ /\ op = "send" /\ on \in Ids /\ arg \in Clients
     /\ pc \in {"access", "lock thread", "store"}

Begun(x) ==
  \/ x = Unused
  \/ /\ x.by \in Users /\ x.answer # "collision"
     /\ x.pc # "done" => Route(x.op, x.on, x.arg, x.pc) /\ x.answer = None
     /\ x.pc = "commit rating" => x.got \in {"resolved", "unresolved"}
     /\ x.pc \in {"find thread", "insert chat"} => x.got \in Reqs

OnRoute == Shape /\ \A q \in Reqs : Begun(req[q])

(* One step of request r.                                                     *)
Moved(r) ==
  /\ req[r].pc # "done" /\ req'[r].pc # "new"
  /\ DOMAIN req' = Reqs /\ DOMAIN req'[r] = DOMAIN Unused
  /\ \A q \in Reqs \ {r} : req'[q] = req[q]
  /\ Begun(req'[r])
  /\ req[r].pc # "new" =>
       /\ req'[r].op = req[r].op /\ req'[r].by = req[r].by
       /\ req'[r].on = req[r].on /\ req'[r].arg = req[r].arg

LEMMA UnusedFacts == Unused.pc = "new" /\ Unused.answer = None
BY DEF Unused

LEMMA GoSets ==
  ASSUME Shape, NEW r \in Reqs, NEW pc, Go(r, pc)
  PROVE  req'[r].pc = pc /\ req'[r].got = req[r].got /\ req'[r].answer = req[r].answer
BY DEF Shape, Go, Unused

LEMMA TakeSets ==
  ASSUME Shape, NEW r \in Reqs, NEW pc, NEW x, Take(r, pc, x)
  PROVE  req'[r].pc = pc /\ req'[r].got = x
BY DEF Shape, Take, Unused

LEMMA BeginSets ==
  ASSUME Shape, NEW r \in Reqs, NEW op, NEW by, NEW on, NEW arg, NEW pc,
         Begin(r, op, by, on, arg, pc)
  PROVE  req'[r].pc = pc /\ req'[r].op = op /\ req'[r].by = by
BY DEF Shape, Begin

LEMMA ReplySets ==
  ASSUME Shape, NEW r \in Reqs, NEW a, NEW x, Reply(r, a, x)
  PROVE  req'[r].pc = "done" /\ req'[r].got = x /\ req'[r].answer = a
BY DEF Shape, Reply, Unused

LEMMA MovedKeeps ==
  ASSUME OnRoute, NEW r \in Reqs, Moved(r)
  PROVE  OnRoute'
BY DEF OnRoute, Shape, Moved, Unused

LEMMA GoMoves ==
  ASSUME OnRoute, NEW r \in Reqs, NEW pc, Go(r, pc), req[r].pc \notin {"new", "done"},
         Route(req[r].op, req[r].on, req[r].arg, pc), pc # "commit rating",
         pc \in {"find thread", "insert chat"} => req[r].got \in Reqs
  PROVE  Moved(r) /\ req'[r].op = req[r].op /\ req'[r].pc = pc
<1>1. Begun(req[r]) /\ req[r] # Unused BY UnusedFacts DEF OnRoute
<1>2. pc \notin {"new", "done"}
  BY DEF Route, RateSteps, CardSteps, BlockSteps, PairSteps, RowSteps
<1>3. DOMAIN req[r] = DOMAIN Unused /\ DOMAIN req = Reqs BY DEF OnRoute, Shape
<1> HIDE DEF Route
<1>4. /\ req'[r].pc = pc /\ DOMAIN req' = Reqs /\ DOMAIN req'[r] = DOMAIN Unused
      /\ \A q \in Reqs \ {r} : req'[q] = req[q]
      /\ req'[r].op = req[r].op /\ req'[r].by = req[r].by /\ req'[r].on = req[r].on
      /\ req'[r].arg = req[r].arg /\ req'[r].got = req[r].got
      /\ req'[r].answer = req[r].answer
  BY <1>3 DEF Go, Unused
<1>5. Begun(req'[r]) BY <1>1, <1>2, <1>4 DEF Begun
<1> QED BY <1>2, <1>4, <1>5 DEF Moved

LEMMA TakeMoves ==
  ASSUME OnRoute, NEW r \in Reqs, NEW pc, NEW x, Take(r, pc, x),
         req[r].pc \notin {"new", "done"},
         Route(req[r].op, req[r].on, req[r].arg, pc),
         pc = "commit rating" => x \in {"resolved", "unresolved"},
         pc \in {"find thread", "insert chat"} => x \in Reqs
  PROVE  Moved(r) /\ req'[r].op = req[r].op /\ req'[r].pc = pc /\ req'[r].got = x
<1>1. Begun(req[r]) /\ req[r] # Unused BY UnusedFacts DEF OnRoute
<1>2. pc \notin {"new", "done"}
  BY DEF Route, RateSteps, CardSteps, BlockSteps, PairSteps, RowSteps
<1>3. DOMAIN req[r] = DOMAIN Unused /\ DOMAIN req = Reqs BY DEF OnRoute, Shape
<1>4. /\ req'[r].pc = pc /\ DOMAIN req' = Reqs /\ DOMAIN req'[r] = DOMAIN Unused
      /\ \A q \in Reqs \ {r} : req'[q] = req[q]
      /\ req'[r].op = req[r].op /\ req'[r].by = req[r].by /\ req'[r].on = req[r].on
      /\ req'[r].arg = req[r].arg /\ req'[r].got = x
      /\ req'[r].answer = req[r].answer
  BY <1>3 DEF Take, Unused
<1>5. Begun(req'[r]) BY <1>1, <1>2, <1>4 DEF Begun
<1> QED BY <1>2, <1>4, <1>5 DEF Moved

LEMMA ReplyMoves ==
  ASSUME OnRoute, NEW r \in Reqs, NEW a, NEW x, Reply(r, a, x),
         req[r].pc \notin {"new", "done"}, a # "collision"
  PROVE  /\ Moved(r) /\ req'[r].op = req[r].op
         /\ req'[r].pc = "done" /\ req'[r].got = x /\ req'[r].answer = a
<1>1. Begun(req[r]) /\ req[r] # Unused BY UnusedFacts DEF OnRoute
<1>3. DOMAIN req[r] = DOMAIN Unused /\ DOMAIN req = Reqs BY DEF OnRoute, Shape
<1>4. /\ req'[r].pc = "done" /\ DOMAIN req' = Reqs /\ DOMAIN req'[r] = DOMAIN Unused
      /\ \A q \in Reqs \ {r} : req'[q] = req[q]
      /\ req'[r].op = req[r].op /\ req'[r].by = req[r].by /\ req'[r].on = req[r].on
      /\ req'[r].arg = req[r].arg /\ req'[r].got = x /\ req'[r].answer = a
  BY <1>3 DEF Reply, Unused
<1>5. Begun(req'[r]) BY <1>1, <1>4 DEF Begun
<1> QED BY <1>4, <1>5 DEF Moved

LEMMA BeginAny ==
  ASSUME OnRoute, NEW r \in Reqs, NEW op, NEW by \in Users, NEW on, NEW arg, NEW pc,
         Begin(r, op, by, on, arg, pc), pc = "done" \/ Route(op, on, arg, pc),
         pc \notin {"commit rating", "find thread", "insert chat"}
  PROVE  /\ Moved(r) /\ req[r].pc = "new"
         /\ req'[r].op = op /\ req'[r].by = by /\ req'[r].on = on
         /\ req'[r].arg = arg /\ req'[r].pc = pc /\ req'[r].answer = None
<1>1. pc # "new"
  BY DEF Route, RateSteps, CardSteps, BlockSteps, PairSteps, RowSteps
<1>2. req[r].pc = "new" BY UnusedFacts DEF Begin
<1>3. /\ DOMAIN req' = Reqs /\ DOMAIN req'[r] = DOMAIN Unused
      /\ \A q \in Reqs \ {r} : req'[q] = req[q]
      /\ req'[r].op = op /\ req'[r].by = by /\ req'[r].on = on
      /\ req'[r].arg = arg /\ req'[r].pc = pc /\ req'[r].answer = None
  BY DEF OnRoute, Shape, Begin, Unused
<1>5. None # "collision" BY AnswersAssumption
<1>6. Begun(req'[r]) BY <1>3, <1>5 DEF Begun
<1> QED BY <1>1, <1>2, <1>3, <1>6 DEF Moved

LEMMA BeginMoves ==
  ASSUME OnRoute, NEW r \in Reqs, NEW op, NEW by \in Users, NEW on, NEW arg, NEW pc,
         Begin(r, op, by, on, arg, pc), Route(op, on, arg, pc),
         pc \notin {"commit rating", "find thread", "insert chat"}
  PROVE  /\ Moved(r) /\ req[r].pc = "new"
         /\ req'[r].op = op /\ req'[r].by = by /\ req'[r].on = on
         /\ req'[r].arg = arg /\ req'[r].pc = pc /\ req'[r].answer = None
<1>1. pc = "done" \/ Route(op, on, arg, pc) OBVIOUS
<1> QED BY <1>1, BeginAny

LEMMA OnceMoves ==
  ASSUME OnRoute, NEW r \in Reqs, NEW op, NEW by \in Users, NEW on, NEW arg,
         Begin(r, op, by, on, arg, "done")
  PROVE  /\ Moved(r) /\ req[r].pc = "new" /\ req'[r].pc = "done"
         /\ req'[r].op = op /\ req'[r].by = by /\ req'[r].on = on
         /\ req'[r].arg = arg /\ req'[r].answer = None
<1>1. "done" = "done" \/ Route(op, on, arg, "done") OBVIOUS
<1>2. "done" \notin {"commit rating", "find thread", "insert chat"} OBVIOUS
<1> QED BY <1>1, <1>2, BeginAny

-----------------------------------------------------------------------------
(* The number of chat messages is bounded by the requests that drew one.      *)
Drew == {q \in Reqs : req[q].pc \notin {"new", "next sequence"}}
Counted == chatSequence \in Nat /\ chatSequence <= Cardinality(Drew)

(* The messages of a thread have the numbers from 1 on, each once; a request  *)
(* that holds the thread's lock has the next one; a sent answer is the row's. *)
Storing(r, t) == req[r].pc = "store" /\ req[r].on = t
SentBy(r) == req[r].op = "send" /\ req[r].answer = "sent"

AnswersOf(t) == \A r \in Reqs : SentBy(r) /\ req[r].on = t =>
  req[r].arg \in Sent(t) /\ req[r].got = messages[<<t, req[r].arg>>].seq

Numbering(t, n) ==
  /\ Numbers(t) = 1..n /\ Cardinality(Sent(t)) = n
  /\ \A c, d \in Sent(t) : messages[<<t, c>>].seq = messages[<<t, d>>].seq => c = d
  /\ \A u \in Users : readSequence[<<t, u>>] <= n
  /\ \A r \in Reqs : Storing(r, t) => req[r].arg \notin Sent(t) /\ req[r].got = n + 1
  /\ \A r, q \in Reqs : Storing(r, t) /\ Storing(q, t) => r = q
  /\ AnswersOf(t)

Threads == /\ MessageTypeOK
           /\ \A r \in Reqs : SentBy(r) => req[r].on \in Ids
           /\ \A t \in Ids : \E n \in Nat : Numbering(t, n)
RouteInv == OnRoute /\ Counted /\ Threads

-----------------------------------------------------------------------------
(* A rating that is under way is alone and knows whether the peer has rated.  *)
Told == \E r \in Reqs : /\ req[r].op = "rate" /\ req[r].pc = "done"
                        /\ req[r].answer \in {"resolved", "lost"}
RatingInv ==
  /\ ratings \in [Users -> Outcomes \cup {None}]
  /\ \A r, q \in Reqs : req[r].pc \in RateSteps /\ req[q].pc \in RateSteps => r = q
  /\ \A r \in Reqs : req[r].pc = "commit rating" =>
       (ratings[peer(req[r].by)] # None => req[r].got = "resolved")
  /\ (\A u \in Users : ratings[u] # None) => Told

-----------------------------------------------------------------------------
(* Where a block request is: its statements from the one after "hide" on.     *)
Offered == {"end", "timing"}
Revoked == {"invalidate offers"} \cup Offered
Parted == {"revoke reveals"} \cup Revoked
Cancelled == {"end friendship"} \cup Parted
Hidden == {"cancel requests"} \cup Cancelled

Past(r, stage) ==
  /\ req[r].op = "block"
  /\ \/ req[r].pc \in stage
     \/ req[r].pc = "done" /\ req[r].answer # "lost"
Blocked(stage) == \E u \in Users : blocks[u] # None /\ Past(blocks[u], stage)

Checking == PastTheirCheck \ {"befriend"}

BlockRows == /\ \A u \in Users : blocks[u] # None =>
                  req[blocks[u]].op = "block" /\ req[blocks[u]].pc # "new"
             /\ \A q \in overtaken : req[q].pc # "new"
CheckedFirst ==
  hasEitherDirection => \A q \in Reqs : req[q].pc \in Checking => q \in overtaken
HiddenBoth ==
  \A r \in Reqs : Past(r, Hidden) => ~encounter.participants \/ hidden = Users
(* Who is about to answer a request, or to find one.                          *)
Holding(q) == \/ req[q].pc \in {"settle", "befriend"}
              \/ req[q].pc = "opposite" /\ Opposite(q) # {}
NothingPending == Blocked(Cancelled) =>
  Pending \subseteq overtaken /\ \A q \in Reqs : ~Holding(q)
Apart == Blocked(Parted) => ~ActiveFriends
NothingRevealed == Blocked(Revoked) =>
  ((\E v \in Users : reveals[v] \notin {None, "revoked"})
     => Overtook({"reveal", "card"}))
NothingOffered == Blocked(Offered) =>
  ((\E v \in Users : offers[v] = "pending") => Overtook({"offer"}))

BlockInv == /\ BlockRows /\ CheckedFirst /\ HiddenBoth /\ NothingPending
            /\ Apart /\ NothingRevealed /\ NothingOffered

-----------------------------------------------------------------------------
(* The handlers, one after the other.                                         *)
LEMMA UnderWay ==
  ASSUME OnRoute, NEW r \in Reqs, req[r].pc \notin {"new", "done"}
  PROVE  /\ Route(req[r].op, req[r].on, req[r].arg, req[r].pc)
         /\ req[r].by \in Users /\ req[r].answer = None
         /\ req[r].pc \in {"find thread", "insert chat"} => req[r].got \in Reqs
         /\ req[r].pc = "commit rating" => req[r].got \in {"resolved", "unresolved"}
BY UnusedFacts DEF OnRoute, Begun

LEMMA LeaveMoves ==
  ASSUME OnRoute, NEW r \in Reqs, Leave(r)
  PROVE  /\ Moved(r) /\ req'[r].op \in {"leave", "block"}
         /\ req'[r].op = "block" => req[r].pc \in {"end", "timing"}
<1> USE DEF At
<1>1. CASE LeaveStart(r)
  <2>1. Route("leave", None, None, "end") BY DEF Route
  <2> QED BY <1>1, <2>1, BeginMoves DEF LeaveStart
<1>2. CASE end(r) \/ finalizeTiming(r)
  <2>1. req[r].pc \in {"end", "timing"} BY <1>2 DEF end, finalizeTiming
  <2>2. req[r].op \in {"leave", "block"}
    BY <2>1, UnderWay DEF Route, RateSteps, CardSteps, BlockSteps, PairSteps, RowSteps
  <2> QED
    BY <1>2, <2>1, <2>2, GoMoves, ReplyMoves DEF Route, end, finalizeTiming, Done, Answer
<1> QED BY <1>1, <1>2 DEF Leave

LEMMA ChatMoves ==
  ASSUME OnRoute, NEW r \in Reqs, Chat(r),
         req[r].pc = "next sequence" => chatSequence' \in Reqs
  PROVE  Moved(r) /\ req'[r].op = "chat"
<1> USE DEF At
<1>1. CASE ChatStart(r)
  <2>1. \A c \in Clients : Route("chat", None, c, "next sequence") BY DEF Route
  <2> QED BY <1>1, <2>1, BeginMoves DEF ChatStart
<1>2. CASE nextSequence(r) \/ addRandomMessage(r)
  <2>1. req[r].pc \in {"next sequence", "find thread", "insert chat"}
    BY <1>2 DEF nextSequence, addRandomMessage
  <2>2. /\ req[r].op = "chat" /\ req[r].arg \in Clients
        /\ req[r].pc # "next sequence" => req[r].got \in Reqs
    BY <2>1, UnderWay DEF Route, RateSteps, CardSteps, BlockSteps, PairSteps, RowSteps
  <2>3. CASE nextSequence(r) BY <2>1, <2>2, <2>3, TakeMoves DEF Route, nextSequence
  <2>4. CASE addRandomMessage(r)
    BY <2>1, <2>2, <2>4, GoMoves, ReplyMoves DEF Route, addRandomMessage, Refuse, Answer
  <2> QED BY <1>2, <2>3, <2>4
<1> QED BY <1>1, <1>2 DEF Chat

LEMMA ReportMoves ==
  ASSUME OnRoute, NEW r \in Reqs, Report(r)
  PROVE  /\ Moved(r) /\ req'[r].op = "report"
         /\ req[r].pc = "file report" => req[r].on \in ReportOf /\ req[r].by \in Users
<1> USE DEF At
<1>1. CASE ReportStart(r)
  <2>1. \A about \in ReportOf, leave \in BOOLEAN :
          Route("report", about, leave, "look for report")
    BY DEF Route
  <2>2. PICK u \in Users, about \in ReportOf, leave \in BOOLEAN :
          Begin(r, "report", u, about, leave, "look for report")
    BY <1>1 DEF ReportStart
  <2>3. Route("report", about, leave, "look for report") BY <2>1
  <2>4. Moved(r) /\ req'[r].op = "report" /\ req[r].pc = "new"
    BY <2>2, <2>3, BeginMoves
  <2> QED BY <2>4
<1>2. CASE ReportLook(r) \/ createReport(r)
  <2>1. req[r].pc \in {"look for report", "file report"}
    BY <1>2 DEF ReportLook, createReport
  <2>2. req[r].op = "report" /\ req[r].on \in ReportOf /\ req[r].by \in Users
    BY <2>1, UnderWay DEF Route, RateSteps, CardSteps, BlockSteps, PairSteps, RowSteps
  <2>3. CASE ReportLook(r)
    BY <2>1, <2>2, <2>3, GoMoves, ReplyMoves DEF Route, ReportLook, Refuse, Done, Answer
  <2>4. CASE createReport(r)
    BY <2>1, <2>2, <2>4, ReplyMoves DEF createReport, Done, Answer
  <2> QED BY <1>2, <2>2, <2>3, <2>4
<1> QED BY <1>1, <1>2 DEF Report

LEMMA RateMoves ==
  ASSUME OnRoute, NEW r \in Reqs, Rate(r)
  PROVE  /\ Moved(r) /\ req'[r].op = "rate"
         /\ req[r].pc # "new" => req[r].arg \in Outcomes /\ req[r].by \in Users
<1> USE DEF At, RateSteps
<1>1. CASE RateStart(r)
  <2>1. \A outcome \in Outcomes : Route("rate", None, outcome, "check rating")
    BY DEF Route
  <2> QED BY <1>1, <2>1, BeginMoves DEF RateStart
<1>2. CASE RateCheck(r) \/ RateInsert(r) \/ RateReadPeer(r) \/ RateCommit(r)
  <2>1. req[r].pc \in {"check rating"} \cup RateSteps
    BY <1>2 DEF RateCheck, RateInsert, RateReadPeer, RateCommit
  <2>2. req[r].op = "rate" /\ req[r].arg \in Outcomes /\ req[r].by \in Users
    BY <2>1, UnderWay DEF Route, CardSteps, BlockSteps, PairSteps, RowSteps
  <2>3. CASE RateCheck(r)
    BY <2>1, <2>2, <2>3, GoMoves, ReplyMoves DEF Route, RateCheck, Refuse, Answer
  <2>4. CASE RateInsert(r)
    BY <2>1, <2>2, <2>4, GoMoves, ReplyMoves DEF Route, RateInsert, Refuse, Answer
  <2>5. CASE RateReadPeer(r) BY <2>1, <2>2, <2>5, TakeMoves DEF Route, RateReadPeer
  <2>6. CASE RateCommit(r)
    BY <2>1, <2>2, <2>6, UnderWay, ReplyMoves DEF RateCommit, Answer
  <2> QED BY <1>2, <2>2, <2>3, <2>4, <2>5, <2>6
<1> QED BY <1>1, <1>2 DEF Rate

LEMMA CardMoves ==
  ASSUME OnRoute, NEW r \in Reqs, Cards(r)
  PROVE  /\ Moved(r) /\ req'[r].op \in {"reveal", "card"}
         /\ req[r].pc # "new" => req[r].on \in Users
<1> USE DEF At, CardSteps
<1>1. CASE CardStart(r)
  <2>1. \A u \in Users : /\ Route("reveal", u, None, "own card")
                         /\ Route("card", u, None, "peer's card")
    BY DEF Route
  <2>2. \A u \in Users : peer(u) \in Users BY PeerFacts
  <2> QED BY <1>1, <2>1, <2>2, BeginMoves DEF CardStart
<1>2. CASE revealOwnCard(r) \/ authorizeCallCard(r)
  <2>1. req[r].pc \in CardSteps BY <1>2 DEF revealOwnCard, authorizeCallCard
  <2>2. req[r].op \in {"reveal", "card"} /\ req[r].on \in Users
    BY <2>1, UnderWay DEF Route, RateSteps, BlockSteps, PairSteps, RowSteps
  <2>3. CASE revealOwnCard(r)
    BY <2>1, <2>2, <2>3, GoMoves, ReplyMoves DEF Route, revealOwnCard, Refuse, Answer
  <2>4. CASE authorizeCallCard(r)
    BY <2>1, <2>2, <2>4, GoMoves, TakeMoves, ReplyMoves
    DEF Route, authorizeCallCard, Done, Refuse, Answer
  <2> QED BY <1>2, <2>2, <2>3, <2>4
<1> QED BY <1>1, <1>2 DEF Cards

LEMMA OfferMoves ==
  ASSUME OnRoute, NEW r \in Reqs, Reconnect(r)
  PROVE  /\ Moved(r) /\ req'[r].op \in {"offer", "answer offer"}
         /\ req[r].pc # "new" => req[r].by \in Users
         /\ req[r].pc \in {"previous encounter", "upsert offer"} => req[r].op = "offer"
         /\ req[r].pc = "settle offer" => req[r].arg \in {"accepted", "declined"}
<1> USE DEF At
<1>1. CASE OfferStart(r) \/ ResolveStart(r)
  <2>1. /\ Route("offer", None, None, "previous encounter")
        /\ \A state \in {"accepted", "declined"} :
             Route("answer offer", None, state, "eligible pair")
    BY DEF Route
  <2> QED BY <1>1, <2>1, BeginMoves DEF OfferStart, ResolveStart
<1>2. CASE createReconnect(r)
  <2>1. req[r].pc \in {"previous encounter", "upsert offer"}
    BY <1>2 DEF createReconnect
  <2>2. req[r].op = "offer" /\ req[r].by \in Users
    BY <2>1, UnderWay DEF Route, RateSteps, CardSteps, BlockSteps, PairSteps, RowSteps
  <2> QED
    BY <1>2, <2>1, <2>2, GoMoves, ReplyMoves DEF Route, createReconnect, Done, Refuse, Answer
<1>3. CASE resolveReconnect(r)
  <2>1. req[r].pc \in {"eligible pair", "settle offer"} BY <1>3 DEF resolveReconnect
  <2>2. /\ req[r].op = "answer offer" /\ req[r].by \in Users
        /\ req[r].arg \in {"accepted", "declined"}
    BY <2>1, UnderWay DEF Route, RateSteps, CardSteps, BlockSteps, PairSteps, RowSteps
  <2> QED
    BY <1>3, <2>1, <2>2, GoMoves, ReplyMoves DEF Route, resolveReconnect, Done, Refuse, Answer
<1> QED BY <1>1, <1>2, <1>3 DEF Reconnect

LEMMA HideMoves ==
  ASSUME OnRoute, NEW r \in Reqs, hide(r) \/ unfriend(r) \/ remove(r)
  PROVE  Moved(r) /\ req'[r].op \in {"hide", "unfriend", "unblock"} /\ req'[r].pc = "done"
<1>1. CASE hide(r) BY <1>1, OnceMoves DEF hide
<1>2. CASE unfriend(r) BY <1>2, OnceMoves DEF unfriend
<1>3. CASE remove(r) BY <1>3, OnceMoves DEF remove
<1> QED BY <1>1, <1>2, <1>3

LEMMA BlockMoves ==
  ASSUME OnRoute, NEW r \in Reqs,
         \/ BlockStart(r) \/ BlockRow(r) \/ BlockHide(r) \/ CancelRequests(r)
         \/ EndFriendship(r) \/ RevokeReveals(r) \/ InvalidateOffers(r)
  PROVE  /\ Moved(r) /\ req'[r].op = "block"
         /\ req[r].pc # "new" => req[r].by \in Users
<1> USE DEF At
<1>1. CASE BlockStart(r)
  <2>1. Route("block", None, None, "insert block") BY DEF Route, BlockSteps
  <2> QED BY <1>1, <2>1, BeginMoves DEF BlockStart
<1>2. CASE \/ BlockRow(r) \/ BlockHide(r) \/ CancelRequests(r)
           \/ EndFriendship(r) \/ RevokeReveals(r) \/ InvalidateOffers(r)
  <2>1. req[r].pc \in BlockSteps
    BY <1>2 DEF BlockSteps, BlockRow, BlockHide, CancelRequests, EndFriendship,
                RevokeReveals, InvalidateOffers
  <2>2. req[r].op = "block" /\ req[r].by \in Users
    BY <2>1, UnderWay DEF Route, BlockSteps, RateSteps, CardSteps, PairSteps, RowSteps
  <2>3. CASE \/ BlockRow(r) \/ BlockHide(r) \/ CancelRequests(r)
             \/ EndFriendship(r) \/ RevokeReveals(r)
    BY <2>1, <2>2, <2>3, GoMoves
    DEF Route, BlockSteps, BlockRow, BlockHide, CancelRequests, EndFriendship,
        RevokeReveals
  <2>4. CASE InvalidateOffers(r)
    BY <2>1, <2>2, <2>4, GoMoves, ReplyMoves
    DEF Route, BlockSteps, InvalidateOffers, Done, Answer
  <2> QED BY <1>2, <2>2, <2>3, <2>4
<1> QED BY <1>1, <1>2

LEMMA FriendMoves ==
  ASSUME OnRoute, LockInv, NEW r \in Reqs,
         createRequest(r) \/ createFriendship(r) \/ resolve(r)
  PROVE  Moved(r) /\ req'[r].op \in {"ask"} \cup Answering
<1> USE DEF At, Answering, PairSteps, RowSteps
<1>1. CASE AskStart(r)
  <2>1. Route("ask", None, None, "lock pair") BY DEF Route
  <2> QED BY <1>1, <2>1, BeginMoves DEF AskStart
<1>2. CASE ResolveRequestStart(r)
  <2> PICK i \in Ids, op \in Answering :
        /\ asked[i] # None
        /\ Begin(r, op, IF op = "cancel" THEN asked[i].sender ELSE peer(asked[i].sender),
                 i, None, "take row")
    BY <1>2 DEF ResolveRequestStart
  <2>1. asked[i].sender \in Users /\ peer(asked[i].sender) \in Users
    BY PeerFacts DEF LockInv, RowsOK, FriendRequest
  <2>2. Route(op, i, None, "take row") BY DEF Route
  <2>3. (IF op = "cancel" THEN asked[i].sender ELSE peer(asked[i].sender)) \in Users
    BY <2>1
  <2> QED BY <2>2, <2>3, BeginMoves
<1>3. CASE LockPair(r) \/ FindOpposite(r) \/ InsertRequest(r)
  <2>1. req[r].pc \in {"lock pair", "opposite", "insert request"}
    BY <1>3 DEF LockPair, FindOpposite, InsertRequest
  <2>2. req[r].op = "ask" BY <2>1, UnderWay DEF Route, BlockSteps, RateSteps, CardSteps
  <2> QED
    BY <1>3, <2>1, <2>2, GoMoves, TakeMoves, ReplyMoves
    DEF Route, LockPair, FindOpposite, InsertRequest, Refuse, Done, Answer
<1>4. CASE createFriendship(r)
  <2>1. req[r].pc = "befriend" /\ ~ActiveFriends
    BY <1>4 DEF createFriendship, LockInv, PairKnown
  <2>2. req[r].op \in {"ask"} \cup Answering
    BY <2>1, UnderWay DEF Route, BlockSteps, RateSteps, CardSteps
  <2> QED BY <1>4, <2>1, <2>2, ReplyMoves DEF createFriendship, Done, Answer
<1>5. CASE TakeRow(r) \/ CheckBlocked(r) \/ Settle(r)
  <2>1. req[r].pc \in {"take row", "blocked?", "settle"}
    BY <1>5 DEF TakeRow, CheckBlocked, Settle
  <2>2. req[r].op \in Answering
    BY <2>1, UnderWay DEF Route, BlockSteps, RateSteps, CardSteps
  <2> QED
    BY <1>5, <2>1, <2>2, GoMoves, TakeMoves, ReplyMoves
    DEF Route, TakeRow, CheckBlocked, Settle, Refuse, Done, Answer
<1> QED BY <1>1, <1>2, <1>3, <1>4, <1>5 DEF createRequest, resolve

LEMMA DeadlockMoves ==
  ASSUME OnRoute, NEW r \in Reqs, Deadlock(r)
  PROVE  \E q \in Reqs : /\ Moved(q) /\ req'[q].op \in {"ask"} \cup Answering
                         /\ req'[q].pc = "done" /\ req'[q].answer = "deadlock"
<1> USE DEF PairSteps, RowSteps, Answering
<1> PICK q \in Reqs \ {r} : /\ req[r].pc = "opposite" /\ req[q].pc = "settle"
                            /\ \E victim \in {r, q} : Answer(victim, "deadlock")
  BY DEF Deadlock, At
<1> PICK victim \in {r, q} : Answer(victim, "deadlock") OBVIOUS
<1>1. req[victim].pc \in {"opposite", "settle"} OBVIOUS
<1>2. req[victim].op \in {"ask"} \cup Answering
  BY <1>1, UnderWay DEF Route, BlockSteps, RateSteps, CardSteps
<1> QED BY <1>1, <1>2, ReplyMoves DEF Answer

LEMMA SendMoves ==
  ASSUME OnRoute, NEW r \in Reqs, send(r),
         req[r].pc = "store" => /\ req[r].arg \notin Sent(req[r].on)
                                /\ req[r].got \notin Numbers(req[r].on)
  PROVE  /\ Moved(r) /\ req'[r].op = "send"
         /\ req[r].pc # "new" => /\ req[r].on \in Ids /\ req[r].arg \in Clients
                                 /\ req[r].by \in Users
<1> USE DEF At
<1>1. CASE SendStart(r)
  <2>1. \A t \in Ids, c \in Clients : Route("send", t, c, "access") BY DEF Route
  <2> QED BY <1>1, <2>1, BeginMoves DEF SendStart
<1>2. CASE SendAccess(r) \/ SendLock(r) \/ Store(r)
  <2>1. req[r].pc \in {"access", "lock thread", "store"}
    BY <1>2 DEF SendAccess, SendLock, Store
  <2>2. /\ req[r].op = "send" /\ req[r].on \in Ids /\ req[r].arg \in Clients
        /\ req[r].by \in Users
    BY <2>1, UnderWay DEF Route, BlockSteps, RateSteps, CardSteps, PairSteps, RowSteps
  <2>3. CASE SendAccess(r)
    BY <2>1, <2>2, <2>3, GoMoves, ReplyMoves DEF Route, SendAccess, Refuse, Answer
  <2>4. CASE SendLock(r)
    BY <2>1, <2>2, <2>4, TakeMoves, ReplyMoves DEF Route, SendLock, Answer
  <2>5. CASE Store(r) BY <2>1, <2>2, <2>5, ReplyMoves DEF Store
  <2> QED BY <1>2, <2>2, <2>3, <2>4, <2>5
<1> QED BY <1>1, <1>2 DEF send

LEMMA ReadMoves ==
  ASSUME OnRoute, NEW r \in Reqs, deleteMessage(r) \/ markRead(r)
  PROVE  Moved(r) /\ req'[r].op \in {"delete", "read"} /\ req'[r].pc = "done"
<1>1. CASE deleteMessage(r) BY <1>1, OnceMoves DEF deleteMessage
<1>2. CASE markRead(r) BY <1>2, OnceMoves DEF markRead
<1> QED BY <1>1, <1>2

LEMMA DieMoves ==
  ASSUME OnRoute, NEW r \in Reqs, Die(r)
  PROVE  /\ Moved(r) /\ req[r].pc # "new"
         /\ req'[r].pc = "done" /\ req'[r].answer = "lost"
BY ReplyMoves DEF Die, Answer

-----------------------------------------------------------------------------
(* Numbers.                                                                   *)
LEMMA MaxTo == ASSUME NEW n \in Nat PROVE Max({0} \cup (1..n)) = n
<1> DEFINE S == {0} \cup (1..n)
<1>1. n \in S /\ \A y \in S : n >= y OBVIOUS
<1>2. \A x \in S : (\A y \in S : x >= y) => x = n BY <1>1
<1> HIDE DEF S
<1>3. Max(S) = n BY <1>1, <1>2 DEF Max
<1> QED BY <1>3 DEF S

LEMMA ReqsFacts ==
  /\ IsFiniteSet(Reqs) /\ Cardinality(Reqs) = MaxRequests
  /\ \A S \in SUBSET Reqs :
       IsFiniteSet(S) /\ Cardinality(S) \in Nat /\ Cardinality(S) <= MaxRequests
<1>1. IsFiniteSet(Reqs) /\ Cardinality(Reqs) = MaxRequests
  BY FS_Interval, RequestsAssumption DEF Reqs
<1>2. ASSUME NEW S \in SUBSET Reqs
      PROVE  IsFiniteSet(S) /\ Cardinality(S) \in Nat /\ Cardinality(S) <= MaxRequests
  BY <1>1, FS_Subset, FS_CardinalityType
<1> QED BY <1>1, <1>2

LEMMA CountedMore ==
  ASSUME Counted, NEW k \in {0, 1}, chatSequence' = chatSequence + k,
         Cardinality(Drew) \in Nat, Cardinality(Drew') \in Nat,
         Cardinality(Drew) + k <= Cardinality(Drew')
  PROVE  Counted'
BY DEF Counted

LEMMA CountedRoom ==
  ASSUME Counted, Cardinality(Drew) \in Nat, Cardinality(Drew) + 1 <= MaxRequests
  PROVE  chatSequence + 1 \in Reqs
BY RequestsAssumption DEF Counted, Reqs

(* A chat message takes its number when its request takes its step.           *)
Draws(r) ==
  /\ req'[r].pc = "next sequence" => req[r].pc = "new"
  /\ \/ chatSequence' = chatSequence
     \/ req[r].pc = "next sequence" /\ chatSequence' = chatSequence + 1

LEMMA CountedKeeps ==
  ASSUME OnRoute, Counted, NEW r \in Reqs, Moved(r), Draws(r)
  PROVE  Counted'
<1>1. Drew \in SUBSET Reqs /\ Drew' \in SUBSET Reqs /\ Drew \subseteq Drew'
  BY DEF Drew, Moved, Draws
<1>2. IsFiniteSet(Drew) /\ IsFiniteSet(Drew') /\ Cardinality(Drew) \in Nat
      /\ Cardinality(Drew') \in Nat
  BY <1>1, ReqsFacts
<1>3. CASE chatSequence' = chatSequence
  <2>1. Cardinality(Drew) <= Cardinality(Drew') BY <1>1, <1>2, FS_Subset
  <2>2. chatSequence \in Nat BY DEF Counted
  <2>3. chatSequence' = chatSequence + 0 BY <1>3, <2>2
  <2>4. Cardinality(Drew) + 0 <= Cardinality(Drew') BY <1>2, <2>1
  <2> QED BY <1>2, <2>3, <2>4, CountedMore
<1>4. CASE req[r].pc = "next sequence" /\ chatSequence' = chatSequence + 1
  <2>0. req'[r].pc # "next sequence" BY <1>4 DEF Draws
  <2>1. r \notin Drew /\ r \in Drew' BY <1>4, <2>0 DEF Drew, Moved
  <2>2. Drew \cup {r} \subseteq Drew' BY <1>1, <2>1
  <2>3. /\ Cardinality(Drew \cup {r}) = Cardinality(Drew) + 1
        /\ Cardinality(Drew \cup {r}) <= Cardinality(Drew')
    BY <1>2, <2>1, <2>2, FS_AddElement, FS_Subset
  <2>4. /\ Cardinality(Drew) + 1 <= Cardinality(Drew')
        /\ Cardinality(Drew) \in Nat /\ Cardinality(Drew') \in Nat
    BY <1>2, <2>3
  <2> QED BY <1>4, <2>4, CountedMore
<1> QED BY <1>3, <1>4 DEF Draws

LEMMA NextNumber ==
  ASSUME Counted, NEW r \in Reqs, req[r].pc = "next sequence"
  PROVE  chatSequence + 1 \in Reqs
<1>1. Drew \in SUBSET Reqs /\ r \notin Drew /\ Drew \cup {r} \in SUBSET Reqs BY DEF Drew
<1>2. /\ IsFiniteSet(Drew) /\ Cardinality(Drew) \in Nat
      /\ Cardinality(Drew \cup {r}) <= MaxRequests
  BY <1>1, ReqsFacts
<1>3. Cardinality(Drew \cup {r}) = Cardinality(Drew) + 1 BY <1>1, <1>2, FS_AddElement
<1>4. Cardinality(Drew) + 1 <= MaxRequests /\ Cardinality(Drew) \in Nat BY <1>2, <1>3
<1> QED BY <1>4, CountedRoom

-----------------------------------------------------------------------------
(* A step that adds no message and reads none.                                *)
LEMMA ThreadsStill ==
  ASSUME OnRoute, Threads, UNCHANGED messageVars,
         \A q \in Reqs : \/ req'[q] = req[q]
                         \/ req'[q].pc # "store" /\ ~SentBy(q)'
  PROVE  Threads'
<1> USE DEF Threads, messageVars
<1>1. MessageTypeOK' BY DEF MessageTypeOK
<1>2. ASSUME NEW t \in Ids, NEW n \in Nat, Numbering(t, n) PROVE Numbering(t, n)'
  <2>1. Sent(t)' = Sent(t) /\ Numbers(t)' = Numbers(t) BY DEF Sent, Numbers
  <2> QED BY <1>2, <2>1 DEF Numbering, Storing, SentBy, AnswersOf
<1>3. \A r \in Reqs : SentBy(r)' => req'[r].on \in Ids BY DEF SentBy
<1> QED BY <1>1, <1>2, <1>3

LEMMA ThreadsBeside ==
  ASSUME OnRoute, Threads, NEW r \in Reqs, Moved(r), UNCHANGED messageVars,
         req'[r].pc # "store", ~SentBy(r)'
  PROVE  Threads'
BY ThreadsStill DEF Moved

LEMMA SentFacts ==
  ASSUME MessageTypeOK, NEW t \in Ids
  PROVE  /\ Sent(t) \subseteq Clients
         /\ \A c \in Clients : messages[<<t, c>>] \in Message \cup {None}
         /\ \A c \in Sent(t) : messages[<<t, c>>] \in Message
BY DEF MessageTypeOK, Sent

(* The numbers of a thread stay; request r may lock it or answer "sent".      *)
LEMMA NumberingStays ==
  ASSUME NEW t \in Ids, NEW n \in Nat, Numbering(t, n), NEW r \in Reqs,
         \A q \in Reqs \ {r} : req'[q] = req[q],
         Sent(t)' = Sent(t),
         \A d \in Sent(t) : messages'[<<t, d>>].seq = messages[<<t, d>>].seq,
         \A u \in Users : readSequence'[<<t, u>>] <= n,
         Storing(r, t)' => /\ \A q \in Reqs : ~Storing(q, t)
                           /\ req'[r].arg \notin Sent(t) /\ req'[r].got = n + 1,
         SentBy(r)' /\ req'[r].on = t =>
           req'[r].arg \in Sent(t) /\ req'[r].got = messages[<<t, req'[r].arg>>].seq
  PROVE  Numbering(t, n)'
<1>1. Numbers(t)' = Numbers(t) BY DEF Numbers
<1>2. \A q \in Reqs : Storing(q, t)' =>
        req'[q].arg \notin Sent(t) /\ req'[q].got = n + 1
  BY DEF Numbering, Storing
<1>3. \A p, q \in Reqs : Storing(p, t)' /\ Storing(q, t)' => p = q
  BY DEF Numbering, Storing
<1>4. ASSUME NEW q \in Reqs, SentBy(q)', req'[q].on = t
      PROVE  req'[q].arg \in Sent(t) /\ req'[q].got = messages'[<<t, req'[q].arg>>].seq
  <2>1. CASE q = r BY <1>4, <2>1
  <2>2. CASE q # r
    <3>1. req'[q] = req[q] BY <2>2
    <3>2. SentBy(q) /\ req[q].on = t BY <1>4, <3>1 DEF SentBy
    <3>3. req[q].arg \in Sent(t) /\ req[q].got = messages[<<t, req[q].arg>>].seq
      BY <3>2 DEF Numbering, AnswersOf
    <3> QED BY <3>1, <3>3
  <2> QED BY <2>1, <2>2
<1>5. \A c, d \in Sent(t) :
        messages'[<<t, c>>].seq = messages'[<<t, d>>].seq => c = d
  BY DEF Numbering
<1>6. Numbers(t) = 1..n /\ Cardinality(Sent(t)) = n BY DEF Numbering
<1>7. AnswersOf(t)' BY <1>4 DEF AnswersOf
<1> QED BY <1>1, <1>2, <1>3, <1>5, <1>6, <1>7 DEF Numbering

Sends(r) == /\ req[r].op = "send" /\ req[r].on \in Ids /\ req[r].arg \in Clients
            /\ req[r].by \in Users

LEMMA LockThreads ==
  ASSUME OnRoute, Threads, NEW r \in Reqs, SendLock(r), Moved(r), Sends(r),
         UNCHANGED messageVars
  PROVE  Threads'
<1> DEFINE t == req[r].on
           m == messages[<<t, req[r].arg>>]
<1> USE DEF Threads, messageVars, Sends
<1>1. \A s \in Ids : Sent(s)' = Sent(s) BY DEF Sent
<1>2. MessageTypeOK' BY DEF MessageTypeOK
<1>3. /\ \A q \in Reqs \ {r} : req'[q] = req[q]
      /\ req'[r].op = "send" /\ req'[r].on = t /\ req'[r].arg = req[r].arg
      /\ req[r].pc = "lock thread" /\ req[r].answer = None
  BY UnderWay DEF Moved, SendLock, At
<1>4. \A q \in Reqs : ~Storing(q, t) BY DEF SendLock, At, ThreadLocked, Storing
<1>n. None # "sent" BY AnswersAssumption
<1>5. ASSUME NEW s \in Ids, NEW n \in Nat, Numbering(s, n) PROVE Numbering(s, n)'
  <2>0. /\ \A d \in Sent(s) : messages'[<<s, d>>].seq = messages[<<s, d>>].seq
        /\ \A u \in Users : readSequence'[<<s, u>>] <= n
    BY <1>5 DEF Numbering
  <2>1. CASE s # t
    <3>1. ~Storing(r, s)' /\ req'[r].on # s BY <1>3, <2>1 DEF Storing
    <3> QED BY <1>1, <1>3, <1>5, <2>0, <3>1, NumberingStays
  <2>2. CASE s = t
    <3>1. Max({0} \cup Numbers(t)) = n BY <1>5, <2>2, MaxTo DEF Numbering
    <3>2. CASE m = None /\ Take(r, "store", n + 1)
      <4>1. req'[r].pc = "store" /\ req'[r].got = n + 1 /\ req'[r].answer = req[r].answer
        BY <3>2 DEF Take, OnRoute, Shape, Unused
      <4>2. req'[r].arg \notin Sent(s) BY <1>3, <2>2, <3>2 DEF Sent
      <4>3. ~SentBy(r)' BY <1>3, <1>n, <4>1 DEF SentBy
      <4> QED BY <1>1, <1>3, <1>4, <1>5, <2>0, <2>2, <4>1, <4>2, <4>3, NumberingStays
    <3>3. CASE m # None /\ Reply(r, "sent", m.seq)
      <4>1. req'[r].pc = "done" /\ req'[r].got = m.seq
        BY <3>3 DEF Reply, OnRoute, Shape, Unused
      <4>2. req'[r].arg \in Sent(s) /\ req'[r].got = messages[<<s, req'[r].arg>>].seq
        BY <1>3, <2>2, <3>3, <4>1 DEF Sent
      <4>3. ~Storing(r, s)' BY <4>1 DEF Storing
      <4> QED BY <1>1, <1>3, <1>5, <2>0, <4>2, <4>3, NumberingStays
    <3>4. CASE Answer(r, "conflict")
      <4>1. req'[r].pc = "done" /\ req'[r].answer = "conflict"
        BY <3>4 DEF Answer, Reply, OnRoute, Shape, Unused
      <4>2. ~Storing(r, s)' /\ ~SentBy(r)' BY <4>1 DEF Storing, SentBy
      <4> QED BY <1>1, <1>3, <1>5, <2>0, <4>2, NumberingStays
    <3> QED BY <3>1, <3>2, <3>3, <3>4 DEF SendLock
  <2> QED BY <2>1, <2>2
<1>6. \A q \in Reqs : SentBy(q)' => req'[q].on \in Ids BY <1>3 DEF SentBy
<1> QED BY <1>2, <1>5, <1>6

(* A message is added to a thread.                                            *)
Adds(t, c, row) == messages' = [messages EXCEPT ![<<t, c>>] = row]

LEMMA OneMore ==
  ASSUME MessageTypeOK, UNCHANGED readSequence, NEW t \in Ids, NEW c \in Clients,
         c \notin Sent(t), NEW row \in Message,
         Adds(t, c, row)
  PROVE  /\ MessageTypeOK' /\ messages'[<<t, c>>] = row
         /\ Sent(t)' = Sent(t) \cup {c} /\ Numbers(t)' = Numbers(t) \cup {row.seq}
         /\ \A s \in Ids \ {t} : Sent(s)' = Sent(s)
         /\ \A s \in Ids : \A d \in Sent(s) : messages'[<<s, d>>] = messages[<<s, d>>]
<1>1. MessageTypeOK' BY DEF MessageTypeOK, Adds
<1>2. /\ messages'[<<t, c>>] = row
      /\ \A s \in Ids, d \in Clients :
           s # t \/ d # c => messages'[<<s, d>>] = messages[<<s, d>>]
  BY DEF MessageTypeOK, Adds
<1>3. row # None BY MessageAssumption
<1>4. Sent(t)' = Sent(t) \cup {c} BY <1>2, <1>3 DEF Sent
<1>5. \A s \in Ids \ {t} : Sent(s)' = Sent(s) BY <1>2 DEF Sent
<1>6. \A s \in Ids : \A d \in Sent(s) : messages'[<<s, d>>] = messages[<<s, d>>]
  BY <1>2, SentFacts
<1>7. Numbers(t)' = Numbers(t) \cup {row.seq}
  <2>1. \A d \in Sent(t) : messages'[<<t, d>>] = messages[<<t, d>>] BY <1>6
  <2>2. Numbers(t)' = {messages'[<<t, d>>].seq : d \in Sent(t) \cup {c}}
    BY <1>4 DEF Numbers
  <2>3. messages'[<<t, c>>] = row BY <1>2
  <2> QED BY <2>1, <2>2, <2>3 DEF Numbers
<1> QED BY <1>1, <1>2, <1>4, <1>5, <1>6, <1>7

LEMMA RoomLeft ==
  ASSUME MessageTypeOK, NEW t \in Ids, NEW n \in Nat, Numbering(t, n),
         NEW c \in Clients, c \notin Sent(t)
  PROVE  n + 1 \in Sequences /\ Cardinality(Sent(t) \cup {c}) = n + 1
<1>1. Sent(t) \subseteq Clients /\ IsFiniteSet(Clients) /\ Cardinality(Sent(t)) = n
  BY SentFacts, MessageAssumption DEF Numbering
<1>2. IsFiniteSet(Sent(t)) /\ Sent(t) \cup {c} \subseteq Clients BY <1>1, FS_Subset
<1>3. Cardinality(Sent(t) \cup {c}) = n + 1 BY <1>1, <1>2, FS_AddElement
<1>4. n + 1 <= Cardinality(Clients) /\ Cardinality(Clients) \in Nat
  BY <1>1, <1>2, <1>3, FS_Subset, FS_CardinalityType
<1> QED BY <1>3, <1>4 DEF Sequences

Numbered(t, n, c) ==
  /\ Sent(t)' = Sent(t) \cup {c} /\ Numbers(t)' = Numbers(t) \cup {n + 1}
  /\ Cardinality(Sent(t)') = n + 1 /\ messages'[<<t, c>>].seq = n + 1
  /\ \A d \in Sent(t) : messages'[<<t, d>>] = messages[<<t, d>>]

LEMMA NumberingGrows ==
  ASSUME MessageTypeOK, UNCHANGED readSequence, NEW t \in Ids, NEW n \in Nat,
         Numbering(t, n), NEW c \in Clients, Numbered(t, n, c),
         \A q \in Reqs : ~Storing(q, t)', AnswersOf(t)'
  PROVE  Numbering(t, n + 1)'
<1>1. Numbers(t)' = 1..(n + 1)
  <2>1. Numbers(t) = 1..n BY DEF Numbering
  <2>2. Numbers(t)' = (1..n) \cup {n + 1} BY <2>1 DEF Numbered
  <2> QED BY <2>2
<1>2. \A d \in Sent(t) : messages'[<<t, d>>].seq \in 1..n
  BY DEF Numbering, Numbers, Numbered
<1>3. ASSUME NEW d \in Sent(t)', NEW e \in Sent(t)',
             messages'[<<t, d>>].seq = messages'[<<t, e>>].seq
      PROVE  d = e
  <2>1. messages'[<<t, c>>].seq = n + 1 /\ n + 1 \notin 1..n BY DEF Numbered
  <2>2. d = c \/ d \in Sent(t) BY DEF Numbered
  <2>3. e = c \/ e \in Sent(t) BY DEF Numbered
  <2>4. CASE d \in Sent(t) /\ e \in Sent(t) BY <1>3, <2>4 DEF Numbering, Numbered
  <2> QED BY <1>2, <1>3, <2>1, <2>2, <2>3, <2>4
<1>4. \A u \in Users : readSequence'[<<t, u>>] <= n + 1
  BY DEF Numbering, MessageTypeOK, Sequences
<1> QED BY <1>1, <1>3, <1>4 DEF Numbering, Numbered

LEMMA StoreThreads ==
  ASSUME OnRoute, Threads, NEW r \in Reqs, Store(r), Moved(r), Sends(r),
         UNCHANGED readSequence
  PROVE  Threads'
<1> PICK t \in Ids, c \in Clients, u \in Users :
      t = req[r].on /\ c = req[r].arg /\ u = req[r].by /\ req[r].op = "send"
  BY DEF Sends
<1>0. MessageTypeOK /\ \A s \in Ids : \E n \in Nat : Numbering(s, n) BY DEF Threads
<1>1. PICK n \in Nat : Numbering(t, n) BY <1>0
<1>2. Storing(r, t) BY DEF Store, At, Storing
<1>3. c \notin Sent(t) /\ req[r].got = n + 1 /\ req[r].got \notin Numbers(t)
  BY <1>1, <1>2 DEF Numbering
<1> DEFINE row == [sender |-> u, seq |-> n + 1, erased |-> FALSE, hiddenFor |-> {}]
<1>4. Adds(t, c, row) /\ Reply(r, "sent", n + 1) BY <1>3 DEF Store, Adds
<1>5. /\ \A q \in Reqs \ {r} : req'[q] = req[q]
      /\ req'[r].op = "send" /\ req'[r].on = t /\ req'[r].arg = c
      /\ req'[r].pc = "done" /\ req'[r].got = n + 1
  BY <1>4 DEF Moved, Reply, OnRoute, Shape, Unused, Store, At
<1>6. n + 1 \in Sequences /\ Cardinality(Sent(t) \cup {c}) = n + 1
  BY <1>0, <1>1, <1>3, RoomLeft
<1>7. row \in Message /\ row.seq = n + 1 BY <1>6 DEF Message
<1> HIDE DEF row
<1>8. /\ MessageTypeOK' /\ messages'[<<t, c>>] = row
      /\ Sent(t)' = Sent(t) \cup {c} /\ Numbers(t)' = Numbers(t) \cup {row.seq}
      /\ \A s \in Ids \ {t} : Sent(s)' = Sent(s)
      /\ \A s \in Ids : \A d \in Sent(s) : messages'[<<s, d>>] = messages[<<s, d>>]
  BY <1>0, <1>3, <1>4, <1>7, OneMore
<1>9. Numbered(t, n, c) BY <1>0, <1>6, <1>7, <1>8 DEF Numbered
<1>10. Numbering(t, n + 1)'
  <2>1. \A q \in Reqs : ~Storing(q, t)'
    <3>1. \A q \in Reqs : Storing(q, t) => q = r BY <1>1, <1>2 DEF Numbering
    <3> QED BY <1>5, <3>1 DEF Storing
  <2>2. AnswersOf(t)'
    <3>1. ASSUME NEW q \in Reqs \ {r}, SentBy(q)', req'[q].on = t
          PROVE  /\ req'[q].arg \in Sent(t)'
                 /\ req'[q].got = messages'[<<t, req'[q].arg>>].seq
      <4>1. req'[q] = req[q] BY <1>5
      <4>2. SentBy(q) /\ req[q].on = t BY <3>1, <4>1 DEF SentBy
      <4>3. req[q].arg \in Sent(t) /\ req[q].got = messages[<<t, req[q].arg>>].seq
        BY <1>1, <4>2 DEF Numbering, AnswersOf
      <4> QED BY <1>0, <1>8, <4>1, <4>3
    <3>2. req'[r].arg \in Sent(t)' /\ req'[r].got = messages'[<<t, req'[r].arg>>].seq
      BY <1>5, <1>7, <1>8
    <3> QED BY <3>1, <3>2 DEF AnswersOf
  <2> QED BY <1>0, <1>1, <1>9, <2>1, <2>2, NumberingGrows
<1>11. ASSUME NEW s \in Ids \ {t}, NEW k \in Nat, Numbering(s, k) PROVE Numbering(s, k)'
  <2>1. /\ Sent(s)' = Sent(s)
        /\ \A d \in Sent(s) : messages'[<<s, d>>].seq = messages[<<s, d>>].seq
    BY <1>8
  <2>2. \A v \in Users : readSequence'[<<s, v>>] <= k BY <1>11 DEF Numbering
  <2>3. ~Storing(r, s)' /\ req'[r].on # s BY <1>5 DEF Storing
  <2> QED BY <1>5, <1>11, <2>1, <2>2, <2>3, NumberingStays
<1>12. \A q \in Reqs : SentBy(q)' => req'[q].on \in Ids
  BY <1>0, <1>5 DEF SentBy, Threads
<1>13. \A s \in Ids : \E k \in Nat : Numbering(s, k)'
  <2> TAKE s \in Ids
  <2>1. CASE s = t
    <3>1. n + 1 \in Nat OBVIOUS
    <3> QED BY <1>10, <2>1, <3>1
  <2>2. CASE s # t BY <1>0, <1>11, <2>2
  <2> QED BY <2>1, <2>2
<1> QED BY <1>8, <1>12, <1>13 DEF Threads

LEMMA DeleteThreads ==
  ASSUME OnRoute, Threads, NEW r \in Reqs, deleteMessage(r), Moved(r), ~SentBy(r)',
         req'[r].pc # "store"
  PROVE  Threads'
<1>1. PICK t \in Ids, c \in Clients, new \in Message :
        /\ c \in Sent(t) /\ new.seq = messages[<<t, c>>].seq
        /\ messages' = [messages EXCEPT ![<<t, c>>] = new]
  <2> PICK t \in Ids, u \in Users, everyone \in BOOLEAN : \E c \in Sent(t) :
        messages' = IF everyone THEN [messages EXCEPT ![<<t, c>>].erased = TRUE]
                    ELSE [messages EXCEPT ![<<t, c>>].hiddenFor = @ \cup {u}]
    BY DEF deleteMessage
  <2> PICK c \in Sent(t) :
        messages' = IF everyone THEN [messages EXCEPT ![<<t, c>>].erased = TRUE]
                    ELSE [messages EXCEPT ![<<t, c>>].hiddenFor = @ \cup {u}]
    OBVIOUS
  <2>1. c \in Clients /\ messages[<<t, c>>] \in Message BY SentFacts DEF Threads
  <2> DEFINE m == messages[<<t, c>>]
             erasedRow == [m EXCEPT !.erased = TRUE]
             hiddenRow == [m EXCEPT !.hiddenFor = @ \cup {u}]
             new == IF everyone THEN erasedRow ELSE hiddenRow
  <2>2. erasedRow \in Message /\ erasedRow.seq = m.seq BY <2>1 DEF Message
  <2>3. hiddenRow \in Message /\ hiddenRow.seq = m.seq BY <2>1 DEF Message
  <2>4. messages' = [messages EXCEPT ![<<t, c>>] = new] OBVIOUS
  <2> HIDE DEF m, erasedRow, hiddenRow
  <2>5. new \in Message /\ new.seq = m.seq BY <2>2, <2>3
  <2> HIDE DEF new
  <2> QED BY <2>1, <2>4, <2>5 DEF m
<1>0. /\ MessageTypeOK /\ UNCHANGED readSequence /\ new # None
      /\ \A q \in Reqs \ {r} : req'[q] = req[q]
  BY MessageAssumption DEF Threads, deleteMessage, Moved
<1>2. MessageTypeOK' BY <1>0, <1>1 DEF MessageTypeOK
<1>3. /\ messages'[<<t, c>>] = new
      /\ \A s \in Ids, d \in Clients :
           s # t \/ d # c => messages'[<<s, d>>] = messages[<<s, d>>]
  BY <1>0, <1>1 DEF MessageTypeOK
<1>4. \A s \in Ids, d \in Clients :
        /\ messages'[<<s, d>>] # None <=> messages[<<s, d>>] # None
        /\ messages[<<s, d>>] # None => messages'[<<s, d>>].seq = messages[<<s, d>>].seq
  BY <1>0, <1>1, <1>3 DEF Sent
<1>5. \A s \in Ids : Sent(s)' = Sent(s) BY <1>4 DEF Sent
<1>6. ASSUME NEW s \in Ids, NEW n \in Nat, Numbering(s, n) PROVE Numbering(s, n)'
  <2>1. /\ \A d \in Sent(s) : messages'[<<s, d>>].seq = messages[<<s, d>>].seq
        /\ \A u \in Users : readSequence'[<<s, u>>] <= n
    BY <1>0, <1>4, <1>6 DEF Sent, Numbering
  <2>2. ~Storing(r, s)' BY DEF Storing
  <2> QED BY <1>0, <1>5, <1>6, <2>1, <2>2, NumberingStays
<1>7. \A q \in Reqs : SentBy(q)' => req'[q].on \in Ids BY <1>0 DEF SentBy, Threads
<1> QED BY <1>2, <1>6, <1>7 DEF Threads

LEMMA ReadThreads ==
  ASSUME OnRoute, Threads, NEW r \in Reqs, markRead(r), Moved(r), ~SentBy(r)',
         req'[r].pc # "store"
  PROVE  Threads'
<1>p. PICK t \in Ids, u \in Users : \E n \in Numbers(t) :
        readSequence' = [readSequence EXCEPT ![<<t, u>>] = IF @ < n THEN n ELSE @]
  BY DEF markRead
<1>1. PICK n \in Numbers(t) :
        readSequence' = [readSequence EXCEPT ![<<t, u>>] = IF @ < n THEN n ELSE @]
  BY <1>p
<1>0. /\ MessageTypeOK /\ UNCHANGED messages
      /\ \A q \in Reqs \ {r} : req'[q] = req[q]
  BY DEF Threads, markRead, Moved
<1> DEFINE last == IF readSequence[<<t, u>>] < n THEN n ELSE readSequence[<<t, u>>]
<1>2. n \in Sequences BY <1>0, <1>1, SentFacts DEF Numbers, Message
<1>3. last \in {0} \cup Sequences BY <1>0, <1>2 DEF MessageTypeOK
<1>4. readSequence' = [readSequence EXCEPT ![<<t, u>>] = last] BY <1>1
<1>l. readSequence[<<t, u>>] \in {0} \cup Sequences BY <1>0 DEF MessageTypeOK
<1>m. \A k \in Nat : readSequence[<<t, u>>] <= k /\ n <= k => last <= k
  BY <1>l, <1>2 DEF Sequences
<1> HIDE DEF last
<1>5. MessageTypeOK' BY <1>0, <1>3, <1>4 DEF MessageTypeOK
<1>6. \A s \in Ids : Sent(s)' = Sent(s) BY <1>0 DEF Sent
<1>7. ASSUME NEW s \in Ids, NEW k \in Nat, Numbering(s, k) PROVE Numbering(s, k)'
  <2>1. \A d \in Sent(s) : messages'[<<s, d>>].seq = messages[<<s, d>>].seq BY <1>0
  <2>2. ASSUME NEW v \in Users PROVE readSequence'[<<s, v>>] <= k
    <3>0. readSequence[<<s, v>>] <= k BY <1>7 DEF Numbering
    <3>1. CASE s = t /\ v = u
      <4>0. n \in Numbers(s) /\ Numbers(s) = 1..k BY <1>1, <1>7, <3>1 DEF Numbering
      <4>1. n <= k BY <4>0
      <4>2. last <= k BY <1>m, <3>0, <3>1, <4>1
      <4>3. readSequence'[<<t, u>>] = last BY <1>0, <1>4 DEF MessageTypeOK
      <4> QED BY <3>1, <4>2, <4>3
    <3>2. CASE ~(s = t /\ v = u)
      <4>1. readSequence'[<<s, v>>] = readSequence[<<s, v>>]
        BY <1>0, <1>4, <3>2 DEF MessageTypeOK
      <4> QED BY <3>0, <4>1
    <3> QED BY <3>1, <3>2
  <2>3. ~Storing(r, s)' BY DEF Storing
  <2> QED BY <1>0, <1>6, <1>7, <2>1, <2>2, <2>3, NumberingStays
<1>8. \A q \in Reqs : SentBy(q)' => req'[q].on \in Ids BY <1>0 DEF SentBy, Threads
<1> QED BY <1>5, <1>7, <1>8 DEF Threads

LEMMA StoreFacts ==
  ASSUME OnRoute, Threads, NEW r \in Reqs, req[r].pc = "store"
  PROVE  /\ req[r].arg \notin Sent(req[r].on)
         /\ req[r].got \notin Numbers(req[r].on)
<1>1. req[r].on \in Ids
  BY UnderWay DEF Route, BlockSteps, RateSteps, CardSteps, PairSteps, RowSteps
<1> PICK t \in Ids : t = req[r].on BY <1>1
<1> PICK n \in Nat : Numbering(t, n) BY DEF Threads
<1> QED BY DEF Numbering, Storing

-----------------------------------------------------------------------------
(* Every step keeps RouteInv.                                                 *)
OpFits(op, pc) ==
  /\ pc = "next sequence" => op = "chat"
  /\ pc = "store" => op = "send"
  /\ pc \in RateSteps => op = "rate"
  /\ pc \in CardSteps => op \in {"reveal", "card"}
  /\ pc \in {"previous encounter", "upsert offer"} => op = "offer"
  /\ pc \in {"lock pair", "opposite", "insert request"} => op = "ask"
  /\ pc = "befriend" => op \in {"ask"} \cup Answering
  /\ pc = "settle" => op \in Answering
  /\ pc \in BlockSteps => op = "block"
  /\ pc \in Offered => op \in {"leave", "block"}
  /\ op = "block" /\ pc # "done" => pc \in BlockSteps \cup Offered

LEMMA RouteOps ==
  ASSUME NEW op, NEW on, NEW arg, NEW pc, Route(op, on, arg, pc)
  PROVE  OpFits(op, pc)
<1> USE DEF Route, RateSteps, CardSteps, BlockSteps, PairSteps, RowSteps, Answering,
            Offered, OpFits
<1> QED OBVIOUS

LEMMA MovedRoute ==
  ASSUME NEW r \in Reqs, Moved(r), req'[r].pc # "done"
  PROVE  OpFits(req'[r].op, req'[r].pc)
<1>1. req'[r] # Unused BY UnusedFacts DEF Moved
<1>2. Route(req'[r].op, req'[r].on, req'[r].arg, req'[r].pc)
  BY <1>1 DEF Moved, Begun
<1> QED BY <1>2, RouteOps

LEMMA RoutesBeside ==
  ASSUME RouteInv, NEW r \in Reqs, Moved(r), Draws(r), UNCHANGED messageVars,
         req'[r].op # "send"
  PROVE  RouteInv'
<1> USE DEF RouteInv
<1>1. req'[r].pc # "store" BY MovedRoute DEF OpFits
<1>2. ~SentBy(r)' BY DEF SentBy
<1> QED BY <1>1, <1>2, MovedKeeps, CountedKeeps, ThreadsBeside

(* A handler other than chat's draws no number.                               *)
LEMMA NoDraw ==
  ASSUME NEW r \in Reqs, Moved(r), UNCHANGED chatSequence, req'[r].op # "chat"
  PROVE  Draws(r)
BY MovedRoute DEF Draws, OpFits

LEMMA ChatNumber ==
  ASSUME Counted, NEW r \in Reqs, Chat(r), req[r].pc = "next sequence"
  PROVE  chatSequence' \in Reqs
<1>1. ~ChatStart(r) BY UnusedFacts DEF ChatStart, Begin
<1>2. chatSequence' = chatSequence + 1
  BY <1>1 DEF Chat, nextSequence, addRandomMessage, At
<1> QED BY <1>2, NextNumber

LEMMA EncounterRoutes ==
  ASSUME RouteInv, NEW r \in Reqs, OfEncounter(r)
  PROVE  RouteInv' /\ Moved(r)
<1> USE DEF RouteInv
<1>0. UNCHANGED messageVars BY DEF OfEncounter
<1>1. CASE Chat(r)
  <2>1. req[r].pc = "next sequence" => chatSequence' \in Reqs BY <1>1, ChatNumber
  <2>2. Moved(r) /\ req'[r].op = "chat" BY <1>1, <2>1, ChatMoves
  <2>3. Draws(r)
    <3>1. CASE ChatStart(r)
      <4>1. req[r].pc = "new" BY <3>1, UnusedFacts DEF ChatStart, Begin
      <4> QED BY <3>1, <4>1 DEF ChatStart, chatVars, Draws
    <3>2. CASE nextSequence(r)
      <4>1. req'[r].pc = "find thread"
        BY <3>2 DEF nextSequence, Take, OnRoute, Shape, Unused
      <4> QED BY <3>2, <4>1 DEF nextSequence, At, Draws
    <3>3. CASE addRandomMessage(r)
      <4>1. req'[r].pc # "next sequence"
        <5>1. \/ Go(r, "insert chat") \/ Reply(r, "refused", None)
              \/ Reply(r, "failed", None) \/ Reply(r, "sent", req[r].got)
          BY <3>3 DEF addRandomMessage, Refuse, Answer
        <5>2. Shape BY DEF OnRoute
        <5>3. Go(r, "insert chat") => req'[r].pc = "insert chat" BY <5>2, GoSets
        <5>4. \A a, x : Reply(r, a, x) => req'[r].pc = "done" BY <5>2, ReplySets
        <5> QED BY <5>1, <5>3, <5>4
      <4> QED BY <3>3, <4>1 DEF addRandomMessage, Draws
    <3> QED BY <1>1, <3>1, <3>2, <3>3 DEF Chat
  <2> QED BY <1>0, <2>2, <2>3, RoutesBeside
<1>2. CASE OfMeeting(r) /\ UNCHANGED chatVars
  <2>1. Moved(r) /\ req'[r].op \in {"leave", "block", "report", "rate", "reveal", "card",
                                   "offer", "answer offer", "hide"}
    <3>1. CASE Leave(r) BY <3>1, LeaveMoves
    <3>2. CASE Report(r) BY <3>2, ReportMoves
    <3>3. CASE Rate(r) BY <3>3, RateMoves
    <3>4. CASE Cards(r) BY <3>4, CardMoves
    <3>5. CASE Reconnect(r) BY <3>5, OfferMoves
    <3>6. CASE hide(r)
      <4>1. req'[r].op = "hide"
        BY <3>6 DEF hide, Begin, OnRoute, Shape
      <4> QED BY <3>6, <4>1, HideMoves
    <3>7. CASE BlockHide(r) \/ RevokeReveals(r) \/ InvalidateOffers(r)
      BY <3>7, BlockMoves
    <3> QED BY <1>2, <3>1, <3>2, <3>3, <3>4, <3>5, <3>6, <3>7 DEF OfMeeting
  <2>2. Draws(r) BY <1>2, <2>1, NoDraw DEF chatVars
  <2> QED BY <1>0, <2>1, <2>2, RoutesBeside
<1> QED BY <1>1, <1>2 DEF OfEncounter

LEMMA FriendRoutes ==
  ASSUME LockInv, RouteInv, NEW r \in Reqs, OfFriends(r)
  PROVE  RouteInv' /\ \E q \in Reqs :
           Moved(q) /\ req'[q].op \notin {"send", "chat", "rate"}
<1> USE DEF RouteInv
<1>0. UNCHANGED messageVars /\ UNCHANGED chatSequence
  BY DEF OfFriends, encounterVars, chatVars
<1>1. \E q \in Reqs : Moved(q) /\ req'[q].op \notin {"send", "chat", "rate"}
  <2>1. CASE createRequest(r) \/ createFriendship(r) \/ resolve(r)
    BY <2>1, FriendMoves DEF Answering
  <2>2. CASE Deadlock(r) BY <2>2, DeadlockMoves DEF Answering
  <2>3. CASE unfriend(r) \/ remove(r) BY <2>3, HideMoves
  <2>4. CASE CancelRequests(r) \/ EndFriendship(r) \/ BlockStart(r) \/ BlockRow(r)
    BY <2>4, BlockMoves
  <2> QED BY <2>1, <2>2, <2>3, <2>4 DEF OfFriends
<1>2. PICK q \in Reqs : Moved(q) /\ req'[q].op \notin {"send", "chat", "rate"} BY <1>1
<1> QED BY <1>0, <1>2, NoDraw, RoutesBeside

LEMMA MessageRoutes ==
  ASSUME RouteInv, NEW r \in Reqs, OfMessages(r)
  PROVE  RouteInv' /\ Moved(r) /\ req'[r].op \in {"send", "delete", "read"}
<1> USE DEF RouteInv
<1>0. UNCHANGED chatSequence BY DEF OfMessages, encounterVars, chatVars
<1>1. CASE send(r) /\ UNCHANGED readSequence
  <2>1. req[r].pc = "store" => /\ req[r].arg \notin Sent(req[r].on)
                               /\ req[r].got \notin Numbers(req[r].on)
    BY StoreFacts
  <2>2. /\ Moved(r) /\ req'[r].op = "send"
        /\ req[r].pc # "new" => /\ req[r].on \in Ids /\ req[r].arg \in Clients
                                /\ req[r].by \in Users
    BY <1>1, <2>1, SendMoves
  <2>3. OnRoute' /\ Counted' BY <1>0, <2>2, NoDraw, MovedKeeps, CountedKeeps
  <2>4. Threads'
    <3>1. CASE SendStart(r) \/ SendAccess(r)
      <4>1. req'[r].pc \in {"access", "lock thread", "done"} /\ req'[r].answer # "sent"
        <5>1. CASE SendStart(r)
          BY <5>1, AnswersAssumption DEF SendStart, Begin, OnRoute, Shape
        <5>2. CASE SendAccess(r)
          <6>1. req[r].answer = None BY <5>2, UnderWay DEF SendAccess, At
          <6>2. Go(r, "lock thread") \/ Reply(r, "refused", None)
            BY <5>2 DEF SendAccess, Refuse, Answer
          <6>3. Shape BY DEF OnRoute
          <6> QED BY <6>1, <6>2, <6>3, GoSets, ReplySets, AnswersAssumption
        <5> QED BY <3>1, <5>1, <5>2
      <4>2. UNCHANGED messageVars BY <1>1, <3>1 DEF SendStart, SendAccess, messageVars
      <4>3. req'[r].pc # "store" /\ ~SentBy(r)' BY <4>1 DEF SentBy
      <4> QED BY <2>2, <4>2, <4>3, ThreadsBeside
    <3>2. CASE SendLock(r)
      <4>1. req[r].pc = "lock thread" BY <3>2 DEF SendLock, At
      <4>2. Sends(r) BY <2>2, <4>1 DEF Sends, Moved
      <4>3. UNCHANGED messageVars BY <1>1, <3>2 DEF SendLock, messageVars
      <4> QED BY <2>2, <3>2, <4>2, <4>3, LockThreads
    <3>3. CASE Store(r)
      <4>1. req[r].pc = "store" BY <3>3 DEF Store, At
      <4>2. Sends(r) BY <2>2, <4>1 DEF Sends, Moved
      <4> QED BY <1>1, <2>2, <3>3, <4>2, StoreThreads
    <3> QED BY <1>1, <3>1, <3>2, <3>3 DEF send
  <2> QED BY <2>2, <2>3, <2>4
<1>2. CASE deleteMessage(r) \/ markRead(r)
  <2>1. Moved(r) /\ req'[r].op \in {"delete", "read"} /\ req'[r].pc = "done"
    BY <1>2, ReadMoves
  <2>2. ~SentBy(r)' BY <2>1 DEF SentBy
  <2>3. OnRoute' /\ Counted' BY <1>0, <2>1, NoDraw, MovedKeeps, CountedKeeps
  <2>4. Threads' BY <1>2, <2>1, <2>2, DeleteThreads, ReadThreads
  <2> QED BY <2>1, <2>3, <2>4
<1> QED BY <1>1, <1>2 DEF OfMessages

LEMMA DieRoutes ==
  ASSUME RouteInv, NEW r \in Reqs, Die(r), UNCHANGED <<encounterVars, messageVars>>
  PROVE  RouteInv' /\ Moved(r)
<1> USE DEF RouteInv
<1>1. Moved(r) /\ req'[r].pc = "done" /\ req'[r].answer = "lost" BY DieMoves
<1>2. req'[r].pc # "store" /\ ~SentBy(r)' BY <1>1 DEF SentBy
<1>3. Draws(r) BY <1>1 DEF Draws, encounterVars, chatVars
<1> QED BY <1>1, <1>2, <1>3, MovedKeeps, CountedKeeps, ThreadsBeside

LEMMA StillRoutes ==
  ASSUME RouteInv, UNCHANGED <<req, messageVars, chatSequence>>
  PROVE  RouteInv'
<1> USE DEF RouteInv
<1>1. OnRoute'
  <2>1. \A q \in Reqs : Begun(req'[q]) BY DEF OnRoute
  <2> QED BY <2>1 DEF OnRoute, Shape, Unused
<1>2. Drew' = Drew BY DEF Drew
<1>3. Counted' BY <1>2 DEF Counted
<1>4. Threads' BY ThreadsStill
<1> QED BY <1>1, <1>3, <1>4

(* What moves is one request, or none.                                        *)
OneMoves == (\E r \in Reqs : Moved(r)) \/ req' = req

LEMMA NextRoutes ==
  ASSUME LockInv, RouteInv, [Next]_vars
  PROVE  RouteInv' /\ OneMoves
<1> USE DEF OneMoves
<1>1. ASSUME NEW r \in Reqs, Step(r) PROVE RouteInv' /\ OneMoves
  BY <1>1, EncounterRoutes, FriendRoutes, MessageRoutes DEF Step
<1>2. ASSUME NEW r \in Reqs, Die(r), UNCHANGED <<encounterVars, messageVars>>
      PROVE  RouteInv' /\ OneMoves
  BY <1>2, DieRoutes
<1>3. CASE Staffed
  BY <1>3, StillRoutes DEF Staffed, requestVars, encounterVars, chatVars
<1>4. CASE Time BY <1>4, StillRoutes DEF Time, requestVars, chatVars
<1>5. CASE RetentionPass
  BY <1>5, StillRoutes DEF RetentionPass, requestVars, chatVars, ExpireSanctions, CleanupCalls
<1>6. CASE UNCHANGED vars
  BY <1>6, StillRoutes DEF vars, requestVars, encounterVars, chatVars
<1> QED BY <1>1, <1>2, <1>3, <1>4, <1>5, <1>6 DEF Next

LEMMA InitRoutes == Init => RouteInv
<1> SUFFICES ASSUME Init PROVE RouteInv OBVIOUS
<1>1. req = [r \in Reqs |-> Unused] BY DEF Init
<1>2. \A r \in Reqs : req[r] = Unused BY <1>1
<1>3. OnRoute BY <1>1, <1>2 DEF OnRoute, Shape, Begun
<1>4. Counted
  <2>1. Drew \in SUBSET Reqs BY DEF Drew
  <2>2. Cardinality(Drew) \in Nat BY <2>1, ReqsFacts
  <2>3. chatSequence = 0 BY DEF Init, EncounterInit
  <2> QED BY <2>2, <2>3 DEF Counted
<1>5. Threads
  <2> USE DEF Init, MessageInit
  <2>1. MessageTypeOK BY DEF MessageTypeOK
  <2>2. \A r \in Reqs : ~SentBy(r) /\ \A t \in Ids : ~Storing(r, t)
    BY <1>2, UnusedFacts, AnswersAssumption DEF SentBy, Storing
  <2>3. ASSUME NEW t \in Ids PROVE Numbering(t, 0)
    <3>1. Sent(t) = {} BY DEF Sent
    <3>2. Numbers(t) = {} BY <3>1 DEF Numbers
    <3>3. Cardinality(Sent(t)) = 0 BY <3>1, FS_EmptySet
    <3>4. Numbers(t) = 1..0 BY <3>2
    <3>5. ASSUME NEW u \in Users PROVE readSequence[<<t, u>>] <= 0
      <4>1. readSequence[<<t, u>>] = 0 OBVIOUS
      <4> QED BY <4>1
    <3> QED BY <2>2, <3>1, <3>3, <3>4, <3>5 DEF Numbering, AnswersOf
  <2>4. \A t \in Ids : \E n \in Nat : Numbering(t, n)
    <3>1. 0 \in Nat OBVIOUS
    <3> QED BY <2>3, <3>1
  <2> QED BY <2>1, <2>2, <2>4 DEF Threads
<1> QED BY <1>3, <1>4, <1>5 DEF RouteInv

(* Every request stays on the route of its handler, the chat's counter counts *)
(* the requests that drew a number, and the messages of a thread have the     *)
(* numbers from 1 on without a gap, in every behaviour (send of               *)
(* communications.ts under the thread's lock).                                *)
THEOREM RoutesHold == Spec => []RouteInv
<1>1. LockInv /\ RouteInv /\ [Next]_vars => RouteInv' BY NextRoutes
<1> QED BY <1>1, InitRoutes, LocksHold, PTL DEF Spec

(* The unread count of the last number and the one read before it.            *)
LEMMA UnreadCount ==
  ASSUME NEW t \in Ids, NEW u \in Users, NEW n \in Nat, Numbering(t, n),
         MessageTypeOK
  PROVE  n + 1 = readSequence[<<t, u>>] + unread(t, u) + 1
<1>1. Max({0} \cup Numbers(t)) = n BY MaxTo DEF Numbering
<1> PICK k \in Nat : k = readSequence[<<t, u>>]
  BY DEF MessageTypeOK, Sequences
<1>2. k <= n BY DEF Numbering
<1>3. unread(t, u) = IF n > k THEN n - k ELSE 0 BY <1>1 DEF unread
<1>4. unread(t, u) = n - k BY <1>2, <1>3
<1> HIDE DEF Numbering
<1>5. n + 1 = k + (n - k) + 1 OBVIOUS
<1> QED BY <1>4, <1>5

(* No unique index ever turns down a send or a friendship, a retried message  *)
(* gets its first number again, and a message about to be stored adds one to  *)
(* what is unread (send, markRead, listThreads; createFriendship).            *)
THEOREM NeverCollides == Spec => []NoCollision
<1>1. ASSUME RouteInv PROVE NoCollision
  <2> USE <1>1 DEF RouteInv
  <2>1. \A r \in Reqs : req[r].answer # "collision"
    BY UnusedFacts, AnswersAssumption DEF OnRoute, Begun
  <2>2. ASSUME NEW r \in Reqs, NEW q \in Reqs, SentBy(r), SentBy(q),
               req[r].on = req[q].on
        PROVE  req[r].got = req[q].got <=> req[r].arg = req[q].arg
    <3> PICK t \in Ids : t = req[r].on BY <2>2 DEF Threads
    <3> PICK n \in Nat : Numbering(t, n) BY DEF Threads
    <3>1. /\ req[r].arg \in Sent(t) /\ req[r].got = messages[<<t, req[r].arg>>].seq
          /\ req[q].arg \in Sent(t) /\ req[q].got = messages[<<t, req[q].arg>>].seq
      BY <2>2 DEF Numbering, AnswersOf
    <3> QED BY <3>1 DEF Numbering
  <2>3. ASSUME NEW r \in Reqs, At(r, "store"), NEW u \in Users
        PROVE  req[r].got = readSequence[<<req[r].on, u>>] + unread(req[r].on, u) + 1
    <3>0. req[r].pc = "store" BY <2>3 DEF At
    <3>1. req[r].on \in Ids
      BY <3>0, UnderWay DEF Route, BlockSteps, RateSteps, CardSteps, PairSteps, RowSteps
    <3> PICK t \in Ids : t = req[r].on BY <3>1
    <3> PICK n \in Nat : Numbering(t, n) BY DEF Threads
    <3>2. req[r].got = n + 1 BY <3>0 DEF Numbering, Storing
    <3>3. MessageTypeOK BY DEF Threads
    <3> QED BY <3>2, <3>3, UnreadCount
  <2> QED BY <2>1, <2>2, <2>3 DEF NoCollision, SentBy
<1> QED BY <1>1, RoutesHold, PTL

-----------------------------------------------------------------------------
(* Ratings.                                                                   *)
LEMMA RatingBeside ==
  ASSUME RatingInv, NEW r \in Reqs, Moved(r), req'[r].pc \notin RateSteps,
         UNCHANGED ratings
  PROVE  RatingInv'
<1>1. \A q \in Reqs : req'[q].pc \in RateSteps => req'[q] = req[q] BY DEF Moved
<1>2. Told => Told' BY DEF Told, Moved
<1>3. \A q \in Reqs : req'[q].pc = "commit rating" => req'[q] = req[q]
  BY <1>1 DEF RateSteps
<1> QED BY <1>1, <1>2, <1>3 DEF RatingInv

LEMMA RatingOther ==
  ASSUME RatingInv, NEW r \in Reqs, Moved(r), req'[r].op # "rate", UNCHANGED ratings
  PROVE  RatingInv'
BY RatingBeside, MovedRoute DEF OpFits, RateSteps

LEMMA RateKeeps ==
  ASSUME OnRoute, RatingInv, NEW r \in Reqs, Rate(r)
  PROVE  RatingInv'
<1>0. /\ Moved(r) /\ \A q \in Reqs \ {r} : req'[q] = req[q] /\ Shape
      /\ req[r].pc # "new" => req[r].arg \in Outcomes /\ req[r].by \in Users
      /\ req[r].pc # "new" => req'[r].by = req[r].by /\ req'[r].op = req[r].op
      /\ req'[r].op = "rate"
  BY RateMoves DEF Moved, OnRoute
<1>1. CASE RateStart(r)
  <2>0. UNCHANGED ratings BY <1>1 DEF RateStart
  <2>1. req'[r].pc = "check rating" BY <1>1, BeginSets DEF RateStart, OnRoute
  <2>2. req'[r].pc \notin RateSteps BY <2>1 DEF RateSteps
  <2> QED BY <1>0, <2>0, <2>2, RatingBeside
<1>2. CASE \E a, x : Reply(r, a, x) /\ UNCHANGED ratings
  <2>1. req'[r].pc \notin RateSteps BY <1>0, <1>2, ReplySets DEF OnRoute, RateSteps
  <2> QED BY <1>0, <1>2, <2>1, RatingBeside
<1>3. ASSUME NEW pc \in {"insert rating", "read peer"}, Go(r, pc), UNCHANGED ratings,
             \A q \in Reqs \ {r} : req[q].pc \notin RateSteps
      PROVE  RatingInv'
  <2>1. req'[r].pc = pc BY <1>3, GoSets DEF OnRoute
  <2>2. req'[r].pc # "commit rating" BY <2>1
  <2>3. \A q \in Reqs : req'[q].pc \in RateSteps => q = r BY <1>0, <1>3
  <2>4. \A q \in Reqs : req'[q].pc # "commit rating" BY <2>2, <2>3 DEF RateSteps
  <2>5. Told => Told' BY <1>0 DEF Told, Moved
  <2> QED BY <1>3, <2>3, <2>4, <2>5 DEF RatingInv
<1>4. req[r].pc \in RateSteps => \A q \in Reqs \ {r} : req[q].pc \notin RateSteps
  BY DEF RatingInv
<1>5. CASE RateCheck(r)
  <2>1. CASE Go(r, "insert rating")
    <3>1. \A q \in Reqs : req[q].pc \notin RateSteps
      BY <1>5 DEF RateCheck, EncounterLocked, Some, RateSteps
    <3> QED BY <1>3, <1>5, <2>1, <3>1 DEF RateCheck
  <2>2. CASE Refuse(r) BY <1>2, <1>5, <2>2 DEF RateCheck, Refuse, Answer
  <2> QED BY <1>5, <2>1, <2>2 DEF RateCheck
<1>6. CASE RateInsert(r)
  <2>1. CASE Go(r, "read peer")
    BY <1>3, <1>4, <1>6, <2>1 DEF RateInsert, At, RateSteps
  <2>2. CASE Refuse(r) BY <1>2, <1>6, <2>2 DEF RateInsert, Refuse, Answer
  <2> QED BY <1>6, <2>1, <2>2 DEF RateInsert
<1>7. CASE RateReadPeer(r)
  <2> DEFINE x == IF ratings[peer(req[r].by)] = None THEN "unresolved" ELSE "resolved"
  <2>1. Take(r, "commit rating", x) /\ UNCHANGED ratings /\ req[r].pc = "read peer"
    BY <1>7 DEF RateReadPeer, At
  <2>2. req'[r].got = x BY <2>1 DEF Take, OnRoute, Shape, Unused
  <2>3. \A q \in Reqs : req'[q].pc \in RateSteps => q = r
    BY <1>0, <1>4, <2>1 DEF RateSteps
  <2>4. ratings[peer(req[r].by)] # None => req'[r].got = "resolved" BY <2>2
  <2>5. Told => Told' BY <1>0 DEF Told, Moved
  <2>6. req'[r].by = req[r].by BY <1>0, <2>1
  <2>7. \A q \in Reqs : req'[q].pc = "commit rating" => q = r
    BY <2>3 DEF RateSteps
  <2> QED BY <2>1, <2>3, <2>4, <2>5, <2>6, <2>7 DEF RatingInv
<1>8. CASE RateCommit(r)
  <2>1. /\ req[r].pc = "commit rating" /\ Reply(r, req[r].got, None)
        /\ ratings' = [ratings EXCEPT ![req[r].by] = req[r].arg]
    BY <1>8 DEF RateCommit, At, Answer
  <2>2. req'[r].pc = "done" /\ req'[r].answer = req[r].got
    BY <2>1, ReplySets DEF OnRoute
  <2>3. req[r].by \in Users /\ req[r].arg \in Outcomes BY <1>0, <2>1
  <2>4. ratings' \in [Users -> Outcomes \cup {None}] BY <2>1, <2>3 DEF RatingInv
  <2>5. \A q \in Reqs : req'[q].pc \notin RateSteps
    BY <1>0, <1>4, <2>1, <2>2 DEF RateSteps
  <2>6. ASSUME \A u \in Users : ratings'[u] # None PROVE Told'
    <3>1. peer(req[r].by) \in Users /\ peer(req[r].by) # req[r].by BY <2>3, PeerFacts
    <3>2. ratings[peer(req[r].by)] # None BY <2>1, <2>6, <3>1 DEF RatingInv
    <3>3. req'[r].answer = "resolved" BY <2>1, <2>2, <3>2 DEF RatingInv
    <3> QED BY <1>0, <2>2, <3>3 DEF Told
  <2> QED BY <2>4, <2>5, <2>6 DEF RatingInv, RateSteps
<1> QED BY <1>1, <1>5, <1>6, <1>7, <1>8 DEF Rate

(* The retention pass deletes ratings when nobody holds the encounter.        *)
LEMMA SweepRatings ==
  ASSUME RatingInv, UNCHANGED req, UNCHANGED ratings \/ DeleteEncounters
  PROVE  RatingInv'
<1>1. CASE UNCHANGED ratings BY <1>1 DEF RatingInv, Told
<1>2. CASE DeleteEncounters
  <2>1. \A q \in Reqs : req[q].pc \notin RateSteps
    BY <1>2 DEF DeleteEncounters, EncounterLocked, Some, RateSteps
  <2>2. CASE ratings' = [u \in Users |-> None]
    <3>1. \E u \in Users : TRUE BY PairAssumption
    <3>2. ~\A u \in Users : ratings'[u] # None BY <2>2, <3>1
    <3> QED BY <2>1, <2>2, <3>2 DEF RatingInv, RateSteps
  <2>3. CASE UNCHANGED ratings BY <2>3 DEF RatingInv, Told
  <2> QED BY <1>2, <2>2, <2>3 DEF DeleteEncounters
<1> QED BY <1>1, <1>2

LEMMA NextRatings ==
  ASSUME LockInv, RouteInv, RatingInv, [Next]_vars
  PROVE  RatingInv'
<1> USE DEF RouteInv
<1>1. ASSUME NEW r \in Reqs, OfEncounter(r) PROVE RatingInv'
  <2>1. CASE Rate(r) BY <2>1, RateKeeps
  <2>2. CASE ~Rate(r)
    <3>1. Moved(r) /\ UNCHANGED ratings
      BY <1>1, <2>2, EncounterRoutes DEF OfEncounter, OfMeeting
    <3>2. req'[r].op # "rate" \/ req'[r].pc = "done"
      <4>1. CASE Chat(r)
        <5>1. req[r].pc # "next sequence" \/ chatSequence' \in Reqs
          BY <1>1, <4>1, ChatNumber
        <5> QED BY <4>1, <5>1, ChatMoves
      <4>2. CASE Leave(r) BY <4>2, LeaveMoves
      <4>3. CASE Report(r) BY <4>3, ReportMoves
      <4>4. CASE Cards(r) BY <4>4, CardMoves
      <4>5. CASE Reconnect(r) BY <4>5, OfferMoves
      <4>6. CASE hide(r) BY <4>6, HideMoves
      <4>7. CASE BlockHide(r) \/ RevokeReveals(r) \/ InvalidateOffers(r)
        BY <4>7, BlockMoves
      <4> QED
        BY <1>1, <2>2, <4>1, <4>2, <4>3, <4>4, <4>5, <4>6, <4>7
        DEF OfEncounter, OfMeeting
    <3>3. req'[r].pc \notin RateSteps BY <3>1, <3>2, MovedRoute DEF OpFits, RateSteps
    <3> QED BY <3>1, <3>3, RatingBeside
  <2> QED BY <2>1, <2>2
<1>2. ASSUME NEW r \in Reqs, OfFriends(r) PROVE RatingInv'
  <2>1. PICK q \in Reqs : Moved(q) /\ req'[q].op \notin {"send", "chat", "rate"}
    BY <1>2, FriendRoutes
  <2>2. UNCHANGED ratings BY <1>2 DEF OfFriends, encounterVars
  <2> QED BY <2>1, <2>2, RatingOther
<1>3. ASSUME NEW r \in Reqs, OfMessages(r) PROVE RatingInv'
  <2>1. Moved(r) /\ req'[r].op \in {"send", "delete", "read"} BY <1>3, MessageRoutes
  <2>2. UNCHANGED ratings BY <1>3 DEF OfMessages, encounterVars
  <2> QED BY <2>1, <2>2, RatingOther
<1>4. ASSUME NEW r \in Reqs, Die(r), UNCHANGED encounterVars PROVE RatingInv'
  <2>1. Moved(r) /\ req'[r].pc \notin RateSteps BY <1>4, DieMoves DEF RateSteps
  <2> QED BY <1>4, <2>1, RatingBeside DEF encounterVars
<1>5. CASE Staffed BY <1>5, SweepRatings DEF Staffed, requestVars, encounterVars
<1>6. CASE Time BY <1>6, SweepRatings DEF Time, requestVars
<1>7. CASE RetentionPass
  BY <1>7, SweepRatings
  DEF RetentionPass, requestVars, cleanupExpired, SweepStart, DeleteMessages,
      DeleteParticipants, ExpireSanctions, CleanupCalls
<1>8. CASE UNCHANGED vars
  BY <1>8, SweepRatings DEF vars, requestVars, encounterVars
<1> QED BY <1>1, <1>2, <1>3, <1>4, <1>5, <1>6, <1>7, <1>8 DEF Next, Step

LEMMA InitRatings == Init => RatingInv
<1> SUFFICES ASSUME Init PROVE RatingInv OBVIOUS
<1>1. \A r \in Reqs : req[r] = Unused BY DEF Init
<1>2. \A r \in Reqs : req[r].pc \notin RateSteps BY <1>1, UnusedFacts DEF RateSteps
<1>3. ratings = [u \in Users |-> None] BY DEF Init, EncounterInit
<1>4. \E u \in Users : TRUE BY PairAssumption
<1> QED BY <1>2, <1>3, <1>4 DEF RatingInv, RateSteps

(* A rating that is under way holds the encounter alone and knows whether the *)
(* peer has rated; when both have, one of them was told (rating()).           *)
THEOREM RatingsHold == Spec => []RatingInv
<1>1. LockInv /\ RouteInv /\ RatingInv /\ [Next]_vars => RatingInv' BY NextRatings
<1> QED BY <1>1, InitRatings, LocksHold, RoutesHold, PTL DEF Spec

(* When both have rated, one of them was told the other's outcome, or would   *)
(* have been, had its answer not been lost.                                   *)
THEOREM SomeoneIsAlwaysTold == Spec => []SomeoneIsTold
<1>1. RatingInv => SomeoneIsTold BY DEF RatingInv, Told, SomeoneIsTold
<1> QED BY <1>1, RatingsHold, PTL

-----------------------------------------------------------------------------
(* What each variable may hold.                                               *)
Worker == [pc : {"idle", "messages", "participants", "encounters", "requests",
                 "expire requests", "purge requests", "calls", "sanctions"},
           got : (SUBSET Ids) \cup (SUBSET Clients)]

MeetingOK == /\ encounter \in Encounter /\ hidden \in SUBSET Users
             /\ ratings \in [Users -> Outcomes \cup {None}]
             /\ reveals \in [Users -> {None} \cup RevealStates]
             /\ offers \in [Users -> {None} \cup OfferStates]
             /\ maxed \in SUBSET Users
             /\ chat \in [Clients -> {None} \cup RandomMessage]

BlocksOK == /\ workload \in Workloads
            /\ blocks \in [Users -> Reqs \cup {None}] /\ overtaken \in SUBSET Reqs

(* Only what was issued is appealed.                                          *)
StaffOK == ModerationTypeOK /\ \A a \in SanctionIds : appeals[a] # None => a \in Issued

KindInv == BlocksOK /\ MeetingOK /\ worker \in Worker /\ StaffOK

(* The encounter's row only ages: its participants do not come back.          *)
Ages(e) == /\ e \in Encounter
           /\ e.participants => encounter.participants
LEMMA EncounterAges ==
  ASSUME encounter \in Encounter
  PROVE  /\ Ages(encounter) /\ Ages(Ended) /\ Ages(Finalized)
         /\ Ages([encounter EXCEPT !.long = TRUE])
         /\ Ages([encounter EXCEPT !.window = "closed"])
         /\ Ages([encounter EXCEPT !.visible = FALSE])
         /\ Ages([encounter EXCEPT !.participants = FALSE])
         /\ Ages([encounter EXCEPT !.state = "gone"])
<1> USE DEF Ages, Encounter, Lasted
<1>1. Ages(encounter) OBVIOUS
<1>2. Ages(Ended) BY DEF Ended
<1>3. Ages(Finalized) BY DEF Finalized
<1>4. Ages([encounter EXCEPT !.long = TRUE]) OBVIOUS
<1>5. Ages([encounter EXCEPT !.window = "closed"]) OBVIOUS
<1>6. Ages([encounter EXCEPT !.visible = FALSE]) OBVIOUS
<1>7. Ages([encounter EXCEPT !.participants = FALSE]) OBVIOUS
<1>8. Ages([encounter EXCEPT !.state = "gone"]) OBVIOUS
<1> HIDE DEF Ages
<1> QED BY <1>1, <1>2, <1>3, <1>4, <1>5, <1>6, <1>7, <1>8

LEMMA MeetingKinds ==
  ASSUME KindInv, RouteInv, NEW r \in Reqs, OfEncounter(r)
  PROVE  KindInv' /\ Ages(encounter')
<1> USE DEF KindInv, RouteInv
<1>0. BlocksOK' /\ worker' \in Worker /\ UNCHANGED maxed
  BY DEF OfEncounter, NoBlock, BlocksOK
<1>e. Ages(encounter) /\ Ages(Ended) /\ Ages(Finalized)
  BY EncounterAges DEF MeetingOK
<1>m. UNCHANGED moderationVars => StaffOK'
  BY DEF moderationVars, StaffOK, ModerationTypeOK, Issued
<1>1. CASE Chat(r) /\ UNCHANGED <<encounter, hidden, ratings, reveals, offers,
                                   moderationVars>>
  <2>1. chat' \in [Clients -> {None} \cup RandomMessage]
    <3>1. CASE UNCHANGED chat BY <3>1 DEF MeetingOK
    <3>2. CASE addRandomMessage(r) /\ ~UNCHANGED chat
      <4>1. req[r].pc = "insert chat" BY <3>2 DEF addRandomMessage, At
      <4>2. req[r].arg \in Clients /\ req[r].by \in Users /\ req[r].got \in Reqs
        BY <4>1, UnderWay
        DEF Route, BlockSteps, RateSteps, CardSteps, PairSteps, RowSteps
      <4>3. [sender |-> req[r].by, seq |-> req[r].got] \in RandomMessage
        BY <4>2 DEF RandomMessage
      <4>4. chat' = [chat EXCEPT ![req[r].arg] =
                      [sender |-> req[r].by, seq |-> req[r].got]]
        BY <3>2 DEF addRandomMessage
      <4> QED BY <4>3, <4>4 DEF MeetingOK
    <3> QED BY <1>1, <3>1, <3>2 DEF Chat, ChatStart, chatVars, nextSequence
  <2> QED BY <1>0, <1>1, <1>e, <1>m, <2>1 DEF MeetingOK
<1>2. CASE OfMeeting(r) /\ UNCHANGED chatVars
  <2> USE DEF chatVars
  <2>1. CASE Leave(r) /\ UNCHANGED <<hidden, ratings, reveals, offers, moderationVars>>
    <3>1. encounter' \in {encounter, Ended, Finalized}
      BY <2>1 DEF Leave, end, finalizeTiming, Set
    <3>2. Ages(encounter') BY <1>e, <3>1
    <3> QED BY <1>0, <1>2, <1>m, <2>1, <3>2 DEF MeetingOK, Ages
  <2>2. CASE Report(r) /\ UNCHANGED <<hidden, ratings, reveals, offers>>
    <3>1. encounter' \in {encounter, Ended}
      BY <2>2 DEF Report, ReportStart, ReportLook, createReport, Set
    <3>2. Ages(encounter') BY <1>e, <3>1
    <3>3. StaffOK'
      <4>1. UNCHANGED <<sanctions, appeals>> BY <2>2 DEF Report
      <4>2. /\ reports' \in [Users -> {None} \cup ReportOf]
            /\ cases' \in [Users -> {None} \cup CaseStates]
        <5>1. CASE UNCHANGED <<reports, cases>>
          BY <5>1 DEF StaffOK, ModerationTypeOK
        <5>2. CASE createReport(r) /\ ~UNCHANGED <<reports, cases>>
          <6>1. req[r].on \in ReportOf /\ req[r].by \in Users
            BY <2>2, <5>2, ReportMoves DEF createReport, At
          <6>2. /\ reports' = [reports EXCEPT ![req[r].by] = req[r].on]
                /\ cases' = [cases EXCEPT ![req[r].by] = "open"]
            BY <5>2 DEF createReport
          <6> QED BY <6>1, <6>2 DEF StaffOK, ModerationTypeOK, CaseStates
        <5> QED BY <2>2, <5>1, <5>2 DEF Report, ReportStart, ReportLook
      <4> QED BY <4>1, <4>2 DEF StaffOK, ModerationTypeOK, Issued
    <3> QED BY <1>0, <1>2, <2>2, <3>2, <3>3 DEF MeetingOK, Ages
  <2>3. CASE Rate(r) /\ UNCHANGED <<encounter, hidden, reveals, offers, moderationVars>>
    <3>1. ratings' \in [Users -> Outcomes \cup {None}]
      <4>1. CASE RateCommit(r)
        <5>1. req[r].pc = "commit rating" BY <4>1 DEF RateCommit, At
        <5>2. req[r].arg \in Outcomes /\ req[r].by \in Users BY <2>3, <5>1, RateMoves
        <5> QED BY <4>1, <5>2 DEF RateCommit, MeetingOK
      <4>2. CASE UNCHANGED ratings BY <4>2 DEF MeetingOK
      <4> QED
        BY <2>3, <4>1, <4>2 DEF Rate, RateStart, RateCheck, RateInsert, RateReadPeer
    <3> QED BY <1>0, <1>2, <1>e, <1>m, <2>3, <3>1 DEF MeetingOK
  <2>4. CASE Cards(r)
             /\ UNCHANGED <<encounter, hidden, ratings, offers, moderationVars>>
    <3>1. reveals' \in [Users -> {None} \cup RevealStates]
      <4>1. CASE UNCHANGED reveals BY <4>1 DEF MeetingOK
      <4>2. CASE \E source \in RevealStates : upsertReveal(req[r].on, source)
        BY <4>2 DEF upsertReveal, MeetingOK
      <4> QED
        BY <2>4, <4>1, <4>2
        DEF Cards, CardStart, revealOwnCard, authorizeCallCard, RevealStates
    <3> QED BY <1>0, <1>2, <1>e, <1>m, <2>4, <3>1 DEF MeetingOK
  <2>5. CASE Reconnect(r)
             /\ UNCHANGED <<encounter, hidden, ratings, reveals, moderationVars>>
    <3>1. offers' \in [Users -> {None} \cup OfferStates]
      <4>1. CASE UNCHANGED offers BY <4>1 DEF MeetingOK
      <4>2. ASSUME NEW u, NEW state \in {"pending", "accepted", "declined"},
                   offers' = [offers EXCEPT ![u] = state]
            PROVE  offers' \in [Users -> {None} \cup OfferStates]
        BY <4>2 DEF MeetingOK, OfferStates
      <4>3. req[r].pc = "settle offer" => req[r].arg \in {"accepted", "declined"}
        BY <2>5, OfferMoves
      <4>4. \/ UNCHANGED offers
            \/ offers' = [offers EXCEPT ![req[r].by] = "pending"]
            \/ /\ req[r].pc = "settle offer"
               /\ offers' = [offers EXCEPT ![peer(req[r].by)] = req[r].arg]
        BY <2>5
        DEF Reconnect, OfferStart, createReconnect, ResolveStart, resolveReconnect, At
      <4> QED BY <4>1, <4>2, <4>3, <4>4
    <3> QED BY <1>0, <1>2, <1>e, <1>m, <2>5, <3>1 DEF MeetingOK
  <2>6. CASE hide(r)
             /\ UNCHANGED <<encounter, ratings, reveals, offers, moderationVars>>
    BY <1>0, <1>2, <1>e, <1>m, <2>6 DEF MeetingOK, hide
  <2>7. CASE (BlockHide(r) \/ RevokeReveals(r) \/ InvalidateOffers(r))
             /\ UNCHANGED <<encounter, ratings, moderationVars>>
    <3>1. /\ hidden' \in SUBSET Users
          /\ reveals' \in [Users -> {None} \cup RevealStates]
          /\ offers' \in [Users -> {None} \cup OfferStates]
      BY <2>7
      DEF BlockHide, RevokeReveals, InvalidateOffers, MeetingOK, RevealStates, OfferStates
    <3> QED BY <1>0, <1>2, <1>e, <1>m, <2>7, <3>1 DEF MeetingOK
  <2> QED BY <1>2, <2>1, <2>2, <2>3, <2>4, <2>5, <2>6, <2>7 DEF OfMeeting
<1> QED BY <1>1, <1>2 DEF OfEncounter

LEMMA FriendKinds ==
  ASSUME KindInv, RouteInv, NEW r \in Reqs, OfFriends(r)
  PROVE  KindInv' /\ Ages(encounter')
<1> USE DEF KindInv, RouteInv
<1>e. Ages(encounter) BY EncounterAges DEF MeetingOK
<1>0. MeetingOK' /\ worker' \in Worker /\ StaffOK' /\ UNCHANGED encounter
  BY DEF OfFriends, encounterVars, chatVars, moderationVars, MeetingOK, StaffOK,
         ModerationTypeOK, Issued
<1>1. BlocksOK'
  <2>0. UNCHANGED workload BY DEF OfFriends
  <2>1. CASE BlockRow(r)
    <3>1. req[r].by \in Users BY <2>1, BlockMoves, UnusedFacts DEF BlockRow, At
    <3> QED BY <2>0, <2>1, <3>1 DEF BlockRow, BlocksOK
  <2>2. CASE remove(r) BY <2>0, <2>2 DEF remove, BlocksOK
  <2>3. CASE UNCHANGED <<blocks, overtaken>> BY <2>0, <2>3 DEF BlocksOK
  <2> QED BY <2>1, <2>2, <2>3 DEF OfFriends, BlockStart
<1> QED BY <1>e, <1>0, <1>1

LEMMA StillKinds ==
  ASSUME KindInv, UNCHANGED <<workload, blocks, overtaken, encounterVars, moderationVars>>
  PROVE  KindInv' /\ Ages(encounter')
<1>1. Ages(encounter) BY EncounterAges DEF KindInv, MeetingOK
<1> QED
  BY <1>1 DEF KindInv, BlocksOK, encounterVars, chatVars, MeetingOK, moderationVars,
              StaffOK, ModerationTypeOK, Issued

SanctionRow(u, type, actor, permanent) ==
  [subject |-> peer(u), type |-> type, actor |-> actor,
   permanent |-> permanent, state |-> "active"]

(* A sanction changes its state, nothing more.                                *)
LEMMA StateSet ==
  ASSUME StaffOK, NEW a \in Issued,
         NEW state \in {"active", "lapsed", "reversed", "expired"},
         SetState(a, state)
  PROVE  /\ sanctions' \in [SanctionIds -> Sanction \cup {None}]
         /\ Issued' = Issued
<1> DEFINE row == [sanctions[a] EXCEPT !.state = state]
<1> USE DEF StaffOK, ModerationTypeOK
<1>1. sanctions[a] \in Sanction /\ a \in SanctionIds BY DEF Issued
<1>2. row \in Sanction BY <1>1 DEF Sanction
<1>3. sanctions' = [sanctions EXCEPT ![a] = row] BY DEF SetState
<1> HIDE DEF row
<1>4. row # None BY <1>2, SanctionAssumption
<1> QED BY <1>1, <1>2, <1>3, <1>4 DEF Issued

LEMMA StaffKinds ==
  ASSUME StaffOK,
         \/ StaffStep \/ (\E a \in SanctionIds : EndsAtPasses(a)) \/ expire
         \/ UNCHANGED moderationVars
  PROVE  StaffOK'
<1> USE DEF StaffOK, ModerationTypeOK
<1>2. ASSUME NEW u \in Users, assign(u) PROVE StaffOK'
  BY <1>2 DEF assign, CaseStates, Issued
<1>3. ASSUME NEW a \in SanctionIds, NEW u \in Users, NEW type \in Types,
             NEW permanent \in BOOLEAN, NEW actor \in Staff,
             applySanction(a, u, type, permanent, actor)
      PROVE  StaffOK'
  <2>1. peer(u) \in Users BY PeerFacts
  <2>2. SanctionRow(u, type, actor, permanent) \in Sanction
    BY <2>1 DEF Sanction, SanctionRow
  <2>3. sanctions' = [sanctions EXCEPT ![a] = SanctionRow(u, type, actor, permanent)]
    BY <1>3 DEF applySanction, SanctionRow
  <2>4. Issued \subseteq Issued' BY <2>2, <2>3, SanctionAssumption DEF Issued
  <2> QED BY <1>3, <2>2, <2>3, <2>4 DEF applySanction
<1>4. ASSUME NEW a \in SanctionIds, NEW actor \in Staff, reverseSanction(a, actor)
      PROVE  StaffOK'
  BY <1>4, StateSet DEF reverseSanction
<1>5. ASSUME NEW a \in SanctionIds, submitAppeal(a) PROVE StaffOK'
  BY <1>5 DEF submitAppeal, AppealStates, Issued
<1>6. ASSUME NEW a \in SanctionIds, NEW actor \in Staff,
             NEW decision \in {"upheld", "granted"}, reviewAppeal(a, actor, decision)
      PROVE  StaffOK'
  <2>1. a \in Issued BY <1>6 DEF reviewAppeal
  <2>2. /\ sanctions' \in [SanctionIds -> Sanction \cup {None}]
        /\ Issued' = Issued
    <3>1. CASE SetState(a, "reversed") BY <2>1, <3>1, StateSet
    <3>2. CASE UNCHANGED sanctions BY <3>2 DEF Issued
    <3> QED BY <1>6, <3>1, <3>2 DEF reviewAppeal
  <2> QED BY <1>6, <2>1, <2>2 DEF reviewAppeal, AppealStates
<1>7. ASSUME NEW a \in SanctionIds, EndsAtPasses(a) PROVE StaffOK'
  BY <1>7, StateSet DEF EndsAtPasses
<1>8. CASE expire
  <2>1. \A a \in Lapsed : [sanctions[a] EXCEPT !.state = "expired"] \in Sanction
    BY DEF Lapsed, Issued, Sanction
  <2>2. sanctions' \in [SanctionIds -> Sanction \cup {None}]
    BY <1>8, <2>1 DEF expire
  <2>3. Issued \subseteq Issued' BY <1>8, <2>1, SanctionAssumption DEF expire, Issued
  <2> QED BY <1>8, <2>2, <2>3 DEF expire
<1>9. CASE UNCHANGED moderationVars BY <1>9 DEF moderationVars, Issued
<1> QED BY <1>2, <1>3, <1>4, <1>5, <1>6, <1>7, <1>8, <1>9 DEF StaffStep

Passes == {"idle", "messages", "participants", "encounters", "requests",
           "expire requests", "purge requests", "calls", "sanctions"}
LEMMA PassKinds ==
  ASSUME worker \in Worker, NEW pc \in Passes, Pass(pc)
  PROVE  worker' \in Worker
BY DEF Worker, Pass, Passes

LEMMA ChosenKinds ==
  ASSUME NEW pc \in Passes, NEW got \in (SUBSET Ids) \cup (SUBSET Clients),
         worker' = [pc |-> pc, got |-> got]
  PROVE  worker' \in Worker
BY DEF Worker, Passes

LEMMA SweepKinds ==
  ASSUME MeetingOK, worker \in Worker, cleanupExpired, UNCHANGED maxed
  PROVE  MeetingOK' /\ worker' \in Worker /\ Ages(encounter')
<1> USE DEF MeetingOK
<1>e. Ages(encounter) BY EncounterAges
<1>p. /\ Ages([encounter EXCEPT !.participants = FALSE])
      /\ Ages([encounter EXCEPT !.state = "gone"])
  BY EncounterAges
<1>c. Kept \in SUBSET Clients /\ {} \in SUBSET Ids BY DEF Kept
<1>1. CASE SweepStart
  <2>1. worker' \in Worker
    <3>1. CASE worker' = [pc |-> "messages", got |-> Kept]
      BY <1>c, <3>1, ChosenKinds DEF Passes
    <3>2. CASE worker' = [pc |-> "requests", got |-> {}]
      BY <1>c, <3>2, ChosenKinds DEF Passes
    <3> QED BY <1>1, <3>1, <3>2 DEF SweepStart
  <2> QED BY <1>1, <1>e, <2>1 DEF SweepStart
<1>2. CASE DeleteMessages
  <2>1. worker' \in Worker BY <1>2, PassKinds DEF DeleteMessages, Passes
  <2>2. chat' \in [Clients -> RandomMessage \cup {None}]
    BY <1>2 DEF DeleteMessages
  <2> QED BY <1>2, <1>e, <2>1, <2>2 DEF DeleteMessages
<1>3. CASE DeleteParticipants
  <2>1. worker' \in Worker BY <1>3, PassKinds DEF DeleteParticipants, Passes
  <2>2. encounter' = [encounter EXCEPT !.participants = FALSE]
    BY <1>3 DEF DeleteParticipants, Set
  <2>3. Ages(encounter') BY <1>p, <2>2
  <2> QED BY <1>3, <2>1, <2>3 DEF DeleteParticipants, Ages
<1>4. CASE DeleteEncounters
  <2>1. worker' \in Worker BY <1>4, PassKinds DEF DeleteEncounters, Passes
  <2>2. CASE Held BY <1>4, <1>e, <2>1, <2>2 DEF DeleteEncounters
  <2>3. CASE ~Held
    <3>1. encounter' = [encounter EXCEPT !.state = "gone"]
      BY <1>4, <2>3 DEF DeleteEncounters, Set
    <3>2. Ages(encounter') BY <1>p, <3>1
    <3> QED BY <1>4, <2>1, <2>3, <3>2 DEF DeleteEncounters, Ages
  <2> QED BY <2>2, <2>3
<1> QED BY <1>1, <1>2, <1>3, <1>4 DEF cleanupExpired

LEMMA TimeKinds ==
  ASSUME MeetingOK, UNCHANGED <<hidden, ratings, reveals, chatVars>>,
         \/ TwoMinutes \/ WindowCloses \/ OfferLapses \/ EntitlementEnds
         \/ VisibleUntilPasses
         \/ UNCHANGED <<encounter, offers, maxed>>
  PROVE  MeetingOK' /\ Ages(encounter')
<1> USE DEF MeetingOK, chatVars
<1>e. /\ Ages(encounter)
      /\ Ages([encounter EXCEPT !.long = TRUE])
      /\ Ages([encounter EXCEPT !.window = "closed"])
      /\ Ages([encounter EXCEPT !.visible = FALSE])
  BY EncounterAges
<1>1. CASE TwoMinutes \/ WindowCloses \/ VisibleUntilPasses
  <2>1. UNCHANGED <<offers, maxed>>
    BY <1>1 DEF TwoMinutes, WindowCloses, VisibleUntilPasses
  <2>2. Ages(encounter')
    BY <1>1, <1>e DEF TwoMinutes, WindowCloses, VisibleUntilPasses, Set
  <2> QED BY <2>1, <2>2 DEF Ages
<1>2. CASE OfferLapses
  <2>1. UNCHANGED <<encounter, maxed>> BY <1>2 DEF OfferLapses
  <2>2. offers' \in [Users -> {None} \cup OfferStates]
    BY <1>2 DEF OfferLapses, OfferStates
  <2> QED BY <1>e, <2>1, <2>2
<1>3. CASE EntitlementEnds BY <1>3, <1>e DEF EntitlementEnds
<1>4. CASE UNCHANGED <<encounter, offers, maxed>> BY <1>4, <1>e
<1> QED BY <1>1, <1>2, <1>3, <1>4

LEMMA NextKinds ==
  ASSUME LockInv, RouteInv, KindInv, [Next]_vars
  PROVE  KindInv' /\ Ages(encounter')
<1>1. ASSUME NEW r \in Reqs, OfEncounter(r) PROVE KindInv' /\ Ages(encounter')
  BY <1>1, MeetingKinds
<1>2. ASSUME NEW r \in Reqs, OfFriends(r) PROVE KindInv' /\ Ages(encounter')
  BY <1>2, FriendKinds
<1>3. ASSUME NEW r \in Reqs, OfMessages(r) PROVE KindInv' /\ Ages(encounter')
  BY <1>3, StillKinds DEF OfMessages, NoBlock
<1>4. ASSUME NEW r \in Reqs, Die(r), UNCHANGED <<moderationVars, encounterVars>>
      PROVE  KindInv' /\ Ages(encounter')
  BY <1>4, StillKinds DEF Die
<1>5. CASE Staffed
  <2>1. Ages(encounter) BY EncounterAges DEF KindInv, MeetingOK
  <2> QED
    BY <1>5, <2>1, StaffKinds
    DEF Staffed, requestVars, encounterVars, chatVars, KindInv, BlocksOK, MeetingOK
<1>6. CASE Time
  <2>1. BlocksOK' /\ worker' \in Worker
    BY <1>6 DEF Time, requestVars, KindInv, BlocksOK
  <2>2. StaffOK' BY <1>6, StaffKinds DEF Time, KindInv
  <2>3. MeetingOK' /\ Ages(encounter') BY <1>6, TimeKinds DEF Time, KindInv
  <2> QED BY <2>1, <2>2, <2>3 DEF KindInv
<1>7. CASE RetentionPass
  <2> USE DEF KindInv
  <2>1. BlocksOK' BY <1>7 DEF RetentionPass, requestVars, BlocksOK
  <2>2. CASE cleanupExpired /\ UNCHANGED <<maxed, cases, sanctions, appeals>>
    <3>1. UNCHANGED moderationVars
      BY <2>2 DEF cleanupExpired, SweepStart, DeleteMessages, DeleteParticipants,
                  DeleteEncounters, moderationVars
    <3>2. StaffOK' BY <3>1, StaffKinds
    <3> QED BY <2>1, <2>2, <3>2, SweepKinds
  <2>3. CASE /\ \/ cleanup /\ UNCHANGED moderationVars
                \/ CleanupCalls \/ ExpireSanctions
             /\ UNCHANGED <<encounter, hidden, ratings, reveals, offers, maxed, chatVars>>
    <3>1. MeetingOK' /\ Ages(encounter')
      BY <2>3, EncounterAges DEF MeetingOK, chatVars
    <3>2. StaffOK'
      <4>1. UNCHANGED moderationVars \/ expire
        BY <2>3 DEF CleanupCalls, ExpireSanctions
      <4> QED BY <4>1, StaffKinds
    <3>3. worker' \in Worker
      <4>1. Pending \ Live \in SUBSET Ids /\ {} \in SUBSET Ids BY DEF Pending
      <4>2. CASE ChooseRequests BY <4>1, <4>2, ChosenKinds DEF ChooseRequests, Passes
      <4>3. CASE ExpireRequests BY <4>3, PassKinds DEF ExpireRequests, Passes
      <4>4. CASE PurgeRequests BY <4>1, <4>4, ChosenKinds DEF PurgeRequests, Passes
      <4>5. CASE ExpireSanctions BY <4>5, PassKinds DEF ExpireSanctions, Passes
      <4>6. CASE CleanupCalls BY <4>6, PassKinds DEF CleanupCalls, Passes
      <4> QED BY <2>3, <4>2, <4>3, <4>4, <4>5, <4>6 DEF cleanup
    <3> QED BY <2>1, <3>1, <3>2, <3>3
  <2> QED BY <1>7, <2>2, <2>3 DEF RetentionPass, CleanupCalls, ExpireSanctions
<1>8. CASE UNCHANGED vars BY <1>8, StillKinds DEF vars, requestVars
<1> QED BY <1>1, <1>2, <1>3, <1>4, <1>5, <1>6, <1>7, <1>8 DEF Next, Step

LEMMA InitKinds == Init => KindInv
<1> SUFFICES ASSUME Init PROVE KindInv OBVIOUS
<1> USE DEF Init
<1>1. BlocksOK BY DEF BlocksOK
<1>2. StaffOK BY DEF ModerationInit, StaffOK, ModerationTypeOK
<1>3. encounter \in Encounter BY DEF EncounterInit, Encounter, Lasted
<1>4. MeetingOK
  <2>1. maxed \in SUBSET Users BY DEF EncounterInit
  <2> QED BY <1>3, <2>1 DEF EncounterInit, MeetingOK
<1>5. worker \in Worker BY DEF EncounterInit, Worker
<1> QED BY <1>1, <1>2, <1>4, <1>5 DEF KindInv

(* Every variable holds what it may, and only what was issued is appealed.    *)
THEOREM KindsHold == Spec => []KindInv
<1>1. LockInv /\ RouteInv /\ KindInv /\ [Next]_vars => KindInv' BY NextKinds
<1> QED BY <1>1, InitKinds, LocksHold, RoutesHold, PTL DEF Spec

(* Type correctness of the whole composition, for any number of requests.     *)
THEOREM TypeCorrect == Spec => []TypeOK
<1>1. ASSUME LockInv, RouteInv, KindInv PROVE TypeOK
  <2>1. chatSequence \in 0..MaxRequests
    <3>1. Drew \in SUBSET Reqs BY DEF Drew
    <3>2. Cardinality(Drew) \in Nat /\ Cardinality(Drew) <= MaxRequests
      BY <3>1, ReqsFacts
    <3>3. chatSequence \in Nat /\ chatSequence <= Cardinality(Drew)
      BY <1>1 DEF RouteInv, Counted
    <3> QED BY <3>2, <3>3, RequestsAssumption
  <2>2. EncounterTypeOK
    BY <1>1, <2>1 DEF EncounterTypeOK, KindInv, MeetingOK
  <2>3. FriendTypeOK BY <1>1 DEF LockInv, RowsOK, FriendTypeOK
  <2>4. MessageTypeOK BY <1>1 DEF RouteInv, Threads
  <2>5. /\ worker.pc \in {"idle", "messages", "participants", "encounters", "requests",
                          "expire requests", "purge requests", "calls", "sanctions"}
        /\ worker.got \in (SUBSET Ids) \cup (SUBSET Clients)
    BY <1>1 DEF KindInv, Worker
  <2>6. /\ workload \in Workloads
        /\ blocks \in [Users -> Reqs \cup {None}] /\ overtaken \in SUBSET Reqs
        /\ ModerationTypeOK
    BY <1>1 DEF KindInv, BlocksOK, StaffOK
  <2>7. \A r \in Reqs : DOMAIN req[r] = DOMAIN Unused BY <1>1 DEF LockInv, Shape
  <2> QED BY <2>2, <2>3, <2>4, <2>5, <2>6, <2>7 DEF TypeOK
<1> QED BY <1>1, LocksHold, RoutesHold, KindsHold, PTL

-----------------------------------------------------------------------------
(* Blocks.  What a step of request r says of the block requests.              *)
Advances(r) ==
  /\ Past(r, Hidden)' => Past(r, Hidden) \/ BlockHide(r)
  /\ Past(r, Cancelled)' => Past(r, Cancelled) \/ CancelRequests(r)
  /\ Past(r, Parted)' => Past(r, Parted) \/ EndFriendship(r)
  /\ Past(r, Revoked)' => Past(r, Revoked) \/ RevokeReveals(r)
  /\ Past(r, Offered)' => Past(r, Offered) \/ InvalidateOffers(r)

Checks(r) ==
  req'[r].pc \in Checking => ~hasEitherDirection \/ req[r].pc \in Checking

Rows(r) == \/ UNCHANGED <<blocks, overtaken>>
           \/ BlockRow(r) /\ req'[r].pc = "hide" /\ req'[r].op = "block"
                          /\ req[r].by \in Users
           \/ remove(r) /\ req'[r].pc = "done"

Steady(r) == Moved(r) /\ Advances(r) /\ Checks(r) /\ Rows(r)

LEMMA NoBlockAdvances ==
  ASSUME NEW r \in Reqs, Moved(r), req'[r].op # "block" \/ req'[r].answer = "lost",
         req'[r].op = "block" => req'[r].pc = "done"
  PROVE  Advances(r)
BY DEF Advances, Past, Offered, Revoked, Parted, Cancelled, Hidden

LEMMA LeaveSteady ==
  ASSUME OnRoute, NEW r \in Reqs, Leave(r), UNCHANGED <<blocks, overtaken>>
  PROVE  Steady(r)
<1>1. /\ Moved(r) /\ req'[r].op \in {"leave", "block"}
      /\ req'[r].op = "block" => req[r].pc \in {"end", "timing"}
  BY LeaveMoves
<1>2. Advances(r)
  <2>1. CASE req'[r].op = "block"
    <3>1. req[r].op = "block" /\ req[r].pc \in Offered
      BY <1>1, <2>1 DEF Moved, Offered
    <3> QED BY <3>1 DEF Advances, Past, Revoked, Parted, Cancelled, Hidden
  <2>2. CASE req'[r].op # "block" BY <1>1, <2>2, NoBlockAdvances
  <2> QED BY <2>1, <2>2
<1>3. Checks(r)
  <2>1. req'[r].pc \notin Checking
    BY <1>1, MovedRoute DEF OpFits, Checking, PastTheirCheck, CardSteps
  <2> QED BY <2>1 DEF Checks
<1> QED BY <1>1, <1>2, <1>3 DEF Steady, Rows

(* A handler that neither blocks nor has a check of its own to pass.          *)
LEMMA PlainSteady ==
  ASSUME NEW r \in Reqs, Moved(r), UNCHANGED <<blocks, overtaken>>,
         \/ req'[r].op \in {"chat", "report", "rate", "hide", "unfriend", "answer offer",
                            "send", "delete", "read", "accept", "reject", "cancel"}
         \/ req'[r].pc = "done" /\ (req'[r].op # "block" \/ req'[r].answer = "lost")
  PROVE  Steady(r)
<1>1. Advances(r) BY NoBlockAdvances
<1>2. req'[r].pc \notin Checking
  BY MovedRoute DEF OpFits, Checking, PastTheirCheck, CardSteps
<1> QED BY <1>1, <1>2 DEF Steady, Checks, Rows

LEMMA CardSteady ==
  ASSUME OnRoute, NEW r \in Reqs, Cards(r), UNCHANGED <<blocks, overtaken>>
  PROVE  Steady(r)
<1>1. Moved(r) /\ req'[r].op \in {"reveal", "card"} BY CardMoves
<1>2. Advances(r) BY <1>1, NoBlockAdvances
<1>s. Shape BY DEF OnRoute
<1>3. Checks(r)
  <2>1. CASE CardStart(r)
    <3>1. req'[r].pc \in {"own card", "peer's card"}
      BY <1>s, <2>1, BeginSets DEF CardStart
    <3> QED BY <3>1 DEF Checks, Checking, PastTheirCheck
  <2>2. CASE \E pc \in {"upsert consent", "fetch"} : Go(r, pc) /\ PeerOK
    BY <2>2 DEF Checks, PeerOK
  <2>3. CASE \E a : Reply(r, a, None)
    <3>1. req'[r].pc = "done" BY <1>s, <2>3, ReplySets
    <3> QED BY <3>1 DEF Checks, Checking, PastTheirCheck
  <2>4. CASE Go(r, "peer's card") \/ \E x : Take(r, "show", x)
    <3>1. req'[r].pc \in {"peer's card", "show"}
      BY <1>s, <2>4, GoSets, TakeSets
    <3> QED BY <3>1 DEF Checks, Checking, PastTheirCheck
  <2>5. CASE req[r].pc = "fetch" BY <2>5 DEF Checks, Checking, PastTheirCheck
  <2>6. CASE revealOwnCard(r)
    <3>1. \/ Go(r, "upsert consent") /\ PeerOK
          \/ Reply(r, "refused", None) \/ Go(r, "peer's card")
      BY <2>6 DEF revealOwnCard, Refuse, Answer
    <3> QED BY <2>2, <2>3, <2>4, <3>1
  <2>7. CASE authorizeCallCard(r)
    <3>1. \/ Go(r, "fetch") /\ PeerOK
          \/ Reply(r, "refused", None) \/ Reply(r, "ok", None)
          \/ req[r].pc = "fetch"
          \/ Take(r, "show", "maxed_entitlement")
      BY <2>7 DEF authorizeCallCard, Refuse, Done, Answer, At
    <3> QED BY <2>2, <2>3, <2>4, <2>5, <3>1
  <2> QED BY <2>1, <2>6, <2>7 DEF Cards
<1> QED BY <1>1, <1>2, <1>3 DEF Steady, Rows

LEMMA OfferSteady ==
  ASSUME OnRoute, NEW r \in Reqs, Reconnect(r), UNCHANGED <<blocks, overtaken>>
  PROVE  Steady(r)
<1>1. Moved(r) /\ req'[r].op \in {"offer", "answer offer"} BY OfferMoves
<1>2. CASE req'[r].op = "answer offer" BY <1>1, <1>2, PlainSteady
<1>3. CASE req'[r].op = "offer"
  <2>1. Advances(r) BY <1>1, NoBlockAdvances
  <2>s. Shape BY DEF OnRoute
  <2>2. Checks(r)
    <3>1. CASE req'[r].pc # "upsert offer"
      BY <1>1, <1>3, <3>1, MovedRoute DEF OpFits, Checks, Checking, PastTheirCheck, CardSteps
    <3>2. CASE req'[r].pc = "upsert offer"
      <4>b. \A op, by, on, arg, pc : Begin(r, op, by, on, arg, pc) => pc = "upsert offer"
        BY <2>s, <3>2, BeginSets
      <4>g. \A pc : Go(r, pc) => pc = "upsert offer" BY <2>s, <3>2, GoSets
      <4>1. ~OfferStart(r) BY <4>b DEF OfferStart
      <4>2. ~ResolveStart(r) BY <4>b DEF ResolveStart
      <4>3. \A a, x : ~Reply(r, a, x) BY <2>s, <3>2, ReplySets
      <4>4. ~Go(r, "settle offer") BY <4>g
      <4>5. ~hasEitherDirection
        BY <4>1, <4>2, <4>3, <4>4
        DEF Reconnect, createReconnect, resolveReconnect, Refuse, Done, Answer
      <4> QED BY <4>5 DEF Checks
    <3> QED BY <3>1, <3>2
  <2> QED BY <1>1, <2>1, <2>2 DEF Steady, Rows
<1> QED BY <1>1, <1>2, <1>3

LEMMA BlockSteady ==
  ASSUME OnRoute, NEW r \in Reqs,
         \/ BlockRow(r)
         \/ UNCHANGED <<blocks, overtaken>> /\
            \/ BlockStart(r) \/ BlockHide(r) \/ CancelRequests(r)
            \/ EndFriendship(r) \/ RevokeReveals(r) \/ InvalidateOffers(r)
  PROVE  Steady(r)
<1>s. Shape BY DEF OnRoute
<1>1. Moved(r) /\ req'[r].op = "block" BY BlockMoves
<1>2. Checks(r)
  <2>1. req'[r].pc \notin Checking
    BY <1>1, MovedRoute DEF OpFits, Checking, PastTheirCheck, CardSteps, BlockSteps, Offered
  <2> QED BY <2>1 DEF Checks
<1>k. req[r].pc # "new" => req[r].op = "block" BY <1>1 DEF Moved
<1> USE DEF Past, Offered, Revoked, Parted, Cancelled, Hidden
<1>3. Advances(r)
  <2>1. CASE BlockStart(r)
    <3>1. req'[r].pc = "insert block" BY <1>s, <2>1, BeginSets DEF BlockStart
    <3> QED BY <3>1 DEF Advances
  <2>2. CASE BlockRow(r)
    <3>1. req'[r].pc = "hide" BY <1>s, <2>2, GoSets DEF BlockRow
    <3> QED BY <3>1 DEF Advances
  <2>3. CASE BlockHide(r)
    <3>1. req'[r].pc = "cancel requests" BY <1>s, <2>3, GoSets DEF BlockHide
    <3> QED BY <2>3, <3>1 DEF Advances
  <2>4. CASE CancelRequests(r)
    <3>1. req'[r].pc = "end friendship" /\ req[r].pc = "cancel requests"
      BY <1>s, <2>4, GoSets DEF CancelRequests, At
    <3> QED BY <1>k, <2>4, <3>1 DEF Advances
  <2>5. CASE EndFriendship(r)
    <3>1. req'[r].pc = "revoke reveals" /\ req[r].pc = "end friendship"
      BY <1>s, <2>5, GoSets DEF EndFriendship, At
    <3> QED BY <1>k, <2>5, <3>1 DEF Advances
  <2>6. CASE RevokeReveals(r)
    <3>1. req'[r].pc = "invalidate offers" /\ req[r].pc = "revoke reveals"
      BY <1>s, <2>6, GoSets DEF RevokeReveals, At
    <3> QED BY <1>k, <2>6, <3>1 DEF Advances
  <2>7. CASE InvalidateOffers(r)
    <3>1. req[r].pc = "invalidate offers" BY <2>7 DEF InvalidateOffers, At
    <3> QED BY <1>k, <2>7, <3>1 DEF Advances
  <2> QED BY <2>1, <2>2, <2>3, <2>4, <2>5, <2>6, <2>7
<1>4. Rows(r)
  <2>1. CASE BlockRow(r)
    <3>1. req'[r].pc = "hide" BY <1>s, <2>1, GoSets DEF BlockRow
    <3>2. req[r].by \in Users BY <2>1, BlockMoves DEF BlockRow, At
    <3> QED BY <1>1, <2>1, <3>1, <3>2 DEF Rows
  <2>2. CASE UNCHANGED <<blocks, overtaken>> BY <2>2 DEF Rows
  <2> QED BY <2>1, <2>2
<1> QED BY <1>1, <1>2, <1>3, <1>4 DEF Steady

LEMMA AskSteady ==
  ASSUME OnRoute, LockInv, NEW r \in Reqs, UNCHANGED <<blocks, overtaken>>,
         createRequest(r) \/ createFriendship(r) \/ resolve(r)
  PROVE  Steady(r)
<1>s. Shape BY DEF OnRoute
<1>1. Moved(r) /\ req'[r].op \in {"ask"} \cup Answering BY FriendMoves
<1>2. Advances(r) BY <1>1, NoBlockAdvances DEF Answering
<1>3. CASE req'[r].op \in Answering BY <1>1, <1>3, PlainSteady DEF Answering
<1>4. CASE req'[r].op = "ask"
  <2>b. \A op, by, on, arg, pc : Begin(r, op, by, on, arg, pc) => pc = req'[r].pc
    BY <1>s, BeginSets
  <2>g. \A pc : Go(r, pc) => pc = req'[r].pc BY <1>s, GoSets
  <2>t. \A pc, x : Take(r, pc, x) => pc = req'[r].pc BY <1>s, TakeSets
  <2>r. \A a, x : Reply(r, a, x) => req'[r].pc = "done" BY <1>s, ReplySets
  <2>0. CASE req'[r].pc \in {"opposite", "insert request"}
    <3>1. ~AskStart(r) /\ ~ResolveRequestStart(r)
      BY <2>0, <2>b DEF AskStart, ResolveRequestStart
    <3>2. ~InsertRequest(r) BY <2>0, <2>r DEF InsertRequest, Done, Answer
    <3>3. ~createFriendship(r) BY <2>0, <2>r DEF createFriendship, Done, Answer
    <3>4. ~TakeRow(r) BY <2>0, <2>r, <2>t DEF TakeRow, Refuse, Answer
    <3>5. ~CheckBlocked(r) BY <2>0, <2>r, <2>g DEF CheckBlocked, Refuse, Answer
    <3>6. ~Settle(r) BY <2>0, <2>r, <2>t DEF Settle, Done, Answer
    <3>7. LockPair(r) \/ FindOpposite(r)
      BY <3>1, <3>2, <3>3, <3>4, <3>5, <3>6 DEF createRequest, resolve
    <3>8. CASE LockPair(r)
      <4>1. ~hasEitherDirection BY <2>0, <2>r, <3>8 DEF LockPair, Refuse, Answer
      <4> QED BY <1>1, <1>2, <4>1 DEF Steady, Checks, Rows
    <3>9. CASE FindOpposite(r)
      <4>1. req[r].pc = "opposite" BY <3>9 DEF FindOpposite, At
      <4> QED BY <1>1, <1>2, <4>1 DEF Steady, Checks, Rows, Checking, PastTheirCheck
    <3> QED BY <3>7, <3>8, <3>9
  <2>3. CASE req'[r].pc \notin {"opposite", "insert request"}
    <3>1. req'[r].pc \notin Checking
      BY <1>1, <1>4, <2>3, MovedRoute
      DEF OpFits, Checking, PastTheirCheck, CardSteps
    <3> QED BY <1>1, <1>2, <3>1 DEF Steady, Checks, Rows
  <2> QED BY <2>0, <2>3
<1> QED BY <1>1, <1>3, <1>4

LEMMA EncounterSteady ==
  ASSUME OnRoute, Counted, NEW r \in Reqs, OfEncounter(r)
  PROVE  Steady(r)
<1>0. UNCHANGED <<blocks, overtaken>> BY DEF OfEncounter, NoBlock
<1>1. CASE Chat(r) BY <1>0, <1>1, ChatNumber, ChatMoves, PlainSteady
<1>2. CASE Leave(r) BY <1>0, <1>2, LeaveSteady
<1>3. CASE Report(r) BY <1>0, <1>3, ReportMoves, PlainSteady
<1>4. CASE Rate(r) BY <1>0, <1>4, RateMoves, PlainSteady
<1>5. CASE Cards(r) BY <1>0, <1>5, CardSteady
<1>6. CASE Reconnect(r) BY <1>0, <1>6, OfferSteady
<1>7. CASE hide(r)
  <2>1. Moved(r) /\ req'[r].op \in {"hide", "unfriend", "unblock"} /\ req'[r].pc = "done"
    BY <1>7, HideMoves
  <2> QED BY <1>0, <2>1, PlainSteady
<1>8. CASE BlockHide(r) \/ RevokeReveals(r) \/ InvalidateOffers(r)
  BY <1>0, <1>8, BlockSteady
<1> QED
  BY <1>1, <1>2, <1>3, <1>4, <1>5, <1>6, <1>7, <1>8 DEF OfEncounter, OfMeeting

LEMMA FriendSteady ==
  ASSUME OnRoute, LockInv, NEW r \in Reqs, OfFriends(r)
  PROVE  \E q \in Reqs : Steady(q)
<1>1. CASE (createRequest(r) \/ createFriendship(r) \/ resolve(r))
           /\ UNCHANGED <<blocks, overtaken>>
  BY <1>1, AskSteady
<1>2. CASE Deadlock(r) /\ UNCHANGED <<blocks, overtaken>>
  <2>1. PICK q \in Reqs : /\ Moved(q) /\ req'[q].op \in {"ask"} \cup Answering
                          /\ req'[q].pc = "done"
    BY <1>2, DeadlockMoves
  <2> QED BY <1>2, <2>1, PlainSteady DEF Answering
<1>3. CASE unfriend(r) /\ UNCHANGED <<blocks, overtaken>>
  <2>1. Moved(r) /\ req'[r].op \in {"hide", "unfriend", "unblock"} /\ req'[r].pc = "done"
    BY <1>3, HideMoves
  <2> QED BY <1>3, <2>1, PlainSteady
<1>4. CASE remove(r)
  <2>1. Moved(r) /\ req'[r].op \in {"hide", "unfriend", "unblock"} /\ req'[r].pc = "done"
    BY <1>4, HideMoves
  <2>2. Advances(r) BY <2>1, NoBlockAdvances
  <2>3. Checks(r) BY <2>1 DEF Checks, Checking, PastTheirCheck
  <2> QED BY <1>4, <2>1, <2>2, <2>3 DEF Steady, Rows
<1>5. CASE \/ BlockRow(r)
           \/ UNCHANGED <<blocks, overtaken>> /\
              \/ BlockStart(r) \/ BlockHide(r) \/ CancelRequests(r)
              \/ EndFriendship(r) \/ RevokeReveals(r) \/ InvalidateOffers(r)
  BY <1>5, BlockSteady
<1> QED BY <1>1, <1>2, <1>3, <1>4, <1>5 DEF OfFriends, BlockStart

StandsStill == UNCHANGED <<req, blocks, overtaken>>

LEMMA NextSteady ==
  ASSUME LockInv, RouteInv, [Next]_vars
  PROVE  StandsStill \/ \E r \in Reqs : Steady(r)
<1> USE DEF RouteInv
<1>1. ASSUME NEW r \in Reqs, Step(r) PROVE \E q \in Reqs : Steady(q)
  <2>1. CASE OfEncounter(r) BY <2>1, EncounterSteady
  <2>2. CASE OfFriends(r) BY <2>2, FriendSteady
  <2>3. CASE OfMessages(r)
    <3>1. Moved(r) /\ req'[r].op \in {"send", "delete", "read"}
      BY <2>3, MessageRoutes
    <3> QED BY <2>3, <3>1, PlainSteady DEF OfMessages, NoBlock
  <2> QED BY <1>1, <2>1, <2>2, <2>3 DEF Step
<1>2. ASSUME NEW r \in Reqs, Die(r) PROVE Steady(r)
  <2>1. Moved(r) /\ req'[r].pc = "done" /\ req'[r].answer = "lost" BY <1>2, DieMoves
  <2> QED BY <1>2, <2>1, PlainSteady DEF Die
<1>3. CASE Staffed \/ Time \/ RetentionPass \/ UNCHANGED vars
  BY <1>3 DEF Staffed, Time, RetentionPass, vars, requestVars, StandsStill
<1> QED BY <1>1, <1>2, <1>3 DEF Next

-----------------------------------------------------------------------------
(* What a step may do to what a block removes.                                *)
LEMMA HiddenStays ==
  ASSUME KindInv, [Next]_vars, encounter'.participants
  PROVE  hidden \subseteq hidden'
<1>0. hidden \subseteq Users /\ encounter \in Encounter BY DEF KindInv, MeetingOK
<1>1. ASSUME NEW r \in Reqs, OfEncounter(r) PROVE hidden \subseteq hidden'
  BY <1>0, <1>1
  DEF OfEncounter, OfMeeting, hide, BlockHide, RevokeReveals, InvalidateOffers
<1>2. ~DeleteParticipants
  <2>1. [encounter EXCEPT !.participants = FALSE].participants = FALSE
    BY <1>0 DEF Encounter
  <2> QED BY <2>1 DEF DeleteParticipants, Set
<1>3. CASE UNCHANGED hidden BY <1>3
<1>4. ~(\E r \in Reqs : OfEncounter(r)) => UNCHANGED hidden
  BY <1>2
  DEF Next, Step, OfFriends, OfMessages, Staffed, Time, RetentionPass, ExpireSanctions,
      CleanupCalls, cleanupExpired, SweepStart, DeleteMessages, DeleteEncounters, vars, encounterVars
<1> QED BY <1>1, <1>3, <1>4

(* A card is revealed, and an offer made, by a request past its check.        *)
LEMMA RevealsStay ==
  ASSUME LockInv, RouteInv, KindInv, [Next]_vars, NEW v \in Users,
         reveals'[v] \notin {None, "revoked"}
  PROVE  \/ reveals[v] \notin {None, "revoked"}
         \/ \E r \in Reqs : /\ req[r].pc \in {"upsert consent", "upsert maxed"}
                            /\ req[r].op \in {"reveal", "card"}
<1> USE DEF KindInv, RouteInv
<1>0. reveals \in [Users -> {None} \cup RevealStates] BY DEF MeetingOK
<1>1. ASSUME NEW r \in Reqs, Cards(r), ~UNCHANGED reveals,
             reveals[v] \in {None, "revoked"}
      PROVE  /\ req[r].pc \in {"upsert consent", "upsert maxed"}
             /\ req[r].op \in {"reveal", "card"}
  <2>1. ~upsertReveal(req[r].on, "revoked") BY <1>0, <1>1 DEF upsertReveal
  <2>2. req[r].pc \in {"upsert consent", "upsert maxed"}
    BY <1>1, <2>1 DEF Cards, CardStart, revealOwnCard, authorizeCallCard, At
  <2>3. req'[r].op \in {"reveal", "card"} /\ Moved(r) BY <1>1, CardMoves
  <2> QED BY <2>2, <2>3 DEF Moved
<1>2. ASSUME NEW r \in Reqs, RevokeReveals(r) PROVE FALSE
  BY <1>2 DEF RevokeReveals
<1>3. ~(DeleteEncounters /\ ~UNCHANGED reveals) BY DEF DeleteEncounters
<1>4. CASE UNCHANGED reveals BY <1>4
<1>5. (\A r \in Reqs : ~Cards(r)) => UNCHANGED reveals
  BY <1>2, <1>3
  DEF Next, Step, OfEncounter, OfMeeting, OfFriends, OfMessages, Staffed, Time,
      RetentionPass, ExpireSanctions, CleanupCalls, cleanupExpired, SweepStart,
      DeleteMessages, DeleteParticipants, vars, encounterVars, BlockHide, InvalidateOffers
<1> QED BY <1>1, <1>4, <1>5

LEMMA OffersStay ==
  ASSUME LockInv, RouteInv, KindInv, [Next]_vars, NEW v \in Users, offers'[v] = "pending"
  PROVE  \/ offers[v] = "pending"
         \/ \E r \in Reqs : req[r].pc = "upsert offer" /\ req[r].op = "offer"
<1> USE DEF KindInv, RouteInv
<1>0. offers \in [Users -> {None} \cup OfferStates] BY DEF MeetingOK
<1>n. None # "pending" BY OffersAssumption DEF OfferStates
<1>1. ASSUME NEW r \in Reqs, Reconnect(r), ~UNCHANGED offers, offers[v] # "pending"
      PROVE  req[r].pc = "upsert offer" /\ req[r].op = "offer"
  <2>1. req[r].pc = "settle offer" => req[r].arg \in {"accepted", "declined"}
    BY <1>1, OfferMoves
  <2>2. req[r].pc = "settle offer" => ~(offers' =
          [offers EXCEPT ![peer(req[r].by)] = req[r].arg])
    BY <1>0, <1>1, <2>1
  <2>3. req[r].pc = "upsert offer"
    BY <1>1, <2>2
    DEF Reconnect, OfferStart, createReconnect, ResolveStart, resolveReconnect, At
  <2>4. req[r].op = "offer" BY <1>1, <2>3, OfferMoves
  <2> QED BY <2>3, <2>4
<1>2. ASSUME NEW r \in Reqs, InvalidateOffers(r) PROVE FALSE
  BY <1>2 DEF InvalidateOffers
<1>3. ~(DeleteEncounters /\ ~UNCHANGED offers) BY <1>n DEF DeleteEncounters
<1>4. CASE UNCHANGED offers BY <1>4
<1>5. CASE OfferLapses BY <1>0, <1>5 DEF OfferLapses
<1>6. (\A r \in Reqs : ~Reconnect(r)) /\ ~OfferLapses => UNCHANGED offers
  BY <1>2, <1>3
  DEF Next, Step, OfEncounter, OfMeeting, OfFriends, OfMessages, Staffed, Time,
      RetentionPass, ExpireSanctions, CleanupCalls, cleanupExpired, SweepStart,
      DeleteMessages, DeleteParticipants, vars, encounterVars, BlockHide, RevokeReveals, TwoMinutes,
      WindowCloses, EntitlementEnds, VisibleUntilPasses
<1> QED BY <1>1, <1>4, <1>5, <1>6

LEMMA FriendsStay ==
  ASSUME LockInv, [Next]_vars, ActiveFriends'
  PROVE  ActiveFriends \/ \E r \in Reqs : req[r].pc = "befriend"
<1> USE DEF LockInv
<1>1. CASE \E r \in Reqs : createFriendship(r) BY <1>1 DEF createFriendship, At
<1>2. ASSUME NEW r \in Reqs, unfriend(r) \/ EndFriendship(r) PROVE ActiveFriends
  <2>1. Active' \subseteq Active
    BY <1>2 DEF unfriend, EndFriendship, RowsOK, Active, FriendshipStates
  <2> QED BY <2>1 DEF ActiveFriends
<1>3. CASE UNCHANGED friendships BY <1>3 DEF ActiveFriends, Active
<1>4. \/ \E r \in Reqs : \/ createFriendship(r) \/ unfriend(r) \/ EndFriendship(r)
      \/ UNCHANGED friendships
  BY DEF Next, Step, OfEncounter, OfFriends, OfMessages, Staffed, Time, RetentionPass,
         ExpireSanctions, CleanupCalls, vars, friendVars, createRequest, AskStart, LockPair,
         FindOpposite, InsertRequest, resolve, ResolveRequestStart, TakeRow,
         CheckBlocked, Settle, Deadlock, CancelRequests, cleanup, ChooseRequests,
         ExpireRequests, PurgeRequests, RequestAges
<1> QED BY <1>1, <1>2, <1>3, <1>4

-----------------------------------------------------------------------------
(* What a step may do to the friend requests.                                 *)
Fewer == /\ Pending' \subseteq Pending /\ Live' \subseteq Live
         /\ \A i \in Live' : asked'[i].sender = asked[i].sender

LEMMA SameFewer == UNCHANGED asked => Fewer
BY DEF Fewer, Pending, Live

LEMMA ResolvedFewer ==
  ASSUME LockInv, NEW i \in Pending, NEW state \in Answered, asked' = Resolved(i, state)
  PROVE  Fewer
<1>1. /\ Pending' = Pending \ {i} /\ Live' = Live \ {i}
      /\ \A j \in Ids \ {i} : asked'[j] = asked[j]
  BY ResolvedFacts DEF LockInv
<1>2. \A j \in Live' : j \in Ids BY <1>1 DEF Live, Pending
<1> QED BY <1>1, <1>2 DEF Fewer

LEMMA CancelEmpties ==
  ASSUME LockInv, NEW r \in Reqs, CancelRequests(r)
  PROVE  Pending' = {} /\ \A q \in Reqs : req'[q].pc \notin RowSteps
<1> USE DEF LockInv
<1>0. \A i \in Pending : ~RowLocked(i) BY DEF CancelRequests
<1>1. asked' = [i \in Ids |-> IF i \in Pending THEN [asked[i] EXCEPT !.state = "cancelled"]
                              ELSE asked[i]]
  BY DEF CancelRequests
<1>2. \A i \in Pending : i \in Ids /\ asked[i] \in FriendRequest
  BY DEF Pending, RowsOK
<1>3. \A i \in Pending : asked'[i].state = "cancelled"
  BY <1>1, <1>2 DEF FriendRequest, Answered
<1>4. \A i \in Ids \ Pending : asked'[i] = asked[i] BY <1>1
<1>5. Pending' = {} BY <1>3, <1>4 DEF Pending
<1>6. \A q \in Reqs : req[q].pc \notin RowSteps
  BY <1>0 DEF RowKnown, RowLocked, RowHeld, RowSteps
<1>7. req'[r].pc = "end friendship" /\ \A q \in Reqs \ {r} : req'[q] = req[q]
  BY DEF CancelRequests, Go, Shape, Unused
<1> QED BY <1>5, <1>6, <1>7 DEF RowSteps

LEMMA WorkerFewer ==
  ASSUME LockInv, ExpireRequests \/ PurgeRequests \/ RequestAges
  PROVE  Fewer
<1> USE DEF LockInv
<1>1. CASE ExpireRequests
  <2>1. asked' = [i \in Ids |-> IF i \in worker.got /\ asked[i] # None
                                THEN [asked[i] EXCEPT !.state = "expired"] ELSE asked[i]]
    BY <1>1 DEF ExpireRequests
  <2> DEFINE Over == {i \in Ids : i \in worker.got /\ asked[i] # None}
  <2>2. \A i \in Over : asked[i] \in FriendRequest BY DEF RowsOK
  <2>3. \A i \in Over : asked'[i].state = "expired"
    BY <2>1, <2>2 DEF FriendRequest, Answered
  <2>4. \A i \in Ids \ Over : asked'[i] = asked[i] BY <2>1
  <2>5. \A i \in Pending' : i \in Ids \ Over BY <2>3 DEF Pending
  <2> QED BY <2>4, <2>5 DEF Fewer, Pending, Live
<1>2. CASE PurgeRequests
  <2>1. \A i \in Ids : asked'[i] # None => asked'[i] = asked[i]
    BY <1>2 DEF PurgeRequests
  <2> QED BY <2>1 DEF Fewer, Pending, Live
<1>3. CASE RequestAges
  <2> PICK i \in Ids : /\ asked[i] # None /\ asked[i].age # "purgeable"
                       /\ asked' = [asked EXCEPT ![i].age = Older[@]]
    BY <1>3 DEF RequestAges
  <2> DEFINE new == [asked[i] EXCEPT !.age = Older[asked[i].age]]
  <2>1. asked[i] \in FriendRequest BY DEF RowsOK
  <2>2. Older[asked[i].age] \in {"expired", "purgeable"}
    BY <2>1 DEF Older, FriendRequest
  <2>3. new.state = asked[i].state /\ new.age # "fresh" BY <2>1, <2>2 DEF FriendRequest
  <2>4. asked' = [asked EXCEPT ![i] = new] OBVIOUS
  <2> HIDE DEF new
  <2>5. asked'[i] = new /\ \A j \in Ids \ {i} : asked'[j] = asked[j]
    BY <2>4 DEF RowsOK
  <2> QED BY <2>3, <2>5 DEF Fewer, Pending, Live
<1> QED BY <1>1, <1>2, <1>3

(* A row becomes pending, or live, by being inserted only.                    *)
LEMMA AskedStays ==
  ASSUME LockInv, [Next]_vars
  PROVE  Fewer \/ \E r \in Reqs : InsertRequest(r)
<1> USE DEF LockInv
<1>1. CASE UNCHANGED asked BY <1>1, SameFewer
<1>2. ASSUME NEW r \in Reqs, createFriendship(r) PROVE Fewer
  <2>1. CASE UNCHANGED asked BY <2>1, SameFewer
  <2>2. CASE asked' = Resolved(req[r].got, "accepted")
    <3>1. req[r].got \in Pending
      BY <1>2 DEF createFriendship, At, RowKnown, RowSteps
    <3>2. "accepted" \in Answered BY DEF Answered
    <3> QED BY <2>2, <3>1, <3>2, ResolvedFewer
  <2> QED BY <1>2, <2>1, <2>2 DEF createFriendship, friendVars
<1>3. ASSUME NEW r \in Reqs, Settle(r) PROVE Fewer
  <2>1. CASE UNCHANGED asked BY <2>1, SameFewer
  <2>2. ASSUME NEW state \in Answered, asked' = Resolved(req[r].on, state) PROVE Fewer
    <3>1. req[r].on \in Pending BY <1>3 DEF Settle, At, RowKnown, RowSteps
    <3> QED BY <2>2, <3>1, ResolvedFewer
  <2>3. {"rejected", "cancelled", "accepted"} \subseteq Answered BY DEF Answered
  <2> QED BY <1>3, <2>1, <2>2, <2>3 DEF Settle
<1>4. ASSUME NEW r \in Reqs, CancelRequests(r) PROVE Fewer
  BY <1>4, CancelEmpties DEF Fewer, Live
<1>5. CASE ExpireRequests \/ PurgeRequests \/ RequestAges BY <1>5, WorkerFewer
<1>6. \/ UNCHANGED asked
      \/ ExpireRequests \/ PurgeRequests \/ RequestAges
      \/ \E r \in Reqs : \/ createFriendship(r) \/ Settle(r) \/ CancelRequests(r)
                         \/ InsertRequest(r)
  BY DEF Next, Step, OfEncounter, OfFriends, OfMessages, Staffed, Time, RetentionPass,
         ExpireSanctions, CleanupCalls, vars, friendVars, createRequest, AskStart, LockPair,
         FindOpposite, resolve, ResolveRequestStart, TakeRow, CheckBlocked, Deadlock,
         unfriend, EndFriendship, cleanup, ChooseRequests
<1> QED BY <1>1, <1>2, <1>3, <1>4, <1>5, <1>6

(* Who is about to answer a request was about to before, or was let by.       *)
LEMMA AskHolds ==
  ASSUME LockInv, RouteInv, NEW r \in Reqs,
         createRequest(r) \/ createFriendship(r) \/ resolve(r), Holding(r)'
  PROVE  ~hasEitherDirection \/ Holding(r)
<1>s. Shape BY DEF LockInv
<1>p. req'[r].pc \in {"settle", "befriend", "opposite"} BY DEF Holding
<1>b. \A op, by, on, arg, pc : Begin(r, op, by, on, arg, pc) => pc = req'[r].pc
  BY <1>s, BeginSets
<1>g. \A pc : Go(r, pc) => pc = req'[r].pc BY <1>s, GoSets
<1>t. \A pc, x : Take(r, pc, x) => pc = req'[r].pc BY <1>s, TakeSets
<1>r. \A a, x : Reply(r, a, x) => req'[r].pc = "done" BY <1>s, ReplySets
<1>1. ~AskStart(r) /\ ~ResolveRequestStart(r)
  BY <1>p, <1>b DEF AskStart, ResolveRequestStart
<1>2. ~InsertRequest(r) BY <1>p, <1>r DEF InsertRequest, Done, Answer
<1>3. ~createFriendship(r) BY <1>p, <1>r DEF createFriendship, Done, Answer
<1>4. ~TakeRow(r) BY <1>p, <1>r, <1>t DEF TakeRow, Refuse, Answer
<1>5. CASE LockPair(r) BY <1>p, <1>r, <1>5 DEF LockPair, Refuse, Answer
<1>6. CASE FindOpposite(r)
  <2>1. Opposite(r) # {} BY <1>p, <1>r, <1>g, <1>6 DEF FindOpposite, Done, Answer
  <2> QED BY <1>6, <2>1 DEF FindOpposite, At, Holding
<1>7. CASE CheckBlocked(r) BY <1>p, <1>r, <1>7 DEF CheckBlocked, Refuse, Answer
<1>8. CASE Settle(r) BY <1>8 DEF Settle, At, Holding
<1> QED
  BY <1>1, <1>2, <1>3, <1>4, <1>5, <1>6, <1>7, <1>8 DEF createRequest, resolve

LEMMA HoldersStay ==
  ASSUME LockInv, RouteInv, [Next]_vars, NEW q \in Reqs, Holding(q)', req'[q] # req[q]
  PROVE  ~hasEitherDirection \/ Holding(q)
<1> USE DEF RouteInv
<1>s. Shape BY DEF LockInv
<1>p. req'[q].pc \in {"settle", "befriend", "opposite"} BY DEF Holding
<1>l. req'[q].pc \in Locking BY <1>p DEF Locking, PairSteps, RowSteps
<1>1. ASSUME NEW r \in Reqs, Elsewhere(r) PROVE FALSE
  BY <1>1, <1>l DEF Elsewhere, Moves
<1>2. ASSUME NEW r \in Reqs, Moved(r), req'[r].pc = "done" \/ req'[r].op = "block"
      PROVE  FALSE
  <2>1. req'[r].pc \notin {"settle", "befriend", "opposite"}
    BY <1>2, MovedRoute DEF OpFits, Answering
  <2> QED BY <1>2, <1>p, <2>1 DEF Moved
<1>3. ASSUME NEW r \in Reqs, Step(r) PROVE ~hasEitherDirection \/ Holding(q)
  <2>1. CASE OfEncounter(r)
    <3>1. UNCHANGED friendVars BY <2>1 DEF OfEncounter
    <3> QED BY <1>s, <1>1, <2>1, <3>1, ChatElsewhere, MeetingElsewhere DEF OfEncounter
  <2>2. CASE OfMessages(r) BY <1>s, <1>1, <2>2, MessagesElsewhere
  <2>3. CASE OfFriends(r)
    <3>1. CASE createRequest(r) \/ createFriendship(r) \/ resolve(r)
      <4>1. q = r BY <3>1, FriendMoves DEF Moved
      <4> QED BY <3>1, <4>1, AskHolds
    <3>2. CASE Deadlock(r) BY <1>2, <3>2, DeadlockMoves
    <3>3. CASE unfriend(r) BY <1>2, <3>3, HideMoves
    <3>4. CASE CancelRequests(r) \/ EndFriendship(r) BY <1>2, <3>4, BlockMoves
    <3>5. CASE (BlockStart(r) \/ BlockRow(r) \/ remove(r)) /\ UNCHANGED friendVars
      BY <1>1, <3>5, BlockElsewhere
    <3> QED BY <2>3, <3>1, <3>2, <3>3, <3>4, <3>5 DEF OfFriends
  <2> QED BY <1>3, <2>1, <2>2, <2>3 DEF Step
<1>4. ASSUME NEW r \in Reqs, Die(r) PROVE FALSE BY <1>2, <1>4, DieMoves
<1>5. CASE Staffed \/ Time \/ RetentionPass \/ UNCHANGED vars
  BY <1>5 DEF Staffed, Time, RetentionPass, vars, requestVars
<1> QED BY <1>3, <1>4, <1>5 DEF Next

-----------------------------------------------------------------------------
(* Every step keeps BlockInv.                                                 *)
LEMMA BlockedFrom ==
  ASSUME KindInv, NEW r \in Reqs, Steady(r), NEW stage, "hide" \notin stage,
         Blocked(stage)'
  PROVE  Blocked(stage) \/ (Past(r, stage)' /\ ~Past(r, stage))
<1> PICK u \in Users : (blocks[u] # None /\ Past(blocks[u], stage))' BY DEF Blocked
<1>0. /\ Moved(r) /\ Rows(r)
      /\ blocks \in [Users -> Reqs \cup {None}]
  BY DEF Steady, KindInv, BlocksOK
<1>1. CASE blocks'[u] = blocks[u]
  <2>1. PICK b \in Reqs : b = blocks[u] BY <1>0, <1>1
  <2>2. Past(b, stage)' BY <1>1, <2>1 DEF Past
  <2>3. CASE b = r BY <1>1, <2>1, <2>2, <2>3 DEF Blocked
  <2>4. CASE b # r
    <3>1. req'[b] = req[b] BY <1>0, <2>4 DEF Moved
    <3> QED BY <1>1, <2>1, <2>2, <3>1 DEF Blocked, Past
  <2> QED BY <2>3, <2>4
<1>2. CASE blocks'[u] # blocks[u]
  <2>1. (BlockRow(r) /\ req'[r].pc = "hide") \/ remove(r) BY <1>0, <1>2 DEF Rows
  <2>2. CASE BlockRow(r) /\ req'[r].pc = "hide"
    <3>1. blocks'[u] = r BY <1>0, <1>2, <2>2 DEF BlockRow
    <3>2. Past(r, stage)' BY <3>1 DEF Past
    <3> QED BY <2>2, <3>2 DEF Past
  <2>3. CASE remove(r)
    <3>1. PICK v \in Users : blocks' = [blocks EXCEPT ![v] = None]
      BY <2>3 DEF remove
    <3> QED BY <1>0, <1>2, <3>1
  <2> QED BY <2>1, <2>2, <2>3
<1> QED BY <1>1, <1>2

LEMMA StagesFrom ==
  ASSUME KindInv, NEW r \in Reqs, Steady(r)
  PROVE  /\ Blocked(Cancelled)' => Blocked(Cancelled) \/ CancelRequests(r)
         /\ Blocked(Parted)' => Blocked(Parted) \/ EndFriendship(r)
         /\ Blocked(Revoked)' => Blocked(Revoked) \/ RevokeReveals(r)
         /\ Blocked(Offered)' => Blocked(Offered) \/ InvalidateOffers(r)
<1>0. "hide" \notin Cancelled /\ "hide" \notin Parted /\ "hide" \notin Revoked
      /\ "hide" \notin Offered
  BY DEF Cancelled, Parted, Revoked, Offered
<1>1. Advances(r) BY DEF Steady
<1> QED BY <1>0, <1>1, BlockedFrom DEF Advances

LEMMA StandingFrom ==
  ASSUME StandsStill, NEW stage, Blocked(stage)'
  PROVE  Blocked(stage)
BY DEF StandsStill, Blocked, Past

(* A block that is far on is in force, and is past its earlier stages.        *)
LEMMA StagesNest ==
  /\ Blocked(Offered) => Blocked(Revoked)
  /\ Blocked(Revoked) => Blocked(Parted)
  /\ Blocked(Parted) => Blocked(Cancelled)
  /\ Blocked(Cancelled) => hasEitherDirection
BY DEF Blocked, Past, Offered, Revoked, Parted, Cancelled, hasEitherDirection

LEMMA OvertookStays ==
  ASSUME KindInv, BlockRows, StandsStill \/ \E r \in Reqs : Steady(r)
  PROVE  /\ overtaken \subseteq overtaken'
         /\ \A ops : Overtook(ops) => Overtook(ops)'
<1>1. CASE StandsStill BY <1>1 DEF StandsStill, Overtook
<1>2. ASSUME NEW r \in Reqs, Steady(r)
      PROVE  /\ overtaken \subseteq overtaken'
             /\ \A ops : Overtook(ops) => Overtook(ops)'
  <2>1. overtaken \subseteq overtaken' BY <1>2 DEF Steady, Rows, BlockRow, remove
  <2>2. \A q \in overtaken : q \in Reqs /\ req'[q].op = req[q].op
    BY <1>2 DEF Steady, Moved, BlockRows, KindInv, BlocksOK
  <2> QED BY <2>1, <2>2 DEF Overtook
<1> QED BY <1>1, <1>2

LEMMA RowsKeep ==
  ASSUME KindInv, BlockRows, StandsStill \/ \E r \in Reqs : Steady(r)
  PROVE  BlockRows'
<1> USE DEF BlockRows
<1>1. CASE StandsStill BY <1>1 DEF StandsStill
<1>2. ASSUME NEW r \in Reqs, Steady(r) PROVE BlockRows'
  <2>0. Moved(r) /\ Rows(r) /\ blocks \in [Users -> Reqs \cup {None}]
        /\ overtaken \subseteq Reqs
    BY <1>2 DEF Steady, KindInv, BlocksOK
  <2>1. \A q \in Reqs : req[q].pc # "new" =>
          req'[q].pc # "new" /\ req'[q].op = req[q].op
    BY <2>0 DEF Moved
  <2>2. CASE UNCHANGED <<blocks, overtaken>> BY <2>0, <2>1, <2>2
  <2>3. CASE BlockRow(r) /\ req'[r].pc = "hide" /\ req'[r].op = "block"
    <3>1. \A u \in Users : blocks'[u] = blocks[u] \/ blocks'[u] = r
      BY <2>0, <2>3 DEF BlockRow
    <3>2. \A q \in overtaken' : q \in Reqs /\ req[q].pc # "new"
      BY <2>0, <2>3 DEF BlockRow, PastTheirCheck
    <3> QED BY <2>0, <2>1, <2>3, <3>1, <3>2
  <2>4. CASE remove(r)
    <3>1. \A u \in Users : blocks'[u] # None => blocks'[u] = blocks[u]
      BY <2>0, <2>4 DEF remove
    <3> QED BY <2>0, <2>1, <2>4, <3>1 DEF remove
  <2> QED BY <2>0, <2>2, <2>3, <2>4 DEF Rows
<1> QED BY <1>1, <1>2

LEMMA CheckedKeeps ==
  ASSUME KindInv, CheckedFirst, StandsStill \/ \E r \in Reqs : Steady(r)
  PROVE  CheckedFirst'
<1> USE DEF CheckedFirst
<1>1. CASE StandsStill BY <1>1 DEF StandsStill, hasEitherDirection
<1>2. ASSUME NEW r \in Reqs, Steady(r), hasEitherDirection',
             NEW q \in Reqs, req'[q].pc \in Checking
      PROVE  q \in overtaken'
  <2>0. Moved(r) /\ Rows(r) /\ Checks(r) BY <1>2 DEF Steady
  <2>1. CASE UNCHANGED <<blocks, overtaken>>
    <3>1. hasEitherDirection BY <1>2, <2>1 DEF hasEitherDirection
    <3>2. req[q].pc \in Checking BY <1>2, <2>0, <3>1 DEF Moved, Checks
    <3> QED BY <2>1, <3>1, <3>2
  <2>2. CASE BlockRow(r) /\ req'[r].pc = "hide"
    <3>1. q # r BY <1>2, <2>2 DEF Checking, PastTheirCheck
    <3>2. req[q].pc \in PastTheirCheck BY <1>2, <2>0, <3>1 DEF Moved, Checking
    <3> QED BY <2>2, <3>2 DEF BlockRow
  <2>3. CASE remove(r) /\ req'[r].pc = "done"
    <3>1. hasEitherDirection
      BY <1>2, <2>3 DEF hasEitherDirection, remove, KindInv, BlocksOK
    <3>2. q # r BY <1>2, <2>3 DEF Checking, PastTheirCheck
    <3>3. req[q].pc \in Checking BY <1>2, <2>0, <3>2 DEF Moved
    <3> QED BY <2>3, <3>1, <3>3 DEF remove
  <2> QED BY <2>0, <2>1, <2>2, <2>3 DEF Rows
<1> QED BY <1>1, <1>2

LEMMA HiddenKeeps ==
  ASSUME LockInv, RouteInv, KindInv, HiddenBoth, [Next]_vars,
         StandsStill \/ \E r \in Reqs : Steady(r)
  PROVE  HiddenBoth'
<1> USE DEF HiddenBoth
<1>0. (encounter'.participants => encounter.participants) /\ hidden' \subseteq Users
  BY NextKinds DEF Ages, KindInv, MeetingOK
<1>1. encounter'.participants /\ hidden = Users => hidden' = Users
  BY <1>0, HiddenStays
<1>2. CASE StandsStill BY <1>0, <1>1, <1>2 DEF StandsStill, Past
<1>3. ASSUME NEW r \in Reqs, Steady(r), NEW q \in Reqs, Past(q, Hidden)',
             encounter'.participants
      PROVE  hidden' = Users
  <2>1. CASE Past(q, Hidden) BY <1>0, <1>1, <1>3, <2>1
  <2>2. CASE ~Past(q, Hidden)
    <3>1. q = r BY <1>3, <2>2 DEF Past, Steady, Moved
    <3>2. BlockHide(r) BY <1>3, <2>2, <3>1 DEF Steady, Advances
    <3> QED BY <1>0, <1>3, <3>2 DEF BlockHide
  <2> QED BY <2>1, <2>2
<1> QED BY <1>2, <1>3

LEMMA PendingKeeps ==
  ASSUME LockInv, RouteInv, KindInv, BlockInv, [Next]_vars,
         StandsStill \/ \E r \in Reqs : Steady(r), Blocked(Cancelled)'
  PROVE  Pending' \subseteq overtaken' /\ \A q \in Reqs : ~Holding(q)'
<1> USE DEF BlockInv
<1>1. overtaken \subseteq overtaken' BY OvertookStays
<1>2. ASSUME NEW r \in Reqs, CancelRequests(r)
      PROVE  Pending' \subseteq overtaken' /\ \A q \in Reqs : ~Holding(q)'
  <2>1. Pending' = {} /\ \A q \in Reqs : req'[q].pc \notin RowSteps
    BY <1>2, CancelEmpties
  <2>2. \A q \in Reqs : Opposite(q)' = {} BY <2>1 DEF Opposite, Live
  <2> QED BY <2>1, <2>2 DEF Holding, RowSteps
<1>3. CASE Blocked(Cancelled)
  <2>0. hasEitherDirection /\ Pending \subseteq overtaken /\ \A q \in Reqs : ~Holding(q)
    BY <1>3, StagesNest DEF NothingPending
  <2>1. \A q \in Reqs : Holding(q)' => req'[q] = req[q] BY <2>0, HoldersStay
  <2>2. CASE Fewer
    <3>1. ASSUME NEW q \in Reqs, Holding(q)' PROVE FALSE
      <4>1. req'[q] = req[q] BY <2>1, <3>1
      <4>2. Opposite(q)' \subseteq Opposite(q) BY <2>2, <4>1 DEF Opposite, Fewer
      <4> QED BY <2>0, <3>1, <4>1, <4>2 DEF Holding
    <3> QED BY <1>1, <2>0, <2>2, <3>1 DEF Fewer
  <2>3. ASSUME NEW r \in Reqs, InsertRequest(r)
        PROVE  Pending' \subseteq overtaken' /\ \A q \in Reqs : ~Holding(q)'
    <3>0. req[r].pc = "insert request" /\ \A i \in Ids \ {r} : asked'[i] = asked[i]
      BY <2>3, InsertKeeps DEF InsertRequest, At
    <3>1. Pending' \subseteq Pending \cup {r} BY <3>0 DEF Pending
    <3>2. r \in overtaken BY <2>0, <3>0 DEF CheckedFirst, Checking, PastTheirCheck
    <3>3. ASSUME NEW q \in Reqs, Holding(q)' PROVE FALSE
      <4>1. req'[q] = req[q] BY <2>1, <3>3
      <4>2. req[q].pc = "opposite" BY <2>0, <3>3, <4>1 DEF Holding
      <4>3. q = r BY <3>0, <4>2 DEF LockInv, Exclusive, PairSteps
      <4> QED BY <3>0, <4>2, <4>3
    <3> QED BY <1>1, <2>0, <3>1, <3>2, <3>3
  <2> QED BY <2>2, <2>3, AskedStays
<1>4. CASE StandsStill BY <1>3, <1>4, StandingFrom
<1>5. ASSUME NEW r \in Reqs, Steady(r) PROVE Blocked(Cancelled) \/ CancelRequests(r)
  BY <1>5, StagesFrom
<1> QED BY <1>2, <1>3, <1>4, <1>5

LEMMA ApartKeeps ==
  ASSUME LockInv, RouteInv, KindInv, BlockInv, [Next]_vars,
         StandsStill \/ \E r \in Reqs : Steady(r), Blocked(Parted)'
  PROVE  ~ActiveFriends'
<1> USE DEF BlockInv
<1>1. ASSUME NEW r \in Reqs, EndFriendship(r) PROVE ~ActiveFriends'
  <2>1. friendships' = [i \in Ids |-> IF i \in Active THEN "ended" ELSE friendships[i]]
    BY <1>1 DEF EndFriendship
  <2>2. \A i \in Ids : friendships'[i] # "active" BY <2>1 DEF Active
  <2> QED BY <2>2 DEF ActiveFriends, Active
<1>2. CASE Blocked(Parted)
  <2>1. ~ActiveFriends /\ \A q \in Reqs : req[q].pc # "befriend"
    BY <1>2, StagesNest DEF Apart, NothingPending, Holding
  <2> QED BY <2>1, FriendsStay
<1>3. CASE StandsStill BY <1>2, <1>3, StandingFrom
<1>4. ASSUME NEW r \in Reqs, Steady(r) PROVE Blocked(Parted) \/ EndFriendship(r)
  BY <1>4, StagesFrom
<1> QED BY <1>1, <1>2, <1>3, <1>4

LEMMA RevealedKeeps ==
  ASSUME LockInv, RouteInv, KindInv, BlockInv, [Next]_vars,
         StandsStill \/ \E r \in Reqs : Steady(r), Blocked(Revoked)',
         NEW v \in Users, reveals'[v] \notin {None, "revoked"}
  PROVE  Overtook({"reveal", "card"})'
<1> USE DEF BlockInv
<1>1. ASSUME NEW r \in Reqs, RevokeReveals(r) PROVE FALSE
  BY <1>1 DEF RevokeReveals
<1>2. CASE Blocked(Revoked)
  <2>1. Overtook({"reveal", "card"})
    <3>1. CASE reveals[v] \notin {None, "revoked"} BY <1>2, <3>1 DEF NothingRevealed
    <3>2. ASSUME NEW r \in Reqs, req[r].pc \in {"upsert consent", "upsert maxed"},
                 req[r].op \in {"reveal", "card"}
          PROVE  Overtook({"reveal", "card"})
      <4>1. r \in overtaken
        BY <1>2, <3>2, StagesNest DEF CheckedFirst, Checking, PastTheirCheck
      <4> QED BY <3>2, <4>1 DEF Overtook
    <3> QED BY <3>1, <3>2, RevealsStay
  <2> QED BY <2>1, OvertookStays
<1>3. CASE StandsStill BY <1>2, <1>3, StandingFrom
<1>4. ASSUME NEW r \in Reqs, Steady(r) PROVE Blocked(Revoked) \/ RevokeReveals(r)
  BY <1>4, StagesFrom
<1> QED BY <1>1, <1>2, <1>3, <1>4

LEMMA OfferedKeeps ==
  ASSUME LockInv, RouteInv, KindInv, BlockInv, [Next]_vars,
         StandsStill \/ \E r \in Reqs : Steady(r), Blocked(Offered)',
         NEW v \in Users, offers'[v] = "pending"
  PROVE  Overtook({"offer"})'
<1> USE DEF BlockInv
<1>1. ASSUME NEW r \in Reqs, InvalidateOffers(r) PROVE FALSE
  BY <1>1 DEF InvalidateOffers
<1>2. CASE Blocked(Offered)
  <2>1. Overtook({"offer"})
    <3>1. CASE offers[v] = "pending" BY <1>2, <3>1 DEF NothingOffered
    <3>2. ASSUME NEW r \in Reqs, req[r].pc = "upsert offer", req[r].op = "offer"
          PROVE  Overtook({"offer"})
      <4>1. r \in overtaken
        BY <1>2, <3>2, StagesNest DEF CheckedFirst, Checking, PastTheirCheck
      <4> QED BY <3>2, <4>1 DEF Overtook
    <3> QED BY <3>1, <3>2, OffersStay
  <2> QED BY <2>1, OvertookStays
<1>3. CASE StandsStill BY <1>2, <1>3, StandingFrom
<1>4. ASSUME NEW r \in Reqs, Steady(r) PROVE Blocked(Offered) \/ InvalidateOffers(r)
  BY <1>4, StagesFrom
<1> QED BY <1>1, <1>2, <1>3, <1>4

LEMMA NextBlocks ==
  ASSUME LockInv, RouteInv, KindInv, BlockInv, [Next]_vars
  PROVE  BlockInv'
<1>1. StandsStill \/ \E r \in Reqs : Steady(r) BY NextSteady
<1>2. BlockRows' /\ CheckedFirst' BY <1>1, RowsKeep, CheckedKeeps DEF BlockInv
<1>3. HiddenBoth' BY <1>1, HiddenKeeps DEF BlockInv
<1>4. NothingPending' BY <1>1, PendingKeeps DEF NothingPending
<1>5. Apart' BY <1>1, ApartKeeps DEF Apart
<1>6. NothingRevealed' BY <1>1, RevealedKeeps DEF NothingRevealed
<1>7. NothingOffered' BY <1>1, OfferedKeeps DEF NothingOffered
<1> QED BY <1>2, <1>3, <1>4, <1>5, <1>6, <1>7 DEF BlockInv

LEMMA InitBlocks == Init => BlockInv
<1> SUFFICES ASSUME Init PROVE BlockInv OBVIOUS
<1>1. /\ \A u \in Users : blocks[u] = None
      /\ overtaken = {} /\ \A r \in Reqs : req[r] = Unused
  BY DEF Init
<1>2. ~hasEitherDirection /\ \A stage : ~Blocked(stage)
  BY <1>1 DEF hasEitherDirection, Blocked
<1>3. \A r \in Reqs : ~Past(r, Hidden)
  BY <1>1, UnusedFacts DEF Past, Hidden, Cancelled, Parted, Revoked, Offered
<1> QED
  BY <1>1, <1>2, <1>3
  DEF BlockInv, BlockRows, CheckedFirst, HiddenBoth, NothingPending, Apart,
      NothingRevealed, NothingOffered

(* Each statement of a block keeps what it removed removed: its checks come   *)
(* first, and what overtook it is known (blocks.create and revokePair).       *)
THEOREM BlocksHold == Spec => []BlockInv
<1>1. LockInv /\ RouteInv /\ KindInv /\ BlockInv /\ [Next]_vars => BlockInv'
  BY NextBlocks
<1> QED BY <1>1, InitBlocks, LocksHold, RoutesHold, KindsHold, PTL DEF Spec

(* Once a block has answered the pair is apart and nothing is left pending,   *)
(* revealed or offered but by a request that had passed its check before; and *)
(* the encounter is in neither's history again (blocks.create, revokePair).   *)
THEOREM BlocksSettle == Spec => []BlockSettles
<1>1. ASSUME RouteInv, BlockInv PROVE BlockSettles
  <2> USE DEF RouteInv, BlockInv
  <2>1. ASSUME NEW u \in Users, InForce(u) PROVE \A stage : Blocked(stage)
    <3>1. req[blocks[u]].op = "block" BY <1>1, <2>1 DEF InForce, BlockRows
    <3>2. \A stage : Past(blocks[u], stage) BY <2>1, <3>1 DEF InForce, Past
    <3> QED BY <2>1, <3>2 DEF Blocked, InForce
  <2>2. (\E u \in Users : InForce(u)) =>
          /\ ~ActiveFriends /\ Pending \subseteq overtaken
          /\ (\E v \in Users : reveals[v] \notin {None, "revoked"})
               => Overtook({"reveal", "card"})
          /\ (\E u \in Users : offers[u] = "pending") => Overtook({"offer"})
    BY <1>1, <2>1 DEF NothingPending, Apart, NothingRevealed, NothingOffered
  <2>3. ASSUME NEW r \in Reqs, req[r].op = "block", req[r].answer = "ok",
               NEW u \in Users
        PROVE  ~listed(u)
    <3>1. req[r].pc = "done"
      BY <1>1, <2>3, UnusedFacts, AnswersAssumption DEF OnRoute, Begun
    <3>2. Past(r, Hidden) BY <2>3, <3>1 DEF Past
    <3> QED BY <1>1, <2>3, <3>2 DEF HiddenBoth, listed
  <2> QED BY <2>2, <2>3 DEF BlockSettles
<1> QED BY <1>1, RoutesHold, BlocksHold, PTL
=============================================================================
