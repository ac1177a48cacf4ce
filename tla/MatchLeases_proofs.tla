------------------------- MODULE MatchLeases_proofs -------------------------
(***************************************************************************)
(* Theorems about MatchLeases for every value of its constants: however    *)
(* handlers interleave, fail or see keys expire, LeaseInv holds.           *)
(***************************************************************************)
EXTENDS MatchLeases, SequenceTheorems, TLAPS

-----------------------------------------------------------------------------
(* The queue operators. *)

LEMMA SubSeqType ==
    ASSUME NEW S, NEW q \in Seq(S), NEW m \in Nat \ {0}, NEW n \in Int, n <= Len(q)
    PROVE  SubSeq(q, m, n) \in Seq(S)
<1>1. \A i \in m..n : q[i] \in S BY ElementOfSeq, LenProperties
<1> QED BY <1>1, SubSeqProperties

(* Taking a user out of a partition leaves a partition of the same kind. *)
LEMMA WithoutType ==
    ASSUME NEW S, NEW q \in Seq(S), NEW u
    PROVE  Without(q, u) \in Seq(S)
<1>1. CASE ~\E k \in DOMAIN q : q[k] = u
  BY <1>1 DEF Without
<1>2. CASE \E k \in DOMAIN q : q[k] = u
  <2> DEFINE k == CHOOSE i \in DOMAIN q : q[i] = u
  <2>1. k \in 1..Len(q) BY <1>2
  <2>2. SubSeq(q, 1, k - 1) \in Seq(S) /\ SubSeq(q, k + 1, Len(q)) \in Seq(S)
    <3> HIDE DEF k
    <3> QED BY <2>1, SubSeqType, LenProperties
  <2>4. Without(q, u) = SubSeq(q, 1, k - 1) \o SubSeq(q, k + 1, Len(q))
    BY <1>2 DEF Without, RemoveAt
  <2> QED BY <2>2, <2>4, ConcatProperties
<1> QED BY <1>1, <1>2

(* ZADD leaves a partition of the same kind. *)
LEMMA ZAddType ==
    ASSUME NEW S, NEW q \in Seq(S), NEW u \in S, NEW r \in ZAdd(q, u)
    PROVE  r \in Seq(S)
<1> DEFINE rest == Without(q, u)
<1>1. rest \in Seq(S) BY WithoutType
<1>2. CASE u \notin Priority
  BY <1>1, <1>2 DEF ZAdd
<1>3. CASE u \in Priority
  <2>1. PICK k \in 1..(Len(rest) + 1) : r = InsertAt(rest, k, u)
    BY <1>3 DEF ZAdd
  <2>2. /\ SubSeq(rest, 1, k - 1) \in Seq(S)
        /\ SubSeq(rest, k, Len(rest)) \in Seq(S)
        /\ <<u>> \in Seq(S)
    <3> HIDE DEF rest
    <3> QED BY <1>1, SubSeqType, LenProperties
  <2> HIDE DEF rest
  <2>3. SubSeq(rest, 1, k - 1) \o <<u>> \in Seq(S)
    BY <2>2, ConcatProperties
  <2> QED BY <2>1, <2>2, <2>3, ConcatProperties DEF InsertAt
<1> QED BY <1>2, <1>3

-----------------------------------------------------------------------------
(* Handlers.  A step moves one handler; what the others know stays true as *)
(* long as no id loses its members, which none ever does.                  *)

StoreInv ==
    /\ LiveIsUsed
    /\ NoDanglingLease
    /\ ConnectedWasAcknowledged
    /\ QueueKeepsCohort
    /\ CohortsNeverMix

DataTypeOK ==
    /\ active \in [Users -> {None, Queued} \cup Ids]
    /\ queue \in [Partitions -> Seq(Users)]
    /\ entries \subseteq Users
    /\ live \subseteq Ids
    /\ party \in [Ids -> Pairs \cup {{}}]
    /\ matchMode \in [MatchIds -> Modes \cup {None}]
    /\ acks \in [MatchIds -> SUBSET Users]
    /\ connected \subseteq MatchIds
    /\ deny \subseteq Pairs
    /\ blocks \subseteq Users \X Users
    /\ sanctioned \subseteq Users
    /\ encounter \in [MatchIds -> {"absent", "active", "ended"}]
    /\ timed \subseteq MatchIds
    /\ announced \subseteq MatchIds

LEMMA LeaseInvParts ==
    LeaseInv <=> /\ DataTypeOK /\ StoreInv
                 /\ handler \in [Handlers -> HandlerState] /\ HandlerOK
BY DEF LeaseInv, TypeOK, DataTypeOK, StoreInv

LEMMA DataTypeKept ==
    ASSUME DataTypeOK, UNCHANGED <<store, database, announced>>
    PROVE  DataTypeOK'
BY DEF DataTypeOK, store, database

LEMMA StoreKept ==
    ASSUME StoreInv, UNCHANGED store
    PROVE  StoreInv'
BY DEF StoreInv, store, LiveIsUsed, Fresh, NoDanglingLease, ConnectedWasAcknowledged,
       QueueKeepsCohort, CohortsNeverMix

(* One handler moves to a state that knows what it must. *)
OnUsedId == {"renewRead", "renewExec", "closeExec"}
Moves(h) ==
    \E s \in HandlerState :
        /\ handler' = [handler EXCEPT ![h] = s]
        /\ Knows(s)
        /\ s.pc \in OnUsedId => party'[s.id] # {}

LEMMA HandlerMoves ==
    ASSUME handler \in [Handlers -> HandlerState], HandlerOK,
           \A i \in Ids : party[i] # {} => party'[i] # {},
           NEW h \in Handlers, Moves(h)
    PROVE  handler' \in [Handlers -> HandlerState] /\ HandlerOK'
<1> PICK s \in HandlerState :
        /\ handler' = [handler EXCEPT ![h] = s]
        /\ Knows(s)
        /\ s.pc \in OnUsedId => party'[s.id] # {}
  BY DEF Moves
<1>1. handler' \in [Handlers -> HandlerState] OBVIOUS
<1>2. ASSUME NEW g \in Handlers
      PROVE  /\ Knows(handler'[g])
             /\ handler'[g].pc \in OnUsedId => party'[handler'[g].id] # {}
  <2>1. CASE g = h BY <2>1
  <2>2. CASE g # h
    <3>1. handler'[g] = handler[g] BY <2>2
    <3>2. /\ Knows(handler[g])
          /\ handler[g].pc \in OnUsedId => party[handler[g].id] # {}
      BY DEF HandlerOK, Fresh, OnUsedId
    <3>3. handler[g].pc \in OnUsedId => handler[g].id \in Ids
      BY <3>2 DEF Knows, Ids, OnUsedId
    <3> QED BY <3>1, <3>2, <3>3
  <2> QED BY <2>1, <2>2
<1> QED BY <1>1, <1>2 DEF HandlerOK, Fresh, OnUsedId

(* Steps that write no key and no row. *)
LEMMA QuietStep ==
    ASSUME LeaseInv, NEW h \in Handlers, Moves(h),
           UNCHANGED <<store, database, announced>>
    PROVE  LeaseInv'
<1>1. handler' \in [Handlers -> HandlerState] /\ HandlerOK'
  BY HandlerMoves, LeaseInvParts DEF store
<1>2. DataTypeOK' BY DataTypeKept, LeaseInvParts
<1>3. StoreInv' BY StoreKept, LeaseInvParts
<1> QED BY <1>1, <1>2, <1>3, LeaseInvParts DEF LeaseInv, TypeOK, DataTypeOK, StoreInv

LEMMA IdleKnows == Idle \in HandlerState /\ Knows(Idle) /\ Idle.pc \notin OnUsedId
BY DEF Idle, HandlerState, PCs, Knows, OnUsedId

LEMMA FinishMoves ==
    ASSUME NEW h \in Handlers, Finish(h)
    PROVE  Moves(h)
BY IdleKnows DEF Finish, Moves

(* closeMatch and releaseDirectCall return to a handler that can go on. *)
LEMMA ReturnMoves ==
    ASSUME LeaseInv, NEW h \in Handlers, Return(h),
           handler[h].pc \in {"closeRead", "closeExec", "releaseRead", "releaseExec", "drop"}
    PROVE  Moves(h)
<1>1. CASE handler[h].ret = "idle"
  BY <1>1, FinishMoves DEF Return
<1>2. CASE handler[h].ret # "idle"
  <2> DEFINE s == [handler[h] EXCEPT !.pc = handler[h].ret, !.ret = "idle"]
  <2>1. handler[h] \in HandlerState /\ Knows(handler[h])
    BY DEF LeaseInv, TypeOK, HandlerOK
  <2>2. s \in HandlerState BY <2>1 DEF HandlerState, PCs
  <2>3. Knows(s) /\ s.pc \notin OnUsedId
    BY <2>1, <1>2 DEF Knows, HandlerState, OnUsedId
  <2>4. handler' = [handler EXCEPT ![h] = s] BY <1>2 DEF Return
  <2> QED BY <2>2, <2>3, <2>4 DEF Moves
<1> QED BY <1>1, <1>2

-----------------------------------------------------------------------------
(* The arrivals that only set a handler up. *)
LEMMA SetUp ==
    ASSUME LeaseInv, NEW h \in Handlers, NEW r, NEW s \in HandlerState,
           Begin(h, r, s), Knows(s), s.pc \in OnUsedId => ~Fresh(s.id)
    PROVE  LeaseInv'
<1>1. UNCHANGED <<store, database, announced>> BY DEF Begin
<1>2. party' = party BY <1>1 DEF store
<1>3. Moves(h) BY <1>2 DEF Begin, Moves, Fresh
<1> QED BY <1>1, <1>3, QuietStep

LEMMA MatchArrivals ==
    ASSUME LeaseInv, NEW h \in Handlers, NEW u \in Users, NEW m \in MatchIds,
           AckStart(h, u, m) \/ LeaveStart(h, u, m) \/ NextStart(h, u, m)
    PROVE  LeaseInv'
<1>1. CASE AckStart(h, u, m)
  <2> DEFINE s == [Idle EXCEPT !.pc = "ack", !.user = u, !.id = m]
  <2>1. s \in HandlerState /\ Knows(s) /\ s.pc \notin OnUsedId
    BY DEF Idle, HandlerState, PCs, Ids, Knows, OnUsedId
  <2> QED BY <1>1, <2>1, SetUp DEF AckStart
<1>2. CASE LeaveStart(h, u, m)
  <2> DEFINE s == [Idle EXCEPT !.pc = "closeRead", !.ret = "endLeave", !.user = u, !.id = m]
  <2>1. s \in HandlerState /\ Knows(s) /\ s.pc \notin OnUsedId
    BY DEF Idle, HandlerState, PCs, Ids, Knows, OnUsedId
  <2> QED BY <1>2, <2>1, SetUp DEF LeaveStart
<1>3. CASE NextStart(h, u, m)
  <2> DEFINE s == [Idle EXCEPT !.pc = "closeRead", !.ret = "endNext", !.user = u, !.id = m,
                               !.mode = matchMode[m]]
  <2>0. matchMode[m] \in Modes BY <1>3 DEF NextStart, Commands, LeaseInv, LiveIsUsed
  <2>1. s \in HandlerState /\ Knows(s) /\ s.pc \notin OnUsedId
    BY <2>0 DEF Idle, HandlerState, PCs, Ids, Knows, OnUsedId
  <2> QED BY <1>3, <2>1, SetUp DEF NextStart
<1> QED BY <1>1, <1>2, <1>3

LEMMA PairingArrivals ==
    ASSUME LeaseInv, NEW h \in Handlers, NEW u \in Users, NEW v \in Users,
           NEW mode \in Modes,
           JoinStart(h, u, mode) \/ ReconnectStart(h, u, v, mode)
    PROVE  LeaseInv'
<1>1. CASE JoinStart(h, u, mode)
  <2> DEFINE s == [Idle EXCEPT !.pc = "scan", !.ret = "persist", !.user = u, !.mode = mode]
  <2>1. s \in HandlerState /\ Knows(s) /\ s.pc \notin OnUsedId
    BY DEF Idle, HandlerState, PCs, Knows, OnUsedId
  <2> QED BY <1>1, <2>1, SetUp DEF JoinStart
<1>2. CASE ReconnectStart(h, u, v, mode)
  <2> DEFINE s == [Idle EXCEPT !.pc = "reconnect", !.ret = "persist",
                               !.user = u, !.peer = v, !.mode = mode]
  <2>1. s \in HandlerState /\ Knows(s) /\ s.pc \notin OnUsedId
    BY <1>2 DEF ReconnectStart, Idle, HandlerState, PCs, Knows, OnUsedId
  <2> QED BY <1>2, <2>1, SetUp DEF ReconnectStart
<1> QED BY <1>1, <1>2

LEMMA CallArrivals ==
    ASSUME LeaseInv, NEW h \in Handlers, NEW c \in CallIds,
           (\E u \in Users : RenewStart(h, u, c)) \/ ReleaseStart(h, c)
    PROVE  LeaseInv'
<1>1. ASSUME NEW u \in Users, RenewStart(h, u, c) PROVE LeaseInv'
  <2> DEFINE s == [Idle EXCEPT !.pc = "renewRead", !.user = u, !.id = c]
  <2>1. s \in HandlerState /\ Knows(s)
    BY DEF Idle, HandlerState, PCs, Ids, Knows
  <2>2. ~Fresh(s.id) BY <1>1 DEF RenewStart, LeaseInv, LiveIsUsed, Idle
  <2> QED BY <1>1, <2>1, <2>2, SetUp DEF RenewStart
<1>2. CASE ReleaseStart(h, c)
  <2> DEFINE s == [Idle EXCEPT !.pc = "releaseRead", !.id = c]
  <2>1. s \in HandlerState /\ Knows(s) /\ s.pc \notin OnUsedId
    BY DEF Idle, HandlerState, PCs, Ids, Knows, OnUsedId
  <2> QED BY <1>2, <2>1, SetUp DEF ReleaseStart
<1> QED BY <1>1, <1>2

-----------------------------------------------------------------------------
(* The steps that read and write nothing. *)
LEMMA GivesUp ==
    ASSUME LeaseInv, NEW h \in Handlers,
           JoinBusy(h) \/ ReconnectBusy(h) \/ CallBusy(h) \/ Fail(h)
    PROVE  LeaseInv'
<1>1. Finish(h) /\ UNCHANGED <<store, database, announced>>
  BY DEF JoinBusy, ReconnectBusy, CallBusy, Fail
<1> QED BY <1>1, FinishMoves, QuietStep

LEMMA Reads ==
    ASSUME LeaseInv, NEW h \in Handlers,
           CloseRead(h) \/ RenewRead(h) \/ ReleaseRead(h)
    PROVE  LeaseInv'
<1>1. handler[h] \in HandlerState /\ Knows(handler[h])
  BY DEF LeaseInv, TypeOK, HandlerOK
<1>2. UNCHANGED <<store, database, announced>> BY DEF CloseRead, RenewRead, ReleaseRead
<1>3. party' = party BY <1>2 DEF store
<1>4. CASE Finish(h) BY <1>4, <1>2, FinishMoves, QuietStep
<1>5. CASE Return(h) /\ (CloseRead(h) \/ ReleaseRead(h))
  <2>1. Moves(h) BY <1>5, ReturnMoves DEF CloseRead, ReleaseRead, At
  <2> QED BY <2>1, <1>2, QuietStep
<1>6. CASE handler[h].id \in live /\ CloseRead(h) /\ Goto(h, "closeExec")
  <2> DEFINE s == [handler[h] EXCEPT !.pc = "closeExec"]
  <2>1. s \in HandlerState BY <1>1 DEF HandlerState, PCs
  <2>2. Knows(s) BY <1>1, <1>6 DEF Knows, HandlerState, CloseRead, At
  <2>3. party'[s.id] # {}
    BY <1>1, <1>3, <1>6 DEF LeaseInv, LiveIsUsed, Fresh, HandlerState
  <2>4. Moves(h) BY <1>6, <2>1, <2>2, <2>3 DEF Moves, Goto
  <2> QED BY <2>4, <1>2, QuietStep
<1>7. CASE RenewRead(h) /\ Goto(h, "renewExec")
  <2> DEFINE s == [handler[h] EXCEPT !.pc = "renewExec"]
  <2>1. s \in HandlerState BY <1>1 DEF HandlerState, PCs
  <2>2. Knows(s) BY <1>1, <1>7 DEF Knows, HandlerState, RenewRead, At
  <2>3. party'[s.id] # {}
    BY <1>1, <1>3, <1>7 DEF LeaseInv, HandlerOK, Fresh, RenewRead, At, HandlerState
  <2>4. Moves(h) BY <1>7, <2>1, <2>2, <2>3 DEF Moves, Goto
  <2> QED BY <2>4, <1>2, QuietStep
<1>8. CASE ReleaseRead(h) /\ Goto(h, "releaseExec")
  <2> DEFINE s == [handler[h] EXCEPT !.pc = "releaseExec"]
  <2>1. s \in HandlerState BY <1>1 DEF HandlerState, PCs
  <2>2. Knows(s) /\ s.pc \notin OnUsedId
    BY <1>1, <1>8 DEF Knows, HandlerState, ReleaseRead, At, OnUsedId
  <2>3. Moves(h) BY <1>8, <2>1, <2>2 DEF Moves, Goto
  <2> QED BY <2>3, <1>2, QuietStep
<1> QED BY <1>4, <1>5, <1>6, <1>7, <1>8 DEF CloseRead, RenewRead, ReleaseRead

(* What a removal looks up before it clears a user. *)
LEMMA RemovalReads ==
    ASSUME LeaseInv, NEW h \in Handlers,
           BlockLook(h) \/ Clear(h) \/ ClearPeer(h) \/ RevokeGet(h)
    PROVE  LeaseInv'
<1>1. handler[h] \in HandlerState /\ Knows(handler[h])
  BY DEF LeaseInv, TypeOK, HandlerOK
<1>2. UNCHANGED <<store, database, announced>>
  BY DEF BlockLook, Clear, ClearPeer, RevokeGet
<1>3. CASE BlockLook(h)
  <2>1. PICK m \in Ids \cup {None} :
          handler' = [handler EXCEPT ![h].pc = "blockStore", ![h].seen = m]
    BY <1>3 DEF BlockLook, Ids
  <2> DEFINE s == [handler[h] EXCEPT !.pc = "blockStore", !.seen = m]
  <2>2. s \in HandlerState BY <1>1 DEF HandlerState, PCs
  <2>3. Knows(s) /\ s.pc \notin OnUsedId
    BY <1>1, <1>3 DEF Knows, HandlerState, BlockLook, At, OnUsedId
  <2>4. Moves(h) BY <2>1, <2>2, <2>3 DEF Moves
  <2> QED BY <2>4, <1>2, QuietStep
<1>4. CASE Clear(h)
  <2> DEFINE held == active[handler[h].at]
             pc == IF held \in MatchIds THEN "closeRead"
                   ELSE IF held \in CallIds THEN "releaseRead" ELSE "drop"
             id == IF held \in Ids THEN held ELSE None
             s  == [handler[h] EXCEPT !.pc = pc, !.id = id]
  <2>0. pc \in {"closeRead", "releaseRead", "drop"} /\ id \in Ids \cup {None} OBVIOUS
  <2>1. s \in HandlerState
    <3> HIDE DEF pc, id
    <3> QED BY <1>1, <2>0 DEF HandlerState, PCs
  <2>2. Knows(s) /\ s.pc \notin OnUsedId
    BY <1>1, <1>4 DEF Knows, HandlerState, Clear, At, OnUsedId, Ids
  <2>3. handler' = [handler EXCEPT ![h] = s] BY <1>4 DEF Clear
  <2>4. Moves(h) BY <2>1, <2>2, <2>3 DEF Moves
  <2> QED BY <2>4, <1>2, QuietStep
<1>5. CASE ClearPeer(h)
  <2> DEFINE s == [handler[h] EXCEPT !.pc = "clear", !.ret = "blockEnd",
                                     !.at = handler[h].peer]
  <2>1. s \in HandlerState BY <1>1 DEF HandlerState, PCs
  <2>2. Knows(s) /\ s.pc \notin OnUsedId
    BY <1>1, <1>5 DEF Knows, HandlerState, ClearPeer, At, OnUsedId
  <2>3. handler' = [handler EXCEPT ![h] = s] BY <1>5 DEF ClearPeer
  <2>4. Moves(h) BY <2>1, <2>2, <2>3 DEF Moves
  <2> QED BY <2>4, <1>2, QuietStep
<1>6. CASE RevokeGet(h)
  <2> DEFINE held == active[handler[h].at]
             pc == IF held \in MatchIds THEN "closeRead"
                   ELSE IF held \in CallIds THEN "releaseRead" ELSE "revokeDrop"
             ret == IF held \in Ids THEN "revokeDrop" ELSE "idle"
             id == IF held \in Ids THEN held ELSE None
             s  == [handler[h] EXCEPT !.pc = pc, !.ret = ret, !.id = id]
  <2>0. /\ pc \in {"closeRead", "releaseRead", "revokeDrop"}
        /\ ret \in {"revokeDrop", "idle"}
        /\ id \in Ids \cup {None}
    OBVIOUS
  <2>1. s \in HandlerState
    <3> HIDE DEF pc, id, ret
    <3> QED BY <1>1, <2>0 DEF HandlerState, PCs
  <2>2. Knows(s) /\ s.pc \notin OnUsedId
    BY <1>1, <1>6 DEF Knows, HandlerState, RevokeGet, At, OnUsedId, Ids
  <2>3. handler' = [handler EXCEPT ![h] = s] BY <1>6 DEF RevokeGet
  <2>4. Moves(h) BY <2>1, <2>2, <2>3 DEF Moves
  <2> QED BY <2>4, <1>2, QuietStep
<1> QED BY <1>3, <1>4, <1>5, <1>6

-----------------------------------------------------------------------------
(* The steps that write rows of the database, or announce. *)

LEMMA RowStep ==
    ASSUME LeaseInv, NEW h \in Handlers, Moves(h), UNCHANGED store, DataTypeOK'
    PROVE  LeaseInv'
<1>1. handler' \in [Handlers -> HandlerState] /\ HandlerOK'
  BY HandlerMoves, LeaseInvParts DEF store
<1>2. StoreInv' BY StoreKept, LeaseInvParts
<1> QED BY <1>1, <1>2 DEF LeaseInv, TypeOK, DataTypeOK, StoreInv

LEMMA Records ==
    ASSUME LeaseInv, NEW h \in Handlers,
           Persist(h) \/ Announce(h) \/ MarkConnected(h) \/ EndLeave(h) \/ BlockEnd(h)
    PROVE  LeaseInv'
<1>1. Knows(handler[h]) BY DEF LeaseInv, HandlerOK
<1>2. Moves(h) /\ UNCHANGED store
  <2>1. CASE Finish(h)
    BY <2>1, FinishMoves DEF Persist, Announce, MarkConnected, EndLeave, BlockEnd
  <2>2. CASE Persist(h)
    <3> DEFINE s == [handler[h] EXCEPT !.pc = "announce"]
    <3>1. handler[h].pc = "persist" /\ handler[h] \in HandlerState
      BY <2>2 DEF Persist, At, LeaseInv, TypeOK
    <3>2. s \in HandlerState BY <3>1 DEF HandlerState, PCs
    <3>3. Knows(s) /\ s.pc \notin OnUsedId BY <1>1, <3>1 DEF Knows, HandlerState, OnUsedId
    <3>4. handler' = [handler EXCEPT ![h] = s] BY <2>2 DEF Persist, Goto, LeaseInv, TypeOK
    <3> HIDE DEF s
    <3> QED BY <2>2, <3>2, <3>3, <3>4 DEF Moves, Persist
  <2> QED BY <2>1, <2>2 DEF Announce, MarkConnected, EndLeave, BlockEnd
<1>3. /\ encounter' \in [MatchIds -> {"absent", "active", "ended"}]
      /\ timed' \subseteq MatchIds
      /\ announced' \subseteq MatchIds
      /\ UNCHANGED <<blocks, sanctioned>>
  <2>1. CASE Persist(h)
    BY <1>1, <2>1 DEF Persist, At, Knows, LeaseInv, TypeOK
  <2>2. CASE Announce(h)
    BY <1>1, <2>2 DEF Announce, At, Knows, LeaseInv, TypeOK, database
  <2>3. CASE MarkConnected(h)
    BY <1>1, <2>3 DEF MarkConnected, At, Knows, LeaseInv, TypeOK
  <2>4. CASE EndLeave(h) \/ BlockEnd(h)
    BY <2>4 DEF EndLeave, BlockEnd, EndRow, LeaseInv, TypeOK
  <2> QED BY <2>1, <2>2, <2>3, <2>4
<1>4. DataTypeOK' BY <1>2, <1>3 DEF DataTypeOK, store, LeaseInv, TypeOK
<1> QED BY <1>2, <1>4, RowStep

LEMMA EndNextStep ==
    ASSUME LeaseInv, NEW h \in Handlers, EndNext(h)
    PROVE  LeaseInv'
<1> DEFINE m == handler[h].id
           s == [Idle EXCEPT !.pc = "scan", !.ret = "announce",
                             !.user = handler[h].user, !.mode = handler[h].mode]
<1>1. handler[h].user \in Users /\ m \in MatchIds /\ handler[h].mode \in Modes
  BY DEF LeaseInv, HandlerOK, Knows, EndNext, At
<1>3. s \in HandlerState BY <1>1 DEF Idle, HandlerState, PCs
<1>4. Knows(s) /\ s.pc \notin OnUsedId BY <1>1 DEF Idle, Knows, OnUsedId
<1>5. Moves(h) BY <1>3, <1>4 DEF EndNext, Moves
<1>6. DataTypeOK' BY DEF EndNext, EndRow, DataTypeOK, LeaseInv, TypeOK, store
<1> QED BY <1>5, <1>6, RowStep DEF EndNext

LEMMA UserArrivals ==
    ASSUME LeaseInv, NEW h \in Handlers, NEW u \in Users, NEW v \in Users,
           CallStart(h, u, v) \/ BlockStart(h, u, v)
    PROVE  LeaseInv'
<1>1. CASE CallStart(h, u, v)
  <2> DEFINE s == [Idle EXCEPT !.pc = "callAcquire", !.user = u, !.peer = v]
  <2>1. s \in HandlerState /\ Knows(s) /\ s.pc \notin OnUsedId
    BY <1>1 DEF CallStart, Idle, HandlerState, PCs, Knows, OnUsedId
  <2> QED BY <1>1, <2>1, SetUp DEF CallStart
<1>2. CASE BlockStart(h, u, v)
  <2> DEFINE s == [Idle EXCEPT !.pc = "blockLook", !.user = u, !.peer = v]
  <2>1. s \in HandlerState /\ Knows(s) /\ s.pc \notin OnUsedId
    BY DEF Idle, HandlerState, PCs, Knows, OnUsedId
  <2>2. Moves(h) BY <1>2, <2>1 DEF BlockStart, Moves
  <2>3. DataTypeOK' BY <1>2 DEF BlockStart, DataTypeOK, LeaseInv, TypeOK, store
  <2> QED BY <1>2, <2>2, <2>3, RowStep DEF BlockStart
<1> QED BY <1>1, <1>2

LEMMA ReportArrival ==
    ASSUME LeaseInv, NEW h \in Handlers, NEW u \in Users, NEW m \in MatchIds,
           ReportStart(h, u, m)
    PROVE  LeaseInv'
<1> DEFINE s == [Idle EXCEPT !.pc = "closeRead", !.user = u, !.id = m]
<1>1. s \in HandlerState /\ Knows(s) /\ s.pc \notin OnUsedId
  BY DEF Idle, HandlerState, PCs, Ids, Knows, OnUsedId
<1>2. Moves(h) BY <1>1 DEF ReportStart, Moves
<1>3. DataTypeOK' BY DEF ReportStart, DataTypeOK, LeaseInv, TypeOK, store
<1> QED BY <1>2, <1>3, RowStep DEF ReportStart

LEMMA SanctionArrival ==
    ASSUME LeaseInv, NEW h \in Handlers, NEW u \in Users, SanctionStart(h, u)
    PROVE  LeaseInv'
<1> DEFINE s == [Idle EXCEPT !.pc = "revokeQueues", !.at = u]
<1>1. s \in HandlerState /\ Knows(s) /\ s.pc \notin OnUsedId
  BY DEF Idle, HandlerState, PCs, Knows, OnUsedId
<1>2. Moves(h) BY <1>1 DEF SanctionStart, Moves
<1>3. DataTypeOK' BY DEF SanctionStart, DataTypeOK, LeaseInv, TypeOK, store
<1> QED BY <1>2, <1>3, RowStep DEF SanctionStart

LEMMA Reversals ==
    ASSUME LeaseInv, Reversal
    PROVE  LeaseInv'
<1>1. UNCHANGED <<store, handler>> /\ DataTypeOK'
  BY DEF Reversal, Unblock, LiftSanction, DataTypeOK, LeaseInv, TypeOK, store
<1>2. StoreInv' BY <1>1, StoreKept, LeaseInvParts
<1>3. HandlerOK' BY <1>1 DEF LeaseInv, HandlerOK, Knows, Fresh, store
<1> QED BY <1>1, <1>2, <1>3 DEF LeaseInv, TypeOK, DataTypeOK, StoreInv

-----------------------------------------------------------------------------
(* The steps that write leases. *)

LEMMA LeaseStep ==
    ASSUME LeaseInv, DataTypeOK', StoreInv',
           \A i \in Ids : party[i] # {} => party'[i] # {},
           UNCHANGED handler \/ \E h \in Handlers : Moves(h)
    PROVE  LeaseInv'
<1>1. handler' \in [Handlers -> HandlerState] /\ HandlerOK'
  <2>1. CASE UNCHANGED handler
    BY <2>1 DEF LeaseInv, TypeOK, HandlerOK, Knows, Fresh, Ids
  <2>2. CASE \E h \in Handlers : Moves(h)
    BY <2>2, HandlerMoves, LeaseInvParts
  <2> QED BY <2>1, <2>2
<1> QED BY <1>1 DEF LeaseInv, TypeOK, DataTypeOK, StoreInv

(* Steps that pair nobody need only care for the leases and the records. *)
LEMMA NoPairing ==
    ASSUME LeaseInv, DataTypeOK', UNCHANGED <<party, matchMode, queue>>,
           live' \subseteq live \cup {c \in CallIds : ~Fresh(c)},
           NoDanglingLease', ConnectedWasAcknowledged',
           UNCHANGED handler \/ \E h \in Handlers : Moves(h)
    PROVE  LeaseInv'
<1>1. StoreInv'
  BY IdsAssumption DEF LeaseInv, StoreInv, LiveIsUsed, Fresh, QueueKeepsCohort, CohortsNeverMix
<1> QED BY <1>1, LeaseStep

LEMMA DenyWrites ==
    ASSUME LeaseInv,
           \/ \E h \in Handlers : Scan(h)
           \/ \E d \in Pairs : DenyExpires(d)
    PROVE  LeaseInv'
<1>1. UNCHANGED <<active, queue, live, party, matchMode, acks, connected>>
  BY DEF Scan, DenyExpires
<1>2. NoDanglingLease' /\ ConnectedWasAcknowledged'
  BY <1>1 DEF LeaseInv, NoDanglingLease, ConnectedWasAcknowledged
<1>3. CASE \E d \in Pairs : DenyExpires(d)
  <2>1. DataTypeOK' BY <1>3 DEF DenyExpires, LeaseInv, TypeOK, DataTypeOK, database
  <2> QED BY <2>1, <1>1, <1>2, <1>3, NoPairing DEF DenyExpires
<1>4. ASSUME NEW h \in Handlers, Scan(h) PROVE LeaseInv'
  <2>1. handler[h] \in HandlerState /\ Knows(handler[h])
    BY DEF LeaseInv, TypeOK, HandlerOK
  <2>2. handler[h].user \in Users BY <1>4, <2>1 DEF Scan, At, Knows
  <2>3. deny' \subseteq Pairs
    <3>1. PICK seen :
            /\ seen \subseteq InWindow(PartitionOf(handler[h].user, handler[h].mode))
            /\ deny' = deny \cup {{handler[h].user, c} : c \in seen}
      BY <1>4 DEF Scan, Marks
    <3>2. PartitionOf(handler[h].user, handler[h].mode) \in Partitions
      BY <1>4, <2>1, <2>2 DEF PartitionOf, Partitions, Cohorts, Scan, At, Knows
    <3>3. seen \subseteq Users
      BY <3>1, <3>2, ElementOfSeq, LenProperties DEF InWindow, LeaseInv, TypeOK
    <3>4. \A c \in seen : {handler[h].user, c} \in Pairs BY <2>2, <3>3 DEF Pairs
    <3>5. deny \subseteq Pairs BY DEF LeaseInv, TypeOK
    <3> QED BY <3>1, <3>4, <3>5
  <2>4. DataTypeOK' BY <1>4, <2>3 DEF Scan, LeaseInv, TypeOK, DataTypeOK, database
  <2> DEFINE s == [handler[h] EXCEPT !.pc = "enqueue"]
  <2>5. s \in HandlerState BY <2>1 DEF HandlerState, PCs
  <2>6. Knows(s) /\ s.pc \notin OnUsedId
    BY <2>1, <1>4 DEF Knows, HandlerState, Scan, At, OnUsedId
  <2>7. Moves(h) BY <1>4, <2>5, <2>6 DEF Scan, Goto, Moves
  <2> QED BY <2>4, <2>7, <1>1, <1>2, NoPairing
<1> QED BY <1>3, <1>4

LEMMA AckStep ==
    ASSUME LeaseInv, NEW h \in Handlers, AckExec(h)
    PROVE  LeaseInv'
<1> DEFINE u == handler[h].user
           m == handler[h].id
<1>1. /\ handler[h] \in HandlerState /\ Knows(handler[h])
      /\ u \in Users /\ m \in MatchIds
  BY DEF LeaseInv, TypeOK, HandlerOK, AckExec, At, Knows
<1>2. UNCHANGED <<party, matchMode, queue, live>> BY DEF AckExec
<1>3. DataTypeOK'
  <2>1. acks' \in [MatchIds -> SUBSET Users] /\ connected' \subseteq MatchIds
    BY <1>1 DEF AckExec, LeaseInv, TypeOK
  <2>2. active' \in [Users -> {None, Queued} \cup Ids]
    BY <1>1 DEF AckExec, Lease, LeaseInv, TypeOK, Ids
  <2> QED BY <2>1, <2>2 DEF AckExec, DataTypeOK, LeaseInv, TypeOK, database
<1>4. NoDanglingLease'
  BY <1>1, <1>2 DEF AckExec, Lease, LeaseInv, TypeOK, NoDanglingLease
<1>5. ConnectedWasAcknowledged'
  BY <1>1, <1>2 DEF AckExec, AllAcked, LeaseInv, TypeOK, ConnectedWasAcknowledged
<1>6. Moves(h)
  <2>1. CASE Finish(h) BY <2>1, FinishMoves
  <2>2. CASE Goto(h, "markConnected")
    <3> DEFINE s == [handler[h] EXCEPT !.pc = "markConnected"]
    <3>1. s \in HandlerState BY <1>1 DEF HandlerState, PCs
    <3>2. Knows(s) /\ s.pc \notin OnUsedId
      BY <1>1 DEF Knows, HandlerState, AckExec, At, OnUsedId
    <3> QED BY <2>2, <3>1, <3>2 DEF Moves, Goto
  <2> QED BY <2>1, <2>2 DEF AckExec
<1> QED BY <1>2, <1>3, <1>4, <1>5, <1>6, NoPairing

LEMMA CloseStep ==
    ASSUME LeaseInv, NEW h \in Handlers, CloseExec(h)
    PROVE  LeaseInv'
<1> DEFINE m == handler[h].id
<1>1. /\ handler[h] \in HandlerState /\ Knows(handler[h])
      /\ m \in MatchIds /\ party[m] \in Pairs
  BY DEF LeaseInv, TypeOK, HandlerOK, CloseExec, At, Knows, Fresh, Ids
<1>2. UNCHANGED <<party, matchMode, queue>> BY DEF CloseExec
<1>3. DataTypeOK'
  BY <1>1 DEF CloseExec, Unlease, DataTypeOK, LeaseInv, TypeOK, database
<1>4. NoDanglingLease'
  BY <1>1, <1>2, IdsAssumption DEF CloseExec, Unlease, LeaseInv, TypeOK, NoDanglingLease
<1>5. ConnectedWasAcknowledged'
  BY <1>1, <1>2 DEF CloseExec, LeaseInv, TypeOK, ConnectedWasAcknowledged
<1>6. Moves(h) BY ReturnMoves DEF CloseExec, At
<1> QED BY <1>2, <1>3, <1>4, <1>5, <1>6, NoPairing DEF CloseExec

(* closeMatch apart, what takes leases away leaves the match records alone. *)
LEMMA CallWrites ==
    ASSUME LeaseInv, NEW h \in Handlers, RenewExec(h) \/ ReleaseExec(h)
    PROVE  LeaseInv'
<1> DEFINE c == handler[h].id
<1>1. handler[h] \in HandlerState /\ Knows(handler[h]) /\ c \in CallIds
  BY DEF LeaseInv, TypeOK, HandlerOK, RenewExec, ReleaseExec, At, Knows
<1>2. UNCHANGED <<party, matchMode, queue, acks, connected>> BY DEF RenewExec, ReleaseExec
<1>3. DataTypeOK'
  BY <1>1 DEF RenewExec, ReleaseExec, Lease, Unlease, DataTypeOK, LeaseInv, TypeOK,
              database, Ids
<1>4. NoDanglingLease'
  BY <1>1, <1>2, IdsAssumption
     DEF RenewExec, ReleaseExec, Lease, Unlease, LeaseInv, TypeOK, NoDanglingLease
<1>5. ConnectedWasAcknowledged'
  <2>1. \A m \in connected : m # c BY <1>1, IdsAssumption DEF LeaseInv, TypeOK
  <2> QED BY <1>2, <2>1 DEF RenewExec, ReleaseExec, LeaseInv, ConnectedWasAcknowledged
<1>6. Moves(h)
  <2>1. CASE RenewExec(h) BY <2>1, FinishMoves DEF RenewExec
  <2>2. CASE ReleaseExec(h) BY <2>2, ReturnMoves DEF ReleaseExec, At
  <2> QED BY <2>1, <2>2
<1>7. live' \subseteq live \cup {d \in CallIds : ~Fresh(d)}
  BY <1>1 DEF RenewExec, ReleaseExec, LeaseInv, HandlerOK, At, Ids
<1> QED BY <1>2, <1>3, <1>4, <1>5, <1>6, <1>7, NoPairing

LEMMA Drops ==
    ASSUME LeaseInv, NEW h \in Handlers, Drop(h) \/ RevokeDrop(h)
    PROVE  LeaseInv'
<1>1. UNCHANGED <<party, matchMode, queue, live, acks, connected>> BY DEF Drop, RevokeDrop
<1>2. DataTypeOK' BY DEF Drop, RevokeDrop, DataTypeOK, LeaseInv, TypeOK, database
<1>3. NoDanglingLease'
  BY <1>1, IdsAssumption DEF Drop, RevokeDrop, LeaseInv, TypeOK, NoDanglingLease
<1>4. ConnectedWasAcknowledged' BY <1>1 DEF LeaseInv, ConnectedWasAcknowledged
<1>5. Moves(h)
  <2>1. CASE Drop(h) BY <2>1, ReturnMoves DEF Drop, At
  <2>2. CASE RevokeDrop(h) BY <2>2, FinishMoves DEF RevokeDrop
  <2> QED BY <2>1, <2>2
<1> QED BY <1>1, <1>2, <1>3, <1>4, <1>5, NoPairing

LEMMA LeaseExpiries ==
    ASSUME LeaseInv,
           \/ \E u \in Users : QueueLeaseExpires(u) \/ EntryExpires(u)
           \/ \E m \in MatchIds : MatchExpires(m)
           \/ \E c \in CallIds : CallExpires(c)
    PROVE  LeaseInv'
<1>1. UNCHANGED <<party, matchMode, queue, handler>> /\ live' \subseteq live
  BY DEF QueueLeaseExpires, EntryExpires, MatchExpires, CallExpires
<1>2. DataTypeOK'
  BY DEF QueueLeaseExpires, EntryExpires, MatchExpires, CallExpires, Freed,
         DataTypeOK, LeaseInv, TypeOK, database
<1>3. NoDanglingLease'
  <2>1. active \in [Users -> {None, Queued} \cup Ids] /\ NoDanglingLease
    BY DEF LeaseInv, TypeOK
  <2>2. ASSUME NEW i \in Ids, live' = live \ {i}, active' = Freed(i)
        PROVE  NoDanglingLease'
    BY <1>1, <2>1, <2>2, IdsAssumption DEF Freed, NoDanglingLease
  <2>3. ASSUME NEW u \in Users, QueueLeaseExpires(u) \/ EntryExpires(u)
        PROVE  NoDanglingLease'
    BY <1>1, <2>1, <2>3, IdsAssumption DEF QueueLeaseExpires, EntryExpires, NoDanglingLease
  <2> QED BY <2>2, <2>3 DEF MatchExpires, CallExpires, Ids
<1>4. ConnectedWasAcknowledged'
  <2>1. ASSUME NEW c \in CallIds, CallExpires(c) PROVE ConnectedWasAcknowledged'
    <3>1. c \notin connected BY IdsAssumption DEF LeaseInv, TypeOK
    <3> QED BY <1>1, <2>1, <3>1 DEF CallExpires, LeaseInv, ConnectedWasAcknowledged
  <2>2. ASSUME NEW m \in MatchIds, MatchExpires(m) PROVE ConnectedWasAcknowledged'
    BY <1>1, <2>2 DEF MatchExpires, LeaseInv, TypeOK, ConnectedWasAcknowledged
  <2>3. ASSUME NEW u \in Users, QueueLeaseExpires(u) \/ EntryExpires(u)
        PROVE  ConnectedWasAcknowledged'
    BY <2>3 DEF QueueLeaseExpires, EntryExpires, LeaseInv, ConnectedWasAcknowledged
  <2> QED BY <2>1, <2>2, <2>3
<1> QED BY <1>1, <1>2, <1>3, <1>4, NoPairing

-----------------------------------------------------------------------------
(* The steps that pair two users, and those that write the queue. *)

(* Two members of one partition are of one cohort. *)
LEMMA InPartition ==
    ASSUME LeaseInv, NEW u \in Users, NEW mode \in Modes,
           NEW k \in DOMAIN queue[PartitionOf(u, mode)]
    PROVE  /\ queue[PartitionOf(u, mode)][k] \in Users
           /\ Cohort[queue[PartitionOf(u, mode)][k]] = Cohort[u]
<1> DEFINE p == PartitionOf(u, mode)
<1>1. p \in Partitions /\ p[1] = Cohort[u] BY DEF PartitionOf, Partitions, Cohorts
<1>2. queue[p] \in Seq(OfCohort(p)) BY <1>1 DEF LeaseInv, QueueKeepsCohort
<1>3. queue[p][k] \in OfCohort(p) BY <1>2, ElementOfSeq, LenProperties
<1> QED BY <1>1, <1>3 DEF OfCohort

LEMMA JoinMatchedStep ==
    ASSUME LeaseInv, NEW h \in Handlers, NEW peer \in Users, NEW m \in MatchIds,
           JoinMatched(h, peer, m)
    PROVE  LeaseInv'
<1> DEFINE u == handler[h].user
           p == PartitionOf(u, handler[h].mode)
<1>1. /\ handler[h] \in HandlerState /\ Knows(handler[h])
      /\ u \in Users /\ handler[h].mode \in Modes /\ handler[h].ret \in {"persist", "announce"}
  BY DEF LeaseInv, TypeOK, HandlerOK, JoinMatched, At, Knows
<1>2. p \in Partitions BY <1>1 DEF PartitionOf, Partitions, Cohorts
<1>3. Cohort[peer] = Cohort[u]
  BY <1>1, InPartition DEF JoinMatched, FirstEligible
<1>4. m \notin live /\ m \notin connected
  BY DEF JoinMatched, LeaseInv, LiveIsUsed, ConnectedWasAcknowledged
<1>5. queue' = [queue EXCEPT ![p] = Without(queue[p], peer)] BY DEF JoinMatched
<1>6. DataTypeOK'
  <2>1. queue' \in [Partitions -> Seq(Users)]
    BY <1>2, <1>5, WithoutType DEF LeaseInv, TypeOK
  <2>2. {u, peer} \in Pairs BY <1>1 DEF Pairs
  <2> QED BY <1>1, <2>1, <2>2 DEF JoinMatched, DataTypeOK, LeaseInv, TypeOK, database, Ids
<1>7. LiveIsUsed'
  BY <1>1 DEF JoinMatched, LeaseInv, TypeOK, LiveIsUsed, Fresh, Ids
<1>8. NoDanglingLease'
  BY <1>1, <1>4 DEF JoinMatched, LeaseInv, TypeOK, NoDanglingLease, Ids
<1>9. ConnectedWasAcknowledged'
  BY <1>4 DEF JoinMatched, LeaseInv, TypeOK, ConnectedWasAcknowledged
<1>10. QueueKeepsCohort'
  BY <1>2, <1>5, WithoutType DEF LeaseInv, TypeOK, QueueKeepsCohort
<1>11. CohortsNeverMix'
  BY <1>3 DEF JoinMatched, LeaseInv, TypeOK, CohortsNeverMix, Ids
<1>12. Moves(h)
  <2> DEFINE s == [handler[h] EXCEPT !.pc = handler[h].ret, !.ret = "idle", !.id = m]
  <2>1. s \in HandlerState BY <1>1 DEF HandlerState, PCs, Ids
  <2>2. Knows(s) /\ s.pc \notin OnUsedId BY <1>1 DEF Knows, HandlerState, OnUsedId
  <2> QED BY <2>1, <2>2 DEF Moves, JoinMatched
<1>13. \A i \in Ids : party[i] # {} => party'[i] # {}
  BY <1>1 DEF JoinMatched, LeaseInv, TypeOK
<1> QED BY <1>6, <1>7, <1>8, <1>9, <1>10, <1>11, <1>12, <1>13, LeaseStep DEF StoreInv

LEMMA JoinQueuedStep ==
    ASSUME LeaseInv, NEW h \in Handlers, JoinQueued(h)
    PROVE  LeaseInv'
<1> DEFINE u == handler[h].user
           p == PartitionOf(u, handler[h].mode)
<1>1. u \in Users /\ handler[h].mode \in Modes
  BY DEF LeaseInv, HandlerOK, JoinQueued, At, Knows
<1>2. p \in Partitions /\ p[1] = Cohort[u] BY <1>1 DEF PartitionOf, Partitions, Cohorts
<1>3. PICK q \in ZAdd(queue[p], u) : queue' = [queue EXCEPT ![p] = q] BY DEF JoinQueued
<1>4. UNCHANGED <<live, party, matchMode, acks, connected>> BY DEF JoinQueued
<1>5. DataTypeOK'
  <2>1. q \in Seq(Users) BY <1>1, <1>2, ZAddType DEF LeaseInv, TypeOK
  <2>2. queue' \in [Partitions -> Seq(Users)] BY <1>3, <2>1 DEF LeaseInv, TypeOK
  <2> QED BY <1>1, <2>2 DEF JoinQueued, DataTypeOK, LeaseInv, TypeOK, database
<1>6. QueueKeepsCohort'
  <2>1. u \in OfCohort(p) BY <1>1, <1>2 DEF OfCohort
  <2>2. q \in Seq(OfCohort(p))
    BY <1>2, <2>1, ZAddType DEF LeaseInv, QueueKeepsCohort
  <2> QED BY <1>2, <1>3, <2>2 DEF LeaseInv, TypeOK, QueueKeepsCohort
<1>7. NoDanglingLease'
  BY <1>1, <1>4, IdsAssumption DEF JoinQueued, LeaseInv, TypeOK, NoDanglingLease
<1>8. LiveIsUsed' /\ ConnectedWasAcknowledged' /\ CohortsNeverMix'
  BY <1>4 DEF LeaseInv, LiveIsUsed, Fresh, ConnectedWasAcknowledged, CohortsNeverMix
<1>9. Moves(h) BY FinishMoves DEF JoinQueued
<1> QED BY <1>4, <1>5, <1>6, <1>7, <1>8, <1>9, LeaseStep DEF StoreInv

LEMMA ReconnectMatchedStep ==
    ASSUME LeaseInv, NEW h \in Handlers, NEW m \in MatchIds, ReconnectMatched(h, m)
    PROVE  LeaseInv'
<1> DEFINE u == handler[h].user
           v == handler[h].peer
           p == PartitionOf(u, handler[h].mode)
<1>1. /\ handler[h] \in HandlerState /\ Knows(handler[h])
      /\ u \in Users /\ v \in Users /\ handler[h].mode \in Modes
      /\ Cohort[u] = Cohort[v]
  BY DEF LeaseInv, TypeOK, HandlerOK, ReconnectMatched, At, Knows
<1>2. p \in Partitions BY <1>1 DEF PartitionOf, Partitions, Cohorts
<1>3. queue' = [queue EXCEPT ![p] = Without(Without(queue[p], u), v)]
  BY DEF ReconnectMatched
<1>4. m \notin live /\ m \notin connected
  BY DEF ReconnectMatched, LeaseInv, LiveIsUsed, ConnectedWasAcknowledged
<1>5. DataTypeOK'
  <2>1. queue' \in [Partitions -> Seq(Users)]
    BY <1>2, <1>3, WithoutType DEF LeaseInv, TypeOK
  <2>2. {u, v} \in Pairs BY <1>1 DEF Pairs
  <2> QED BY <1>1, <2>1, <2>2
          DEF ReconnectMatched, DataTypeOK, LeaseInv, TypeOK, database, Ids
<1>6. LiveIsUsed'
  BY <1>1 DEF ReconnectMatched, LeaseInv, TypeOK, LiveIsUsed, Fresh, Ids
<1>7. NoDanglingLease'
  BY <1>1, <1>4 DEF ReconnectMatched, LeaseInv, TypeOK, NoDanglingLease, Ids
<1>8. ConnectedWasAcknowledged'
  BY <1>4 DEF ReconnectMatched, LeaseInv, TypeOK, ConnectedWasAcknowledged
<1>9. QueueKeepsCohort'
  BY <1>2, <1>3, WithoutType DEF LeaseInv, TypeOK, QueueKeepsCohort
<1>10. CohortsNeverMix'
  BY <1>1 DEF ReconnectMatched, LeaseInv, TypeOK, CohortsNeverMix, Ids
<1>11. Moves(h)
  <2> DEFINE s == [handler[h] EXCEPT !.pc = "persist", !.ret = "idle", !.id = m]
  <2>1. s \in HandlerState BY <1>1 DEF HandlerState, PCs, Ids
  <2>2. Knows(s) /\ s.pc \notin OnUsedId BY <1>1 DEF Knows, HandlerState, OnUsedId
  <2> QED BY <2>1, <2>2 DEF Moves, ReconnectMatched
<1>12. \A i \in Ids : party[i] # {} => party'[i] # {}
  BY <1>1 DEF ReconnectMatched, LeaseInv, TypeOK
<1> QED BY <1>5, <1>6, <1>7, <1>8, <1>9, <1>10, <1>11, <1>12, LeaseStep DEF StoreInv

LEMMA CallAcquiredStep ==
    ASSUME LeaseInv, NEW h \in Handlers, NEW c \in CallIds, CallAcquired(h, c)
    PROVE  LeaseInv'
<1> DEFINE u == handler[h].user
           v == handler[h].peer
<1>1. u \in Users /\ v \in Users
  BY DEF LeaseInv, HandlerOK, CallAcquired, At, Knows
<1>2. c \notin live /\ c \in Ids /\ c \notin MatchIds
  BY IdsAssumption DEF CallAcquired, LeaseInv, LiveIsUsed, Ids
<1>3. UNCHANGED <<queue, matchMode, acks, connected>> BY DEF CallAcquired
<1>4. DataTypeOK'
  <2>1. {u, v} \in Pairs BY <1>1 DEF Pairs
  <2> QED BY <1>2, <2>1 DEF CallAcquired, DataTypeOK, LeaseInv, TypeOK, database
<1>5. LiveIsUsed'
  <2>1. party' = [party EXCEPT ![c] = {u, v}] /\ live' = live \cup {c} BY DEF CallAcquired
  <2>2. ASSUME NEW i \in live'
        PROVE  party'[i] # {} /\ (i \in MatchIds => matchMode'[i] \in Modes)
    BY <1>2, <1>3, <2>1, <2>2 DEF LeaseInv, TypeOK, LiveIsUsed, Fresh
  <2> QED BY <2>2 DEF LiveIsUsed, Fresh
<1>6. NoDanglingLease'
  BY <1>1, <1>2 DEF CallAcquired, LeaseInv, TypeOK, NoDanglingLease
<1>7. ConnectedWasAcknowledged' /\ QueueKeepsCohort' /\ CohortsNeverMix'
  BY <1>2, <1>3 DEF CallAcquired, LeaseInv, TypeOK, ConnectedWasAcknowledged,
                    QueueKeepsCohort, CohortsNeverMix
<1>8. Moves(h) BY FinishMoves DEF CallAcquired
<1>9. \A i \in Ids : party[i] # {} => party'[i] # {}
  BY DEF CallAcquired, LeaseInv, TypeOK
<1> QED BY <1>4, <1>5, <1>6, <1>7, <1>8, <1>9, LeaseStep DEF StoreInv

(* blockPair and applySanction take users out of every partition. *)
LEMMA QueueRemovals ==
    ASSUME LeaseInv, NEW h \in Handlers,
           BlockStore(h) \/ RevokeQueues(h)
    PROVE  LeaseInv'
<1>1. UNCHANGED <<active, live, party, matchMode, acks, connected>>
  BY DEF BlockStore, RevokeQueues
<1>2. LiveIsUsed' /\ NoDanglingLease' /\ ConnectedWasAcknowledged' /\ CohortsNeverMix'
  BY <1>1 DEF LeaseInv, LiveIsUsed, Fresh, NoDanglingLease, ConnectedWasAcknowledged,
              CohortsNeverMix
<1>3. CASE BlockStore(h)
  <2> DEFINE u == handler[h].user
             v == handler[h].peer
             s == [handler[h] EXCEPT !.pc = "clear", !.ret = "clearPeer", !.at = u]
  <2>1. /\ handler[h] \in HandlerState /\ Knows(handler[h])
        /\ u \in Users /\ v \in Users
    BY <1>3 DEF LeaseInv, TypeOK, HandlerOK, BlockStore, At, Knows
  <2>2. queue' = [p \in Partitions |-> Without(Without(queue[p], u), v)]
    BY <1>3 DEF BlockStore
  <2>3. queue' \in [Partitions -> Seq(Users)] /\ QueueKeepsCohort'
    BY <2>2, WithoutType DEF LeaseInv, TypeOK, QueueKeepsCohort
  <2>4. {u, v} \in Pairs BY <2>1 DEF Pairs
  <2>5. DataTypeOK'
    BY <1>3, <2>3, <2>4 DEF BlockStore, DataTypeOK, LeaseInv, TypeOK, database
  <2>6. s \in HandlerState BY <2>1 DEF HandlerState, PCs
  <2>7. Knows(s) /\ s.pc \notin OnUsedId BY <2>1 DEF Knows, HandlerState, OnUsedId
  <2>8. Moves(h) BY <1>3, <2>6, <2>7 DEF Moves, BlockStore
  <2> QED BY <1>1, <1>2, <2>3, <2>5, <2>8, LeaseStep DEF StoreInv
<1>4. CASE RevokeQueues(h)
  <2> DEFINE s == [handler[h] EXCEPT !.pc = "revokeGet"]
  <2>1. handler[h] \in HandlerState /\ Knows(handler[h])
    BY DEF LeaseInv, TypeOK, HandlerOK
  <2>2. queue' = [p \in Partitions |-> Without(queue[p], handler[h].at)]
    BY <1>4 DEF RevokeQueues
  <2>3. queue' \in [Partitions -> Seq(Users)] /\ QueueKeepsCohort'
    BY <2>2, WithoutType DEF LeaseInv, TypeOK, QueueKeepsCohort
  <2>4. DataTypeOK' BY <1>4, <2>3 DEF RevokeQueues, DataTypeOK, LeaseInv, TypeOK, database
  <2>5. s \in HandlerState BY <2>1 DEF HandlerState, PCs
  <2>6. Knows(s) /\ s.pc \notin OnUsedId
    BY <1>4, <2>1 DEF Knows, HandlerState, OnUsedId, RevokeQueues, At
  <2>7. Moves(h) BY <1>4, <2>5, <2>6 DEF Moves, RevokeQueues, Goto
  <2> QED BY <1>1, <1>2, <2>3, <2>4, <2>7, LeaseStep DEF StoreInv
<1> QED BY <1>3, <1>4

-----------------------------------------------------------------------------
(* The invariant. *)

LEMMA InitLeaseInv == Init => LeaseInv
<1> SUFFICES ASSUME Init PROVE LeaseInv OBVIOUS
<1>1. DataTypeOK BY DEF Init, DataTypeOK
<1>2. StoreInv
  BY IdsAssumption DEF Init, StoreInv, LiveIsUsed, NoDanglingLease,
     ConnectedWasAcknowledged, QueueKeepsCohort, CohortsNeverMix, Ids
<1>3. handler \in [Handlers -> HandlerState] /\ HandlerOK
  BY IdleKnows DEF Init, HandlerOK, OnUsedId
<1> QED BY <1>1, <1>2, <1>3, LeaseInvParts

LEMMA NextLeaseInv == LeaseInv /\ [Next]_vars => LeaseInv'
<1> SUFFICES ASSUME LeaseInv, [Next]_vars PROVE LeaseInv' OBVIOUS
<1>1. ASSUME NEW h \in Handlers, Arrival(h) PROVE LeaseInv'
  <2>1. ASSUME NEW u \in Users, NEW v \in Users, NEW mode \in Modes,
               JoinStart(h, u, mode) \/ ReconnectStart(h, u, v, mode)
        PROVE  LeaseInv'
    BY <2>1, PairingArrivals
  <2>2. ASSUME NEW u \in Users, NEW m \in MatchIds,
               \/ AckStart(h, u, m) \/ LeaveStart(h, u, m)
               \/ NextStart(h, u, m) \/ ReportStart(h, u, m)
        PROVE  LeaseInv'
    BY <2>2, MatchArrivals, ReportArrival
  <2>3. ASSUME NEW u \in Users, NEW v \in Users, CallStart(h, u, v) \/ BlockStart(h, u, v)
        PROVE  LeaseInv'
    BY <2>3, UserArrivals
  <2>4. ASSUME NEW c \in CallIds,
               (\E u \in Users : RenewStart(h, u, c)) \/ ReleaseStart(h, c)
        PROVE  LeaseInv'
    BY <2>4, CallArrivals
  <2>5. ASSUME NEW u \in Users, SanctionStart(h, u) PROVE LeaseInv'
    BY <2>5, SanctionArrival
  <2> QED BY <1>1, <2>1, <2>2, <2>3, <2>4, <2>5 DEF Arrival
<1>2. ASSUME NEW h \in Handlers, JoinStep(h) PROVE LeaseInv'
  BY <1>2, DenyWrites, GivesUp, JoinQueuedStep, JoinMatchedStep, Records DEF JoinStep
<1>3. ASSUME NEW h \in Handlers, MatchStep(h) PROVE LeaseInv'
  BY <1>3, AckStep, Records, Reads, CloseStep, EndNextStep, GivesUp, ReconnectMatchedStep
     DEF MatchStep
<1>4. ASSUME NEW h \in Handlers, CallStep(h) PROVE LeaseInv'
  BY <1>4, GivesUp, CallAcquiredStep, Reads, CallWrites DEF CallStep
<1>5. ASSUME NEW h \in Handlers, RemovalStep(h) PROVE LeaseInv'
  BY <1>5, RemovalReads, QueueRemovals, Drops, Records DEF RemovalStep
<1>6. ASSUME NEW h \in Handlers, Fail(h) PROVE LeaseInv'
  BY <1>6, GivesUp
<1>7. CASE Expiry
  BY <1>7, LeaseExpiries, DenyWrites DEF Expiry
<1>8. CASE Reversal
  BY <1>8, Reversals
<1>9. CASE UNCHANGED vars
  <2>1. DataTypeOK' /\ StoreInv' BY <1>9, DataTypeKept, StoreKept, LeaseInvParts DEF vars
  <2> QED BY <1>9, <2>1, LeaseStep DEF vars, store
<1> QED BY <1>1, <1>2, <1>3, <1>4, <1>5, <1>6, <1>7, <1>8, <1>9 DEF Next

(* Whatever interleaves, fails or expires, LeaseInv holds.  It is needed    *)
(* as a whole: the leases alone do not survive a late RenewExec or          *)
(* CloseExec unless handlers know whose ids they hold (HandlerOK).          *)
THEOREM LeaseInvariance == Spec => []LeaseInv
BY InitLeaseInv, NextLeaseInv, PTL DEF Spec

(* Every variable keeps its type in every reachable state. *)
THEOREM TypeCorrect == Spec => []TypeOK
BY LeaseInvariance, PTL DEF LeaseInv

(* Nobody is kept busy by a match or a call that is gone: the multi-key     *)
(* writes of realtime.ts take the leases along with the record, in every    *)
(* interleaving of stale closes, releases, renewals and expiries.           *)
THEOREM NoDanglingLeases == Spec => []NoDanglingLease
BY LeaseInvariance, PTL DEF LeaseInv

(* connectedAt is only ever set on a match both members acknowledged.       *)
THEOREM ConnectedAcknowledged == Spec => []ConnectedWasAcknowledged
BY LeaseInvariance, PTL DEF LeaseInv

(* No match spans two age cohorts, for any set of users and partitions.     *)
THEOREM CohortIsolation == Spec => []CohortsNeverMix
BY LeaseInvariance, PTL DEF LeaseInv

-----------------------------------------------------------------------------
(* A match key appears with a fresh uuid or not at all. *)
LEMMA LiveGrowsFresh ==
    ASSUME LeaseInv, [Next]_vars, NEW m \in MatchIds, m \notin live, ~Fresh(m)
    PROVE  m \notin live'
<1>1. ASSUME NEW h \in Handlers, Arrival(h) \/ RemovalStep(h) \/ Fail(h) PROVE live' = live
  BY <1>1 DEF Arrival, JoinStart, AckStart, LeaveStart, NextStart, ReportStart, ReconnectStart,
       CallStart, BlockStart, RenewStart, ReleaseStart, SanctionStart, Begin, RemovalStep,
       BlockLook, BlockStore, Clear, ClearPeer, Drop, BlockEnd, RevokeQueues, RevokeGet, RevokeDrop, Fail,
       store
<1>2. ASSUME NEW h \in Handlers, JoinStep(h) PROVE m \notin live'
  BY <1>2 DEF JoinStep, Scan, JoinBusy, JoinQueued, JoinMatched, Persist, Announce, store
<1>3. ASSUME NEW h \in Handlers, MatchStep(h) PROVE m \notin live'
  BY <1>3 DEF MatchStep, AckExec, MarkConnected, CloseRead, CloseExec, EndLeave, EndNext,
              ReconnectBusy, ReconnectMatched, store
<1>4. ASSUME NEW h \in Handlers, CallStep(h) PROVE m \notin live'
  <2>1. m \notin CallIds BY IdsAssumption
  <2>2. Knows(handler[h]) BY DEF LeaseInv, HandlerOK
  <2> QED BY <1>4, <2>1, <2>2 DEF CallStep, CallBusy, CallAcquired, RenewRead, RenewExec,
             ReleaseRead, ReleaseExec, store, At, Knows
<1>5. CASE Expiry
  BY <1>5 DEF Expiry, QueueLeaseExpires, EntryExpires, MatchExpires, CallExpires, DenyExpires
<1>6. CASE Reversal \/ UNCHANGED vars
  BY <1>6 DEF Reversal, Unblock, LiftSanction, vars, store
<1> QED BY <1>1, <1>2, <1>3, <1>4, <1>5, <1>6 DEF Next

(* A late match.ack never revives a match that was closed or ran out.       *)
THEOREM NoMatchRevived == Spec => ClosedMatchStaysClosed
<1>1. LeaseInv /\ [Next]_vars
         => [\A m \in MatchIds : m \notin live /\ ~Fresh(m) => m \notin live']_vars
  BY LiveGrowsFresh
<1> QED BY <1>1, LeaseInvariance, PTL DEF Spec, ClosedMatchStaysClosed
=============================================================================
