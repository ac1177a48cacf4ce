------------------------ MODULE DirectCalls_proofs ------------------------
(***************************************************************************)
(* Proofs about DirectCalls.  The table keeps the promise of CallLife      *)
(* because callAction decides on a state that nobody changes before it     *)
(* writes: a handler that is about to write holds the row, alone (RowHeld).*)
(***************************************************************************)
EXTENDS DirectCalls, TLAPS

OnCall == {"acquire", "arm", "check", "write", "authorize", "renewRead", "renewExec",
           "releaseRead", "releaseExec"}

(* What a handler has in hand at each of its awaits. *)
Knows(s) ==
    /\ s.pc \in OnCall => s.call \in Calls
    /\ s.pc \in {"unfriend", "look"} => s.user \in Users /\ s.peer \in Users
    /\ s.pc \in {"clear", "dropKey"} => s.clearing # None
    /\ s.clearing # None => s.user \in Users /\ s.peer \in Users
    /\ s.pc \in {"check", "write"} => s.action \in Actions

RowHeld ==
    /\ \A h \in Handlers : At(h, "write") => Allowed(handler[h].action, row[handler[h].call])
    /\ \A g, h \in Handlers :
          (At(g, "write") /\ At(h, "write") /\ handler[g].call = handler[h].call) => g = h

(* The inductive invariant. *)
CallInv ==
    /\ TypeOK
    /\ \A h \in Handlers : Knows(handler[h])
    /\ RowHeld

DataOK ==
    /\ friends \subseteq Pairs
    /\ blocks \subseteq Users \X Users
    /\ row \in [Calls -> Life!States]
    /\ party \in [Calls -> Pairs \cup {{}}]
    /\ lease \in [Calls -> {"none", "fresh", "aged"}]
    /\ active \in [Users -> Calls \cup {None}]
    /\ timer \in [Calls -> {"off", "armed", "read", "exec"}]
    /\ reported \subseteq Calls /\ swept \in BOOLEAN

HandlersOK == handler \in [Handlers -> HandlerState] /\ \A h \in Handlers : Knows(handler[h])

LEMMA CallInvParts == CallInv <=> DataOK /\ HandlersOK /\ RowHeld
BY DEF CallInv, TypeOK, DataOK, HandlersOK

LEMMA CallInvKept ==
    ASSUME DataOK', HandlersOK', RowHeld'
    PROVE  CallInv'
BY DEF CallInv, TypeOK, DataOK, HandlersOK

-----------------------------------------------------------------------------
(* Handlers: one moves, the others stay. *)
Moves(h) == \E s \in HandlerState : handler' = [handler EXCEPT ![h] = s] /\ Knows(s)

LEMMA HandlerMoves ==
    ASSUME HandlersOK, NEW h \in Handlers, Moves(h)
    PROVE  HandlersOK'
<1> PICK s \in HandlerState : handler' = [handler EXCEPT ![h] = s] /\ Knows(s)
  BY DEF Moves
<1>1. handler' \in [Handlers -> HandlerState] BY DEF HandlersOK
<1>2. ASSUME NEW g \in Handlers PROVE Knows(handler'[g])
  <2>1. CASE g = h BY <2>1 DEF HandlersOK
  <2>2. CASE g # h BY <2>2 DEF HandlersOK
  <2> QED BY <2>1, <2>2
<1> QED BY <1>1, <1>2 DEF HandlersOK

LEMMA IdleKnows == Idle \in HandlerState /\ Knows(Idle) /\ Idle.pc = "idle"
BY DEF Idle, HandlerState, PCs, Knows, OnCall

(* A step that lets nobody begin to write and leaves the held rows alone. *)
Spares ==
    \A g \in Handlers : handler'[g].pc = "write" =>
        handler'[g] = handler[g] /\ row'[handler[g].call] = row[handler[g].call]

LEMMA RowStaysHeld ==
    ASSUME RowHeld, Spares
    PROVE  RowHeld'
<1>1. ASSUME NEW h \in Handlers, At(h, "write")'
      PROVE  /\ handler'[h] = handler[h] /\ At(h, "write")
             /\ Allowed(handler[h].action, row[handler[h].call])'
  BY <1>1 DEF Spares, RowHeld, At, Allowed
<1> QED BY <1>1 DEF RowHeld, At

LEMMA GotoMoves ==
    ASSUME HandlersOK, NEW h \in Handlers, NEW pc \in PCs \ {"write"}, Goto(h, pc),
           Knows([handler[h] EXCEPT !.pc = pc])
    PROVE  Moves(h) /\ \A g \in Handlers : handler'[g].pc = "write" => handler'[g] = handler[g]
<1>1. handler[h] \in HandlerState BY DEF HandlersOK
<1>2. [handler[h] EXCEPT !.pc = pc] \in HandlerState BY <1>1 DEF HandlerState
<1>3. handler' = [handler EXCEPT ![h] = [handler[h] EXCEPT !.pc = pc]]
  BY DEF Goto, HandlersOK
<1>4. handler'[h].pc = pc BY <1>1, <1>3 DEF HandlersOK, HandlerState
<1> QED BY <1>2, <1>3, <1>4 DEF Moves, HandlersOK

LEMMA FinishMoves ==
    ASSUME HandlersOK, NEW h \in Handlers, Finish(h)
    PROVE  Moves(h) /\ \A g \in Handlers : handler'[g].pc = "write" => handler'[g] = handler[g]
BY IdleKnows DEF Finish, Moves, HandlersOK
-----------------------------------------------------------------------------
(* The three keys of a call. *)
LEMMA LeaseTyped ==
    ASSUME DataOK, NEW c \in Calls, Hold(c) \/ Release(c)
    PROVE  /\ lease' \in [Calls -> {"none", "fresh", "aged"}]
           /\ active' \in [Users -> Calls \cup {None}]
BY DEF DataOK, Hold, Release

LEMMA ReleaseGoesOn ==
    ASSUME HandlersOK, NEW h \in Handlers, At(h, "releaseRead") \/ At(h, "releaseExec")
                                          \/ At(h, "dropKey"), AfterRelease(h)
    PROVE  Moves(h) /\ \A g \in Handlers : handler'[g].pc = "write" => handler'[g] = handler[g]
<1> DEFINE me == handler[h]
<1>0. me \in HandlerState /\ Knows(me) BY DEF HandlersOK
<1>1. CASE me.clearing = None
  <2>1. Finish(h) BY <1>1 DEF AfterRelease
  <2> QED BY <2>1, FinishMoves
<1>2. CASE me.clearing # None /\ me.clearing = me.user
  <2> DEFINE s == [me EXCEPT !.pc = "clear", !.clearing = me.peer]
  <2>1. me.user \in Users /\ me.peer \in Users BY <1>0, <1>2 DEF Knows
  <2>2. s \in HandlerState /\ s.pc = "clear" BY <1>0, <2>1 DEF HandlerState, PCs
  <2>3. me.peer # None BY <2>1, CallsAssumption
  <2>4. Knows(s) BY <1>0, <2>1, <2>3 DEF Knows, HandlerState, OnCall
  <2>5. handler' = [handler EXCEPT ![h] = s] BY <1>2 DEF AfterRelease, HandlersOK
  <2> HIDE DEF s
  <2> QED BY <2>2, <2>4, <2>5 DEF Moves, HandlersOK
<1>3. CASE me.clearing # None /\ me.clearing # me.user
  <2>1. Goto(h, "terminate") BY <1>3 DEF AfterRelease
  <2>2. Knows([me EXCEPT !.pc = "terminate"]) BY <1>0 DEF Knows, HandlerState, OnCall
  <2> QED BY <2>1, <2>2, GotoMoves DEF PCs
<1> QED BY <1>1, <1>2, <1>3

-----------------------------------------------------------------------------
(* Nobody moves, and what changes in the table was not held. *)
LEMMA StandKeeps ==
    ASSUME CallInv, DataOK', UNCHANGED handler,
           \A c \in Calls : Locked(c) => row'[c] = row[c]
    PROVE  CallInv'
<1>1. HandlersOK' BY CallInvParts DEF HandlersOK, Knows
<1>2. ASSUME NEW g \in Handlers, handler'[g].pc = "write"
      PROVE  row'[handler[g].call] = row[handler[g].call]
  <2>1. At(g, "write") /\ handler[g].call \in Calls
    BY <1>2, CallInvParts DEF HandlersOK, Knows, OnCall, At
  <2> QED BY <2>1 DEF Locked
<1>3. Spares BY <1>2 DEF Spares
<1> QED BY <1>1, <1>3, CallInvParts, RowStaysHeld, CallInvKept

(* The steps of a request. *)
LEMMA ArrivalKeeps ==
    ASSUME CallInv, NEW h \in Handlers, Arrival(h)
    PROVE  CallInv'
<1> USE CallInvParts
<1>0. handler[h] \in HandlerState /\ At(h, "idle") => ~At(h, "write")
  BY DEF CallInv, TypeOK, At
<1>1. ASSUME NEW u \in Users, NEW v \in Users, NEW c \in Calls, Invite(h, u, v, c)
      PROVE  CallInv'
  <2> DEFINE s == [Idle EXCEPT !.pc = "acquire", !.call = c]
  <2>1. s \in HandlerState /\ Knows(s) /\ s.pc = "acquire"
    BY DEF Idle, HandlerState, PCs, Knows, OnCall
  <2>2. handler' = [handler EXCEPT ![h] = s] BY <1>1 DEF Invite
  <2> HIDE DEF s
  <2>3. HandlersOK' BY <2>1, <2>2, HandlerMoves DEF Moves
  <2>4. DataOK' BY <1>1 DEF Invite, DataOK, world, redis, Pairs, Life!States
  <2>5. ASSUME NEW g \in Handlers, handler'[g].pc = "write"
        PROVE  handler'[g] = handler[g] /\ row'[handler[g].call] = row[handler[g].call]
    <3>1. g # h BY <2>1, <2>2, <2>5 DEF HandlersOK
    <3>2. handler'[g] = handler[g] BY <2>2, <3>1 DEF HandlersOK
    <3>3. Allowed(handler[g].action, row[handler[g].call])
      BY <2>5, <3>2 DEF RowHeld, At
    <3>4. handler[g].call # c BY <3>3, <1>1 DEF Allowed, Invite
    <3> QED BY <3>2, <3>4, <1>1 DEF Invite, DataOK
  <2>6. RowHeld' BY <2>5, RowStaysHeld DEF Spares
  <2> QED BY <2>3, <2>4, <2>6, CallInvKept
<1>2. ASSUME NEW u \in Users, NEW c \in Calls, NEW action \in Actions, ActStart(h, u, c, action)
      PROVE  CallInv'
  <2> DEFINE s == [Idle EXCEPT !.pc = "check", !.call = c, !.action = action]
  <2>1. s \in HandlerState /\ Knows(s) /\ s.pc = "check"
    BY DEF Idle, HandlerState, PCs, Knows, OnCall
  <2>2. handler' = [handler EXCEPT ![h] = s] BY <1>2 DEF ActStart
  <2> HIDE DEF s
  <2>3. HandlersOK' BY <2>1, <2>2, HandlerMoves DEF Moves
  <2>4. DataOK' BY <1>2 DEF ActStart, DataOK, world, redis, database
  <2>5. Spares BY <2>1, <2>2, <1>2 DEF Spares, ActStart, database, HandlersOK
  <2> QED BY <2>3, <2>4, <2>5, RowStaysHeld, CallInvKept
<1>3. ASSUME NEW u \in Users, NEW c \in Calls, SignalStart(h, u, c)
      PROVE  CallInv'
  <2> DEFINE s == [Idle EXCEPT !.pc = "authorize", !.call = c]
  <2>1. s \in HandlerState /\ Knows(s) /\ s.pc = "authorize"
    BY DEF Idle, HandlerState, PCs, Knows, OnCall
  <2>2. handler' = [handler EXCEPT ![h] = s] BY <1>3 DEF SignalStart
  <2> HIDE DEF s
  <2>3. HandlersOK' BY <2>1, <2>2, HandlerMoves DEF Moves
  <2>4. DataOK' BY <1>3 DEF SignalStart, DataOK, world, redis, database
  <2>5. Spares BY <2>1, <2>2, <1>3 DEF Spares, SignalStart, database, HandlersOK
  <2> QED BY <2>3, <2>4, <2>5, RowStaysHeld, CallInvKept
<1>4. ASSUME NEW u \in Users, NEW c \in Calls, Report(h, u, c)
      PROVE  CallInv'
  <2> DEFINE s == [Idle EXCEPT !.pc = "releaseRead", !.call = c]
  <2>1. s \in HandlerState /\ Knows(s) /\ s.pc = "releaseRead"
    BY DEF Idle, HandlerState, PCs, Knows, OnCall
  <2>2. DataOK' BY <1>4 DEF Report, DataOK, redis, Life!States, Life!Over
  <2>3. CASE UNCHANGED <<row, handler>> BY <2>2, <2>3, StandKeeps
  <2>4. CASE ~UNCHANGED <<row, handler>>
    <3>1. row' = [row EXCEPT ![c] = "ended"] /\ handler' = [handler EXCEPT ![h] = s]
      BY <1>4, <2>4 DEF Report
    <3> HIDE DEF s
    <3>2. HandlersOK' BY <2>1, <3>1, HandlerMoves DEF Moves
    <3>3. Spares BY <2>1, <3>1, <1>4 DEF Spares, Report, HandlersOK, DataOK, Locked, At
    <3> QED BY <2>2, <3>2, <3>3, RowStaysHeld, CallInvKept
  <2> QED BY <2>3, <2>4
<1>5. ASSUME NEW u \in Users, NEW v \in Users, BlockStart(h, u, v)
      PROVE  CallInv'
  <2> DEFINE s == [Idle EXCEPT !.pc = "unfriend", !.user = u, !.peer = v]
  <2>1. s \in HandlerState /\ Knows(s) /\ s.pc = "unfriend"
    BY DEF Idle, HandlerState, PCs, Knows, OnCall
  <2>2. handler' = [handler EXCEPT ![h] = s] BY <1>5 DEF BlockStart
  <2> HIDE DEF s
  <2>3. HandlersOK' BY <2>1, <2>2, HandlerMoves DEF Moves
  <2>4. DataOK' BY <1>5 DEF BlockStart, DataOK, world, redis
  <2>5. Spares BY <2>1, <2>2, <1>5 DEF Spares, BlockStart, HandlersOK
  <2> QED BY <2>3, <2>4, <2>5, RowStaysHeld, CallInvKept
<1> QED BY <1>1, <1>2, <1>3, <1>4, <1>5 DEF Arrival
-----------------------------------------------------------------------------
LEMMA StepKeeps ==
    ASSUME CallInv, NEW h \in Handlers, Step(h)
    PROVE  CallInv'
<1> DEFINE me == handler[h]
<1> USE CallInvParts
<1>0. me \in HandlerState /\ Knows(me) BY DEF HandlersOK
<1>acq. CASE Acquire(h)
  <2>1. me.call \in Calls BY <1>0, <1>acq DEF Knows, OnCall, Acquire, At
  <2>2. Goto(h, "arm") /\ Knows([me EXCEPT !.pc = "arm"])
    BY <1>0, <1>acq, <2>1 DEF Acquire, At, Knows, OnCall, HandlerState
  <2>3. HandlersOK' /\ Spares
    BY <1>acq, <2>2, GotoMoves, HandlerMoves DEF PCs, Spares, Acquire, database
  <2>4. DataOK' BY <1>acq, <2>1, LeaseTyped DEF Acquire, DataOK, world, database
  <2> QED BY <2>3, <2>4, RowStaysHeld, CallInvKept
<1>busy. CASE AcquireBusy(h)
  <2> DEFINE s == [me EXCEPT !.pc = "check", !.action = "cancel", !.lapse = TRUE]
  <2>1. s \in HandlerState /\ s.pc = "check" BY <1>0 DEF HandlerState, PCs, Actions
  <2>2. Knows(s) BY <1>0, <1>busy DEF Knows, OnCall, AcquireBusy, At, HandlerState, Actions
  <2>3. handler' = [handler EXCEPT ![h] = s] BY <1>busy DEF AcquireBusy, HandlersOK
  <2> HIDE DEF s
  <2>4. HandlersOK' BY <2>1, <2>2, <2>3, HandlerMoves DEF Moves
  <2>5. Spares BY <2>1, <2>3, <1>busy DEF Spares, AcquireBusy, database, HandlersOK
  <2>6. DataOK' BY <1>busy DEF AcquireBusy, DataOK, world, database, redis
  <2> QED BY <2>4, <2>5, <2>6, RowStaysHeld, CallInvKept
<1>arm. CASE Arm(h)
  <2>1. HandlersOK' /\ Spares
    BY <1>arm, FinishMoves, HandlerMoves DEF Spares, Arm, database
  <2>2. DataOK' BY <1>arm DEF Arm, DataOK, world, database, redis
  <2> QED BY <2>1, <2>2, RowStaysHeld, CallInvKept
<1>chk. CASE ActCheck(h)
  <2>0. DataOK' /\ UNCHANGED <<row, party>>
    BY <1>chk DEF ActCheck, DataOK, world, database, redis
  <2>1. CASE Finish(h)
    <3>1. HandlersOK' /\ Spares BY <2>0, <2>1, FinishMoves, HandlerMoves DEF Spares
    <3> QED BY <2>0, <3>1, RowStaysHeld, CallInvKept
  <2>2. CASE Goto(h, "write") /\ Allowed(me.action, row[me.call])
    <3> DEFINE s == [me EXCEPT !.pc = "write"]
    <3>1. s \in HandlerState /\ s.call = me.call /\ s.action = me.action
      BY <1>0 DEF HandlerState, PCs
    <3>2. Knows(s)
      BY <1>0, <1>chk DEF Knows, OnCall, ActCheck, At, HandlerState
    <3>3. handler' = [handler EXCEPT ![h] = s] BY <2>2 DEF Goto, HandlersOK
    <3>4. HandlersOK' BY <3>1, <3>2, <3>3, HandlerMoves DEF Moves
    <3>5. \A g \in Handlers : g # h => handler'[g] = handler[g]
      BY <3>3 DEF HandlersOK
    <3>6. handler'[h].call = me.call /\ handler'[h].action = me.action
      BY <3>1, <3>3 DEF HandlersOK
    <3>7. \A g \in Handlers : At(g, "write") => handler[g].call # me.call
      BY <1>chk DEF ActCheck, Locked
    <3>8. ASSUME NEW g \in Handlers, At(g, "write")'
          PROVE  Allowed(handler'[g].action, row'[handler'[g].call])
      <4>1. CASE g = h BY <2>0, <2>2, <3>6, <4>1
      <4>2. CASE g # h BY <2>0, <3>5, <3>8, <4>2 DEF RowHeld, At
      <4> QED BY <4>1, <4>2
    <3>9. ASSUME NEW g \in Handlers, NEW k \in Handlers, At(g, "write")', At(k, "write")',
                 handler'[g].call = handler'[k].call
          PROVE  g = k
      BY <3>5, <3>6, <3>7, <3>9 DEF RowHeld, At
    <3>10. RowHeld' BY <3>8, <3>9 DEF RowHeld, At, Allowed
    <3> QED BY <2>0, <3>4, <3>10, CallInvKept
  <2> QED BY <1>chk, <2>1, <2>2 DEF ActCheck
<1>wr. CASE ActWrite(h)
  <2>1. me.call \in Calls /\ me.action \in Actions
    BY <1>0, <1>wr DEF Knows, OnCall, ActWrite, At
  <2>2. Outcome(me.action) \in Life!States
    BY <2>1 DEF Actions, Outcome, Life!States, Life!Over
  <2>3. DataOK' BY <1>wr, <2>1, <2>2 DEF ActWrite, DataOK, world, redis
  <2>4. \A g \in Handlers : (At(g, "write") /\ g # h) => handler[g].call # me.call
    BY <1>wr DEF ActWrite, RowHeld
  <2>5. Knows([me EXCEPT !.pc = "renewRead"]) /\ Knows([me EXCEPT !.pc = "releaseRead"])
    BY <1>0, <2>1 DEF Knows, OnCall, HandlerState
  <2>6. Finish(h) \/ Goto(h, "renewRead") \/ Goto(h, "releaseRead")
    BY <1>wr DEF ActWrite
  <2>7. Moves(h) /\ \A g \in Handlers : handler'[g].pc = "write" => handler'[g] = handler[g]
    BY <2>5, <2>6, FinishMoves, GotoMoves DEF PCs
  <2>8. handler'[h].pc # "write"
    BY <2>6, IdleKnows DEF Finish, Goto, HandlersOK, HandlerState
  <2>9. ASSUME NEW g \in Handlers, handler'[g].pc = "write"
        PROVE  row'[handler[g].call] = row[handler[g].call]
    <3>1. At(g, "write") /\ g # h BY <2>7, <2>8, <2>9 DEF At
    <3>2. handler[g].call # me.call BY <2>4, <3>1
    <3> QED BY <1>wr, <3>2 DEF ActWrite, DataOK
  <2> QED BY <2>3, <2>7, <2>9, HandlerMoves, RowStaysHeld, CallInvKept DEF Spares
<1>au. CASE Authorize(h)
  <2>1. DataOK' /\ UNCHANGED row BY <1>au DEF Authorize, DataOK, world, database, redis
  <2>2. Knows([me EXCEPT !.pc = "renewRead"])
    BY <1>0, <1>au DEF Knows, OnCall, HandlerState, Authorize, At
  <2>3. HandlersOK' /\ Spares
    BY <1>au, <2>1, <2>2, FinishMoves, GotoMoves, HandlerMoves DEF PCs, Spares, Authorize
  <2> QED BY <2>1, <2>3, RowStaysHeld, CallInvKept
<1>rr. CASE RenewRead(h)
  <2>1. DataOK' /\ UNCHANGED row BY <1>rr DEF RenewRead, DataOK, world, database, redis
  <2>2. Knows([me EXCEPT !.pc = "renewExec"])
    BY <1>0, <1>rr DEF Knows, OnCall, HandlerState, RenewRead, At
  <2>3. HandlersOK' /\ Spares
    BY <1>rr, <2>1, <2>2, FinishMoves, GotoMoves, HandlerMoves DEF PCs, Spares, RenewRead
  <2> QED BY <2>1, <2>3, RowStaysHeld, CallInvKept
<1>re. CASE RenewExec(h)
  <2>1. me.call \in Calls BY <1>0, <1>re DEF Knows, OnCall, RenewExec, At
  <2>2. DataOK' BY <1>re, <2>1, LeaseTyped DEF RenewExec, DataOK, world, database
  <2>3. HandlersOK' /\ Spares
    BY <1>re, FinishMoves, HandlerMoves DEF Spares, RenewExec, database
  <2> QED BY <2>2, <2>3, RowStaysHeld, CallInvKept
<1>lr. CASE ReleaseRead(h)
  <2>1. DataOK' /\ UNCHANGED row BY <1>lr DEF ReleaseRead, DataOK, world, database, redis
  <2>2. Knows([me EXCEPT !.pc = "releaseExec"])
    BY <1>0, <1>lr DEF Knows, OnCall, HandlerState, ReleaseRead, At
  <2>3. CASE Goto(h, "releaseExec")
    <3>1. HandlersOK' /\ Spares
      BY <2>1, <2>2, <2>3, GotoMoves, HandlerMoves DEF PCs, Spares
    <3> QED BY <2>1, <3>1, RowStaysHeld, CallInvKept
  <2>4. CASE AfterRelease(h)
    <3>1. HandlersOK' /\ Spares
      BY <1>lr, <2>1, <2>4, ReleaseGoesOn, HandlerMoves DEF Spares, ReleaseRead
    <3> QED BY <2>1, <3>1, RowStaysHeld, CallInvKept
  <2> QED BY <1>lr, <2>3, <2>4 DEF ReleaseRead
<1>le. CASE ReleaseExec(h)
  <2>1. me.call \in Calls BY <1>0, <1>le DEF Knows, OnCall, ReleaseExec, At
  <2>2. DataOK' BY <1>le, <2>1, LeaseTyped DEF ReleaseExec, DataOK, world, database
  <2>3. HandlersOK' /\ Spares
    BY <1>le, ReleaseGoesOn, HandlerMoves DEF Spares, ReleaseExec, database
  <2> QED BY <2>2, <2>3, RowStaysHeld, CallInvKept
<1>uf. CASE BlockUnfriend(h)
  <2>1. DataOK' /\ UNCHANGED row BY <1>uf DEF BlockUnfriend, DataOK, world, redis
  <2>2. Knows([me EXCEPT !.pc = "look"])
    BY <1>0, <1>uf DEF Knows, OnCall, HandlerState, BlockUnfriend, At
  <2>3. HandlersOK' /\ Spares
    BY <1>uf, <2>1, <2>2, GotoMoves, HandlerMoves DEF PCs, Spares, BlockUnfriend
  <2> QED BY <2>1, <2>3, RowStaysHeld, CallInvKept
<1>lk. CASE BlockLook(h)
  <2> DEFINE c == active[me.user]
             seen == IF c # None /\ me.peer \in party[c] THEN c ELSE None
             s == [me EXCEPT !.pc = "clear", !.clearing = me.user, !.seen = seen]
  <2>1. DataOK' /\ UNCHANGED row BY <1>lk DEF BlockLook, DataOK, world, database, redis
  <2>2. me.user \in Users /\ me.peer \in Users
    BY <1>0, <1>lk DEF Knows, BlockLook, At
  <2>3. seen \in Calls \cup {None} BY <2>2 DEF DataOK
  <2>4. handler' = [handler EXCEPT ![h] = s] BY <1>lk DEF BlockLook, HandlersOK
  <2> HIDE DEF seen
  <2>5. s \in HandlerState /\ s.pc = "clear" BY <1>0, <2>2, <2>3 DEF HandlerState, PCs
  <2>6. Knows(s) BY <1>0, <2>2, CallsAssumption DEF Knows, OnCall, HandlerState
  <2> HIDE DEF s
  <2>7. HandlersOK' BY <2>4, <2>5, <2>6, HandlerMoves DEF Moves
  <2>8. Spares BY <2>1, <2>4, <2>5 DEF Spares, HandlersOK
  <2> QED BY <2>1, <2>7, <2>8, RowStaysHeld, CallInvKept
<1>cl. CASE BlockClear(h)
  <2> DEFINE c == active[me.clearing]
             s == [me EXCEPT !.pc = IF c = None THEN "dropKey" ELSE "releaseRead", !.call = c]
  <2>1. DataOK' /\ UNCHANGED row BY <1>cl DEF BlockClear, DataOK, world, database, redis
  <2>2. me.clearing # None /\ me.clearing \in Users
    BY <1>0, <1>cl DEF Knows, BlockClear, At, HandlerState
  <2>3. c \in Calls \cup {None} BY <2>2 DEF DataOK
  <2>4. handler' = [handler EXCEPT ![h] = s] BY <1>cl DEF BlockClear, HandlersOK
  <2> HIDE DEF c
  <2>5. s \in HandlerState /\ s.pc \in {"dropKey", "releaseRead"}
    BY <1>0, <2>3 DEF HandlerState, PCs
  <2>6. Knows(s) BY <1>0, <2>2, <2>3 DEF Knows, OnCall, HandlerState
  <2> HIDE DEF s
  <2>7. HandlersOK' BY <2>4, <2>5, <2>6, HandlerMoves DEF Moves
  <2>8. Spares BY <2>1, <2>4, <2>5 DEF Spares, HandlersOK
  <2> QED BY <2>1, <2>7, <2>8, RowStaysHeld, CallInvKept
<1>dk. CASE BlockDropKey(h)
  <2>1. DataOK' /\ UNCHANGED row BY <1>dk DEF BlockDropKey, DataOK, world, database
  <2>2. HandlersOK' /\ Spares
    BY <1>dk, <2>1, ReleaseGoesOn, HandlerMoves DEF Spares, BlockDropKey
  <2> QED BY <2>1, <2>2, RowStaysHeld, CallInvKept
<1>te. CASE BlockTerminate(h)
  <2>1. DataOK' BY <1>te DEF BlockTerminate, DataOK, world, redis, Life!States, Life!Over
  <2>2. HandlersOK' BY <1>te, FinishMoves, HandlerMoves DEF BlockTerminate
  <2>3. ASSUME NEW g \in Handlers, handler'[g].pc = "write"
        PROVE  handler'[g] = handler[g] /\ row'[handler[g].call] = row[handler[g].call]
    <3>1. handler'[g] = handler[g] BY <1>te, <2>3, FinishMoves DEF BlockTerminate
    <3>2. Locked(handler[g].call) BY <2>3, <3>1 DEF Locked, At
    <3>3. CASE me.seen = handler[g].call
      BY <1>te, <3>1, <3>2, <3>3 DEF BlockTerminate
    <3>4. CASE me.seen # handler[g].call
      <4>1. handler[g].call \in Calls BY <2>3, <3>1 DEF HandlersOK, Knows, OnCall
      <4> QED BY <1>te, <3>1, <3>4, <4>1 DEF BlockTerminate, DataOK
    <3> QED BY <3>1, <3>3, <3>4
  <2> QED BY <2>1, <2>2, <2>3, RowStaysHeld, CallInvKept DEF Spares
<1> QED BY <1>acq, <1>busy, <1>arm, <1>chk, <1>wr, <1>au, <1>rr, <1>re, <1>lr, <1>le,
           <1>uf, <1>lk, <1>cl, <1>dk, <1>te DEF Step

-----------------------------------------------------------------------------
(* What the timers, the worker, the TTLs and failures do. *)
LEMMA FailKeeps ==
    ASSUME CallInv, NEW h \in Handlers, Fail(h)
    PROVE  CallInv'
<1>1. HandlersOK' /\ Spares
  BY CallInvParts, FinishMoves, HandlerMoves DEF Fail, Spares, database
<1>2. DataOK' BY CallInvParts DEF Fail, DataOK, world, database, redis
<1> QED BY CallInvParts, <1>1, <1>2, RowStaysHeld, CallInvKept

LEMMA BackgroundKeeps ==
    ASSUME CallInv, Background
    PROVE  CallInv'
<1> USE CallInvParts
<1>1. ASSUME NEW c \in Calls,
             \/ TimerFires(c) \/ TimerFails(c) \/ TimerReads(c) \/ TimerReleases(c)
             \/ LeaseAges(c) \/ LeaseExpires(c)
      PROVE  CallInv'
  <2>1. CASE TimerFires(c)
    <3>1. DataOK' BY <2>1 DEF TimerFires, DataOK, world, redis, Life!States, Life!Over
    <3> QED BY <2>1, <3>1, StandKeeps DEF TimerFires, DataOK
  <2>2. CASE TimerReads(c)
    <3>1. DataOK' BY <2>2 DEF TimerReads, DataOK, world, database, redis
    <3> QED BY <2>2, <3>1, StandKeeps DEF TimerReads, database
  <2>3. CASE TimerReleases(c)
    <3>1. DataOK' BY <2>3, LeaseTyped DEF TimerReleases, DataOK, world, database
    <3> QED BY <2>3, <3>1, StandKeeps DEF TimerReleases, database
  <2>4. CASE LeaseAges(c)
    <3>1. DataOK' BY <2>4 DEF LeaseAges, DataOK, world, database
    <3> QED BY <2>4, <3>1, StandKeeps DEF LeaseAges, database
  <2>5. CASE LeaseExpires(c)
    <3>1. DataOK' BY <2>5 DEF LeaseExpires, DataOK, world, database
    <3> QED BY <2>5, <3>1, StandKeeps DEF LeaseExpires, database
  <2>6. CASE TimerFails(c)
    <3>1. DataOK' BY <2>6 DEF TimerFails, DataOK, world, database, redis
    <3> QED BY <2>6, <3>1, StandKeeps DEF TimerFails, database
  <2> QED BY <1>1, <2>1, <2>2, <2>3, <2>4, <2>5, <2>6
<1>2. ASSUME NEW S \in SUBSET Calls, ExpireUnanswered(S)
      PROVE  CallInv'
  <2>1. DataOK' BY <1>2 DEF ExpireUnanswered, DataOK, world, redis, Life!States, Life!Over
  <2> QED BY <1>2, <2>1, StandKeeps DEF ExpireUnanswered, Unanswered, DataOK
<1>3. ASSUME NEW S \in SUBSET Calls, CleanupCalls(S)
      PROVE  CallInv'
  <2>1. DataOK' BY <1>3 DEF CleanupCalls, DataOK, world, redis, Life!States
  <2> QED BY <1>3, <2>1, StandKeeps DEF CleanupCalls, Settled, Locked, DataOK
<1>4. ASSUME NEW u \in Users, NEW v \in Users, Unblock(u, v)
      PROVE  CallInv'
  <2>1. DataOK' BY <1>4 DEF Unblock, DataOK, world, redis
  <2> QED BY <1>4, <2>1, StandKeeps DEF Unblock
<1>5. ASSUME NEW d \in Pairs, Unfriend(d)
      PROVE  CallInv'
  <2>1. DataOK' BY <1>5 DEF Unfriend, DataOK, world, redis
  <2> QED BY <1>5, <2>1, StandKeeps DEF Unfriend
<1>6. CASE SweepChanges
  <2>1. DataOK' BY <1>6 DEF SweepChanges, DataOK, database, redis
  <2> QED BY <1>6, <2>1, StandKeeps DEF SweepChanges, database
<1> QED BY <1>1, <1>2, <1>3, <1>4, <1>5, <1>6 DEF Background

-----------------------------------------------------------------------------
(* CallInv holds of the initial state and after every step. *)
THEOREM CallInvariance == Spec => []CallInv
<1>1. Init => CallInv
  <2> SUFFICES ASSUME Init PROVE CallInv OBVIOUS
  <2>1. DataOK
    BY DEF Init, DataOK, Life!States, Pairs
  <2>2. HandlersOK BY IdleKnows DEF Init, HandlersOK
  <2>3. RowHeld BY IdleKnows DEF Init, RowHeld, At
  <2> QED BY <2>1, <2>2, <2>3, CallInvParts
<1>2. CallInv /\ [Next]_vars => CallInv'
  <2> SUFFICES ASSUME CallInv, [Next]_vars PROVE CallInv' OBVIOUS
  <2>1. ASSUME NEW h \in Handlers, Arrival(h) \/ Step(h) \/ Fail(h) PROVE CallInv'
    BY <2>1, ArrivalKeeps, StepKeeps, FailKeeps
  <2>2. CASE Background BY <2>2, BackgroundKeeps
  <2>3. CASE UNCHANGED vars
    <3>1. DataOK' BY <2>3, CallInvParts DEF vars, DataOK, world, database, redis
    <3> QED BY <2>3, <3>1, StandKeeps DEF vars, database
  <2> QED BY <2>1, <2>2, <2>3 DEF Next
<1> QED BY <1>1, <1>2, PTL DEF Spec

(* Every variable keeps its type, whatever the users, calls and handlers. *)
THEOREM CallsTypeOK == Spec => []TypeOK
<1>1. CallInv => TypeOK BY DEF CallInv
<1> QED BY <1>1, CallInvariance, PTL

-----------------------------------------------------------------------------
(* A step of a call's life, read off the states before and after. *)
Lives == \A c \in Calls : row'[c] = row[c] \/ Life!Follows(row[c], row'[c])

LEMMA StepLives ==
    ASSUME CallInv, [Next]_vars
    PROVE  Lives
<1> USE CallInvParts
<1>t. row \in [Calls -> Life!States] BY DEF DataOK
<1>n. CASE UNCHANGED row BY <1>n DEF Lives
<1>e. ASSUME NEW c \in Calls, row[c] \notin {"absent", "purged"},
             row' = [row EXCEPT ![c] = "ended"]
      PROVE  Lives
  BY <1>t, <1>e DEF Lives, Life!Follows, Life!States, Life!Over
<1>1. ASSUME NEW h \in Handlers, Arrival(h) PROVE Lives
  <2>1. ASSUME NEW u \in Users, NEW v \in Users, NEW c \in Calls, Invite(h, u, v, c)
        PROVE  Lives
    BY <1>t, <2>1 DEF Invite, Lives, Life!Follows
  <2>2. ASSUME NEW u \in Users, NEW c \in Calls, Report(h, u, c)
        PROVE  Lives
    <3>1. CASE UNCHANGED row BY <1>n, <3>1
    <3>2. CASE ~UNCHANGED row BY <1>e, <2>2, <3>2 DEF Report
    <3> QED BY <3>1, <3>2
  <2> QED BY <1>1, <1>n, <2>1, <2>2 DEF Arrival, ActStart, SignalStart, BlockStart, database
<1>2. ASSUME NEW h \in Handlers, Step(h) \/ Fail(h) PROVE Lives
  <2>1. CASE ActWrite(h)
    <3> DEFINE c == handler[h].call
               a == handler[h].action
    <3>1. c \in Calls /\ a \in Actions /\ Allowed(a, row[c])
      BY <2>1 DEF ActWrite, HandlersOK, Knows, OnCall, RowHeld, At
    <3>2. row' = [row EXCEPT ![c] = Outcome(a)] BY <2>1 DEF ActWrite
    <3>3. Outcome(a) = row[c] \/ Life!Follows(row[c], Outcome(a))
      BY <1>t, <3>1 DEF Outcome, Allowed, Actions, Life!Follows, Life!States, Life!Over
    <3> HIDE DEF c, a
    <3> QED BY <1>t, <3>1, <3>2, <3>3 DEF Lives
  <2>2. CASE BlockTerminate(h)
    <3>1. CASE UNCHANGED row BY <1>n, <3>1
    <3>2. CASE ~UNCHANGED row
      BY <1>e, <1>t, <2>2, <3>2 DEF BlockTerminate, HandlersOK, HandlerState
    <3> QED BY <3>1, <3>2
  <2> QED BY <1>2, <1>n, <2>1, <2>2
      DEF Step, Fail, Acquire, AcquireBusy, Arm, ActCheck, Authorize, RenewRead, RenewExec,
          ReleaseRead, ReleaseExec, BlockUnfriend, BlockLook, BlockClear, BlockDropKey, database
<1>3. CASE Background
  <2>1. ASSUME NEW c \in Calls, TimerFires(c) PROVE Lives
    BY <1>t, <2>1 DEF TimerFires, Lives, Life!Follows, Life!Over
  <2>2. ASSUME NEW S \in SUBSET Calls, ExpireUnanswered(S) PROVE Lives
    BY <2>2 DEF ExpireUnanswered, Unanswered, Lives, Life!Follows, Life!Over
  <2>3. ASSUME NEW S \in SUBSET Calls, CleanupCalls(S) PROVE Lives
    BY <1>t, <2>3 DEF CleanupCalls, Settled, Lives, Life!Follows, Life!States, Life!Over
  <2> QED BY <1>3, <1>n, <2>1, <2>2, <2>3
      DEF Background, TimerFails, TimerReads, TimerReleases, LeaseAges, LeaseExpires, Unblock, Unfriend,
          SweepChanges, database
<1>4. CASE UNCHANGED vars BY <1>4, <1>n DEF vars, database
<1> QED BY <1>1, <1>2, <1>3, <1>4 DEF Next

(* The direct calls implement module CallLife: a call is answered at most   *)
(* once and stays over, for any number of users, calls and handlers.        *)
THEOREM CallsKeepTheirLife == Spec => LifeSpec
<1>1. Init => Life!Init BY DEF Init, Life!Init
<1>2. CallInv /\ CallInv' /\ [Next]_vars => [Life!Next]_row
  <2> SUFFICES ASSUME CallInv, CallInv', [Next]_vars PROVE Life!Next
    OBVIOUS
  <2>1. row' \in [Calls -> Life!States] BY DEF CallInv, TypeOK
  <2> QED BY <2>1, StepLives DEF Lives, Life!Next
<1> QED BY <1>1, <1>2, CallInvariance, PTL DEF Spec, LifeSpec, Life!Spec
===========================================================================
