------------------------ MODULE MatchScripts_proofs ------------------------
(***************************************************************************)
(* What the requests of app.ts and the Lua scripts of realtime.ts achieve  *)
(* for any number of users, ids and handlers when something that breaks    *)
(* them is left out.  When every request reaches the leases through one    *)
(* script (join, ack, reconnect, call), or when one handler is served at a *)
(* time, the store keeps the promise of module Pairing, and one handler at *)
(* a time never pairs two users with a block between them.                 *)
(***************************************************************************)
EXTENDS MatchLeases_proofs

ScriptPCs == {"idle", "scan", "enqueue", "persist", "announce", "ack", "markConnected",
              "reconnect", "callAcquire"}
OnlyScripts == \A h \in Handlers : handler[h].pc \in ScriptPCs

Paired == LeaseInv /\ MutualLeases
ScriptInv == Paired /\ OnlyScripts

engaged == [i \in Ids |-> IF i \in live THEN party[i] ELSE {}]

-----------------------------------------------------------------------------
(* The three kinds of lease writes. *)

(* A script that finds neither user busy starts an engagement. *)
LEMMA EngagementBegins ==
    ASSUME Paired, NEW i \in Ids, Fresh(i),
           NEW u \in Users, NEW v \in Users, u # v,
           active[u] \notin Ids, active[v] \notin Ids,
           active' = [active EXCEPT ![u] = i, ![v] = i],
           live' = live \cup {i},
           party' = [party EXCEPT ![i] = {u, v}]
    PROVE  MutualLeases' /\ Promise!Begin(i, u, v)
<1>1. /\ active \in [Users -> {None, Queued} \cup Ids] /\ live \subseteq Ids
      /\ party \in [Ids -> Pairs \cup {{}}] /\ i \notin live
  BY DEF Paired, LeaseInv, TypeOK, LiveIsUsed
<1>2. \A j \in live : party[j] \subseteq Users
  BY <1>1 DEF Pairs
<1>3. \A j \in live : u \notin party[j] /\ v \notin party[j]
  BY <1>1 DEF Paired, MutualLeases
<1>4. MutualLeases'
  <2>1. ASSUME NEW j \in live', NEW x \in party'[j] PROVE active'[x] = j
    <3>1. CASE j = i BY <1>1, <2>1, <3>1
    <3>2. CASE j # i
      <4>1. j \in live /\ x \in party[j] BY <1>1, <2>1, <3>2
      <4>2. x # u /\ x # v /\ x \in Users BY <4>1, <1>2, <1>3
      <4> QED BY <1>1, <4>1, <4>2 DEF Paired, MutualLeases
    <3> QED BY <3>1, <3>2
  <2> QED BY <2>1 DEF MutualLeases
<1>5. engaged[i] = {} /\ \A j \in Ids : u \notin engaged[j] /\ v \notin engaged[j]
  BY <1>1, <1>3 DEF engaged
<1>6. engaged' = [engaged EXCEPT ![i] = {u, v}]
  BY <1>1 DEF engaged
<1> QED BY <1>4, <1>5, <1>6 DEF Promise!Begin, Promise!Free, engaged

(* A record that runs out ends an engagement and frees its members. *)
LEMMA ExpiryFinishes ==
    ASSUME Paired, NEW i \in live, live' = live \ {i}, active' = Freed(i), party' = party
    PROVE  MutualLeases' /\ Promise!Finish(i)
<1>1. /\ active \in [Users -> {None, Queued} \cup Ids] /\ live \subseteq Ids
      /\ party \in [Ids -> Pairs \cup {{}}] /\ party[i] # {}
  BY DEF Paired, LeaseInv, TypeOK, LiveIsUsed, Fresh
<1>2. \A j \in live : party[j] \subseteq Users BY <1>1 DEF Pairs
<1>3. MutualLeases' BY <1>1, <1>2 DEF Paired, MutualLeases, Freed
<1>4. engaged[i] # {} /\ engaged' = [engaged EXCEPT ![i] = {}] BY <1>1 DEF engaged
<1> QED BY <1>3, <1>4 DEF Promise!Finish, engaged

(* Whatever leaves the held leases alone is no step of the promise. *)
LEMMA LeasesKept ==
    ASSUME Paired, UNCHANGED <<live, party>>,
           \A u \in Users : active[u] \in Ids => active'[u] = active[u]
    PROVE  MutualLeases' /\ UNCHANGED engaged
<1>1. \A j \in live : party[j] \subseteq Users /\ j \in Ids
  BY DEF Paired, LeaseInv, TypeOK, Pairs
<1>2. MutualLeases' BY <1>1 DEF Paired, MutualLeases
<1> QED BY <1>2 DEF engaged

-----------------------------------------------------------------------------
(* One step of the scripts is one step of the promise, or none. *)

PromiseStep == Promise!Next \/ UNCHANGED engaged

LEMMA ScriptArrivals ==
    ASSUME Requests \subseteq ScriptRequests, ScriptInv,
           NEW h \in Handlers, Arrival(h)
    PROVE  OnlyScripts' /\ MutualLeases' /\ PromiseStep
<1>1. \A r \in {"leave", "next", "report", "renew", "release", "block", "sanction"} :
         r \notin Requests
  BY DEF ScriptRequests
<1>2. UNCHANGED store
  BY <1>1 DEF Arrival, JoinStart, AckStart, LeaveStart, NextStart, ReportStart, ReconnectStart,
       CallStart, BlockStart, RenewStart, ReleaseStart, SanctionStart, Begin
<1>3. handler'[h].pc \in ScriptPCs /\ \A g \in Handlers \ {h} : handler'[g] = handler[g]
  <2>1. handler \in [Handlers -> HandlerState] BY DEF ScriptInv, Paired, LeaseInv, TypeOK
  <2>2. CASE \E u \in Users, mode \in Modes : JoinStart(h, u, mode)
    BY <2>1, <2>2 DEF JoinStart, Begin, Idle, ScriptPCs
  <2>3. CASE \E u \in Users, m \in MatchIds : AckStart(h, u, m)
    BY <2>1, <2>3 DEF AckStart, Begin, Idle, ScriptPCs
  <2>4. CASE \E u, v \in Users, mode \in Modes : ReconnectStart(h, u, v, mode)
    BY <2>1, <2>4 DEF ReconnectStart, Begin, Idle, ScriptPCs
  <2>5. CASE \E u, v \in Users : CallStart(h, u, v)
    BY <2>1, <2>5 DEF CallStart, Begin, Idle, ScriptPCs
  <2> QED BY <1>1, <2>2, <2>3, <2>4, <2>5 DEF Arrival, LeaveStart, NextStart, ReportStart,
             BlockStart, RenewStart, ReleaseStart, SanctionStart, Begin
<1>4. OnlyScripts' BY <1>3 DEF ScriptInv, Paired, OnlyScripts
<1>5. MutualLeases' /\ UNCHANGED engaged BY <1>2, LeasesKept DEF store, ScriptInv
<1> QED BY <1>4, <1>5 DEF PromiseStep

LEMMA PairingSteps ==
    ASSUME Paired, NEW h \in Handlers,
           \/ \E peer \in Users, m \in MatchIds : JoinMatched(h, peer, m)
           \/ \E m \in MatchIds : ReconnectMatched(h, m)
           \/ \E c \in CallIds : CallAcquired(h, c)
    PROVE  MutualLeases' /\ PromiseStep
<1> DEFINE u == handler[h].user
           v == handler[h].peer
<1>1. Knows(handler[h]) BY DEF Paired, LeaseInv, HandlerOK
<1>2. ASSUME NEW i \in Ids, NEW x \in Users, NEW y \in Users, Promise!Begin(i, x, y)
      PROVE  PromiseStep
  BY <1>2 DEF PromiseStep, Promise!Next
<1>3. ASSUME NEW i \in Ids, Fresh(i), live' = live \cup {i},
             \E x, y \in Users :
                /\ x # y /\ active[x] \notin Ids /\ active[y] \notin Ids
                /\ active' = [active EXCEPT ![x] = i, ![y] = i]
                /\ party' = [party EXCEPT ![i] = {x, y}]
      PROVE  MutualLeases' /\ PromiseStep
  <2> PICK x \in Users, y \in Users :
        /\ x # y /\ active[x] \notin Ids /\ active[y] \notin Ids
        /\ active' = [active EXCEPT ![x] = i, ![y] = i]
        /\ party' = [party EXCEPT ![i] = {x, y}]
    BY <1>3
  <2> QED BY <1>2, <1>3, EngagementBegins
<1>4. ASSUME NEW peer \in Users, NEW m \in MatchIds, JoinMatched(h, peer, m)
      PROVE  MutualLeases' /\ PromiseStep
  <2>1. u \in Users /\ m \in Ids BY <1>1, <1>4 DEF JoinMatched, At, Knows, Ids
  <2>2. u # peer /\ active[u] \notin Ids /\ active[peer] \notin Ids
    BY <1>4, IdsAssumption DEF JoinMatched, FirstEligible, Eligible
  <2> QED BY <1>3, <1>4, <2>1, <2>2 DEF JoinMatched
<1>5. ASSUME NEW m \in MatchIds, ReconnectMatched(h, m)
      PROVE  MutualLeases' /\ PromiseStep
  <2>1. u \in Users /\ v \in Users /\ u # v /\ m \in Ids
    BY <1>1, <1>5 DEF ReconnectMatched, At, Knows, Ids
  <2>2. active[u] \notin Ids /\ active[v] \notin Ids
    BY <1>5, IdsAssumption DEF ReconnectMatched, BothFree
  <2> QED BY <1>3, <1>5, <2>1, <2>2 DEF ReconnectMatched
<1>6. ASSUME NEW c \in CallIds, CallAcquired(h, c)
      PROVE  MutualLeases' /\ PromiseStep
  <2>1. u \in Users /\ v \in Users /\ u # v /\ c \in Ids
    BY <1>1, <1>6 DEF CallAcquired, At, Knows, Ids
  <2>2. active[u] \notin Ids /\ active[v] \notin Ids
    BY <1>6, IdsAssumption DEF CallAcquired, BothFree
  <2> QED BY <1>3, <1>6, <2>1, <2>2 DEF CallAcquired
<1> QED BY <1>4, <1>5, <1>6

(* An ack rewrites the leases of a live match, and they already hold it. *)
LEMMA HarmlessSteps ==
    ASSUME Paired, NEW h \in Handlers,
           \/ Scan(h) \/ JoinBusy(h) \/ JoinQueued(h) \/ Persist(h) \/ Announce(h)
           \/ AckExec(h) \/ MarkConnected(h) \/ ReconnectBusy(h) \/ CallBusy(h) \/ Fail(h)
    PROVE  MutualLeases' /\ PromiseStep
<1>1. UNCHANGED <<live, party>>
  BY DEF Scan, JoinBusy, JoinQueued, Persist, Announce, AckExec, MarkConnected,
         ReconnectBusy, CallBusy, Fail, store
<1>2. \A u \in Users : active[u] \in Ids => active'[u] = active[u]
  <2>1. CASE AckExec(h)
    BY <2>1 DEF AckExec, Lease, Paired, MutualLeases
  <2>2. CASE JoinQueued(h)
    BY <2>2, IdsAssumption DEF JoinQueued, Paired, LeaseInv, TypeOK
  <2>3. CASE ~AckExec(h) /\ ~JoinQueued(h)
    BY <2>3 DEF Scan, JoinBusy, Persist, Announce, MarkConnected, ReconnectBusy, CallBusy,
                Fail, store
  <2> QED BY <2>1, <2>2, <2>3
<1> QED BY <1>1, <1>2, LeasesKept DEF PromiseStep

LEMMA ExpirySteps ==
    ASSUME Paired, Expiry \/ Reversal \/ UNCHANGED vars
    PROVE  MutualLeases' /\ PromiseStep
<1>1. ASSUME NEW i \in live, live' = live \ {i}, active' = Freed(i), party' = party
      PROVE  MutualLeases' /\ PromiseStep
  BY <1>1, ExpiryFinishes DEF PromiseStep, Promise!Next, Paired, LeaseInv, TypeOK
<1>2. CASE \/ \E u \in Users : QueueLeaseExpires(u) \/ EntryExpires(u)
           \/ \E d \in Pairs : DenyExpires(d)
           \/ Reversal \/ UNCHANGED vars
  <2>1. UNCHANGED <<live, party>>
    BY <1>2 DEF QueueLeaseExpires, EntryExpires, DenyExpires, Reversal, Unblock, LiftSanction,
                vars, store
  <2>2. \A u \in Users : active[u] \in Ids => active'[u] = active[u]
    BY <1>2, IdsAssumption DEF QueueLeaseExpires, EntryExpires, DenyExpires, Reversal, Unblock,
         LiftSanction, vars, store, Paired, LeaseInv, TypeOK
  <2> QED BY <2>1, <2>2, LeasesKept DEF PromiseStep
<1> QED BY <1>1, <1>2 DEF Expiry, MatchExpires, CallExpires

LEMMA ScriptNext ==
    ASSUME Requests \subseteq ScriptRequests, ScriptInv, [Next]_vars
    PROVE  ScriptInv' /\ PromiseStep
<1>1. ASSUME NEW h \in Handlers, Arrival(h)
      PROVE  MutualLeases' /\ PromiseStep /\ OnlyScripts'
  BY <1>1, ScriptArrivals
<1>2. ASSUME NEW h \in Handlers,
             JoinStep(h) \/ MatchStep(h) \/ CallStep(h) \/ RemovalStep(h) \/ Fail(h)
      PROVE  MutualLeases' /\ PromiseStep /\ OnlyScripts'
  <2>1. handler[h].pc \in ScriptPCs /\ Knows(handler[h])
    BY DEF ScriptInv, Paired, OnlyScripts, LeaseInv, HandlerOK
  <2>2. \/ Scan(h) \/ JoinBusy(h) \/ JoinQueued(h) \/ Persist(h) \/ Announce(h)
        \/ AckExec(h) \/ MarkConnected(h) \/ ReconnectBusy(h) \/ CallBusy(h) \/ Fail(h)
        \/ \E peer \in Users, m \in MatchIds : JoinMatched(h, peer, m)
        \/ \E m \in MatchIds : ReconnectMatched(h, m)
        \/ \E c \in CallIds : CallAcquired(h, c)
    BY <1>2, <2>1 DEF JoinStep, MatchStep, CallStep, RemovalStep, ScriptPCs, At, CloseRead,
         CloseExec, EndLeave, EndNext, RenewRead, RenewExec, ReleaseRead, ReleaseExec,
         BlockLook, BlockStore, Clear, ClearPeer, Drop, BlockEnd, RevokeQueues, RevokeGet,
         RevokeDrop
  <2>3. MutualLeases' /\ PromiseStep BY <2>2, PairingSteps, HarmlessSteps DEF ScriptInv
  <2>4. handler'[h].pc \in ScriptPCs /\ \A g \in Handlers \ {h} : handler'[g] = handler[g]
    <3>1. handler \in [Handlers -> HandlerState] /\ handler[h] \in HandlerState
      BY DEF ScriptInv, Paired, LeaseInv, TypeOK
    <3>2. CASE Finish(h)
      BY <3>1, <3>2 DEF Finish, Idle, ScriptPCs
    <3>3. CASE Goto(h, "enqueue") \/ Goto(h, "announce") \/ Goto(h, "markConnected")
      BY <3>1, <3>3 DEF Goto, HandlerState, ScriptPCs
    <3>4. CASE \/ \E peer \in Users, m \in MatchIds : JoinMatched(h, peer, m)
               \/ \E m \in MatchIds : ReconnectMatched(h, m)
      BY <2>1, <3>1, <3>4 DEF JoinMatched, ReconnectMatched, HandlerState, ScriptPCs, Knows, At
    <3> QED BY <2>2, <3>2, <3>3, <3>4 DEF Scan, JoinBusy, JoinQueued, Persist, Announce,
               AckExec, MarkConnected, ReconnectBusy, CallBusy, Fail, CallAcquired
  <2>5. OnlyScripts' BY <2>4 DEF ScriptInv, Paired, OnlyScripts
  <2> QED BY <2>3, <2>5
<1>3. LeaseInv' BY NextLeaseInv DEF ScriptInv, Paired
<1>4. CASE Expiry \/ Reversal \/ UNCHANGED vars
  <2>1. UNCHANGED handler
    BY <1>4 DEF Expiry, QueueLeaseExpires, EntryExpires, MatchExpires, CallExpires, DenyExpires,
         Reversal, Unblock, LiftSanction, vars
  <2> QED BY <1>3, <1>4, <2>1, ExpirySteps DEF ScriptInv, Paired, OnlyScripts
<1> QED BY <1>1, <1>2, <1>3, <1>4 DEF Next, ScriptInv, Paired

LEMMA ScriptInit == Init => ScriptInv /\ Promise!Init
BY InitLeaseInv DEF Init, ScriptInv, Paired, OnlyScripts, MutualLeases, Idle, ScriptPCs,
                    Promise!Init

(* Both members of a live match or call hold its lease, and so nobody is in *)
(* two of them: what the busy test of each script buys (joinQueue,          *)
(* acknowledge, acquireReconnectMatch, acquireDirectCall).                  *)
THEOREM ScriptsLeaseBoth ==
    ASSUME Requests \subseteq ScriptRequests
    PROVE  Spec => []MutualLeases
<1>1. ScriptInv /\ [Next]_vars => ScriptInv' BY ScriptNext
<1>2. ScriptInv => MutualLeases BY DEF ScriptInv, Paired
<1> QED BY <1>1, <1>2, ScriptInit, PTL DEF Spec

(* The scripts implement module Pairing: random matches and direct calls    *)
(* are engagements of two free users.                                       *)
THEOREM ScriptsKeepPromise ==
    ASSUME Requests \subseteq ScriptRequests
    PROVE  Spec => KeepsPromise
<1>1. ScriptInv /\ [Next]_vars => ScriptInv' BY ScriptNext
<1>2. ScriptInv /\ [Next]_vars => [Promise!Next]_engaged BY ScriptNext DEF PromiseStep
<1> QED BY <1>1, <1>2, ScriptInit, PTL DEF Spec, KeepsPromise, Promise!Spec, engaged

-----------------------------------------------------------------------------
(* One request at a time.  With one handler nothing happens between a read  *)
(* and the write decided on it, but that keys run out.                      *)
OneAtATime == \A g, h \in Handlers : g = h

(* Whose leases a handler is about to delete or to write again.             *)
Closing == {"closeRead", "closeExec", "releaseRead", "releaseExec"}
HoldsAt(s, u) == active[u] \in Ids => active[u] = s.id
Holds(s) ==
    /\ s.pc \in {"closeExec", "releaseExec", "renewExec"} =>
          \A u \in party[s.id] : HoldsAt(s, u)
    /\ s.pc \in Closing /\ s.ret = "revokeDrop" =>
          \A u \in Users : u = s.at => HoldsAt(s, u)
    /\ s.pc \in {"drop", "revokeDrop"} => \A u \in Users : u = s.at => active[u] \notin Ids

(* Whom the join script must not pair the joiner with is marked by then.    *)
Warned(s) ==
    /\ s.pc = "enqueue" =>
          \A c \in InWindow(PartitionOf(s.user, s.mode)) :
             c # s.user /\ Blocked(s.user, c) => {s.user, c} \in deny
    /\ s.pc = "reconnect" => ~Blocked(s.user, s.peer)

Serial(s) == Holds(s) /\ Warned(s)
Couples == \A i \in Ids : ~Fresh(i) => \E u, v \in Users : u # v /\ party[i] = {u, v}
NobodyBlocksThemself == \A u \in Users : <<u, u>> \notin blocks

SerialInv ==
    /\ Paired /\ Couples /\ NobodyBlocksThemself
    /\ \A h \in Handlers : Serial(handler[h])

(* Where a handler has nothing in hand that another might have changed.     *)
Free(s) ==
    /\ s.pc \notin {"closeExec", "releaseExec", "renewExec", "drop", "revokeDrop",
                    "enqueue", "reconnect"}
    /\ s.pc \in Closing => s.ret # "revokeDrop"

LEMMA FreeIsSerial == ASSUME NEW s, Free(s) PROVE Serial(s)'
BY DEF Free, Serial, Holds, Warned

LEMMA FreeMoves ==
    ASSUME NEW h \in Handlers, Free(handler'[h])
    PROVE  Serial(handler[h])'
<1> PICK s : s = handler'[h] OBVIOUS
<1> QED BY FreeIsSerial DEF Serial, Holds, Warned, HoldsAt, InWindow, PartitionOf, Blocked

LEMMA IdleIsFree == Free(Idle)
BY DEF Free, Idle, Closing

LEMMA FinishIsSerial ==
    ASSUME Paired, NEW h \in Handlers, Finish(h)
    PROVE  Serial(handler[h])'
<1>1. handler'[h] = Idle BY DEF Finish, Paired, LeaseInv, TypeOK
<1> QED BY <1>1, IdleIsFree, FreeMoves

(* Requests begin with nothing in hand.                                     *)
LEMMA ArrivalIsSerial ==
    ASSUME Paired, NEW h \in Handlers, Arrival(h)
    PROVE  Serial(handler[h])'
<1>1. handler \in [Handlers -> HandlerState] BY DEF Paired, LeaseInv, TypeOK
<1>2. CASE \E u \in Users, mode \in Modes : JoinStart(h, u, mode)
  BY <1>1, <1>2, FreeMoves DEF JoinStart, Begin, Idle, Free, Closing
<1>3. ASSUME NEW u \in Users, NEW m \in MatchIds,
             \/ AckStart(h, u, m) \/ LeaveStart(h, u, m)
             \/ NextStart(h, u, m) \/ ReportStart(h, u, m)
      PROVE  Serial(handler[h])'
  <2>1. CASE AckStart(h, u, m)
    BY <1>1, <2>1, FreeMoves DEF AckStart, Begin, Idle, Free, Closing
  <2>2. CASE ~AckStart(h, u, m)
    <3>1. /\ handler'[h].pc = "closeRead"
          /\ handler'[h].ret \in {"idle", "endLeave", "endNext"}
      BY <1>1, <1>3, <2>2 DEF LeaveStart, NextStart, ReportStart, Begin, Idle
    <3> QED BY <3>1, FreeMoves DEF Free, Closing
  <2> QED BY <2>1, <2>2
<1>4. ASSUME NEW u \in Users, NEW v \in Users, NEW mode \in Modes,
             ReconnectStart(h, u, v, mode)
      PROVE  Serial(handler[h])'
  <2> PICK s : s = [Idle EXCEPT !.pc = "reconnect", !.ret = "persist",
                                !.user = u, !.peer = v, !.mode = mode]
    OBVIOUS
  <2>1. handler'[h] = s /\ UNCHANGED blocks /\ ~Blocked(u, v)
    BY <1>1, <1>4 DEF ReconnectStart, Begin, database
  <2>2. s.pc = "reconnect" /\ s.user = u /\ s.peer = v BY DEF Idle
  <2>3. Serial(s)' BY <2>1, <2>2 DEF Serial, Holds, Warned, Blocked, Closing
  <2> QED BY <2>1, <2>3 DEF Serial, Holds, Warned, HoldsAt, InWindow, PartitionOf, Blocked
<1>5. CASE \E u, v \in Users : CallStart(h, u, v) \/ BlockStart(h, u, v)
  <2>1. handler'[h].pc \in {"callAcquire", "blockLook"}
    BY <1>1, <1>5 DEF CallStart, BlockStart, Begin, Idle
  <2> QED BY <2>1, FreeMoves DEF Free, Closing
<1>6. CASE \/ \E u \in Users, c \in CallIds : RenewStart(h, u, c)
           \/ \E c \in CallIds : ReleaseStart(h, c)
           \/ \E u \in Users : SanctionStart(h, u)
  <2>1. /\ handler'[h].pc \in {"renewRead", "releaseRead", "revokeQueues"}
        /\ handler'[h].ret = "idle"
    BY <1>1, <1>6 DEF RenewStart, ReleaseStart, SanctionStart, Begin, Idle
  <2>2. Free(handler'[h]) BY <2>1 DEF Free, Closing
  <2> QED BY <2>2, FreeMoves
<1> QED BY <1>2, <1>3, <1>4, <1>5, <1>6 DEF Arrival

(* Scan marks everybody in the window whom a block stands between.          *)
LEMMA ScanWarns ==
    ASSUME Paired, NEW h \in Handlers, Scan(h)
    PROVE  Serial(handler[h])'
<1> PICK s : s = handler[h] OBVIOUS
<1> PICK t : t = [s EXCEPT !.pc = "enqueue"] OBVIOUS
<1>1. s \in HandlerState /\ handler'[h] = t
  BY DEF Scan, Goto, Paired, LeaseInv, TypeOK
<1>2. t.pc = "enqueue" /\ t.user = s.user /\ t.mode = s.mode BY <1>1 DEF HandlerState
<1> PICK p : p = PartitionOf(t.user, t.mode) OBVIOUS
<1>3. UNCHANGED <<queue, blocks>>
      /\ deny' = deny \cup {{t.user, c} : c \in Marks(t.user, InWindow(p) \ {t.user})}
  BY <1>2 DEF Scan, database
<1>4. \A c \in InWindow(p) : c # t.user /\ Blocked(t.user, c) => {t.user, c} \in deny'
  BY <1>3 DEF Marks
<1>5. Warned(t)'
  BY <1>2, <1>3, <1>4 DEF Warned, InWindow, Blocked, PartitionOf
<1>6. Holds(t)' BY <1>2 DEF Holds, Closing
<1> QED BY <1>1, <1>5, <1>6 DEF Serial, Holds, Warned, HoldsAt, InWindow, PartitionOf, Blocked

(* Who closed or released the engagement of a user goes on to drop them.    *)
LEMMA ReturnIsSerial ==
    ASSUME Paired, NEW h \in Handlers, Return(h), At(h, "drop") \/ handler[h].pc \in Closing,
           handler[h].ret = "revokeDrop" =>
              \A u \in Users : u = handler[h].at => active'[u] \notin Ids
    PROVE  Serial(handler[h])'
<1>1. CASE handler[h].ret = "idle" BY <1>1, FinishIsSerial DEF Return
<1>2. CASE handler[h].ret # "idle"
  <2> PICK s : s = handler[h] OBVIOUS
  <2> PICK t : t = [s EXCEPT !.pc = s.ret, !.ret = "idle"] OBVIOUS
  <2>1. s \in HandlerState /\ Knows(s) /\ handler'[h] = t
    BY <1>2 DEF Return, Paired, LeaseInv, TypeOK, HandlerOK
  <2>2. t.pc = s.ret /\ t.at = s.at /\ t.ret = "idle" BY <2>1 DEF HandlerState
  <2>3. t.pc \in {"endLeave", "endNext", "clearPeer", "blockEnd", "revokeDrop"}
    BY <1>2, <2>1, <2>2 DEF Knows, At, Closing
  <2>4. Serial(t)' BY <2>2, <2>3 DEF Serial, Holds, Warned, Closing
  <2> QED BY <2>1, <2>4 DEF Serial, Holds, Warned, HoldsAt, InWindow, PartitionOf, Blocked
<1> QED BY <1>1, <1>2

(* A handler that reads before it writes holds what it read.                *)
LEMMA ReadIsSerial ==
    ASSUME SerialInv, NEW h \in Handlers, CloseRead(h) \/ ReleaseRead(h) \/ RenewRead(h)
    PROVE  Serial(handler[h])'
<1> PICK s : s = handler[h] OBVIOUS
<1>1. /\ s \in HandlerState /\ Knows(s) /\ Serial(s)
      /\ handler \in [Handlers -> HandlerState] /\ NoDanglingLease /\ MutualLeases
  BY DEF SerialInv, Paired, LeaseInv, TypeOK, HandlerOK
<1>2. UNCHANGED <<active, party>> BY DEF CloseRead, ReleaseRead, RenewRead, store
<1>3. ASSUME NEW pc \in {"closeExec", "releaseExec", "renewExec"}, s.id \in live, Goto(h, pc),
             s.pc \in Closing \/ pc = "renewExec"
      PROVE  Serial(handler[h])'
  <2> PICK t : t = [s EXCEPT !.pc = pc] OBVIOUS
  <2>1. handler'[h] = t BY <1>1, <1>3 DEF Goto
  <2>2. t.pc = pc /\ t.ret = s.ret /\ t.at = s.at /\ t.id = s.id BY <1>1 DEF HandlerState
  <2>3. \A u \in party[t.id] : HoldsAt(t, u)
    BY <1>1, <1>3, <2>2 DEF MutualLeases, HoldsAt
  <2>4. t.pc \in Closing /\ t.ret = "revokeDrop" => \A u \in Users : u = t.at => HoldsAt(t, u)
    BY <1>1, <1>3, <2>2 DEF Serial, Holds, HoldsAt, Closing
  <2>5. Serial(t)' BY <1>2, <1>3, <2>2, <2>3, <2>4 DEF Serial, Holds, Warned, HoldsAt
  <2> QED BY <2>1, <2>5 DEF Serial, Holds, Warned, HoldsAt, InWindow, PartitionOf, Blocked
<1>4. CASE Return(h) /\ s.id \notin live /\ s.pc \in Closing
  <2>1. ASSUME s.ret = "revokeDrop", NEW u \in Users, u = s.at PROVE active'[u] \notin Ids
    BY <1>1, <1>2, <1>4, <2>1 DEF Serial, Holds, HoldsAt, NoDanglingLease
  <2> QED BY <1>4, <2>1, ReturnIsSerial DEF SerialInv
<1>5. CASE Finish(h) BY <1>5, FinishIsSerial DEF SerialInv
<1> QED BY <1>3, <1>4, <1>5 DEF CloseRead, ReleaseRead, RenewRead, At, Closing

(* A removal that looks up what its user holds.                             *)
LEMMA RemovalIsSerial ==
    ASSUME SerialInv, NEW h \in Handlers,
           \/ BlockLook(h) \/ BlockStore(h) \/ Clear(h) \/ ClearPeer(h) \/ BlockEnd(h)
           \/ RevokeQueues(h) \/ RevokeGet(h)
    PROVE  Serial(handler[h])'
<1> PICK s : s = handler[h] OBVIOUS
<1>1. s \in HandlerState /\ handler \in [Handlers -> HandlerState]
  BY DEF SerialInv, Paired, LeaseInv, TypeOK
<1>2. UNCHANGED active
  BY DEF BlockLook, BlockStore, Clear, ClearPeer, BlockEnd, RevokeQueues, RevokeGet, store
<1>3. CASE BlockLook(h) \/ BlockStore(h) \/ ClearPeer(h) \/ RevokeQueues(h)
  <2>1. handler'[h].pc \in {"blockStore", "clear", "revokeGet"}
    BY <1>1, <1>3 DEF BlockLook, BlockStore, ClearPeer, RevokeQueues, Goto, HandlerState
  <2>2. Free(handler'[h]) BY <2>1 DEF Free, Closing
  <2> QED BY <2>2, FreeMoves
<1>4. CASE BlockEnd(h) BY <1>4, FinishIsSerial DEF BlockEnd, SerialInv
<1>5. ASSUME NEW t, handler'[h] = t, t.at = s.at,
             \/ /\ t.pc \in {"closeRead", "releaseRead"} /\ t.id = active[s.at]
             \/ t.pc \in {"drop", "revokeDrop"} /\ active[s.at] \notin Ids
      PROVE  Serial(handler[h])'
  <2>1. Serial(t)' BY <1>2, <1>5 DEF Serial, Holds, Warned, HoldsAt, Closing
  <2> QED BY <1>5, <2>1 DEF Serial, Holds, Warned, HoldsAt, InWindow, PartitionOf, Blocked
<1> PICK held : held = active[s.at] OBVIOUS
<1>6. CASE Clear(h)
  <2> PICK t : t = [s EXCEPT
         !.pc = IF held \in MatchIds THEN "closeRead"
                ELSE IF held \in CallIds THEN "releaseRead" ELSE "drop",
         !.id = IF held \in Ids THEN held ELSE None]
    OBVIOUS
  <2>1. handler'[h] = t BY <1>1, <1>6 DEF Clear
  <2>2. t.at = s.at /\ \/ t.pc \in {"closeRead", "releaseRead"} /\ t.id = held
                       \/ t.pc = "drop" /\ held \notin Ids
    BY <1>1 DEF HandlerState, Ids
  <2> QED BY <1>5, <2>1, <2>2
<1>7. CASE RevokeGet(h)
  <2> PICK t : t = [s EXCEPT
         !.pc = IF held \in MatchIds THEN "closeRead"
                ELSE IF held \in CallIds THEN "releaseRead" ELSE "revokeDrop",
         !.ret = IF held \in Ids THEN "revokeDrop" ELSE "idle",
         !.id = IF held \in Ids THEN held ELSE None]
    OBVIOUS
  <2>1. handler'[h] = t BY <1>1, <1>7 DEF RevokeGet
  <2>2. t.at = s.at /\ \/ t.pc \in {"closeRead", "releaseRead"} /\ t.id = held
                       \/ t.pc = "revokeDrop" /\ held \notin Ids
    BY <1>1 DEF HandlerState, Ids
  <2> QED BY <1>5, <2>1, <2>2
<1> QED BY <1>3, <1>4, <1>6, <1>7

(* A close or a release by whoever holds the leases it deletes ends at most *)
(* the engagement it is about.                                              *)
LEMMA EndingSteps ==
    ASSUME SerialInv, NEW h \in Handlers, CloseExec(h) \/ ReleaseExec(h)
    PROVE  MutualLeases' /\ PromiseStep /\ Serial(handler[h])'
<1> PICK s : s = handler[h] OBVIOUS
<1> PICK i : i = s.id OBVIOUS
<1>1. /\ Knows(s) /\ Serial(s) /\ NoDanglingLease /\ MutualLeases /\ LiveIsUsed /\ Paired
      /\ active \in [Users -> {None, Queued} \cup Ids] /\ live \subseteq Ids
      /\ party \in [Ids -> Pairs \cup {{}}]
  BY DEF SerialInv, Paired, LeaseInv, TypeOK, HandlerOK
<1>2. /\ live' = live \ {i} /\ active' = Unlease(i) /\ party' = party /\ Return(h)
      /\ s.pc \in {"closeExec", "releaseExec"}
  BY DEF CloseExec, ReleaseExec, At
<1>3. i \in Ids BY <1>1, <1>2 DEF Knows, Ids
<1>4. \A j \in live : party[j] \subseteq Users BY <1>1 DEF Pairs
<1>5. \A u \in party[i] : active[u] \in Ids => active[u] = i
  BY <1>1, <1>2 DEF Serial, Holds, HoldsAt
<1>6. MutualLeases'
  <2>1. ASSUME NEW j \in live', NEW x \in party'[j] PROVE active'[x] = j
    <3>1. j \in live /\ j # i /\ x \in party[j] /\ x \in Users /\ j \in Ids
      BY <1>1, <1>2, <1>4, <2>1
    <3>2. active[x] = j BY <1>1, <3>1 DEF MutualLeases
    <3>3. x \notin party[i] BY <1>5, <3>1, <3>2
    <3> QED BY <1>2, <3>1, <3>2, <3>3 DEF Unlease
  <2> QED BY <2>1 DEF MutualLeases
<1>7. PromiseStep
  <2>1. CASE i \in live
    <3>1. party[i] # {} BY <1>1, <2>1 DEF LiveIsUsed, Fresh
    <3>2. engaged[i] # {} /\ engaged' = [engaged EXCEPT ![i] = {}]
      BY <1>2, <1>3, <2>1, <3>1 DEF engaged
    <3>3. Promise!Finish(i) BY <3>2 DEF Promise!Finish, engaged
    <3> QED BY <1>3, <3>3 DEF PromiseStep, Promise!Next
  <2>2. CASE i \notin live BY <1>2, <2>2 DEF PromiseStep, engaged
  <2> QED BY <2>1, <2>2
<1>8. ASSUME s.ret = "revokeDrop", NEW u \in Users, u = s.at PROVE active'[u] \notin Ids
  <2>1. HoldsAt(s, u) BY <1>1, <1>2, <1>8 DEF Serial, Holds, Closing
  <2>2. active'[u] = IF u \in party[i] THEN None ELSE active[u] BY <1>2 DEF Unlease
  <2> QED BY <1>1, <2>1, <2>2, IdsAssumption DEF HoldsAt, NoDanglingLease
<1>9. Serial(handler[h])' BY <1>1, <1>2, <1>8, ReturnIsSerial DEF Closing
<1> QED BY <1>6, <1>7, <1>9

(* A renewal by the only handler brings a call that ran out back before     *)
(* its members are in anything else.                                        *)
LEMMA RenewalStep ==
    ASSUME SerialInv, NEW h \in Handlers, RenewExec(h)
    PROVE  MutualLeases' /\ PromiseStep
<1> PICK s : s = handler[h] OBVIOUS
<1> PICK i : i = s.id OBVIOUS
<1>1. /\ Knows(s) /\ Serial(s) /\ MutualLeases /\ LiveIsUsed /\ Couples /\ ~Fresh(i)
      /\ active \in [Users -> {None, Queued} \cup Ids] /\ live \subseteq Ids
      /\ party \in [Ids -> Pairs \cup {{}}]
  BY DEF SerialInv, Paired, LeaseInv, TypeOK, HandlerOK, RenewExec, At
<1>2. /\ live' = live \cup {i} /\ active' = Lease(i) /\ party' = party /\ s.pc = "renewExec"
  BY DEF RenewExec, At
<1>3. i \in Ids BY <1>1, <1>2 DEF Knows, Ids
<1>4. PICK u \in Users, v \in Users : u # v /\ party[i] = {u, v} BY <1>1, <1>3 DEF Couples
<1>5. \A x \in party[i] : active[x] \in Ids => active[x] = i
  BY <1>1, <1>2 DEF Serial, Holds, HoldsAt
<1>6. \A j \in live : j # i => u \notin party[j] /\ v \notin party[j]
  BY <1>1, <1>4, <1>5 DEF MutualLeases
<1>7. MutualLeases'
  <2>1. ASSUME NEW j \in live', NEW x \in party'[j] PROVE active'[x] = j
    <3>1. CASE j = i BY <1>2, <1>4, <2>1, <3>1 DEF Lease
    <3>2. CASE j # i
      <4>1. j \in live /\ x \in party[j] /\ x \notin party[i] BY <1>2, <1>4, <1>6, <2>1, <3>2
      <4>2. x \in Users BY <1>1, <4>1 DEF Pairs
      <4> QED BY <1>1, <1>2, <4>1, <4>2 DEF Lease, MutualLeases
    <3> QED BY <3>1, <3>2
  <2> QED BY <2>1 DEF MutualLeases
<1>8. PromiseStep
  <2>1. CASE i \in live BY <1>2, <2>1 DEF PromiseStep, engaged
  <2>2. CASE i \notin live
    <3>1. engaged[i] = {} /\ \A j \in Ids : u \notin engaged[j] /\ v \notin engaged[j]
      BY <1>3, <1>6, <2>2 DEF engaged
    <3>2. engaged' = [engaged EXCEPT ![i] = {u, v}] BY <1>2, <1>3, <1>4 DEF engaged
    <3>3. Promise!Begin(i, u, v)
      BY <1>4, <3>1, <3>2 DEF Promise!Begin, Promise!Free, engaged
    <3> QED BY <1>3, <3>3 DEF PromiseStep, Promise!Next
  <2> QED BY <2>1, <2>2
<1> QED BY <1>7, <1>8
(* Everything else leaves the leases of engagements alone.                  *)
LEMMA QuietSteps ==
    ASSUME SerialInv, NEW h \in Handlers,
           \/ Arrival(h) \/ CloseRead(h) \/ EndLeave(h) \/ EndNext(h)
           \/ RenewRead(h) \/ ReleaseRead(h)
           \/ BlockLook(h) \/ BlockStore(h) \/ Clear(h) \/ ClearPeer(h) \/ BlockEnd(h)
           \/ RevokeQueues(h) \/ RevokeGet(h)
    PROVE  MutualLeases' /\ PromiseStep
<1>1. CASE Arrival(h)
  <2>1. UNCHANGED store
    BY <1>1 DEF Arrival, JoinStart, AckStart, LeaveStart, NextStart, ReportStart,
         ReconnectStart, CallStart, BlockStart, RenewStart, ReleaseStart, SanctionStart, Begin
  <2> QED BY <2>1, LeasesKept DEF SerialInv, PromiseStep, store
<1>2. CASE ~Arrival(h)
  <2>1. UNCHANGED <<active, live, party>>
    BY <1>2 DEF CloseRead, EndLeave, EndNext, RenewRead, ReleaseRead, BlockLook, BlockStore,
         Clear, ClearPeer, BlockEnd, RevokeQueues, RevokeGet, store
  <2> QED BY <2>1, LeasesKept DEF SerialInv, PromiseStep
<1> QED BY <1>1, <1>2

LEMMA DropSteps ==
    ASSUME SerialInv, NEW h \in Handlers, Drop(h) \/ RevokeDrop(h)
    PROVE  MutualLeases' /\ PromiseStep /\ Serial(handler[h])'
<1> PICK s : s = handler[h] OBVIOUS
<1>1. /\ Serial(s) /\ s \in HandlerState /\ active \in [Users -> {None, Queued} \cup Ids]
      /\ Paired
  BY DEF SerialInv, Paired, LeaseInv, TypeOK
<1>2. /\ UNCHANGED <<live, party>> /\ active' = [active EXCEPT ![s.at] = None]
      /\ s.pc \in {"drop", "revokeDrop"}
  BY DEF Drop, RevokeDrop, At
<1>3. \A u \in Users : active[u] \in Ids => active'[u] = active[u]
  BY <1>1, <1>2 DEF Serial, Holds
<1>4. \A u \in Users : u = s.at => active'[u] \notin Ids
  BY <1>1, <1>2, IdsAssumption
<1>5. Serial(handler[h])'
  BY <1>1, <1>4, ReturnIsSerial, FinishIsSerial DEF Drop, RevokeDrop
<1> QED BY <1>1, <1>2, <1>3, <1>5, LeasesKept DEF PromiseStep

(* The steps of the joins, the calls and the records end with little in hand. *)
LEMMA WorkIsSerial ==
    ASSUME SerialInv, NEW h \in Handlers,
           \/ JoinStep(h) \/ AckExec(h) \/ MarkConnected(h) \/ EndLeave(h) \/ EndNext(h)
           \/ ReconnectBusy(h) \/ \E m \in MatchIds : ReconnectMatched(h, m)
           \/ CallBusy(h) \/ RenewExec(h) \/ Fail(h) \/ \E c \in CallIds : CallAcquired(h, c)
    PROVE  Serial(handler[h])'
<1>1. /\ Knows(handler[h]) /\ handler[h] \in HandlerState /\ Paired
      /\ handler \in [Handlers -> HandlerState]
  BY DEF SerialInv, Paired, LeaseInv, TypeOK, HandlerOK
<1>2. CASE Finish(h) BY <1>1, <1>2, FinishIsSerial
<1>3. CASE Scan(h) BY <1>1, <1>3, ScanWarns
<1>4. CASE \/ \E peer \in Users, m \in MatchIds : JoinMatched(h, peer, m)
           \/ \E m \in MatchIds : ReconnectMatched(h, m)
           \/ (AckExec(h) /\ Goto(h, "markConnected"))
           \/ EndNext(h) \/ Persist(h)
  <2>1. handler'[h].pc \in {"persist", "announce", "markConnected", "scan"}
    <3>1. CASE \E peer \in Users, m \in MatchIds : JoinMatched(h, peer, m)
      <4>1. handler[h].ret \in {"persist", "announce"} BY <1>1, <3>1 DEF JoinMatched, At, Knows
      <4> QED BY <1>1, <3>1, <4>1 DEF JoinMatched, HandlerState
    <3>2. CASE \E m \in MatchIds : ReconnectMatched(h, m)
      BY <1>1, <3>2 DEF ReconnectMatched, HandlerState
    <3>3. CASE AckExec(h) /\ Goto(h, "markConnected")
      BY <1>1, <3>3 DEF Goto, HandlerState
    <3>4. CASE EndNext(h) BY <1>1, <3>4 DEF EndNext, Idle
    <3>5. CASE Persist(h) BY <1>1, <3>5 DEF Persist, Goto, HandlerState
    <3> QED BY <1>4, <3>1, <3>2, <3>3, <3>4, <3>5
  <2>2. Free(handler'[h]) BY <2>1 DEF Free, Closing
  <2> QED BY <2>2, FreeMoves
<1> QED BY <1>2, <1>3, <1>4 DEF JoinStep, JoinBusy, JoinQueued, Announce, AckExec,
           MarkConnected, EndLeave, ReconnectBusy, CallBusy, CallAcquired, RenewExec, Fail

(* Keys that run out and rows that are taken back leave a handler what it holds. *)
LEMMA ExpiryIsSerial ==
    ASSUME SerialInv, Expiry \/ Reversal \/ UNCHANGED vars, NEW h \in Handlers
    PROVE  Serial(handler[h])'
<1> PICK s : s = handler[h] OBVIOUS
<1>1. /\ Serial(s) /\ Knows(s) /\ s \in HandlerState
      /\ active \in [Users -> {None, Queued} \cup Ids] /\ party \in [Ids -> Pairs \cup {{}}]
  BY DEF SerialInv, Paired, LeaseInv, TypeOK, HandlerOK
<1>2. UNCHANGED <<handler, party, queue>>
  BY DEF Expiry, QueueLeaseExpires, EntryExpires, MatchExpires, CallExpires, DenyExpires,
         Reversal, Unblock, LiftSanction, vars, store
<1>3. \A u \in Users : active'[u] \in Ids => active'[u] = active[u]
  BY <1>1, IdsAssumption DEF Expiry, QueueLeaseExpires, EntryExpires, MatchExpires,
     CallExpires, DenyExpires, Reversal, Unblock, LiftSanction, Freed, vars, store
<1>4. blocks' \subseteq blocks
  BY DEF Expiry, QueueLeaseExpires, EntryExpires, MatchExpires, CallExpires, DenyExpires,
         Reversal, Unblock, LiftSanction, vars, database
<1>5. ASSUME s.pc = "enqueue", NEW c, {s.user, c} \in deny PROVE {s.user, c} \in deny'
  BY <1>5 DEF Expiry, QueueLeaseExpires, EntryExpires, MatchExpires, CallExpires, DenyExpires,
         Reversal, Unblock, LiftSanction, vars, store, At
<1>6. s.pc \in {"closeExec", "releaseExec", "renewExec"} => party[s.id] \subseteq Users
  BY <1>1 DEF Knows, Ids, Pairs
<1>7. Holds(s)' BY <1>1, <1>2, <1>3, <1>6 DEF Serial, Holds, HoldsAt
<1>8. Warned(s)'
  BY <1>1, <1>2, <1>4, <1>5 DEF Serial, Warned, InWindow, PartitionOf, Blocked
<1> QED BY <1>2, <1>7, <1>8 DEF Serial, Holds, Warned, HoldsAt, InWindow, PartitionOf, Blocked

(* Engagements are of two users.                                            *)
LEMMA CouplesStay ==
    ASSUME SerialInv, [Next]_vars
    PROVE  Couples' /\ NobodyBlocksThemself'
<1>1. party \in [Ids -> Pairs \cup {{}}] /\ \A h \in Handlers : Knows(handler[h])
  BY DEF SerialInv, Paired, LeaseInv, TypeOK, HandlerOK
<1>2. ASSUME NEW i \in Ids, NEW u \in Users, NEW v \in Users, u # v,
             party' = [party EXCEPT ![i] = {u, v}], UNCHANGED blocks
      PROVE  Couples' /\ NobodyBlocksThemself'
  BY <1>1, <1>2 DEF SerialInv, Couples, Fresh, NobodyBlocksThemself
<1>3. ASSUME UNCHANGED party, \A u \in Users : <<u, u>> \notin blocks'
      PROVE  Couples' /\ NobodyBlocksThemself'
  BY <1>3 DEF SerialInv, Couples, Fresh, NobodyBlocksThemself
<1>4. ASSUME NEW h \in Handlers, NEW peer \in Users, NEW m \in MatchIds,
             JoinMatched(h, peer, m)
      PROVE  Couples' /\ NobodyBlocksThemself'
  <2>1. handler[h].user \in Users /\ handler[h].user # peer /\ m \in Ids
    BY <1>1, <1>4 DEF JoinMatched, At, Knows, FirstEligible, Eligible, Ids
  <2> QED BY <1>2, <1>4, <2>1 DEF JoinMatched, database
<1>5. ASSUME NEW h \in Handlers, \/ \E m \in MatchIds : ReconnectMatched(h, m)
                                 \/ \E c \in CallIds : CallAcquired(h, c)
      PROVE  Couples' /\ NobodyBlocksThemself'
  <2>1. handler[h].user \in Users /\ handler[h].peer \in Users
        /\ handler[h].user # handler[h].peer
    BY <1>1, <1>5 DEF ReconnectMatched, CallAcquired, At, Knows
  <2>2. PICK i \in Ids : party' = [party EXCEPT ![i] = {handler[h].user, handler[h].peer}]
    BY <1>5 DEF ReconnectMatched, CallAcquired, Ids
  <2>3. UNCHANGED blocks BY <1>5 DEF ReconnectMatched, CallAcquired, database
  <2> QED BY <1>2, <2>1, <2>2, <2>3
<1>6. ASSUME NEW h \in Handlers, Arrival(h) PROVE Couples' /\ NobodyBlocksThemself'
  <2>1. UNCHANGED party
    BY <1>6 DEF Arrival, JoinStart, AckStart, LeaveStart, NextStart, ReportStart,
         ReconnectStart, CallStart, BlockStart, RenewStart, ReleaseStart, SanctionStart, Begin,
         store
  <2>2. UNCHANGED blocks \/ \E u, v \in Users : u # v /\ blocks' = blocks \cup {<<u, v>>}
    BY <1>6 DEF Arrival, JoinStart, AckStart, LeaveStart, NextStart, ReportStart,
         ReconnectStart, CallStart, BlockStart, RenewStart, ReleaseStart, SanctionStart, Begin,
         database
  <2> QED BY <1>3, <2>1, <2>2 DEF SerialInv, NobodyBlocksThemself
<1>7. ASSUME NEW h \in Handlers, JoinStep(h) \/ MatchStep(h)
      PROVE  Couples' /\ NobodyBlocksThemself'
  <2>1. CASE UNCHANGED <<party, blocks>>
    BY <1>3, <2>1 DEF SerialInv, NobodyBlocksThemself
  <2> QED BY <1>4, <1>5, <1>7, <2>1 DEF JoinStep, MatchStep, Scan, JoinBusy, JoinQueued,
       Persist, Announce, AckExec, MarkConnected, CloseRead, CloseExec, EndLeave, EndNext,
       ReconnectBusy, store, database
<1>8. ASSUME NEW h \in Handlers, CallStep(h) \/ RemovalStep(h) \/ Fail(h)
      PROVE  Couples' /\ NobodyBlocksThemself'
  <2>1. CASE UNCHANGED <<party, blocks>>
    BY <1>3, <2>1 DEF SerialInv, NobodyBlocksThemself
  <2> QED BY <1>5, <1>8, <2>1 DEF CallStep, CallBusy, RenewRead, RenewExec, ReleaseRead,
       ReleaseExec, RemovalStep, BlockLook, BlockStore, Clear, ClearPeer, Drop, BlockEnd,
       RevokeQueues, RevokeGet, RevokeDrop, Fail, store, database
<1>9. CASE Expiry \/ Reversal \/ UNCHANGED vars
  <2>1. UNCHANGED party /\ blocks' \subseteq blocks
    BY <1>9 DEF Expiry, QueueLeaseExpires, EntryExpires, MatchExpires, CallExpires,
         DenyExpires, Reversal, Unblock, LiftSanction, vars, store, database
  <2> QED BY <1>3, <2>1 DEF SerialInv, NobodyBlocksThemself
<1> QED BY <1>6, <1>7, <1>8, <1>9 DEF Next

LEMMA SerialNext ==
    ASSUME OneAtATime, SerialInv, [Next]_vars
    PROVE  SerialInv' /\ PromiseStep
<1>0. Paired BY DEF SerialInv
<1>1. ASSUME NEW h \in Handlers, Arrival(h)
      PROVE  MutualLeases' /\ PromiseStep /\ Serial(handler[h])'
  BY <1>0, <1>1, QuietSteps, ArrivalIsSerial
<1>2. ASSUME NEW h \in Handlers, JoinStep(h) \/ Fail(h)
      PROVE  MutualLeases' /\ PromiseStep /\ Serial(handler[h])'
  <2>1. CASE \E peer \in Users, m \in MatchIds : JoinMatched(h, peer, m)
    <3>1. JoinStep(h) BY <2>1 DEF JoinStep
    <3> QED BY <1>0, <2>1, <3>1, PairingSteps, WorkIsSerial
  <2>2. CASE ~\E peer \in Users, m \in MatchIds : JoinMatched(h, peer, m)
    <3>1. \/ Scan(h) \/ JoinBusy(h) \/ JoinQueued(h) \/ Persist(h) \/ Announce(h) \/ Fail(h)
      BY <1>2, <2>2 DEF JoinStep
    <3>2. MutualLeases' /\ PromiseStep BY <1>0, <3>1, HarmlessSteps
    <3>3. Serial(handler[h])' BY <1>2, WorkIsSerial
    <3> QED BY <3>2, <3>3
  <2> QED BY <2>1, <2>2
<1>3. ASSUME NEW h \in Handlers, MatchStep(h)
      PROVE  MutualLeases' /\ PromiseStep /\ Serial(handler[h])'
  <2>1. CASE CloseRead(h) \/ CloseExec(h)
    BY <2>1, QuietSteps, ReadIsSerial, EndingSteps
  <2>2. CASE EndLeave(h) \/ EndNext(h)
    BY <2>2, QuietSteps, WorkIsSerial
  <2>3. CASE \E m \in MatchIds : ReconnectMatched(h, m)
    BY <1>0, <2>3, PairingSteps, WorkIsSerial
  <2>4. CASE AckExec(h) \/ MarkConnected(h) \/ ReconnectBusy(h)
    BY <1>0, <2>4, HarmlessSteps, WorkIsSerial
  <2> QED BY <1>3, <2>1, <2>2, <2>3, <2>4 DEF MatchStep
<1>4. ASSUME NEW h \in Handlers, CallStep(h)
      PROVE  MutualLeases' /\ PromiseStep /\ Serial(handler[h])'
  <2>1. CASE RenewRead(h) \/ ReleaseRead(h) \/ ReleaseExec(h)
    BY <2>1, QuietSteps, ReadIsSerial, EndingSteps
  <2>2. CASE CallBusy(h) BY <1>0, <2>2, HarmlessSteps, WorkIsSerial
  <2>4. CASE RenewExec(h) BY <2>4, RenewalStep, WorkIsSerial
  <2>3. CASE \E c \in CallIds : CallAcquired(h, c)
    BY <1>0, <2>3, PairingSteps, WorkIsSerial
  <2> QED BY <1>4, <2>1, <2>2, <2>3, <2>4 DEF CallStep
<1>5. ASSUME NEW h \in Handlers, RemovalStep(h)
      PROVE  MutualLeases' /\ PromiseStep /\ Serial(handler[h])'
  BY <1>5, QuietSteps, RemovalIsSerial, DropSteps DEF RemovalStep
<1>6. ASSUME Expiry \/ Reversal \/ UNCHANGED vars
      PROVE  MutualLeases' /\ PromiseStep /\ \A h \in Handlers : Serial(handler[h])'
  BY <1>0, <1>6, ExpirySteps, ExpiryIsSerial
<1>7. ASSUME NEW h \in Handlers, MutualLeases', PromiseStep, Serial(handler[h])'
      PROVE  MutualLeases' /\ PromiseStep /\ \A g \in Handlers : Serial(handler[g])'
  <2>1. ASSUME NEW g \in Handlers PROVE Serial(handler[g])'
    <3>1. g = h BY DEF OneAtATime
    <3> QED BY <1>7, <3>1
  <2> QED BY <1>7, <2>1
<1>8. MutualLeases' /\ PromiseStep /\ \A h \in Handlers : Serial(handler[h])'
  BY <1>1, <1>2, <1>3, <1>4, <1>5, <1>6, <1>7 DEF Next
<1>9. LeaseInv' BY NextLeaseInv DEF SerialInv, Paired
<1> QED BY <1>8, <1>9, CouplesStay DEF SerialInv, Paired

LEMMA SerialInit == Init => SerialInv
<1> SUFFICES ASSUME Init PROVE SerialInv OBVIOUS
<1>1. Paired BY ScriptInit DEF ScriptInv
<1>2. Couples /\ NobodyBlocksThemself BY DEF Init, Couples, Fresh, NobodyBlocksThemself
<1>3. \A h \in Handlers : Serial(handler[h])
  BY DEF Init, Serial, Holds, Warned, Idle, Closing
<1> QED BY <1>1, <1>2, <1>3 DEF SerialInv

(* While nobody else is served at the same time, both members of every live *)
(* match or call hold its lease, whatever is asked for and whatever keys    *)
(* run out halfway: only the interleavings of realtime.ts break that.       *)
THEOREM AloneLeasesBoth == ASSUME OneAtATime PROVE Spec => []MutualLeases
<1>1. SerialInv /\ [Next]_vars => SerialInv' BY SerialNext
<1>2. SerialInv => MutualLeases BY DEF SerialInv, Paired
<1> QED BY <1>1, <1>2, SerialInit, PTL DEF Spec

(* So every request alone keeps the promise of module Pairing: close, next, *)
(* renewal, block and sanction included (app.ts, realtime.ts).              *)
THEOREM AloneKeepsPromise == ASSUME OneAtATime PROVE Spec => KeepsPromise
<1>1. SerialInv /\ [Next]_vars => SerialInv' BY SerialNext
<1>2. SerialInv /\ [Next]_vars => [Promise!Next]_engaged BY SerialNext DEF PromiseStep
<1>3. Init => Promise!Init BY ScriptInit
<1> QED BY <1>1, <1>2, <1>3, SerialInit, PTL DEF Spec, KeepsPromise, Promise!Spec, engaged

(* A step that pairs two users finds no block between them.                 *)
LEMMA PairingIsAllowed ==
    ASSUME SerialInv, [Next]_vars, NEW m \in MatchIds, Fresh(m),
           NEW u \in Users, NEW v \in Users, Blocked(u, v)
    PROVE  ~({u, v} \subseteq party'[m])
<1>1. /\ party \in [Ids -> Pairs \cup {{}}] /\ party[m] = {} /\ m \in Ids /\ u # v
      /\ \A h \in Handlers : Knows(handler[h]) /\ Warned(handler[h])
      /\ queue \in [Partitions -> Seq(Users)]
  BY DEF SerialInv, Paired, LeaseInv, TypeOK, HandlerOK, Fresh, Ids, Blocked,
         NobodyBlocksThemself, Serial
<1>2. CASE party'[m] = party[m] BY <1>1, <1>2
<1>3. ASSUME NEW h \in Handlers, NEW peer \in Users, NEW n \in MatchIds,
             JoinMatched(h, peer, n)
      PROVE  ~({u, v} \subseteq party'[m])
  <2> PICK s : s = handler[h] OBVIOUS
  <2>1. /\ party' = [party EXCEPT ![n] = {s.user, peer}] /\ s.pc = "enqueue"
        /\ FirstEligible(s.user, PartitionOf(s.user, s.mode), peer)
    BY <1>3 DEF JoinMatched, At
  <2>2. /\ peer \in InWindow(PartitionOf(s.user, s.mode)) /\ peer # s.user
        /\ {s.user, peer} \notin deny
    BY <2>1 DEF FirstEligible, Eligible, InWindow
  <2>3. ~Blocked(s.user, peer) BY <1>1, <2>1, <2>2 DEF Warned
  <2>4. {u, v} # {s.user, peer} BY <1>1, <2>3 DEF Blocked
  <2> QED BY <1>1, <2>1, <2>4
<1>4. ASSUME NEW h \in Handlers, NEW n \in MatchIds, ReconnectMatched(h, n)
      PROVE  ~({u, v} \subseteq party'[m])
  <2> PICK s : s = handler[h] OBVIOUS
  <2>1. party' = [party EXCEPT ![n] = {s.user, s.peer}] /\ s.pc = "reconnect"
    BY <1>4 DEF ReconnectMatched, At
  <2>2. ~Blocked(s.user, s.peer) BY <1>1, <2>1 DEF Warned
  <2>3. {u, v} # {s.user, s.peer} BY <1>1, <2>2 DEF Blocked
  <2> QED BY <1>1, <2>1, <2>3
<1>5. ASSUME NEW h \in Handlers, NEW c \in CallIds, CallAcquired(h, c)
      PROVE  party'[m] = party[m]
  BY <1>1, <1>5, IdsAssumption DEF CallAcquired, Ids
<1>6. ASSUME NEW h \in Handlers, Arrival(h) PROVE UNCHANGED party
  BY <1>6 DEF Arrival, JoinStart, AckStart, LeaveStart, NextStart, ReportStart,
       ReconnectStart, CallStart, BlockStart, RenewStart, ReleaseStart, SanctionStart, Begin,
       store
<1>7. ASSUME NEW h \in Handlers, JoinStep(h) \/ MatchStep(h)
      PROVE  ~({u, v} \subseteq party'[m])
  BY <1>2, <1>3, <1>4, <1>7 DEF JoinStep, MatchStep, Scan, JoinBusy, JoinQueued,
       Persist, Announce, AckExec, MarkConnected, CloseRead, CloseExec, EndLeave, EndNext,
       ReconnectBusy, store
<1>8. ASSUME NEW h \in Handlers, CallStep(h) \/ RemovalStep(h) \/ Fail(h)
      PROVE  party'[m] = party[m]
  BY <1>5, <1>8 DEF CallStep, CallBusy, RenewRead, RenewExec, ReleaseRead,
       ReleaseExec, RemovalStep, BlockLook, BlockStore, Clear, ClearPeer, Drop, BlockEnd,
       RevokeQueues, RevokeGet, RevokeDrop, Fail, store
<1>9. CASE Expiry \/ Reversal \/ UNCHANGED vars
  BY <1>2, <1>9 DEF Expiry, QueueLeaseExpires, EntryExpires, MatchExpires, CallExpires,
       DenyExpires, Reversal, Unblock, LiftSanction, vars, store
<1> QED BY <1>2, <1>6, <1>7, <1>8, <1>9 DEF Next

(* Alone, a join or a reconnection never pairs two users with a block       *)
(* between them: the deny marks of the scan are still there when the script *)
(* of the join looks at them (joinQueue, acquireReconnectMatch).            *)
THEOREM AloneNeverMatchesBlocked == ASSUME OneAtATime PROVE Spec => BlockedNeverMatched
<1>1. SerialInv /\ [Next]_vars => SerialInv' BY SerialNext
<1>2. SerialInv /\ [Next]_vars =>
        [\A m \in MatchIds, u, v \in Users :
            Fresh(m) /\ Blocked(u, v) => ~({u, v} \subseteq party'[m])]_vars
  BY PairingIsAllowed
<1> QED BY <1>1, <1>2, SerialInit, PTL DEF Spec, BlockedNeverMatched
=============================================================================
