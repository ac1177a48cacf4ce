---------------------------- MODULE DirectCalls ----------------------------
(***************************************************************************)
(* Direct calls between friends: the call row in Postgres                  *)
(* (packages/database/src/communications.ts), the lease in Redis           *)
(* (apps/api/src/realtime.ts), the missed-call timer in the API process    *)
(* and the worker that repairs what a restart loses (apps/api/src/app.ts,  *)
(* worker.ts).  The row and the lease are changed by different commands of *)
(* one handler, so every await between them is a step.                     *)
(*                                                                         *)
(* Abstractions.  Time is left out: a timer may fire, the worker may find  *)
(* a call unanswered and a lease may age at any moment, but a lease ages   *)
(* once before it expires and a renewal makes it fresh.  Whether a user is *)
(* restricted or engaged in a match is not modelled: an invitation may     *)
(* find either of them busy.  A friendship that ended is not renewed.      *)
(***************************************************************************)
EXTENDS FiniteSets

CONSTANTS
    Users,      \* account ids
    Calls,      \* uuids a call may get: a bound on the calls of a run
    Handlers,   \* request handlers in flight at once: likewise
    Disputes,   \* <<blocker, blocked>>: the blocks that may come up, a bound
    None

ASSUME CallsAssumption == None \notin Calls \cup Users

Pairs   == {{u, v} : u, v \in Users}
Actions == {"accept", "reject", "cancel", "end"}

VARIABLES
    friends,    \* Postgres: active friendships, unordered
    blocks,     \* Postgres: <<blocker, blocked>> rows
    row,        \* Postgres: calls.state
    party,      \* Postgres: call_participants
    lease,      \* Redis: the direct-call:<id> key
    active,     \* Redis: active:<user>, None or the call it is leased to
    timer,      \* the missed-call timer and what is left of its callback
    handler,    \* what each handler does next
    reported,   \* Postgres: calls that a report refers to, and to nothing else
    swept       \* whether the worker's passes reach every old call by now

database == <<friends, blocks, row, party>>
redis    == <<lease, active>>
world    == <<reported, swept>>
vars     == <<database, redis, timer, handler, world>>

Life == INSTANCE CallLife

PCs == {"idle", "acquire", "arm", "check", "write", "authorize", "renewRead",
        "renewExec", "releaseRead", "releaseExec", "unfriend", "look", "clear",
        "dropKey", "terminate"}

Idle == [pc |-> "idle", user |-> None, peer |-> None, call |-> None, action |-> "none",
         lapse |-> FALSE, clearing |-> None, seen |-> None]

(* lapse: a cancel after a busy acquire, which has no lease to release.     *)
(* user, peer: whose block it is, of whom.  clearing, seen: the user a block *)
(* clears and the call it looked up.                                        *)
HandlerState ==
    [pc: PCs, user: Users \cup {None}, peer: Users \cup {None},
     call: Calls \cup {None}, action: Actions \cup {"none"}, lapse: BOOLEAN,
     clearing: Users \cup {None}, seen: Calls \cup {None}]

TypeOK ==
    /\ friends \subseteq Pairs
    /\ blocks \subseteq Users \X Users
    /\ row \in [Calls -> Life!States]
    /\ party \in [Calls -> Pairs \cup {{}}]
    /\ lease \in [Calls -> {"none", "fresh", "aged"}]
    /\ active \in [Users -> Calls \cup {None}]
    /\ timer \in [Calls -> {"off", "armed", "read", "exec"}]
    /\ handler \in [Handlers -> HandlerState]
    /\ reported \subseteq Calls /\ swept \in BOOLEAN

Init ==
    /\ friends = {d \in Pairs : Cardinality(d) = 2}
    /\ blocks = {}
    /\ row = [c \in Calls |-> "absent"]
    /\ party = [c \in Calls |-> {}]
    /\ lease = [c \in Calls |-> "none"]
    /\ active = [u \in Users |-> None]
    /\ timer = [c \in Calls |-> "off"]
    /\ handler = [h \in Handlers |-> Idle]
    /\ reported = {} /\ swept \in BOOLEAN

-----------------------------------------------------------------------------
At(h, pc)   == handler[h].pc = pc
Live(c)     == lease[c] # "none"
Goto(h, pc) == handler' = [handler EXCEPT ![h].pc = pc]
Finish(h)   == handler' = [handler EXCEPT ![h] = Idle]

Blocked(u, v) == <<u, v>> \in blocks \/ <<v, u>> \in blocks

(* Mutant: blocks are not asked. *)
AccessFriends(d) == d \in friends

(* directAccess: an active friendship and no block. *)
Access(d) == d \in friends /\ \A u, v \in d : ~Blocked(u, v)

(* callAction selects its row FOR UPDATE and holds it until it commits. *)
Locked(c) == \E h \in Handlers : At(h, "write") /\ handler[h].call = c

(* Mutant: the key holds the user in place of the call. *)
HoldSelf(c) ==
    /\ lease' = [lease EXCEPT ![c] = "fresh"]
    /\ active' = [u \in Users |-> IF u \in party[c] THEN u ELSE active[u]]

(* The three keys of a call are set and deleted together. *)
Hold(c) ==
    /\ lease' = [lease EXCEPT ![c] = "fresh"]
    /\ active' = [u \in Users |-> IF u \in party[c] THEN c ELSE active[u]]

Release(c) ==
    /\ lease' = [lease EXCEPT ![c] = "none"]
    /\ active' = [u \in Users |-> IF u \in party[c] THEN None ELSE active[u]]

-----------------------------------------------------------------------------
(* POST /v1/calls/direct *)

(* createCall: the row and its two participants. *)
Invite(h, u, v, c) ==
    /\ At(h, "idle")
    /\ u # v
    /\ row[c] = "absent"
    /\ Access({u, v})
    /\ row' = [row EXCEPT ![c] = "inviting"]
    /\ party' = [party EXCEPT ![c] = {u, v}]
    /\ handler' = [handler EXCEPT ![h] = [Idle EXCEPT !.pc = "acquire", !.call = c]]
    /\ UNCHANGED <<friends, blocks, redis, timer, world>>

(* acquireDirectCall *)
Acquire(h) ==
    LET c == handler[h].call IN
    /\ At(h, "acquire")
    /\ \A u \in party[c] : active[u] = None
    /\ Hold(c)
    /\ Goto(h, "arm")
    /\ UNCHANGED <<database, timer, world>>

AcquireBusy(h) ==
    /\ At(h, "acquire")
    /\ handler' = [handler EXCEPT ![h].pc = "check", ![h].action = "cancel",
                                  ![h].lapse = TRUE]
    /\ UNCHANGED <<database, redis, timer, world>>

Arm(h) ==
    /\ At(h, "arm")
    /\ timer' = [timer EXCEPT ![handler[h].call] = "armed"]
    /\ Finish(h)
    /\ UNCHANGED <<database, redis, world>>

(* The missed timer: expireCall, then releaseDirectCall. *)
TimerFires(c) ==
    /\ timer[c] = "armed" /\ ~Locked(c)
    /\ IF row[c] = "inviting"
       THEN row' = [row EXCEPT ![c] = "missed"] /\ timer' = [timer EXCEPT ![c] = "read"]
       ELSE UNCHANGED row /\ timer' = [timer EXCEPT ![c] = "off"]
    /\ UNCHANGED <<friends, blocks, party, redis, handler, world>>

(* Its promise is not awaited by anyone: a database or Redis error loses it. *)
TimerFails(c) ==
    /\ timer[c] # "off"
    /\ timer' = [timer EXCEPT ![c] = "off"]
    /\ UNCHANGED <<database, redis, handler, world>>

TimerReads(c) ==
    /\ timer[c] = "read"
    /\ timer' = [timer EXCEPT ![c] = IF Live(c) THEN "exec" ELSE "off"]
    /\ UNCHANGED <<database, redis, handler, world>>

TimerReleases(c) ==
    /\ timer[c] = "exec"
    /\ timer' = [timer EXCEPT ![c] = "off"]
    /\ Release(c)
    /\ UNCHANGED <<database, handler, world>>

-----------------------------------------------------------------------------
(* call.accept, call.reject, call.cancel and call.end *)

ActStart(h, u, c, action) ==
    /\ At(h, "idle")
    /\ Live(c) /\ u \in party[c]
    /\ handler' = [handler EXCEPT ![h] = [Idle EXCEPT !.pc = "check", !.call = c,
                                                      !.action = action]]
    /\ UNCHANGED <<database, redis, timer, world>>

Allowed(action, s) ==
    /\ s \notin {"absent", "purged"}
    /\ action # "end" => s = "inviting"

Outcome(action) ==
    CASE action = "accept" -> "connecting"
      [] action = "reject" -> "declined"
      [] action = "cancel" -> "cancelled"
      [] action = "end"    -> "ended"

(* Mutant: the state is read without FOR UPDATE, so the row is not held. *)
CheckUnlocked(h) ==
    LET c == handler[h].call IN
    /\ At(h, "check")
    /\ IF Access(party[c]) /\ Allowed(handler[h].action, row[c])
       THEN Goto(h, "write") ELSE Finish(h)
    /\ UNCHANGED <<database, redis, timer, world>>

(* callAction up to its checks, holding the row. *)
ActCheck(h) ==
    LET c == handler[h].call IN
    /\ At(h, "check")
    /\ ~Locked(c)
    /\ IF Access(party[c]) /\ Allowed(handler[h].action, row[c])
       THEN Goto(h, "write") ELSE Finish(h)
    /\ UNCHANGED <<database, redis, timer, world>>

ActWrite(h) ==
    LET c == handler[h].call
        a == handler[h].action IN
    /\ At(h, "write")
    /\ row' = [row EXCEPT ![c] = Outcome(a)]
    /\ IF handler[h].lapse THEN Finish(h)
       ELSE Goto(h, IF a = "accept" THEN "renewRead" ELSE "releaseRead")
    /\ UNCHANGED <<friends, blocks, party, redis, timer, world>>

-----------------------------------------------------------------------------
(* call.rtc.offer, call.rtc.answer and call.rtc.ice *)

SignalStart(h, u, c) ==
    /\ At(h, "idle")
    /\ Live(c) /\ u \in party[c]
    /\ handler' = [handler EXCEPT ![h] = [Idle EXCEPT !.pc = "authorize", !.call = c]]
    /\ UNCHANGED <<database, redis, timer, world>>

(* Mutant: the state of the call is not asked. *)
AuthorizeAny(h) ==
    /\ At(h, "authorize")
    /\ IF Access(party[handler[h].call]) THEN Goto(h, "renewRead") ELSE Finish(h)
    /\ UNCHANGED <<database, redis, timer, world>>

(* authorizeCall *)
Authorize(h) ==
    LET c == handler[h].call IN
    /\ At(h, "authorize")
    /\ IF row[c] = "connecting" /\ Access(party[c])
       THEN Goto(h, "renewRead") ELSE Finish(h)
    /\ UNCHANGED <<database, redis, timer, world>>

(* renewDirectCall: a GET, then three SETs whatever the keys hold by now. *)
RenewRead(h) ==
    /\ At(h, "renewRead")
    /\ IF Live(handler[h].call) THEN Goto(h, "renewExec") ELSE Finish(h)
    /\ UNCHANGED <<database, redis, timer, world>>

RenewExec(h) ==
    LET c == handler[h].call IN
    /\ At(h, "renewExec")
    /\ Hold(c)
    /\ Finish(h)
    /\ UNCHANGED <<database, timer, world>>

(* What follows a release: in a block, the other user and then the row. *)
AfterRelease(h) ==
    LET me == handler[h] IN
    \/ me.clearing = None /\ Finish(h)
    \/ /\ me.clearing # None /\ me.clearing = me.user
       /\ handler' = [handler EXCEPT ![h].pc = "clear", ![h].clearing = me.peer]
    \/ me.clearing # None /\ me.clearing # me.user /\ Goto(h, "terminate")

(* releaseDirectCall *)
ReleaseRead(h) ==
    /\ At(h, "releaseRead")
    /\ IF Live(handler[h].call) THEN Goto(h, "releaseExec") ELSE AfterRelease(h)
    /\ UNCHANGED <<database, redis, timer, world>>

ReleaseExec(h) ==
    /\ At(h, "releaseExec")
    /\ Release(handler[h].call)
    /\ AfterRelease(h)
    /\ UNCHANGED <<database, timer, world>>

-----------------------------------------------------------------------------
(* A report of a call, alone or with a message as well.  With               *)
(* leaveAfterSubmit the call ends: createReport, then releaseDirectCall.     *)

Report(h, u, c) ==
    /\ At(h, "idle")
    /\ u \in party[c] /\ row[c] \notin {"absent", "purged"}
    /\ ~Locked(c)
    /\ reported' \in {reported, reported \cup {c}}
    /\ \/ UNCHANGED <<row, handler>>
       \/ /\ row' = [row EXCEPT ![c] = "ended"]
          /\ handler' = [handler EXCEPT ![h] = [Idle EXCEPT !.pc = "releaseRead", !.call = c]]
    /\ UNCHANGED <<friends, blocks, party, redis, timer, swept>>

(* POST /v1/blocks: the row, the friendship, a look at the call between the *)
(* two, the lease of each user, and last the row of the call that was seen. *)

BlockStart(h, u, v) ==
    /\ At(h, "idle")
    /\ u # v /\ <<u, v>> \in Disputes
    /\ blocks' = blocks \cup {<<u, v>>}
    /\ handler' = [handler EXCEPT ![h] = [Idle EXCEPT !.pc = "unfriend", !.user = u,
                                                      !.peer = v]]
    /\ UNCHANGED <<friends, row, party, redis, timer, world>>

BlockUnfriend(h) ==
    /\ At(h, "unfriend")
    /\ friends' = friends \ {{handler[h].user, handler[h].peer}}
    /\ Goto(h, "look")
    /\ UNCHANGED <<blocks, row, party, redis, timer, world>>

(* activeDirectCallBetween *)
BlockLook(h) ==
    LET me == handler[h]
        c  == active[me.user] IN
    /\ At(h, "look")
    /\ handler' = [handler EXCEPT
           ![h].pc = "clear", ![h].clearing = me.user,
           ![h].seen = IF c # None /\ me.peer \in party[c] THEN c ELSE None]
    /\ UNCHANGED <<database, redis, timer, world>>

(* blockPair, one user at a time: the lease is read, then released if there *)
(* was one; if there was none, whatever the key holds by now is deleted.    *)
BlockClear(h) ==
    LET c == active[handler[h].clearing] IN
    /\ At(h, "clear")
    /\ handler' = [handler EXCEPT ![h].pc = IF c = None THEN "dropKey" ELSE "releaseRead",
                                  ![h].call = c]
    /\ UNCHANGED <<database, redis, timer, world>>

BlockDropKey(h) ==
    /\ At(h, "dropKey")
    /\ active' = [active EXCEPT ![handler[h].clearing] = None]
    /\ AfterRelease(h)
    /\ UNCHANGED <<database, lease, timer, world>>

(* terminateDirectCallForBlock *)
BlockTerminate(h) ==
    LET c == handler[h].seen IN
    /\ At(h, "terminate")
    /\ IF c = None \/ row[c] \in {"absent", "purged"} THEN UNCHANGED row
       ELSE ~Locked(c) /\ row' = [row EXCEPT ![c] = "ended"]
    /\ Finish(h)
    /\ UNCHANGED <<friends, blocks, party, redis, timer, world>>

Unblock(u, v) ==
    /\ <<u, v>> \in blocks
    /\ blocks' = blocks \ {<<u, v>>}
    /\ UNCHANGED <<friends, row, party, redis, timer, handler, world>>

Unfriend(d) ==
    /\ d \in friends
    /\ friends' = friends \ {d}
    /\ UNCHANGED <<blocks, row, party, redis, timer, handler, world>>

-----------------------------------------------------------------------------
(* The worker's pass: one UPDATE of the unanswered calls, one DELETE of the *)
(* rows older than 90 days, which no handler works on any more.             *)

(* Mutant: only the state no statement ever writes is looked for. *)
UnansweredRinging(c) == row[c] = "ringing"

Unanswered(c) == row[c] = "inviting"

(* The update looks at S alone: 500 old calls of whatever state and in no    *)
(* order, so it may leave any call out while more are kept.  It waits for a  *)
(* row it would change.                                                      *)
ExpireUnanswered(S) ==
    /\ \A c \in S : Unanswered(c) => ~Locked(c)
    /\ \E c \in S : Unanswered(c)
    /\ row' = [c \in Calls |-> IF c \in S /\ Unanswered(c) THEN "missed" ELSE row[c]]
    /\ UNCHANGED <<friends, blocks, party, redis, timer, handler, world>>

(* Once more than 500 calls are kept, or a step before it throws, a pass may *)
(* miss a call, and this may last.                                           *)
SweepChanges ==
    /\ swept' = ~swept
    /\ UNCHANGED <<database, redis, timer, handler, reported>>

Settled(c) ==
    /\ row[c] \notin {"absent", "purged"}
    /\ ~Live(c) /\ timer[c] = "off"
    /\ \A h \in Handlers : c \notin {handler[h].call, handler[h].seen}

(* One reported call in its batch makes the DELETE fail: the report would    *)
(* lose what it refers to, which the constraint reports_has_context forbids. *)
CleanupCalls(S) ==
    /\ S # {} /\ \A c \in S : Settled(c)
    /\ S \cap reported = {}
    /\ row' = [c \in Calls |-> IF c \in S THEN "purged" ELSE row[c]]
    /\ UNCHANGED <<friends, blocks, party, redis, timer, handler, world>>

LeaseAges(c) ==
    /\ lease[c] = "fresh"
    /\ lease' = [lease EXCEPT ![c] = "aged"]
    /\ UNCHANGED <<database, active, timer, handler, world>>

LeaseExpires(c) ==
    /\ lease[c] = "aged"
    /\ lease' = [lease EXCEPT ![c] = "none"]
    /\ active' = [u \in Users |-> IF active[u] = c THEN None ELSE active[u]]
    /\ UNCHANGED <<database, timer, handler, world>>

(* A store or database error ends a handler.  A restart of the process ends *)
(* them all and forgets the timers: Fail of each, and TimerFails.           *)
Fail(h) ==
    /\ ~At(h, "idle")
    /\ Finish(h)
    /\ UNCHANGED <<database, redis, timer, world>>

-----------------------------------------------------------------------------
Arrival(h) ==
    \/ \E u, v \in Users, c \in Calls : Invite(h, u, v, c)
    \/ \E u \in Users, c \in Calls :
          \/ \E action \in Actions : ActStart(h, u, c, action)
          \/ SignalStart(h, u, c) \/ Report(h, u, c)
    \/ \E u, v \in Users : BlockStart(h, u, v)

Step(h) ==
    \/ Acquire(h) \/ AcquireBusy(h) \/ Arm(h)
    \/ ActCheck(h) \/ ActWrite(h)
    \/ Authorize(h) \/ RenewRead(h) \/ RenewExec(h)
    \/ ReleaseRead(h) \/ ReleaseExec(h)
    \/ BlockUnfriend(h) \/ BlockLook(h) \/ BlockClear(h) \/ BlockDropKey(h)
    \/ BlockTerminate(h)

Background ==
    \/ \E c \in Calls : \/ TimerFires(c) \/ TimerFails(c) \/ TimerReads(c)
                        \/ TimerReleases(c)
                        \/ LeaseAges(c) \/ LeaseExpires(c)
    \/ \E S \in SUBSET Calls : ExpireUnanswered(S) \/ CleanupCalls(S)
    \/ \E u, v \in Users : Unblock(u, v)
    \/ \E d \in Pairs : Unfriend(d)
    \/ SweepChanges

Next == (\E h \in Handlers : Arrival(h) \/ Step(h) \/ Fail(h)) \/ Background

Spec == Init /\ [][Next]_vars

(* An await returns, with an answer or an error.  A TTL runs: a lease that  *)
(* is not renewed in time expires, one that is renewed each time may live   *)
(* for ever.  A timer that is armed fires, and Postgres queues its update   *)
(* and the worker's on a row that is locked, so each gets a row that is     *)
(* free again and again (SF).  Of the worker this holds only while its      *)
(* passes reach every old call.                                             *)
Fairness ==
    /\ \A h \in Handlers : WF_vars(Step(h) \/ Fail(h))
    /\ \A c \in Calls :
          /\ SF_vars(TimerFires(c) \/ TimerFails(c))
          /\ SF_vars(swept /\ \E S \in SUBSET Calls : c \in S /\ ExpireUnanswered(S))
          /\ WF_vars(LeaseAges(c)) /\ WF_vars(LeaseExpires(c))

FairSpec == Spec /\ Fairness

-----------------------------------------------------------------------------
(* The calls table keeps the promise of module CallLife: a call is answered *)
(* at most once, and neither a late answer, the missed timer, the worker, a *)
(* block nor a report revives a call that is over (callAction, expireCall). *)
LifeSpec == Life!Spec

(* Every invitation is answered, given up or missed, whatever of the API's  *)
(* process was lost: its own timer sees to it (expireCall), and when the    *)
(* timer is lost the worker (expireUnanswered).  It keeps ringing only if   *)
(* both fail: no timer, no handler, and passes that do not reach the call.  *)
Abandoned(c) ==
    ~swept /\ timer[c] = "off" /\ \A h \in Handlers : handler[h].call # c
RingSettles == \A c \in Calls :
    row[c] = "inviting" ~> row[c] # "inviting" \/ Abandoned(c)

(* A call that is over gives its users back: whatever raced with its end,   *)
(* the lease is not renewed for ever (authorizeCall, renewDirectCall).      *)
LeaseFreed == \A c \in Calls :
    (row[c] \in Life!Over /\ Live(c)) ~> ~Live(c)

(* A block cuts off the pair's call even if its handler dies after the row  *)
(* is stored: no party keeps the lease as long as the block stands, since   *)
(* no further answer or signal is accepted (directAccess).                  *)
Cut(c) == \E u, v \in party[c] : Blocked(u, v)
BlockCutsCall == \A c \in Calls : (Live(c) /\ Cut(c)) ~> ~(Live(c) /\ Cut(c))
=============================================================================
