---------------------------- MODULE MatchLeases ----------------------------
(***************************************************************************)
(* The realtime core of the API: the Redis leases that put a user in a     *)
(* queue, in a random match or in a direct call (apps/api/src/realtime.ts) *)
(* and the request handlers that drive them (apps/api/src/app.ts).         *)
(*                                                                         *)
(* A handler is a sequence of awaited store commands; every await is a     *)
(* point where the other handlers of this or another API instance run.     *)
(* One action below is one Redis command: a Lua script and a MULTI are     *)
(* atomic, a GET followed by a MULTI is two actions and the second one     *)
(* works on what the first one read.                                       *)
(*                                                                         *)
(* Abstractions.  An id is a uuid, used once, so the members of a match or *)
(* of a call never change and party[i] may outlive the key; live is the    *)
(* set of ids whose key exists.  A deny key is looked up in both           *)
(* directions wherever it is looked up, so deny holds unordered pairs.     *)
(* Keys written by one command with one TTL expire in one action, at any   *)
(* time: a TTL is an upper bound on nothing here.                          *)
(***************************************************************************)
EXTENDS Integers, FiniteSets, Sequences, SequencesExt

CONSTANTS
    Users,      \* account ids
    Cohort,     \* [Users -> age cohort]
    Adult,      \* the adult_18_plus cohort
    Modes,      \* {"text", "video"}
    MatchIds,   \* uuids a match may get: a bound on the matches of a run
    CallIds,    \* uuids a direct call may get: likewise
    Handlers,   \* request handlers in flight at once: likewise
    Requests,   \* the kinds of request clients and moderators send
    Window,     \* queue entries a join looks at (25 in the code)
    Priority,   \* users with the matching.priority_weight entitlement
    Clash,      \* pairs of users whose criteria exclude each other
    Friends,    \* pairs of users with an active friendship
    Disputes,   \* <<blocker, blocked>>: the blocks that may come up, a bound
    Offenders,  \* users who may be sanctioned: likewise
    Unreliable, \* handlers that may die halfway
    None, Queued

Ids        == MatchIds \cup CallIds
Cohorts    == {Cohort[u] : u \in Users}
Partitions == Cohorts \X Modes
Pairs      == {{u, v} : u, v \in Users}

(* The requests that reach the store through one Lua script only. *)
ScriptRequests == {"join", "ack", "reconnect", "call"}
AllRequests    == ScriptRequests \cup
    {"leave", "next", "report", "renew", "release", "block", "sanction"}

ASSUME IdsAssumption ==
    /\ MatchIds \cap CallIds = {}
    /\ None \notin Ids /\ Queued \notin Ids /\ None # Queued
    /\ None \notin Users /\ None \notin Modes
ASSUME UsersAssumption == Cohort \in [Users -> Cohorts] /\ Priority \subseteq Users
ASSUME RequestsAssumption == Requests \subseteq AllRequests
ASSUME HandlersAssumption == Unreliable \subseteq Handlers
ASSUME WindowAssumption == Window \in Nat \ {0}

VARIABLES
    active,     \* active:<user>: None, Queued, a match id or a call lease
    queue,      \* queue:<cohort>:<mode>, members in score order
    entries,    \* users with a queue-entry:<user> key
    live,       \* ids with a match:<id> or direct-call:<id> key
    party,      \* the two members an id was created with
    matchMode,  \* the mode a match was created with
    acks,       \* match-acks:<match>
    connected,  \* matches whose record has connectedAt
    deny,       \* deny:<user>:<user> keys, either direction
    blocks,     \* Postgres: <<blocker, blocked>> rows
    sanctioned, \* Postgres: users with an active matching restriction
    encounter,  \* Postgres: state of the encounter row of a match
    timed,      \* Postgres: encounter rows with connected_at
    announced,  \* matches published to their members (match.found)
    handler     \* what each handler does next

store    == <<active, queue, entries, live, party, matchMode, acks, connected, deny>>
database == <<blocks, sanctioned, encounter, timed>>
vars     == <<store, database, announced, handler>>

PCs == {"idle", "scan", "enqueue", "persist", "announce",
        "ack", "markConnected", "closeRead", "closeExec", "endLeave", "endNext",
        "reconnect", "callAcquire", "renewRead", "renewExec", "releaseRead",
        "releaseExec", "blockLook", "blockStore", "clear", "clearPeer", "drop",
        "blockEnd", "revokeQueues", "revokeGet", "revokeDrop"}

(* pc: next command; ret: where a closeMatch or releaseDirectCall that is  *)
(* a step of a longer handler continues; user: who asks; peer: the other   *)
(* user of a two-user request; at: the user being cleared; id: the match   *)
(* or call worked on; seen: the match a block found between the two.       *)
HandlerState ==
    [pc: PCs, ret: PCs, user: Users \cup {None}, peer: Users \cup {None},
     at: Users \cup {None}, mode: Modes \cup {None}, id: Ids \cup {None},
     seen: Ids \cup {None}]

Idle == [pc |-> "idle", ret |-> "idle", user |-> None, peer |-> None,
         at |-> None, mode |-> None, id |-> None, seen |-> None]

TypeOK ==
    /\ active \in [Users -> {None, Queued} \cup Ids]
    /\ queue \in [Partitions -> Seq(Users)]
    /\ entries \subseteq Users
    /\ live \subseteq Ids
    /\ party \in [Ids -> Pairs \cup {{}}]
    /\ matchMode \in [MatchIds -> Modes \cup {None}]
    /\ acks \in [MatchIds -> SUBSET Users]
    /\ connected \subseteq MatchIds
    /\ deny \subseteq Pairs
    /\ blocks \subseteq Users \X Users
    /\ sanctioned \subseteq Users
    /\ encounter \in [MatchIds -> {"absent", "active", "ended"}]
    /\ timed \subseteq MatchIds
    /\ announced \subseteq MatchIds
    /\ handler \in [Handlers -> HandlerState]

Init ==
    /\ active = [u \in Users |-> None]
    /\ queue = [p \in Partitions |-> << >>]
    /\ entries = {}
    /\ live = {}
    /\ party = [i \in Ids |-> {}]
    /\ matchMode = [m \in MatchIds |-> None]
    /\ acks = [m \in MatchIds |-> {}]
    /\ connected = {}
    /\ deny = {}
    /\ blocks = {}
    /\ sanctioned = {}
    /\ encounter = [m \in MatchIds |-> "absent"]
    /\ timed = {}
    /\ announced = {}
    /\ handler = [h \in Handlers |-> Idle]

-----------------------------------------------------------------------------
(* Queue partitions: sorted sets without duplicates, in score order. *)

Without(q, u) ==
    IF \E k \in DOMAIN q : q[k] = u
    THEN RemoveAt(q, CHOOSE k \in DOMAIN q : q[k] = u)
    ELSE q

(* ZADD with the score now, or now - 5 s for a priority user, who may      *)
(* overtake the entries of the last five seconds.                          *)
ZAdd(q, u) ==
    LET rest == Without(q, u) IN
    IF u \in Priority THEN {InsertAt(rest, k, u) : k \in 1..(Len(rest) + 1)}
                      ELSE {Append(rest, u)}

InWindow(p) == {queue[p][k] : k \in {j \in DOMAIN queue[p] : j <= Window}}

(* Mutant: one queue for all cohorts. *)
OnePartition(u, mode) == <<Adult, mode>>

PartitionOf(u, mode) == <<Cohort[u], mode>>

Blocked(u, v) == <<u, v>> \in blocks \/ <<v, u>> \in blocks

(* Mutant: a queue member is taken whatever its lease says. *)
EligibleWhoever(u, c) == c # u /\ {u, c} \notin deny

(* The Lua test on a queue member c of the joiner u. *)
Eligible(u, c) == c # u /\ active[c] = Queued /\ {u, c} \notin deny

FirstEligible(u, p, c) ==
    \E k \in DOMAIN queue[p] :
        /\ k <= Window
        /\ queue[p][k] = c
        /\ Eligible(u, c)
        /\ \A j \in 1..(k - 1) : ~Eligible(u, queue[p][j])

Fresh(i) == party[i] = {}

(* Mutant: only the user who asks is tested. *)
CallerFree(u, v) == active[u] = None

BothFree(u, v) == active[u] = None /\ active[v] = None

(* DEL active:<member> for every member; and its mutant with one DEL missing. *)
UnleaseOne(i) == [active EXCEPT ![CHOOSE x \in party[i] : TRUE] = None]

Unlease(i) == [x \in Users |-> IF x \in party[i] THEN None ELSE active[x]]
Lease(i)   == [x \in Users |-> IF x \in party[i] THEN i ELSE active[x]]

Goto(h, pc) == handler' = [handler EXCEPT ![h].pc = pc]
Finish(h)   == handler' = [handler EXCEPT ![h] = Idle]
Return(h)   == IF handler[h].ret = "idle" THEN Finish(h)
               ELSE handler' = [handler EXCEPT ![h].pc = handler[h].ret,
                                               ![h].ret = "idle"]
At(h, pc)   == handler[h].pc = pc
Begin(h, request, state) ==
    /\ request \in Requests
    /\ At(h, "idle")
    /\ handler' = [handler EXCEPT ![h] = state]
    /\ UNCHANGED <<store, database, announced>>

(* A client names a match only after match.found told it the id, and       *)
(* handleRealtime rejects the command if the key is gone, the sender is    *)
(* not a member or the pair is blocked.                                    *)
Commands(u, m) ==
    /\ m \in announced \cap live
    /\ u \in party[m]
    /\ \A v \in party[m] : ~Blocked(u, v)

-----------------------------------------------------------------------------
(* match.join and POST /v1/matches/tickets *)

JoinStart(h, u, mode) ==
    /\ u \notin sanctioned
    /\ Begin(h, "join", [Idle EXCEPT !.pc = "scan", !.ret = "persist",
                                     !.user = u, !.mode = mode])

(* Before its script joinQueue marks two kinds of candidates with a deny   *)
(* key: those the database blocks, and those whose entry is missing or     *)
(* incompatible.  The awaits of the scan only add deny keys: one step.     *)
(* The mutant does not ask the database.                                   *)
MarksUnasked(u, seen) == {c \in seen : c \notin entries \/ {u, c} \in Clash}

Marks(u, seen) == {c \in seen : Blocked(u, c) \/ c \notin entries \/ {u, c} \in Clash}

Scan(h) ==
    LET u == handler[h].user
        seen == InWindow(PartitionOf(u, handler[h].mode)) \ {u} IN
    /\ At(h, "scan")
    /\ deny' = deny \cup {{u, c} : c \in Marks(u, seen)}
    /\ Goto(h, "enqueue")
    /\ UNCHANGED <<active, queue, entries, live, party, matchMode, acks,
                   connected, database, announced>>

(* The join script: busy, matched or queued. *)
JoinBusy(h) ==
    /\ At(h, "enqueue")
    /\ active[handler[h].user] # None
    /\ Finish(h)
    /\ UNCHANGED <<store, database, announced>>

JoinMatched(h, peer, m) ==
    LET u == handler[h].user
        p == PartitionOf(u, handler[h].mode) IN
    /\ At(h, "enqueue")
    /\ active[u] = None
    /\ FirstEligible(u, p, peer)
    /\ Fresh(m)
    /\ queue' = [queue EXCEPT ![p] = Without(@, peer)]
    /\ entries' = entries \ {peer}
    /\ active' = [active EXCEPT ![u] = m, ![peer] = m]
    /\ live' = live \cup {m}
    /\ party' = [party EXCEPT ![m] = {u, peer}]
    /\ matchMode' = [matchMode EXCEPT ![m] = handler[h].mode]
    /\ handler' = [handler EXCEPT ![h].pc = handler[h].ret, ![h].ret = "idle",
                                  ![h].id = m]
    /\ UNCHANGED <<acks, connected, deny, database, announced>>

JoinQueued(h) ==
    LET u == handler[h].user
        p == PartitionOf(u, handler[h].mode) IN
    /\ At(h, "enqueue")
    /\ active[u] = None
    /\ \A c \in InWindow(p) : ~Eligible(u, c)
    /\ \E q \in ZAdd(queue[p], u) : queue' = [queue EXCEPT ![p] = q]
    /\ entries' = entries \cup {u}
    /\ active' = [active EXCEPT ![u] = Queued]
    /\ Finish(h)
    /\ UNCHANGED <<live, party, matchMode, acks, connected, deny, database, announced>>

(* encounters.start, which leaves an existing row alone. *)
Persist(h) ==
    /\ At(h, "persist")
    /\ encounter' = [encounter EXCEPT ![handler[h].id] = IF @ = "absent" THEN "active" ELSE @]
    /\ Goto(h, "announce")
    /\ UNCHANGED <<store, blocks, sanctioned, timed, announced>>

(* publishMatch: after the row, or alone when match.next found the match.  *)
(* Nothing checks that it was reached: a handler that dies before it leaves *)
(* a match nobody was told of, which only its keys' time to live ends.      *)
Announce(h) ==
    /\ At(h, "announce")
    /\ announced' = announced \cup {handler[h].id}
    /\ Finish(h)
    /\ UNCHANGED <<store, database>>

-----------------------------------------------------------------------------
(* match.ack *)

AckStart(h, u, m) ==
    /\ Commands(u, m)
    /\ Begin(h, "ack", [Idle EXCEPT !.pc = "ack", !.user = u, !.id = m])

(* Mutant: the first ack connects. *)
SomeAcked(m, acked) == acked # {}

AllAcked(m, acked) == party[m] \subseteq acked

(* Mutant: the script trusts the record the caller read before. *)
AckRevives(h) ==
    LET u == handler[h].user
        m == handler[h].id IN
    /\ At(h, "ack")
    /\ acks' = [acks EXCEPT ![m] = @ \cup {u}]
    /\ live' = live \cup {m}
    /\ Finish(h)
    /\ UNCHANGED <<active, queue, entries, party, matchMode, connected, deny, database,
                   announced>>

(* The acknowledge script.  The second ack writes both leases again,       *)
(* whatever they hold.                                                     *)
AckExec(h) ==
    LET u == handler[h].user
        m == handler[h].id IN
    /\ At(h, "ack")
    /\ IF m \notin live
       THEN /\ Finish(h)
            /\ UNCHANGED <<acks, connected, active>>
       ELSE /\ acks' = [acks EXCEPT ![m] = @ \cup {u}]
            /\ IF AllAcked(m, acks'[m])
               THEN /\ connected' = connected \cup {m}
                    /\ active' = Lease(m)
                    /\ Goto(h, "markConnected")
               ELSE /\ Finish(h)
                    /\ UNCHANGED <<connected, active>>
    /\ UNCHANGED <<queue, entries, live, party, matchMode, deny, database, announced>>

(* encounters.connected and engagement.markConnected: updates, so no row, no effect. *)
MarkConnected(h) ==
    LET m == handler[h].id IN
    /\ At(h, "markConnected")
    /\ timed' = IF encounter[m] = "absent" THEN timed ELSE timed \cup {m}
    /\ Finish(h)
    /\ UNCHANGED <<store, blocks, sanctioned, encounter, announced>>

-----------------------------------------------------------------------------
(* match.leave, match.next and a report that leaves *)

LeaveStart(h, u, m) ==
    /\ Commands(u, m)
    /\ Begin(h, "leave", [Idle EXCEPT !.pc = "closeRead", !.ret = "endLeave",
                                      !.user = u, !.id = m])

(* A text match may be skipped 25 s after it connected, a video match at once. *)
NextStart(h, u, m) ==
    /\ Commands(u, m)
    /\ matchMode[m] = "text" => m \in connected
    /\ Begin(h, "next", [Idle EXCEPT !.pc = "closeRead", !.ret = "endNext",
                                     !.user = u, !.id = m, !.mode = matchMode[m]])

(* POST /v1/reports with leaveAfterSubmit: createReport ends the row, then *)
(* closeMatch; an encounter of the last 48 hours may be reported as well.  *)
ReportStart(h, u, m) ==
    /\ "report" \in Requests
    /\ At(h, "idle")
    /\ m \in announced /\ u \in party[m]
    /\ encounter[m] # "absent"
    /\ encounter' = [encounter EXCEPT ![m] = "ended"]
    /\ handler' = [handler EXCEPT ![h] =
           [Idle EXCEPT !.pc = "closeRead", !.user = u, !.id = m]]
    /\ UNCHANGED <<store, blocks, sanctioned, timed, announced>>

(* closeMatch: GET match, then a MULTI on the members it read. *)
CloseRead(h) ==
    /\ At(h, "closeRead")
    /\ IF handler[h].id \in live THEN Goto(h, "closeExec") ELSE Return(h)
    /\ UNCHANGED <<store, database, announced>>

CloseExec(h) ==
    LET m == handler[h].id IN
    /\ At(h, "closeExec")
    /\ live' = live \ {m}
    /\ acks' = [acks EXCEPT ![m] = {}]
    /\ active' = Unlease(m)
    /\ connected' = connected \ {m}
    /\ deny' = deny \cup {party[m]}
    /\ Return(h)
    /\ UNCHANGED <<queue, entries, party, matchMode, database, announced>>

EndRow(m) == encounter' = [encounter EXCEPT ![m] = IF @ = "active" THEN "ended" ELSE @]

EndLeave(h) ==
    /\ At(h, "endLeave")
    /\ EndRow(handler[h].id)
    /\ Finish(h)
    /\ UNCHANGED <<store, blocks, sanctioned, timed, announced>>

(* match.next ends the row, joins the queue again in the same mode and     *)
(* goes straight to the announcement if that pairs it.                     *)
EndNext(h) ==
    /\ At(h, "endNext")
    /\ EndRow(handler[h].id)
    /\ handler' = [handler EXCEPT ![h] =
           [Idle EXCEPT !.pc = "scan", !.ret = "announce",
                        !.user = handler[h].user, !.mode = handler[h].mode]]
    /\ UNCHANGED <<store, blocks, sanctioned, timed, announced>>

-----------------------------------------------------------------------------
(* v accepts the offer of u to meet again after an ended, connected encounter *)

ReconnectStart(h, u, v, mode) ==
    /\ \E m \in timed : party[m] = {u, v} /\ encounter[m] = "ended" /\ matchMode[m] = mode
    /\ u # v /\ Cohort[u] = Adult /\ Cohort[v] = Adult
    /\ v \notin sanctioned
    /\ ~Blocked(u, v)
    /\ Begin(h, "reconnect", [Idle EXCEPT !.pc = "reconnect", !.ret = "persist",
                                          !.user = u, !.peer = v, !.mode = mode])

(* acquireReconnectMatch: one script, both users or neither. *)
ReconnectBusy(h) ==
    /\ At(h, "reconnect")
    /\ ~BothFree(handler[h].user, handler[h].peer)
    /\ Finish(h)
    /\ UNCHANGED <<store, database, announced>>

ReconnectMatched(h, m) ==
    LET u == handler[h].user
        v == handler[h].peer
        p == PartitionOf(u, handler[h].mode) IN
    /\ At(h, "reconnect")
    /\ BothFree(u, v)
    /\ Fresh(m)
    /\ queue' = [queue EXCEPT ![p] = Without(Without(@, u), v)]
    /\ entries' = entries \ {u, v}
    /\ active' = [active EXCEPT ![u] = m, ![v] = m]
    /\ live' = live \cup {m}
    /\ party' = [party EXCEPT ![m] = {u, v}]
    /\ matchMode' = [matchMode EXCEPT ![m] = handler[h].mode]
    /\ handler' = [handler EXCEPT ![h].pc = "persist", ![h].ret = "idle", ![h].id = m]
    /\ UNCHANGED <<acks, connected, deny, database, announced>>

-----------------------------------------------------------------------------
(* Direct calls *)

CallStart(h, u, v) ==
    /\ u # v /\ {u, v} \in Friends
    /\ ~Blocked(u, v)
    /\ Begin(h, "call", [Idle EXCEPT !.pc = "callAcquire", !.user = u, !.peer = v])

CallBusy(h) ==
    /\ At(h, "callAcquire")
    /\ ~BothFree(handler[h].user, handler[h].peer)
    /\ Finish(h)
    /\ UNCHANGED <<store, database, announced>>

CallAcquired(h, c) ==
    LET u == handler[h].user
        v == handler[h].peer IN
    /\ At(h, "callAcquire")
    /\ BothFree(u, v)
    /\ Fresh(c)
    /\ active' = [active EXCEPT ![u] = c, ![v] = c]
    /\ live' = live \cup {c}
    /\ party' = [party EXCEPT ![c] = {u, v}]
    /\ Finish(h)
    /\ UNCHANGED <<queue, entries, matchMode, acks, connected, deny, database, announced>>

(* call.accept and every relayed call.rtc event renew the lease. *)
RenewStart(h, u, c) ==
    /\ c \in live /\ u \in party[c]
    /\ \A v \in party[c] : ~Blocked(u, v)
    /\ Begin(h, "renew", [Idle EXCEPT !.pc = "renewRead", !.user = u, !.id = c])

RenewRead(h) ==
    /\ At(h, "renewRead")
    /\ IF handler[h].id \in live THEN Goto(h, "renewExec") ELSE Finish(h)
    /\ UNCHANGED <<store, database, announced>>

(* Three SETs, whatever the keys hold by now. *)
RenewExec(h) ==
    LET c == handler[h].id IN
    /\ At(h, "renewExec")
    /\ live' = live \cup {c}
    /\ active' = Lease(c)
    /\ Finish(h)
    /\ UNCHANGED <<queue, entries, party, matchMode, acks, connected, deny,
                   database, announced>>

(* call.reject, call.cancel, call.end, the missed-call timer and a report. *)
ReleaseStart(h, c) ==
    /\ c \in live
    /\ Begin(h, "release", [Idle EXCEPT !.pc = "releaseRead", !.id = c])

ReleaseRead(h) ==
    /\ At(h, "releaseRead")
    /\ IF handler[h].id \in live THEN Goto(h, "releaseExec") ELSE Return(h)
    /\ UNCHANGED <<store, database, announced>>

(* Mutant: the call record stays behind. *)
ReleaseLeases(h) ==
    /\ At(h, "releaseExec")
    /\ active' = Unlease(handler[h].id)
    /\ Return(h)
    /\ UNCHANGED <<queue, entries, live, party, matchMode, acks, connected, deny,
                   database, announced>>

ReleaseExec(h) ==
    LET c == handler[h].id IN
    /\ At(h, "releaseExec")
    /\ live' = live \ {c}
    /\ active' = Unlease(c)
    /\ Return(h)
    /\ UNCHANGED <<queue, entries, party, matchMode, acks, connected, deny,
                   database, announced>>

-----------------------------------------------------------------------------
(* POST /v1/blocks *)

BlockStart(h, u, v) ==
    /\ "block" \in Requests
    /\ At(h, "idle")
    /\ <<u, v>> \in Disputes /\ u # v
    /\ blocks' = blocks \cup {<<u, v>>}
    /\ handler' = [handler EXCEPT ![h] =
           [Idle EXCEPT !.pc = "blockLook", !.user = u, !.peer = v]]
    /\ UNCHANGED <<store, sanctioned, encounter, timed, announced>>

(* activeMatchBetween *)
BlockLook(h) ==
    LET u == handler[h].user
        m == active[u] IN
    /\ At(h, "blockLook")
    /\ handler' = [handler EXCEPT
           ![h].pc = "blockStore",
           ![h].seen = IF m \in MatchIds \cap live /\ handler[h].peer \in party[m]
                       THEN m ELSE None]
    /\ UNCHANGED <<store, database, announced>>

(* blockPair: one MULTI, then each user in turn. *)
BlockStore(h) ==
    LET u == handler[h].user
        v == handler[h].peer IN
    /\ At(h, "blockStore")
    /\ deny' = deny \cup {{u, v}}
    /\ queue' = [p \in Partitions |-> Without(Without(queue[p], u), v)]
    /\ handler' = [handler EXCEPT ![h].pc = "clear", ![h].ret = "clearPeer", ![h].at = u]
    /\ UNCHANGED <<active, entries, live, party, matchMode, acks, connected,
                   database, announced>>

(* Mutant: whatever the lease holds is closed as a match. *)
ClearAnything(h) ==
    /\ At(h, "clear")
    /\ handler' = [handler EXCEPT ![h].pc = "closeRead", ![h].id = active[handler[h].at]]
    /\ UNCHANGED <<store, database, announced>>

Clear(h) ==
    LET held == active[handler[h].at] IN
    /\ At(h, "clear")
    /\ handler' = [handler EXCEPT
           ![h].pc = IF held \in MatchIds THEN "closeRead"
                     ELSE IF held \in CallIds THEN "releaseRead" ELSE "drop",
           ![h].id = IF held \in Ids THEN held ELSE None]
    /\ UNCHANGED <<store, database, announced>>

ClearPeer(h) ==
    /\ At(h, "clearPeer")
    /\ handler' = [handler EXCEPT ![h].pc = "clear", ![h].ret = "blockEnd",
                                  ![h].at = handler[h].peer]
    /\ UNCHANGED <<store, database, announced>>

Drop(h) ==
    LET u == handler[h].at IN
    /\ At(h, "drop")
    /\ active' = [active EXCEPT ![u] = None]
    /\ entries' = entries \ {u}
    /\ Return(h)
    /\ UNCHANGED <<queue, live, party, matchMode, acks, connected, deny,
                   database, announced>>

BlockEnd(h) ==
    /\ At(h, "blockEnd")
    /\ IF handler[h].seen = None THEN UNCHANGED encounter ELSE EndRow(handler[h].seen)
    /\ Finish(h)
    /\ UNCHANGED <<store, blocks, sanctioned, timed, announced>>

(* DELETE /v1/blocks: the actor's direction only; deny keys run out by themselves. *)
Unblock(u, v) ==
    /\ "block" \in Requests
    /\ <<u, v>> \in blocks
    /\ blocks' = blocks \ {<<u, v>>}
    /\ UNCHANGED <<store, sanctioned, encounter, timed, announced, handler>>

-----------------------------------------------------------------------------
(* A sanction that restricts matching: applySanction, then revokeUser. *)

SanctionStart(h, u) ==
    /\ "sanction" \in Requests
    /\ At(h, "idle")
    /\ u \in Offenders
    /\ sanctioned' = sanctioned \cup {u}
    /\ handler' = [handler EXCEPT ![h] = [Idle EXCEPT !.pc = "revokeQueues", !.at = u]]
    /\ UNCHANGED <<store, blocks, encounter, timed, announced>>

(* One ZREM per partition; nothing else looks at two partitions at once. *)
RevokeQueues(h) ==
    /\ At(h, "revokeQueues")
    /\ queue' = [p \in Partitions |-> Without(queue[p], handler[h].at)]
    /\ Goto(h, "revokeGet")
    /\ UNCHANGED <<active, entries, live, party, matchMode, acks, connected, deny,
                   database, announced>>

RevokeGet(h) ==
    LET held == active[handler[h].at] IN
    /\ At(h, "revokeGet")
    /\ handler' = [handler EXCEPT
           ![h].pc = IF held \in MatchIds THEN "closeRead"
                     ELSE IF held \in CallIds THEN "releaseRead" ELSE "revokeDrop",
           ![h].ret = IF held \in Ids THEN "revokeDrop" ELSE "idle",
           ![h].id = IF held \in Ids THEN held ELSE None]
    /\ UNCHANGED <<store, database, announced>>

RevokeDrop(h) ==
    LET u == handler[h].at IN
    /\ At(h, "revokeDrop")
    /\ active' = [active EXCEPT ![u] = None]
    /\ entries' = entries \ {u}
    /\ Finish(h)
    /\ UNCHANGED <<queue, live, party, matchMode, acks, connected, deny,
                   database, announced>>

LiftSanction(u) ==
    /\ "sanction" \in Requests
    /\ u \in sanctioned
    /\ sanctioned' = sanctioned \ {u}
    /\ UNCHANGED <<store, blocks, encounter, timed, announced, handler>>

-----------------------------------------------------------------------------
(* A handler may stop at any await: a store or database error, or the      *)
(* process dies.  What it already wrote stays.                             *)
Fail(h) ==
    /\ h \in Unreliable
    /\ ~At(h, "idle")
    /\ Finish(h)
    /\ UNCHANGED <<store, database, announced>>

(* Key expiry.  active:<user> = queued and the entry are set by one script *)
(* with one TTL; so are a match or call key and the leases that name it.   *)
(* A queue member has no TTL.                                              *)
QueueLeaseExpires(u) ==
    /\ active[u] = Queued
    /\ active' = [active EXCEPT ![u] = None]
    /\ entries' = entries \ {u}
    /\ UNCHANGED <<queue, live, party, matchMode, acks, connected, deny, database,
                   announced, handler>>

EntryExpires(u) ==
    /\ u \in entries
    /\ active[u] # Queued
    /\ entries' = entries \ {u}
    /\ UNCHANGED <<active, queue, live, party, matchMode, acks, connected, deny,
                   database, announced, handler>>

Freed(i) == [x \in Users |-> IF active[x] = i THEN None ELSE active[x]]

MatchExpires(m) ==
    /\ m \in live
    /\ live' = live \ {m}
    /\ acks' = [acks EXCEPT ![m] = {}]
    /\ connected' = connected \ {m}
    /\ active' = Freed(m)
    /\ UNCHANGED <<queue, entries, party, matchMode, deny, database, announced, handler>>

CallExpires(c) ==
    /\ c \in live
    /\ live' = live \ {c}
    /\ active' = Freed(c)
    /\ UNCHANGED <<queue, entries, party, matchMode, acks, connected, deny, database,
                   announced, handler>>

(* The marks of a scan (5 s and more) outlast the step to the join script. *)
DenyExpires(d) ==
    /\ d \in deny
    /\ \A h \in Handlers : At(h, "enqueue") => handler[h].user \notin d
    /\ deny' = deny \ {d}
    /\ UNCHANGED <<active, queue, entries, live, party, matchMode, acks, connected,
                   database, announced, handler>>

-----------------------------------------------------------------------------
Arrival(h) ==
    \/ \E u \in Users, mode \in Modes : JoinStart(h, u, mode)
    \/ \E u \in Users, m \in MatchIds :
          \/ AckStart(h, u, m) \/ LeaveStart(h, u, m)
          \/ NextStart(h, u, m) \/ ReportStart(h, u, m)
    \/ \E u, v \in Users, mode \in Modes : ReconnectStart(h, u, v, mode)
    \/ \E u, v \in Users : CallStart(h, u, v) \/ BlockStart(h, u, v)
    \/ \E u \in Users, c \in CallIds : RenewStart(h, u, c)
    \/ \E c \in CallIds : ReleaseStart(h, c)
    \/ \E u \in Users : SanctionStart(h, u)

JoinStep(h) ==
    \/ Scan(h) \/ JoinBusy(h) \/ JoinQueued(h)
    \/ \E peer \in Users, m \in MatchIds : JoinMatched(h, peer, m)
    \/ Persist(h) \/ Announce(h)

MatchStep(h) ==
    \/ AckExec(h) \/ MarkConnected(h)
    \/ CloseRead(h) \/ CloseExec(h) \/ EndLeave(h) \/ EndNext(h)
    \/ ReconnectBusy(h) \/ \E m \in MatchIds : ReconnectMatched(h, m)

CallStep(h) ==
    \/ CallBusy(h) \/ \E c \in CallIds : CallAcquired(h, c)
    \/ RenewRead(h) \/ RenewExec(h) \/ ReleaseRead(h) \/ ReleaseExec(h)

RemovalStep(h) ==
    \/ BlockLook(h) \/ BlockStore(h) \/ Clear(h) \/ ClearPeer(h) \/ Drop(h)
    \/ BlockEnd(h) \/ RevokeQueues(h) \/ RevokeGet(h) \/ RevokeDrop(h)

Expiry ==
    \/ \E u \in Users : QueueLeaseExpires(u) \/ EntryExpires(u)
    \/ \E m \in MatchIds : MatchExpires(m)
    \/ \E c \in CallIds : CallExpires(c)
    \/ \E d \in Pairs : DenyExpires(d)

Reversal ==
    \/ \E u, v \in Users : Unblock(u, v)
    \/ \E u \in Users : LiftSanction(u)

Next ==
    \/ \E h \in Handlers :
          \/ Arrival(h) \/ JoinStep(h) \/ MatchStep(h) \/ CallStep(h)
          \/ RemovalStep(h) \/ Fail(h)
    \/ Expiry
    \/ Reversal

Spec == Init /\ [][Next]_vars

-----------------------------------------------------------------------------
(* What holds however the handlers interleave, fail or expire. *)

(* A lease names a match or a call whose key exists and whose member the   *)
(* holder is: nobody is kept busy by a match that is gone (the deletions,  *)
(* expiries and overwrites of realtime.ts always take the leases along).   *)
NoDanglingLease ==
    \A u \in Users : active[u] \in Ids => active[u] \in live /\ u \in party[active[u]]

(* A match whose record says connected was acknowledged by both of its     *)
(* members, whatever acks, closes and expiries raced (acknowledge).        *)
ConnectedWasAcknowledged ==
    \A m \in connected : m \in live /\ party[m] \subseteq acks[m]

(* Queue pairing never mixes age cohorts (joinQueue, acquireReconnectMatch). *)
CohortsNeverMix ==
    \A m \in MatchIds : \A u, v \in party[m] : Cohort[u] = Cohort[v]

(* A match that was closed or expired never comes back: a late ack does    *)
(* not revive it (the script of acknowledge reads the key again).          *)
ClosedMatchStaysClosed ==
    [][\A m \in MatchIds : m \notin live /\ ~Fresh(m) => m \notin live']_vars

(* What holds as long as no handler acts on what another one changed. *)

(* Both members of a live match or call hold its lease: the queue, random  *)
(* matches and direct calls never overlap (all lease writes).              *)
MutualLeases == \A i \in live : \A u \in party[i] : active[u] = i

(* A user is in at most one live match or call. *)
ExclusiveLeases ==
    \A i, j \in live : i # j => party[i] \cap party[j] = {}

(* The store keeps the promise of module Pairing. *)
Promise == INSTANCE Pairing WITH
    engaged <- [i \in Ids |-> IF i \in live THEN party[i] ELSE {}]
KeepsPromise == Promise!Spec

(* A match its members were told about has an encounter row (encounters.start). *)
AnnouncedIsPersisted == \A m \in announced : encounter[m] # "absent"

(* No match is created for a user under a matching restriction (the guard  *)
(* of match.join and of the HTTP routes, revokeUser).                      *)
SanctionedStayOut ==
    [][\A m \in MatchIds : Fresh(m) => party'[m] \cap sanctioned = {}]_vars

(* No match is created for two users while a block row stands between them. *)
BlockedNeverMatched ==
    [][\A m \in MatchIds, u, v \in Users :
          Fresh(m) /\ Blocked(u, v) => ~({u, v} \subseteq party'[m])]_vars

-----------------------------------------------------------------------------
(* The inductive invariant behind the theorems of MatchLeases_proofs. *)

(* What a handler must already know at each await. *)
Knows(s) ==
    /\ s.pc \in {"scan", "enqueue", "ack", "reconnect", "callAcquire", "blockLook",
                 "blockStore", "endNext"} \/ s.ret = "endNext" => s.user \in Users
    /\ s.pc \in {"reconnect", "callAcquire", "blockLook", "blockStore", "clearPeer"}
          \/ s.ret = "clearPeer" => s.peer \in Users
    /\ s.pc \in {"reconnect", "callAcquire"} => s.user # s.peer
    /\ s.pc = "reconnect" => Cohort[s.user] = Cohort[s.peer]
    /\ s.pc \in {"persist", "announce", "ack", "markConnected", "closeRead", "closeExec",
                 "endNext"} \/ s.ret = "endNext" => s.id \in MatchIds
    /\ s.pc \in {"scan", "enqueue", "reconnect", "endNext"} \/ s.ret = "endNext"
          => s.mode \in Modes
    /\ s.pc \in {"renewRead", "renewExec", "releaseRead", "releaseExec"} => s.id \in CallIds
    /\ s.pc \in {"scan", "enqueue"} => s.ret \in {"persist", "announce"}
    /\ s.pc \in {"closeRead", "closeExec", "releaseRead", "releaseExec", "clear", "drop"}
          => s.ret \in {"idle", "endLeave", "endNext", "clearPeer", "blockEnd", "revokeDrop"}
    /\ s.pc \in {"releaseRead", "releaseExec", "clear", "drop"} => s.ret # "endNext"
HandlerOK == \A h \in Handlers :
    /\ Knows(handler[h])
    /\ handler[h].pc \in {"renewRead", "renewExec", "closeExec"} => ~Fresh(handler[h].id)

LiveIsUsed == \A i \in live : ~Fresh(i) /\ (i \in MatchIds => matchMode[i] \in Modes)

(* An entry of a partition belongs to its cohort, and so does a match. *)
OfCohort(p) == {u \in Users : Cohort[u] = p[1]}
QueueKeepsCohort == \A p \in Partitions : queue[p] \in Seq(OfCohort(p))

LeaseInv ==
    /\ TypeOK
    /\ HandlerOK
    /\ LiveIsUsed
    /\ NoDanglingLease
    /\ ConnectedWasAcknowledged
    /\ QueueKeepsCohort
    /\ CohortsNeverMix
=============================================================================
