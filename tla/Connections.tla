---------------------------- MODULE Connections ----------------------------
(* Realtime connections: tickets, capacity, the WebSocket upgrade, presence,  *)
(* heartbeats and revocation.  The API's handlers (app.ts) and the Redis      *)
(* commands they await (realtime.ts) are steps of their own, so revocations,  *)
(* closings, expiries and crashes fall between them.                          *)
(*                                                                            *)
(* An attempt k is one client's try: it asks for a ticket (ticket k), presents*)
(* a ticket (its own, or one it got hold of) and becomes connection k.  The   *)
(* global and the per-country capacity sets always get the same commands, so  *)
(* one set of members stands for both.                                        *)
(*                                                                            *)
(* Time: a heartbeat comes every 15 s, a ticket and its reservation live 30 s,*)
(* a capacity member and a presence set 45 s, a revoked user's key 60 s.  Only*)
(* the order these numbers give is kept: a registered socket of a live        *)
(* process renews before its leases run out, and each attempt under way when  *)
(* a user is revoked has a heartbeat, or is over, before that key runs out.   *)
EXTENDS Integers, FiniteSets

CONSTANTS Users, Sessions, Attempts, None,
          Owner,           \* the user of each session
          CountryOf,       \* the country a user was last seen in
          GlobalCeiling, CountryCeiling

ASSUME OwnerAssumption == Owner \in [Sessions -> Users]
ASSUME NoneAssumption == None \notin Attempts \cup Sessions
ASSUME CeilingAssumption == /\ GlobalCeiling \in Nat
                            /\ \A u \in Users : CountryCeiling[CountryOf[u]] \in Nat

VARIABLES
  session,     \* a session's revocation: valid, in the database, in Redis
  restricted,  \* users under a sanction that covers realtime
  revokedUser, \* revoked-user keys
  enforce,     \* what a sanction's route has still to do in Redis
  ticket,      \* ticket keys: the session each admits, or None
  capacity,    \* members of the capacity sets
  members,     \* members of the user-connections sets
  hasTtl,      \* users whose user-connections set has a TTL
  sock,        \* each attempt
  overrun,     \* history: connections that entered the capacity sets unreserved
  owed         \* history: attempts under way when their user was revoked

revocation == <<session, restricted, revokedUser, enforce>>
slots == <<capacity, overrun>>
presence == <<members, hasTtl>>
vars == <<revocation, ticket, slots, presence, sock, owed>>

Reservation(k) == <<"reservation", k>>
Connection(k) == <<"connection", k>>

Attempt(phase, s, t) == [phase |-> phase, session |-> s, ticket |-> t,
                         bind |-> "none"]
NoSocket == Attempt("idle", None, None)
Phases == {"idle", "reserved", "ticketed", "consumed", "checked", "open",
           "closing", "closed"}

TypeOK ==
  /\ session \in [Sessions -> {"valid", "database", "redis"}]
  /\ restricted \subseteq Users
  /\ revokedUser \subseteq Users
  /\ enforce \in [Users -> {"none", "revoke", "publish", "restore"}]
  /\ ticket \in [Attempts -> Sessions \cup {None}]
  /\ capacity \subseteq {Reservation(k) : k \in Attempts}
                        \cup {Connection(k) : k \in Attempts}
  /\ members \subseteq Attempts /\ overrun \subseteq Attempts
  /\ hasTtl \subseteq Users
  /\ sock \in [Attempts ->
       [phase : Phases, session : Sessions \cup {None},
        ticket : Attempts \cup {None},
        bind : {"none", "slot", "member", "expire"}]]
  /\ owed \in [Attempts -> {"no", "due", "beaten"}]

Init ==
  /\ session = [s \in Sessions |-> "valid"]
  /\ restricted = {}
  /\ enforce = [u \in Users |-> "none"]
  /\ revokedUser = {} /\ hasTtl = {}
  /\ ticket = [k \in Attempts |-> None]
  /\ capacity = {} /\ members = {} /\ overrun = {}
  /\ sock = [k \in Attempts |-> NoSocket]
  /\ owed = [k \in Attempts |-> "no"]

----------------------------------------------------------------------------
UserOf(k) == Owner[sock[k].session]
Belongs(k, u) == sock[k].session # None /\ UserOf(k) = u
Registered(k) == sock[k].phase \in {"open", "closing"}

Set(k, field, value) == sock' = [sock EXCEPT ![k][field] = value]
Goto(k, phase) == Set(k, "phase", phase)
End(k) == Goto(k, "closed") /\ owed' = [owed EXCEPT ![k] = "no"]

InCountry(c) == {mem \in capacity : CountryOf[UserOf(mem[2])] = c}
(* Mutant: the ceiling is compared as if the new one did not count.           *)
RoomForOneMore(u) == Cardinality(capacity) <= GlobalCeiling

RoomFor(u) == /\ Cardinality(capacity) < GlobalCeiling
              /\ Cardinality(InCountry(CountryOf[u])) < CountryCeiling[CountryOf[u]]

Unslotted(k) == /\ capacity' = capacity \ {Connection(k)}
                /\ overrun' = overrun \ {k}

MembersOf(u) == {k \in members : Belongs(k, u)}
isUserOnline(u) == MembersOf(u) # {}

(* A set whose last member goes is gone, and its TTL with it.                 *)
Unmembered(ks) == /\ members' = members \ ks
                  /\ hasTtl' = {u \in hasTtl : MembersOf(u) \ ks # {}}

----------------------------------------------------------------------------
(* POST /v1/realtime/tickets, to the end of the script that reserves a slot.  *)
(* The guards it passes before that read the database only.                   *)
MayAsk(k, s) ==
  /\ sock[k] = NoSocket
  /\ session[s] = "valid" /\ Owner[s] \notin restricted

Reserve(k, s) ==
  /\ MayAsk(k, s)
  /\ RoomFor(Owner[s])
  /\ capacity' = capacity \cup {Reservation(k)}
  /\ sock' = [sock EXCEPT ![k] = Attempt("reserved", s, None)]
  /\ UNCHANGED <<revocation, ticket, overrun, presence, owed>>

Store(k) ==
  /\ sock[k].phase = "reserved"
  /\ ticket' = [ticket EXCEPT ![k] = sock[k].session]
  /\ Goto(k, "ticketed")
  /\ UNCHANGED <<revocation, slots, presence, owed>>

TicketExpires(k) ==
  /\ ticket[k] # None
  /\ ticket' = [ticket EXCEPT ![k] = None]
  /\ UNCHANGED <<revocation, slots, presence, sock, owed>>

(* Its score was computed before the SET, so it may pass before the ticket's. *)
ReservationLapses(k) ==
  /\ Reservation(k) \in capacity /\ sock[k].phase # "reserved"
  /\ capacity' = capacity \ {Reservation(k)}
  /\ UNCHANGED <<revocation, ticket, overrun, presence, sock, owed>>

----------------------------------------------------------------------------
(* The upgrade: GETDEL, then one read of Redis for each revocation key.  An   *)
(* attempt without a ticket may present another's.                            *)
MayPresent(k, t) == IF t = k THEN sock[k].phase = "ticketed"
                    ELSE sock[k] = NoSocket /\ ticket[t] # None

(* Mutants: GET instead of GETDEL; the key is overwritten instead of removed. *)
TakenAgain(t) == ticket
TakenMarked(t) == [ticket EXCEPT ![t] = "used"]

Taken(t) == [ticket EXCEPT ![t] = None]

consumeTicket(k, t) ==
  /\ MayPresent(k, t)
  /\ IF ticket[t] # None
     THEN /\ sock' = [sock EXCEPT ![k] = Attempt("consumed", ticket[t], t)]
          /\ owed' = [owed EXCEPT ![k] = owed[t]]
     ELSE End(k)
  /\ ticket' = Taken(t)
  /\ UNCHANGED <<revocation, slots, presence>>

CheckSession(k) ==
  /\ sock[k].phase = "consumed"
  /\ IF session[sock[k].session] = "redis" THEN End(k)
     ELSE Goto(k, "checked") /\ UNCHANGED owed
  /\ UNCHANGED <<revocation, ticket, slots, presence>>

(* After the last read the socket is registered in the same turn; its bind is *)
(* started and not awaited.                                                   *)
CheckUser(k) ==
  /\ sock[k].phase = "checked"
  /\ IF UserOf(k) \in revokedUser THEN End(k)
     ELSE /\ sock' = [sock EXCEPT ![k].phase = "open", ![k].bind = "slot"]
          /\ UNCHANGED owed
  /\ UNCHANGED <<revocation, ticket, slots, presence>>

----------------------------------------------------------------------------
(* bindConnection, at first and at each renewal: a transaction on the slots,  *)
(* SADD, EXPIRE.  It looks at no ceiling and at no socket.                    *)
Claim(k) == {Connection(k), Reservation(sock[k].ticket)}

BindSlot(k) ==
  /\ sock[k].bind = "slot"
  /\ capacity' = (capacity \ Claim(k)) \cup {Connection(k)}
  /\ overrun' = IF Claim(k) \cap capacity = {} THEN overrun \cup {k} ELSE overrun
  /\ Set(k, "bind", "member")
  /\ UNCHANGED <<revocation, ticket, presence, owed>>

BindMember(k) ==
  /\ sock[k].bind = "member"
  /\ members' = members \cup {k}
  /\ Set(k, "bind", "expire")
  /\ UNCHANGED <<revocation, ticket, slots, hasTtl, owed>>

BindExpire(k) ==
  /\ sock[k].bind = "expire"
  /\ hasTtl' = hasTtl \cup {u \in {UserOf(k)} : isUserOnline(u)}
  /\ Set(k, "bind", "none")
  /\ UNCHANGED <<revocation, ticket, slots, members, owed>>

----------------------------------------------------------------------------
(* Mutant: the heartbeat forgets the session key.                             *)
CutUser(k) == UserOf(k) \in revokedUser \/ UserOf(k) \in restricted

(* The heartbeat.  Its reads are one step: what changes between them is seen  *)
(* by the next one.  A pong since the last ping may have come or not.         *)
Cut(k) == \/ session[sock[k].session] = "redis"
          \/ UserOf(k) \in revokedUser
          \/ UserOf(k) \in restricted

Heartbeat(k) ==
  /\ Registered(k) /\ sock[k].bind = "none"
  /\ \E alive \in BOOLEAN :
       sock' = IF Cut(k) \/ ~alive
               THEN [sock EXCEPT ![k].phase = "closing"]
               ELSE [sock EXCEPT ![k].bind = "slot"]
  /\ owed' = IF owed[k] = "due" THEN [owed EXCEPT ![k] = "beaten"] ELSE owed
  /\ UNCHANGED <<revocation, ticket, slots, presence>>

(* The server closes for another reason: malformed or binary messages, a      *)
(* failing heartbeat, shutdown.                                               *)
Close(k) ==
  /\ sock[k].phase = "open"
  /\ Goto(k, "closing")
  /\ UNCHANGED <<revocation, ticket, slots, presence, owed>>

(* The close event: the commands of unbindConnection are sent at once,        *)
(* whatever a bind of the same socket has still to send.                      *)
Closed(k) ==
  /\ Registered(k)
  /\ End(k)
  /\ Unmembered({k})
  /\ Unslotted(k)
  /\ UNCHANGED <<revocation, ticket>>

----------------------------------------------------------------------------
(* Mutants: only what is still registered runs out.                           *)
SlotLapsesRegistered(k) ==
  /\ Connection(k) \in capacity /\ Registered(k)
  /\ Unslotted(k)
  /\ UNCHANGED <<revocation, ticket, presence, sock, owed>>
SetLapsesRegistered(u) ==
  /\ u \in hasTtl
  /\ \A k \in MembersOf(u) : Registered(k) /\ sock[k].bind = "expire"
  /\ Unmembered(MembersOf(u))
  /\ UNCHANGED <<revocation, ticket, slots, sock, owed>>

(* Leases that nobody renews run out.                                         *)
SlotLapses(k) ==
  /\ Connection(k) \in capacity /\ ~Registered(k)
  /\ Unslotted(k)
  /\ UNCHANGED <<revocation, ticket, presence, sock, owed>>

(* One TTL for the whole set, and any connection of the user renews it.       *)
SetLapses(u) ==
  /\ u \in hasTtl
  /\ \A k \in MembersOf(u) : Registered(k) => sock[k].bind = "expire"
  /\ Unmembered(MembersOf(u))
  /\ UNCHANGED <<revocation, ticket, slots, sock, owed>>

(* Attempt k has left nothing behind: the client may try again.               *)
Forget(k) ==
  /\ sock[k].phase = "closed" /\ sock[k].bind = "none" /\ k \notin members
  /\ capacity \cap {Connection(k), Reservation(k)} = {}
  /\ \A l \in Attempts \ {k} : sock[l].ticket # k
  /\ sock' = [sock EXCEPT ![k] = NoSocket]
  /\ UNCHANGED <<revocation, ticket, slots, presence, owed>>

----------------------------------------------------------------------------
(* Session revocation: the database row, then the Redis key.  The route may   *)
(* die in between, and be called again.                                       *)
RevokeSession(s) ==
  /\ session' = [session EXCEPT ![s] =
       CASE @ = "valid" -> "database" [] OTHER -> "redis"]
  /\ UNCHANGED <<restricted, revokedUser, enforce, ticket, slots,
                 presence, sock, owed>>

(* A sanction is committed by its route, which enforces it in Redis next: the *)
(* user's key, then the event.  One of three types (full_ban,                 *)
(* temporary_suspension, verification_challenge) covers realtime.             *)
ApplySanction(u) ==
  /\ enforce[u] = "none"
  /\ enforce' = [enforce EXCEPT ![u] = "revoke"]
  /\ restricted' \in {restricted, restricted \cup {u}}
  /\ UNCHANGED <<session, revokedUser, ticket, slots, presence, sock, owed>>

UnderWay(k) == \/ ticket[k] # None
               \/ sock[k].phase \notin {"idle", "ticketed", "closed"}

RevokeUserKey(u) ==
  /\ enforce[u] = "revoke"
  /\ revokedUser' = revokedUser \cup {u}
  /\ owed' = [k \in Attempts |->
       IF Belongs(k, u) /\ UnderWay(k) THEN "due" ELSE owed[k]]
  /\ enforce' = [enforce EXCEPT ![u] = "publish"]
  /\ UNCHANGED <<session, restricted, ticket, slots, presence, sock>>

(* Pub/sub is at most once: the event closes the sockets the process knows by *)
(* then, or it is lost.                                                       *)
RevokeUserPublish(u) ==
  /\ enforce[u] = "publish"
  /\ enforce' = [enforce EXCEPT ![u] = "none"]
  /\ \/ sock' = [k \in Attempts |->
          IF sock[k].phase = "open" /\ UserOf(k) = u
          THEN [sock[k] EXCEPT !.phase = "closing"] ELSE sock[k]]
     \/ UNCHANGED sock
  /\ UNCHANGED <<session, restricted, revokedUser, ticket, slots, presence,
                 owed>>

RevokedUserLapses(u) ==
  /\ u \in revokedUser
  /\ \A k \in Attempts : Belongs(k, u) /\ UnderWay(k) => owed[k] # "due"
  /\ revokedUser' = revokedUser \ {u}
  /\ UNCHANGED <<session, restricted, enforce, ticket, slots, presence,
                 sock, owed>>

(* The last sanction covering realtime runs out, or an appeal is granted:     *)
(* nothing is done in Redis.                                                  *)
SanctionEnds(u) ==
  /\ u \in restricted
  /\ restricted' = restricted \ {u}
  /\ UNCHANGED <<session, revokedUser, enforce, ticket, slots, presence, sock,
                 owed>>

(* An administrator reverses a sanction, the only one that covers realtime or *)
(* not, and the route removes the user's key, whichever revocation set it.    *)
ReverseSanction(u) ==
  /\ enforce[u] = "none"
  /\ enforce' = [enforce EXCEPT ![u] = "restore"]
  /\ restricted' \in {restricted, restricted \ {u}}
  /\ UNCHANGED <<session, revokedUser, ticket, slots, presence, sock, owed>>

RestoreUser(u) ==
  /\ enforce[u] = "restore"
  /\ revokedUser' = revokedUser \ {u}
  /\ owed' = [k \in Attempts |-> IF Belongs(k, u) THEN "no" ELSE owed[k]]
  /\ enforce' = [enforce EXCEPT ![u] = "none"]
  /\ UNCHANGED <<session, restricted, ticket, slots, presence, sock>>

(* The API process dies: its requests and sockets are gone, nothing unbinds.  *)
(* Tickets already handed out and everything in Redis stay.                   *)
Crash ==
  /\ LET stays == {k \in Attempts : sock[k].phase \in {"idle", "ticketed"}}
     IN  /\ sock' = [k \in Attempts |-> IF k \in stays THEN sock[k]
              ELSE Attempt("closed", sock[k].session, sock[k].ticket)]
         /\ owed' = [k \in Attempts |-> IF k \in stays THEN owed[k] ELSE "no"]
  /\ enforce' = [u \in Users |-> "none"]
  /\ UNCHANGED <<session, restricted, revokedUser, ticket, slots, presence>>

----------------------------------------------------------------------------
AttemptStep(k) ==
  \/ \E s \in Sessions : Reserve(k, s)
  \/ Store(k) \/ TicketExpires(k) \/ ReservationLapses(k)
  \/ \E t \in Attempts : consumeTicket(k, t)
  \/ CheckSession(k) \/ CheckUser(k)
  \/ BindSlot(k) \/ BindMember(k) \/ BindExpire(k)
  \/ Heartbeat(k) \/ Close(k) \/ Closed(k) \/ SlotLapses(k) \/ Forget(k)

UserStep(u) ==
  \/ ApplySanction(u) \/ SanctionEnds(u) \/ ReverseSanction(u)
  \/ RevokeUserKey(u) \/ RevokeUserPublish(u)
  \/ RevokedUserLapses(u)
  \/ RestoreUser(u) \/ SetLapses(u)

Next ==
  \/ \E k \in Attempts : AttemptStep(k)
  \/ \E s \in Sessions : RevokeSession(s)
  \/ \E u \in Users : UserStep(u)
  \/ Crash

Spec == Init /\ [][Next]_vars

(* The event loop goes on with what it awaits, the interval timer fires, ws   *)
(* ends a closing handshake (it has a timeout) and Redis expires its keys.    *)
Fairness ==
  /\ \A k \in Attempts :
       /\ WF_vars(BindSlot(k) \/ BindMember(k) \/ BindExpire(k))
       /\ WF_vars(Heartbeat(k)) /\ WF_vars(SlotLapses(k))
       /\ WF_vars(sock[k].phase = "closing" /\ Closed(k))
  /\ \A u \in Users : WF_vars(SetLapses(u))

FairSpec == Spec /\ Fairness

----------------------------------------------------------------------------
(* A ticket admits one upgrade, however many present it and whenever they are *)
(* interleaved (README: "30-second single-use tickets").                      *)
TicketOnce ==
  \A k, l \in Attempts :
    k # l /\ sock[k].ticket # None => sock[k].ticket # sock[l].ticket

(* Reservations and connections together never exceed the ceilings, in all    *)
(* and per country, but for the connections whose reservation or lease had    *)
(* run out before they were (re)bound: bindConnection does not look at them.  *)
CeilingHolds ==
  LET counted == capacity \ {Connection(k) : k \in overrun}
  IN  /\ Cardinality(counted) <= GlobalCeiling
      /\ \A u \in Users : Cardinality(counted \cap InCountry(CountryOf[u]))
                            <= CountryCeiling[CountryOf[u]]

Live(k) == sock[k].phase = "open"

(* Whoever is revoked does not stay connected, with no help from the event,   *)
(* which may be lost or come before the socket is registered: the holder of a *)
(* session revoked in Redis, a user under a sanction that covers realtime, and*)
(* whoever was connected, or on the way to it, when revokeUser set its key and*)
(* was not restored since.                                                    *)
Doomed(k) == /\ sock[k].phase = "open"
             /\ \/ session[sock[k].session] = "redis"
                \/ UserOf(k) \in restricted
                \/ owed[k] # "no"
RevokedAreCut == \A k \in Attempts : Doomed(k) ~> ~Doomed(k)

(* A connection that is over gives its slot back, whatever died or raced:     *)
(* a bind still under way may take it again, then the lease runs out.         *)
SlotsReturn ==
  \A k \in Attempts :
    (sock[k].phase = "closed") ~> (Connection(k) \notin capacity)

(* A user with no connection left goes offline, though a crash or a late bind *)
(* left members behind, if the set has its TTL (a crash between SADD and the  *)
(* first EXPIRE leaves none).                                                 *)
Gone(u) == \A k \in Attempts : Belongs(k, u) => ~Registered(k)
PresenceEnds ==
  \A u \in Users : (Gone(u) /\ u \in hasTtl) ~> (~isUserOnline(u) \/ ~Gone(u))
=============================================================================
