------------------------ MODULE Connections_proofs ------------------------
(* Proofs about Connections: a ticket admits one upgrade, and the ceilings    *)
(* hold, for any number of users, sessions and attempts.                      *)
EXTENDS Connections, FiniteSetTheorems, TLAPS

(* An attempt that has not begun holds nothing and is counted nowhere.        *)
Begun(k) ==
  /\ sock[k].phase = "idle" => sock[k] = NoSocket
  /\ sock[k].session = None <=> sock[k].phase = "idle"
  /\ sock[k].phase = "idle" =>
       Connection(k) \notin capacity /\ Reservation(k) \notin capacity

(* A ticket in Redis is its attempt's; one that was consumed is gone, and the *)
(* attempt that consumed it holds the same session.                           *)
TicketOf(k) ==
  /\ ticket[k] # None =>
       sock[k].phase = "ticketed" /\ sock[k].session = ticket[k]
  /\ \A l \in Attempts : sock[l].ticket = k =>
       /\ ticket[k] = None /\ sock[k].phase \notin {"idle", "reserved"}
       /\ sock[l].session = sock[k].session

Attempted == TypeOK /\ TicketOnce /\ \A k \in Attempts : Begun(k) /\ TicketOf(k)

----------------------------------------------------------------------------
LEMMA TypeKeeps ==
  ASSUME Attempted, [Next]_vars
  PROVE  TypeOK'
<1> USE NoneAssumption, OwnerAssumption
        DEF TypeOK, Attempted, Phases, revocation, slots, presence,
            Goto, Set, End, Attempt
<1>1. ASSUME NEW k \in Attempts, NEW s \in Sessions, Reserve(k, s) PROVE TypeOK'
  BY <1>1 DEF Reserve, Reservation
<1>2. ASSUME NEW k \in Attempts, Store(k) PROVE TypeOK'
  BY <1>2 DEF Store
<1>3. ASSUME NEW k \in Attempts, TicketExpires(k) PROVE TypeOK'
  BY <1>3 DEF TicketExpires
<1>4. ASSUME NEW k \in Attempts, ReservationLapses(k) PROVE TypeOK'
  BY <1>4 DEF ReservationLapses
<1>5. ASSUME NEW k \in Attempts, NEW t \in Attempts, consumeTicket(k, t) PROVE TypeOK'
  BY <1>5 DEF consumeTicket, Taken
<1>6. ASSUME NEW k \in Attempts, CheckSession(k) PROVE TypeOK'
  BY <1>6 DEF CheckSession
<1>7. ASSUME NEW k \in Attempts, CheckUser(k) PROVE TypeOK'
  BY <1>7 DEF CheckUser
<1>8. ASSUME NEW k \in Attempts, BindSlot(k) PROVE TypeOK'
  BY <1>8 DEF BindSlot, Claim
<1>9. ASSUME NEW k \in Attempts, BindMember(k) PROVE TypeOK'
  BY <1>9 DEF BindMember
<1>10. ASSUME NEW k \in Attempts, BindExpire(k) PROVE TypeOK'
  <2>1. UserOf(k) \in Users
    BY <1>10 DEF BindExpire, Begun, NoSocket, UserOf
  <2> QED BY <1>10, <2>1 DEF BindExpire
<1>11. ASSUME NEW k \in Attempts, Heartbeat(k) PROVE TypeOK'
  BY <1>11 DEF Heartbeat
<1>12. ASSUME NEW k \in Attempts, Close(k) PROVE TypeOK'
  BY <1>12 DEF Close
<1>13. ASSUME NEW k \in Attempts, Closed(k) PROVE TypeOK'
  BY <1>13 DEF Closed, Unmembered, Unslotted
<1>14. ASSUME NEW k \in Attempts, SlotLapses(k) PROVE TypeOK'
  BY <1>14 DEF SlotLapses, Unslotted
<1>15. ASSUME NEW k \in Attempts, Forget(k) PROVE TypeOK'
  BY <1>15 DEF Forget, NoSocket
<1>16. ASSUME NEW s \in Sessions, RevokeSession(s) PROVE TypeOK'
  BY <1>16 DEF RevokeSession
<1>17. ASSUME NEW u \in Users, ApplySanction(u) \/ SanctionEnds(u) \/ ReverseSanction(u)
       PROVE  TypeOK'
  BY <1>17 DEF ApplySanction, SanctionEnds, ReverseSanction
<1>18. ASSUME NEW u \in Users, RevokeUserKey(u) \/ RestoreUser(u) PROVE TypeOK'
  BY <1>18 DEF RevokeUserKey, RestoreUser
<1>19. ASSUME NEW u \in Users, RevokeUserPublish(u) PROVE TypeOK'
  BY <1>19 DEF RevokeUserPublish
<1>20. ASSUME NEW u \in Users, RevokedUserLapses(u) \/ SetLapses(u) PROVE TypeOK'
  BY <1>20 DEF RevokedUserLapses, SetLapses, Unmembered
<1>21. CASE Crash BY <1>21 DEF Crash
<1>22. CASE UNCHANGED vars BY <1>22 DEF vars
<1> QED BY <1>1, <1>2, <1>3, <1>4, <1>5, <1>6, <1>7, <1>8, <1>9, <1>10, <1>11,
           <1>12, <1>13, <1>14, <1>15, <1>16, <1>17, <1>18, <1>19, <1>20, <1>21,
           <1>22 DEF Next, AttemptStep, UserStep
----------------------------------------------------------------------------
(* Most steps leave every attempt its session and its ticket, and only move   *)
(* attempts that are under way on.                                            *)
Mild ==
  /\ \A k \in Attempts :
       /\ sock'[k].session = sock[k].session /\ sock'[k].ticket = sock[k].ticket
       /\ ticket'[k] # None => ticket'[k] = ticket[k]
       /\ \/ sock'[k].phase = sock[k].phase
          \/ /\ sock[k].phase # "idle" /\ ticket'[k] = None
             /\ sock'[k].phase \notin {"idle", "reserved"}
       /\ sock[k].phase = "idle" =>
            /\ sock'[k] = sock[k]
            /\ Connection(k) \in capacity' => Connection(k) \in capacity
            /\ Reservation(k) \in capacity' => Reservation(k) \in capacity

LEMMA MildKeeps ==
  ASSUME Attempted, TypeOK', Mild
  PROVE  Attempted'
<1>1. TicketOnce' BY DEF Attempted, TicketOnce, Mild
<1>2. ASSUME NEW k \in Attempts PROVE Begun(k)' BY DEF Attempted, Mild, Begun
<1>3. ASSUME NEW k \in Attempts PROVE TicketOf(k)' BY DEF Attempted, Mild, TicketOf
<1> QED BY <1>1, <1>2, <1>3 DEF Attempted

LEMMA MildSteps ==
  ASSUME Attempted, [Next]_vars
  PROVE  \/ Mild
         \/ \E k \in Attempts : \/ \E s \in Sessions : Reserve(k, s)
                                \/ \E t \in Attempts : /\ consumeTicket(k, t)
                                                       /\ ticket[t] # None
                                \/ Store(k) \/ Forget(k)
<1> USE NoneAssumption DEF TypeOK, Attempted, Phases, revocation, slots, presence,
            Goto, Set, End, Attempt, NoSocket, Mild, Begun, TicketOf
<1>1. ASSUME NEW k \in Attempts, TicketExpires(k) \/ ReservationLapses(k) PROVE Mild
  BY <1>1 DEF TicketExpires, ReservationLapses
<1>2. ASSUME NEW k \in Attempts, NEW t \in Attempts,
             consumeTicket(k, t), ticket[t] = None
      PROVE Mild
  BY <1>2 DEF consumeTicket, Taken, MayPresent
<1>3. ASSUME NEW k \in Attempts, CheckSession(k) \/ CheckUser(k) PROVE Mild
  BY <1>3 DEF CheckSession, CheckUser
<1>4. ASSUME NEW k \in Attempts, BindSlot(k) PROVE Mild
  BY <1>4 DEF BindSlot, Claim, Connection, Reservation
<1>5. ASSUME NEW k \in Attempts, BindMember(k) \/ BindExpire(k) PROVE Mild
  BY <1>5 DEF BindMember, BindExpire
<1>6. ASSUME NEW k \in Attempts, Heartbeat(k) \/ Close(k) PROVE Mild
  BY <1>6 DEF Heartbeat, Close, Registered
<1>7. ASSUME NEW k \in Attempts, Closed(k) \/ SlotLapses(k) PROVE Mild
  BY <1>7 DEF Closed, SlotLapses, Unslotted, Registered
<1>8. ASSUME NEW s \in Sessions, RevokeSession(s) PROVE Mild
  BY <1>8 DEF RevokeSession
<1>9. ASSUME NEW u \in Users, UserStep(u) PROVE Mild
  <2>1. UNCHANGED <<ticket, capacity>>
    BY <1>9 DEF UserStep, ApplySanction, SanctionEnds, ReverseSanction,
        RevokeUserKey, RevokeUserPublish, RevokedUserLapses, RestoreUser, SetLapses
  <2>2. CASE UNCHANGED sock BY <2>1, <2>2
  <2>3. CASE RevokeUserPublish(u) BY <2>1, <2>3 DEF RevokeUserPublish
  <2> QED BY <1>9, <2>2, <2>3
          DEF UserStep, ApplySanction, SanctionEnds, ReverseSanction,
              RevokeUserKey, RevokedUserLapses, RestoreUser, SetLapses
<1>10. CASE Crash
  <2>1. UNCHANGED <<ticket, capacity>> BY <1>10 DEF Crash
  <2>2. ASSUME NEW k \in Attempts
        PROVE  \/ sock'[k] = sock[k]
               \/ /\ sock[k].phase \notin {"idle", "ticketed"}
                  /\ sock'[k].session = sock[k].session
                  /\ sock'[k].ticket = sock[k].ticket /\ sock'[k].phase = "closed"
    BY <1>10 DEF Crash
  <2> QED BY <2>1, <2>2
<1>11. CASE UNCHANGED vars BY <1>11 DEF vars
<1> HIDE DEF Mild
<1>12. ASSUME NEW k \in Attempts, AttemptStep(k), ~Mild
       PROVE  \/ \E s \in Sessions : Reserve(k, s)
              \/ \E t \in Attempts : consumeTicket(k, t) /\ ticket[t] # None
              \/ Store(k) \/ Forget(k)
  BY <1>1, <1>2, <1>3, <1>4, <1>5, <1>6, <1>7, <1>12 DEF AttemptStep
<1> QED BY <1>8, <1>9, <1>10, <1>11, <1>12 DEF Next

(* The steps that are not mild: an attempt begins, gets its ticket, presents  *)
(* one, or is forgotten.                                                      *)
LEMMA AttemptedKeeps ==
  ASSUME Attempted, [Next]_vars
  PROVE  Attempted'
<1> USE NoneAssumption DEF TypeOK, Attempted, Attempt, NoSocket
<1>t. TypeOK' BY TypeKeeps
<1>1. CASE Mild BY <1>1, <1>t, MildKeeps
<1>2. ASSUME NEW k \in Attempts, NEW s \in Sessions, Reserve(k, s) PROVE Attempted'
  <2>1. /\ UNCHANGED ticket /\ sock[k] = NoSocket
        /\ sock' = [sock EXCEPT ![k] = Attempt("reserved", s, None)]
        /\ \A l \in Attempts \ {k} :
             /\ Connection(l) \in capacity' => Connection(l) \in capacity
             /\ Reservation(l) \in capacity' => Reservation(l) \in capacity
    BY <1>2 DEF Reserve, MayAsk, Reservation, Connection
  <2>2. TicketOnce' BY <2>1 DEF TicketOnce
  <2>3. ASSUME NEW l \in Attempts PROVE Begun(l)' BY <2>1 DEF Begun
  <2>4. ASSUME NEW l \in Attempts PROVE TicketOf(l)' BY <2>1 DEF TicketOf
  <2> QED BY <1>t, <2>2, <2>3, <2>4
<1>3. ASSUME NEW k \in Attempts, Store(k) PROVE Attempted'
  <2>1. /\ UNCHANGED capacity /\ sock[k].phase = "reserved"
        /\ sock' = [sock EXCEPT ![k]["phase"] = "ticketed"]
        /\ ticket' = [ticket EXCEPT ![k] = sock[k].session]
    BY <1>3 DEF Store, Goto, Set, slots
  <2>2. TicketOnce' BY <2>1 DEF TicketOnce
  <2>3. ASSUME NEW l \in Attempts PROVE Begun(l)' BY <2>1 DEF Begun
  <2>4. ASSUME NEW l \in Attempts PROVE TicketOf(l)' BY <2>1 DEF TicketOf
  <2> QED BY <1>t, <2>2, <2>3, <2>4
<1>4. ASSUME NEW k \in Attempts, NEW t \in Attempts,
             consumeTicket(k, t), ticket[t] # None
      PROVE  Attempted'
  <2>1. /\ UNCHANGED capacity /\ MayPresent(k, t)
        /\ sock' = [sock EXCEPT ![k] = Attempt("consumed", ticket[t], t)]
        /\ ticket' = [ticket EXCEPT ![t] = None]
    BY <1>4 DEF consumeTicket, Taken, slots
  <2>2. /\ sock[k].phase \in {"idle", "ticketed"} /\ (sock[k].phase = "idle" <=> t # k)
        /\ ticket[t] = sock[t].session /\ sock[t].phase = "ticketed"
    BY <1>4, <2>1 DEF MayPresent, TicketOf, Begun
  <2>3. \A l \in Attempts : sock[l].ticket # t /\ sock[l].ticket # k
    BY <1>4, <2>2 DEF TicketOf
  <2>4. TicketOnce' BY <2>1, <2>3 DEF TicketOnce
  <2>5. ASSUME NEW l \in Attempts PROVE Begun(l)' BY <1>4, <2>1, <2>2 DEF Begun
  <2>6. ASSUME NEW l \in Attempts PROVE TicketOf(l)'
    <3>1. CASE l = t BY <1>4, <2>1, <2>2, <2>3, <3>1 DEF TicketOf
    <3>2. CASE l # t /\ l = k BY <1>4, <2>1, <2>2, <2>3, <3>2 DEF TicketOf, Begun
    <3>3. CASE l # t /\ l # k BY <1>4, <2>1, <2>2, <2>3, <3>3 DEF TicketOf
    <3> QED BY <3>1, <3>2, <3>3
  <2> QED BY <1>t, <2>4, <2>5, <2>6
<1>5. ASSUME NEW k \in Attempts, Forget(k) PROVE Attempted'
  <2>1. /\ UNCHANGED <<ticket, capacity>> /\ sock[k].phase = "closed"
        /\ capacity \cap {Connection(k), Reservation(k)} = {}
        /\ \A l \in Attempts \ {k} : sock[l].ticket # k
        /\ sock' = [sock EXCEPT ![k] = NoSocket]
    BY <1>5 DEF Forget, slots
  <2>2. TicketOnce' BY <2>1 DEF TicketOnce
  <2>3. ASSUME NEW l \in Attempts PROVE Begun(l)' BY <2>1 DEF Begun
  <2>4. ASSUME NEW l \in Attempts PROVE TicketOf(l)' BY <2>1 DEF TicketOf
  <2> QED BY <1>t, <2>2, <2>3, <2>4
<1> QED BY <1>1, <1>2, <1>3, <1>4, <1>5, MildSteps

LEMMA AttemptedHolds == Spec => []Attempted
<1>1. Init => Attempted
  <2> SUFFICES ASSUME Init PROVE Attempted OBVIOUS
  <2> USE NoneAssumption DEF Init, NoSocket, Attempt
  <2>1. TypeOK BY DEF TypeOK, Phases
  <2>2. TicketOnce BY DEF TicketOnce
  <2>3. ASSUME NEW k \in Attempts PROVE Begun(k) /\ TicketOf(k)
    BY DEF Begun, TicketOf
  <2> QED BY <2>1, <2>2, <2>3 DEF Attempted
<1> QED BY <1>1, AttemptedKeeps, PTL DEF Spec

(* Every variable keeps its type.                                             *)
THEOREM ConnectionsTypeOK == Spec => []TypeOK
<1>1. Attempted => TypeOK BY DEF Attempted
<1> QED BY <1>1, AttemptedHolds, PTL

(* A ticket admits one upgrade, for any number of attempts that present it,   *)
(* of handlers that died and of tickets that ran out (consumeTicket: GETDEL). *)
THEOREM TicketsAdmitOnce == Spec => []TicketOnce
<1>1. Attempted => TicketOnce BY DEF Attempted
<1> QED BY <1>1, AttemptedHolds, PTL

----------------------------------------------------------------------------
(* What the ceilings are compared with: the members of the capacity sets that *)
(* came in by a reservation, in all and of one country.                       *)
Counted == capacity \ {Connection(k) : k \in overrun}
Home(mem) == CountryOf[UserOf(mem[2])]
CountedIn(c) == {mem \in Counted : Home(mem) = c}
Within(S, n) == IsFiniteSet(S) /\ Cardinality(S) <= n

Ceilings ==
  /\ IsFiniteSet(capacity)
  /\ Within(Counted, GlobalCeiling)
  /\ \A u \in Users : Within(CountedIn(CountryOf[u]), CountryCeiling[CountryOf[u]])

LEMMA FewerWithin ==
  ASSUME NEW S, NEW n \in Nat, Within(S, n), NEW T, T \subseteq S
  PROVE  Within(T, n)
<1>1. T \in SUBSET S OBVIOUS
<1> QED BY <1>1, FS_Subset, FS_CardinalityType DEF Within

LEMMA OneMoreWithin ==
  ASSUME NEW S, IsFiniteSet(S), NEW n \in Nat, Cardinality(S) < n,
         NEW x, NEW T, T \subseteq S \cup {x}
  PROVE  Within(T, n)
<1>1. /\ IsFiniteSet(S \cup {x}) /\ Cardinality(S) \in Nat
      /\ Cardinality(S \cup {x}) = IF x \in S THEN Cardinality(S) ELSE Cardinality(S) + 1
  BY FS_AddElement, FS_CardinalityType
<1>2. Cardinality(S \cup {x}) <= n BY <1>1
<1>3. Within(S \cup {x}, n) BY <1>1, <1>2 DEF Within
<1> QED BY <1>3, FewerWithin

LEMMA SwapWithin ==
  ASSUME NEW S, NEW n \in Nat, Within(S, n), NEW y, y \in S,
         NEW x, NEW T, T \subseteq (S \ {y}) \cup {x}
  PROVE  Within(T, n)
<1>1. /\ IsFiniteSet(S \ {y}) /\ Cardinality(S \ {y}) = Cardinality(S) - 1
      /\ Cardinality(S) \in Nat /\ Cardinality(S) <= n
  BY FS_RemoveElement, FS_CardinalityType DEF Within
<1>2. Cardinality(S \ {y}) < n BY <1>1
<1> QED BY <1>1, <1>2, OneMoreWithin

(* A step that lets no one new in and moves nobody keeps the ceilings.        *)
LEMMA NoneNewKeeps ==
  ASSUME Ceilings, CeilingAssumption, IsFiniteSet(capacity'), Counted' \subseteq Counted,
         \A mem \in Counted' : Home(mem)' = Home(mem)
  PROVE  Ceilings'
<1>1. Within(Counted, GlobalCeiling)' BY FewerWithin DEF Ceilings, CeilingAssumption
<1>2. ASSUME NEW u \in Users
      PROVE  Within(CountedIn(CountryOf[u]), CountryCeiling[CountryOf[u]])'
  <2>1. CountedIn(CountryOf[u])' \subseteq CountedIn(CountryOf[u]) BY DEF CountedIn
  <2> QED BY <2>1, FewerWithin DEF Ceilings, CeilingAssumption
<1> QED BY <1>1, <1>2 DEF Ceilings

(* Only the script of a ticket lets one in, and it compares first.            *)
LEMMA ReserveKeeps ==
  ASSUME Attempted, Ceilings, CeilingAssumption,
         NEW k \in Attempts, NEW s \in Sessions, Reserve(k, s)
  PROVE  Ceilings'
<1> DEFINE new == Reservation(k)
<1>1. /\ capacity' = capacity \cup {new} /\ overrun' = overrun /\ RoomFor(Owner[s])
      /\ sock[k].phase = "idle" /\ k \in Attempts
      /\ sock' = [sock EXCEPT ![k] = Attempt("reserved", s, None)]
  BY DEF Reserve, MayAsk, NoSocket, Attempt
<1>2. IsFiniteSet(capacity') BY <1>1, FS_AddElement DEF Ceilings
<1>3. Counted' \subseteq Counted \cup {new} /\ Counted \subseteq capacity
  BY <1>1 DEF Counted
<1>4. Home(new)' = CountryOf[Owner[s]]
  BY <1>1 DEF Home, UserOf, Reservation, Attempted, TypeOK, Attempt
<1>5. \A mem \in capacity : Home(mem)' = Home(mem) /\ mem[2] \in Attempts
  <2> SUFFICES ASSUME NEW mem \in capacity
               PROVE  Home(mem)' = Home(mem) /\ mem[2] \in Attempts OBVIOUS
  <2>1. PICK l \in Attempts : mem = Reservation(l) \/ mem = Connection(l)
    BY DEF Attempted, TypeOK
  <2>2. mem[2] = l BY <2>1 DEF Reservation, Connection
  <2>3. l # k BY <1>1, <2>1 DEF Attempted, Begun
  <2> QED BY <1>1, <2>2, <2>3 DEF Home, UserOf, Attempted, TypeOK
<1>6. Within(Counted, GlobalCeiling)'
  <2>1. Cardinality(capacity) < GlobalCeiling BY <1>1 DEF RoomFor
  <2>2. Counted' \subseteq capacity \cup {new} BY <1>3
  <2> QED BY <2>1, <2>2, OneMoreWithin DEF Ceilings, CeilingAssumption
<1>7. ASSUME NEW u \in Users
      PROVE  Within(CountedIn(CountryOf[u]), CountryCeiling[CountryOf[u]])'
  <2> DEFINE c == CountryOf[u]
  <2>1. CASE c = CountryOf[Owner[s]]
    <3>1. Cardinality(InCountry(c)) < CountryCeiling[c] BY <1>1, <2>1 DEF RoomFor
    <3>2. InCountry(c) \subseteq capacity BY DEF InCountry
    <3>3. IsFiniteSet(InCountry(c)) BY <3>2, FS_Subset DEF Ceilings
    <3>4. CountedIn(c)' \subseteq InCountry(c) \cup {new}
      BY <1>3, <1>5 DEF CountedIn, InCountry, Home
    <3> QED BY <3>1, <3>3, <3>4, OneMoreWithin DEF CeilingAssumption
  <2>2. CASE c # CountryOf[Owner[s]]
    <3>1. CountedIn(c)' \subseteq CountedIn(c)
      BY <1>3, <1>4, <1>5, <2>2 DEF CountedIn
    <3> QED BY <3>1, FewerWithin DEF Ceilings, CeilingAssumption
  <2> QED BY <2>1, <2>2
<1> QED BY <1>2, <1>6, <1>7 DEF Ceilings

(* The transaction of a bind swaps the reservation, or the connection's older *)
(* member, for the connection's; when neither is left, the newcomer is not    *)
(* counted any more.                                                          *)
LEMMA BindKeeps ==
  ASSUME Attempted, Ceilings, CeilingAssumption, NEW k \in Attempts, BindSlot(k)
  PROVE  Ceilings'
<1> DEFINE new == Connection(k)
<1>1. /\ capacity' = (capacity \ Claim(k)) \cup {new}
      /\ overrun' = IF Claim(k) \cap capacity = {} THEN overrun \cup {k} ELSE overrun
      /\ sock[k].bind = "slot"
      /\ \A l \in Attempts : sock'[l].session = sock[l].session
  BY DEF BindSlot, Set, Attempted, TypeOK
<1>2. IsFiniteSet(capacity')
  <2>1. capacity \ Claim(k) \in SUBSET capacity OBVIOUS
  <2>2. IsFiniteSet(capacity \ Claim(k)) BY <2>1, FS_Subset DEF Ceilings
  <2> QED BY <1>1, <2>2, FS_AddElement
<1>3. ASSUME NEW mem \in capacity \cup {new} PROVE Home(mem)' = Home(mem)
  <2>1. PICK l \in Attempts : mem = Reservation(l) \/ mem = Connection(l)
    BY DEF Attempted, TypeOK
  <2>2. mem[2] = l BY <2>1 DEF Reservation, Connection
  <2> QED BY <1>1, <2>2 DEF Home, UserOf
<1>4. CASE k \in overrun'
  <2>1. Counted' \subseteq Counted BY <1>1, <1>4 DEF Counted
  <2> QED BY <1>2, <1>3, <2>1, NoneNewKeeps DEF Counted
<1>5. CASE k \notin overrun'
  <2>1. PICK old \in Claim(k) \cap capacity : TRUE BY <1>1, <1>5
  <2>2. old \in Counted
    <3>1. old = Connection(k) \/ old = Reservation(sock[k].ticket) BY DEF Claim
    <3>2. \A l \in overrun : Reservation(sock[k].ticket) # Connection(l)
      BY DEF Reservation, Connection
    <3>3. \A l \in overrun : Connection(k) # Connection(l) BY <1>1, <1>5 DEF Connection
    <3> QED BY <3>1, <3>2, <3>3 DEF Counted
  <2>3. Home(old) = Home(new)
    <3>1. CASE old = Connection(k) BY <3>1
    <3>2. CASE old = Reservation(sock[k].ticket)
      <4>1. PICK l \in Attempts : old = Reservation(l) \/ old = Connection(l)
        BY DEF Attempted, TypeOK
      <4>2. l = sock[k].ticket BY <3>2, <4>1 DEF Reservation, Connection
      <4>3. sock[l].session = sock[k].session BY <4>2 DEF Attempted, TicketOf
      <4>4. old[2] = l /\ new[2] = k BY <3>2, <4>2 DEF Reservation, Connection
      <4> QED BY <4>3, <4>4 DEF Home, UserOf
    <3> QED BY <3>1, <3>2 DEF Claim
  <2>4. Counted' \subseteq (Counted \ {old}) \cup {new} BY <1>1, <1>5, <2>1 DEF Counted
  <2>5. Within(Counted, GlobalCeiling)'
    BY <2>2, <2>4, SwapWithin DEF Ceilings, CeilingAssumption
  <2>6. ASSUME NEW u \in Users
        PROVE  Within(CountedIn(CountryOf[u]), CountryCeiling[CountryOf[u]])'
    <3> DEFINE c == CountryOf[u]
    <3>1. \A mem \in Counted' : Home(mem)' = Home(mem) BY <1>1, <1>3 DEF Counted
    <3>2. CASE Home(new) = c
      <4>1. old \in CountedIn(c) BY <2>2, <2>3, <3>2 DEF CountedIn
      <4>2. CountedIn(c)' \subseteq (CountedIn(c) \ {old}) \cup {new}
        BY <2>4, <3>1 DEF CountedIn
      <4> QED BY <4>1, <4>2, SwapWithin DEF Ceilings, CeilingAssumption
    <3>3. CASE Home(new) # c
      <4>1. CountedIn(c)' \subseteq CountedIn(c) BY <2>4, <3>1, <3>3 DEF CountedIn
      <4> QED BY <4>1, FewerWithin DEF Ceilings, CeilingAssumption
    <3> QED BY <3>2, <3>3
  <2> QED BY <1>2, <2>5, <2>6 DEF Ceilings
<1> QED BY <1>4, <1>5

(* Every other step lets no one in.                                           *)
LEMMA OthersLeave ==
  ASSUME Attempted, [Next]_vars,
         \A k \in Attempts : ~BindSlot(k) /\ \A s \in Sessions : ~Reserve(k, s)
  PROVE  capacity' \subseteq capacity /\ Counted' \subseteq Counted
<1> USE DEF slots, Counted
<1>1. CASE UNCHANGED slots BY <1>1
<1>2. ASSUME NEW k \in Attempts, ReservationLapses(k)
      PROVE  capacity' \subseteq capacity /\ Counted' \subseteq Counted
  BY <1>2 DEF ReservationLapses
<1>3. ASSUME NEW k \in Attempts, Closed(k) \/ SlotLapses(k)
      PROVE  capacity' \subseteq capacity /\ Counted' \subseteq Counted
  BY <1>3 DEF Closed, SlotLapses, Unslotted
<1>4. ASSUME NEW k \in Attempts, AttemptStep(k)
      PROVE  capacity' \subseteq capacity /\ Counted' \subseteq Counted
  BY <1>1, <1>2, <1>3, <1>4
     DEF AttemptStep, Store, TicketExpires, consumeTicket, CheckSession, CheckUser,
         BindMember, BindExpire, Heartbeat, Close, Forget
<1>5. ASSUME NEW u \in Users, UserStep(u) PROVE UNCHANGED slots
  BY <1>5 DEF UserStep, ApplySanction, SanctionEnds, ReverseSanction,
     RevokeUserKey, RevokeUserPublish, RevokedUserLapses, RestoreUser, SetLapses
<1>6. ASSUME NEW s \in Sessions, RevokeSession(s) PROVE UNCHANGED slots
  BY <1>6 DEF RevokeSession
<1>7. CASE Crash BY <1>7 DEF Crash
<1>8. CASE UNCHANGED vars BY <1>8 DEF vars
<1> QED BY <1>1, <1>4, <1>5, <1>6, <1>7, <1>8 DEF Next

LEMMA CountedStay ==
  ASSUME Attempted, [Next]_vars, \A k \in Attempts : \A s \in Sessions : ~Reserve(k, s),
         NEW mem \in capacity, mem \in capacity'
  PROVE  Home(mem)' = Home(mem)
<1>1. PICK l \in Attempts : mem = Reservation(l) \/ mem = Connection(l)
  BY DEF Attempted, TypeOK
<1>2. mem[2] = l BY <1>1 DEF Reservation, Connection
<1>3. sock[l].phase # "idle" BY <1>1 DEF Attempted, Begun
<1> SUFFICES sock'[l].session = sock[l].session BY <1>2 DEF Home, UserOf
<1>4. CASE Mild BY <1>4 DEF Mild
<1>5. ASSUME NEW k \in Attempts, NEW t \in Attempts, consumeTicket(k, t), ticket[t] # None
      PROVE  sock'[l].session = sock[l].session
  <2>1. sock' = [sock EXCEPT ![k] = Attempt("consumed", ticket[t], t)] /\ MayPresent(k, t)
    BY <1>5 DEF consumeTicket
  <2>2. CASE l = k
    <3>1. t = k BY <1>3, <2>1, <2>2 DEF MayPresent, NoSocket, Attempt
    <3>2. ticket[t] = sock[k].session BY <1>5, <3>1 DEF Attempted, TicketOf
    <3> QED BY <2>1, <2>2, <3>2 DEF Attempt, Attempted, TypeOK
  <2> QED BY <2>1, <2>2 DEF Attempted, TypeOK
<1>6. ASSUME NEW k \in Attempts, Store(k) PROVE sock'[l].session = sock[l].session
  BY <1>6 DEF Store, Goto, Set, Attempted, TypeOK
<1>7. ASSUME NEW k \in Attempts, Forget(k) PROVE sock'[l].session = sock[l].session
  <2>1. l # k BY <1>1, <1>7 DEF Forget
  <2> QED BY <1>7, <2>1 DEF Forget, Attempted, TypeOK
<1> QED BY <1>4, <1>5, <1>6, <1>7, MildSteps

LEMMA CeilingsKeep ==
  ASSUME Attempted, Ceilings, CeilingAssumption, [Next]_vars
  PROVE  Ceilings'
<1>1. ASSUME NEW k \in Attempts, NEW s \in Sessions, Reserve(k, s) PROVE Ceilings'
  BY <1>1, ReserveKeeps
<1>2. ASSUME NEW k \in Attempts, BindSlot(k) PROVE Ceilings' BY <1>2, BindKeeps
<1>3. CASE \A k \in Attempts : ~BindSlot(k) /\ \A s \in Sessions : ~Reserve(k, s)
  <2>1. capacity' \subseteq capacity /\ Counted' \subseteq Counted BY <1>3, OthersLeave
  <2>2. capacity' \in SUBSET capacity BY <2>1
  <2>3. IsFiniteSet(capacity') BY <2>2, FS_Subset DEF Ceilings
  <2>4. \A mem \in Counted' : mem \in capacity /\ mem \in capacity' BY <2>1 DEF Counted
  <2>5. \A mem \in Counted' : Home(mem)' = Home(mem) BY <1>3, <2>4, CountedStay
  <2> QED BY <2>1, <2>3, <2>5, NoneNewKeeps
<1> QED BY <1>1, <1>2, <1>3

(* The ceilings hold, in all and per country, for any number of attempts, of  *)
(* crashes and of lapses: the script of a ticket compares before it reserves, *)
(* and a bind swaps what was reserved (createTicket, bindConnection).         *)
THEOREM CeilingsHold == Spec => []CeilingHolds
<1>1. Init => Ceilings
  <2> SUFFICES ASSUME Init PROVE Ceilings OBVIOUS
  <2>1. capacity = {} /\ Counted = {} /\ \A c : CountedIn(c) = {}
    BY DEF Init, Counted, CountedIn
  <2> QED BY <2>1, FS_EmptySet, CeilingAssumption DEF Ceilings, Within
<1>2. Attempted /\ Ceilings /\ [Next]_vars => Ceilings'
  BY CeilingsKeep, CeilingAssumption
<1>3. Ceilings => CeilingHolds
  <2> SUFFICES ASSUME Ceilings PROVE CeilingHolds OBVIOUS
  <2>1. \A u \in Users : Counted \cap InCountry(CountryOf[u]) = CountedIn(CountryOf[u])
    BY DEF Counted, CountedIn, InCountry, Home
  <2>2. Counted = capacity \ {Connection(k) : k \in overrun} BY DEF Counted
  <2> HIDE DEF Counted
  <2> QED BY <2>1, <2>2 DEF CeilingHolds, Ceilings, Within
<1> QED BY <1>1, <1>2, <1>3, AttemptedHolds, PTL DEF Spec
=============================================================================
