------------------------------- MODULE Social -------------------------------
(* The two users' encounter, reports, friendship, blocks and messages         *)
(* together, with the staff, the passing of time and the retention pass of    *)
(* apps/api/src/worker.ts.  A behaviour is one of the Workloads: what may     *)
(* happen in it and what there is at the start.                               *)
EXTENDS Messages

vars == <<requestVars, moderationVars, encounterVars, friendVars, messageVars>>

TypeOK ==
  /\ workload \in Workloads
  /\ blocks \in [Users -> Reqs \cup {None}]
  /\ overtaken \in SUBSET Reqs
  /\ \A r \in Reqs : DOMAIN req[r] = DOMAIN Unused
  /\ worker.pc \in {"idle", "messages", "participants", "encounters", "requests",
                    "expire requests", "purge requests", "calls", "sanctions"}
  /\ worker.got \in (SUBSET Ids) \cup (SUBSET Clients)
  /\ ModerationTypeOK /\ EncounterTypeOK /\ FriendTypeOK /\ MessageTypeOK

Init ==
  /\ workload \in Workloads
  /\ req = [r \in Reqs |-> Unused]
  /\ blocks = [u \in Users |-> None]
  /\ overtaken = {}
  /\ ModerationInit /\ EncounterInit /\ FriendInit /\ MessageInit

NoBlock == UNCHANGED <<blocks, overtaken, workload>>

OfMeeting(r) ==
  \/ Leave(r) /\ UNCHANGED <<hidden, ratings, reveals, offers, moderationVars>>
  \/ Report(r) /\ UNCHANGED <<hidden, ratings, reveals, offers>>
  \/ Rate(r) /\ UNCHANGED <<encounter, hidden, reveals, offers, moderationVars>>
  \/ Cards(r) /\ UNCHANGED <<encounter, hidden, ratings, offers, moderationVars>>
  \/ Reconnect(r)
     /\ UNCHANGED <<encounter, hidden, ratings, reveals, moderationVars>>
  \/ hide(r) /\ UNCHANGED <<encounter, ratings, reveals, offers, moderationVars>>
  \/ (BlockHide(r) \/ RevokeReveals(r) \/ InvalidateOffers(r))
     /\ UNCHANGED <<encounter, ratings, moderationVars>>

OfEncounter(r) ==
  /\ NoBlock /\ UNCHANGED <<maxed, worker, friendVars, messageVars>>
  /\ \/ Chat(r) /\ UNCHANGED <<encounter, hidden, ratings, reveals, offers,
                                moderationVars>>
     \/ OfMeeting(r) /\ UNCHANGED chatVars

OfFriends(r) ==
  /\ UNCHANGED <<workload, moderationVars, encounterVars, messageVars>>
  /\ \/ /\ \/ createRequest(r) \/ createFriendship(r) \/ resolve(r)
           \/ Deadlock(r) \/ unfriend(r) \/ CancelRequests(r) \/ EndFriendship(r)
        /\ UNCHANGED <<blocks, overtaken>>
     \/ (BlockStart(r) \/ BlockRow(r) \/ remove(r)) /\ UNCHANGED friendVars

OfMessages(r) ==
  /\ NoBlock /\ UNCHANGED <<moderationVars, encounterVars, friendVars>>
  /\ \/ send(r) /\ UNCHANGED readSequence
     \/ deleteMessage(r) \/ markRead(r)

Staffed ==
  /\ "staff" \in workload.ops /\ StaffStep
  /\ UNCHANGED <<requestVars, encounterVars, friendVars, messageVars>>

Time ==
  /\ UNCHANGED <<requestVars, messageVars, hidden, ratings, reveals, chatVars,
                 worker>>
  /\ \/ /\ \/ TwoMinutes \/ WindowCloses \/ OfferLapses \/ EntitlementEnds
           \/ VisibleUntilPasses /\ Live = {}
        /\ UNCHANGED <<moderationVars, friendVars>>
     \/ (\E a \in SanctionIds : EndsAtPasses(a))
        /\ UNCHANGED <<encounter, offers, maxed, friendVars>>
     \/ RequestAges /\ UNCHANGED <<encounter, offers, maxed, moderationVars>>

(* cleanupCalls: from the 90th day of a call that a report refers to alone    *)
(* this step fails in every pass.                                             *)
CallHeld == Withheld({"call"})
CleanupCalls ==
  /\ worker.pc = "calls"
  /\ Pass("sanctions") \/ (CallHeld /\ Pass("idle"))
  /\ UNCHANGED <<encounter, hidden, ratings, reveals, offers, maxed, chatVars,
                 moderationVars>>

ExpireSanctions ==
  /\ worker.pc = "sanctions" /\ Pass("idle")
  /\ expire
  /\ UNCHANGED <<encounter, hidden, ratings, reveals, offers, maxed, chatVars>>

RetentionPass ==
  /\ UNCHANGED <<requestVars, messageVars>>
  /\ \/ /\ cleanupExpired
        /\ UNCHANGED <<maxed, chatSequence, cases, sanctions, appeals, friendVars>>
     \/ /\ cleanup
        /\ UNCHANGED <<encounter, hidden, ratings, reveals, offers, maxed,
                       chatVars, moderationVars>>
     \/ (CleanupCalls \/ ExpireSanctions) /\ UNCHANGED friendVars

Step(r) == OfEncounter(r) \/ OfFriends(r) \/ OfMessages(r)

Next ==
  \/ \E r \in Reqs :
       \/ Step(r)
       \/ Die(r) /\ UNCHANGED <<moderationVars, encounterVars, friendVars,
                               messageVars>>
  \/ Staffed \/ Time \/ RetentionPass

Spec == Init /\ [][Next]_vars

(* A handler that began goes on, and the worker's timer starts pass after     *)
(* pass; nobody is bound to begin a request, and time may stand still.        *)
Going(r) == req[r].pc \notin {"new", "done"} /\ Step(r)
FairSpec ==
  Spec /\ WF_vars(RetentionPass) /\ \A r \in Reqs : WF_vars(Going(r))
-----------------------------------------------------------------------------
(* Once a block request has answered, and as long as its row stands, the pair *)
(* has no active friendship, and what is still pending or revealed was        *)
(* written by a request that had passed its check when the row came (the      *)
(* statements of blocks.create and revokePair, against the locks of           *)
(* createRequest and resolve).  And the encounter is in neither's history     *)
(* again, not even when the block is lifted: both rows were hidden.           *)
InForce(u) == blocks[u] # None /\ req[blocks[u]].pc = "done"
                               /\ req[blocks[u]].answer # "lost"
Overtook(ops) == \E r \in overtaken : req[r].op \in ops
BlockSettles ==
  /\ (\E u \in Users : InForce(u)) =>
       /\ ~ActiveFriends
       /\ Pending \subseteq overtaken
       /\ (\E v \in Users : reveals[v] \notin {None, "revoked"})
            => Overtook({"reveal", "card"})
       /\ (\E u \in Users : offers[u] = "pending") => Overtook({"offer"})
  /\ (\E r \in Reqs : req[r].op = "block" /\ req[r].answer = "ok") =>
       \A u \in Users : ~listed(u)

(* There is one live request between the two at most, in one direction, and   *)
(* none between friends (unless the one they accepted ran out on the way, and *)
(* was perhaps marked expired): what the pair's lock in createRequest is for. *)
RequestsAgree ==
  /\ \A i, j \in Live : i = j
  /\ ActiveFriends /\ Live # {} =>
       \E i \in Ids : asked[i] # None /\ asked[i].state \in {"accepted", "expired"}
                      /\ asked[i].age # "fresh"

(* No send and no friendship is turned down by a unique index: two tabs, a    *)
(* retry racing its first attempt or two friends writing at once are kept     *)
(* apart by the advisory locks; every retry gets its message's number, and a  *)
(* message about to be stored adds one to what each member has yet to read,   *)
(* however far they read meanwhile.                                           *)
NoCollision ==
  /\ \A r \in Reqs : req[r].answer # "collision"
  /\ \A r, q \in {r \in Reqs : req[r].op = "send" /\ req[r].answer = "sent"} :
       req[r].on = req[q].on =>
         (req[r].got = req[q].got <=> req[r].arg = req[q].arg)
  /\ \A r \in Reqs : At(r, "store") => \A u \in Users :
       req[r].got = readSequence[<<req[r].on, u>>] + unread(req[r].on, u) + 1

(* A friend request that was answered or ran out keeps that answer until it   *)
(* is purged; only the worker may write over it, and only a row it had chosen *)
(* while it was pending (cleanup updates by id, whatever the state is then).  *)
SettledStays == [][
  \A i \in Ids : asked[i] # None /\ asked[i].state \in Answered =>
    \/ asked'[i] = None
    \/ asked'[i].state = asked[i].state
    \/ i \in worker.got /\ asked'[i].state = "expired"]_vars

(* When both have rated, at least one of them was told the other's outcome,   *)
(* unless that answer was lost: the row lock of rating().                     *)
SomeoneIsTold ==
  /\ encounter.state # "gone" /\ \A u \in Users : ratings[u] # None
  => \E r \in Reqs : req[r].op = "rate" /\ req[r].answer \in {"resolved", "lost"}

(* The retention pass gets to its end again and again, unless a report holds  *)
(* back what one of its steps deletes: requests that ran out do not stay      *)
(* pending unless a report of the encounter or its chat stops the pass before *)
(* them, nor lapsed sanctions active unless that or a report of a call does;  *)
(* and the random chat goes after its 48 hours unless one of its messages was *)
(* reported alone (cleanupExpired deletes the messages first).                *)
RetentionRuns ==
  "sweep" \in workload.ops =>
    /\ Pending \ Live # {} ~> Pending \ Live = {} \/ Held
    /\ Lapsed # {} ~> Lapsed = {} \/ Held \/ CallHeld
    /\ ~encounter.visible ~> Kept = {} \/ ChatHeld

(* An encounter is deleted after its 48 hours, reported or not: "A report ... *)
(* never holds the random thread open"                                        *)
(* (docs/architecture/unit-12-13-encounters-blocks.md).                       *)
ReportedAreDeleted == ~encounter.visible ~> encounter.state = "gone"
=============================================================================
