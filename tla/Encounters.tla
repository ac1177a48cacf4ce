----------------------------- MODULE Encounters -----------------------------
(* The connected encounter of the two users and what hangs on it: its end and *)
(* its duration, the chat, ratings, call cards, reconnect offers, reports,    *)
(* deletion after 48 hours (packages/database/src/social.ts, engagement.ts).  *)
EXTENDS Moderation

VARIABLES encounter,    \* the encounter row
          hidden,       \* users whose participant row is hidden
          ratings,      \* the outcome each user submitted, or None
          reveals,      \* by viewer: why the peer's card may be seen
          offers,       \* the reconnect request of each requester
          maxed,        \* users with the paid call-card entitlement
          chat,         \* the random thread: by client id, the row or None
          chatSequence, \* the match's counter in Redis
          worker        \* the retention pass: next step, ids it chose

chatVars == <<chat, chatSequence>>
encounterVars ==
  <<encounter, hidden, ratings, reveals, offers, maxed, chatVars, worker>>

Outcomes == {"like", "dislike"}
Lasted == {"zero", "short", "long"}

Encounter == [state : {"active", "ended", "gone"},
              participants : BOOLEAN,   \* their rows are still there
              long : BOOLEAN,           \* connected 120 s ago or more
              duration : Lasted, window : {"unset", "open", "closed"},
              visible : BOOLEAN]        \* visibleUntil is ahead
RevealStates == {"subject_consent", "maxed_entitlement", "revoked"}
OfferStates == {"pending", "lapsed", "accepted", "declined", "invalidated"}
RandomMessage == [sender : Users, seq : Reqs]

ASSUME OffersAssumption == None \notin OfferStates

EncounterTypeOK ==
  /\ encounter \in Encounter
  /\ hidden \in SUBSET Users
  /\ ratings \in [Users -> Outcomes \cup {None}]
  /\ reveals \in [Users -> {None} \cup RevealStates]
  /\ offers \in [Users -> {None} \cup OfferStates]
  /\ maxed \in SUBSET Users
  /\ chat \in [Clients -> {None} \cup RandomMessage]
  /\ chatSequence \in 0..MaxRequests

EncounterInit ==
  /\ encounter = [state |-> "active", participants |-> TRUE, long |-> FALSE,
                  duration |-> "zero", window |-> "unset", visible |-> TRUE]
  /\ hidden = {}
  /\ ratings = [u \in Users |-> None]
  /\ reveals = [u \in Users |-> None]
  /\ offers = [u \in Users |-> None]
  /\ maxed \in IF "card" \in workload.ops THEN SUBSET Users ELSE {{}}
  /\ chat = [c \in Clients |-> None] /\ chatSequence = 0
  /\ worker = [pc |-> "idle", got |-> {}]

(* A rating holds the encounter's row from its check to its commit.           *)
EncounterLocked == Some({"insert rating", "read peer", "commit rating"})

Set(changed) == encounter' = changed
Ended == [encounter EXCEPT !.state = "ended"]
(* Mutant: no default for the rating window.                                  *)
FinalizedNull ==
  [encounter EXCEPT !.duration = IF encounter.long THEN "long" ELSE "short",
                    !.window = IF encounter.long THEN "open" ELSE None]

Finalized ==
  [encounter EXCEPT !.duration = IF encounter.long THEN "long" ELSE "short",
                    !.window = IF encounter.long THEN "open" ELSE "unset"]

(* Leaving: end() changes an active row only, finalizeTiming() any.           *)
LeaveStart(r) == \E u \in Users :
  encounter.state # "gone" /\ Begin(r, "leave", u, None, None, "end")

end(r) ==
  /\ At(r, "end") /\ ~EncounterLocked
  /\ Go(r, "timing")
  /\ Set(IF encounter.state = "active" THEN Ended ELSE encounter)

finalizeTiming(r) ==
  /\ At(r, "timing") /\ ~EncounterLocked
  /\ Done(r)
  /\ Set(IF encounter.state = "gone" THEN encounter ELSE Finalized)

Leave(r) == (LeaveStart(r) /\ UNCHANGED encounter) \/ end(r) \/ finalizeTiming(r)

(* chat.send: a number from Redis first, then addRandomMessage().  A client's *)
(* retry of a message repeats its id and is given a number of its own, though *)
(* the row keeps the first.                                                   *)
Kept == {c \in Clients : chat[c] # None}

ChatStart(r) == \E u \in Users, c \in Clients :
  /\ encounter.state = "active" /\ ~restriction(u, "matching")
  /\ \A q \in Reqs : req[q].op = "chat" /\ req[q].arg = c => req[q].by = u
  /\ Begin(r, "chat", u, None, c, "next sequence")
  /\ UNCHANGED chatVars

nextSequence(r) ==
  /\ At(r, "next sequence")
  /\ chatSequence' = chatSequence + 1
  /\ Take(r, "find thread", chatSequence')
  /\ UNCHANGED chat

addRandomMessage(r) ==
  /\ \/ /\ At(r, "find thread")
        /\ IF encounter.state # "gone" /\ encounter.visible
           THEN Go(r, "insert chat") ELSE Refuse(r)
        /\ UNCHANGED chat
     \/ /\ At(r, "insert chat") /\ encounter.state = "gone"
        /\ Answer(r, "failed") /\ UNCHANGED chat
     \/ /\ At(r, "insert chat") /\ encounter.state # "gone"
        /\ Reply(r, "sent", req[r].got)
        /\ chat' = IF req[r].arg \in Kept THEN chat
                   ELSE [chat EXCEPT ![req[r].arg] =
                          [sender |-> req[r].by, seq |-> req[r].got]]
  /\ UNCHANGED chatSequence

Chat(r) == ChatStart(r) \/ nextSequence(r) \/ addRandomMessage(r)

(* What a user may report: the encounter as one of its participants, what the *)
(* other said in its chat; a direct message or a call they may have had.      *)
Reportable(u, about) ==
  /\ about = "encounter" => encounter.participants
  /\ about \in Clients => chat[about] # None /\ chat[about].sender # u

ReportStart(r) == \E u \in Users, about \in ReportOf, leave \in BOOLEAN :
  /\ Reportable(u, about)
  /\ leave => about \in {"encounter", "message"}
  /\ Begin(r, "report", u, about, leave, "look for report")

ReportLook(r) ==
  /\ At(r, "look for report")
  /\ IF reports[req[r].by] # None THEN Done(r)
     ELSE IF Reportable(req[r].by, req[r].on) THEN Go(r, "file report")
     ELSE Refuse(r)
  /\ UNCHANGED <<reports, cases, encounter>>

(* The insert refers to what must still be there.                             *)
Deleted(about) ==
  \/ about \in {"encounter", "message"} /\ encounter.state = "gone"
  \/ about \in Clients /\ chat[about] = None

createReport(r) ==
  LET u == req[r].by
  IN  /\ At(r, "file report")
      /\ IF reports[u] # None \/ Deleted(req[r].on)
         THEN Answer(r, "failed") /\ UNCHANGED <<reports, cases, encounter>>
         ELSE /\ ~(req[r].arg /\ EncounterLocked)
              /\ Done(r)
              /\ reports' = [reports EXCEPT ![u] = req[r].on]
              /\ cases' = [cases EXCEPT ![u] = "open"]
              /\ Set(IF req[r].arg THEN Ended ELSE encounter)

Report(r) ==
  /\ \/ ReportStart(r) /\ UNCHANGED <<reports, cases, encounter>>
     \/ ReportLook(r) \/ createReport(r)
  /\ UNCHANGED <<sanctions, appeals>>

(* rating(): one transaction that holds the encounter's row.                  *)
RateStart(r) == \E u \in Users, outcome \in Outcomes :
  Begin(r, "rate", u, None, outcome, "check rating") /\ UNCHANGED ratings

Eligible ==
  /\ encounter.participants /\ encounter.state # "gone"
  /\ IF encounter.state = "active" THEN encounter.long
     ELSE encounter.duration = "long"
  /\ encounter.window # "closed"

(* Mutant: without the row's lock.                                           *)
RateCheckUnlocked(r) ==
  /\ At(r, "check rating")
  /\ IF Eligible THEN Go(r, "insert rating") ELSE Refuse(r)
  /\ UNCHANGED ratings

RateCheck(r) ==
  /\ At(r, "check rating") /\ ~EncounterLocked
  /\ IF Eligible THEN Go(r, "insert rating") ELSE Refuse(r)
  /\ UNCHANGED ratings

RateInsert(r) ==
  /\ At(r, "insert rating")
  /\ IF ratings[req[r].by] \in {None, req[r].arg} THEN Go(r, "read peer")
     ELSE Refuse(r)
  /\ UNCHANGED ratings

RateReadPeer(r) ==
  /\ At(r, "read peer")
  /\ Take(r, "commit rating",
          IF ratings[peer(req[r].by)] = None THEN "unresolved" ELSE "resolved")
  /\ UNCHANGED ratings

RateCommit(r) ==
  /\ At(r, "commit rating")
  /\ Answer(r, req[r].got)
  /\ ratings' = [ratings EXCEPT ![req[r].by] = req[r].arg]

Rate(r) == \/ RateStart(r) \/ RateCheck(r) \/ RateInsert(r)
           \/ RateReadPeer(r) \/ RateCommit(r)

(* Who may see a card: both take part in the live encounter, neither blocked  *)
(* the other, neither is under a sanction that hides profile or contact.      *)
Hides == {"contact_restriction", "temporary_suspension", "full_ban",
          "profile_removal"}
PeerOK ==
  /\ encounter.participants /\ encounter.state = "active" /\ encounter.visible
  /\ ~hasEitherDirection
  /\ \A u \in Users : activeSanctions(u) \cap Hides = {}

upsertReveal(viewer, source) == reveals' = [reveals EXCEPT ![viewer] = source]

CardStart(r) == \E u \in Users :
  /\ \/ Begin(r, "reveal", u, peer(u), None, "own card")
     \/ Begin(r, "card", u, u, None, "peer's card")
  /\ UNCHANGED reveals

revealOwnCard(r) ==
  \/ /\ At(r, "own card")
     /\ IF PeerOK THEN Go(r, "upsert consent") ELSE Refuse(r)
     /\ UNCHANGED reveals
  \/ /\ At(r, "upsert consent") /\ encounter.state # "gone"
     /\ Go(r, "peer's card")
     /\ upsertReveal(req[r].on, "subject_consent")

authorizeCallCard(r) ==
  LET viewer == req[r].on
  IN  \/ /\ At(r, "peer's card")
         /\ IF PeerOK THEN Go(r, "fetch") ELSE Refuse(r)
         /\ UNCHANGED reveals
      \/ /\ At(r, "fetch")
         /\ \/ reveals[viewer] \notin {None, "revoked"}
               /\ Take(r, "show", reveals[viewer])
            \/ reveals[viewer] \in {None, "revoked"}
               /\ IF viewer \in maxed THEN Go(r, "upsert maxed") ELSE Refuse(r)
         /\ UNCHANGED reveals
      \/ /\ At(r, "upsert maxed") /\ encounter.state # "gone"
         /\ Take(r, "show", "maxed_entitlement")
         /\ upsertReveal(viewer, "maxed_entitlement")
      \/ /\ At(r, "show")
         /\ IF req[r].got = "maxed_entitlement" /\ viewer \notin maxed
            THEN Refuse(r) /\ upsertReveal(viewer, "revoked")
            ELSE Done(r) /\ UNCHANGED reveals

Cards(r) == CardStart(r) \/ revealOwnCard(r) \/ authorizeCallCard(r)

(* Reconnecting after the end.                                                *)
OfferStart(r) == \E u \in Users :
  Begin(r, "offer", u, None, None, "previous encounter") /\ UNCHANGED offers

createReconnect(r) ==
  \/ /\ At(r, "previous encounter")
     /\ IF /\ encounter.state = "ended" /\ encounter.participants
           /\ encounter.duration # "zero" /\ ~hasEitherDirection
        THEN Go(r, "upsert offer") ELSE Refuse(r)
     /\ UNCHANGED offers
  \/ /\ At(r, "upsert offer") /\ encounter.state # "gone"
     /\ Done(r)
     /\ offers' = [offers EXCEPT ![req[r].by] = "pending"]

ResolveStart(r) == \E u \in Users, state \in {"accepted", "declined"} :
  /\ offers[peer(u)] # None
  /\ Begin(r, "answer offer", u, None, state, "eligible pair")
  /\ UNCHANGED offers

resolveReconnect(r) ==
  LET requester == peer(req[r].by)
  IN  \/ /\ At(r, "eligible pair")
         /\ IF hasEitherDirection THEN Refuse(r) ELSE Go(r, "settle offer")
         /\ UNCHANGED offers
      \/ /\ At(r, "settle offer")
         /\ IF offers[requester] = "pending"
            THEN Done(r) /\ offers' = [offers EXCEPT ![requester] = req[r].arg]
            ELSE Refuse(r) /\ UNCHANGED offers

Reconnect(r) == \/ OfferStart(r) \/ createReconnect(r)
                \/ ResolveStart(r) \/ resolveReconnect(r)

(* The statements of a block that are about the encounter.                    *)
BlockHide(r) ==
  /\ At(r, "hide")
  /\ Go(r, "cancel requests")
  /\ hidden' = IF encounter.participants THEN Users ELSE hidden
  /\ UNCHANGED <<reveals, offers>>

RevokeReveals(r) ==
  /\ At(r, "revoke reveals")
  /\ Go(r, "invalidate offers")
  /\ reveals' = [v \in Users |-> IF reveals[v] = None THEN None ELSE "revoked"]
  /\ UNCHANGED <<hidden, offers>>

(* Then the API ends the encounter if the match is still in Redis.            *)
InvalidateOffers(r) ==
  /\ At(r, "invalidate offers")
  /\ Go(r, "end") \/ Done(r)
  /\ offers' = [u \in Users |-> IF offers[u] \in {"pending", "lapsed"}
                                THEN "invalidated" ELSE offers[u]]
  /\ UNCHANGED <<hidden, reveals>>

(* list(): whether the user's history shows the encounter.                    *)
listed(u) == /\ encounter.participants /\ u \notin hidden /\ encounter.visible
             /\ ~hasEitherDirection

hide(r) == \E u \in Users :
  /\ encounter.participants
  /\ Begin(r, "hide", u, None, None, "done")
  /\ hidden' = hidden \cup {u}

(* The worker's first step about these tables: cleanupExpired() chooses what  *)
(* has expired and deletes messages, participants, encounters, each in a      *)
(* statement of its own.  A report's foreign key is set null when what it     *)
(* refers to goes, and a constraint demands that a report refers to something:*)
(* then the statement fails and the pass is aborted.                          *)
Pass(pc) == worker' = [worker EXCEPT !.pc = pc]

Withheld(about) == \E u \in Users : reports[u] \in about
ChatHeld == Withheld(Kept)
Held == ChatHeld \/ Withheld({"encounter"})

SweepStart ==
  /\ worker.pc = "idle" /\ "sweep" \in workload.ops
  /\ worker' = IF encounter.state # "gone" /\ ~encounter.visible
               THEN [pc |-> "messages", got |-> Kept]
               ELSE [pc |-> "requests", got |-> {}]
  /\ UNCHANGED <<encounter, hidden, ratings, reveals, offers, chat, reports>>

DeleteMessages ==
  /\ worker.pc = "messages"
  /\ IF Withheld(worker.got) THEN Pass("idle") /\ UNCHANGED chat
     ELSE /\ Pass("participants")
          /\ chat' = [c \in Clients |-> IF c \in worker.got THEN None ELSE chat[c]]
  /\ UNCHANGED <<encounter, hidden, ratings, reveals, offers, reports>>

DeleteParticipants ==
  /\ worker.pc = "participants"
  /\ Pass("encounters")
  /\ Set([encounter EXCEPT !.participants = FALSE])
  /\ hidden' = {}
  /\ UNCHANGED <<ratings, reveals, offers, chat, reports>>

DeleteEncounters ==
  /\ worker.pc = "encounters" /\ ~EncounterLocked
  /\ IF Held
     THEN Pass("idle") /\ UNCHANGED <<encounter, ratings, reveals, offers, chat>>
     ELSE /\ Pass("requests")
          /\ Set([encounter EXCEPT !.state = "gone"])
          /\ ratings' = [u \in Users |-> None]
          /\ reveals' = [u \in Users |-> None]
          /\ offers' = [u \in Users |-> None]
          /\ chat' = [c \in Clients |-> None]
  /\ UNCHANGED <<hidden, reports>>

cleanupExpired ==
  SweepStart \/ DeleteMessages \/ DeleteParticipants \/ DeleteEncounters

(* Time: the connection lasts, the window closes, the offer lapses, the paid  *)
(* entitlement ends, the 48 hours are over.                                   *)
TwoMinutes ==
  /\ "rate" \in workload.ops /\ ~encounter.long
  /\ Set([encounter EXCEPT !.long = TRUE])
  /\ UNCHANGED <<offers, maxed>>

WindowCloses ==
  /\ "rate" \in workload.ops /\ encounter.state = "ended"
  /\ encounter.window # "closed" /\ ~Some({"timing"})
  /\ Set([encounter EXCEPT !.window = "closed"])
  /\ UNCHANGED <<offers, maxed>>

OfferLapses == \E u \in Users :
  /\ offers[u] = "pending"
  /\ offers' = [offers EXCEPT ![u] = "lapsed"]
  /\ UNCHANGED <<encounter, maxed>>

EntitlementEnds == \E u \in maxed :
  maxed' = maxed \ {u} /\ UNCHANGED <<encounter, offers>>

VisibleUntilPasses ==
  /\ "sweep" \in workload.ops /\ encounter.visible
  /\ encounter.state = "ended"
  /\ Set([encounter EXCEPT !.visible = FALSE])
  /\ UNCHANGED <<offers, maxed>>
=============================================================================
