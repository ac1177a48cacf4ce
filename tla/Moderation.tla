----------------------------- MODULE Moderation -----------------------------
(* Reports, cases, sanctions and appeals: packages/database/src/moderation.ts.*)
(* Every operation of the staff is one database transaction; audit rows and   *)
(* priorities are left out.  What a sanction does to a live connection or a   *)
(* match is modelled by Connections and MatchLeases.                          *)
EXTENDS Requests

CONSTANTS Staff, SanctionIds, Types,
          Rank,         \* a staff member's role: 1 support .. 4 superadmin
          Clients       \* the message ids clients choose

ASSUME RankAssumption == Rank \in [Staff -> 1..4]

VARIABLES reports,      \* what the report of each user refers to, or None
          cases,        \* the case of each user's report
          sanctions,    \* the row of each sanction, or None
          appeals       \* the appeal of each sanction

moderationVars == <<reports, cases, sanctions, appeals>>

Moderator == 2
Admin == 3

Sanction == [subject : Users, type : Types, actor : Staff,
             permanent : BOOLEAN,
             state : {"active", "lapsed", "reversed", "expired"}]

ASSUME SanctionAssumption == None \notin Sanction

(* The encounter alone, or beside it a direct message, which is never deleted *)
(* (a message of its chat beside it goes first and leaves the encounter       *)
(* alone); one message of its chat alone; or a call of the two alone.         *)
ReportOf == {"encounter", "message", "call"} \cup Clients
ASSUME ReportAssumption == Clients \cap {"encounter", "message", "call"} = {}
CaseStates == {"open", "reviewing"}     \* no code ever resolves one
AppealStates == {"submitted", "upheld", "granted"}

ModerationTypeOK ==
  /\ reports \in [Users -> {None} \cup ReportOf]
  /\ cases \in [Users -> {None} \cup CaseStates]
  /\ sanctions \in [SanctionIds -> Sanction \cup {None}]
  /\ appeals \in [SanctionIds -> {None} \cup AppealStates]

ModerationInit ==
  /\ reports = [u \in Users |-> None]
  /\ cases = [u \in Users |-> None]
  /\ sanctions = [a \in SanctionIds |-> None]
  /\ appeals = [a \in SanctionIds |-> None]

Issued == {a \in SanctionIds : sanctions[a] # None}

(* A row still marked active counts until its end date ("lapsed" after it).   *)
activeSanctions(u) ==
  {sanctions[a].type : a \in {b \in Issued : sanctions[b].subject = u
                                             /\ sanctions[b].state = "active"}}

(* Which sanctions close which feature.                                       *)
restriction(u, feature) ==
  LET types == activeSanctions(u)
  IN  \/ types \cap {"full_ban", "temporary_suspension"} # {}
      \/ feature = "matching" /\ "matching_restriction" \in types
      \/ /\ feature \in {"messages", "requests", "calls"}
         /\ "contact_restriction" \in types
      \/ feature = "profile" /\ "profile_removal" \in types
      \/ feature # "profile" /\ "verification_challenge" \in types

HighRisk(type, permanent) ==
  permanent \/ type \in {"full_ban", "temporary_suspension"}

assign(u) ==
  /\ cases[u] # None
  /\ \E actor \in Staff : Rank[actor] >= Moderator
  /\ cases' = [cases EXCEPT ![u] = "reviewing"]
  /\ UNCHANGED <<reports, sanctions, appeals>>

(* In the case a user's report opened, about the other user.                  *)
applySanction(a, u, type, permanent, actor) ==
  /\ a \notin Issued
  /\ cases[u] # None
  /\ Rank[actor] >= IF HighRisk(type, permanent) THEN Admin ELSE Moderator
  /\ sanctions' = [sanctions EXCEPT ![a] =
       [subject |-> peer(u), type |-> type, actor |-> actor,
        permanent |-> permanent, state |-> "active"]]
  /\ UNCHANGED <<reports, cases, appeals>>

SetState(a, state) == sanctions' = [sanctions EXCEPT ![a].state = state]

reverseSanction(a, actor) ==
  /\ a \in Issued
  /\ sanctions[a].state \in {"active", "lapsed"}
  /\ Rank[actor] >= Admin
  /\ SetState(a, "reversed")
  /\ UNCHANGED <<reports, cases, appeals>>

(* One appeal per sanction, whatever the state of the sanction.               *)
submitAppeal(a) ==
  /\ a \in Issued
  /\ appeals[a] = None
  /\ appeals' = [appeals EXCEPT ![a] = "submitted"]
  /\ UNCHANGED <<reports, cases, sanctions>>

(* Another member of staff decides; the state of the appeal is not looked at, *)
(* so a decision may be taken again.                                          *)
reviewAppeal(a, actor, decision) ==
  /\ appeals[a] # None
  /\ Rank[actor] >= Moderator
  /\ actor # sanctions[a].actor
  /\ appeals' = [appeals EXCEPT ![a] = decision]
  /\ IF decision = "granted" THEN SetState(a, "reversed")
     ELSE UNCHANGED sanctions
  /\ UNCHANGED <<reports, cases>>

(* The end date of a temporary sanction passes: no code runs.                 *)
EndsAtPasses(a) ==
  /\ a \in Issued
  /\ sanctions[a].state = "active" /\ ~sanctions[a].permanent
  /\ SetState(a, "lapsed")
  /\ UNCHANGED <<reports, cases, appeals>>

(* The maintenance worker marks the lapsed sanctions, all in one statement.   *)
Lapsed == {a \in Issued : sanctions[a].state = "lapsed"}
expire ==
  /\ sanctions' = [a \in SanctionIds |->
       IF a \in Lapsed THEN [sanctions[a] EXCEPT !.state = "expired"]
       ELSE sanctions[a]]
  /\ UNCHANGED <<reports, cases, appeals>>

StaffStep ==
  \/ \E u \in Users : assign(u)
  \/ \E a \in SanctionIds :
       \/ \E u \in Users, type \in Types, permanent \in BOOLEAN, actor \in Staff :
            applySanction(a, u, type, permanent, actor)
       \/ \E actor \in Staff : reverseSanction(a, actor)
       \/ submitAppeal(a)
       \/ \E actor \in Staff, decision \in {"upheld", "granted"} :
            reviewAppeal(a, actor, decision)
=============================================================================
