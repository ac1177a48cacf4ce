--------------------------- MODULE Billing_proofs ---------------------------
(* Proof about Billing: deliveries out of order, twice or late never bring a  *)
(* right back, for any number of events, handlers and subscriptions.          *)
EXTENDS Billing, TLAPS

Dated(u) == u.at \in Nat /\ u.late \in BOOLEAN

(* A handler about to write compared its object with the row it read.         *)
JobOK(j) ==
  /\ DOMAIN job[j] = DOMAIN Idle
  /\ job[j].pc \in {"read", "write"} => Dated(job[j].update)
  /\ job[j].pc = "write" => Supersedes(job[j].update, job[j].seen)

EventsOK == /\ \E S : events \in Seq(S)
            /\ \A e \in DOMAIN events : events[e].at \in Nat

Compared ==
  /\ clock \in Nat /\ DOMAIN job = Jobs /\ EventsOK
  /\ row # None => Dated(row)
  /\ \A j \in Jobs : JobOK(j)

LEMMA JobsKeep ==
  ASSUME Compared, NEW j \in Jobs, DOMAIN job' = Jobs, JobOK(j)',
         \A i \in Jobs \ {j} : job'[i] = job[i],
         UNCHANGED <<clock, events, row>>
  PROVE  Compared'
<1>1. \A i \in Jobs : JobOK(i)' BY DEF Compared, JobOK, Idle
<1> QED BY <1>1 DEF Compared, EventsOK, Dated

LEMMA EmitKeeps ==
  ASSUME Compared, NEW s, NEW kind, Emit(s, kind)
  PROVE  Compared'
<1> DEFINE ev == [sub |-> s, kind |-> kind, at |-> clock,
                  object |-> IF kind = "subscription" THEN provider'[s] ELSE None]
<1>1. events' = Append(events, ev) /\ UNCHANGED <<row, job, clock>> BY DEF Emit
<1>2. ev.at = clock OBVIOUS
<1> HIDE DEF ev
<1>3. PICK S : events \in Seq(S) BY DEF Compared, EventsOK
<1>4. events \in Seq(S \cup {ev}) BY <1>3
<1>5. events' \in Seq(S \cup {ev}) BY <1>1, <1>4
<1>6. ASSUME NEW e \in DOMAIN events' PROVE events'[e].at \in Nat
  <2>1. events'[e] = ev \/ (e \in DOMAIN events /\ events'[e] = events[e])
    BY <1>1, <1>4
  <2> QED BY <1>2, <2>1 DEF Compared, EventsOK
<1>7. EventsOK' BY <1>5, <1>6 DEF EventsOK
<1> QED BY <1>1, <1>7 DEF Compared, JobOK, Dated, Supersedes, Before, SameTime, revocationRank

LEMMA JobMoves ==
  ASSUME Compared, [Next]_vars
  PROVE  Compared'
<1> USE DEF Jobs
<1>1. ASSUME NEW s, NEW kind, Emit(s, kind) PROVE Compared' BY <1>1, EmitKeeps
<1>2. ASSUME NEW s \in Subs, StripeStep(s) PROVE Compared'
  <2>1. CASE checkout(s)
    BY <2>1 DEF checkout, Compared, EventsOK, JobOK, Dated
  <2>2. ASSUME \E kind : Emit(s, kind) PROVE Compared' BY <1>1, <2>2
  <2> QED BY <1>2, <2>1, <2>2 DEF StripeStep, Pay, ChangeStatus, ChangeTerms,
                                  PeriodEnds, Refund, Announce
<1>3. ASSUME NEW h \in Handlers, NEW e \in DOMAIN events, webhook(h, e) PROVE Compared'
  <2>1. job'[h] = Job("process", e, None) BY <1>3 DEF webhook, Compared
  <2>2. JobOK(h)' BY <2>1 DEF JobOK, Job, Idle
  <2> QED BY <1>3, <2>2, JobsKeep DEF webhook, Compared, stripe
<1>4. ASSUME NEW j \in Jobs, NEW state, finishEvent(j, state), UNCHANGED <<clock, events, row>>
      PROVE  Compared'
  <2>1. job'[j] = Idle BY <1>4 DEF finishEvent, Compared
  <2>2. JobOK(j)' BY <2>1 DEF JobOK, Job, Idle
  <2> QED BY <1>4, <2>2, JobsKeep DEF finishEvent, Compared
<1>5. ASSUME NEW h \in Handlers, NEW e \in DOMAIN events, Process(h, e) PROVE Compared'
  <2>1. UNCHANGED <<clock, events, row>> BY <1>5 DEF Process, stripe
  <2>2. CASE finishEvent(h, "ignored") \/ finishEvent(h, "failed") BY <1>4, <2>1, <2>2
  <2>3. CASE ~(finishEvent(h, "ignored") \/ finishEvent(h, "failed"))
    <3> PICK s, object : job' = [job EXCEPT ![h].pc = "read", ![h].update =
             [sub |-> s, object |-> object, at |-> events[e].at, late |-> FALSE]]
      BY <1>5, <2>3, Zenon DEF Process
    <3> DEFINE u == [sub |-> s, object |-> object, at |-> events[e].at, late |-> FALSE]
    <3>1. /\ job'[h].pc = "read" /\ job'[h].update = u /\ DOMAIN job'[h] = DOMAIN Idle
          /\ DOMAIN job' = Jobs /\ \A i \in Jobs \ {h} : job'[i] = job[i]
      BY DEF Compared, JobOK, Idle, Job
    <3>2. JobOK(h)' BY <3>1 DEF JobOK, Dated, Compared, EventsOK
    <3> QED BY <2>1, <3>1, <3>2, JobsKeep
  <2> QED BY <2>2, <2>3
<1>6. CASE reconcile
  <2> DEFINE u == [sub |-> row.sub, object |-> provider[row.sub], at |-> clock,
                   late |-> TRUE]
  <2>0. job' = [job EXCEPT ![Worker] = Job("read", None, u)] BY <1>6 DEF reconcile
  <2>1. job'[Worker] = Job("read", None, u) BY <2>0 DEF Compared
  <2>3. u.at \in Nat /\ u.late \in BOOLEAN BY DEF Compared
  <2> HIDE DEF u
  <2>4. /\ job'[Worker].pc = "read" /\ job'[Worker].update = u
        /\ DOMAIN job'[Worker] = DOMAIN Idle
    BY <2>1 DEF Job, Idle
  <2>2. JobOK(Worker)' BY <2>3, <2>4 DEF JobOK, Dated
  <2> QED BY <1>6, <2>2, JobsKeep DEF reconcile, Compared, stripe
<1>7. ASSUME NEW j \in Jobs, Read(j) PROVE Compared'
  <2>1. /\ job'[j].pc = IF Supersedes(job[j].update, row) THEN "write" ELSE "finish"
        /\ job'[j].update = job[j].update /\ job'[j].seen = row
        /\ DOMAIN job'[j] = DOMAIN Idle /\ job[j].pc = "read"
    BY <1>7 DEF Read, Compared, JobOK, Idle, Job
  <2>2. Supersedes(job[j].update, row) => Supersedes(job'[j].update, job'[j].seen)
    BY <2>1
  <2>3. JobOK(j)' BY <2>1, <2>2 DEF JobOK, Compared, Dated
  <2> QED BY <1>7, <2>3, JobsKeep DEF Read, Compared, stripe
<1>8. ASSUME NEW j \in Jobs, Write(j) PROVE Compared'
  <2>1. /\ job'[j].pc = "sync" /\ DOMAIN job'[j] = DOMAIN Idle /\ DOMAIN job' = Jobs
        /\ \A i \in Jobs \ {j} : job'[i] = job[i]
    BY <1>8 DEF Write, Compared, JobOK, Idle, Job
  <2>2. Dated(row') /\ UNCHANGED <<clock, events>>
    BY <1>8 DEF Write, Compared, JobOK, stripe, Dated
  <2>3. JobOK(j)' BY <2>1 DEF JobOK
  <2>4. ASSUME NEW i \in Jobs, i # j PROVE JobOK(i)'
    BY <2>1, <2>4 DEF Compared, JobOK, Idle
  <2> QED BY <2>1, <2>2, <2>3, <2>4 DEF Compared, EventsOK
<1>9. ASSUME NEW j \in Jobs, syncPlan(j) PROVE Compared'
  <2>1. /\ job'[j].pc = "finish" /\ DOMAIN job'[j] = DOMAIN Idle
    BY <1>9 DEF syncPlan, Compared, JobOK, Idle, Job
  <2>2. JobOK(j)' BY <2>1 DEF JobOK
  <2> QED BY <1>9, <2>2, JobsKeep DEF syncPlan, Compared, stripe
<1>10. ASSUME NEW j \in Jobs, Finish(j) PROVE Compared'
  BY <1>4, <1>10 DEF Finish, stripe
<1>11. ASSUME NEW h \in Handlers, Fail(h) PROVE Compared'
  BY <1>4, <1>11 DEF Fail, stripe
<1>12. ASSUME NEW j \in Jobs, Die(j) PROVE Compared'
  <2>1. job'[j] = Idle BY <1>12 DEF Die, Compared
  <2>2. JobOK(j)' BY <2>1 DEF JobOK, Job, Idle
  <2> QED BY <1>12, <2>2, JobsKeep DEF Die, Compared, stripe
<1>13. ASSUME NEW g \in Manual, AdminStep(g) PROVE Compared'
  <2>1. UNCHANGED <<clock, events, row, job>>
    BY <1>13 DEF AdminStep, grantManual, revokeManual, stripe
  <2> QED BY <2>1 DEF Compared, EventsOK, JobOK
<1>14. CASE Tick
  <2>1. UNCHANGED <<events, row, job>> /\ clock' = clock + 1 BY <1>14 DEF Tick, stripe
  <2> QED BY <2>1 DEF Compared, EventsOK, JobOK
<1>15. CASE UNCHANGED vars BY <1>15 DEF vars, stripe, Compared, EventsOK, JobOK
<1>17. CASE CutShort \/ \E plan \in Plans : Retire(plan)
  BY <1>17 DEF CutShort, Retire, stripe, Compared, EventsOK, JobOK
<1>16. ASSUME NEW j \in Jobs, JobStep(j) \/ Die(j) PROVE Compared'
  BY <1>7, <1>8, <1>9, <1>10, <1>12, <1>16 DEF JobStep
<1> QED BY <1>2, <1>3, <1>5, <1>6, <1>11, <1>13, <1>14, <1>15, <1>16, <1>17 DEF Next

LEMMA ComparedHolds == Spec => []Compared
<1>1. Init => Compared
  <2> SUFFICES ASSUME Init PROVE Compared OBVIOUS
  <2>1. EventsOK BY DEF Init, EventsOK
  <2>2. \A j \in Jobs : JobOK(j) BY DEF Init, JobOK, Idle, Job
  <2> QED BY <2>1, <2>2 DEF Init, Compared
<1> QED BY <1>1, JobMoves, PTL DEF Spec

LEMMA OnlyWriteMoves ==
  ASSUME [Next]_vars, row' # row
  PROVE  \E j \in Jobs : Write(j)
<1>1. ASSUME NEW s \in Subs, StripeStep(s) PROVE row' = row
  BY <1>1 DEF StripeStep, checkout, Pay, ChangeStatus, ChangeTerms, PeriodEnds, Refund,
              Announce, Emit
<1>2. ASSUME NEW h \in Handlers, NEW e \in DOMAIN events, webhook(h, e) \/ Process(h, e)
      PROVE  row' = row
  BY <1>2 DEF webhook, Process
<1>3. ASSUME NEW j \in Jobs, JobStep(j) \/ Die(j), ~Write(j) PROVE row' = row
  BY <1>3 DEF JobStep, Read, syncPlan, Finish, Die
<1>4. ASSUME NEW g \in Manual, AdminStep(g) PROVE row' = row
  BY <1>4 DEF AdminStep, grantManual, revokeManual
<1>5. ASSUME NEW h \in Handlers, Fail(h) PROVE row' = row BY <1>5 DEF Fail
<1> QED BY <1>1, <1>2, <1>3, <1>4, <1>5 DEF Next, reconcile, Tick, Retire, CutShort, vars

(* The row only moves to newer objects, and at one time only to more revoking *)
(* ones, until a row is written behind the back of a handler that read it     *)
(* (applySubscription).                                                       *)
THEOREM RightsStayRevoked == Spec => NewestKept
<1> DEFINE Newer == \/ Before(row, row') \/ (row.late /\ row'.at = row.at)
                    \/ revocationRank(row.object.status)
                         < revocationRank(row'.object.status)
<1>1. ASSUME Compared, [Next]_vars, row # None, row' # row, ~overtaken' PROVE Newer
  <2>1. PICK j \in Jobs : Write(j) BY <1>1, OnlyWriteMoves
  <2>2. row' = job[j].update /\ job[j].seen = row /\ job[j].pc = "write"
    BY <1>1, <2>1 DEF Write
  <2>3. Supersedes(row', row) /\ Dated(row') /\ Dated(row)
    BY <1>1, <2>2 DEF Compared, JobOK, Dated
  <2>4. /\ row'.at \in Nat /\ row.at \in Nat
        /\ row'.late \in BOOLEAN /\ row.late \in BOOLEAN
    BY <2>3 DEF Dated
  <2>5. ~Before(row', row) /\ (SameTime(row', row) =>
          revocationRank(row.object.status) < revocationRank(row'.object.status))
    BY <1>1, <2>3 DEF Supersedes
  <2> QED BY <2>4, <2>5 DEF Before, SameTime
<1>2. Compared /\ [Next]_vars =>
        [row # None /\ row' # row /\ ~overtaken' =>
           \/ Before(row, row') \/ (row.late /\ row'.at = row.at)
           \/ revocationRank(row.object.status)
                < revocationRank(row'.object.status)]_vars
  BY <1>1
<1> QED BY <1>2, ComparedHolds, PTL DEF Spec, NewestKept

----------------------------------------------------------------------------
(* Types.  An object can be fetched for whatever an event, a row or a job in  *)
(* progress names: Stripe never forgets a subscription that was paid for.     *)
Bought(s) == provider[s] \in Objects
Events == [sub : Subs, kind : Kinds, at : 0..MaxTime, object : Objects \cup {None}]
JobType == [pc : {"idle", "process", "read", "write", "sync", "finish"},
            event : Nat \cup {None}, update : Updates \cup {None},
            seen : Updates \cup {None}]

StripeTypes == provider \in [Subs -> {None} \cup Objects] /\ checkouts \subseteq Subs

Told(ev) == Bought(ev.sub) /\ (ev.kind = "subscription" => ev.object \in Objects)
EventTypes ==
  /\ events \in Seq(Events) /\ recorded \in Seq(EventStates)
  /\ Len(recorded) = Len(events) /\ Len(events) <= workload.events
  /\ \A e \in DOMAIN events : Told(events[e])

Fetched(u) == u \in Updates /\ Bought(u.sub)
Doing(j) ==
  /\ job[j] \in JobType
  /\ job[j].event # None => job[j].event \in DOMAIN events
  /\ job[j].pc = "process" => job[j].event \in DOMAIN events
  /\ job[j].pc \in {"read", "write", "sync"} => Fetched(job[j].update)

Counters ==
  /\ clock \in 0..(MaxTime + Grace) /\ workload \in Workloads
  /\ failures \in 0..workload.failures /\ overtaken \in BOOLEAN

BillingInv ==
  /\ StripeTypes /\ EventTypes /\ Counters
  /\ row # None => Fetched(row)
  /\ grants \in [Subs \cup Manual -> {None} \cup Grants]
  /\ job \in [Jobs -> JobType] /\ \A j \in Jobs : Doing(j)

(* The plans that are refused, and whether the passes are cut short.          *)
WorldOK == retired \subseteq Plans /\ cut \in BOOLEAN

LEMMA WorldHolds == Spec => []WorldOK
<1>1. Init => WorldOK BY DEF Init, WorldOK
<1>2. WorldOK /\ [Next]_vars => WorldOK'
  <2> SUFFICES ASSUME WorldOK, [Next]_vars PROVE WorldOK' OBVIOUS
  <2>0. CASE UNCHANGED world BY <2>0 DEF world, WorldOK
  <2>1. ASSUME NEW s \in Subs, StripeStep(s) PROVE UNCHANGED world
    BY <2>1 DEF StripeStep, checkout, Pay, ChangeStatus, ChangeTerms, PeriodEnds, Refund,
                Announce, Emit
  <2>2. ASSUME NEW h \in Handlers, NEW e \in DOMAIN events, webhook(h, e) \/ Process(h, e)
        PROVE  UNCHANGED world
    BY <2>2 DEF webhook, Process
  <2>3. ASSUME NEW j \in Jobs, JobStep(j) \/ Die(j) PROVE UNCHANGED world
    BY <2>3 DEF JobStep, Read, Write, syncPlan, Finish, Die
  <2>4. ASSUME NEW g \in Manual, AdminStep(g) PROVE UNCHANGED world
    BY <2>4 DEF AdminStep, grantManual, revokeManual
  <2>5. ASSUME NEW h \in Handlers, Fail(h) PROVE UNCHANGED world BY <2>5 DEF Fail
  <2>6. CASE CutShort \/ \E plan \in Plans : Retire(plan)
    BY <2>6 DEF CutShort, Retire, WorldOK
  <2>7. CASE reconcile \/ Tick \/ UNCHANGED vars BY <2>0, <2>7 DEF reconcile, Tick, vars
  <2> QED BY <2>0, <2>1, <2>2, <2>3, <2>4, <2>5, <2>6, <2>7 DEF Next
<1> QED BY <1>1, <1>2, PTL DEF Spec

LEMMA InvTypes == BillingInv /\ WorldOK => TypeOK
<1> SUFFICES ASSUME BillingInv, WorldOK PROVE TypeOK OBVIOUS
<1>1. \A e \in DOMAIN events :
        /\ events[e] \in [sub : Subs, kind : Kinds, at : 0..MaxTime, object : Objects \cup {None}]
        /\ recorded[e] \in EventStates
  <2> USE DEF BillingInv, EventTypes
  <2>1. ASSUME NEW e \in DOMAIN events PROVE events[e] \in Events OBVIOUS
  <2>2. ASSUME NEW e \in DOMAIN events PROVE recorded[e] \in EventStates
    <3>1. e \in DOMAIN recorded OBVIOUS
    <3> QED BY <3>1
  <2> QED BY <2>1, <2>2 DEF Events
<1>2. DOMAIN recorded = DOMAIN events /\ Len(events) <= workload.events
  BY DEF BillingInv, EventTypes
<1>3. row \in {None} \cup Updates BY DEF BillingInv, Fetched
<1>4. \A j \in Jobs :
       /\ job[j].pc \in {"idle", "process", "read", "write", "sync", "finish"}
       /\ job[j].event \in DOMAIN events \cup {None}
       /\ job[j].update \in Updates \cup {None}
       /\ job[j].seen \in Updates \cup {None}
  BY DEF BillingInv, Doing, JobType
<1> QED BY <1>1, <1>2, <1>3, <1>4 DEF TypeOK, BillingInv, StripeTypes, Counters, WorldOK

LEMMA InitBilling == Init => BillingInv
<1> SUFFICES ASSUME Init PROVE BillingInv OBVIOUS
<1>1. StripeTypes BY DEF Init, StripeTypes
<1>2. EventTypes BY BoundsAssumption DEF Init, EventTypes
<1>3. Counters
  <2>1. workload \in Workloads /\ workload.failures \in Nat
    BY BoundsAssumption DEF Init
  <2>2. clock \in 0..(MaxTime + Grace) /\ failures \in 0..workload.failures
    BY <2>1, BoundsAssumption DEF Init
  <2>3. overtaken \in BOOLEAN BY Zenon DEF Init
  <2> QED BY <2>1, <2>2, <2>3 DEF Counters
<1>4. Idle \in JobType /\ Idle.event = None /\ Idle.pc = "idle" BY DEF Idle, Job, JobType
<1>5. job \in [Jobs -> JobType] /\ \A j \in Jobs : Doing(j)
  BY <1>4 DEF Init, Doing
<1> QED BY <1>1, <1>2, <1>3, <1>5 DEF BillingInv, Init

(* What Stripe and the events keep when something happens to subscription s.  *)
LEMMA StripeMoves ==
  ASSUME BillingInv, NEW s \in Subs, NEW kind \in Kinds, Emit(s, kind),
         StripeTypes', Bought(s)', \A t \in Subs : Bought(t) => Bought(t)'
  PROVE  BillingInv'
<1>0. PICK ev : ev = [sub |-> s, kind |-> kind, at |-> clock,
                     object |-> IF kind = "subscription" THEN provider'[s] ELSE None]
  OBVIOUS
<1>1. /\ events' = Append(events, ev) /\ recorded' = Append(recorded, "unseen")
      /\ Len(events) < workload.events /\ clock <= MaxTime
      /\ UNCHANGED <<row, grants, job, clock, failures, workload, overtaken>>
  BY <1>0 DEF Emit
<1>2. ev \in Events /\ Told(ev)'
  <2>1. clock \in 0..MaxTime BY <1>1, BoundsAssumption DEF BillingInv, Counters
  <2>2. provider'[s] \in Objects BY DEF Bought
  <2> QED BY <1>0, <2>1, <2>2 DEF Events, Told, Bought
<1>3. /\ events \in Seq(Events) /\ recorded \in Seq(EventStates)
      /\ Len(recorded) = Len(events) /\ \A e \in DOMAIN events : Told(events[e])
  BY DEF BillingInv, EventTypes
<1>4. /\ events' \in Seq(Events) /\ Len(events') = Len(events) + 1
      /\ \A e \in DOMAIN events' : events'[e] = ev \/ (e \in DOMAIN events /\ events'[e] = events[e])
      /\ \A e \in DOMAIN events : e \in DOMAIN events'
  BY <1>1, <1>2, <1>3
<1>5. recorded' \in Seq(EventStates) /\ Len(recorded') = Len(recorded) + 1
  <2>1. "unseen" \in EventStates BY DEF EventStates
  <2> QED BY <1>1, <1>3, <2>1
<1>6. ASSUME NEW e \in DOMAIN events' PROVE Told(events[e])'
  <2>1. PICK seen : seen = events'[e] OBVIOUS
  <2>2. Told(seen)'
    <3>1. CASE seen = ev BY <1>2, <3>1
    <3>2. CASE e \in DOMAIN events /\ seen = events[e]
      <4>1. seen \in Events BY <1>3, <3>2
      <4>2. Told(seen) BY <1>3, <3>2
      <4> QED BY <4>1, <4>2 DEF Told, Events
    <3> QED BY <1>4, <2>1, <3>1, <3>2
  <2> QED BY <2>1, <2>2 DEF Told, Bought
<1>7. EventTypes'
  <2>1. workload.events \in Nat BY BoundsAssumption DEF BillingInv, Counters
  <2>2. Len(events') <= workload.events BY <1>1, <1>3, <1>4, <2>1
  <2> QED BY <1>1, <1>3, <1>4, <1>5, <1>6, <2>2 DEF EventTypes
<1>8. \A u : Fetched(u) => Fetched(u)' BY DEF Fetched, Updates
<1>9. ASSUME NEW j \in Jobs PROVE Doing(j)'
  <2>1. Doing(j) BY DEF BillingInv
  <2> QED BY <1>1, <1>4, <1>8, <2>1 DEF Doing
<1> QED BY <1>1, <1>7, <1>8, <1>9 DEF BillingInv, Counters

LEMMA StripeStepTypes ==
  ASSUME BillingInv, NEW s \in Subs, StripeStep(s)
  PROVE  BillingInv'
<1>1. provider \in [Subs -> {None} \cup Objects] /\ checkouts \subseteq Subs
  BY DEF BillingInv, StripeTypes
<1>2. ASSUME NEW object \in Objects, provider' = [provider EXCEPT ![s] = object],
             checkouts' \subseteq Subs, Announce(s)
      PROVE  BillingInv'
  <2>1. PICK kind \in workload.kinds : Emit(s, kind) BY <1>2 DEF Announce
  <2>2. kind \in Kinds BY BoundsAssumption DEF BillingInv, Counters, Kinds
  <2>3. StripeTypes' BY <1>1, <1>2 DEF StripeTypes
  <2>4. Bought(s)' /\ \A t \in Subs : Bought(t) => Bought(t)' BY <1>1, <1>2 DEF Bought
  <2> QED BY <2>1, <2>2, <2>3, <2>4, StripeMoves
<1>3. Announce(s) => clock + Period \in 0..(MaxTime + Period)
  BY BoundsAssumption DEF Announce, Emit, BillingInv, Counters
<1>4. Living(s) => provider[s] \in Objects BY <1>1 DEF Living
<1>5. CASE checkout(s)
  <2>1. /\ checkouts' \subseteq Subs
        /\ UNCHANGED <<provider, events, recorded, row, grants, job, clock, failures,
                       workload, overtaken>>
    BY <1>1, <1>5 DEF checkout
  <2> QED BY <2>1 DEF BillingInv, StripeTypes, EventTypes, Counters, Doing, Fetched,
                      Bought, Told
<1>6. ASSUME NEW plan \in Plans, Pay(s, plan) PROVE BillingInv'
  <2> DEFINE object == [status |-> "active", plan |-> plan, ends |-> clock + Period,
                        cancels |-> FALSE]
  <2>1. provider' = [provider EXCEPT ![s] = object] /\ Announce(s) /\ checkouts' \subseteq Subs
    BY <1>1, <1>6 DEF Pay
  <2>2. object \in Objects BY <1>3, <2>1 DEF Objects
  <2> QED BY <1>2, <2>1, <2>2
<1>7. ASSUME NEW status \in {"active"} \cup Statuses, ChangeStatus(s, status)
      PROVE  BillingInv'
  <2>1. PICK object : object = [provider[s] EXCEPT !.status = status] OBVIOUS
  <2>2. object \in Objects BY <1>4, <1>7, <2>1 DEF ChangeStatus, Objects
  <2>3. provider' = [provider EXCEPT ![s] = object] /\ Announce(s) /\ checkouts' \subseteq Subs
    BY <1>1, <1>7, <2>1 DEF ChangeStatus
  <2> QED BY <1>2, <2>2, <2>3
<1>8. ASSUME NEW plan \in Plans, NEW cancels \in BOOLEAN, ChangeTerms(s, plan, cancels)
      PROVE  BillingInv'
  <2>1. PICK object : object = [provider[s] EXCEPT !.plan = plan, !.cancels = cancels]
    OBVIOUS
  <2>2. object \in Objects BY <1>4, <1>8, <2>1 DEF ChangeTerms, Objects
  <2>3. provider' = [provider EXCEPT ![s] = object] /\ Announce(s) /\ checkouts' \subseteq Subs
    BY <1>1, <1>8, <2>1 DEF ChangeTerms
  <2> QED BY <1>2, <2>2, <2>3
<1>9. ASSUME NEW status \in {"active", "past_due"} \cap ({"active"} \cup Statuses),
             PeriodEnds(s, status)
      PROVE  BillingInv'
  <2>1. PICK object : object = [provider[s] EXCEPT
          !.status = IF provider[s].cancels THEN "canceled" ELSE status,
          !.ends = IF provider[s].cancels THEN @ ELSE clock + Period]
    OBVIOUS
  <2>2. object \in Objects BY <1>3, <1>4, <1>9, <2>1 DEF PeriodEnds, Objects
  <2>3. provider' = [provider EXCEPT ![s] = object] /\ Announce(s) /\ checkouts' \subseteq Subs
    BY <1>1, <1>9, <2>1 DEF PeriodEnds
  <2> QED BY <1>2, <2>2, <2>3
<1>10. CASE Refund(s)
  <2>1. UNCHANGED <<provider, checkouts>> /\ Emit(s, "refund") /\ Bought(s)
    BY <1>1, <1>10 DEF Refund, Bought
  <2>2. StripeTypes' /\ Bought(s)' /\ \A t \in Subs : Bought(t) => Bought(t)'
    BY <2>1 DEF BillingInv, StripeTypes, Bought
  <2>3. "refund" \in Kinds BY DEF Kinds
  <2> QED BY <2>1, <2>2, <2>3, StripeMoves
<1> QED BY <1>5, <1>6, <1>7, <1>8, <1>9, <1>10 DEF StripeStep

(* A step of one job keeps the types of the rest.                             *)
LEMMA JobTypes ==
  ASSUME BillingInv, NEW j \in Jobs, NEW now \in JobType,
         job' = [job EXCEPT ![j] = now],
         now.event # None => now.event \in DOMAIN events,
         now.pc = "process" => now.event \in DOMAIN events,
         now.pc \in {"read", "write", "sync"} => Fetched(now.update),
         UNCHANGED <<provider, events>>
  PROVE  job' \in [Jobs -> JobType] /\ \A i \in Jobs : Doing(i)'
<1>1. job \in [Jobs -> JobType] /\ \A i \in Jobs : Doing(i) BY DEF BillingInv
<1>2. job' \in [Jobs -> JobType] /\ job'[j] = now BY <1>1
<1>3. \A u : Fetched(u) => Fetched(u)' BY DEF Fetched, Bought
<1>4. Doing(j)' BY <1>2, <1>3 DEF Doing
<1>5. ASSUME NEW i \in Jobs, i # j PROVE Doing(i)'
  <2>1. Doing(i) /\ job'[i] = job[i] BY <1>1, <1>5
  <2> QED BY <1>3, <2>1 DEF Doing
<1> QED BY <1>2, <1>4, <1>5

LEMMA RecordTypes ==
  ASSUME BillingInv, UNCHANGED <<stripe, workload>>,
         \/ UNCHANGED recorded
         \/ \E e \in DOMAIN events, state \in EventStates :
              recorded' = [recorded EXCEPT ![e] = state]
  PROVE  StripeTypes' /\ EventTypes'
<1>1. recorded' \in Seq(EventStates) /\ Len(recorded') = Len(recorded)
  <2>1. /\ recorded \in Seq(EventStates) /\ DOMAIN events = DOMAIN recorded
    BY DEF BillingInv, EventTypes
  <2> QED BY <2>1
<1> QED BY <1>1 DEF BillingInv, stripe, StripeTypes, EventTypes, Told, Bought

(* Finishing, failing or ignoring an event ends the job.                      *)
LEMMA FinishTypes ==
  ASSUME BillingInv, NEW j \in Jobs, NEW state \in EventStates, finishEvent(j, state),
         UNCHANGED <<stripe, row, grants, clock, workload, overtaken>>,
         failures' \in 0..workload.failures
  PROVE  BillingInv'
<1>1. Idle \in JobType /\ Idle.event = None /\ Idle.pc = "idle" BY DEF Idle, Job, JobType
<1>2. job' = [job EXCEPT ![j] = Idle] BY DEF finishEvent
<1> HIDE DEF Idle
<1>3. job' \in [Jobs -> JobType] /\ \A i \in Jobs : Doing(i)'
  BY <1>1, <1>2, JobTypes DEF stripe
<1>4. job[j].event # None => job[j].event \in DOMAIN events BY DEF BillingInv, Doing
<1>5. StripeTypes' /\ EventTypes' BY <1>4, RecordTypes DEF finishEvent
<1> QED BY <1>3, <1>5 DEF BillingInv, Counters, Fetched, Bought, stripe

LEMMA ProcessTypes ==
  ASSUME BillingInv, NEW h \in Handlers, NEW e \in DOMAIN events, Process(h, e)
  PROVE  BillingInv'
<1>0. h \in Jobs /\ job[h].pc = "process" /\ job[h].event = e /\ job[h] \in JobType
  BY DEF Jobs, Process, BillingInv, Doing
<1>1. UNCHANGED <<stripe, row, grants, clock, failures, workload, overtaken>>
  BY DEF Process
<1>2. CASE finishEvent(h, "ignored") \/ finishEvent(h, "failed")
  <2>1. {"ignored", "failed"} \subseteq EventStates /\ failures' \in 0..workload.failures
    BY <1>1 DEF EventStates, BillingInv, Counters
  <2> QED BY <1>0, <1>1, <1>2, <2>1, FinishTypes
<1>3. CASE ~(finishEvent(h, "ignored") \/ finishEvent(h, "failed"))
  <2> DEFINE ev == events[e]
             s == IF ev.kind = "refund" THEN row.sub ELSE ev.sub
             object == CASE ev.kind = "subscription" -> ev.object
                         [] ev.kind = "invoice" -> provider[s]
                         [] ev.kind = "refund" -> [provider[s] EXCEPT !.status = "unpaid"]
             u == [sub |-> s, object |-> object, at |-> ev.at, late |-> FALSE]
  <2>1. /\ ev.kind = "refund" => row # None
        /\ job' = [job EXCEPT ![h].pc = "read", ![h].update = u]
        /\ UNCHANGED recorded
    BY <1>3, Zenon DEF Process
  <2>2. ev \in Events /\ Told(ev) BY DEF BillingInv, EventTypes
  <2>3. s \in Subs /\ Bought(s)
    BY <2>1, <2>2 DEF Events, Told, BillingInv, Fetched, Updates
  <2>4. object \in Objects
    <3>1. CASE ev.kind = "subscription" BY <2>2, <3>1 DEF Told
    <3>2. CASE ev.kind = "invoice" BY <2>3, <3>2 DEF Bought
    <3>3. CASE ev.kind = "refund"
      <4>1. object = [provider[s] EXCEPT !.status = "unpaid"] BY <3>3
      <4>2. provider[s] \in Objects BY <2>3 DEF Bought
      <4> HIDE DEF s, object
      <4> QED BY <4>1, <4>2 DEF Objects
    <3> QED BY <2>2, <3>1, <3>2, <3>3 DEF Events, Kinds
  <2>5. ev.at \in 0..(MaxTime + Grace) BY <2>2, BoundsAssumption DEF Events
  <2> HIDE DEF ev, s, object
  <2>6. Fetched(u) BY <2>3, <2>4, <2>5 DEF Fetched, Updates
  <2> HIDE DEF u
  <2>7. PICK now : now = [job[h] EXCEPT !.pc = "read", !.update = u] OBVIOUS
  <2>8. /\ now \in JobType /\ now.pc = "read" /\ now.update = u
        /\ now.event \in DOMAIN events
    BY <1>0, <2>6, <2>7 DEF JobType, Fetched
  <2>9. job' = [job EXCEPT ![h] = now] BY <1>0, <2>1, <2>7 DEF BillingInv
  <2>10. job' \in [Jobs -> JobType] /\ \A i \in Jobs : Doing(i)'
    BY <1>0, <1>1, <2>6, <2>8, <2>9, JobTypes DEF stripe
  <2>11. StripeTypes' /\ EventTypes' BY <1>1, <2>1, RecordTypes
  <2> QED BY <1>1, <2>10, <2>11 DEF BillingInv, Counters, Fetched, Bought, stripe
<1> QED BY <1>2, <1>3

(* What the row grants ends when its type says it may.                        *)
LEMMA GrantedTypes ==
  ASSUME NEW u \in Updates, NEW now
  PROVE  Granted(u, now) \in {None} \cup Grants
<1>1. u.at \in 0..(MaxTime + Grace) /\ u.object \in Objects BY DEF Updates
<1>2. u.object.ends \in 0..(MaxTime + Period) /\ u.object.plan \in Plans
  BY <1>1 DEF Objects
<1>3. validUntil(u) \in 0..Latest
  <2>1. u.at + Grace \in 0..Latest BY <1>1, BoundsAssumption DEF Latest
  <2>2. u.object.ends \in 0..Latest BY <1>2, BoundsAssumption DEF Latest
  <2> QED BY <2>1, <2>2 DEF validUntil
<1> QED BY <1>2, <1>3 DEF Granted, Grants

(* Reading, writing and synchronizing the row; the reconciliation; dying.     *)
LEMMA JobStepTypes ==
  ASSUME BillingInv, NEW j \in Jobs, JobStep(j) \/ Die(j)
  PROVE  BillingInv'
<1>0. job \in [Jobs -> JobType] /\ job[j] \in JobType /\ Doing(j) BY DEF BillingInv
<1>1. CASE Read(j)
  <2>1. PICK now : now = [job[j] EXCEPT
          !.pc = IF Supersedes(job[j].update, row) THEN "write" ELSE "finish", !.seen = row]
    OBVIOUS
  <2>2. job[j].pc = "read" /\ UNCHANGED <<stripe, recorded, row, grants, clock, failures,
                                          workload, overtaken>>
    BY <1>1 DEF Read
  <2>3. row \in Updates \cup {None} BY DEF BillingInv, Fetched
  <2>4. /\ now \in JobType /\ now.pc \in {"write", "finish"}
        /\ now.update = job[j].update /\ now.event = job[j].event
    BY <1>0, <2>1, <2>3 DEF JobType
  <2>5. job' = [job EXCEPT ![j] = now] BY <1>0, <1>1, <2>1 DEF Read
  <2>6. job' \in [Jobs -> JobType] /\ \A i \in Jobs : Doing(i)'
    BY <1>0, <2>2, <2>4, <2>5, JobTypes DEF Doing, stripe
  <2>7. StripeTypes' /\ EventTypes' BY <2>2, RecordTypes
  <2> QED BY <2>2, <2>6, <2>7 DEF BillingInv, Counters, Fetched, Bought, stripe
<1>2. CASE Write(j)
  <2>1. PICK now : now = [job[j] EXCEPT !.pc = "sync", !.seen = None] OBVIOUS
  <2>2. /\ job[j].pc = "write" /\ row' = job[j].update /\ overtaken' \in BOOLEAN
        /\ UNCHANGED <<stripe, recorded, grants, clock, failures, workload>>
    BY <1>2 DEF Write
  <2>3. Fetched(row') BY <1>0, <2>2 DEF Doing
  <2>4. /\ now \in JobType /\ now.pc = "sync"
        /\ now.update = job[j].update /\ now.event = job[j].event
    BY <1>0, <2>1 DEF JobType
  <2>5. job' = [job EXCEPT ![j] = now] BY <1>0, <1>2, <2>1 DEF Write
  <2>6. job' \in [Jobs -> JobType] /\ \A i \in Jobs : Doing(i)'
    BY <1>0, <2>2, <2>4, <2>5, JobTypes DEF Doing, stripe
  <2>7. StripeTypes' /\ EventTypes' BY <2>2, RecordTypes
  <2> QED BY <2>2, <2>3, <2>6, <2>7 DEF BillingInv, Counters, Fetched, Bought, stripe
<1>3. CASE syncPlan(j)
  <2>1. PICK now : now = [job[j] EXCEPT !.pc = "finish"] OBVIOUS
  <2>2. /\ job[j].pc = "sync"
        /\ grants' = [grants EXCEPT ![job[j].update.sub] = Granted(job[j].update, clock)]
        /\ UNCHANGED <<stripe, recorded, row, clock, failures, workload, overtaken>>
    BY <1>3 DEF syncPlan
  <2>3. job[j].update \in Updates BY <1>0, <2>2 DEF Doing, Fetched
  <2>4. grants' \in [Subs \cup Manual -> {None} \cup Grants]
    BY <2>2, <2>3, GrantedTypes DEF BillingInv
  <2>5. now \in JobType /\ now.pc = "finish" /\ now.event = job[j].event
    BY <1>0, <2>1 DEF JobType
  <2>6. job' = [job EXCEPT ![j] = now] BY <1>0, <1>3, <2>1 DEF syncPlan
  <2>7. job' \in [Jobs -> JobType] /\ \A i \in Jobs : Doing(i)'
    BY <1>0, <2>2, <2>5, <2>6, JobTypes DEF Doing, stripe
  <2>8. StripeTypes' /\ EventTypes' BY <2>2, RecordTypes
  <2> QED BY <2>2, <2>4, <2>7, <2>8 DEF BillingInv, Counters, Fetched, Bought, stripe
<1>4. CASE Finish(j)
  <2>1. "processed" \in EventStates BY DEF EventStates
  <2>2. failures' \in 0..workload.failures BY <1>4 DEF Finish, BillingInv, Counters
  <2> QED BY <1>4, <2>1, <2>2, FinishTypes DEF Finish
<1>5. CASE Die(j)
  <2>1. Idle \in JobType /\ Idle.event = None /\ Idle.pc = "idle" BY DEF Idle, Job, JobType
  <2>2. /\ job' = [job EXCEPT ![j] = Idle]
        /\ UNCHANGED <<stripe, recorded, row, grants, clock, workload, overtaken>>
        /\ failures' = failures + 1 /\ failures < workload.failures
    BY <1>5 DEF Die
  <2> HIDE DEF Idle
  <2>3. job' \in [Jobs -> JobType] /\ \A i \in Jobs : Doing(i)'
    BY <2>1, <2>2, JobTypes DEF stripe
  <2>4. StripeTypes' /\ EventTypes' BY <2>2, RecordTypes
  <2>5. Counters' BY <2>2, BoundsAssumption DEF BillingInv, Counters
  <2> QED BY <2>2, <2>3, <2>4, <2>5 DEF BillingInv, Fetched, Bought, stripe
<1> QED BY <1>1, <1>2, <1>3, <1>4, <1>5 DEF JobStep

LEMMA NextTypes ==
  ASSUME BillingInv, [Next]_vars
  PROVE  BillingInv'
<1>1. ASSUME NEW h \in Handlers, NEW e \in DOMAIN events, webhook(h, e) PROVE BillingInv'
  <2>1. PICK now : now = Job("process", e, None) OBVIOUS
  <2>2. e \in Nat BY DEF BillingInv, EventTypes
  <2>3. now \in JobType /\ now.pc = "process" /\ now.event = e
    BY <2>1, <2>2 DEF Job, JobType
  <2>4. job' = [job EXCEPT ![h] = now] /\ h \in Jobs
    BY <1>1, <2>1 DEF webhook, Jobs
  <2>5. job' \in [Jobs -> JobType] /\ \A i \in Jobs : Doing(i)'
    BY <1>1, <2>3, <2>4, JobTypes DEF webhook, stripe
  <2>6. "processing" \in EventStates BY DEF EventStates
  <2>7. StripeTypes' /\ EventTypes' BY <1>1, <2>6, RecordTypes DEF webhook
  <2> QED BY <1>1, <2>5, <2>7 DEF webhook, BillingInv, Counters, Fetched, Bought, stripe
<1>2. CASE reconcile
  <2>1. PICK u : u = [sub |-> row.sub, object |-> provider[row.sub], at |-> clock,
                      late |-> TRUE]
    OBVIOUS
  <2>2. Fetched(u) BY <1>2, <2>1 DEF reconcile, BillingInv, Counters, Fetched, Updates, Bought
  <2>3. PICK now : now = Job("read", None, u) OBVIOUS
  <2>4. now \in JobType /\ now.event = None /\ now.update = u /\ now.pc = "read"
    BY <2>2, <2>3 DEF Job, JobType, Fetched
  <2>5. job' = [job EXCEPT ![Worker] = now] /\ Worker \in Jobs
    BY <1>2, <2>1, <2>3 DEF reconcile, Jobs
  <2>6. job' \in [Jobs -> JobType] /\ \A i \in Jobs : Doing(i)'
    BY <1>2, <2>2, <2>4, <2>5, JobTypes DEF reconcile, stripe
  <2>7. StripeTypes' /\ EventTypes' BY <1>2, RecordTypes DEF reconcile
  <2> QED BY <1>2, <2>6, <2>7 DEF reconcile, BillingInv, Counters, Fetched, Bought, stripe
<1>3. ASSUME NEW h \in Handlers, Fail(h) PROVE BillingInv'
  <2>1. "failed" \in EventStates /\ h \in Jobs BY DEF EventStates, Jobs
  <2>2. failures' \in 0..workload.failures
    BY <1>3, BoundsAssumption DEF Fail, BillingInv, Counters
  <2> QED BY <1>3, <2>1, <2>2, FinishTypes DEF Fail
<1>4. ASSUME NEW g \in Manual, AdminStep(g) PROVE BillingInv'
  <2>1. grants' \in [Subs \cup Manual -> {None} \cup Grants]
    <3>1. ASSUME NEW plan \in Plans, NEW until \in (clock + 1)..(MaxTime + Grace)
          PROVE  [plan |-> plan, until |-> until] \in Grants
      BY BoundsAssumption DEF BillingInv, Counters, Grants, Latest
    <3> QED BY <1>4, <3>1 DEF AdminStep, grantManual, revokeManual, BillingInv
  <2>2. UNCHANGED <<stripe, recorded, row, job, clock, failures, workload, overtaken>>
    BY <1>4 DEF AdminStep, grantManual, revokeManual
  <2> QED BY <2>1, <2>2 DEF BillingInv, stripe, StripeTypes, EventTypes, Counters, Doing,
                            Fetched, Bought, Told
<1>5. CASE Tick
  <2>1. clock' \in 0..(MaxTime + Grace)
    BY <1>5, BoundsAssumption DEF Tick, BillingInv, Counters
  <2>2. UNCHANGED <<stripe, recorded, row, grants, job, failures, workload, overtaken>>
    BY <1>5 DEF Tick
  <2> QED BY <2>1, <2>2 DEF BillingInv, stripe, StripeTypes, EventTypes, Counters, Doing,
                            Fetched, Bought, Told
<1>6. CASE UNCHANGED vars \/ CutShort \/ \E plan \in Plans : Retire(plan)
  BY <1>6 DEF vars, CutShort, Retire, BillingInv, stripe, StripeTypes, EventTypes,
              Counters, Doing, Fetched, Bought, Told
<1> QED BY <1>1, <1>2, <1>3, <1>4, <1>5, <1>6, ProcessTypes, StripeStepTypes,
           JobStepTypes DEF Next

(* Whatever an event, the row or a job in progress names can be fetched: its  *)
(* subscription was paid for and Stripe still has it (processEvent,           *)
(* applyStripeSubscription, reconcile).                                       *)
THEOREM BillingHolds == Spec => []BillingInv
<1> QED BY InitBilling, NextTypes, PTL DEF Spec

(* Type correctness: among others no grant ends later than what was paid for, *)
(* or the grace after a failed payment, allows (applySubscription, syncPlan). *)
THEOREM TypeCorrect == Spec => []TypeOK
<1> QED BY BillingHolds, WorldHolds, InvTypes, PTL
=============================================================================
