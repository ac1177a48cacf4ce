------------------------------ MODULE Billing ------------------------------
(* One user's paid plan: subscriptions at Stripe (external), the webhooks they *)
(* emit, delivered late, out of order or never, the handlers that apply them   *)
(* and the hourly reconciliation.  A handler awaits between the record of the  *)
(* event, the object it retrieves, the row it reads, the row it writes and the *)
(* grants it synchronizes.                                                     *)
(*                                                                             *)
(* A time is a tick of the clock, which events are stamped with; late is the   *)
(* fraction of a tick by which a reconciliation beats the events of its tick.  *)
(* Refused signatures and missing metadata change nothing but the record of    *)
(* the event: they are the failures of Fail.  An object whose price no active  *)
(* plan has is refused as well, for as long as it has that price.  Stripe's    *)
(* objects are taken to have the end of their period: the item that has the    *)
(* price has it too.  Two synchronizations of one user's grants, which lock    *)
(* nothing, are taken one after the other.                                     *)
EXTENDS Integers, Sequences, FiniteSets

CONSTANTS Subs,         \* subscriptions at Stripe
          Manual,       \* references of grants an admin makes, one at a time each
          Plans,        \* paid plans
          Handlers,     \* webhook handlers; Worker runs the reconciliation
          Worker,
          Statuses,     \* statuses besides active that Stripe may report
          Period, Grace, \* ticks a payment and a failed one are good for
          MaxTime,      \* nothing changes at Stripe later
          Workloads,    \* what happens in a behaviour: the operations at Stripe, how
                        \* many events of which kinds tell of them, and how many
                        \* processes die or requests to Stripe fail
          None

ASSUME BoundsAssumption ==
  /\ Period \in Nat /\ Grace \in Nat \ {0}
  /\ MaxTime \in Nat
  /\ \A w \in Workloads : /\ w.events \in Nat /\ w.failures \in Nat
                           /\ w.kinds \subseteq {"subscription", "invoice"}

VARIABLES provider,  \* Stripe's object for each subscription
          checkouts, \* subscriptions whose Checkout session is open
          events,    \* what Stripe has emitted
          recorded,  \* stripe_webhook_events: the state of each event
          row,       \* the user's row in subscriptions, or None
          grants,    \* what each subscription or reference grants, or None
          job,       \* what each handler is doing
          clock, failures,
          workload,  \* the workload of this behaviour
          overtaken, \* history: a row was written since its writer's read
          retired,   \* plans whose price planByPrice does not find any more
          cut        \* the worker's passes end before they get to the row

stripe == <<provider, checkouts, events>>
world == <<retired, cut>>
vars == <<stripe, recorded, row, grants, job, clock, failures, workload, overtaken, world>>

Open == {"active", "trialing", "past_due"}
Jobs == Handlers \cup {Worker}
Job(pc, event, update) == [pc |-> pc, event |-> event, update |-> update, seen |-> None]
Idle == Job("idle", None, None)

Objects == [status : {"active", "canceled", "unpaid"} \cup Statuses, plan : Plans,
            ends : 0..(MaxTime + Period), cancels : BOOLEAN]
Updates == [sub : Subs, object : Objects, at : 0..(MaxTime + Grace), late : BOOLEAN]
Kinds == {"subscription", "invoice", "refund"}
EventStates == {"unseen", "processing", "processed", "ignored", "failed"}

(* The latest a grant can be valid until.                                     *)
Latest == MaxTime + IF Period > 2 * Grace THEN Period ELSE 2 * Grace
Grants == [plan : Plans, until : 0..Latest]

TypeOK ==
  /\ provider \in [Subs -> {None} \cup Objects]
  /\ checkouts \subseteq Subs
  /\ \A e \in DOMAIN events :
       events[e] \in [sub : Subs, kind : Kinds, at : 0..MaxTime, object : Objects \cup {None}]
  /\ DOMAIN recorded = DOMAIN events /\ Len(events) <= workload.events
  /\ \A e \in DOMAIN events : recorded[e] \in EventStates
  /\ row \in {None} \cup Updates
  /\ grants \in [Subs \cup Manual -> {None} \cup Grants]
  /\ \A j \in Jobs :
       /\ job[j].pc \in {"idle", "process", "read", "write", "sync", "finish"}
       /\ job[j].event \in DOMAIN events \cup {None}
       /\ job[j].update \in Updates \cup {None}
       /\ job[j].seen \in Updates \cup {None}
  /\ clock \in 0..(MaxTime + Grace) /\ failures \in 0..workload.failures /\ workload \in Workloads
  /\ overtaken \in BOOLEAN /\ retired \subseteq Plans /\ cut \in BOOLEAN

Init ==
  /\ provider = [s \in Subs |-> None] /\ checkouts = {}
  /\ events = <<>> /\ recorded = <<>>
  /\ row = None /\ grants = [s \in Subs \cup Manual |-> None]
  /\ job = [j \in Jobs |-> Idle]
  /\ clock = 0 /\ failures = 0 /\ overtaken = FALSE
  /\ retired = {} /\ cut = FALSE
  /\ workload \in Workloads

----------------------------------------------------------------------------
(* Stripe, as billing-service.ts uses it.                                     *)
Emit(s, kind) ==
  /\ Len(events) < workload.events /\ clock <= MaxTime
  /\ events' = Append(events, [sub |-> s, kind |-> kind, at |-> clock,
       object |-> IF kind = "subscription" THEN provider'[s] ELSE None])
  /\ recorded' = Append(recorded, "unseen")
  /\ UNCHANGED <<row, grants, job, clock, failures, workload, overtaken, world>>

Announce(s) == \E kind \in workload.kinds : Emit(s, kind)

(* checkout(): a session may still be paid after another one was, and when    *)
(* its plan is sold no more.                                                  *)
checkout(s) ==
  /\ provider[s] = None /\ s \notin checkouts /\ Plans \ retired # {}
  /\ row # None => row.object.status \notin Open
  /\ checkouts' = checkouts \cup {s}
  /\ UNCHANGED <<provider, events, recorded, row, grants, job, clock, failures, workload, overtaken, world>>

Pay(s, plan) ==
  /\ s \in checkouts
  /\ checkouts' = checkouts \ {s}
  /\ provider' = [provider EXCEPT ![s] =
       [status |-> "active", plan |-> plan, ends |-> clock + Period, cancels |-> FALSE]]
  /\ Announce(s)

Living(s) == provider[s] # None /\ provider[s].status # "canceled"

(* A payment fails or is made up for, the subscription is cancelled, paused...*)
ChangeStatus(s, status) ==
  /\ Living(s) /\ status # provider[s].status
  /\ provider' = [provider EXCEPT ![s].status = status]
  /\ Announce(s)
  /\ UNCHANGED checkouts

(* The customer portal: another plan, or cancellation at the period's end.    *)
ChangeTerms(s, plan, cancels) ==
  /\ Living(s) /\ <<plan, cancels>> # <<provider[s].plan, provider[s].cancels>>
  /\ provider' = [provider EXCEPT ![s].plan = plan, ![s].cancels = cancels]
  /\ Announce(s)
  /\ UNCHANGED checkouts

PeriodEnds(s, status) ==
  /\ Living(s) /\ provider[s].ends <= clock
  /\ provider' = [provider EXCEPT
       ![s].status = IF provider[s].cancels THEN "canceled" ELSE status,
       ![s].ends = IF provider[s].cancels THEN @ ELSE clock + Period]
  /\ Announce(s)
  /\ UNCHANGED checkouts

Refund(s) ==
  /\ provider[s] # None
  /\ Emit(s, "refund")
  /\ UNCHANGED <<provider, checkouts>>

(* The operator ends a plan, or gives it another price.                       *)
Retire(plan) ==
  /\ "retire" \in workload.ops /\ plan \notin retired
  /\ retired' = retired \cup {plan}
  /\ UNCHANGED <<stripe, recorded, row, grants, job, clock, failures, workload, overtaken, cut>>

(* From some pass on an earlier step throws, or reconcile throws at a row of  *)
(* another user that it comes to first, as it will at every pass; or a        *)
(* hundred others always come first.                                          *)
CutShort ==
  /\ "retire" \in workload.ops /\ ~cut
  /\ cut' = TRUE
  /\ UNCHANGED <<stripe, recorded, row, grants, job, clock, failures, workload, overtaken, retired>>

Tick ==
  /\ clock < MaxTime + Grace
  /\ clock' = clock + 1
  /\ UNCHANGED <<stripe, recorded, row, grants, job, failures, workload, overtaken, world>>

----------------------------------------------------------------------------
(* beginEvent: the insert that finds the event recorded makes the delivery a  *)
(* duplicate, which changes nothing.                                          *)
beginEvent(e) == recorded[e] = "unseen"

webhook(h, e) ==
  /\ job[h] = Idle /\ beginEvent(e)
  /\ recorded' = [recorded EXCEPT ![e] = "processing"]
  /\ job' = [job EXCEPT ![h] = Job("process", e, None)]
  /\ UNCHANGED <<stripe, row, grants, clock, failures, workload, overtaken, world>>

finishEvent(h, state) ==
  /\ recorded' = IF job[h].event = None THEN recorded
                 ELSE [recorded EXCEPT ![job[h].event] = state]
  /\ job' = [job EXCEPT ![h] = Idle]

(* processEvent: the object is the event's own, or what Stripe has now; a     *)
(* refund makes it unpaid, whatever subscription the row of that customer     *)
(* names (two subscriptions may, or may not, be of one customer).  An object  *)
(* of a retired plan is refused: planByPrice finds nothing.                   *)
Process(h, e) ==
  LET ev == events[e]
      s == IF ev.kind = "refund" THEN row.sub ELSE ev.sub
      object == CASE ev.kind = "subscription" -> ev.object
                  [] ev.kind = "invoice" -> provider[s]
                  [] ev.kind = "refund" -> [provider[s] EXCEPT !.status = "unpaid"]
  IN  /\ job[h].pc = "process" /\ job[h].event = e
      /\ \/ /\ ev.kind = "refund" => row # None
            /\ \/ /\ object.plan \notin retired
                  /\ job' = [job EXCEPT ![h].pc = "read", ![h].update =
                       [sub |-> s, object |-> object, at |-> ev.at, late |-> FALSE]]
                  /\ UNCHANGED recorded
               \/ object.plan \in retired /\ finishEvent(h, "failed")
         \/ /\ ev.kind = "refund" /\ (row # None => row.sub # ev.sub)
            /\ finishEvent(h, "ignored")
      /\ UNCHANGED <<stripe, row, grants, clock, failures, workload, overtaken, world>>

(* reconcile(), an hour after the last one: what Stripe has of the row's      *)
(* subscription counts as of now.  If its plan is retired the pass throws,    *)
(* and changes nothing.                                                       *)
reconcile ==
  /\ job[Worker] = Idle /\ row # None
  /\ ~cut /\ provider[row.sub].plan \notin retired
  /\ job' = [job EXCEPT ![Worker] = Job("read", None,
       [sub |-> row.sub, object |-> provider[row.sub], at |-> clock, late |-> TRUE])]
  /\ UNCHANGED <<stripe, recorded, row, grants, clock, failures, workload, overtaken, world>>

revocationRank(status) ==
  CASE status \in {"canceled", "unpaid"}    -> 3
    [] status \in {"paused", "incomplete"}  -> 2
    [] status = "past_due"                  -> 1
    [] OTHER                                -> 0

Before(u, v) == u.at < v.at \/ (u.at = v.at /\ ~u.late /\ v.late)
SameTime(u, v) == u.at = v.at /\ ~u.late /\ ~v.late

\* Mutant: of two objects of one time, the later to arrive is kept.
SupersedesTie(u, existing) ==
  existing = None \/ Before(existing, u) \/ u.at = existing.at

(* applySubscription keeps the newest object, the most revoking of a time.    *)
Supersedes(u, existing) ==
  \/ existing = None
  \/ /\ ~Before(u, existing)
     /\ SameTime(u, existing) =>
          revocationRank(existing.object.status) < revocationRank(u.object.status)

Read(h) ==
  /\ job[h].pc = "read"
  /\ job' = [job EXCEPT ![h].pc = IF Supersedes(job[h].update, row) THEN "write"
                                  ELSE "finish",
                        ![h].seen = row]
  /\ UNCHANGED <<stripe, recorded, row, grants, clock, failures, workload, overtaken, world>>

Write(h) ==
  /\ job[h].pc = "write"
  /\ row' = job[h].update
  /\ overtaken' = (overtaken \/ row # job[h].seen)
  /\ job' = [job EXCEPT ![h].pc = "sync", ![h].seen = None]
  /\ UNCHANGED <<stripe, recorded, grants, clock, failures, workload, world>>

(* Whether the object entitles to its plan at a time, and how long.           *)
Entitled(u, now) ==
  \/ u.object.status \in {"active", "trialing"}
  \/ u.object.status = "past_due" /\ u.at + Grace > now

\* Mutants: what is paid has no end, or one far beyond what was paid for.
validUntilNone(u) == IF u.object.status = "past_due" THEN u.at + Grace ELSE None
validUntilEver(u) ==
  IF u.object.status = "past_due" THEN u.at + Grace ELSE MaxTime + Period + Grace + 1

validUntil(u) ==
  IF u.object.status = "past_due" /\ ~u.object.cancels THEN u.at + Grace
  ELSE u.object.ends

\* Mutant: grants are added and never revoked.
GrantedOnly(u, now) ==
  IF Entitled(u, now) THEN [plan |-> u.object.plan, until |-> validUntil(u)]
  ELSE grants[u.sub]

Granted(u, now) ==
  IF Entitled(u, now) THEN [plan |-> u.object.plan, until |-> validUntil(u)]
  ELSE None

(* syncPlan: one transaction over the keys granted under the subscription.    *)
syncPlan(h) ==
  LET u == job[h].update
  IN  /\ job[h].pc = "sync"
      /\ grants' = [grants EXCEPT ![u.sub] = Granted(u, clock)]
      /\ job' = [job EXCEPT ![h].pc = "finish"]
      /\ UNCHANGED <<stripe, recorded, row, clock, failures, workload, overtaken, world>>

(* Admins grant a key until a date they choose, and revoke it: revokeManual   *)
(* looks the grant up and revokes it later, which only another revocation may *)
(* precede.                                                                   *)
grantManual(g) == \E plan \in Plans, until \in (clock + 1)..(MaxTime + Grace) :
  /\ "manual" \in workload.ops /\ grants[g] = None
  /\ grants' = [grants EXCEPT ![g] = [plan |-> plan, until |-> until]]
  /\ UNCHANGED <<stripe, recorded, row, job, clock, failures, workload, overtaken, world>>

revokeManual(g) ==
  /\ grants[g] # None
  /\ grants' = [grants EXCEPT ![g] = None]
  /\ UNCHANGED <<stripe, recorded, row, job, clock, failures, workload, overtaken, world>>

Finish(h) ==
  /\ job[h].pc = "finish"
  /\ finishEvent(h, "processed")
  /\ UNCHANGED <<stripe, row, grants, clock, failures, workload, overtaken, world>>

(* A request to Stripe fails, or its object has no metadata: the event stays  *)
(* failed.                                                                    *)
Fail(h) ==
  /\ failures < workload.failures /\ failures' = failures + 1
  /\ job[h].pc = "process"
  /\ finishEvent(h, "failed")
  /\ UNCHANGED <<stripe, row, grants, clock, workload, overtaken, world>>

(* The process dies: the event stays in processing for ever.                  *)
Die(j) ==
  /\ failures < workload.failures /\ failures' = failures + 1
  /\ job[j] # Idle
  /\ job' = [job EXCEPT ![j] = Idle]
  /\ UNCHANGED <<stripe, recorded, row, grants, clock, workload, overtaken, world>>

----------------------------------------------------------------------------
StripeStep(s) ==
  \/ checkout(s)
  \/ \E plan \in Plans :
       \/ Pay(s, plan)
       \/ "terms" \in workload.ops /\ \E cancels \in BOOLEAN : ChangeTerms(s, plan, cancels)
  \/ "period" \in workload.ops /\
       \E status \in {"active", "past_due"} \cap ({"active"} \cup Statuses) :
          PeriodEnds(s, status)
  \/ \E status \in {"active"} \cup Statuses : ChangeStatus(s, status)
  \/ "refund" \in workload.ops /\ Refund(s)

JobStep(j) == Read(j) \/ Write(j) \/ syncPlan(j) \/ Finish(j)

AdminStep(g) == grantManual(g) \/ revokeManual(g)

Next ==
  \/ \E s \in Subs : StripeStep(s)
  \/ \E h \in Handlers, e \in DOMAIN events : webhook(h, e) \/ Process(h, e)
  \/ \E h \in Handlers : Fail(h)
  \/ \E j \in Jobs : JobStep(j) \/ Die(j)
  \/ \E g \in Manual : AdminStep(g)
  \/ \E plan \in Plans : Retire(plan)
  \/ CutShort \/ reconcile \/ Tick

Spec == Init /\ [][Next]_vars

(* Handlers go on with what they await, the worker's interval fires again and *)
(* time passes.  Nothing makes Stripe deliver, or anybody pay.  A pass gets to*)
(* the row and reconciles it only while nothing throws for ever before it and *)
(* its plan is found: reconcile is disabled by cut and by retired.            *)
Fairness ==
  /\ \A h \in Handlers : WF_vars(\E e \in DOMAIN events : Process(h, e))
  /\ \A j \in Jobs : WF_vars(JobStep(j))
  /\ WF_vars(reconcile) /\ WF_vars(Tick)

FairSpec == Spec /\ Fairness

----------------------------------------------------------------------------
(* has(): a grant that is not revoked and has not ended.                      *)
Live(g) == grants[g] # None /\ grants[g].until > clock

(* The plan list() shows the user: the row's, if it still entitles.           *)
planKey == IF row # None /\ Entitled(row, clock) THEN row.object.plan ELSE "free"

(* Until a row is written behind the back of a handler that has read it, the  *)
(* row only moves to newer objects, and at one time only to more revoking     *)
(* ones: webhooks out of order cannot bring rights back.                      *)
NewestKept ==
  [][row # None /\ row' # row /\ ~overtaken' =>
       \/ Before(row, row') \/ (row.late /\ row'.at = row.at)
       \/ revocationRank(row.object.status) < revocationRank(row'.object.status)]_vars

(* Entitlements follow the provider's object: whatever was lost, reordered,   *)
(* overtaken or left half done, the row, its grants and the plan shown to the *)
(* user come to agree with Stripe's object, once there is a row to reconcile, *)
(* unless its own plan is refused or the worker's passes end before it:       *)
(* reconcile() has no catch for a row, and takes the oldest first again.      *)
Agrees ==
  row # None =>
    LET s == row.sub
    IN  /\ row.object = provider[s]
        /\ IF Entitled(row, row.at)
           THEN grants[s] # None /\ planKey = provider[s].plan /\ grants[s].plan = planKey
           ELSE grants[s] = None /\ planKey = "free"
Stuck == cut \/ (row # None /\ provider[row.sub].plan \in retired)
FollowsStripe == <>[](Agrees \/ Stuck)

(* A cancelled subscription stops granting anything, for good, also if the row*)
(* is another subscription's by then; and what an admin granted ends, whatever*)
(* is synchronized beside it.                                                 *)
AccessEnds ==
  /\ \A s \in Subs :
       <>[](provider[s] # None /\ provider[s].status = "canceled" => ~Live(s))
  /\ \A g \in Manual : <>[]~Live(g)
=============================================================================
