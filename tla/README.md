# Verification of the realtime platform

TLA+ models, TLC runs and TLAPS proofs for this repository: a service that
pairs strangers for text and video (random matches), lets them become friends,
and gives friends direct messages and direct calls. The API is a set of
stateless Node processes over Postgres and Redis. Nearly everything that can go
wrong in it goes wrong *between two awaits* of a request handler: a handler
reads a key, another handler changes it, and the first one acts on what it
read. The models therefore treat one store command as one step.

Source paths below are relative to the repository. `realtime.ts` and `app.ts`
are in `apps/api/src/`; `social.ts`, `communications.ts`, `engagement.ts`,
`friends.ts`, `moderation.ts`, `billing.ts` and `entitlements.ts` in
`packages/database/src/`.

## 1. Inventory

| Component | State it keeps | Operations | What makes it correct |
|---|---|---|---|
| **Realtime leases and matching** (`realtime.ts`, handlers of `app.ts`) | Redis: `active:<user>`, `queue:<cohort>:<mode>`, `queue-entry`, `match:<id>`, `match-acks`, `direct-call:<id>`, `deny` | join, ack, leave, next, reconnect, direct-call acquire/renew/release, block, revoke, expiry | a user is in one engagement at a time; a lease never outlives its match; cohorts never mix; a connected match was acknowledged twice; blocked and sanctioned users are not matched |
| **Direct calls** (`communications.ts` 325-543, `app.ts` 1600-1707, 2269-2322) | Postgres: `calls`, `call_participants`; Redis: the call lease; the API process: a missed-call timer | invite, accept, reject, cancel, end, signalling, report, block, missed timer, worker repair and purge | a call is answered at most once; a call that is over stays over; every invitation settles; an ended or blocked call gives its users back |
| **Direct messages** (`communications.ts`) | `messages` with a server sequence per thread, read cursors | send (retried), list, mark read, delete | one sequence per client id, no gap, no second copy, no unique index hit |
| **Encounters and blocks** (`social.ts`) | `encounters`, participants, random threads, `blocks` | start, end, chat, history, block, unblock, retention | every announced match has a row; ended once; a block dominates |
| **Ratings, cards, reconnect offers** (`engagement.ts`) | ratings, reveals, `reconnect_requests` | rate, reveal, authorize, revoke, offer, accept, invalidate | one of two raters learns the other's outcome; a block revokes what was shown or offered |
| **Friends, mutes, presence viewers** (`friends.ts`) | requests, friendships, mutes | request, respond, unfriend, mute | no request survives a block; one friendship per pair |
| **Connections, tickets, capacity** (`realtime.ts` 136-327, `app.ts` 2000-2169) | tickets, capacity set, presence sets, revocation keys, local sockets | ticket, upgrade, bind, heartbeat, unbind, revoke | a ticket is used once; the ceiling holds; a revoked session is closed |
| **Moderation** (`moderation.ts`) | reports, cases, sanctions, appeals | report, sanction, reverse, appeal, expire | an active sanction is enforced at every boundary |
| **Accounts, onboarding, sessions** (`account-service.ts`, `auth.ts`) | account state, onboarding steps, session revocation | reconcile, onboard, revoke | only a complete, unsanctioned account is `active` |
| **Privacy** (`privacy-service.ts`) | deletion and export requests | request, cancel, process | a deletion is cancelled or carried out, never both; an export finishes |
| **Avatars** (`avatar-service.ts`) | upload rows, objects | init, upload, finalize, clean up | an avatar key always has an object |
| **Billing and entitlements** (`billing.ts`, `entitlements.ts`, `billing-service.ts`) | webhook events, subscriptions, grants | webhook, reconcile, grant, revoke | replayed and reordered webhooks leave the newest state; grants follow it |
| **Worker** (`worker.ts`) | a Postgres advisory lock | one pass over all retention work | one pass at a time; every duty is reached |
| Rate limits, launch countries, preferences, contracts, configuration, observability, schema, web and admin clients, the prototype server | see `PROJECT.json` | | single-row reads, declarations, presentation |

### How the components interact

* A socket or HTTP handler in `app.ts` calls Redis (`RedisRealtimeStore`) and
  Postgres (the repositories) in turn. There is no transaction over both
  stores, and a restart ends all handlers of the process wherever they are.
* Several API processes share both stores; within a process handlers
  interleave at every `await`. The models do not distinguish the two cases.
* Redis Lua scripts and `MULTI` are atomic. A `GET` followed by a `MULTI` is
  not: `closeMatch`, `renewDirectCall`, `releaseDirectCall`, `blockPair` and
  `revokeUser` all have that shape.
* Keys have TTLs. Heartbeats and renewals prolong them.
* The worker repairs in Postgres what a restart loses; it does not touch Redis.

### What is hard here

Interleaved handlers, handlers that die between two stores, TTLs that run out
under a handler, timers that are lost with their process, checks made before an
await and relied on after it. `PROJECT.json` lists each such place under
`hazards`, with the property that covers it or the reason why none does yet.

## 2. Modules

| Module | Role |
|---|---|
| `Pairing` | abstract: engagements of two users, each user in at most one |
| `MatchLeases` | the Redis leases and all handlers that change them |
| `MatchLeases_proofs`, `MatchScripts_proofs` | theorems about it |
| `CallLife` | abstract: the life cycle of a call row |
| `DirectCalls` | direct calls: row, lease, timer, answers, block, worker |
| `DirectCalls_proofs` | theorems about it |
| `Connections` | tickets, capacity, sockets, presence, revocation |
| `Connections_proofs` | theorems about it |
| `Requests` | a request of one of two users: where it is, what it read, what it answered |
| `Moderation` | reports, cases, sanctions, appeals |
| `Encounters` | the two users' encounter: end, chat, ratings, cards, offers, history, retention |
| `Friends` | blocks, friend requests, friendships, the locks of their transactions |
| `Messages` | direct messages, read marks |
| `Social` | the four above together, with staff, time and the retention pass |
| `Social_proofs` | theorems about the friend requests and their locks |
| `SocialSafety_proofs` | theorems about blocks, ratings, message numbers and types of the composition |
| `Accounts` | accounts, onboarding, deletion, exports, the worker's passes |
| `Avatars` | uploads, objects, the finalizing transaction, their cleanup |
| `Identity` | the two above together, with time and the death of either process |
| `Identity_proofs` | theorems about the account's life, exports and avatars |
| `Billing` | Stripe's events, subscription row, grants, reconciliation |
| `Billing_proofs` | a theorem about the subscription row |
| `MCMatchLeases`, `MCDirectCalls`, `MCConnections`, `MCSocial`, `MCAccounts`, `MCBilling` | the instances TLC checks |

`Requests` <- `Moderation` <- `Encounters` <- `Friends` <- `Messages` <- `Social`
and `Accounts` <- `Avatars` <- `Identity` extend one another; `MatchLeases`
implements `Pairing`, and `DirectCalls` implements `CallLife`.

### MatchLeases

State. `active` is the key `active:<user>`: nothing, the queue marker, a match
id or a call lease. `queue`, `entries`, `live`, `acks`, `connected` and `deny`
are the other keys; `party` and `matchMode` are the contents of a match or call
record, kept after the key is gone because ids are uuids and never reused.
`blocks`, `sanctioned`, `encounter`, `timed` are the Postgres rows a lease
handler reads or writes. `announced` records which matches were published.
`handler[h]` holds the next command of a request in flight and what it has read.

Actions. One action is one store command. `JoinStart` is the guard of
`match.join`; `Scan` the block and criteria scan of `joinQueue`; `JoinBusy`,
`JoinMatched`, `JoinQueued` the outcomes of its script; `Persist` is
`encounters.start` and `Announce`, a step later, `publishMatch`: a handler may
die between them. `AckExec` is the script of
`acknowledge`, `MarkConnected` the row it then writes. `CloseRead`/`CloseExec`
are the `GET` and the `MULTI` of `closeMatch`, with `EndLeave` or `EndNext` as
what follows. `CallAcquired`, `RenewRead`/`RenewExec`, `ReleaseRead`/
`ReleaseExec` are the direct-call lease; `BlockLook` ... `BlockEnd` the block
route; `Revoke*` the enforcement of a sanction. `Fail` kills a handler at any
await, and each group of keys may expire at any time.

Abstractions. Criteria are a constant relation `Clash` (users that exclude each
other); queue order is a sequence, with priority users inserted anywhere, as
the score bonus depends on clock values; `Window` stands for the 25 entries a
join looks at. A ticket over HTTP and a socket message take the same steps.
The friendship that a call needs is the constant `Friends`.

### DirectCalls

State. `row` is `calls.state`, `party` the participants, `lease` the key
`direct-call:<id>` (absent, fresh, or aged since nobody renewed it), `active`
the users' keys, `timer` the missed-call timeout with the two commands of its
callback, `friends` and `blocks` what `directAccess` reads, `reported` the calls that a
report refers to alone. `swept` says whether the worker's passes reach every old
call by now: `expireUnanswered` looks at 500 old calls of any state in no order
(calls are kept 90 days), so it may miss one for as long as more are kept, and a
step before it may throw.

Actions. `Invite`, `Acquire`, `AcquireBusy`, `Arm` are `POST /v1/calls/direct`
(a busy acquire goes on to cancel the row). `ActStart`, `ActCheck`, `ActWrite`
and then a renewal or a release are the four call actions; `ActCheck` to
`ActWrite` is the transaction that holds the row with `FOR UPDATE`, so every
other writer of the row waits (`Locked`). `SignalStart`, `Authorize`, and the
renewal are offers, answers and candidates. `Report` ends the row, then
releases. `BlockStart` ... `BlockTerminate` is the block route from the block
row to the call row, including the two lease look-ups of `blockPair`.
`TimerFires`, `TimerFails`, `TimerReads`, `TimerReleases`, `ExpireUnanswered`,
`CleanupCalls` are the timer and the worker, each of the last two over any set of
calls it may look at (`CleanupCalls` fails if one of them is in `reported`);
`SweepChanges`, `LeaseAges`, `LeaseExpires`, `Fail` are the environment. A restart
of a process is `Fail` of its handlers and `TimerFails` of its timers.

Abstractions. Whether a user is online, restricted or in a match is left out:
an acquire may always be busy. Ring time and worker cut-off may elapse at any
moment. The worker purges only calls nothing works on (its age limit is 90
days). A friendship that ended is not renewed. `row` omits `ringing` and
`connected`, which no statement ever writes.

The two modules share the lease commands. `MatchLeases` checks them against
matching, with the call row left out; `DirectCalls` checks them against the
row, timer and worker, with matching left out.

### Connections

State. `capacity` is the sorted set of reservations and connections, `presence`
with `hasTtl` the set of a user's connections, `ticket` the ticket keys,
`revokedUser` and `session` the revocation keys and rows, `restricted` the users
under a sanction that covers realtime. `sock[k]` is one attempt to connect: a
ticket asked for, an upgrade, a socket, and how far its `bindConnection` got.

Actions. `Reserve`/`Store` are the two commands of `createTicket`;
`consumeTicket`, `CheckSession`, `CheckUser` the upgrade; `BindSlot`,
`BindMember`, `BindExpire` the three awaited commands of a bind, which the
socket's end (`Close`, `Closed`) may overtake; `Heartbeat` renews or cuts.
`RevokeSession`, `ApplySanction`, `RevokeUserKey`, `RevokeUserPublish`,
`ReverseSanction`, `RestoreUser` are the admin and session routes, one store
command a step. TTLs run out in `TicketExpires`, `ReservationLapses`,
`SlotLapses`, `SetLapses`, `RevokedUserLapses`; `Crash` is the end of a process.

Abstractions. `owed` is history: attempts that a revocation has caught and that
were not restored. `overrun` marks connections whose reservation or lease had
run out before they were bound: a bind never looks at the ceiling.

### Social

A request in flight is a record of `req`, with a step for each statement or
transaction its handler awaits. Where a transaction takes a lock and then reads
what another may write, it is split into the steps that hold the lock: the
encounter's row in `rating`, the advisory lock on the pair in `createRequest`
and `createFriendship`, the row and then that lock in `resolve`, the advisory
lock on the thread in `send`. `Deadlock` is Postgres aborting one of two
transactions that wait for each other. A block is its row, then hiding, then
cancelling requests, then ending the friendship, revoking reveals, invalidating
offers and ending the encounter, each committed alone (`BlockRow` to
`InvalidateOffers`, `end`). `Die` loses a request between two steps.

The retention pass is `SweepStart`, `DeleteMessages`, `DeleteParticipants`,
`DeleteEncounters`, `ChooseRequests`, `ExpireRequests`, `PurgeRequests`,
`CleanupCalls`, `ExpireSanctions`: it chooses ids first and writes later. A report
refers to an encounter (alone or with a message), to a message of the random chat
alone, or to a call alone (`ReportOf`). `DeleteMessages`, `DeleteEncounters` and
`CleanupCalls` fail, and end the pass, when they would take the only thing a report
refers to (`Withheld`; the call's 90 days may be over at any pass). `Moderation` keeps each
transaction of the staff as one step; the database runs them one after another
on the rows they touch.

Abstractions. The users are two and met once. Reads that a handler only checks
for existence are guards. A row is known by the request that inserted it.
`overtaken` is history: the requests that were past their check when a block's
row was written. Time is a flag for each date: two minutes connected, rating
window, 48 hours of the encounter, ends of a request, an offer, a sanction.

### Accounts, Avatars, Identity

State. `account` (state, verified e-mail, steps done), `deletion`, `exports`
with `archives` in the object store, `handler[h]` a request and the account it
read, `pass[p]` a pass of the worker with the rows it chose; `avatar` the key in
the profile, `uploads`, `objects`, `job[h]` a finalization between its steps,
`sweep` the cleanup of uploads. History: `stale`, the rows a decision was
written to after they had changed; `cancelled`, the rows a cancellation changed;
`torn`, the old objects that a transaction deleted and then did not commit.

Actions. `Register`, `Authenticate`, `Verify` are `reconcile` and the guard
before every route; `OnboardingStep`/`CommitStep`, `CancelCheck`/`CancelCommit`,
`ExportCheck`/`ExportInsert` read and then write; `StartPass` is the lease,
which a second pass of the process shares (`StartPass` has no guard on other
passes); `Maintain` stands for the steps before the privacy jobs, which may throw
(`Abort`). `Process` to `DropQuarantine` are the steps of `finalize`, and any
step that calls the object store may fail (`Fail`, `Rollback`).

### Billing

State. `provider` is Stripe's subscription objects, `events` what Stripe
announced, in order; deliveries pick any event
at any time. A delivery is taken up once (`webhook`); a duplicate only meets the
insert that finds the event recorded (`beginEvent`) and changes nothing.
`recorded` is `stripe_webhook_events`, `row` the user's subscription row,
`grants` the entitlements granted under each subscription or by an admin, `job`
a webhook handler or the worker between its steps (`Read`, `Write`, `syncPlan`,
`Finish`). `overtaken` is history: the row was written between a handler's check
and its upsert. `retired` is the plans whose price `planByPrice` no longer finds:
a webhook about them fails and `reconcile` throws. `cut` says that the worker's
passes end before they come to this user's row (`CutShort`): an earlier step of
the pass throws, or `reconcile`, which has no catch for a row, throws at a row it
takes first, or a hundred others come first each time.

Actions on Stripe's side (`checkout`, `Pay`, `ChangeStatus`, `ChangeTerms`,
`PeriodEnds`, `Refund`) are external; they produce the events the handlers read.
Objects are taken to have the end of their period (a null one would give a grant
without end, `billing.ts` 160-162), and two synchronizations of one user's grants
are taken one after the other.

## 3. Runs

The check of every run is exhaustive for its instance.

| Run | Instance | Shows |
|---|---|---|
| `MCScripts` | 3 users, 1 match, 1 call, 2 handlers; join, ack, call | With requests that reach the leases through one Lua script, both members of each live match or call hold its lease (`MutualLeases`) and the store implements `Pairing` (`KeepsPromise`), under interleaving, expiry and handler death |
| `MCSerial` | 3 users in two cohorts, 2 matches, 1 call, one handler at a time | Everything but `next`, including blocks, sanctions, reports and reconnects, stopped at any await: `KeepsPromise`, `BlockedNeverMatched`, `CohortsNeverMix` |
| `MCOverlap` | 2 users, 2 matches, 1 call, 2 handlers | What survives all interleavings of multi-step handlers: `NoDanglingLease`, `ConnectedWasAcknowledged`, `ClosedMatchStaysClosed` |
| `MCDirectCalls` | 2 users, 1 call, 2 handlers, a timer and a worker that may be lost, with fairness | `LifeSpec`, `RingSettles`, `LeaseFreed`, `BlockCutsCall` |
| `MCConnections` | 1 user, 1 session, 2 attempts, ceilings of 1, fairness | `TicketOnce`, `CeilingHolds`, `RevokedAreCut`, `SlotsReturn`, `PresenceEnds` |
| `MCSocial` | 2 users, up to 3 requests at once of 13 groups, 2 message ids, 2 staff, 1 sanction, fairness | `BlockSettles`, `RequestsAgree`, `NoCollision`, `SomeoneIsTold`, `SettledStays`, `RetentionRuns` |
| `MCAccounts` | 1 account, 1 export, 2 uploads, 2 handlers, 2 passes, 1 crash, in 4 groups, fairness | `DeletionAgrees`, `ContactIsOnboarded`, `DownloadWorks`, `AvatarShown`, `LifeKept`, `DeletionFinishes`, `ExportSettles` |
| `MCBilling` | 2 subscriptions, 1 manual grant, a webhook handler and the worker, up to 3 events, in 4 groups, fairness | `NewestKept`, `FollowsStripe`, `AccessEnds` |
| `MCCloseRace` | 3 users, 3 matches, 2 handlers; join, leave | violation of `ExclusiveLeases` |
| `MCNextUnpersisted` | 3 users, 1 handler; join, ack, next | violation of `AnnouncedIsPersisted` |
| `MCSanctionedReconnect` | 2 users, 1 handler | violation of `SanctionedStayOut` |
| `MCReported` | 2 users, 1 report, the retention pass, fairness | violation of `ReportedAreDeleted` |

Why the bounds are enough. Properties of the leases speak of two users and two
engagements; three users are needed for one member to be matched elsewhere
while the other closes the old match, two cohorts for a wrong partition to
exist, two ids for a stale lease to name a match other than the current one,
and two handlers for a command of one to fall between two of the other. A
larger number of users or ids repeats these situations, and the theorems below
cover all numbers for the properties they state. `MCDirectCalls` has a single
call because its properties are about one call's row and lease; the
leases of calls that compete with matches are the matter of `MatchLeases`. Its timer may be
lost whenever it is armed, and its handler before it arms it.

The newer runs divide what may happen into groups (*workloads*), because only
requests that write a common row or read what another writes can disturb each
other; each behaviour belongs to one group, and the groups are in the MC module.

* `MCConnections`: two attempts compete for one slot, so that a lapsed
  reservation is given away, and share one presence set, so that one keeps the
  other's member alive. A second user would only add a second, disjoint set.
* `MCSocial`: three requests let two opposite ones race while a third blocks;
  two message ids let a retry race its first attempt beside another message.
  Time guards: a request is purged only when nothing is in flight (30 days after
  it ran out); 48 hours pass only after the encounter ended and with no live
  friend request (a request never outlives its encounter).
* `MCAccounts`: two handlers and one pass, or two passes, fall between each
  other's check and write; two onboarding steps are enough for one to be missing;
  avatars have either two handlers and a crash without worker, or one upload
  beside a pass and a deletion. The deletion window and an upload's hour end only
  where no request about it is in flight.
* `MCBilling`: two subscriptions are what a re-subscription needs; three events
  give an old one, a newer one and one between; one failure or crash. The fourth
  group retires the plan and cuts the worker's passes short, with two events.
  `MaxTime = Period = Grace = 1`: a period ends, then its grace, then nothing.

`CHECK_DEADLOCK FALSE` stands in the runs that may stop: when ids, requests,
events or calls are used up. There nothing is left that a client may do.

### Fairness (`DirectCalls.Fairness`)

* Weak on each handler's next step *or failure*: an await returns an answer or
  an error. Nothing says that it succeeds.
* Weak on ageing and expiry of a lease: TTLs run. A renewal makes a lease
  fresh, so one that is renewed for ever is never forced to expire, as in Redis.
* Strong on an armed timer, which fires or is lost on an error, and on the
  worker's update of a row: Postgres queues an `UPDATE` on a locked row, so a lock
  that is taken and given back cannot keep it out for ever. Of the worker this is
  assumed only while `swept`: nothing in the code makes a pass come to a given
  call. `expireUnanswered` runs after the avatar, encounter and friend-request
  clean-ups, which may throw in every pass (finding 4), and its sub-select takes any
  500 old calls. `RingSettles` therefore excepts the call that nothing is left to
  settle (`Abandoned`): no timer, no handler and a worker that does not come to it.
* None on clients, crashes, blocks or the worker's reach.

### Fairness of the other modules

* `Connections`: weak on the commands of a bind, heartbeats, the closing of a
  socket (ws ends it after a timeout) and the expiry of keys. None on clients,
  publications or crashes: `RevokedAreCut` holds with every event lost.
* `Social`: weak on each request under way and on the retention pass (the
  worker's interval). None on beginning a request, on staff or on time.
* `Identity`: weak on starting passes and on their steps; strong on `Maintain`,
  that is, not every pass fails before the privacy jobs. None on requests.
* `Billing`: weak on handlers, reconciliation and the clock. `reconcile` is enabled
  only while the passes get to the row (`~cut`) and its plan is found, so nothing is
  assumed of a row that throws, of rows behind one, or of a pass that an earlier
  step ends (finding 4 makes that last for ever): `FollowsStripe` excepts exactly
  these (`Stuck`). None on Stripe: an event may never be delivered, and the run shows
  that reconciliation is enough.

### Findings

1. `MCCloseRace`: `closeMatch` deletes both members' `active` keys without
   looking at them again. If both members leave at once and one is matched anew
   before the slower `MULTI`, that user's new lease is deleted and the user may
   end up in two live matches.
2. `MCNextUnpersisted`: `match.next` publishes a match it found without
   `encounters.start`; chat, rating, report and reconnect have no row to work on.
3. `MCSanctionedReconnect`: accepting a reconnect checks account state, not the
   sanctions of the requester, so a user under an enforced matching restriction
   is matched.

4. `MCReported`: a report of an encounter alone refers to nothing else once the
   encounter is deleted (`ON DELETE SET NULL`), which the check
   `reports_has_context` forbids: `cleanupExpired` throws in every pass, the
   encounter stays, and the duties after it in the pass are not reached. A report of
   a message of the random chat alone does the same one statement earlier (`chat`
   stays), and a report of a call alone does it in `cleanupCalls` from the call's
   90th day on, so that sanctions, reconciliation and privacy are not reached.
   `RetentionRuns` says how far a pass gets with each of them (`Held`, `ChatHeld`,
   `CallHeld`).

Other instances of `MatchLeases` show further weaknesses that have no run here:
with two handlers, a block or a sanction that is stored between the scan and
the script of a join is not seen (`BlockedNeverMatched`, `SanctionedStayOut`);
a sanction whose handler dies before `revokeUser` leaves its user in the queue,
where the next join finds them (`SanctionedStayOut`, with one handler);
`renewDirectCall` brings back a lease that was released between its read and
its writes (`MutualLeases`); with two modes, a user whose queue lease ran out
may wait in two partitions; with `Window = 1` stale entries hide everyone behind
them. In `DirectCalls` that same renewal may leave a blocked pair's call leased
after the block has finished; `BlockCutsCall` shows that it is not renewed again
and runs out.

What the properties of the other modules had to except, and what was met on the
way, is worth a reader's attention too:

* Direct calls. "The worker repairs missed-state transitions"
  (`docs/architecture/unit-16-17-direct-communications.md`:17) holds only while its pass
  comes to the call: with more than 500 calls older than the ring time, one whose
  timer was lost may ring in the table for as long as the others are kept (`swept`).

* Connections. A crash between `SADD` and the first `EXPIRE` leaves a presence
  set without TTL (`PresenceEnds` supposes one). A bind or renewal that is still
  awaited when the socket closes takes its slot again until the lease runs out.
  A bind does not look at the ceiling (`overrun`). `restoreUser` deletes the
  revocation key also when another sanction stands. Nothing subscribes to the
  session channel: a revoked session is cut at its next heartbeat.
* Accounts. Three writes rest on a state read before: onboarding's last step,
  `reconcile`, and `cancelDeletion` against `anonymize` (`stale`). Cancelling a
  deletion makes an unfinished account active (`cancelled`). An export left in
  `processing` by a crash, or by a database error in the catch that should mark it
  failed, is never taken up (`crashes` counts both). Revoked sessions still
  authenticate over HTTP. Anonymizing leaves the avatar object. The states
  `suspended`, `limited` and `banned` are never written.
* Avatars. The old object is deleted inside the transaction, so a failed commit
  leaves a profile that names a missing object (`torn`). Two finalizations read
  the same old key, and the object of one is orphaned. An error after the commit
  answers 400 though the avatar changed. A crash leaves `processing` for ever.
* Billing. Events of the same second are dropped until the hourly
  reconciliation; a first webhook that is lost leaves a paying user without a
  row; each reconciliation of a past-due subscription prolongs its grace;
  disputes carry no customer and are ignored; one row whose reconciliation throws
  ends every pass for the rows behind it and for the privacy jobs; what a refund revoked is restored
  by the next reconciliation, since the subscription itself is active.
* Social. A block's handler that dies leaves a friendship that only the block
  row holds back. Requests past their check when the block's row comes still
  write a request, a reveal or an offer (`overtaken`). The worker may write
  `expired` over a request accepted meanwhile, after which friends may hold a
  live request. A block hides the blocked user's rows of every encounter.
  `reconnect_requests` that lapsed stay pending. A retry of an erased message is
  a conflict; a retried chat message is announced under a new number while its
  row keeps the first. The statement of `requests()` (`friends.ts` 228) has an
  unbalanced parenthesis, so that list always fails. An appeal can be reviewed
  again, and a granted one does not lift the key in Redis. Sanctions without an
  end date are not active for `activeSanctions`.

## 4. Proofs

All theorems hold for every choice of the constants that satisfies the named
`ASSUME`s, which TLC evaluates on the instances. Most say that ids and users are
not the null value and that bounds are natural numbers. Four say more:
`PairAssumption` (Social has two users), `StartsAssumption` (no behaviour begins
with both a live request and a friendship), `StepsAssumption` (no onboarding step has
the name of another operation) and `WorkloadsAssumption` (a workload names existing passes and
operations). `BoundsAssumption` of `Billing` says which kinds of event Stripe sends
for a subscription. `CeilingAssumption`, `OwnerAssumption` give ceilings and sessions
their types.

`MatchLeases_proofs`: `LeaseInvariance` proves `Spec => []LeaseInv`.
`NoDanglingLease` is not inductive alone: a handler about to write must know
that the id it read was in use (`HandlerOK`, `Knows`), a live id must have
members and a mode (`LiveIsUsed`), and a cohort is preserved only if every
queue entry belongs to its partition (`QueueKeepsCohort`). The proof has one
lemma per group of store commands. `TypeCorrect`, `NoDanglingLeases`,
`ConnectedAcknowledged`, `CohortIsolation` and `NoMatchRevived` follow from it.

`MatchScripts_proofs`: under the assumption that only the one-script requests
are sent, `ScriptsLeaseBoth` and `ScriptsKeepPromise` prove that both members
of every live engagement hold its lease and that the store implements
`Pairing`. With the other requests this is false (finding 1), which is why
the assumption is part of the theorem. The other theorems say that interleaving
is all that is wrong with them: under `OneAtATime` (any two handlers are the
same), with every request of the module, failures at any await and keys that run
out between any two commands, `AloneLeasesBoth`, `AloneKeepsPromise` and
`AloneNeverMatchesBlocked` hold. Their invariant `SerialInv` says what a read is
worth at the write decided on it: nobody whose lease is about to be deleted or
written again is in another engagement (`Holds`), which keys that run out cannot
change, and whoever a block forbids is marked when the join script looks
(`Warned`).

`DirectCalls_proofs`: `CallInvariance` proves the types, what each handler has
in hand, and `RowHeld`: a handler about to write holds its row alone and the
state it decided on is still there. Without `RowHeld` an answer could revive
an ended call. `CallsKeepTheirLife` is the refinement: every step maps to a
step or a stutter of `CallLife`.

`Connections_proofs`: `ConnectionsTypeOK` and `TicketsAdmitOnce` rest on
`Attempted`: an attempt that has not begun is counted nowhere, a ticket in Redis
belongs to an attempt that is still waiting with it, and one that somebody
consumed is gone. `CeilingsHold` adds `Ceilings`: the capacity set is finite and
its counted members stay within the ceilings, in all and of each country. Only
the script of a ticket adds a counted member, and it compares first; a bind
swaps its own reservation for its own connection, or marks it in `overrun` when
there was none to swap.

`Social_proofs`: `LocksHold` proves `LockInv`. `RequestsAgree` is not inductive:
between the read under the lock on the pair and the insert, other requests go
on. `LockInv` says that the requests past that lock are one (`Exclusive`), that
what it read still holds (`PairKnown`), and the same of the row that an answer
holds (`RowKnown`). The lemma `ShrinksKeeps` covers every step that ends requests
or friendships, `ElsewhereKeeps` every step of a request without a lock.
`RequestsAlwaysAgree` and `AnswersStay` follow.

`SocialSafety_proofs`: none of the properties of `Social` is inductive, since a
property of the answer rests on every await before it. `RoutesHold` says where a
request can be and what it has in hand there, in what order the chat's counter was
drawn, and that the numbers of a thread run from 1 to its length: `NeverCollides`
follows, because who stores a message holds the thread alone. `RatingsHold` adds
that a rating about to commit knows of the peer's, whence `SomeoneIsAlwaysTold`.
`KindsHold` is the type invariant with what it needs to be inductive (an appeal
names an issued sanction; a restriction, a case): `TypeCorrect`. `BlocksHold` has
a clause for each statement of a block: from that statement on, what it removed
stays removed (`NothingPending`, `Apart`, `NothingRevealed`, `NothingOffered`,
`HiddenBoth`), because whoever would bring it back checks for a block first
(`CheckedFirst`), and whoever had checked before the block is in `overtaken`.
`BlocksSettle` is the end of that chain.

`Identity_proofs`: `LifeHolds` proves `Life`. A handler's decision rests on a
row it read before, so `DeletionAgrees` alone says nothing of its write;
`Decided` says what it read and that the row is still like that or is counted in
`stale`. `DeletionsAgree`, `ContactsAreOnboarded` and `AccountsKeepTheirLife` follow.
Their exceptions (`stale`, `cancelled`) are the lost updates listed above.
`ExportsHold` keeps each export to the archives stored for it: a pass that will
still build an export has not stored its archive (`BuiltOnce`) and nobody has it
among those to delete, which `DownloadsWork` needs of every export with a link.
`ImagesHold` says the same of images: who is past the download from quarantine
is the only one to make its image, stores it before the profile names it, and
reads as old only what the profile named. `ErasuresHold` adds that an avatar
request was let in while no deletion was pending (`Admitted`), so that
`anonymize` can come under it only by way of a deletion asked for meanwhile,
inside its window (`open`) or by a lost update (`stale`). `AvatarsShown` and
`TypeCorrect` follow. The exception for `open` is one that TLC found: a deletion
that a pass has selected is cancelled too late to stop it and asked for again,
and the pass carries it out inside the new window, while an avatar request that
was let in between the two is still at work.

`Billing_proofs`: `RightsStayRevoked`, from `Compared`: a handler about to write
has compared its object with the row it read, so its write supersedes the row
unless another write came between (`overtaken`). `BillingHolds` is the type
invariant with what it needs to be inductive: whatever an event, the row or a
job in progress names was paid for, and Stripe never forgets it (`Bought`), so
every step has an object to fetch, apply and grant from. `TypeCorrect` follows;
its bound on `until` says that no grant outlasts what it was given for.

Only model-checked:

* all liveness properties, which are out of the prover's reach: `RevokedAreCut`,
  `SlotsReturn`, `PresenceEnds`, `RingSettles`, `LeaseFreed`, `BlockCutsCall`,
  `RetentionRuns`, `DeletionFinishes`, `ExportSettles`,
  `FollowsStripe`, `AccessEnds`.

Every invariant and action property of a passing run is stated by a theorem; those
of `MCSerial` under the assumption that makes them true.

## 5. Not modelled

Rate limits and repeated-content checks (a counter with a TTL), launch
countries and preferences (they enter matching as `Clash`), contracts and
configuration, observability, the web and admin applications with the realtime
client, the prototype server the product replaces, build and deployment.
WebRTC, the object store's inside and the payment provider are external.
Delivery of published events is left out: a lost `match.found` leaves the leases
as they are. Mutes are stored by two routes and read by nothing. Editing profile,
visibility and settings are updates of one row with no reader that decides on
them here. Lists, counts, queues and summaries are single reads and appear only
where a property speaks of them. One pass of the worker over all its duties at
once is not composed: each module has the part that touches its rows, and the
only link between the parts is that an error ends the pass, which is an action of
each (`Abort`, `Withheld` rows) or a condition (`cut`, `swept`).

## 6. Plan

All twelve runs exist. What is left, in this order:

1. A second user in `Connections`, with two countries, if the run's time allows.
