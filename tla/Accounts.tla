------------------------------ MODULE Accounts ------------------------------
(* The account rows of one identity: reconciliation at every request,         *)
(* onboarding, deletion and its cancellation, data exports and the passes of  *)
(* the maintenance worker.  Handlers await between what they read and what    *)
(* they write, and no statement but the ones of one transaction is guarded by *)
(* the state another may have written.  A transaction whose first read takes  *)
(* no lock is two steps: the read, and the commit of its writes.              *)
(*                                                                            *)
(* limited, suspended and banned are left out: no code writes them.           *)
EXTENDS Integers, FiniteSets

CONSTANTS Rows,      \* the user rows the identity may come to have
          Exports,   \* export requests
          Handlers,  \* HTTP requests being served
          Passes,    \* passes of one worker process under way
          Steps,     \* onboarding steps, birth_date among them
          Workloads, \* the operations clients keep to, with the passes under way
          MaxCrashes, None

VARIABLES account,   \* each user row, or None
          deletion,  \* each row's deletion request
          exports,   \* each export request, or None
          archives,  \* archives in object storage
          handler, pass,
          workload,  \* the workload of this behaviour
          crashes,
          cancelled, \* history: rows whose deletion was cancelled
          stale      \* history: rows written by who had seen another state

history == <<cancelled, stale>>
vars == <<account, deletion, exports, archives, handler, pass, workload,
          crashes, history>>

States == {"pending_verification", "onboarding", "active", "deletion_pending",
           "deleted"}
Operations == Steps \cup {"delete", "cancel", "export", "avatar"}
Archive == Exports \X Passes

Idle == [pc |-> "idle", op |-> None, row |-> None, seen |-> None]
NoPass == [pc |-> "idle", todo |-> {}, at |-> None]

Account == [state : States, verified : BOOLEAN, steps : SUBSET Steps]
DeletionRequest == [state : {"none", "pending", "canceled", "completed"},
                    open : BOOLEAN]  \* cancelUntil is ahead
ExportRequest ==
  [row : Rows, key : Archive \cup {None}, old : BOOLEAN,
   state : {"pending", "processing", "ready", "failed", "completed"}]

ASSUME NoneAssumption ==
  None \notin Rows \cup Exports \cup Account \cup ExportRequest \cup Archive
ASSUME StepsAssumption == Steps \cap {"delete", "cancel", "export", "avatar"} = {}
ASSUME CrashesAssumption == MaxCrashes \in Nat
ASSUME WorkloadsAssumption ==
  \A w \in Workloads : w.passes \subseteq Passes /\ w.ops \subseteq Operations

AccountTypeOK ==
  /\ account \in [Rows -> {None} \cup Account]
  /\ deletion \in [Rows -> DeletionRequest]
  /\ exports \in [Exports -> {None} \cup ExportRequest]
  /\ archives \subseteq Archive
  /\ handler \in [Handlers ->
       [pc : {"idle", "verify", "go", "activate", "store", "cancel", "export"},
        op : Operations \cup {None}, row : Rows \cup {None},
        seen : States \cup {None}]]
  /\ pass \in [Passes ->
       [pc : {"idle", "maintenance", "exports", "building", "deletions",
              "expired", "deleting"},
        todo : (SUBSET Rows) \cup (SUBSET Exports) \cup (SUBSET Archive),
        at : Exports \cup {None}]]
  /\ cancelled \subseteq Rows /\ stale \subseteq Rows
  /\ workload \in Workloads /\ crashes \in 0..MaxCrashes

(* There is no row yet, or one that went through onboarding.                  *)
Onboarded == [state |-> "active", verified |-> TRUE, steps |-> Steps]

AccountInit ==
  /\ account \in {[r \in Rows |-> IF r = q THEN Onboarded ELSE None] :
                  q \in IF workload.onboarded THEN Rows ELSE {None}}
  /\ deletion = [r \in Rows |-> [state |-> "none", open |-> FALSE]]
  /\ exports = [e \in Exports |-> None]
  /\ archives = {}
  /\ handler = [h \in Handlers |-> Idle]
  /\ pass = [p \in Passes |-> NoPass]
  /\ cancelled = {} /\ stale = {}
  /\ crashes = 0

----------------------------------------------------------------------------
Exists(r) == account[r] # None
Live(r) == Exists(r) /\ account[r].state # "deleted"
NewRow(verified) ==
  [state |-> IF verified THEN "onboarding" ELSE "pending_verification",
   verified |-> verified, steps |-> {}]

\* Mutant: an account whose deletion is pending may still do everything.
AllowedPending(op, state, verified, steps) ==
  CASE op = "cancel"  -> TRUE
    [] op = "contact" -> state = "active" /\ verified /\ "birth_date" \in steps
    [] OTHER          -> state # "deleted"

(* capabilityError and the cohort check of guard(): what an account in a given*)
(* state may do.  Cancelling a deletion needs authentication only.            *)
Allowed(op, state, verified, steps) ==
  CASE op = "cancel"  -> TRUE
    [] op = "contact" -> /\ state = "active" /\ verified
                         /\ "birth_date" \in steps
    [] OTHER          -> state \notin {"deletion_pending", "deleted"}

Stale(h) == stale' = IF account[handler[h].row].state = handler[h].seen THEN stale
                     ELSE stale \cup {handler[h].row}

Serve(h, op, r, state, verified) ==
  handler' = [handler EXCEPT ![h] =
    IF Allowed(op, state, verified, account[r].steps)
    THEN [pc |-> "go", op |-> op, row |-> r, seen |-> state] ELSE Idle]

(* authenticate -> reconcile: the identity's first request makes a row, and so*)
(* does the first one after its row was deleted.                              *)
Register(h, r, verified) ==
  /\ handler[h] = Idle
  /\ ~Exists(r) /\ \A q \in Rows : ~Live(q)
  /\ account' = [account EXCEPT ![r] = NewRow(verified)]
  /\ UNCHANGED <<deletion, exports, archives, handler, pass, workload, crashes, history>>

(* The row is read; if the token says the address is verified and the row does*)
(* not, what was read is written back with the flag.                          *)
Authenticate(h, r, op, verified) ==
  /\ handler[h] = Idle /\ Live(r)
  /\ IF verified /\ ~account[r].verified
     THEN handler' = [handler EXCEPT ![h] =
            [pc |-> "verify", op |-> op, row |-> r, seen |-> account[r].state]]
     ELSE Serve(h, op, r, account[r].state, account[r].verified)
  /\ UNCHANGED <<account, deletion, exports, archives, pass, workload, crashes, history>>

\* Mutant: a verified address always puts the account into onboarding.
VerifiedAlways(state) == "onboarding"

Verified(state) == IF state = "pending_verification" THEN "onboarding" ELSE state

Verify(h) ==
  LET r == handler[h].row
      state == Verified(handler[h].seen)
  IN  /\ handler[h].pc = "verify"
      /\ account' = [account EXCEPT ![r].state = state, ![r].verified = TRUE]
      /\ Serve(h, handler[h].op, r, state, TRUE)
      /\ Stale(h)
      /\ UNCHANGED <<deletion, exports, archives, pass, workload, crashes, cancelled>>

----------------------------------------------------------------------------
Going(h, op) == handler[h].pc = "go" /\ handler[h].op = op
Done(h) == handler' = [handler EXCEPT ![h] = Idle]

\* Mutant: the other steps are not looked at.
CompleteAtOnce(r, step) == account[r].verified

Complete(r, step) ==
  account[r].verified /\ account[r].steps \cup {step} = Steps

(* onboarding(): the step's rows are written, everything is read again, and   *)
(* the account becomes active whatever its state is.  A birth date locks the  *)
(* user row until the commit; what the other steps write is not seen by other *)
(* transactions until then, so two last steps may each miss the other.  The   *)
(* unlocked test for an earlier birth date and the update are one step here:  *)
(* two that pass it at once write the same column, and an activation of an    *)
(* account that changed meanwhile is in stale either way.                     *)
OnboardingStep(h, step) ==
  LET r == handler[h].row
  IN  /\ Going(h, step)
      /\ IF step # "birth_date"
         THEN /\ handler' = [handler EXCEPT ![h].pc =
                   IF Complete(r, step) THEN "activate" ELSE "store"]
              /\ UNCHANGED account
         ELSE /\ Done(h)
              /\ IF step \in account[r].steps
                 THEN UNCHANGED account
                 ELSE account' = [account EXCEPT
                        ![r].steps = @ \cup {step},
                        ![r].state = IF Complete(r, step) THEN "active" ELSE @]
      /\ IF account'[r].state = account[r].state THEN UNCHANGED stale ELSE Stale(h)
      /\ UNCHANGED <<deletion, exports, archives, pass, workload, crashes, cancelled>>

CommitStep(h) ==
  LET r == handler[h].row
      activates == handler[h].pc = "activate"
  IN  /\ handler[h].pc \in {"activate", "store"}
      /\ account' = [account EXCEPT ![r].steps = @ \cup {handler[h].op},
                                    ![r].state = IF activates THEN "active" ELSE @]
      /\ Done(h)
      /\ IF activates THEN Stale(h) ELSE UNCHANGED stale
      /\ UNCHANGED <<deletion, exports, archives, pass, workload, crashes, cancelled>>

(* requestDeletion: an active subscription refuses it.  Its read and its writes*)
(* are one step: the one change that matters in between, an anonymization of a*)
(* row cancelled meanwhile, has made the row stale already.                   *)
RequestDeletion(h) ==
  LET r == handler[h].row
  IN  /\ Going(h, "delete")
      /\ Done(h)
      /\ \/ /\ deletion[r].state \in {"none", "canceled"}
            /\ deletion' = [deletion EXCEPT ![r] = [state |-> "pending", open |-> TRUE]]
            /\ account' = [account EXCEPT ![r].state = "deletion_pending"]
         \/ UNCHANGED <<account, deletion>>
      /\ UNCHANGED <<exports, archives, pass, workload, crashes, history>>

Cancellable(r) == deletion[r].state = "pending" /\ deletion[r].open

CancelCheck(h) ==
  /\ Going(h, "cancel")
  /\ IF Cancellable(handler[h].row)
     THEN handler' = [handler EXCEPT ![h].pc = "cancel",
                        ![h].seen = account[handler[h].row].state]
     ELSE Done(h)
  /\ UNCHANGED <<account, deletion, exports, archives, pass, workload, crashes, history>>

CancelCommit(h) ==
  LET r == handler[h].row
  IN  /\ handler[h].pc = "cancel"
      /\ deletion' = [deletion EXCEPT ![r].state = "canceled"]
      /\ account' = [account EXCEPT ![r].state = "active"]
      /\ cancelled' = cancelled \cup {r}
      /\ Done(h)
      /\ Stale(h)
      /\ UNCHANGED <<exports, archives, pass, workload, crashes>>

(* The seven days to cancel are over: no code runs.                           *)
WindowCloses(r) ==
  /\ Cancellable(r)
  /\ deletion' = [deletion EXCEPT ![r].open = FALSE]
  /\ UNCHANGED <<account, exports, archives, handler, pass, workload, crashes, history>>

----------------------------------------------------------------------------
(* Exports.                                                                   *)
Unfinished(r) == {e \in Exports : /\ exports[e] # None /\ exports[e].row = r
                                  /\ exports[e].state \in {"pending", "processing", "ready"}}

ExportCheck(h) ==
  /\ Going(h, "export")
  /\ IF Unfinished(handler[h].row) = {}
     THEN handler' = [handler EXCEPT ![h].pc = "export"] ELSE Done(h)
  /\ UNCHANGED <<account, deletion, exports, archives, pass, workload, crashes, history>>

ExportInsert(h, e) ==
  /\ handler[h].pc = "export" /\ exports[e] = None
  /\ exports' = [exports EXCEPT ![e] =
       [row |-> handler[h].row, key |-> None, old |-> FALSE, state |-> "pending"]]
  /\ Done(h)
  /\ UNCHANGED <<account, deletion, archives, pass, workload, crashes, history>>

ExportAges(e) ==
  /\ exports[e] # None /\ exports[e].state = "ready" /\ ~exports[e].old
  /\ exports' = [exports EXCEPT ![e].old = TRUE]
  /\ UNCHANGED <<account, deletion, archives, handler, pass, workload, crashes, history>>

InState(s) == {e \in Exports : exports[e] # None /\ exports[e].state = s}

(* Whether a link is handed out for an export.                                *)
download(e) == e \in InState("ready") /\ ~exports[e].old

----------------------------------------------------------------------------
(* The worker.  pg_try_advisory_lock belongs to a database session, and the   *)
(* passes of one process share a pool: an interval that fires while a pass is *)
(* under way is given the lock again.                                         *)
To(p, pc, todo) == pass' = [pass EXCEPT ![p] = [pc |-> pc, todo |-> todo, at |-> None]]
\* Mutants: a failed export counts as expired; so does a ready one at once.
ExpiredFailed == {exports[e].key : e \in InState("ready") \cup InState("failed")}
ExpiredAtOnce == {exports[e].key : e \in InState("ready")}

Expired == {exports[e].key : e \in {x \in InState("ready") : exports[x].old}}
Due == {r \in Rows : deletion[r].state = "pending" /\ ~deletion[r].open}

StartPass(p) ==
  /\ pass[p].pc = "idle"
  /\ To(p, "maintenance", {})
  /\ UNCHANGED <<account, deletion, exports, archives, handler, workload, crashes, history>>

(* What comes first (cleanups, sanctions, Stripe) may throw and end the pass. *)
Maintain(p) ==
  /\ pass[p].pc = "maintenance"
  /\ To(p, "exports", InState("pending"))
  /\ UNCHANGED <<account, deletion, exports, archives, handler, workload, crashes, history>>

Abort(p) ==
  /\ pass[p].pc = "maintenance"
  /\ To(p, "idle", {})
  /\ UNCHANGED <<account, deletion, exports, archives, handler, workload, crashes, history>>

StartExport(p, e) ==
  /\ pass[p].pc = "exports" /\ e \in pass[p].todo
  /\ exports' = [exports EXCEPT ![e].state = "processing"]
  /\ pass' = [pass EXCEPT ![p] = [pc |-> "building", todo |-> @.todo \ {e}, at |-> e]]
  /\ UNCHANGED <<account, deletion, archives, handler, workload, crashes, history>>

(* The archive of the pass's export; it is built and stored, or that failed.  *)
buildArchive(p) == <<pass[p].at, p>>

StoreArchive(p) ==
  /\ pass[p].pc = "building" /\ buildArchive(p) \notin archives
  /\ archives' = archives \cup {buildArchive(p)}
  /\ UNCHANGED <<account, deletion, exports, handler, pass, workload, crashes, history>>

\* Mutant: an archive that could not be stored is not recorded as failed.
FinishExportStored(p) ==
  LET e == pass[p].at
  IN  /\ pass[p].pc = "building"
      /\ exports' = IF buildArchive(p) \in archives
           THEN [exports EXCEPT ![e].state = "ready", ![e].key = buildArchive(p),
                                ![e].old = FALSE]
           ELSE exports
      /\ To(p, "exports", pass[p].todo)
      /\ UNCHANGED <<account, deletion, archives, handler, workload, crashes, history>>

FinishExport(p) ==
  LET e == pass[p].at
      stored == buildArchive(p) \in archives
  IN  /\ pass[p].pc = "building"
      /\ exports' = [exports EXCEPT
           ![e].state = IF stored THEN "ready" ELSE "failed",
           ![e].key = IF stored THEN buildArchive(p) ELSE @,
           ![e].old = IF stored THEN FALSE ELSE @]
      /\ To(p, "exports", pass[p].todo)
      /\ UNCHANGED <<account, deletion, archives, handler, workload, crashes, history>>

SelectDeletions(p) ==
  /\ pass[p].pc = "exports" /\ pass[p].todo = {}
  /\ To(p, "deletions", Due)
  /\ UNCHANGED <<account, deletion, exports, archives, handler, workload, crashes, history>>

anonymize(p, r) ==
  /\ pass[p].pc = "deletions" /\ r \in pass[p].todo
  /\ account' = [account EXCEPT ![r].state = "deleted",
                                ![r].steps = @ \ {"birth_date"}]
  /\ deletion' = [deletion EXCEPT ![r].state = "completed"]
  /\ To(p, "deletions", pass[p].todo \ {r})
  /\ stale' = IF deletion[r].state = "pending" THEN stale ELSE stale \cup {r}
  /\ UNCHANGED <<exports, archives, handler, workload, crashes, cancelled>>

SelectExpired(p) ==
  /\ pass[p].pc = "deletions" /\ pass[p].todo = {}
  /\ To(p, "expired", Expired)
  /\ UNCHANGED <<account, deletion, exports, archives, handler, workload, crashes, history>>

(* The archive is deleted (an error there is ignored), then the row completed.*)
DropArchive(p, key) ==
  /\ pass[p].pc = "expired" /\ key \in pass[p].todo
  /\ archives' \in {archives, archives \ {key}}
  /\ pass' = [pass EXCEPT ![p] =
       [pc |-> "deleting", todo |-> @.todo \ {key}, at |-> key[1]]]
  /\ UNCHANGED <<account, deletion, exports, handler, workload, crashes, history>>

CompleteExport(p) ==
  /\ pass[p].pc = "deleting"
  /\ exports' = [exports EXCEPT ![pass[p].at].state = "completed",
                                ![pass[p].at].key = None]
  /\ To(p, "expired", pass[p].todo)
  /\ UNCHANGED <<account, deletion, archives, handler, workload, crashes, history>>

\* Mutant: a pass that is over keeps its lease.
EndPassLeased(p) ==
  pass[p].pc = "expired" /\ pass[p].todo = {} /\ UNCHANGED vars

EndPass(p) ==
  /\ pass[p].pc = "expired" /\ pass[p].todo = {}
  /\ To(p, "idle", {})
  /\ UNCHANGED <<account, deletion, exports, archives, handler, workload, crashes, history>>

(* The worker process dies in the middle of its passes.                       *)
Crash ==
  /\ crashes < MaxCrashes
  /\ crashes' = crashes + 1
  /\ \E p \in Passes : pass[p].pc # "idle"
  /\ pass' = [p \in Passes |-> NoPass]
  /\ UNCHANGED <<account, deletion, exports, archives, handler, workload, history>>

----------------------------------------------------------------------------
HandlerStep(h) ==
  \/ \E r \in Rows, verified \in BOOLEAN :
       \/ Register(h, r, verified)
       \/ \E op \in workload.ops : Authenticate(h, r, op, verified)
  \/ Verify(h)
  \/ \E step \in Steps : OnboardingStep(h, step)
  \/ CommitStep(h)
  \/ RequestDeletion(h) \/ CancelCheck(h) \/ CancelCommit(h)
  \/ ExportCheck(h) \/ \E e \in Exports : ExportInsert(h, e)

PrivacyStep(p) ==
  \/ \E e \in Exports : StartExport(p, e)
  \/ \E key \in Archive : DropArchive(p, key)
  \/ StoreArchive(p) \/ FinishExport(p)
  \/ SelectDeletions(p) \/ SelectExpired(p) \/ CompleteExport(p) \/ EndPass(p)

----------------------------------------------------------------------------
(* account-state.ts: the transitions an account may take.  Only               *)
(* IdentityRepository.setState asserts them, and no route calls that.         *)
Transitions ==
  [pending_verification |-> {"onboarding", "deletion_pending"},
   onboarding |-> {"active", "deletion_pending"},
   active |-> {"deletion_pending"},
   deletion_pending |-> {"active", "deleted"},
   deleted |-> {}]
canTransitionAccountState(from, to) == from = to \/ to \in Transitions[from]

(* The account keeps to the documented transitions, whatever requests and     *)
(* passes interleave, but for writes decided on a state that changed since:   *)
(* only those lost updates break its life.                                    *)
LifeKept ==
  [][\A r \in Rows : Exists(r) /\ r \notin stale' =>
       canTransitionAccountState(account[r].state, account'[r].state)]_vars

(* The account and its deletion request agree, under the same exception: no   *)
(* deletion is both cancelled and carried out, none is pending and forgotten. *)
DeletionAgrees ==
  \A r \in Rows : Exists(r) /\ r \notin stale =>
    /\ account[r].state = "deletion_pending" <=> deletion[r].state = "pending"
    /\ account[r].state = "deleted" <=> deletion[r].state = "completed"

(* An account that may contact others went through the whole of onboarding,   *)
(* if no deletion of it was cancelled and no update lost: a cancellation makes*)
(* an unfinished account active.                                              *)
Contact(r) == /\ Exists(r)
              /\ Allowed("contact", account[r].state, account[r].verified,
                         account[r].steps)
ContactIsOnboarded ==
  \A r \in Rows \ (cancelled \cup stale) : Contact(r) => account[r].steps = Steps

(* A deletion past its window is carried out (or had been cancelled), however *)
(* passes overlap or die, unless from some time on each of them aborts before *)
(* it comes to the deletions (Fairness).                                      *)
DeletionFinishes ==
  \A r \in Rows : (r \in Due) ~> (r \notin Due)

(* An export asked for is delivered or fails, unless the worker dies: nothing *)
(* takes up a request that was left in processing.  (A database error in the  *)
(* catch of processDue leaves it there too and ends the pass; it is counted   *)
(* among the crashes.)                                                        *)
ExportSettles ==
  \A e \in Exports :
    (e \in InState("pending"))
      ~> (crashes > 0 \/ e \in UNION {InState(s) : s \in {"ready", "failed", "completed"}})

(* A link handed out for an export leads to an archive: two overlapping passes*)
(* and a slow one never leave a ready, unexpired row without its object.      *)
DownloadWorks ==
  \A e \in Exports : download(e) => exports[e].key \in archives
=============================================================================
