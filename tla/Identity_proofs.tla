-------------------------- MODULE Identity_proofs --------------------------
(* Proofs about the accounts of an identity: whatever requests, passes and    *)
(* deaths interleave, only a write decided on a state that changed meanwhile  *)
(* makes the account leave its documented life or disagree with its deletion  *)
(* request; a link to an export or an avatar leads to an object.  For any     *)
(* number of rows, handlers, passes, exports and uploads, any workload.       *)
EXTENDS Identity, TLAPS

HandlerType ==
  [pc : {"idle", "verify", "go", "activate", "store", "cancel", "export"},
   op : Operations \cup {None}, row : Rows \cup {None}, seen : States \cup {None}]

Typed == /\ account \in [Rows -> {None} \cup Account]
         /\ deletion \in [Rows -> DeletionRequest]
         /\ handler \in [Handlers -> HandlerType]
         /\ DOMAIN pass = Passes
         /\ stale \subseteq Rows /\ cancelled \subseteq Rows
         /\ workload \in Workloads

(* A row that no lost update has touched.                                     *)
RowAgrees(r) ==
  /\ account[r] = None => deletion[r].state = "none"
  /\ Exists(r) /\ r \notin stale =>
       /\ account[r].state = "deletion_pending" <=> deletion[r].state = "pending"
       /\ account[r].state = "deleted" <=> deletion[r].state = "completed"
       /\ account[r].state = "pending_verification" => ~account[r].verified
       /\ account[r].state = "active" /\ r \notin cancelled => account[r].steps = Steps

(* What a request knows of its row between its read and its write.            *)
Decided(h) ==
  handler[h].pc # "idle" =>
    LET r == handler[h].row
        seen == handler[h].seen
    IN  /\ r \in Rows /\ Exists(r) /\ seen \in States
        /\ handler[h].pc # "cancel" => seen # "deleted"
        /\ handler[h].op # "cancel" /\ handler[h].pc # "verify" => seen # "deletion_pending"
        /\ handler[h].pc = "cancel" => r \in stale \/ seen = "deletion_pending"
        /\ handler[h].pc \in {"activate", "store"} => handler[h].op \in Steps
        /\ handler[h].pc = "activate" =>
             \/ r \in stale \/ account[r].state = "deleted"
             \/ account[r].verified /\ account[r].steps \cup {handler[h].op} = Steps

Chosen(p) == pass[p].pc = "deletions" => \A r \in Rows : r \in pass[p].todo => Exists(r)

Life == /\ Typed
        /\ \A r \in Rows : RowAgrees(r)
        /\ \A h \in Handlers : Decided(h)
        /\ \A p \in Passes : Chosen(p)

(* What LifeKept says of one step.                                            *)
Kept == \A r \in Rows : Exists(r) /\ r \notin stale' =>
          canTransitionAccountState(account[r].state, account'[r].state)

----------------------------------------------------------------------------
(* What every step does: rows stay and are never unverified, lost updates are *)
(* remembered, and a row keeps its steps until it is deleted for good.        *)
Grows ==
  /\ stale \subseteq stale' /\ workload' = workload
  /\ \A r \in Rows : Exists(r) =>
       /\ Exists(r)' /\ (account[r].verified => account'[r].verified)
       /\ \/ r \in stale' \/ account'[r].state = "deleted"
          \/ account[r].state # "deleted" /\ account[r].steps \subseteq account'[r].steps

LEMMA DecidedStays ==
  ASSUME Life, Typed', Grows, NEW h \in Handlers, handler'[h] = handler[h] \/ handler'[h] = Idle
  PROVE  Decided(h)'
<1>1. CASE handler'[h] = Idle BY <1>1 DEF Decided, Idle
<1>2. CASE handler'[h] = handler[h] /\ handler[h].pc # "idle"
  <2>0. handler[h].row \in Rows BY <1>2 DEF Life, Decided
  <2> PICK r \in Rows : r = handler[h].row BY <2>0
  <2>1. Exists(r) /\ account'[r] # None /\ (r \in stale => r \in stale')
    BY <1>2 DEF Life, Decided, Grows, Exists
  <2>2. ASSUME handler[h].pc = "activate"
        PROVE  \/ r \in stale' \/ account'[r].state = "deleted"
               \/ account'[r].verified /\ account'[r].steps \cup {handler[h].op} = Steps
    <3>1. \/ r \in stale \/ account[r].state = "deleted"
          \/ account[r].verified /\ account[r].steps \cup {handler[h].op} = Steps
      BY <2>2 DEF Life, Decided
    <3>2. account'[r].steps \subseteq Steps /\ handler[h].op \in Steps
      <4>1. account'[r] \in Account BY <2>1 DEF Typed
      <4>2. account'[r].steps \subseteq Steps BY <4>1 DEF Account
      <4>3. handler[h].op \in Steps BY <2>2 DEF Life, Decided
      <4> QED BY <4>2, <4>3
    <3> QED BY <2>1, <3>1, <3>2 DEF Grows
  <2> QED BY <1>2, <2>1, <2>2 DEF Life, Decided, Exists
<1> QED BY <1>1, <1>2 DEF Decided

LEMMA ChosenStays ==
  ASSUME Life, Grows, NEW p \in Passes,
         pass'[p].pc = "deletions" =>
           pass[p].pc = "deletions" /\ pass'[p].todo \subseteq pass[p].todo
  PROVE  Chosen(p)'
BY DEF Life, Chosen, Grows

(* A step that leaves the rows alone.                                         *)
Quiet == UNCHANGED <<account, deletion, history, workload>>

LEMMA QuietKeeps ==
  ASSUME Life, Quiet
  PROVE  Grows /\ Kept /\ \A r \in Rows : RowAgrees(r)'
BY DEF Quiet, history, Life, RowAgrees, Grows, Exists, Kept, canTransitionAccountState

LEMMA Goods ==
  ASSUME Life, NEW r \in Rows, Exists(r)
  PROVE  /\ account[r] \in Account /\ account[r].state \in States
         /\ account[r].verified \in BOOLEAN /\ account[r].steps \subseteq Steps
<1>1. account[r] \in Account BY DEF Life, Typed, Exists
<1> QED BY <1>1 DEF Account

(* A request that writes row r, and what it must know to keep the rows' life. *)
Writes(r) ==
  /\ account' \in [Rows -> {None} \cup Account] /\ deletion' \in [Rows -> DeletionRequest]
  /\ \A q \in Rows \ {r} : account'[q] = account[q] /\ deletion'[q] = deletion[q]
  /\ \A q \in Rows \ {r} : /\ q \in stale' <=> q \in stale
                           /\ q \in cancelled' <=> q \in cancelled
  /\ stale \subseteq stale' /\ stale' \subseteq Rows /\ cancelled' \subseteq Rows
  /\ UNCHANGED workload
  /\ RowAgrees(r)'
  /\ Exists(r) =>
       /\ Exists(r)' /\ (account[r].verified => account'[r].verified)
       /\ \/ r \in stale' \/ account'[r].state = "deleted"
          \/ account[r].state # "deleted" /\ account[r].steps \subseteq account'[r].steps
       /\ r \notin stale' =>
            canTransitionAccountState(account[r].state, account'[r].state)

LEMMA WritesKeep ==
  ASSUME Life, NEW r \in Rows, Writes(r)
  PROVE  Grows /\ Kept /\ \A q \in Rows : RowAgrees(q)'
<1>1. Grows BY DEF Grows, Writes, Exists
<1>2. Kept BY DEF Kept, Writes, Exists, canTransitionAccountState
<1>3. \A q \in Rows : RowAgrees(q)'
  <2>1. ASSUME NEW q \in Rows, q # r PROVE RowAgrees(q)'
    BY <2>1 DEF Life, Writes, RowAgrees, Exists
  <2> QED BY <2>1 DEF Writes
<1> QED BY <1>1, <1>2, <1>3

LEMMA Roads ==
  /\ \A s \in States : canTransitionAccountState(s, s)
  /\ canTransitionAccountState("pending_verification", "onboarding")
  /\ \A s \in {"pending_verification", "onboarding", "active"} :
       canTransitionAccountState(s, "deletion_pending")
  /\ canTransitionAccountState("onboarding", "active")
  /\ canTransitionAccountState("deletion_pending", "active")
  /\ canTransitionAccountState("deletion_pending", "deleted")
BY DEF canTransitionAccountState, Transitions, States

----------------------------------------------------------------------------
LEMMA RegisterKeeps ==
  ASSUME Life, NEW h \in Handlers, NEW r \in Rows, NEW v \in BOOLEAN, Register(h, r, v)
  PROVE  Writes(r)
<1>1. /\ account' = [account EXCEPT ![r] = NewRow(v)] /\ account[r] = None
      /\ UNCHANGED <<deletion, stale, cancelled, workload>>
  BY DEF Register, history, Exists
<1>2. NewRow(v) \in Account BY DEF NewRow, Account, States
<1>3. /\ deletion[r].state = "none"
      /\ account \in [Rows -> {None} \cup Account] /\ deletion \in [Rows -> DeletionRequest]
      /\ stale \subseteq Rows /\ cancelled \subseteq Rows
  BY <1>1 DEF Life, Typed, RowAgrees
<1>4. account'[r] = NewRow(v) /\ NewRow(v) # None BY <1>1, <1>2, <1>3, NoneAssumption
<1>5. RowAgrees(r)' BY <1>1, <1>3, <1>4 DEF RowAgrees, NewRow
<1> QED BY <1>1, <1>2, <1>3, <1>4, <1>5 DEF Writes, Exists

LEMMA VerifyKeeps ==
  ASSUME Life, NEW h \in Handlers, Verify(h), NEW r \in Rows, r = handler[h].row
  PROVE  Writes(r)
<1> DEFINE seen == handler[h].seen
<1>1. /\ account' = [account EXCEPT ![r].state = Verified(seen), ![r].verified = TRUE]
      /\ handler[h].pc = "verify" /\ Stale(h)
      /\ UNCHANGED <<deletion, cancelled, workload>>
  BY DEF Verify
<1>2. Exists(r) /\ seen \in States BY <1>1 DEF Life, Decided
<1>3. /\ account[r] \in Account /\ account[r].state \in States
      /\ account[r].steps \subseteq Steps BY <1>2, Goods
<1>4. Typed BY DEF Life
<1>5. Verified(seen) \in States BY <1>2 DEF Verified, States
<1>6. account' \in [Rows -> {None} \cup Account]
  BY <1>1, <1>2, <1>3, <1>4, <1>5 DEF Typed, Account
<1>7. /\ account'[r].state = Verified(seen) /\ account'[r].verified = TRUE
      /\ account'[r].steps = account[r].steps
      /\ account'[r] # None
  BY <1>1, <1>2, <1>3, <1>4, <1>5, NoneAssumption DEF Typed, Account
<1>8. r \notin stale' => r \notin stale /\ account[r].state = seen BY <1>1 DEF Stale
<1>9. RowAgrees(r)'
  <2>1. RowAgrees(r) /\ (r \in stale => r \in stale') BY <1>1 DEF Life, Stale
  <2> QED BY <1>1, <1>2, <1>7, <1>8, <2>1 DEF RowAgrees, Exists, Verified
<1>10. r \notin stale' => canTransitionAccountState(account[r].state, account'[r].state)
  BY <1>3, <1>7, <1>8, Roads DEF Verified
<1>11. r \in stale' \/ account[r].state # "deleted" BY <1>1, <1>8 DEF Life, Decided
<1>12. stale' \subseteq Rows /\ stale \subseteq stale' /\ stale' \subseteq stale \cup {r}
  BY <1>1, <1>2, <1>4 DEF Stale, Typed
<1> QED BY <1>1, <1>2, <1>4, <1>6, <1>7, <1>9, <1>10, <1>11, <1>12
        DEF Writes, Typed, Exists

(* Onboarding goes on, and makes the account active at its end.               *)
LEMMA OnwardAgrees ==
  ASSUME Life, NEW r \in Rows, Exists(r), account'[r] # None,
         UNCHANGED <<deletion, cancelled>>, stale \subseteq stale',
         account'[r].verified = account[r].verified,
         account[r].steps \subseteq account'[r].steps, account'[r].steps \subseteq Steps,
         \/ r \in stale' \/ account'[r].state = account[r].state
         \/ /\ account'[r].state = "active" /\ account'[r].steps = Steps
            /\ account[r].state \notin {"deletion_pending", "deleted"}
  PROVE  RowAgrees(r)'
<1>1. CASE r \in stale' BY <1>1 DEF RowAgrees
<1>2. CASE r \notin stale'
  <2>1. /\ account[r].state = "deletion_pending" <=> deletion[r].state = "pending"
        /\ account[r].state = "deleted" <=> deletion[r].state = "completed"
        /\ account[r].state = "pending_verification" => ~account[r].verified
        /\ account[r].state = "active" /\ r \notin cancelled => account[r].steps = Steps
    BY <1>2 DEF Life, RowAgrees
  <2>2. account'[r].state = "active" /\ r \notin cancelled => account'[r].steps = Steps
    BY <1>2, <2>1
  <2>3. deletion'[r] = deletion[r] /\ cancelled' = cancelled OBVIOUS
  <2> QED BY <1>2, <2>1, <2>2, <2>3 DEF RowAgrees, Exists
<1> QED BY <1>1, <1>2

LEMMA StepKeeps ==
  ASSUME Life, NEW h \in Handlers, NEW step \in Steps, OnboardingStep(h, step),
         NEW r \in Rows, r = handler[h].row
  PROVE  Writes(r)
<1> DEFINE seen == handler[h].seen
           done == Complete(r, step)
<1>1. /\ handler[h].pc = "go" /\ handler[h].op = step
      /\ UNCHANGED <<deletion, cancelled, workload>>
  BY DEF OnboardingStep, Going
<1>2. /\ Exists(r) /\ seen \in States \ {"deleted", "deletion_pending"}
  BY <1>1, StepsAssumption DEF Life, Decided
<1>3. /\ account[r] \in Account /\ account[r].state \in States
      /\ account[r].steps \subseteq Steps /\ account[r].verified \in BOOLEAN
  BY <1>2, Goods
<1>4. Typed BY DEF Life
<1>s. /\ stale' \subseteq Rows /\ stale \subseteq stale' /\ stale' \subseteq stale \cup {r}
      /\ account'[r].state # account[r].state /\ r \notin stale'
           => account[r].state = seen /\ r \notin stale
  BY <1>4 DEF OnboardingStep, Stale, Typed
<1>5. CASE UNCHANGED account
  <2>1. RowAgrees(r)'
    BY <1>1, <1>5, <1>s DEF Life, RowAgrees, Exists
  <2> QED BY <1>1, <1>2, <1>3, <1>4, <1>5, <1>s, <2>1, Roads DEF Writes, Typed, Exists
<1>6. CASE account' = [account EXCEPT ![r].steps = @ \cup {step},
                                      ![r].state = IF done THEN "active" ELSE @]
           /\ step = "birth_date" /\ step \notin account[r].steps
  <2>1. account' \in [Rows -> {None} \cup Account]
    BY <1>2, <1>3, <1>4, <1>6 DEF Typed, Account, States
  <2>2. /\ account'[r].state = IF done THEN "active" ELSE account[r].state
        /\ account'[r].steps = account[r].steps \cup {step}
        /\ account'[r].verified = account[r].verified
        /\ account'[r] # None /\ \A q \in Rows \ {r} : account'[q] = account[q]
    <3>1. account'[r].state = IF done THEN "active" ELSE account[r].state
      BY <1>3, <1>4, <1>6 DEF Typed, Account
    <3>2. account'[r].steps = account[r].steps \cup {step}
      BY <1>3, <1>4, <1>6 DEF Typed, Account
    <3>3. account'[r].verified = account[r].verified
      BY <1>3, <1>4, <1>6 DEF Typed, Account
    <3>4. account'[r] # None
      <4>1. account'[r] \in Account BY <1>3, <1>4, <1>6 DEF Typed, Account, States
      <4> QED BY <4>1, NoneAssumption
    <3>5. \A q \in Rows \ {r} : account'[q] = account[q] BY <1>4, <1>6 DEF Typed
    <3> QED BY <3>1, <3>2, <3>3, <3>4, <3>5
  <2>3. done => account[r].verified /\ account'[r].steps = Steps
    BY <1>3, <2>2 DEF Complete
  <2>4. RowAgrees(r) /\ (r \in stale => r \in stale') BY <1>s DEF Life
  <2>5. RowAgrees(r)'
    <3>1. account'[r].steps \subseteq Steps BY <1>3, <2>2
    <3>2. \/ r \in stale' \/ account'[r].state = account[r].state
          \/ done /\ account[r].state \notin {"deletion_pending", "deleted"}
      BY <1>2, <1>s, <2>2
    <3> QED BY <1>1, <1>2, <1>s, <2>2, <2>3, <3>1, <3>2, OnwardAgrees
  <2>6. r \notin stale' => canTransitionAccountState(account[r].state, account'[r].state)
    <3>1. CASE account'[r].state = account[r].state BY <1>3, <3>1, Roads
    <3>2. CASE account'[r].state # account[r].state /\ r \notin stale'
      <4>1. done /\ account[r].state = seen /\ r \notin stale BY <1>s, <2>2, <3>2
      <4>2. account[r].state # "pending_verification"
        BY <1>2, <2>3, <2>4, <4>1 DEF RowAgrees
      <4>3. account[r].state \in {"onboarding", "active"} BY <1>2, <4>1, <4>2 DEF States
      <4> QED BY <1>3, <2>2, <4>1, <4>3, Roads
    <3> QED BY <3>1, <3>2
  <2>7. \/ r \in stale' \/ account'[r].state = "deleted" \/ account[r].state # "deleted"
    BY <1>2, <1>s, <2>2
  <2> QED BY <1>1, <1>2, <1>4, <1>s, <2>1, <2>2, <2>5, <2>6, <2>7 DEF Writes, Typed, Exists
<1> QED BY <1>5, <1>6 DEF OnboardingStep

LEMMA CommitKeeps ==
  ASSUME Life, NEW h \in Handlers, CommitStep(h), NEW r \in Rows, r = handler[h].row
  PROVE  Writes(r)
<1> DEFINE seen == handler[h].seen
           op == handler[h].op
           activates == handler[h].pc = "activate"
<1>1. /\ handler[h].pc \in {"activate", "store"}
      /\ account' = [account EXCEPT ![r].steps = @ \cup {op},
                                    ![r].state = IF activates THEN "active" ELSE @]
      /\ UNCHANGED <<deletion, cancelled, workload>>
  BY DEF CommitStep
<1>2. /\ Exists(r) /\ seen \in States \ {"deleted"} /\ op \in Steps
      /\ op # "cancel" /\ seen # "deletion_pending"
      /\ activates => \/ r \in stale \/ account[r].state = "deleted"
                      \/ account[r].verified /\ account[r].steps \cup {op} = Steps
  BY <1>1, StepsAssumption DEF Life, Decided
<1>3. /\ account[r] \in Account /\ account[r].state \in States
      /\ account[r].steps \subseteq Steps /\ account[r].verified \in BOOLEAN
  BY <1>2, Goods
<1>4. Typed BY DEF Life
<1>s. /\ stale' \subseteq Rows /\ stale \subseteq stale' /\ stale' \subseteq stale \cup {r}
      /\ activates /\ r \notin stale' => account[r].state = seen /\ r \notin stale
  BY <1>4 DEF CommitStep, Stale, Typed
<1>5. account' \in [Rows -> {None} \cup Account]
  BY <1>1, <1>2, <1>3, <1>4 DEF Typed, Account, States
<1>6. /\ account'[r].state = IF activates THEN "active" ELSE account[r].state
      /\ account'[r].steps = account[r].steps \cup {op}
      /\ account'[r].verified = account[r].verified
      /\ account'[r] # None /\ \A q \in Rows \ {r} : account'[q] = account[q]
  <2>1. account'[r].state = IF activates THEN "active" ELSE account[r].state
    BY <1>1, <1>3, <1>4 DEF Typed, Account
  <2>2. account'[r].steps = account[r].steps \cup {op}
    BY <1>1, <1>3, <1>4 DEF Typed, Account
  <2>3. account'[r].verified = account[r].verified
    BY <1>1, <1>3, <1>4 DEF Typed, Account
  <2>4. account'[r] # None
    <3>1. account'[r] \in Account BY <1>1, <1>2, <1>3, <1>4 DEF Typed, Account, States
    <3> QED BY <3>1, NoneAssumption
  <2>5. \A q \in Rows \ {r} : account'[q] = account[q] BY <1>1, <1>4 DEF Typed
  <2> QED BY <2>1, <2>2, <2>3, <2>4, <2>5
<1>7. activates /\ r \notin stale' => account[r].verified /\ account'[r].steps = Steps
  BY <1>2, <1>s, <1>6
<1>8. RowAgrees(r) /\ (r \in stale => r \in stale') BY <1>s DEF Life
<1>9. RowAgrees(r)'
  <2>1. account'[r].steps \subseteq Steps BY <1>2, <1>3, <1>6
  <2>2. \/ r \in stale' \/ account'[r].state = account[r].state
        \/ activates /\ account[r].state \notin {"deletion_pending", "deleted"}
    BY <1>2, <1>s, <1>6
  <2> QED BY <1>1, <1>2, <1>s, <1>6, <1>7, <2>1, <2>2, OnwardAgrees
<1>10. r \notin stale' => canTransitionAccountState(account[r].state, account'[r].state)
  <2>1. CASE ~activates BY <1>3, <1>6, <2>1, Roads
  <2>2. CASE activates /\ r \notin stale'
    <3>1. account[r].state # "pending_verification"
      BY <1>2, <1>s, <1>7, <1>8, <2>2 DEF RowAgrees
    <3>2. account[r].state \in {"onboarding", "active"}
      BY <1>2, <1>s, <2>2, <3>1 DEF States
    <3> QED BY <1>3, <1>6, <2>2, <3>2, Roads
  <2> QED BY <2>1, <2>2
<1>11. \/ r \in stale' \/ account'[r].state = "deleted" \/ account[r].state # "deleted"
  BY <1>2, <1>s, <1>6
<1> QED BY <1>1, <1>2, <1>4, <1>s, <1>5, <1>6, <1>9, <1>10, <1>11 DEF Writes, Typed, Exists

LEMMA RequestKeeps ==
  ASSUME Life, NEW h \in Handlers, RequestDeletion(h), NEW r \in Rows, r = handler[h].row
  PROVE  Writes(r)
<1>1. /\ handler[h].pc = "go"
      /\ UNCHANGED <<stale, cancelled, workload>>
      /\ \/ /\ deletion[r].state \in {"none", "canceled"}
            /\ deletion' = [deletion EXCEPT ![r] = [state |-> "pending", open |-> TRUE]]
            /\ account' = [account EXCEPT ![r].state = "deletion_pending"]
         \/ UNCHANGED <<account, deletion>>
  BY DEF RequestDeletion, Going, history
<1>2. Exists(r) BY <1>1 DEF Life, Decided
<1>3. /\ account[r] \in Account /\ account[r].state \in States
      /\ account[r].steps \subseteq Steps /\ account[r].verified \in BOOLEAN
  BY <1>2, Goods
<1>4. Typed BY DEF Life
<1>5. CASE UNCHANGED <<account, deletion>>
  <2>1. RowAgrees(r)' BY <1>1, <1>5 DEF Life, RowAgrees, Exists
  <2> QED BY <1>1, <1>2, <1>3, <1>4, <1>5, <2>1, Roads DEF Writes, Typed, Exists
<1>6. CASE /\ deletion[r].state \in {"none", "canceled"}
           /\ deletion' = [deletion EXCEPT ![r] = [state |-> "pending", open |-> TRUE]]
           /\ account' = [account EXCEPT ![r].state = "deletion_pending"]
  <2>1. /\ account' \in [Rows -> {None} \cup Account] /\ account'[r] \in Account
        /\ deletion' \in [Rows -> DeletionRequest]
    BY <1>3, <1>4, <1>6 DEF Typed, Account, States, DeletionRequest
  <2>2. /\ account'[r].state = "deletion_pending" /\ account'[r].steps = account[r].steps
        /\ account'[r].verified = account[r].verified
    BY <1>3, <1>4, <1>6 DEF Typed, Account
  <2>3. account'[r] # None BY <2>1, NoneAssumption
  <2>4. deletion'[r].state = "pending" BY <1>4, <1>6 DEF Typed
  <2>5. RowAgrees(r)' BY <2>2, <2>3, <2>4 DEF RowAgrees
  <2>6. r \notin stale => account[r].state \in {"pending_verification", "onboarding", "active"}
    BY <1>2, <1>3, <1>6 DEF Life, RowAgrees, States
  <2>7. \A q \in Rows \ {r} : account'[q] = account[q] /\ deletion'[q] = deletion[q]
    BY <1>4, <1>6 DEF Typed
  <2>8. r \notin stale' => canTransitionAccountState(account[r].state, account'[r].state)
    BY <1>1, <2>2, <2>6, Roads
  <2> QED BY <1>1, <1>4, <2>1, <2>2, <2>3, <2>5, <2>6, <2>7, <2>8 DEF Writes, Typed, Exists
<1> QED BY <1>1, <1>5, <1>6

LEMMA CancelKeeps ==
  ASSUME Life, NEW h \in Handlers, CancelCommit(h), NEW r \in Rows, r = handler[h].row
  PROVE  Writes(r)
<1>1. /\ handler[h].pc = "cancel" /\ Stale(h) /\ UNCHANGED workload
      /\ deletion' = [deletion EXCEPT ![r].state = "canceled"]
      /\ account' = [account EXCEPT ![r].state = "active"]
      /\ cancelled' = cancelled \cup {r}
  BY DEF CancelCommit
<1>2. /\ Exists(r)
      /\ r \in stale \/ handler[h].seen = "deletion_pending"
  BY <1>1 DEF Life, Decided
<1>3. /\ account[r] \in Account /\ account[r].state \in States
      /\ account[r].steps \subseteq Steps /\ account[r].verified \in BOOLEAN
  BY <1>2, Goods
<1>4. Typed BY DEF Life
<1>5. /\ account' \in [Rows -> {None} \cup Account] /\ account'[r] \in Account
      /\ deletion' \in [Rows -> DeletionRequest]
  BY <1>1, <1>3, <1>4 DEF Typed, Account, States, DeletionRequest
<1>6. /\ account'[r].state = "active" /\ account'[r].steps = account[r].steps
      /\ account'[r].verified = account[r].verified
  BY <1>1, <1>3, <1>4 DEF Typed, Account
<1>7. account'[r] # None BY <1>5, NoneAssumption
<1>8. deletion'[r].state = "canceled" BY <1>1, <1>4 DEF Typed, DeletionRequest
<1>9. RowAgrees(r)' BY <1>1, <1>6, <1>7, <1>8 DEF RowAgrees
<1>10. /\ stale' \subseteq Rows /\ stale \subseteq stale' /\ stale' \subseteq stale \cup {r}
       /\ r \notin stale' => account[r].state = "deletion_pending"
  BY <1>1, <1>2, <1>4 DEF Stale, Typed
<1>11. \A q \in Rows \ {r} : account'[q] = account[q] /\ deletion'[q] = deletion[q]
  BY <1>1, <1>4 DEF Typed
<1>12. r \notin stale' => canTransitionAccountState(account[r].state, account'[r].state)
  BY <1>6, <1>10, Roads
<1> QED BY <1>1, <1>4, <1>5, <1>6, <1>7, <1>9, <1>10, <1>11, <1>12 DEF Writes, Typed, Exists

LEMMA AnonymizeKeeps ==
  ASSUME Life, NEW p \in Passes, NEW r \in Rows, anonymize(p, r)
  PROVE  Writes(r)
<1>1. /\ account' = [account EXCEPT ![r].state = "deleted", ![r].steps = @ \ {"birth_date"}]
      /\ deletion' = [deletion EXCEPT ![r].state = "completed"]
      /\ stale' = IF deletion[r].state = "pending" THEN stale ELSE stale \cup {r}
      /\ UNCHANGED <<workload, cancelled>> /\ Exists(r)
  BY DEF anonymize, Life, Chosen
<1>3. /\ account[r] \in Account /\ account[r].state \in States
      /\ account[r].steps \subseteq Steps /\ account[r].verified \in BOOLEAN
  BY <1>1, Goods
<1>4. Typed BY DEF Life
<1>5. /\ account' \in [Rows -> {None} \cup Account] /\ account'[r] \in Account
      /\ deletion' \in [Rows -> DeletionRequest]
  BY <1>1, <1>3, <1>4 DEF Typed, Account, States, DeletionRequest
<1>6. account'[r].state = "deleted" /\ account'[r].verified = account[r].verified
  BY <1>1, <1>3, <1>4 DEF Typed, Account
<1>7. account'[r] # None BY <1>5, NoneAssumption
<1>8. deletion'[r].state = "completed" BY <1>1, <1>4 DEF Typed, DeletionRequest
<1>9. RowAgrees(r)' BY <1>6, <1>7, <1>8 DEF RowAgrees
<1>10. /\ stale' \subseteq Rows /\ stale \subseteq stale' /\ stale' \subseteq stale \cup {r}
       /\ r \notin stale' => account[r].state = "deletion_pending"
  BY <1>1, <1>4 DEF Life, RowAgrees, Typed
<1>11. \A q \in Rows \ {r} : account'[q] = account[q] /\ deletion'[q] = deletion[q]
  BY <1>1, <1>4 DEF Typed
<1>12. r \notin stale' => canTransitionAccountState(account[r].state, account'[r].state)
  BY <1>6, <1>10, Roads
<1> QED BY <1>1, <1>4, <1>5, <1>6, <1>7, <1>9, <1>10, <1>11, <1>12 DEF Writes, Typed, Exists

LEMMA WindowKeeps ==
  ASSUME Life, NEW r \in Rows, WindowCloses(r)
  PROVE  Writes(r)
<1>1. /\ UNCHANGED <<account, stale, cancelled, workload>>
      /\ deletion' = [deletion EXCEPT ![r].open = FALSE]
  BY DEF WindowCloses, history
<1>2. Typed BY DEF Life
<1>3. deletion' \in [Rows -> DeletionRequest] /\ deletion'[r].state = deletion[r].state
  BY <1>1, <1>2 DEF Typed, DeletionRequest
<1>4. RowAgrees(r)' BY <1>1, <1>3 DEF Life, RowAgrees, Exists
<1>5. \A q \in Rows \ {r} : account'[q] = account[q] /\ deletion'[q] = deletion[q]
  BY <1>1, <1>2 DEF Typed
<1>6. Exists(r) => account[r].state \in States BY Goods
<1> QED BY <1>1, <1>2, <1>3, <1>4, <1>5, <1>6, Roads DEF Writes, Typed, Exists

----------------------------------------------------------------------------
(* A request's step: it writes no row, or its own, and goes on knowing what   *)
(* its next step needs.                                                       *)
LEMMA RequestStep ==
  ASSUME Life, NEW h \in Handlers, Quiet \/ \E r \in Rows : Writes(r),
         UNCHANGED pass, handler' \in [Handlers -> HandlerType],
         \A g \in Handlers \ {h} : handler'[g] = handler[g],
         Decided(h)' \/ handler'[h] = Idle \/ handler'[h] = handler[h]
  PROVE  Life' /\ Kept
<1>1. Grows /\ Kept /\ \A r \in Rows : RowAgrees(r)' BY QuietKeeps, WritesKeep
<1>2. Typed'
  <2>1. Typed BY DEF Life
  <2>2. CASE Quiet BY <2>1, <2>2 DEF Typed, Quiet, history
  <2>3. ASSUME NEW r \in Rows, Writes(r) PROVE Typed' BY <2>1, <2>3 DEF Typed, Writes
  <2> QED BY <2>2, <2>3
<1>3. \A g \in Handlers : Decided(g)' BY <1>1, <1>2, DecidedStays
<1>4. \A p \in Passes : Chosen(p)' BY <1>1, ChosenStays
<1> QED BY <1>1, <1>2, <1>3, <1>4 DEF Life

LEMMA Served ==
  ASSUME Life, NEW h \in Handlers, NEW r \in Rows, NEW op \in Operations \cup {None},
         NEW s \in States, NEW v, Serve(h, op, r, s, v), account'[r] # None, s # "deleted"
  PROVE  /\ handler' \in [Handlers -> HandlerType]
         /\ \A g \in Handlers \ {h} : handler'[g] = handler[g]
         /\ Decided(h)'
<1>1. handler \in [Handlers -> HandlerType] BY DEF Life, Typed
<1>2. CASE Allowed(op, s, v, account[r].steps)
  <2>1. handler'[h] = [pc |-> "go", op |-> op, row |-> r, seen |-> s]
        /\ \A g \in Handlers \ {h} : handler'[g] = handler[g]
    BY <1>1, <1>2 DEF Serve
  <2>2. handler' \in [Handlers -> HandlerType] BY <1>1, <1>2 DEF Serve, HandlerType
  <2>3. op # "cancel" => s # "deletion_pending" BY <1>2 DEF Allowed
  <2> QED BY <2>1, <2>2, <2>3 DEF Decided, Exists
<1>3. CASE ~Allowed(op, s, v, account[r].steps)
  <2>1. handler'[h] = Idle /\ \A g \in Handlers \ {h} : handler'[g] = handler[g]
    BY <1>1, <1>3 DEF Serve
  <2>2. handler' \in [Handlers -> HandlerType] BY <1>1, <1>3 DEF Serve, HandlerType, Idle
  <2> QED BY <2>1, <2>2 DEF Decided, Idle
<1> QED BY <1>2, <1>3

LEMMA DoneIdle ==
  ASSUME Typed, NEW h \in Handlers, Done(h)
  PROVE  /\ handler' \in [Handlers -> HandlerType] /\ handler'[h] = Idle
         /\ \A g \in Handlers \ {h} : handler'[g] = handler[g]
BY DEF Typed, Done, Idle, HandlerType

(* What a request knows of its row.                                           *)
LEMMA OwnRow ==
  ASSUME Life, NEW h \in Handlers, handler[h].pc # "idle"
  PROVE  \E r \in Rows : r = handler[h].row /\ Exists(r) /\ account[r].state \in States
BY Goods DEF Life, Decided

LEMMA HandlerKeeps ==
  ASSUME Life, NEW h \in Handlers, HandlerStep(h)
  PROVE  Life' /\ Kept
<1>t. Typed /\ handler \in [Handlers -> HandlerType] BY DEF Life, Typed
<1>1. ASSUME NEW r \in Rows, NEW v \in BOOLEAN, Register(h, r, v) PROVE Life' /\ Kept
  <2>1. UNCHANGED <<handler, pass>> BY <1>1 DEF Register
  <2> QED BY <1>t, <1>1, <2>1, RegisterKeeps, RequestStep
<1>2. ASSUME NEW r \in Rows, NEW v \in BOOLEAN, NEW op \in workload.ops,
             Authenticate(h, r, op, v)
      PROVE  Life' /\ Kept
  <2>1. Quiet /\ UNCHANGED pass BY <1>2 DEF Authenticate, Quiet
  <2>2. /\ Exists(r) /\ account[r].state \in States \ {"deleted"} /\ op \in Operations
        /\ account'[r] # None
    BY <1>t, <1>2, <2>1, Goods, WorkloadsAssumption
       DEF Authenticate, Live, Typed, Quiet, Exists
  <2>3. CASE Serve(h, op, r, account[r].state, account[r].verified)
    BY <2>1, <2>2, <2>3, Served, RequestStep
  <2>4. CASE handler' = [handler EXCEPT ![h] =
              [pc |-> "verify", op |-> op, row |-> r, seen |-> account[r].state]]
    <3>1. /\ handler' \in [Handlers -> HandlerType]
          /\ \A g \in Handlers \ {h} : handler'[g] = handler[g]
          /\ handler'[h] = [pc |-> "verify", op |-> op, row |-> r, seen |-> account[r].state]
      BY <1>t, <2>2, <2>4 DEF HandlerType
    <3>2. Decided(h)' BY <2>2, <3>1 DEF Decided, Exists
    <3> QED BY <2>1, <3>1, <3>2, RequestStep
  <2> QED BY <1>2, <2>3, <2>4 DEF Authenticate
<1>3. CASE Verify(h)
  <2>1. PICK r \in Rows : r = handler[h].row /\ Exists(r)
    BY <1>3, OwnRow DEF Verify
  <2>2. Writes(r) /\ UNCHANGED pass BY <1>3, <2>1, VerifyKeeps DEF Verify
  <2>3. /\ handler[h].op \in Operations \cup {None} /\ handler[h].seen \in States \ {"deleted"}
        /\ Verified(handler[h].seen) \in States \ {"deleted"}
    BY <1>t, <1>3 DEF HandlerType, Verify, Verified, Life, Decided, States
  <2>4. account'[r] # None BY <2>1, <2>2 DEF Writes, Exists
  <2>5. Serve(h, handler[h].op, r, Verified(handler[h].seen), TRUE) BY <1>3, <2>1 DEF Verify
  <2> QED
    BY <2>2, <2>3, <2>4, <2>5, Served, RequestStep
<1>4. ASSUME NEW step \in Steps, OnboardingStep(h, step) PROVE Life' /\ Kept
  <2>1. PICK r \in Rows : r = handler[h].row /\ Exists(r)
    BY <1>4, OwnRow DEF OnboardingStep, Going
  <2>2. Writes(r) /\ UNCHANGED pass BY <1>4, <2>1, StepKeeps DEF OnboardingStep
  <2>3. CASE Done(h) BY <1>t, <2>2, <2>3, DoneIdle, RequestStep
  <2>4. CASE /\ step # "birth_date" /\ UNCHANGED account
             /\ handler' = [handler EXCEPT ![h].pc =
                   IF Complete(r, step) THEN "activate" ELSE "store"]
    <3>1. handler[h].op = step /\ handler[h].pc = "go" BY <1>4 DEF OnboardingStep, Going
    <3>2. /\ handler' \in [Handlers -> HandlerType]
          /\ \A g \in Handlers \ {h} : handler'[g] = handler[g]
      BY <1>t, <2>4 DEF HandlerType
    <3>3. /\ handler'[h].pc = IF Complete(r, step) THEN "activate" ELSE "store"
          /\ handler'[h].op = step /\ handler'[h].row = r
          /\ handler'[h].seen = handler[h].seen
      BY <1>t, <2>1, <2>4, <3>1 DEF HandlerType
    <3>4. handler[h].seen \in States \ {"deleted"} /\ handler[h].seen # "deletion_pending"
      BY <3>1, StepsAssumption DEF Life, Decided
    <3>5. account'[r] # None /\ (Complete(r, step) =>
            account'[r].verified /\ account'[r].steps \cup {step} = Steps)
      BY <2>1, <2>4 DEF Complete, Exists
    <3>6. Decided(h)' BY <3>3, <3>4, <3>5 DEF Decided, Exists
    <3> QED BY <2>2, <3>2, <3>6, RequestStep
  <2> QED BY <1>4, <2>1, <2>3, <2>4 DEF OnboardingStep
<1>5. CASE CommitStep(h)
  <2>1. PICK r \in Rows : r = handler[h].row BY <1>5, OwnRow DEF CommitStep
  <2>2. Writes(r) /\ UNCHANGED pass /\ Done(h)
    BY <1>5, <2>1, CommitKeeps DEF CommitStep
  <2> QED BY <1>t, <2>2, DoneIdle, RequestStep
<1>6. CASE RequestDeletion(h)
  <2>1. PICK r \in Rows : r = handler[h].row
    BY <1>6, OwnRow DEF RequestDeletion, Going
  <2>2. Writes(r) /\ UNCHANGED pass /\ Done(h)
    BY <1>6, <2>1, RequestKeeps DEF RequestDeletion
  <2> QED BY <1>t, <2>2, DoneIdle, RequestStep
<1>7. CASE CancelCheck(h)
  <2>1. Quiet /\ UNCHANGED pass BY <1>7 DEF CancelCheck, Quiet
  <2>2. CASE Done(h) BY <1>t, <2>1, <2>2, DoneIdle, RequestStep
  <2>3. CASE ~Done(h)
    <3>1. PICK r \in Rows : /\ r = handler[h].row /\ Exists(r)
                            /\ account[r].state \in States
      BY <1>7, OwnRow DEF CancelCheck, Going
    <3>2. /\ handler' = [handler EXCEPT ![h].pc = "cancel", ![h].seen = account[r].state]
          /\ deletion[r].state = "pending" /\ handler[h].op = "cancel"
      BY <1>7, <2>3, <3>1 DEF CancelCheck, Cancellable, Going
    <3>3. /\ handler' \in [Handlers -> HandlerType]
          /\ \A g \in Handlers \ {h} : handler'[g] = handler[g]
          /\ handler'[h].pc = "cancel" /\ handler'[h].op = "cancel"
          /\ handler'[h].row = r /\ handler'[h].seen = account[r].state
      BY <1>t, <3>1, <3>2 DEF HandlerType
    <3>4. r \in stale \/ account[r].state = "deletion_pending"
      BY <3>1, <3>2 DEF Life, RowAgrees
    <3>6. account'[r] # None /\ stale' = stale
      BY <2>1, <3>1 DEF Quiet, history, Exists
    <3>5. Decided(h)' BY <3>1, <3>3, <3>4, <3>6 DEF Decided, Exists
    <3> QED BY <2>1, <3>3, <3>5, RequestStep
  <2> QED BY <2>2, <2>3
<1>8. CASE CancelCommit(h)
  <2>1. PICK r \in Rows : r = handler[h].row BY <1>8, OwnRow DEF CancelCommit
  <2>2. Writes(r) /\ UNCHANGED pass /\ Done(h)
    BY <1>8, <2>1, CancelKeeps DEF CancelCommit
  <2> QED BY <1>t, <2>2, DoneIdle, RequestStep
<1>9. CASE ExportCheck(h)
  <2>1. Quiet /\ UNCHANGED pass BY <1>9 DEF ExportCheck, Quiet
  <2>2. CASE Done(h) BY <1>t, <2>1, <2>2, DoneIdle, RequestStep
  <2>3. CASE handler' = [handler EXCEPT ![h].pc = "export"]
    <3>1. /\ handler' \in [Handlers -> HandlerType]
          /\ \A g \in Handlers \ {h} : handler'[g] = handler[g]
          /\ handler'[h].pc = "export" /\ handler'[h].op = handler[h].op
          /\ handler'[h].row = handler[h].row /\ handler'[h].seen = handler[h].seen
      BY <1>t, <2>3 DEF HandlerType
    <3>2. handler[h].pc = "go" BY <1>9 DEF ExportCheck, Going
    <3>3. UNCHANGED account BY <2>1 DEF Quiet
    <3>4. Decided(h)' BY <3>1, <3>2, <3>3 DEF Life, Decided, Exists
    <3> QED BY <2>1, <3>1, <3>4, RequestStep
  <2> QED BY <1>9, <2>2, <2>3 DEF ExportCheck
<1>10. ASSUME NEW e \in Exports, ExportInsert(h, e) PROVE Life' /\ Kept
  <2>1. Quiet /\ UNCHANGED pass /\ Done(h) BY <1>10 DEF ExportInsert, Quiet
  <2> QED BY <1>t, <2>1, DoneIdle, RequestStep
<1> QED BY <1>1, <1>2, <1>3, <1>4, <1>5, <1>6, <1>7, <1>8, <1>9, <1>10 DEF HandlerStep

----------------------------------------------------------------------------
(* The other steps of an identity: avatars, passes, time and deaths.          *)
LEMMA RestKeeps ==
  ASSUME Life, Quiet \/ \E r \in Rows : Writes(r), Typed',
         \A h \in Handlers : handler'[h] = handler[h] \/ handler'[h] = Idle,
         \A p \in Passes : pass'[p].pc = "deletions" =>
           \/ pass[p].pc = "deletions" /\ pass'[p].todo \subseteq pass[p].todo
           \/ pass'[p].todo \subseteq Due
  PROVE  Life' /\ Kept
<1>1. Grows /\ Kept /\ \A r \in Rows : RowAgrees(r)' BY QuietKeeps, WritesKeep
<1>2. \A h \in Handlers : Decided(h)' BY <1>1, DecidedStays
<1>3. ASSUME NEW p \in Passes PROVE Chosen(p)'
  <2>1. CASE pass'[p].todo \subseteq Due
    <3>1. \A r \in Due : r \in Rows => Exists(r) BY DEF Due, Life, RowAgrees, Exists
    <3> QED BY <1>1, <2>1, <3>1 DEF Chosen, Grows
  <2>2. CASE ~(pass'[p].todo \subseteq Due) BY <1>1, <2>2, ChosenStays DEF Chosen
  <2> QED BY <2>1, <2>2
<1> QED BY <1>1, <1>2, <1>3 DEF Life

LEMMA AvatarKeeps ==
  ASSUME Life, NEW h \in Handlers, AvatarStep(h)
  PROVE  Life' /\ Kept
<1>1. Quiet /\ UNCHANGED pass BY DEF AvatarStep, ofAccounts, Quiet, history
<1>2. UNCHANGED handler \/ Done(h)
  <2>1. CASE finalize(h)
    BY <2>1 DEF finalize, Processing, Process, PutProcessed, ReadOld, UpdateProfile,
       DeleteOld, Commit, CleanQuarantine, Sign, Fail, DropQuarantine, Answer, To_
  <2>2. CASE ~finalize(h) BY <2>2 DEF AvatarStep, init, owned, upload, Answer
  <2> QED BY <2>1, <2>2
<1>3. Typed BY DEF Life
<1>4. handler \in [Handlers -> HandlerType] BY <1>3 DEF Typed
<1> QED BY <1>1, <1>2, <1>3, <1>4, DoneIdle, RequestStep

LEMMA QuietTyped ==
  ASSUME Typed, Quiet, handler' \in [Handlers -> HandlerType], DOMAIN pass' = Passes
  PROVE  Typed'
BY DEF Typed, Quiet, history

(* Steps of a pass that leave the rows alone.                                 *)
LEMMA PassQuiet ==
  ASSUME Life, NEW p \in Passes, NEW pc, NEW todo, NEW at, Quiet, UNCHANGED handler,
         pass' = [pass EXCEPT ![p] = [pc |-> pc, todo |-> todo, at |-> at]],
         pc = "deletions" => todo \subseteq Due
  PROVE  Life' /\ Kept
<1>1. Typed /\ DOMAIN pass = Passes BY DEF Life, Typed
<1>2. DOMAIN pass' = Passes BY <1>1
<1>3. ASSUME NEW q \in Passes
      PROVE  pass'[q] = pass[q] \/ (pass'[q].pc = pc /\ pass'[q].todo = todo)
  BY <1>1
<1>4. handler \in [Handlers -> HandlerType] BY <1>1 DEF Typed
<1>5. Typed' BY <1>1, <1>2, <1>4, QuietTyped
<1> QED BY <1>3, <1>5, RestKeeps

LEMMA PassSame ==
  ASSUME Life, Quiet, UNCHANGED <<handler, pass>>
  PROVE  Life' /\ Kept
<1>1. Typed /\ handler \in [Handlers -> HandlerType] /\ DOMAIN pass = Passes
  BY DEF Life, Typed
<1> QED BY <1>1, QuietTyped, RestKeeps

LEMMA PassKeeps ==
  ASSUME Life, NEW p \in Passes, Interval(p) \/ PassStep(p)
  PROVE  Life' /\ Kept
<1> USE DEF Quiet, history
<1>1. CASE Starting(p) \/ Maintaining(p) \/ Abort(p)
  <2>1. Quiet /\ UNCHANGED handler
    BY <1>1 DEF Starting, StartPass, Maintaining, Maintain, Abort
  <2>2. \/ To(p, "maintenance", {}) \/ To(p, "exports", InState("pending")) \/ To(p, "idle", {})
    BY <1>1 DEF Starting, StartPass, Maintaining, Maintain, Abort
  <2> QED BY <2>1, <2>2, PassQuiet DEF To
<1>2. CASE Sweeping(p)
  <2>1. Quiet /\ UNCHANGED <<handler, pass>> BY <1>2 DEF Sweeping, ofAccounts
  <2> QED BY <2>1, PassSame
<1>3. ASSUME NEW r \in Rows, Anonymizing(p, r) PROVE Life' /\ Kept
  <2>1. Writes(r) /\ UNCHANGED handler /\ To(p, "deletions", pass[p].todo \ {r})
        /\ pass[p].pc = "deletions"
    BY <1>3, AnonymizeKeeps DEF Anonymizing, anonymize
  <2>2. Typed /\ DOMAIN pass = Passes BY DEF Life, Typed
  <2>3. /\ DOMAIN pass' = Passes
        /\ \A q \in Passes : pass'[q] = pass[q] \/ (q = p /\ pass'[q].todo \subseteq pass[q].todo)
    BY <2>1, <2>2 DEF To
  <2>4. Typed' BY <2>1, <2>2, <2>3 DEF Typed, Writes
  <2> QED BY <2>1, <2>3, <2>4, RestKeeps
<1>4. CASE PrivacyStep(p)
  <2>1. Quiet /\ UNCHANGED handler
    BY <1>4 DEF PrivacyStep, StartExport, DropArchive, StoreArchive, FinishExport,
                SelectDeletions, SelectExpired, CompleteExport, EndPass
  <2>2. ASSUME NEW e \in Exports, StartExport(p, e) PROVE Life' /\ Kept
    BY <2>1, <2>2, PassQuiet DEF StartExport
  <2>3. ASSUME NEW key \in Archive, DropArchive(p, key) PROVE Life' /\ Kept
    BY <2>1, <2>3, PassQuiet DEF DropArchive
  <2>4. CASE StoreArchive(p) BY <2>1, <2>4, PassSame DEF StoreArchive
  <2>5. CASE SelectDeletions(p) BY <2>1, <2>5, PassQuiet DEF SelectDeletions, To
  <2>6. CASE FinishExport(p) BY <2>1, <2>6, PassQuiet DEF FinishExport, To
  <2>7. CASE SelectExpired(p) BY <2>1, <2>7, PassQuiet DEF SelectExpired, To
  <2>8. CASE CompleteExport(p) BY <2>1, <2>8, PassQuiet DEF CompleteExport, To
  <2>9. CASE EndPass(p) BY <2>1, <2>9, PassQuiet DEF EndPass, To
  <2> QED BY <1>4, <2>2, <2>3, <2>4, <2>5, <2>6, <2>7, <2>8, <2>9 DEF PrivacyStep
<1> QED BY <1>1, <1>2, <1>3, <1>4 DEF Interval, PassStep

LEMMA NextKeeps ==
  ASSUME Life, [Next]_allVars
  PROVE  Life' /\ Kept
<1>t. Typed /\ handler \in [Handlers -> HandlerType] /\ DOMAIN pass = Passes
  BY DEF Life, Typed
<1>1. ASSUME NEW h \in Handlers, Serving(h) PROVE Life' /\ Kept
  BY <1>1, HandlerKeeps, AvatarKeeps DEF Serving
<1>2. ASSUME NEW p \in workload.passes, Interval(p) \/ PassStep(p) PROVE Life' /\ Kept
  <2>1. p \in Passes BY <1>t, WorkloadsAssumption DEF Typed
  <2> QED BY <1>2, <2>1, PassKeeps
<1>3. CASE Time
  <2>1. ASSUME NEW r \in Rows, WindowCloses(r) PROVE Life' /\ Kept
    <3>1. Writes(r) /\ UNCHANGED <<handler, pass>>
      BY <2>1, WindowKeeps DEF WindowCloses
    <3>2. Typed' BY <1>t, <3>1 DEF Typed, Writes
    <3> QED BY <3>1, <3>2, RestKeeps
  <2>2. CASE Quiet /\ UNCHANGED <<handler, pass>> BY <2>2, PassSame
  <2>3. ASSUME NEW e \in Exports, ExportAges(e) PROVE Quiet /\ UNCHANGED <<handler, pass>>
    BY <2>3 DEF ExportAges, Quiet
  <2> QED BY <1>3, <2>1, <2>2, <2>3 DEF Time, ofAccounts, Quiet, history
<1>4. CASE Dying
  <2>1. CASE Crash
    <3>1. Quiet /\ UNCHANGED handler /\ pass' = [p \in Passes |-> NoPass]
      BY <2>1 DEF Crash, Quiet
    <3>2. DOMAIN pass' = Passes /\ \A p \in Passes : pass'[p].pc # "deletions"
      BY <3>1 DEF NoPass
    <3> QED BY <1>t, <3>1, <3>2, QuietTyped, RestKeeps
  <2>2. CASE HandlersDie /\ UNCHANGED ofAccounts
    <3>1. Quiet /\ UNCHANGED pass /\ handler' = [h \in Handlers |-> Idle]
      BY <2>2 DEF HandlersDie, ofAccounts, Quiet, history
    <3>2. handler' \in [Handlers -> HandlerType] BY <3>1 DEF HandlerType, Idle
    <3> QED BY <1>t, <3>1, <3>2, QuietTyped, RestKeeps
  <2> QED BY <1>4, <2>1, <2>2 DEF Dying
<1>5. CASE UNCHANGED allVars
  <2>1. Quiet /\ UNCHANGED <<handler, pass>> BY <1>5 DEF allVars, vars, Quiet, history
  <2> QED BY <2>1, PassSame
<1> QED BY <1>1, <1>2, <1>3, <1>4, <1>5 DEF Next

LEMMA InitLife == Init => Life
<1> SUFFICES ASSUME Init PROVE Life OBVIOUS
<1>1. /\ deletion = [r \in Rows |-> [state |-> "none", open |-> FALSE]]
      /\ handler = [h \in Handlers |-> Idle] /\ pass = [p \in Passes |-> NoPass]
      /\ cancelled = {} /\ stale = {} /\ workload \in Workloads
  BY DEF Init, AccountInit
<1>2. PICK q : account = [r \in Rows |-> IF r = q THEN Onboarded ELSE None]
  BY DEF Init, AccountInit
<1>3. Onboarded \in Account BY DEF Onboarded, Account, States
<1>4. Typed
  <2>1. account \in [Rows -> {None} \cup Account] BY <1>2, <1>3
  <2>2. deletion \in [Rows -> DeletionRequest] BY <1>1 DEF DeletionRequest
  <2>3. handler \in [Handlers -> HandlerType] BY <1>1 DEF HandlerType, Idle
  <2> QED BY <1>1, <2>1, <2>2, <2>3 DEF Typed
<1>5. ASSUME NEW r \in Rows PROVE RowAgrees(r)
  BY <1>1, <1>2, <1>3, NoneAssumption DEF RowAgrees, Exists, Onboarded
<1>6. \A h \in Handlers : Decided(h) BY <1>1 DEF Decided, Idle
<1>7. \A p \in Passes : Chosen(p) BY <1>1 DEF Chosen, NoPass
<1> QED BY <1>4, <1>5, <1>6, <1>7 DEF Life

(* What a handler or a pass decided on still holds when it writes, or the     *)
(* write is counted as stale: the invariant behind the account's life cycle   *)
(* (onboarding, requestDeletion, cancelDeletion, anonymize, processExports).  *)
THEOREM LifeHolds == Spec => []Life
<1>1. Life /\ [Next]_allVars => Life' BY NextKeeps
<1> QED BY <1>1, InitLife, PTL DEF Spec

(* The account and its deletion request agree, in every row that no lost      *)
(* update has touched (requestDeletion, cancelDeletion, anonymize).           *)
THEOREM DeletionsAgree == Spec => []DeletionAgrees
<1>1. Life => DeletionAgrees BY DEF Life, RowAgrees, DeletionAgrees
<1> QED BY <1>1, LifeHolds, PTL

(* Whoever may contact others went through onboarding, unless a deletion of   *)
(* the account was cancelled or an update lost (onboarding, guard).           *)
THEOREM ContactsAreOnboarded == Spec => []ContactIsOnboarded
<1>1. Life => ContactIsOnboarded
  BY DEF Life, RowAgrees, ContactIsOnboarded, Contact, Allowed
<1> QED BY <1>1, LifeHolds, PTL

(* The account keeps to the documented transitions, but for the writes that   *)
(* were decided on a state that changed meanwhile (account-state.ts).         *)
THEOREM AccountsKeepTheirLife == Spec => LifeKept
<1>1. Life /\ [Next]_allVars =>
        [\A r \in Rows : Exists(r) /\ r \notin stale' =>
           canTransitionAccountState(account[r].state, account'[r].state)]_vars
  BY NextKeeps DEF Kept
<1> QED BY <1>1, LifeHolds, PTL DEF Spec, LifeKept

----------------------------------------------------------------------------
(* Exports: what each pass has in hand.                                       *)
PassType ==
  [pc : {"idle", "maintenance", "exports", "building", "deletions",
         "expired", "deleting"},
   todo : (SUBSET Rows) \cup (SUBSET Exports) \cup (SUBSET Archive),
   at : Exports \cup {None}]
Begun(e) == e \in Exports /\ exports[e] # None /\ exports[e].state # "pending"
Listed(p) ==
  LET todo == pass[p].todo
      pc == pass[p].pc
  IN  /\ pc \in {"idle", "maintenance"} => todo = {}
      /\ pc \in {"exports", "building"} =>
           todo \subseteq Exports /\ \A e \in todo : exports[e] # None
      /\ pc \in {"building", "deleting"} => Begun(pass[p].at)
      /\ pc = "building" => pass[p].at \notin todo
      /\ pc = "deletions" => todo \subseteq Rows
      /\ pc \in {"expired", "deleting"} =>
           todo \subseteq Archive /\ \A k \in todo : Begun(k[1])

(* The export's archive is its own.                                           *)
Keyed(e) ==
  exports[e] # None =>
    /\ exports[e].key = None \/ \E p \in Passes : exports[e].key = <<e, p>>
    /\ exports[e].state = "pending" => exports[e].key = None
    /\ exports[e].state = "ready" => exports[e].key # None

(* Whether a pass has yet to build an export, or to delete an archive.        *)
WillBuild(p, e) ==
  \/ pass[p].pc \in {"exports", "building"} /\ e \in pass[p].todo
  \/ pass[p].pc = "building" /\ e = pass[p].at
Dropping(k) ==
  \E p \in Passes : pass[p].pc \in {"expired", "deleting"} /\ k \in pass[p].todo

BuiltOnce == \A p \in Passes, e \in Exports :
  WillBuild(p, e) => exports[e].key # <<e, p>> /\ ~Dropping(<<e, p>>)
Downloads == \A e \in Exports :
  download(e) => exports[e].key \in archives /\ ~Dropping(exports[e].key)

ExportTypes ==
  /\ pass \in [Passes -> PassType]
  /\ exports \in [Exports -> {None} \cup ExportRequest]
  /\ archives \subseteq Archive /\ crashes \in 0..MaxCrashes
ExportInv ==
  /\ ExportTypes
  /\ \A p \in Passes : Listed(p)
  /\ \A e \in Exports : Keyed(e)
  /\ BuiltOnce /\ Downloads

(* An export asked for stays, and is not asked for again.                     *)
ExportsLast == \A e \in Exports : exports[e] # None =>
  exports'[e] # None /\ (exports[e].state # "pending" => exports'[e].state # "pending")

LEMMA ExportFields ==
  ASSUME ExportTypes, NEW e \in Exports, exports[e] # None
  PROVE  /\ exports[e] \in ExportRequest
         /\ exports[e].row \in Rows /\ exports[e].old \in BOOLEAN
         /\ exports[e].key \in Archive \cup {None}
         /\ exports[e].state \in {"pending", "processing", "ready", "failed", "completed"}
<1>1. exports[e] \in ExportRequest BY DEF ExportTypes
<1> QED BY <1>1 DEF ExportRequest

LEMMA ListedStays ==
  ASSUME ExportsLast, NEW p \in Passes, pass'[p] = pass[p], Listed(p)
  PROVE  Listed(p)'
BY DEF ExportsLast, Listed, Begun

(* One pass goes on.                                                          *)
Moves(p, pc, todo, at) ==
  pass' = [pass EXCEPT ![p] = [pc |-> pc, todo |-> todo, at |-> at]]
LEMMA Moved ==
  ASSUME ExportTypes, NEW p \in Passes, NEW pc, NEW todo, NEW at, Moves(p, pc, todo, at)
  PROVE  /\ pass'[p].pc = pc /\ pass'[p].todo = todo /\ pass'[p].at = at
         /\ \A q \in Passes \ {p} : pass'[q] = pass[q]
         /\ [pc |-> pc, todo |-> todo, at |-> at] \in PassType =>
              pass' \in [Passes -> PassType]
<1>1. pass \in [Passes -> PassType] BY DEF ExportTypes
<1> QED BY <1>1 DEF Moves

LEMMA PassMoves ==
  ASSUME ExportInv, NEW p \in Passes, NEW pc, NEW todo, NEW at, Moves(p, pc, todo, at),
         [pc |-> pc, todo |-> todo, at |-> at] \in PassType,
         UNCHANGED <<exports, archives, crashes>>, Listed(p)',
         \A e \in Exports : WillBuild(p, e)' => WillBuild(p, e) \/ e \in InState("pending"),
         \A k \in Archive : pass'[p].pc \in {"expired", "deleting"} /\ k \in pass'[p].todo
            => Dropping(k) \/ k \in Expired
  PROVE  ExportInv'
<1>1. ExportTypes' BY Moved DEF ExportInv, ExportTypes
<1>m. /\ \A q \in Passes \ {p} : pass'[q] = pass[q] BY Moved DEF ExportInv
<1>2. \A q \in Passes : Listed(q)'
  BY <1>m, ListedStays DEF ExportInv, ExportsLast
<1>3. \A e \in Exports : Keyed(e)' BY DEF ExportInv, Keyed
<1>4. \A k \in Archive : Dropping(k)' => Dropping(k) \/ k \in Expired
  BY <1>m DEF Dropping
<1>5. \A q \in Passes, e \in Exports : WillBuild(q, e)' => WillBuild(q, e) \/ e \in InState("pending")
  BY <1>m DEF WillBuild
<1>6. ASSUME NEW q \in Passes, NEW e \in Exports, WillBuild(q, e)'
      PROVE  exports[e].key # <<e, q>> /\ ~Dropping(<<e, q>>)'
  <2>1. exports[e].key # <<e, q>> /\ ~Dropping(<<e, q>>)
    <3>1. CASE WillBuild(q, e) BY <3>1 DEF ExportInv, BuiltOnce
    <3>2. CASE e \in InState("pending")
      <4>1. exports[e] # None /\ exports[e].state = "pending" /\ exports[e].key = None
        BY <3>2 DEF InState, ExportInv, Keyed
      <4>2. <<e, q>> # None BY NoneAssumption DEF Archive
      <4>3. ASSUME Dropping(<<e, q>>) PROVE FALSE
        <5>1. Begun(<<e, q>>[1]) BY <4>3 DEF Dropping, ExportInv, Listed
        <5> QED BY <4>1, <5>1 DEF Begun
      <4> QED BY <4>1, <4>2, <4>3
    <3> QED BY <1>5, <1>6, <3>1, <3>2
  <2>2. <<e, q>> \notin Expired
    <3>1. ASSUME NEW x \in Exports, exports[x] # None, exports[x].key = <<e, q>>,
                 exports[x].state = "ready"
          PROVE FALSE
      <4>1. PICK z \in Passes : exports[x].key = <<x, z>> BY <3>1 DEF ExportInv, Keyed
      <4>2. x = e BY <3>1, <4>1
      <4> QED BY <2>1, <3>1, <4>2
    <3> QED BY <3>1 DEF Expired, InState
  <2>3. <<e, q>> \in Archive BY DEF Archive
  <2> QED BY <1>4, <2>1, <2>2, <2>3
<1>7. BuiltOnce' BY <1>6 DEF BuiltOnce
<1>8. ASSUME NEW e \in Exports, download(e)
      PROVE  exports[e].key \in archives /\ ~Dropping(exports[e].key)'
  <2>1. /\ exports[e].key \in archives /\ ~Dropping(exports[e].key)
        /\ exports[e] # None /\ exports[e].state = "ready" /\ ~exports[e].old
    BY <1>8 DEF ExportInv, Downloads, download, InState
  <2>2. exports[e].key \in Archive BY <2>1 DEF ExportInv, ExportTypes
  <2>3. PICK z \in Passes : exports[e].key = <<e, z>> BY <2>1 DEF ExportInv, Keyed
  <2>4. exports[e].key \notin Expired
    <3>1. ASSUME NEW x \in Exports, exports[x] # None, exports[x].key = exports[e].key,
                 exports[x].state = "ready", exports[x].old
          PROVE FALSE
      <4>1. PICK y \in Passes : exports[x].key = <<x, y>>
        BY <3>1 DEF ExportInv, Keyed
      <4>2. x = e BY <2>3, <3>1, <4>1
      <4> QED BY <2>1, <3>1, <4>2
    <3> QED BY <3>1 DEF Expired, InState
  <2> QED BY <1>4, <2>1, <2>2, <2>4
<1>10. Downloads' BY <1>8 DEF Downloads, download, InState
<1> QED BY <1>1, <1>2, <1>3, <1>7, <1>10 DEF ExportInv

(* A step of the pass in which an export's row changes.                       *)
LEMMA RowChanges ==
  ASSUME ExportInv, NEW p \in Passes, NEW pc, NEW todo, NEW at, Moves(p, pc, todo, at),
         [pc |-> pc, todo |-> todo, at |-> at] \in PassType,
         NEW e \in Exports, exports' \in [Exports -> {None} \cup ExportRequest],
         \A x \in Exports \ {e} : exports'[x] = exports[x],
         exports'[e] # None, exports'[e].state # "pending",
         Keyed(e)', Listed(p)', UNCHANGED <<archives, crashes>>,
         \A x \in Exports : WillBuild(p, x)' => WillBuild(p, x) /\ exports'[x].key # <<x, p>>,
         \A k \in Archive : pass'[p].pc \in {"expired", "deleting"} /\ k \in pass'[p].todo
            => Dropping(k),
         \A q \in Passes \ {p} : exports[e].key # <<e, q>> => exports'[e].key # <<e, q>>,
         download(e)' => exports'[e].key \in archives \cap Archive /\ ~Dropping(exports'[e].key)
  PROVE  ExportInv'
<1>1. ExportTypes' BY Moved DEF ExportInv, ExportTypes
<1>m. \A q \in Passes \ {p} : pass'[q] = pass[q] BY Moved DEF ExportInv
<1>2. \A q \in Passes : Listed(q)'
  <2>1. ExportsLast BY DEF ExportsLast
  <2> QED BY <1>m, <2>1, ListedStays DEF ExportInv
<1>3. \A x \in Exports : Keyed(x)'
  <2>1. ASSUME NEW x \in Exports, x # e PROVE Keyed(x)'
    <3>1. Keyed(x) /\ exports'[x] = exports[x] BY <2>1 DEF ExportInv
    <3> QED BY <3>1 DEF Keyed
  <2> QED BY <2>1
<1>4. \A k \in Archive : Dropping(k)' => Dropping(k) BY <1>m DEF Dropping
<1>5. ASSUME NEW q \in Passes, NEW x \in Exports, WillBuild(q, x)'
      PROVE  exports'[x].key # <<x, q>> /\ ~Dropping(<<x, q>>)'
  <2>1. WillBuild(q, x) BY <1>m, <1>5 DEF WillBuild
  <2>2. exports[x].key # <<x, q>> /\ ~Dropping(<<x, q>>)
    BY <2>1 DEF ExportInv, BuiltOnce
  <2>3. <<x, q>> \in Archive BY DEF Archive
  <2>4. exports'[x].key # <<x, q>>
    <3>1. CASE q = p BY <1>5, <3>1
    <3>2. CASE q # p /\ x # e BY <2>2, <3>2
    <3>3. CASE q # p /\ x = e BY <2>2, <3>3
    <3> QED BY <3>1, <3>2, <3>3
  <2> QED BY <1>4, <2>2, <2>3, <2>4
<1>6. BuiltOnce' BY <1>5 DEF BuiltOnce
<1>7. ASSUME NEW x \in Exports, download(x)'
      PROVE  (exports[x].key \in archives /\ ~Dropping(exports[x].key))'
  <2>1. CASE x = e
    <3>1. PICK k \in archives \cap Archive : k = exports'[x].key /\ ~Dropping(k)
      BY <1>7, <2>1
    <3>2. ~Dropping(k)' BY <1>4, <3>1
    <3> QED BY <3>1, <3>2
  <2>2. CASE x # e
    <3>1. exports'[x] = exports[x] BY <2>2
    <3>2. download(x) BY <1>7, <3>1 DEF download, InState
    <3>3. exports[x].key \in archives /\ ~Dropping(exports[x].key)
      BY <3>2 DEF ExportInv, Downloads
    <3>4. PICK k \in Archive : k = exports[x].key BY <3>3 DEF ExportInv, ExportTypes
    <3>5. k \in archives /\ ~Dropping(k)' BY <1>4, <3>3, <3>4
    <3> QED BY <3>1, <3>4, <3>5
  <2> QED BY <2>1, <2>2
<1>8. Downloads' BY <1>7 DEF Downloads
<1> QED BY <1>1, <1>2, <1>3, <1>6, <1>8 DEF ExportInv

LEMMA StartKeeps ==
  ASSUME ExportInv, NEW p \in Passes, NEW e \in Exports, StartExport(p, e)
  PROVE  ExportInv'
<1> DEFINE todo == pass[p].todo \ {e}
<1>1. /\ pass[p].pc = "exports" /\ e \in pass[p].todo
      /\ exports' = [exports EXCEPT ![e].state = "processing"]
      /\ Moves(p, "building", todo, e) /\ UNCHANGED <<archives, crashes>>
  BY DEF StartExport, Moves
<1>t. ExportTypes BY DEF ExportInv
<1>2. exports[e] # None /\ pass[p].todo \subseteq Exports
      /\ \A x \in pass[p].todo : exports[x] # None
  BY <1>1 DEF ExportInv, Listed
<1>3. /\ exports[e] \in ExportRequest /\ exports[e].key \in Archive \cup {None}
  BY <1>t, <1>2, ExportFields
<1>4. exports' \in [Exports -> {None} \cup ExportRequest]
  BY <1>1, <1>3, <1>t DEF ExportTypes, ExportRequest
<1>5. /\ \A x \in Exports \ {e} : exports'[x] = exports[x]
      /\ exports'[e].state = "processing" /\ exports'[e].key = exports[e].key
  BY <1>1, <1>3, <1>t DEF ExportTypes, ExportRequest
<1>6. exports'[e] # None
  <2>1. exports'[e] \in ExportRequest BY <1>1, <1>3, <1>t DEF ExportTypes, ExportRequest
  <2> QED BY <2>1, NoneAssumption
<1>7. [pc |-> "building", todo |-> todo, at |-> e] \in PassType BY <1>2 DEF PassType
<1>8. pass'[p].pc = "building" /\ pass'[p].todo = todo /\ pass'[p].at = e
  BY <1>t, <1>1 DEF ExportTypes, Moves
<1>9. Keyed(e)'
  <2>1. Keyed(e) BY DEF ExportInv
  <2> QED BY <1>2, <1>5, <2>1 DEF Keyed
<1>10. Listed(p)' BY <1>2, <1>5, <1>6, <1>8 DEF Listed, Begun
<1>11. ASSUME NEW x \in Exports, WillBuild(p, x)' PROVE WillBuild(p, x) /\ exports'[x].key # <<x, p>>
  <2>1. WillBuild(p, x) BY <1>1, <1>8, <1>11 DEF WillBuild
  <2>2. exports[x].key # <<x, p>> BY <2>1 DEF ExportInv, BuiltOnce
  <2> QED BY <1>5, <2>1, <2>2
<1>12. ~download(e)' BY <1>5 DEF download, InState
<1> HIDE DEF todo
<1> QED
  BY <1>1, <1>4, <1>5, <1>6, <1>7, <1>8, <1>9, <1>10, <1>11, <1>12, RowChanges

LEMMA FinishKeeps ==
  ASSUME ExportInv, NEW p \in Passes, FinishExport(p)
  PROVE  ExportInv'
<1> DEFINE todo == pass[p].todo
           key == buildArchive(p)
<1>t. ExportTypes BY DEF ExportInv
<1>0. pass[p].pc = "building" BY DEF FinishExport
<1>1. PICK e \in Exports : e = pass[p].at /\ Begun(e) BY <1>0 DEF ExportInv, Listed, Begun
<1> DEFINE stored == key \in archives
<1>2. /\ exports' = [exports EXCEPT ![e].state = IF stored THEN "ready" ELSE "failed",
           ![e].key = IF stored THEN key ELSE @, ![e].old = IF stored THEN FALSE ELSE @]
      /\ Moves(p, "exports", todo, None) /\ UNCHANGED <<archives, crashes>>
  BY <1>1 DEF FinishExport, To, Moves
<1>3. key = <<e, p>> /\ key \in Archive /\ key # None
  BY <1>1, NoneAssumption DEF buildArchive, Archive
<1>4. /\ exports[e] # None /\ exports[e].state # "pending" /\ exports[e] \in ExportRequest
      /\ exports[e].key \in Archive \cup {None} /\ exports[e].old \in BOOLEAN
  BY <1>t, <1>1, ExportFields DEF Begun
<1> HIDE DEF key
<1>5. exports' \in [Exports -> {None} \cup ExportRequest]
  BY <1>2, <1>3, <1>4, <1>t DEF ExportTypes, ExportRequest
<1>6. /\ \A x \in Exports \ {e} : exports'[x] = exports[x]
      /\ exports'[e].state = IF stored THEN "ready" ELSE "failed"
      /\ exports'[e].key = IF stored THEN key ELSE exports[e].key
  BY <1>2, <1>3, <1>4, <1>t DEF ExportTypes, ExportRequest
<1>7. exports'[e] # None
  <2>1. exports'[e] \in ExportRequest
    BY <1>2, <1>3, <1>4, <1>t DEF ExportTypes, ExportRequest
  <2> QED BY <2>1, NoneAssumption
<1>8. pass'[p].pc = "exports" /\ pass'[p].todo = todo /\ pass'[p].at = None
  BY <1>t, <1>2, Moved
<1>9. /\ todo \subseteq Exports /\ e \notin todo /\ \A x \in todo : exports[x] # None
  BY <1>0, <1>1 DEF ExportInv, Listed
<1>10. [pc |-> "exports", todo |-> todo, at |-> None] \in PassType BY <1>9 DEF PassType
<1>11. Keyed(e)'
  <2>1. Keyed(e) BY DEF ExportInv
  <2>2. exports'[e].key = None \/ \E q \in Passes : exports'[e].key = <<e, q>>
    BY <1>3, <1>4, <1>6, <2>1 DEF Keyed
  <2> QED BY <1>3, <1>4, <1>6, <2>2 DEF Keyed
<1>12. Listed(p)' BY <1>6, <1>7, <1>8, <1>9 DEF Listed
<1>13. ASSUME NEW x \in Exports, WillBuild(p, x)' PROVE WillBuild(p, x) /\ exports'[x].key # <<x, p>>
  <2>1. WillBuild(p, x) /\ x # e BY <1>0, <1>8, <1>9, <1>13 DEF WillBuild
  <2>2. exports[x].key # <<x, p>> BY <2>1 DEF ExportInv, BuiltOnce
  <2> QED BY <1>6, <2>1, <2>2
<1>14. \A q \in Passes \ {p} : exports[e].key # <<e, q>> => exports'[e].key # <<e, q>>
  BY <1>3, <1>6
<1>15. ASSUME download(e)'
       PROVE  exports'[e].key \in archives \cap Archive /\ ~Dropping(exports'[e].key)
  <2>1. exports'[e].state = "ready" BY <1>15 DEF download, InState
  <2>2. stored /\ exports'[e].key = <<e, p>> BY <1>3, <1>6, <2>1
  <2>3. WillBuild(p, e) BY <1>0, <1>1 DEF WillBuild
  <2>4. ~Dropping(<<e, p>>) BY <2>3 DEF ExportInv, BuiltOnce
  <2> QED BY <1>3, <2>2, <2>4
<1>16. exports'[e].state # "pending" BY <1>6
<1>17. pass'[p].pc \notin {"expired", "deleting"} BY <1>8
<1> HIDE DEF todo, stored
<1> QED
  BY <1>2, <1>5, <1>6, <1>7, <1>8, <1>10, <1>11, <1>12, <1>13, <1>14, <1>15, <1>16, <1>17, RowChanges

LEMMA CompleteKeeps ==
  ASSUME ExportInv, NEW p \in Passes, CompleteExport(p)
  PROVE  ExportInv'
<1> DEFINE todo == pass[p].todo
<1>t. ExportTypes BY DEF ExportInv
<1>0. pass[p].pc = "deleting" BY DEF CompleteExport
<1>1. PICK e \in Exports : e = pass[p].at /\ Begun(e) BY <1>0 DEF ExportInv, Listed, Begun
<1>2. /\ exports' = [exports EXCEPT ![e].state = "completed", ![e].key = None]
      /\ Moves(p, "expired", todo, None) /\ UNCHANGED <<archives, crashes>>
  BY <1>1 DEF CompleteExport, To, Moves
<1>4. exports[e] \in ExportRequest BY <1>t, <1>1, ExportFields DEF Begun
<1>5. exports' \in [Exports -> {None} \cup ExportRequest]
  BY <1>2, <1>4, <1>t DEF ExportTypes, ExportRequest
<1>6. /\ \A x \in Exports \ {e} : exports'[x] = exports[x]
      /\ exports'[e].state = "completed" /\ exports'[e].key = None
  BY <1>2, <1>4, <1>t DEF ExportTypes, ExportRequest
<1>7. exports'[e] # None
  <2>1. exports'[e] \in ExportRequest
    BY <1>2, <1>4, <1>t DEF ExportTypes, ExportRequest
  <2> QED BY <2>1, NoneAssumption
<1>8. pass'[p].pc = "expired" /\ pass'[p].todo = todo /\ pass'[p].at = None
  BY <1>t, <1>2, Moved
<1>9. todo \subseteq Archive /\ \A k \in todo : Begun(k[1])
  BY <1>0 DEF ExportInv, Listed
<1>10. [pc |-> "expired", todo |-> todo, at |-> None] \in PassType BY <1>9 DEF PassType
<1>11. Keyed(e)' BY <1>6 DEF Keyed
<1>12. Listed(p)'
  <2>1. \A k \in todo : Begun(k[1])' BY <1>6, <1>7, <1>9 DEF Begun
  <2> QED BY <1>8, <1>9, <2>1 DEF Listed
<1>13. \A x \in Exports : ~WillBuild(p, x)' BY <1>8 DEF WillBuild
<1>14. \A k \in Archive : k \in pass'[p].todo => Dropping(k) BY <1>0, <1>8 DEF Dropping
<1>15. ~download(e)' BY <1>6 DEF download, InState
<1>16. \A q \in Passes \ {p} : exports'[e].key # <<e, q>>
  BY <1>6, NoneAssumption DEF Archive
<1> HIDE DEF todo
<1> QED
  BY <1>2, <1>5, <1>6, <1>7, <1>10, <1>11, <1>12, <1>13, <1>14, <1>15, <1>16, RowChanges

(* Requests, and time.                                                        *)
LEMMA RowsKeep ==
  ASSUME ExportInv, UNCHANGED <<pass, archives, crashes>>,
         NEW e \in Exports, exports' \in [Exports -> {None} \cup ExportRequest],
         \A x \in Exports \ {e} : exports'[x] = exports[x], exports'[e] # None,
         exports[e] # None => exports'[e].key = exports[e].key,
         exports[e] # None /\ exports[e].state # "pending" => exports'[e].state # "pending",
         \A p \in Passes : exports'[e].key = <<e, p>> => exports[e] # None,
         Keyed(e)', download(e)' => download(e) /\ exports[e] # None
  PROVE  ExportInv'
<1>1. ExportTypes' BY DEF ExportInv, ExportTypes
<1>2. \A q \in Passes : Listed(q)'
  <2>1. ExportsLast BY DEF ExportsLast
  <2> QED BY <2>1, ListedStays DEF ExportInv
<1>3. \A x \in Exports : Keyed(x)'
  <2>1. ASSUME NEW x \in Exports, x # e PROVE Keyed(x)'
    <3>1. Keyed(x) /\ exports'[x] = exports[x] BY <2>1 DEF ExportInv
    <3> QED BY <3>1 DEF Keyed
  <2> QED BY <2>1
<1>4. /\ \A k : Dropping(k)' <=> Dropping(k)
      /\ \A q \in Passes, x \in Exports : WillBuild(q, x)' <=> WillBuild(q, x)
  BY DEF Dropping, WillBuild
<1>5. ASSUME NEW q \in Passes, NEW x \in Exports, WillBuild(q, x)
      PROVE  exports'[x].key # <<x, q>> /\ ~Dropping(<<x, q>>)
  <2>1. exports[x].key # <<x, q>> /\ ~Dropping(<<x, q>>)
    BY <1>5 DEF ExportInv, BuiltOnce
  <2>2. CASE x = e BY <2>1, <2>2
  <2>3. CASE x # e BY <2>1, <2>3
  <2> QED BY <2>1, <2>2, <2>3
<1>6. BuiltOnce' BY <1>4, <1>5 DEF BuiltOnce
<1>7. ASSUME NEW x \in Exports, download(x)'
      PROVE  (exports[x].key \in archives /\ ~Dropping(exports[x].key))'
  <2>1. download(x) /\ exports'[x].key = exports[x].key
    <3>1. CASE x = e BY <1>7, <3>1
    <3>2. CASE x # e BY <1>7, <3>2 DEF download, InState
    <3> QED BY <3>1, <3>2
  <2>2. exports[x].key \in archives /\ ~Dropping(exports[x].key)
    BY <2>1 DEF ExportInv, Downloads
  <2> QED BY <2>1, <2>2 DEF Dropping
<1>8. Downloads' BY <1>7 DEF Downloads
<1> QED BY <1>1, <1>2, <1>3, <1>6, <1>8 DEF ExportInv

LEMMA InsertKeeps ==
  ASSUME Life, ExportInv, NEW h \in Handlers, NEW e \in Exports, ExportInsert(h, e)
  PROVE  ExportInv'
<1>1. /\ handler[h].pc = "export" /\ exports[e] = None
      /\ UNCHANGED <<pass, archives, crashes>>
  BY DEF ExportInsert
<1>2. PICK r \in Rows : r = handler[h].row BY <1>1, OwnRow
<1> DEFINE new == [row |-> r, key |-> None, old |-> FALSE, state |-> "pending"]
<1>3. exports' = [exports EXCEPT ![e] = new] BY <1>2 DEF ExportInsert
<1>4. new \in ExportRequest /\ new.key = None /\ new.state = "pending"
  BY DEF ExportRequest
<1> HIDE DEF new
<1>5. exports \in [Exports -> {None} \cup ExportRequest] BY DEF ExportInv, ExportTypes
<1>6. exports' \in [Exports -> {None} \cup ExportRequest] BY <1>3, <1>4, <1>5
<1>7. exports'[e] = new /\ \A x \in Exports \ {e} : exports'[x] = exports[x]
  BY <1>3, <1>5
<1>8. new # None BY <1>4, NoneAssumption
<1>9. Keyed(e)' BY <1>4, <1>7 DEF Keyed
<1>10. ~download(e)' BY <1>4, <1>7 DEF download, InState
<1>11. \A p \in Passes : new.key # <<e, p>> BY <1>4, NoneAssumption DEF Archive
<1> QED BY <1>1, <1>6, <1>7, <1>8, <1>9, <1>10, <1>11, RowsKeep

LEMMA AgesKeep ==
  ASSUME ExportInv, NEW e \in Exports, ExportAges(e)
  PROVE  ExportInv'
<1>1. /\ exports[e] # None /\ exports' = [exports EXCEPT ![e].old = TRUE]
      /\ UNCHANGED <<pass, archives, crashes>>
  BY DEF ExportAges
<1>t. ExportTypes BY DEF ExportInv
<1>2. exports[e] \in ExportRequest BY <1>1, <1>t, ExportFields
<1>3. exports' \in [Exports -> {None} \cup ExportRequest]
  BY <1>1, <1>2, <1>t DEF ExportTypes, ExportRequest
<1>4. /\ \A x \in Exports \ {e} : exports'[x] = exports[x]
      /\ exports'[e].state = exports[e].state /\ exports'[e].key = exports[e].key
      /\ exports'[e].old
  BY <1>1, <1>2, <1>t DEF ExportTypes, ExportRequest
<1>5. exports'[e] # None
  <2>1. exports'[e] \in ExportRequest BY <1>1, <1>2, <1>t DEF ExportTypes, ExportRequest
  <2> QED BY <2>1, NoneAssumption
<1>6. Keyed(e)'
  <2>1. Keyed(e) BY DEF ExportInv
  <2> QED BY <1>1, <1>4, <2>1 DEF Keyed
<1>7. ~download(e)' BY <1>4 DEF download
<1> QED BY <1>1, <1>3, <1>4, <1>5, <1>6, <1>7, RowsKeep

(* The archives.                                                              *)
LEMMA StoreKeeps ==
  ASSUME ExportInv, NEW p \in Passes, StoreArchive(p)
  PROVE  ExportInv'
<1>1. /\ pass[p].pc = "building" /\ archives' = archives \cup {buildArchive(p)}
      /\ UNCHANGED <<exports, pass, crashes>>
  BY DEF StoreArchive
<1>2. pass[p].at \in Exports BY <1>1 DEF ExportInv, Listed, Begun
<1>3. buildArchive(p) \in Archive BY <1>2 DEF buildArchive, Archive
<1>4. ExportTypes' BY <1>1, <1>3 DEF ExportInv, ExportTypes
<1>5. \A q \in Passes : Listed(q)' BY <1>1 DEF ExportInv, Listed, Begun
<1>6. \A e \in Exports : Keyed(e)' BY <1>1 DEF ExportInv, Keyed
<1>7. BuiltOnce' BY <1>1 DEF ExportInv, BuiltOnce, WillBuild, Dropping
<1>8. Downloads' BY <1>1 DEF ExportInv, Downloads, download, InState, Dropping
<1> QED BY <1>4, <1>5, <1>6, <1>7, <1>8 DEF ExportInv

LEMMA DropKeeps ==
  ASSUME ExportInv, NEW p \in Passes, NEW key \in Archive, DropArchive(p, key)
  PROVE  ExportInv'
<1> DEFINE todo == pass[p].todo \ {key}
           at == key[1]
<1>t. ExportTypes BY DEF ExportInv
<1>1. /\ pass[p].pc = "expired" /\ key \in pass[p].todo
      /\ archives' \in {archives, archives \ {key}}
      /\ Moves(p, "deleting", todo, at) /\ UNCHANGED <<exports, crashes>>
  BY DEF DropArchive, Moves
<1>2. /\ pass[p].todo \subseteq Archive /\ \A k \in pass[p].todo : Begun(k[1])
      /\ Begun(at)
  BY <1>1 DEF ExportInv, Listed
<1>3. pass'[p].pc = "deleting" /\ pass'[p].todo = todo /\ pass'[p].at = at
  BY <1>t, <1>1 DEF ExportTypes, Moves
<1>4. \A q \in Passes \ {p} : pass'[q] = pass[q]
  BY <1>t, <1>1 DEF ExportTypes, Moves
<1>5. ExportTypes'
  <2>1. [pc |-> "deleting", todo |-> todo, at |-> at] \in PassType
    BY <1>2 DEF PassType, Begun
  <2> HIDE DEF todo, at
  <2>2. pass' \in [Passes -> PassType] BY <1>t, <1>1, <2>1, Moved
  <2> QED BY <1>t, <1>1, <2>2 DEF ExportTypes
<1>6. \A q \in Passes : Listed(q)'
  <2>1. Listed(p)' BY <1>1, <1>2, <1>3 DEF Listed, Begun
  <2>2. ASSUME NEW q \in Passes \ {p} PROVE Listed(q)'
    BY <1>1, <1>4, ListedStays DEF ExportsLast, ExportInv
  <2> QED BY <2>1, <2>2
<1>7. \A e \in Exports : Keyed(e)' BY <1>1 DEF ExportInv, Keyed
<1>8. \A k : Dropping(k)' => Dropping(k) BY <1>1, <1>3, <1>4 DEF Dropping
<1>9. \A q \in Passes, e \in Exports : WillBuild(q, e)' => WillBuild(q, e)
  BY <1>3, <1>4 DEF WillBuild
<1>10. BuiltOnce' BY <1>1, <1>8, <1>9 DEF ExportInv, BuiltOnce
<1>11. ASSUME NEW e \in Exports, download(e)'
       PROVE  (exports[e].key \in archives /\ ~Dropping(exports[e].key))'
  <2>1. exports' = exports /\ download(e) BY <1>1, <1>11 DEF download, InState
  <2>2. exports[e].key \in archives /\ ~Dropping(exports[e].key)
    BY <2>1 DEF ExportInv, Downloads
  <2>3. Dropping(key) BY <1>1 DEF Dropping
  <2>4. PICK k : k = exports[e].key OBVIOUS
  <2>5. k # key BY <2>2, <2>3, <2>4
  <2>6. k \in archives' /\ ~Dropping(k)' BY <1>1, <1>8, <2>2, <2>4, <2>5
  <2> QED BY <2>1, <2>4, <2>6
<1>12. Downloads' BY <1>11 DEF Downloads
<1> QED BY <1>5, <1>6, <1>7, <1>10, <1>12 DEF ExportInv

(* A pass that only moves on.                                                 *)
LEMMA GoesOn ==
  ASSUME ExportInv, NEW p \in Passes, UNCHANGED <<exports, archives, crashes>>,
         \/ To(p, "maintenance", {}) \/ To(p, "exports", InState("pending"))
         \/ To(p, "idle", {}) \/ To(p, "deletions", Due) \/ To(p, "expired", Expired)
         \/ \E r : To(p, "deletions", pass[p].todo \ {r}) /\ pass[p].pc = "deletions"
  PROVE  ExportInv'
<1>t. ExportTypes BY DEF ExportInv
<1>1. ASSUME NEW pc \in {"maintenance", "idle", "deletions"},
             NEW todo \in SUBSET Rows, To(p, pc, todo),
             pc # "deletions" => todo = {}
      PROVE  ExportInv'
  <2>1. Moves(p, pc, todo, None) BY <1>1 DEF To, Moves
  <2>2. [pc |-> pc, todo |-> todo, at |-> None] \in PassType BY DEF PassType
  <2>3. pass'[p].pc = pc /\ pass'[p].todo = todo BY <1>t, <2>1, Moved
  <2>4. Listed(p)' BY <1>1, <2>3 DEF Listed
  <2>5. \A e \in Exports : ~WillBuild(p, e)' BY <2>3 DEF WillBuild
  <2>6. pass'[p].pc \notin {"expired", "deleting"} BY <2>3
  <2> QED BY <2>1, <2>2, <2>4, <2>5, <2>6, PassMoves
<1>2. CASE To(p, "exports", InState("pending"))
  <2> DEFINE todo == InState("pending")
  <2>1. Moves(p, "exports", todo, None) BY <1>2 DEF To, Moves
  <2>2. todo \subseteq Exports /\ \A e \in todo : exports[e] # None BY DEF InState
  <2> HIDE DEF todo
  <2>3. [pc |-> "exports", todo |-> todo, at |-> None] \in PassType BY <2>2 DEF PassType
  <2>4. pass'[p].pc = "exports" /\ pass'[p].todo = todo BY <1>t, <2>1, Moved
  <2>5. Listed(p)' BY <2>2, <2>4 DEF Listed
  <2>6. \A e \in Exports : WillBuild(p, e)' => e \in InState("pending")
    BY <2>4 DEF WillBuild, todo
  <2>7. pass'[p].pc \notin {"expired", "deleting"} BY <2>4
  <2> QED BY <2>1, <2>3, <2>5, <2>6, <2>7, PassMoves
<1>3. CASE To(p, "expired", Expired)
  <2> DEFINE todo == Expired
  <2>1. Moves(p, "expired", todo, None) BY <1>3 DEF To, Moves
  <2>2. ASSUME NEW k \in todo PROVE k \in Archive /\ Begun(k[1])
    <3>1. PICK e \in Exports : exports[e] # None /\ exports[e].state = "ready"
                               /\ exports[e].key = k
      BY DEF Expired, InState
    <3>2. PICK q \in Passes : k = <<e, q>> BY <3>1 DEF ExportInv, Keyed
    <3>3. k[1] = e BY <3>2
    <3> QED BY <3>1, <3>2, <3>3 DEF Begun, Archive
  <2>3. todo \subseteq Archive BY <2>2
  <2> HIDE DEF todo
  <2>4. [pc |-> "expired", todo |-> todo, at |-> None] \in PassType BY <2>3 DEF PassType
  <2>5. pass'[p].pc = "expired" /\ pass'[p].todo = todo BY <1>t, <2>1, Moved
  <2>6. Listed(p)' BY <2>2, <2>3, <2>5 DEF Listed, Begun
  <2>7. \A e \in Exports : ~WillBuild(p, e)' BY <2>5 DEF WillBuild
  <2>8. \A k \in Archive : k \in pass'[p].todo => k \in Expired BY <2>5 DEF todo
  <2> QED BY <2>1, <2>4, <2>6, <2>7, <2>8, PassMoves
<1>4. ASSUME NEW r, To(p, "deletions", pass[p].todo \ {r}), pass[p].pc = "deletions"
      PROVE  ExportInv'
  <2>1. pass[p].todo \ {r} \in SUBSET Rows BY <1>4 DEF ExportInv, Listed
  <2> QED BY <1>1, <1>4, <2>1
<1>5. Due \in SUBSET Rows /\ {} \in SUBSET Rows BY DEF Due
<1>6. CASE To(p, "maintenance", {}) BY <1>1, <1>5, <1>6
<1>7. CASE To(p, "idle", {}) BY <1>1, <1>5, <1>7
<1>8. CASE To(p, "deletions", Due) BY <1>1, <1>5, <1>8
<1> QED BY <1>2, <1>3, <1>4, <1>6, <1>7, <1>8

LEMMA SameExports ==
  ASSUME ExportInv, UNCHANGED <<exports, archives, pass>>, crashes' \in 0..MaxCrashes
  PROVE  ExportInv'
<1>4. ExportTypes' BY DEF ExportInv, ExportTypes
<1>5. \A q \in Passes : Listed(q)' BY DEF ExportInv, Listed, Begun
<1>6. \A e \in Exports : Keyed(e)' BY DEF ExportInv, Keyed
<1>7. BuiltOnce' BY DEF ExportInv, BuiltOnce, WillBuild, Dropping
<1>8. Downloads' BY DEF ExportInv, Downloads, download, InState, Dropping
<1> QED BY <1>4, <1>5, <1>6, <1>7, <1>8 DEF ExportInv

LEMMA Counting ==
  ASSUME crashes \in 0..MaxCrashes, crashes < MaxCrashes
  PROVE  crashes + 1 \in 0..MaxCrashes
BY CrashesAssumption

LEMMA CrashKeeps ==
  ASSUME ExportInv, Crash
  PROVE  ExportInv'
<1>1. pass' = [p \in Passes |-> NoPass] /\ UNCHANGED <<exports, archives>> BY DEF Crash
<1>2. crashes' \in 0..MaxCrashes BY Counting DEF Crash, ExportInv, ExportTypes
<1>3. \A p \in Passes : pass'[p].pc = "idle" /\ pass'[p].todo = {} BY <1>1 DEF NoPass
<1>4. ExportTypes'
  <2>1. NoPass \in PassType BY DEF NoPass, PassType
  <2> QED BY <1>1, <1>2, <2>1 DEF ExportInv, ExportTypes
<1>5. \A q \in Passes : Listed(q)' BY <1>3 DEF Listed
<1>6. \A e \in Exports : Keyed(e)' BY <1>1 DEF ExportInv, Keyed
<1>7. BuiltOnce' BY <1>3 DEF BuiltOnce, WillBuild
<1>8. Downloads' BY <1>1, <1>3 DEF ExportInv, Downloads, download, InState, Dropping
<1> QED BY <1>4, <1>5, <1>6, <1>7, <1>8 DEF ExportInv

LEMMA NextExports ==
  ASSUME Life, ExportInv, [Next]_allVars
  PROVE  ExportInv'
<1> DEFINE Still == UNCHANGED <<exports, archives, pass, crashes>>
<1>c. crashes \in 0..MaxCrashes BY DEF ExportInv, ExportTypes
<1>0. CASE Still BY <1>0, <1>c, SameExports
<1>1. ASSUME NEW h \in Handlers, Serving(h) PROVE ExportInv'
  <2>1. ASSUME NEW e \in Exports, ExportInsert(h, e) PROVE ExportInv' BY <2>1, InsertKeeps
  <2>2. CASE HandlerStep(h) /\ ~\E e \in Exports : ExportInsert(h, e)
    <3>1. Still
      BY <2>2 DEF HandlerStep, Register, Authenticate, Verify, OnboardingStep, CommitStep,
                  RequestDeletion, CancelCheck, CancelCommit, ExportCheck
    <3> QED BY <1>0, <3>1
  <2>3. CASE AvatarStep(h) BY <1>0, <2>3 DEF AvatarStep, ofAccounts
  <2> QED BY <1>1, <2>1, <2>2, <2>3 DEF Serving
<1>2. ASSUME NEW p \in workload.passes, Interval(p) \/ PassStep(p) PROVE ExportInv'
  <2>p. p \in Passes BY WorkloadsAssumption DEF Life, Typed
  <2>1. CASE Starting(p) BY <2>p, <2>1, GoesOn DEF Starting, StartPass
  <2>2. CASE Abort(p) BY <2>p, <2>2, GoesOn DEF Abort
  <2>3. CASE Maintaining(p) BY <2>p, <2>3, GoesOn DEF Maintaining, Maintain
  <2>4. CASE Sweeping(p) BY <1>0, <2>4 DEF Sweeping, ofAccounts
  <2>5. ASSUME NEW r \in Rows, Anonymizing(p, r) PROVE ExportInv'
    BY <2>p, <2>5, GoesOn DEF Anonymizing, anonymize
  <2>6. ASSUME NEW e \in Exports, StartExport(p, e) PROVE ExportInv'
    BY <2>p, <2>6, StartKeeps
  <2>7. ASSUME NEW key \in Archive, DropArchive(p, key) PROVE ExportInv'
    BY <2>p, <2>7, DropKeeps
  <2>8. CASE StoreArchive(p) BY <2>p, <2>8, StoreKeeps
  <2>9. CASE FinishExport(p) BY <2>p, <2>9, FinishKeeps
  <2>10. CASE SelectDeletions(p) BY <2>p, <2>10, GoesOn DEF SelectDeletions
  <2>11. CASE SelectExpired(p) BY <2>p, <2>11, GoesOn DEF SelectExpired
  <2>12. CASE CompleteExport(p) BY <2>p, <2>12, CompleteKeeps
  <2>13. CASE EndPass(p) BY <2>p, <2>13, GoesOn DEF EndPass
  <2> QED
    BY <1>2, <2>1, <2>2, <2>3, <2>4, <2>5, <2>6, <2>7, <2>8, <2>9, <2>10, <2>11,
       <2>12, <2>13 DEF Interval, PassStep, PrivacyStep
<1>3. CASE Time
  <2>1. ASSUME NEW e \in Exports, ExportAges(e) PROVE ExportInv' BY <2>1, AgesKeep
  <2> QED BY <1>0, <1>3, <2>1 DEF Time, WindowCloses, ofAccounts
<1>4. CASE Dying
  <2>1. CASE Crash BY <2>1, CrashKeeps
  <2>2. CASE crashes < MaxCrashes /\ crashes' = crashes + 1 /\ UNCHANGED ofAccounts
    <3>1. crashes' \in 0..MaxCrashes BY <1>c, <2>2, Counting
    <3> QED BY <2>2, <3>1, SameExports DEF ofAccounts
  <2> QED BY <1>4, <2>1, <2>2 DEF Dying
<1>5. CASE UNCHANGED allVars BY <1>0, <1>5 DEF allVars, vars
<1> QED BY <1>1, <1>2, <1>3, <1>4, <1>5 DEF Next

LEMMA InitExports == Init => ExportInv
<1> SUFFICES ASSUME Init PROVE ExportInv OBVIOUS
<1>1. /\ pass = [p \in Passes |-> NoPass] /\ exports = [e \in Exports |-> None]
      /\ archives = {} /\ crashes = 0
  BY DEF Init, AccountInit
<1>2. \A p \in Passes : pass[p].pc = "idle" /\ pass[p].todo = {} BY <1>1 DEF NoPass
<1>3. ExportTypes
  <2>1. NoPass \in PassType BY DEF NoPass, PassType
  <2>2. 0 \in 0..MaxCrashes BY CrashesAssumption
  <2> QED BY <1>1, <2>1, <2>2 DEF ExportTypes
<1>4. \A q \in Passes : Listed(q) BY <1>2 DEF Listed
<1>5. \A e \in Exports : Keyed(e) BY <1>1 DEF Keyed
<1>6. BuiltOnce BY <1>2 DEF BuiltOnce, WillBuild
<1>7. Downloads BY <1>1 DEF Downloads, download, InState
<1> QED BY <1>3, <1>4, <1>5, <1>6, <1>7 DEF ExportInv

(* A pass that has an export to build has not built it before, and no pass    *)
(* that deletes archives has chosen the one it will store: each export row    *)
(* keeps to its own archive through overlapping passes (processExports).      *)
THEOREM ExportsHold == Spec => []ExportInv
<1>1. Life /\ ExportInv /\ [Next]_allVars => ExportInv' BY NextExports
<1> QED BY <1>1, InitExports, LifeHolds, PTL DEF Spec

(* A link handed out for an export leads to an archive (exports, download).   *)
THEOREM DownloadsWork == Spec => []DownloadWorks
<1>1. ExportInv => DownloadWorks BY DEF ExportInv, Downloads, DownloadWorks
<1> QED BY <1>1, ExportsHold, PTL

----------------------------------------------------------------------------
(* Avatars: what each finalization has in hand.                               *)
Belongs(u, r) == u \in Uploads /\ uploads[u] # None /\ uploads[u].row = r
Names(k, r) == \E u \in Uploads, h \in Handlers : k = <<u, h>> /\ Belongs(u, r)
Used(k) == /\ k # None
           /\ \/ \E r \in Rows : avatar[r] = k
              \/ \E h \in Handlers : job[h].old = k

Stored == {"read old", "update", "delete old", "commit"}
Tried == {"mark", "get", "put"} \cup Stored
Working(h) ==
  IF job[h].pc = "idle" THEN job[h] = NoJob ELSE
    /\ Going(h, "avatar") /\ Belongs(job[h].upload, handler[h].row)
    /\ job[h].old # None => Names(job[h].old, handler[h].row)
    /\ job[h].pc \in Tried => ~Used(Processed(h))
    /\ job[h].pc \in Stored => Processed(h) \in objects

Present(k) == k \in objects \cup torn \/ Replacing(k)
Shown(r) == avatar[r] # None => Names(avatar[r], r) /\ Present(avatar[r])
(* No object was ever made of an upload that is pending.                      *)
Untried(u) == uploads[u] = None \/ uploads[u].state = "pending"
Fresh == \A u \in Uploads, h \in Handlers : Untried(u) => ~Used(<<u, h>>)
Cleaning == /\ \A u \in sweep.todo : uploads[u] # None
            /\ sweep.pc = "abandon" => sweep.at \in Uploads /\ uploads[sweep.at] # None
ImageInv ==
  /\ AvatarTypeOK /\ Cleaning /\ Fresh
  /\ \A h \in Handlers : Working(h)
  /\ \A r \in Rows : Shown(r)

JobPcs == {"idle", "put quarantine", "mark", "get", "put", "read old", "update",
           "delete old", "commit", "clean", "sign", "fail", "drop"}
JobType == [pc : JobPcs, upload : Uploads \cup {None}, old : Keys \cup {None}]

(* Uploads keep their rows, and none becomes pending again.                   *)
UploadsAge ==
  /\ uploads' \in [Uploads -> {None} \cup Upload]
  /\ \A u \in Uploads :
       /\ uploads[u] # None => uploads'[u] # None /\ uploads'[u].row = uploads[u].row
       /\ Untried(u)' => Untried(u)
(* Objects that a profile may name stay.                                      *)
ImagesStay == /\ objects' \subseteq Keys
              /\ \A k \in objects : k[2] # None => k \in objects'

LEMMA UploadsLast ==
  ASSUME UploadsAge, CONSTANT r \in Rows
  PROVE  /\ \A u : Belongs(u, r) => Belongs(u, r)'
         /\ \A k : Names(k, r) => Names(k, r)'
<1>1. \A u : Belongs(u, r) => Belongs(u, r)' BY DEF UploadsAge, Belongs
<1> QED BY <1>1 DEF Names

LEMMA UploadsSame ==
  ASSUME AvatarTypeOK, UNCHANGED uploads
  PROVE  UploadsAge
BY DEF AvatarTypeOK, UploadsAge, Untried

LEMMA Marked ==
  ASSUME AvatarTypeOK, NEW u \in Uploads, uploads[u] # None, NEW s, Mark(u, s),
         s \in {"processing", "ready", "failed", "abandoned"}
  PROVE  UploadsAge /\ ~Untried(u)'
<1>1. uploads \in [Uploads -> {None} \cup Upload] BY DEF AvatarTypeOK
<1>2. uploads[u] \in Upload BY <1>1
<1>3. uploads' \in [Uploads -> {None} \cup Upload] BY <1>1, <1>2 DEF Mark, Upload
<1>4. /\ uploads'[u].state = s /\ uploads'[u].row = uploads[u].row
      /\ \A v \in Uploads \ {u} : uploads'[v] = uploads[v]
  BY <1>1, <1>2 DEF Mark, Upload
<1>5. uploads'[u] # None
  <2>1. uploads'[u] \in Upload BY <1>1, <1>2 DEF Mark, Upload
  <2> QED BY <2>1, UploadAssumption
<1> QED BY <1>3, <1>4, <1>5 DEF UploadsAge, Untried

LEMMA Uploading ==
  ASSUME ImageInv, NEW h \in Handlers, job[h].pc # "idle"
  PROVE  /\ job[h].upload \in Uploads /\ uploads[job[h].upload] # None
         /\ Going(h, "avatar") /\ uploads[job[h].upload].row = handler[h].row
         /\ Processed(h) = <<job[h].upload, h>> /\ Processed(h) \in Keys
<1>1. Working(h) BY DEF ImageInv
<1> QED BY <1>1 DEF Working, Belongs, Processed, Keys

(* A step of one handler that leaves the profiles alone.                      *)
LEMMA PlainKeeps ==
  ASSUME Life, ImageInv, NEW h \in Handlers, UploadsAge, ImagesStay,
         UNCHANGED <<avatar, torn, sweep>>, job' \in [Handlers -> JobType],
         \A g \in Handlers \ {h} : job'[g] = job[g] /\ handler'[g] = handler[g],
         job[h].pc # "commit", job'[h].old # None => Used(job'[h].old),
         Working(h)'
  PROVE  ImageInv'
<1>t. AvatarTypeOK BY DEF ImageInv
<1>1. AvatarTypeOK' BY <1>t DEF AvatarTypeOK, UploadsAge, ImagesStay, JobType, JobPcs
<1>2. Cleaning'
  <2>1. sweep.todo \subseteq Uploads BY <1>t DEF AvatarTypeOK
  <2> QED BY <2>1 DEF ImageInv, Cleaning, UploadsAge
<1>3. \A k : Used(k)' => Used(k) BY DEF Used
<1>4. Fresh' BY <1>3 DEF ImageInv, Fresh, UploadsAge
<1>5. ASSUME NEW g \in Handlers \ {h} PROVE Working(g)'
  <2>1. Working(g) /\ job'[g] = job[g] /\ handler'[g] = handler[g] BY DEF ImageInv
  <2>2. CASE job[g].pc = "idle" BY <2>1, <2>2 DEF Working
  <2>3. CASE job[g].pc # "idle"
    <3>1. Going(g, "avatar") BY <2>1, <2>3 DEF Working
    <3>2. PICK r \in Rows : r = handler[g].row BY <3>1, OwnRow DEF Going
    <3>3. /\ Belongs(job[g].upload, r) => Belongs(job[g].upload, r)'
          /\ Names(job[g].old, r) => Names(job[g].old, r)'
      BY UploadsLast
    <3>4. Processed(g) \in objects => Processed(g) \in objects'
      BY UploadAssumption DEF Processed, ImagesStay
    <3>5. Processed(g)' = Processed(g) BY <2>1 DEF Processed
    <3> QED BY <1>3, <2>1, <2>3, <3>2, <3>3, <3>4, <3>5 DEF Working, Going
  <2> QED BY <2>2, <2>3
<1>6. ASSUME NEW r \in Rows, avatar[r] # None PROVE Shown(r)'
  <2>1. Names(avatar[r], r) /\ Present(avatar[r]) BY <1>6 DEF ImageInv, Shown
  <2>2. PICK k : k = avatar[r] OBVIOUS
  <2>3. Names(k, r)' BY <2>1, <2>2, UploadsLast
  <2>4. PICK u \in Uploads, g \in Handlers : k = <<u, g>> BY <2>1, <2>2 DEF Names
  <2>5. Replacing(k) => Replacing(k)' BY DEF Replacing, At
  <2>6. k \in objects => k \in objects' BY <2>4, UploadAssumption DEF ImagesStay
  <2>7. Present(k)' BY <2>1, <2>2, <2>5, <2>6 DEF Present
  <2> QED BY <2>2, <2>3, <2>7 DEF Shown
<1>7. \A r \in Rows : Shown(r)' BY <1>6 DEF Shown
<1> QED BY <1>1, <1>2, <1>4, <1>5, <1>7 DEF ImageInv

(* finalize() goes from one await to the next.                                *)
LEMMA Advances ==
  ASSUME Life, ImageInv, NEW h \in Handlers, NEW pc \in JobPcs \ {"idle"}, To_(h, pc),
         job[h].pc \notin {"idle", "commit"}, UploadsAge, ImagesStay,
         UNCHANGED <<avatar, torn, sweep>>,
         pc \in Tried => job[h].pc \in Tried,
         pc \in Stored => Processed(h) \in objects'
  PROVE  ImageInv'
<1>1. job \in [Handlers -> JobType] BY DEF ImageInv, AvatarTypeOK, JobType, JobPcs
<1>2. job[h] \in JobType BY <1>1
<1>3. /\ job' \in [Handlers -> JobType]
      /\ \A g \in Handlers \ {h} : job'[g] = job[g]
      /\ job'[h].pc = pc /\ job'[h].upload = job[h].upload /\ job'[h].old = job[h].old
      /\ handler' = handler
  BY <1>1, <1>2 DEF To_, JobType
<1>4. \A k : Used(k)' => Used(k) BY <1>3 DEF Used
<1>5. Working(h)'
  <2>1. Working(h) /\ Going(h, "avatar") BY DEF ImageInv, Working
  <2>2. PICK r \in Rows : r = handler[h].row BY <2>1, OwnRow DEF Going
  <2>3. /\ Belongs(job[h].upload, r) => Belongs(job[h].upload, r)'
        /\ Names(job[h].old, r) => Names(job[h].old, r)'
    BY <1>3, UploadsLast
  <2>4. Processed(h)' = Processed(h) BY <1>3 DEF Processed
  <2> QED BY <1>3, <1>4, <2>1, <2>2, <2>3, <2>4 DEF Working, Going
<1>6. job'[h].old # None => Used(job'[h].old) BY <1>3 DEF Used
<1> QED BY <1>3, <1>5, <1>6, PlainKeeps

LEMMA AnswersKeep ==
  ASSUME Life, ImageInv, NEW h \in Handlers, Done(h), job' = [job EXCEPT ![h] = NoJob],
         job[h].pc # "commit", UploadsAge, ImagesStay,
         UNCHANGED <<avatar, torn, sweep>>
  PROVE  ImageInv'
<1>1. job \in [Handlers -> JobType] BY DEF ImageInv, AvatarTypeOK, JobType, JobPcs
<1>2. NoJob \in JobType BY DEF NoJob, JobType, JobPcs
<1>3. /\ job' \in [Handlers -> JobType] /\ job'[h] = NoJob
      /\ \A g \in Handlers \ {h} : job'[g] = job[g] /\ handler'[g] = handler[g]
  BY <1>1, <1>2, DoneIdle DEF Life
<1>4. Working(h)' BY <1>3 DEF Working, NoJob
<1>5. job'[h].old = None BY <1>3 DEF NoJob
<1> QED BY <1>3, <1>4, <1>5, PlainKeeps

----------------------------------------------------------------------------
(* The storage.                                                               *)
LEMMA Deleting ==
  ASSUME objects \subseteq Keys, NEW u \in Uploads, delete(<<u, None>>)
  PROVE  ImagesStay
<1>1. objects \ {<<u, None>>} \subseteq objects' /\ objects' \subseteq objects
  BY DEF delete
<1>2. \A k \in objects : k[2] # None => k # <<u, None>> OBVIOUS
<1> QED BY <1>1, <1>2 DEF ImagesStay

LEMMA InitUploadKeeps ==
  ASSUME Life, ImageInv, NEW h \in Handlers, NEW u \in Uploads, init(h, u), UNCHANGED sweep
  PROVE  ImageInv'
<1>t. AvatarTypeOK BY DEF ImageInv
<1>1. /\ Going(h, "avatar") /\ job[h].pc = "idle" /\ uploads[u] = None
      /\ Done(h) /\ UNCHANGED <<avatar, objects, job, torn>>
  BY DEF init, At
<1>2. PICK r \in Rows : r = handler[h].row BY <1>1, OwnRow DEF Going
<1> DEFINE new == [row |-> r, state |-> "pending", due |-> FALSE]
<1>3. uploads' = [uploads EXCEPT ![u] = new] BY <1>2 DEF init
<1>4. new \in Upload BY DEF Upload
<1>5. new # None BY <1>4, UploadAssumption
<1> HIDE DEF new
<1>6. UploadsAge BY <1>t, <1>1, <1>3, <1>4, <1>5 DEF AvatarTypeOK, UploadsAge, Untried
<1>7. job[h] = NoJob BY <1>1 DEF ImageInv, Working
<1>8. job' = [job EXCEPT ![h] = NoJob] BY <1>t, <1>1, <1>7 DEF AvatarTypeOK
<1>9. ImagesStay BY <1>t, <1>1 DEF ImagesStay, AvatarTypeOK
<1> QED BY <1>1, <1>6, <1>8, <1>9, AnswersKeep

LEMMA OwnedKeeps ==
  ASSUME Life, ImageInv, NEW h \in Handlers, NEW u \in Uploads, owned(h, u), UNCHANGED sweep
  PROVE  ImageInv'
<1>t. AvatarTypeOK BY DEF ImageInv
<1>1. /\ Going(h, "avatar") /\ job[h].pc = "idle"
      /\ uploads[u] # None /\ uploads[u].row = handler[h].row
      /\ UNCHANGED <<avatar, uploads, objects, torn>>
  BY DEF owned, At
<1>2. UploadsAge /\ ImagesStay BY <1>t, <1>1, UploadsSame DEF ImagesStay, AvatarTypeOK
<1>3. CASE Answer(h) BY <1>1, <1>2, <1>3, AnswersKeep DEF Answer
<1>4. ASSUME Available(u), UNCHANGED handler, NEW pc \in {"put quarantine", "mark"},
             job' = [job EXCEPT ![h] = [pc |-> pc, upload |-> u, old |-> None]]
      PROVE  ImageInv'
  <2>1. job \in [Handlers -> JobType] BY <1>t DEF AvatarTypeOK, JobType, JobPcs
  <2> DEFINE new == [pc |-> pc, upload |-> u, old |-> None]
  <2>2. new \in JobType /\ new.pc = pc /\ new.upload = u /\ new.old = None
    BY DEF JobType, JobPcs
  <2> HIDE DEF new
  <2>3. /\ job' \in [Handlers -> JobType] /\ job'[h] = new
        /\ \A g \in Handlers \ {h} : job'[g] = job[g] /\ handler'[g] = handler[g]
    BY <1>4, <2>1, <2>2 DEF new
  <2>4. Processed(h)' = <<u, h>> BY <2>2, <2>3 DEF Processed
  <2>5. ~Used(<<u, h>>) BY <1>4 DEF Available, ImageInv, Fresh, Untried
  <2>6. ~Used(<<u, h>>)' BY <1>1, <2>2, <2>3, <2>5 DEF Used
  <2>7. Working(h)'
    BY <1>1, <1>4, <2>2, <2>3, <2>4, <2>6 DEF Working, Going, Belongs, Stored
  <2> QED BY <1>1, <1>2, <2>2, <2>3, <2>7, PlainKeeps
<1> QED BY <1>3, <1>4 DEF owned

LEMMA UploadKeeps ==
  ASSUME Life, ImageInv, NEW h \in Handlers, upload(h), UNCHANGED sweep
  PROVE  ImageInv'
<1>t. AvatarTypeOK BY DEF ImageInv
<1>1. /\ job[h].pc = "put quarantine" /\ Answer(h) /\ UNCHANGED <<avatar, uploads, torn>>
      /\ put(Quarantine(job[h].upload)) \/ UNCHANGED objects
  BY DEF upload, At
<1>2. job[h].upload \in Uploads BY <1>1, Uploading
<1>3. Quarantine(job[h].upload) \in Keys BY <1>2 DEF Quarantine, Keys
<1>4. ImagesStay BY <1>t, <1>1, <1>3 DEF ImagesStay, AvatarTypeOK, put
<1> QED BY <1>t, <1>1, <1>4, UploadsSame, AnswersKeep DEF Answer

(* The steps of finalize() that neither delete the old object nor commit.     *)
LEMMA FinalizeKeeps ==
  ASSUME Life, ImageInv, NEW h \in Handlers, UNCHANGED sweep,
         \/ Processing(h) \/ Process(h) \/ PutProcessed(h) \/ UpdateProfile(h)
         \/ CleanQuarantine(h) \/ Sign(h) \/ Fail(h) \/ DropQuarantine(h)
  PROVE  ImageInv'
<1>t. AvatarTypeOK BY DEF ImageInv
<1>s. /\ UNCHANGED uploads => UploadsAge
      /\ UNCHANGED objects => ImagesStay
  BY <1>t, UploadsSame DEF ImagesStay, AvatarTypeOK
<1>p. JobPcs \ {"idle"} = {"put quarantine", "mark", "get", "put", "read old", "update",
                           "delete old", "commit", "clean", "sign", "fail", "drop"}
  BY DEF JobPcs
<1>1. CASE Processing(h)
  <2>1. job[h].pc = "mark" BY <1>1 DEF Processing, At
  <2>2. UploadsAge BY <1>t, <1>1, <2>1, Uploading, Marked DEF Processing
  <2> QED BY <1>s, <1>p, <1>1, <2>1, <2>2, Advances DEF Processing, Tried, Stored
<1>2. CASE Process(h)
  BY <1>s, <1>p, <1>2, Advances DEF Process, At, Tried, Stored
<1>3. CASE PutProcessed(h)
  <2>1. job[h].pc = "put" /\ UNCHANGED <<avatar, uploads, torn>>
    BY <1>3 DEF PutProcessed, At
  <2>2. CASE put(Processed(h)) /\ To_(h, "read old")
    <3>1. Processed(h) \in Keys BY <2>1, Uploading
    <3>2. ImagesStay BY <1>t, <2>2, <3>1 DEF ImagesStay, AvatarTypeOK, put
    <3>3. Processed(h) \in objects' BY <2>2 DEF put
    <3> QED BY <1>s, <1>p, <2>1, <2>2, <3>2, <3>3, Advances DEF Tried, Stored
  <2>3. CASE UNCHANGED objects /\ To_(h, "fail")
    BY <1>s, <1>p, <2>1, <2>3, Advances DEF Tried, Stored
  <2> QED BY <1>3, <2>2, <2>3 DEF PutProcessed
<1>4. CASE UpdateProfile(h)
  <2>1. job[h].pc = "update" /\ UNCHANGED <<avatar, uploads, objects, torn>>
    BY <1>4 DEF UpdateProfile, At
  <2>2. Processed(h) \in objects BY <2>1 DEF ImageInv, Working, Stored
  <2>3. To_(h, "commit") \/ To_(h, "delete old") BY <1>4 DEF UpdateProfile
  <2> QED BY <1>s, <1>p, <2>1, <2>2, <2>3, Advances DEF Tried, Stored
<1>5. CASE CleanQuarantine(h)
  <2>1. /\ job[h].pc = "clean" /\ UNCHANGED <<avatar, uploads, torn>>
        /\ delete(Quarantine(job[h].upload)) /\ (To_(h, "sign") \/ To_(h, "fail"))
    BY <1>5 DEF CleanQuarantine, At
  <2>2. job[h].upload \in Uploads BY <2>1, Uploading
  <2>3. ImagesStay BY <1>t, <2>1, <2>2, Deleting DEF AvatarTypeOK, Quarantine
  <2> QED BY <1>s, <1>p, <2>1, <2>3, Advances DEF Tried, Stored
<1>6. CASE Sign(h)
  <2>1. job[h].pc = "sign" /\ UNCHANGED <<avatar, uploads, objects, torn>>
    BY <1>6 DEF Sign, At
  <2>2. CASE Answer(h) BY <1>s, <2>1, <2>2, AnswersKeep DEF Answer
  <2>3. CASE To_(h, "fail") BY <1>s, <1>p, <2>1, <2>3, Advances DEF Tried, Stored
  <2> QED BY <1>6, <2>2, <2>3 DEF Sign
<1>7. CASE Fail(h)
  <2>1. /\ job[h].pc = "fail" /\ Mark(job[h].upload, "failed") /\ To_(h, "drop")
        /\ UNCHANGED <<avatar, objects, torn>>
    BY <1>7 DEF Fail, At
  <2>2. UploadsAge BY <1>t, <2>1, Uploading, Marked
  <2> QED BY <1>s, <1>p, <2>1, <2>2, Advances DEF Tried, Stored
<1>8. CASE DropQuarantine(h)
  <2>1. /\ job[h].pc = "drop" /\ UNCHANGED <<avatar, uploads, torn>>
        /\ delete(Quarantine(job[h].upload)) /\ Answer(h)
    BY <1>8 DEF DropQuarantine, At
  <2>2. job[h].upload \in Uploads BY <2>1, Uploading
  <2>3. ImagesStay BY <1>t, <2>1, <2>2, Deleting DEF AvatarTypeOK, Quarantine
  <2> QED BY <1>s, <2>1, <2>3, AnswersKeep DEF Answer
<1> QED BY <1>1, <1>2, <1>3, <1>4, <1>5, <1>6, <1>7, <1>8

LEMMA ReadKeeps ==
  ASSUME Life, ImageInv, NEW h \in Handlers, ReadOld(h), UNCHANGED sweep
  PROVE  ImageInv'
<1>t. AvatarTypeOK BY DEF ImageInv
<1>1. /\ job[h].pc = "read old"
      /\ job' = [job EXCEPT ![h].pc = "update", ![h].old = avatar[handler[h].row]]
      /\ UNCHANGED <<handler, avatar, uploads, objects, torn>>
  BY DEF ReadOld, At
<1>w. Working(h) /\ Going(h, "avatar") BY <1>1, Uploading DEF ImageInv
<1>r. PICK r \in Rows : r = handler[h].row BY <1>w, OwnRow DEF Going
<1>2. UploadsAge /\ ImagesStay BY <1>t, <1>1, UploadsSame DEF ImagesStay, AvatarTypeOK
<1>3. job \in [Handlers -> JobType] BY <1>t DEF AvatarTypeOK, JobType, JobPcs
<1>4. avatar[r] \in Keys \cup {None} BY <1>t DEF AvatarTypeOK
<1>5. job[h] \in JobType BY <1>3
<1>6. /\ job' \in [Handlers -> JobType]
      /\ \A g \in Handlers \ {h} : job'[g] = job[g] /\ handler'[g] = handler[g]
      /\ job'[h].pc = "update" /\ job'[h].upload = job[h].upload
      /\ job'[h].old = avatar[r]
  BY <1>1, <1>3, <1>4, <1>5, <1>r DEF JobType, JobPcs
<1>7. avatar[r] # None => Used(avatar[r]) BY DEF Used
<1>8. avatar[r] # None => Names(avatar[r], r) BY DEF ImageInv, Shown
<1>9. ASSUME Names(avatar[r], r) PROVE Names(job[h].old, r)'
  <2>1. PICK u \in Uploads, g \in Handlers : avatar[r] = <<u, g>> /\ Belongs(u, r)
    BY <1>9 DEF Names
  <2>2. job'[h].old = <<u, g>> /\ Belongs(u, r)' BY <1>1, <1>6, <2>1 DEF Belongs
  <2> QED BY <2>2 DEF Names
<1>10. Processed(h)' = Processed(h) BY <1>6 DEF Processed
<1>11. \A k : Used(k)' => Used(k) BY <1>1, <1>6 DEF Used
<1>12. Working(h)'
  BY <1>1, <1>r, <1>w, <1>6, <1>8, <1>9, <1>10, <1>11
     DEF Working, Going, Belongs, Tried, Stored
<1> QED BY <1>1, <1>2, <1>6, <1>7, <1>12, PlainKeeps

LEMMA StoredStays ==
  ASSUME ImageInv, NEW h \in Handlers, NEW g \in Handlers, job[g].pc \in Stored,
         objects \ {job[h].old} \subseteq objects'
  PROVE  Processed(g) \in objects'
<1>1. job[g].pc \in Tried /\ job[g].pc # "idle" BY DEF Tried, Stored
<1>2. ~Used(Processed(g)) /\ Processed(g) \in objects
  BY <1>1 DEF ImageInv, Working
<1>3. Processed(g) # None BY <1>1, Uploading, UploadAssumption
<1>4. Processed(g) # job[h].old BY <1>2, <1>3 DEF Used
<1> QED BY <1>2, <1>4

(* The transaction of finalize(): the old object goes, then the commit.       *)
LEMMA TransactionKeeps ==
  ASSUME Life, ImageInv, NEW h \in Handlers, UNCHANGED sweep,
         job[h].pc \in {"delete old", "commit"},
         NEW pc \in {"commit", "clean", "fail"}, To_(h, pc),
         objects \ {job[h].old} \subseteq objects', objects' \subseteq objects,
         UploadsAge, avatar' \in [Rows -> Keys \cup {None}], torn' \subseteq Keys,
         \A g \in Handlers : \A k : k = Processed(g) /\ Used(k)' =>
            Used(k) \/ (g = h /\ pc = "clean"),
         \A u \in Uploads, g \in Handlers : \A k : k = <<u, g>> /\ Used(k)' =>
            Used(k) \/ ~Untried(u)',
         \A r \in Rows : Shown(r)'
  PROVE  ImageInv'
<1>t. AvatarTypeOK BY DEF ImageInv
<1>j. job \in [Handlers -> JobType] BY <1>t DEF AvatarTypeOK, JobType, JobPcs
<1>k. job[h] \in JobType BY <1>j
<1>1. /\ job' \in [Handlers -> JobType]
      /\ \A g \in Handlers \ {h} : job'[g] = job[g]
      /\ job'[h].pc = pc /\ job'[h].upload = job[h].upload /\ job'[h].old = job[h].old
      /\ handler' = handler
  BY <1>j, <1>k DEF To_, JobType, JobPcs
<1>2. AvatarTypeOK' BY <1>t, <1>1 DEF AvatarTypeOK, UploadsAge, JobType, JobPcs
<1>3. Cleaning'
  <2>1. sweep.todo \subseteq Uploads BY <1>t DEF AvatarTypeOK
  <2> QED BY <2>1 DEF ImageInv, Cleaning, UploadsAge
<1>4. Fresh'
  <2>1. ASSUME NEW u \in Uploads, NEW g \in Handlers, Untried(u)', Used(<<u, g>>)' PROVE FALSE
    <3>1. PICK k : k = <<u, g>> OBVIOUS
    <3>2. Used(k)' BY <2>1, <3>1
    <3>3. Used(k) BY <2>1, <3>1, <3>2
    <3>4. Untried(u) BY <2>1 DEF UploadsAge
    <3> QED BY <3>1, <3>3, <3>4 DEF ImageInv, Fresh
  <2> QED BY <2>1 DEF Fresh
<1>5. ASSUME NEW g \in Handlers PROVE Working(g)'
  <2>0. Working(g) /\ Processed(g)' = Processed(g) /\ job'[g].old = job[g].old
        /\ job'[g].upload = job[g].upload
    BY <1>1 DEF ImageInv, Processed
  <2>1. CASE job[g].pc = "idle"
    <3>1. g # h BY <2>1
    <3> QED BY <1>1, <2>0, <2>1, <3>1 DEF Working
  <2>2. CASE job[g].pc # "idle"
    <3>1. Going(g, "avatar") BY <2>0, <2>2 DEF Working
    <3>2. PICK r \in Rows : r = handler[g].row BY <3>1, OwnRow DEF Going
    <3>3. /\ Belongs(job[g].upload, r)'
          /\ job[g].old # None => Names(job[g].old, r)'
      <4>1. PICK u, k : u = job[g].upload /\ k = job[g].old OBVIOUS
      <4>2. Belongs(u, r) /\ (k # None => Names(k, r))
        BY <2>0, <2>2, <3>2, <4>1 DEF Working
      <4>3. Belongs(u, r)' /\ (k # None => Names(k, r)') BY <4>2, UploadsLast
      <4> QED BY <2>0, <4>1, <4>3
    <3>4. ASSUME job'[g].pc \in Tried PROVE ~Used(Processed(g))'
      <4>1. job[g].pc \in Tried /\ ~(g = h /\ pc = "clean")
        BY <1>1, <3>4 DEF Tried, Stored
      <4>2. PICK k : k = Processed(g) OBVIOUS
      <4>3. ~Used(k) BY <2>0, <2>2, <4>1, <4>2 DEF Working
      <4>4. ~Used(k)' BY <4>1, <4>2, <4>3
      <4> QED BY <2>0, <4>2, <4>4
    <3>5. ASSUME job'[g].pc \in Stored PROVE Processed(g)' \in objects'
      <4>1. job[g].pc \in Stored BY <1>1, <3>5 DEF Stored
      <4> QED BY <2>0, <4>1, StoredStays
    <3>6. Going(g, "avatar")' /\ job'[g].pc # "idle" /\ handler'[g].row = r
      BY <1>1, <2>2, <3>1, <3>2 DEF Going
    <3> QED BY <2>0, <3>3, <3>4, <3>5, <3>6 DEF Working
  <2> QED BY <2>1, <2>2
<1> QED BY <1>2, <1>3, <1>4, <1>5 DEF ImageInv

LEMMA DeleteKeeps ==
  ASSUME Life, ImageInv, NEW h \in Handlers, DeleteOld(h), UNCHANGED sweep
  PROVE  ImageInv'
<1>t. AvatarTypeOK BY DEF ImageInv
<1>o. PICK old : old = job[h].old OBVIOUS
<1>1. /\ job[h].pc = "delete old" /\ UNCHANGED <<avatar, uploads>>
      /\ objects \ {old} \subseteq objects' /\ objects' \subseteq objects
  BY <1>o DEF DeleteOld, At, delete
<1>2. PICK pc \in {"commit", "fail"} :
        /\ To_(h, pc)
        /\ pc = "commit" => torn' = torn
        /\ pc = "fail" => torn' = torn \cup ({old} \ (objects' \cup {None}))
  BY <1>o DEF DeleteOld, Rollback
<1>j. job \in [Handlers -> JobType] /\ job[h] \in JobType
  BY <1>t DEF AvatarTypeOK, JobType, JobPcs
<1>k. old \in Keys \cup {None} BY <1>j, <1>o DEF JobType
<1>3. /\ \A g \in Handlers \ {h} : job'[g] = job[g]
      /\ job'[h].pc = pc /\ job'[h].old = old
  BY <1>j, <1>2, <1>o DEF To_, JobType
<1>4. \A k : Used(k)' => Used(k) BY <1>1, <1>3, <1>o DEF Used
<1>5. torn' \subseteq Keys /\ avatar' \in [Rows -> Keys \cup {None}] /\ torn \subseteq torn'
  <2>1. torn \subseteq Keys /\ avatar' \in [Rows -> Keys \cup {None}]
    BY <1>t, <1>1 DEF AvatarTypeOK
  <2>2. CASE pc = "commit" BY <1>2, <2>1, <2>2
  <2>3. CASE pc = "fail" BY <1>2, <1>k, <2>1, <2>3
  <2> QED BY <2>1, <2>2, <2>3
<1>6. ASSUME NEW r \in Rows, avatar[r] # None PROVE Shown(r)'
  <2>1. Names(avatar[r], r) /\ Present(avatar[r]) BY <1>6 DEF ImageInv, Shown
  <2>2. PICK k : k = avatar[r] OBVIOUS
  <2>3. Names(k, r)' BY <1>1, <2>1, <2>2 DEF Names, Belongs
  <2>4. CASE k = old
    <3>1. CASE pc = "commit"
      <4>1. Replacing(k)' BY <1>3, <2>4, <3>1 DEF Replacing, At
      <4> QED BY <1>1, <2>2, <2>3, <4>1 DEF Shown, Present
    <3>2. CASE pc = "fail"
      <4>1. k \in objects' \/ k \in torn' BY <1>2, <1>6, <2>2, <2>4, <3>2
      <4> QED BY <1>1, <2>2, <2>3, <4>1 DEF Shown, Present
    <3> QED BY <3>1, <3>2
  <2>5. CASE k # old
    <3>1. Replacing(k) => Replacing(k)' BY <1>1, <1>3, <1>o DEF Replacing, At
    <3>2. Present(k)' BY <1>1, <1>5, <2>1, <2>2, <2>5, <3>1 DEF Present
    <3> QED BY <1>1, <2>2, <2>3, <3>2 DEF Shown
  <2> QED BY <2>4, <2>5
<1>7. \A r \in Rows : Shown(r)' BY <1>1, <1>6 DEF Shown
<1> QED BY <1>t, <1>1, <1>2, <1>4, <1>5, <1>7, UploadsSame, <1>o, TransactionKeeps

LEMMA CommitAvatarKeeps ==
  ASSUME Life, ImageInv, NEW h \in Handlers, Commit(h), UNCHANGED sweep
  PROVE  ImageInv'
<1>t. AvatarTypeOK BY DEF ImageInv
<1>0. job[h].pc = "commit" BY DEF Commit, At
<1>w. Working(h) /\ Going(h, "avatar") BY <1>0, Uploading DEF ImageInv
<1>q. PICK q \in Rows : q = handler[h].row BY <1>w, OwnRow DEF Going
<1>n. PICK new \in Keys : new = Processed(h) /\ new = <<job[h].upload, h>>
  BY <1>0, Uploading
<1>u. PICK v \in Uploads : v = job[h].upload /\ Belongs(v, q) /\ uploads[v] # None
  BY <1>0, <1>q, Uploading DEF Belongs
<1>o. PICK old : old = job[h].old /\ (old # None => Names(old, q))
  BY <1>0, <1>q, <1>w DEF Working
<1>j. job \in [Handlers -> JobType] /\ job[h] \in JobType
  BY <1>t DEF AvatarTypeOK, JobType, JobPcs
<1>m. ASSUME NEW pc, To_(h, pc)
      PROVE  /\ \A g \in Handlers \ {h} : job'[g] = job[g]
             /\ job'[h].pc = pc /\ job'[h].old = old
  BY <1>j, <1>m, <1>o DEF To_, JobType
<1>1. CASE /\ avatar' = [avatar EXCEPT ![handler[h].row] = Processed(h)]
           /\ Mark(job[h].upload, "ready") /\ To_(h, "clean")
           /\ UNCHANGED <<objects, torn>>
  <2>1. avatar' = [avatar EXCEPT ![q] = new] BY <1>1, <1>n, <1>q
  <2>2. /\ avatar' \in [Rows -> Keys \cup {None}]
        /\ avatar'[q] = new /\ \A r \in Rows \ {q} : avatar'[r] = avatar[r]
    BY <1>t, <2>1 DEF AvatarTypeOK
  <2>3. UploadsAge /\ ~Untried(v)' BY <1>t, <1>1, <1>u, Marked
  <2>4. \A k : Used(k)' => Used(k) \/ k = new BY <1>1, <1>m, <1>o, <2>2 DEF Used
  <2>5. \A g \in Handlers : \A k : k = Processed(g) /\ Used(k)' => Used(k) \/ g = h
    BY <1>n, <2>4 DEF Processed
  <2>6. \A u \in Uploads, g \in Handlers : \A k : k = <<u, g>> /\ Used(k)' =>
          Used(k) \/ ~Untried(u)'
    BY <1>n, <1>u, <2>3, <2>4
  <2>7. Shown(q)'
    <3>1. Names(new, q)
      BY <1>n, <1>u DEF Names
    <3>2. Names(new, q)' BY <2>3, <3>1, UploadsLast
    <3>3. new \in objects BY <1>0, <1>n, <1>w DEF Working, Stored
    <3> QED BY <1>1, <2>2, <3>2, <3>3 DEF Shown, Present
  <2>8. ASSUME NEW r \in Rows \ {q}, avatar[r] # None PROVE Shown(r)'
    <3>1. PICK k : k = avatar[r] OBVIOUS
    <3>2. Names(k, r) /\ Present(k) BY <2>8, <3>1 DEF ImageInv, Shown
    <3>3. Names(k, r)' BY <2>3, <3>2, UploadsLast
    <3>4. k # old
      <4>1. ~(Names(k, r) /\ Names(k, q)) BY DEF Names, Belongs
      <4> QED BY <1>o, <2>8, <3>1, <3>2, <4>1
    <3>5. Replacing(k) => Replacing(k)' BY <1>1, <1>m, <1>o, <3>4 DEF Replacing, At
    <3>6. Present(k)' BY <1>1, <3>2, <3>5 DEF Present
    <3> QED BY <2>2, <3>1, <3>3, <3>6 DEF Shown
  <2>9. \A r \in Rows : Shown(r)' BY <2>2, <2>7, <2>8 DEF Shown
  <2>10. torn' \subseteq Keys BY <1>t, <1>1 DEF AvatarTypeOK
  <2>11. objects \ {job[h].old} \subseteq objects' /\ objects' \subseteq objects BY <1>1
  <2> QED
    BY <1>0, <1>1, <2>2, <2>3, <2>5, <2>6, <2>9, <2>10, <2>11, TransactionKeeps
<1>2. CASE To_(h, "fail") /\ UNCHANGED <<avatar, uploads, objects>> /\ Rollback(h)
  <2>1. torn' = torn \cup ({old} \ (objects \cup {None})) BY <1>2, <1>o DEF Rollback
  <2>2. old \in Keys \cup {None} BY <1>j, <1>o DEF JobType
  <2>3. torn' \subseteq Keys /\ avatar' \in [Rows -> Keys \cup {None}]
    BY <1>t, <1>2, <2>1, <2>2 DEF AvatarTypeOK
  <2>4. UploadsAge BY <1>t, <1>2, UploadsSame
  <2>5. \A k : Used(k)' => Used(k) BY <1>2, <1>m, <1>o DEF Used
  <2>6. ASSUME NEW r \in Rows, avatar[r] # None PROVE Shown(r)'
    <3>1. PICK k : k = avatar[r] OBVIOUS
    <3>2. Names(k, r) /\ Present(k) BY <2>6, <3>1 DEF ImageInv, Shown
    <3>3. Names(k, r)' BY <2>4, <3>2, UploadsLast
    <3>4. CASE k = old
      <4>1. k \in objects \/ k \in torn' BY <2>1, <2>6, <3>1, <3>4
      <4>2. Present(k)' BY <1>2, <4>1 DEF Present
      <4> QED BY <1>2, <3>1, <3>3, <4>2 DEF Shown
    <3>5. CASE k # old
      <4>1. Replacing(k) => Replacing(k)' BY <1>2, <1>m, <1>o, <3>5 DEF Replacing, At
      <4>2. Present(k)' BY <1>2, <2>1, <3>2, <4>1 DEF Present
      <4> QED BY <1>2, <3>1, <3>3, <4>2 DEF Shown
    <3> QED BY <3>4, <3>5
  <2>7. \A r \in Rows : Shown(r)' BY <1>2, <2>6 DEF Shown
  <2>8. objects \ {job[h].old} \subseteq objects' /\ objects' \subseteq objects BY <1>2
  <2> QED BY <1>0, <1>2, <2>3, <2>4, <2>5, <2>7, <2>8, TransactionKeeps
<1> QED BY <1>1, <1>2 DEF Commit

(* Steps that leave every finalization where it is.                           *)
LEMMA ImagesKeep ==
  ASSUME Life, ImageInv, UploadsAge, ImagesStay, UNCHANGED <<job, torn>>,
         \A h \in Handlers : job[h].pc # "idle" => handler'[h] = handler[h],
         avatar' \in [Rows -> Keys \cup {None}],
         \A r \in Rows : avatar'[r] \in {avatar[r], None},
         sweep' \in [pc : {"idle", "sweeping", "abandon", "swept"},
                     todo : SUBSET Uploads, at : Uploads \cup {None}],
         Cleaning'
  PROVE  ImageInv'
<1>t. AvatarTypeOK BY DEF ImageInv
<1>1. AvatarTypeOK' BY <1>t DEF AvatarTypeOK, UploadsAge, ImagesStay
<1>3. \A k : Used(k)' => Used(k) BY DEF Used
<1>4. Fresh' BY <1>3 DEF ImageInv, Fresh, UploadsAge
<1>5. ASSUME NEW g \in Handlers PROVE Working(g)'
  <2>1. Working(g) BY DEF ImageInv
  <2>2. CASE job[g].pc = "idle" BY <2>1, <2>2 DEF Working
  <2>3. CASE job[g].pc # "idle"
    <3>1. Going(g, "avatar") /\ handler'[g] = handler[g] BY <2>1, <2>3 DEF Working
    <3>2. PICK r \in Rows : r = handler[g].row BY <3>1, OwnRow DEF Going
    <3>3. /\ Belongs(job[g].upload, r) => Belongs(job[g].upload, r)'
          /\ Names(job[g].old, r) => Names(job[g].old, r)'
      BY UploadsLast
    <3>4. Processed(g) \in objects => Processed(g) \in objects'
      BY UploadAssumption DEF Processed, ImagesStay
    <3>5. Processed(g)' = Processed(g) BY DEF Processed
    <3> QED BY <1>3, <2>1, <2>3, <3>1, <3>2, <3>3, <3>4, <3>5 DEF Working, Going
  <2> QED BY <2>2, <2>3
<1>6. ASSUME NEW r \in Rows, avatar'[r] # None PROVE Shown(r)'
  <2>0. avatar'[r] = avatar[r] BY <1>6
  <2>1. Names(avatar[r], r) /\ Present(avatar[r]) BY <1>6, <2>0 DEF ImageInv, Shown
  <2>2. PICK k : k = avatar[r] OBVIOUS
  <2>3. Names(k, r)' BY <2>1, <2>2, UploadsLast
  <2>4. PICK u \in Uploads, g \in Handlers : k = <<u, g>> BY <2>1, <2>2 DEF Names
  <2>5. Replacing(k) => Replacing(k)' BY DEF Replacing, At
  <2>6. k \in objects => k \in objects' BY <2>4, UploadAssumption DEF ImagesStay
  <2>7. Present(k)' BY <2>1, <2>2, <2>5, <2>6 DEF Present
  <2> QED BY <2>0, <2>2, <2>3, <2>7 DEF Shown
<1>7. \A r \in Rows : Shown(r)' BY <1>6 DEF Shown
<1> QED BY <1>1, <1>4, <1>5, <1>7 DEF ImageInv

LEMMA SweepTyped ==
  ASSUME ImageInv, UNCHANGED sweep, UploadsAge
  PROVE  /\ Cleaning'
         /\ sweep' \in [pc : {"idle", "sweeping", "abandon", "swept"},
                        todo : SUBSET Uploads, at : Uploads \cup {None}]
<1>1. sweep \in [pc : {"idle", "sweeping", "abandon", "swept"},
                 todo : SUBSET Uploads, at : Uploads \cup {None}]
  BY DEF ImageInv, AvatarTypeOK
<1>2. sweep.todo \subseteq Uploads BY <1>1
<1> QED BY <1>1, <1>2 DEF ImageInv, Cleaning, UploadsAge

(* Nothing of the avatars changes, but for a sweep that starts anew.          *)
LEMMA SameImages ==
  ASSUME Life, ImageInv, UNCHANGED <<avatar, uploads, objects, job, torn>>,
         sweep' \in {sweep, NoSweep},
         \A h \in Handlers : job[h].pc # "idle" => handler'[h] = handler[h]
  PROVE  ImageInv'
<1>t. AvatarTypeOK BY DEF ImageInv
<1>1. UploadsAge /\ ImagesStay BY <1>t, UploadsSame DEF AvatarTypeOK, ImagesStay
<1>2. avatar' \in [Rows -> Keys \cup {None}] BY <1>t DEF AvatarTypeOK
<1>3. CASE sweep' = NoSweep
  <2>1. Cleaning' BY <1>3 DEF Cleaning, NoSweep
  <2>2. sweep' \in [pc : {"idle", "sweeping", "abandon", "swept"},
                    todo : SUBSET Uploads, at : Uploads \cup {None}]
    BY <1>3 DEF NoSweep
  <2> QED BY <1>1, <1>2, <2>1, <2>2, ImagesKeep
<1>4. CASE UNCHANGED sweep BY <1>1, <1>2, <1>4, SweepTyped, ImagesKeep
<1> QED BY <1>3, <1>4

(* A request about something else.                                            *)
LEMMA OtherRequests ==
  ASSUME Life, NEW h \in Handlers, HandlerStep(h)
  PROVE  /\ ~Going(h, "avatar")
         /\ \A g \in Handlers \ {h} : handler'[g] = handler[g]
<1>1. ~Going(h, "avatar")
  <2>1. ASSUME handler[h].pc = "go", handler[h].op = "avatar" PROVE FALSE
    <3>1. handler[h] # Idle BY <2>1 DEF Idle
    <3> QED
      BY <2>1, <3>1, StepsAssumption
         DEF HandlerStep, Register, Authenticate, Verify, OnboardingStep, CommitStep, Going,
             RequestDeletion, CancelCheck, CancelCommit, ExportCheck, ExportInsert
  <2> QED BY <2>1 DEF Going
<1>2. handler \in [Handlers -> HandlerType] BY DEF Life, Typed
<1>3. UNCHANGED handler \/ \E x : handler' = [handler EXCEPT ![h] = x]
  <2>1. ASSUME NEW op, NEW r, NEW s, NEW v, Serve(h, op, r, s, v)
        PROVE  \E x : handler' = [handler EXCEPT ![h] = x]
    BY <2>1 DEF Serve
  <2>2. CASE \E r \in Rows, v \in BOOLEAN : Register(h, r, v) BY <2>2 DEF Register
  <2>3. CASE \E r \in Rows, v \in BOOLEAN : \E op \in workload.ops : Authenticate(h, r, op, v)
    BY <2>1, <2>3 DEF Authenticate
  <2>4. CASE Verify(h) BY <2>1, <2>4 DEF Verify
  <2>5. CASE \E step \in Steps : OnboardingStep(h, step) BY <2>5 DEF OnboardingStep, Done
  <2>6. CASE CommitStep(h) \/ RequestDeletion(h) \/ CancelCommit(h)
             \/ \E e \in Exports : ExportInsert(h, e)
    BY <2>6 DEF CommitStep, RequestDeletion, CancelCommit, ExportInsert, Done
  <2>7. CASE CancelCheck(h) \/ ExportCheck(h) BY <2>7 DEF CancelCheck, ExportCheck, Done
  <2> QED BY <2>2, <2>3, <2>4, <2>5, <2>6, <2>7 DEF HandlerStep
<1> QED BY <1>1, <1>2, <1>3

LEMMA ExpiresKeep ==
  ASSUME Life, ImageInv, NEW u \in Uploads, UploadExpires(u), UNCHANGED <<handler, job, sweep>>
  PROVE  ImageInv'
<1>t. AvatarTypeOK BY DEF ImageInv
<1>1. /\ uploads[u] # None /\ uploads' = [uploads EXCEPT ![u].due = TRUE]
      /\ UNCHANGED <<avatar, objects, torn>>
  BY DEF UploadExpires
<1>2. uploads \in [Uploads -> {None} \cup Upload] /\ uploads[u] \in Upload
  BY <1>t, <1>1 DEF AvatarTypeOK
<1>3. uploads' \in [Uploads -> {None} \cup Upload] BY <1>1, <1>2 DEF Upload
<1>4. /\ uploads'[u].state = uploads[u].state /\ uploads'[u].row = uploads[u].row
      /\ \A v \in Uploads \ {u} : uploads'[v] = uploads[v]
  BY <1>1, <1>2 DEF Upload
<1>5. uploads'[u] # None
  <2>1. uploads'[u] \in Upload BY <1>1, <1>2 DEF Upload
  <2> QED BY <2>1, UploadAssumption
<1>6. UploadsAge BY <1>1, <1>3, <1>4, <1>5 DEF UploadsAge, Untried
<1>7. ImagesStay BY <1>t, <1>1 DEF AvatarTypeOK, ImagesStay
<1>8. avatar' \in [Rows -> Keys \cup {None}] BY <1>t, <1>1 DEF AvatarTypeOK
<1> QED BY <1>1, <1>6, <1>7, <1>8, SweepTyped, ImagesKeep

LEMMA CleanupKeeps ==
  ASSUME Life, ImageInv, cleanup, UNCHANGED <<handler, avatar, job, torn>>
  PROVE  ImageInv'
<1>t. AvatarTypeOK BY DEF ImageInv
<1>a. avatar' \in [Rows -> Keys \cup {None}] BY <1>t DEF AvatarTypeOK
<1> DEFINE SweepType == [pc : {"idle", "sweeping", "abandon", "swept"},
                         todo : SUBSET Uploads, at : Uploads \cup {None}]
<1>s. sweep \in SweepType /\ objects \subseteq Keys BY <1>t DEF AvatarTypeOK
<1>g. ASSUME UploadsAge, ImagesStay, sweep' \in SweepType, Cleaning' PROVE ImageInv'
  BY <1>a, <1>g, ImagesKeep
<1> HIDE DEF SweepType
<1>1. CASE ChooseUploads
  <2> DEFINE todo == {u \in Uploads : uploads[u] # None /\ uploads[u].state = "pending"
                                                       /\ uploads[u].due}
  <2>1. sweep' = [sweep EXCEPT !.pc = "sweeping", !.todo = todo]
        /\ UNCHANGED <<uploads, objects>>
    BY <1>1 DEF ChooseUploads
  <2>2. todo \subseteq Uploads /\ \A u \in todo : uploads[u] # None OBVIOUS
  <2> HIDE DEF todo
  <2>3. sweep' \in SweepType /\ sweep'.pc = "sweeping" /\ sweep'.todo = todo
    BY <1>s, <2>1, <2>2 DEF SweepType
  <2>4. Cleaning' BY <2>1, <2>2, <2>3 DEF Cleaning
  <2> QED BY <1>g, <1>s, <1>t, <2>1, <2>3, <2>4, UploadsSame DEF ImagesStay
<1>2. ASSUME NEW u \in Uploads, DropUpload(u) PROVE ImageInv'
  <2>1. /\ u \in sweep.todo /\ delete(Quarantine(u)) /\ UNCHANGED uploads
        /\ sweep' = [pc |-> "abandon", todo |-> sweep.todo \ {u}, at |-> u]
    BY <1>2 DEF DropUpload
  <2>2. ImagesStay BY <1>s, <2>1, Deleting DEF Quarantine
  <2>3. sweep' \in SweepType BY <1>s, <2>1 DEF SweepType
  <2>4. Cleaning' BY <2>1 DEF ImageInv, Cleaning
  <2> QED BY <1>g, <1>t, <2>1, <2>2, <2>3, <2>4, UploadsSame
<1>3. CASE AbandonUpload
  <2>1. /\ sweep.pc = "abandon" /\ Mark(sweep.at, "abandoned") /\ UNCHANGED objects
        /\ sweep' = [sweep EXCEPT !.pc = "sweeping", !.at = None]
    BY <1>3 DEF AbandonUpload
  <2>2. sweep.at \in Uploads /\ uploads[sweep.at] # None BY <2>1 DEF ImageInv, Cleaning
  <2>3. UploadsAge BY <1>t, <2>1, <2>2, Marked
  <2>4. sweep' \in SweepType /\ sweep'.pc = "sweeping" /\ sweep'.todo = sweep.todo
        /\ sweep.todo \subseteq Uploads
    BY <1>s, <2>1 DEF SweepType
  <2>5. Cleaning' BY <2>3, <2>4 DEF ImageInv, Cleaning, UploadsAge
  <2> QED BY <1>g, <1>s, <2>1, <2>3, <2>4, <2>5 DEF ImagesStay
<1>4. CASE EndSweep
  <2>1. sweep' = [sweep EXCEPT !.pc = "swept"] /\ UNCHANGED <<uploads, objects>>
    BY <1>4 DEF EndSweep
  <2>2. sweep' \in SweepType /\ sweep'.pc = "swept" /\ sweep'.todo = sweep.todo
    BY <1>s, <2>1 DEF SweepType
  <2>3. Cleaning' BY <2>1, <2>2 DEF ImageInv, Cleaning
  <2> QED BY <1>g, <1>s, <1>t, <2>1, <2>2, <2>3, UploadsSame DEF ImagesStay
<1> QED BY <1>1, <1>2, <1>3, <1>4 DEF cleanup

(* The API dies.                                                              *)
LEMMA DeathKeeps ==
  ASSUME ImageInv, HandlersDie, UNCHANGED sweep
  PROVE  ImageInv'
<1>t. AvatarTypeOK BY DEF ImageInv
<1>1. /\ job' = [h \in Handlers |-> NoJob] /\ UNCHANGED <<avatar, uploads, objects>>
      /\ torn' = torn \cup
          ({job[h].old : h \in {x \in Handlers : At(x, "commit")}} \ (objects \cup {None}))
  BY DEF HandlersDie
<1>2. UploadsAge BY <1>t, <1>1, UploadsSame
<1>3. \A h \in Handlers : job'[h] = NoJob BY <1>1
<1>4. torn' \subseteq Keys
  <2>1. \A h \in Handlers : job[h].old \in Keys \cup {None} BY <1>t DEF AvatarTypeOK
  <2> QED BY <1>t, <1>1, <2>1 DEF AvatarTypeOK
<1>5. AvatarTypeOK'
  <2>1. NoJob \in JobType BY DEF NoJob, JobType, JobPcs
  <2> QED BY <1>t, <1>1, <1>4, <2>1 DEF AvatarTypeOK, JobType, JobPcs
<1>6. \A k : Used(k)' => Used(k) BY <1>1, <1>3 DEF Used, NoJob
<1>7. Fresh' BY <1>2, <1>6 DEF ImageInv, Fresh, UploadsAge
<1>8. \A h \in Handlers : Working(h)' BY <1>3 DEF Working, NoJob
<1>9. ASSUME NEW r \in Rows, avatar[r] # None PROVE Shown(r)'
  <2>1. PICK k : k = avatar[r] OBVIOUS
  <2>2. Names(k, r) /\ Present(k) BY <1>9, <2>1 DEF ImageInv, Shown
  <2>3. Names(k, r)' BY <1>2, <2>2, UploadsLast
  <2>4. k \in objects \/ k \in torn' BY <1>1, <1>9, <2>1, <2>2 DEF Present, Replacing
  <2> QED BY <1>1, <2>1, <2>3, <2>4 DEF Shown, Present
<1>10. \A r \in Rows : Shown(r)' BY <1>1, <1>9 DEF Shown
<1> QED BY <1>2, <1>5, <1>7, <1>8, <1>10, SweepTyped DEF ImageInv

LEMMA NextImages ==
  ASSUME Life, ImageInv, [Next]_allVars
  PROVE  ImageInv'
<1>0. CASE UNCHANGED <<avatarVars, handler>> BY <1>0, SameImages DEF avatarVars
<1>1. ASSUME NEW h \in Handlers, Serving(h) PROVE ImageInv'
  <2>1. CASE HandlerStep(h) /\ UNCHANGED avatarVars
    <3>1. ASSUME NEW g \in Handlers, job[g].pc # "idle" PROVE handler'[g] = handler[g]
      <4>1. Going(g, "avatar") BY <3>1, Uploading
      <4> QED BY <2>1, <4>1, OtherRequests
    <3> QED BY <2>1, <3>1, SameImages DEF avatarVars
  <2>2. CASE AvatarStep(h)
    <3>1. ASSUME NEW u \in Uploads, init(h, u) \/ owned(h, u) PROVE ImageInv'
      BY <2>2, <3>1, InitUploadKeeps, OwnedKeeps DEF AvatarStep
    <3>2. CASE upload(h) BY <2>2, <3>2, UploadKeeps DEF AvatarStep
    <3>3. CASE finalize(h)
      BY <2>2, <3>3, FinalizeKeeps, ReadKeeps, DeleteKeeps, CommitAvatarKeeps
         DEF AvatarStep, finalize
    <3> QED BY <2>2, <3>1, <3>2, <3>3 DEF AvatarStep
  <2> QED BY <1>1, <2>1, <2>2 DEF Serving
<1>2. ASSUME NEW p, Interval(p) \/ PassStep(p) PROVE ImageInv'
  <2>1. CASE Starting(p) BY <1>0, <2>1 DEF Starting, StartPass
  <2>2. CASE (Abort(p) /\ Left) \/ Maintaining(p)
    BY <2>2, SameImages DEF Abort, Maintaining, Maintain, Left
  <2>3. CASE Sweeping(p) BY <2>3, CleanupKeeps DEF Sweeping
  <2>4. ASSUME NEW r \in Rows, Anonymizing(p, r) PROVE ImageInv'
    <3>1. /\ avatar' = [avatar EXCEPT ![r] = None]
          /\ UNCHANGED <<uploads, objects, job, sweep, torn, handler>>
      BY <2>4 DEF Anonymizing, anonymize
    <3>2. AvatarTypeOK BY DEF ImageInv
    <3>3. /\ avatar' \in [Rows -> Keys \cup {None}]
          /\ \A q \in Rows : avatar'[q] \in {avatar[q], None}
      BY <3>1, <3>2 DEF AvatarTypeOK
    <3>4. UploadsAge /\ ImagesStay
      BY <3>1, <3>2, UploadsSame DEF AvatarTypeOK, ImagesStay
    <3> QED BY <3>1, <3>3, <3>4, SweepTyped, ImagesKeep
  <2>5. CASE PrivacyStep(p) /\ UNCHANGED avatarVars
    <3>1. UNCHANGED handler
      BY <2>5 DEF PrivacyStep, StartExport, DropArchive, StoreArchive, FinishExport,
                  SelectDeletions, SelectExpired, CompleteExport, EndPass
    <3> QED BY <1>0, <2>5, <3>1
  <2> QED BY <1>2, <2>1, <2>2, <2>3, <2>4, <2>5 DEF Interval, PassStep
<1>3. CASE Time
  <2>1. ASSUME NEW u \in Uploads, UploadExpires(u), UNCHANGED <<handler, job, sweep>>
        PROVE  ImageInv'
    BY <2>1, ExpiresKeep
  <2> QED BY <1>0, <1>3, <2>1 DEF Time, WindowCloses, ExportAges
<1>4. CASE Dying BY <1>4, SameImages, DeathKeeps DEF Dying, Crash, Left
<1>5. CASE UNCHANGED allVars BY <1>0, <1>5 DEF allVars, vars
<1> QED BY <1>1, <1>2, <1>3, <1>4, <1>5 DEF Next

LEMMA InitImages == Init => ImageInv
<1> SUFFICES ASSUME Init PROVE ImageInv OBVIOUS
<1>1. /\ avatar = [r \in Rows |-> None] /\ uploads = [u \in Uploads |-> None]
      /\ objects = {} /\ torn = {} /\ job = [h \in Handlers |-> NoJob] /\ sweep = NoSweep
  BY DEF Init, AvatarInit
<1>2. AvatarTypeOK
  <2>1. NoJob \in JobType BY DEF NoJob, JobType, JobPcs
  <2>2. job \in [Handlers -> JobType] BY <1>1, <2>1
  <2> QED BY <1>1, <2>2 DEF AvatarTypeOK, JobType, JobPcs, NoSweep
<1>3. \A h \in Handlers : job[h] = NoJob BY <1>1
<1>4. \A k : ~Used(k) BY <1>1, <1>3 DEF Used, NoJob
<1>5. Fresh BY <1>4 DEF Fresh
<1>6. Cleaning BY <1>1 DEF Cleaning, NoSweep
<1>7. \A h \in Handlers : Working(h) BY <1>3 DEF Working, NoJob
<1>8. \A r \in Rows : Shown(r) BY <1>1 DEF Shown
<1> QED BY <1>2, <1>5, <1>6, <1>7, <1>8 DEF ImageInv

(* An upload belongs to one account and is made into at most one image by     *)
(* each request; that image is stored before any profile names it and nobody  *)
(* has it to delete before the profile does (finalize, cleanup).              *)
THEOREM ImagesHold == Spec => []ImageInv
<1>1. Life /\ ImageInv /\ [Next]_allVars => ImageInv' BY NextImages
<1> QED BY <1>1, InitImages, LifeHolds, PTL DEF Spec

----------------------------------------------------------------------------
(* What a deletion leaves of an avatar.                                       *)
Standing(r) == deletion[r].state \in {"none", "canceled"} \/ deletion[r].open
Lasts(r) == r \in stale \/ Standing(r)
Admitted(h) == Going(h, "avatar") => Lasts(handler[h].row)
Remains(r) ==
  avatar[r] # None =>
    Exists(r) /\ (r \in stale \/ deletion[r].open \/ deletion[r].state # "completed")
EraseInv == (\A h \in Handlers : Admitted(h)) /\ (\A r \in Rows : Remains(r))

(* No step unmakes a row or forgets a lost update.                            *)
LEMMA NextGrows ==
  ASSUME Life, [Next]_allVars
  PROVE  Grows
<1>0. CASE Quiet BY <1>0, QuietKeeps
<1>w. ASSUME NEW r \in Rows, Writes(r) PROVE Grows BY <1>w, WritesKeep
<1>1. ASSUME NEW h \in Handlers, Serving(h) PROVE Grows
  <2>1. ASSUME NEW r \in Rows, NEW v \in BOOLEAN, Register(h, r, v) PROVE Grows
    BY <1>w, <2>1, RegisterKeeps
  <2>2. ASSUME NEW r \in Rows, r = handler[h].row,
               \/ Verify(h) \/ CommitStep(h) \/ RequestDeletion(h) \/ CancelCommit(h)
               \/ \E step \in Steps : OnboardingStep(h, step)
        PROVE  Grows
    BY <1>w, <2>2, VerifyKeeps, CommitKeeps, RequestKeeps, CancelKeeps, StepKeeps
  <2>3. CASE \/ Verify(h) \/ CommitStep(h) \/ RequestDeletion(h) \/ CancelCommit(h)
             \/ \E step \in Steps : OnboardingStep(h, step)
    <3>1. handler[h].pc # "idle"
      BY <2>3 DEF Verify, CommitStep, RequestDeletion, CancelCommit, OnboardingStep, Going
    <3>2. PICK r \in Rows : r = handler[h].row BY <3>1, OwnRow
    <3> QED BY <2>2, <2>3, <3>2
  <2>4. CASE \/ CancelCheck(h) \/ ExportCheck(h)
             \/ \E e \in Exports : ExportInsert(h, e)
             \/ \E r \in Rows, v \in BOOLEAN : \E op \in workload.ops : Authenticate(h, r, op, v)
    BY <1>0, <2>4 DEF CancelCheck, ExportCheck, ExportInsert, Authenticate, Quiet, history
  <2>5. CASE AvatarStep(h) BY <1>0, <2>5 DEF AvatarStep, ofAccounts, Quiet
  <2> QED BY <1>1, <2>1, <2>3, <2>4, <2>5 DEF Serving, HandlerStep
<1>2. ASSUME NEW p \in workload.passes, Interval(p) \/ PassStep(p) PROVE Grows
  <2>1. ASSUME NEW r \in Rows, Anonymizing(p, r) PROVE Grows
    <3>1. p \in Passes BY WorkloadsAssumption DEF Life, Typed
    <3> QED BY <1>w, <2>1, <3>1, AnonymizeKeeps DEF Anonymizing
  <2>2. CASE Starting(p) \/ Abort(p) \/ Maintaining(p) \/ Sweeping(p) \/ PrivacyStep(p)
    BY <1>0, <2>2 DEF Starting, StartPass, Abort, Maintaining, Maintain, Sweeping, ofAccounts,
       PrivacyStep, StartExport, DropArchive, StoreArchive, FinishExport,
       SelectDeletions, SelectExpired, CompleteExport, EndPass, Quiet, history
  <2> QED BY <1>2, <2>1, <2>2 DEF Interval, PassStep
<1>3. CASE Time
  <2>1. ASSUME NEW r \in Rows, WindowCloses(r) PROVE Grows BY <1>w, <2>1, WindowKeeps
  <2> QED BY <1>0, <1>3, <2>1 DEF Time, ExportAges, ofAccounts, Quiet, history
<1>4. CASE Dying BY <1>0, <1>4 DEF Dying, Crash, ofAccounts, Quiet, history
<1>5. CASE UNCHANGED allVars BY <1>0, <1>5 DEF allVars, vars, Quiet, history
<1> QED BY <1>1, <1>2, <1>3, <1>4, <1>5 DEF Next

(* A step that ends no deletion and closes no window.                         *)
LEMMA EraseStays ==
  ASSUME Life, Grows, EraseInv,
         \A r \in Rows : deletion'[r] = deletion[r] \/ Standing(r)',
         \A r \in Rows : \/ avatar'[r] \in {avatar[r], None}
                         \/ \E h \in Handlers : Going(h, "avatar") /\ handler[h].row = r,
         \A h \in Handlers : Going(h, "avatar")' =>
            \/ handler'[h] = handler[h]
            \/ \E r \in Rows : r = handler'[h].row /\ Lasts(r)'
  PROVE  EraseInv'
<1>1. \A r \in Rows : Lasts(r) => Lasts(r)' BY DEF Lasts, Grows, Standing
<1>2. ASSUME NEW h \in Handlers, Going(h, "avatar")' PROVE Admitted(h)'
  <2>1. CASE handler'[h] = handler[h]
    <3>1. Going(h, "avatar") BY <1>2, <2>1 DEF Going
    <3>2. PICK r \in Rows : r = handler[h].row BY <3>1, OwnRow DEF Going
    <3>3. Lasts(r) BY <3>1, <3>2 DEF EraseInv, Admitted
    <3>4. Lasts(r)' BY <1>1, <3>3
    <3> QED BY <2>1, <3>2, <3>4 DEF Admitted, Lasts, Standing
  <2>2. CASE handler'[h] # handler[h]
    <3>1. PICK r \in Rows : r = handler'[h].row /\ Lasts(r)' BY <1>2, <2>2
    <3> QED BY <3>1 DEF Admitted, Lasts, Standing
  <2> QED BY <2>1, <2>2
<1>3. ASSUME NEW r \in Rows, avatar'[r] # None PROVE Remains(r)'
  <2>1. CASE avatar'[r] = avatar[r]
    <3>1. Exists(r) /\ (r \in stale \/ deletion[r].open \/ deletion[r].state # "completed")
      BY <1>3, <2>1 DEF EraseInv, Remains
    <3>2. Exists(r)' /\ (r \in stale => r \in stale') BY <3>1 DEF Grows
    <3> QED BY <3>1, <3>2 DEF Remains, Standing
  <2>2. CASE \E h \in Handlers : Going(h, "avatar") /\ handler[h].row = r
    <3>1. PICK h \in Handlers : Going(h, "avatar") /\ handler[h].row = r BY <2>2
    <3>2. Exists(r) /\ Lasts(r) BY <3>1, OwnRow DEF EraseInv, Admitted, Going
    <3>3. Exists(r)' /\ Lasts(r)' BY <1>1, <3>2 DEF Grows
    <3> QED BY <3>3 DEF Remains, Lasts, Standing
  <2> QED BY <1>3, <2>1, <2>2
<1>4. \A h \in Handlers : Admitted(h)' BY <1>2 DEF Admitted
<1>5. \A r \in Rows : Remains(r)' BY <1>3 DEF Remains
<1> QED BY <1>4, <1>5 DEF EraseInv

(* Whom a request about an avatar is served: nobody whose account is deleted  *)
(* or to be deleted.                                                          *)
LEMMA ServedLasts ==
  ASSUME Life, Life', NEW h \in Handlers, HandlerStep(h), Going(h, "avatar")'
  PROVE  \/ handler'[h] = handler[h]
         \/ \E r \in Rows : r = handler'[h].row /\ Lasts(r)'
<1>t. handler \in [Handlers -> HandlerType] BY DEF Life, Typed
<1>s. ASSUME NEW op, NEW r \in Rows, NEW s, NEW v, Serve(h, op, r, s, v),
             account'[r] # None, account'[r].state = s
      PROVE  \E q \in Rows : q = handler'[h].row /\ Lasts(q)'
  <2>1. /\ handler'[h] = [pc |-> "go", op |-> op, row |-> r, seen |-> s]
        /\ Allowed(op, s, v, account[r].steps)
    <3>1. CASE ~Allowed(op, s, v, account[r].steps)
      <4>1. handler'[h] = Idle BY <1>s, <1>t, <3>1 DEF Serve
      <4> QED BY <4>1 DEF Going, Idle
    <3> QED BY <1>s, <1>t, <3>1 DEF Serve
  <2>2. op = "avatar" /\ handler'[h].row = r BY <2>1 DEF Going
  <2>3. s \notin {"deletion_pending", "deleted"} BY <2>1, <2>2 DEF Allowed
  <2>4. RowAgrees(r)' /\ deletion'[r] \in DeletionRequest BY DEF Life, Typed
  <2>5. r \in stale' \/ deletion'[r].state \in {"none", "canceled"}
    BY <1>s, <2>3, <2>4 DEF RowAgrees, Exists, DeletionRequest
  <2> QED BY <2>2, <2>5 DEF Lasts, Standing
<1>d. Done(h) => ~Going(h, "avatar")' BY <1>t DEF Done, Going, Idle
<1>1. CASE \E r \in Rows, v \in BOOLEAN : Register(h, r, v) BY <1>1 DEF Register
<1>2. ASSUME NEW r \in Rows, NEW v \in BOOLEAN, NEW op \in workload.ops,
             Authenticate(h, r, op, v)
      PROVE  \E q \in Rows : q = handler'[h].row /\ Lasts(q)'
  <2>1. UNCHANGED account /\ Exists(r) BY <1>2 DEF Authenticate, Live
  <2>2. CASE Serve(h, op, r, account[r].state, account[r].verified)
    BY <1>s, <2>1, <2>2 DEF Exists
  <2>3. CASE handler' = [handler EXCEPT ![h] =
              [pc |-> "verify", op |-> op, row |-> r, seen |-> account[r].state]]
    <3>1. handler'[h].pc = "verify" BY <1>t, <2>3
    <3> QED BY <3>1 DEF Going
  <2> QED BY <1>2, <2>2, <2>3 DEF Authenticate
<1>3. CASE Verify(h)
  <2>1. handler[h].pc = "verify" BY <1>3 DEF Verify
  <2>2. PICK r \in Rows : r = handler[h].row /\ Exists(r) BY <2>1, OwnRow
  <2>3. PICK s : s = Verified(handler[h].seen) OBVIOUS
  <2>4. /\ account' = [account EXCEPT ![r].state = s, ![r].verified = TRUE]
        /\ Serve(h, handler[h].op, r, s, TRUE)
    BY <1>3, <2>2, <2>3 DEF Verify
  <2>5. account \in [Rows -> {None} \cup Account] /\ account[r] \in Account
    BY <2>2, Goods DEF Life, Typed
  <2>6. account'[r].state = s BY <2>4, <2>5 DEF Account
  <2>7. account'[r] # None BY <1>3, <2>2, VerifyKeeps DEF Writes, Exists
  <2> QED BY <1>s, <2>4, <2>6, <2>7
<1>4. CASE \/ CommitStep(h) \/ RequestDeletion(h) \/ CancelCommit(h)
           \/ \E e \in Exports : ExportInsert(h, e)
  BY <1>d, <1>4 DEF CommitStep, RequestDeletion, CancelCommit, ExportInsert
<1>5. ASSUME NEW step \in Steps, OnboardingStep(h, step) PROVE FALSE
  <2>1. CASE step = "birth_date" BY <1>d, <1>5, <2>1 DEF OnboardingStep
  <2>2. CASE step # "birth_date"
    <3>1. PICK pc \in {"activate", "store"} : handler' = [handler EXCEPT ![h].pc = pc]
      BY <1>5, <2>2 DEF OnboardingStep
    <3>2. handler[h] \in HandlerType BY <1>t
    <3>3. handler'[h].pc = pc BY <1>t, <3>1, <3>2 DEF HandlerType
    <3> QED BY <3>3 DEF Going
  <2> QED BY <2>1, <2>2
<1>6. CASE CancelCheck(h) \/ ExportCheck(h)
  <2>1. CASE Done(h) BY <1>d, <2>1
  <2>2. CASE ~Done(h)
    <3>1. handler[h] \in HandlerType BY <1>t
    <3>2. handler'[h].pc \in {"cancel", "export"}
      BY <1>t, <1>6, <2>2, <3>1 DEF CancelCheck, ExportCheck, HandlerType
    <3> QED BY <3>2 DEF Going
  <2> QED BY <2>1, <2>2
<1> QED BY <1>1, <1>2, <1>3, <1>4, <1>5, <1>6 DEF HandlerStep

LEMMA ServingErases ==
  ASSUME Life, Life', Grows, ImageInv, EraseInv, NEW h \in Handlers, Serving(h)
  PROVE  EraseInv'
<1>t. /\ handler \in [Handlers -> HandlerType]
      /\ deletion \in [Rows -> DeletionRequest]
  BY DEF Life, Typed
<1>1. CASE HandlerStep(h) /\ UNCHANGED avatarVars
  <2>1. \A g \in Handlers : Going(g, "avatar")' =>
            \/ handler'[g] = handler[g]
            \/ \E r \in Rows : r = handler'[g].row /\ Lasts(r)'
    BY <1>1, OtherRequests, ServedLasts
  <2>2. ASSUME NEW q \in Rows PROVE deletion'[q] = deletion[q] \/ Standing(q)'
    <3>1. CASE UNCHANGED deletion BY <3>1
    <3>2. CASE RequestDeletion(h)
      <4>1. \/ UNCHANGED deletion
            \/ deletion' = [deletion EXCEPT ![handler[h].row] =
                              [state |-> "pending", open |-> TRUE]]
        BY <3>2 DEF RequestDeletion
      <4> QED BY <1>t, <4>1 DEF Standing
    <3>3. CASE CancelCommit(h)
      <4>1. deletion' = [deletion EXCEPT ![handler[h].row].state = "canceled"]
        BY <3>3 DEF CancelCommit
      <4>2. deletion[q] \in DeletionRequest BY <1>t
      <4> QED BY <1>t, <4>1, <4>2 DEF Standing, DeletionRequest
    <3>4. UNCHANGED deletion \/ RequestDeletion(h) \/ CancelCommit(h)
      BY <1>1 DEF HandlerStep, Register, Authenticate, Verify, OnboardingStep, CommitStep,
                  CancelCheck, ExportCheck, ExportInsert
    <3> QED BY <3>1, <3>2, <3>3, <3>4
  <2>3. \A r \in Rows : avatar'[r] = avatar[r] BY <1>1 DEF avatarVars
  <2> QED BY <2>1, <2>2, <2>3, EraseStays
<1>2. CASE AvatarStep(h)
  <2>1. UNCHANGED deletion BY <1>2 DEF AvatarStep, ofAccounts
  <2>2. UNCHANGED handler \/ Done(h)
    <3>1. CASE finalize(h)
      BY <3>1 DEF finalize, Processing, Process, PutProcessed, ReadOld, UpdateProfile,
         DeleteOld, Commit, CleanQuarantine, Sign, Fail, DropQuarantine, Answer, To_
    <3>2. CASE ~finalize(h) BY <1>2, <3>2 DEF AvatarStep, init, owned, upload, Answer
    <3> QED BY <3>1, <3>2
  <2>3. \A g \in Handlers : Going(g, "avatar")' => handler'[g] = handler[g]
    BY <1>t, <2>2 DEF Done, Going, Idle
  <2>4. \A r \in Rows : \/ avatar'[r] \in {avatar[r], None}
                        \/ Going(h, "avatar") /\ handler[h].row = r
    <3>1. CASE Commit(h)
      <4>1. Going(h, "avatar") BY <3>1, Uploading DEF Commit, At
      <4>2. avatar \in [Rows -> Keys \cup {None}] BY DEF ImageInv, AvatarTypeOK
      <4>3. \/ UNCHANGED avatar
            \/ avatar' = [avatar EXCEPT ![handler[h].row] = Processed(h)]
        BY <3>1 DEF Commit
      <4> QED BY <4>1, <4>2, <4>3
    <3>2. CASE ~Commit(h)
      <4>1. UNCHANGED avatar
        BY <1>2, <3>2 DEF AvatarStep, init, owned, upload, finalize, Processing, Process,
           PutProcessed, ReadOld, UpdateProfile, DeleteOld, CleanQuarantine, Sign, Fail,
           DropQuarantine
      <4> QED BY <4>1
    <3> QED BY <3>1, <3>2
  <2> QED BY <2>1, <2>3, <2>4, EraseStays
<1> QED BY <1>1, <1>2 DEF Serving

(* A deletion is carried out: the profile names nothing any more, and if it   *)
(* had not been asked for and cancelled again, its window had closed.         *)
LEMMA AnonymizeErases ==
  ASSUME Life, Grows, EraseInv, NEW p, NEW r \in Rows, Anonymizing(p, r), AvatarTypeOK
  PROVE  EraseInv'
<1>1. /\ avatar' = [avatar EXCEPT ![r] = None] /\ UNCHANGED handler
      /\ deletion' = [deletion EXCEPT ![r].state = "completed"]
      /\ deletion[r].state = "pending" \/ r \in stale'
  BY DEF Anonymizing, anonymize
<1>2. deletion \in [Rows -> DeletionRequest] /\ deletion[r] \in DeletionRequest
  BY DEF Life, Typed
<1>3. avatar \in [Rows -> Keys \cup {None}] BY DEF AvatarTypeOK
<1>4. /\ avatar'[r] = None /\ \A q \in Rows \ {r} : avatar'[q] = avatar[q]
      /\ deletion'[r].open = deletion[r].open
      /\ \A q \in Rows \ {r} : deletion'[q] = deletion[q]
  BY <1>1, <1>2, <1>3 DEF DeletionRequest
<1>5. stale \subseteq stale' /\ \A q \in Rows : Exists(q) => Exists(q)' BY DEF Grows
<1>6. \A q \in Rows : Remains(q)' BY <1>4, <1>5 DEF EraseInv, Remains
<1>7. ASSUME NEW h \in Handlers, Going(h, "avatar") PROVE Lasts(handler[h].row)'
  <2>1. PICK q \in Rows : q = handler[h].row BY <1>7, OwnRow DEF Going
  <2>2. Lasts(q) BY <1>7, <2>1 DEF EraseInv, Admitted
  <2>3. CASE q = r BY <1>1, <1>4, <1>5, <2>1, <2>2, <2>3 DEF Lasts, Standing
  <2>4. CASE q # r BY <1>1, <1>4, <1>5, <2>1, <2>2, <2>4 DEF Lasts, Standing
  <2> QED BY <2>3, <2>4
<1>8. \A h \in Handlers : Admitted(h)' BY <1>1, <1>7 DEF Admitted, Going
<1> QED BY <1>6, <1>8 DEF EraseInv

LEMMA WindowErases ==
  ASSUME Life, EraseInv, NEW r \in Rows, WindowCloses(r), UNCHANGED avatarVars,
         \A h \in Handlers : ~Going(h, "avatar")
  PROVE  EraseInv'
<1>1. /\ deletion[r].state = "pending" /\ deletion' = [deletion EXCEPT ![r].open = FALSE]
      /\ UNCHANGED <<handler, account, stale, avatar>>
  BY DEF WindowCloses, Cancellable, history, avatarVars
<1>2. deletion \in [Rows -> DeletionRequest] /\ deletion[r] \in DeletionRequest
  BY DEF Life, Typed
<1>3. deletion'[r].state = "pending" /\ \A q \in Rows \ {r} : deletion'[q] = deletion[q]
  BY <1>1, <1>2 DEF DeletionRequest
<1>4. \A q \in Rows : Remains(q)' BY <1>1, <1>3 DEF EraseInv, Remains, Exists
<1>5. \A h \in Handlers : Admitted(h)' BY <1>1 DEF Admitted, Going
<1> QED BY <1>4, <1>5 DEF EraseInv

LEMMA NextErases ==
  ASSUME Life, Life', ImageInv, EraseInv, [Next]_allVars
  PROVE  EraseInv'
<1>g. Grows BY NextGrows
<1>0. ASSUME UNCHANGED <<deletion, avatar>>,
             \A h \in Handlers : handler'[h] = handler[h] \/ handler'[h] = Idle
      PROVE  EraseInv'
  <2>1. \A h \in Handlers : Going(h, "avatar")' => handler'[h] = handler[h]
    BY <1>0 DEF Going, Idle
  <2> QED BY <1>g, <1>0, <2>1, EraseStays
<1>1. ASSUME NEW h \in Handlers, Serving(h) PROVE EraseInv'
  BY <1>g, <1>1, ServingErases
<1>2. ASSUME NEW p, Interval(p) \/ PassStep(p) PROVE EraseInv'
  <2>1. ASSUME NEW r \in Rows, Anonymizing(p, r) PROVE EraseInv'
    BY <1>g, <2>1, AnonymizeErases DEF ImageInv
  <2>2. CASE \/ Starting(p) \/ (Abort(p) /\ Left) \/ Maintaining(p) \/ Sweeping(p)
             \/ PrivacyStep(p) /\ UNCHANGED avatarVars
    BY <1>0, <2>2 DEF Starting, StartPass, Abort, Maintaining, Maintain, Sweeping, ofAccounts,
       Left, PrivacyStep, StartExport, DropArchive, StoreArchive, FinishExport,
       SelectDeletions, SelectExpired, CompleteExport, EndPass, avatarVars
  <2> QED BY <1>2, <2>1, <2>2 DEF Interval, PassStep
<1>3. CASE Time
  <2>1. ASSUME NEW r \in Rows, WindowCloses(r), UNCHANGED avatarVars,
               \A h \in Handlers : ~Going(h, "avatar")
        PROVE  EraseInv'
    BY <2>1, WindowErases
  <2>2. CASE (\E e \in Exports : ExportAges(e)) /\ UNCHANGED avatarVars
    BY <1>0, <2>2 DEF ExportAges, avatarVars
  <2>3. ASSUME NEW u \in Uploads, UploadExpires(u), UNCHANGED <<ofAccounts, handler>>
        PROVE  EraseInv'
    BY <1>0, <2>3 DEF UploadExpires, ofAccounts
  <2> QED BY <1>3, <2>1, <2>2, <2>3 DEF Time
<1>4. CASE Dying
  <2>1. CASE Crash /\ Left BY <1>0, <2>1 DEF Crash, Left
  <2>2. CASE HandlersDie /\ UNCHANGED ofAccounts
    <3>1. \A h \in Handlers : handler'[h] = Idle BY <2>2 DEF HandlersDie
    <3> QED BY <1>0, <2>2, <3>1 DEF HandlersDie, ofAccounts
  <2> QED BY <1>4, <2>1, <2>2 DEF Dying
<1>5. CASE UNCHANGED allVars BY <1>0, <1>5 DEF allVars, vars, avatarVars
<1> QED BY <1>1, <1>2, <1>3, <1>4, <1>5 DEF Next

LEMMA InitErases == Init => EraseInv
BY DEF Init, AccountInit, AvatarInit, EraseInv, Admitted, Remains, Going, Idle

(* A request about an avatar was let in while no deletion was pending, and    *)
(* none is carried out under it but one that was asked for meanwhile; so an   *)
(* anonymized profile names no image (guard, anonymize).                      *)
THEOREM ErasuresHold == Spec => []EraseInv
<1>1. Life /\ Life' /\ ImageInv /\ EraseInv /\ [Next]_allVars => EraseInv'
  BY NextErases
<1> QED BY <1>1, InitErases, LifeHolds, ImagesHold, PTL DEF Spec

(* The profile names an object that is there, unless the transaction that     *)
(* replaces it has deleted it, and none once the account is anonymized, but   *)
(* for lost updates (finalize, cleanup, anonymize).                           *)
THEOREM AvatarsShown == Spec => []AvatarShown
<1>1. ASSUME Life, ImageInv, EraseInv PROVE AvatarShown
  <2>1. ASSUME NEW r \in Rows, avatar[r] # None
        PROVE  /\ avatar[r] \in objects \cup torn \/ Replacing(avatar[r])
               /\ r \in stale \/ deletion[r].open \/ account[r].state # "deleted"
    <3>1. Shown(r) /\ Remains(r) /\ RowAgrees(r) BY <1>1 DEF ImageInv, EraseInv, Life
    <3> QED BY <2>1, <3>1 DEF Shown, Present, Remains, RowAgrees
  <2> QED BY <2>1 DEF AvatarShown, signedAvatar
<1> QED BY <1>1, LifeHolds, ImagesHold, ErasuresHold, PTL

(* Type correctness of accounts, exports, passes and avatars together.        *)
THEOREM TypeCorrect == Spec => []TypeOK
<1>1. Life /\ ExportInv /\ ImageInv => TypeOK
  BY DEF Life, Typed, HandlerType, ExportInv, ExportTypes, PassType, ImageInv, TypeOK,
         AccountTypeOK
<1> QED BY <1>1, LifeHolds, ExportsHold, ImagesHold, PTL
=============================================================================
