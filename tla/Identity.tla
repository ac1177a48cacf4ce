------------------------------ MODULE Identity ------------------------------
(* The accounts of one identity together with their avatars: the requests the *)
(* API serves, the passing of time, the worker's passes, the death of either  *)
(* process.  A behaviour keeps to one of the Workloads.                       *)
EXTENDS Avatars

allVars == <<vars, avatarVars>>

TypeOK == AccountTypeOK /\ AvatarTypeOK
Init == workload \in Workloads /\ AccountInit /\ AvatarInit

ofAccounts == <<account, deletion, exports, archives, pass, workload, history>>

AvatarStep(h) ==
  /\ (\E u \in Uploads : init(h, u) \/ owned(h, u))
     \/ upload(h) \/ finalize(h)
  /\ UNCHANGED <<ofAccounts, crashes, sweep>>

Serving(h) ==
  \/ HandlerStep(h) /\ UNCHANGED avatarVars
  \/ AvatarStep(h)

(* Seven days are longer than any request about an avatar.                    *)
Time ==
  \/ /\ \E r \in Rows : WindowCloses(r)
     /\ \A h \in Handlers : ~Going(h, "avatar")
     /\ UNCHANGED avatarVars
  \/ (\E e \in Exports : ExportAges(e)) /\ UNCHANGED avatarVars
  \/ /\ workload.passes # {} /\ \E u \in Uploads : UploadExpires(u)
     /\ UNCHANGED <<ofAccounts, crashes, handler, job, sweep>>

(* The cleanup of uploads comes first in a pass.                              *)
Sweeping(p) ==
  /\ "avatar" \in workload.ops /\ pass[p].pc = "maintenance"
  /\ cleanup
  /\ UNCHANGED <<ofAccounts, crashes, handler, avatar, job, torn>>

Swept == "avatar" \in workload.ops => sweep.pc = "swept"
Left == sweep' = NoSweep /\ UNCHANGED <<avatar, uploads, objects, job, torn>>

Maintaining(p) == Maintain(p) /\ Swept /\ Left

(* anonymize() takes the key from the profile and leaves the object.          *)
Anonymizing(p, r) ==
  /\ anonymize(p, r) /\ ~ProfileLocked
  /\ avatar' = [avatar EXCEPT ![r] = None]
  /\ UNCHANGED <<uploads, objects, job, sweep, torn>>

PassStep(p) ==
  \/ Sweeping(p) \/ Maintaining(p)
  \/ \E r \in Rows : Anonymizing(p, r)
  \/ PrivacyStep(p) /\ UNCHANGED avatarVars

Starting(p) == StartPass(p) /\ UNCHANGED avatarVars

(* What comes after the uploads may throw.                                    *)
Interval(p) == Starting(p) \/ (Abort(p) /\ Swept /\ Left)

Dying ==
  \/ (Crash /\ Left)
  \/ /\ "avatar" \in workload.ops /\ crashes < MaxCrashes
     /\ crashes' = crashes + 1
     /\ HandlersDie
     /\ UNCHANGED <<ofAccounts, sweep>>

Next ==
  \/ \E h \in Handlers : Serving(h)
  \/ \E p \in workload.passes : Interval(p) \/ PassStep(p)
  \/ Time \/ Dying

Spec == Init /\ [][Next]_allVars

(* The worker's interval fires again and again, a pass goes on with what it   *)
(* awaits, and what comes before the privacy jobs does not throw for ever.    *)
Fairness ==
  \A p \in Passes : /\ WF_allVars(p \in workload.passes /\ Starting(p))
                    /\ WF_allVars(p \in workload.passes /\ PassStep(p))
                    /\ SF_allVars(p \in workload.passes /\ Maintaining(p))

FairSpec == Spec /\ Fairness
----------------------------------------------------------------------------
(* The profile names an object that is there, whatever two finalizations, a   *)
(* cleanup and failures of the storage do between them, unless a transaction  *)
(* has deleted the old object and is yet to commit, or did not; and nothing   *)
(* is named once the account is anonymized, if no update of it was lost and   *)
(* the pass did not carry out a deletion cancelled and asked for again since  *)
(* it chose it (finalize, cleanup, anonymize).                                *)
Replacing(key) == \E h \in Handlers : At(h, "commit") /\ job[h].old = key
AvatarShown ==
  \A r \in Rows : signedAvatar(r) =>
    /\ avatar[r] \in objects \cup torn \/ Replacing(avatar[r])
    /\ r \in stale \/ deletion[r].open \/ account[r].state # "deleted"
=============================================================================
