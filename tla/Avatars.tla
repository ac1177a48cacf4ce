------------------------------ MODULE Avatars ------------------------------
(* The avatar of an account (apps/api/src/avatar-service.ts): an upload is    *)
(* declared, its bytes go to a quarantine object, finalizing it makes a       *)
(* processed object the profile points to.  Objects live in a storage that no *)
(* transaction of the database covers; the API or the worker may die between  *)
(* any two calls, and a call to the storage may fail.                         *)
EXTENDS Accounts

CONSTANTS Uploads

VARIABLES avatar,    \* each row's profiles.avatarObjectKey
          uploads,   \* avatar_uploads, or None
          objects,   \* what the storage holds
          job,       \* the avatar request of each handler
          sweep,     \* the cleanup a pass begins with
          torn       \* history: objects deleted by a transaction rolled back

avatarVars == <<avatar, uploads, objects, job, sweep, torn>>

(* Object keys: the quarantine of an upload, and the processed image under a  *)
(* random key of the handler that made it.                                    *)
Quarantine(u) == <<u, None>>
Processed(h) == <<job[h].upload, h>>
Keys == Uploads \X (Handlers \cup {None})

Upload == [row : Rows,
           state : {"pending", "processing", "ready", "failed", "abandoned"},
           due : BOOLEAN]  \* expiresAt is behind

NoJob == [pc |-> "idle", upload |-> None, old |-> None]
NoSweep == [pc |-> "idle", todo |-> {}, at |-> None]

ASSUME UploadAssumption == None \notin Handlers \cup Upload \cup Keys

AvatarTypeOK ==
  /\ avatar \in [Rows -> Keys \cup {None}]
  /\ uploads \in [Uploads -> {None} \cup Upload]
  /\ objects \subseteq Keys /\ torn \subseteq Keys
  /\ job \in [Handlers ->
       [pc : {"idle", "put quarantine", "mark", "get", "put", "read old", "update",
              "delete old", "commit", "clean", "sign", "fail", "drop"},
        upload : Uploads \cup {None}, old : Keys \cup {None}]]
  /\ sweep \in [pc : {"idle", "sweeping", "abandon", "swept"},
                todo : SUBSET Uploads, at : Uploads \cup {None}]

AvatarInit ==
  /\ avatar = [r \in Rows |-> None]
  /\ uploads = [u \in Uploads |-> None]
  /\ objects = {} /\ torn = {}
  /\ job = [h \in Handlers |-> NoJob]
  /\ sweep = NoSweep

At(h, pc) == job[h].pc = pc
To_(h, pc) == job' = [job EXCEPT ![h].pc = pc] /\ UNCHANGED handler
Answer(h) == Done(h) /\ job' = [job EXCEPT ![h] = NoJob]
Mark(u, state) == uploads' = [uploads EXCEPT ![u].state = state]

(* The storage: a put may throw.  A delete ignores what the storage answers   *)
(* and throws only when there was no answer, the object gone or not.  What    *)
(* becomes of a quarantine object nobody looks at again makes no difference.  *)
put(key) == objects' = objects \cup {key}
delete(key) == objects' \in {objects \ {key}} \cup
                            (IF key[2] = None THEN {} ELSE {objects})

(* The update in finalize()'s transaction locks the profile until its end.    *)
ProfileLocked == \E h \in Handlers : job[h].pc \in {"delete old", "commit"}

init(h, u) ==
  /\ u \in workload.uploads
  /\ Going(h, "avatar") /\ At(h, "idle") /\ uploads[u] = None
  /\ uploads' = [uploads EXCEPT ![u] =
       [row |-> handler[h].row, state |-> "pending", due |-> FALSE]]
  /\ Done(h)
  /\ UNCHANGED <<avatar, objects, job, torn>>

Available(u) == uploads[u].state = "pending" /\ ~uploads[u].due

(* owned() and the check both upload() and finalize() begin with.             *)
owned(h, u) ==
  /\ Going(h, "avatar") /\ At(h, "idle")
  /\ uploads[u] # None /\ uploads[u].row = handler[h].row
  /\ IF Available(u)
     THEN /\ \E pc \in {"put quarantine", "mark"} :
               job' = [job EXCEPT ![h] = [pc |-> pc, upload |-> u, old |-> None]]
          /\ UNCHANGED handler
     ELSE Answer(h)
  /\ UNCHANGED <<avatar, uploads, objects, torn>>

upload(h) ==
  /\ At(h, "put quarantine")
  /\ put(Quarantine(job[h].upload)) \/ UNCHANGED objects
  /\ Answer(h)
  /\ UNCHANGED <<avatar, uploads, torn>>

(* finalize(): everything after the mark is in one try.                       *)
Processing(h) ==
  /\ At(h, "mark")
  /\ Mark(job[h].upload, "processing")
  /\ To_(h, "get")
  /\ UNCHANGED <<avatar, objects, torn>>

(* The bytes are there and make an image, or they do not.                     *)
Process(h) ==
  /\ At(h, "get")
  /\ \/ Quarantine(job[h].upload) \in objects /\ To_(h, "put")
     \/ To_(h, "fail")
  /\ UNCHANGED <<avatar, uploads, objects, torn>>

PutProcessed(h) ==
  /\ At(h, "put")
  /\ \/ put(Processed(h)) /\ To_(h, "read old")
     \/ UNCHANGED objects /\ To_(h, "fail")
  /\ UNCHANGED <<avatar, uploads, torn>>

ReadOld(h) ==
  /\ At(h, "read old")
  /\ job' = [job EXCEPT ![h].pc = "update", ![h].old = avatar[handler[h].row]]
  /\ UNCHANGED <<handler, avatar, uploads, objects, torn>>

UpdateProfile(h) ==
  /\ At(h, "update") /\ ~ProfileLocked
  /\ To_(h, IF job[h].old = None THEN "commit" ELSE "delete old")
  /\ UNCHANGED <<avatar, uploads, objects, torn>>

(* The old object goes before the commit: if that fails, the profile still    *)
(* names it.                                                                  *)
Rollback(h) == torn' = torn \cup ({job[h].old} \ (objects' \cup {None}))

DeleteOld(h) ==
  /\ At(h, "delete old")
  /\ delete(job[h].old)
  /\ \/ To_(h, "commit") /\ UNCHANGED torn
     \/ To_(h, "fail") /\ Rollback(h)
  /\ UNCHANGED <<avatar, uploads>>

Commit(h) ==
  /\ At(h, "commit")
  /\ \/ /\ avatar' = [avatar EXCEPT ![handler[h].row] = Processed(h)]
        /\ Mark(job[h].upload, "ready")
        /\ To_(h, "clean")
        /\ UNCHANGED <<objects, torn>>
     \/ /\ To_(h, "fail")
        /\ UNCHANGED <<avatar, uploads, objects>>
        /\ Rollback(h)

(* What follows the commit is still in the try: when it throws, the upload is *)
(* marked failed and the user told so, the avatar changed all the same.       *)
CleanQuarantine(h) ==
  /\ At(h, "clean")
  /\ delete(Quarantine(job[h].upload))
  /\ To_(h, "sign") \/ To_(h, "fail")
  /\ UNCHANGED <<avatar, uploads, torn>>

Sign(h) ==
  /\ At(h, "sign")
  /\ Answer(h) \/ To_(h, "fail")
  /\ UNCHANGED <<avatar, uploads, objects, torn>>

Fail(h) ==
  /\ At(h, "fail")
  /\ Mark(job[h].upload, "failed")
  /\ To_(h, "drop")
  /\ UNCHANGED <<avatar, objects, torn>>

\* Mutant: the processed object is cleaned up as well.
DropBoth(h) ==
  /\ At(h, "drop")
  /\ objects' = objects \ {Quarantine(job[h].upload), Processed(h)}
  /\ Answer(h)
  /\ UNCHANGED <<avatar, uploads, torn>>

DropQuarantine(h) ==
  /\ At(h, "drop")
  /\ delete(Quarantine(job[h].upload))
  /\ Answer(h)
  /\ UNCHANGED <<avatar, uploads, torn>>

finalize(h) ==
  \/ Processing(h) \/ Process(h) \/ PutProcessed(h) \/ ReadOld(h)
  \/ UpdateProfile(h) \/ DeleteOld(h) \/ Commit(h) \/ CleanQuarantine(h)
  \/ Sign(h) \/ Fail(h) \/ DropQuarantine(h)

(* The API dies: what its handlers held in a transaction is rolled back.      *)
HandlersDie ==
  /\ handler' = [h \in Handlers |-> Idle]
  /\ job' = [h \in Handlers |-> NoJob]
  /\ torn' = torn \cup
       ({job[h].old : h \in {x \in Handlers : At(x, "commit")}} \ (objects \cup {None}))
  /\ UNCHANGED <<avatar, uploads, objects>>

(* Whether the profile has an avatar to sign a link for.                      *)
signedAvatar(r) == avatar[r] # None

UploadExpires(u) ==
  /\ uploads[u] # None /\ Available(u)
  /\ uploads' = [uploads EXCEPT ![u].due = TRUE]
  /\ UNCHANGED <<avatar, objects, torn>>

(* cleanup(): the first duty of a pass.  What it chose as pending it marks    *)
(* abandoned, whatever became of it since.                                    *)
ChooseUploads ==
  /\ sweep.pc = "idle"
  /\ sweep' = [sweep EXCEPT !.pc = "sweeping", !.todo =
       {u \in Uploads : uploads[u] # None /\ uploads[u].state = "pending"
                                          /\ uploads[u].due}]
  /\ UNCHANGED <<uploads, objects>>

DropUpload(u) ==
  /\ sweep.pc = "sweeping" /\ u \in sweep.todo
  /\ delete(Quarantine(u))
  /\ sweep' = [pc |-> "abandon", todo |-> sweep.todo \ {u}, at |-> u]
  /\ UNCHANGED uploads

AbandonUpload ==
  /\ sweep.pc = "abandon"
  /\ Mark(sweep.at, "abandoned")
  /\ sweep' = [sweep EXCEPT !.pc = "sweeping", !.at = None]
  /\ UNCHANGED objects

EndSweep ==
  /\ sweep.pc = "sweeping" /\ sweep.todo = {}
  /\ sweep' = [sweep EXCEPT !.pc = "swept"]
  /\ UNCHANGED <<uploads, objects>>

cleanup == \/ ChooseUploads \/ (\E u \in Uploads : DropUpload(u))
           \/ AbandonUpload \/ EndSweep
=============================================================================
