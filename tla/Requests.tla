------------------------------ MODULE Requests ------------------------------
(* The requests two users make about each other.  The API serves each with a  *)
(* handler of its own (apps/api/src/app.ts), which awaits a statement or a    *)
(* transaction at a time: between two of its steps any other request may go   *)
(* on.  A request keeps where it is, what it read, and what it answered.      *)
EXTENDS Integers

CONSTANTS Users,        \* the two users
          MaxRequests,  \* bound: requests in a behaviour
          Workloads,    \* what may happen in a behaviour: see Social
          None

ASSUME PairAssumption == \E u, v \in Users : u # v /\ Users = {u, v}
ASSUME RequestsAssumption == MaxRequests \in Nat \ {0}
(* None is no answer.                                                         *)
ASSUME AnswersAssumption ==
  None \notin {"ok", "refused", "failed", "sent", "conflict", "collision",
               "deadlock", "lost", "resolved", "unresolved"}
(* A behaviour starts with a request or a friendship, if not from nothing.    *)
ASSUME StartsAssumption ==
  \A w \in Workloads : ~({"asked", "friends"} \subseteq w.starts)

VARIABLES req,          \* each request, numbered in the order they begin
          blocks,       \* the request that wrote the user's block, or None
          overtaken,    \* history: requests past their check when one began
          workload

requestVars == <<req, blocks, overtaken, workload>>

Reqs == 1..MaxRequests
peer(u) == CHOOSE v \in Users : v # u

Unused == [op |-> None, by |-> None, on |-> None, arg |-> None,
           pc |-> "new", got |-> None, answer |-> None]

Begin(r, op, by, on, arg, pc) ==
  /\ req[r] = Unused /\ \A q \in 1..(r - 1) : req[q] # Unused
  /\ r <= workload.max /\ op \in workload.ops
  /\ req' = [req EXCEPT ![r] = [op |-> op, by |-> by, on |-> on, arg |-> arg,
                                pc |-> pc, got |-> None, answer |-> None]]

At(r, pc) == req[r].pc = pc
Some(pcs) == \E q \in Reqs : req[q].pc \in pcs
Go(r, pc) == req' = [req EXCEPT ![r].pc = pc]
Take(r, pc, x) == req' = [req EXCEPT ![r].pc = pc, ![r].got = x]
Reply(r, a, x) ==
  req' = [req EXCEPT ![r].pc = "done", ![r].got = x, ![r].answer = a]
Answer(r, a) == Reply(r, a, None)
Refuse(r) == Answer(r, "refused")
Done(r) == Answer(r, "ok")

(* A block in either direction.                                               *)
hasEitherDirection == \E u \in Users : blocks[u] # None

(* The process of a handler dies, or its connection to the database fails:    *)
(* what it committed stays, an open transaction is rolled back.               *)
Die(r) ==
  /\ req[r].pc \notin {"new", "done"} /\ "die" \in workload.ops
  /\ Answer(r, "lost")
  /\ UNCHANGED <<blocks, overtaken, workload>>
=============================================================================
