------------------------------ MODULE Messages ------------------------------
(* Direct messages in the thread of a friendship:                             *)
(* packages/database/src/communications.ts.  A message is known by its thread *)
(* and the id its client chose, which a retry repeats.                        *)
EXTENDS Friends, FiniteSetsExt

VARIABLES messages,     \* [thread, client] -> the row, or None
          readSequence  \* how far each member has read each thread

messageVars == <<messages, readSequence>>

Sequences == 1..Cardinality(Clients)
Message == [sender : Users, seq : Sequences, erased : BOOLEAN,
            hiddenFor : SUBSET Users]

ASSUME MessageAssumption == IsFiniteSet(Clients) /\ None \notin Message

MessageTypeOK ==
  /\ messages \in [Ids \X Clients -> Message \cup {None}]
  /\ readSequence \in [Ids \X Users -> {0} \cup Sequences]

MessageInit ==
  /\ messages = [m \in Ids \X Clients |-> None]
  /\ readSequence = [t \in Ids \X Users |-> 0]

Sent(t) == {c \in Clients : messages[<<t, c>>] # None}
Numbers(t) == {messages[<<t, c>>].seq : c \in Sent(t)}

(* directAccess(): the thread's friendship is active and nobody blocked.      *)
directAccess(t) == friendships[t] = "active" /\ ~hasEitherDirection

ThreadLocked(t) == \E q \in Reqs : At(q, "store") /\ req[q].on = t

SendStart(r) == \E t \in Ids, u \in Users, c \in Clients :
  /\ friendships[t] # None /\ ~restriction(u, "messages")
  /\ Begin(r, "send", u, t, c, "access")
  /\ UNCHANGED messages

SendAccess(r) ==
  /\ At(r, "access")
  /\ IF directAccess(req[r].on) THEN Go(r, "lock thread") ELSE Refuse(r)
  /\ UNCHANGED messages

(* Under the thread's lock: the same message again, or the next number.       *)
(* Mutant: without the thread's lock.                                        *)
SendUnlocked(r) ==
  LET t == req[r].on
      m == messages[<<t, req[r].arg>>]
  IN  /\ At(r, "lock thread")
      /\ IF m = None THEN Take(r, "store", Max({0} \cup Numbers(t)) + 1)
         ELSE IF m.sender = req[r].by /\ ~m.erased THEN Reply(r, "sent", m.seq)
         ELSE Answer(r, "conflict")
      /\ UNCHANGED messages

SendLock(r) ==
  LET t == req[r].on
      m == messages[<<t, req[r].arg>>]
  IN  /\ At(r, "lock thread") /\ ~ThreadLocked(t)
      /\ IF m = None THEN Take(r, "store", Max({0} \cup Numbers(t)) + 1)
         ELSE IF m.sender = req[r].by /\ ~m.erased THEN Reply(r, "sent", m.seq)
         ELSE Answer(r, "conflict")
      /\ UNCHANGED messages

(* The indexes of a thread's client ids and numbers guard the insert.         *)
Store(r) ==
  LET t == req[r].on
      c == req[r].arg
  IN  /\ At(r, "store")
      /\ IF c \in Sent(t) \/ req[r].got \in Numbers(t)
         THEN Answer(r, "collision") /\ UNCHANGED messages
         ELSE /\ Reply(r, "sent", req[r].got)
              /\ messages' = [messages EXCEPT ![<<t, c>>] =
                   [sender |-> req[r].by, seq |-> req[r].got,
                    erased |-> FALSE, hiddenFor |-> {}]]

send(r) == SendStart(r) \/ SendAccess(r) \/ SendLock(r) \/ Store(r)

(* listThreads(): what a member has not read yet, by the last number alone.   *)
unread(t, u) ==
  LET last == Max({0} \cup Numbers(t))
  IN  IF last > readSequence[<<t, u>>] THEN last - readSequence[<<t, u>>] ELSE 0

(* For oneself a message is hidden; its sender may erase it for everyone      *)
(* (within a window that is longer than a behaviour here).                    *)
deleteMessage(r) == \E t \in Ids, u \in Users, everyone \in BOOLEAN :
  /\ directAccess(t)
  /\ \E c \in Sent(t) :
       /\ everyone => messages[<<t, c>>].sender = u
       /\ Begin(r, "delete", u, t, c, "done")
       /\ messages' = IF everyone
            THEN [messages EXCEPT ![<<t, c>>].erased = TRUE]
            ELSE [messages EXCEPT ![<<t, c>>].hiddenFor = @ \cup {u}]
  /\ UNCHANGED readSequence

markRead(r) == \E t \in Ids, u \in Users :
  /\ directAccess(t)
  /\ \E n \in Numbers(t) :
       /\ Begin(r, "read", u, t, n, "done")
       /\ readSequence' = [readSequence EXCEPT ![<<t, u>>] = IF @ < n THEN n ELSE @]
  /\ UNCHANGED messages
=============================================================================
