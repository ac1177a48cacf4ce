------------------------------ MODULE MCSocial ------------------------------
(* Instances of Social for TLC: one workload for each group of requests whose *)
(* interleavings matter.                                                      *)
EXTENDS Social

Ranks == [s \in Staff |-> IF s = CHOOSE x \in Staff : TRUE THEN 3 ELSE 2]

Work(max, ops, starts) == [max |-> max, ops |-> ops, starts |-> starts]
Befriending == Work(3, {"ask", "accept", "block"}, {"asked"})
Failing == Work(2, {"ask", "reject", "block", "unblock", "unfriend", "age",
                    "cancel", "die"}, {"asked"})
Parting == Work(3, {"ask", "accept", "block", "unblock", "unfriend"}, {"friends"})
Writing == Work(3, {"send", "delete", "read"}, {"friends"})
Cutting == Work(2, {"send", "block", "unfriend"}, {"friends"})
Rating == Work(3, {"rate", "leave", "die"}, {})
Showing == Work(2, {"reveal", "card", "block", "hide"}, {})
Rejoining == Work(3, {"leave", "offer", "answer offer", "block"}, {})
Moderating == Work(2, {"report", "staff", "send"}, {"friends"})
Retaining == Work(2, {"ask", "accept", "age", "sweep"}, {"asked"})
Reporting == Work(1, {"report", "age", "sweep"}, {"asked"})
Lifting == Work(1, {"report", "staff", "sweep"}, {})
Chatting == Work(2, {"chat", "report", "sweep"}, {})
All == {Befriending, Failing, Parting, Writing, Cutting, Rating, Showing,
        Rejoining, Moderating, Retaining, Reporting, Lifting, Chatting}
JustReports == {Work(1, {"report", "sweep"}, {})}
=============================================================================
