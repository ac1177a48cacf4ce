--------------------------- MODULE MCMatchLeases ---------------------------
(* Instances of MatchLeases for TLC. *)
EXTENDS MatchLeases, TLC

CONSTANTS u1, u2, u3, teen, adult

OneCohort  == [u \in Users |-> adult]
TwoCohorts == [u \in Users |-> IF u = u3 THEN teen ELSE adult]
Everyone   == {d \in Pairs : Cardinality(d) = 2}
Pair12     == {{u1, u2}}
Dispute12  == {<<u1, u2>>}

UserSymmetry == Permutations(Users)
AllSymmetry  == Permutations(Users) \cup Permutations(MatchIds) \cup Permutations(Handlers)
IdSymmetry   == Permutations(MatchIds) \cup Permutations(Handlers)
============================================================================
