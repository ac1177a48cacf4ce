----------------------------- MODULE MCAccounts -----------------------------
(* Instances of Identity for TLC: onboarding, deletion and cancellation beside*)
(* one worker pass, exports beside two overlapping ones, avatars beside one.  *)
EXTENDS Identity

CONSTANTS p1, p2, a1, a2

Work(begun, working, declared, kinds) ==
  [onboarded |-> begun, passes |-> working, uploads |-> declared, ops |-> kinds]
Onboarding ==
  Work(FALSE, {p1}, {}, {"birth_date", "policies", "delete", "cancel"})
Exporting == Work(FALSE, {p1, p2}, {}, {"export"})
Changing == Work(TRUE, {}, {a1, a2}, {"avatar"})
Erasing == Work(TRUE, {p1}, {a1}, {"avatar", "delete"})
Mixes == {Onboarding, Exporting, Changing, Erasing}
=============================================================================
