----------------------------- MODULE MCBilling -----------------------------
(* Instances of Billing for TLC: two events of any kind about anything, with a*)
(* failure; three of the status of two subscriptions; one beside an admin's   *)
(* grant; two while the plan may be retired and the worker's passes cut short.*)
EXTENDS Billing

Mixed == [ops |-> {"terms", "period", "refund"},
          kinds |-> {"subscription", "invoice"}, events |-> 2, failures |-> 1]
Statused == [ops |-> {}, kinds |-> {"subscription"}, events |-> 3, failures |-> 0]
Helping == [ops |-> {"manual"}, kinds |-> {"subscription"}, events |-> 1, failures |-> 0]
Retiring == [ops |-> {"retire"}, kinds |-> {"subscription"}, events |-> 2, failures |-> 0]
Mixes == {Mixed, Statused, Helping, Retiring}
=============================================================================
