-------------------------- MODULE MCPaymentSchedules --------------------------
(* Values of the constants of PaymentSchedules for TLC.                      *)
EXTENDS PaymentSchedules, TLC

SomePlans == {<<2>>, <<1, 1>>, <<1>>}

Careful == [types |-> {"payment", "adjustment"}, operations |-> AllOperations \ {"updateItem"},
            faulty |-> AllOperations \ {"deleteTransaction"}, isolated |-> TRUE]

Ledger == [types |-> {"payment", "refund"},
           operations |-> {"create", "createTransaction", "deleteTransaction", "updateItem"},
           faulty |-> {"createTransaction", "deleteTransaction"}, isolated |-> FALSE]

Templates == [types |-> {"payment"}, operations |-> {"apply", "delete", "createTransaction"},
              faulty |-> {"apply"}, isolated |-> FALSE]

Payments == [types |-> {"payment"}, operations |-> {"create", "createTransaction"},
             faulty |-> {}, isolated |-> FALSE]

SomeEnvironments == {Careful, Ledger, Templates}
OnlyPayments == {Payments}

Symmetry == Permutations(Requests) \cup Permutations(Configs) \cup Permutations(Items)
                \cup Permutations(Txns)
=============================================================================
