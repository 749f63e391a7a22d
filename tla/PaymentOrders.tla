---------------------------- MODULE PaymentOrders ----------------------------
(***************************************************************************)
(* What the State Chain relies on when it signs payments: the signature is *)
(* an order of several lines, each of which pays somebody.  An order is    *)
(* executed at most once, as a whole and never while the payer is halted:  *)
(* in one step all its lines are paid but those reported as failed then,   *)
(* which the payer keeps, and of which nothing is paid ever after.  The    *)
(* State Chain may therefore pay a failed line again, with a new order.    *)
(* Nothing else takes from the payer, unless it is halted.                 *)
(***************************************************************************)
EXTENDS Naturals

CONSTANTS
    Orders,
    Assets,
    Lines,    \* [Orders -> sets of lines]
    Owed      \* [Orders -> [what fails of its lines -> [Assets -> Nat]]]

VARIABLES
    executed,   \* the orders that were executed
    failed,     \* [Orders -> the lines reported as failed]
    balance,    \* [Assets -> Nat], what the payer has
    income,     \* [Assets -> Nat], what it took in so far
    halted

orderVars == <<executed, failed, balance, income, halted>>

Init ==
    /\ executed = {}
    /\ failed = [o \in Orders |-> {}]
    /\ balance \in [Assets -> Nat]
    /\ income = [a \in Assets |-> 0]
    /\ ~ halted

\* The payer takes something in, and pays what is given here.
Pays(amount) ==
    /\ income' \in [Assets -> Nat] /\ balance' \in [Assets -> Nat]
    /\ \A a \in Assets :
          /\ income'[a] >= income[a]
          /\ balance'[a] + amount[a] + income[a] = balance[a] + income'[a]

Receive ==
    /\ Pays([a \in Assets |-> 0])
    /\ UNCHANGED <<executed, failed, halted>>

Execute(o) ==
    /\ ~ halted
    /\ o \notin executed
    /\ executed' = executed \cup {o}
    /\ \E failing \in SUBSET Lines[o] :
          /\ failed' = [failed EXCEPT ![o] = failing]
          /\ Pays(Owed[o][failing])
    /\ UNCHANGED halted

\* Whoever controls a halted payer takes all it has of some assets.
Withdraw ==
    /\ halted
    /\ balance' \in [Assets -> Nat]
    /\ \A a \in Assets : balance'[a] \in {0, balance[a]}
    /\ UNCHANGED <<executed, failed, income, halted>>

HaltOrResume ==
    /\ halted' = ~ halted
    /\ UNCHANGED <<executed, failed, balance, income>>

Next == Receive \/ (\E o \in Orders : Execute(o)) \/ Withdraw \/ HaltOrResume

Spec == Init /\ [][Next]_orderVars
=============================================================================
