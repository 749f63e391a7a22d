--------------------------- MODULE CreateValidator ---------------------------
(***************************************************************************)
(* create-validator, the tool that registers a BSC validator: each run of  *)
(* it prepares one createValidator transaction from the consensus key,     *)
(* reads the account's pending nonce and the gas price, and sends it.  The *)
(* tool keeps nothing between runs: an operator whose run panicked simply  *)
(* starts another.  The node's pool and StakeHub itself are external; the  *)
(* ValidatorCreated log of a transaction that succeeds reaches the clients *)
(* of StakeHubEvents.                                                      *)
(***************************************************************************)
EXTENDS StakeHubEvents

CONSTANTS
    Runs,          \* runs of the tool, with the same keys
    GasPrices,     \* what the node may suggest
    Funds,         \* the account's BNB, in units of the amount it delegates
    CreatedLog,    \* the ValidatorCreated log of this validator
    MaxLogs        \* bound: logs emitted by other transactions

ASSUME CreatedLogAssumption == CreatedLog \in Logs \cap LogOf(ValidatorCreated)

VARIABLES
    run,       \* the runs: where they are, what they read from the node
    pool,      \* pending transactions of the account: gas price by nonce
    nonce,     \* the account's nonce: its transactions in the chain
    created,   \* StakeHub has a validator with this consensus key
    refuses    \* StakeHub would not register it: see Refused

toolVars == <<run, pool, nonce, created, refuses>>
cvVars == <<hubVars, toolVars>>

CVInit ==
    /\ HubInit
    /\ run = [r \in Runs |-> [pc |-> "start", nonce |-> 0, gasPrice |-> 0]]
    /\ pool = << >>
    /\ nonce = 0
    /\ created = FALSE
    /\ refuses \in BOOLEAN

\* Flags, password, keystore, BLS wallet, vote key and proof: all of it local,
\* and the chain id, which does not change.
Prepare(r) ==
    /\ run[r].pc = "start"
    /\ run' = [run EXCEPT ![r].pc = "prepared"]
    /\ UNCHANGED <<pool, nonce, created, refuses, hubVars>>

\* The nonce after the pending transactions that follow one another.
PendingNonce ==
    CHOOSE n \in nonce..(nonce + Cardinality(DOMAIN pool)) :
        n \notin DOMAIN pool /\ nonce..(n - 1) \subseteq DOMAIN pool

\* Wrong: counts the transaction it is about to send.
PendingNonceAtOff(r) ==
    /\ run[r].pc = "prepared"
    /\ run' = [run EXCEPT ![r] = [@ EXCEPT !.pc = "nonce", !.nonce = PendingNonce + 1]]
    /\ UNCHANGED <<pool, nonce, created, refuses, hubVars>>

PendingNonceAt(r) ==
    /\ run[r].pc = "prepared"
    /\ run' = [run EXCEPT ![r] = [@ EXCEPT !.pc = "nonce", !.nonce = PendingNonce]]
    /\ UNCHANGED <<pool, nonce, created, refuses, hubVars>>

SuggestGasPrice(r) ==
    /\ run[r].pc = "nonce"
    /\ \E p \in GasPrices :
           run' = [run EXCEPT ![r] = [@ EXCEPT !.pc = "signed", !.gasPrice = p]]
    /\ UNCHANGED <<pool, nonce, created, refuses, hubVars>>

\* The pool takes a transaction whose nonce is not used, that pays a tenth
\* more than the one it replaces, and that the account can pay with the others.
Accepts(n, p) ==
    /\ n >= nonce
    /\ n \in DOMAIN pool => 10 * p >= 11 * pool[n]
    /\ Cardinality(DOMAIN pool \cup {n}) <= Funds - (IF created THEN 1 ELSE 0)

\* SendTransaction.  The answer may be lost: the tool then panics although its
\* transaction is pending.
SendTransaction(r) ==
    /\ run[r].pc = "signed"
    /\ Accepts(run[r].nonce, run[r].gasPrice)
    /\ pool' = [n \in DOMAIN pool \cup {run[r].nonce} |->
                   IF n = run[r].nonce THEN run[r].gasPrice ELSE pool[n]]
    /\ \E pc \in {"sent", "panicked"} : run' = [run EXCEPT ![r].pc = pc]
    /\ UNCHANGED <<nonce, created, refuses, hubVars>>

\* Every step may fail, and every failure is a panic.
Panic(r) ==
    /\ run[r].pc \in {"start", "prepared", "nonce", "signed"}
    /\ run' = [run EXCEPT ![r].pc = "panicked"]
    /\ UNCHANGED <<pool, nonce, created, refuses, hubVars>>

\* createValidator is executed: StakeHub reverts it, and the BNB stays with
\* the account, when the consensus key has a validator already, or when it
\* would not register this one.
Mine ==
    /\ nonce \in DOMAIN pool
    /\ pool' = [n \in DOMAIN pool \ {nonce} |-> pool[n]]
    /\ nonce' = nonce + 1
    /\ created' = (created \/ ~refuses)
    /\ IF created \/ refuses THEN UNCHANGED hubVars ELSE Emit(CreatedLog)
    /\ UNCHANGED <<run, refuses>>

\* StakeHub refuses what the flags say: from the start, as when they delegate
\* too little, or since another validator took the moniker or the vote address.
Refused ==
    /\ ~created /\ ~refuses
    /\ refuses' = TRUE
    /\ UNCHANGED <<run, pool, nonce, created, hubVars>>

RunNext(r) ==
    Prepare(r) \/ PendingNonceAt(r) \/ SuggestGasPrice(r) \/ SendTransaction(r) \/ Panic(r)

\* Somebody else's transaction.
OtherEmit ==
    /\ emitted < MaxLogs
    /\ \E l \in Logs : Emit(l)

CVNext ==
    \/ (ClientNext \/ OtherEmit) /\ UNCHANGED toolVars
    \/ \E r \in Runs : RunNext(r)
    \/ Mine
    \/ Refused

\* Besides the goroutines of the binding, the chain includes what is pending.
CVSpec ==
    /\ CVInit /\ [][CVNext]_cvVars
    /\ HubFairness
    /\ WF_cvVars(Mine)

\* A run that printed its transaction's hash has registered the validator, in
\* the end, unless StakeHub refuses it: also when other runs, overlapping or
\* after a lost answer, read the same nonce and replaced its transaction, or
\* queued theirs behind it.
SentIsCreated == \A r \in Runs : run[r].pc = "sent" ~> (created \/ refuses)
=============================================================================
