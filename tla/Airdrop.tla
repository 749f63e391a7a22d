------------------------------- MODULE Airdrop -------------------------------
(***************************************************************************)
(* The airdrop of the new FLIP to the holders of the old one               *)
(* (scripts/snapshot_and_airdrop.py, contracts/mocks/MultiSend.sol).  The  *)
(* script may stop anywhere and is then run again: it keeps a log file and *)
(* the snapshot, and learns from the Transfer events of the new token who  *)
(* was paid.  The transactions of a run that stopped may still be pending. *)
(*                                                                         *)
(* The chain and the library that sends (brownie) are external: a run      *)
(* sends with the lowest nonce that is not mined, waits for the            *)
(* transaction, and stops when it would fail; of two transactions with a   *)
(* nonce one is mined.                                                     *)
(***************************************************************************)
EXTENDS Integers, Sequences, FiniteSetsExt

CONSTANTS
    HolderOrder,      \* the holders but the three that are skipped, as snapshots order them
    Snapshots,        \* whom of them a snapshot may find, and their balances
    AirdropCutoff,    \* airdrop_amount_cutoff
    VerifyCutoff,     \* verify_amount_cutoff
    BatchSize,        \* transfer_batch_size
    GatewayAmount,    \* amountToTransferToScG
    Funds,            \* what the airdropper has of the new token
    NoFile, Nothing,
    MaxCrashes        \* bound: a run is stopped by others, this often

Kinds == {"deploy", "transfer", "approve", "multiSendToken"}
Payments == UNION {[holders -> Nat] : holders \in SUBSET Range(HolderOrder)}

ASSUME AirdropAssumption ==
    /\ HolderOrder \in Seq(Range(HolderOrder))
    /\ \A balances \in Snapshots :
          /\ balances = [h \in DOMAIN balances |-> balances[h]]
          /\ DOMAIN balances \subseteq Range(HolderOrder)
          /\ \A h \in DOMAIN balances : balances[h] \in Nat \ {0}
    /\ NoFile \notin Snapshots
    /\ Nothing \notin {"mined", "replaced", "reverted"}
    /\ Nothing \notin [kind : Kinds, transfers : Payments, nonce : Nat]
    /\ BatchSize \in Nat \ {0}
    /\ {AirdropCutoff, VerifyCutoff, GatewayAmount, Funds, MaxCrashes} \subseteq Nat
    /\ AirdropCutoff <= VerifyCutoff

VARIABLES
    csv, log,       \* the files: the snapshot, and the messages that matter
    pc, parsedLog, skip, toSend,
    sent, outcome,  \* the transaction that the run awaits, and what became of it
    dropped,        \* a batch of this run was replaced
    nonce, pool,    \* the airdropper's account, and its pending transactions
    allowance,      \* of the MultiSend contract
    airdrops,       \* the Transfer events of the MultiSend contract, by batch
    gatewayPaid,    \* transfers of GatewayAmount to the new gateway
    crashes,
    raced           \* history: see Overtaken

files == <<csv, log>>
position == <<parsedLog, skip, toSend>>
awaiting == <<sent, outcome, dropped>>
onChain == <<nonce, pool, allowance, airdrops, gatewayPaid>>
history == <<crashes, raced>>
vars == <<files, pc, position, awaiting, onChain, history>>

Init ==
    /\ csv = NoFile /\ log = {}
    /\ pc = "stopped" /\ parsedLog = {} /\ skip = {} /\ toSend = {}
    /\ sent = Nothing /\ outcome = Nothing /\ dropped = FALSE
    /\ nonce = 0 /\ pool = {} /\ allowance = 0 /\ airdrops = <<>> /\ gatewayPaid = 0
    /\ crashes = 0 /\ raced = FALSE

\* A batch of transfers gives each of its holders an amount.
Total(transfers) == SumFunctionOnSet(transfers, DOMAIN transfers)

Balance ==
    LET Spent == [i \in DOMAIN airdrops |-> Total(airdrops[i])]
    IN  Funds - SumFunctionOnSet(Spent, DOMAIN airdrops) - gatewayPaid * GatewayAmount

Goto(step) == pc' = step /\ UNCHANGED <<awaiting, onChain, history>>
Stop == Goto("stopped") /\ UNCHANGED <<files, position>>
Log(message) == log' = log \cup {message} /\ UNCHANGED csv
-----------------------------------------------------------------------------
(* Transactions *)

\* Would the transaction succeed?
Executable(tx) ==
    CASE tx.kind = "transfer" -> Balance >= GatewayAmount
      [] tx.kind = "multiSendToken" ->
            allowance >= Total(tx.transfers) /\ Balance >= Total(tx.transfers)
      [] OTHER -> TRUE

\* A transaction of an earlier run is mined when this one has read what it
\* relies on, and not in place of the one that this run awaits.
HasRead == pc \in {"gateway", "transfer", "checkGateway", "users", "approve", "batches", "check"}
Overtaken(tx) ==
    /\ tx # sent
    /\ \/ tx.kind = "multiSendToken" /\ HasRead
       \/ tx.kind = "transfer" /\ pc = "transfer"
    /\ sent = Nothing \/ outcome # Nothing \/ sent.nonce # tx.nonce

Mine(tx) ==
    /\ tx \in pool /\ tx.nonce = nonce
    /\ nonce' = nonce + 1
    /\ pool' = {other \in pool : other.nonce > nonce}
    /\ allowance' = CASE tx.kind = "approve" -> Total(tx.transfers)
                      [] tx.kind = "multiSendToken" /\ Executable(tx) ->
                            allowance - Total(tx.transfers)
                      [] OTHER -> allowance
    /\ airdrops' = IF tx.kind = "multiSendToken" /\ Executable(tx)
                   THEN Append(airdrops, tx.transfers) ELSE airdrops
    /\ gatewayPaid' = IF tx.kind = "transfer" /\ Executable(tx)
                      THEN gatewayPaid + 1 ELSE gatewayPaid
    /\ outcome' = IF sent = Nothing \/ outcome # Nothing THEN outcome
                  ELSE IF tx # sent THEN "replaced"
                  ELSE IF Executable(tx) THEN "mined" ELSE "reverted"
    /\ raced' = (raced \/ Overtaken(tx))
    /\ UNCHANGED <<files, pc, position, sent, dropped, crashes>>

\* A step of the run sends a transaction.  One that would fail is not sent,
\* and beside a pending one with the same nonce it may be refused: the run
\* stops.
Send(step, kind, transfers) ==
    LET tx == [kind |-> kind, transfers |-> transfers, nonce |-> nonce] IN
    /\ pc = step /\ sent = Nothing
    /\ \/ /\ Executable(tx)
          /\ sent' = tx
          /\ pool' = pool \cup {tx}
          /\ UNCHANGED <<pc, outcome, dropped, files, position, nonce, allowance,
                         airdrops, gatewayPaid, history>>
       \/ ~ Executable(tx) /\ Stop
       \/ (\E other \in pool : other.nonce = nonce) /\ Stop

\* It goes on when the transaction is confirmed, even if it was replaced: of the
\* batches alone the receipts are awaited once more in the end.
Confirmed(step) ==
    /\ pc = step /\ outcome \in {"mined", "replaced"}
    /\ sent' = Nothing /\ outcome' = Nothing
    /\ dropped' = (dropped \/ (step = "batches" /\ outcome = "replaced"))
    /\ UNCHANGED <<onChain, history>>

Failed == outcome \in {"reverted", "replaced"} /\ Stop
-----------------------------------------------------------------------------
(* main *)

\* Somebody runs the script, again if it did not end, and it parses the log.
Start ==
    /\ pc = "stopped"
    /\ pc' = IF "snapshot" \notin log \/ csv = NoFile THEN "snapshot" ELSE "main"
    /\ parsedLog' = log
    /\ skip' = {} /\ toSend' = {}
    /\ sent' = Nothing /\ outcome' = Nothing /\ dropped' = FALSE
    /\ UNCHANGED <<files, onChain, history>>

Snapshot ==
    \/ /\ pc = "snapshot" /\ Goto("logSnapshot")
       /\ csv' \in Snapshots
       /\ UNCHANGED <<log, position>>
    \/ /\ pc = "logSnapshot" /\ Goto("main")
       /\ Log("snapshot") /\ UNCHANGED position

AfterMultiSend == IF "success" \in parsedLog THEN "verify" ELSE "airdrop"

DeployMultiSend ==
    \/ /\ pc = "main" /\ "multiSend" \in parsedLog
       /\ Goto(AfterMultiSend) /\ UNCHANGED <<files, position>>
    \/ "multiSend" \notin parsedLog /\ Send("main", "deploy", <<>>)
    \/ /\ Confirmed("main") /\ pc' = "logMultiSend" /\ UNCHANGED <<files, position>>
    \/ /\ pc = "logMultiSend" /\ Goto(AfterMultiSend)
       /\ Log("multiSend") /\ UNCHANGED position
-----------------------------------------------------------------------------
(* airdrop *)

\* Wrong: trusts the log, and airdrops to nobody in a later run.
SkipIfStarted == IF "gateway" \in parsedLog THEN DOMAIN csv ELSE {}

\* Wrong: trusts the log, and airdrops to everybody in every run.
SkipNobody == {}

\* Who received its airdrop, by the events of the new token.
AirdroppedTo == UNION {DOMAIN airdrops[i] : i \in DOMAIN airdrops}

ReadEvents ==
    /\ pc = "airdrop"
    /\ skip' = AirdroppedTo
    /\ Goto(IF "gateway" \in parsedLog THEN "users" ELSE "gateway")
    /\ UNCHANGED <<files, parsedLog, toSend>>

\* What the gateway is owed is paid after an assertion that it was not yet.
AirdropGateway ==
    \/ /\ pc = "gateway"
       /\ IF gatewayPaid = 0 /\ Balance >= GatewayAmount
          THEN Goto("transfer") /\ UNCHANGED <<files, position>> ELSE Stop
    \/ Send("transfer", "transfer", <<>>)
    \/ /\ Confirmed("transfer") /\ pc' = "checkGateway" /\ UNCHANGED <<files, position>>
    \/ /\ pc = "checkGateway"
       /\ IF gatewayPaid = 1
          THEN Log("gateway") /\ Goto("users") /\ UNCHANGED position ELSE Stop

Transfers(holders) == Restrict(csv, holders)
Due == {h \in DOMAIN csv : csv[h] >= AirdropCutoff}

ListTransfers ==
    /\ pc = "users"
    /\ IF Balance >= Total(Transfers(Due \ skip))
       THEN toSend' = Due \ skip /\ Goto("approve") /\ UNCHANGED <<files, parsedLog, skip>>
       ELSE Stop

\* Wrong: assumes that an earlier run approved when the log says it began.
ApprovedBefore == "gateway" \in parsedLog

HasApproval == allowance # 0

Approve ==
    \/ ~ HasApproval /\ Send("approve", "approve", Transfers(toSend))
    \/ /\ Confirmed("approve") /\ pc' = "batches" /\ UNCHANGED <<files, position>>
    \/ /\ pc = "approve" /\ sent = Nothing /\ HasApproval
       /\ Goto("batches") /\ UNCHANGED <<files, position>>

\* The next batch: those that fewer than BatchSize precede.
Position(h) == CHOOSE i \in DOMAIN HolderOrder : HolderOrder[i] = h
Ahead(h, holders) == {g \in holders : Position(g) < Position(h)}
FirstOf(holders) == {h \in holders : Cardinality(Ahead(h, holders)) < BatchSize}

SendBatches ==
    \/ toSend # {} /\ Send("batches", "multiSendToken", Transfers(FirstOf(toSend)))
    \/ /\ Confirmed("batches") /\ UNCHANGED <<pc, files, parsedLog, skip>>
       /\ toSend' = toSend \ FirstOf(toSend)
    \/ /\ pc = "batches" /\ toSend = {} /\ Goto("check") /\ UNCHANGED <<files, position>>

\* The receipt of a batch that was replaced never comes.
CheckAirdrop ==
    /\ pc = "check"
    /\ IF allowance = 0 /\ ~ dropped
       THEN Log("success") /\ Goto("verify") /\ UNCHANGED position ELSE Stop
-----------------------------------------------------------------------------
\* verifyAirdrop: only the first event of a holder is compared.
FirstAirdrop(h) == CHOOSE i \in DOMAIN airdrops :
    h \in DOMAIN airdrops[i] /\ \A j \in 1 .. i - 1 : h \notin DOMAIN airdrops[j]

Verifies ==
    /\ LET Size == [i \in DOMAIN airdrops |-> Cardinality(DOMAIN airdrops[i])]
       IN  SumFunctionOnSet(Size, DOMAIN airdrops) <= Cardinality(DOMAIN csv)
    /\ \A h \in DOMAIN csv : csv[h] >= VerifyCutoff =>
          h \in AirdroppedTo /\ airdrops[FirstAirdrop(h)][h] = csv[h]
    /\ gatewayPaid = 1

VerifyAirdrop ==
    /\ pc = "verify"
    /\ IF Verifies THEN Goto("done") /\ UNCHANGED <<files, position>> ELSE Stop

Script ==
    \/ Snapshot \/ DeployMultiSend \/ ReadEvents \/ AirdropGateway \/ ListTransfers
    \/ Approve \/ SendBatches \/ CheckAirdrop \/ VerifyAirdrop \/ Failed

\* The run is stopped: by its operator at a prompt, or by any failure.
Crash ==
    /\ pc \notin {"stopped", "done"} /\ crashes < MaxCrashes
    /\ crashes' = crashes + 1
    /\ pc' = "stopped"
    /\ UNCHANGED <<files, position, awaiting, onChain, raced>>

MineNext == \E tx \in pool : Mine(tx)

Next == Start \/ Script \/ MineNext \/ Crash

\* The operator runs the script until it ends; transactions are mined.
Spec == Init /\ [][Next]_vars /\ WF_vars(Start) /\ WF_vars(Script) /\ WF_vars(MineNext)
-----------------------------------------------------------------------------
\* Nobody is paid twice, whatever run sent what and wherever it stopped, unless
\* a transaction of an earlier run was mined behind the back of a later one.
PaidOnce ==
    ~ raced =>
        /\ \A i, j \in DOMAIN airdrops :
              i # j => DOMAIN airdrops[i] \cap DOMAIN airdrops[j] = {}
        /\ gatewayPaid <= 1

\* When the log says so the airdrop is done: everybody that is due was paid
\* what the snapshot says, and the gateway too, whatever happened before.
SuccessIsPaid ==
    "success" \in log =>
        /\ gatewayPaid >= 1
        /\ \A h \in Due : \E i \in DOMAIN airdrops :
              h \in DOMAIN airdrops[i] /\ airdrops[i][h] = csv[h]

\* Running the script again completes the airdrop and verifies it, but for two
\* accidents: the race above, and a run that stopped when the gateway was paid
\* and the log did not say so yet, after which every run fails its assertion.
GatewayUnlogged == gatewayPaid = 1 /\ "gateway" \notin log
AirdropCompletes == <>[](pc = "done" \/ raced \/ GatewayUnlogged)
=============================================================================
