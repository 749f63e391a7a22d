---------------------------- MODULE Airdrop_proofs ----------------------------
(***************************************************************************)
(* Nobody is paid twice unless a transaction is overtaken, and success is  *)
(* logged when everybody was paid: for all holders, snapshots, sizes of    *)
(* batches and funds, and however often the script stops.                  *)
(*                                                                         *)
(* The transactions that are pending all have the account's next nonce, so *)
(* mining one discards the others, and nothing that a pending transaction  *)
(* relies on has changed since it was sent: the allowance, who was paid,   *)
(* and what the log says.  Therefore of the batches that several runs have *)
(* sent for one nonce all are the same.                                    *)
(***************************************************************************)
EXTENDS Airdrop, SumLemmas

AtGateway == {"gateway", "transfer", "checkGateway"}
AtUsers == {"users", "approve", "batches", "check"}

Batches == {Transfers(S) : S \in SUBSET DOMAIN csv}
Unpaid == Due \ AirdroppedTo

\* What the log says was done, in this order.
LogInv ==
    /\ "snapshot" \in log => csv \in Snapshots
    /\ "multiSend" \in log => "snapshot" \in log
    /\ "gateway" \in log => "multiSend" \in log /\ gatewayPaid >= 1
    /\ "success" \in log => "gateway" \in log
    /\ airdrops # <<>> => "gateway" \in log
    /\ gatewayPaid \in Nat

\* A run is where the log that it read has sent it.
RunInv ==
    /\ parsedLog \subseteq log
    /\ pc = "snapshot" => "snapshot" \notin log
    /\ pc = "logSnapshot" => csv \in Snapshots
    /\ pc \notin {"stopped", "snapshot", "logSnapshot"} => "snapshot" \in log
    /\ pc \in {"snapshot", "logSnapshot", "main"} /\ "multiSend" \in log =>
          "multiSend" \in parsedLog
    /\ pc \in AtGateway \cup AtUsers \cup {"airdrop", "verify", "done"} => "multiSend" \in log
    /\ pc \in {"snapshot", "logSnapshot", "main", "logMultiSend", "airdrop"} /\ "gateway" \in log =>
          "gateway" \in parsedLog
    /\ pc \in AtGateway => "gateway" \notin log
    /\ pc \in AtUsers => "gateway" \in log

\* What a pending transaction was sent for still is the case.
PoolInv ==
    /\ nonce \in Nat /\ allowance \in Int /\ Nothing \notin pool
    /\ \A tx \in pool :
          /\ tx = [kind |-> tx.kind, transfers |-> tx.transfers, nonce |-> nonce]
          /\ tx.kind \in Kinds
          /\ tx.kind = "deploy" => "multiSend" \notin log
          /\ tx.kind = "transfer" => "gateway" \notin log /\ tx.transfers = <<>>
          /\ tx.kind = "approve" => allowance = 0 /\ "gateway" \in log /\ tx.transfers \in Batches
          /\ tx.kind = "multiSendToken" =>
                allowance # 0 /\ "gateway" \in log /\ tx.transfers \in Batches

\* The transaction that a run awaits.
AwaitInv ==
    /\ outcome \in {Nothing, "mined", "replaced", "reverted"}
    /\ sent = Nothing => outcome = Nothing
    /\ sent # Nothing /\ outcome = Nothing => sent \in pool
    /\ outcome # Nothing => pool = {}
    /\ pc \notin {"stopped", "main", "transfer", "approve", "batches"} => sent = Nothing
    /\ pc = "main" /\ "multiSend" \in parsedLog => sent = Nothing
    /\ pc = "batches" /\ toSend = {} => sent = Nothing
    /\ pc \in {"logMultiSend", "checkGateway"} => pool = {}
    /\ pc \in {"transfer", "approve"} /\ sent # Nothing => sent.kind = pc
    /\ pc = "batches" /\ sent # Nothing =>
          sent.kind = "multiSendToken" /\ sent.transfers = Transfers(FirstOf(toSend))

\* Whom a run does not send to was paid, unless a batch was replaced.
DueInv ==
    /\ airdrops = <<>> \/ airdrops \in Seq(Batches)
    /\ pc \in AtGateway \cup AtUsers => skip \subseteq AirdroppedTo
    /\ pc \in {"approve", "batches"} => toSend \subseteq Due
    /\ pc = "approve" => Unpaid \subseteq toSend
    /\ pc = "batches" /\ ~ dropped =>
          /\ outcome = Nothing => Unpaid \subseteq toSend
          /\ outcome = "mined" => Unpaid \subseteq toSend \ FirstOf(toSend)
    /\ pc = "check" /\ ~ dropped => Unpaid = {}
    /\ "success" \in log => Unpaid = {}

\* Without a race runs send to the unpaid, in the order of the snapshot.
RaceFreeInv ==
    /\ PaidOnce
    /\ ~ raced =>
          /\ \A tx \in pool :
                /\ tx.kind = "multiSendToken" => tx.transfers = Transfers(FirstOf(Unpaid))
                /\ tx.kind = "transfer" => gatewayPaid = 0
          /\ pc = "transfer" /\ outcome = Nothing => gatewayPaid = 0
          /\ pc \in AtGateway \cup {"users"} => skip = AirdroppedTo
          /\ pc = "approve" => toSend = Unpaid
          /\ pc = "batches" =>
                /\ outcome # "replaced"
                /\ outcome = Nothing => toSend = Unpaid
                /\ outcome = "mined" => toSend \ FirstOf(toSend) = Unpaid

AirdropInv == LogInv /\ RunInv /\ PoolInv /\ AwaitInv /\ DueInv /\ RaceFreeInv
-----------------------------------------------------------------------------
(* Holders and batches *)

LEMMA FiniteOrder ==
    /\ IsFiniteSet(Range(HolderOrder))
    /\ \A h \in Range(HolderOrder) :
          Position(h) \in DOMAIN HolderOrder /\ HolderOrder[Position(h)] = h /\ Position(h) \in Nat
<1>1. HolderOrder \in Seq(Range(HolderOrder))
    BY AirdropAssumption
<1>2. DOMAIN HolderOrder = 1 .. Len(HolderOrder) /\ Len(HolderOrder) \in Nat
    BY <1>1
<1>3. Range(HolderOrder) = {HolderOrder[i] : i \in 1 .. Len(HolderOrder)}
    BY <1>2 DEF Range
<1>4. IsFiniteSet(Range(HolderOrder))
    <2>1. IsFiniteSet(1 .. Len(HolderOrder))
        BY <1>2, FS_Interval
    <2> DEFINE f == [i \in 1 .. Len(HolderOrder) |-> HolderOrder[i]]
    <2>2. f \in Surjection(1 .. Len(HolderOrder), Range(HolderOrder))
        BY <1>3 DEF Surjection
    <2> HIDE DEF f
    <2> QED
        BY <2>1, <2>2, FS_Surjection
<1>5. ASSUME NEW h \in Range(HolderOrder)
      PROVE  Position(h) \in DOMAIN HolderOrder /\ HolderOrder[Position(h)] = h
    <2>1. \E i \in DOMAIN HolderOrder : HolderOrder[i] = h
        BY <1>2, <1>3
    <2> QED
        BY <2>1 DEF Position
<1> QED
    BY <1>2, <1>4, <1>5

\* A snapshot lists finitely many holders, with positive balances.
LEMMA SnapshotFacts ==
    ASSUME csv \in Snapshots
    PROVE  /\ csv # NoFile /\ IsFiniteSet(DOMAIN csv) /\ DOMAIN csv \subseteq Range(HolderOrder)
           /\ \A h \in DOMAIN csv : csv[h] \in Nat \ {0}
           /\ Due \subseteq DOMAIN csv
BY AirdropAssumption, FiniteOrder, FS_Subset DEF Due

\* The first of some holders are there.
LEMMA FirstOfSome ==
    ASSUME NEW S \in SUBSET Range(HolderOrder)
    PROVE  /\ FirstOf(S) \subseteq S
           /\ S # {} => FirstOf(S) # {}
<1>1. FirstOf(S) \subseteq S
    BY DEF FirstOf
<1>2. ASSUME S # {} PROVE FirstOf(S) # {}
    <2> DEFINE Places == {Position(h) : h \in S}
    <2>1. Places \in SUBSET Nat /\ Places # {}
        BY <1>2, FiniteOrder
    <2>2. PICK m \in Places : \A n \in Places : m <= n
        <3> HIDE DEF Places
        <3> QED
            BY <2>1, LeastNumber
    <2>3. PICK h \in S : Position(h) = m
        BY <2>2
    <2>4. Ahead(h, S) = {}
        <3>1. ASSUME NEW g \in S, Position(g) < Position(h) PROVE FALSE
            <4>1. Position(h) <= Position(g) /\ Position(h) \in Nat /\ Position(g) \in Nat
                BY <2>1, <2>2, <2>3
            <4> QED
                BY <3>1, <4>1
        <3> QED
            BY <3>1 DEF Ahead
    <2>5. Cardinality(Ahead(h, S)) < BatchSize
        BY <2>4, FS_EmptySet, AirdropAssumption
    <2> QED
        BY <2>3, <2>5 DEF FirstOf
<1> QED
    BY <1>1, <1>2

\* What a batch pays.
LEMMA BatchFacts ==
    ASSUME csv \in Snapshots, NEW S \in SUBSET DOMAIN csv
    PROVE  /\ DOMAIN Transfers(S) = S /\ Transfers(S) \in Batches
           /\ \A h \in S : Transfers(S)[h] = csv[h]
           /\ Total(Transfers(S)) \in Nat
           /\ S # {} => Total(Transfers(S)) # 0
<1> DEFINE t == Transfers(S)
<1>1. /\ DOMAIN t = S /\ t \in Batches
      /\ \A h \in S : t[h] = csv[h] /\ t[h] \in Nat \ {0}
    BY SnapshotFacts DEF Transfers, Restrict, Batches
<1>2. IsFiniteSet(S)
    BY SnapshotFacts, FS_Subset
<1>3. \A h \in S : t[h] \in Nat /\ t[h] \in Int
    BY <1>1
<1> HIDE DEF t
<1>4. SumFunctionOnSet(t, S) \in Nat
    BY <1>2, <1>3, SumType
<1>5. ASSUME S # {} PROVE SumFunctionOnSet(t, S) # 0
    <2>1. PICK h : h \in S
        BY <1>5
    <2>2. SumFunctionOnSet(t, S) = t[h] + SumFunctionOnSet(t, S \ {h})
        BY <1>2, <1>3, <2>1, SumByElement
    <2>3. SumFunctionOnSet(t, S \ {h}) \in Nat
        BY <1>2, <1>3, FS_RemoveElement, SumType
    <2>4. t[h] \in Nat \ {0}
        BY <1>1, <2>1
    <2> QED
        BY <2>2, <2>3, <2>4
<1> QED
    BY <1>1, <1>4, <1>5 DEF Total, t

LEMMA NoBatch == ASSUME NEW B PROVE <<>> \in Seq(B)
OBVIOUS

\* A batch that is mined pays its holders.
LEMMA AppendFacts ==
    ASSUME NEW B, airdrops \in Seq(B), NEW batch \in B, airdrops' = Append(airdrops, batch)
    PROVE  /\ airdrops' \in Seq(B) /\ airdrops' # <<>>
           /\ DOMAIN airdrops = 1 .. Len(airdrops) /\ Len(airdrops) \in Nat
           /\ DOMAIN airdrops' = 1 .. Len(airdrops) + 1
           /\ \A i \in DOMAIN airdrops : airdrops'[i] = airdrops[i]
           /\ airdrops'[Len(airdrops) + 1] = batch
           /\ AirdroppedTo' = AirdroppedTo \cup DOMAIN batch
<1>1. /\ airdrops' \in Seq(B) /\ airdrops' # <<>>
      /\ DOMAIN airdrops = 1 .. Len(airdrops) /\ Len(airdrops) \in Nat
      /\ DOMAIN airdrops' = 1 .. Len(airdrops) + 1
      /\ \A i \in 1 .. Len(airdrops) : airdrops'[i] = airdrops[i]
      /\ airdrops'[Len(airdrops) + 1] = batch
    OBVIOUS
<1> DEFINE n == Len(airdrops)
<1>2. \A i \in DOMAIN airdrops' : i \in DOMAIN airdrops \/ i = n + 1
    BY <1>1
<1>3. \A i \in DOMAIN airdrops : i \in DOMAIN airdrops'
    BY <1>1
<1>4. n + 1 \in DOMAIN airdrops'
    BY <1>1
<1>5. AirdroppedTo' = UNION {DOMAIN airdrops'[i] : i \in DOMAIN airdrops'}
    BY DEF AirdroppedTo
<1> HIDE DEF n
<1>6. ASSUME NEW h PROVE h \in AirdroppedTo' <=> h \in AirdroppedTo \cup DOMAIN batch
    <2>1. h \in AirdroppedTo' <=> \E i \in DOMAIN airdrops' : h \in DOMAIN airdrops'[i]
        BY <1>5
    <2>2. h \in AirdroppedTo <=> \E i \in DOMAIN airdrops : h \in DOMAIN airdrops[i]
        BY DEF AirdroppedTo
    <2>3. airdrops'[n + 1] = batch /\ \A i \in DOMAIN airdrops : airdrops'[i] = airdrops[i]
        BY <1>1 DEF n
    <2> QED
        BY <1>2, <1>3, <1>4, <2>1, <2>2, <2>3
<1> QED
    BY <1>1, <1>6
-----------------------------------------------------------------------------
(* Mining *)

LEMMA Unmoved ==
    ASSUME UNCHANGED csv
    PROVE  /\ Due' = Due /\ Batches' = Batches
           /\ \A S : Transfers(S)' = Transfers(S)
           /\ UNCHANGED airdrops => AirdroppedTo' = AirdroppedTo /\ Unpaid' = Unpaid
           /\ Unpaid' = Due \ AirdroppedTo'
BY DEF Due, Batches, Transfers, Restrict, AirdroppedTo, Unpaid

\* What mining a pending transaction does.
LEMMA MineFacts ==
    ASSUME AirdropInv, NEW tx \in pool, Mine(tx)
    PROVE  /\ pool' = {} /\ nonce' \in Nat /\ allowance' \in Int /\ outcome = Nothing
           /\ UNCHANGED <<files, pc, position, sent, dropped>>
           /\ raced' = (raced \/ Overtaken(tx))
           /\ sent # Nothing => sent \in pool /\ sent.nonce = tx.nonce
           /\ outcome' = IF sent = Nothing THEN Nothing
                         ELSE IF tx # sent THEN "replaced"
                         ELSE IF Executable(tx) THEN "mined" ELSE "reverted"
<1>1. nonce \in Nat /\ \A other \in pool : other.nonce = nonce
    <2>1. \A other \in pool :
              other = [kind |-> other.kind, transfers |-> other.transfers, nonce |-> nonce]
        BY DEF AirdropInv, PoolInv
    <2> QED
        BY <2>1 DEF AirdropInv, PoolInv
<1>2. pool' = {}
    <2>1. pool' = {other \in pool : other.nonce > nonce}
        BY DEF Mine
    <2> QED
        BY <1>1, <2>1
<1>3. nonce' \in Nat
    BY <1>1 DEF Mine
<1>4. outcome = Nothing /\ (sent # Nothing => sent \in pool)
    BY DEF AirdropInv, AwaitInv
<1>5. allowance' \in Int
    <2>1. allowance \in Int
        BY DEF AirdropInv, PoolInv
    <2>2. ASSUME tx.kind \in {"approve", "multiSendToken"} PROVE Total(tx.transfers) \in Int
        <3>1. tx.transfers \in Batches /\ "gateway" \in log
            BY <2>2 DEF AirdropInv, PoolInv
        <3>2. csv \in Snapshots
            BY <3>1 DEF AirdropInv, LogInv
        <3>3. PICK S \in SUBSET DOMAIN csv : tx.transfers = Transfers(S)
            BY <3>1 DEF Batches
        <3>4. Total(Transfers(S)) \in Nat
            BY <3>2, BatchFacts
        <3> QED
            BY <3>3, <3>4
    <2>3. \/ allowance' = allowance
          \/ /\ tx.kind = "approve" /\ allowance' = Total(tx.transfers)
          \/ /\ tx.kind = "multiSendToken" /\ allowance' = allowance - Total(tx.transfers)
        <3> DEFINE total == Total(tx.transfers)
                   ok == Executable(tx)
        <3>1. allowance' = CASE tx.kind = "approve" -> total
                      [] tx.kind = "multiSendToken" /\ ok -> allowance - total
                      [] OTHER -> allowance
            BY DEF Mine
        <3> HIDE DEF total, ok
        <3>2. \/ allowance' = allowance
              \/ /\ tx.kind = "approve" /\ allowance' = total
              \/ /\ tx.kind = "multiSendToken" /\ allowance' = allowance - total
            BY <3>1
        <3> QED
            BY <3>2 DEF total
    <2> QED
        BY <2>1, <2>2, <2>3
<1> QED
    BY <1>1, <1>2, <1>3, <1>4, <1>5 DEF Mine

\* Whom it pays.
LEMMA MinePays ==
    ASSUME AirdropInv, NEW tx \in pool, Mine(tx)
    PROVE  /\ gatewayPaid' = IF tx.kind = "transfer" /\ Executable(tx)
                             THEN gatewayPaid + 1 ELSE gatewayPaid
           /\ \/ UNCHANGED airdrops /\ Unpaid' = Unpaid
                 /\ ~ (tx.kind = "multiSendToken" /\ Executable(tx))
              \/ /\ tx.kind = "multiSendToken" /\ Executable(tx) /\ "gateway" \in log
                 /\ csv \in Snapshots /\ tx.transfers \in Batches
                 /\ airdrops \in Seq(Batches)
                 /\ airdrops' = Append(airdrops, tx.transfers)
                 /\ airdrops' \in Seq(Batches) /\ airdrops' # <<>>
                 /\ AirdroppedTo' = AirdroppedTo \cup DOMAIN tx.transfers
                 /\ Unpaid' = Unpaid \ DOMAIN tx.transfers
<1>1. UNCHANGED csv
    BY DEF Mine, files
<1>2. CASE ~ (tx.kind = "multiSendToken" /\ Executable(tx))
    <2>1. UNCHANGED airdrops
        BY <1>2 DEF Mine
    <2> QED
        BY <1>1, <1>2, <2>1, Unmoved DEF Mine
<1>3. CASE tx.kind = "multiSendToken" /\ Executable(tx)
    <2>1. "gateway" \in log /\ tx.transfers \in Batches
        BY <1>3 DEF AirdropInv, PoolInv
    <2>2. csv \in Snapshots
        BY <2>1 DEF AirdropInv, LogInv
    <2>3. airdrops \in Seq(Batches)
        <3>1. airdrops = <<>> \/ airdrops \in Seq(Batches)
            BY DEF AirdropInv, DueInv
        <3>2. <<>> \in Seq(Batches)
            BY NoBatch
        <3> QED
            BY <3>1, <3>2
    <2>4. airdrops' = Append(airdrops, tx.transfers)
        BY <1>3 DEF Mine
    <2>5. /\ airdrops' \in Seq(Batches) /\ airdrops' # <<>>
          /\ AirdroppedTo' = AirdroppedTo \cup DOMAIN tx.transfers
        BY <2>1, <2>3, <2>4, AppendFacts
    <2>6. Unpaid' = Due \ (AirdroppedTo \cup DOMAIN tx.transfers)
        BY <1>1, <2>5, Unmoved
    <2>7. Unpaid' = Unpaid \ DOMAIN tx.transfers
        BY <2>6 DEF Unpaid
    <2> QED
        BY <1>3, <2>1, <2>2, <2>3, <2>4, <2>5, <2>7 DEF Mine
<1> QED
    BY <1>2, <1>3

LEMMA MineKeepsLog ==
    ASSUME AirdropInv, NEW tx \in pool, Mine(tx)
    PROVE  LogInv' /\ RunInv' /\ PoolInv' /\ AwaitInv'
<1>1. UNCHANGED <<csv, log, pc, parsedLog, toSend, sent>>
    BY DEF Mine, files, position
<1>2. LogInv'
    <2>1. gatewayPaid' \in Nat /\ gatewayPaid' >= gatewayPaid
        BY MinePays DEF AirdropInv, LogInv
    <2>2. airdrops' # <<>> => "gateway" \in log
        BY MinePays DEF AirdropInv, LogInv
    <2>3. gatewayPaid >= 1 => gatewayPaid' >= 1
        BY <2>1 DEF AirdropInv, LogInv
    <2> QED
        BY <1>1, <2>1, <2>2, <2>3 DEF AirdropInv, LogInv
<1>3. RunInv'
    BY <1>1 DEF AirdropInv, RunInv
<1>4. PoolInv'
    BY MineFacts DEF PoolInv
<1>5. AwaitInv'
    <2>1. outcome' \in {Nothing, "mined", "replaced", "reverted"}
          /\ (sent = Nothing => outcome' = Nothing)
          /\ (sent # Nothing => outcome' # Nothing)
        BY MineFacts, AirdropAssumption
    <2>2. pool' = {}
        BY MineFacts
    <2>3. Transfers(FirstOf(toSend))' = Transfers(FirstOf(toSend))
        BY <1>1 DEF Transfers, Restrict, FirstOf, Ahead
    <2> QED
        BY <1>1, <2>1, <2>2, <2>3 DEF AirdropInv, AwaitInv
<1> QED
    BY <1>2, <1>3, <1>4, <1>5

\* The batch that is awaited is first of those to send.
LEMMA AwaitedBatch ==
    ASSUME AirdropInv, pc = "batches", sent # Nothing
    PROVE  /\ csv \in Snapshots /\ sent.kind = "multiSendToken"
           /\ FirstOf(toSend) \in SUBSET DOMAIN csv
           /\ sent.transfers = Transfers(FirstOf(toSend))
           /\ DOMAIN sent.transfers = FirstOf(toSend)
<1>1. csv \in Snapshots
    BY DEF AirdropInv, RunInv, LogInv
<1>2. toSend \subseteq DOMAIN csv
    BY <1>1, SnapshotFacts DEF AirdropInv, DueInv
<1>3. FirstOf(toSend) \in SUBSET DOMAIN csv
    BY <1>2 DEF FirstOf
<1>4. sent.kind = "multiSendToken" /\ sent.transfers = Transfers(FirstOf(toSend))
    BY DEF AirdropInv, AwaitInv
<1> QED
    BY <1>1, <1>3, <1>4, BatchFacts

LEMMA MineKeepsDue ==
    ASSUME AirdropInv, NEW tx \in pool, Mine(tx)
    PROVE  DueInv'
<1>1. UNCHANGED <<csv, log, pc, parsedLog, toSend, skip, sent, dropped>>
    BY DEF Mine, files, position
<1>2. /\ Unpaid' \subseteq Unpaid /\ AirdroppedTo \subseteq AirdroppedTo'
      /\ airdrops' = <<>> \/ airdrops' \in Seq(Batches')
    <2>1. Batches' = Batches
        BY <1>1, Unmoved
    <2>2. CASE UNCHANGED airdrops
        BY <1>1, <2>1, <2>2, Unmoved DEF AirdropInv, DueInv
    <2>3. CASE ~ UNCHANGED airdrops
        BY <2>1, <2>3, MinePays
    <2> QED
        BY <2>2, <2>3
<1>3. Due' = Due
    BY <1>1, Unmoved
<1>4. ASSUME pc = "batches", ~ dropped
      PROVE  /\ outcome' = Nothing => Unpaid' \subseteq toSend
             /\ outcome' = "mined" => Unpaid' \subseteq toSend \ FirstOf(toSend)
    <2>1. outcome = Nothing /\ Unpaid \subseteq toSend
        BY <1>4, MineFacts DEF AirdropInv, DueInv
    <2>2. ASSUME outcome' = "mined"
          PROVE  Unpaid' \subseteq toSend \ FirstOf(toSend)
        <3>1. sent # Nothing /\ tx = sent /\ Executable(tx)
            BY <2>2, MineFacts, AirdropAssumption
        <3>2. tx.kind = "multiSendToken" /\ DOMAIN tx.transfers = FirstOf(toSend)
            BY <1>4, <3>1, AwaitedBatch
        <3>3. Unpaid' = Unpaid \ FirstOf(toSend)
            BY <3>1, <3>2, MinePays
        <3> QED
            BY <2>1, <3>3
    <2> QED
        BY <1>2, <2>1, <2>2
<1>5. (toSend \ FirstOf(toSend))' = toSend \ FirstOf(toSend)
    BY <1>1 DEF FirstOf, Ahead
<1> QED
    BY <1>1, <1>2, <1>3, <1>4, <1>5 DEF AirdropInv, DueInv

\* Unless it is a race, what is mined is the transaction of this run, or one
\* that this run does not rely on yet.
LEMMA MineUnraced ==
    ASSUME AirdropInv, NEW tx \in pool, Mine(tx), ~ raced'
    PROVE  /\ ~ raced
           /\ tx.kind = "multiSendToken" => (~ HasRead \/ (pc = "batches" /\ tx = sent))
           /\ tx.kind = "transfer" => (pc # "transfer" \/ tx = sent)
           /\ pc = "batches" /\ sent # Nothing => tx = sent
<1>1. ~ raced /\ ~ Overtaken(tx) /\ outcome = Nothing
    BY MineFacts
<1>2. tx # sent /\ tx.kind = "multiSendToken" /\ HasRead => sent # Nothing
    BY <1>1 DEF Overtaken
<1>3. tx # sent /\ tx.kind = "transfer" /\ pc = "transfer" => sent # Nothing
    BY <1>1 DEF Overtaken
<1>4. /\ tx = [kind |-> tx.kind, transfers |-> tx.transfers, nonce |-> nonce]
      /\ tx.kind \in Kinds /\ tx # Nothing
    BY DEF AirdropInv, PoolInv
<1>5. ASSUME sent # Nothing
      PROVE  sent \in pool /\ sent = [kind |-> sent.kind, transfers |-> sent.transfers, nonce |-> nonce]
    BY <1>5, MineFacts DEF AirdropInv, PoolInv
<1>6. ASSUME pc = "batches", sent # Nothing PROVE tx = sent
    <2>1. sent \in pool /\ sent.kind = "multiSendToken"
        BY <1>5, <1>6, AwaitedBatch
    <2>2. allowance # 0 /\ "gateway" \in log /\ "multiSend" \in log
        BY <2>1 DEF AirdropInv, PoolInv, LogInv
    <2>3. tx.kind = "multiSendToken"
        BY <1>4, <2>2 DEF AirdropInv, PoolInv, Kinds
    <2>4. tx.transfers = Transfers(FirstOf(Unpaid)) /\ sent.transfers = Transfers(FirstOf(Unpaid))
        BY <1>1, <2>1, <2>3 DEF AirdropInv, RaceFreeInv
    <2> QED
        BY <1>4, <1>5, <1>6, <2>1, <2>3, <2>4
<1>7. ASSUME tx.kind = "multiSendToken", HasRead, sent # Nothing
      PROVE  pc = "batches"
    <2>1. "gateway" \in log /\ allowance # 0
        BY <1>7 DEF AirdropInv, PoolInv
    <2>2. pc \notin AtGateway
        BY <2>1 DEF AirdropInv, RunInv
    <2>3. pc # "approve"
        <3>1. pc = "approve" => sent.kind = "approve"
            BY <1>7 DEF AirdropInv, AwaitInv
        <3> QED
            BY <1>5, <1>7, <2>1, <3>1 DEF AirdropInv, PoolInv
    <2>4. pc \in {"stopped", "main", "transfer", "approve", "batches"}
        BY <1>7 DEF AirdropInv, AwaitInv
    <2> QED
        BY <1>7, <2>2, <2>3, <2>4 DEF HasRead, AtGateway
<1>8. ASSUME tx.kind = "transfer", pc = "transfer", sent # Nothing
      PROVE  tx = sent
    <2>1. sent.kind = "transfer" /\ sent \in pool
        BY <1>5, <1>8 DEF AirdropInv, AwaitInv
    <2>2. sent.transfers = <<>> /\ tx.transfers = <<>>
        BY <1>8, <2>1 DEF AirdropInv, PoolInv
    <2> QED
        BY <1>4, <1>5, <1>8, <2>1, <2>2
<1>9. pc = "batches" => HasRead
    BY DEF HasRead
<1> QED
    BY <1>1, <1>2, <1>3, <1>4, <1>6, <1>7, <1>8, <1>9

\* Without a race what a transaction pays was not paid before.
LEMMA MinePaysOnce ==
    ASSUME AirdropInv, NEW tx \in pool, Mine(tx), ~ raced'
    PROVE  PaidOnce'
<1>1. ~ raced /\ PaidOnce
    BY MineUnraced DEF AirdropInv, RaceFreeInv
<1>2. \A i, j \in DOMAIN airdrops : i # j => DOMAIN airdrops[i] \cap DOMAIN airdrops[j] = {}
    BY <1>1 DEF PaidOnce
<1>3. gatewayPaid' <= 1
    <2>1. gatewayPaid \in Nat /\ gatewayPaid <= 1
        BY <1>1 DEF AirdropInv, LogInv, PaidOnce
    <2>2. tx.kind = "transfer" => gatewayPaid = 0
        BY <1>1 DEF AirdropInv, RaceFreeInv
    <2> QED
        BY <2>1, <2>2, MinePays
<1>4. \A i, j \in DOMAIN airdrops' : i # j => DOMAIN airdrops'[i] \cap DOMAIN airdrops'[j] = {}
    <2>1. CASE UNCHANGED airdrops
        BY <1>2, <2>1
    <2>2. CASE ~ UNCHANGED airdrops
        <3>1. /\ tx.kind = "multiSendToken" /\ csv \in Snapshots
              /\ airdrops \in Seq(Batches) /\ tx.transfers \in Batches
              /\ airdrops' = Append(airdrops, tx.transfers)
            BY <2>2, MinePays
        <3>2. tx.transfers = Transfers(FirstOf(Unpaid))
            BY <1>1, <3>1 DEF AirdropInv, RaceFreeInv
        <3>3. FirstOf(Unpaid) \subseteq Unpaid /\ Unpaid \subseteq DOMAIN csv
            BY <3>1, SnapshotFacts DEF FirstOf, Unpaid
        <3>4. DOMAIN tx.transfers \cap AirdroppedTo = {}
            <4>1. DOMAIN tx.transfers = FirstOf(Unpaid)
                BY <3>1, <3>2, <3>3, BatchFacts
            <4> QED
                BY <3>3, <4>1 DEF Unpaid
        <3>5. \A i \in DOMAIN airdrops : DOMAIN tx.transfers \cap DOMAIN airdrops[i] = {}
            BY <3>4 DEF AirdroppedTo
        <3>6. /\ DOMAIN airdrops = 1 .. Len(airdrops) /\ Len(airdrops) \in Nat
              /\ DOMAIN airdrops' = 1 .. Len(airdrops) + 1
              /\ \A i \in DOMAIN airdrops : airdrops'[i] = airdrops[i]
              /\ airdrops'[Len(airdrops) + 1] = tx.transfers
            BY <3>1, AppendFacts
        <3> DEFINE n == Len(airdrops) + 1
        <3>7. \A i \in DOMAIN airdrops' : i \in DOMAIN airdrops \/ i = n
            BY <3>6
        <3>8. airdrops'[n] = tx.transfers
            BY <3>6
        <3> HIDE DEF n
        <3> QED
            BY <1>2, <3>5, <3>6, <3>7, <3>8
    <2> QED
        BY <2>1, <2>2
<1> QED
    BY <1>3, <1>4 DEF PaidOnce

LEMMA MineKeepsRaceFree ==
    ASSUME AirdropInv, NEW tx \in pool, Mine(tx)
    PROVE  RaceFreeInv'
<1>1. CASE raced'
    BY <1>1 DEF RaceFreeInv, PaidOnce
<1>2. CASE ~ raced'
    <2>1. /\ UNCHANGED <<csv, pc, skip, toSend, sent>> /\ pool' = {} /\ outcome = Nothing /\ ~ raced
          /\ (toSend \ FirstOf(toSend))' = toSend \ FirstOf(toSend)
        BY <1>2, MineFacts, MineUnraced DEF Mine, files, position, FirstOf, Ahead
    <2>2. sent = tx => sent # Nothing
        BY DEF AirdropInv, PoolInv
    <2>3. outcome' = Nothing <=> sent = Nothing
        BY MineFacts, AirdropAssumption
    <2>4. outcome' = "mined" => sent # Nothing /\ tx = sent /\ Executable(tx)
        BY MineFacts, AirdropAssumption
    <2>5. outcome' = "replaced" => sent # Nothing /\ tx # sent
        BY MineFacts, AirdropAssumption
    <2>6. PaidOnce'
        BY <1>2, MinePaysOnce
    <2>7. ASSUME pc = "transfer", outcome' = Nothing PROVE gatewayPaid' = 0
        <3>1. gatewayPaid = 0
            BY <2>1, <2>7 DEF AirdropInv, RaceFreeInv
        <3>2. tx.kind # "transfer"
            BY <1>2, <2>2, <2>3, <2>7, MineUnraced
        <3> QED
            BY <3>1, <3>2, MinePays
    <2>8. ASSUME HasRead, pc # "batches"
          PROVE  AirdroppedTo' = AirdroppedTo /\ Unpaid' = Unpaid
        <3>1. tx.kind # "multiSendToken"
            BY <1>2, <2>8, MineUnraced
        <3>2. UNCHANGED airdrops
            BY <3>1, MinePays
        <3> QED
            BY <2>1, <3>2, Unmoved
    <2>9. pc \in AtGateway \cup {"users"} => skip = AirdroppedTo'
        BY <2>1, <2>8 DEF AirdropInv, RaceFreeInv, HasRead, AtGateway
    <2>10. pc = "approve" => toSend = Unpaid'
        BY <2>1, <2>8 DEF AirdropInv, RaceFreeInv, HasRead
    <2>11. ASSUME pc = "batches"
           PROVE  /\ outcome' # "replaced"
                  /\ outcome' = Nothing => toSend = Unpaid'
                  /\ outcome' = "mined" => toSend \ FirstOf(toSend) = Unpaid'
        <3>1. toSend = Unpaid
            BY <2>1, <2>11 DEF AirdropInv, RaceFreeInv
        <3>2. outcome' # "replaced"
            BY <1>2, <2>5, <2>11, MineUnraced
        <3>3. ASSUME outcome' = Nothing PROVE Unpaid' = Unpaid
            <4>1. tx.kind # "multiSendToken"
                BY <1>2, <2>2, <2>3, <2>11, <3>3, MineUnraced DEF HasRead
            <4> QED
                BY <4>1, MinePays
        <3>4. ASSUME outcome' = "mined" PROVE Unpaid' = Unpaid \ FirstOf(toSend)
            <4>1. tx = sent /\ sent # Nothing /\ Executable(tx)
                BY <2>4, <3>4
            <4>2. tx.kind = "multiSendToken" /\ DOMAIN tx.transfers = FirstOf(toSend)
                BY <2>11, <4>1, AwaitedBatch
            <4> QED
                BY <4>1, <4>2, MinePays
        <3> QED
            BY <3>1, <3>2, <3>3, <3>4
    <2> QED
        BY <2>1, <2>6, <2>7, <2>9, <2>10, <2>11 DEF RaceFreeInv
<1> QED
    BY <1>1, <1>2

LEMMA MineKeepsInv ==
    ASSUME AirdropInv, NEW tx \in pool, Mine(tx)
    PROVE  AirdropInv'
BY MineKeepsLog, MineKeepsDue, MineKeepsRaceFree DEF AirdropInv
-----------------------------------------------------------------------------
(* The steps of a run *)

\* What a step leaves alone that keeps the snapshot and the chain.
LEMMA KeptFacts ==
    ASSUME AirdropInv, UNCHANGED <<csv, airdrops, gatewayPaid, raced>>
    PROVE  /\ Due' = Due /\ Batches' = Batches /\ AirdroppedTo' = AirdroppedTo /\ Unpaid' = Unpaid
           /\ Transfers(FirstOf(Unpaid))' = Transfers(FirstOf(Unpaid))
           /\ airdrops' = <<>> \/ airdrops' \in Seq(Batches')
           /\ PaidOnce'
<1>1. Due' = Due /\ Batches' = Batches /\ AirdroppedTo' = AirdroppedTo /\ Unpaid' = Unpaid
    BY Unmoved
<1>2. Transfers(FirstOf(Unpaid))' = Transfers(FirstOf(Unpaid))
    BY <1>1 DEF Transfers, Restrict, FirstOf, Ahead
<1>3. airdrops' = <<>> \/ airdrops' \in Seq(Batches')
    BY <1>1 DEF AirdropInv, DueInv
<1>4. PaidOnce'
    BY DEF AirdropInv, RaceFreeInv, PaidOnce
<1> QED
    BY <1>1, <1>2, <1>3, <1>4

\* And of the pending transactions, when it logs nothing that they deny.
LEMMA KeptPool ==
    ASSUME AirdropInv, UNCHANGED <<csv, airdrops, gatewayPaid, raced, pool, nonce, allowance>>,
           log \subseteq log', pool = {} \/ log' \cap {"multiSend", "gateway"} \subseteq log
    PROVE  /\ PoolInv'
           /\ ~ raced' => \A tx \in pool' :
                /\ tx.kind = "multiSendToken" => tx.transfers = Transfers(FirstOf(Unpaid))'
                /\ tx.kind = "transfer" => gatewayPaid' = 0
<1>1. PoolInv'
    BY KeptFacts DEF AirdropInv, PoolInv
<1>2. ~ raced' => \A tx \in pool' :
          /\ tx.kind = "multiSendToken" => tx.transfers = Transfers(FirstOf(Unpaid))'
          /\ tx.kind = "transfer" => gatewayPaid' = 0
    BY KeptFacts DEF AirdropInv, RaceFreeInv
<1> QED
    BY <1>1, <1>2

\* The run stops.
LEMMA HaltKeepsInv ==
    ASSUME AirdropInv, pc' = "stopped", UNCHANGED <<files, position, awaiting, onChain, raced>>
    PROVE  AirdropInv'
<1> USE DEF files, position, awaiting, onChain
<1>1. PoolInv' /\ LogInv'
    BY KeptPool DEF AirdropInv, LogInv
<1>2. RunInv'
    BY DEF AirdropInv, RunInv, AtGateway, AtUsers
<1>3. AwaitInv'
    BY DEF AirdropInv, AwaitInv
<1>4. DueInv'
    BY KeptFacts DEF AirdropInv, DueInv, AtGateway, AtUsers
<1>5. RaceFreeInv'
    BY KeptFacts, KeptPool DEF RaceFreeInv, AtGateway
<1> QED
    BY <1>1, <1>2, <1>3, <1>4, <1>5 DEF AirdropInv

LEMMA StopKeepsInv ==
    ASSUME AirdropInv, Stop \/ Failed \/ Crash
    PROVE  AirdropInv'
<1>1. pc' = "stopped" /\ UNCHANGED <<files, position, awaiting, onChain, raced>>
    BY DEF Stop, Failed, Crash, Goto, history
<1> QED
    BY <1>1, HaltKeepsInv

LEMMA StartKeepsInv ==
    ASSUME AirdropInv, Start
    PROVE  AirdropInv'
<1>1. /\ \/ pc' = "snapshot" /\ ("snapshot" \notin log \/ csv = NoFile)
         \/ pc' = "main" /\ "snapshot" \in log
      /\ parsedLog' = log /\ skip' = {} /\ toSend' = {}
      /\ sent' = Nothing /\ outcome' = Nothing /\ dropped' = FALSE
      /\ UNCHANGED <<csv, log, nonce, pool, allowance, airdrops, gatewayPaid, raced>>
    BY DEF Start, files, onChain, history
<1>2. "snapshot" \in log => csv # NoFile
    BY AirdropAssumption DEF AirdropInv, LogInv
<1>3. PoolInv' /\ LogInv'
    BY <1>1, KeptPool DEF AirdropInv, LogInv
<1>4. RunInv'
    BY <1>1, <1>2 DEF RunInv, AtGateway, AtUsers
<1>5. AwaitInv'
    BY <1>1, AirdropAssumption DEF AwaitInv
<1>6. DueInv'
    BY <1>1, KeptFacts DEF AirdropInv, DueInv, AtGateway, AtUsers
<1>7. RaceFreeInv'
    BY <1>1, KeptFacts, KeptPool DEF RaceFreeInv, AtGateway
<1> QED
    BY <1>3, <1>4, <1>5, <1>6, <1>7 DEF AirdropInv

\* A step to elsewhere, that neither sends nor logs.
LEMMA MovesFacts ==
    ASSUME AirdropInv, UNCHANGED <<files, awaiting, onChain, raced>>
    PROVE  /\ PoolInv' /\ LogInv' /\ PaidOnce'
           /\ ~ raced' => \A tx \in pool' :
                /\ tx.kind = "multiSendToken" => tx.transfers = Transfers(FirstOf(Unpaid))'
                /\ tx.kind = "transfer" => gatewayPaid' = 0
BY KeptFacts, KeptPool DEF AirdropInv, LogInv, files, awaiting, onChain

LEMMA SnapshotKeepsInv ==
    ASSUME AirdropInv, Snapshot
    PROVE  AirdropInv'
<1>1. CASE pc = "snapshot" /\ Goto("logSnapshot") /\ csv' \in Snapshots /\ UNCHANGED <<log, position>>
    <2>1. /\ pc = "snapshot" /\ pc' = "logSnapshot" /\ csv' \in Snapshots
          /\ UNCHANGED <<log, parsedLog, skip, toSend, sent, outcome, dropped>>
          /\ UNCHANGED <<nonce, pool, allowance, airdrops, gatewayPaid, raced>>
        BY <1>1 DEF Goto, position, awaiting, onChain, history
    <2>2. "snapshot" \notin log /\ "multiSend" \notin log /\ "gateway" \notin log /\ "success" \notin log
        BY <2>1 DEF AirdropInv, RunInv, LogInv
    <2>3. airdrops = <<>> /\ \A tx \in pool : tx.kind \in {"deploy", "transfer"}
        BY <2>2 DEF AirdropInv, LogInv, PoolInv, Kinds
    <2>4. LogInv'
        BY <2>1, <2>2 DEF AirdropInv, LogInv
    <2>5. RunInv'
        BY <2>1, <2>2 DEF AirdropInv, RunInv, AtGateway, AtUsers
    <2>6. PoolInv'
        BY <2>1, <2>3 DEF AirdropInv, PoolInv
    <2>7. AwaitInv'
        BY <2>1 DEF AirdropInv, AwaitInv
    <2>8. DueInv'
        BY <2>1, <2>2, <2>3 DEF AirdropInv, DueInv, AtGateway, AtUsers
    <2>9. RaceFreeInv'
        <3>1. PaidOnce'
            BY <2>1 DEF AirdropInv, RaceFreeInv, PaidOnce
        <3>2. ~ raced => \A tx \in pool : tx.kind = "transfer" => gatewayPaid = 0
            BY DEF AirdropInv, RaceFreeInv
        <3> QED
            BY <2>1, <2>3, <3>1, <3>2 DEF RaceFreeInv, AtGateway
    <2> QED
        BY <2>4, <2>5, <2>6, <2>7, <2>8, <2>9 DEF AirdropInv
<1>2. CASE pc = "logSnapshot" /\ Goto("main") /\ Log("snapshot") /\ UNCHANGED position
    <2>1. /\ pc = "logSnapshot" /\ pc' = "main" /\ log' = log \cup {"snapshot"}
          /\ UNCHANGED <<csv, parsedLog, skip, toSend, sent, outcome, dropped>>
          /\ UNCHANGED <<nonce, pool, allowance, airdrops, gatewayPaid, raced>>
        BY <1>2 DEF Goto, Log, position, awaiting, onChain, history
    <2>2. PoolInv'
        BY <2>1, KeptPool
    <2>3. csv \in Snapshots
        BY <2>1 DEF AirdropInv, RunInv
    <2>4. LogInv'
        BY <2>1, <2>3 DEF AirdropInv, LogInv
    <2>5. RunInv'
        BY <2>1 DEF AirdropInv, RunInv, AtGateway, AtUsers
    <2>6. AwaitInv'
        BY <2>1 DEF AirdropInv, AwaitInv
    <2>7. DueInv'
        BY <2>1, KeptFacts DEF AirdropInv, DueInv, AtGateway, AtUsers
    <2>8. RaceFreeInv'
        BY <2>1, KeptFacts, KeptPool DEF RaceFreeInv, AtGateway
    <2> QED
        BY <2>2, <2>4, <2>5, <2>6, <2>7, <2>8 DEF AirdropInv
<1> QED
    BY <1>1, <1>2 DEF Snapshot

\* What a run sends keeps the invariant when it may be sent here, and is what
\* the others send for the nonce.
LEMMA SendKeepsInv ==
    ASSUME AirdropInv, NEW kind \in Kinds, NEW transfers, NEW tx,
           tx = [kind |-> kind, transfers |-> transfers, nonce |-> nonce],
           sent = Nothing, sent' = tx, pool' = pool \cup {tx}, tx # Nothing,
           UNCHANGED <<pc, outcome, dropped, files, position, nonce, allowance,
                       airdrops, gatewayPaid, history>>,
           pc \in {"main", "transfer", "approve", "batches"},
           kind = "deploy" <=> pc = "main",
           pc \in {"transfer", "approve"} => kind = pc,
           kind = "deploy" => "multiSend" \notin parsedLog,
           kind = "transfer" => transfers = <<>>,
           kind = "approve" => allowance = 0 /\ transfers \in Batches,
           kind = "multiSendToken" => /\ allowance # 0 /\ transfers \in Batches
                                      /\ toSend # {} /\ transfers = Transfers(FirstOf(toSend)),
           pc = "batches" => kind = "multiSendToken"
    PROVE  AirdropInv'
<1>1. /\ UNCHANGED <<csv, log, pc, parsedLog, skip, toSend, outcome, dropped>>
      /\ UNCHANGED <<nonce, allowance, airdrops, gatewayPaid, raced>>
    BY DEF files, position, history
<1>2. outcome = Nothing
    BY DEF AirdropInv, AwaitInv
<1>3. LogInv' /\ RunInv'
    BY <1>1 DEF AirdropInv, LogInv, RunInv
<1>4. PoolInv'
    <2>1. /\ tx = [kind |-> tx.kind, transfers |-> tx.transfers, nonce |-> nonce]
          /\ tx.kind = kind /\ tx.transfers = transfers
        OBVIOUS
    <2>2. kind = "deploy" => "multiSend" \notin log
        BY DEF AirdropInv, RunInv
    <2>3. kind = "transfer" => "gateway" \notin log
        BY DEF AirdropInv, RunInv, AtGateway, Kinds
    <2>4. kind \in {"approve", "multiSendToken"} => "gateway" \in log
        BY DEF AirdropInv, RunInv, AtUsers
    <2>5. Batches' = Batches
        BY <1>1, KeptFacts
    <2> QED
        BY <1>1, <2>1, <2>2, <2>3, <2>4, <2>5 DEF AirdropInv, PoolInv
<1>5. AwaitInv'
    <2>1. Transfers(FirstOf(toSend))' = Transfers(FirstOf(toSend))
        BY <1>1 DEF Transfers, Restrict, FirstOf, Ahead
    <2>2. sent' = tx /\ sent'.kind = kind /\ sent'.transfers = transfers
        OBVIOUS
    <2>3. pc = "batches" => toSend # {} /\ transfers = Transfers(FirstOf(toSend))
        OBVIOUS
    <2>4. sent' \in pool' /\ sent' # Nothing
        OBVIOUS
    <2> QED
        BY <1>1, <1>2, <2>1, <2>2, <2>3, <2>4 DEF AirdropInv, AwaitInv
<1>6. DueInv'
    BY <1>1, <1>2, KeptFacts DEF AirdropInv, DueInv, FirstOf, Ahead
<1>7. RaceFreeInv'
    <2>1. tx.kind = kind /\ tx.transfers = transfers
        OBVIOUS
    <2>2. ~ raced /\ kind = "transfer" => gatewayPaid = 0
        BY <1>2 DEF AirdropInv, RaceFreeInv, Kinds
    <2>3. ~ raced /\ kind = "multiSendToken" => transfers = Transfers(FirstOf(Unpaid))
        BY <1>2 DEF AirdropInv, RaceFreeInv
    <2>4. (toSend \ FirstOf(toSend))' = toSend \ FirstOf(toSend)
        BY <1>1 DEF FirstOf, Ahead
    <2>5. Transfers(FirstOf(Unpaid))' = Transfers(FirstOf(Unpaid)) /\ Unpaid' = Unpaid /\ PaidOnce'
          /\ AirdroppedTo' = AirdroppedTo
        BY <1>1, KeptFacts
    <2> QED
        BY <1>1, <2>1, <2>2, <2>3, <2>4, <2>5 DEF AirdropInv, RaceFreeInv
<1> QED
    BY <1>3, <1>4, <1>5, <1>6, <1>7 DEF AirdropInv

\* A batch is a payment, and no payment is too.
LEMMA PaymentFacts ==
    /\ <<>> \in Payments
    /\ csv \in Snapshots => Batches \subseteq Payments
    /\ \A kind \in Kinds, transfers \in Payments, n \in Nat :
          [kind |-> kind, transfers |-> transfers, nonce |-> n] # Nothing
<1>1. <<>> \in Payments
    <2>1. <<>> \in [{} -> Nat]
        BY DOMAIN <<>> = {}
    <2> QED
        BY <2>1 DEF Payments
<1>2. ASSUME csv \in Snapshots, NEW S \in SUBSET DOMAIN csv
      PROVE  Transfers(S) \in Payments
    <2>1. S \in SUBSET Range(HolderOrder)
        BY <1>2, SnapshotFacts
    <2>2. Transfers(S) = [h \in S |-> csv[h]]
        BY DEF Transfers, Restrict
    <2>3. Transfers(S) \in [S -> Nat]
        BY <1>2, <2>2, SnapshotFacts
    <2> QED
        BY <2>1, <2>3 DEF Payments
<1>3. ASSUME NEW kind \in Kinds, NEW transfers \in Payments, NEW n \in Nat
      PROVE  [kind |-> kind, transfers |-> transfers, nonce |-> n] # Nothing
    <2>1. Nothing \notin [kind : Kinds, transfers : Payments, nonce : Nat]
        BY AirdropAssumption
    <2> QED
        BY <2>1
<1> QED
    BY <1>1, <1>2, <1>3 DEF Batches

\* Sending keeps the invariant, at each of the steps that send.
LEMMA SendStepKeepsInv ==
    ASSUME AirdropInv, NEW step \in {"main", "transfer", "approve", "batches"},
           NEW kind \in Kinds, NEW transfers \in Payments, Send(step, kind, transfers),
           kind = "deploy" <=> step = "main",
           step \in {"transfer", "approve"} => kind = step,
           kind = "deploy" => "multiSend" \notin parsedLog,
           kind = "transfer" => transfers = <<>>,
           kind = "approve" => allowance = 0 /\ transfers \in Batches,
           kind = "multiSendToken" /\ Executable([kind |-> kind, transfers |-> transfers, nonce |-> nonce]) =>
               allowance # 0,
           kind = "multiSendToken" => /\ transfers \in Batches
                                      /\ toSend # {} /\ transfers = Transfers(FirstOf(toSend)),
           step = "batches" => kind = "multiSendToken"
    PROVE  AirdropInv'
<1> DEFINE tx == [kind |-> kind, transfers |-> transfers, nonce |-> nonce]
<1>1. tx # Nothing
    BY PaymentFacts DEF AirdropInv, PoolInv
<1>2. pc = step /\ sent = Nothing
    BY DEF Send
<1>3. CASE Stop
    BY <1>3, StopKeepsInv
<1>4. CASE /\ Executable(tx) /\ sent' = tx /\ pool' = pool \cup {tx}
           /\ UNCHANGED <<pc, outcome, dropped, files, position, nonce, allowance,
                          airdrops, gatewayPaid, history>>
    <2>1. kind = "multiSendToken" => allowance # 0
        BY <1>4
    <2>2. tx = [kind |-> kind, transfers |-> transfers, nonce |-> nonce]
        OBVIOUS
    <2> HIDE DEF tx
    <2> QED
        BY <1>1, <1>2, <1>4, <2>1, <2>2, SendKeepsInv
<1> QED
    BY <1>3, <1>4 DEF Send

\* A run goes on when its transaction was mined or replaced: nothing is pending.
LEMMA ConfirmedFacts ==
    ASSUME AirdropInv, NEW step, Confirmed(step)
    PROVE  /\ pc = step /\ outcome \in {"mined", "replaced"} /\ outcome # Nothing
           /\ sent # Nothing /\ pool = {} /\ sent' = Nothing /\ outcome' = Nothing
           /\ dropped' = (dropped \/ (step = "batches" /\ outcome = "replaced"))
           /\ UNCHANGED <<nonce, pool, allowance, airdrops, gatewayPaid, raced>>
           /\ UNCHANGED files => LogInv' /\ PoolInv'
<1>1. /\ pc = step /\ outcome \in {"mined", "replaced"} /\ sent' = Nothing /\ outcome' = Nothing
      /\ dropped' = (dropped \/ (step = "batches" /\ outcome = "replaced"))
      /\ UNCHANGED <<nonce, pool, allowance, airdrops, gatewayPaid, raced>>
    BY DEF Confirmed, onChain, history
<1>2. outcome # Nothing
    BY <1>1, AirdropAssumption
<1>3. sent # Nothing /\ pool = {}
    BY <1>2 DEF AirdropInv, AwaitInv
<1>4. UNCHANGED files => LogInv' /\ PoolInv'
    BY <1>1, KeptPool DEF AirdropInv, LogInv, files
<1> QED
    BY <1>1, <1>2, <1>3, <1>4

LEMMA DeployKeepsInv ==
    ASSUME AirdropInv, DeployMultiSend
    PROVE  AirdropInv'
<1>1. CASE pc = "main" /\ "multiSend" \in parsedLog /\ Goto(AfterMultiSend) /\ UNCHANGED <<files, position>>
    <2>1. /\ pc = "main" /\ pc' \in {"verify", "airdrop"} /\ sent = Nothing
          /\ UNCHANGED <<csv, log, parsedLog, skip, toSend, sent, outcome, dropped>>
          /\ UNCHANGED <<airdrops, gatewayPaid, raced>>
        BY <1>1 DEF Goto, AfterMultiSend, files, position, awaiting, onChain, history, AirdropInv, AwaitInv
    <2>2. PoolInv' /\ LogInv'
        BY <1>1, MovesFacts DEF Goto, history
    <2>3. RunInv'
        BY <1>1, <2>1 DEF AirdropInv, RunInv, AtGateway, AtUsers
    <2>4. AwaitInv'
        BY <1>1, <2>1 DEF AirdropInv, AwaitInv, Goto, onChain
    <2>5. DueInv'
        BY <2>1, KeptFacts DEF AirdropInv, DueInv, AtGateway, AtUsers
    <2>6. RaceFreeInv'
        BY <1>1, <2>1, KeptFacts, MovesFacts DEF RaceFreeInv, AtGateway, Goto, history
    <2> QED
        BY <2>2, <2>3, <2>4, <2>5, <2>6 DEF AirdropInv
<1>2. CASE "multiSend" \notin parsedLog /\ Send("main", "deploy", <<>>)
    BY <1>2, PaymentFacts, SendStepKeepsInv DEF Kinds
<1>3. CASE Confirmed("main") /\ pc' = "logMultiSend" /\ UNCHANGED <<files, position>>
    <2>1. /\ UNCHANGED <<csv, log, parsedLog, skip, toSend>>
          /\ "multiSend" \notin parsedLog
        BY <1>3, ConfirmedFacts DEF files, position, AirdropInv, AwaitInv
    <2>2. RunInv'
        BY <1>3, <2>1, ConfirmedFacts DEF AirdropInv, RunInv, LogInv, AtGateway, AtUsers
    <2>3. AwaitInv'
        BY <1>3, ConfirmedFacts DEF AwaitInv
    <2>4. DueInv'
        BY <1>3, <2>1, ConfirmedFacts, KeptFacts DEF AirdropInv, DueInv, AtGateway, AtUsers
    <2>5. RaceFreeInv'
        BY <1>3, <2>1, ConfirmedFacts, KeptFacts DEF RaceFreeInv, AtGateway
    <2> QED
        BY <1>3, <2>2, <2>3, <2>4, <2>5, ConfirmedFacts DEF AirdropInv
<1>4. CASE pc = "logMultiSend" /\ Goto(AfterMultiSend) /\ Log("multiSend") /\ UNCHANGED position
    <2>1. /\ pc = "logMultiSend" /\ pc' \in {"verify", "airdrop"} /\ sent = Nothing /\ pool = {}
          /\ log' = log \cup {"multiSend"}
          /\ UNCHANGED <<csv, parsedLog, skip, toSend, sent, outcome, dropped>>
          /\ UNCHANGED <<nonce, pool, allowance, airdrops, gatewayPaid, raced>>
        BY <1>4 DEF Goto, Log, AfterMultiSend, position, awaiting, onChain, history, AirdropInv, AwaitInv
    <2>2. PoolInv' /\ LogInv'
        BY <2>1, KeptPool DEF AirdropInv, LogInv, RunInv
    <2>3. RunInv'
        BY <2>1 DEF AirdropInv, RunInv, AtGateway, AtUsers
    <2>4. AwaitInv'
        BY <2>1 DEF AirdropInv, AwaitInv
    <2>5. DueInv'
        BY <2>1, KeptFacts DEF AirdropInv, DueInv, AtGateway, AtUsers
    <2>6. RaceFreeInv'
        BY <2>1, KeptFacts, KeptPool DEF RaceFreeInv, AtGateway
    <2> QED
        BY <2>2, <2>3, <2>4, <2>5, <2>6 DEF AirdropInv
<1> QED
    BY <1>1, <1>2, <1>3, <1>4 DEF DeployMultiSend

LEMMA ReadEventsKeepsInv ==
    ASSUME AirdropInv, ReadEvents
    PROVE  AirdropInv'
<1>1. /\ pc = "airdrop" /\ pc' = IF "gateway" \in parsedLog THEN "users" ELSE "gateway"
      /\ skip' = AirdroppedTo /\ sent = Nothing
      /\ UNCHANGED <<csv, log, parsedLog, toSend, sent, outcome, dropped>>
      /\ UNCHANGED <<nonce, pool, allowance, airdrops, gatewayPaid, raced>>
    BY DEF ReadEvents, Goto, files, awaiting, onChain, history, AirdropInv, AwaitInv
<1>2. PoolInv' /\ LogInv'
    BY <1>1, MovesFacts DEF files, awaiting, onChain
<1>3. RunInv'
    BY <1>1 DEF AirdropInv, RunInv, AtGateway, AtUsers
<1>4. AwaitInv'
    BY <1>1 DEF AirdropInv, AwaitInv
<1>5. DueInv'
    BY <1>1, KeptFacts DEF AirdropInv, DueInv, AtGateway, AtUsers
<1>6. RaceFreeInv'
    BY <1>1, KeptFacts, KeptPool DEF RaceFreeInv, AtGateway
<1> QED
    BY <1>2, <1>3, <1>4, <1>5, <1>6 DEF AirdropInv

LEMMA GatewayKeepsInv ==
    ASSUME AirdropInv, AirdropGateway
    PROVE  AirdropInv'
<1>1. CASE /\ pc = "gateway" /\ gatewayPaid = 0
           /\ Goto("transfer") /\ UNCHANGED <<files, position>>
    <2>1. /\ pc = "gateway" /\ pc' = "transfer" /\ sent = Nothing
          /\ UNCHANGED <<csv, log, parsedLog, skip, toSend, sent, outcome, dropped>>
          /\ UNCHANGED <<nonce, pool, allowance, airdrops, gatewayPaid, raced>>
        BY <1>1 DEF Goto, files, position, awaiting, onChain, history, AirdropInv, AwaitInv
    <2>2. PoolInv' /\ LogInv'
        BY <2>1, MovesFacts DEF files, awaiting, onChain
    <2>3. RunInv'
        BY <2>1 DEF AirdropInv, RunInv, AtGateway, AtUsers
    <2>4. AwaitInv'
        BY <2>1 DEF AirdropInv, AwaitInv
    <2>5. DueInv'
        BY <2>1, KeptFacts DEF AirdropInv, DueInv, AtGateway, AtUsers
    <2>6. RaceFreeInv'
        BY <1>1, <2>1, KeptFacts, KeptPool DEF AirdropInv, RaceFreeInv, AtGateway
    <2> QED
        BY <2>2, <2>3, <2>4, <2>5, <2>6 DEF AirdropInv
<1>2. CASE Send("transfer", "transfer", <<>>)
    BY <1>2, PaymentFacts, SendStepKeepsInv DEF Kinds
<1>3. CASE Confirmed("transfer") /\ pc' = "checkGateway" /\ UNCHANGED <<files, position>>
    <2>1. UNCHANGED <<csv, log, parsedLog, skip, toSend>>
        BY <1>3 DEF files, position
    <2>2. RunInv'
        BY <1>3, <2>1, ConfirmedFacts DEF AirdropInv, RunInv, AtGateway, AtUsers
    <2>3. AwaitInv'
        BY <1>3, ConfirmedFacts DEF AwaitInv
    <2>4. DueInv'
        BY <1>3, <2>1, ConfirmedFacts, KeptFacts DEF AirdropInv, DueInv, AtGateway, AtUsers
    <2>5. RaceFreeInv'
        BY <1>3, <2>1, ConfirmedFacts, KeptFacts DEF AirdropInv, RaceFreeInv, AtGateway
    <2> QED
        BY <1>3, <2>2, <2>3, <2>4, <2>5, ConfirmedFacts DEF AirdropInv
<1>4. CASE /\ pc = "checkGateway" /\ gatewayPaid = 1
           /\ Log("gateway") /\ Goto("users") /\ UNCHANGED position
    <2>1. /\ pc = "checkGateway" /\ pc' = "users" /\ sent = Nothing /\ pool = {}
          /\ log' = log \cup {"gateway"}
          /\ UNCHANGED <<csv, parsedLog, skip, toSend, sent, outcome, dropped>>
          /\ UNCHANGED <<nonce, pool, allowance, airdrops, gatewayPaid, raced>>
        BY <1>4 DEF Goto, Log, position, awaiting, onChain, history, AirdropInv, AwaitInv
    <2>2. PoolInv'
        BY <2>1, KeptPool
    <2>3. LogInv' /\ RunInv'
        BY <1>4, <2>1 DEF AirdropInv, LogInv, RunInv, AtGateway, AtUsers
    <2>4. AwaitInv'
        BY <2>1 DEF AirdropInv, AwaitInv
    <2>5. DueInv'
        BY <2>1, KeptFacts DEF AirdropInv, DueInv, AtGateway, AtUsers
    <2>6. RaceFreeInv'
        BY <2>1, KeptFacts, KeptPool DEF AirdropInv, RaceFreeInv, AtGateway
    <2> QED
        BY <2>2, <2>3, <2>4, <2>5, <2>6 DEF AirdropInv
<1>5. CASE Stop
    BY <1>5, StopKeepsInv
<1> QED
    BY <1>1, <1>2, <1>3, <1>4, <1>5 DEF AirdropGateway

LEMMA ListKeepsInv ==
    ASSUME AirdropInv, ListTransfers
    PROVE  AirdropInv'
<1>1. CASE Stop
    BY <1>1, StopKeepsInv
<1>2. CASE ~ Stop
    <2>1. /\ pc = "users" /\ pc' = "approve" /\ toSend' = Due \ skip /\ sent = Nothing
          /\ UNCHANGED <<csv, log, parsedLog, skip, sent, outcome, dropped>>
          /\ UNCHANGED <<nonce, pool, allowance, airdrops, gatewayPaid, raced>>
        BY <1>2 DEF ListTransfers, Goto, files, awaiting, onChain, history, AirdropInv, AwaitInv
    <2>2. PoolInv' /\ LogInv'
        BY <2>1, MovesFacts DEF files, awaiting, onChain
    <2>3. RunInv'
        BY <2>1 DEF AirdropInv, RunInv, AtGateway, AtUsers
    <2>4. AwaitInv'
        BY <2>1 DEF AirdropInv, AwaitInv
    <2>5. DueInv'
        BY <2>1, KeptFacts DEF AirdropInv, DueInv, AtGateway, AtUsers, Unpaid
    <2>6. RaceFreeInv'
        BY <2>1, KeptFacts, KeptPool DEF AirdropInv, RaceFreeInv, AtGateway, Unpaid
    <2> QED
        BY <2>2, <2>3, <2>4, <2>5, <2>6 DEF AirdropInv
<1> QED
    BY <1>1, <1>2

LEMMA ApproveKeepsInv ==
    ASSUME AirdropInv, Approve
    PROVE  AirdropInv'
<1>1. CASE ~ HasApproval /\ Send("approve", "approve", Transfers(toSend))
    <2>1. pc = "approve"
        BY <1>1 DEF Send
    <2>2. csv \in Snapshots /\ toSend \in SUBSET DOMAIN csv
        BY <2>1, SnapshotFacts DEF AirdropInv, LogInv, RunInv, DueInv
    <2>3. Transfers(toSend) \in Batches /\ Transfers(toSend) \in Payments
        BY <2>2, BatchFacts, PaymentFacts
    <2> QED
        BY <1>1, <2>3, SendStepKeepsInv DEF Kinds, HasApproval
<1>2. CASE Confirmed("approve") /\ pc' = "batches" /\ UNCHANGED <<files, position>>
    <2>1. UNCHANGED <<csv, log, parsedLog, skip, toSend>>
        BY <1>2 DEF files, position
    <2>2. RunInv'
        BY <1>2, <2>1, ConfirmedFacts DEF AirdropInv, RunInv, AtGateway, AtUsers
    <2>3. AwaitInv'
        BY <1>2, ConfirmedFacts DEF AwaitInv
    <2>4. DueInv'
        BY <1>2, <2>1, ConfirmedFacts, KeptFacts, AirdropAssumption DEF AirdropInv, DueInv, AtGateway, AtUsers
    <2>5. RaceFreeInv'
        BY <1>2, <2>1, ConfirmedFacts, KeptFacts, AirdropAssumption DEF AirdropInv, RaceFreeInv, AtGateway
    <2> QED
        BY <1>2, <2>2, <2>3, <2>4, <2>5, ConfirmedFacts DEF AirdropInv
<1>3. CASE pc = "approve" /\ sent = Nothing /\ Goto("batches") /\ UNCHANGED <<files, position>>
    <2>1. /\ pc = "approve" /\ pc' = "batches" /\ sent = Nothing /\ outcome = Nothing
          /\ UNCHANGED <<csv, log, parsedLog, skip, toSend, sent, outcome, dropped>>
          /\ UNCHANGED <<nonce, pool, allowance, airdrops, gatewayPaid, raced>>
        BY <1>3 DEF Goto, files, position, awaiting, onChain, history, AirdropInv, AwaitInv
    <2>2. PoolInv' /\ LogInv'
        BY <2>1, MovesFacts DEF files, awaiting, onChain
    <2>3. RunInv'
        BY <2>1 DEF AirdropInv, RunInv, AtGateway, AtUsers
    <2>4. AwaitInv'
        BY <2>1 DEF AirdropInv, AwaitInv
    <2>5. DueInv'
        BY <2>1, KeptFacts, AirdropAssumption DEF AirdropInv, DueInv, AtGateway, AtUsers
    <2>6. RaceFreeInv'
        BY <2>1, KeptFacts, KeptPool, AirdropAssumption DEF AirdropInv, RaceFreeInv, AtGateway
    <2> QED
        BY <2>2, <2>3, <2>4, <2>5, <2>6 DEF AirdropInv
<1> QED
    BY <1>1, <1>2, <1>3 DEF Approve

LEMMA BatchesKeepInv ==
    ASSUME AirdropInv, SendBatches
    PROVE  AirdropInv'
<1>1. CASE toSend # {} /\ Send("batches", "multiSendToken", Transfers(FirstOf(toSend)))
    <2>1. pc = "batches"
        BY <1>1 DEF Send
    <2>2. csv \in Snapshots /\ toSend \subseteq DOMAIN csv /\ DOMAIN csv \subseteq Range(HolderOrder)
        BY <2>1, SnapshotFacts DEF AirdropInv, LogInv, RunInv, DueInv
    <2> DEFINE batch == FirstOf(toSend)
               tx == [kind |-> "multiSendToken", transfers |-> Transfers(batch), nonce |-> nonce]
    <2>3. batch \in SUBSET DOMAIN csv /\ batch # {}
        BY <1>1, <2>2, FirstOfSome
    <2> HIDE DEF batch
    <2>4. /\ Transfers(batch) \in Batches /\ Transfers(batch) \in Payments
          /\ Total(Transfers(batch)) \in Nat /\ Total(Transfers(batch)) # 0
        BY <2>2, <2>3, BatchFacts, PaymentFacts
    <2>5. Executable(tx) => allowance # 0
        <3>1. Executable(tx) => allowance >= Total(Transfers(batch))
            BY DEF Executable
        <3>2. allowance \in Int
            BY DEF AirdropInv, PoolInv
        <3> HIDE DEF tx
        <3> QED
            BY <2>4, <3>1, <3>2
    <2>6. toSend # {} /\ Send("batches", "multiSendToken", Transfers(batch))
        BY <1>1 DEF batch
    <2>7. Transfers(batch) = Transfers(FirstOf(toSend))
        BY DEF batch
    <2> QED
        BY <2>4, <2>5, <2>6, <2>7, SendStepKeepsInv DEF Kinds
<1>2. CASE /\ Confirmed("batches") /\ UNCHANGED <<pc, files, parsedLog, skip>>
           /\ toSend' = toSend \ FirstOf(toSend)
    <2>1. UNCHANGED <<csv, log, pc, parsedLog, skip>>
        BY <1>2 DEF files
    <2>2. RunInv'
        BY <1>2, <2>1, ConfirmedFacts DEF AirdropInv, RunInv
    <2>3. AwaitInv'
        BY <1>2, <2>1, ConfirmedFacts DEF AwaitInv
    <2>4. DueInv'
        <3>1. ~ dropped' => Unpaid \subseteq toSend'
            BY <1>2, ConfirmedFacts DEF AirdropInv, DueInv
        <3>2. pc' = "batches" /\ outcome' = Nothing /\ Nothing # "mined"
            BY <1>2, ConfirmedFacts, AirdropAssumption
        <3>3. toSend' \subseteq Due
            BY <1>2, ConfirmedFacts DEF AirdropInv, DueInv
        <3> QED
            BY <1>2, <2>1, <3>1, <3>2, <3>3, ConfirmedFacts, KeptFacts DEF AirdropInv, DueInv, AtGateway, AtUsers
    <2>5. RaceFreeInv'
        <3>1. ~ raced => toSend' = Unpaid
            BY <1>2, ConfirmedFacts DEF AirdropInv, RaceFreeInv
        <3>2. outcome' = Nothing /\ Nothing \notin {"mined", "replaced"}
            BY <1>2, ConfirmedFacts, AirdropAssumption
        <3> QED
            BY <1>2, <2>1, <3>1, <3>2, ConfirmedFacts, KeptFacts DEF RaceFreeInv, AtGateway
    <2> QED
        BY <1>2, <2>2, <2>3, <2>4, <2>5, ConfirmedFacts DEF AirdropInv
<1>3. CASE pc = "batches" /\ toSend = {} /\ Goto("check") /\ UNCHANGED <<files, position>>
    <2>1. /\ pc = "batches" /\ pc' = "check" /\ sent = Nothing /\ outcome = Nothing /\ toSend = {}
          /\ UNCHANGED <<csv, log, parsedLog, skip, toSend, sent, outcome, dropped>>
          /\ UNCHANGED <<nonce, pool, allowance, airdrops, gatewayPaid, raced>>
        BY <1>3 DEF Goto, files, position, awaiting, onChain, history, AirdropInv, AwaitInv
    <2>2. PoolInv' /\ LogInv'
        BY <2>1, MovesFacts DEF files, awaiting, onChain
    <2>3. RunInv'
        BY <2>1 DEF AirdropInv, RunInv, AtGateway, AtUsers
    <2>4. AwaitInv'
        BY <2>1 DEF AirdropInv, AwaitInv
    <2>5. DueInv'
        BY <2>1, KeptFacts DEF AirdropInv, DueInv, AtGateway, AtUsers
    <2>6. RaceFreeInv'
        BY <2>1, KeptFacts, KeptPool DEF RaceFreeInv, AtGateway
    <2> QED
        BY <2>2, <2>3, <2>4, <2>5, <2>6 DEF AirdropInv
<1> QED
    BY <1>1, <1>2, <1>3 DEF SendBatches

LEMMA CheckKeepsInv ==
    ASSUME AirdropInv, CheckAirdrop
    PROVE  AirdropInv'
<1>1. CASE Stop
    BY <1>1, StopKeepsInv
<1>2. CASE ~ Stop
    <2>1. /\ pc = "check" /\ pc' = "verify" /\ ~ dropped /\ log' = log \cup {"success"}
          /\ UNCHANGED <<csv, parsedLog, skip, toSend, sent, outcome, dropped>>
          /\ UNCHANGED <<nonce, pool, allowance, airdrops, gatewayPaid, raced>>
        BY <1>2 DEF CheckAirdrop, Goto, Log, position, awaiting, onChain, history
    <2>2. PoolInv'
        BY <2>1, KeptPool
    <2>3. LogInv' /\ RunInv'
        BY <2>1 DEF AirdropInv, LogInv, RunInv, AtGateway, AtUsers
    <2>4. AwaitInv'
        BY <2>1 DEF AirdropInv, AwaitInv
    <2>5. DueInv'
        BY <2>1, KeptFacts DEF AirdropInv, DueInv, AtGateway, AtUsers
    <2>6. RaceFreeInv'
        BY <2>1, KeptFacts, KeptPool DEF RaceFreeInv, AtGateway
    <2> QED
        BY <2>2, <2>3, <2>4, <2>5, <2>6 DEF AirdropInv
<1> QED
    BY <1>1, <1>2

LEMMA VerifyKeepsInv ==
    ASSUME AirdropInv, VerifyAirdrop
    PROVE  AirdropInv'
<1>1. CASE Stop
    BY <1>1, StopKeepsInv
<1>2. CASE ~ Stop
    <2>1. /\ pc = "verify" /\ pc' = "done"
          /\ UNCHANGED <<csv, log, parsedLog, skip, toSend, sent, outcome, dropped>>
          /\ UNCHANGED <<nonce, pool, allowance, airdrops, gatewayPaid, raced>>
        BY <1>2 DEF VerifyAirdrop, Goto, files, position, awaiting, onChain, history
    <2>2. PoolInv' /\ LogInv'
        BY <2>1, MovesFacts DEF files, awaiting, onChain
    <2>3. RunInv' /\ AwaitInv'
        BY <2>1 DEF AirdropInv, RunInv, AwaitInv, AtGateway, AtUsers
    <2>4. DueInv'
        BY <2>1, KeptFacts DEF AirdropInv, DueInv, AtGateway, AtUsers
    <2>5. RaceFreeInv'
        BY <2>1, KeptFacts, KeptPool DEF RaceFreeInv, AtGateway
    <2> QED
        BY <2>2, <2>3, <2>4, <2>5 DEF AirdropInv
<1> QED
    BY <1>1, <1>2

LEMMA InitAirdropInv == Init => AirdropInv
<1> SUFFICES ASSUME Init PROVE AirdropInv
    OBVIOUS
<1> USE DEF Init
<1>1. airdrops = <<>> /\ DOMAIN airdrops = {}
    OBVIOUS
<1>2. LogInv /\ RunInv /\ PoolInv
    BY <1>1 DEF LogInv, RunInv, PoolInv, AtGateway, AtUsers
<1>3. AwaitInv
    BY AirdropAssumption DEF AwaitInv
<1>4. DueInv
    BY <1>1 DEF DueInv, AtGateway, AtUsers
<1>5. RaceFreeInv
    BY <1>1 DEF RaceFreeInv, PaidOnce, AtGateway
<1> QED
    BY <1>2, <1>3, <1>4, <1>5 DEF AirdropInv

LEMMA NextAirdropInv ==
    ASSUME AirdropInv, [Next]_vars
    PROVE  AirdropInv'
<1>1. CASE Start
    BY <1>1, StartKeepsInv
<1>2. CASE Script
    BY <1>2, SnapshotKeepsInv, DeployKeepsInv, ReadEventsKeepsInv, GatewayKeepsInv, ListKeepsInv,
       ApproveKeepsInv, BatchesKeepInv, CheckKeepsInv, VerifyKeepsInv, StopKeepsInv DEF Script
<1>3. CASE MineNext
    BY <1>3, MineKeepsInv DEF MineNext
<1>4. CASE Crash
    BY <1>4, StopKeepsInv
<1>5. CASE UNCHANGED vars
    <2>1. /\ UNCHANGED <<csv, log, pc, parsedLog, skip, toSend, sent, outcome, dropped>>
          /\ UNCHANGED <<nonce, pool, allowance, airdrops, gatewayPaid, raced>>
        BY <1>5 DEF vars, files, position, awaiting, onChain, history
    <2>2. PoolInv' /\ LogInv'
        BY <2>1, MovesFacts DEF files, awaiting, onChain
    <2>3. Transfers(FirstOf(toSend))' = Transfers(FirstOf(toSend))
          /\ (toSend \ FirstOf(toSend))' = toSend \ FirstOf(toSend)
        BY <2>1 DEF Transfers, Restrict, FirstOf, Ahead
    <2>4. RunInv' /\ AwaitInv'
        BY <2>1, <2>3 DEF AirdropInv, RunInv, AwaitInv
    <2>5. DueInv'
        BY <2>1, <2>3, KeptFacts DEF AirdropInv, DueInv
    <2>6. RaceFreeInv'
        BY <2>1, <2>3, KeptFacts, KeptPool DEF AirdropInv, RaceFreeInv
    <2> QED
        BY <2>2, <2>4, <2>5, <2>6 DEF AirdropInv
<1> QED
    BY <1>1, <1>2, <1>3, <1>4, <1>5 DEF Next

\* The log, the run and what is pending fit together, whatever stops when.
THEOREM AirdropInvariant == Spec => []AirdropInv
<1>1. Init => AirdropInv
    BY InitAirdropInv
<1>2. AirdropInv /\ [Next]_vars => AirdropInv'
    BY NextAirdropInv
<1> QED
    BY <1>1, <1>2, PTL DEF Spec

\* No holder is airdropped to twice, nor the gateway paid twice, however often
\* the script stops: only a transaction of an earlier run that is mined after
\* a later one has read the events can do that.
THEOREM HoldersPaidOnce == Spec => []PaidOnce
<1>1. AirdropInv => PaidOnce
    BY DEF AirdropInv, RaceFreeInv
<1> QED
    BY <1>1, AirdropInvariant, PTL

\* When the log says that the airdrop succeeded, everybody that was due has
\* the amount of the snapshot, raced or not: a run whose transaction was
\* replaced never logs success.
THEOREM SuccessMeansPaid == Spec => []SuccessIsPaid
<1>1. ASSUME AirdropInv, "success" \in log
      PROVE  /\ gatewayPaid >= 1
             /\ \A h \in Due : \E i \in DOMAIN airdrops : h \in DOMAIN airdrops[i] /\ airdrops[i][h] = csv[h]
    <2>1. gatewayPaid >= 1 /\ csv \in Snapshots /\ Unpaid = {}
        BY <1>1 DEF AirdropInv, LogInv, DueInv
    <2>2. ASSUME NEW h \in Due
          PROVE  \E i \in DOMAIN airdrops : h \in DOMAIN airdrops[i] /\ airdrops[i][h] = csv[h]
        <3>1. PICK i \in DOMAIN airdrops : h \in DOMAIN airdrops[i]
            BY <2>1 DEF Unpaid, AirdroppedTo
        <3>2. airdrops[i] \in Batches
            <4>1. airdrops = <<>> \/ airdrops \in Seq(Batches)
                BY <1>1 DEF AirdropInv, DueInv
            <4>2. airdrops # <<>>
                BY <3>1
            <4> QED
                BY <3>1, <4>1, <4>2
        <3>3. PICK S \in SUBSET DOMAIN csv : airdrops[i] = Transfers(S)
            BY <3>2 DEF Batches
        <3>4. airdrops[i][h] = csv[h]
            BY <2>1, <3>1, <3>3, BatchFacts
        <3> QED
            BY <3>1, <3>4
    <2> QED
        BY <2>1, <2>2
<1>2. AirdropInv => SuccessIsPaid
    BY <1>1 DEF SuccessIsPaid
<1> QED
    BY <1>2, AirdropInvariant, PTL
=============================================================================
