# Formal model of the Chainflip Ethereum contracts

This directory models the contracts of `src/contracts/`, the airdrop script of `src/scripts/` and the BSC validator tool of `src/ci/docker/bsc/` in TLA+, checks the models with TLC on small instances, and proves the results that matter most for all instances with TLAPS. Source references are to files under `src/contracts/` unless a path is given.

    tlc -config KeyManager.cfg MCKeyManager    # section 3 names the module of every .cfg file
    tlapm KeyManager_proofs.tla                # and the other modules *_proofs, SumLemmas, ChannelLemmas

## 1. The system

The State Chain, a separate blockchain, controls funds and the FLIP token on Ethereum-like chains by signing messages with an aggregate Schnorr key. Anybody relays a signed message to a contract. The contract asks the KeyManager whether the aggregate key signed this very call, which uses up the message's nonce, and then acts.

| Component | State | Operations | Uses / used by |
|---|---|---|---|
| KeyManager (`KeyManager.sol`, `abstract/SchnorrSECP256K1.sol`) | aggregate, governance and community key, used nonces, time of the last acceptance | consumeKeyNonce; set each key by the aggregate key or by its holder; set the aggregate key by governance after 2 days of silence | called by every signed function; its keys are read by the guards |
| AggKeyNonceConsumer | reference to the KeyManager | updateKeyManager, modifier consumesKeyNonce | base of the gateway and the Vault |
| GovernanceCommunityGuarded | suspended, communityGuardDisabled | suspend, resume, enable/disableCommunityGuard | base of the gateway and the Vault |
| StateChainGateway | pending redemptions, minimum funding, block of the last supply update | fund, registerRedemption, executeRedemption, updateFlipSupply, updateFlipIssuer, setMinFunding, govWithdraw, govUpdateFlipIssuer | FLIP, KeyManager |
| FLIP | balances, supply, issuer | transfer, mint, burn, updateIssuer | issued by the gateway |
| Vault | community guard, suspension, KeyManager; funds of all assets | batches of deploy/fetch/transfer, fallbacks, swaps, calls, actions, govWithdraw | KeyManager, Deposit, Multicall, receivers |
| Deposit | (its Vault) | fetch, forwarding of native tokens | deployed by the Vault |
| Multicall | isRunning; tokens and allowance during a run | run | called by the Vault; calls anything |
| CFReceiver | the Vault it believes | cfReceive, cfReceivexCall, updateCfVault | called by the Vault |
| ScUtils | (the gateway and the Vault) | deposits by users and by swaps | pays gateway, Vault or anybody |
| TokenVestingNoStaking, TokenVestingStaking, AddressHolder | released amounts, revoked, roles, staked amounts, addresses | release, revoke, stake, unstake, claim, transfers of roles | gateway, staking provider |
| airdrop script (`src/scripts/snapshot_and_airdrop.py`) | a csv and a log file; on the chain, events and pending transactions | snapshot, send what is missing, verify | FLIP, MultiSend |
| StakeHub binding (`src/ci/docker/bsc/create-validator/abi/StakeHub.go`) | iterators and watch goroutines with their channels | Filter, Watch, Parse and Next, Error, Close for each of 19 events | an Ethereum node |
| create-validator (`src/ci/docker/bsc/create-validator/main.go`) | none between runs | prepares and sends one transaction | StakeHub, a node |

### What is hard

* **Delivery.** A signed message may be delivered never, late, out of order, several times, by anyone, to another function, another chain, or another KeyManager. The State Chain retries with another message over the same nonce.
* **Interleaving of roles.** Governance, the community, the State Chain and ordinary accounts act independently, and every transaction may fall between any two others. Their keys change meanwhile.
* **Upgrades.** KeyManagers and gateways replace one another while the old ones keep existing, with the same keys and other nonces.
* **Time.** Redemptions have a delay and an expiry, the dead man's switch a timeout, all with boundaries to the second.
* **Failure.** A transaction that reverts undoes all of its steps, the nonce included. A payment may fail for lack of funds, and is retried or expires.
* **Re-entrance.** The Vault pays and calls contracts of users in the middle of a transaction, and the Multicall runs whole lists of calls; those contracts may submit further signatures, pay in, or call one another.
* **Partial failure.** In a batch of the Vault each transfer may fail on its own, a fetch takes the batch with it, and a failed run of the Multicall is undone while its nonce stays used.
* **Rounding and order.** Vested amounts are computed in integers from a balance that payments, releases and a revocation change in any order. Staked amounts are counted over several providers, whose tokens gain and lose value.
* **Crash and rerun.** The airdrop may stop anywhere, with transactions in flight, and the next run works out from events what is left to do.
* **Goroutines.** Each iterator and subscription of the binding has a producer, a channel and a client that may close it at any moment, while the connection may fail.
* **Progress.** A redemption that nobody executes, or that can not be paid, must not block its account for ever.

What makes each component correct: the KeyManager accepts each signature at most once, for the one instance and the one call it was made for, and lets governance in only after silence. The gateway pays each signed redemption at most once, as it was signed, after its delay and before its expiry, and keeps it until then. FLIP leaves a gateway only in the ways the code names, and issuance only passes by the issuer's consent. Supply follows the State Chain's latest block. Suspension stops what it should. The Vault: its events account for its balances whatever fails, runs do not mix, and while it is suspended funds go to nobody but the governor in an approved emergency. Vesting: nobody gets more than has vested, and what has vested is not taken back. Airdrop: every holder is paid exactly once over any number of interrupted runs. Binding: a client gets every log it asked for once and in order, its calls return, and it learns when the feed breaks.

`PROJECT.json` lists the hazards one by one, each with the line where it bites and the properties that address it.

## 2. Modules

| Module | Models | State and actions |
|---|---|---|
| `Shared` | `abstract/Shared.sol` | addresses, accounts, the nz checks |
| `KeyManager` | every KeyManager instance | a variable per field, a function over the instances `<<chain, address>>`; an action per external function; `AcceptSignature` is `_consumeKeyNonce` |
| `AggKeyNonceConsumer` | the base contract; extends `KeyManager` | `keyManager`, a function over the contracts |
| `GovernanceCommunityGuarded` | the base contract; extends the former | `suspended`, `communityGuardDisabled` |
| `FLIP` | the token | `balanceOf`, `totalSupply`, `issuer`; operators that take the caller, as `msg.sender` |
| `StateChainGateway` | the gateway and, through the modules above, all it works with | an action per external function, `GatewayStep`; `KeyManagerStep` is everything done to KeyManagers by others; `UseFlip` is FLIP called by accounts |
| `RedemptionVoucher` | abstract: what a signed redemption promises the State Chain | |
| `MCKeyManager`, `MCStateChainGateway` | instances for TLC: what the aggregate key signs in each scenario | |
| `KeyManager_proofs`, `StateChainGateway_proofs` | theorems and proofs | |
| `Assets` | native tokens and ERC20 tokens | `funds`, of every asset and party |
| `Deposit` | the Deposit contracts | `deposits`, those deployed; `Swept` is what constructors and fetches send |
| `Multicall` | the Multicall | `stack`, the code that is running; `isRunning`, `allowance`; an action per kind of call |
| `CFReceiver`, `ScUtils` | receivers of swaps and calls | `cfVault`; `told`, a history of what receivers were told |
| `Vault`, `Vault_proofs` | the Vault and, through the modules above and `GovernanceCommunityGuarded`, all it works with; theorems and proofs | an action per external function (`Submit`, `PayIn`, `GovWithdraw`, ...) |
| `PaymentOrders` | abstract: signed payments as orders of several lines, each order executed once and as a whole | |
| `Vesting` | what both vesting contracts have in common | roles, `balance`, `revoked` |
| `TokenVestingNoStaking` | the linear lockup | `released`; `ScheduleRespected` compares with the schedule in rational arithmetic |
| `TokenVestingStaking`, `AddressHolder` | the lockup of validators, and the addresses it uses | the counters, the provider's tokens; an action per function |
| `VestingContracts`, `VestingContracts_proofs` | either contract with the AddressHolder; theorems and proofs | `lockup` says which contract it is |
| `Airdrop`, `Airdrop_proofs` | the airdrop script over many runs, and the chain it sends to; theorems and proofs | files, `pc` and the run's variables, the account's nonce and pool; a batch is a function from holders to amounts |
| `LogFeed` | abstract: the logs a client asked for, once and in order | |
| `StakeHubEvents` | the event side of the StakeHub binding | a record per iterator and per watch goroutine, with its channel |
| `CreateValidator` | runs of the tool, the account's pool | a record per run |
| `ChannelLemmas`, `StakeHub_proofs` | lemmas on sequences as channels; theorems and proofs | |
| `SumLemmas` | sums over finite sets, and the induction that they rest on | |
| `MCVault`, `MCVesting`, `MCAirdrop`, `MCStakeHub` | instances for TLC | |

Module extension follows contract inheritance, and otherwise composition: `Vault` extends the modules of the contracts that it calls. `KeyManagerSimulation` and `VaultSimulation` make the compositions precise: every behaviour of the gateway's or the Vault's specification is one of the KeyManager specification.

In the modules of KeyManager and gateway one transaction is one step, since these contracts call no untrusted code. A modifier and the checks in a function's body are guards of the action; a check that fails reverts the transaction and so is a step that does not happen. That includes those checks the code makes after the nonce was consumed.

The Vault calls untrusted code, so there a transaction is many steps. `stack` holds the running code, innermost first, and `InControl` says who makes the next call. A contract of a user is a stack frame that may do anything a caller can do, submit signatures included, until it returns (`Return`). When a call fails and takes its transaction with it, all of its steps are undone and leave no trace; the model therefore follows only calls that are kept. A failed run of the Multicall, which the Vault survives, is the step `ActionsFail`. Others than the innermost code act between transactions only, when the stack is empty.

The binding has nineteen copies of the same code, generated from the ABI, that differ in the event's name, its fields and its indexed arguments. `StakeHubEvents` says it once; `Events` lists the nineteen, each mapped to its own copy.

History variables (`uses`, `lastUse`, `origin`, `payouts`) record how often and when a signature was accepted, which registration a pending redemption is due to, and how often each signature was paid; `received`, `withdrawn`, `failures` and `told` the Vault's ledger; `paidIn`, `toBeneficiary` and `atRevocation` that of a vesting. No guard reads them but bounds.

**Abstractions.**
`Signatures` is the set of everything the aggregate keys ever sign; a behaviour may submit any of them, any time, anywhere. keccak256 has no collisions (a hash is the record of the hashed fields), and Schnorr verification accepts exactly what the key signed.
Amounts and times are natural numbers: the code's uint256 and uint48 arithmetic is checked by Solidity 0.8 and `uint48(block.timestamp)` is exact for eight million years. OpenZeppelin's ERC20 leaves three operations unchecked, which rely on the total supply being the sum of the balances: `totalSupply` is therefore an integer in the model, and that it is that sum is a property (`SupplyIsHeld`), from which it follows that no operation wraps (`UncheckedIsSafe`).
ERC20 allowances are left out, but for the one that the Vault gives the Multicall: a funder or depositor is assumed to have approved what he pays.
All gateways have one `REDEMPTION_DELAY` (a gateway's is immutable, an upgrade could choose another). A KeyManager that a gateway is moved to is one that implements `KeyManager.sol`; the code can not check more than that it has code and the getters.
`govAction` emits an event and changes nothing; getters change nothing. `setFlip` only happens inside the deployer contracts' constructors, after which it reverts, so it is part of `SCGInit` and `DeployGateway`.
Of tokens the contracts rely on a transfer moving exactly the amount or failing. `Refusers` are the recipients whose transfers may fail; the choice is made anew for every transfer.
The staking provider is external: it swaps FLIP and stFLIP one to one, pays out later, and its rewards and slashing change balances of stFLIP. The governor of the AddressHolder may mix the minter, burner and token of several providers; a minter mints and a burner takes only its own provider's token.
StakeHub is external to the validator tool: it refuses a consensus key it knows, and may refuse a validator for reasons of its own (`refuses`), at any moment before it is registered.
Brownie, the chain and its mempool are external to the airdrop: a transaction is mined when its nonce is next, one of several with the same nonce; a run waits for its own. The three holders that the script skips are left out of the snapshot.
go-ethereum's `bind` and `event` packages are external to the binding. Logs arrive in the order of the chain; logs removed by a reorganisation are passed on by the binding like others and are not modelled.
Definitions marked `Wrong:` are not part of the specification. Each is a plausible mistake in the definition that follows it, kept to show that a property would notice it.

## 3. What is checked

All runs check every interleaving of the actions at their bounds. `CHECK_DEADLOCK FALSE` everywhere: a system whose signatures are all used up and whose clock is at its bound really may stop, as may a client that asks for nothing and an airdrop that is done.

| Run | Instance and bounds | Shows |
|---|---|---|
| `key_manager` (`KeyManager.cfg`) | three instances: two chains with the same address, and a successor; two aggregate keys and one invalid key; seven signatures over two nonces; timeout 2, four instants | typing, no replay, one message per nonce, dead man's switch, custody of the aggregate key |
| `redemption` (`Redemption.cfg`) | four registrations for two accounts, three nonces, delay 2, times 2 to 9 so that every start and expiry is passed on both sides; 2 FLIP in the gateway against up to 4 pending, so payments fail | a redemption is recorded exactly while one is due (`SCGTypeOK`); each payment once, as signed, in its window; outflow; live redemptions are kept; refinement of `RedemptionVoucher`; every registration is eventually paid, cleared or replaced |
| `supply` (`Supply.cfg`) | two gateways, eight signatures: updates for two blocks, one block twice, handover to a gateway, to a foreign contract, and (not acceptable) to an account and a redemption of the zero node ID | the supply is what is held; who issues, order of supply updates; an update signed for a gateway that no longer issues is refused with its nonce, not swallowed |
| `key_manager_upgrade` (`KeyManagerUpgrade.cfg`) | two KeyManagers, upgrade with and without checks and back, the same redemption signed for each, governance key changes and is renounced | suspension, and that only the current KeyManager's signatures count |
| `gov_withdraw_issuer` (`GovWithdrawIssuer.cfg`) | as `supply` | violated: see below |
| `vault_batch` (`VaultBatch.cfg`, `MCVault`) | seven signatures over three nonces: batches that deploy the same Deposit twice, fetch from one that another batch deploys, and pay more than there is before the fetch; a refusing recipient; an upgrade of the KeyManager; two units of each asset, two instants | the ledger, transfers last, funds frozen while suspended, refinement of `PaymentOrders` |
| `vault_runs` (`VaultRuns.cfg`, `MCVault`) | nine signatures over six nonces: four runs of the Multicall that reach for tokens and call two contracts, swaps to a receiver and through ScUtils, a call, a payment with all the gas; users' contracts call one another one deep, and may submit any other signature meanwhile; users pay each asset once; ScUtils pays on to users' contracts, to the gateway, to the Vault and to itself | isolation of runs and receivers, and that a swap through ScUtils leaves nothing there; refinement of `PaymentOrders` |
| `vault_withdrawal` (`VaultWithdrawal.cfg`, `MCVault`) | as `vault_batch` | violated: see below |
| `vesting` (`Vesting.cfg`, `MCVesting`) | both contracts; start 1, end 3, times 0 to 4; payments of 1 and 6, up to 7 of each of two tokens for the linear lockup, so that the cliff and the rate both round; 2 FLIP and 1 stFLIP of two providers for the other, up to 2 staked, one reward and one loss, any mixture of the providers' minters, burners and tokens in the AddressHolder; symmetric accounts | schedule, nothing is taken back; lockup, rewards are not locked up by their own computation |
| `airdrop` (`Airdrop.cfg`, `MCAirdrop`) | four holders around both cutoffs in batches of two, two possible snapshots, three crashes anywhere | paid once, success means paid, completion |
| `stake_hub` (`StakeHub.cfg`, `MCStakeHub`) | an iterator and a watch goroutine, channels of one log, up to three of five logs, one of which can not be decoded; three queries with and without rules | typing, complete iteration, refinement of `LogFeed`, calls return, losses are reported |
| `create_validator` (`CreateValidator.cfg`, `MCStakeHub`) | two runs of the tool with the same keys, two gas prices, funds for two transactions, a client that watches | what was sent is registered in the end, unless StakeHub refuses it for other reasons than a validator with this key |

The runs of gateway and KeyManager are of `MCStateChainGateway`, the first of `MCKeyManager`.

Why the bounds are enough: replay, exclusion and custody are about pairs (of submissions, of signatures, of instances), and each instance has at least two of everything that can be confused, plus a third instance for the combination of chain and address. Clock bounds exceed every time that the signatures name. In the gateway's runs `MaxTime` and `MaxSupply` are the only bounds in guards: `MaxTime` stops the clock (`Tick`), `MaxSupply` bounds what an account mints that has become the issuer.

The other bounds in guards: `MaxReceived` (what users pay the Vault), `MaxDepth` (calls among users' contracts), `MaxPaidIn`, `MaxStaked` and `MaxRewards` (vesting), `MaxCrashes`, `MaxLogs` and `MaxClients`. The Vault's hazards are about two batches, or two runs, of which one works on what the other left, and about a third party between them; each of its signatures is used once, so the depth of re-entrance is bounded by the signatures, and `MaxDepth` only limits calls that bring nothing. In the vesting three periods (before the start, between, after the end) are all reached, with two instants in the middle one. The linear lockup has two accounts between which the roles move; `OneHand` of `MCVesting`, a constraint, keeps all roles of the staking lockup in one hand (and its beneficiary not transferable), so that every call is open to one account: only roles tell accounts apart, and their transfers are the same definitions for both contracts. A rerun of the airdrop can meet transactions of the two runs before; with three crashes every run but the last is cut short in every place. With channels of one log the producer blocks on the second, which is the case that matters; each iterator and goroutine has its own channels, and no state is shared between them but the node's logs.

`OrdersPaid` in both Vault runs is about the same orders seen from two sides: failing transfers, suspension and withdrawal there (with the ledger, `EventsAccount`, checked as well), re-entrance and failing runs here, where a run that keeps an allowance would be paid for outside any order.

The properties, in words, stand above their definitions. For every property of every run there is a mutant in `PROJECT.json`, a `Wrong:` definition in place of the right one, under which TLC finds the property violated.

**Fairness.** `SCGFairSpec` assumes that time passes (weak fairness of `Tick`) and, for each redemption, strong fairness of `ExecuteByAnyone`: if some account could execute it again and again, eventually one does. Before the expiry that may only be the executor, and paying may fail; after the expiry the code lets *any* account execute it and nothing is paid, so the assumption only asks that there is one interested account, for instance the owner of the next redemption of the same node. It must be strong because suspension disables execution now and then; that the gateway is not suspended for ever is a hypothesis of `RedemptionResolved`, as nothing in the code forces governance to resume.

`CVSpec` assumes of the binding what the Go scheduler gives: a goroutine that can go on does (weak fairness of the producers, of the steps inside `Next`, of the watch goroutine and of the return of `Close` and `Unsubscribe`). Nothing is assumed of clients: they may stop calling or reading. The chain is assumed to include a pending transaction that is next by nonce (weak fairness of `Mine`). Nothing makes a run of the tool go on.

`Spec` of `Airdrop` assumes that the operator runs the script again until it ends, that a run goes on unless it fails, and that transactions are mined (weak fairness each); crashes are bounded, since a script that always stops completes nothing.

**Findings.** Each is a sentence of the repository that the code does not keep, stated as a property, with a run that finds it violated.

* `gov_withdraw_issuer`: `IStateChainGateway.sol:120` says of `govWithdraw`: "The governance address is also updated as the issuer of FLIP." The code does so only if the gateway is the issuer (`StateChainGateway.sol:313`). The run shows a withdrawal after which the issuer is the contract that issuance was handed to. The comment at the implementation is right, the one in the interface is not.
* `vault_withdrawal`: `Vault.sol:673` says that a withdrawal can only be executed "if no nonce from the current AggKey had been consumed in _AGG_KEY_TIMEOUT time". What the code reads is the last acceptance of the KeyManager that the Vault refers to, which for a fresh KeyManager is long ago whatever the key signed before. The run moves the Vault to a fresh KeyManager with the same key and withdraws at once. `FundsFrozen`, which holds, is about the current KeyManager only.

Further differences between text and code, which the models follow the code in and no run states:

* `Vault.sol:315` says of the fetching of tokens that "It emits an event if the fetch fails."; the code catches nothing and lets a failed fetch revert the batch (`Fetchable` is a guard).
* `snapshot_and_airdrop.py:287` relies on events to tell what is left to do, but a transaction of an interrupted run may be mined after the next run has read them; `waitForLogTXsToComplete` is never called. `PaidOnce` excepts this race by name (`raced`): without the exception TLC finds a holder paid twice.
* `snapshot_and_airdrop.py:344` expects that a rerun helps when the assertion on the gateway's balance fails. A run that stops between the payment of the gateway and the log line that says so (after line 374) leaves a state in which that assertion stops every later run. `AirdropCompletes` excepts it by name (`GatewayUnlogged`): without the exception TLC finds that the airdrop never completes.
* One `revoked` flag of `TokenVestingNoStaking` serves all tokens: once one token is revoked, the others vest at once and can not be revoked. `ScheduleRespected` says after a revocation nothing of the others.

## 4. What is proved

Every safety property of every passing run is a theorem, for all values of the constants; so are the three refinements, of `RedemptionVoucher`, `PaymentOrders` and `LogFeed`. What is left to TLC is named at the end of this section.

`KeyManager_proofs`, for all sets of chains, instances, keys, nonces and signatures and every timeout:

* `NonceInvariance`: the inductive invariant `NonceInv`. None of the properties is inductive alone: `AcceptedAtMostOnce` says nothing of nonces, so the invariant adds that an accepted signature has its nonce in the set of its own instance (`NonceSpent`); the switch needs the clock tied to acceptances (`ClockFollowsUse`).
* `TypeCorrect`, `NoReplay`, `NonceExclusion`, `SwitchCorrect`, and the action property `Custody`.
* `StepClasses` carries the argument: a step accepts one signature on one instance or none, so there are two cases instead of eight.

`StateChainGateway_proofs`, for all sets of gateways, KeyManagers, accounts, signatures and every delay:

* `KeyManagerSimulation`: the gateway specification implies the KeyManager specification, so that everything above also holds of the composition (`GatewayNoReplay`).
* `GatewayTypeCorrect`: typing of the whole state; no balance ever goes below zero, and a redemption is pending exactly where a registration is on record as its origin.
* `RedemptionInvariance`: the inductive invariant `RedemptionInv`, which joins typing, `NonceInv`, `PaidAtMostOnce` and `PendingAsSigned`. Paying at most once needs that the slot a redemption is in is named by its signature (so that no other slot is due to it), and that needs that no signature is accepted a second time.
* `NoDoublePayment`, `RegisteredAsSigned`, the action property `LiveRedemptionsKept`, and the refinement `GatewayImplementsVouchers`: a registration is `Register`, an execution `Pay` or `Lapse` of the voucher that was registered there, and nothing else changes a voucher (`VoucherClasses`).
* `AcceptedIsDone`: no signature is used up without the effect that was signed; what the code checks after it consumed the nonce reverts, and the nonce with it. A gateway's function and the acceptance are one step, and what a signature orders is the same for every function that could accept it, since the function's name is part of what was signed.
* `FundsCustody` (`Outflow`), `IssuanceCustody`, `SuspensionHolds`: action properties, by the classes of steps and the typing in `RedemptionInv`.
* `SupplyOrdered`: two supply updates of a gateway are accepted in the order of their blocks. What a step reads is only the last block of the gateway, so the invariant `SupplyInv` adds that the block of every accepted update is not after it (`BlockKnown`), and `BlockClasses` that nothing but a supply update moves it.
* `NoInflation` (`SupplyIsHeld`): the supply is the sum of all balances, whoever issues. The invariant is inductive with the typing; `FlowClasses` says that a step is one transfer, one mint or burn, or none, and the lemmas of `SumLemmas` what each does to the sum. A transfer to oneself is no exception because the code writes the first balance before it reads the second; the mutant that reads both first is the classical mistake. `UncheckedIsSafe` is the consequence that the token relies on: no balance exceeds the supply and the supply is not negative.

`Vault_proofs`, for any number of assets, Deposits, receivers, KeyManagers and signatures, and for batches and runs of any length:

* `VaultSimulation`: a step of the Vault is a step of its KeyManager or leaves it alone, re-entrant steps included. With `NoReplay` that gives `VaultNoReplay`: no signature is accepted twice, also when a contract that the Vault calls submits it again.
* `VaultInvariance`: the inductive invariant `VaultInv`. The ledger (`EventsAccount`) compares a balance with a sum over all accepted signatures. To keep it over a step one needs that the accepted signatures are finitely many, that the one that is accepted now was not accepted before (`NonceInv`), and that a signature not yet accepted has no failures on record (`FailuresOfUsed`). What tokens the Multicall may take from the Vault is what no call leaves over (`NothingAllowed`): without it a later run could take what an earlier one was allowed, and no ledger would show it. `RunIsolation` needs that there is one frame of the Multicall on the stack exactly while `isRunning` (`OneRun`).
* `VaultStepClasses` carries the argument: the Vault gains what is recorded as received; it pays what a signature orders, less what is recorded as failed; it accepts a signature that orders nothing; or the governor withdraws. `BatchPays` says what a batch does, by induction over its length: the balances of a prefix of a batch are those of one transfer less, and that transfer.
* `VaultTypeCorrect`, `EventsAccounted`, `ReceiversNotFooled`, `RunsIsolated`, and the action properties `TransfersComeLast`, `SwapsPassedOn`, `FundsStayFrozen`.
* `VaultImplementsOrders` (`OrdersPaid`): the Vault refines `PaymentOrders`. An order is a signature over payments, its lines are the transfers it lists, `executed` are those orders that were accepted, `failed` the failures on record, `balance` and `income` the Vault's funds and what it recorded as received, `halted` its suspension. Along `VaultStepClasses`, a step that accepts a signature over payments is `Execute` of it (`LedgerExecute`), every other gain `Receive`, the governor's withdrawal `Withdraw`, a suspension or resumption `HaltOrResume` (`GuardClasses`). It says more than `EventsAccount`: that no order is ever executed in parts, that what is reported as failed is final, and that a halted payer pays nothing. What a contract pays back while it is being paid is income of the same step.

`VestingContracts_proofs`, for all tokens, amounts and times, every start and end:

* `VestedWithin` and `VestedMonotone`: the integer formula of `_vestedAmount` stays below the documented schedule and below the total, and grows with both total and time. Rounding twice, once for the cliff and once for the rate, does not break either.
* `LinearInvariant`: until a revocation, balance and released amount of each token sum up to what was paid in, and what was released is within the schedule; after it, the balance and the released amount of the revoked token together, less later payments, are within the schedule of the time of the revocation. That sum is what makes it inductive: a release moves tokens within it.
* `ScheduleKept`, and the action property `EntitlementKept`.
* `StakingInvariant`: for the lockup of validators, with any finite number of providers. `StakeLockedUp` (before the end the beneficiary got no more than the rewards) is not inductive: it needs that what was claimed never exceeds what was earned and given, and that needs the account of rewards, an equation between all the tokens that the contract holds and the two counters by which it computes what may be claimed. The equation survives losses because they are on its other side. `RewardsNotLocked` (`RewardsClaimable`) follows from it: where the tokens it sums over are only those the contract subtracts from, what `claimStProviderRewards` computes is what was earned and not yet claimed, and so does not underflow. It needs that tokens of no other provider are held, which the equation counts as well (`OneProviderHeld`).

`Airdrop_proofs`, for all holders, snapshots, cutoffs, amounts and sizes of batches, and any number of crashes:

* `AirdropInvariant`: the inductive invariant `AirdropInv`, in six parts: what the log implies (`LogInv`), where the log that it read has sent a run (`RunInv`), what a pending transaction was sent for (`PoolInv`), the transaction a run awaits (`AwaitInv`), who is still to be paid (`DueInv`), and what holds without a race (`RaceFreeInv`).
* The argument: all pending transactions have the account's next nonce, so mining one discards all others, and nothing that one relies on has changed since it was sent. Of several batches sent by different runs with one nonce, all are therefore the first of those unpaid, in the order of the snapshot: the same batch. That an approval is never pending beside a batch needs that a batch has a positive total, and so that a snapshot lists no empty balances.
* `HoldersPaidOnce` (`PaidOnce`, which excepts the race) and `SuccessMeansPaid` (`SuccessIsPaid`, which does not: a run one of whose batches was replaced never logs success).

`StakeHub_proofs`, for any number of iterators and watch goroutines, all logs, queries and channel capacities:

* `HubInv`, the inductive invariant: for an iterator, what it delivered followed by what is in its channel and what its producer still has is what the query found; for a live watch goroutine, what was delivered, is in hand and is in the channel is the log from the start of the subscription on. A goroutine whose connection failed has a prefix of that. `ChannelLemmas` has what this needs of sequences.
* `HubTypeCorrect`, `IterationIsComplete`, and the refinement `FeedImplemented` of `LogFeed`, all of them with the create-validator tool running beside (`CVImplementsHub`).

`SumLemmas` is about `SumFunctionOnSet` of the community modules, a fold over a finite set: that it is a number, what one more element or one changed value does to it, that equal functions have equal sums. The prover can not instantiate the library's induction theorems, whose hypothesis is an operator; here the hypothesis is a set (of the subsets, or the numbers, for which the statement holds), and a minimal counterexample comes from the well-foundedness of the strict subset order, which the library states without such an operator.

The assumptions are the named `ASSUME`s of the modules, which TLC evaluates in every run. What they say of the system:

* Contracts, accounts, tokens and Deposits have different addresses, and a KeyManager never calls `consumeKeyNonce` (`AddressAssumption`, `InstanceAssumption`, `CallerAssumption`, `AssetAssumption`, `ReceiverAssumption`, `ScUtilsAssumption`).
* Initial keys pass the constructor's checks, and the chain's clock exceeds the timeout at deployment (`KeyAssumption`, `TimeAssumption`).
* Addresses, swap identifiers, tokens and staking providers are finitely many (words of a fixed width), and signatures name values of their types (`AddressesFinite`, `AssetAssumption`, `StakingAssumption`, `PaymentAssumption`, `ArgumentAssumption`).
* The other Vaults that a receiver may be told to believe are none of the accounts and contracts that occur (`CFReceiverAssumption`): its owner does not appoint a user as the Vault.
* A snapshot lists holders with positive balances, as the script deletes the others, and the cutoff of the airdrop is not above that of its verification (`AirdropAssumption`).

Only model-checked: the liveness properties (`RedemptionResolved`, `ShutdownReturns`, `LossIsReported`, `SentIsCreated`, `AirdropCompletes`), since the prover has no rules for fairness and `ENABLED`; and the findings, which are counterexamples. The Schnorr arithmetic, the exact bytes of messages and the fold of events into a snapshot are abstracted and so neither checked nor proved.

## 5. Not modelled, and what is left open

Not modelled:

* The view calls and transactors of the StakeHub binding: each passes its arguments to the node and keeps no state. Reorganisations of the chain: the binding passes removed logs on unchanged.
* `AddressChecker` (views), the deployment and utility scripts (one-shot I/O; what they deploy is the initial state of the models), `airdrop.py` and `deploy_tokenVestings.py` (they send once and are not rerun), how the snapshot folds events into balances (it is one step that yields some balances), mocks and Echidna harnesses (test code).
* `callSc` and `govAction`, which emit an event and change nothing.
* Gateway and Vault in one composition: they share a KeyManager but no function of one calls the other, except through ScUtils, for which the gateway is an address that takes FLIP.

Left open:

1. That a pending redemption can be executed by anyone after its expiry, whatever happened before, is stated only through liveness (`RedemptionResolved`). As an invariant it would be about `ENABLED`.
2. An abstract specification of the airdrop, a list of dues that is worked off. It would have to except the race (`raced`) as `PaidOnce` does, and would then say little more than `HoldersPaidOnce` and `SuccessMeansPaid` together.
3. `NoReplay` over gateway and Vault in one specification. Each of them is proved to leave to its KeyManagers only what `KeyManager` allows, and the gateway's specification includes acceptances by any other contract (`KeyManagerStep`), those of the Vault among them; that of the Vault does not include the gateway's.
