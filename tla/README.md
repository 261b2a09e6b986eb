# A TLA+ verification of crosschain

crosschain is a Go library for sending payments on some thirty blockchains. A
*caller* (Cordial's Treasury, or the `xc` command line in `src/cmd/xc`) drives
it: it asks a chain's client for a *transaction input*, hands the input to the
chain's builder, signs the hashes the built transaction names, submits it, and
looks it up until it is confirmed. The library keeps no database: what can go
wrong lies in what happens *between* those calls. A transaction is lost, waits,
or lands unseen; the caller signs the payment again; somebody else uses the same
account; the chain moves on between two requests of one fetch.

The library answers two questions for its caller (`src/tx.go:56-75`):
`IndependentOf` decides whether a payment can be signed while others are
pending, `SafeFromDoubleSend` decides whether a payment may be signed again. A
wrong `true` to the second one pays somebody twice. This project is built
around these two answers and the machinery they rest on.

## 1. Inventory

| part | state | operations | talks to | hard behaviour | correct when |
| --- | --- | --- | --- | --- | --- |
| **Conflict rules** `src/tx.go`, `src/chain/*/tx_input` | none; pure functions of two inputs | `IndependentOf`, `SafeFromDoubleSend` | called by the caller with the new input and each earlier one | an earlier attempt lands after the decision; two account numbers in one transaction; expiry | a payment is never paid twice; a queued payment is never invalidated by another one |
| **Clients** `src/chain/*/client` | none between calls; the chain's state is read by several requests | `FetchTransferInput`, `SubmitTx`, `FetchTxInfo` | a node's RPC | the chain moves between two reads of one fetch; a lookup fails and is taken for "does not exist" | the input is one the chain will accept, and the conflict rules hold for it |
| **Builders and transactions** `src/chain/*/builder`, `tx`, `src/builder` | the signatures added so far | `Transfer`, `Sighashes`, `SetSignatures`, `AdditionalSighashes`, `Serialize` | signers | a second round of signing depends on the first; the transaction is rebuilt between rounds | what is submitted carries exactly the signatures asked for, over what is submitted |
| **Signer collection** `src/factory/signer` | configured keys | `Sign(address, payload)` | builders' requests | the wrong key answers | each request is answered by its own address |
| **Send loop** `src/cmd/xc/commands/transfer.go` | deadline, attempts made | prepare, submit with retries, wait for confirmation | clients, signers | answers that come late; the deadline passes between two tries | success is reported only for a transaction a node took |
| **Objects and their selection** `src/chain/{bitcoin,cardano,kaspa}/tx_input`, `src/chain/sui` | the unspent outputs or coins fetched, Sui's epoch | list, filter unconfirmed, choose, compute the fee | client, builder | an output of a pending payment; nodes that forget; an epoch that ends during a fetch; dust; the 5% rule | payments that share an object never both land; inputs cover amount and fee |
| **Fees** `SetGasFeePriority`, `GetFeeLimit`, `CheckFeeLimit`, replacement in `src/chain/evm/client` | the input's fee fields | multiply, raise over a pending transaction, compare with the limit | caller, node's pool | the raise is applied before the priority multiplier | a replacement outbids what it replaces, and stays under the limit |
| **Canton** `src/chain/canton` | contracts and command submissions of a ledger | prepare, execute, wait for completion | participant node, Keycloak | streams that end, a token fetched once with the client and never renewed, contracts consumed by somebody else, account creation in several steps | a command is applied once |
| **Internet Computer certification** `src/chain/internet_computer` | none | hash trees, LEB128 | IC boundary nodes | malformed lengths | a decoded value is the encoded one |
| **Transaction info** `src/client/tx_info` | movements of a transaction | add movements, compute fees, confirmations | clients | tips below the transaction's block | fees equal what left minus what arrived |
| **Error classification** `src/client/errors` and `errors.go` of each chain | none | map a node's text to a status | send loop | an unknown text | only errors that can pass are retried |
| **Registry and codec** `src/factory/drivers` | registered input types | marshal, unmarshal by type | caller, which stores inputs between calls | an old input read by new code | decoding gives back the input |
| **Staking services** `src/client/services`, `src/cmd/xc/staking` | none | HTTP calls | Kiln, Figment, Twinstake | pure I/O | – |
| generated and vendored code: `chain/cosmos/types`, `chain/canton` protobufs, `chain/sui/generated`, `chain/tron/core`, `chain/eos/eos-go`, `dagger`, ABI bindings | – | – | – | – | left aside |

The hazards of these parts, each at its line, are the list "hazards" of
`PROJECT.json`.

## 2. The modules

```
                  AtMostOnce                       what is promised about a payment
                      ^ implemented by
NonceInputs  <- NonceWallet    <- NonceWalletProofs       numbered accounts
ObjectInputs <- ObjectWallet   <- ObjectWalletProofs      outputs, contracts, coins

                  AtMostOnceUnless                 what is left of it for exposed payments
                      ^ implemented by
ExpiryInputs <- ExpiryWallet   <- ExpiryWalletProofs      transactions that expire
                EvmSponsored   <- EvmSponsoredProofs      EVM accounts with a fee payer
                SolanaWallet   <- SolanaWalletProofs      blockhashes and durable nonces

                  OrderedOperation                 what is promised about a command
                      ^ implemented by
                Submission     <- SubmissionProofs        the command line's loops

                EvmReplacement <- EvmReplacementProofs    fees of a retry
                SigningRounds  <- SigningRoundsProofs     hashes, signatures, more hashes
```

`MC...` modules only add model values and their symmetry, and the values of
constants that are functions or sets of records.

The five wallets have the same shape, because the caller does the same thing on
every chain. An *attempt* is a signed transaction: a payment, the input it was
built from, and which try of the payment it is. The caller is not in the
repository. Its rule is the one `src/tx.go:56-75` states for `TxInputConflicts`
and is the operator `MaySign`: an input may be signed if it is
`SafeFromDoubleSend` against every earlier attempt of the same payment and
`IndependentOf` every attempt of the other payments. The input in the caller's
hand was fetched earlier, so the chain may have moved since. The `...Inputs`
modules hold what an input keeps and the rules of each `tx_input.go`; the
wallets that use them check several drivers at once, one per behaviour.

### The abstract specifications

`AtMostOnce` has one variable, the attempts that paid each payment, and one
action, which pays a payment that was not paid before.

`AtMostOnceUnless` adds the payments that are `exposed`. A payment becomes exposed
when it is signed again although its driver's rule cannot tell that the attempts
exclude each other, and only then may it be paid more than once. Which attempts
expose a payment is for the wallet to say: `RaceOrMix` in `EvmSponsored`,
`Abandons` in `SolanaWallet`, `Overtakes` in `ExpiryWallet` (an EOS attempt of many rounds, or a chain
whose slack covers nothing). The exposure comes before the second payment, so the
module says more than that a double send has one of the named causes: until the
cause has been signed, the whole promise holds.

`OrderedOperation` is what somebody may rely on who sends an operation of one or
two transactions: the chain settles them in order, each once, the second only if
the first is valid; the answer comes once, and if it is good nothing is open. A
transaction that has left may still be settled after a bad answer.

### NonceInputs and NonceWallet

The chains that number an account's transactions: XRP, Substrate, TON, NEAR,
Filecoin, Dusk, Aptos, MultiversX, EVM without a fee payer, and Stellar and
Cosmos with and without one. The drivers share a text or differ in three ways,
which are what the module distinguishes: which number the client reads (the
latest block's, or for Filecoin the pool's too), how many accounts a transaction
numbers (`NumberedAccounts`: on Stellar the fee payer replaces the sender, on
Cosmos both are signers), and MultiversX's inverted answer.

| action | code |
| --- | --- |
| `FetchInput`, `FetchSponsoredInput`, `FetchPayer` | `FetchTransferInput` of the client; with a fee payer a second request reads its account, later |
| `Sign` | the caller's rule over `IndependentOf` and `SafeFromDoubleSend` |
| `Submit`, `Drop` | `SubmitTx`, also once more; the network forgets |
| `Execute`, `Revert` | a block includes the transaction (external) |
| `UseOutside` | somebody else uses an account (external) |
| `Confirm` | `FetchTxInfo` reports the payment confirmed |

### ExpiryInputs and ExpiryWallet

Tron, EOS, Hedera, the Internet Computer and Hyperliquid. Nothing on these chains
makes two attempts of a payment exclude each other; a transaction dies at its
expiration, and the rules wait for that. An input has a *stamp*: the caller's
clock (`SetUnix`, Tron and EOS), the client's (Internet Computer, Hyperliquid) or
the latest block's (Hedera). `Lifetime` is the time from the stamp to the
expiration and `Slack` what the driver's rule waits beyond it: 60 s on Tron,
90 s on EOS, a whole valid duration on Hedera, and so on; only their order
matters, but on EOS, where each further signing round adds a second to the
expiration (`Expiry`). Up to 255 rounds are signed (`src/chain/eos/tx/tx.go:84`)
and the rule, which does not see them, waits 90 s: an attempt of more rounds can
be overtaken by another one while it is still valid (`Overtakes`). `Outlasts` says
of a number of rounds that the slack covers it. `Slot` is what the chain accepts
once.

| action | code |
| --- | --- |
| `Tick` | time |
| `Sign` | an input was fetched at any earlier time, from a node up to `Lag` behind and a clock up to `Skew` off (`InputsAt`); the caller has looked its attempts up (`Seen`, `FetchTxInfo`) and applies its rule |
| `Land` | a block includes the transaction while `Acceptable` (external) |

### ObjectInputs and ObjectWallet

The outputs of Bitcoin, Cardano and Kaspa, Canton's contracts, and Sui's coins.
`unspent` is what the chain lets the owner spend, `coming` what others may still
send, `pool` what Bitcoin's nodes hold: its index lists outputs that are not
included yet (`Listed`), so a payment may be built on another one's change. Sui's
input has a gas coin apart from the other coins, and the epoch it expires with is
read by a second request (`FetchCoins`, `FetchEpoch`). The rules compare the
objects; Sui's has an order of epochs first, and its loop over pairs of coins is
empty if one of the two holds only a gas coin (`CoinsDisjoint`). Canton's rule is
over the contracts that both consume (`SpentByBoth`): each fetch draws a new
submission id, and transfers have no conflict key.

| action | code |
| --- | --- |
| `FetchOutputs`, `FetchCoins`, `FetchEpoch` | the requests of `FetchTransferInput`; which outputs are chosen depends on amounts, so any may be |
| `Sign` | the caller's rule, and a lookup of the earlier attempts |
| `Submit`, `Drop` | Bitcoin's nodes take and forget transactions, with all that depends on them |
| `Execute`, `Arrive`, `UseOutside`, `NextEpoch` | blocks, other wallets, epochs (external) |

### EvmSponsored

An EVM payment with a fee payer is an EIP-7702 transaction of the fee payer
carrying the owner's authorization and a batch the owner signed for the smart
account's own nonce. `FetchUnsimulatedInput` reads the owner's nonce, then the
fee payer's, then the smart account's (`FetchNonce`, `FetchPayerNonce`,
`FetchBatchNonce`), and blocks come in between. `Include`, `Execute` and `Fail`
are the chain: the transaction needs the fee payer's nonce, a stale
authorization is skipped, the batch needs the code and the smart account's
nonce. The history variable `torn` in an input tells whether the owner's nonce
moved during its fetch; no rule reads it.

### SolanaWallet

An input has a timestamp, a recent blockhash and two durable nonce accounts as
they were read: a value, "to be created", or absent. `accounts` names the two that
were looked up. One is derived from the sender and, with a fee payer, the other
from the fee payer; a caller that names a nonce account (`NONCE_ACCOUNT`,
`OptionNonceAccount`) replaces the fee payer's, or without a fee payer the
sender's (`FromAccount`, `PayerAccount`). An account that exists under an authority
which is neither gives no input at all (`NonceReads`), and one that is not derived
from its authority cannot be created (`Creatable`). `EffectiveAccount` is
`EffectiveDurableNonceState`, and `SafeFromDoubleSend` is the code's cascade of
matching accounts first and timeout second. The actions are the requests in the
code's order: `Begin` (the caller's options and timestamp,
`src/builder/args.go:266`), `FetchBlockhash`, `FetchDurableNonce`, where every
error counts as a missing account if lookups are `flaky` in the behaviour. `Tick`
is time.

### EvmReplacement

The fees of attempts under one number. `attempts` are the signed ones with their
cap and tip, `pool` is which of them waits at each node behind the endpoint, and
`other` a transaction of another number of the same account. `Sign` is the fetch
and the signing: `LookupPreviousTxAttempt` asks for the earlier hashes, if the
caller gave them (`ByHash`), and otherwise or failing that for the account's
pending transactions (`InPool`, where `InfoFor` takes any number); what is found
is outbid (`Outbid`), and then the caller's priority multiplies
(`WithTxInputOptions`). Any node may answer, or none, and the nodes may suggest
any of the markets at each fetch. `Deliver` is a node's rule for replacing
(external); `Drop` is the network. An attempt keeps, beside its fees, which
attempt every answer to its request had to name (`named`), which is all that the
properties ask about the nodes at that moment. Percentages round down, as the
code's do.

### SigningRounds

`PrepareTransferForSubmit` and the two drivers that need it: EVM with a fee payer,
whose signature covers the owner's two, and EOS, which lengthens the expiration
by a second and asks everybody again until all signatures are canonical. `stage`
is where the loop is; `Prepare` asks for the hashes, `Sign` answers one of them,
`Complete` builds the transaction again (first round only) and sets all
signatures, `AskMore` and `GiveUp` are `AdditionalSighashes`. `responses` is kept
by address in order of signing, which is all the drivers read of it. A signer is
deterministic, so which expirations an address signs canonically is drawn once.

### Submission

The loops of `xc transfer` and `xc staking` that submit a transaction, again if
the client answers FailedPrecondition, and then wait for it, and Tron's
`SubmitTx` of two transactions, which relies on them. `pc` says where the loop
is. `Top` is the deadline test, `LookFirst`, `SendFirst` and `Send` are
`SubmitTx`, `Wait` is one turn of the wait. A node takes, refuses, loses,
includes and, later, indexes a transaction; a broadcast whose answer is lost may
have been taken all the same. `Tick` lets any request take any time, so the
deadline may pass anywhere.

## 3. What is checked

| run | instance | shows |
| --- | --- | --- |
| `nonce_wallet` | 2 payments, 2 attempts each, numbers to 3, 1 use from outside; drivers xrp, filecoin, cosmos, xlm | `NoCrossInvalidation`, `QueueHasNoGap`, `OutcomeIsFinal`, `EveryPaymentSettles` if nobody uses the accounts from outside, and that the wallet implements `AtMostOnce` |
| `nonce_egld` | 1 payment, MultiversX | violation: a payment re-signed after it landed is paid again |
| `expiry_wallet` | 2 payments, alike or not, 3 attempts, time to 6, 2 EOS rounds beyond the first; tron, eos, hedera, internet_computer, hyperliquid | `DoubleSendNeedsRounds`, `LostPaymentNeedsTwin`, `WaitingEnds`, implements `AtMostOnceUnless` |
| `eos_rounds` | 1 EOS payment, the driver's numbers in units of 30 s, exact clocks | violation: an attempt of many rounds and the one signed instead of it both land |
| `object_wallet` | 2 payments, 4 attempts, 2 coins, 2 epochs, 1 spent from outside; all five drivers | `CrossInvalidationNeedsBareGasOrTornFetch`, `OrphanNeedsResign`, `OutcomeIsFinal`, implements `AtMostOnce` |
| `evm_sponsored` | 2 payments, up to 3 attempts, with and without a fee payer, 1 use from outside | `DoubleSendNeedsRaceOrMix`, `NoCrossInvalidation`, `NobodyIsStuck`, implements `AtMostOnceUnless` |
| `solana_wallet` | 2 payments, 2 attempts, time to 2, with and without a fee payer, derived accounts or one the caller names, lookups that fail or not, 1 use of the sender's account from outside | `DoubleSendNeedsAbandonedNonce`, `NoCrossInvalidation`, `RefusalMeansNonceGone`, implements `AtMostOnceUnless` |
| `solana_named_account` | 1 payment, no fee payer, no failing lookup, derived account or a named one | violation: both attempts of a payment land |
| `evm_replacement` | 2 nodes, 3 attempts, 2 markets, priorities none, 0.7 and 1.5, another number waiting or not | `CapCoversTip`, `RefusalsAreExplained` |
| `signing_rounds` | EVM and EOS, with and without a fee payer, limit 3, every pattern of canonical signatures | `SignedAsSent`, `NoSecondIsSkipped`, `EveryHashOnce`, `SigningEnds` |
| `signing_same_payer` | EOS, the fee payer is the sender | violation of `RoundsAreBounded` |
| `submission` | both loops, one or two transactions, 4 sleeps | `SecondFollowsFirst`, `WorkRunsOut`, `CommandEnds`, `FalseReportEndsInError`, implements `OrderedOperation` |

Each run but those that expect a violation also checks its module's `TypeOK`.
What another property implies has no check of its own: `NoDoubleSend` in
`nonce_wallet` and `object_wallet`, since `AtMostOnce` says the same of every
step (it is the invariant from which the refinement is proved, and what
`nonce_egld` refutes); `LateRetryIsHarmless`, since a late retry that the chain
could accept would be accepted in some behaviour, and pay twice;
`OkMeansIncluded`, which `OrderedOperation` contains; and `RoundsAreBounded`,
since a limit on the seconds (`TypeOK`) and hashes that are never asked for
twice (`EveryHashOnce`) leave no more signatures than that. They are theorems
all the same, and so are two facts that one fetch or one loop decides by itself:
`FindingIsOutbidding` and `StakingReportsTruly`.

**The bounds.** A double send takes two attempts of one payment, cross
invalidation two payments. `MaySign` looks at pairs of attempts, so more add no
new reason to sign; the safety theorems of section 4 have no bounds at all. An
input is fetched only while the bound on attempts lets somebody sign it: a later
fetch would change the input in hand and nothing else, so nothing is lost but
states that differ in an input nobody can use.

* `nonce_wallet`: two payments queued one after the other use the first two
  numbers of an account, and the third is the one an outside use pushes them to.
  The other drivers that read the latest block and have no fee payer share the
  text of `xrp`.
* `evm_sponsored`: three attempts divide in every way, three of one payment or two
  of one beside one of the other.
* `expiry_wallet`: lifetime, skew and lag are 1, the slack is 2, 3 on EOS and 0 on
  Hyperliquid, which has none: the
  least that `Outlasts` allows of an EOS attempt signed in one round
  (`Skew + Lag <= Slack`, and on EOS with the added seconds strictly), so any
  tighter rule would break. EOS may add two seconds, of which the slack covers
  none: both the attempts it covers and those it does not occur, and so do the
  double sends that the latter make. Time 6 lets an attempt expire, be seen, and be
  signed again. In the code the lifetime is two hours on Tron and the slack a
  minute: real clocks must be within that.
* `eos_rounds`: a lifetime of 10, a slack of 3 and up to 8 rounds are the 5 minutes,
  90 s and 240 of the 255 rounds of the driver in units of 30 s.
* `object_wallet`: two coins and the change of up to four attempts let one payment
  be built on another's change while that one is signed again.
* `solana_wallet`: only `FetchDelay + Lifetime < Margin` matters to the rule (a
  blockhash is accepted for about a minute, `SafetyTimeoutMargin` is ten
  minutes), so 1, 0 and 2 stand for the real numbers, and time 2 lets a margin
  pass. The bound counts the attempts that are signed or being prepared. Two
  accounts that one payment can move between are all that a pair of attempts can
  tell apart. `Shared` is the sender's derived account alone: what somebody else
  does to another account has the same effect on whoever read it.
* `evm_replacement`: a third attempt meets two earlier ones at different nodes.
  The raise is 1.15, the code's default, and a node asks for 1.10. Fees of 5 to 30
  are large enough for percentages to matter and small enough for a raise to be
  rounded away. Base and Optimism have a raise of 1.5 in their configuration, the
  comment at `src/asset.go:806-808` speaks of at least 25%: the proofs hold for
  every `Bump` at or above `Threshold`.
* `signing_rounds`: 3 instead of the 255 rounds of EOS; all patterns of four
  expirations per address are tried.

**What is assumed of the outside.** `expiry_wallet`: a lookup is answered by a node
no more than `Lag` behind and the clocks are no more than `Skew` apart, which the
slack of each driver covers (`Outlasts`, of no added rounds). `object_wallet`: on
Sui, the node that is asked for the earlier attempts is at least as far as the
epoch of the new input. `signing_rounds`: a signer answers the same hash alike,
and the fee payer is not the sender (the other run shows what happens if it is).
`solana_wallet`: `NoCrossInvalidation` needs lookups of existing accounts that do
not fail; one that fails makes an attempt that creates an account that exists,
which is dead from the start.

**The fairness.** Only liveness rests on it; safety is an invariant or a step
property whatever is fair. `nonce_wallet` assumes of the caller that it keeps working on a payment it has not seen settled:
it fetches again, signs what it may, resubmits; the input in hand may change
between two chances to sign it, so signing is strongly fair. Of the network it
assumes that a transaction which the chain accepts again and
again and which is submitted again and again is included at some time; it may
lose one any number of times. This is what a caller that polls and resubmits has
(`src/cmd/xc/commands/transfer.go`), and less than what the chains promise.
`UseOutside` is not fair, and the property is about behaviours without it: an attempt whose number is
used by somebody else is dead, and whatever the conservative re-sign rule then
admits is dead too, so the payment stays unpaid (`OutcomeIsFinal`, which is
proved). That is the rule's intent: it never calls a re-sign safe because the old
attempt is dead. `submission` assumes only
that the command runs on, nothing of the network or the chain. `signing_rounds`
is a sequential program whose signers always answer: weak fairness of its next
step. The expiry, object and Solana wallets have no liveness: a payment may end
with an attempt that is neither included nor timed out. Of the expiry, Solana and
sponsored EVM wallets the runs check the safety that liveness would rest on:
waiting has an end (`WaitingEnds`), what is refused after it is refused for an
attempt that can no longer land (`RefusalMeansNonceGone`), and a fresh input may
be signed unless the chain can include something that stands in its way
(`NobodyIsStuck`).

**Deadlock** is not checked: a wallet that has used up its bounds, or a command
that has ended, stops.

**Findings.** Each run that expects a violation is one.

* MultiversX's `SafeFromDoubleSend` (`src/chain/egld/tx_input/tx_input.go:102`)
  returns `IndependentOf`, the opposite of the other drivers.
* EOS with the sender as its own fee payer: every signature goes to the fee
  payer's list (`src/chain/eos/tx/tx.go:112`), no round is counted, and the loop
  asks for the same hashes for ever instead of giving up. The bound refuted allows
  for one address being asked twice a round: it is the loop that breaks it.
* EOS's rounds outlast its rule (`eos_rounds`): 90 s are waited beyond the lifetime
  (`src/chain/eos/tx_input/tx_input.go:111`), and up to 255 s are added to it
  (`src/chain/eos/tx/tx.go:84`, `:155`). A signature is canonical once in four
  times, with a fee payer both are once in sixteen, so it takes a long search; but
  the search goes on that long.
* Solana's rule and a nonce account the caller names (`solana_named_account`): a
  retry on another account is allowed after the timeout, though the first attempt
  does not time out (`src/chain/solana/tx_input/tx_input.go:309`).

**Exceptions written into the properties.** Some properties name the cases in
which the promise does not hold, and say that there are no others:

* `DoubleSendNeedsRaceOrMix`: the owner's nonce is read first and the smart
  account's last (`src/chain/evm/client/fetch_input.go:222`). If the first attempt
  lands in between, the second input shares the owner's nonce with it and so
  counts as conflicting, but the chain skips the stale authorization and runs the
  new batch. Likewise an attempt with a fee payer and one without share the
  owner's nonce (`src/chain/evm/tx_input/tx_input.go:133`), which does not stop
  the sponsored one once the account is delegated. The property says which of the
  two fetches was torn, the one with the later fee payer's nonce, and that a mix
  pays twice only if the account has code.
* `DoubleSendNeedsAbandonedNonce`: when the accounts do not match, Solana's
  timeout rule is applied to an attempt that never expires
  (`src/chain/solana/tx_input/tx_input.go:309`). The earlier attempt is the one
  with the durable nonce and its timeout had passed. There are three causes, which
  `Abandons` lists: a lookup failed; the caller asked for other accounts than
  before, by naming a nonce account or a fee payer, or by no longer doing so; or the
  fee payer could not pay the rent of its account at first. An owner who pays alone
  and always names the same account, or none, is safe while lookups do not fail
  (`PlainPaymentsKeepPromise`).
* `ImplementsAtMostOnceUnless` of `expiry_wallet`: on EOS an attempt signed in more
  rounds than the slack covers may land beside the one signed instead of it. On
  Hyperliquid, whose rule waits exactly as long as a nonce is accepted
  (`src/chain/hyperliquid/tx_input/tx_input.go:11`), any skew has that effect. The
  other chains keep the whole promise.
* `OutcomeIsFinal` of `object_wallet` leaves Sui out, whose rule lets a payment be
  signed again on other coins when the epoch of an attempt is over.
* `CrossInvalidationNeedsBareGasOrTornFetch`: Sui's loop over pairs
  (`src/chain/sui/tx_input.go:108`), and its epoch, which is read after the coins.
* `OrphanNeedsResign`: a payment built on unconfirmed change dies when the payment
  that makes the change is signed again; the rule then never lets it be signed
  again, since no output that can be listed is one of its own.
* `LostPaymentNeedsTwin`: two alike payments with equal inputs are one transaction
  on Tron and EOS. Hyperliquid's `IndependentOf` compares times that are finer than
  the nonce made of them (`src/chain/hyperliquid/tx_input/tx_input.go:64`): two
  payments fetched within one millisecond take one nonce.
* `FalseReportEndsInError`: the transfer loop returns
  no error when its deadline passes (`src/cmd/xc/commands/transfer.go:526`), and its
  caller reports a transaction as submitted that no node took. The wait that follows
  ends with an error. The staking loop returns one, and what it reports was taken by a
  node (the theorem `StakingReportIsTrue`).
* `ImplementsOrderedOperation`: Tron's `SubmitTx` sends a waiting first transaction
  again and takes the node's answer that it knows it for a failure
  (`src/chain/tron/client.go:353`, `:359`), so the command ends with the second
  transaction unsent, although `src/client/errors/errors.go:49` says of that answer
  "should fetch". `OrderedOperation` allows it, for the answer is bad.
* `RefusalsAreExplained`: a retry may be refused for its price if the priority is
  below one, the raise is rounded away, the nodes did not agree, or no answer had
  to name the waiting attempt.

Met while reading, and not the subject of a run: Canton's `FetchCreateAccountInput` (`src/chain/canton/client/client.go:2452`)
returns neither input nor error when the proposal is not visible yet, although
`src/client/account.go:13-16` keeps that answer for an account that is complete.

## 4. What is proved

TLAPS checks the following for every set of payments and every bound. TLC shows
the same formulas on the instances above. The theorems cover every invariant and
action property that the passing runs check, and the six refinements: two of
`AtMostOnce`, three of `AtMostOnceUnless`, one of `OrderedOperation`. A refinement is
proved step by step: each action of the detailed module is a step of the abstract
one or leaves the mapped variables as they are.

**NonceWalletProofs** (assuming `ConstantsAssumption`; `DoubleSendIsImpossible`,
`LateRetryCannotPay`, `Refinement` and `OutcomesAreFinal` also that MultiversX is
not among the drivers): `TypeCorrect`, `DoubleSendIsImpossible` (`NoDoubleSend`),
`LateRetryCannotPay` (`LateRetryIsHarmless`), `Refinement`
(`ImplementsAtMostOnce`), `OutcomesAreFinal` (`OutcomeIsFinal`) and
`PaymentsDoNotCollide` (`NoCrossInvalidation`) and `NothingIsStranded`
(`QueueHasNoGap`). `NoDoubleSend` is not inductive:
it does not say why a second attempt cannot execute. A *slot* is an account and a
number; a transaction uses one or two, and the chain accepts each once. The
inductive invariant is that any two attempts of a payment share a slot
(`AttemptsCompete`, what the re-sign rule gives, lemma `SafeMeansCompeting`), that
what is included has its slots behind the account's next number
(`IncludedIsUsed`), and that no two included attempts share one (`IncludedApart`).
Nothing in this argument looks at when an input was fetched or at what the network
does: the promise rests on the rule alone. `OutcomesAreFinal` turns the same
competition around: once all slots of one attempt are gone, by a block or by
somebody outside, every other attempt of the payment, signed before or after,
shares a slot with it and is dead as well, and slots that are gone stay gone. For
payments beside each other the
invariant says that each slot that is gone has a user (`UsedByOne`) and that
independent inputs share none. The exception is Cosmos, whose rule looks at less:
there a fee payer's number can be shared, but the sender's was read first
(`ReadInOrder`), so a payment that lost the one had lost the other.
`NothingIsStranded` is about the numbers ahead of the chain's: the caller's own
attempts take every number in between (`LeadsUpTo`), also those in the input that
is about to be signed and the one that is only half fetched (`QueueInv`). What
the pool tells a driver that reads it is itself such a chain of attempts, and the
chain's own number only grows.

**ExpiryWalletProofs**: `TypeCorrect`, `DoubleSendsNeedRounds`
(`DoubleSendNeedsRounds`), `ExpiryRefinement` (`ImplementsAtMostOnceUnless`),
`OnlyTwinsAreLost` (`LostPaymentNeedsTwin`)
and `ExpiryPreventsDoubleSend`: no payment is paid twice (`NoDoubleSend`),
assuming that each driver `Outlasts` the limit of the rounds. The first two
assume nothing about the slack: a payment is paid twice, and is exposed, only by
an attempt whose own rounds the slack does not cover. The last one is about the
drivers without rounds, and about an EOS whose rounds were limited to what its
slack covers; the code's limit of 255 is not. A new stamp is past the old
expiration by the slack and at most `Skew` ahead of the chain, so the old
attempt had expired at least `Lag` ago, and the lookup would have seen it
(lemmas `SafeMeansOutlived`, `UnseenIsDead`). The invariant: of two attempts of
a payment one is dead, that is, it has expired without landing, or the later one
overtakes the earlier (`OneIsDead`), and stays so. `RetryIsAllowed`
(`WaitingEnds`, for each driver whose slack covers the skew and the lag) is the
other side of the rule: a stamp is at least the chain's time less `Skew` or
`Lag`, so some time after the old expiration every input that can be fetched is
past it by more than the slack (`WaitedIsSafe`). The one thing needed of the
earlier attempt is that the block it names is not later than its stamp by more
than the clock is off (`StampedAfterBlock`), for EOS also compares the blocks.

**ObjectWalletProofs**: `TypeCorrect`, `ObjectsPreventDoubleSend`
(`NoDoubleSend`: no payment is executed twice), `CrossInvalidationIsRare`
(`CrossInvalidationNeedsBareGasOrTornFetch`), `OrphansComeFromResigning`
(`OrphanNeedsResign`), `OutcomesAreFinal` (`OutcomeIsFinal`) and
`ObjectRefinement`. Two attempts of a payment share an
object (`Competing`) or, on Sui, have different epochs and the earlier expired
unexecuted (`EarlierIsDead`). What was spent is gone for good (`SpentIsGone`),
because the only objects that appear are the change of attempts that had not
executed (`ChangeIsMade`). For `OutcomesAreFinal` an object is `Gone` when it was
spent and nothing can bring it back (`GoneStays`), and `NeverMade` when it is the
change of an attempt that spends what is gone (`NeverMadeStays`): an attempt that
has only such objects is dead, and whatever competes with it names one of them
(`DecidedExecutesNothing`). This is the orphaned Bitcoin payment: it stays unpaid,
and no attempt of it can surprise the payer later.

**EvmSponsoredProofs**: `TypeCorrect`, `DoubleSendNeedsRace`
(`DoubleSendNeedsRaceOrMix`), `PaymentsDoNotCollide` (`NoCrossInvalidation`),
`ThereIsAWayOn` (`NobodyIsStuck`),
`Refinement` (`ImplementsAtMostOnceUnless`) and `PlainPaymentsKeepPromise`: without
fee payers no payment is ever exposed, and the wallet implements `AtMostOnce`.
Here the argument does depend on the fetch. Numbers read are never ahead of the
chain's (`HeldPast`, `SignedPast`); what executed has left all its numbers behind
(`ExecutedBehind`); two attempts of a payment conflict (`AttemptsConflict`). If
they share the fee payer's nonce the chain refuses the second. If they share the
owner's, only the nonce of the batch can stop it, and it does because it was read
before the first executed, for otherwise the owner's nonce, read earlier in an
untorn fetch, would have moved (`HeldOutlived`, `SignedOutlived`). Beside each
other, payments do not share the first two numbers, and each of those that is gone
has a user (`NumbersHaveUsers`). The batch's number is not compared by any rule,
but it moves only together with the fee payer's, which is read before it
(`InStep`).

`ThereIsAWayOn` (`NobodyIsStuck`) is about what a fresh input could conflict with:
an attempt that names the next number of the owner or of the fee payer. An attempt
that the chain can no longer include, or that it included, has left its account's
number behind; the fee payer's being gone, the owner's must be gone, too
(`SignedLate`). An inclusion either uses the owner's next number, or names one that
an included attempt of the same payment had used. Any other attempt with that fee
payer nonce belongs to the same payment, or `IndependentOf` would have refused it,
and must then share the owner's number, or `SafeFromDoubleSend` would have
(`SignLeavesFree`). The invariant says so also of the numbers in the caller's hand
(`Late`).

**SolanaWalletProofs** (assuming `FetchDelay + Lifetime < Margin`):
`TypeCorrect`, `DoubleSendNeedsAbandoned` (`DoubleSendNeedsAbandonedNonce`),
`PaymentsDoNotCollide` (`NoCrossInvalidation`), `Refinement`
(`ImplementsAtMostOnceUnless`) and `PlainPaymentsKeepPromise`: without fee
payers, with one nonce account that is always named, or none, and with lookups
that do not fail, the wallet implements `AtMostOnce`. Two attempts of a payment
share a nonce, or one is dead, or the later one abandons the durable nonce of
the earlier one (`Explained`). Dead is an attempt with a blockhash that has
expired, or whose account to create exists, and that did not execute. What has
timed out for the input in the caller's hand is dead (`TimedOutIsDead`): it had
expired when the attempt began, since its blockhash is at most `FetchDelay`
younger than its timestamp, and the caller looked then. While lookups do not
fail, an input that is looked up in the same accounts finds the one an earlier
attempt used (`AccountsAreFound`), which is why `Abandons` needs no further
cause. For payments beside each other: what used up a nonce since an input read
it has the same nonce (`GoneHasUser`). `RefusalsAreForTheDead`
(`RefusalMeansNonceGone`) needs that a blockhash is read after the timestamp was
taken (`HashAfterStamp`) and that, while lookups do not fail, an input fetched
after an attempt with a durable nonce has a value of the same account that is
not older (`LaterReads`). A refusal after the timeout then means another value
or an account that has come to exist, and in both cases the attempt's nonce is
gone (`RefusedIsGone`).

**EvmReplacementProofs** (assuming `100 < Bump` and `Threshold <= Bump`):
`TypeCorrect`, `CapsCoverTips`, `FoundIsOutbid` (`FindingIsOutbidding`) and `RetriesReplace`
(`RefusalsAreExplained`). The lemmas are about percentages rounded down: a higher
percentage of a larger amount is no less, a raise that is not rounded away adds at
least one (`RaiseAdds`), and so outbidding replaces (`OutbidReplaces`).
`RefusalsAreExplained` speaks of what waits now; the invariant says the same of
every two attempts, whichever may come to wait (`AllExplained`), with the fact
that an attempt saw only earlier ones.

**SigningRoundsProofs** (assuming the fee payer is not the sender): `TypeCorrect`,
`SentAsSigned` (`SignedAsSent`), `FirstChanceTaken` (`NoSecondIsSkipped`),
`HashesAreNew` (`EveryHashOnce`), `RoundsEnd` (`RoundsAreBounded`) and
`LimitBoundsRounds`, for any limit. The EOS invariant is that the i-th signature of each signer is over i - 1
added seconds (`Indexed`), that all signers are at the same count between rounds
(`InRound`, `AfterRound`), and that no earlier round was canonical; the EVM one
lists the five states of the three parts. `LimitBoundsRounds` gives the loop a
measure (`StepsLeft`): four for each signature that may still be asked for, none of
which is ever negative (`LeftCounted`), and what is left of the round. Signing takes
one (`SigningTakesOne`), and every step lowers the measure (`RoundsRunOut`).

**SubmissionProofs** (assuming `Timeout \in Nat`): `TypeCorrect`,
`VoteFollowsStake` (`SecondFollowsFirst`), `OkIsTrue` (`OkMeansIncluded`),
`StakingReportIsTrue` (`StakingReportsTruly`), `DeadlinesBoundWork`
(`WorkRunsOut`) and `Refinement` (`ImplementsOrderedOperation`): only `Index` settles a transaction
(`SettlesOnlyByIndex`), in order (`SettleStep`), and the answer is given by the
loop's last step (`AnswerStep`). The invariant adds what the program
counter knows: at the second send, and while the second transaction is waited for,
the first has succeeded (`SecondIsTurn`); the transfer loop has only one
transaction, which matters because it is the loop that falls through its deadline
(`OneInTransfer`). What is on the chain stays. `DeadlinesBoundWork` counts the
steps that the deadlines leave (`StepsLeft`): the count is a natural number, zero
only at the end (`StepsCounted`), each step of the loops lowers it (`LoopGoesOn`),
also where reporting starts the clock again, and nothing that time, the network or
the chain does raises it (`NothingPutsBack`).

Left to TLC: liveness (`EveryPaymentSettles`, `SigningEnds`, `CommandEnds`,
`FalseReportEndsInError`), which is out of the prover's reach under fairness, as ENABLED is.
What can be proved of them is: `DeadlinesBoundWork` and `LimitBoundsRounds` leave
of the two commands only that a next step can be taken, and is; `NothingIsStranded`
leaves of the first that the chain takes what it accepts.
No module has a RECURSIVE operator or needs an induction over data.

## 5. What the modules leave out

* Amounts, and with them the choice of outputs, holdings and coins, the fee
  limit, the 5% threshold of Bitcoin and the limit on Sui's coins. The wallets let
  an input name any of the objects listed, which includes every choice.
* Of the fees: the legacy gas price, the configured gas multiplier, and the fee
  limit, one comparison after the fetch.
* The branches of the conflict rules for an input of another type or nil, and
  Cosmos's account number, which is constant for an address; Stellar's time
  bounds; NEAR's acceptance of a number further ahead.
* The branch of Tron's rule for an earlier input without an expiration
  (`src/chain/tron/txinput/tx_input.go:94-110`): the fetch and `SetUnix` always set
  one.
* Tron's vote, freeze and withdraw inputs. The commands never set their time, and
  another caller reaches the outer one only. Listed as a hazard.
* Canton's account creation, with its steps, keys and polling, and the calls to
  the participant node.
* Sui's fee payer, token transfers and staking; Bitcoin's forks and reorganisations.
* Other transactions of the Solana fee payer, except as `UseOutside`; token
  accounts, simulation and staking inputs.
* That Solana's rule never lets a payment be signed again after an attempt that
  was to create the nonce account, if a later input finds the account: it is
  conservative. `RefusalMeansNonceGone` says that what stands in the way is an
  attempt that can no longer land; whether the caller may give such a payment up
  is not in this code.
* In the signing rounds, the drivers with one round and one signer, and the text
  that is signed.
* Texts: addresses, encodings, error classification, configuration, HTTP. Most of
  the repository by size is generated (protobuf, bindings) or one chain's encoding
  of a transfer, without order or concurrency, so a check of interleavings has
  nothing to say about it.

## 6. The plan

Done: the conflict rules of every family of chains (numbers, expiry, objects,
Solana's two kinds, EVM's three numbers), the fees of a retry, the signing rounds
and the submission loops, each with its safety properties proved, and the abstract
specifications of five wallets and of the command with their refinements.

Left, in the order of what it would add:

1. Canton's account creation: its steps, the key of each step, and what a poll may
   find or not find.
2. The choice of outputs of Bitcoin and Cardano, as operators against a reference
   definition: inputs cover amount and fee, and the threshold for unconfirmed
   outputs.
3. Tron's staking inputs, with the two stamps they carry.
4. Transaction info: fees from movements, and what it reports of a sponsored
   transaction that moved nothing.
5. The Internet Computer's hash tree and LEB128 as operators.
