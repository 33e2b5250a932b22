# Superkiro: specifications and proofs

TLA+ modules for the core of this repository, model-checked with TLC on small instances, and theorems about them
proved with TLAPS for every instance. Source paths are relative to the repository's root; `engine.rs` is
`crates/billing/src/engine.rs`.

## The system

Superkiro sells *cards* (keys with a balance of credits) and serves the Kiro editor's conversation requests
for them through a gateway, which forwards each request to a model provider and bills what it cost. A desktop
client points an installed editor at the gateway and back, and keeps itself up to date.

| Component | State | Hard behaviour | What makes it correct | Modules |
|---|---|---|---|---|
| billing engine (`crates/billing`) | cards, reservations, pending settlements, ledger, archive, unpaid evidence, leases, last write error | concurrent requests on one balance, failed writes, crashes, retries, pruning | credit is accounted for, nothing is charged twice, nothing consumed is refunded, money in memory is durable, the state always loads | `Billing` |
| saved state (`engine.rs`) | generation files, anchor, mirror | a crash or error between any two writes | a committed state is always found and never rolled back | `SnapshotStore`, `CommitRegister` |
| commercial state (`engine.rs`, `commercial.rs`, `topup.rs`) | card kinds, plans, top-up codes, compensations | retries, lost answers, archiving, a look-up before the lock | what a card is worth is what was sold; a request is made up for once | `Cards` |
| response templates (`response_templates.rs`) | receipts, wait slots, the permanent record | a wait given up, a late payment, receipts that expire | a fixed answer is paid before it is sent and ends its invocation | `Templates` |
| observability (`engine.rs`, `observability.rs`) | traces, panels, reports | late recovery, merging, restated plans and archives | every charge is traced, a reported day is not restated | `Traces`, `Reports` |
| idempotency guard, conversation handler, stream (`gateway/src`) | per request: guard, hold, lease, permit, output so far | early returns, dropped tasks, cut streams, expiry | one run of an invocation at a time, what was consumed is billed, everything else is given back | `Gateway`, `ServedOnce` |
| wire codec and translation (`provider/`, `stream.rs`, `translate/`) | an answer's tool calls and usage; a conversation's history, images, documents | order of lines, cut streams, resent history | tool calls arrive whole, the bill follows what the upstream said last, turns pair up | `Answer`, `Prompts` |
| provider pool, retry, failover (`provider/`) | key health, cooldowns, weights | outcomes recorded late and concurrently, operators' edits | selection stays fair, only an all-empty request is billed as empty, a request ends | `Providers` |
| complexity routing (`complexity_routing.rs`) | saved decisions, budget | crash before the answer, policies replaced under way | the classifier keeps within its budget, only a simple task goes cheaply | `Routing` |
| tokens (`auth.rs`, `oauth.rs`, `engine.rs`) | card's token and refresh versions, devices' token files | a refresh retried after a lost answer, windows sharing a file | one sign-in is served, honest refreshes keep their session | `Sessions` |
| admin login (`admin_login.rs`, `security.rs`, `admin.rs`) | used one-time steps, sessions, epoch | concurrent logins, revocation, restart | a code opens one session, an ended session stays out | `AdminLogin` |
| takeover and restore (`crates/patch-engine`) | Kiro's settings, bundle and token; snapshot, session, patch material | a crash between any two files, a lost record, an update of Kiro | the customer's token is not exposed or lost, a live patch can be rolled back | `Takeover` |
| desktop update (`desktop-host/src/update.rs`) | state file, marker, locks, staged client | processes killed anywhere, power loss | a live trial is judged by nobody, a dead one once | `ClientUpdate` |
| admission (`guardrail.rs`, `ops/`) | permits, buckets | leaks | every permit comes back | the permits: `Gateway` |
| editor process control, UIs, deployment | - | - | - | none |

How they meet: the conversation handler acquires the guard for `card:invocation`, asks the routing for a chain of
providers, calls `reserve`, takes a lease (`protect_reservation`) that keeps the janitor away, streams through the
provider pool, and its settler calls `settle` or `release`; guard and lease end with the stream. A background task
(`gateway/src/main.rs`) probes storage, retries pending settlements and runs the janitor. Operators act through the
admin router. Every call of the engine takes `BillingEngine::state_lock`, so in the models each is one action; what
interleaves is the calls. The desktop client meets the gateway over its token file only (`Sessions`, `Takeover`).

## Modules

Each component has a module named in the table above. `Gateway` extends `Billing` and calls its operations, and
implements `ServedOnce`; `SnapshotStore` implements `CommitRegister`, which is what `Billing`'s commits rely on;
`Answer` is tied to `Gateway` by `VerdictsAgree`. `MCBilling`, `MCGateway`, `MCProviders`, `MCTakeover` and
`MCClientUpdate` give instances of one component. Five more host several components that share no state
in one run: `MCBooks` (`SnapshotStore`, `Cards`, `Templates`), `MCServing` (`Gateway`, `Answer`), `MCAccounts`
(`Sessions`, `AdminLogin`, `Routing`, `Prompts`), `MCRequests` (`Billing`, `Traces`) and `MCLedger` (the same two with
`Reports`). There one component moves only while the others are where they start, so that a run visits every behaviour
of each and no product of them. The `*Proofs` modules hold the theorems: `BillingProofs`, `GatewayProofs`,
`ProvidersProofs`, `TakeoverProofs` and `ClientUpdateProofs` those of one module (`GatewayProofs` those of `Traces` too),
`BooksProofs` and `AccountsProofs` those of modules hosted by `MCBooks` and `MCAccounts` (`AccountsProofs` those of
`Answer` too); `SumProofs` has the laws of sums they cite.

### Billing

`mem` and `disk` are records of one `BillingSnapshot`'s tables: `cards` (total, used, reserved, status,
frozen), `reservations` (held, settled or released, amount, times), `pending` (the priced intents),
`ledger`, `archived` (the positions of the ledger drained to archive files) and `unpaid`. `leases` is
`active_reservations`, `writeFailed` is `last_persistence_error.is_some()`.

* A mutation that saves is `Commit(candidate, orElse)`, the outcomes of `commit_candidate_snapshot`: saved
  and published; not saved, with `orElse` in memory and reservations refused from then on; or saved by a process
  that dies before it publishes. `orElse` is the old tables everywhere but in `Settle`, where the priced intent
  stays in memory. `Reserve` and `Release` change memory only (`InPlace`), as the code does.
* `Settle` prices once: `BillFor(charge)` with the charge an input, capped as the code caps it. A replay with
  an intent outstanding completes the intent or is a conflict. `RetryPendingSettlement` answers with an entry
  of the invocation in the *live* ledger when there is one, and completes nothing.
* `RunJanitor` is the whole of `run_janitor`: orphans reclaimed and old terminal records pruned in one commit.
* `Restart` needs what `validate_snapshot` needs, and runs `import_snapshot`: holds without an intent are
  dropped, reserved credit summed again, settled records made anew for recent charges.
* `Sendable` is the clients' side: they retry an id while its record lasts; `ClientsReuseIds` lets them send it
  again after `Retention`. They are told by the record's existence: a record pruned too early would show here as an id not
  sent again, not as one charged twice. Likewise the limits (`ExposureCovered`, `FairUseRespected`) find what a charge ran
  over its hold (`Overrun`) on its record, and exempt the whole charge once that is pruned.
* Merged into one step, which the saves' outcomes already cover: `Reserve` looks at `persistence_ready` before it takes the
  state lock (`engine.rs:2525`, `2536`), and `ProbePersistence` validates an exported state before the save takes the lock
  anew (`engine.rs:1114-1121`).

Left out: price resolution (a charge is an input), activation and expiry of cards (a card is sold active, and
`ValidUntil` bounds it), the zero-credit ledger entries that card events leave, response templates (`Templates`), the
size ceiling, encryption, and the recovery task's backoff (`RetryPendingSettlement` may happen at any time).

### Gateway

`attempt` maps each request in the gateway to a record: its invocation, its phase, whether the stream has carried
output, whether its client is still connected, and what it has left to drop. `inProgress`, `completed` and `failed`
are the maps of `IdempotencyStore`; `inflight` is `CapacityGuardrail::current_concurrency`; `stopping` says that the
stop signal has come. All of it is memory and goes with the process (`Lost`).

* An attempt's phases are the stretches of `generate_conversation` between two calls of the engine: `admitted`
  (guard taken), `reserving` (permit and lease taken), `routing` (hold taken), `streaming` (the `tokio` task of
  `stream.rs` runs), `leaving`. Each action calls at most one operation of `Billing`, so whatever can happen between
  two calls (another request, the janitor, a failed write, a crash) may happen there.
* `todo` is Rust's drop order: locals go in the reverse of their declaration, so an attempt that leaves gives back
  the hold (`HoldRelease`, or the `BillingSettler`'s drop), then the lease with the permit, then the guard. An
  `IdempotencyGuard` failed by hand goes first (`FailedFirst`); refusals that release the hold themselves find it
  gone when `HoldRelease` does so again (`ReleasedTwice`). The permit's drop is merged with the lease's, next to
  which it happens.
* `Verdicts` is the end of the stream (`VerdictsAgree` of `MCServing` derives it from the upstream's lines): which
  reports of the upstream, with or without output, make it billable and complete. A bill whose write fails leaves its
  intent to the engine and fails the guard, so that a retry is refused as billed.
* A duplicate refused with 409, or an invocation answered with its finished state, changes nothing and is no action.
  `Forget` is the ten-minute expiry and the bound on finished invocations together: either may remove one at any time.
* `OrderlyStop` waits for connections, as `axum`'s graceful shutdown does; a stream whose client has left has none.

`ImplementsServedOnce`: an attempt runs while it routes or streams; an invocation is billed when the ledger or the
intents have it, durably when the saved ones do.

Left out: response templates (answered like `AnswerLocally`; `Templates` has them), the rate limiter and the large-body
gate (which only refuse), the attempt budget and the watchdog (which only end what `Leave` and `FinishStream` may end at
any time), what routing chooses among providers (`Providers`, `Routing`), and extending a hold during routing (an
operation of `Billing`, checked there).

### SnapshotStore

One save at a time (`persistence_lock`): generation, anchor (the commit point), mirror (whose failure is only
reported), pruning, publication. Each write is a temporary file renamed over the target, so a file holds its old
content or its new one; a crash or an error may come between any two. Loading compares the mirror with the anchor,
falls back to the anchor's generation and rewrites the mirror. `Fail` before the commit point leaves a generation
file behind that the next save, which takes the same sequence, overwrites. Not modelled: power loss undoing a
completed rename (the code syncs files, and directories with errors ignored).

`ImplementsRegister`: `durable` is the anchor's state (the empty or the legacy state before there is one),
`Begin` begins, `WriteAnchor` installs, `Publish` acknowledges, `Fail` gives up, `Load` recovers. `Billing`'s
`Commit` is one `Begin` together with the steps that end it, which no other step can separate because the state
lock is held throughout; its three outcomes are acknowledge, give up, and crash after install. A crash before
the install is `Crash`.

### Cards and Templates

`Cards` has one action per operation on a card's worth, each one mutation and one commit; an adjustment is two
(`LookUpRequests`, `AdjustCardBalance`), because what its requests were charged is looked up before the state lock is
taken. `SoldOnce` sums what was sold, made up and charged from the ledger, archived part included, and compares it with
the card. Left out: upgrades without a key, the platform's redeem cache, zero-credit entries, the status Expired (which
nothing sets), an operator's suspension before a card's first entry, and the pending settlements and traces among which
`ChargeOf` also finds what a request was charged (`engine.rs:5686-5715`). Keys of adjustments are distinct from
invocations.

`Templates` has the path of a prompt that matches a rule: receipt, wait slot, payment, write, and what a restart loads.
`TemplatesArePaidOnce` joins what the answer promises (no second answer of any kind), what the write needs (a
payment) and what a start needs (receipts whose entries exist). Left out: matching of text, tool schemas, byte budgets.

### Answer and Prompts

`Answer` follows one upstream answer line by line through the parser and the guard that makes frames of it, in the
dialects of the upstreams; how Kiro joins calls is external, taken from `ToolCalls`' comment. Text is counted, not kept.
`Prompts` follows one conversation resent step by step: pairing of calls and results, images shrunk while
there is time, documents an upstream refused. Left out: transcription by a vision model, PDF parsing, tool schemas and
names, replayed thinking, cache breakpoints. `StepsAgree` exempts rests past the cache's time, restarts and messages
Kiro dropped, where the code agrees to translate anew, and places other conversations crowded out of the memory of left-out
images, which the process shares (4096 at a time, `to_provider.rs:121`, `155-162`): an image left out may then be shown on the
next step. An image that cannot be read and is too large to be sent as it is does not occur in the instance.

### Providers and Routing

`Providers` follows one request through its attempts; other requests are the keys they have an attempt on and the
outcomes they record, at any time. Choosing a key, asking whether one is left and recording an outcome are each atomic
(`governance.rs`' mutex). An operator's edit, its save and its sync are three steps. Left out: probing, the choice of a
default pool, deletion of providers, exact deadlines.

`Routing` keeps one conversation's decisions: saved before the classifier is asked, frozen once made, found again by a
retry. Whether the classifier can be asked at all is a free choice (its provider, slots and breaker). Left out: identity
checks, references of providers and groups. A new request under a policy that is off or absent drafts, and saves, a
decision `off` here that routes it like a complex task; the code does not ask for one (`conversation.rs:1139-1156`). The
instance's policies enforce.

### Sessions and AdminLogin

`Sessions` has a card, its devices, and windows that read one token file before a refresh and write it after. A refresh
reads the card, rotates under the lock, reads again, and its answer may be lost. `Settled` is a named assumption on
time: an unanswered window asks again within the grace of two minutes, no exchange outlives it, and an hour passes with
nothing in flight. `RefreshesKeepSession` exempts a device whose token file was copied or whose refresh met an ended
card. Left out: rebinding allowances, token budgets, code versions, groups, idle deadlines, a clock set back.

`AdminLogin` has the clock read before the code's lock and the epoch read before the session table, in steps of their
own; a restart forgets codes and sessions. Left out: throttling lanes, deadlines, a one-time code that two steps share.

### Takeover and ClientUpdate

`Takeover` takes activation, relaunch, restore and unbind file write by file write. The client may die after any write,
a write may fail, a cleaner may take records, Kiro may be updated or edited, or started, while the client is idle or
waits for the network. An unbind and a balance read hold the session they loaded before the network (`held`) and save
that one after it, so that a record a cleaner removed meanwhile comes back; a sign-in made while only a hand has the session
is not counted as made outside a takeover, since what comes back may replace it. `ClientUpdate` has processes that hold
locks, rename files that cannot be renamed while they run (Windows), and may be killed between any two steps; a wait
with a limit may end at any time. A trial is watched, has its window up, or has confirmed: only the silent one steps
aside, and one that is up confirms when its host answers, which it may never do. A write of the state file may fail,
which leaves the record to the next start. Left out of the first: an update between apply's read and write, several
installations; of the second: the download's steps, unreadable state files, the bundle swap of macOS.

### Traces and Reports

`Traces` has requests refused, routed and charged, the traces kept and saved with whatever is saved next, and panels
counted from them. A route begins with the attempts its call has left and is traced only when it ends; Kiro may leave it, or
a crash cut it, and what it tried is then on no trace (`unseen`), nor is what a crash takes before it is saved.
`Reports` restates sales, cash and usage from cards and ledger as they are when asked, while prices, face values and
plans change and part of the ledger is archived; times are days. Left out: timing notes, hourly and per-key rows,
rankings, costed margins, legacy tiers.

## Runs

| Run | Instance | Question |
|---|---|---|
| `billing_requests` | 1 card, 2 requests, holds 1 or 2, charges 0 or 3, balance 3, daily limit 2, monthly limit 3 over two days, time to 3, a lease each; 2 calls sent 3 times, one class of refusal, routes of up to 2 attempts within a budget of 2, a price of 1, a minute and a restart | every safety property of requests, failures and restarts, and the fair-use limits across window ends; attempts and charges traced |
| `billing_operators` | 2 cards, 2 requests of one, an adjustment key (-1, +2), a price of 3 capped at 2 over a balance of 1, archiving; 2 sold cards, 5 acts over 3 days; 2 calls sent twice, with a refusal that names its model and one that does not | operators against requests in flight; reports; panels |
| `books` | 4 saves from an empty directory or a legacy file; 2 cards, a top-up code, a renewal, 2 compensation keys, an archive; 3 attempts of 2 invocations and a restart | the files recover and implement the register; worth is what was sold; fixed answers |
| `gateway_requests` | 1 card, 2 invocations, 2 attempts, 2 permits, holds and charges of 1, time to 2; 3 tool calls in 4 dialects | ownership, billing and single service over every interleaving with failed writes, recovery, the janitor, stops and crashes; answers |
| `gateway_liveness` | 1 invocation, 2 attempts, under `GatewayFairSpec` | every hold and every intent ends |
| `providers` | 2 keys of weights 3 and 1, one provider alone and in a chain of two models, one other request, one edit, which may make the heavy key as light as the other | fairness of selection, billing of empty answers, every request ends |
| `desktop` | one profile beside Default, an update of Kiro and one of the client, 3 events, records lost together or apart | the customer's token and the patch; a restore completes |
| `client_update` | 3 processes, 3 versions, 2 trials, 2 kills or failed writes | trials are judged once and end |
| `accounts` | 2 devices, 2 windows of one; 2 browsers, 2 endings, 3 steps; 3 requests over 2 days; a conversation of 4 messages | one sign-in, one code one session, the classifier's budget, the history sent upstream |
| `billing_reuse`, `gateway_stop`, `providers_rejected` | as their base runs (violations) | see *Disagreements* |

Bounds: two requests are enough for one to hold, be retried or expire while the other charges or overdraws. Time 3 with
`Ttl = Retention = 1` lets a hold expire, its record be pruned and the id come back. Charges on both sides of the
hold and above the balance give refunds, overruns and debt. `MaxSettlement` is out of reach except in
`billing_operators`, where it caps the price. Four saves are one more than the generations
kept (the current one and its predecessor) plus a failed one. In the gateway two attempts are enough for one to leave,
by any path, while the other arrives for the same invocation or shares the card with it; amounts are the subject of
the `billing_*` runs. A third process of `client_update` is a start that meets an installer and its trial; a second
window meets the first one's refresh; a second browser the first one's login. Two models of one provider
give a chain with two targets that share keys. Only model bounds (`Max...`, `Last...`) limit the behaviours, apart
from `Settled` and from `Reserve`, which requires the hold's expiry to be representable. Interchangeable
invocations and attempts are a `SYMMETRY` of the runs without liveness properties. `CHECK_DEADLOCK FALSE` stands
where a component ends when its bounds are used up.

Every property has a mutant: an operator beside the definition it replaces, commented `Mutant:`, that is the
property's plausible bug, and under which TLC finds the property violated.

**Fairness.** `GatewayFairSpec`: the background task of `main.rs` ticks as long as the process runs, and storage is
assumed to work again sooner or later: a probe, retry or janitor run that is possible again and again succeeds
at last, strongly, because crashes and failed writes may take the possibility away in between. A stopped process is
started again (the deployment's restart policy), and time passes up to its bound. An attempt does not stay (`WF` of
`Proceeds`): the server's timeout drops a handler that takes too long (`main.rs`), a stream has a deadline of its
own (`stream.rs`), and what is being dropped is dropped. Nothing is assumed of clients or operators.
`Providers`: upstream answers or the request's deadline ends it; the clock wears a cooldown down. `Takeover`: the
steps of an operation go on, a balance read ends and Kiro is closed at last; the customer repeats a restore that is
pending, and repairs settings or reinstalls Kiro when told to (strongly: a crash may take the chance away).
`ClientUpdate`: each process goes on (`WF` per process), but no window need come up and no trial need confirm; the
customer closes the client again and again, a trial that has not confirmed as well, and starts it again and again
(both strongly, as a quit or a start is possible only now and then).

## Proofs

Every theorem holds for all constants the named `ASSUME`s of its module allow. Each rests on an inductive invariant that
TLC checked first on an instance (in brackets: the states of that instance).

* **`BillingProofs`**: `BillingTypes`, `MoneyAlwaysDurable`, `PendingAlwaysHeld`, `NoRequestChargedTwice` (from
  `~ClientsReuseIds`), and the action properties `LedgerOnlyGrows`, `ConsumedIsCharged`. A restart makes `disk` into memory,
  so what is to hold of memory must hold of the saved tables; an intent that is dropped from memory but is still on disk
  would be charged after a restart, so saved intents must be known to memory (`IntentsKept(disk, mem)`); and a second
  charge is excluded only because an unsettled record proves there was no first (`UnchargedWhileOpen`), whichever of
  pruning and restoring made the records. `IInv`: both tables `Sound`, the same money in both, intents kept. One lemma per
  operation shows that it turns sound tables into a sound candidate that follows them; `CommitSound` shows once
  that any outcome of a commit then keeps `IInv`.
  Its second half is about amounts: `AlwaysBalanced`, and from it `HoldsAlwaysAccounted` (`HoldsAccounted`),
  `DebtAlwaysEvidenced`, `StateAlwaysLoads` (`DiskLoadable`), `ExposureAlwaysCovered` (`ExposureCovered`) and
  `FairUseAlwaysRespected` (`FairUseRespected`). `BInv`: both tables are `Balanced`, since what a start reads must
  balance as well. A card's reserved credit is what its open holds add up to (`Accounted`), its used credit what its
  entries add up to, live and archived (`Spent`), its debt is on the unpaid list (`Evidenced`), what it has used and
  reserved is within its total but for recorded overruns (`Covered`), and its usage in the current windows is within its
  limits but for them (`Fair`). The last two, and the loading of a saved state, assume `~ClientsReuseIds`: a charge is
  matched with its hold by its own invocation's record, and an id used twice breaks the match, as `billing_reuse` shows.
* **`SumProofs`**: the folds of the community modules take a set's members in the order CHOOSE gives, by a recursive
  function on its subsets. Each law of sums is proved of that function by `SubsetInduction` (the least subset without the law
  would have it), for sums given by a function, which needs no operator as a parameter. Folds along a sequence are the same
  kind of fold over its positions; they are followed position by position, and laws of them proved by `SequenceInduction`:
  what is chosen from a sequence adds up to what its members do (`ChosenFacts`, `ChosenFrom`), a tally grows with its weights
  (`TallyGrows`) and is positive just where a member weighs something (`TallyCounts`). `Traces` chooses with a fold of its own
  (`TracesThat`), since the prover knows no definition of `SelectSeq`.
* **`BooksProofs`**, saved state: `SnapshotStoreTypes`, `SnapshotAlwaysRecoverable`, `CommittedNeverRollsBack` and the
  refinement `FilesImplementRegister`. The invariant says where the candidate is at each step, that the process knows
  the committed sequence while it runs, and that a directory without an anchor holds at most the legacy file.
  Response templates: `TemplatesAlwaysPaidOnce` (`TemplatesArePaidOnce`) from `TemplatesInv` [1,514,920 states]: the index of
  charged invocations has every one whose entry is live or archived (`Indexed`), a template's charge is its invocation's last
  (`ChargedLast`), every receipt has its charge (`ReceiptsPaid`), and who is served by a model holds its invocation alone and
  uncharged (`HeldApart`).
  Cards: `CardsTypes` and `CardsSoldOnce` (`SoldOnce`) from `CardsInv` [1,136,548 states]: a card is what all its
  entries, archived or live, give and take (`Reconciled`), a key has one entry (`KeyedOnce`), the cards have left what
  was made (`LeftStands`), and the summary is what including the archived entries makes it, so that making it anew
  changes nothing. `KeysApart` is assumed, with which one search of the ledger stands for several: keys of operators are
  not the ids under which the engine books charges, codes and renewals (it looks the former up among adjustments and
  upgrades alone).
  `CardsCompensatedOnce` (`CompensatedOnce`) from `CompensationInv` as well [3,468,270 states, with adjustments that repeat]: the
  index is that of all entries, archived or live (`GivenIndex`); no request is charged twice, an adjustment for requests was
  paid for, and unless it says so gives no more than they were charged and for none that another gave for
  (`RightlyGiven`); and what a call found before it waited for the lock is still so when it has it (`LookedUp`). That a
  start builds the same index, from the live ledger and the summary's adjustments, is `StartIndex`: counting two entries
  commutes (`CountsCommute`), so a fold over a set of keys, in whatever order, is the fold along the entries.
  That no share exceeds its request's charge is arithmetic on rounded running totals (`ShareBound`, `SplitFacts`); it needs
  requests named once per adjustment, which `SomethingIsSold` states and the engine sees to (`engine.rs:5476-5482`).
* **`GatewayProofs`**: `GatewayCallsBilling`, that every behaviour of the gateway is one of `Billing`'s (each action calls
  one operation of the engine with its own invocation, or none), which carries every theorem of `BillingProofs` over
  (`GatewayKeepsAccounts` names the balances); `GatewayTypes`; and `Ownership`, the invariant `Owned` [758,637 states]:
  an attempt leaves along one of a few ways out (`WaysOut`), and what it has left to drop accounts for its guard
  (`GuardsMatch`), its lease and permit (`LeasesMatch`) and the open hold of its invocation (`HoldsMatch`); nothing
  survives the process (`DownIsEmpty`). From it follow `NothingIsLeaked` (`EverythingOwned`), `HoldsStayUpstream`,
  `OutputIsBilled` (`DeliveredIsBilled`) and the refinement `GatewayServesOnce` (`ImplementsServedOnce`), in which each
  action of an attempt maps to a step of `ServedOnce` or a stutter. They assume `~ClientsReuseIds`: an attempt that
  failed its guard itself drops its hold after the guard is forgotten, and its release is harmless only because its
  invocation was charged or its hold already gone, which a reused id would change.
  Traces: `AttemptsAlwaysWithinBudget` (`AttemptsWithinBudget`) and `ChargesAlwaysTraced` (`ChargesAreTraced`) from `TracesInv`
  [3,814,761 states, with prices 0 and 1]: in the live list as in the saved one, a trace with credits is of an entry, and a
  call none of whose traces was dropped has its entry's credits on its traces, one of which shows the entry (`ListStands`);
  with what was not seen, the traces count every attempt made, and a route under way was given no more than they leave of
  the budget (`AttemptsStand`); an invocation under way, owed or in the ledger is charged once
  (`ChargesDiffer`). Recording, settling, pruning and finishing are told by what they do to tallies of the list (`TellsOf`,
  `RecordedCases`, `SettledStands`, `TouchCounts`), and what was dropped is found by a tally as well.
* **`AccountsProofs`**, sessions: `SessionsTypes`, `OneSignIn` (`OneSignInServed`) and `SessionsAreKept`
  (`RefreshesKeepSession`) from `SInv` [11.6 million states with more rotations]: tokens stand where they should, a
  refresh under way matches what the card has rotated, and the honest holder of the last sign-in has a token the card
  will take.
  Admin login: `AdminLoginTypes`, `CodesOpenOnce` from `CodesInOrder` (codes are accepted in the clock's order, and a
  restart starts past the last one, which is `ClockAssumption`), and `EndedStayOut` from `SessionInv` (ids differ; a session
  in the table or about to enter is of the current epoch only if no ending came after it was signed) [386,954 states].
  Routing: `CheapAlwaysSimple` (`CheapOnlyIfSimple`) and `ClassifierAlwaysWithinBudget` (`ClassifierWithinBudget`) from `RInv`: a
  decision saved for a task stands by the policy it was made under (`ChainsStand`), the calls of
  an invocation are further apart than its decision is kept (`CallsApart`), who waits for the classifier has its call at the
  reserve (`Reserved`), and what a day's calls cost is counted and within the budget (`BudgetStands`).
  The stream of an answer: `CallsAlwaysReachKiroWhole` (`CallsReachKiroWhole`) and `BillAlwaysFollowsUpstream`
  (`BillFollowsUpstream`), for any calls, pieces, dialects, counts and interleavings, from `AnswerInv`: the buffers are the
  calls begun in their order, each with its own pieces alone, because `Find` puts every piece to the call it is of
  (`FindsCall`); what Kiro has of a call is the part of its buffer that is marked as sent, and all there is of it once it
  has ended (`KiroStands`); a round of `advance` keeps that (`RoundKeeps`), hence all its rounds (`AdvanceKeeps`, an induction
  over the fold), and the frames of the explicit end complete it call by call (`FinishTellsAll`). They need calls to be
  numbered from 1 in the order they open (`AnswerAssumption`), which is how the model names them [1,024,937 states].
* **`ClientUpdateProofs`**: `UpdateTypes` and `TrialsJudgedOnce` (`JudgedOnce`) from `IInv`: where each process stands and what it
  has locked (`Placed`, `Locked`, `Alone`), one running instance (`OneInstance`), and a record unaccounted for each live trial
  (`Credited`) [302,345 states].
* **`ProvidersProofs`**: `RequestsStayOnRoute` and `EmptyBilling` (`EmptyBilledOnlyIfAllEmpty`) from `RequestOK`: a request stands
  at a target of its route, and the two flags it keeps agree with the history of all its attempts [825,585 states].
* **`TakeoverProofs`**: `TakeoverTypes`, `SignInIsKept` (`SignInKept`) and `PatchesAreUndoable` (`PatchIsUndoable`) from where an
  operation stands: the session's record is open before the token changes and goes after it is back (`SignInStands`), the
  material is complete before the bundle changes and goes after it is official (`MaterialStands`, with the versions of
  bundle and material in agreement). `SignInStands` also says that a session in hand is the recorded one as long as that is
  there (`HandsMatch`). `OwnTokenIsHome` (`OwnTokenStaysHome`) adds `HomeStands`: every file sent to the gateway is
  on the takeover's record, which stands as long as the session's on disk or in hand, unless it was lost alone
  (`RecordsCover`), and token, files and bundle change in this order on the way out and in the opposite one on the way home
  [255,819 states].

Model-checked only: what several folds over sequences compute together (`ReportsStand`, `PanelsAgree`,
`VerdictsAgree`, `TurnsPairUp`, `StepsAgree`, `RefusalsEnd`), since the library's
induction theorems take an operator as a parameter and each fold needs an induction of its own, as those of `Cards`,
`Traces` and `Answer` show; `SharesStayBounded`, whose bound the runs confirm for the two keys of a pool and which may
need more room in larger pools whose keys are deleted and imported again; and liveness, which is out of the prover's
reach: `NothingStaysOpen`, `RequestsEnd`, `RecoveryCompletes`, `TrialsEnd`.

## Disagreements with the source

Shown by runs that expect a violation:

* `billing_reuse`: a client that sends an id again after a day, when its record is pruned and its usage entry is
  not, gets a new hold. If the settlement's write then fails, the intent stands beside the first entry, and the next
  save of anything writes a state `validate_snapshot` refuses ("invalid pending settlement"): the
  service does not start again, which the comment at `engine.rs:1111-1113` gives as the thing to avoid.
* `gateway_stop`: an orderly stop waits for connections, not for stream tasks. A stream whose client has left still
  bills what it streamed, in a task of its own; when the process stops first (the cut of open streams comes only after
  the drain, which nothing then waits for), the final save drops its hold and nothing is billed, against
  `main.rs:497-498` ("each settles what it streamed before the final save").
* `providers_rejected`: another request's outcome overwrites the health of a key that was rejected as invalid, and the next
  sync enables it again, against `governance.rs:61` ("left out until reset or its secret changes").

Seen while reading and modelling, without a run of their own:

* Takeover: (a) with the snapshot lost and the session kept, a restore puts the customer's own token back while the patch
  is live and settings point at the gateway (`desktop.rs:382-392`, against `snapshot.rs:573-578`); when both are lost while an
  unbind or a balance read waits, the session it saves back does the same (`desktop.rs:436-469`, `109-127`); (b) records
  lost, and a stale backup beside an official `extension.js`, refuse activation for ever (`snapshot.rs:330`,
  `patch.rs:288-290`); (c) a crash between the reverts of Default and of a profile lets a running Kiro work in between
  (`snapshot.rs:78-83`); (d) unbinding leaves a profile made during the takeover redirected (`backend.rs:958-972`); (e)
  a restore clears a sign-in made after an interrupted activation (`desktop.rs:393`); (f) an update landing between
  apply's read and write is overwritten (`patch.rs:408`, `463`); (g) Kiro's own refresh in flight may land after a
  restore; (h) `session.authenticated` outlives its token (`desktop.rs:110`). `OwnTokenStaysHome` exempts (a), by
  `parted`; the run leaves (f) and (g) out of its environment.
* Billing: `unban_card`'s comment (`engine.rs:3744-3748`) says archived cards stay unusable, but `redeem_topup` and
  `renew_with_card` do not look at `archived_at`; nothing sets `Expired` any more; an adjustment whose key is a template's
  invocation id would fail validation.
* Providers: a key that gets another weight (`commercial.rs:255-260`, or 1 with an import) keeps what it has gained or owes
  in the round robin (`governance.rs:126`): after weights of 1000 and 1 are made 1 and 1, one key may be chosen hundreds of
  times in a row. `SharesStayBounded` is therefore stated in the greatest weights the keys were routed with.
* Gateway: the documentation of `TokenUsage` (`provider/mod.rs:420`) speaks of one report, `merge` takes each maximum apart; an
  orphan tool result becomes a user's text between the results of a turn (`tools.rs:158-173`); two operators'
  syncs (`runtime.rs:43`) may publish the older edit last.
* Traces and reports: a settlement recovered late is pushed with an older time, behind which `record_trace`'s search of the last
  minute stops (`engine.rs:6270-6290`); a settlement merges a kept refusal away with the repeats it counted; a
  trace charged by recovery may afterwards be marked "settlement_failed"; attempts of a route Kiro leaves before it ends
  are not counted, and the call sent again has its whole budget (`conversation.rs:1465-1560`, `1364`); if its answer had
  begun, its outcome is noted on an earlier trace of the call, so that a refusal may come to read as aborted;
  `renew_with_card` voids its source card without activating it, so `compute_sales` drops its sale
  (`observability.rs:1000`); two plan changes of a card within a second, once archived, come in a hash map's order
  (`engine.rs:498`, `observability.rs:934`).

## What is left

Proofs: the folds named above, one induction each; liveness stays with TLC. Not modelled, and why: editor process
control and user interfaces (calls of the operating system and views), price resolution and rate cards (pure arithmetic,
tested), the rate limiter (it only refuses), the recovery task's backoff (the fairness of a retry stands for it), binary
framing and PDF parsing (pure conversions, tested).
