# Bluepay: a verification project

Bluepay is a payment gateway without a bank contract. A merchant opens an
invoice; the payer transfers an exact amount to the merchant's own bank card;
the bank's text message about the transfer is forwarded to Bluepay, which
recognises the invoice by the amount, charges the merchant's prepaid wallet a
fee and calls the merchant's server back. The whole state is in one SQL
database (PostgreSQL, or a SQLite file of the container); HTTP handlers, Telegram
bot handlers and background workers are coroutines of one FastAPI process, and
each works in a database session of its own.

The TLA+ modules here model the parts of that system where an order of events
decides whether money is right. Paths are relative to `src/`.

## Inventory

| Component | State | Operations | Interacts with |
|---|---|---|---|
| Invoices (`app/services/invoice_service.py`) | `invoices` (status, fee, payable amount, matched message), `amount_reservations` | create, create top-up, confirm paid, release (cancel, expire) | wallets (holds and charges), outbox (enqueue on payment), messages (match) |
| Wallets (`merchant_service.py`, `app/bot/admin.py`, `app/bot/handlers.py`) | `merchants.wallet_balance_rial`, `reserved_balance_rial`, `verification_fee_rial`; `wallet_ledger` | hold, charge, release, top-up, admin credit and debit, ledger reversal, set fee | invoices |
| Bank messages (`sms_service.py`) | `sms_transactions` (fingerprint, status, matched invoice) | ingest from a merchant's or the system's webhook, approve and reject by hand | invoices, notifications |
| Expiration worker (`app/main.py`) | none of its own | every 30 s release up to 200 pending invoices past `expires_at` | invoices, wallets |
| Callback outbox (`callback_outbox_service.py`, `callback_service.py`) | `callback_events` (status, attempts, next attempt, lock), `callback_attempts` | enqueue, claim, deliver over HTTP, schedule a retry, give up, recover at startup, retry by hand | invoices, merchants' servers |
| Idempotency and risk (`idempotency_service.py`, `risk_service.py`) | `idempotency_records`, `risk_events` | look up, reserve, finalize, clean up; score, block | invoice creation over the API |
| Rate limiter (`app/core/rate_limit.py`) | a dictionary of windows, or the table `rate_limit_buckets` | count, refuse, prune | every HTTP request |
| Stores and API keys (`store_service.py`, `app/api/deps.py`) | `stores`, `store_api_keys`, `merchants.api_key_hash` | create, issue, replace, enable and disable | API authentication |
| Sandbox (`app/api/routes.py`) | `sandbox_invoices` | create, simulate paid, expired, cancelled | outbox |
| SMS devices (`sms_device_service.py`) | `sms_devices`, `merchants.callback_secret`, `sms_token_version` | register, replace the secret, disable, authenticate | message webhook |
| Bot conversations (`app/bot/handlers.py`, `app/bot/admin.py`) | per user a state and a dictionary, in memory | begin, answer, confirm, cancel | nearly every handler of the bot |
| Access gate (`access_service.py`) | three settings, `phone_verified_at`, a cache of memberships in memory | evaluate, refresh, edit the channels | every update of the bot |
| Team and portal access (`team_service.py`) | team members, signed links | invite, remove | portal |
| Startup, readiness, bot delivery (`startup_service.py`, `app/main.py`) | in-memory status flags; Telegram's webhook | prepare database, verify, start workers, `/ready`, polling or webhook | every component |
| Backup (`storage_service.py`) | the SQLite file, its snapshot on a branch, a dirty flag | restore, mark, snapshot, publish | database file, startup, shutdown |
| Parsers, payload extraction, notifications, reports, dashboards, appearance, GitHub update, DDL | none the others branch on | recognition, formatting, queries | |

What is hard in it:

* *Concurrency of sessions.* Two webhooks, a bot command and the worker may
  hold the same rows. Rows are locked with `SELECT ... FOR UPDATE`, under
  PostgreSQL's READ COMMITTED, through SQLAlchemy's identity map, which does
  not refresh an object it already holds.
* *Order of legal calls.* A message may come before, after or twice for the
  same invoice, and be approved, rejected or reprocessed; an invoice may be
  cancelled, expired and paid at about the same time; administrators correct
  the wallet meanwhile.
* *Time.* `expires_at` is compared by four parties (matching, purge of
  reservations, worker, payment page), each with its own reading of the clock.
* *Failure.* Delivery to merchants' servers crashes, times out, is retried.
  Startup fails at any of its steps and is tried again; conversations are lost
  with the process; a container comes back without its disk.
* *Overlap of processes.* A deployment runs two of them for a while, with one
  bot, and on one database or with a SQLite file each and one snapshot.
* *Reading, waiting, using.* Handlers read rows or in-memory state, wait for a
  database, GitHub or Telegram, and write what they decided before the wait.

What makes each modelled component correct: holds equal the fees of open
invoices; the wallet covers the holds; the ledger is a faithful, chained
account of the balances; a message pays one invoice and an invoice is paid by
one message; amounts identify an invoice while it can be paid; closed invoices
stay closed; payment and callback event are committed together; abandoned
invoices are closed eventually. A quota grants what its limit says; a secret
that is shown is one that is accepted; a user who is let in was seen in every
required channel; a form is acted on as it was filled in, and once; nothing is
served before the schema is verified, traffic goes to a process that serves,
and a backup reported as stored is lost only to a container that never had it.

## Modules

| Module | What it is | Proofs |
|---|---|---|
| `Settlement` | invoices, wallets, messages and ledger, one action per committed transaction | `SettlementProofs` |
| `SettlementTx` | the same handlers as sessions that read, lock, write and commit step by step; with one session it implements `Settlement` | `SettlementTxProofs` |
| `CallbackOutbox`, `CallbackDelivery` | the outbox, and the promise it implements | `OutboxProofs` |
| `ApiRequests` | the creations of a store, live and sandbox: concurrent and repeated requests, the risk rules, expiry and cleanup of records | `ApiProofs` |
| `RateLimiter`, `FixedWindow` | the limiter that counts in shared rows, and the atomic fixed window it implements | `RateLimiterProofs` |
| `Lifecycle`, `DatabaseStorage`, `Gateway` | processes with their startup, readiness and bot; the SQLite file with its snapshots; their composition | `GatewayProofs` |
| `Dialogues` | the forms of one Telegram user | `BotProofs` |
| `AccessGate` | the check before every update of the bot | `BotProofs` |
| `Credentials` | API key, device secret and message address of one merchant | `CredentialsProofs` |

`MCSettlement`, `MCSettlementTx`, `MCApiRequests`, `MCDialogues`,
`MCAccessGate` and `MCCredentials` add the symmetry sets of the runs, and
`MCGateway` what is deployed.
Definitions whose name ends in `_Something` are variants of the definition
before which they stand, as a plausible bug would write it; each shows that
some property of a run depends on the definition.

What would come next: creations with a merchant's old key, then a refinement for
passes of several invoices, whose one commit is several steps of `Settlement`.

## Settlement

State and code:

| Variable | Code |
|---|---|
| `acct` | `wallet_balance_rial` and `reserved_balance_rial` of each row of `merchants` |
| `verificationFee` | `verification_fee_rial` |
| `invoice` | a row of `invoices`: status, merchant, fee, payable amount, purpose, top-up target, whether a callback is configured (`callback_url` and `callback_secret`), matched message |
| `overdue` | the pending invoices for which `expires_at < now` |
| `reservations` | `amount_reservations`: card, payable amount, invoice token |
| `sms` | `sms_transactions`: status, the webhook's merchant (part of the fingerprint), amount, matched invoice |
| `ledger` | `wallet_ledger` in id order, with the balances before and after |
| `events` | invoices with a row of `callback_events` keyed `live:invoice.paid:<id>` |

An action is a handler's whole transaction: `CreateInvoice` is
`create_invoice` with its reservation, hold and ledger row, called by the API
and the bot; `CreateWalletTopupInvoice`; `ConfirmInvoicePaid` is the body that
`IngestMatching` (the webhooks) and `AdminApproveSms` share;
`ReleaseInvoiceReservation` the body of `CancelInvoice` (API, bot command,
admin panel) and `ExpireInvoice` (worker, payment page, status endpoint);
`IngestUnmatched` every way a message ends without a payment;
`AdminRejectSms`, `AdminSetFee`, `AdminWalletAdjust`, `AdminReverseLedger` the
administrators' commands. `PassDeadline` is the clock. A call that raises or
returns early is rolled back and takes no step.

Abstractions: one card per merchant; the parser's result, the bank, the
card digits and the source id decide *which* card's candidates are looked at,
so `IngestMatching` picks any card; amounts are small numbers; the random
matching code is any free one; row ids come from finite pools, so the bound on
the number of invoices and messages is the size of `Invoices` and `Sms`.

| Run | Bounds | What it shows |
|---|---|---|
| `settlement` | one merchant, two invoices, one message, fee 0 or 1, administrators post while the ledger has fewer than three rows | `TypeOK`; holds are exact and covered (`ReservedIsHeld`, `Solvent`); the ledger chains and agrees with the balances (`LedgerExplainsWallet`) and with the fate of every invoice (`LedgerFollowsInvoices`); a message pays one invoice and conversely (`OneMessagePerPayment`); closed invoices stay closed (`ClosedIsFinal`); under `FairSpec`, `OverdueCloses` |

Two invoices are enough for the interplay of two holds on one wallet and of one
message with two invoices, redelivered and approved by hand. A fee of one rial
tells a hold from none, and the bound on the ledger leaves room for two holds
and administrative rows, including the reversal of a reversal. Two messages
competing for one invoice, and two merchants, are in the reach of the theorems
about this module, which hold for any number of either, and of the runs of
`SettlementTx`, one of which checks `NoAmbiguousAmount`.

Fairness: `FairSpec` asks weak fairness of `ExpireInvoice` alone, per invoice.
`expiration_worker` (`app/main.py:68`) loops for the life of the process,
catches every exception but cancellation and sleeps 30 s; a pass takes up to
200 overdue invoices, and each leaves the query when it is closed. Nothing is
assumed of payers, banks, merchants or administrators.

## SettlementTx: the same handlers as concurrent sessions

`SettlementTx` extends `Settlement`: its eight variables are the committed
tables, and two more hold the sessions (`sess`) and the row locks (`held`). A
handler becomes a sequence of steps, cut where the code waits for the database:
it *begins* by reading what it reads before its first lock (`BeginWebhook`,
`BeginApprove`, `BeginCancel`, `BeginExpire`, `BeginPass`, `BeginCreate`,
`BeginAdjust`), takes row locks (`FileMessage`, `LockInvoice`,
`LockMerchantToPay`, `LockTopupTarget`, `LockMerchantToRelease`,
`UpdateReleased`, `LockMerchantToCreate`), and commits (`CommitPayment`,
`CommitRelease`, `CommitCreate`, `CommitTopup`, `CommitAdjust`) or rolls back.

What is assumed of the database and of SQLAlchemy, none of which is in `src/`:

* READ COMMITTED, the default (`app/db/session.py` sets no isolation level): a
  SELECT sees what is committed at that moment; locks are kept to the end.
* The identity map: a row already loaded in a session is not refreshed by a
  later SELECT, with `FOR UPDATE` or without, because no query here uses
  `populate_existing`; a commit writes the columns that differ from the values
  loaded, as absolute values (`Flush`).
* PostgreSQL aborts a member of every cycle of waiting transactions
  (`InDeadlock`, `AbortVictim`), and serves the waiters of a row in order.

A consequence is worth spelling out: `confirm_invoice_paid` tests the status of
the invoice after locking it, but on an object that the same session loaded
while it was pending. The test cannot fail, and the model has no guard for it.
Which handlers have loaded the merchant before its lock is the parameter
`joined` of the `Begin` actions.

Left out: rows of API keys, audit, timeline and cases, which are written beside
the transition (an API request also locks the row of its API key, so two
requests with the *same* key overlap less than here; the merchant is loaded
before that lock as well).

| Run | Bounds | What it shows |
|---|---|---|
| `tx_serial` | one session, every kind of handler, two invoices, one message, fees | `ImplementsSettlement`: the step-by-step handlers, run one at a time, refine `Settlement`. The mapping is the identity on the tables, except that an invoice a webhook has picked does not become overdue before the webhook's commit |
| `tx_payment` | two sessions, one invoice with or without fee, two messages | `PaidByOneMessage` and `QueuedIfPaid`: wherever a unique key of the ledger or the outbox applies, the second payment is rolled back |
| `tx_locks` | two sessions, two invoices, one matching code, a worker's pass of one or two invoices | `NoAmbiguousAmount` holds under concurrency too, and `SessionsFinish` |
| `tx_two_messages` | no fee, no callback | finding: two messages pay one invoice |

Two sessions suffice for every race of a check with a change; a longer chain
of waiting sessions adds no step that two do not have. Two invariants of the serial system are not
kept by two sessions and are stated without a run: `ReleasedUnpaid` (a
cancellation or expiry that read the invoice before a payment committed writes
its own status over `paid`) and `ReservedIsHeld` (two creations that loaded the
merchant before its lock write the same absolute hold, and one is lost).
The sessions stop when the pools of invoices and messages are used up, so these runs do not check for
deadlock in TLC's sense; that no transaction waits for ever is `SessionsFinish`.

Fairness (`TxFairSpec`): strong fairness for a session's next step, because a
lock it waits for may come and go, and PostgreSQL queues the waiters of a row;
weak fairness for the abort of a deadlock's victim. Nothing is assumed of
arrivals.

## CallbackOutbox

| Variable | Code |
|---|---|
| `status`, `attempts` | `callback_events.status`, `attempt_count` |
| `due` | the queued events with `next_attempt_at <= now` |
| `stale` | the claimed events with `locked_at` older than five minutes |
| `mirror` | `invoices.callback_status` of the event's invoice |
| `worker` | where each process's `callback_outbox_worker` is: idle, claimed (claim committed, delivery not begun), posting, answered (outcome not committed), off |
| `received` | what the merchant's server has processed, whatever it answered |
| `requeued`, `faults`, `manual` | history and bounds |

`Claim` is the first transaction of `process_callback_outbox_batch`
(`FOR UPDATE SKIP LOCKED`, so atomic on PostgreSQL), `Load`, `Post` and
`RecordOutcome` are `_deliver_event` cut at its awaits: another party may write
the row between any two. `Post` lets the server process the request or not, and
lets a 2xx answer be lost. `SessionFails`, `Crash` and `Restart` are the
failures; `Restart` includes `recover_stale_callback_locks`, which runs once per
process. `ManualRetry` is the admin panel's, which takes an event in any status
(the portals' take only failed ones); it is one step, as it reads and writes
without an await in between but the commit. The batch size and the order by
`next_attempt_at` only pick among due events.

`CallbackDelivery` is the promise: an event is open until the server has
processed it (delivered) or its attempts are used up (failed), and only a
person reopens it. The mapping collapses pending, processing and retry to open.
An event that was queued again while it was being delivered (`requeued`, by
hand or by the recovery of a second process) is the exception: the outcome of
the older delivery is written over whatever the newer one has recorded, so a
delivered event may become failed, and the promise lets such an event change
its end; what remains is that it is delivered only if received.

| Run | Bounds | What it shows |
|---|---|---|
| `outbox` | two workers, two events, two attempts, one failure, one retry by hand | `OutboxTypeOK` (attempts stay within the limit), `ClaimIsExclusive`, `DeliveredWasReceived`, `InvoiceMirrorsEvent`, `KeepsPromise`, and `SettlesUnlessOrphaned`: nothing is lost but what was claimed |

`SettlesUnlessOrphaned` has its exception for a reason: what was claimed when a
process stopped is not retried if the process is back within five minutes, as
the recovery looks at older locks and runs once. `RetriedAfterRestart` states
the opposite; the code does not keep it.

Two events compete for a worker and two workers for an event; two attempts (of
the code's three) have a first and a last one. When every event has settled the system rests,
hence no check for deadlock.

Fairness (`FairSpec`): the worker's loop goes on for the life of the process
(it catches every exception but cancellation), a stopped process is started
again by the platform, and time passes. Nothing is assumed of the merchant's
server: an answer or the timeout ends each attempt (`CALLBACK_TIMEOUT_SECONDS`).

## ApiRequests

| Variable | Code |
|---|---|
| `records`, `expired` | `idempotency_records`: the request (its hash) and the invoice of the stored response; those past `expires_at` |
| `invoices` | `invoices` and `sandbox_invoices` of one store, in order of creation: what was asked for, the day of `created_at`, status |
| `recent`, `today` | the clock as the risk rules see it: live invoices of the last minute, the date |
| `key` | the session that has updated the API key's row and not ended its transaction |
| `session` | where each request is: *known* (key found, transaction begun), *touched* (`last_used_at` flushed), *admitted* (reserved and evaluated), *answered* |

`api_context` is `Authenticate` and `Touch`: the update of `last_used_at` locks
the key's row, and since a store has one key, its requests run one after the
other from there to the end of their transactions. Nobody wrote that lock to
serialise them, but everything after it depends on it, so the model keeps the
handler in steps (`AnswerFromRecord`; `Refuse`, `Admit` or `AdmitSandbox`;
`Create` or `CreateFails`) and the mutant that drops the lock breaks the daily
limit. `get_idempotent_response` and `reserve_idempotency` are part of these
steps: what they write is seen by nobody until the transaction ends, and a
request that stops (`Abort`) or fails takes it back. `Simulate` runs in one
step, as it holds the key's row throughout. `Close` stands for the cancellation
or expiry of a live invoice, whose money `Settlement` models; an open and a paid
invoice count alike.

Left out: requests with a merchant's old key, which have no store, no limits of
their own and no key row; changes of the limits while requests run; the address
check, which `api_context` makes before `evaluate_invoice_creation` repeats it.

| Run | Bounds | What it shows |
|---|---|---|
| `api_requests` | two requests at a time, two invoices, one key and one order to collide on, limits of two a minute and one amount a day, two days | `OneInvoicePerKey`, `AnswerIsOwn`, `StopsLeaveNoRecord`, `WithinDailyLimit` |

A refused request commits its record without a response, so its key is reported
as in progress until the record expires. `InProgressIsConcurrent` states what
that answer claims; the code does not keep it.

Two requests give every race of lookup, evaluation and insertion; the second
invoice is the one that would exceed the limit or duplicate the first. The
record may expire, be cleaned up or be replaced at any moment. A daily limit of
one amount makes each live invoice reach it. Invoices are dated by the start of
their transaction (`func.now()` of PostgreSQL) and counted by the clock, so
`WithinDailyLimit` leaves out those whose request waited past midnight
(`late`): they are checked against the new day and count for the old one.

## RateLimiter

| Variable | Code |
|---|---|
| `now` | `int(time.time() // 60)`, the window |
| `count` | `rate_limit_buckets.count` by bucket and window; 0 stands for no row |
| `request` | where `consume` is in each request: before the SELECT, row locked, no row found, INSERT flushed, raised |
| `hits`, `granted` | history: consumptions committed and those allowed |

`check()` counts a request in one to three buckets (address, key, invoice
creation), each in a transaction of its own: `SelectRow` is the
`SELECT ... FOR UPDATE`, `InsertRow` the flushed INSERT with its
`IntegrityError`, `CommitCount` the commit with the pruning of old windows and
the step to the next bucket. `Fail` is any other exception: what was counted
stays counted. A request is answered after all its buckets are counted, also
when the first refuses it, and so it is here.

`FixedWindow` is the limiter without a database
(`FixedWindowRateLimiter`, one lock around a dictionary) and at the same time
what a quota promises: the first `Limit` consumptions of a window are allowed.
`RateLimiter` implements it with `counts <- hits, allowed <- granted`.

| Run | Bounds | What it shows |
|---|---|---|
| `rate_limiter` | two requests of one address and one key, limits 2, 1 and 1, three windows, cleanup in each of them, at most four consumptions of a bucket | `LimiterTypeOK`, `KeepsQuota`, `RetrySucceeds` |

Two requests collide on the first row of a window, and while one retries the
window changes and the other prunes. Windows are kept for one window and pruned
in each (three and every tenth in the code), which makes the race of pruning
and counting happen within three windows. A request is assumed to be over
before its window may be pruned: three minutes in the code, longer than the
timeouts of pool and database.

## Lifecycle, DatabaseStorage, Gateway

| Variable | Code |
|---|---|
| `proc[p].phase`, `attempt` | where `lifespan` of a process is, and the loop of `prepare_database_with_retry` |
| `proc[p].ready`, `maintenance`, `schemaOk`, `settingsOk` | `RuntimeStatus` |
| `proc[p].bot` | where `telegram_delivery_supervisor` and `telegram_polling_worker` are |
| `postgres` | `settings.is_postgres`, the same for all processes |
| `schema`, `up` | the revision in `alembic_version` of each database; whether the database answers |
| `webhook`, `route` | outside the code: Telegram's setting, the platform's routing |
| `local`, `remote` | the SQLite file of each container and the snapshot on the branch, as sets of records |
| `dirty`, `backup` | each process's `storage.dirty`, and its callers of `backup_now` around its lock |
| `confirmed`, `known` | history: records in a snapshot that was answered with success; which of them each container started from or has published |

`Lifecycle` takes a process from boot through restore, preparation, migration
and settings to serving or failed, with `/ready` (`Promote`, `ProbeFails`), the
shutdown, crashes, outages, and the Telegram tasks. `DatabaseStorage` is
`GitHubDatabaseStorage`: a snapshot is copied under the lock (`TakeSnapshot`)
and published later by forcing the branch (`PublishSnapshot`); a publication
that fails or is cancelled may have moved the branch all the same (`CutOff`).
`Gateway` joins them: which step of the startup restores, creates or marks the
file, and that a shutdown publishes what is dirty before it ends while a crash
does not.

The platform starts the new process beside the old one in either mode
(`railway.json`, `app/main.py:126`). On PostgreSQL they share the database and the
storage takes no step. On SQLite each container has a file, a flag and a lock of
its own and they share the branch; a process may also be started again in its
container, with the file or without it.

| Run | Bounds | What it shows |
|---|---|---|
| `gateway` | two processes, one record, one fault, two boots, two attempts; on PostgreSQL two releases with every setting, on SQLite one release; the callers `button` and `shutdown` | `GatewayTypeOK`, `ServesOnlyVerified`, `RoutesToServing`, `ConfirmedIsKept`, and under `FairGatewaySpec` `BotReachable` |

Two boots give a rolling deployment (on PostgreSQL of releases in either order)
and a container started again; one fault is any one failure of any step. Two
attempts are one that is retried and a last one. With one record, a snapshot is
older than the file or is not. The button asks for a backup at any time, so that
its calls include those of the retry worker, which asks only when dirty; a call
under way and a second one are the button's and the shutdown's. With these
bounds there are some 636,000 states.

Assumed of GitHub: it moves the branch before the request is given up (12
seconds, or the end of the process) or not at all. A request that GitHub
carried out after its client has gone could undo a later snapshot of the same
container, and nothing in the code prevents it.

Fairness: weak fairness for the startup and the Telegram tasks, which are
coroutines that go on until they end or are cancelled. Nothing is assumed of
backups, the database's return, the platform, administrators or Telegram, whose
failures are counted.

What the code does not promise, stated in the modules without a run or not at all:

* `ConfirmedIsPublished`: that a confirmed snapshot is never undone. Without
  PostgreSQL, a new container restores the snapshot; the old one, still serving,
  commits a record and publishes it, and the administrator is told that it is
  stored; then the new one publishes its own file, by force, without that record.
  The lock is one process's, and the branch is not compared with what the
  container started from. `ConfirmedIsKept` is what is left: one container alone
  never takes back what it has published, whatever its three callers, failures,
  cancellations and restarts; a record goes only with the publication of a
  container that had neither restored nor published it, be it that the two
  overlapped or that its restore failed.
* That what was marked dirty is published: the flag is cleared after the upload,
  also when a transaction has set it since the copy.
* `ReopensAfterOutage`: after `/ready` has seen an outage nothing takes the
  process out of maintenance but a restart.

`BotReachable` leaves out deployments in which one of the two processes used a
webhook: whichever registers or deletes it last wins.

## Dialogues

| Variable | Code |
|---|---|
| `state`, `data` | aiogram's FSM state and dictionary of one user, in `MemoryStorage` |
| `tap` | handlers of buttons that wait for the database or Telegram, with the data they have read and the form whose prompt they are to show |
| `forms` | the forms begun so far |
| `current`, `asked` | the form whose handler wrote the state; the form of the last prompt the user has seen |
| `orderly` | history: no two taps have overlapped and no prompt has failed |
| `acts`, `previews`, `lost` | history: what each form was acted on with, its previews, commits whose answer was lost |

A form is a record of its group of states, what its first button writes and
whether that button clears the dictionary, and its steps; all fourteen forms of
the user's and the administrator's handlers are there. The value of a key is the
number of the form for which it was given, so that a value left over from
another form is told from the form's own. That number is `current`'s: the user
answers the prompt seen last, but the handler that is called is that of the state.

A handler writes state and dictionary and then waits for Telegram to show its
prompt, as `start_wallet_adjust` does (`app/bot/admin.py:1187`-`1191`). `Begin`,
`Cancel`, `TapBank` and the others therefore end in `Reply`, which only puts the
prompt on its way; `Shown` and `NotShown` are its arrival, in any order with those
of other taps, and its failure. Every button may be tapped while other taps wait.
Forms of one step or of plain steps
share `Begin`, `Answer` and `Finish`; the manual invoice, whose buttons overlap
with texts and with each other, has an action for each step of each handler
(`TapFeeMode` ... `ClearIssued`, `ConfirmFails`).

| Run | Bounds | What it shows |
|---|---|---|
| `dialogues` | all forms, two of them begun, two taps at a time, one lost commit | `DialoguesTypeOK`, `ActsOnWhatWasFilledIn`, `OneActPerForm` |

Two forms are one that is abandoned and the one that might read what it left;
two taps are the double tap, or two forms begun at once. That gives some 247,000
states. It is assumed that the user types when earlier updates are answered, and
that Telegram delivers an update once.

`ActsOnWhatWasFilledIn` has two parts, and the line between them is the code's:

* Whatever the taps, what is acted on is one form, complete, with no key of
  another.
* That this is the form the user was asked for is promised only while taps do not
  overlap and prompts arrive (`orderly`). Otherwise it is not so: an administrator
  taps "credit" for one merchant and at once "fee" for another; the handler of the
  first writes its state, that of the second writes over it, and the prompts
  arrive in the other order. The amount that answers the prompt seen last, the
  credit's, is set as a fee. The same comes of a second prompt that Telegram
  refuses.

Not kept by the code and without a run either: `StagingStaysOffProduction`, as the
target of a release is forgotten with the process and the ZIP that follows is
taken for a production release.

## AccessGate

| Variable | Code |
|---|---|
| `forceJoin`, `phoneNeeded`, `required` | the settings of the administrator's panel |
| `verified` | `merchants.phone_verified_at` |
| `cache` | `_MEMBERSHIP_CACHE` of the user, by list of channels, with the time left |
| `check` | `evaluate_access` of each update under way: the list read, the channels still to ask about, those missing, its age |
| `seen` | history: how long ago Telegram reported the user in a channel |

`Arrive` reads settings and cache, `AskTelegram` is one `get_chat_member` and,
after the last, the entry in the cache; in between other updates are checked,
channels edited, the cache emptied. There is no clock: ages count up and times
left count down with `Tick`.

| Run | Bounds | What it shows |
|---|---|---|
| `access_gate` | two channels, two checks, a lifetime of 1, checks that last up to 2 | `AccessTypeOK`, `LetInOnlyIfSeen` |

Two checks store their answers in either order, and a check may outlast the
lifetime, so an answer may be stored when it is already too old. One
administrator edits the settings, one handler at a time.

## Credentials

| Variable | Code |
|---|---|
| `keys`, `storeActive` | `store_api_keys` of one store, `stores.is_active` |
| `device` | the row of `sms_devices`: secret version, active, whether messages are signed |
| `merchant` | `callback_secret` and `sms_token_version`, from which addresses and device secrets are derived |
| `session` | the rows each handler has read |
| `answer` | the secret the last committed handler showed |

A handler reads (`Begin`, and `PickKey`, which asks the database again through
the identity map) and later commits the columns that differ from what it read
(`Assigned`). Secrets are the inputs of their hashes.

| Run | Bounds | What it shows |
|---|---|---|
| `credentials` | two handlers at a time, two key rows, four transactions, an old installation's key | `CredentialsTypeOK` (no two active keys), `AnsweredSecretWorks` |

Two handlers overlap in every pair of operations, and four transactions let a
row be disabled and enabled again around them. `AnsweredSecretWorks` excludes
handlers under which another has disabled a row they build on or replaced an
input of their secret: the last of those wins, and the owner caused both. Three
things follow from the code and are not claimed otherwise: a merchant's key from
before there were stores stays accepted after the store's key is replaced; a
device secret that was replaced may be accepted again after three overlapping
replacements, as versions are counted up on what was read; replacing the
message address ends the secrets of the devices.

## Proofs

Safety properties are proved for all values of the constants that the modules'
assumptions allow; TLC evaluates the assumptions in every run.

`SettlementProofs` proves every safety property of the run `settlement` (`ConstantsAssumption`: the owner is a merchant,
NULL is none of the ids, `Invoices` is finite, amounts are naturals):

* `TypeCorrect`: through `TypeInv`, which adds that a row that exists names its
  merchant and a top-up its target and no fee: without it the charge on payment
  could not be typed.
* `HoldsAreExact` and `WalletsStaySolvent`: the inductive invariant is their
  conjunction (`HoldsInv`). A payment keeps the wallet above the holds only
  because the hold it drops is as large as the charge, which is exactness; and
  the clamps are the identity only because the fee is part of the held sum. The
  sum over open invoices is the cardinality of a set of rials (`HeldRials`), so
  that opening or closing an invoice adds or removes a set of known size.
* `PaymentsMatch`: with `PaidNames`, that a paid invoice names a message.
* `AmountsUnambiguous`: `NoAmbiguousAmount` is not inductive; `AmountInv` adds
  `Reserved`, that every payable invoice still has its reservation. The purge
  deletes reservations by their time, and what it spares is what can be paid.
* `ClosedStaysClosed`: an action property, from the guards of the four actions
  that write a status.
* `EventsFollowPayments`: `PaidIffQueued`, which has no run of its own.
* `LedgerExplains`: every step posts at most one row to one merchant, from the
  balance it has (`Booked`); a top-up of a merchant with a fee cannot post twice
  in one step because its invoice bears none.
* `LedgerFollows`: the rows of an invoice are counted by kind (`RowsOf`) and are
  exactly those its fee and status make due (`RowsDue`).

`OutboxProofs` proves every safety property of the run `outbox`
(`OutboxAssumption`):

* `OutboxTypeCorrect`: through `TypedInv`, which adds that an unsettled event has
  an attempt left (so that the attempt a worker starts is within `MaxAttempts`)
  and that a successful answer comes from a server that has processed the event.
* `DeliveriesAreReal` and `InvoiceShowsOutcome`: from `ReportInv` under
  `TypedInv`.
* `ClaimsAreExclusive`: exclusiveness alone is not inductive. `ClaimInv` adds
  that the event in a worker's hands is in status *processing* unless it was
  queued again, so that no second worker can claim it, and an outcome recorded
  by one worker takes the event from nobody else.
* `OutboxKeepsPromise`: one lemma per step of `CallbackDelivery` states it on
  `EventStates`, the mapped state; one step per action of the outbox picks the
  step it implements. `ClaimInv` decides for a request or an outcome whether it
  belongs to an open event (`Receive`, `Settle`) or to one queued again
  (`Overwrite`).

`RateLimiterProofs` (`LimiterAssumption`): `LimiterKeepsQuota`, the refinement of
`FixedWindow`, `RetriesSucceed` and `LimiterTypeCorrect`. Rows and history agree in
every window a running request may count in (`CountsKept`), because pruning spares
those; a row has one owner, whose reading is current (`OwnersAgree`, `OneOwner`);
and a request that has collided knows of a committed row, which nobody deletes
before it is over. A commit is then one `Consume`, and every other step a stutter. The bounds
of the run on hits and windows play no part.

`GatewayProofs` (`LifecycleAssumption`, `StorageAssumption`, and
`GatewayAssumption`: each process has a container of its own), from `GatewayInv`,
for any number of processes that overlap, on PostgreSQL or on SQLite:

* `OnlyVerifiedServe` and `RoutedToServing`, from what a phase says of the flags
  and of the revision of the process's database (`ProcOK`, in `LifeOK`). A started
  process stays verified because nobody lowers the schema under it: on PostgreSQL
  migrations only raise it, on SQLite nobody else has the file.
* `ConfirmedStaysOnBranch`: a copy that is being published contains what its
  container has started from or published (`CallsOK`), because it was taken from a
  file that does (`FileOK`) and, under the lock, there is no other copy that could
  have been published meanwhile. Every step that moves the branch publishes such
  a copy, or is cut off while it does.
* `GatewayTypeCorrect`: that what is copied is a file and not its absence needs
  that a container whose tasks run has been migrated and so has a file
  (`FilesThere`); a shutdown asks only when the file is dirty.

`BotProofs` (`AccessAssumption`, `DialoguesAssumption`: finitely many updates
are handled at one time) proves the bot's two modules:

* `AccessTypeCorrect` and `LetsInOnlyWhoWasSeen`, from `GateInv`: a cached answer
  was true when its lifetime began, which is before the calls it came from, and a
  check has seen the user in every channel it asked about and did not note as
  missing.
* `DialoguesTypeCorrect`, `OwnFormOnly` and `OnceForEachForm`, from
  `DialoguesInv`, for any of the 14 forms, any number of forms and of overlapping
  taps. While a form other than the invoice is filled in, the dictionary holds its
  answers so far (`FillingIn`), whatever else is in there and whatever prompt the
  user sees. A dictionary with an amount is that of one invoice
  form (`OfOne`): the amount is typed only when no tap is being handled, and
  nothing changes it but clearing. What a waiting tap has read therefore agrees
  with the dictionary it comes back to (`TapOK`), and a preview that can be
  confirmed is complete or cleared. The count is inductive once it includes the
  invoices still to come (`Claims`): the handlers about to create one and the
  preview that can be confirmed now. A failure before the commit gives its claim
  back to the preview, and one after it is paid for by `lost`.
* The second part of `OwnFormOnly` has an invariant of its own, `InOrder`: as long
  as taps have not overlapped and prompts have arrived, at most one handler waits,
  the prompt on its way is that of the state, and when none is on its way the
  last one seen is.
* What the proof needs of the forms is a fact about the table of forms
  (`FormFacts`): forms of one group have the same steps, and no other form uses a
  key of the invoice's.

`ApiProofs` (`ApiAssumption`): `ApiTypeCorrect`, `KeysMakeOneInvoice`,
`AnswersAreOwn` and `StopsLeaveNothing`, for every number of sessions, keys and
days and whatever the limits are. `ApiInv` adds that a stored response names an
invoice made for the stored request (`RecordOK`): a replay answers with it only
if the request is the same, so the answer is the caller's own; and an expired
record may be replaced without a second invoice because the unique index of the
invoices, not the record, has the last word (`Create`). The lock of the key's row
plays no part in the last three. `DailyLimitHolds` is what needs it: its
invariant (`LimitInv`) says of the request that was admitted and has not inserted
yet that the sum it was checked against still leaves room for it, and only the
lock keeps another request from inserting in between (`Exclusive`, of `ApiInv`).
The sum of a day is the cardinality of a set of rials, as that of the holds.

`SettlementTxProofs` (`ConstantsAssumption`, `TxAssumption`) proves the
invariants of the runs with two sessions for any number of them: `TxTyped`,
`KeyedInvoicesPaidOnce`, `PaymentsAreQueued` and `SessionsKeepAmounts`; and that one
session implements `Settlement` (`OneSessionIsSerial`). Several sessions work on
stale objects, so nothing a session has read of an invoice's status or a
merchant's balances is in the invariant of the first four; `TxInv` says what
remains:

* `SessInv`: where a session stands, it has what its next step uses; a payment
  that is about to commit carries in its ledger rows the one whose key is unique
  (`LogsPayment`), with the invoice's fee and purpose, which never change once
  the row exists.
* `MatchesInv`: a message that has paid has left its unique rows behind, in the
  ledger for a fee or a top-up and in the outbox for a callback
  (`PaidLeavesKeys`), although a stale cancellation may have overwritten the
  invoice's status. A second payment of the same invoice therefore finds the key
  taken and is rolled back, whatever locks it waited for. Neither
  `PaidByOneMessage` nor `QueuedIfPaid` is inductive without it.
* `SessionsKeepAmounts`: `AmountInv` of `SettlementProofs` carries over, because
  a reservation is judged and written by one commit, and a commit of stale
  objects can only close an invoice, with its reservation.
* `OneSessionIsSerial` is the property of `tx_serial` under the values its cfg
  gives `Sessions` (one), `PassLimit` (1: a pass over several invoices commits
  several steps of `Settlement` at once) and `Funds` (0: `Settlement` starts
  empty), for every set of handlers, merchants, invoices and messages and every
  amount. Here the opposite of staleness is the invariant (`SerialInv`): until
  the session commits, its objects are the rows, with at most one of them changed
  and the ledger row that says how (`Clean`, `Wrote`), and what was read before
  the first lock still holds (`Chosen`, `Releasing`, `Issuing`, `Adjusting`).
  What a commit flushes column by column is then the row that `Settlement` books
  (`FlushPosting`). Every step before the commit is a stutter; the commit is
  `IngestMatching`, `AdminApproveSms`, `CancelInvoice`, `ExpireInvoice`,
  `CreateInvoice`, `CreateWalletTopupInvoice` or `AdminWalletAdjust`; and a
  payment that is rolled back after its invoice's deadline is the deadline
  passing.

`CredentialsProofs` (`CredentialsAssumption`): `CredentialsTyped`, which includes
that a store never has two active keys, and `ShownSecretWorks`, from `CInv`. It
adds to the property that hashes are distinct and below the next fresh one
(`RowsInv`), and that what an undisturbed handler has read and builds on still
holds when it commits (`ReadsInv`): the unique index keeps two first issues from
both inserting, and everything else that could invalidate a reading marks its
reader as disturbed.

Model-checked only: all liveness (`OverdueCloses`, `SessionsFinish`,
`SettlesUnlessOrphaned`, `BotReachable`), which needs fairness and ENABLED and is
out of the prover's reach. Every other property of a passing run is stated by a
theorem, `ImplementsSettlement` under the bounds of its run (one session).

## Not modelled

`PROJECT.json` lists the components with reasons. In short: the parsers (their
result is an input of matching), team members and portal links, reconciliation
cases and the timeline, settings and appearance, reports and metrics, tables no
service writes, the DDL of migrations, the SDKs. Of modelled components: creations
with a merchant's old key, the creation of stores, the bot's menus, the encryption
of snapshots, the allowed banks of a device, requests exempt from the limiter.
