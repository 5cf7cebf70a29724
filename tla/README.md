# Specifications of PyBoard

PyBoard sells subscriptions to network nodes: a FastAPI backend, a queue
worker and a PostgreSQL database that both work on. These modules model the
parts of it whose correctness depends on several requests, jobs or processes
working on the same rows, check them with TLC on small instances and prove
their safety, but for that of the administration pages and the order sweep,
with TLAPS for instances of any size.

Everything is translated from the Python code under `src/app`; the
documentation under `src/docs` and the messages and comments of the code are
used only to say what is expected of it.

## 1. The system

| Part | State it keeps | Operations | What is hard about it | What makes it correct |
|---|---|---|---|---|
| Orders (`services/order.py`) | `orders` rows: status 0 pending, 1 opening, 2 cancelled, 3 completed | create, checkout, payment callback, cancel, administrators' mark-paid, cancel and assign, the `order_handle` job | all of them may hit one order at once; some lock the row, some do not | opened at most once; a cancelled order is never opened; money, seat and coupon are taken with the opening |
| Coupons (`services/coupon.py`) | `coupon.limit_use`, `value` | validate when an order is placed, consume when it is opened, edit | validated long before it is consumed | never used more often than allowed, in all and per user |
| Commissions, invites (`services/commission.py`) | `users.commission_balance`, `commission_log`, invite codes | pay with an opening, recompute by a job, transfer to the balance | several orders credit one inviter | one commission per order, only for opened orders |
| Plans (`services/plan.py`) | `plan.capacity_limit`, prices, `show`, `renew` | edit, offer, count active users, delete | counting reads another table; nothing is locked | no order opens without a seat; no plan goes while it is used |
| Payment gateways (`payments/`, `services/payment.py`) | enabled methods and their fees | build a payment page, verify a callback | callbacks are repeated, late, or for an old page; the answer leaves before the commit | "success" only when no other operation can still come between |
| Job queue and worker (`core/queue.py`, `queues/worker.py`) | `queue_job` rows | enqueue once per key, claim, run, finish, fail or retry | several workers, crashes between two transactions | no job run by two workers, bounded tries, every job settles |
| Failed jobs (`queues/failure_handler.py`, `services/admin_tools.py`) | `failed_jobs` rows | record, retry, delete | retry is two transactions | a retried job is never lost |
| Order sweep (`queues/jobs/maintenance.py`, `queues/jobs/order.py`) | none of its own | scan open orders, enqueue a job for each, cancel stale ones | the scan and the job see different moments; the key of a job is unique for good | an order that needs handling when it is first seen is handled |
| Traffic (`services/server.py`, `queues/jobs/traffic.py`, `pg_cache.py`) | `traffic_cache` (UNLOGGED), `users.u`, `users.d` | accept a report, add it, flush it to the users, list the users of a node | reports during a flush, deadlocks, retries, a database crash | what was accepted and not lost is billed once; whoever is out of traffic leaves the lists |
| Statistics (`queues/jobs/traffic.py`, `stat.py`, `services/stat.py`) | `stat_user`, `stat_server`, `stat` rows | add to the record of a day, aggregate a day | unlocked read and write; a job that is late for midnight; an aggregation that runs twice | a record is exact; an aggregated day stays the sum of its records |
| Runtime cache (`core/cache.py` and its users) | `runtime_cache` (UNLOGGED), shared by all processes | get, set, delete, increment, with an expiry; cleanup | writes show at the commit of the request; entries vanish | see the next three rows |
| Authentication (`services/auth.py`, `controllers/auth.py`) | one-time codes and tokens, limits per address | register, log in, reset, quick login | get, use, delete | a one-time thing is used once; a limit is a limit |
| Settings (`services/setting.py`) | `setting` rows, an entry of the cache for each | read through the cache, update | a slow reader fills the cache after the writer has emptied it | a cached value is the row's, but for an overlap |
| Devices (`services/server.py`) | one cache entry per user, one list of counts | report what is online, read the counts | read-modify-write by several nodes | a report that was not overlapped is kept |
| Users, wallets (`services/user.py`, `giftcard.py`) | `users`, `giftcard`, `giftcard_redemption` | redeem, open, transfer, credit, administrators' edits | locked and unlocked writers of one row, absolute values from forms of any age | no amount is lost by operations that lock; once per user and card |
| Tickets, chats (`services/ticket.py`, `telegram.py`) | `ticket`, `ticket_message`, `users.telegram_id` | open, reply, close, reopen, bind | check then insert, answers from two sides | one open ticket per user; turns alternate; the status names who wrote last; an account keeps its chat until it is unbound |
| Mail and events (`queues/jobs/mail.py`, `services/mail.py`, `log_event.py`) | `log_event` rows | send, log every attempt, clean up by age | the event commits before the job raises | events tell what happened to the mail |
| Nodes (`services/server_admin.py`, `server.py`, `subscribe.py`) | `server_v2node` rows | create, replace, patch, copy, delete, read by nodes, clients and browsers | a partial update is completed from half a row; ETags made of the seconds at which transactions began | keys and passwords fit and survive; "not modified" is true of what stamps can tell |
| References (all services that delete) | ids in rows of other tables, no foreign keys | delete after counting, erase a user | counts and deletion are separate statements | nothing refers to what is gone |
| Administration pages (`admin_ui/`) | the form in the browser, the csrf cookie | show, edit, save | text and back; a page older than the login | an untouched save changes nothing; what is typed is shown again |
| Everything else | | rendering of subscriptions, knowledge texts, dashboards, start-up, migrations, the browser application | text, reads, outside services | |

The parts meet in the database only. A request runs in one transaction that
`get_db` (`core/database.py`) opens and commits after the response has been
sent; a job opens sessions of its own, and `enqueue_job` commits by itself. All
run at READ COMMITTED: a SELECT sees what is committed at that moment,
`SELECT ... FOR UPDATE` and UPDATE wait for the lock of the row, and `flush()`
writes the changed columns with the values the process computed, whatever the
row holds by then. pg_cron enqueues the periodic jobs: traffic every minute,
orders every five, the cache's cleanup every ten, yesterday's statistics at
00:05, old events at 03:25.

## 2. Modules

| Module | What it models |
|---|---|
| `OrderRows` | rows of orders, users, plans and coupons, and the pure functions on them (discount, bonus, seats, the user row an opening leaves) |
| `Orders` | the order life cycle as concurrent transactions |
| `OrderContract` | what it promises to somebody who sees committed rows only: orders are opened one after the other, each in one step |
| `JobQueue` | the job queue, its workers and the administration of failed jobs |
| `OrderSweep` | extends `JobQueue` by `check_order`, `order_handle`, the cron schedule and the orders they look at |
| `Traffic` | reports, increments, flushes and the nodes' lists of users |
| `TrafficContract` | what the billing promises: what waits is billed once and as it is |
| `StatRecords` | the daily records and their aggregation |
| `RuntimeCache` | the cache: entries, expiry, locks, commits, cleanup, loss |
| `Tokens`, `Devices` | extend `RuntimeCache`: accounts, codes, limits and settings; the map of online devices |
| `Wallets` | balances, gift cards, coupons and plans of users under locked and unlocked writers |
| `Pages` | every form of the administration, from the row to the text and back |
| `Desk` | tickets and chats |
| `Events` | mail and the log of events |
| `Nodes` | configurations of nodes and the lists browsers keep |
| `Catalog` | what refers to what, and who may order what |
| `Null` | the absent value that the last four share |
| `SumTheorems` | sums over finite sets: what the ledgers of the other proofs cite |
| `OrdersProofs`, `JobQueueProofs`, `TrafficProofs`, `StatProofs`, `WalletsProofs` | inductive invariants and theorems of one module each |
| `CacheProofs` | the same for `Tokens` and `Devices` |
| `OfficeProofs` | the same for `Events`, `Nodes`, `Catalog` and `Desk` |
| `MC...` | constant values of the runs; `MCCache` composes `Tokens` and `Devices` on one cache, `MCOffice` the modules of the administration |

The composed modules have a specification each (`TokenSpec`, `DeviceSpec`,
`DeskSpec`, `EventsSpec`, `NodesSpec`, `CatalogSpec(start)`), and the theorems are
about those. A run of `MCCache` or `MCOffice` picks one of them, or a part of its
actions, by a menu, and leaves the state of the others alone.

### How Orders corresponds to the code

A *session* is a request or a job at work. `pc[s]` is the next statement of
interest, `cur[s]` the order it works on, `work[s]` what it has read or decided
and not yet written, `holder[r]` the session that holds the lock of row `r`.
Nothing a session writes shows before its last step, which commits and frees
its locks; `Rollback` is the exit of `get_db` after an exception.

| Code | Steps of the model |
|---|---|
| `create_order`, `admin_assign_order` | `CreateOrder`/`AssignOrder` (the check for an unpaid order), then `InsertDeposit`, `InsertPurchase`, `InsertAssigned` or `CreateRejected` |
| `cancel_order`, `admin_cancel_order`, `order_handle` on a stale order | unlocked read, then `CancelWrite` |
| `checkout` | `Checkout`, `CheckoutBill` (UPDATE, page handed out), `CheckoutCommit` |
| `handle_payment_notify` | `Notify`, then the opening, `Reply` before `Commit` |
| `_process_paid_order` | `LockOrder`, `LockUser`, `LockPlan`, `LockCoupon`, `Settle`, `LockInviter`, `Commit` |
| `calculate_for_order` from the `calc_commission` job | `CalcCommission`, `CalcLock`, `LockInviter`, `CalcCommit` |
| `admin_update_order`, the value field of a coupon | `AdminUpdateOrder`, `AdminUpdateCoupon` |
| a dead process, a lost connection | `Abort` |
| PostgreSQL's deadlock detector | `DeadlockVictim` |

Abstractions, and why they are harmless for the properties:

- The reads of a create request after its check for an unpaid order are one
  step with its INSERT. Everything they decide is decided again under locks
  when the order is opened, so their age cannot matter more than the age of the
  order itself, which the model leaves open.
- Time is a clock of a few ticks, a period a number of ticks. Money is small
  naturals; the tiers, prices and fees are chosen so that rounding and the best
  of several tiers occur.
- The columns an opening copies from the plan, the traffic counters it resets,
  `order.type` and `callback_no` do not influence any modelled decision.
- No code commits status 1; it exists in rows imported from the predecessor
  system, which `Imported` provides.
- An administrator edits the value of a coupon here, its remaining uses in
  `Wallets`.
- A gateway is external: it may call back, any number of times, for any page
  that was handed out.

`OrderContract` has no sessions. `Orders` implements it under the mapping that
shows committed rows: the commit of an opening is the contract's single step,
every other step a change of an unpaid order, a tick or a stutter. An opening of
the contract oversells no plan (`NoOverselling`): it leaves room, or takes no
seat that was not taken before. One case is an exception of the code: a renewal
by the holder of a plan takes no new seat, so where a plan began with more
users than its capacity (`StartRows`), a subscription that lapses between the
check and the commit of its own renewal may come back. `PlanCapacity` (section 5)
draws the conclusion: no plan ever has more users than its capacity or than it
had to begin with.

### How JobQueue and OrderSweep correspond to the code

`job[j]` is the row of `queue_job` with key `j`: the call, the queue, the
`job_key`, the status, the attempts and `scheduled_at` (`due`). `picked[w]` are
the rows that the `SELECT ... FOR UPDATE SKIP LOCKED` of worker `w` has locked,
`task[w][j]` is the next thing `run_job` does for job `j` in worker `w`:

| Code | Steps of the model |
|---|---|
| `enqueue_job`, `pyboard_enqueue_queue_job` | `EnqueueJob`; a key that exists inserts nothing |
| `claim_jobs` | `Pick` (rows locked), `Claim` (the UPDATE commits, the jobs start) |
| `run_job` | `Return` or `Raise`; a function nobody registered goes to `FailJob` at once |
| `finish_job`, `fail_job`, `record_failed_job` | `FinishJob`, `FailJob`, `RecordFailedJob`, each a transaction |
| `run_worker`: `gather` ends before the next claim, `--once` | `AtRest`, `Leave` |
| a worker dies or one of the transactions above raises | `Crash`, `Restart` |
| `retry_job` | `RetryJob` (row read), `RetryEnqueue` (commits by itself), `RetryDelete` (the request's commit), `RetryAbort` |
| `delete_job` | `DeleteJob` |

An exception in `claim_jobs`, `finish_job`, `fail_job` or `record_failed_job`
passes through `gather` and ends the process, and the event loop cancels what
else the batch was doing; so it is the same step as the death of the process.
`returned`, `recorded` and `requeued` are history.

Abstractions: a call is a function with its arguments; a row of `failed_jobs`
is named by the job that failed; primary keys are handed out in order and a run
ends when they are used up; `Later` stops at the end of the clock, so a job
that is put off is due at the latest then; the delay between attempts is a
constant of the model; `scheduled_at` in the future at enqueueing does not
occur, since no caller asks for it.

In `OrderSweep` a tick is one period of the cron schedule; the key of
`check_order` names the period. `check_order` reads all open orders in one
statement (`ReadOrders`) and then enqueues one job per order in transactions of
their own (`EnqueueHandle`), under a key that is the order's for good.
`order_handle` is one step here (`Handle`) and so is what users do to an order
(`Settle`): their races are the subject of `Orders`. Administrators' retries are
left to `JobQueue`.

### How Traffic and StatRecords correspond to the code

`active` is `traffic_cache`, `used` is `users.u + users.d`, `queued` the jobs of
a report, `run[r]` the transaction of a job at work with the rows it has locked
(`got`) and those it still wants (`left`), `served[n]` the list node `n` works
with. `credited`, `lost` and `cleared` are history.

| Code | Steps of the model |
|---|---|
| `handle_uniproxy_push`: three jobs in three transactions | `EnqueueJob` for each kind in turn, `PushFails` (the node sends the report again) |
| `traffic_fetch`, `increment_traffic_cache` | `StartFetch`, `LockRow` per user, `CommitFetch` |
| `traffic_update`, `flush_traffic_cache_to_users` | `StartFlush`, `LockRow` per user, `CommitFlush` |
| deadlock, exception, database crash | `DeadlockAbort`, `JobFails`, `DatabaseCrash` |
| traffic reset, ban, deletion | `Clear`, `Suspend`, `DeleteUser` |
| `get_available_users` for a node that asks | `Pull` |

`StatRecords` has the two other jobs of a report: `Start`, `Read` (the row of the
day, unlocked), `Write` (the absolute sum, or an INSERT), `Fail`; and
`Aggregate`/`CommitAggregate` for `aggregate_yesterday_stats`. `NextDay` is
midnight. How a job is claimed and retried is the subject of `JobQueue`: here a
queued job may start on any runner, and one that fails is put back or, out of
tries, given up. A report is never empty, since `handle_uniproxy_push` returns
before it enqueues anything for one that is (`StatAssumption`).

### How RuntimeCache, Tokens and Devices correspond to the code

`cache[k]` is the committed entry of a key with its expiry, `tx[s]` the request
of a session: what it does, its next step, what it remembers, the entries it
has written and not committed, and when it began. A write locks the key until
the request ends. `Cleanup` is the job, `Crash` the loss of the UNLOGGED table,
`RollBack` the exit of a request that raised.

`Tokens` has `SendCode`, `Register` and `Forget` (with e-mail code, invite code
and the limits per address), `QuickLogin` and `Redeem` (the one-time login
token), `SubscribeUrl` and `Fetch` (the one-time subscription code and its two
entries), `ReadSetting`, `SaveSetting` and the step that fills the cache, and
`ResetSecurity` and `SetBanned`. `Devices` has `Alive` (a node's report: read the
entry of every user, merge, write, drop the list of counts) and `AliveList`
(build the list and cache it).

### How Wallets corresponds to the code

`rows` are users, cards and coupons, `redeemed` the table with the unique key,
`forms` the pages that lie open with the values they showed. `Redeem` and
`OpenPurchase`/`OpenDeposit` take their locks in the code's order (`LockNext`) and
compute from the locked rows (`RedeemCommit`, `OpenCommit`); `TransferCommission`,
`CreditCommission` and `SubmitForm` read without a lock and write the changed
columns with absolute values (`EditCommit`; `EditLost` when the row is gone).
`raced` remembers the rows that such a write took back to an older value.

### How Pages corresponds to the code

A behaviour looks at one column of one form, chosen by Init among all columns
the pages edit. The form is rendered (`Shown`), lies open in a tab, is altered,
posted, parsed (`ParseOf`, by the parsers of `forms.py`), handed to the service
and stored. A value is a class: null, false, another one, a time that is not a
whole minute; an input is blank, zero, some text, the word None or unreadable.
The csrf cookie, the login page and logins in other tabs are part of every
behaviour.

### How Desk, Events, Nodes and Catalog correspond to the code

- `Desk`: `CreateTicket`, `CreateWithdraw`, `ReplyUser`, `ReplyAdmin`, `ReplyTicket`
  (from a chat), `CloseTicket`, `Bind`, `Unbind`, `UnbindTelegram`, each a session
  that reads first and commits later. A primary key is taken at the INSERT and
  shows at the commit, so messages may appear out of the order of their ids.
- `Events`: `StartMail`, `SendSync`, `LogMail` (the event commits in a session of
  its own, `LogLost` when it cannot), `Answer` (the job raises or returns, a
  request answers true or false) and `MailLost`; `Record`, `CleanupLogEvents`,
  `DeleteLog`, `NextDay`. An attempt ends without an exception, with one that has
  a text, or with one that has none (`error`): the event and the job look at the
  text, the answer of a request at the exception.
- `Nodes`: `CreateNode`, `UpdateNode` (a partial write), `OpenNodeForm` and
  `SaveNodeForm`, `CopyNode`, `DeleteNode`; `Normalized` is `_normalize_node`, in
  the order of its parts (TLS, cipher, keys, flow, obfuscation, bandwidth).
  A secret is the number of the write that made it. A row is read and written in
  one step, but its trigger stamps it with the second at which the transaction
  began (`Touch`, `Stamp`), which may be any up to now: stamps repeat and go back.
  `Served` is the list of `get_available_servers`, with the copies of the first
  node that show the traffic left and the expiry where the setting asks for them
  (a third, for the days to the next reset, is in the code but never made:
  `_reset_day` returns None); `CacheKeys` is the ETag. `GetUserServers` answers it
  or 304; `ResetUuid`, `SetBanned`, `BillTraffic`, `Renew`, `ShowInfo` and
  `NextSecond` change what the list depends on besides the rows.
- `Catalog`: `refs[x]` are the ids a row holds. `CreateOrder`, `Checkout`,
  `GenerateUser`, `Register` and `Begin` look up what they refer to and insert
  later (`Insert`, `CommitCheckout`); `TypeRefs` and `Open` write references of
  existing rows; `DeleteRow` counts the uses of a group, route, plan or payment
  one statement after the other (`CheckUse`) before `CommitDelete`; `DeleteUser`
  deletes what belongs to a user table by table (`Erase`, `CommitErase`);
  `SetOffer`, `SetAccount` and `NextMoment` change what an order and the count of a
  plan's users look at; `GiveUp` is a rollback. Nobody's expiry is NULL: the column
  does not allow it.

### Exceptions in the properties

Several operations of this program check first and write later without a lock.
What they promise is then kept only for requests that do not overlap, and the
properties say exactly that, with history variables that no guard reads:
`raced` (`Wallets`, `Desk`), `overlapped` and `late` (`StatRecords`), `began`/`ended`
of a use and `began`/`put` of an entry (`Tokens`, `Devices`), `patched`, `stamped` and
`twins` (the stamps that two versions of a node had, `Nodes`), `told.silent` (`Events`),
`reopened` (`Desk`), `loose` (`Catalog`). Such a property still fails when
requests that do not overlap break the rule, or when an operation that does lock
loses its lock. `CouponPerUser` and `CommissionRight` carry one exception of
their own: a cancellation that overwrites a completed status (section 6) hides
an order from the counts those rules are built on.

## 3. What the runs check

| Run | Instance | What it shows |
|---|---|---|
| `Pay` | 1 user, 2 sessions, 2 orders (one imported with status 1), 2 methods with and without a fee, a deposit of 3, one tick | an order is opened once, the balance is exact, "success" is answered only for an order that is settled or that the answering session holds with nothing left to do but commit, a cancelled order is never opened |
| `Trade` | 2 users, 2 plans of one seat, a lapsing subscription, a coupon of one unit whose value is edited, 2 ticks | stock and uses of the coupon add up; every committed step is one of `OrderContract`, which oversells nothing |
| `Once` | inviter and invited, 2 plans, a coupon each may use once, first order only, the commission job, edits of `commission_status`, aborts and deadlocks (204 thousand states) | the coupon's limit per user, no commission twice or too early, one commission per invited user, every operation ends |
| `Work` | 2 workers (one `--once`), 3 jobs, batches of 2, 2 tries, an unregistered call, 2 retry requests, deletions, one crash (1.0 million) | no shared job, no second run after a success, failures are listed once, a retry loses nothing |
| `Sight` | 1 worker for both queues, 1 order, 2 periods, batches of 2, 2 tries, one crash | an order that needs handling when a scan first sees it is handled; every job that waits settles |
| `Flow` | 2 users, 1 node at rate 0.5, 2 reports, 2 jobs at a time, one fault, reset, ban or deletion (44 thousand) | traffic is conserved, every committed step is one of `TrafficContract`, reports get billed, whoever is out of traffic leaves the lists |
| `Day` | 1 user, 1 node, 2 reports, 2 jobs at a time, 2 midnights, repeated aggregation, one failure (1.0 million) | records are exact but for overlaps, which only lose; an aggregated day stays the sum of its records |
| `Share` | 2 sessions, up to 4 requests, 2 ticks, cleanup, one crash; a behaviour is about accounts, logins or devices (0.9 million) | one-time things serve once but for overlaps, the registration limit holds, subscription codes are paired, cached settings and device maps are current |
| `Purse` | 2 users, 4 cards, 1 coupon, 1 plan of one seat, 2 sessions, 1 open form, 4 requests, 2 ticks (4.6 million) | amounts add up on every row no unlocked write has taken back, a card pays a user once, orders oversell no plan, a card never shortens a plan |
| `Forms` | every column of every form, every class of value and input, 4 csrf tokens (335 thousand) | an untouched save changes no meaning, what is typed is shown, no page of an earlier login writes |
| `Office` | 2 sessions and 2 clerks, 2 tickets, 4 messages, 2 mails of 2 tries, 5 events over 4 days, 2 nodes and 4 writes (3 where a browser reads, over 2 seconds), a quota of 2, a row or two of every table; a behaviour belongs to one menu (467 thousand) | tickets, chats, mail events, node configurations and references are consistent, and "304 Not Modified" is true but for what no stamp tells |
| `Pending` | 2 requests of one user | expects a violation, see section 6 |

Two sessions are enough for the races: a property that can break by concurrency
here breaks with two transactions on common rows, and an operation of a session
may be followed by any other one of the same session. Sessions, workers'
requests, users and nodes are symmetric where no fairness is assumed and
nothing tells them apart.

The bounds: `OrderIds`, `JobIds`, `Pushes`, `Reports`, `Tickets`, `Secrets` (rows
that can still be inserted), `MaxTime`, `MaxDay`, `MaxClock`, `MaxNow` (clocks),
`MaxCrashes`, `MaxFails`, `MaxEvents` (in `Traffic` faults and changes by
administrators, in `Events` rows of the log), `MaxRequests` and `Budget`, `MaxWrites`, `MaxMessages`,
`MaxTokens`. Amounts are at most 5; that is enough for a balance that covers all,
a part or nothing of a price, and for a fee, a bonus and a traffic rate that
round. In `Trade` the second plan lets two openings meet at the coupon without
one plan row putting them in order. In `Work` the third job is the one a retry
inserts while two others fail. In `Purse` four requests suffice to open a form,
change the row twice and save the form. The menus of `Share` and `Office` keep
apart operations that share no row; what one menu leaves out would only
interleave with it. `CHECK_DEADLOCK FALSE` stands where the bounded world comes
to rest: rows, time and crashes are used up and nobody has to send a request.
`Forms` never rests and checks for deadlock.

## 4. Fairness

- `Orders` (`Once`): a session's statement runs unless it is blocked;
  PostgreSQL grants a row lock in the order of the requests, so a lock that is
  free again and again is obtained (SF); the deadlock detector fires. Clients,
  administrators, gateways and the clock owe nothing. A session may also abort
  at any time, but is not obliged to.
- `OrderSweep` (`Sight`): a worker that is up polls without end (`while True` in
  `run_worker`), a function returns or raises, the process manager restarts what
  died (`Restart=always`), the clock goes on and pg_cron fires in every period.
  Weak fairness suffices, for a claim skips what is locked instead of waiting.
- `Traffic` (`Flow`): a request runs to its end and a node sends a report until it
  is accepted (WF of `EnqueueJob`), every node keeps asking for its users (WF of
  `Pull`), workers take what is queued and every minute brings a flush (WF of
  `Work`), and the lock queue of PostgreSQL serves every transaction that waits
  (SF of `LockRow`). Faults and administrators owe nothing.

`JobsSettle` and `SweptOnSight` allow that a job is lost: a worker that dies
leaves its job `running`, and nothing in the code ever claims a running job
again. That is stated in the properties (`Orphan`, `Lost`), not assumed away.
`SweptOnSight` speaks of an order whose key is still unused; for the others see
section 6. `ReportsAreBilled` speaks of behaviours without a fault, reset or
deletion, since each of them may take traffic away by design.

## 5. What is proved

Every theorem holds for all values of the constants that satisfy the
assumptions below. In the order of the modules:

| Module | Theorem | Property |
|---|---|---|
| `OrdersProofs` | `TypeCorrect`, `NoDoubleOpening`, `StatusMonotone`, `AnswerIsLast` | `TypeOK`, `OpenedOnce`, `StatusMoves`, `AnsweredIsSettled` |
| | `CouponsAddUp`, `CouponLimitKept` | `CouponLedger`, `CouponPerUser` |
| | `BalancesAddUp`, `CommissionsRight` | `BalanceLedger`, `CommissionRight` |
| | `PlanCapacity` | `CapacityKept` |
| | `ContractImplemented` | `ImplementsContract` |
| `JobQueueProofs` | `QueueTypeCorrect`, `NoSharedJob`, `NoRerunAfterSuccess`, `FailuresAccounted` | `TypeOK`, `OneWorker`, `NoRerun`, `FailureAccounted` |
| `TrafficProofs` | `TrafficTypeCorrect`, `TrafficConserved`, `TrafficImplemented` | `TypeOK`, `Conserved`, `ImplementsContract` |
| `StatProofs` | `RecordsExact`, `AggregatesFinal` | `RecordExact`, `AggregateFinal` |
| `WalletsProofs` | `CardsUsedOnce`, `CardsLast`, `SeatsNotOversold`, `WalletsAddUp` | `OncePerCard`, `CardsNeverShorten`, `SeatsSold`, `Ledger` |
| `CacheProofs` | `SettingStaysFresh`, `OtpStaysPaired`, `LimitIsKept`, `OnceUnlessOverlapping`, `DevicesAreCurrent` | `SettingFresh`, `OtpPaired`, `LimitKept`, `SingleUse`, `DevicesCurrent` |
| `OfficeProofs` | `MailsAreTold` | `MailTold` |
| | `NodesCohere`, `SecretsKept`, `NotModifiedHolds` | `Coherent`, `SecretsSurvive`, `NotModifiedIsTrue` |
| | `NothingDangles` | `NoDangling` |
| | `TicketsHold`, `ChatStays` | `TicketsKept`, `ChatKept` |

### From which assumptions

- Amounts, prices, rates, capacities, limits and clocks are naturals; the absent
  value `None` is none of the rows; the primary keys of different tables are
  told apart.
- What is summed over is finite: users and orders (`OrdersAssumption`), reports
  and runners (`TrafficAssumption`), users and nodes (`StatAssumption`), users
  (`WalletsAssumption`), rows (`CatalogAssumption`).
- `TokenAssumption` and `DeviceAssumption`: entries do not expire at once, and the
  entry of a user outlives the 100 seconds after which a node's report in it is
  stale (`StaleAfter < AliveTtl`), as the two literals in the code do.
- `NodesAssumption`: a node is created with all columns and a network, and no
  secret that somebody types is one the program will generate.
- `DeskAssumption`: every account has a chat at the start or none (`StartChat` is
  defined for all of them).
- `StartOK(start)`, for the theorems on `Catalog`: the rows at the start refer to
  rows that exist and to what their kind may refer to. `MCOffice` evaluates it on
  every start it uses.

No run replaces a definition, so TLC evaluates these assumptions, and checks the
properties, on the modules the proofs are about.

### Along which arguments

**Sums.** The ledgers are sums (`SumFunctionOnSet` of the community modules) over
sets that grow. The module defines them by a recursive function over subsets,
and the library's induction theorems take an operator, which the provers at
hand cannot instantiate. `SumTheorems` therefore proves induction for sets of
numbers (`AllNumbers`, by a least counterexample) and for sets of subsets of a
finite set (`SubsetInduction`, by cardinality), then that the sum exists, is
unique and unfolds at any element (`SumUnfolds`, `SumRemove`). What the other
proofs cite follows from those: `SumType`, `SumSame`, `SumAdd`, `SumChange`,
`SumMember`, `SumMonotone`, `SumZero`.

**`Orders`.** Neither `TypeOK` nor `OpenedOnce` is inductive. `IInv` adds, for every
session: from the check of the status to the commit it holds the order's row,
and an order it opens is still open (`OrderHeld`); from the validation of the
coupon to the commit it holds the coupon's row, and a limited coupon has a unit
left (`CouponHeld`), which keeps the stock a natural number; and what it is
about to commit is a row a user can have, and a commission only for an inviter
who exists (`WorkSound`). A step that ends an operation then writes only rows
that nobody else has locked (`FinishKeeps`), a step that goes on disturbs no
other session (`MoveKeeps`), and a rollback only frees locks. The action
properties follow from `IInv` step by step.

The ledgers stand on `IInv`. `StepKinds` sorts all steps: the clock and the
administrators leave the ledgers' columns alone (`OutsideStep`); a session rests
or goes on without touching them, inserts an order, cancels one, commits an
opening or commits a commission (`SessionStep`). `HeldInv` says what an opening
knows until it commits: it holds the buyer's row, so the row it will write is
computed from the row it replaces. Each ledger then adds what a session that is
about to write to it relies on:

- `CouponInv`: whoever has passed the check of the coupon and holds its row has
  counted fewer uses than the user may have (`CouponLeft`); nobody else can open
  an order with the coupon, for that takes the coupon's row.
- `Balanced`: balance, spending and income of a user, as an equation of sums over
  the orders bought and the deposits paid in; an opening changes one term of
  each.
- `CommissionInv`: who will credit a commission holds the order, which has no log
  yet (`CreditDue`). With `FirstTimeOnly` it is the only one to do so for its
  buyer (`CreditAlone`): an opening holds the buyer's row, and the commission job
  looks at completed orders only, which an opening of another order counts.
- `SeatInv`: whoever holds the plan's row and has counted its seats still has one
  (`SeatHeld`). Time only frees seats, but for a renewal of a subscription that
  lapses meanwhile, which is the exception `CapacityKept` states.

`ContractImplemented` maps the initial states and then, by `StepKinds`, each step:
an insertion is `Place`, a cancellation `Withdraw` or `WithdrawLate`, a commit
`OpenOrder`, whose guards are what `HeldInv`, `CouponHeld` and `SeatInv` say the
session still knows.

**`JobQueue`.** `TypeOK`, `OneWorker` and `NoRerun` need each other. The bound on
the attempts needs that a row that waits has an attempt left (`TriesLeft`); a
second run of a function is excluded because who still has to run or fail a job
works on one that has not returned (`NotReturned`); and that a retry finds the
call it enqueues needs that no row of `queue_job` is deleted (`Backed`).
`PickKeeps` is where SKIP LOCKED is used: the new batch is disjoint from what
any worker has locked. `FailureAccounted` needs two more facts: whoever is about
to record a failure is the first to do so (`FirstRecord`), and a retry that still
has to remove its row from the list has enqueued the job (`EnqueuedFirst`).

**`Traffic`.** `Conserved` is an equation between numbers of five tables, so `TInv`
adds that they are numbers, that a transaction which commits a `traffic_fetch`
works on a report, and the types of what the guards read. `FetchKeeps` and
`FlushKeeps` are the two steps that move traffic: a flush takes from the cache
exactly what it adds to the bill or, for a user without a row, to what is lost.
A crash rolls back every runner at once and puts their jobs back; that the
number put back is a natural needs `IsFiniteSet(Runners)`. For
`TrafficImplemented` a report waits as often as there are queued jobs and
runners that fetch it; claiming, failing and crashing move it between the two
and leave the number the contract sees.

**`StatRecords`.** An unlocked read and write loses what another writer has added
in between, so the record is not simply a sum. `RecordInv` says that every
committed row of a day has a share of what was to be added to the record, the
shares being disjoint (`Shared`): a record never holds more than it should. A
record that no two jobs have worked on at once is one row, holds all of it, and
a job at work on it remembers that row (`Alone`). `AggregateInv` says, of a sum
that is stored or about to be stored, that no job was still open that writes
rows made on its day (but for the days in `late`), and none can begin once the
day is over: so it stays the sum of its rows. Adding up the overview over all
days needs that one of them is the last (`LastDay`).

**`Wallets`.** `WInv`: a session remembers the rows it has locked as they are, and
what it needs and has not locked is still on its list. A redemption is therefore
computed from the current card, user and plan, and the unique key of
`redeemed` does the rest. `PlansFree` keeps, for `CardsNeverShorten`, that a user
whose row a redemption of a plan card has locked has no running plan. In
`SeatInv` a purchase that has locked its plan still has the seat it counted
(`SeatFree`). `LedgerAt` is the equation for one row that no unlocked write has
taken back.

**`Tokens` and `Devices`.** `Starts`, `Continues` and `Ends` say once what a request
remembers, has written and commits at each of its steps; the invariants are
then about uncommitted rows as well as committed ones. `SettingInv`: who has read
another value than the row has began before the row changed, and an entry with
such a value was begun before and put after the change. `SecretInv`: a random
number is made by one request, and until that ends nobody else has it;
`PairInv` adds that a token's entry and the entry of its code name each other
and expire together. `LimitInv`: the counter's entry counts the registrations of
its window, and who is counting holds it. `UseInv`: what was used is gone
(`Gone`), and whoever is about to use it again began before that use ended.
`DeviceInv`: an entry holds every report that still counts, a report under way
has seen what had been heard when it began (`Noted`), and a list what the entries
said when it was made (`Counts`).

**`Events`.** `MailInv` ties the next step of a sender to the events its attempts
have left.

**`Nodes`.** `NormalizedAt` says what `_normalize_node` makes of each column, from
one lemma for each of its parts. `NodeInv` then keeps that a row which does not
descend from a partial write fits its protocol (`Fits`), and that nobody has a
secret that is still to be made. `SecretsKept` goes through the writes once more
and compares each row with the next. A list that a browser keeps is the subject
of `HeldInv`: each of its rows was read under the stamp that the ETag names, and
unless two versions of the node had this stamp it is still the row, as long as
the row has the stamp (`ReadAt`). `EveryRowMoves` says why: a write either gives
the row a stamp that no version had, or puts the stamp into `twins`. Nothing is
assumed of the order of stamps. That the number of entries is right follows from
the keys, of which the ETag has one for every entry.

**`Catalog`.** `CatalogInv` says for each clerk what it has established
(`Seen`): of the kinds it has come past nothing refers to the row it deletes
(`Unreferred`), or all that belongs to the user it erases is collected
(`Collected`), unless a reference made since excuses it. A step of another session
either removes references (`Shrinks`) or adds one row's (`Adds`); the first changes
nothing of what a clerk has seen, the second does not concern it or excuses it.

**`Desk`.** `DeskInv`: only sessions of one owner write the owner's rows, so what a
session has read is still so (`Fresh`) until another session of that owner
commits, which makes it `stale`; a stale one that commits makes its owner `raced`.
A message that is about to be committed is newer than all the owner has. For
`ChatKept`, `ChatInv` says that the account which a session is about to bind has
no chat, or the session is stale.

### Only model-checked

- `OperationsEnd`, `JobsSettle`, `SweptOnSight`, `QuotaEnforced` and
  `ReportsAreBilled`: liveness under fairness, which needs ENABLED and is out of
  the prover's reach.
- `UntouchedHarmless`, `TypedIsShown` and `SavesAreCurrent` of `Pages`: the first two
  range over a fixed table of columns and value classes, which `Forms` covers in
  full; the third is the next step of the plan.
- `Pending`, which is a violation.

## 6. Where code and documentation disagree

`Pending` shows one of them: `services/order.py:115` checks for an unpaid order,
then inserts, without a lock or a unique index, while the message says "you have
an unpaid order, pay or cancel it first" (`services/order.py:116`).

Others that were met while translating; the models follow the code, and the
properties exclude these cases by name:

| Code | Says otherwise |
|---|---|
| `services/order.py:317` overwrites any status with "cancelled", a completed one included when the opening commits in between | "only a pending order can be cancelled", `services/order.py:315`, `:450` |
| `services/commission.py:206` adds to a balance it read without a lock | "order commission credited", `services/commission.py:222` |
| `queues/worker.py:60` serves one queue when `--queue` is missing | `docs/deployment.md:276`, `:279`, `:386` |
| `queues/worker.py:177` records a failed job in a second transaction, which a crash can lose | `docs/deployment.md:579` |
| `queues/jobs/maintenance.py:41` gives an order one job for good: an order first scanned while fresh is never cancelled | `queues/jobs/order.py:19` |
| a `--once` worker claims batch after batch until a claim comes back empty (`queues/worker.py:63`) | the option's help, `docs/development.md:197` |

Behaviours no document speaks of, which a maintainer would want to know:

- A manual payment that is refused half way is answered as a page: the
  exception is swallowed by `action_error` and the request commits
  (`admin_ui/orders.py:85-102`), so the order stays marked as paid and the sweep
  opens it later. A generation of users that meets a taken address keeps the
  users made before it (`admin_ui/users.py:135-166`). The actions of `Orders` are
  those of the interface, whose errors roll back.
- A settings page with a commission level of 0 cannot be saved, nor can a node
  whose `listen_ip` is the empty string; the window of a coupon or gift card that
  opens and closes within one minute is refused on an untouched save; a route
  whose match was cleared is rendered as the word None. `UntouchedHarmless` names
  these exceptions.
- `_normalize_node` completes a partial update without the columns it does not
  carry: bandwidths are reset to 0, `tls = 2` without settings makes new keys,
  `tls = 0` is stored for protocols that need it. The public and private keys it
  makes for Reality are two independent random strings
  (`services/server_admin.py:230-231`).
- A node with cipher `2022-blake3-chacha20-poly1305` is given no server key
  (`services/server.py:72-75`), while its clients derive one
  (`services/subscribe.py:462`).
- The ETag of a node list (`controllers/subscribe.py:53`) knows a node by its id and
  the second at which the transaction of its last write began. Two writes whose
  transactions began in the same second look alike, in whatever order they
  commit. The user's uuid is not in it, nor are the traffic left and the expiry
  that `show_info_to_server_enable` puts in front of the list: their entries carry
  the key of the first node (`services/subscribe.py:364-376`), so a browser is told
  "not modified" although they have changed. `NotModifiedIsTrue` names these
  exceptions and nothing else.
- A mail whose sending raises an exception without a text is logged as
  `mail.sent`, ends its job well and is not tried again (`queues/jobs/mail.py:46-61`
  asks for the text); `MailService.send` logs the same but answers false
  (`services/mail.py:44`, `:47`). `MailTold` counts these events apart
  (`told.silent`).
- A hidden but renewable plan is shown to its holder after the expiry, who then
  cannot order it (`services/plan.py:75-82`). Deleting a plan ignores users whose
  plan has expired. Deleting a user leaves the commission log.
- At the very second of an expiry the counts of active users (`>=`) and the check
  for an active user (`>`) differ, to the safe side: the account still holds its
  seat and needs another one to order. With the two exchanged `SeatsSold` fails.
- `users.telegram_id` is an INTEGER and too narrow for today's chat ids
  (`WideChats` in `Desk`).
- An update from Telegram is stored for a day under its id and never looked at
  (`services/telegram.py:57`): one that is delivered again is handled again.
- A percentage is a float product truncated to an integer
  (`services/coupon.py:201`): 29 percent of 100 is 28.

## 7. What is not modelled

- Subscription templates for the client programs, knowledge templating, mail and
  message texts, tables and dashboards: text made from rows, no state.
- The browser application: a client of the interface; the models allow any
  sequence of its calls.
- Migrations and the schema: their unique keys, UNLOGGED tables and cron
  schedule are used as facts.
- Start-up, configuration, system status, turnstile, the signatures and the
  parsing of callbacks, hashing and the lifetime of tokens.
- Profile, password and preferences of a user: single-row edits.
- The distribution of a commission over three levels (one is modelled),
  `force_update` of the users of a plan, sort orders, rankings.

PROJECT.json lists every part with its status, and every hazard with the
properties that cover it. One hazard has no property: what the pages commit after
a refused operation; nothing in the repository says what is expected there.
That one chat may get two accounts is modelled (`Bind` as the code has it), and
nothing is promised of such a chat.

## 8. Plan

Done: every component listed in section 2 is modelled and checked. Proved are all
invariants and safety action properties the runs check, but those of `Pages`,
and both refinements.

Next, in this order:

1. `SavesAreCurrent` of `Pages`: the csrf cookie, the tabs and the logins are a
   small protocol of their own and can be proved about apart from the columns.
   `UntouchedHarmless` and `TypedIsShown` are finite tables of columns and value
   classes, which TLC covers in full; a proof would add nothing but length.
2. For `OrderSweep`, the safety that `SweptOnSight` rests on: the invariants of
   `JobQueue` hold in it too, and an order that a scan has read is enqueued or
   its job died.
3. Type correctness of `Wallets`, `Catalog`, `Desk`, `Nodes` and the cache as
   theorems of their own; their inductive invariants already contain the parts
   the other theorems need.
4. The compositions: that a behaviour of `MCOffice` and `MCCache` without the menu
   is a behaviour of each component, so that the theorems carry over to an office
   where everything happens at once.
