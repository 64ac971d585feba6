# Friendex: models, checks and proofs

Friendex is a Discord bot that runs a stock exchange per guild: every member is
a stock, members trade each other with play money, run funds, and their prices
follow their activity. It is one asyncio process over SQLite. This directory
holds TLA+ models of its services and its storage, the TLC runs that check them
and the TLAPS proofs about them. Paths below are relative to the repository.

## 1. Inventory

| Component | State | Operations | Talks to |
|---|---|---|---|
| `LockManager` (`application/lock_manager.py`) | one `asyncio.Lock` per id, created on demand | `locked(ids)` | used by every service |
| `TradingService` | accounts (cash, longs, shorts), stock prices, personal fund cash, trade cooldowns | `buy`, `sell`, `short`, `cover`, `cover_forced`, `update_frozen_shorts` | LockManager, UnitOfWork, repositories |
| `FundService` | funds with investors' stakes, events wallet, penalties | `create_or_rename`, `withdraw`, `send_to_events`, `invest`, `accrue_apy` | the same rows as TradingService |
| `LiquidationService`, `LiquidationTask` | none of its own | sweep of all shorts every 5 minutes | `TradingService.cover_forced` |
| `DailyResetTask`, `WeeklyResetTask`, `MonthlyRolloverTask` | one `SystemState` row per guild with four clocks | poll, do what is due, advance the clock | ActivityService, PortfolioService, FundService |
| `PriceTickService` and its tasks | prices, history, all-time highs | activity tick, inactivity decay, voice boost | LockManager, price repository |
| `ActivityService` | today and week buckets, opt-in, voice sessions | messages, reactions, voice, resets, stay boost | account and price repositories |
| `VoicePingService`, `VcBoostTask`, voice listener | ping and voice sessions and a boost roster, all in memory | register, place, reward, boost | LockManager, ActivityService, PriceTickService |
| `DailyService` | last claim and streak | `claim_daily` | account repository |
| `DisciplineService`, `MemberListener` | price; in-memory cooldowns | penalty after a timeout or ban | price repository |
| `PortfolioService`, `StatsService` | month-start net worth | baseline capture; displays | all repositories, mostly reading |
| `SqlUnitOfWork` | the database session of a section, in a ContextVar | commit or roll back | used by Trading, Fund, Liquidation |
| repositories | the tables of SQLite, keys and cascades | get and upsert of whole aggregates, append to the history | used by every service |
| JSON migration, Alembic | the old files; the schema | a run from the first record to the last | repositories |
| domain (`market_hours`, `price_engine`, `fund_math`, `activity`) | none | pure functions | used by the services |
| `TaskRunner`, `BackgroundTask` | failure counter | run a task again and again, isolate failures | all tasks |
| cogs, other listeners, embeds, configuration | none that matters here | input, output, wiring | the services |

How they interact: a command or a timer calls one service method. The method
takes the locks of one or two ids in one `locked()` call (never nested), reads
rows, computes, writes rows; trades and funds do so in one database
transaction, the others commit write by write. Tasks never hold a lock across
guild-wide work: they list all rows and then lock them one at a time.

What is hard: tasks and commands interleave at every `await`; two-id locking can
deadlock and cancellation can leak; lists are stale by the time an item is
reached; `SystemState` is one row with several unlocked writers; work done by a
task is committed before the marker that says so; money is rounded in many
places. What makes each component correct:

* LockManager: sections with a common id exclude each other, nothing leaks,
  nobody waits for ever.
* Trading and funds: money enters and leaves only by trades and interest, no balance
  goes negative, collateral matches positions, investors' money stays theirs.
* Liquidation: closes exactly the shorts at or above the threshold, in the end.
* Clocks: never ahead of the work, work done at least once (interest exactly
  once) per period, clocks catch up after failures.
* Voice: places, credits, minutes and boosts are given once and only for what was
  done, whatever events overlap, fail or go unseen; sessions say who is in voice.
* Activity, daily, discipline, price writers: no service takes back what another
  stored in the same row; claims and penalties are paced, an introduction is sent at
  most once; the history tells the price.
* Storage: a unit of work is all or nothing, aggregates are never seen in part, no
  statement runs into a key, the migration ends complete whatever stops it.
* Market hours and engagement: windows over midnight count right, ranks are
  monotonic and safe for ties.

PROJECT.json lists all components and, under `hazards`, the places where the
code is hard to test, with the properties that cover each; where a property allows
part of a hazard, because the code has that behaviour, the note says which part.

## 2. What is modelled

**LockManager** (`AtomicSections` is the promise, `LockManager` the code). Each
`await` of `locked()` is a step: `_ensure_lock` per id, `acquire` on a free
Lock, queueing, being woken, and cancellation at each place. A Lock object is
named by its key and creator, so two objects for one key would be visible.
`Queue` and `Resume` model `asyncio.Lock` (external): FIFO, and a newcomer queues
behind waiters. The meta lock is held for no await, so `EnsureLock` is one step.
`LockManagerProperties` holds the properties and the refinement mapping.

**Ledger** (`DomainMath`, `Ledger`, `LedgerProperties`): one guild's money. One
action is one locked section of TradingService or FundService, or one of the
sections of other services that change a price or the opt-in flag. That a
section is a single step rests on LockManager (proved) and on SqlUnitOfWork
rolling back (`Storage`, proved). Guards are the code's checks in its order; a call
that raises changes nothing and is not an action. Market hours, and the `now` of
withdrawals, accruals and the freeze sweep, are looked at before the wait for the
locks: `Recent` is the window of at most `MaxWait` ticks. Money is whole cents;
`Quantise` is the code's rounding half to even, applied to exact rationals where
the code has 28-digit decimals. Cents in the runs are scaled down: a price of
10 that a share moves by 2.5 meets floor, threshold and rounding in few calls.
Left out: the average entry of longs, names, price history and all-time highs,
result objects; the APY is in hundredths, without float noise; the residual of
an accrual goes to the manager (the default setting). There is no deposit into
a fund in the code: a manager's own balance comes from migrated data
(`InitialFundCash`), from accrual residuals and from collateral.

**LiquidationSweep** adds to the ledger the shorts the sweep has listed (`todo`) and
takes them one at a time in the order of `list_all` (`Rank`), with all other actions
in between. `AbortSweep` is the `InsufficientFunds` that nothing catches inside the
guild's sweep.

**ResetClocks**: the three tasks of one guild over its `SystemState` row. Steps
are the read, the service calls, each credit of `accrue_apy`, and the writes. The
sampling of the clock and the first read are one step; a date that changes later
appears as `NewDay` during the service calls. `Fail` is an exception that
`_safe_run` swallows, `Restart` loses all local state. A bucket reset or capture
that stops half way counts as not done.

**Community** (`Community`, `CommunityProperties`): the calls that change an account or
a price without a trade. A call of a slot (a command, an event, or one of the four
sweeps of the tasks) goes from member to member; for each, the section under the lock is
three steps: `ReadAccount` or `ReadStock`, `StoreAccount` or `StoreStock`, and, for a
price, `AppendPoint`, since no unit of work spans the last two. `Held` keeps two
sections of one member apart; a sweep lists its members, and the activity tick their
buckets, before any lock (`List`). `Gate` is `MemberListener._apply_penalty` between its
look at the audit log and the service call; which moderator it finds is a choice,
because the log may be behind. `/optin` commits the mark of the introduction
(`StoreAccount`) before it sends anything: the direct message, or the reply that takes
its place (`DMForbidden`), is a step of its own (`Introduce`). `Fail` is an exception
anywhere in a call; `Restart` stops all calls and forgets the cooldowns. Both can come
between mark and introduction; `missed` keeps the members whose introduction they lost.
The counters of a bucket are one number; the activity return, a logarithm, is
proportional to it (`Return`), which keeps what the properties tell apart: that it
grows, is rounded, and passes floor and stall. Cash is what `/daily` paid; trades move
the same rows under the same locks in Ledger.

**Voice** (`Voice`, `VoiceProperties`): from the message that mentions a ping role to
the last boost. Each Discord event has a handler of its own, and a step is what it does
between two awaits of the database; the in-memory stores suspend nobody. `Join`,
`LeaveOrSwitch`, `MoveUntracked` and `Message` take the event, `Place` gives a place
among the first or the extra ones, `CreditPing`, `CreditStay`, `CreditResponder` and
`CreditHost` add to counters, `StayBoost`, `JoinBoost` and `ApplyBoost` raise a price.
`SetRoster` is the listener handing over the collected extras; `StartSweep`,
`ApplyBoost`, `ContinueSweep` are one run of `VcBoostTask`, which swaps in its survivors
when it ends. The stores belong to a `life`: a restart, or the removal from the guild,
begins the next one, and a handler of a removed guild still holds the old stores; only
`Register` takes the store of the guild as it is then, after the await of
`record_message`. `overtaken` marks members with an event that came while a switch of
theirs was still crediting the old channel. The three counters are kept as totals:
`hosted`, `answered`, `voice`; `raises` counts the boosts of a price.

**Storage** (`Tables`, `Repositories`, `Migration`, `Sections`, `Storage`,
`StorageProperties`, `AtomicStore`): one statement is one step. `Tables` has the tables
with their parents, keys and cascades, and what a SELECT finds; `Repositories` the
statements of each `upsert` in their order (merge, flush, delete of the children,
insert); `Migration` the statements of a migrator run; `Sections` which ids a section of
the services locks, what it reads and what it writes, in or out of a unit of work. Most
read only rows of members they lock; `CaptureSection` also reads the stock of a position
beside its lock, and `SnapshotSection` locks nothing. The value of a row is a version
number: an upsert of an aggregate writes the next one to the row and to its children, so
that half an aggregate or an overwritten one shows. `Storage` runs the migrator until it
succeeds and then the sections: `Select`, `Decide`, `Statement` by statement, the one
commit of the unit of work or the commit of each call, with `Fail` (an exception or a
cancellation), `DatabaseError` and `Crash` before any of them. SQLite is external: one
writer from its first DML to its commit, every SELECT sees what is committed then.
`AtomicStore` is the promise: the writes of a unit of work appear at once, those of any
other section call by call and in order. `ImplementsAtomicStore` maps a committed
aggregate to its version, and a client to the transactions it still has to commit.

**MarketHours, Engagement** are pure functions. `MCLedger` computes its calendar with
`MarketHours`, so `economy` runs with hours over midnight; `DomainLemmas` has the
theorems about them.

## 3. Runs

| Run | Instance and bounds | Shows |
|---|---|---|
| `lock_manager` | 3 tasks, 3 ids, each pair of ids as request, cancellation anywhere; nothing is bounded | `TypeOK`, `OwnedIffAcquired`, `NoCircularWait`, refinement of `AtomicSections`, `EveryCallGetsIn` |
| `economy` | 2 members (a trader with a fund, an investor), trades of 1 or 2 shares, 6 calls (`MaxOps`), 4 instants (`MaxTime`): open, Sunday, open and 1st of the month, closed | no overdraft, bounded collateral drift, where money and stakes come from, what is frozen and what happens to it, principal |
| `principal` (violation) | as `economy`, 4 calls | a short takes investors' principal as collateral |
| `top_up_drift` (violation) | as `economy`, 4 calls | adding to a short makes collateral drift |
| `liquidation_sweep` | 3 members, two of them short the third, 4 calls | underwater shorts of solvent holders are liquidated from a stale list |
| `sweep_starved` (violation) | same | one insolvent holder starves those listed later |
| `reset_clocks` | 2 days that each start a day, week and month, 2 funds, 1 failure or restart | clocks follow work, baseline before interest, clocks heal |
| `clocks_independent` (violation) | no failure | a task's write puts another task's clock back |
| `accrual_retry` (violation) | 1 failure, credits counted to 2 | a retried accrual credits a fund twice |
| `community` | 1 member with a stock, 1 moderator beside the unknown one; 3 calls of any kind, two commands at a time beside the four sweeps, 4 instants, 1 failure, 1 restart; claims and penalties 2 instants apart, bonus every 2nd claim | rewards, introductions, penalties, history, and that no service takes back another's write |
| `voice` | a host and 2 responders, 1 ping, 2 channels, 1 first place; 4 events, 2 handled at a time, 1 exception, restart or removal, window 2, boosts 1 instant apart | places, credits, voice time, raises, sessions, roster |
| `storage` | 2 tasks, 2 members and the events wallet, 10 kinds of section of which 2 run, a history of 2 points, 1 corrupt record, 2 failures or crashes | refinement of `AtomicStore`, aggregates, keys, stale reads, migration |

Why the bounds are enough. A circular wait needs as many tasks as ids in the circle;
three is the first that is not just a swap, and the proof covers the rest. In `economy`
six calls are enough for invest, short, top-up, partial cover, price move, full cover;
four instants let a cooldown, a penalty and a freeze both run and expire.
`liquidation_sweep` needs two shorts that are opened, a price that rises, and a change
between listing and turn. In `reset_clocks` two periods show a clock set from nothing
and moved on, and one failure hits every step. `CountTo` only merges states that differ
in repeated credits. In `community` all properties are about the rows of one member,
under one lock; two calls race there and a third comes after them or cuts in: a claim
against a reset of the same row, a penalty against a tick, an opt-in against an opt-in;
a cooldown or a window passes with an instant to spare. That a sweep goes over several
members is left to the proofs. Prices of 70 and 100 meet floor and stall in two calls.
In `voice` two responders race for the one first place, and a join, a switch and a leave
of one member overlap; two lives show stores that are used after their end. In `storage`
two sections meet on each row that two sections can share, and a third client, the
migrator, runs before them, as it does in operation. Symmetry is used for handlers only,
and only in runs without liveness.

Deadlock checking is off where the bounds on calls or days let the system stop
(`economy`, `principal`, `top_up_drift`, the runs of `ResetClocks`, `community`,
`voice` and `storage`).

Fairness. `LockManager`: weak fairness of each task's own steps and of leaving the
body, because the event loop runs whatever can run and no body waits for another
`locked()`; cancellation is never assumed. `LiquidationSweep`: weak fairness of the
sweep's steps, as the loop repeats every five minutes and `locked()` lets every
call in. `ResetClocks`: weak fairness of each task's steps, as
`discord.ext.tasks` repeats the loops; failures are bounded, so they stop.
`Storage`: weak fairness of each task and of the migrator, as a wait for the database
ends in a turn or an error, and strong fairness of `Repair`: whoever is told of a
corrupt record again and again mends it. `Voice`: weak fairness of handlers and of the
boost task, on which none of its properties depends. `Community` assumes none.

The findings of the violation runs are in PROJECT.json with the lines they
contradict. More observations, without a run of their own:

* `InterestOncePerMonth` also depends on the markers that `clocks_independent` shows
  can be lost; a manager whose fund is lent to a short has a negative balance, which
  bears negative interest.
* The baseline of a month is captured again, after interest was credited, when the
  marker of the capture is lost that way; `BaselineBeforeInterest` asks for a capture
  before the interest, not for the only one.
* The introduction is marked as shown before it is sent. A crash or an HTTP error of
  Discord other than Forbidden in between loses it for good (`missed` in `IntroOnce`).
* `capture_month_start_net_worth` reads prices beside its lock, so a captured net worth
  may be of a price that has moved; `LockedReadsCurrent` claims only that the account
  row it is stored in is current.
* `config.py:155` checks nothing about the boost interval. With one longer than the
  15 minutes between two runs of `VcBoostTask`, a run that raised a price and then
  failed is followed by another raise one run later, within the interval. The bound of
  `RaisesEarned` is therefore in runs (`Period`), not in intervals.
* Stay and join boosts do not ratchet `all_time_high`, and a crash between price and
  history point loses the point until the next change: `PricesLogged` allows both, and
  says that nothing else is missing. That the activity tick uses a bucket that a reset
  has emptied since is allowed too.
* A migration that is run again over a database the bot has worked in wipes the history
  written since (`migrate_json_to_sqlite.py:46-48`); the model ends with its success.
* After a restart members who are in voice have no session and lose that stay;
  `SessionsFollowVoice` says that no session is wrong, not that none is missing.
* A leave handled while a switch of the same member still credits the old channel
  finds no session, and the switch then opens one for a member who is gone: the
  `overtaken` members that `SessionsFollowVoice` leaves out.
* `VcBoostTask` swaps in the survivors of the roster it started with: responders whom
  the listener adds during an awaiting run are lost until the next join
  (`RosterForgets` names the case). Joins more frequent than the interval hand over
  fresh `last_boost` times and put boosts off.
* Pings are never evicted, so the extra places of an old ping are collected at every
  join, with an end that has passed.
* `_resolve_actor_id` may find an earlier entry of the audit log when the new one is
  not there yet, although its docstring (`member_listener.py:231-234`) expects the
  unknown moderator then. `PenaltiesPaced` holds for whichever key is taken, so one
  moderator who is once known and once unknown can cost a member two penalties.
* Handlers sample `now` before they wait for a lock, so the times stored in a row
  need not be in order.
* A guild of twenty or more members with one score is Elite to the last member
  (`TiedGuildIsElite`), a case that `activity.py:106-114` tells of as broken before
  the rank was made safe for ties.

## 4. Proofs

`LockManagerProofs` proves, for any finite set of tasks, any number of keys and any
sets of requests:

* `TypeCorrect`, `NoLeakedLock` (`OwnedIffAcquired`), `MutualExclusionHolds`,
  `NoCircularWaitHolds`, `LockManagerRefinesSections` (`ImplementsSections`).

The argument: the inductive invariant `IInv` adds to the two checked invariants
what ties a handle to the installed Lock (two tasks that fetched a key hold the
same object), and what a stage says about the locals: in the body nothing is missing,
while acquiring everything is fetched, and whatever a task has acquired precedes,
in sort order, whatever it still misses. Mutual exclusion follows because a common
id means a common object with one owner. For circular waits, a task that waits for a
key is behind by that key, and the one that holds it waits for a larger one
(`WaitsUpwards`): in a finite set of waiting tasks the one that waits for the
largest key waits for nobody in the set. For the refinement, the last `Take`
of a call maps to `EnterSection`, a `Leave` from the body to `LeaveSection`,
everything else to a stutter. Assumptions: the three named in `LockManager`.

`LedgerProofs` proves the seven properties of the run `economy` for any finite set of
members, any settings that are non-negative numbers, and any positive shares and
amounts: `TypeCorrect`, `NoOverdraftHolds`, `FrozenOnlyAgedHolds`,
`FrozenOnlyLiquidatedHolds`, `PrincipalOnlyLentHolds`, `MoneyAccountedForHolds`,
`CollateralBacksEntryHolds`.

* The inductive invariant `IInv` is `TypeOK`, `NoOverdraft` and that no stake is
  negative; `Rows` is the same, said row by row as the domain's constructors do. The
  stakes are needed because a withdrawal is capped by cash minus stakes: only with
  non-negative stakes does that leave the fund at zero or above. A cover pays before
  the collateral is released, and what a partial cover releases lies between zero and
  what is locked (`ReleasedInBounds`); a short takes at most the cash and half of the
  fund's cash (`CollateralInBounds`); an accrual adds something positive.
* Money is a sum over members and over pairs of members. `SumLemmas` proves what a
  change of one value does to a sum written as a fold. The provers have no induction
  with a formula as parameter, so `SumUpdate` and the others are shown with partial
  sums over subsets of the domain, which exist because a smallest subset without one
  cannot exist. Each action then moves a known amount between at most one cash
  balance, one fund, one position and the wallet (`MoneyMoves`), and the proceeds of
  all pairs but the traded one are zero (`OnePairTraded`). `MoneyAccountedFor` also
  follows the stakes: an investor's stake and the fund grow by what the investor pays.
  For an accrual it says that one fund grows, by the interest on its cash at some rate
  up to the base rate, each stake by the interest at that same rate, and nothing else
  changes; the fund is rounded twice (a cent), a stake once (half a cent), so the
  residual is in the manager's part of the fund and is neither dropped nor paid twice.
* `CollateralBacksEntry` is inductive beside `Rows`. A top-up rounds the average by half
  a cent a share (`TopUpDrift`); a partial cover keeps the remaining shares' part of the
  drift and rounds twice (`PartialCoverDrift`), which is why the bound is per call and
  per share.

Assumed: `MembersAssumption`, `SettingsAssumption` (`adapters/config.py` checks none of
it, its defaults satisfy it) and `CallsAssumption` (the services refuse the rest).

Every step of `LiquidationSweep` is a `Liquidate` of the ledger or leaves it as it is, by
the way it is written, so these theorems hold of any mix of sweeps and trades; what the
sweep itself owes (`SolventShortsLiquidated`) is liveness.

`ResetClocksProofs` proves `TypeCorrect`, `ClocksFollowWorkHolds` and
`BaselineBeforeInterestHolds`, for any number of funds, days and failures and any
calendar in which weeks and months are in order (`BoundsAssumption`,
`CalendarAssumption`). The row alone is not inductive, as tasks write copies they read
long ago: `RowsInv` says of every copy what is said of the row, `StagesInv` where each
task can be, and `WorkInv` what work its stage says is done (`paid` counts the credits
of the running accrual, which becomes the clock only when it is complete).

`CommunityProofs` proves `TypeCorrect`, `ServicesKeepOutHolds`, `IntroOnceHolds`,
`PricesLoggedHolds`, `PenaltiesPacedHolds` and `DailiesPaidHolds`, for any finite set of
members and of handlers, any commands and settings, and any number of calls, failures
and restarts. `Typed` adds to the types that two calls never hold one member
(`Exclusive`) and what a call at each place carries (`Shape`). On it rest:

* `Copies`: the row a call read is still the stored one when it stores it, because
  all writers of a row hold its lock. `ServicesKeepOut` follows, since what is stored
  differs from what is there only in the fields of that call. So does `IntroOnce`: only
  one call ever finds the mark unset and stores it, and it sends or is cut off after.
* `Recorded`: the price is the last point, or the stock is torn, or the holder of
  its lock is about to append; highs cover all points but those of the stay boost.
* `Paced`: the gates of one key between two restarts are a cooldown apart, because the
  cooldown ends no earlier than the last gate's does. `Accounted`: the penalty points of a
  member, with those still to be stored, are no more than his gates.
* `Dailies` and `Rewarded`: an account, and every copy of it that a claim holds, has the
  last claim, the streak and the cash that the claims so far come to (`Purse`). `RunOf`, the
  place of a claim in its run, is a recursive function: `RunsExist`, `RunUnfold` and
  `RunAppend` show by a least exception that it satisfies its equation and that a new
  claim changes none of the places before it.

`VoiceProofs` proves `TypeCorrect`, `PlacesFairHolds`, `SessionsFollowVoiceHolds`,
`RosterKeepsHolds`, `VoiceTimeEarnedHolds`, `RewardsAccountedHolds` and `RaisesEarnedHolds`
for any members, channels, pings, handlers and bounds.

* `Typed` knows what a handler carries at each place (`Fit`).
* `Placing` adds that a handler only has pings on its list that its member may answer
  (`Invited`) and that extras come only after all first places (`Filled`): this is
  stable although two handlers placed their members from lists made at the same time,
  as `Place` looks at the ping again.
* `Following` adds that a handler about to open a session, unless overtaken, is about the
  channel its member is in (`Followed`), and that no handler is of a life to come.
* `Boosting` adds to `Placing` that every entry of the roster has an extra place
  behind it (`Backed`) and that a run keeps each entry it was given, passed over or
  boosted, until it is over (`RunKeeps`, `Tidy`).
* `Timing` bounds the sum of what a member was credited, what the leaving handlers are
  about to credit and the running session by the time spent in voice: a handler takes
  the session out of the store in the step in which its claim begins.
* `Awarding` gives, for each member, two balances (`Balanced`): what hosts and responders
  were paid plus what handlers still owe them, against the pings and the places. A
  handler that fails takes at most its own share out of them, which `failures` counts.
* `Earning` cuts the window of an extra place into slots of the time between two runs,
  whatever the configured interval is. A run of `VcBoostTask` uses up the slots it has
  reached, and the next run reaches a later one (`Reached`, `Clocked`); no place has two
  entries in the roster or in a run (`Distinct`, `Lined`). So every raise, made or about
  to be made (`Spends`), has a slot, a first place or a stay of its own (`Gains`).

`StorageProofs` proves all safety properties of the run `storage`: `TypeOKHolds`,
`AggregatesWholeHolds`, `StatementsAllowedHolds`, `LockedReadsCurrentHolds`,
`SnapshotsMixForwardHolds`, `HistoryNeverLostHolds`, `MigrationCompleteHolds`, and
`StorageImplementsAtomicStore` (`ImplementsAtomicStore`), for any owners and tasks, any
mix of the sections of the services, files of any length and any number of sections,
crashes and failures. Assumed: that work is made of the sections the services have
(`ServiceSections`), that files are lists of owners, that a history in the files has a
point, and that the names of the migrator and of nobody are no tasks. The checked
invariants say nothing of a call that is halfway, so none of them is inductive.
`IInv`, which TLC also finds to hold on the instance of the run, says where every client is:

* A call is one of the upserts of the repositories with its last n statements left
  (`StatementsLeft`, `Stands`), to the next version of its aggregate (`Goal`; for the
  migrator the version of the file). `UpsertLeft`, `SourceCalls` and `AllMigrated` show
  that the sequences of the model are of this form.
* What the client sees of a table is what is committed, nothing (between the delete
  and the insert) or the new version, as n tells (`Midway`, `View`); a client that does
  not hold the transaction has changed nothing (`Transacts`). `StatementBrings` shows of
  each statement of each upsert that it is allowed there, brings its aggregate one step
  on, and leaves the others alone. A history also needs its stock, which comes before
  it in the same list or is there (`StocksFirst`).
* What a section has read of the members it locks is what is committed (`ReadsLocked`):
  others write only what they lock, `Locked` keeps the locks of two sections apart, and
  no section is at work beside the migrator. What the snapshot and the capture have read
  beside the locks is not newer than what is committed, and a child is not older than
  its parent, because the parent is read first, once, and versions only grow
  (`ReadsMixed`, `ParentsReadOnce`).
* Every aggregate is whole (`AllWhole`). Until the migrator succeeds each is either not
  there or as the files have it, and it is there once no call for it is left
  (`Migrating`): so a second run writes the same again, a history by its wipe.

A step moves one client; `OneMoves` reduces what it must keep to the part of that client,
given what it commits (`Commits`: whole aggregates, each at the client's goal). For the
refinement the end of a call with a session of its own and the end of a unit of work are
the `Commit` of the abstract store, a decision or the start of the migrator is its `Begin`,
a failure, a refused statement or a crash gives up what is left, and everything
else (`Start`, `Select`, `Write`) is a stutter. `FlattenSeq` and `Only` go through a
sequence, and `NextId` takes the greatest id of a finite set: `FlatteningExists`,
`KeepingExists` and `GreatestOf` show what is needed of them by a least exception, as the
provers have no induction with a formula as parameter.

`DomainLemmas` proves, about the pure functions and for all inputs: `FloorStallBrakes`
(the stalled price lies between the proposed and the current one), `KindOfTimeDecides`
and `WindowRunsRoundTheClock` (how long a market is open, midnight included),
`TierFollowsScore` and `TiedGuildIsElite`.

Only model-checked:

* liveness (`EveryCallGetsIn`, `SolventShortsLiquidated`, `ClocksConverge`,
  `MigrationSucceeds`, `DatabaseFreed`), which is out of the prover's reach;
* the violation runs.

## 5. Not modelled

* Input and output: parsing and checks of commands, embeds, the error handler, the
  trending list and price ranges of `StatsService`, the notifier, logging.
* Conversions of columns and of JSON fields (`types.py`, the field part of the
  builders in the migrator); a field that does not convert is a corrupt record. The
  dry run, which writes nothing.
* What no code calls: `delete` of the repositories, `prune_history_older_than`,
  `purge_expired`, `cleanup_expired_pings`, `link_ping`.
* The back-off of `TaskRunner` for a loop that crashes: every task catches what its
  tick raises in `_safe_run` before the loop would see it. The staggered start.
* `compute_net_worth` and the list of holders: sums for display; the baseline of a
  month is a step of ResetClocks without its value.
* Floats: the logarithm of the activity return, the noise in the rate of the APY.
* The settings "treasury" and "drop" for the residual of an accrual; Ledger has the
  default, "manager".
* The composition root, but for the stores it keeps per guild and evicts.

What could come next: the residual settings; a fund's accrual and a section of Ledger in
the terms of `Sections`, so that `Storage` and `Ledger` meet in one refinement.
