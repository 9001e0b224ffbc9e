# A formal model of the BeFood backend

BeFood is a meal-subscription service: a Django application on PostgreSQL.
Customers recharge a prepaid wallet, subscribe to meals, and pay for every meal
when it is marked delivered.  Staff review recharges and withdrawals, a platform
wallet holds the money the customers paid in, and cron jobs mark meals delivered
and stop or resume customers by their balance.

This directory holds TLA+ modules translated from `src/`, configurations that
model-check them with TLC, and theorems about them checked by TLAPS.  Modelled are the
**funding** of wallets, the **meal stop**, the **delivery** of subscribed meals, and what
hangs on a delivered meal or on a wallet: **referral** commissions, **Onahar** donations,
guest meals and delivery fees (**Prepaid**), the **kitchen**'s counts and the
**inventory**.  The rest of the system is inventoried below, with the reason why it is
left out.

    tlc -workers 2 -config Funding.cfg MCFunding.tla     # one run
    tlapm FundingProofs.tla                              # one proof module

## 1. The system

Every request runs in a worker process with its own database connection, at
PostgreSQL's default isolation (READ COMMITTED).  Services open a transaction
(`transaction.atomic`), take row locks (`select_for_update`), change rows and
commit.  What runs concurrently are workers, cron jobs (`scripts/cron`), and
callbacks that Django runs after a commit (`transaction.on_commit`).  There are no
messages between services: components interact by calling one another inside
a transaction, by shared rows, and by those callbacks.

| Component (`src/`) | State | Operations | Talks to | What is hard, and what makes it correct |
|---|---|---|---|---|
| Customer wallet ledger (`wallet/services/ledger.py`) | a `Wallet` per customer: recharge and commission buckets, status; `WalletTransaction` rows | credit, debit by strategy, idempotent replay | everything that moves money; after a credit, the meal stop | split debits, replays; the rows explain the balance |
| Recharge and withdraw requests (`wallet/services/funding.py`) | pending, completed and failed rows | request, approve, reject | customer wallet, platform wallet, meal stop | racing references, two reviewers, reservation, float shortfall; decided once, both ledgers move together |
| Withdraw ceiling, delivery fee (`withdrawable.py`, `delivery_fee.py`) | a payment per customer and month | compute; charge | wallet, subscriptions | reserve read without a lock; a month is paid once |
| Platform wallet (`admin_wallet/services`) | balance, lifetime counters, rows with unique keys, audit | credit, debit, deposit, withdraw, expense, reversal; profit entries | requests, commissions, inventory | replays; custody equals what was approved |
| Django forms (`*/admin.py`) | none of their own | edit a row | wallets, profiles | a form saves every column it read |
| Meal stop (`orders/services/wallet_balance_thresholds.py`) | flag and date on `CustomerProfile` | stop after a debit, resume after a credit, twice-daily check | charges, credits, slots, notifications | six writers, stale reads, lost callbacks, deadlock; low means stopped |
| Deliveries (`order_delivery.py`, `meal_payment.py`, `auto_meal_delivery.py`) | `OrderDelivery` slots per date and period | mark delivered, skipped, failed; charge; nightly run | wallet, meal stop, referrals, donations, profit | a slot is decided and charged once |
| Meal off and on (`meal_off.py`) | slot status, monthly counts | off, on, system skip | deliveries, meal stop | cutoff arithmetic; races with marking and cancelling |
| Subscriptions (`subscription_service.py`) | one active row per customer | subscribe, generate slots, cancel | deliveries, wallet | generation against cancelling; what a cancelled customer still owes |
| Guest meals (`orders/services/guest_meal.py`) | `GuestMealOrder` rows | buy, deliver with the stop | wallet, meal stop, kitchen | quota and floor under overlapping purchases; a key pays once |
| Kitchen demand (`orders/services/meal_demand.py`) | `MealDemandSnapshot` per slot and package | count, store | slots, guest meals, catalog | counts of different moments; purchases late for the count |
| Legacy orders, logistics (`orders/services`) | their rows | change status, assign | deliveries | daily counters |
| Meals and pricing (`meals/services`) | packages, menus, published prices | publish, schedule, price | deliveries | rounding, cycle arithmetic |
| Referrals (`referrals/services`) | attributions, a commission per slot | attribute, credit, try again, reverse | deliveries, both wallets | two triggers and a command for one commission; both wallets in both lock orders, in a savepoint of the mark |
| Onahar donations (`onahar/services`) | a point per slot, a row per customer and month, the meal fund, distributions | credit, close month, set target, distribute | deliveries | the first row of a month made twice; late points against a closed month |
| Inventory (`inventory/services`) | items, average cost, purchases, movements | draft, confirm, cancel, use, adjust, change the unit | platform wallet | opposite lock orders; cancelling after use; the purchases explain stock and money |
| Delivery zones, service areas | zones, locations, priorities, polygons | create, reorder, assign, match | profiles | priorities are unique under reorder |
| User management | profiles, codes, pending sign-ups, sessions | register, verify, edit | referrals, zones | a code is used once; an edit writes only what it is given |
| Support, notifications | conversations, counters, devices | post, read, push | outside services | counters against concurrent reads |
| Search, blogs, questions, notices, sliders, assets, settings | catalogue rows | edit, list | none | nothing concurrent to say |

`PROJECT.json` lists each part with its files and status, and the hazards, each at
the line where it bites, with the properties that watch it or the reason none does.

## 2. Modules

    WalletLedger   AdminLedger          the two ledgers
           \        /
            Funding ------ FundingRefinement ---- CustomerFunds (abstract)
           /       \             |
    BackOffice   FundingProofs  MCFunding
        |
    MCBackOffice

    MealStop ---- MealStopProofs        MealDelivery ---- MealDeliveryProofs
        |                                    |
    MCMealStop                          MCMealDelivery

    WalletLedger ---- Referral ---- ReferralProofs
        |                 |
        |             MCReferral
        |
        +---- Prepaid ---- Kitchen ---- KitchenProofs   (of both; Kitchen
                              |                          implements Prepaid)
                          MCKitchen

    Onahar ---- OnaharProofs            Inventory ---- InventoryProofs
        |                                    |
    MCOnahar                            MCInventory

    Sums ---- SumsProofs                sums over finite sets, for Referral and Inventory

**WalletLedger** is the arithmetic of `wallet/services/ledger.py`: a wallet is a
record of two buckets and a status; `ApplyCredit` and `ApplyDebit` are the private
functions of those names, `Spendable` is what a strategy may take, and
`FitsColumn` stands for the width of the decimal columns.

**AdminLedger** is `admin_wallet/services/ledger.py`: the balance, the lifetime
counters by type, and the set of rows.  `CreditAdminWallet` and
`DebitAdminWallet` are the two service functions with their replays.

**Funding** composes them.  `wallet`, `txn` and `session` are the customers' rows;
the actions are the services of `funding.py`, the charge of a meal, the payment of a
commission, staff movements and freezes.  A service that runs wholly under the
wallet's row lock is one action.  `request_recharge` is two, because its
uniqueness check covers rows of *other* customers, whom its lock does not stop:
`CheckRecharge` reads, `InsertRecharge` meets the unique constraints,
`AbortRecharge` is the refused insert or a dead worker.  While a session is open its
wallet is locked (`Lockable`).  A request whose key was already used returns the
stored row and is no step.

**CustomerFunds** is what the service promises: a customer has claims, which grow
with a deposit the platform received or commission it paid, and shrink with a payout
or a charge.  **FundingRefinement** maps Funding to it: claims are the balance plus the
withdrawals under review, as `request_withdraw` takes the amount out when asked.

**BackOffice** adds the Django form of a wallet: the request reads the row without a
lock and later updates all its columns.

**MealStop** is the meal stop with its six writers.  Here a database transaction is
a process with a program counter, because what matters is the order of its row
locks and reads:

| In the model | In the code |
|---|---|
| `mark[s]`: open, charged | `mark_delivery`: slot locked; wallet locked and charged; then the profile, if the charge leaves the wallet low |
| `review[c]`: credited, recovered, skipping | `approve_recharge`, `reject_withdraw`: wallet locked; the balance suffices; profile cleared and late slots being skipped; commit |
| `hook[h]`: the callback's statements | `maybe_resume_after_wallet_credit` from `credit_wallet`'s `on_commit`: flag read, balance read, flag written, slots skipped one by one |
| `TakeBack`, `Spend`, `PayFee` | debits other than for a meal: `reverse_referral_commission` and a negative `manual_adjust_referral_commission`; `request_withdraw` and `create_guest_meal_order`; `charge_delivery_fee`.  All lock the wallet; only the fee goes on to evaluate the stop |
| `Verified`, `Subscribers`, `Candidates` | `candidate_customers_queryset`: customers with a verified address and an active account who have a subscription or are stopped |
| `cron`: running, locked, skipping | `run_wallet_threshold_check`: candidates read at once, then one transaction per customer |
| `edit[c]` | the row a profile request read, saved whole |
| `wallets`, `profiles`, `rows` | holders of row locks, kept to the commit |
| `past` | slots whose meal-off cutoff has passed |

What a transaction writes appears at its commit.  `AbortMark`, `AbortReview` and
`AbortCron` are deadlock victims or killed workers, which roll back; `KillHook` and
`KillCron` end a process between two of its committed steps.

**MealDelivery** is a subscription and its slots, one per day and meal period:

| In the model | In the code |
|---|---|
| `today`, `phase` | the business day, and how many of its cutoffs have passed (`meal_off_deadline`) |
| `published` | the months whose menu is published; unpublishing clears their prices |
| `status`, `started`, `ended` | `CustomerSubscription`: `status`, `started_on`, `cancel_effective_on` |
| `meal[s]` | `OrderDelivery`: no row, scheduled, off (skipped by the customer), skipped (by the system or staff), delivered |
| `worker[w]` | a loop of `ensure_all_active_subscription_deliveries`, run by the backfill command, a look at a subscription or a publication: the day it began on, the subscriptions it read and has yet to treat, the rows it built and has yet to insert |
| `requests` | a turn-off, turn-on or mark that has read the slot's subscription and waits for the slot, or holds it and has not committed |
| `Subscribe`, `Cancel`, `Unpublish` | the services of those names, one transaction each |

Three time gaps matter and are in the model: between reading the subscriptions and
making their slots, between reading the rows a subscription has and inserting the
missing ones, and between reading the subscription of a slot and committing what
a request does to the slot.  `Live` is `live_delivery_q`: a cancelled subscription is
served to the end of the day it was cancelled.

**Referral** is the commission a customer earns when a meal of theirs and the same meal
of somebody they referred are both delivered:

| In the model | In the code |
|---|---|
| `tx[w]` of kind mark | `mark_delivery`: slot and wallet locked and the meal charged, then `credit_referral_commission_for_delivery` in a savepoint, then `credit_pending_commissions_after_referrer_meal`, a savepoint per commission |
| kind retry | `reconcile_referral_commissions`, one delivered slot; of a failed row it deletes the row first |
| kind reverse, fund | `reverse_referral_commission`; `approve_recharge`, which takes the same two locks |
| `row[s]` | the automatic `ReferralCommission` of a slot; "waiting" is a skip that may be tried again, "closed" any other |
| `writes`, `given`, `earned` | what the transaction has written and moved, which nobody sees before its commit |
| `locks`, `saved` | the row locks it holds, and those it keeps when it goes back to its savepoint |
| `Victim`, `GiveUp` | PostgreSQL aborting a member of a circular wait, and the exception handler around the savepoint |

A mark holds its customer's wallet and asks for the platform's and the referrer's; a
reversal and an approval hold the referrer's wallet and ask for the platform's.  The
circular waits are steps of the model, not errors of it.

**Onahar** is the charity campaign.  `point[s]` is the credit event of a slot, as the set of
months it counts for; `progress[k]` is `OnaharMonthlyProgress`; `fund` is
`OnaharSettings`, whose totals `_apply_ledger` keeps; `dist` are the distributions.
`Open` and `Insert` are the two halves of `_open_or_get_progress`: the second meets a row
that somebody else made in the meantime.  A mark keeps its row of the month, and the
settings row if its point completes a target, while it goes on to commissions and
wallets: `Credit` has taken its last lock here, `Commit` writes, and whoever needs one of the
rows waits in between (`Free`, `FundFree`).  `Close` locks the rows of a month in one
statement, so it sees the rows there are when it begins and, having waited, their newest
versions.  Marks, closings and what is done about wallets can wait for each other in a circle;
`Victim` is the one that PostgreSQL aborts, where it waits.

**Inventory** has quantities in thousandths of a unit and costs in ten-thousandths, as its
columns do, with the roundings of `units.py`, `_unit_cost`, `compute_wac` and
`reverse_wac`.  `item[i].moved` is which kinds of `InventoryStockMovement` an item has.  Confirming and cancelling take their locks one by one (`TakeMoney`,
`TakeItem`) and show their effect in one last step (`FinishConfirm`, `FinishCancel`).
`Record` is usage, wastage and adjustment, which differ by sign and note; the quantity is
converted before the item is locked, to the unit read then.

**Prepaid** is one wallet and what is bought from it besides the daily meal.  A guest
purchase is `Ask` (the idempotency key is looked up before any lock), `Quote` (the
wallet locked; cutoff, quota and floor checked) and `Buy` (debit and order, against
the unique indexes); a delivery fee is `CheckFee` and `PayFee`; `DeliverStop` marks a stop
with its guest orders.

**Kitchen** puts beside it what `meal_demand.py` counts: `CountGuests` and `CountMeals` are
separate queries, `SaveSnapshot` stores the row with the ingredients by the catalog of that
moment.  Its steps are steps of Prepaid or leave all of Prepaid's variables alone, which
`KitchenImplementsPrepaid` proves.

The families overlap in the charge of a meal.  Funding has what it does to the
buckets and rows of a wallet, MealStop what it locks and when it stops a customer,
MealDelivery which slot it is for, Referral, Onahar and Prepaid what the mark does
after it; in MealStop and MealDelivery `balance` is the spendable amount, and a frozen
wallet refuses like an empty one.

## 3. Runs

Amounts are small natural numbers; a model's unit is whatever the smallest amount is.
`MaxBalance` is the column width in Funding and a bound in MealStop.

| Run | Checks | Instance and why it is enough |
|---|---|---|
| `funding` | `TypeOK`, `LedgerExplainsBalance`, `CommissionNotWithdrawable`, `CustodyMatchesReviews`, `FrozenOnlyReviews`, `ImplementsCustomerFunds` | 2 customers, 4 rows, amounts 1 and 2, widths 4.  Four rows fit recharge, meal, commission and withdraw of two customers, which is the shortest history that mixes the buckets; amount 2 against 1 gives split debits, shortfalls and replays with another amount; balances reach the width. |
| `back_office` | `OfficeTypeOK`, `UniqueLiveRef`, `ReviewIsFinal` | 2 customers contend for 1 reference with a client key and 3 rows, under open forms: both pass the check, one insert is refused, a rejected reference is used again. |
| `meal_stop` | `TypeOK`, `LockedStepsStopTheLow`, `MarkedOnce`, `NoLateMeals` | 1 customer, 2 slots (the cutoff of one passes), 2 credits, 1 other debit, 1 callback, 1 edit, 1 crash.  All locks are rows of one customer, so one customer has every race; balances cross the threshold 2 both ways with price 1, and a charge may leave the wallet low or not. |
| `meal_stop_converges` | `FlagsConverge` under `FairSpec` | a subscriber and a customer without a subscription, both verified, a callback, an edit, another debit, a crash: each can leave a flag wrong, and money then stops moving. |
| `meal_delivery` | `TypeOK`, `ChargedOnce`, `OneSubscriptionServes`, `FinalStaysFinal` | 1 customer, 2 subscriptions, 2 days of 1 meal, 2 processes making slots, 1 request under way, money for 2 meals.  The second subscription begins after the first was cancelled, on the same day or the next; two processes build the same row; a request outlives a cancel, a cutoff, an unpublication.  The proofs have any number of each. |
| `referral` | `TypeOK`, `CommissionsExplainMoney`, `PaidWhenBothAte`, `DecisionsStand`, `ChargedMealsAreMarked` | 2 customers of whom the second signs up, with or without the first's code; 2 meals each, 2 workers, a platform wallet of 1, wallets of 2 and width 3, rates 0 and 1, one change of a setting, freeze, cancel or crash.  Two workers make every circular wait of two locks; one meal's commission can be waiting while the other's is paid, failed or reversed; the referrer can have spent what is reversed, and a credit can exceed the width. |
| `onahar` | `TypeOK`, `PointsAreMeals`, `FundExplained`, `TargetsDonated`, `ClosedMonthsStay` | 2 customers, 3 meals of one in 2 months and 1 of the other, targets 1 and 2, 1 distribution of 1 or 2 meals, 2 workers, 1 crash.  Two meals of one customer and month race for its row; a target changes between two months; a month is closed before, during and after its meals, also the current one; a mark that has given to the fund keeps a closing, a change of the target and a publication waiting until it commits. |
| `inventory` | `TypeOK`, `StockExplained`, `ValueIsPaid`, `PurchasesAreFinal` | 3 purchases over 2 items, 2 workers, money for some of them, 2 entries or changes of a unit.  Two purchases have their items in opposite order, one has an item twice and in grams; quantities are such that averages round. |
| `kitchen` | `TypeOK`, `PurchasesExplainWallet`, `QuotaHolds`, `KeysPayOnce`, `PurchasesKeepFloor` of Prepaid; `KitchenTypeOK`, `SnapshotsAddUp`, `PurchasesReachKitchen` | 1 wallet, opened with 5 and 1 or with 8 and 0 in its buckets; 3 requests for 1 or 2 guest meals or a fee of 1 or 2, one key or none, 1 stop, 2 workers, 2 months, quota 2, floor 2, 1 edit, 2 toggles and 1 run.  One stop is enough as all of a customer's purchases share a wallet and a month; the same key comes with a guest order and a fee, the second purchase exceeds the quota or the floor. |
| `meal_delivery_cancelled`, `inventory_units`, `kitchen_history` | one property each, violated | see section 5 |

Deadlock checking is off but for MealDelivery: when the rows, credits, meals and requests of
an instance are used up, the system rests.  In MealDelivery somebody can always ask for
slots, and it is on.  The bounds of an instance are constants named as such in the
modules: `MaxSwitches`, `MaxCrashes`, `LastMonth`, `MaxEntries`, `MaxRequests`, `MaxEdits`,
`MaxToggles`, `MaxRuns`, and those of Funding, MealStop and MealDelivery.  Workers are
interchangeable, as are two meals of Onahar's instance, and the runs say so to TLC; none of
these runs has a liveness property.

What the properties say:

- `LedgerExplainsBalance`: a wallet's balance is its completed credits less its
  completed charges less the withdrawals held or paid.
- `CommissionNotWithdrawable`: over the life of a wallet no more is withdrawn than
  was recharged, whichever bucket the meals were paid from.
- `CustodyMatchesReviews`: the platform wallet holds one custody row of the right
  amount for every approved request, and none besides.
- `FrozenOnlyReviews`: a frozen wallet's money moves only by a review of a request
  made before.
- `UniqueLiveRef`: a provider's reference backs one live recharge over all customers.
- `ReviewIsFinal`: a decided request stays as decided.
- `ImplementsCustomerFunds`: the refinement.
- `LockedStepsStopTheLow`: if low meant stopped before a step, it does after, unless the step
  holds only one of the two rows it depends on (`HalfLocked`): the callback and the profile edit
  hold none while they write the flag, withdrawals and commissions taken back hold the
  wallet alone, and a resume of the threshold check the profile alone.  And while
  somebody holds the profile, only a debit of the second kind makes the wallet low.
- `MarkedOnce`: a slot leaves the scheduled status once.
- `NoLateMeals`: resuming a customer skips, in the same step, the meals the kitchen
  left out, except for the callback, whose two steps are not atomic.
- `FlagsConverge`: when money stops moving, the threshold check brings the flag of every
  verified customer in line with the wallet, whatever a callback, an edit, a debit or a crash had left.
- `ChargedOnce`: a wallet is its initial funds less the price of each delivered slot,
  whoever marks it how often.
- `OneSubscriptionServes`: two subscriptions of a customer have the same meal scheduled or
  delivered, and served, at most on the day the first was cancelled.  That day is a
  real exception: a meal past its cutoff stays with the cancelled subscription, and one
  turned off before the cancel may be turned on after it.
- `FinalStaysFinal`: a delivered or skipped slot, or one that was off at its cutoff, is not
  changed by what was read earlier and arrives late.
- `CommissionsExplainMoney`: every customer's wallet is what was paid in and the commissions
  that stand, less the meals eaten, and the platform wallet is its float and deposits less
  these commissions.
- `PaidWhenBothAte`: a commission that was paid, failed or reversed is for a meal both ate.
  Whether both subscribed is read without a lock and no part of it.
- `DecisionsStand`: what was paid stays or is reversed; what was reversed or turned down for
  good is not decided again, by nobody who looked earlier.
- `ChargedMealsAreMarked`: a mark that charged its meal ends with the meal delivered, whatever
  happens to the commissions in it; only a dead worker takes it back.
- `PointsAreMeals`: the points of a month are its credited meals, each credited once.
- `FundExplained`: the fund was given what the months donated, gave what is published, and
  has the rest.
- `TargetsDonated`: an open month has donated all its full targets, a closed one, with what
  expired, no more than its points.
- `ClosedMonthsStay`: a closed month's status, donations and expired points never change.
- `StockExplained`: stock is the lines of the standing purchases and the entries; the platform
  wallet has paid for exactly these purchases.
- `ValueIsPaid`: as long as only purchases move an item, its stock times its average cost is
  what was paid for it, up to the roundings, whatever the order of confirming and cancelling.
- `PurchasesAreFinal`: a cancelled purchase stays as it is, a confirmed one can only be cancelled.
- `PurchasesExplainWallet`: every amount that left the wallet is a guest order, a fee or a
  delivered meal on record.
- `QuotaHolds`, `PurchasesKeepFloor`: the quota of a month and the meal-stop floor hold at every
  purchase, though both are checked a step before the debit.
- `KeysPayOnce`: a key pays for one guest order or one fee.
- `SnapshotsAddUp`: what a stored demand expects is cooked, turned off or left out for one
  stopped customer.  Each count is used on both sides, so this is arithmetic of one stored row.
- `PurchasesReachKitchen`: a stored demand expects and cooks for all the guest orders of its slot but
  one at most, whatever their quantities: the purchase that had passed its checks by the cutoff and
  was inserted after the count.

### Fairness

Funding has none: nobody has to ask, review or pay.  `FairSpec` of MealStop asks:

- weak fairness of the steps of what has already begun: a worker that runs goes
  on, as does a callback;
- weak fairness of the threshold check as a whole: crontab starts it at 02:00 and 14:00
  UTC (`scripts/cron/install_managed_cron.sh`), under a file lock, so there is one process;
- strong fairness of the steps that wait for a row lock: PostgreSQL queues waiters, so
  a lock that becomes free again and again is handed over in the end;
- none for orders, credits, edits, cutoffs or crashes.

MealDelivery, Referral, Onahar, Inventory and Prepaid have no fairness.  What should happen in the
end there, slots for a subscriber, a commission that waits, a retry of a failed one,
depends on commands that the managed crontab does not start, so no fairness of theirs is
justified.

## 4. Proofs

TLAPS proves, for every value of the constants:

| Theorem | States |
|---|---|
| `FundingProofs!TypeCorrect` | `Spec => []TypeOK`: no bucket or platform counter is negative or wider than its column |
| `FundingProofs!LiveRefsUnique` | `Spec => []UniqueLiveRef` |
| `FundingProofs!ReviewsAreFinal` | `Spec => ReviewIsFinal` |
| `FundingProofs!CustodyInvariant`, `CustodyMatches` | `Spec => []CustodyInv`, the inductive invariant, and `[]CustodyMatchesReviews` |
| `FundingProofs!LedgerInvariant`, `LedgerExplained`, `CommissionStays` | `Spec => []LedgerInv`, the inductive invariant, `[]LedgerExplainsBalance`, `[]CommissionNotWithdrawable` |
| `FundingProofs!FundsImplemented` | `Spec => ImplementsCustomerFunds`, the refinement |
| `FundingProofs!FrozenMoney` | `Spec => FrozenOnlyReviews` |
| `FundingProofs!OfficeTypeCorrect`, `OfficeRefsUnique`, `OfficeReviewsAreFinal` | `OfficeSpec => []OfficeTypeOK`, `[]UniqueLiveRef`, `ReviewIsFinal` |
| `MealStopProofs!LockInvariant` | `Spec => []LockInv`, the inductive invariant |
| `MealStopProofs!TypeCorrect` | `Spec => []TypeOK` |
| `MealStopProofs!SlotsDecidedOnce` | `Spec => MarkedOnce` |
| `MealStopProofs!LowStaysStopped` | `Spec => LockedStepsStopTheLow` |
| `MealStopProofs!LateInvariant`, `NoMealComesLate` | `Spec => []ResumesSeeLate`, inductive with `LockInv`, and `NoLateMeals` |
| `MealDeliveryProofs!TypeCorrect` | `Spec => []TypeOK` |
| `MealDeliveryProofs!DeliveryInvariant` | `Spec => []DeliveryInv`, the inductive invariant |
| `MealDeliveryProofs!ServedOnce` | `Spec => []OneSubscriptionServes` |
| `MealDeliveryProofs!FinalForGood` | `Spec => FinalStaysFinal` |
| `MealDeliveryProofs!ChargesExplainBalance` | `Spec => []ChargedOnce` |
| `MealDeliveryProofs!StraysUnserved` | for every slot `s`, `Spec => [](Beyond(s) /\ meal[s] = "absent" => [](meal[s] # "delivered"))`: a row made after the cancel, past the last day, is never delivered |
| `ReferralProofs!InvTheorem` | `Spec => []Inv`, the inductive invariant |
| `ReferralProofs!PaidTheorem` | `Spec => []PaidWhenBothAte` |
| `ReferralProofs!DecisionsStandTheorem` | `Spec => DecisionsStand` |
| `ReferralProofs!MarkedTheorem` | `Spec => ChargedMealsAreMarked` |
| `ReferralProofs!AccountsTheorem` | `Spec => []Accounts`, the inductive invariant of the money |
| `ReferralProofs!MoneyTheorem`, `TypeCorrect` | `Spec => []CommissionsExplainMoney`, `[]TypeOK` |
| `OnaharProofs!InvTheorem` | `Spec => []OnaharInv`, the inductive invariant |
| `OnaharProofs!TypeCorrect`, `Points`, `FundTheorem`, `TargetsTheorem` | `Spec => []TypeOK`, `[]PointsAreMeals`, `[]FundExplained`, `[]TargetsDonated` |
| `OnaharProofs!ClosedMonthsTheorem` | `Spec => ClosedMonthsStay` |
| `InventoryProofs!PurchasesAreFinalTheorem` | `Spec => PurchasesAreFinal` |
| `InventoryProofs!StoreInvariant` | `Spec => []StoreInv`, the inductive invariant |
| `InventoryProofs!StockTheorem`, `TypeCorrect` | `Spec => []StockExplained`, `[]TypeOK` |
| `InventoryProofs!ValueTheorem` | `Spec /\ []AveragesKept => []ValueIsPaid` |
| `InventoryProofs!DearTheorem` | `Spec /\ []Dear => [](AveragesKept /\ ValueIsPaid)` |
| `InventoryProofs!ConfirmingGoesOnTheorem` | `Spec => []ConfirmingGoesOn`: as long as no purchase is being cancelled, one of the transactions under way finds its locks free |
| `KitchenProofs!InvTheorem` | `Spec => []PrepaidInv` of Prepaid, the inductive invariant |
| `KitchenProofs!TypeCorrect`, `Quota`, `WalletExplained`, `KeysPayOnceTheorem` | `Spec => []TypeOK`, `[]QuotaHolds`, `[]PurchasesExplainWallet`, `[]KeysPayOnce` |
| `KitchenProofs!FloorKept` | `Spec => PurchasesKeepFloor` |
| `KitchenProofs!KitchenImplementsPrepaid` | `KitchenSpec => Spec` of Prepaid |
| `KitchenProofs!KitchenTypeCorrect`, `SnapshotsTheorem`, `PurchasesReachKitchenTheorem` | `KitchenSpec => []KitchenTypeOK`, `[]SnapshotsAddUp`, `[]PurchasesReachKitchen` |

They rest on the named assumptions of the modules alone: the amounts are positive
naturals, the reserves and widths naturals, the model values distinct, the keys
of the platform exactly those its callers build (`AdminKeysAssumption`), and, in
MealStop, that every slot has one of the customers as owner.  MealDelivery asks that
the price is positive, the funds and the minimum are naturals, and every subscription
has a customer; Onahar that every slot has a customer and a month and that targets are
positive; Referral that the customers are finitely many; Inventory that the purchases are, that
every one has lines, and that the locks of items, purchases and the wallet have different names; Prepaid that prices, quantities and fees are
positive.  Where a proof counts a set that may be infinite for some values of the constants, its
module assumes it finite or its invariant says so.

*Funding.*  The type invariant comes first, from lemmas about the ledgers (`DebitLemma`:
a debit within `Spendable` leaves both buckets in range; the same for credits and
counters).  `UniqueLiveRef` is inductive with it: only an insert makes a reference
live, and an insert meets the constraint.  `CustodyMatchesReviews` is not inductive by
itself: an approval would add no row if the platform had already used its key.  So
`CustodyInv` adds `OtherKeys`, that every key starting with the name of a request
belongs to a custody row, from which `PendingKeysUnused` follows and the approval adds
exactly one row.  The sums of a wallet's rows are cardinalities, of one pair for every paisa
of every row, so that a step adds or takes a known number of pairs.  With them
`LedgerExplainsBalance` is inductive; `CommissionNotWithdrawable` is not, as it does not say
from which bucket a withdrawal came, so `RechargesCover` says that the recharge bucket and
all withdrawals together come from recharges.

*The refinement* is proved step by step: an approval of a recharge is a deposit, a
withdrawal's approval a payout, a charge a charge, a commission earned, and every other step
leaves claims and sums alone.  A request for a withdrawal is a stutter, as the claims count what is
under review; that an approval moves the platform's counters at all needs `PendingKeysUnused`.

*BackOffice.*  A form only writes what wallets may hold and touches no row of the ledger, so the
lemmas of Funding's steps serve again.

*MealStop.*  `LockInv` says who holds which lock in which state of which process
(`ProfileLocks`, `WalletLocks`, `SlotLocks`), that a charge can still be paid when it commits
(`Charges`), and that what a transaction decided under its locks is still so
(`Decisions`).  Without it nothing connects the balance a review saw to the
balance at its commit.  Each of these parts is kept by every action; the action
properties follow from it, `LowStaysStopped` by the argument that a charge, or a fee, that would
make the wallet low has to wait for the profile a resume holds, and that a review holds both.  `NoLateMeals` needs to know
what a resume has left to do, which `ResumesSeeLate` says: a late slot of its customer is on its
list, locked by it, or decided by somebody else meanwhile.

*MealDelivery.*  Nothing in `OneSubscriptionServes` says why a late loop cannot make it
false, so `DeliveryInv` adds two parts.  `MadeSlotsKnown`: a slot that has a row, or is about to
get one, lies on or after the day its subscription started, and a loop only knows
subscriptions that exist.  `SubsInTurn`: of two subscriptions of a customer one ended
before, or on the day, the other began.  A slot of both then lies on that day, where
the exception applies, or after the end of the first, where it is not served.
`ChargesExplainBalance` counts: the one step that delivers a slot adds one element to
the customer's delivered slots and takes one price.  The slots may be infinitely many,
so its invariant, `Accounts`, says as well that the delivered ones are finitely many.
`StraysUnserved` is about finding 1 of section 5.  A slot without a row has nobody asking about it
(`AskedAreThere`), and once its subscription has ended before its day nobody can begin to ask, as
every request looks at the subscription first; so it stays left alone (`LeftAlone`), whoever makes
a row for it.

*Referral.*  `PaidWhenBothAte` and `DecisionsStand` say nothing of transactions under way, and
what goes wrong goes wrong there: a decision is written long before it is seen.  `Inv`
adds that no two transactions hold one lock (`Exclusive`), that only customers who signed up
eat (`EatersKnown`), and of every transaction (`Sound`) that its step fits its kind, that
the slot it decides about is locked by it and eaten, that each of its decisions is for an
unsettled row whose slot it keeps locked, and that decisions which survive a rollback to
the savepoint are covered by the locks kept there.  So at a commit every row that changes was
unsettled until then, and no other transaction can have decided it.

`CommissionsExplainMoney` needs a second invariant, `Accounts`, because a transaction moves
three wallets' money at its commit for decisions it made long before.  Of every open
transaction it says that its kind and its locks fit what it is about (`Purposeful`), that it decides
about its own slot and then about slots owed to its eater, each once (`Focused`), that what it
is going to pay is the sum of the amounts it decided on (`Tallied`), and that the wallets it has
locked can bear it (`Covered`).  A commit then changes the sums over all rows by exactly what it
changes the wallets, and others do nothing to what a transaction has locked (`Bystanding`).  A new
customer's referrer changes the reading of no row, since no row of theirs was paid
(`EatersKnown`, `PaidWhenBothAte`).

*Sums.*  `SumOver` folds a finite set in an order nobody knows.  SumsProofs shows that the
order does not matter, and how a sum changes with one element or one value.  Induction
over sets is done by hand: the smallest subset that is an exception has an element to take away,
and what is left is no exception.

*Onahar.*  The points of a month are a cardinality, so `OnaharInv` counts: a credit adds one
slot to one set of slots and takes it from none, because it holds the slot, whose point is
empty.  That a transaction's month is as it found it when it commits needs its lock on the row,
and that a row it is about to make is not there needs the insert to check.  The fund is the
cardinality of two sets of pairs, of donated and of given meals, that each step extends or
cuts at one end.

*Inventory.*  `PurchasesAreFinal` follows from what each kind of transaction knows of its
purchase as long as it keeps it locked: to confirm, it was a draft or not there; to cancel, it was
confirmed, with the same lines.  `StoreInv` adds that one transaction at a time holds the wallet,
and that who is about to put lines on stock holds it and has found the money.  The lines of a
purchase move one after the other, a recursive function; that it has a solution, and that an
item has then changed by what all lines have of it, is shown for the first line that would be an
exception.  A commit changes the worth of one purchase, so `StockExplained` needs one change of a
sum.  `TypeOK` is more than types here: that stock stays natural needs the check at the end of
a cancellation, and that the wallet does needs the lock.

Confirming locks the wallet and then the items, cancelling the items and then the wallet, and
both take the items in the order of their lines.  `ConfirmingGoesOn` says where the circles come from:
without a cancellation there are none, as whoever holds an item holds the wallet
(`WalletFirst`, inductive), which one transaction does, so that one waits for nobody.  With cancellations
TLC finds circles, and `Victim` is a step of the model.

`ValueIsPaid` does not hold for every price.  `reverse_wac` is "approximate", as it says itself: of a
thousand units for a hundredth the average rounds to nothing, and a later reversal gives up the
average while there is stock.  `ValueTheorem` therefore asks that the average of what is on hand
stays known (`AveragesKept`), and shows that it then values the stock: `ValueInv` bounds the error
of every item by half a unit of cost for what the item's lines have ever brought, once for each line
confirmed and once more for each cancelled, so it grows with the history and not with
the order of it.  `DearTheorem` gives a condition on the purchases alone, `Dear`: every line costs more than
these roundings can add up to.  Then a reversal always leaves a positive value, and no average is
given up.  Neither condition is empty: TLC finds `AveragesKept` true in all states of the
`inventory` run and `Dear` in all those where the items are still in kilograms.

*Prepaid.*  One transaction at a time holds the wallet (`WalletHeld`), and what it found there
is still so: quota and floor of a quoted purchase, the missing payment of a fee.  A purchase adds
as many pairs to the month's meals as its quantity, which the quota left free.  Marks and
purchases charge the same wallet, so the sums are kept by every one of them.

*Kitchen.*  Prepaid's invariant is used through the refinement: no purchase of a slot past its
cutoff can be quoted, so what was not in the count had been quoted before, and one
transaction holds the wallet.  `Reached` is what a count is worth: it has all guest orders of
its slot and somebody may still be quoted for it, or all but a certain one and nobody is.  `JobRight` and
`HistoryRight` say this of the count under way and of the stored one.

Checked by TLC only is `FlagsConverge`, which is liveness and beyond the prover.  `ValueIsPaid` is
proved under a condition on averages or prices; without one TLC has checked it, for the prices
of its instance.

## 5. What the code does otherwise

Three runs check what the repository's own text says, and TLC finds it violated.

1. **Slots after a cancel** (`meal_delivery_cancelled`).  A loop that read a subscription as
   active inserts scheduled slots for it after its cancel.  One of the day of the
   cancel, made before its cutoff, is still served.  Those past that day never are
   (`StraysUnserved`), but stay scheduled and are counted as a liability once their cutoff passes.
2. **Kilograms become grams** (`inventory_units`).  The unit of an item may be changed while it has
   no stock and no movement.  A draft purchase is neither, and its lines keep the quantity in the
   old unit; confirming it puts 1 on hand, of what is now grams.
3. **History is rewritten** (`kitchen_history`).  The snapshots of the last seven days are replaced
   on every run of the command, with ingredients computed from the catalog of the day.

Other things the models contain, without a run of their own:

- The Django form of a wallet shows the balance read-only, yet saving it updates every column
  with what the request read (`SaveForm` of BackOffice).
- The `on_commit` resume reads balance and writes flag in separate statements; a charge in
  between finds the flag set, leaves it, and the callback clears it.  The threshold check decides
  on the balance it read with the candidates.  A profile edit writes the whole row, the flag
  with it.  `FlagsConverge` shows that a later check repairs all three.
- A commission that is reversed, or corrected downwards, takes money under the wallet's lock alone
  (`referrals/services/commission.py:447`, `:560`): nobody evaluates the stop, and the customer is low and served
  until the next check.  A resume that had read the balance before goes on and clears the flag.
  `LockedStepsStopTheLow` says that the steps which hold both rows never do this.
- The threshold check looks at customers with a verified e-mail address and an active account
  (`wallet_balance_thresholds.py:279`).  A subscriber who registered by phone and never verified one is
  stopped by charges and resumed by credits, but a wrong flag of theirs is not repaired;
  `FlagsConverge` is about the verified ones.
- Marking locks slot, wallet and profile; the check locks profile and then slots.  When the
  database aborts the marking, the charge is undone with it.
- Who subscribes while a menu is being published gets no slots from either, and the daily backfill
  that the command's help speaks of is not in the managed crontab.
- Two marks of the same meal, of a referrer and of a referred customer, that overlap each find
  the other's meal not delivered yet: the commission stays waiting until the retry command
  runs, which is not in the managed crontab either.
- A commission inside a mark and an approval or reversal for the same referrer can wait for each other's
  wallets.  The savepoint keeps the mark; an approval that is aborted is an error to its reviewer.
- Two first points of a month race for its row.  The loser's uniqueness error is caught inside
  the transaction it has aborted, so its point is not credited until
  `reconcile_onahar_points` runs; the meal is delivered all the same.
- A guest order for a stop that is already delivered, or will be skipped, stays scheduled
  for good.  A repeated purchase that races with its first attempt may be refused for the
  quota or the floor instead of being answered with the first order.
- A purchase locks the wallet and then, through the foreign key, the slot; a mark locks the
  slot and then the wallet: one of them can be aborted.
- A mark that completes a target keeps the row of Onahar's settings while it asks for the platform's and a
  referrer's wallet, so every other mark that completes one, a publication and a close wait
  for it; a mark of that referrer, who holds the wallet and completes a target too, makes a
  circle.  The savepoint of the commission, or of the point, takes the error.
- Confirming a purchase locks the platform wallet and then items, cancelling one the other way
  round.  They can wait for each other, and PostgreSQL then aborts one.
- An entry of usage, wastage or adjustment may be converted to the unit an item had before it was
  changed (`Record`).

## 6. Simplifications

- Money is in small naturals; rounding happens in pricing, which is not modelled, and in
  Inventory, which has it.
- The withdraw reserve (meal-stop threshold, or finalized meals) is any member of
  `Reserves`: it is read without a lock from rows that Funding does not have.
- `complete_pending_credit`, `fail_pending`, `recharge_wallet` and `withdraw_wallet` of the
  ledger have no caller but tests and are left out.
- The meal-stop threshold and the price do not change during a behaviour.
- MealStop's slots are today's.  A cutoff that passes in the middle of a resume is
  outside `NoLateMeals` (the code computes the late slots once).
- At most one review per customer and one marking per slot are in flight: a second one
  waits for the first one's row lock and does nothing before it has it.
- MealDelivery has one package, a constant price and one cutoff per meal period; a
  publication brings back the price it had.  The low-balance stop and withdrawals do
  not appear in it.  `Subscribe` and `Cancel` are one step each, as the first is about rows
  nobody else has and the second holds the rows it changes.
- Requests that are refused whatever happens (a decided slot, a cutoff passed when they
  come) are left out, but for marking a delivered slot again.
- The rows of a publication appear at its commit.  When two processes insert the
  same row, the model fails the second to commit and the database the second to
  insert; either may be first, so the model has both outcomes.
- The meal periods of a day are a parameter; TLC's instance has one.
- Notifications, logs, notes and audit texts are left out.
- The Django form of a profile writes the row as the profile edit does.
- Referral: a meal has one price and the commission is a member of `Rates`, 0 standing for one
  that rounds to nothing; the platform wallet is never frozen (BackOffice has that); commissions
  of one meal are tried in any order, the code goes by their numbers.  A commission corrected
  by hand (`manual_adjust_referral_commission`) is left out.
- MealStop: a delivery fee is one step, so nobody sees it holding the wallet while it waits for the
  profile; `ChargeMeal` has that wait for meals.  A withdrawal of a customer without a subscription may leave any
  balance, as the finalized meals are not in the module.
- Onahar: commissions and wallets are in Referral, so a circle through them is a `Victim` whenever a
  credit or a closing waits.  The switch of the campaign is the choice between `Mark` and `MarkUncounted`;
  `reverse_for_delivery` has no caller and is left out; images and texts of distributions are too.
- Inventory: kilograms and grams stand for the two pairs of units; an item's unit starts as
  kilograms and may become grams.  Names, categories, invoices and reports are left out, and so is
  the clamp of the platform's expense counter at zero.
- The properties are about the services.  Django's forms (`*/admin.py`) save whole rows as they were
  read, and staff may edit any of them: BackOffice has the form of a wallet and MealStop's profile edit
  is the form of a profile; the forms of items (`inventory/admin.py:20`), which can bring back an old
  quantity on hand, of purchases and their lines (`:36`), of Onahar's settings
  (`onahar/admin.py:17`) and progress rows, which can lose totals of the fund, and of commissions, which can
  set a status, are not modelled.  `StockExplained`, `ValueIsPaid`, `PurchasesAreFinal`,
  `FundExplained`, `ClosedMonthsStay` and `DecisionsStand` do not hold against them.
- Funding: a request that repeats a key is answered with the stored row and is no step.  The `funding` run
  has no keys, `back_office` has one.
- MealDelivery's run has one request under way at a time; that overlapping ones charge a slot once is
  `ChargesExplainBalance`, for any number.
- Prepaid: one customer with an active subscription, constant prices, quota and floor; a request
  names a key or none and its payload is the stored one or a conflict, neither of which is a
  step.  The tiers that suggest a fee are left out.  A frozen wallet is part of `RollBack`.
- Kitchen: one customer, one package, one ingredient; the live filter, forced captures and the
  look-back limit are left out.

## 7. Not modelled

The modules cover the parts in which money, stock, points or a kitchen's count depend on
several actors.  With a dozen runs and eight modules of proofs the project is as large as a
reader can keep in mind; what is left is smaller, or of another kind:

- **Reports and read paths**: profit ledger and analytics, kitchen sheets, the customer and rider
  views of staff, wallet web views and invoices.  They read committed rows and decide nothing.
- **Logistics, delivery zones, legacy orders**: counters and orderings that are recomputed from
  decided slots, or serve customers of a former scheme.
- **Pricing**: slot pricing and cycle calculations are decimal arithmetic inside one call.
- **Sign-up, codes, sessions, notifications, support chat**: apart from attribution, they share no
  row with what is modelled; sessions belong to the framework and push messages to a
  service outside the repository.
- **Service areas and search**: geometry and text ranking, where small integers say nothing.
- **Catalogue content and settings**: rows edited one by one.
- The **finalized liability** of a cancelled subscription and the withdraw reserve computed from it:
  Funding lets the reserve be anything, so nothing it shows depends on the computation.

Next, if the project grows: the liability on top of MealDelivery, with the stray slots of
finding 1 in it; closing a month row by row.
