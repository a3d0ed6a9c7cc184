# CalDART in TLA+

TLA+ models of CalDART's backend (`backend/`): the parts where steps of several
requests, jobs and providers interleave, checked with TLC on small instances, and
theorems about twenty of them, proved with TLAPS for every value of the constants.

## The system

CalDART is a Django application over PostgreSQL (READ COMMITTED, no request-wide
transactions), with web workers, jobs started by systemd timers or from a page, card
providers reached over the network, and a mail server.

| Part | State | Operations | What is hard | What makes it correct |
|---|---|---|---|---|
| Renewal charge (`payments/renewals/charge.py`) | attempts, payments, claims, doubt | claim, create, send, look up, settle, retry, treasurer's settlement | lost answers, dead scans, stale copies | a charge is taken once and recorded as what happened |
| Renewal scan (`scan.py`, `schedule.py`) | advisory lock, charge days, terms | notice, catch up, abandon, charge | the member and the office act between the scans | no term renewed twice, nobody lapses unseen |
| Mandates (`mandates.py`) | two mandates a member | set up, confirm, check out, cancel, switch | a confirm saves a whole stale copy | a saved method belongs to the provider named |
| Payments (`services.py`, `providers/`) | payment, fee, receipt | start, confirm, webhook, record by hand | answers and webhooks in any order, twice, or lost | received once, and only when the money is there |
| Refunds (`refunds.py`) | refund rows, payment status | issue, record a dashboard refund | a call between two transactions | no more asked back than was taken |
| The books (`reports.py`, `reconciliation.py`, `statements.py`) | none of their own | totals, lists, statements | each screen has its own queries | they add up to the money that moved |
| Members (`members/`) | account, terms | buy, grant, correct, expire, suspend | three computations of one standing | they agree |
| Reminders (`reminders/`) | sent reminders | scan | two scans, a lost answer | one reminder per stage and term |
| Sign-in (`accounts/`) | account, device, codes, counters, sessions | sign in, enroll, reset, lock out | requests of several transactions | a session knows the password; guesses are bounded |
| Email addresses (`accounts/email_change.py`) | addresses, pending and recoverable, links | register, verify, change, take back | a check in one transaction, a write in another | an address has one holder |
| Roles (`accounts/`) | roles, status | edits by administrators of one another | the asker's own row is not locked | roles nobody can give are not given |
| Jobs (`sysadmin/`, `payments/renewals/background.py`, `aircraft/registry.py`) | run rows, run records | start, finish, terminate, prune, restore | dead and slow processes | one at work; the records say how it ended |
| Backups (`sysadmin/services.py`, `jobs.py`) | dump files, run records | dump, prune, restore, reset, list | a dump that stops in the middle | a whole dump stands behind a run that reads ok |
| Mailings (`reports/`, `payments/statements.py`) | subscriptions, statement rows | claim, send, edit | overlapping runs, lost answers | one copy each time it was due |
| Bulk email (`bulk_email/`) | email, rows, log, counts, callout answers | compose, send, recover, stop, retry, remind | a run dies between sending and saving | nobody gets a round twice; counts agree |
| Callout screens (`bulk_email/callouts.py`, `archive.py`) | none of their own | list, page, answers file, answer page, audit lines | each has its own queries, over rounds and changing accounts | they agree |
| Audience (`bulk_email/batch.py`, `groups.py`) | lists, groups, preferences | freeze, check, send | the reader moves between freeze and send | a DART's email stays in the DART |
| Bounces (`mail/bounces.py`) | email log, marks | deliver a report, mark | addresses change hands, restores reuse ids | a mark is about a message of ours to that address |
| Notifications (`notifications/`) | subscriptions | emit, dispatch | roles and addresses change meanwhile | to those entitled, once |
| Mail DNS and link checks (`mail/dns_check.py`, `bulk_email/links.py`) | the zone's answers; links | check | lookups that fail, run out or change | a pass means what it says |
| Verification (`members/verification.py`, `aircraft/verification.py`) | stamps | stamp, edit | the office saves a whole stale copy | a stamp stands for the stored values |
| Aircraft (`aircraft/`) | types, aliases, aircraft | add, edit, import | edits beside the import's transaction | the register stands, nobody's aircraft is renamed |
| CMS, DARTs, seed data, frontend, deployment | ordinary rows | single-row edits | little a test does not reach | not modelled |

The scan calls the charge step for each attempt that is due; the charge step calls the
provider and `mark_succeeded` / `mark_failed`; webhooks call the same two at any time; a
settled payment buys a term and activates a mandate; the standing a term gives decides
who is reminded, who is on a bulk email's list and who gets a notice.

## Modules

Each module models one part; its header says which files, what is one step, and what is
left out. `PROJECT.json` maps every definition to its lines.

- **RenewalCharge**: one mandate, its attempts and payments, any number of scan
  processes, the network and the provider. `att[a]`, `pay[p]` and `mandate` are the
  rows; `scan[s]` is a scan's program counter and its *copies* of the rows it read;
  `prov[p]` is what the provider holds under the payment's key, `net[p]` the request or
  answer on the wire. Each statement or transaction followed by a call to the provider
  is one action. Time is what the code compares: a claim is fresh, `Dead` or `Stale`; a
  payment was sent `recent` or `old`; a key is `kept`, `aged` or `forgotten`.
- **RenewalCalendar**: the days of one member's renewal. A scan and a request are one
  step each; what happens inside a charge is RenewalCharge's.
- **Mandates**: a member's two mandates, with setups, confirms and checkouts.
- **Checkout**, which implements **Purchase**, the abstract promise of one payment.
- **Refunds**: one payment and the refunds of it: `refund[r]` are the rows
  `issue_refund` writes, `filed[i]` what `record_dashboard_refund` wrote for the
  provider's refund `i`, `given[i]` what the provider gave back. The second transaction
  of `issue_refund` is two actions, because it sums without a lock.
- **Books**, **Membership**, **Reminders** (which extends Membership).
- **BulkEmail**: one email of either kind, its rows, log and counts, the runs of the
  sender with their program counters, and the answers of a callout. **Audience**: who
  may be on it.
- **Callouts**: the screens of a callout already claimed, one copy a step. **Audience**
  and **BulkEmail** are about who gets it and how it is sent.
- **Captures**: what the portal does with what the providers say of payments: orders
  captured, intents confirmed, notices repeated, by workers that read and later write.
- **Backups**: dumps as files, the nightly command, the page's button, pruning, restoring
  and resetting, and what the jobs page makes of the records.
- **Jobs**: the rows that keep two scans, or two loads of the registry, from working at
  once, the records of the runs, and a restore of both under the processes at work.
- **SignIn**, **EmailChange**, **Roles**, **Mailings**, **Verification**, **Bounces**,
  **Notifications**, **MailDns**, **LinkCheck**, **Aircraft**.
- **RenewalChargeProofs**, **RefundsProofs**, **BulkEmailProofs**, **JobsProofs**,
  **PaymentsProofs** (Checkout, RenewalCalendar, Captures), **RecordsProofs** (Mandates,
  Verification, Membership, Reminders, Aircraft), **AccountsProofs** (SignIn, Roles, EmailChange),
  **MailProofs** (Audience, Bounces, LinkCheck, Mailings, Notifications): the theorems.
  Each extends the modules it is about.
- **MCRenewalCharge**, **MCRefunds**, **MCBulkEmail**: symmetry sets and the address
  books of an instance.
- **MCOffice**, **MCPortal**, **MCMembers**: models that have no state in common, checked
  in one run. A behaviour is one of the part that `focus` names. The parts with theorems
  are extended and keep their variables, which stay initial in the others' behaviours: in
  MCOffice Refunds and Jobs; in MCPortal EmailChange, Verification, Mandates, SignIn,
  Roles, Mailings, Notifications, Audience, LinkCheck, Membership, Reminders and Aircraft;
  in MCMembers Checkout, RenewalCalendar, Captures and Bounces. Books, Callouts, MailDns
  and Backups are instantiated by MCMembers over variables `v1`, ..., and a property of
  such a part speaks of the behaviours with its focus.

Definitions that begin with `Mut`, and those marked *Mutant*, are deliberate errors,
used by no specification: put in place of the definition they follow, each breaks a
property, which shows that the property depends on that piece of the code.

## What the runs show

Passing:

| Run | Question | Properties |
|---|---|---|
| `RenewalChargePayPal` | PayPal, with late requests, keys that expire, captures, doubt and the treasurer's answers | `ChargedOnce`, `SucceededMeansTaken`, `ClosedStaysClosed` |
| `RenewalChargeStripe` | Stripe, the timer and *Run now* side by side, either of which may die, a payment thrown away and written afresh; a charge taken is in the end recorded | `OneChargePerAttempt`, `MoneyHasPayment`, `TakenIsRecorded` |
| `RenewalChargeLadder` | declines, retries, pauses, cancellations and new setups | `ActiveHasRetries`, `DeclinedMeansUntaken` |
| `Office` | refunds at once, lost answers, dashboard refunds, notifications at any time; background jobs that overlap, outlive their limit, die, are polled, pruned and restored: what their rows and records say of how each run ended | `OwnWithinPayment`, `SucceededMeansGiven`, `GivenIsFiled`, `RunsAccounted` |
| `BulkEmail` | an email or callout to two people who may share an address, under crashes, stops, bounces and edits anywhere | `NoSecondCopy`, `SettledEmail`, `ConfirmedBatch`, `OneLateCopy`, `WhatWentStaysGone`, `SendEnds` |
| `Portal` | twelve parts, one at a time (below) | fifteen |
| `Members` | eight parts, one at a time (below) | seven |

In `Portal`: sign-in (`SessionKnowsPassword`, `GuessesBounded`, `SpentStaysSpent`), email
addresses (`AddressStaysOwned`, `OlderLinksDoNothing`), roles (`RolesGuarded`), mailings
(`MailedOnce`), verification (`VerifiedAsStored`), mandates (`MethodOfProvider`),
notifications (`NoticeToEntitled`), the audience of a bulk email (`KeepsToItsDart`), the
link check (`SilentMeansLoaded`), membership terms (`SameAnswer`), reminders
(`RemindedOnce`) and the aircraft register (`RegisterStands`).

In `Members`: payments (`MoneyIsAnnounced`, and `ImplementsPurchase`: Checkout implements
Purchase), what the providers' words are filed under (`StandsOnItsOrder`), the days of a
renewal (`OneRenewalPerTerm`), bounces (`BounceIsOurs`), the mail DNS check
(`PassMeansTrusted`), and `ScreensAgree`, which says of the books, of a callout's screens
and of the list of backups that each screen shows what happened and agrees with the
others.

Each property's comment, in its module, says what it rules out and in which code.

Runs that end in a violation show where the code does not do what its own text says:

| Run | What happens |
|---|---|
| `RenewalChargePayPalLost` | a scan dies after it sent a PayPal charge and before the order's id is stored, and PayPal takes the money; a later scan reads the attempt and takes the dead claim over once it is stale; meanwhile the member renews by hand (or cancels); without an id and within the keys' retention `find_mandate_charge` answers that there is no charge, and `_resume` deletes the payment, as nothing more is to be charged. A lost answer alone is not enough: a scan that lives holds such a charge in doubt |
| `RefundsFiledTwice` | the provider's notification overtakes the portal's own record, and one refund is on file twice |
| `BulkEmailCounts` | a bounce report commits between the recount at the end of a send and its save, and is overwritten: the counts say sent, the row bounced |
| `RenewalCalendarSilent` | a second setup makes the mandate pending just before the charge, which is skipped; the term lapses, the method is confirmed, and no scan ever charges, because the lapsed term already has an attempt, while reminders are withheld. The same happens after the ladder paused the mandate and *Turn on again* |
| `Backups` | the disk fills in the middle of a dump, or systemd ends it at its timeout: the half-written file stays, though `services.py:283` says it never does and `backup-restore.rst:90-91` that a backup that fails part way deletes it. Leaving `gzip.open`'s block closed it well, so a restore's read to the end finds nothing wrong and drops the database for it |

Five more configurations are kept beside the runs that `PROJECT.json` lists. Each checks
one statement that is stronger than the property the passing run keeps, and TLC ends it in
a counterexample: it is where that property has to stop (`tlc -config OfficePolled.cfg
MCOffice`, and so on).

| Configuration | Module, property | What happens |
|---|---|---|
| `OfficePolled` | `MCOffice`, `FinishedStays` | the page's poll reads the row of a scan that has outlived its limit; the scan finishes and saves its result; `close_if_stale` saves its own copy over it, and the page says *Did not finish.* of a scan that did. `background.py:130` says a finished scan is returned unchanged |
| `EmailChangeLate` | `EmailChange`, `LateChangeHasNoLink` | the form for a change of address is checked, the password is replaced (which drops pending changes), the change is written as pending all the same, and *Send again* mails it a link signed with the new password, which completes it |
| `AudienceTwoReads` | `Audience`, `FrozenAgainstItsDart` | `_claim` records the sender's DART and `batch_rows` reads it again, unlocked: a sender who moves in between has the email of one DART frozen for the people of another, and the leaders of the first may read it |
| `AudienceTypeCached` | `Audience`, `OptOutsHonored` | the type a send asks whether people may turn it off is the one loaded with the claim: allowed again since, it still overrides the opt-outs, which `_skip_if_unsendable` says are read afresh for every copy |
| `MailDnsUnlisted` | `MCMembers`, `PassCanBeEvaluated` | a list that includes a domain without a list before the server's own entry passes the check, which takes the include for no match; RFC 7208 makes that a permanent error, and `dns_check.py:30-31` claims its order |

`ChargedOnce` and `OneChargePerAttempt` are different claims. The first is about one
payment and holds for both providers. The second is about all the payments one attempt
ever had; it holds for Stripe and fails for PayPal by way of `RenewalChargePayPalLost`.

`LateRequests` says whether a request a dead scan sent may still be on its way when the
next scan starts. It is on for PayPal and off for Stripe: a scan that asks Stripe about a
request still in transit would be told there is no charge. The code makes that remote:
a Stripe call is given up after 20 seconds and one retry (`STRIPE_TIMEOUT_SECONDS`,
`STRIPE_MAX_NETWORK_RETRIES`), and a claim is taken over only after
`RENEWAL_STALE_MINUTES`, 15 at least. The theorems say which of them need it.

## Bounds, and why they are enough

Each bound is a CONSTANT of its module, given in the `.cfg`; what is not bounded happens
any number of times.

- Renewal charge: 1 or 2 scans, 1 attempt and 2 payments (or 2 and 2), 1 or 2 crashes, a
  ladder of 1 retry. Two payments of one attempt are what a double charge by way of a
  discarded payment takes; two attempts and one retry reach both a retry and a pause. The
  Stripe run has the timer's scan and *Run now*, 1 crash, and no symmetry, as a liveness
  property needs.
- Refunds: an amount of 3, 2 requests, 3 refunds at the provider: refunds that fit alone
  and not together, and one from the dashboard beside them.
- Bulk email: 2 people with the same or different addresses, 2 runs of the sender, 1
  reminder round, 2 incidents
  (refusals, errors, crashes, runs out of time, stops, bounces, changes of people), 1 retry of
  a refused hand-over. In
  `BulkEmailCounts` no reminders, which the race does not need.
- Sign-in: 1 browser beside the owner's, 2 requests at once, limits of 1 password failure
  and 1 wrong code with windows of 1 and 2 ticks, 3 pending tries, 1 backup code, 3
  visits, 1 act of the office.
- Email addresses: 3 accounts, 3 addresses, windows and links of 2 days, 2 forms, 2
  passwords, 2 side steps: enough for an address to be asked for by one account, given
  up by another and wanted back by a third.
- Roles: 3 people, 2 requests at once, 2 asked. Jobs: 2 processes, 2 rows, limits of 1
  tick and 3 ticks, so that a row outlives its limit while its run goes on. Mailings: 2 runs, 2 recipients, weeks of 2 days, months of 3, 4 days.
- Verification: 1 office form, 2 values, 3 writes. Mandates: 2 tabs, 2 setups, 3
  requests, both providers. Bounces: 1 account, 2 addresses, 2 messages, 1 reader.
- Notifications: 2 of staff, 3 mailboxes, 2 subscriptions, 2 events, 3 changes. Audience:
  2 readers, 2 DARTs, 3 changes, 4 in `AudienceTypeCached`.
- Mail DNS: 2 lookups allowed, caches of 1 tick, 1 edit of the zone. Links: 2 links, 1
  redirect, 1 worker at the gate. Aircraft: 1 FAA type, 2 hand-added ones, 2 names, 1
  registration, 1 owner, 3 callers and the import, 4 calls.
- Members: 3 terms, 4 days, 3 acts, durations of 1 and 2 days and for life. Reminders: 2
  scans, 1 lost answer, and 8 days, so that the stage for lapsed terms comes; 1 act.
- Payments: 2, every provider. Calendar: 3 days, terms of 2 days, notice and catching up
  of 1, 1 retry, 3 terms, 4 acts; `RenewalCalendarSilent` has terms of 3 days and 5 days,
  since a term must run out with an attempt in it. Captures: 1 payment of ours, 1 order of
  somebody else's, 2 workers, 1 refund or question about a fee: a notice that is read
  before another worker writes.
- Books: 2 payments, 2 givers, 1 refund, and a day, a month and a year of the same length,
  so that a report of one period and of the next are told apart by one step of the clock.
- Callouts: 2 accounts, 2 rounds of reminders, 3 turns, 1 kind of answer. Backups: 2
  dumps and a file made by hand, a day of 2 instants, 2 days, grace and stale limits of 1
  instant, dumps kept for 1 day.

`RenewalChargePayPal` explores 7.7 million distinct states, `RenewalChargeLadder` 3.2,
`Members` 2.8, `Office` 2.0, `Portal` 1.1, `BulkEmail` eight hundred thousand and
`RenewalChargeStripe` six hundred thousand, each in under three minutes on two workers. Runs do not look for deadlock: bounded
rows run out, and a finished payment, email or scan has nothing left to do.

## Fairness

`RenewalCharge!FairSpec`: some scan keeps starting, and one that runs steps on (`WF` on the
starts together and on each scan's other steps: the systemd timer starts one every day,
`Persistent=true` makes up for a missed one, `TimeoutStartSec` ends one that hangs; nobody
need ever press *Run now*); an attempt that stays due is read by some scan, and a provider
asked again and again about a charge it holds answers some scan in the end (`SF` on `Read`
and `Found`, over the scans together); dead claims age. Nothing is assumed of the member,
the treasurer, the webhook or the network.

`MCOffice!OfficeSpec`, with the fairness of `Refunds!FairSpec`: a provider delivers each notification once, as both repeat one until
it is answered. CalDART answers 200 even to one it makes nothing of, so a refund notified
before its payment has settled is dropped, as `record_dashboard_refund` says, and
`GivenIsFiled` does not promise it.

`BulkEmail!Fairness`: the timer's runs start and step on, a *Run now* that began goes on
(it need not begin), and the start time of a queued email arrives. Crashes are bounded
by `MaxIncidents`: a send whose every run dies would never end, and the code does not
claim that it does.

## What is proved

The theorems hold for every value of the constants that the named `ASSUME`s of the
modules allow; a theorem that needs more says so in its own `ASSUME`. Each rests on an
inductive invariant, stated as a conjunction of named parts before its proof. A lemma for
each action, or group of actions, shows what a step keeps, and the temporal step at the
end combines them.

**RenewalChargeProofs**, from `IndInv` and `OutcomeInv`.
- `TypeCorrect`, and `LadderNeverOverspent`: an active mandate has retries left. A scan
  writes back its copy of the row, so `ScanInv` carries the bound for the copy too.
- `NeverChargedTwice`: no payment is taken twice. The money taken is that of the one
  charge under the payment's key (`MoneyInv`); the provider has never heard of a payment
  that is not written (`Unheard`, `AttBorn`, `ScanBorn`), and Stripe is not asked under a
  key it forgot (`KeySent`, `KeyTake`).
- `SuccessIsPaid`, `ClosedAttemptsStayClosed`: an attempt recorded as succeeded carries a
  paid payment the provider took, and a closed attempt is not opened again. `OutcomeInv`
  relates a scan's copies to the rows they came from: a scan at work holds the advisory
  lock (`Alone`), an attempt's state agrees with its payment (`AttFine`, `PayFine`), a
  live payment is carried by its own attempt (`Own`), and what a scan read is still true
  as far as its step needs (`Grasp`).
- `AttemptsChargedOnce`, `TakenMoneyHasPayment`: one attempt takes money once however
  many payments it had, and money taken has a payment that was not thrown away. They
  assume `Provider = "stripe"` and `~LateRequests` (`Quiet` is what follows: before a
  scan sends, nothing is on the wire); for PayPal they are false, as
  `RenewalChargePayPalLost` shows.
- `DeclinedMoneyUntaken`: with Stripe, an attempt recorded as failed took nothing. It
  assumes `~LateRequests`. It is not said of PayPal: there a lookup or a capture that is
  refused is a decline (`renewal_refusal`), whatever PayPal did with the order before.

**RefundsProofs.** `RefundsNeedMoney`; `SucceededRefundsWereGiven`, from the answer a
request holds being one the provider gave (`Backed`) and no two rows holding one id
(`Apart`); and `RefundsWithinPayment`: what is pending and what succeeded, of CalDART's
own refunds, never sum to more than the payment. That last one sums over a set of rows, so
lemmas before it show that the recursive function of `MapThenSumSet` exists, that a
member can be taken out of the sum, and that the sum grows with the set, by way of a
smallest counterexample.

**PaymentsProofs.** About Checkout, `CheckoutImplementsPurchase`: initial states map to
initial states of Purchase, and every action to a step of it or to none.

`TakenMoneyIsAnnounced`: money taken for a payment not marked as received still has a
success notice on its way. `IInv` says that a payment not made has nothing at the provider
(`Unmade`), received means the money is there and bought means received (`Paid`), a locked
row is pending (`Locked`), a notice is true (`Noticed`), and a receipt to be sent has not
been (`Unsent`).

About RenewalCalendar, `NoTermRenewedTwice`: at most one attempt waits, none for a term
already charged for, and no term was charged for twice (`AttemptsOk`).

About Captures, `MoneyStandsOnItsOrder`: a payment's money, refund and fee are those of the
provider's order made for it, though orders of others on the same account may carry its
number. `CapturesInv` says what an order can be (`OrdersSound`), that a payment refers to an
order that names it and keeps nothing of another (`RowsSound`), that what a worker has read
is still so when it writes (`HandsSound`), that one worker holds a payment's lock
(`OneHolder`), and that a refund was asked of the order its payment stands on
(`GivenSound`).

**RecordsProofs.** `SavedMethodIsOwn`: a saved method is of the provider the mandate names;
the copy an open confirm holds must be such a row too (`FormsHoldRows`).

`StampsStandForStoredValues`: likewise for the copy an office form holds
(`CopiesTruthful`).

`StandingsAgree`: the account's page, the members' list with its sort key and the list's
filters say the same of an account, for any plans and any number of terms. The page walks
the chain of terms that follow one another from today, the list takes the least end that no
active term follows, and the proof is that the walk ends there, by induction on the days
(the least day where it would not). `MembersInv` carries what a term can be.

`CopiesAreSentOnce`: a member has a reminder of a stage for a term once, but for copies
whose acceptance no scan heard of, whatever scans run at once or die: of two scans one files
the row, and every copy sent under it before is such a lost one (`FiledFirst`); where no row
stands, every copy is (`UnfiledLost`). `StagesLeaveNoGap`: under any schedule an
administrator can save, a term is of one stage at most on a day, and of exactly one from
the first stage's day to the sixth after its end. `RemindersAreSentOnce` is both together.
`RegisterAlwaysStands`: every aircraft, registration and alias names a listed type, and an
import renames nobody's aircraft. An aircraft the import moves is locked and waits under its
hand-added type, the type it moves to has that type's name when the import commits, and an
aircraft of a type the import deletes is one it moves, since the foreign key protects the
type from the others (`FoldSound`). That some twin is the first by code is by induction on the
numbers below it.

**AccountsProofs.** `RolesStayGuarded`: a guarded role that nobody is left to give is not
given, and what is written to an account was checked against the roles it has then. Where a
role is lost, so is the system administrator's, and no request in the air was let in as one
(`GoneStaysGone`); the superuser flag is the role (`FlagsFollowRoles`).

`SessionsKnowThePassword`, `GuessingIsBounded`, `CodesAreSpentOnce`: a session that is in
has known the password of its time; the codes found wrong in one window stay within the
limit and the requests already past the check; a step of the authenticator is accepted
once, and a blocked account stays closed. Every session and every request in the air is
sound (`SessionsInv`), no step above the last one used was accepted (`AccountInv`), and no
more wrong codes were found than were counted or are in the air (`CountInv`).

`AddressesStayOwned`, `OlderLinksNeverComplete` (a link made, or asked for by a form opened,
before the password was replaced completes nothing; of the link a later *Send again* makes it
says nothing, see `EmailChangeLate`). `EmailInv` has eight parts: rows,
links, notices, mail and the open form are well formed (`Rows`, `LinksDated`,
`NoticesNamed`, `MailNamed`, `FormDated`); an address has one holder (`OneHolder`); the
address an open form is about to write is set aside for no other account (`Reserved`); and
while an address can be taken back, an undo link for it lasts (`Linked`).

**MailProofs.** `EmailKeepsToItsDart`: a copy is checked as one its sender may send then, to
nobody who has turned off a type that could be turned off from the claim on; and an email
other leaders may read was frozen for people of its DART, unless the sender changed between
the two readings of its first start (`AudienceTwoReads` and `AudienceTypeCached` are what
these conditions leave out). The type a run has loaded could be turned off as long as the
claim says, and the row's DART cannot change once its recipients are frozen
(`FrozenWithin`).

`BouncesAreOurs`: an account is marked only on a report of a message CalDART sent to the
address it has now. The parts of `BounceInv` are that a report is of a message taken
(`ReportsOfTaken`), a log row of a letter (`RowsOfLetters`), a bounced row of a report
(`RowsBounced`), and that a mark stands on such a row (`FlagsStand`).

`SilentLinksLoaded`: of a link outside about which the check says nothing, a server
answered the last request, sent to an address that had been judged public (`Pinned`,
`TasksSound`), and every other one has its warning (`Told`).

`OneCopyADate`: nobody gets two scheduled copies for one due date, month or year, but for
the dates in `again`. One run at a time holds a claim (`OneClaim`), on an item that is
still due at the date claimed (`ClaimOfDue`), and copies are counted against what is left
of it (`CopiesAccounted`).

`NoticesGoToEntitled`: a notice goes to those who may have it as the recipients are read,
and once to an address. `refresh_recipient` leaves a row that belongs to the account that
has its address, or is nobody's address; `subscribed_recipients` saves the rows one after
the other, and that all of them stay rows is by induction on the least save that breaks
one.

**JobsProofs.** `RunsAreAccounted`: two scans or two loads of the registry never work at
once unless one has outlived its limit; a row tells how its run ended or, past the limit, that it
did not finish, and of a run that had ended it says so only where a poll held the row as the
run ended or a backup brought it back (`NoneOverwritten`: each row that says so, or that a
poll holds, has such an excuse); and a record says running only of a run at work or killed, succeeded only of
one that ended without a problem, failed only of one with a problem, killed, or running in
the backup restored. `ToldBy` says the same of the rows in a backup, since a restore puts
them back under whoever is at work, and `OwnRow` and `OnlyRow` tie each process to its row;
what a poll is about to close is old and stays old (`PolledOld`, `ClosedOld`).

**BulkEmailProofs.** Five theorems from `BulkInv`: `OneCopyPerAddress`, `EmailsSettle`,
`BatchAsConfirmed`, `LateCopyIsOne` and `GoneCopiesStayGone`. A worker that is not idle
holds the lock, so the rows it has in its hands are still as it read them (`Working`,
`Holding`); an entry of the log that shows a copy gone is its row's last (`LogInv`); rows
of a round that went or will go have different addresses (`Apart`); a pending row whose
copy went is left only while the email is being sent, and the run that recovers has it on
its list (`NothingLeft`); the counts of an email that is not being sent agree with its
rows, but for bounces reported since (`CountsKept`); and the late copy was in the
sender's hands as the callout closed (`OnTime`). That `recheck_rows` gives every row a
state, whatever their number, is by induction on the least set of rows without one.

What is assumed of the constants is what the code's own settings give: limits, lengths of
weeks and months and retention are numbers, and positive where the code divides by them or
needs one (`SignInBounds`, `CalendarLengths`, `JobLimits`, `LinkBounds`); primary keys are
never 0, which stands for NULL (`DartIds`, `BillNumbers`, `NoticeRows`, `RegisterKeys`); rows and requests
are finitely many (`LettersFinite`, `NoticeRows`, and the assumptions of BulkEmail, Refunds
and EmailChange); first staffings hold roles that exist (`StaffingRoles`). The values
Membership and Reminders need (`MembershipValues`, `ReminderValues`) are hypotheses of
their theorems, since two instances of them are checked in one run; MCPortal's
`RecordsValues` has TLC evaluate them.

## What is only model-checked

- Liveness (`SendEnds`, `GivenIsFiled`, `TakenIsRecorded`): the prover does not reason
  about fairness and `ENABLED`.
- `PassMeansTrusted`: the check walks lists that include and redirect to others, by
  recursion over the zone's data. It is compared with `Receiver`, a second evaluation of the
  lists in one step written from RFC 7208 and not from the code, with its permanent errors
  (a missing list, a malformed one, too many lookups) and its verdicts, and with
  `TurnedAway`, the DMARC policy in force.
- `ScreensAgree` compares sums and lists over a history with a second computation of them;
  such a fact about every history takes induction over data.

## Simplifications

What the modules leave out or make smaller, beyond formatting and wording:

- A call of a service is one step, except where a call to a provider or a mail server,
  a second transaction, or a stale copy divides it. Reads and writes of one transaction
  with its rows locked are one step.
- RenewalCharge: one mandate; pricing and donations are not modelled. RenewalCalendar: a
  scan and a request are one step each; emails, donations and their cadences and
  card-expiry warnings are left out.
- Mandates: a mandate may be activated by another checkout's payment (`ActivatedBy`).
  Confirm's full save of a stale row can revive a canceled mandate or undo
  `take_contribution_off`, and becoming a friend deletes a pending mandate with a charge
  unsettled; the model has these steps, and no property forbids them.
- Membership: `SameAnswer` does not compare plan names. Two payments settling at once may
  give terms that overlap (`members/services.py`, `activate_term`): a settlement is one step
  of the model.
- Checkout: a PayPal notice that does not name its order is answered and dropped, and so
  the money it tells of is told by nobody (`intent` is `untold`), of which
  `MoneyIsAnnounced` says nothing.
- Refunds: one payment. Captures: refunds the providers report are in Refunds; vaults and
  wallets are left out, an order of somebody else's is already paid, and at Stripe names
  no payment of ours. Books: marks of reconciliation are left out.
- SignIn: `SessionKnowsPassword` leaves out the sessions that reopened an account.
  EmailChange: one form open at a time; the notices are accepted by the mail server.
- Roles: donors and tombstones are left out; `delete_member` checks before it locks,
  and so is not among the actions of `CheckedAsWritten`.
- Jobs: a restore happens on a stopped site; the registry's data is the day of its
  file. Backups: an instant is both the second that names a file and a fraction of a day;
  the slack of the clock is less than one; a download of a dump under way is left out, and
  two dumps begun in one second share a file, of which `ScreensAgree` says nothing.
  Callouts: addresses shared, opt-outs and the answers' throttle are left out.
  Reminders: a scan sees midnight once at most. Mailings: refreshing a recipient's address is left out.
- Verification: a medical is handled as a certificate is; a stamp may land on a value
  that changed since the panel was opened.
- Notifications: entitlement is judged when the recipients are read, and the rows are
  saved in one step with that. Audience: a copy
  goes out one step after its check; a DART stands for every filter by member list; a
  system administrator's flag, which a run reads once with its sender, is left out.
- Mail DNS: the zone does not change within a check, the From address has a domain, and
  SPF's policy is judged on the domain's own list. `exists` is not evaluated, by the check
  or, as its answer is unknown, by `Receiver`; what an include or redirect of a domain
  without one list makes of a pass is left to `MailDnsUnlisted`. Link checks: the web answers as it likes; an own address is not
  recognized when its lookup runs out of time.
- Aircraft: a row's history is its last writer; two requests may add one custom name,
  as the docstring accepts; search and coverage are left out.

Not modelled: texts, PDF, CSV and pages; pricing; the details of the providers' APIs; the
CMS, DARTs and seed data; the React client; deployment.

## What is left

Proofs of what does not recurse in MailDns, Books, Callouts and Backups; donations of a cadence; card-expiry warnings; the settlement of two payments of
one member at once, which takes the reads of `activate_term` apart from its writes.
