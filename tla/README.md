# Gigza backend: TLA+ models, checks and proofs

Gigza is a marketplace: a customer books a provider's service, pays online or in
cash, the money is held until the customer lets the provider scan a completion
QR, then it moves to the provider's wallet, from which it is withdrawn to a bank.
The backend is one NestJS process over PostgreSQL (Prisma) and Redis; the money
comes and goes through Stripe, PayFast, Paystack and Flutterwave. This directory
models its services at the grain at which mistakes are made: the single `await`.
Paths below are relative to `src/src/modules/`.

## 1. Inventory

| component | state it keeps | operations | talks to | hard because | correct means |
|---|---|---|---|---|---|
| payments | Payment, PaymentCheckout rows | checkout at four gateways, cart checkout, return redirects, webhooks, ITN, verify poll, failure reports, refund, manual confirmation, payout release | gateways, bookings, wallet | callbacks repeat, come late and overlap; several pages stay payable; check-then-write without transactions | paid means captured; refunds and payouts exclude each other; one credit per payment |
| bookings | Booking, BookingCompletionToken | create, updateStatus, issue and scan QR, activate, sweep, reminders | payments, providers, messages | status checked, then written by id | a job starts, finishes and pays only with money behind it; closed stays closed |
| wallet | Wallet, WalletTransaction, WithdrawalRequest | credit, withdraw, Flutterwave webhook | Flutterwave, admin | transfer ordered outside the transaction, answers lost, reports repeated | money conserved, never overdrawn, settled once |
| disputes | Dispute | create (writes the booking), resolve | bookings | writes DISPUTED over any status | disputes do not unlock money |
| admin | withdrawals, KYC codes, bans, settings | approve and reject withdrawals, approve KYC, ban | wallet, payments, providers | acts on rows whose status it did not check | approvals vouch for what they touch, and nothing else |
| provider verification (providers, didit, sumsub) | Provider.kycStatus, session, one-time codes, dedupe keys | start session, two vendors' webhooks, admin approval | Didit, Sumsub, Redis | verdicts repeat and come out of order; a dedupe key written first | only a verdict or an administrator approves |
| auth | rows of customers, providers, administrators; refresh tokens and codes in Redis | register, sign in (password, second factor, social with selection and exchange), refresh, log out, codes, resets, administrators' password change | Redis, e-mail, sms | get-then-delete on Redis; a password is written before what it invalidates is removed | a session follows the password; a code does what it is for once, for the reader it was sent to |
| redis service | keys, in Redis or in memory while it is away | get, set, delete, expire | auth, admin, system, reminders | two stores | what was deleted does not come back |
| access control | AdminUser, AdminRole | invite, reveal, first sign-in, reassign, disable, enable, roles | e-mail | no role reads as Super Admin; a role is counted, then deleted | nobody is raised by accident; an invitation can be taken up |
| system | AppConfig, snapshots, AdminSettings, cached flag | publish, restore, snapshot, prune, ask | Redis | five calls per publication; a cache filled from an older read | what is replaced can be restored; what is served settles on what was published |
| messages, websockets | Conversation, Message, unread counts | send, read | bookings | counts are raised and cleared apart from the messages | the inbox shows what there is |
| ratings | Rating, averages on User and Provider | rate, dispute | bookings | averages written back from a read | average and count are those of the ratings |
| support | SupportTicket, thread, ErrorLog, SystemAlert | open, update, reply, report an error, resolve | every failing request | a reply writes a status it read | resolvedAt and status agree |
| categories, services, portfolio | ServiceCategory, links, Service, PortfolioItem | suggest, settle, list, update, delete | providers | names are looked up, then inserted | one proposal per name; who lists a service is found under its category |
| reminders (bookings) | a key per booking | a sweep every ten minutes | Redis, notifications | sweeps may overlap or die | nobody is reminded twice |
| push, users | device tokens, preferences; account rows | save, remove, send; delete account | Expo, auth | preference and devices are read before the post | a push is welcome where it arrives |
| service requests, matching, uploads, health, email, sms, common, config | rows and output | single writes, queries, I/O | - | little | - |

A handler is an async function. Node runs one at a time but switches at every
`await`, and the deployment may run more than one process, so **the steps of
handlers interleave and what a handler read may be stale when it writes**. There
are no row locks; the few `$transaction` blocks run at READ COMMITTED. A process
may die at any `await` and nothing it wrote is undone.

## 2. Modules

| module | what it models |
|---|---|
| `Escrow` | a booking with its payment, completion code and credit: all of payments and bookings that writes a status, plus `DisputesService.create`, `AdminService.approveWithdrawal`, `WalletService.credit` as they meet a booking |
| `Custody` | the abstract promise: backed, then finished, then paid out |
| `EscrowInvariant` | the inductive invariants of `Escrow` and its mapping onto `Custody` |
| `EscrowOverlap` | `Escrow` with a history variable `reopened`: bookings that a late write took out of declined, cancelled or disputed |
| `EscrowProofs` | the proofs about `Escrow` for any overlap, and the refinement |
| `EscrowSerialProofs` | the proofs about work on returned money, payouts, refunds and closed bookings |
| `Wallet`, `WalletProofs` | one wallet: withdrawal, transfer, webhook, approval, rejection, credit |
| `Cart`, `CartProofs` | several bookings, carts and single Paystack payments over them |
| `Kyc`, `KycProofs` | Provider.kycStatus under session start, two vendors' webhooks, going live, and the administrator's mailed code |
| `Handlers` | what handlers have in common: slots for requests, their steps, death |
| `Redis` | the Redis service: two stores, the change between them, expiry |
| `Session`, `SessionProofs` | passwords, sessions and codes of customers, providers and administrators |
| `Staff` | administrators of the console, roles, invitations |
| `AppConfig` | published configuration, snapshots, the cached maintenance flag |
| `Chat`, `Ratings`, `Support` | the services of those names |
| `Catalogue` | categories, listings and the portfolio |
| `Reminders`, `Push` | the reminder sweep; device tokens and sending |
| `Platform` | `Staff` to `Push` side by side in one process |
| `ServiceProofs` | the proofs about `Staff`, `AppConfig`, `Chat`, `Ratings`, `Support`, `Catalogue`, `Reminders` and `Push` |
| `SumLemmas` | sums over finite sets, for the proofs that count money and ratings |
| `MCEscrow`, `MCWallet`, `MCCart`, `MCKyc`, `MCSession`, `MCPlatform` | constants for TLC |
| `MCEscrowSerial` | `Escrow` with a history variable `died`, for the run with one request at a time |
| `MCSettles` | instances of `Escrow`, `Wallet` and `Kyc` for the liveness run |

All share one pattern. `req[r]` is a handler in flight: the name of its next step,
what it is about, and what it remembers from earlier reads. `Arrive(r)` starts a
handler with its first read (a call, a callback, a cron job), `Proceed(r)` is the next
`await`, `Stop(r)` ends it: at a failed check (`Refused`), at a gateway that
refuses, and, when `Faults` is set, anywhere. `Rest` is the idle server stuttering, so
that TLC's deadlock check says "no handler is ever stuck". Money events the code
does not control (`Capture`, `GatewayMoves`) are actions of the environment, and
reports of them may arrive any number of times.

`Escrow` against the code. `st` is Booking.status (with NEW and DELETED), `kind` the
choice at creation (`payNow`: AWAITING_PAYMENT until paid; `later`; `cash`), `pay`,
`method`, `token`, `released` the Payment columns, `done` completedAt, `qr` the
completion token, `ledger` and `credits` the wallet's side (row exists; times the
balance was raised). `opened`, `secured`, `refunded` are the gateway's, and
`approved` remembers that an administrator's approval took the payment in. The
steps of each handler follow its awaits in order: completeByQr is ScanQr,
ReadScannedBooking, ClaimQr, CompleteBooking, then either SettleCashPayment and
MarkPaid or the payout ReadPaymentToRelease ... MarkReleased, MarkPaid.

`Wallet`: a withdrawal *is* its idempotency key, because the code builds the key from
provider, amount and day. Transactions are read steps and one step of writes with
the commit. `lost` (a request died or an answer was lost) and `ruled` (an administrator
decided about a withdrawal) record history for the properties. `Cart`: a transaction
is named by its cart or by its booking; `link` and `token` are the two columns by which
a payment points at one, and `died` records that a request died.

`Kyc`: `kyc`, `avail`, `reviewer` are columns of Provider, `otp` and `seen` keys in
Redis. `sessions`, `said` and `heard` belong to the vendors: what Didit and Sumsub
decided, to be reported in any order, any number of times. getKycAccessToken is
StartSession, CreateSession, WriteUnderReview; a Didit webhook is DiditWebhook (not
seen before), ClaimEvent (the key is set), ReadProvider, WriteDecision; Sumsub's has no
key and starts with the read. The administrator's two calls are RequestApproval and
StoreCode, then Confirm... according to the stored code, and the look, the write and the
delete as steps. `applied`, `guesses` and `asked` record history for the properties.

The younger modules take that pattern from `Handlers`: `Begin` starts a handler, `Goto`
and `Carry` take it to its next await, `Once` is a handler with a single one, `Die` is death.
A behaviour has chosen in `slots` which requests it uses, so that one run shows both
what holds with one request at a time (`OneByOne`; `Orderly`, if none has died either) and what
survives overlaps.

`Session` against the code. A row has its `row` status, which `password` its hash is of,
the second factor in force and what is `verified`. A code is stored under a key of `Redis` for
its account and purpose, and reaches its reader in `inbox`; clients show any letter that has
arrived, at any time and to any endpoint. resetPassword is ResetPassword (find the account,
compare the code), WritePassword, DeleteCode, DeleteSession; setAdminPasswordAfterOtp the
same with the grant instead of the code, and IssueTokens; deleteAccount is DeleteAccount, Scrub, DeleteSession. `authority`
and `uses` are history. `Restart` loses every request and the process memory at once.

`Platform` puts the parts that share nothing but requests and Redis into one state space; a
behaviour is about one of them (`part`), so the product costs a sum.

Abstractions, all of them towards more behaviour unless said otherwise:
- Amounts are absent from Escrow and Cart; an amount check is "the page was paid".
- Stripe sessions and intents, PayFast and Paystack share one action with the gateway
  as a parameter; which gateway captured is not remembered, so a refund may succeed
  at the gateway whenever money was captured. A gateway call and the token write after
  it are one step in Escrow, two in Cart.
- MOBILE_WALLET is not distinguished from CARD, PROCESSING is never written by the
  payment code and left out.
- Ages (two hours of the sweep, expiry of codes) are "at any time".
- A manual confirmation means the administrator has seen the money: it sets `secured`.
- approveWithdrawal's loop over pending payments is one request per payment.
- Who may call (owner, role, signature) and whether the provider is verified are checked
  before anything is written and are not modelled (narrower: only entitled callers).
- In Cart the payment rows exist from the start, a decline is one step (Escrow has its
  steps), and reading the bookings and inserting the checkout row is one step.
- In Kyc the dedupe key does not expire: it is kept longer than the age at which a
  webhook is refused. A mailed code is guessed right or wrong at will; one guessed for
  another provider changes nothing. Sumsub may report on any provider, since applicants
  from before the change to Didit exist; of its decisions only approvals are remembered. The reasons, notes and consent dates are absent.
  `applied` stops at 2 and `guesses` at one above the limit; neither is read by an action.
- `MaxCredits`, `Limit`: bounds for TLC. Escrow's `credits` is counted up to `MaxCredits`
  and no action reads it; beyond Wallet's `Limit` no further credit, report or decision
  arrives. The proofs hold for every value.
- In Session codes are taken as unique numbers: that six digits may repeat or be guessed is
  left out, and so are hashing, the second factor's number and the vendor's proof of a social
  identity. Consecutive reads are one step. A registration's phone code is the same as a
  resend; a customer's welcome mail, which is not awaited, goes out before the session
  starts. An exchange code carries a session and no selection. Audit rows, lastLoginAt and
  profile data are absent. A refresh token outlives the behaviour, other keys expire at will.
- Account deletion in Session starts after its check for open bookings and money.
- In Chat there is one pair; in Ratings scores are summed rather than averaged; in Support one
  message stands for each screen and endpoint; in Catalogue there is one provider, and names
  differ in case only or not at all.
- A reminder's key outlives the window and a sweep (six hours against twenty minutes).
- `MaxPassword`, `MaxMade`, `MaxMessages`, `MaxVersion`, `MaxSnapshots`: bounds in guards, with
  room left for the requests in flight.

## 3. Runs

Bounds: one booking is enough for Escrow, because no handler looks at another booking
(the exceptions, unique transaction ids, are nondeterministic refusals); two
requests give every pairwise overlap of steps; two keys with a small and a large amount
give the withdrawals that fit alone and not together; carts need two bookings to be
settled partly and two carts to move a booking. Kyc has two providers, so that a code
or a verdict can be for another one, and a limit of one wrong guess, enough to reach it and to go past it. Session has one account of each table, the
customer and the provider sharing an address; two codes and two passwords are what it
takes to use an old one after a new one. Platform has two of whatever must be told apart
(roles, scores, spellings, devices, accounts), and one snapshot kept, so that a second prunes it.

| run | question | result |
|---|---|---|
| escrow_serial | one request at a time, crashes: PayoutInOrder, NotRefundedAndPaidOut, ClosedStaysClosed; until one crashes or an administrator approves: CalmCreditedOnce, CalmSettledIsActivated, CalmPayoutIsComplete | hold |
| escrow_overlap | two overlapping, approvals; without crashes, so that the deadlock check shows that no handler is ever stuck (the proofs cover crashes too): no job is in progress on money that was never there or was returned, unless a late write reopened the booking (WorkIsBackedUnlessReopened); refinement of Custody (KeepsPromise) | hold |
| escrow_cash_credit | what a test says of cash jobs (CashIsNotCredited) | violated (section 6) |
| wallet_serial | one at a time, crashes and lost answers: Conserved, ReservedIsPending; until an administrator decides: Solvent, FinalStaysFinal, WithdrawnOnce; until something is lost: FailedIsUnpaid | hold |
| wallet_overdrawn | overlapping withdrawals: Solvent | violated |
| cart_serial | one at a time, crashes; carts that share no booking: UnmovedCartSettles; until one crashes, bookings paid through carts alone: DeclinedIsRefunded | hold |
| cart_overlap | two overlapping, fair handlers: SettledIsCharged, CartSettles | hold |
| cart_moved_booking | a comment on carts (PaidCartSettles) | violated |
| kyc_serial | one at a time, crashes, two providers, both vendors and an administrator: AppliedOnce, ApprovalIsEarned, GuessesAreBounded, RejectionHolds | hold |
| settles | two overlapping, fair handlers: a scan pays out (ScanPaysOut), a withdrawal is settled by one answered report, or was settled and reopened (WithdrawalSettles), a verdict reaches its provider (VerdictLands) | hold |
| session | one at a time: SessionsFollowPassword, DeletedStaysOut, UsedOnce for calm behaviours; EarnedByCode for those with crashes, restarts and a change of the store too | hold |
| platform | one at a time, crashes: NobodyIsRaised, InvitationsAgree, NoVersionIsLost, InboxAgrees, AggregateAgrees, ResolvedAgrees, OneProposalPerName, RemindedOnce, PushIsWelcome; two overlapping, crashes: ListedIsLinked, FlagSettles, and that no average counts more ratings than there are | hold |

Some properties hold only while nothing has died, no answer was lost or no administrator
has stepped in. They say so themselves (`~lost`, `~ruled`, `~died`, `Orderly`, `Steady`).
For Escrow, `MCEscrowSerial` adds `died`: every step is one of `Calm`, the same module with
Faults FALSE, or one that may also be a death, and the properties named `Calm...` speak
of the states before it. One run thus shows both what crashes cannot break and what holds
without them.

Every property of a passing run has a mutant in `PROJECT.json`: a slip in a mapped
definition (the operators named `..._Mutant`) under which the same run fails.

Why some properties are checked with one request only: two overlapping status updates
both pass the transition check, so ClosedStaysClosed and NotRefundedAndPaidOut fail as
soon as requests overlap, as does WorkIsBackedUnlessReopened without its exemption, and so do Solvent and WithdrawnOnce, and in the younger
modules SessionsFollowPassword (a refresh under way brings back the session that a reset
removed), UsedOnce, NobodyIsRaised (a role is given to somebody between its count and its
deletion), InboxAgrees and ResolvedAgrees. The serial runs then
show that the handlers are right one by one, crashes included; the overlapping runs
show what survives. Where the repository promises more than that, a violation run says so.

Type invariants are stated in every module (`...TypeOK`). The proofs establish those of Escrow,
Wallet, Cart and Kyc for all constants, and with their invariants those of Staff and Chat; TLC
has confirmed the others on the instances above.

Fairness. `WF` on `Proceed(r)`: the event loop resumes every handler whose await is
resolved, and every await here is a database or HTTP call with an answer or an error.
Nobody owes a request. For WithdrawalSettles, CartSettles and VerdictLands, the gateway
(or Didit) is also assumed to repeat its report until a handler takes it, and for the first
to decide every transfer (`SF`, because request slots may be taken again and again): the documented behaviour of webhooks, and
an assumption, not a fact of this code. For a withdrawal that ends with the answer: once a
handler that took the outcome in has ended, `answered` holds it and `TransferTaken` owes
nothing more; reports that come all the same are actions of `Wallet` without fairness. A row
that is settled and then overwritten with PROCESSING may so stay open for ever, which is why
WithdrawalSettles exempts what `reopened` remembers. In these runs nothing crashes. FlagSettles needs `WF` of
the configuration's handlers and of the cached flag's expiry, which its time to live ensures,
and holds in spite of crashes and a cache that fails.

## 4. Theorems

All are checked by TLAPS for every value of the constants: any number of bookings and of
requests, any set of operations, with or without crashes. Every safety invariant and every
action property of a passing run is stated by one.

**Overlap.** A theorem of the form `Spec => []P` holds for every overlap. The properties of the
serial runs are false for some overlaps (section 3), so their theorems say which: `Spec /\
[]Apart => []P`, where `Apart` forbids two requests in the places where they spoil each other
and nothing else. One request at a time, which the runs check, is the smallest case of it; the
theorems cover any number of requests, as long as no two of them work on the *same* booking,
withdrawal, code or provider at once. That is also what a row lock would have to ensure. In
`Session` and the modules of `Platform`, where a behaviour chooses its requests, the properties
speak of `OneByOne` or `Orderly` behaviours themselves and the theorems are about the whole
specification. Below, each group of theorems comes with its condition.

- `EscrowProofs`, any overlap. `IInv` strengthens the safety properties to an inductive
  invariant. It needs, for every step a request can be at, what the reads before it established
  and nobody can undo: a request about to write IN_PROGRESS is backed (cash stays cash,
  `secured` and `approved` never revert); one past the claim of a code is about a backed job;
  one in a payout has `done` or `approved` and backing behind it; one settling a payment is
  about secured money. The properties themselves are not inductive, since a write relies on a
  check that was made steps before. `Invariance` is proved action by action; `TypeCorrect`,
  `CompletionNeedsScan`, `PayoutNeedsCompletion`, `VisibilityNeedsPayment`
  follow, and `Refinement` maps every step to one of Custody or a stutter, using `IInv` for the
  guards of Finish and PayOut.
- `EscrowSerialProofs`. `WorkNeedsMoney`, any overlap: a job in progress is paid in cash,
  approved, or has captured money behind it that was not given back, as long as no late write
  has reopened the booking. `IInv` says that the money was there; `RefundInv` that what was or
  is about to be given back is in `Shut`, out of which only a reopening leads. With requests
  `Apart` there is no exception (`JobsAreBacked`, from `ApartInv`). `PayoutsInOrder` (credit, then row, then release) for any overlap: what
  a payout has done is not undone, so only its own place matters (`PayoutInv`). The others for
  requests that are `Apart`, at most one on each booking. `NoRefundAndPayout` and
  `ClosedIsFinal` rest on `ApartInv`: what a request has read of its booking still holds when
  it writes. `PayoutCreditsOnce`, `SettlementActivates` and `PayoutCompletes` rest on
  `CalmInv`: until something dies or an administrator approves, a booking half credited, half
  paid out or half settled is the one that a request is working on, at the step where that is
  so.
- `WalletProofs`, any overlap: `Conservation` (no money made or lost by any overlap of
  withdrawals, reports and administrators; credits must not overlap other requests, because
  `credit` writes back a balance it read: the assumption says exactly that) and
  `ReservationsMatch` (pending and reserved are the same money, until an administrator
  decides). `NeverOverdrawn` needs only that no two requests are between a look at the balance
  and the write it is for (`LooksApart`), and holds until an administrator decides. The rest
  for at most one request per withdrawal (`Apart`): `FailureIsNoPayment` and `SettledStays`,
  from `Honest` (what a request found in the row the row still says, what it takes the transfer
  for it is); `PaymentsCount` (a step counts as withdrawn exactly what it settles), and from it
  `WithdrawalsAddUp`: until an administrator decides, the total is at rest the sum over the
  settled withdrawals, whatever was lost; `ReservationsAddUp`,
  the same for what is pending and the open ones, which no run checks. There may be infinitely
  many keys: only finitely many are ever settled or open, which is part of the invariants.
- `CartProofs`. For any overlap, `NothingSettledUnpaid`: a booking reads as paid only if a
  captured transaction charged for it. The invariant ties a linked booking to its cart's basket
  and a settling request's bookings to its captured transaction. `RefundsOwnShare`. For
  requests that have no booking in common, neither the one in hand nor those still to be
  settled (`Apart`): `UnmovedCartsSettle`, where `StartInv` says that what a cart with a page
  holds is linked to it or was moved, and `SettleInv` that a request settling a cart has every
  linked and pending booking on its list; and `DeclinedAreRefunded`: a settled booking points
  at a paid cart whose reference is stored (`Sources`), so that its refund finds the money.
- `KycProofs`. For any overlap, `TypeCorrect`; `ApprovalsAreEarned` and `AvailabilityIsEarned`
  from the invariant `KInv`: a request that carries an approval has a verdict behind it, one
  that goes live somebody who stands for the provider, one that holds a code, and the stored
  code itself, a request of that administrator for that provider. All of it is about facts that
  stay (verdicts and requests are not taken back), which is why it survives every overlap;
  `Together` combines the request that moved with those that did not. `EventsAreAppliedOnce` if
  no two requests process the same event (`EventsApart`; the key is set after it was looked
  for), `GuessesStayBounded` if no two use the same administrator's code (`CodesApart`; wrong
  guesses are counted by reading and writing), `RejectionsHold` and `ApprovedStaysApproved` if
  no two work on the same provider (`ProvidersApart`; a verdict is compared with a status read
  before). Each leaves the requests of the other two free to overlap.
- `SessionProofs`. `CodesEarn`: passwords, second factors and verified addresses come from
  codes that reached the reader they were made for, with any overlap, crash, restart or change
  of the store. The invariant `Earning` follows a code: what either store holds under a key is
  a code made for that account and purpose (`Held`), every letter carries a code made for its
  reader (`Vouched`), and a request that is about to write has seen both (`Promise`). The list
  of codes and the letters only grow, which is why what one request has seen no other can
  spoil. `SessionsFollow` and `DeletedIsGone` come from `Following`: every session that the
  store answers with began under the row's password, unless the request at work is about to
  replace or remove it. `CodesAreUsedOnce` comes from `Spending`: a code that has been used is
  in neither store, unless the request that used it is about to delete it, and no code is under
  two keys. `DeletedIsGone` says nothing of the password: a reset code outlives the deletion
  (section 6). A refresh token and a second factor in force are what let an account in without
  a look at `isActive`, and a deleted one has neither. These three speak of
  behaviours in which nothing has died and the store has not changed.
- `ServiceProofs`. A handler relies at every step on what it read (`TicketPromise`,
  `PushPromise`, `StaffPromise`, `ReminderPromise`, `ChatPromise`: a ticket about to be taken
  up is open, a role about to go is nobody's, a booking about to be announced is marked); with
  one slot the others are idle and promise nothing, which `Alone` proves from the finiteness of
  `Requests` (`HandlersAssumption`); the other assumptions say that constants that must differ
  do, and Chat's that no row is null. Requests one after the other, liable to die:
  `SettledTicketsAgree`, `PushesAreWelcome` (a preference is heeded where it could be looked up;
  `asked` goes with the request), `OnlyFoundersAreSuper`, `NobodyIsRemindedTwice` (a
  booking somebody was told of is marked, or its window is over and no sweep has it in hand:
  `Kept`), `InvitedCanSignIn` (`Standing`: the columns of a row that no request is at work on
  agree, and while nothing has died whoever is pending holds a way in), `VersionsAreKept`
  (`ConfigInv`: every version before the one in force has its snapshot or newer ones, or the
  request at work has just made it), `ProposedOnce` (`Proposing`: a name about to be inserted
  is not there yet). If nothing has died either: `InboxesAgree` (`ChatInv`: what the counts
  lack is what the request at work will write). For any overlap: `ListingIsLinked` (rows of
  categories and links are never taken back, and a request that writes a service has linked its
  category before). `ProfilesAverage` has a part of each: the average is right if requests do
  not overlap, the count is never too high in any case (`RatingsInv`).
- `SumLemmas`. WithdrawnOnce, OpenIsPending and AggregateAgrees are sums over sets, which
  `MapThenSumSet` takes by choosing one element after the other. That the order does not matter
  (`SumAdd`) is what makes a sum grow by what a step adds. The proofs are by the smallest
  counterexample in the cardinality of the set.

Only model-checked: what rests on fairness (CartSettles, ScanPaysOut, WithdrawalSettles,
VerdictLands, FlagSettles), since liveness and ENABLED are out of the prover's reach; the type
invariants of Session and of the modules of Platform that no invariant above includes; and the
three violations of section 6.

## 5. Plan and what is left out

Done: Escrow with Custody, Wallet, Cart, Kyc and their proofs, in the order of the money, then
of the trust in providers; Session; then Staff, AppConfig, Chat, Ratings, Support, Catalogue,
Reminders and Push in Platform. Next, should this be carried on:
1. Proofs: an abstract ledger that Wallet refines; the type invariants of the younger modules.
2. Several customers and services in Escrow, for the double booking of one service
   (`bookings.service.ts:50`), the one hazard without a property.

Not modelled, because nothing in the server depends on it or a single write does it all:
resolving a dispute, notification rows, profile fields, prices and images, the name and
permissions of a role, settings, marking error logs; lists, reports and searches, which only
read; requests for services and matching, which are legacy and switched off; uploads (a file
on disk), health probes, seeds. E-mail and sms are output; where a caller depends on
their success, it has a step for it. Password hashing, token signatures and webhook signatures are
cryptography. Migrations are run by an external tool.

## 6. Where the code and its promises differ

Three runs expect a violation; `PROJECT.json` quotes the promise for each:
- a cash job finished by scan can be credited to the wallet by confirm-payout;
- two overlapping withdrawals of different amounts overdraw the wallet;
- a booking moved to another cart is not settled by the cart that was paid.

Others were met while modelling, and are the reason for the words "one request at a time"
and "until one crashes" in section 3: a crash between balance and transaction row allows a
second credit, and two overlapping payouts of one payment do too; a settlement that dies
before activation is never made good; the sweep can delete a booking whose page is paid
later; a repeated success report undoes REFUNDED; an acceptance
overtaken by a decline reopens the booking, whose job may then start on money that is being
returned; a transfer webhook that overtakes the write of PROCESSING reopens the withdrawal,
which nobody need settle again; a reset code from before a deletion writes a password on the
deleted row, so that only `isActive` keeps sign-in out; a push without a category, or whose
preference cannot be read, goes to accounts that have muted it; a rejected withdrawal stays reserved; a booking
paid alone is refunded against its abandoned cart; a verdict that arrives while a session is
created is overwritten with UNDER_REVIEW; parallel guesses of a code count once; a webhook
that dies after setting its dedupe key loses the verdict; a refresh that overlaps a reset brings
back the session the reset removed; keys written to memory while Redis was away are gone when it
returns, and deleted ones may come back; a role deleted while it is given away leaves a Super Admin; an
invitation that dies before its hash is written cannot be taken up until it is sent again.

Two comments are looser than the code. `categories/categories.service.ts:151-154` says that an
unknown name "(re)creates a PENDING suggestion", but a REJECTED category of that name is returned as
it is. `../prisma/prisma.service.ts:43-44` says that "older migrations are marked applied first so
`migrate deploy` only runs new ones", while `baselineIfNeeded` (:100-107) marks every listed
migration but one, newer ones included. Neither is about a state the models reach.

## 7. Running

`tlc -config MCEscrow_overlap.cfg MCEscrow.tla`, `tlc -config MCKyc_serial.cfg
MCKyc.tla` and so on (the runs are listed in `PROJECT.json`); `tlapm
EscrowProofs.tla` and the other modules named `...Proofs`.
