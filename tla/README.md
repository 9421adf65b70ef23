# Formal model of the salary-advance backend

TLA+ modules, model-checking runs and machine-checked proofs for the NestJS
backend of a salary-advance product. An employee asks for an advance on the
salary, the employer approves it, the employee pays a platform fee, an admin
approves and pays out, and the money comes back through the employer's monthly
settlement. PostgreSQL behind Prisma holds all state; the server itself keeps
none between requests.

What can go wrong here is hardly ever inside one handler. It is what happens
when the handlers, the payment gateway's webhooks and the nightly jobs cross
each other between two awaited statements, in an order nobody wrote a test for.
That is what the modules are about.

There are three models. *The advance* (`SalaryAdvance`, `Settlements`) is the money: from the
submission to the recovery. *The access office* is who may use the system: members of an
employer, sessions, devices, employers and employees. *The lending office* is what must
be settled before money is lent: documents and bank account, terms, numbers, cost and
due date.

## 1. Inventory

| Component | State it keeps | Operations that change it | What makes it correct |
|---|---|---|---|
| Loan applications (`loan-applications`, `eligibility`) | `loan_applications`: status, who approved when | create, cancel, employerApprove, employerReject, bulkAction, adminApprove, adminReject, expiry job | one active application per employee; decisions follow the flow; a submission is decided |
| Platform fees (`platform-fees`, `razorpay`, `webhooks`) | `loan_application_fees`, `payment_orders`, `payment_events` | ensureFee, initiatePayment, verifyPayment, two capture webhooks, failure webhook, waive | a fee is cleared once and stays cleared; a capture is never lost; who has paid moves on |
| Disbursals (`disbursals`) | `disbursals` | create, disburse | paid out once, only after both approvals and the fee, together with its debt |
| Repayments (`repayments`) | `repayments` | pay, and the writes of disburse, markPaid and the overdue job | what is paid stays paid; its application is closed with it |
| Payroll recovery (`payroll`) | `employer_settlements`, `settlement_line_items` | processRecovery | every due repayment is billed, and once |
| Employer settlements and risk (`employer-settlements`) | the same rows, `employers.riskStatus` | markPaid, checkRisk | a paid settlement closes its repayments and stays paid; the risk status follows what is unpaid |
| Business jobs (`business-jobs`) | none of its own | stale expiry, overdue repayments, overdue settlements, risk recalculation, reminders | the nightly writes do not undo what the day decided |
| Pricing and payroll calendar (`pricing`, `common/utils`) | the snapshot columns of an application | preview, snapshot at submission, breakdown at disbursal | what was shown is what is owed; the two calendars of one request agree |
| Products (`loan-products`, `employer-product-configs`) | configuration versions, an employer's override | createConfigVersion, deleteConfigVersion, upsert | a product keeps its latest terms; an override lifts no amount above cap and ceiling |
| Authentication (`auth`, `sessions`) | sessions, refresh-token and reset-token hashes, password hash | login, refresh, logout, revoke, forgot/reset/change password, resend activation, cleanup | a refresh token rotates once; a password change ends all sessions; a reset link works once |
| Employer members (`employer-members`, `auth/permissions`, the guards) | memberships, invites | invite, resend, accept, revoke, change role, suspend, remove | an employer keeps an owner; an invite keeps its outcome; a member can sign in |
| Onboarding (`employees`, `employers`, `kyc-documents`, `bank-accounts`, `employer-enquiries`) | enquiries, employers, employees with their users, documents, accounts and their verification | enquire, create, create in bulk, update, activate, submit, verify, reject | one enquiry, one employer; the address of a profile is that of its login; what is verified was reviewed |
| Push (`notifications/push-notification`) | device tokens | register, remove, push, clean-up | a device shows what is meant for its user |
| Notifications, e-mail; audit logs; dashboard and reports; files; settings and the rest | messages, an append-only log, objects, texts | - | nothing decides on them |

How they interact. Everything is a call inside one process, or a row that
another service reads. `LoanApplicationsService.employerApprove` creates the fee
in its own transaction; `PlatformFeesService` moves the application when the fee
is captured or waived; `DisbursalsService.disburse` moves the disbursal, the
repayment and the application in one transaction; `RepaymentsService.pay` and
`EmployerSettlementsService.markPaid` close repayments and applications;
`updateEmployerRiskStatus` runs after `markPaid`, on request and every night,
and its result gates `disburse`.

What is hard. Almost every decision reads a row, checks its status in
JavaScript, and then writes *by id*: nothing but a partial unique index, a few
compare-and-set updates (`updateMany` with the expected status) and a few unique
keys stand between two such decisions. The gateway repeats, delays and reorders
webhooks. Jobs write to the ids they listed. A request may die between two
transactions. The list, each at its line, is `hazards` in `PROJECT.json`.

## 2. Modules

    AdvanceStore            tables, handlers in flight, statement-level writes
      └ PlatformFees        fee, orders, webhooks, waiver
          ├ LoanApplications   decisions and the expiry job
          └ Disbursals         disbursal, payout, direct repayment
              └ SalaryAdvance  composition of the four, properties, refinement
                  ├ (INSTANCE) PayoutContract   what an advance promises
                  ├ MCSalaryAdvance             instance for TLC
                  └ SalaryAdvance_proofs → AdvanceSafety_proofs
    Settlements             recovery, settlement, overdue jobs, risk, disburse gate
      ├ MCSettlements
      └ Settlements_proofs

    Handlers                handlers in flight, shared by the two offices
      ├ Handlers_proofs          counting handlers by their requests
      ├ AccessOffice        one desk each for:
      │   ├ EmployerMembers      invites, members, roles, the owner (and who signs in)
      │   │   └ EmployerMembers_proofs
      │   ├ AuthSessions         sessions, refresh tokens, passwords, reset links
      │   │   ├ (INSTANCE) SessionContract   what the holder of a session relies on
      │   │   └ AuthSessions_proofs
      │   ├ Devices              device tokens and pushes
      │   ├ EmployerOnboarding   enquiries and the employers made of them
      │   ├ EmployeeRecords      employees and their users
      │   ├ MCAccessOffice
      │   └ AccessOffice_proofs  the office as a whole, and the last three desks
      └ LendingOffice       one desk each for:
          ├ EmployeeSetup        KYC documents, bank account, screens, frozen payout details
          ├ LendingTerms         configuration versions, overrides, the amount check
          ├ ApplicationNumbers   the number sequence and the retries of create
          ├ RepaymentTerms       payroll calendar, snapshot, breakdown
          ├ MCLendingOffice
          └ LendingOffice_proofs the office as a whole, and all its desks

### How the code becomes actions

*A handler is a sequence of statements.* Every `await` on the database lets
any other handler run. A handler that has read and not yet written is a
record in `calls`: the request it belongs to, what it is doing, on which row, and
which statement is next (`at`). `XRead` is the first statement with the guards that
follow it, `XWrite` the last. A Prisma `$transaction`, and a single
`update`/`updateMany`, is one step: the transactions modelled decide by the `where`
of an update, whose row lock they then hold, or by a unique key that makes a
racing insert fail. Reads that follow each other with no write between them are one step
where only the later one decides (`createDisbursal`, `initiatePayment`,
`processRecovery`).

*Writes are by id.* `SetStatus(a, s)` overwrites whatever `a` holds by then,
and fails, with the transaction around it, when the partial unique index
`loan_applications_one_active_per_employee` refuses (`IndexAllows`).
Compare-and-set updates are an IF on the current row (`CaptureMoves`,
`DisburseWrite`) or a guard (`Pay`).

*Requests that are refused* change no row and need no step. A handler that is
refused later, or whose server dies, takes `Abort`. Checks on rows outside the module
(KYC, bank account, product, limits, cooldown, signature of a webhook) only
refuse, so they only decide whether a step is taken.

*The environment.* The gateway may collect an order at any time, repeat
either capture event, and deliver it late (`PaymentCaptured` any number of times
once `EmployeePays`; `PaymentFailed` at any time). An order expires here and not
at the gateway (`OrderLapses`). The expiry job may find any submission
old enough. In `Settlements` a repayment falls due, a settlement passes its due date and
then its grace period, and months go by, each at any time.

*Transactions of several statements* in the offices. PostgreSQL runs them READ COMMITTED: a
bulk update touches the rows that are committed when it runs. Where that decides, the
transaction is two steps: the first notes the rows it sees, the second commits what it does
to them with the rest (`LoginRevoke`/`LoginOpen`, `ForgotMark`/`ForgotIssue`). So two logins do not
see each other's session. A row inserted and updated in one transaction, or a write under a
unique key, is one step (`CreateWrite`, `AcceptWrite`, `PublishWrite`).

*Clocks* in the offices. An invite lapses at any time (`InviteLapses`) and a resend renews
it; a session may be too old at any refresh (`RefreshRefused`); a reset link that is too
late is a reset that does not start. `RepaymentTerms` counts days one by one, since there
the date itself is in question.

*The desks.* Each part of an office decides on columns of its own; where handlers of another part
write one of these too (`isEnabled`, an application's status, who has which address), the column moves
freely, or a constant says what others have taken, or the write is an action of the part that decides
on the column: the activation of an employer, which `EmployerMembers` is about, also gives its
user a temporary password, which is `ActivateEmployer` of `AuthSessions`, at any time. Interleaving them would only multiply
states. The office modules let one desk work, chosen in `Init`, while the others rest; each
run thus checks all desks of its office, each with all its own interleavings.

### State

| Variable | Code |
|---|---|
| `status` | `loan_applications.status`, `"NONE"` before the row exists |
| `employerApproved`, `adminApproved` | `employerApprovedAt`, `adminApprovedAt` set |
| `fee`, `orderStatus` | `loan_application_fees.status`, `payment_orders.status` (`LAPSED`: `CREATED` past its `expiresAt`) |
| `paid` | what the gateway has collected (external) |
| `disbursal`, `repayment` | their `status` columns |
| `payouts` | how many transactions took the payout (a history counter) |
| `settlement`, `lines`, `outstanding` | `employer_settlements.status`, its line items, the repayments its `outstandingAmount` sums up |
| `repaid` | repayments whose application is `REPAID` |
| `due`, `late`, `month` | the dates compared with the clock |
| `risk` | `employers.riskStatus` |
| `calls` | handlers between two statements |
| `role`, `standing`, `account`, `employer` | `employer_members.role`, `.status`; who has a `users` row; `employers.status` |
| `invite`, `overdue`, `resends` | `employer_invites.status`, `expiresAt` past, `resendCount` |
| `session`, `token`, `link` | `user_sessions.isActive`, which token's hash is stored, `password_reset_tokens.usedAt` |
| `chosen` (sessions) | `users.passwordChanged` |
| `owner`, `lapsed`, `atDevice` | `device_tokens.userId`; tokens Firebase has dropped and who holds the device (external) |
| `enquiry`, `linked`, `contact`, `login` | `employer_enquiries.status`, `.employerId`; `employers.email`; `users.email` |
| `code`, `mail`, `userMail`, `employed`, `activated` | `employees.employeeCode`, `.email`, `users.email`, `employmentStatus`, `appActivated` |
| `kyc`, `bank`, `verified`, `enabled`, `frozen` | `kyc_documents.status` by type; the bank details and their flag; `isEnabled`; details in `disbursals` |
| `number`, `active`, `rules`, `employerTerms`, `application` | rows of `loan_product_configs`, `employer_product_configs`, `loan_applications` |
| `sequence`, `appNumber`, `imported` | the database sequence, `applicationNumber`, numbers that were there before |
| `today`, `payroll`, `advance` | the date, the employer's payroll days, what the application showed, froze and owes |
| `handed`, `stale`, `uses`, `madeFor`, `strays`, `reviewed` | history, for properties only: tokens given out, sessions of a replaced password, resets per link, the enquiry behind an employer, pushes shown to the wrong user, details an admin has verified |

| Action | Code |
|---|---|
| `CreateRead/Write`, `CancelRead/Write`, `EmployerApproveRead/Check/Write`, `EmployerRejectRead/Write`, `AdminApproveRead` + `CheckFee` + `AdminApproveWrite`, `AdminRejectRead/Write` | the handlers of those names in `LoanApplicationsService`; `bulkAction` starts several of them together |
| `ExpireRead/Write` | `BusinessJobsService.expireStaleApplications` |
| `ReadForPayment`, `LookUpOrder`, `CreateOrder` | `initiatePayment` |
| `PaymentCaptured` | `verifyPayment` and the webhooks `payment.captured`, `order.paid`, all through `markFeePaidFromOrder` |
| `PaymentFailed`, `WaiveRead/Write` | `handleWebhookPaymentFailed`, `waive` |
| `CreateDisbursalRead/Write`, `DisburseRead/Write` (with `CheckFee`) | `DisbursalsService.create`, `.disburse` |
| `Pay` | `RepaymentsService.pay` |
| `RecoverRead/Write` | `PayrollService.processRecovery` |
| `MarkPaid`, `RiskRead/Mark/Write`, `CheckRisk` | `markPaid`, `updateEmployerRiskStatus`, the admin's route and the daily job |
| `RepaymentsOverdueRead/Write`, `SettlementsOverdueRead/Write` | the two overdue jobs |
| `InviteRead/Revoke/Insert`, `AcceptRead/LookUp/Write`, `ExpireRead/Write`, `Resend...`, `RevokeInvite...`, `UpdateRole...`, `Suspend...`, `Remove...` | the handlers of `EmployerMembersService`, with `JwtStrategy` and the permission guard in `Authorised` |
| `LoginRead/Revoke/Open`, `RefreshRead/Rotate`, `RefreshRefused` + `CloseWrite`, `Logout`, `Change...` + `IssueToken`, `Forgot...`, `Reset...` | the handlers of `AuthService`; `ResendActivation...` of `EmployeesService`; `ActivateEmployer`, the password of `EmployersService.updateStatus`; `CleanUp` of `SessionCleanupService` |
| `RegisterToken`, `RemoveToken`, `PushRead/Send/Clean` | `PushNotificationService` |
| `CreateRead`, `CreateFromEnquiry` + `CreateWrite`, `LinkRead/Write`, `UpdateProfile`, `UpdateEnquiry` | `EmployersService`, `EmployerEnquiriesService` |
| `CreateEmployee...`, `BulkCreateRow`, `UpdateEmployee...`, `Activation` | `EmployeesService` |
| `SubmitKyc`, `ReviewKyc`, `SubmitBank...`, `VerifyBank`, `PayoutRead` + `PayoutFreezes` | `KycDocumentsService`, `BankAccountsService`, the bank gate of `disburse` |
| `KycStatus`, `OverallStatus`, `ListStatus`, `NextAction`, `EligibilityAction` (operators) | what `getProfile`, `findGroupedByEmployee`, `findAllForEmployer`, `getAppState` and `getEligibility` show |
| `PublishRead/Write`, `DeleteRead/Write`, `Upsert...`, `Apply...` | `LoanProductsService`, `EmployerProductConfigsService`, the terms of `check` and `create` |
| `StoreBegin`, `SyncMax/Last/Set`, `GenerateNumber`, `InsertNumbered`, `NumberCollides` | `create`'s retry loop, `syncApplicationNumberSequence`, `generateApplicationNumber` |
| `Submit`, `Disburse`, `NextDay` | `PricingService.computeSnapshot`, `computeRepaymentBreakdown`, `PayrollUtil` |

Each module keeps the rows its own questions are about. `SalaryAdvance` leaves
`OVERDUE` and the settlement to `Settlements`: an overdue repayment is owed just
as a scheduled one is (`Owed`), and closing it by a settlement has the
effect of `Pay`. `Settlements` starts at the payout and
leaves out everything before it but the risk gate of `disburse`. Statuses that
exist in the schema and that no statement writes (`DISBURSED` of an application, `FAILED`,
`EXPIRED`, `REFUNDED` of a fee, `DRAFT`, `PARTIALLY_PAID`, `CANCELLED` of a
settlement) are named and never reached.

Beside some actions stands a version of it that a plausible change of the code
would give (`NoActiveIndex`, `AdminApprovesUnpaid`, `CaptureMovesAny`, `PayoutUnclaimed`,
`RecoverUnguarded`, `RiskWriteRaises`, ...). No specification uses them: put in place of the
action, each makes the property that guards against it fail (`mutants` in `PROJECT.json`).

## 3. Runs

`tlc -config <name>.cfg MCSalaryAdvance` (first four), `MCSettlements` (next five),
`MCAccessOffice` (`access_office`, `shut_out`), `MCLendingOffice` (`lending_office`). In `serial`
and `recovery_days` one handler works at a time, in the other passing runs two overlap.

| Run | Bounds | Distinct states | Result |
|---|---|---|---|
| `races` | 2 applications of one employee, an order each, 2 requests at a time | 1,776,968 | `TypeOK`, `OneActiveAdvance`, `FeeGate`, `CaptureClearsFee`, `KeepsPayoutContract` hold |
| `serial` | 2 applications of one employee, 2 orders of the first one's fee, 1 request at a time, fairness | 35,186 | `FollowsFlow`, `AwaitingIsPayable`, `OneOpenDebt`, `SubmissionIsDecided`, `PaidMovesOn` hold |
| `rejected_funded` | 1 application, 1 request | - | `OnlyReadyIsFunded` violated (finding) |
| `two_debts` | as `races` | - | `OneOpenDebt` violated (finding) |
| `recovery_races` | 1 employer, 2 repayments, 2 months, 2 requests | 193,491 | `TypeOK`, `BilledOnce`, `PaidIsRepaid` hold |
| `recovery_days` | the same, 1 request, fairness | 25,082 | `SettlementCloses`, `StaysPaid`, `LateIsBlocked`, `RiskClears` hold |
| `never_recovered`, `still_billed`, `paid_reopened` | 1 repayment, 2 months, 1 request | - | `DueIsRecovered`, `OutstandingIsOwed`, `CompletedIsFinal` violated (findings) |
| `access_office` | 2 requests; 1 employer, 2 persons, 2 invites; 1 user with 3 sessions of 2 tokens, 1 reset link; 2 devices of 2 users; 2 enquiries, 3 companies, 3 addresses; 2 employees | 532,577 | `TypeOK`, `HasOwner`, `ResendsBounded`, `SettledInvites`, `FewSessions`, `OldPasswordFades`, `ResetOnce`, `KeepsSessionContract`, `FewStrays`, `FewCompanies`, `EmailsAgree` hold |
| `lending_office` | 2 requests; 3 documents, 2 bank details; 3 versions, 2 rules (cap below and above its ceiling), 2 applicants; 3 submissions of 5 tries; 8 months, 4 payrolls, 2 fee rates | 350,364 | `TypeOK`, `VerifiedWasReviewed`, `PaidToReviewed`, `LatestIsActive`, `OverrideCapped`, `CollisionsAreRaces`, `QuoteKept`, `CyclesAgree`, `NeverDueBefore` hold |
| `shut_out` | the members' desk of `access_office` | - | `InvitedSignIn` violated (finding) |

**Why these bounds.** Every hazard listed is between two handlers and two rows of
one owner: two submissions, two payouts, a decision and a webhook, two recoveries, a job
and a payment. `Request` bounds how many handlers overlap; an ended handler
frees its id, so any number run over time. The applications and orders are used up
(`App`, `Order` are row ids): a second application after the first is
closed is in reach, a third adds no new kind of pair. In `serial` both orders
are of one fee, so that one can lapse or fail and the other be paid, or both be paid; the
other application gets past its fee by a waiver. Two months are one month's end.
Different employees and employers share no constraint; the
theorems below drop all of these bounds.

In the offices every property is about one owner's rows: one employer's team (a
membership of a second employer changes nothing at the first), one user's sessions, one
enquiry or address claimed twice. Three sessions let a login, a first password change and
a racing login open one each; two tokens are one rotation and its reuse. Two invites of one
person are the pair that `SettledInvites` is about. Three versions are one published, one
published from a stale read and one to delete. The rates come in tenths of their columns' last
place (`Parts`), so that one is kept as it is and one is rounded. The calendar runs from January, through
February, to August, with paydays at the end, at the beginning and past the end of a month;
the last three months only receive dates. Ids of different kinds share names, so that one
symmetry set serves several desks.

**What the office properties mean where a race is not prevented.** Several handlers read,
decide and write by id with no more than the event loop between them, and the code
does not claim otherwise. There the property says how far it can go, in the number of
handlers that can have read before the first wrote: `ResendsBounded`, `FewSessions`,
`OldPasswordFades`, `ResetOnce`, `FewCompanies`, `FewStrays` (one extra, or one in all, per
overlapping request, never more). `OldPasswordFades` is said of each user by itself: of two
users whose passwords change at the same time, each may keep the session of a login that
overlapped the change. The mutants of these properties drop the check or the revocation that
bounds them, and the bound goes. That the bounds are in the number of requests is no accident of
the instance: section 5 proves them for every number.

`LatestIsActive` is the part of `createConfigVersion`'s comment that survives races.
The rest of it, "only one active config per product at all times", does not: two
publications read the same latest version, one commits, a third publication goes on from
it, and once the version in between is deleted, the second can insert its number and
leave two active. `ApplyCheck` and `ApplyTerms` therefore take any active version, as the code's
`findFirst` without an order does.

`WithinCeiling` is what the configuration's comment claims, and is violated in two ways (section 4): the cap
itself, which nothing compares with the ceiling, and a version published between the check and the
freeze. What is left, and holds, is `OverrideCapped`: of an application that froze the version it was
checked against, that version is still on record, and no override has lifted the amount
above both its cap and its ceiling. In the same way `QuoteAlwaysKept` is violated by rates finer than their columns, and
`QuoteKept` says what holds of the others; the threshold, which is a product and hardly ever
a whole number of paise, may be as fine as it likes in both.

Properties of one handler at a time are no statement about overlapping ones. For most of
`serial` and `recovery_days` the opposite is shown: `OneOpenDebt`, `AwaitingIsPayable`, `FollowsFlow` (by the steps
of these and of `ExpiredWasIdle`) and `StaysPaid` fail once two overlap. A bound per request, such
as `ResetOnce` or `SettledInvites`, permits what two racing requests can do; it is the
claim that nothing else can.

`CollisionsAreRaces` says what a lost try of `create` takes: another submission that stored a
number, or set the sequence back to the maximum it had read, since this one looked. It holds with four
submissions and three requests too. That five tries are enough would only be a bound in
disguise: each try can be overtaken by one more submission, and with three tries TLC finds one
refused. The comment at `loan-applications.service.ts:399-400`, that `nextval` is safe in normal operation and retries
are for imports, leaves out that `setval` takes numbers back. One collision needs
no race: with the number 1 imported and the sequence not called yet, its `last_value` 1 looks
used.

## 4. Findings

1. **A rejected application is paid out** (`rejected_funded`). `disburse` never
   reads the application's status, and `adminReject` leaves the disbursal as it is.
2. **A rejection that overlaps the payout hides the debt** (`two_debts`):
   `ADMIN_REJECTED` over `REPAYMENT_SCHEDULED`, and the employee gets a second advance.
3. **A repayment the nightly job made `OVERDUE` is never billed** (`never_recovered`):
   the recovery looks for `SCHEDULED` only.
4. **A direct payment leaves the settlement's outstanding amount** (`still_billed`).
5. **The overdue job can reopen a paid repayment** (`paid_reopened`).
6. **An invited member cannot sign in** (`shut_out`). `acceptInvite` answers "You can now
   sign in.", and `getAuthUser` then looks for an employer whose own user this is.

More disagreements are stated as properties that no run lists, since each is one more line in a
configuration that is there. TLC finds every one violated:

| Property | To see it | The code, and what it says |
|---|---|---|
| `ExpiredWasIdle` | in `races` | the expiry job expires by the ids it listed, an application approved meanwhile too; its history says "Application expired after no action for more than 3 days" (`business-jobs.service.ts:36`, `:47`) |
| `AwaitingIsPayable` | in `races` | of two overlapping approvals the second writes `AWAITING_PLATFORM_FEE_PAYMENT` over an application whose fee is cleared; the employee is told "Pay the platform fee to continue to MobPae review." and `initiatePayment` answers `alreadyPaid` (`loan-applications.service.ts:664`, `:697`) |
| `StaysPaid` | in `recovery_races` | the overdue job, or a risk assessment, writes `OVERDUE` to a settlement it listed before `markPaid` closed it: "When outstandingAmount reaches 0, mark as PAID" (`business-jobs.service.ts:167`, `employer-settlements.service.ts:305`, `:117`) |
| `KycScreensAgree` | in `lending_office` | `findAllForEmployer` says `VERIFIED` as soon as any one document is; eligibility refuses with "KYC documents not fully verified" (`employees.service.ts:1028`, `eligibility.service.ts:238`) |
| `NextStepsAgree` | in `lending_office`, `Seeded = FALSE` | the home screen reads `loan_limits`, which only the seed fills, and sends an employee with nothing missing to a repayment there is not: "set by admin when onboarding the employee" (`employees.service.ts:677`, `:674`; `schema.prisma:302`) |
| `WithinCeiling` | in `lending_office` | without an override the platform's cap is the limit, and nothing compares it with the ceiling: "employee cannot borrow beyond this even with employer override" (`eligibility.service.ts:154`, `create-loan-product-config.dto.ts:21`) |
| `WithinCeiling` | in `lending_office`, `Rules <- CapsBelow` | with every cap within its ceiling: the amount is checked against one version and frozen with another, published in between (`loan-applications.service.ts:349`) |
| `QuoteAlwaysKept` | in `lending_office` | a fee of 1.255 % is shown as such and owed at 1.26 %: "maps 1-to-1 to LoanApplication snapshot columns" (`schema.prisma:376-381`, `pricing.service.ts:59`) |

`FlowSteps` lists the step of finding 1, so that `FollowsFlow` says what else
the flow keeps to.

## 5. Proofs

Checked by TLAPS, for every set of employees, applications, orders, employers, repayments,
users, sessions, invites, devices, companies, documents, versions, submissions, requests and so on.
Every safety property that a passing run checks has its theorem. What is assumed of the constants:

- whose row is whose: each application has an employee (`OwnerAssumption`), each order an
  application (`OrderAssumption`), each repayment an employer (`EmployerAssumption`), each session
  and link a user (`SessionOfAssumption`, `LinkOfAssumption`), each enquiry an address
  (`SentFromAssumption`), each invite an employer, a person and a role (`InviteToAssumption`);
  two employers never have the same user (`UserOfAssumption`, the unique `employers.userId`);
- at any time there is a finite number of requests, one at least (`RequestAssumption`, in the
  offices only, where requests are counted);
- of numbers, that they are natural numbers, caps and ceilings in any relation (`RulesAssumption`); an
  advance asked for is not zero (`CalendarAssumption`, the minimum in the DTO), nor is the number of
  parts in which threshold and rates are given (`RatesAssumption`);
- of the calendar, that it begins on day 1, that its months have 28 to 31 days and that there are
  at least three; of an employer's payday and cutoff, that they are days of a month
  (`PayrollAssumption`); that there are months (`MonthsAssumption`) and required documents
  (`KycAssumption`).

| Theorem | Says |
|---|---|
| `SalaryAdvance_proofs!TypeCorrect` | `Spec => []TypeOK` |
| `AdvanceSafety_proofs!Invariance` | `Spec => []IInv` |
| `OneAdvance`, `FeeFirst`, `CaptureCounts` | `[]OneActiveAdvance`, `[]FeeGate`, `[]CaptureClearsFee` |
| `PayoutsAreSound` | `Spec => KeepsPayoutContract`: the advance refines `PayoutContract` |
| `WaitingCanPay`, `OneDebt`, `FlowIsFollowed` | with one request at a time: `[]AwaitingIsPayable`, `[]OneOpenDebt`, `FollowsFlow` |
| `Settlements_proofs!TypeCorrect`, `NoDoubleBilling`, `PaymentClosesAdvance` | `[]TypeOK`, `[]BilledOnce`, `[]PaidIsRepaid` |
| `SettlementsClose`, `PaidSettlementsStay` | with one request at a time: `[]SettlementCloses`, `StaysPaid` |
| `EmployerMembers_proofs!Invariance`, `OwnerRemains` | `MembersSpec => []IInv`, `MembersSpec => []HasOwner` |
| `AuthSessions_proofs!SessionsKept` | `SessionsSpec => KeepsSessionContract`: the sessions refine `SessionContract` |
| `AccessOffice_proofs!OfficeInvariance`, `OfficeTyped` | `Spec => []OfficeInv`, `[]TypeOK` of the access office |
| `OwnerStays`, `SettledStay`, `ResendsStayFew` | `[]HasOwner`, `SettledInvites`, `[]ResendsBounded` |
| `OfficeKeepsContract`, `SessionsStayFew`, `OldPasswordGoes`, `ResetsStayFew` | `KeepsSessionContract`, `[]FewSessions`, `[]OldPasswordFades`, `[]ResetOnce` |
| `StraysStayFew`, `CompaniesStayFew`, `EmailsStayAgreed` | `[]FewStrays`, `[]FewCompanies`, `[]EmailsAgree` |
| `LendingOffice_proofs!OfficeInvariance`, `OfficeTyped` | `Spec => []OfficeInv`, `[]TypeOK` of the lending office |
| `VerifiedStayReviewed`, `PaidOnlyToReviewed` | `[]VerifiedWasReviewed`, `[]PaidToReviewed` |
| `LatestStaysActive`, `OverridesStayCapped`, `OnlyRacesCollide` | `[]LatestIsActive`, `[]OverrideCapped`, `[]CollisionsAreRaces` |
| `QuoteStays`, `CyclesStayAgreed`, `NoneDueBefore` | `[]QuoteKept`, `[]CyclesAgree`, `[]NeverDueBefore` |

**The argument for the advance.** `FeeGate` alone is not inductive: the write of
an `adminApprove` does not look at the fee, so one has to know that a handler at
its write has *seen* it cleared and that a cleared fee stays cleared. `IInv` adds just that:

- `CheckedCalls`: approve, create-disbursal and disburse at their write act on a cleared fee;
- `ApprovalsFirst`: a fee exists only after the employer's approval, a
  disbursal only after the admin's;
- `ApprovedCalls`: a payment or waiver in flight is of an existing fee, a
  disbursal in flight of an application the admin approved;
- `OrdersHaveFee`: an order is an order of an existing fee;
- `DebtWithPayout`: the repayment exists exactly when the payout was taken, and `payouts` is then 1.

The proof splits `IInv` into what the rows say of each other (`RowsInv`) and what
handlers in flight count on (`CallsInv`). `Kept` is the monotonicity between
the two: fees are not taken away, cleared fees stay cleared, approvals are not
withdrawn. Each action gets a lemma that shows `RowsInv' /\ Kept`; four small
lemmas (a handler begins, goes on, ends, or none moves) then give `CallsInv'` for all of them.
`OneActiveAdvance` follows from `IndexAllows` at every write that moves to an active
status. Under `IInv` every step maps to one step of `PayoutContract` or none: the
employer's approval, the clearing of the fee, the admin's approval and the payout.

**The argument for the recovery.** `BilledOnce` follows from the unique key
(`c.chosen \cap Billed = {}` at the insert) and from lines never being removed.
`PaidIsRepaid` holds because both writers of `PAID` set the application
in the same transaction and nothing takes `REPAID` back there.

**The argument for one request at a time.** The properties of `serial` and `recovery_days` are
false when handlers overlap (section 4), so their theorems
have the hypothesis `OneRequest`: any two requests are the same one. Those runs, with `Request = {r1}`,
are an instance of it. Webhooks, checkouts and direct payments are no requests and
still happen at any time, between the read and the write of the only handler too. `SerialInv`
therefore has two parts besides the invariant for all interleavings. The rows agree (`RowAgrees`):
no fee before the employer's approval, an open fee while it is waited for, no disbursal before the
review is over, and the status says `REPAYMENT_SCHEDULED` and `REPAID` exactly when the repayment
says so. And what the handler in flight has read still holds (`ReadHolds`, `ReadsHold`), up to what a
capture may have done meanwhile: a waiver that read its application awaiting the fee may find it
in review. A payout then finds the application ready, or rejected after its disbursal was created
(`PendingPayout`): the step of finding 1, and the only one that `FlowSteps` has to concede.
In the recovery, what the overdue jobs listed is not of a settlement that is paid, and
what a risk assessment is to mark is not paid.

**The argument for the owner.** `HasOwner` counts on nobody making a second owner: then
`removeMember` and `updateMemberRole`, which count owners, refuse the only one, and
`suspendMember`, which does not, lets nobody suspend themselves. `IInv` of the members says it
in four parts: an owner is the employer's own user, who is there before any other member
(`OwnerIsFirst`); an invite, pending or about to be, is for somebody else and a lower role
(`InvitesSound`); a handler about to change a member is not about the owner and makes none
(`MemberCallsSound`); the types. `CanManage` ranks strictly, so that not even an owner may hand
out `OWNER` (`NoneAboveOwner`); with equality allowed, the mutant of `HasOwner`, two owners can
suspend each other.

**The argument for the bounds per request.** A handler begins only under a free request id
(`OneEach`), so a set of handlers is never larger than `Request` (`HandlersCount`). What
has been done too often and what is about to be are then counted together: resends done
and resends in flight (`ResendsCounted`), resets (`ResetsCounted`), employers of an enquiry
(`CompaniesCounted`), pushes at the wrong device (`StraysCounted`). A write moves one from the
second count to the first; a new read is let in only while nothing has been done yet. The sessions
need more than a count, for a request that ended may open another session later:
`SessionsTold` says that every session has a request that opened it, and that a request that has
opened one of a user's open sessions and is about to open another has seen the first, and will close
it, or is a password change, which has closed them all (`OpenedBy`). So no two open sessions of a user
are of the same request (`FewSessions`). For
`OldPasswordFades` some request has, since the last change, worked with the current password only
(`UpToDate`): the one that changed it.

**The other desks of the access office.** The contract's token numbers go up one by one because a
session that is still to get its first token has none and has one handler to give it
(`IssuesSound`), and a rotation is a compare-and-set. `EmailsAgree` follows from both columns being
written in one transaction under both unique keys. An invite's outcome is only overwritten by a
handler that had read it pending, which is what `SettledInvites` excepts.

**The argument for the lending office**, desk by desk.

- *Setup*: `ReadWasReviewed` adds that what a submission took for verified, and what a payout
  read, had been reviewed.
- *Terms*: `CallsHold` adds that the versions a publication is to deactivate are those just below its own
  number, or gone. So either its version becomes the latest, or others have overtaken it and the latest
  is not among them (`PublishKeepsLatest`). A deletion in flight is of a version that is not active, and no
  row becomes active again; what an application refers to is not deleted (`RowsHold`), so the rules it was checked against stay. `LimitIsCapped`
  is about the arithmetic of overrides: whatever a percentage or an amount comes to, the limit is at most
  the cap or at most the ceiling.
- *Numbers*: as long as nothing raced a handler, the maximum it read bounds the numbers in the
  table, then the sequence does, then its own number is above them (`Looked`).
- *Repayment terms*: the calendar lemmas say that a day lies in one month (`MonthIs`, by
  `GreatestNatural`), that a day counted on from the first of a month falls in it or in the next (`DayCarried`), and that
  the due date of a request is the payday the recovery is on, unless the next month is too short (`DueInCalendar`). The
  money lemmas are about rounding half up to any number of parts: it keeps whole numbers (`RoundWhole`) and order
  (`RoundGrows`). So rounding the threshold to the column's paise changes no breakdown at rates their columns
  hold (`InterestFree`, `StoredCostsSame`), and a smaller amount costs no more (`TotalGrows`). The invariant (`OfferKept`) ties what was shown and what is owed
  to the breakdown of the frozen columns.

Of both offices `OfficeInv` says that the desk at work keeps its own invariant and that the others are
as they were at first (`Rest`); `DeskSteps` turns a step of the office into one of that desk.

**Only model-checked:** the liveness properties (`SubmissionIsDecided`, `PaidMovesOn`,
`LateIsBlocked`, `RiskClears`): fairness and ENABLED are out of the prover's reach. The violations
of section 4 are counterexamples, which TLC finds.

## 6. Not modelled, and why

In the advance and the recovery, amounts (a repayment is a whole; the settlement's amount is the
set of repayments it sums up; what an advance costs is `RepaymentTerms`' question), payment events,
provider ids and signatures, dates beyond being past or not: no decision modelled there depends on
them. Everywhere, stored notifications, e-mails, audit logs, dashboards and reports: no
handler reads them back.

Of components that are modelled in part: profile photo, UPI id and accepted terms of an
employee; the failed-login counter and last login of a user; the session's device and
address; names and descriptions of products. They are written in one statement and
decide nothing. The time of day and its zone are not in the calendar: a request is made
at a day. Which file a KYC document pointed to when the admin looked at it is kept nowhere, so
that an upload which replaces it (`hazards`) cannot be told from the one that was verified.

Files and storage, settings, texts, users and health have no state that two handlers
could bring into conflict.

## 7. Plan

The modules are complete but for what section 6 names, and every safety property of the passing
runs is proved. What is left:

1. Of the properties that need `OneRequest`, what remains when handlers overlap: two open debts
   only with a rejection that crossed its payout, a paid settlement opened again only by a job that had read
   it unpaid, a stale risk status gone with the next assessment.
2. Several orders of one fee: that a second capture of a cleared fee is recorded and moves nothing.
3. Invariants that the liveness properties rest on, such as that an application waiting for its
   fee always has a way to a captured order.
