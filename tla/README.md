# A verification project for Sarmaya

Sarmaya is a multi-tenant back office: it takes vendor invoices from upload to
payment under an approval matrix, segregation of duties and a tamper-evident
audit trail, and has procurement, stock and people workflows around that core.
It is a FastAPI application over SQLAlchemy and PostgreSQL. Each HTTP request
runs one service method in one database session; there is no in-memory state
between requests.

This directory holds TLA+ modules of the accounts payable core and of the
procurement, stock, people and background work around it, TLC configurations
that check them on small instances, and proofs about all of these parts that TLAPS
checks for every instance. `PROJECT.json` maps each definition to the lines it models.

## 1. The system

### Components

| Component | Keeps | Operations | What makes it correct | Here |
|---|---|---|---|---|
| Invoices (`invoice_service.py`) | state, amount, vendor link, creator, approver, duplicate flag | record, upload, edit, withdraw, validate, submit, resolve duplicate, approve, reject, mark paid | maker is not checker; flagged duplicates are reviewed; amounts are fixed before approval | `InvoiceApproval`, `InvoiceLifecycle` |
| Restricted Autopilot (`autopilot_service.py`) | settings; `auto_approved` audit entries | configure, run a batch, revert | approves nothing a person could not; a batch is all or nothing; revert undoes only its own | `InvoiceApproval` |
| Approval matrix (`policy.py`, `policy_service.py`) | policies | create, edit, withdraw; route an amount | every amount has a role that must sign | `Governance`, `Procurement`, `InvoiceApproval`, `ControlMatrices` |
| Control matrices (`matrices.py`) | nothing | compute from policies and roles | a gap and an idle rule show; what rests on permissions does | `ControlMatrices`; vendor risk and evidence not |
| Payment runs (`payment_service.py`) | run state, maker, releaser, lines with copied amount and bank details | prepare, submit, release, reject | nothing is paid twice, or at another amount, or by its maker, or to an account nobody knew | `PaymentRuns`, `Settlement`, `PaymentSessions` |
| Vendor bank changes (`vendor_bank_service.py`) | old and proposed details, signatures, cooling end | request, approve, apply, reject, cancel | one open change a vendor; the trail replays; the first payment after a change is signed by somebody else | `VendorBank` |
| Vendor master (`vendor_service.py`) | status, creator, bank details | create (by hand, or by an invoice), set status, withdraw | nobody activates a vendor they created; no vendor vanishes from under an invoice | `VendorMaster` |
| Roles and segregation of duties (`roles.py`, `sod.py`) | fixed tables | look up | | `Governance` |
| Accounts (`api/users.py`) | who holds which role | create, change a role | somebody is left to administer the tenant | `Accounts` |
| Delegation (`delegation.py`) | who lends authority to whom, until when | grant, revoke, expire, resolve | borrowed authority is never lent on, and moves no separation rule | `Delegation` |
| Workflow engine (`workflow.py`, `workflow_guards.py`, `config_defaults.py`) | per tenant: states, edges, guards | `transition_state` | the only way a state moves | guards and edges in the modules that use them |
| Accounting outbox (`integration_posting_service.py`, `integration_service.py`) | one row per posting, attempts; the connection | enqueue, drain, retry, connect, disconnect | in the books once, and told or given up | `Postings`, `Bookkeeping` |
| Audit trail (`audit.py`, `audit_integrity.py`) | hash-chained entries per object | append, verify | a chain of honest entries verifies, a rewritten one does not | `AuditChain` |
| Notifications (`notification_*.py`) | outbox rows | enqueue, dispatch, retry | every message is sent or given up, attempts bounded | `Mail` |
| SLA timers (`sla_service.py`) | reminders and escalations in the trail | sweep | each breach escalates, once | `SlaTimers` |
| Reconciliation (`reconciliation.py`) | statement lines and matches | import, suggest, confirm, unmatch | one line per payment | `Reconciliation` |
| Procurement (`requisition_service.py`, `sourcing_service.py`, `purchase_order_service.py`) | requisitions, tenders, quotes, orders | raise, approve, invite, quote, award, convert, order, receive, close | one approval is spent once; the award stands up; an order stays what was approved | `Procurement` |
| Three-way match (`three_way_match.py`, `match_tolerance_service.py`) | received quantities, tolerance | receive, set tolerance, match | what passes was delivered, within the tolerance | `ThreeWayMatch` |
| Stock (`stock_service.py`, `goods_receipt_service.py`) | balances and a ledger of movements | post, under row locks | the balance is the sum of the ledger; all of a request or none | `StockLedger`, `StockBook` |
| Stock documents (`inventory_adjustment_service.py`, `vendor_return_service.py`, `quality_check_service.py`) | adjustments, returns, inspections | raise, submit, sign, post, dispatch, credit, inspect, put away | two signatures on a large write-off; the shelf is what the documents say | `Warehouse` |
| People (`employee_service.py`, `payroll_change_service.py`, `expense_service.py`, `headcount_service.py`, `onboarding_service.py`) | employees and their logins, requests, checklists | raise, submit, sign, apply, pay; link a login; tick a task | nobody profits from an own signature, whoever they log in as by then | `People`, `Payroll`, `Claims`, `Hiring` |
| Sign-in (`api/auth.py`, `mfa_service.py`) | token version, sessions, second factor | log in, log out, change password, enrol, verify, recover | ended sessions stay ended; a code counts once | `SignIn` |
| Configuration (`config_versioning.py`, `watchlist_service.py`) | policies, settings, versions, alerts | change, restore, review | the newest version is what is live; somebody else hears of a change | `Configuration` |
| Org units (`org_unit_service.py`) | the tree, scopes | create, assign, revoke | a scope is the unit and all beneath it | `OrgScope` |
| Decision inbox (`decision_inbox_service.py`) | nothing | list | the inbox is the work one can do | `InvoiceInbox`, `SpendInbox`, `OfficeInbox`; not payments, bank changes, breaks |
| Tenancy, bank file, AI and OCR, dashboards, storage | | | | not modelled, see section 7 |

### How they interact

    policies ──┐              delegations            roles, sod
               v                   v                     v
    upload ─> INVOICES <── approve / autopilot / revert ──┘
                 │  approved
                 v
             PAYMENT RUNS <──── held while open ──── BANK CHANGES
               prepare: copies amount and bank details      │ apply
               release: pays every invoice of the run       v
                 │                                        VENDOR
                 ├──> ACCOUNTING OUTBOX ──> drain ──> the client's books
                 ├──> RECONCILIATION with the bank's lines
                 └──> AUDIT TRAIL, MAIL OUTBOX ──> dispatch ──> mail server

    need ─> REQUISITION ─> TENDER ─> award ─> ORDER ─> receipt ─> STOCK
                                               └─ three-way match ─ invoice
    employees and logins ─> PAY CHANGES, CLAIMS, HIRES, CHECKLISTS
    every waiting record ─> DECISION INBOX, SLA TIMERS

Everything meets in the database. A payment run copies the amount and the bank
details when it is prepared and is released days later; in between the desk may
revert, reject, edit and approve again, somebody may mark the invoice paid, the
vendor may be blocked, bank changes come and go, and authority is lent and
taken back. A bank change takes a snapshot of the old details when requested
and writes the new ones when applied, also days apart. Release asks *who
changed the bank details last and has anybody paid since?* over the history of
both. That is where the correctness of the system is, and where a unit test,
which runs one path, hardly reaches.

### What is hard here

* long sequences of requests by several people over state that was copied
  earlier (runs, bank changes, delegations, reverts);
* two ways to pay, which do not look at each other;
* a release that must undo everything when its last line fails;
* sessions that read, then write without a row lock, at READ COMMITTED;
* at-least-once deliveries to an accounting system and by mail, through lost
  answers, crashes, back-off and a job that overlaps itself;
* rows locked one at a time in the caller's order, and rows not there to lock;
* rules about *persons* checked through *logins* that change meanwhile.

`PROJECT.json` lists each of them under `hazards` at its line, with the property
that would notice, or what is missing. The inbox is not among them: it keeps
nothing, and is worked out anew at each reading. What is checked of it is that the
rules it writes out a second time are the services'.

## 2. The modules

    Governance            roles, permissions, separation rules, limits by amount
      Delegation          lent
        VendorMaster      venStatus, venCreator, account
          VendorBank      change, now
          | PaymentRuns   (with InvoiceLifecycle)  runs, lines      refines Settlement
          InvoiceApproval                          desk, autopilot  refines InvoiceLifecycle
            InvoiceInbox  over it

    PaymentSessions       the same requests as overlapping database sessions

    Governance            as above
      Procurement         need, tender, order, policies   (with Delegation)
      Warehouse           adjustment, return, check, onHand
        SpendInbox        over both
      People              staff
        Payroll, Claims, Hiring
          OfficeInbox     over the three
      ControlMatrices     rules      (with Delegation)
      Accounts            held
      Reconciliation, Configuration
    StockLedger  refines StockBook        Postings  refines Bookkeeping
    AuditChain, Mail, SlaTimers, SignIn, OrgScope, ThreeWayMatch

    MCOverlaps   PaymentSessions, StockLedger, Reconciliation, AuditChain, Mail,
                 Postings, SlaTimers
    MCSpend      SpendInbox, ThreeWayMatch, PaymentSessions
    MCOffice     OfficeInbox, SignIn, Configuration, OrgScope, ControlMatrices,
                 Accounts

| Module | Models | State and actions against the code |
|---|---|---|
| `Governance` | `core/roles.py`, `sod.py`, `policy.py` | `ROLE_PERMISSIONS` restricted to the permissions of this chain; one predicate per separation rule. `May` is `has_permission` of the user's own role. `RequiredRoles` is whom the policies ask for at an amount, `CanApproveAmount` the fixed limit of a role. |
| `Delegation` | `delegation.py` | `lent`: the pairs whose window is open now. `ResolvePermission` and `ResolveAuthority` look at the own role and the borrowed ones. |
| `VendorMaster` | `vendor_service.py`, `_resolve_vendor` | a vendor's status (`absent` before it exists, `withdrawn` when soft-deleted), creator and bank details, one value per bank field. |
| `VendorBank` | `vendor_bank_service.py` | `change[c]` is a `vendor_bank_changes` row; `cooled` says that `effective_at` has passed. |
| `InvoiceLifecycle` | what the desk promises | the states and the amount of each invoice, and which edges operations take. |
| `InvoiceApproval` | `invoice_service.py`, `autopilot_service.py`, policy edits | one action per service method, with its permission, guards and evidence (creator, approver, duplicate flag, audit entries later code reads). |
| `PaymentRuns` | `payment_service.py`, `mark_as_paid` | one action per method. `lines[r]` is a sequence of copies; `releasedAt` is a position of `now`. |
| `Settlement` | what paying means | an invoice is settled once, by one payer, for good. |
| `PaymentSessions` | the sessions behind `payment_service.py`, `mark_as_paid`, approve, reject, revert | `session[s]` is a request under way: the row it loaded, and for a release the lines it has checked and whether its run is flushed. `payers[i]` are the committed `marked_paid` entries of an invoice. History: `missed`, what others wrote of the invoices a session has read, and `overwritten`, the invoices written over such a version. |
| `StockLedger` | `stock_service.py`, the ends of `goods_receipt_service.py`, adjustments, returns | `working[s]`: the request, its next movement, and the rows it has locked with what it will write. `MoveRow` is `SELECT ... FOR UPDATE` and the new balance, `MissRow` and `InsertRow` the path without a row, `CommitMoves`, `DeadlockBroken` and `RequestDies` the ends. History: `unread`, the requests committed since one began, and `overtaken`, those that committed over what they had not read. |
| `StockBook` | what the ledger promises | one step moves all of a request's stock. |
| `Warehouse` | adjustments, returns, inspections | one action per method; `cost` is the item's unit cost, copied when an adjustment is raised. |
| `Procurement` | requisitions, tenders, orders | one action per method; `tender[f]` has the invited suppliers and their quotes, `order[o].tender` the award it came from; `policies` are the tenant's, which say whose approval an order needs, `lent` who may give it for another. |
| `ThreeWayMatch` | `three_way_match.py` | `match_invoice` is the function, over receipts that come in and a tolerance that is set, its verdicts tried in the code's order; products instead of the code's decimals. |
| `InvoiceInbox`, `SpendInbox`, `OfficeInbox` | `decision_inbox_service.py` | one operator per collector, beside the guards of what it speaks of (`CanApproveClaim`, `CanSignLast`, ...), which are the first conjunct of the actions. |
| `ControlMatrices` | `matrices.py`, `policy_service.py` | `rules` are the active policies; `Orders` are the orders the query may return them in, `Probes` the amounts looked at, `SOD_RULES` the table of separations. |
| `Accounts` | `api/users.py`, `deps.py` | `held[u]` is the role; a change of role is a request of three steps: let in, checked (it remembers the role and the administrators it saw), committed. |
| `Reconciliation` | `reconciliation.py` | `matched[l]`: the payment and the user. The request that matches reads, checks, and writes later, in a session; `Signal` is what the score sees of a pair. |
| `Postings` | `integration_posting_service.py`, connect and tokens | `post[p]` is the queue's row, `entries[p]` counts in the books; a drain looks up, creates, and commits once at its end. The connector's answer may be lost, refused, or the token rejected. Each attempt reads the connection anew: nothing keeps the row it loaded between two of them. |
| `Bookkeeping` | what the outbox promises | a record is entered at most once, and told only when it is. |
| `Mail` | the mail outbox | `row[m]` against `accepted[m]`, what the server took; a dispatch commits once at its end. |
| `SlaTimers` | `sla_service.py` | `entry[r]` counts how often a record came to wait; an alarm remembers the entry it was raised in. |
| `AuditChain` | `audit_integrity.py` | an entry has time, content, previous digest and digest; a digest is what was hashed. `Tip` is what the next entry is linked to; `Verified` is `verify_object_chain`. |
| `People`, `Payroll`, `Claims`, `Hiring` | the people services | one action per method. `staff[e].login` links an employee to a user; `hat` remembers as which employee somebody signed. |
| `SignIn` | `api/auth.py`, `mfa_service.py` | one account. A request that ends sessions reads `token_version` and writes it plus one later. |
| `Configuration` | `config_versioning.py`, `policy_service.py`, watchlist alerts | `history[o]` is a sequence of versions; a change of a policy is a session of two steps, and `overtaken` remembers the policies whose last change was loaded before another was committed. |
| `OrgScope` | `org_unit_service.py` | `parent` and `scopes`; `WithDescendants` is the worklist of `_with_descendants`, a recursive function over where the walk is: the units on the stack, and those seen. |
| `MC...` | | the small instances; `MCOverlaps`, `MCSpend` and `MCOffice` hold several each. |
| `VendorBankProofs`, `PaymentRunsProofs`, `InvoiceApprovalProofs`, `PaymentSessionsProofs` | the payable core | the proofs, section 4. |
| `SpendProofs` | `Procurement`, `Warehouse`, `SpendInbox`, `ThreeWayMatch` | the same. |
| `OfficeProofs` | `Payroll`, `Claims`, `Hiring`, `OfficeInbox`, `OrgScope`, `Accounts`, `SignIn`, `Configuration`, `ControlMatrices` | the same. |
| `JobsProofs` | `Reconciliation`, `SlaTimers`, `Postings`, `StockLedger`, `Mail`, `AuditChain` | the same. |
| `Sums` | | lemmas on sums over finite sets and on counting, for all of them. |

Except where sessions or jobs are said to overlap (`PaymentSessions`,
`StockLedger`, `Reconciliation`, `Postings`, `Mail`, `SlaTimers`, `AuditChain`,
the ending requests of `SignIn`, the policy changes of `Configuration`, the role
changes of `Accounts`), one
action is one request, as a whole: permission, every guard, every write. A request that the code refuses changes nothing and is
no step. Some choices are worth knowing:

* **Time.** The program compares two timestamps, `applied_at` of a bank change
  and `released_at` of a run. `now` counts those two commits; no two of them are
  equal. Windows (a delegation, a cooling period) are not measured: they end by
  an action that may happen at any moment.
* **Undoing.** `transition_state` raises on an edge that does not exist, and
  nothing of the request is committed. A release whose run lists an invoice
  twice finds it already paid at its second line. `SettlesEachOnce` is that
  failure as a guard.
* **Sessions.** `PaymentSessions` takes requests apart. Each endpoint is a plain
  function that the server runs in a thread of its own, with a session that
  does not autoflush, on PostgreSQL's default isolation; nothing in these
  services locks a row before it writes it, and no row has a version. So a
  request loads its row, checks its guards against what is committed when each
  query runs, and commits over whatever happened since. A release flushes its run before
  it reads the invoices once more; from there the row of the run is locked
  (`Locked`) and other writers of it wait. Rows of invoices are locked too, after
  everything has been read: that decides only who commits first. People,
  vendors and bank details are left to `PaymentRuns`.
* **Row locks.** The balance rows of stock are the one place where the program
  locks before it reads. `HeldByOther` is that lock, `DeadlockBroken` the
  database's choice of a victim, and `InsertRow` the unique index: two requests
  that both found no row cannot both insert.
* **Jobs.** A drain, a dispatch and a sweep take their work once, do it record
  by record against the outside world, and commit at the end. `*Dies` ends one
  in between: what the outside took stays taken, what was to be written is gone.
* **Digests.** SHA-256 is taken to have no collisions; a digest is the sequence
  of what went into it. Two entries of one trail never share a time.
* **People and logins.** An employee is not a user. The link is set and cleared
  while requests are open, so rules are stated of the person somebody was when
  signing.

## 3. The runs

| Run | Question | Bounds | States |
|---|---|---|---|
| `payment_runs` | can an invoice be paid twice, or at another amount, by runs, the desk, reverts? | 2 invoices, 2 runs of up to 2 lines (repeated invoices included), 2 amounts, a clerk, an administrator, one delegation, a vendor blocked and unblocked | 297 k |
| `bank_change` | who releases, to which account, and does the trail replay, around changes? | 2 changes of different fields, 2 runs, 2 invoices, 2 administrators | 841 k |
| `empty_books` | from `Init`: does every billed vendor stay on file? | 1 invoice, 1 vendor, 2 runs, 1 change | 56 k |
| `invoice_approval` | are the gates of approval kept, by hand and by autopilot, and does the inbox list what can be decided? | 2 invoices, 3 amounts around the limits, 2 settings, 1 policy on and off, 3 roles, one delegation | 85 k |
| `overlaps` | where sessions and jobs overlap, crash and try again: is an invoice paid, a payment matched, posted and reported once, or else how often or after what, does stock add up, does every message, posting, breach and request come to an end? | see below | 55 k |
| `spend` | from need to payment: is an approval spent once, does the award stand up, do two sign a large write-off, is the shelf explained, and does any overlap of sessions pay twice, if no waiting run is recalled and nobody pays by hand? Does an order stay what was approved, and who approved it? | see below | 337 k |
| `office` | people, sign-in, settings, units, accounts, matrices: who signs for whom, what counts, what is live, who sees what, who is left? | see below | 250 k |
| `sessions_recall` | does the sentence on double payment hold of the runs? (violated) | as `spend`, with recall | short |
| `vouched_account`, `autopilot` | does a sentence of the documentation hold? (violated) | as `payment_runs`, `invoice_approval` | short |
| `mail_dropped`, `order_ceiling` | does a sentence of the documentation hold? (violated) | as `overlaps`, `spend` | short |

**Several components in one run.** The components of `overlaps`, `spend` and
`office` share no state within their run (in the program they do not either:
their tables are disjoint, or one is only read). A product of their state spaces
would repeat each of them once per state of the others and show nothing new. So
a variable `part` picks the component a behaviour is about, in the initial
state, and `Only` keeps the variables of the others as they are. Each property
is checked in all of them and says something in its own.

The bounds by component:

| Component | Instance |
|---|---|
| `PaymentSessions` | 2 runs sharing an invoice: in `spend` 3 sessions without recall and payment by hand; in `overlaps` 2 sessions with recall, payment by hand and revert, but no approval or rejection by the desk (`Ops`), which the theorem covers |
| `StockLedger` | 2 shelves, 2 sessions, a receipt, a putaway and an adjustment that lock the shelves in opposite orders; each request commits up to 3 times |
| `Reconciliation` | 2 payments, 2 statements, 3 lines (one a credit), exact and near amounts, a quoted number, 3 roles, 2 sessions |
| `AuditChain` | 1 writer, 5 entries, alterations and deletions at any time |
| `Mail` | 3 messages (one that cannot be built), 2 dispatchers, batches of 1, 2 attempts, 1 server failure or requeueing |
| `Postings` | 2 records, 1 drain, 2 attempts, 3 faults |
| `SlaTimers` | 1 record that waits up to 3 times, 1 sweep at a time, 1 death |
| `Procurement` | 1 need, 2 tenders, 2 orders, 2 suppliers, 2 prices, 3 people, one policy on and off (the CFO from 200,000, where the default asks for one from 250,000); one start with both tenders awarded. Nobody lends anything in the run; borrowed authority the theorems cover |
| `Warehouse` | 1 adjustment, 1 return, 1 inspection of 1 delivery of 2; costs on both sides of the threshold |
| `ThreeWayMatch` | 2 lines of 5, up to 2 more than ordered, tolerances 0, 2, 20, 25 and one beyond the maximum |
| `Payroll`, `Claims`, `Hiring` | 2 employees, one the other's manager, 3 users, 2 logins that move; 2 changes, 1 claim, 1 hire |
| `SignIn` | 2 devices, 1 recovery code, 2 failed attempts, 1 ending, 2 secrets, 3 time steps |
| `Configuration` | 1 policy, 1 rule, the workflow with 2 shapes, 2 sessions, 3 versions |
| `OrgScope` | 4 units in every tree, 1 viewer |
| `Accounts` | 3 accounts, 2 overlapping requests, 2 changes of an account (`MaxBump`) |
| `ControlMatrices` | amounts in halves of a currency unit (`UNIT` = 2), up to 3 rules at once (`MaxLive`) of those in `LiveRules`, thresholds of 2 and 9 halves, amounts to 14 (`MaxProbed`), one delegation |

**Why these bounds.** Every property relates at most two runs, two changes or
two invoices, so two of each show each interaction; a third only repeats one.
Two lines allow the invoice that is listed twice. Amounts matter only as equal
or different in payment runs, and as below, between and above the thresholds in
approval. Two administrators hold every permission, so that only the
unconditional rules keep them apart; a clerk and an administrator show
permissions and borrowed authority. In the jobs, two records and two attempts
show what a retry does to the other record and what giving up does; the program
allows five attempts, which only repeats. Three messages let a dispatch leave one
behind. Four units are a chain of three and a sibling.

**Where the runs start.** `empty_books` starts from `Init`. The others start
from states `Init` leads to (`Books`, `OpenDesk`), with the vendor on file and
one or both invoices already on their way, so that the states go to what the
run is about. `BankSpec` also leaves the desk and the vendor screen idle: a
behaviour of it is a behaviour of `Spec`. What these runs leave out the
theorems cover: they are about `Spec` from `Init`. `Starts` says where
`MCSpend` starts, and two of the violations use one or two of its starts. `spend` starts procurement at
the need, at an approved need whose earlier tender was withdrawn and order
refused, and at two awards of one need; `office` starts pay, claims and hires
with both people employed and linked, and `PeopleNext` moves employment and
logins in a part of its own and within those three. `overlaps` starts everywhere
at the beginning.

**Symmetry** is used where invoices have one vendor and the administrators hold
one role, and for the sessions of `spend`, which are interchangeable; no run with
symmetry checks liveness, and `overlaps`, which does, has none.

**Deadlock** is not checked: the system may stop. When every invoice is paid
and the bounds on runs and changes are used up, nothing is left to do; the
bounds are the models', the rest is a quiet office.

**Fairness.** Nothing in the code makes people act, so no request is fair. Fair
is what the scheduler, the database and clocks do:

* `MailFairness`, `PostingsFairness`: `docker-compose.yml:100` and `:124` run each
  job in a loop, every minute and every five; back-offs are compared with a clock
  that moves on, and every call to a server has a timeout, so a job that started
  goes on. (Where the jobs hang on `.github/workflows/schedulers.yml` instead,
  whose schedule is switched off, only a button runs them, and nothing below that
  speaks of an end holds.) Weak fairness of start, of each attempt, of the end,
  and of the passing of a back-off. Deaths, lost answers and retries by hand are not fair and bounded.
* `SlaFairness`: the hourly job (`docker-compose.yml:112`) reminds and then escalates.
  Strong fairness of starting an escalation sweep, because reminding sweeps may be in its way again
  and again; weak fairness of its steps.
* `LedgerFairness`: the database gives a lock to those who wait for it in turn
  (strong fairness of locking or inserting a row), and breaks a deadlock.

### The properties

* `SettledOnce`: paid exactly when something paid it, and by one thing only: one
  run, one line, or the desk.
* `PaidAsApproved`: the amount released is the amount approved, though it was
  copied before and the approval may have been undone and given again.
* `SentToAKnownAccount`: bank details on a line are ones the vendor had.
* `FirstPaymentIndependent`: nobody who asked for or applied a change releases
  the first payment after it, while no newer change replaced it.
* `TrailReplays`: each applied change found what the one before it left; the
  vendor holds what the last one left; an open change's snapshot is current.
* `NoDoublePayment`: of overlapping sessions, at most one payer for an invoice.
  It holds where runs only move forward, because a run that waits blocks every
  other run over its invoices.
* `BilledVendorsOnFile`: no vendor is withdrawn from under an invoice.
* `SettlementSpec`: payment runs refine `Settlement`.
* `MakerChecker`, `DuplicatesReviewed`: what holds of an
  approved or paid invoice, however it got there.
* `InvoiceWorkShown`: the queries of the inbox agree with the gates of the desk,
  but for the cases named in it.

Of the jobs and sessions (`overlaps`):

* `StockIsALedger`: the ledger refines `StockBook`: locks, missing rows, rollbacks
  and deaths included, a request moves all its stock or none, a balance is the
  sum of its movements and never below zero. `EveryRequestEnds`: requests that
  lock in opposite orders do not wait for ever.
* `PaidOnceUnlessOverwritten`: with recalls and payments by hand an invoice is
  paid twice, or paid and not paid for, only where a request wrote over a version
  of that invoice which came after it had read it. Runs over one invoice that are checked,
  recalled and submitted at once, and a check overtaken before the release reads
  its invoices, do no harm; requests that follow each other certainly none.
* `BookedOnceUnlessOvertaken`: a document is posted once and the running total of an
  order line is what was received, unless a request committed over a posting of that
  document, or a receipt, that came after it had read them. Deadlocks, short and
  missing rows, rollbacks and deaths break neither.
* `MatchedOnce`: no two lines are matched to one payment by sessions that check
  before either commits; and what is suggested could be confirmed.
* `VerdictIsRight`: while one session at a time writes, a chain verifies if and only if nobody rewrote it, through
  rollbacks and several entries of one request.
* `EveryMessageSettles`: with a mail server a pending message ends sent or failed,
  though two dispatchers write over each other's attempts. `AcceptedPerDispatch`: the
  server takes it no more often than there are dispatchers and mishaps.
* `EnteredOnce`: the outbox refines `Bookkeeping`: through lost answers, deaths,
  rejected tokens, reconnection and manual retries a record enters the books once,
  and is reported only if it did. `EveryPostSettles`: it is told or given up.
* `OneAlarm`, `EveryBreachAlarms`: a stay beyond the deadline escalates, once, the
  second stay of the same record as well.

Of procurement and stock (`spend`):

* `SpentOnce`: two orders never come from one requisition, whatever tenders it
  was taken to. `AwardStandsUp`: a winner complied and was cheapest, or a reason
  is on file, though quotes are refused and come late. `OrderedAsApproved`: from
  submission on an order keeps its total, supplier, tender and raiser; it becomes
  binding only from being submitted, by the approval of somebody who at that moment
  has the permission and an authority that the policies in force ask for at that total, and did
  not raise it (an administrator may have); it is received against only once issued.
* `WriteOffsCountersigned`, `StockExplained`: who signed, and what the shelf holds.
* `BilledForDelivered`: whatever the tolerance was set to, what passes the match
  exceeds what was delivered by at most a quarter of the order.
* `OwnWorkShown`: nobody's inbox lacks what the services would let them decide.

Of people and settings (`office`):

* `NoMutualRises`, `ClaimsStandUp`: signatures judged by who somebody was when
  signing. `InboxIsTheWork`: the inbox is exactly what one can approve.
* `CodesCountOnce`, `EarlierSessionsEnd`: a code or a session is not good again
  after another secret, a lock-out, a logout.
* `LiveIsLatest`, `ChangesReviewedByAnother`: history and what is live agree after
  deletions and restores, but for a policy whose last change was loaded before another was
  committed; a change alerts once and not its maker.
* `SeesWhatIsBeneath`: the worklist finds exactly the subtree.
* `LastAdminOnlyByRace`: the last administrator goes only by a request that was
  overtaken: one it counted on was demoted meanwhile, or the account became an
  administrator's when there was none.
* `MatricesShowWhatHolds`: a band one currency unit wide that no rule routes shows
  as a gap, a rule called unreachable decides no such band, in any order of
  rules of equal priority; only a borrower or an administrator meets on both sides a
  separation put down to the permissions.

The inbox properties speak of the named guards of the actions and not of ENABLED,
which no prover here expands. It is the same: what follows a guard in its action
gives a new value to each variable and asks nothing more, but for an adjustment,
whose posting may find the shelf short (`Covers`); the inbox does not look at
shelves, and neither does `OwnWorkShown`.

Every property has a mutant: a plausible slip in the code (the
definitions marked *Mutant*) under which TLC finds it violated.

### What the code does otherwise than it says

Five runs check a sentence of the repository and find it violated.

1. `vouched_account`: a run prepared before a change and released after it goes
   to the *old* account and still counts as the payment that vouches for the
   new one.
2. `autopilot`: autopilot reads the fixed limit per role and not the tenant's
   policies, so it can approve what its user could not approve by hand.
3. `sessions_recall`: a release that was overtaken by the rejection of its run,
   and by the release of another run over the same invoice, still commits. The
   same happens between a release and marking an invoice paid by hand, with two
   sessions only; `OverlapPaysOnce` leaves both out by its assumption, and
   `PaidOnceUnlessOverwritten` says that there is no third way.
4. `mail_dropped`: the dispatcher promises that a failed send is recorded and
   retried, but `_deliver` swallows what the mail server raises, so the message
   is marked sent.
5. `order_ceiling`: a draft order that came from an award is edited beyond the
   approved estimate, and approved.

More were met while modelling. Those with a name are definitions of the modules
that no run checks; TLC finds them violated when they are added to one.

| Statement | What happens | Where |
|---|---|---|
| `FirstPaymentAfterAnyChange` (`PaymentRuns`) | the rule looks at the latest change only; a later change by somebody else, of any bank field, frees the first changer | `payment_service.py:500`, `build-book.txt:193` |
| `HandApprovalStands` (`InvoiceApproval`) | an invoice once approved by autopilot can be reverted ever after, also when approved by hand since | `autopilot_service.py:169` |
| `NotSentTwice` (`Mail`), `NotPostedTwice` (`Postings`, 2 drains) | two overlapping jobs take the same rows | `schedulers.yml:69-71` |
| a failed post is not in the books | giving up after lost answers leaves an entry there | `models/integration.py:277-279` |
| `VerdictIsRight` with 2 writers | two appends link to the same entry, and the trail reads as broken | `audit_integrity.py:126-131` |
| a deleted entry is reported | not when it was the last | `audit_integrity.py:11-13` |
| `OneAlarm` with 2 sweeps | both find no escalation | `sla_service.py:131` |
| `DocumentsOnce` (`StockLedger`) | two approvals of one adjustment both post | `inventory_adjustment_service.py:241` |
| `TotalIsReceipts` (`StockLedger`) | one of two additions to an order line's total is lost | `goods_receipt_service.py:116-118` |
| `InspectedWithinDelivery` (`Warehouse`) | each check alone is within the delivery, several are not | `quality_check_service.py:91-96` |
| `MatchStands` (`Reconciliation`) | a second session overwrites a match that was made meanwhile | `reconciliation.py:263` |
| `DeletedRestorable` (`Configuration`) | restoring a deleted policy fails: its row is only hidden, and its id taken | `config_versioning.py:197` |
| `EveryRuleChangeAlerts` (`Configuration`) | a restore changes the rules and alerts nobody | `watchlist_service.py:1` |
| the last version of a policy is what is live | of two overlapping changes the snapshot of the later lacks the earlier one; `LiveIsLatest` leaves such policies (`overtaken`) out | `config_versioning.py:3-8` |
| `EarlierSessionsEnd` with `MaxOpen = 2` | a logout and a password change both write the same next version | `api/auth.py:332-334` |
| `JumpAsStated` (`Payroll`) | of two pending changes the second to apply moves pay by another amount than was signed | `models/hr.py:229-231` |
| `LeaversOutstanding` (`Hiring`) | whoever left without a checklist is not among those with access | `onboarding_service.py:251-252` |
| "or use a recovery code" | the limit of attempts is checked before recovery codes are | `mfa_service.py:161-167` |
| the inbox lists only what the caller can act on | requisitions, tenders and orders are listed whatever the caller's limit and the routing; borrowed authority is not seen | `decision_inbox_service.py:22-24` |
| the same | so are invoices the caller recorded, and vendors the caller created, which the services refuse; an overdue invoice is listed for the role it escalates to, and its approval ignores escalation | `decision_inbox_service.py:22-24`, `:224-226` |
| a tenant always keeps an administrator | two who demote each other at once leave none; and the guard called unreachable fires for a caller demoted after the request was let in | `users.py:129-135`, `:179-187` |
| a separation put down to permissions holds whether or not the check fires | a borrower can hold the half that is lent beside the own one | `matrices.py:444-445` |
| an amount band no rule matches shows | a band narrower than one currency unit, between two thresholds, may lie between the probes | `matrices.py:12-14`, `:60-63` |

Some branches cannot be reached: a receipt names no location and an order line no
item, so receipts move no stock by themselves; no route links an invoice to an
order; no route sets `background_check_cleared`; a request for three positions is
filled by one hire; and restoring a tolerance fails with "Unknown config type".

## 4. What is proved

Every theorem is about a component's specification with arbitrary people, roles,
vendors, invoices, amounts, rules, requests, shelves and sessions, under the named
assumptions of the modules (each constant has its kind, sets that are summed are
finite; nothing else). TLC evaluates those assumptions in the passing runs. Four
theorems outside the core have a hypothesis of their own, where the promise is false without it
(the table above): `EndedSessionsStayEnded` (one ending request open at a time),
`BreachIsEscalatedOnce` (one sweep at a time), `MoneyIsEnteredOnce` (one drain)
and `VerdictsAreRight` (one session writes about the object). Of the core,
`OverlapPaysOnce` has one. What holds without it is
`OverwritingAlonePaysTwice`, and `OvertakingAloneRepeats` says the like of stock
requests: they allow every overlap and name the step that does harm. What holds of the jobs without a hypothesis is a theorem too: `EscalatedPerSweepAtMost`,
`EnteredPerDrainAtMost`, `DocumentsPerWorkerAtMost` and `SentPerDispatchAtMost` only ask
that the sweeps, drains, workers and receipts, dispatchers be finitely many.

In each case the type invariant of the module is a theorem too; it is in no run,
because a run that checks what a theorem states of all instances adds nothing. So
are some plain safety properties (`SignedWhileApproved`, `FilledAsApproved`,
`HiredOnce`, `AlarmPerSweep`, `EnteredPerDrain`), which TLC was asked about before they were proved.

**`PaymentRunsProofs`** (on `VendorBankProofs`, which proves what each bank and
vendor step does)

* `TypeCorrect`. `TypeOK` is inductive; it is proved and in no run. `DeskEffect` and `PayEffect` say once
  what a desk step and a settlement do, for all that follows.
* `PaidOnce` and `RunsImplementSettlement`. `SettledOnce` is inductive with
  `TypeOK`: a release and a mark-as-paid only take approved invoices
  (`ReleaseEffect`, `MarkAsPaidEffect`), which nothing has paid. The same lemma
  shows that each step is a `Settle` or a stutter of `Settlement`.
* `AmountsHold`. The amount on a line is compared at release, but it must be
  known before: `ListedAsApproved` says that as long as a listed invoice is in
  a state from which it can be approved without an edit, or the run is
  released, line and invoice carry the same amount.
* `TrailHolds`. `TrailReplays` needs that a vendor has one open change
  (`OneOpen`), that changes were asked of vendors on file
  (`AskedOfKnownVendors`) and that applied changes have distinct, past times
  (`AppliedBefore`).
* `KnownAccounts`. `PayeesOnFile` adds that listed invoices belong to vendors
  on file, whose details only a change replaces, which keeps the old ones.
* `FirstPaymentSeparated`. `Ordered` puts releases and applications on one
  line of time; with it a first payment after a change is one for which
  `AlreadyPaidSince` was false at release.
* `VendorsStayOnFile`.
* `PaymentsFollowLifecycle`: runs and the desk's payments refine `InvoiceLifecycle`
  from its initial states on, as the approving desk does
  (`DeskImplementsLifecycle`). So the two modules, which each leave the other's
  operations out, agree on what an invoice may go through.

**`InvoiceApprovalProofs`**

* `TypeCorrect`; `MakersAreNotCheckers`, `DuplicatesAreReviewed` and
  `SignaturesStand` (an invoice is signed exactly while its approval stands) from
  one inductive invariant `ApprovalInv`; and `DeskImplementsLifecycle`: the desk
  refines `InvoiceLifecycle`, on which `PaymentRuns` is built.
* `InvoiceWorkIsShown` needs that the vendor of every invoice on the books is on file
  (`VendorsOnFile`): the inbox asks for the activation of whatever vendor an invoice
  names, and the service only finds one that was not withdrawn.

**`PaymentSessionsProofs`**

* `OverlapPaysOnce`, under the assumption that `Ops` has neither rejections of
  runs nor payments by hand, for any number of sessions. The invariant is
  `ClaimsInv`: what a release has checked (`Passed`) belongs to a run that waits
  or is released, and no two runs have passed the same invoice. It is needed
  because the promise is made long before anybody is paid.
* `OverwritingAlonePaysTwice`, with no assumption: any number of sessions and
  every kind of request. What a session has read of an invoice and not missed a
  write of is still so (`RaceInv`), so a commit that overwrites nothing pays only
  what was approved, which by the other half of the property nobody had paid. Every step
  either writes (`WritingStep`) or reads (`ReadingStep`).

**`SpendProofs`**

* `ApprovalSpentOnce` and `AwardsStandUp`, from `ProcurementInv`. That two orders
  never come from one requisition is not inductive: an order must keep its
  tender awarded and its need converted (`OrdersSpend`), so that no second award
  finds the need approved, and a tender that was begun must be about a need
  (`TendersNamed`). That an award stands up needs that quotes are from
  suppliers invited (`ProcurementTypeOK`) and that nothing is quoted, refused or
  invited once the tender is closed.
* `OrdersStayAsApproved`, the action property `OrderedAsApproved`, operation by
  operation, for any policies and any delegations: only an approval makes an order binding, and
  `ApproverSigns` says that who may approve it in the code is who signs in the property.
* `WriteOffsAreCountersigned`. `Countersigned` says it from the draft on: who
  signs first is not who raised it, and whether two must sign was settled at the
  cost of submission.
* `StockIsExplained`. Each operation moves the shelf and one of three sums by the
  same amount (`Sums`: what a sum over a finite set does when one value
  changes). It is a theorem for any number of documents, where the run has one
  of each.
* `BilledForWhatCame`: the arithmetic of the match, for any order.
* `NothingIsHidden`, a fact about every state and not of the reachable ones only: the
  queries imply the guards they repeat. It needs that somebody whom nobody lends
  anything has just the authority of the own role.

**`OfficeProofs`**

* `RaisesAreNotMutual` and `PaidClaimsStandUp`: a signature is judged by who
  somebody was when signing (`hat`), so the invariants speak of the record and
  not of the logins, which move.
* `HiresAreApproved` and `ApprovalsHireOnce`: nobody is hired on a request that is
  unjustified or signed by who raised it, nor uncleared into a sensitive role, and
  one that was hired against stays as it is. The first needs to be said on the way: a request that waits is justified, one that is approved
  was signed by another. The second is an action property, step by step.
* `TheInboxIsTheWork`, like `NothingIsHidden` a fact about every state: the filters that
  the inbox writes out anew, the three conflicts of a pay change among them, are the
  guards of the services. It says of the code that two copies of one rule agree,
  and the run shows what happens when one of them changes.
* `ScopesReachBeneath`, for every tree of any finite number of units. `FinallySeen` is what
  was seen and the least set of units that holds the stack and what is beneath it.
  Whatever unit the walk pops, `FinallySeen` of where it is stays the same
  (`VisitKeepsEnd`), so there is a walk (`WalkExists`). Every walk ends there
  (`WalkEnds`): among the places where it would not, one has the fewest units
  unseen and of these the smallest stack, and one more turn contradicts that. A
  recursive function is thus reasoned about without the induction theorems.
* `LastAdminGoesByARace`, for any number of role requests: `DecidedOnOthers` says
  what a request that was checked has read.
* `LastVersionIsLive` and `RuleChangesAreReviewed`, for any number of sessions. A
  policy that exists has a version; every version that was not a restore has one
  alert, and no alert is of a version to come (`AlertedOnce`).
* `EachCodeCountsOnce`. A code is tried against the secret of now, so the
  invariant must say that no earlier secret comes back (`Enrolled`: the first *k*
  secrets were confirmed by a code, the one in use is the last of them or the
  next) and that what counted of it is behind `last` or no longer a recovery code
  (`SpentForGood`).
* `EndedSessionsStayEnded`: no token is of a version to come, and the one request
  that is open read the version of now (`SessionsEnd`).
* `MatricesAreRight`, for any rules and thresholds. Amounts on the same side of
  every threshold are decided alike, and every band one unit wide holds an amount
  that some probe stands for, for which the greatest threshold below the band is
  needed. No state is strengthened here: the whole proof is about the operators.

**`JobsProofs`**

* `PaymentsExplainOneDebit`, however many sessions match at the same time: the
  unique index keeps `OneDebitEach`; the rest of `MatchedOnce` follows from the
  rules of suggestion and confirmation.
* **What overlapping jobs repeat.** A sweep, a drain, a dispatch and a stock request
  look first and commit at their end. Between those, another may do the same, and
  the table above says that it happens. It cannot happen without end:
  once something was done, those still going to repeat it are among the jobs that
  had looked before, and each repetition takes one of them away. So *done + still
  going to* never exceeds the number of jobs (lemma `Counting` in `Sums`):
  `EscalatedPerSweepAtMost` (`SharedAlarms`), `EnteredPerDrainAtMost`,
  `DocumentsPerWorkerAtMost` (`OpenTo`, `WithinBound`) and `SentPerDispatchAtMost` (`HandedOver`, where
  a death and a requeueing each allow one more).
* `BreachIsEscalatedOnce` is that bound for one sweep; records come and go while it
  runs, so what it is about to write must be of an entry that no escalation on
  record is of (`SharedAlarms`).
* `DocumentsPerWorkerAtMost` also speaks of the running total on an order line: what a
  request read is at most what was received (`ReadBefore`).
* `OvertakingAloneRepeats`: a request found its document open and the total as it was;
  while nothing was committed that it had not read, both are still so
  (`OvertakenInv`), so what it commits is the first posting and adds to the total of now.
* `MoneyIsEnteredOnce`: the outbox implements `Bookkeeping`. A row says posted only
  of what is entered (`RowsAreTrue`); a drain loaded pending rows, wrote posted
  only of what is entered, and what it found absent is still absent when it
  creates it (`DrainIsTrue`). With a second drain the last part fails.
* `StockMovesAsBooked`: the ledger implements `StockBook`, for any number of
  sessions and any requests. A request under way holds the rows of the cells it
  has moved stock of, with what its moves so far make of the committed balances
  (`Holding`), no two hold the same row (`HeldApart`), so a commit is one step of
  the book and everything else, the deadlock's victim included, is none.
* `VerdictsAreRight`. What the application wrote is linked to the entry before
  it, by time (`WellKept`, true of altered entries as well). If nothing was done to
  it every link is to the entry just before (`Faithful`); if something was, an
  altered entry is still there or an entry is linked to one that is not (`Shown`),
  and no later append, commit, rollback, alteration or removal takes that away:
  whoever removes the altered entry orphans the next.

**What the proofs found.** Attempts that failed changed the model, because they
failed for a reason:

* `match_invoice` was a `CASE` whose arms overlap, so a bill equal to the order of
  which nothing had come might have read `matched`; the code tries mismatches
  first, and so does the model now.
* `LastAdminOnlyByRace` did not follow beyond the run's bound: a request that
  looked when there was no administrator at all may find its account made one
  meanwhile. It is now said of what the request saw.
* `LiveIsLatest` was checked with one session. With two it is false of a policy
  whose changes overlap and true of every other; that is what it says now, and the
  run has two sessions.
* Several types were too weak to be inductive (`DrainRecords`, `WorkRecords`,
  `Factors`, `AccountsTypeOK`), and are stated in full.

* The walk over the units was a RECURSIVE operator and the reference it was compared
  with another. It is a recursive function now, as in the code over a stack and what
  was seen, and the reference says without recursion what being above means.
* That types of `Postings` hold had been proved of one drain only; it holds of any
  number, and does not need that nothing is entered twice.

**Only model-checked**: the liveness properties (`EveryRequestEnds`,
`EveryMessageSettles`, `EveryPostSettles`, `EveryBreachAlarms`), which rest on
fairness and so on ENABLED; and the five violations, which are about particular
behaviours. Every other property of a passing run is a theorem. The limits in
`Governance` are data; their meaning shows in the theorems and runs on
`InvoiceApproval`, `Procurement` and `ControlMatrices`.

## 5. Running it

    tlc -config MCPaymentRuns.cfg MCPaymentRuns
    tlc -config MCOverlaps.cfg MCOverlaps
    tlapm PaymentRunsProofs.tla
    tlapm JobsProofs.tla

## 6. The plan

Done: the payable core, then the jobs and sessions, procurement and stock,
people, sign-in, settings and the inbox, model-checked; the proofs of every
safety and action property that a run checks, the inbox and the org units
included; and for overlapping jobs the bounds that hold where the promises do not.

Next, in this order:

1. **Sessions of bank changes**: request against apply and apply against cancel
   under the partial unique index.
2. **The rest of the inbox**: runs, bank changes, statement breaks.
3. **The item catalogue** and what receipts would move if they named a location.

## 7. Not modelled

* A tenant's reshaped workflow: states, edges and guards are the defaults of
  `config_defaults.py`. An administrator may remove guards; then the promises
  above are the administrator's.
* Invoices with no vendor link: the gates let them neither be approved nor paid.
* The three-way match as a gate of approval: it runs for invoices linked to a
  purchase order, and no operation links one. `ThreeWayMatch` models the match
  itself. For the same reason several invoices of one order are not modelled.
* Numbers, names, comments, notifications, SLA timestamps, and audit entries no
  operation reads. Where an operation reads one (autopilot's revert), it is state.
* Money: amounts are naturals; the `HasLines` guard needs only whether a total is
  positive. Currency, tax and line items decide nothing here.
* The vendor risk and evidence matrices, which count records and list code, and
  the inbox's collectors of payments, bank changes and statement breaks.
* The bank file, statement parsers, OCR, AI, dashboards, exports, storage:
  input/output and formatting, or out of the chain. Tenancy is the database's
  row-level security; one tenant is modelled.
* Receiving exceptions, the item catalogue, contact data and risk scores of
  vendors, registration and the profile, the in-app feed of notifications, the
  accounting system's reference data: records that no rule modelled here reads.
* Receipts and orders move no stock in `StockLedger` but by requests given as
  constants: what a request moves is the caller's, how it is written is the
  ledger's.
* Overlapping sessions outside the modules named in section 2: all other results
  are about requests that run one after another. In particular bank changes,
  approvals of requisitions and of people's requests are taken whole.
