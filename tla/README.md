# Effi backend: specifications, checks and proofs

Effi is a NestJS service (TypeScript, TypeORM 0.3.17 on PostgreSQL) through
which a company sends bulk SMS and KakaoTalk messages over Naver Cloud (NCP
SENS). A user holds a prepaid balance of points and money; a send takes its
price off the balance, and three days later the price of the SMS that failed
is given back. An A/B send goes to two test groups first, and the better of the
two goes to the rest two hours later.

Automatic messages are made by a cron that queries the databases of clients
for rows that changed.

The TLA+ modules here follow that code: what one user's balance goes
through while requests interleave, how results and refunds are settled, how the
winner of an A/B test finds its receivers, how rows of clients become targets, and
what phonebooks, segments, histories, payments and accounts go through when
requests overlap or stop half-way. All paths below are relative to the
repository's root; the application itself is in its `src/` directory, and
the maps in `PROJECT.json` name the lines behind every definition.

The repository has no documentation of its own beyond the README of the Nest
starter, and its tests only check that the classes can be constructed, so
the code, its comments and its messages are the only reference.

## The system

### Components

| Component | State | Operations | What makes it correct |
|---|---|---|---|
| SMS sends (`messages`) | message groups, messages (`isSent`, `isMoneyCheck`, `sentType`), contents | default send, A/B send, test send, host-number message | one charge per accepted send; every receiver once; rows that later jobs can find each other by |
| KakaoTalk sends (`bizmessage`) | the same, in tables of its own, images | default send, A/B send, image upload | the same |
| User account (`users`) | `point`, `money`, tokens, host numbers, NCP keys | sign-up, login, logout, host numbers, balance check | the balance is changed by sends, payments and refunds only, each once |
| Payments (`payments`) | orders with `isCompleted` | create, complete, cancel, refund | an order is credited once, and not if it was cancelled |
| SMS results and refunds (`results`) | `NcpResult`, `UrlResult`, `UsedPayments` | hourly result poll, 5-minute refund job, result pages, which store a result too | each failed message is refunded once, in full |
| A/B winner jobs (`results`, SMS and KakaoTalk) | the unsent remainder, its content | 5-minute job per channel | the winner goes to the remainder of its own test, once |
| KakaoTalk results | `BizNcpResult`, `BizUrlResult` | hourly poll, result pages, both of which store counts | pages list the counts stored; nothing decides by them |
| Target automation (`target`) | targets with `reservedAt`, `sentStatus` | automation run, reservations, reserved send | every record becomes one target per date; each is sent once |
| Automatic message events | events with their last run time | create, read, update, delete | a run picks up where the last one ended |
| Segments and fatigue (`segment`) | filter queries, message history | column and fatigue filters, history | no filter is lost; who had a message lately is left out |
| Client database (`client-db`) | one connection pool for the process | connect, query | a query runs on the database of the client that asked |
| Short links (`shorturl`) | link rows | create, read clicks | a link that was answered can be looked up |
| Phonebook | contacts, phonebooks with member lists | add, edit, delete | no member is lost or stored twice |
| Connection pool (`typeorm`, `pg`) | who holds a connection | take, give back | somebody can always go on |
| Authentication, controllers, DTOs, pipes | none | per request | checks of one request |

### How they interact

* **Requests.** A handler is one asynchronous function. At every `await` any
  other handler or job of the same process may run; nothing locks a user. A
  handler that rejects is answered with an error, and what it has stored
  stays.
* **The user row** is shared by sends, payments, the refund job, login,
  logout and host numbers. All of them read an entity, change it and call
  `save`, which SELECTs the row again, compares, and UPDATEs the columns that
  differ with the *entity's* values.
* **Rows as messages.** A send leaves `message` rows for the jobs: the result poll
  reads those younger than three days, the winner job the unsent ones older
  than two hours, the refund job the unchecked ones older than three days. A result
  page asks NCP for a message of any age and stores the answer, and the refund job goes by the last one stored.
  The payment is found by the message group, the A and B rows of a remainder
  by subtracting from its id.
* **One pool for all clients.** `ClientDbService` keeps one PostgreSQL pool in the
  process. The cron of the automation, `createMessageContent` and `/client-db/pg` all
  use or replace it.
* **Sends, histories, segments.** After each chunk of an SMS that NCP accepted, a send, a test message or the winner
  of a test (all go through `makeBody`) writes a history of its first number; the fatigue filter of a segment reads them, and
  the automation runs the filter query that comes of it. Advertisement rows, written after the
  charge, are what `filteredReceivers` looks at before the next send.
* **NCP** accepts a request of at most 1000 (SMS) or 100 (KakaoTalk) receivers
  and reports outcomes later; t.ly counts clicks; Iamport takes payments.
* **Timers.** `@Cron` starts a job whether or not its last run has ended. A
  transaction nobody awaits whose promise rejects ends the Node process.

### What is hard here

Stale copies of the user row; the distance between the balance check and
the deduction; steps after NCP's acceptance that may fail with nothing undone; ids that
are used as links although all users draw them from one sequence; refund
transactions that run on while the job reads the next message; a winner that
was accepted but not recorded; a `null` that `findOne` takes for "any"; rows written back
as they were read many awaits ago (phonebooks, segments, events); a delete before an insert; one
foreign key that points at the wrong table; a transaction that asks for a second connection.
`PROJECT.json` lists these hazards at their lines, with the properties that
watch them, or the reason why none does.

## The modules

| Module | Models | Rests on |
|---|---|---|
| `AbSplit` | `slice` arithmetic of the A/B split and the chunk loop | |
| `Ledger` | abstract account: each request posts at most one amount, no charge overdraws | |
| `Billing` | the user row and every handler that reads or writes it while serving requests | `AbSplit`, `Ledger` (refinement) |
| `Settlement` | result poll, result pages, winner's row, refund job with its unawaited transactions, crash | |
| `AbTest` | rows of A/B sends in id order, both winner jobs, failures | |
| `TargetAutomation` | the automation cron, reservations, the reserved send, events and segments edited beside them, the shared pool | |
| `Phonebook` | phonebooks and contacts, every request at every await | |
| `Fatigue` | histories of sends, winners and test messages, advertisement rows, `filteredReceivers` | `AbSplit` |
| `Segment` | filter queries, with the histories of `Fatigue` | `Fatigue` (composed) |
| `Payments` | orders, the provider, completion, cancellation, refund requests | |
| `Accounts` | sender numbers in the rows of user, NCP keys and memos | |
| `ConnPool` | connections of the process to its own database | |
| `AbSplit_proofs`, `MCAbSplit_proofs`, `Billing_proofs`, `Settlement_proofs`, `AbTest_proofs`, `TargetAutomation_proofs` | theorems | the module each is named after |
| `Fatigue_proofs` | theorems | `Fatigue`, `Segment` |
| `Requests_proofs` | theorems | `ConnPool`, `Payments`, `Accounts`, `Phonebook` |
| `MCAbSplit`, `MCBilling`, `MCSettlement`, `MCAbTest`, `MCTargeting` | instances for TLC | |
| `MCRequests` | one instance of `Phonebook`, `Fatigue`, `Segment`, `Payments`, `Accounts` and `ConnPool`; a behaviour picks one part and stays in it | |

Definitions that start with a comment `Variant:` are plausible mistakes in the
definition below them (a dropped condition, an off-by-one). No action uses
them: each one, put in the place of its original, breaks the property
`PROJECT.json` pairs it with.

### AbSplit

Receivers are positions `1..n`, a slice is a set of positions.
`TestReceiverNumber`, `ATestReceiver`, `BTestReceiver` and `RemainReceiver`
follow `sendAbTestMessage` (`sendAbTestBizmessage` does the same line for line),
`ChunkCount` and `Chunk` the loop that calls `makeBody`. `ACount`, `BCount` and
`RemainCount` are the lengths as JavaScript computes them, for the arithmetic
of `Billing`.

### Billing

One user and a set of `Requests`, each of which comes in by one of six routes:
default and A/B sends by SMS and KakaoTalk (`smsDefault`, `smsAb`,
`bizDefault`, `bizAb`), `topUp` (`completePayment`) and `profile` (login,
logout, `updateHostnumber`: whoever saves the user row with another column
changed). `stage[r]` is the next awaited call; each step is the code from one
await to the next:

| Actions | Code |
|---|---|
| `ReceiveSms`, `ReceiveBiz`, `ReceiveTopUp`, `ReceiveProfile` | the handler's start; all but the KakaoTalk sends read the user here and keep that copy |
| `Check` | `assertCheckUserMoney`: its own read, and the refusal |
| `CreateGroup` | the group row: first in an SMS A/B send, in the middle of `saveMessageInfo` in a default SMS send, after the first part in KakaoTalk sends |
| `PostChunk`, `PostNothing` | one pass of the chunk loop; a part without receivers, which throws except for part B on KakaoTalk |
| `InsertMessage`, `InsertContent` | the rows of a part |
| `BeginTx`, `CommitTx` | `saveMessageInfo`'s transaction, which also saves the user entity |
| `Reread`, `Deduct`, `UpdateUser`, `Pay` | `deductedUserMoney` of either service: (KakaoTalk) read, take off and SELECT, UPDATE, `UsedPayments` row |
| `Credit`, `UpdateUser`, `SaveOrder` | `completePayment` |
| `SaveProfile`, `UpdateUser` | the other savers |
| `Stop` | the awaited call rejects, or the process dies: possible at every stage |

`copy` is the entity a request holds and `dirty` the columns its pending `save`
found different, so a lost update happens in the model exactly where it does
in the code. `Overlap` says whether requests may be in flight together. Receivers
are counts; names and contents are left out, as are the link rows made on the way.

### Settlement

SMS messages of one user, after the send. `Deliver` is NCP, `Age` the three
days. `PollStart`, `PollRead`, `PollSkip` and `PollSave` are
`handleResultCron` with its list; `PageRead` and `PageSave` the result that `messageResult` asks for and stores, for a message
of any age and beside anything else;
`WinnerPost`, `WinnerLoad` and `WinnerSave` the part of `handleAbTestInterval` that
touches the row of the remainder; `RefundStart`, `RefundUser`, `RefundResult` and
`RefundPayment` the awaited steps of `handleRefundCron`; and `TxUser` and
`TxCommit` the transaction it starts without waiting. An UPDATE of the user row
locks it until the transaction ends, so two transactions follow each other, but each
writes the points its run read before. `Crash` drops the jobs, the runs and the open transactions.

The winner may be accepted, loaded and saved at any time, also when the row of the remainder is three days old and being settled:
`WinnerSave` writes `isMoneyCheck` back as it was loaded, which `retaken` counts, and the message is settled again. `settled` counts
the transactions that committed.

A null `messageGroupId` (`NoGroup`) is no condition for `findOne`: such a
message settles against any payment. The A/B winner's row keeps its group, so only
default sends that stopped before their transaction lead there; `MCSettlement` has one (`mU`).

### AbTest

The table of messages as the sequence of its ids. Each A/B send appends A, B
and N, with the content row in between and NCP in between those; default sends
append one row. `TickStart` is the query, `ReadA` and `ReadB` the clicks of
`id - 2` and `id - 1` with the comparison, `Post` the winner's send, `Save` and
`SaveContent` the rows of the remainder. `Reject` is any call of the job that fails
(it ends in the catch, for this row), `Crash` the end of the process. `channel`
chooses between the two jobs, which differ in what they can read clicks of and in
whether a remainder may be empty. Click counts are not modelled: either side may win.

### TargetAutomation

A job is a run of `/target/auto` or a request of a user; `at` is the awaited call it is
before. Time is the number of changes of client rows, so `ver[r]` is the `updatedAt` of row `r`,
and `event[e].last` the stored time of the last run.

| Actions | Code |
|---|---|
| `AutoStart`, `Onward` | the list of events, read once, and the order of the loop, which the query leaves open; an event that never ran gets a last run first |
| `ReadSegment`, `Connect`, `Query`, `Answer` | `getSegmentDetails`, `connectToClientDatabase`, `executeQueryPg`, and the filter on `updatedAt`; the time to store is taken when the answer arrives |
| `SaveTarget` | `processAndSaveMessageContent`, one row at a time |
| `ReadNumbers`; `FindReserved`, `SaveReserved`; `ReserveRecurring`, `CopyTarget`, `DeleteTarget` | `scheduleTargetReservedAt` with its two branches; a reservation reads the target and then saves it as read |
| `Stamp`, `FindEvent`, `SaveEvent` | the time is stored: once per target, or once after the reservations |
| `SenderStart`, `FindMarked`, `MarkSent`, `Hand` | `sendReservedMessage`, whose mark is a read and a save as well |
| `PutRead`, `PutSave` | `PUT /auto-message-event`: the row read is saved with what the request gives: any time of a last run, segment and kind |
| `ConnectRequest` | `POST /client-db/connect/pg`, at any time |
| `ContentRequest`, `ReserveRequest` | content and reservations by hand, of any event, segment and targets |
| `DeleteEvent`, `FilterSegment`, `DeleteSegment` | requests of users |
| `Edit` | the client changes a row |
| `Reject`, `Crash` | a call rejects, which ends the run, as nothing catches it; the process dies |

What the code lets users and other requests undo is recorded and named in the properties, never guarded against: `retold` are the events a
user gave another time or segment, `crossed` those whose run lost its pool between its connect and its query, `unmarked[i]` counts
the reservations that saved target `i` as it was before the sender marked it, and `spoiled` the runs that threw with targets made and the time
not stored.

A query is answered with the rows as they were when it was executed (`Query`), and a change
made between that and `Answer` is older than the time the run stores: such changes are recorded
in `unseen` and left out of the properties. A recurring reservation whose row has no receiver, or the
receiver of another row, deletes a target it has nothing to do with or throws, in every run; `Derailed`
names these databases. Which dates are reserved is left open. `deleteTarget` reads a row and removes it in one step: removing a row
that is gone does nothing.

### Phonebook, Segment, Accounts

Each request goes through its reads and then writes a row made of what it read. In `Phonebook` the
members are looked up and inserted one number at a time (`LookUp`, `InsertContact`); in
`Segment` the fatigue filter awaits its rows and one history per number (`FatigueRows`, `LookUpHistory`), after
which the segment is read again and only the filter is replaced; in `Accounts` a request is
a list of such steps (`UpdatePlan`, `HostnumberPlan`, `SignupPlan`), which is the order of the calls in
`UsersService`. The numbers of a request are a list, in which one may occur twice, and each entry gets a row with a memo of its own (`SaveDetail`). A filter query is its base and what was appended. `SegKey[n]` is the number under which `getMessageHistoryByPhoneNumber` looks, which
drops the first character; `SegFirst[q]` are the rows that a query with an `OR` keeps whatever is appended.

### Fatigue

`Plan` is the order in which a send posts its chunks and inserts its messages and group; it
differs between default and A/B sends, and ids come from two sequences. The history of a
number is deleted and inserted (`DeleteHistory`, `InsertHistory`), by sends, winners and test messages. The charge is one step, as its
awaits are in `Billing`. Time goes in half days, so that a midnight lies between two sends of a day and
the next. `DaysAgo` is the UTC date of `toISOString`, counted from a local day, so the process and the database are taken to be in UTC.

### Payments

`CompletePayment` to `CompleteOrder` are the awaits of `completePayment`; the amount
is added whether or not the order is completed already. `PayCatch` is its catch, which starts
`cancelPayment` without awaiting it (`CancelAsk`, `CancelAtProvider`). The provider cancels, or answers that it did not, which
nobody looks at (`refused`); a cancellation that rejects ends the process (`PayDie`). An order and its payment at the provider belong together, which `completePayment` does not check; the amount is
always 1, since properties only ask whether it was credited.

### ConnPool

`Begin` to `End` are the steps of `saveMessageInfo` that take or give back a connection. The pool
has no timeout and hands out what is free to anybody. Any number of sends may come to it.

## What the runs check

Every passing run explores its state space completely. Deadlock checking is off where all
requests of an instance may be served and nothing is left to do; `split` runs with it.

| Run | Question | Instance |
|---|---|---|
| `split` | `SplitIsPartition`: nobody in two slices, nobody in none. `TestIsFair`: test groups equal from two receivers on, a remainder from three on. `ChunksCoverOnce`: every receiver in exactly one, non-empty, chunk | lists of 0..104, chunks of 3, 10 and 100: all remainders of 4, both sides of each chunk border |
| `billing_serial` | `NeverOverdrawn` and `ImplementsLedger`: with one request at a time the account is an exact ledger, wherever requests stop | 3 requests; sends of 3, A/B sends of 10, payments of 20; an opening balance that covers a few sends and one that does not |
| `billing_overlap` | what survives interleaving: `PointNeverNegative`, `ChargedOnlyWhenAccepted`, `ChargeMatchesMessages`, `PaidSendsAreGrouped`, `NoMoneyFromNowhere`, and `TypeOK` | 3 requests at once; sends to 0 and 1 receivers and A/B sends to 10 with chunks of 2, so that parts need two passes or none |
| `billing_overdraft` | `NeverOverdrawn` **fails**: two sends pass the check together | 2 requests at once |
| `billing_refusal` | `RefusedOnlyWhenShort` **fails**: the SMS A/B send is checked for three times its cost | 1 request |
| `settlement` | `NoOverRefund` and `RefundWithinGroup`, until a winner's save takes `isMoneyCheck` back; `TypeOK` | the remainder of a test and a send without a group, payments of two groups to find for it; one receiver each; a page beside the poll; one crash |
| `settlement_live` | `SettledEventually`: what is due, has a result and a payment, is settled; `SettledOnce`: once, and once more for each winner saved too late; `NoOverRefund` | the two messages of the test, one crash |
| `settlement_lost` | `CompletedMeansRefunded` **fails**: the second transaction of a run writes back points without the first refund | two messages, none a remainder, without a crash |
| `targeting` | `NoUpdateLost`: no change of a row is skipped by the stored times. `HandedOnce`: no target is handed over twice, other than after a late reservation. `RepeatedOnlyAfterFailure`: a change becomes a second target of an event only after a failure or a throw. `TypeOK` | two events: one not reserved beside one recurring, or one reserved for two rows of one receiver (a reservation is saved after the mark) beside one not reserved; the sender; one failure anywhere; in the first case a change at any time |
| `targeting_live` | `EventuallyTargeted`: every row becomes a target of every live, filtered event of its client. `OwnRowsOnly`: and of no other client's. `NoUpdateLost` | two clients, the first event reserved once, the second without a filter at first; one request (an update with the earliest or latest time, either segment and any kind; a connect in the middle of a run; a deletion; content and reservations by hand) or failure |
| `requests`, phonebooks | `MembersAreOwnContacts`, `OneContactPerNumber`, `MembersKept` | two users, two numbers, two phonebooks, a request at a time |
| `requests`, sends | `AdvertsFiltered`, `AdvertsAccepted`, `HistoryKept` | two sends after each other to two receivers, of all kinds (test messages and winners among them), a chunk per receiver; two half days |
| `requests`, segments | `FilterOnlyNarrows`, `ExcludedWereSent` | one segment, two queries (one with `OR`), a condition, both spans of days, beside a send |
| `requests`, payments | `CompletedWasCredited`, `PaymentNotKept` | two requests at once, an order that is refused and one that is paid, a provider that cancels or does not |
| `requests`, accounts | `HostnumbersAgree` | one user, lists of up to two of two numbers (one of them written with other signs), the same twice included; a request at a time |
| `requests`, pool | `StuckOnlyBySends`: everybody waits only when as many sends as connections save a group | two connections, three sends, one other: it is reached |
| `abtest` | `WinnerGoesToOwnRemainder`, `ResentOnlyAfterFailure`, `EventuallyDecided`, `TypeOK` | two A/B sends (one without a link, and without a remainder on KakaoTalk) and a default send, one at a time, each of which may stop half-way; two failures; both channels |

The three failing runs are disagreements between the code and its own messages
(`findings` in `PROJECT.json`): the refusal says the user does not have enough
money, and the account is overdrawn all the same or the refusal is wrong; the
log says a refund is completed whose points are overwritten.

### Why the bounds are enough

* `Billing` treats requests alike except for their kind, and every race of the
  user row needs one reader and one writer; three requests give each pair a third
  that may move between the two. Balances only enter by comparison with the cost, and the instances lie
  on both sides of it. Requests are symmetric. The chunk sizes are small so that parts need several passes: the
  code only compares the receivers left with them.
* `Settlement`: two messages of one group make the transactions race and share a payment (`settlement_live`); a message without a group
  beside one with a group finds a payment of its own or that of the other (`settlement`). One receiver each is enough to succeed, fail
  or be reserved. One page is a second writer of results, of any age. One crash hits every step, since it may come anywhere. The theorems have any number of each.
* `AbTest`: a job looks at three neighbouring rows; a test, another test
  whole or cut short, and a default send put every mix of rows before a remainder.
  Two failures let a rejected call be followed by a death of the process.
* `TargetAutomation`: two clients show whose rows a query gets; the rows are one that becomes a target, one
  that does not, one of another client, and two with one receiver, whose reservations save one target twice. `MaxClock = 2` is one change, at any point of any run, after which runs go on for ever
  (where rows share a receiver, clients leave them alone: `StillSpec`). `PutTimes` are the earliest and the latest time there is.
  One job slot means that runs do not overlap; what overlaps a run in the instances is the sender, a connect, an update of an event and the client. Overlapping runs are left to the theorems.
  `MaxTargets` stops new runs only where every run inserts again (`Derailed`), or the table would grow without end. The theorems have no such bound.
* `Phonebook`, `Segment`, `Accounts`: the properties relate two requests after each other, the first of which stops anywhere; rows
  are compared with what one other user has. The parts of `requests` share no state, so exploring one at a time loses nothing.
* `Payments`: a completion races with another one and with the cancellation of a third that came before, as slots are used again. `ConnPool`: two of the three sends are enough to take both connections, and the third and others wait behind them.

### Fairness

Only the liveness runs assume any. The timers keep firing and an awaited
call settles, one way or the other: weak fairness of the steps of a
job's run and of its open transactions (`Settlement!Fairness`), of
`TickStart` and of the work of a run (`AbTest!Fairness`), and of `AutoStart` and the work of a
job (`TargetAutomation!Fairness`: the cron server posts `/target/auto` again and again). Node's event loop runs every callback that is ready, and axios and
the PostgreSQL driver answer or time out. No fairness is assumed of requests, of
NCP's deliveries, of time, of the result poll or of failures; crashes and rejections are bounded
because nothing is settled by a process that always dies. Within a run `RefundUser`
picks messages in any order, as the query states none, and each once.

## What is proved

All theorems hold for any sets of requests, messages, sends and runs, any sizes and any
balances the assumptions in the modules allow. Those are: natural receiver
counts, at least 10 for an SMS A/B send (the controller's validation),
positive chunk sizes, natural opening balances and payments, remainders among
the messages, payments among the groups, A/B and default sends disjoint; databases for events and rows, update times
among the times, and `None` not being a run.

* **`AbSplit_proofs`**: `SplitPartitions`, `CountsAddUp`, `ChunkOfReceiver`. Arithmetic on the
  slice borders and on the loop, for lists of any length and chunks of any size. `CountsAddUp` is what `Billing_proofs` needs to compare
  the charge with the three rows of a test.
* **`MCAbSplit_proofs`** carries them over to the three invariants of `split`, without its bound on the
  length: `SplitsPartition`, `TestsAreFair`, `ChunksCover`. `SliceHas` says that a slice has as many
  receivers as `SliceLength`.
* **`Billing_proofs`**, with no assumption on interleaving: `TypeCorrect`,
  `PointsStayNatural`, `ChargesFollowAcceptance`, `ChargesMatchMessages`,
  `PaidRowsAreLinked`, `MoneyHasASource`. The properties speak of a payment row, which comes last, so none is
  inductive alone. `FlowInv` records for each stage and part what has been
  accepted, stored and linked by then; `PaymentInv` ties a row to a send
  that went through all of it. `PointsStayNatural` needs `PointInv`: the
  copies requests hold are non-negative too, and a deduction keeps them so; only then is what a stale `save` writes back harmless.
  `MoneyHasASource` (`NoMoneyFromNowhere`) needs `BackedInv`: every copy of the row, however old, is covered by what had been paid in when it
  was read, and the payments computed only grow; the units of all of them are counted as one set, so no induction over the requests is needed.
  The same module assumes `~Overlap` for
`SerialNeverOverdrawn` and
  `SerialImplementsLedger`. `SerialInv` says that at most one request is in flight, that
  its copy is the row (or the row with its own deduction or payment applied), and that
  past its check the row covers its cost. Every step then posts one amount or maps to a
  stutter of `Ledger`. The assumption is needed: `billing_overdraft` is the counterexample
  without it.
* **`Settlement_proofs`**: `SettlementTypes`, and, assuming only `~Overlap`, `SettlementIsSingle` (`SettledOnce`),
  `RefundsCovered` (`NoOverRefund`) and `GroupsCovered` (`RefundWithinGroup`). `SettleInv` says that a run works on
  messages that are neither checked nor in a transaction, that a pending save of a winner never marks one as checked that is not, and that a
  message not checked was taken back as often as it was settled (`Counted`): each second settlement has its save of a winner.
  A failed receiver is an element of a set (`FailedReceivers`), so a sum of refunds is a cardinality. `Known` says that results, in
  rows, in the poll, in result pages and in runs, never exceed what failed. While no message was taken back (`NoneRetaken`), `WithinInv` says
  that every copy of the points, in a run, in a transaction or in the row, is worth at most what failed among the messages that
  went into it, and `GroupInv` the same of each payment, where a message goes into the payment of its group, or, without a group, into any.
* **`AbTest_proofs`**: `AbTestTypes`, and, assuming `~Interleave`, `WinnersStayHome`
  (`WinnerGoesToOwnRemainder`), however many runs of the job overlap. `TrailInv` says that the rows of
  the send in flight end the table, so that a remainder is inserted directly
  behind its A and B (`AlignInv`), which a growing table does not
  change. `NotResent` (`ResentOnlyAfterFailure`) assumes instead that runs of the job do not overlap (one element in `Ticks`), and holds for any sends:
  a remainder that is neither recorded as sent nor about to be has at most as many posts as there were failures (`CountInv`), and a run has
  only such remainders ahead of it (`FreshInv`).
* **`TargetAutomation_proofs`**. `TypeCorrect` has no assumption on overlap; its invariant `TypeInv` also says that times a run
  holds have been, and that what it has read are versions of rows. `OwnRows` (`OwnRowsOnly`) and `UpdatesKept` (`NoUpdateLost`)
  have none either: they hold for any number of runs and requests, for events nobody disturbed (`Undisturbed`: no connect came between the
  connect and the query of a run, no update stored a time of its own or another segment). Neither is inductive: what is stored was known
  long before. `CoverInv` says of every such event, with one segment for all its parts, what each job that works on it knows,
  stage by stage: after `Connect` the pool leads to the event's database, after `Query` its rows are of it, after `Answer`
  every change up to the time it will store is a target of the event, unseen, or among the rows still to insert (`JobCover`);
  the same of the event's row in the table and in the copies that are saved back (`TableCover`), of its targets (`TargetCover`) and of the sender
  (`SenderCover`). `RepeatsCounted` (`RepeatedOnlyAfterFailure`) assumes that jobs do not overlap (`\A i, x \in Jobs : i = x`). `TallyInv`
  compares how often a version became a target with how often failures, requests and spoiled runs allow it
  to: if it is that often already, the time stored for the event is later than the version, or the run in flight will store such a time before it leaves the event, and what it has
  left to insert does not hold the version. It needs what the run in flight has read (`KnowsInv`), the times stored (`DatedInv`), the copies targets are
  made of (`CopiesInv`) and what an update in flight will store (`PutInv`). `Handed` (`HandedOnce`) assumes
  that runs of the sender do not overlap; `HandInv` says that a target that is not marked, or that a run has left to do or is about to hand, was handed over at most as often as
  its mark was taken back.
* **`Fatigue_proofs`**. For sends and requests that overlap at will: `AcceptedHasHistory` (`HistoryKept`), `FilterByAdverts` (`AdvertsFiltered`: a
  send that ended has its rows, none older than its start, and midnights lie where `DaysAgo` puts them), and `ExcludedHaveHistory` (`ExcludedWereSent`: what a
  condition looked up was a history when it was read, and what was accepted stays so). `AdvertRowsAccepted` (`AdvertsAccepted`) assumes
  `~FtOverlap`: `IdInv` counts the ids each plan has yet to take and shows that ids of messages never fall behind those of groups. `OnlyResetWidens`
  (`FilterOnlyNarrows`) assumes that no two requests in flight are about one segment (`SegAlone`, at every moment); `NarrowInv` says that the filter a request has read, and the one it will write,
  are then not wider than the one stored.
* **`Requests_proofs`**, `ConnPool`: `StuckBySends` (`StuckOnlyBySends`), for a pool of any size and any number of sends. What each holds is
  counted (`Holds`); when nothing is free and everybody waits, every connection is held by a send of its own, so the sends that save a group
  are as many as the connections.
* **`Requests_proofs`**, `Payments`: `CompletedCredited` and
  `NothingKept` (`CompletedWasCredited`, `PaymentNotKept`) for any overlap, any number of orders, any rejections and any refusals: an order is written down by one request alone and
  before anybody pays it (`CreatedAlone`, `Unpaid`), and a slot that lets go of an order leaves a credit, a cancellation or a refusal (`StillCovered`).
* **`Requests_proofs`**, `Accounts`: `NumbersAgree` (`HostnumbersAgree`) assumes that no two requests of one user are in flight (`AccAlone`); those of
  others may overlap. Numbers are lists with repetitions, as requests send them. The places disagree between the steps of a plan, so `Agreement` says at which of its steps a
  request is and what it has stored by then (`Claims`, `NumberClaims`); `PATCH /me` leaves the rows with memos alone, so these hold the numbers of the
  last request that wrote them.
* **`Requests_proofs`**, `Phonebook`: `MembersOwn` (`MembersAreOwnContacts`) and `PhonebookTypes`, for any overlap. `PbInv`
  adds that a request holds contacts of its user only and, past its read, a row of its user, and rests on `Kept`: rows are added and
  changed, but never change hands, so what a request has read stays good however old it is. `OneContact` (`OneContactPerNumber`) and `OnlyRemoved` (`MembersKept`)
  assume that no two requests of one user are in flight (`PbAlone`); `PbSerial` says that the request's row is then still the one stored,
  and that its user has no contact yet with the number it is about to insert.

### What is only model-checked

`SettledEventually`, `EventuallyDecided` and `EventuallyTargeted` are
liveness under fairness, which is beyond the prover. The properties of the three failing runs have no theorem, as they do not hold.

### What does not hold beyond the assumptions

* With `Overlap = TRUE` in `Settlement`, two runs of the refund job load
  the same message and refund it twice. The timer allows it when a run takes
  longer than five minutes.
* A winner saved after the refund job settled its remainder takes `isMoneyCheck` back, and the message is settled, and refunded, again.
  `SettledOnce` counts that as the one more settlement it is; `NoOverRefund` and `RefundWithinGroup` say nothing from then on.
* Two runs of the winner job that overlap (`AbTest` with two `Ticks`) post a remainder twice without any failure.
* With `Interleave = TRUE` in `AbTest`, `WinnerGoesToOwnRemainder` fails: send 1 stores
  A1 and B1, send 2 stores A2 before N1, and the job takes B1 and A2 for the
  A and B of N1. If A2 wins, N1's row is marked as sent with 2's content, 2's remainder gets
  the message, and is still to get that of its own test. Nothing in the code prevents it, and nothing
  in the repository promises otherwise, so it is kept here and not as a run.
* In `TargetAutomation`, a request that connects to another database between `Connect` and `Query` of a run gives its event the rows of another client;
  an update of an event that stores a later time, or another segment, loses the changes in between; a reservation that read a target before the sender marked
  it takes the mark back, and it is handed over again. `crossed`, `retold` and `unmarked` record when that happened, and the properties exclude or count just
  that. With two senders, both list a target before either marks it; with two cron runs, both insert the same rows.
* A target nobody marks as sent again, because it was marked and not handed over when the process died, is never sent.
* With two requests in `Phonebook`, both insert the same number, or the later save drops what the other added. With two in
  `Segment`, a condition stored in between is lost. With two in `Accounts`, the three places of the numbers
  may mix two requests; without any overlap, `PATCH /me` leaves the rows with memos different from the other two.
* `Payments` credits an order as often as somebody completes it, and also after its payment was cancelled. A cancellation the provider
  refuses is taken for one: the payment is kept and nobody credited.
* With as many sends as connections in `ConnPool`, all of them hold one and wait for another, for ever: `requests` reaches it with two connections and three sends, and
  `StuckOnlyBySends` says that nothing else leads there.
* In `Fatigue`, a send that stops between the delete and the insert of a history loses the number's history; an A/B test that stops leaves ids of messages
  behind those of groups, and `AdvertsAccepted` excludes what follows.
* In a process that does not run in UTC, `getDateBeforeDays` takes the local date back and prints the UTC one: midnights are then off by a day for
  a part of each day. `DaysAgo` is that function for UTC only.

## Not modelled, and why

* Reads that change nothing, such as the lists of messages, payments and targets. The result pages are not among them: they fetch and save results, and
  those of SMS are in `Settlement` (`PageRead`, `PageSave`).
* The KakaoTalk results, which a poll and pages save in the same way (`biz-results.service.ts:202-254`) and other pages list (256-344): nothing else
  decides by them, and there is no KakaoTalk refund.
* The link statistics the pages save with the results: the refund job does not read them, and `AbTest` takes whatever link wins.
* Message texts, personalisation, signatures, image upload, tokens, DTOs and
  validation, other than the bounds on counts.
* The message that checks a `host-number`: one request to NCP and no state. Test messages have no row and no charge; the histories
  they leave are in `Fatigue`.
* Short link creation: one call to t.ly and one insert that nobody waits for. The link is looked up
  hours later, and a missing one is covered by `AbTest`, whose jobs may fail at any read.
* Creation of automatic message events and their inputs, the names of columns and the query an update of one may change, stored credentials of client databases, and the
  MySQL pool: single inserts, or used by no other component.
* Dates of recurring reservations, and whether a reserved target is due: both are left open, so every
  choice is covered, and which is right is said nowhere.
* Price changes: `NCP_SMS_price` and `NCP_BizMessage_price` are both 3, and the
  refund job's literal 3 is the same number.
* Overlaps across modules: `Settlement` and `AbTest` write the same row of a remainder only when it is
  still unsent after three days (`Settlement` has the effect on the refund, as a winner may be saved at any time; the second winner
  this causes would need both in one module). `Fatigue` takes the charge as one step, and `Billing` has its awaits.
  Two sends in flight together are left out of `Fatigue` in `requests` (`FtOverlap`), because ids then come in any order
  and `AdvertsAccepted` is false of some; `Segment` overlaps with a send.
