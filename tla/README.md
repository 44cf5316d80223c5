# TxunaMegas: a TLA+ verification of the purchase pipeline

TxunaMegas sells mobile-data packages ("megas") over WhatsApp. A customer pays by M-Pesa, forwards the payment text in
a chat, the reseller's phone (running Tasker) reports the SMS the payment caused, the gateway matches the two and the
same phone executes a USSD command that transfers the megas. Money is taken before anything is delivered and a USSD
transfer cannot be taken back, so the questions are: is a payment delivered once, only to a claim backed by that
payment, and does everybody who waits hear how it ended?

The code is in `megasaas/` and has two parts: a Node.js **gateway** (`megasaas/src/`) and a Spring Boot **Core**
(`megasaas/core/`) on PostgreSQL that the gateway may delegate payments to. Paths of JavaScript files below are
relative to `megasaas/src/`.

## 1. Inventory

| Component | State | Operations | Hard behaviours | Correct when | Module |
|---|---|---|---|---|---|
| Purchase conversation: `flow/PurchaseFlowCoordinator.js`, `core/session/*` | session of every chat (6 states, a throwing transition table), open requests for a destination number | message, destination reply, the handlers of CLAIM_VERIFIED / CLAIM_REJECTED / CLAIM_EXPIRED / USSD_COMPLETED / USSD_FAILED | a transition may throw after half of the work; a reply to WhatsApp is awaited between a match and its order; memory lost by a restart | a session and the queue agree; nobody stays PROCESSING or AWAITING_VERIFICATION | `SessionStates`, `PurchaseFlow` |
| Payment matching: `core/transactions/PendingTransactionManager.js` | claims waiting for an SMS, SMS waiting for a claim, used ids | `registerClaim`, `resolveWithRealTransaction`, `finalizeMatch`, `checkExpired` | both orders of arrival, repeats, rivals, wrong amounts, the sweep | a payment is matched once, with its amount, and never forgotten | `PurchaseFlow`, `PendingStore` |
| Redis store: `core/transactions/RedisPendingTransactionStore.js` | an entry per id and side, an index SET per side, the SET of used ids | `get/set/delete/list` of both sides, `markUsed`, `isUsed` | every method is several Redis commands; handlers interleave between them; a crash between SET and SADD | index and entries agree; payment kept | `PendingStore` on `Connection` |
| USSD queue: `tasker/UssdCommandQueue.js`, `tasker/*Store.js` | commands PENDING or DISPATCHED with attempts | `enqueue`, `dequeueNext`, `ack`, `ackMatchingTransfer`, `checkTimedOut` | poll, late answer, transfer SMS and timeout cross; retry of something that may have happened | bounded attempts, order kept, outcome told once and true | `PurchaseFlow`, `UssdQueue` on `Connection` |
| HTTP server of the phone: `tasker/server.js`, `taskerHandlers.js`, `taskerAuth.js`, `RateLimiter.js` | the times of the allowed requests of every key | `POST /sms`, `GET /commands/next`, `POST /commands/:id/ack`; authentication, rate limit, age and contents of an SMS | repeated and lost requests; old SMS; a body that contradicts the SMS it carries | each true report in time reaches its handler, nothing else does; no window exceeds the limit | checks and limiter: `Intake`, `RateLimiter`; routes: the modules above |
| M-Pesa parser: `mpesa/*`, DTOs `core/dto/*` | none | `parse`, `extractDestinationNumber`, `Transaction.fromParserResult` | texts pasted together, cut off, with numbers before and after | the payment that was pasted, the number that was added | `MpesaParser`, `Intake` |
| WhatsApp provider: `whatsapp/provider/BaileysProvider.js` | socket, status, credentials on disk | connect, close events, reset of the credentials, disconnect, incoming messages, send | events of a socket cross connects and deletions under way; crash between logout and reset | one link at a time, a true status, a lost link comes back | `WhatsAppLink` (link), `Intake` (messages) |
| Core: payments and commands: the Java packages `payment` and `ussd`, migration `V1` | payments, orders, confirmations, idempotency keys, commands | claim, confirmation, register, acknowledge | concurrent READ COMMITTED transactions, replays, 5 s client timeout | one order per payment gets a command, after the SMS; a saved reply is true; what was announced is recorded | `CorePurchase` |
| Gateway in Core mode: `core/api/CorePaymentClient.js`, branches of the manager and coordinator | session, calls under way | the four calls, what follows their answers | an answer lost while the transaction commits | as above | `CorePurchase` |
| Core catalog: the Java package `catalog` | products, packages, prices | `createPrice`, the look-up of a price | two open prices at once, prices dated back | one price at a time | `PriceCatalog`; products and packages not modelled |
| Static price table, messages | none | pure | — | — | not modelled |
| Core tenants, internal auth | tenants | look-ups, token check | — | — | not modelled |

Interaction. WhatsApp hands a message to the coordinator, which parses it and calls the manager (`registerClaim`). The
phone posts an SMS to the server, which checks and parses it and calls the manager (`resolveWithRealTransaction`) or,
for a "Transferiste", the queue (`ackMatchingTransfer`). The manager and the queue announce outcomes on the `EventBus`
(`core/events/EventBus.js` catches and logs what a listener throws); the coordinator listens and moves the session.
Two timers in `index.js` sweep the manager and the queue. In Core mode the manager asks the Core instead of its store,
and the coordinator registers a command with the Core before it enqueues it.

The complete list of components, including those not modelled and why, and the list of hazards, each at its line, are
in `PROJECT.json`.

## 2. Modules

| Module | Models | Granularity |
|---|---|---|
| `SessionStates` | the states of `SessionState.js` and the transition table of `Session.js`; `Moved` is a transition that may throw | operators |
| `PurchaseFlow` | the whole local purchase: coordinator, manager, queue, memory or durable stores, restart | one handler, with the listeners it wakes, is one action |
| `PaymentPromise` | abstract: an order needs a claim, a report and equal amounts, once per payment | refined by `PurchaseFlow` |
| `Connection` | the gateway's one Redis connection: handlers take turns, a command each | shared by the next two |
| `PendingStore` | manager over `RedisPendingTransactionStore` | one Redis command is one action |
| `UssdQueue` | queue over `BullMqUssdCommandStore`, and the phone's endpoints | one Redis command is one action |
| `CorePurchase` | gateway in Core mode and the Core's transactions | one SQL statement that matters is one action |
| `RateLimiter` | `RateLimiter.allow` with the whole history of requests | one request |
| `MpesaParser` | `MpesaParser.parse` over the pieces its regular expressions look for | operators |
| `Intake` | from an HTTP request or a WhatsApp message to the transaction the payment logic gets; extends the two above | one request or message |
| `WhatsAppLink` | the provider's connection and its credentials, in a process that starts, crashes and is stopped | one event, or one await of `connect` or the reset |
| `PriceCatalog` | `createPrice` of one package | one SQL statement |
| `PurchaseFlow_proofs`, `PendingStore_proofs`, `UssdQueue_proofs`, `CorePurchase_proofs`, `WhatsAppLink_proofs`, `RateLimiter_proofs`, `Intake_proofs` | theorems on the module they extend | |
| `MC*` | instances for TLC | |

**How state and actions correspond.** Names follow the code. `PurchaseFlow.session` is `SessionManager`'s map,
`destReq` is `pendingDestinationRequests`, `pending`/`orphan`/`used` are the three collections of the pending store,
`commands` is the store of the queue with finished commands kept as history. `OnMessageReceived`,
`OnDestinationNumberReply`, `OnInvalidDestinationReply` are the branches of `#onMessageReceived`; `RegisterAndAdvance`
is `registerAndAdvance` with `registerClaim` inside it, split into its three outcomes (`RejectClaim`, `MatchOrphan`,
`KeepClaim`). Only `MatchOrphan` has a second half, `OnReplySent`: the code awaits the reply "claimRegistered" between
the two, and other handlers run meanwhile. `SmsReport`, `ExpireClaim`, `ExpireOrphan` are `resolveWithRealTransaction`
and `checkExpired`; `DequeueNext`, `Ack`, `CheckTimedOut` the methods of the queue, together with the coordinator's
reaction to what they announce. A transition that throws leaves the session alone, ends the handler, and leaves in
place what the handler did before it; so several actions have a consequence that happens only if `CanMove`.

`PendingStore` and `UssdQueue` hold each handler under way as a record: what kind it is, the command it sent (`at`)
and what it carries in its local variables, which is the state read before an await and used after it. `wire` is the
queue of those commands. `CorePurchase` holds in `call[s]` a call of the gateway and the transaction it started;
`heard` turns false when the gateway's five seconds are over while the transaction goes on; `unacked` notes the orders
one of whose acknowledgements broke down. A registration that commits inserts a row of its own
(`JdbcUssdRepository.insert`; the unique index is on *active* rows only), so `command[m]` is the sequence of the rows of
an order and `enqueued[m]` the rows the gateway was given; an acknowledgement is for one row.

`RateLimiter.hits` is the limiter's map of times, as positions in the history `requests`, so that what is kept can be
compared with what happened. `Intake.last` is the text that came in and what became of it: the properties compare what
the handler says with what was pasted or reported. In `WhatsAppLink`, `calls` are the `connect` and
`#resetAuthAndReconnect` under way with the await they are at, `sockets` those that have not said they closed, `disk`
is `authDir`; credentials are numbered by the pairing that made them.

### What the modules assume

* One gateway process with one Redis connection, as `index.js` builds it. ioredis sends commands in the order they are
  called and Redis answers in that order; a handler sends its next command when it has the answer, so handlers under
  way go round robin (`Connection`). A new handler may join at any time.
* `PurchaseFlow` takes a store as answering at once. That is exact for the memory stores; for the Redis stores it
  abstracts what `PendingStore` and `UssdQueue` model, and what those two find (section 6) is what the abstraction
  hides. Losses by a crash *inside* a handler are in `PendingStore`.
* A sweep ends before the next begins: `index.js` starts one every 5 s and it takes milliseconds.
* BullMQ is external. A list is a range of ids and then a read of every job, taken in one step because the reads are
  sent together; a job removed between the two makes the list throw. Two commands are never created in the same
  millisecond (the store sorts by `createdAt`).
* The phone may take a success for a failure (it then reports a failure for megas that went), never a failure for a
  success. `queue_phone` runs with two commands to one number that have no amount in common: commands that share a
  number and an amount cannot be told apart by the SMS, and the code lets either confirm the other. `Alike` says so, and
  `CompletedIsDelivered` and its theorem hold for any amounts.
* In `CorePurchase` a WhatsApp message is delivered to the gateway once, there is one valid device (the unique key of
  `payment_confirmations` is tenant, device and id, so that with two devices an id could be confirmed twice) and one
  instance, and the request fields are valid; the rows of `payment_claims` and audit events are left out, as they never make a
  transaction fail under those assumptions. `Announce` lets the queue announce both outcomes of a command, which
  `UssdQueue` shows possible.
* In `Intake` a text is a sequence of pieces ("Confirmado", "Recebeste", the footer, a number, words): white space,
  how amounts, names and dates are written, and the balance are left out. The SMS are those M-Pesa sends; a text is
  made of one, cut or whole, with words and numbers around it, or of two. An Authorization header is a value that
  presents a token (`Presents`), several may present one, and the limiter counts by the header as it is spelled, as
  `server.js:39` does. A time is an instant (a number, or a string with its zone), a string of `LOCAL_TIMESTAMP_REGEX`
  (read as Maputo's), another string without a zone (read in the server's zone, `ServerOffset`), unreadable, or missing.
* In `WhatsAppLink` a pairing by QR code makes new credentials and WhatsApp accepts those of the last pairing, until
  the reseller removes the device. The write of credentials and their deletion end. A shutdown closes the stores
  ("closing"), logs the socket out, which may start a reset ("leaving", `LogOut`), and stops the process at any point of
  that reset (`Exit`).
* A crash (`Crash` of `PendingStore` and `WhatsAppLink`) is outside the code: the process dies between two steps.
* In `PriceCatalog` a transaction reads what is committed when its statement begins, waits for rows another has
  updated and looks at them again, as PostgreSQL does at READ COMMITTED.
* Time is abstracted except in `RateLimiter`, `Intake` and `PriceCatalog`: a timer may find an entry overdue at any
  time after it was made.

Definitions named `X_Y` are `X` with a fault. No specification uses them; each is the plausible bug that one property
is known to catch.

## 3. Runs

| Run | Shows | Instance |
|---|---|---|
| `flow_rivals` | two customers, one claiming the other's payment; wrong amounts, a missing number, repeated SMS, retries, one restart with durable stores: a payment is ordered once, for a claim with its amount; commands are dispatched in order, bounded and end once; no request for a number is open that the customer was not asked, but the one noted while an earlier claim waits; nobody stays in PROCESSING; the flow implements `PaymentPromise` | 2 chats, 2 payments, 4 claims, 2 attempts, 1 restart: 167,010 states |
| `flow_patient` | customers who start a purchase after the last one ended: every matched payment is ordered and concludes; session and queue agree; waiting ends | 2 chats, 3 payments, 5 claims, 1 attempt: 169,272 states |
| `store_own` | one customer's repeated and mistaken claims, repeated SMS, sweep, crash: entries stay indexed, payment kept, waiting ends, no double order without overlap | 1 chat, 1 id, 3 claims sent, 2 reports, 3 handlers, 1 crash: 684,830 states |
| `queue_phone` | polls, answers, transfer SMS and timeouts cross: attempts bounded, order kept, success told only of a transfer, nothing dropped silently | 2 commands to one number, 2 attempts, 2 handlers |
| `queue_ends` | every command comes to an announced end though the phone may be silent | 1 command, 2 attempts, 3 handlers |
| `core_rivals` | rival claims, a second purchase and repeated SMS in concurrent transactions that fail, and that time out and go on: at most one order is served, after the SMS and with the right amount; used means delivered, and the order COMPLETED unless a failure was announced too; saved replies are true; what the phone announced is what the Core records, unless the acknowledgement was lost | 2 payments, 3 messages (two claim one payment, the third has a wrong amount), 2 chats, 2 reports of each SMS, 2 calls under way, symmetric: 1,956,479 states |
| `link` | one link at a time, a true status, valid credentials kept, a lost link comes back or asks for a pairing | 3 pairings, 3 drops of the network, any number of crashes, shutdowns, removals and failures: 1,552 states |
| `intake` | every request and text: no window exceeds the limit; a claim is the payment pasted and goes to a number that was added; a report counts exactly when it says a payment, in time, from a phone that may | 2 payments, 2 devices, 2 tokens and 3 headers (two spellings of one token), 2 requests per window of 2, 4 requests, times 0..2, skew 3, five forms of a time: 777,431 states |
| `flow_two_purchases`, `core_orphan`, `core_row`, `catalog` | disagreements, section 6 | the smallest instance that has the case |

**Why the bounds are enough.** The hazards are between two parties: two claims of one payment, a claim and an SMS, a
poll and a sweep. Two of each reach all of them; a third party adds no new comparison, since the code treats payments
independently except for the order of the queue (two commands) and the chat's session (two payments of one chat:
`flow_rivals`, `flow_patient`, `core_row`). `PendingStore` uses one id because every command touches the keys of one
id; only the listing of the sweep touches several, and it deals with them one after the other. Two attempts
distinguish "again" from "the last". In `store_own` three handlers let the sweep run between a claim and an SMS; in
`queue_phone` two do for the pairs (poll, sweep), (poll, ack), (ack, sweep) and the rest, since a handler that ends
makes room for the next. Reports are bounded by 2: the first and a repeat. In
`core_rivals` the second payment brings a served customer back to waiting, so that a repeated SMS of the first one
registers again, and a registration that timed out adds a second row to an order; the calls under way are told apart by
their place only, so they are permuted (`SYMMETRY`; the run checks no liveness). In `link` the second pairing has old
credentials to get rid of and the third comes after a second logout; a drop can fall into each stage of a link, a
reset and a restart. In `intake` four requests of a key fill a window, are refused in it, and are allowed again after
it; the times of an SMS are at the skew and one beyond it, past and future, and the offset of the phone's clock is larger than the
skew, as two hours are larger than five minutes. Two payments are enough for one to be taken for the other.

`CHECK_DEADLOCK FALSE` is given where the system does stop: the bounded customers have sent everything and all is told
(`core_*`, `store_own`), all prices are created (`catalog`), or, with a bounded number of handlers, only for that
bound (`queue_*`).

## 4. Fairness

* `PurchaseFlow`: replies end (`OnReplySent`: `await` of a send that resolves or rejects, and a rejection is caught);
  the timers of `index.js` call `checkExpired` and `checkTimedOut` for ever, so an overdue claim or command is found;
  the phone polls in a loop (`DequeueNext`). `Ack`, `SmsReport` and all actions of the customer are *not* fair: the
  phone may never answer, the SMS never come.
* `PendingStore`, `UssdQueue`: Redis answers (`Command`), timers fire, time passes; the phone polls but need neither
  transfer nor answer. Strong fairness is used for actions that other handlers may disable for a moment: starting a
  sweep or a poll, which need a place on the bounded wire (the real connection has no such bound), and `TimePasses`,
  which a step may interrupt though a clock is not interrupted.
* `WhatsAppLink`: every await of `connect` and of the reset ends, sockets of accepted credentials open, and deletions
  may fail but not for ever (strong fairness on the one that succeeds). Scanning a QR code, drops of the network,
  crashes and the removal of the device are not fair; drops are bounded, since a network that drops for ever never
  lets a link up.
* `RateLimiter`, `Intake`, `PriceCatalog` have no liveness to state: a request is answered when it is handled.
* `CorePurchase` states no liveness: in Core mode a claim is not kept in the gateway's store, so `checkExpired` never
  finds it, and the Core has no timer of its own.

## 5. Proofs

Everything below is proved for all constants that satisfy the named assumptions of the modules, and what is listed as
a property of a run is the very definition the run checks.

### The purchase: `PurchaseFlow_proofs`

* `TypeCorrect`: `Spec => []TypeOK`.
* `OrderedOnce`: if the used ids survive restarts (`UsedSurvives`), `Spec => [](StoresExclusive /\ Evidence /\
  OneCommandPerPayment)`; `StoresStayExclusive` and `EvidenceIsKept` give its first two parts. Without the assumption
  it is false: with `PENDING_TRANSACTION_STORE=memory` a restart forgets the used ids, and a repeated claim with a
  repeated SMS is ordered again.
* `RetriesBounded`: `Spec => []AttemptsBounded`.
* `ImplementsPromise`: under `UsedSurvives`, `Spec => KeepsPromise`, the refinement of `PaymentPromise`.
* `FirstPaidFirst` (`FirstPaidFirstDispatched`), `OutcomesAreFinal` (`EndsOnce`, an action property) and
  `ProcessingIsServed` (`ProcessingHasCommand`), without assumptions: any restarts, customers and stores.
* `UsedAreOrdered` (`UsedIsOrdered`) and `SessionsTrackQueue` (`SessionTracksQueue`), if customers start a purchase when
  the last has ended (`Patient`) and a restart does not part the stores from the sessions (`Fresh`: nothing is durable,
  or there is no restart). Both are needed: `flow_two_purchases` refutes `UsedIsOrdered` of impatient customers, and
  after a restart with durable stores a live command has no session, since sessions are in memory.
* `RequestsAreAsked` (`RequestedIsAsked`, an action property), without assumptions: whenever a request for a number is
  open after a step, the customer is in AWAITING_DESTINATION_NUMBER, or the request was open and not asked before, or it
  was noted in that step while she was in AWAITING_VERIFICATION. The last is the case where the code notes the request
  before a transition that throws; the property says that it is the only one, and `OwnRequest` and `OthersLeaveAsked`
  that nobody else's steps disturb a question that was asked.

"Ordered once" is not inductive: a step that orders a claim must know that its payment was not ordered before. The
strengthening `Settlement` adds where the evidence of a payment is. `Evidence` says an ordered id is used and that a
claim in `replying` is the only one of its payment, used and not yet ordered; `StoresExclusive` says a used id has no
claim waiting. Then an SMS that meets a waiting claim meets one whose id is not used, hence not ordered; a claim that
meets an orphan is refused if its id is used; and the second half of a verified claim finds its payment unordered. The
lemmas follow the helpers of the model (`AdvanceOnce`, `RegisterSettlement`, `QueueSettlement`), `SettlementStep` has
one step per action. The refinement uses `Settlement` as invariant: a step either appends one order, which is `Buy`,
or changes the history monotonically, which stutters in `bought`.

The theorems about the queue rest on `QueueStep`: whichever handler acts, commands and sessions either stay, or gain
one command with its session PROCESSING, or one command is dispatched, retried or ended, or the gateway restarts
(`QueueSteps` has one step per action, and each invariant then a step per kind). `FirstPaidFirstDispatched` needs that a
command dispatched once has attempts above zero, retried or ended (`QueueOrder`); a command that a restart forgets is
`LOST` and has no place in the order. For patient customers the invariant is `OneThing`: a customer has one thing under
way, a question asked (`AskedOnly`), a claim waiting or about to be ordered (`WaitingOnly`), or a live command
(`ServedOnly`), and her session shows which; so `advanceToProcessing` finds a session that can move.

### The store of pending transactions: `PendingStore_proofs`

For any chats, payments, claims, reports, crashes and handlers under way; the only assumption is that the constant
`None` is no entry and no id (`NoneAssumption`).

* `StoreTypeCorrect` (`TypeOK`), from `Typed`: which commands a handler of each kind can be at, and what it carries.
* `IndexKept` (`OnlyCrashUnindexes`, an action property): handlers take turns on the one connection, so a handler that
  goes on to SREM an id found or left its entry gone, and whoever stored an entry since then is *behind* it on the wire
  with its SADD (`Behind`). This is where the round robin is needed: with two connections the SADD could overtake.
* `PaymentsAreKept` (`PaymentKept`): unless there was a crash, a payment the phone was told is accepted is used, closed
  aloud, stored or in the hands of a handler; `KeptInv` adds those whose answer is on its way.
* `OrdersAreSingle` (`OrderedOnce`): for a payment none of whose handlers overlapped, `Once` says at which commands the
  one handler may be when the payment is used, that what it found missing is still missing, and what is booked of it.

### The Core: `CorePurchase_proofs`

`CoreTypeCorrect`, `OnlyOneServed` (`OneCustomerServed`), `CommandsArePaid` (`PaidBeforeCommand`) and `RepliesAreTrue` (`SavedReplyIsTrue`), for any messages, payments, contexts and calls under
way. All follow from `CoreInvariant`. Rows are written by transactions that read them earlier, so `CoreInv` says of
every call what it knows at the stage it has reached (`CallOK`): a register that got beyond its look-up has a verified
payment of its own order; a verified claim or SMS has an order with the right amount; an acknowledgement has a
command. This stays true while others commit because commits only let rows grow: a payment keeps its order, a
confirmation or a command is never taken back. The exception is the first row of a payment, which two transactions may
both find missing; `Exclusive` says that of those that have inserted it one is under way, which is the unique
constraint of `payments`. One customer is served because a command's payment has the command's own order
(`CommandOK`), and a payment has one order.

`OutcomesAreRecorded` (`AnnouncedIsRecorded`) and `UsedByDelivery` (`UsedIsDelivered`) need a second invariant, `RecordInv`, on top. `Heard`: an announced
outcome has its acknowledgement under way, or one of the order broke down, or its row has an outcome. `Recorded`: a row
that is not PENDING, and the order, have outcomes that were announced, and a delivery has used its payment. What could
turn a used payment back is an update that looks at no status: a confirmation that read CLAIMED long ago, or a claim
that read ORPHAN. `OneConfirms` and `VerifiesFirst` exclude them: a confirmation that reaches its commit is the first of
its payment (the unique constraint of `payment_confirmations`), and an orphan belongs to no order (`OrphansAreFree`), so
it has no command to acknowledge. The theorem rests on each registration having a row of its own: with one command per
order it would be false, since a registration that timed out may commit after another one was delivered, and would
reset it (`CommitRegister_SameRow` is that fault, and `core_rivals` notices it). `UsedByDelivery` adds
`UsedOrderEnded`: the order of a used payment has a row with its outcome, so `Recorded` says what became of the order.

### The queue: `UssdQueue_proofs`

* `QueueTypeCorrect`, and `ToldIsDelivered` (`CompletedIsDelivered`), without assumptions on the amounts: success is
  told of a command only if its own megas went, or those of a command to the same number with an amount in common. From
  `Truthful`: every success a handler under way is going to announce is of such megas, and so are the phone's answers
  and receipts.
* `HandedOutBounded` (`HandedBounded`) and `NoneLeavesUnannounced` (`LeavesAnnounced`) under `OnePoll`: a poll begins
  only when the last was answered, as a sequential Tasker loop does. From `Books`: a handler that has read a command
  and not yet saved or removed it *holds* it (`Held`). Nobody else holds what one holds (`Apart`), and the job is as
  it was read or gone (`HandlerKnows`): a poll takes what is PENDING, which a sweep, holding only what was dispatched,
  cannot hold; a sweep takes what is late, which a poll cannot hold; answers and receipts remove without holding, and
  a held job that is gone is put back with the attempts it had. So the attempts of a job, stored or in hand, are never
  below the times it was handed out (`JobOK`, `Late`). Without `OnePoll` two polls may hold one command, and it is
  handed out twice.
* `HandedInOrder` (`FirstEnqueuedFirstHanded`), without `OnePoll`. From `Ordered`: no enqueued command is forgotten
  (`NoneForgotten`: stored, once handed out, or its enqueue is under way), none is stored before an earlier one
  (`StoredInOrder`), everything that was dispatched, is on the phone or is answered was out (`WasOut`), and a handler
  carries only what keeps to this (`CarriedInOrder`): a poll takes a command when all earlier ones were out, and
  enqueues under way reach the store in the order of their turns (`InLine`).

### The link: `WhatsAppLink_proofs`

`LinkTypeCorrect` (`TypeOK`), `LinkIsOne` (`OneLink`), `StatusIsTrue` (`StatusTrue`) and `CredentialsKept` (`CredsKept`,
an action property), for any number of pairings, drops, crashes and restarts. The invariant `Good` names the few shapes
the link can have: the process is down, or it holds one socket, or one call of `connect` or `#resetAuthAndReconnect`, or
it has given up. It says of each which credentials it has: a new socket has those on disk, an open one those of the last
pairing, and a reset is under way only when WhatsApp accepts neither those on disk nor those being written there.

### The limiter: `RateLimiter_proofs`, `Intake_proofs`

`WindowBounded` (`WindowBound`) and `CountsWhatWasAllowed` for the limiter by itself: the kept times are exactly the
allowed requests of the last window (`Kept`), so a request that is allowed is allowed by its whole history, and any
window that contains it contains at most the limit. `ServerLimits` shows that `Intake` implements `LimiterSpec`,
whence `ServerWindowBounded`: the bound is per device and
spelling of the Authorization header, the key of `server.js:39`. `taskerAuth.js:18` accepts several spellings of one
token, and each has a window of its own.

### The texts: `Intake_proofs`

`ClaimsArePayments` (`ClaimIsPayment`) and `ReportsArePayments` (`ReportIsPayment`), for any payments, amounts, devices,
numbers, skew and time zone. The parser goes by where a piece is found first, so both rest on `FirstPiece`: `First` is
the least place of a piece of the kind (that there is one is `Smallest`, from the well-foundedness of `<`), or 0 if
there is none. `Plain` is what is kept from how the texts are put together: what was paid has the amount of a payment
whose id was pasted, and a transfer stands behind a footer only if two payments were pasted; with one payment pasted,
therefore, the footer ends what the SMS says and a number after it is the customer's. `ParsedPayment` and
`ParsedDestination` draw the claim from it. For a report `SmsParsed` and `OthersParsed` say what the parser makes of an
SMS and of what is no whole SMS, and `BodyTaken` that a body is taken exactly when it is in time and about a payment.
`ValuesAssumption` keeps values apart that have different types in the code (no id, amount or SMS is null, an amount
that cannot be read is no amount) and makes the skew and the offset of the time zone whole numbers.

### Only model-checked

* All liveness (`PaidConcludes`, `WaitingEnds`, `ProcessingEnds` and those of `PendingStore`, `UssdQueue` and
  `WhatsAppLink`): it rests on fairness, that is on ENABLED.
* The four properties the code does not keep (section 6), which are refuted and not proved.

## 6. Where code and documentation disagree

Every item is a run that TLC ends with a counterexample.

1. `flow_two_purchases` — a second transfer confirmed while the first is being delivered is marked used and lost:
   `PROCESSING -> PROCESSING` throws in `advanceToProcessing` and `EventBus` logs it. `Session.js:9` calls two
   transfers in a row perfectly normal.
2. `core_orphan` — in Core mode a claim that finds its SMS waiting verifies the payment without linking it to the
   order, so no command can be registered; `docs/domain-model.md:334`. The unit test's fake repository does link it.
3. `core_row` — a repeated SMS of a delivered payment replays "verified" and the saved command; if its customer waits
   for another verification the first purchase is delivered again; `docs/domain-model.md:362`.
4. `catalog` — a price dated back before the current one, or two for one instant, leave two current prices of a
   package, and which of them counts is left to the order of the rows; `docs/domain-model.md:193` says that closing
   the open prices avoids this.

**Known limits.** `megasaas/ARCHITECTURE.md:126` says that several steps of the Redis stores need a lock that is not
there yet. It shows in three places, which the models avoid by an assumption instead of stating them as disagreements:
two chats that claim one payment while their handlers overlap (`store_own` has one chat), a claim and its SMS whose
handlers overlap and miss each other, and a poll that is repeated before the first is answered (`OnePoll`). Also seen:
a crash after DEL and before `markUsed` loses both sides of a match, for which reason `PaymentKept` is stated without
crashes; a SIGTERM logs the device out of WhatsApp, so every restart asks for the QR code again (`CredsKept` excludes
the deletion that this logout may start); of two SMS pasted into one message the "para" number of the second is taken as destination (`ClaimIsPayment` is
about one SMS); the phone's polls and its SMS share one window of the limiter, so a fast poll can make an SMS a 429;
a claim refused while the session is COMPLETED or AWAITING_DESTINATION_NUMBER is answered by nothing, since the
transition to NOT_FOUND throws before the reply (`PurchaseFlowCoordinator.js:213`).

## 7. Not modelled

* The static price table and the delivery amount: a look-up without state; an amount is a value in the models.
* The wording of messages. That a message is sent, or fails to be, is part of the handlers.
* Of the provider, `sendText` beyond the status it looks at: a reply is an await that ends at any later time.
* Core tenants and the internal token check: look-ups without state; every model has one tenant. Products and packages
  of the catalog: rows created and updated one at a time.
* Of the Core's payments: validation of request fields, device and instance checks, the package resolved by amount,
  audit events.
* Configuration (the environment `index.js` reads): the models take its values as constants.

## 8. Plan

Done: `SessionStates`, `PurchaseFlow`, `PendingStore`, `UssdQueue`, `CorePurchase`, `RateLimiter`, `MpesaParser`,
`Intake`, `WhatsAppLink`, `PriceCatalog`, from what a purchase must keep to what surrounds it; the proofs of section
5.

Next: an abstract specification of the queue (a command is waiting, in the phone's hands or ended), refined by
`UssdQueue`, and one of the Core's payments (`docs/domain-model.md:331-354`), refined by `CorePurchase`, each with the
proof that every step maps to a step or a stutter.
