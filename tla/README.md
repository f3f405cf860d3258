# Verification of go-connector

This directory holds TLA+ models of the Stratumn connector, the TLC configurations
that check them on small instances, and TLAPS proofs for all instances.  Source
paths are relative to the repository; `livesync.go`, `query.go`, `cursor.go` and
`service.go` without a directory are those of `services/livesync/`.

## 1. Inventory

The connector is one Go process.  A service manager (go-node, not in the
repository) plugs the services into each other and runs each in a goroutine.

| Component | State | Operations | Talks to |
|---|---|---|---|
| livesync synchronizer (`livesync.go`, `query.go`) | `workflowStates` (ID and cursor of each synced workflow), `registeredServices` (channel and per-workflow cursors of each listener) | `Register`, `pollAndNotify`, `closeListeners` | calls the client, sends to listeners over unbuffered channels |
| livesync service (`service.go`) | ticker, the synchronizer | `Plug` (new synchronizer), `Run` | the manager, the synchronizer |
| cursors (`cursor.go`) | none | `parseCursor`, `CompareCursors` | called by `Register` and `pollAndNotify` |
| parser (`services/parser`) | the key/value store | `run`, `saveLinks` | registers with livesync, writes a store |
| bleveparser (`services/bleveparser`) | the bleve index | `run`, `saveSegments`, `indexLink` | registers with livesync, writes the index |
| client, Trace part (`services/client/trace.go`, `client.go`) | none | `CallTraceGql`, `decryptLinks`, `CreateLink(s)`, `SignLink`, `GetRecipientsPublicKeys` | the Trace API over HTTP, decryption |
| client, Account part (`services/client/account.go`) | `authToken` | `login`, `checkAndRenewToken` | the Account API, every caller of the client |
| decryption (`services/decryption`) | the key pair | `DecryptLink`, `DecryptLinks`, `DecryptLinkData` | the client |
| chainscript (`lib/chainscript`) | none | `NewLink`, `EncryptLink` | programs built on the connector |
| stores (`services/memorystore`, `services/blevestore`) | the data | open, `Put`, `Batch` | the parsers, search |
| search (`services/search`) | none | `Search` | the index |
| auth (`lib/auth`) | none | `WithAuth`, `checkAuth` | the Account API |
| logging (`services/logging`) | logrus' global hooks | `SetConfig`, `Fire` | every service |
| main (`main.go`) | the context of the running core | boot, reload on SIGHUP | the manager |

What is hard here:

- **Interleaving.**  Nothing locks the synchronizer.  The poller ranges over the two
  slices and writes cursors while registering goroutines append to the slices and
  write the same cursors.
- **Shared memory.**  The segments sent to a listener point into the response
  variable into which the next page is decoded.
- **Blocking.**  A send waits for its listener, whatever happened to it, and holds
  up all the others and the shutdown.
- **Two orders of cursors.**  `Register` compares cursors as base64 text and then by
  index; `pollAndNotify` by index; `Slice` by equality.
- **Failure.**  Calls fail between two pages, stores fail between two links,
  contexts are cancelled at any time, the API answers null.
- **A token without a lock.**  All goroutines read and write the client's token, which
  expires; they log in over each other.
- **Work in place.**  Encrypting, signing and decrypting change the link they are given,
  and each of their errors leaves it half-way.
- **Reloads.**  The services are values of a package variable and live through a SIGHUP:
  what a `Plug` or a `Run` does not set is what the boot before left.

What makes the components correct: a listener receives each link of a workflow it
follows once, in order, with none left out, from the position it asked for; links
reach the listeners in the end; a listener keeps every link under its own hash; a
shutdown ends, for everybody; a call goes out with a token that has time left; a link
that Trace accepted has one signature, and can be read by those it was made for; a
reload leaves nothing of the boot before.  Section 4 says which of these hold, and under
which conditions.

`PROJECT.json` lists the hazards with their source lines.

## 2. Modules

| Module | What it models | Used by |
|---|---|---|
| `Cursors` | a relay cursor by its index (0 for the empty string, two unreadable texts from `service_test.go`), and its two orders: `StringLess` (Go's string order, on the base64 text that the index really has) and `CompareCursors`.  `Lowers` is the guard of the rewind in `Register` | `Livesync` extends it |
| `Livesync` | the core: the poller, the goroutines that register and receive, the Trace API, the contexts | |
| `LivesyncFeed` | what livesync promises to a listener, without poller, page, batch or cursor: a sequence of links, each the next one, which starts where the registration fixes it | |
| `LivesyncRefinement` | `Livesync` with `Feed == INSTANCE LivesyncFeed WITH published <- links, feed <- received, start <- promised`: what a listener received is its feed.  `FeedSpec` says that each step of livesync is a step of the feed or none | `MCLivesync` extends it |
| `Replication` | the links that `Livesync` treats as numbers: the objects the pages are decoded into, the copies decryption makes, what a parser and a bleveparser store while the poller goes on | |
| `Client` | the token of the client: `checkAndRenewToken`, `login`, `callGqlEndpoint` for any number of goroutines | |
| `Links` | the life of a link: the keys of its recipients, `NewLink`, `EncryptLink`, `SignLink`, `CreateLink(s)`, `CallTraceGql` with its decryption, `DecryptLinks` | |
| `Lifecycle` | the process: boots, SIGHUP, crashes; what each service holds of the others; an abstract livesync with its two parsers, the stores and Search; the hooks of the logger | |
| `...Proofs` | the theorems about `Cursors`, `Livesync`, `Replication`, `Client`, `Links`, `Lifecycle`; `LinksCopiesProofs` has those about what decryption and `NewLink` make of accepted links, `LivesyncRefinementProofs` those about `FeedSpec` | |
| `MC...` | the values of the constants for TLC | |

`Lifecycle` composes the components at the level of pages: its synchronizer sends each page
whole to the listeners it had when it got the page, which is what `Livesync` does for
those that register with nil and are not dropped.

### How the state corresponds to the code

| `Livesync` | code |
|---|---|
| `workflowStates`, `cursor` | `synchronizer.workflowStates`: a sequence of pointers, and what they point to.  A pointer is named by who made it (`Config`, or the service that appended it) and its workflow |
| `registeredServices`, `states` | `synchronizer.registeredServices` and `listener.states`; `None` means no entry for the workflow |
| `svc`, `request`, `left`, `header` | the program counter and the locals of a goroutine in `Register` and in its receive loop; `header` is the slice it has read and will store, or the pointer it will write through |
| `pc`, `todo`, `after`, `page`, `toNotify`, `batch` | the program counter and the locals of `Run` and `pollAndNotify`: what `range` has yet to visit, `variables["cursor"]`, `rsp`, the value being sent |
| `closed`, `ctxDone` | closed channels, livesync's cancelled context |
| `links` | the Trace API: how many links each workflow has |
| `received`, `promised` | history variables of the properties; no action reads them |

One action is one step between two points where another goroutine can be seen:
a read of a shared slice or cursor, a write of one, an API call, a channel operation.

- `Register` (`livesync.go:74-102`) is `StartRegister`, then for each entry
  `RegisterSynced` and, if the guards say so, `LowerCursor`, or `RegisterNew` and
  `AppendWorkflow`; then `BuildListener` and `AddListener`.  Reading a slice and storing
  the appended one are two steps.  An append that raced stores either what it read plus
  its element, or, when both slices share their backing array, what is there now plus
  its element: the new slice extends one of two values, chosen freely.
- `pollAndNotify` (`livesync.go:105-157`) is `Tick`; per workflow `NextWorkflow`; per page
  `CallAPI` and one of `APIPage`, `APIFails`, `APINull`, `APIBadHash`; per listener
  `SkipListener`, or `SliceForListener`, `Deliver` and `Sent`; and the ends of the loops.
- The receive loops of the two parsers are `Deliver` (the receive), `Saved`, `SaveFails`,
  `Leave` (own context) and `ChannelClosed`.

`Replication` names a `Link` object by its address in `heap`; `raw` is the list of
pointers in `rsp`'s edges.  `Decode` follows `encoding/json`: an element that the slice
already has keeps its pointer, the pointer keeps its object, and fields the text does not
mention keep their values (`Merge`).  `Decrypt` replaces the pointers of the links it can
decrypt by pointers to copies (`trace.go:96-130`).  `Put`, `Marshal`, `IndexLink`,
`CommitBatch` are the listeners, which read an object when they get to it.

`Client` has one `authToken` for all callers.  A call (`pc[c]`) reads it up to three times:
is there one (`HasToken`, `HasNoToken`), when does it expire (`ParseFails`, `TokenIsValid`,
`TokenExpires`), and what goes into the header (`SetHeader`).  A login takes from `loginAt`
to `AccountAnswers` and is stored by `StoreToken`; other calls may store theirs at any of
these points.  A token is the time it expires at; `answer`, `bearer` and `checkedAt` are the
locals of a call and the history of its check.

`Links` has the `links` of an application, as it holds them: data is a form under layers of
encryption, each with its AES key, and `ring` is the metadata's encrypted key with the
recipients it was encrypted for.  `EncryptLinkFails` and `CreateLinksFails` leave the link
as the error exits of `chainscript.go:87-118` and `trace.go:212-236` do.  `trace` is what
Trace accepted.  `page` is an answer: a sequence of Go values, each with the values it is in
(`in`), its `kind`, and the link it has as `raw`, with the `hash` beside it, or as `data`
(with its metadata).  `decryptLinks` goes through it (`trace.go:48-93`), and what it does not
descend into (a pointer to a pointer, a pointer in an interface, an array) is a value of kind
`other`, whose contents are not `Reached`.  `parseAndDecryptLink` gives up where the unmarshal
fails, does `raw` first, and leaves the data alone when `raw` fails (`trace.go:109-151`).
`DecryptLinkOK` has the errors of `decryptor.go:84-110`; `HasData` is `ErrNoData`.
`readers`, `steady`, `failed` and `changed` are history.  The group of the workflow changes at
any time (`Join`, `Leave`, `NewKey`).

In `Lifecycle` an object (a decryptor, a client, a synchronizer, a store) is `New`, of this
boot, or `Old`, of one before: `made[s]` is what service `s` exposes and `field[<<s, d>>]` what
`s` holds of `d`.  `CancelBoot` and `Reload` are the loop of `main.go:108-118` up to the files.
`Reload` (and a new process) drops the hooks of the logger, `AddHook` and `LoadConfigFails`
are the loop of `SetConfig` (`logging.go:114-155`) over the writers, `BootStarts` is
`go start()`; a hook is named by its boot and the position of its writer.  `Start...` is a
`Plug` with the `Run` up to its wait; `StartFails` is the panic of `start`.  `Crash` is the
end of the process at any moment, and `Restart` a new process.  `memory`, `index`, `disk`
are the stores, `onDisk` the stores that hold the index open.

`sync` is the synchronizer and `parser[p]` the goroutine of a parser.  It registers in two
steps, like `Livesync`'s: `ReadListeners`, and `AddListener`, which stores the listeners it
read and itself, over one that the other parser may have added meanwhile
(`livesync.go:96-100`).  `Poll` gets a page, of any length, after the cursor; `Receive` is the
hand-over through the unbuffered channel, after which livesync and the parser go on
independently; `SaveLink` puts one link, `SaveSegments` indexes a batch, and `SaveFails` ends
the service with an error, after any number of links.  `Found` is an answer of `Search`: of
more than `MaxHits` matching links it has `MaxHits`, any of them.

## 3. Abstractions

- A link is its position in its workflow, a batch is an interval of positions.
- Two API facts are taken from how the code uses it: `links(after, first)` returns the
  links after the cursor in order, and the `endCursor` of a page is that of its last
  link.  Which workflows are answered with null is fixed (`Unknown`).
- The cursor text is computed for real in `Cursors`.  The runs of `Livesync` use indexes
  up to 3, where the two orders agree, except `rewind`, which goes to 5 to show that
  they do not.
- An append that overwrites an array element the poller is ranging over is the same as
  the append happening just before the `range`.  Torn reads of a slice header or a
  string, which the Go memory model allows in a racy program, are left out.
- `go-chainscript`'s `Link` is taken to have no `UnmarshalJSON` of its own.  A link that
  decryption finds in the clear is copied like one that it decrypts, and belongs to
  `Readable`.
- The Account API signs tokens that live for `Lifetime` seconds from its answer; both APIs
  have the connector's clock.  Only HTTP takes time: the clock does not pass a login that
  is due, because the HTTP client gives up.
- Ciphers are abstracted to which key opens which layer; a signature is the content it
  signs.  Tags, references and process state of links are left out, and so are the Go types
  of an answer: of each value the model keeps whether `decryptLinks` descends into it, and
  what it has as `raw` and as `data`.
- The manager of go-node is taken to do what `main.go` and the services expect of it: plug
  a service when all its `Needs` run, give it what they expose, cancel all together, and
  return from `Boot` when all have stopped.
- Logging of events, wording and file formats are left out.

Bounds, all named: `MaxLinks`, `MaxFailures` (answers with an error, which leave
unreachable objects in `heap`), `MaxTime`, `MaxBadAnswers`, `MaxEncryptions`, `MaxAccepted`,
`MaxChanges`, `MaxBoots`, `MaxHits` (1 in place of 10), and the sets of services, callers, owners, workflows, requests
and configuration files.  `Pagination` is 1 or 2 in place of 50, so that two or three links
make several pages.

## 4. Runs

| Run | Specification and instance | Checks |
|---|---|---|
| `cursors` | all triples of 15 cursors: indexes 1 to 109 around changes in the number of digits and in the base64 alignment, the empty cursor, two unreadable texts | `ComparesByIndex`, `RewindsGoBack` |
| `livesync_parsers` | `FairSpec`: the parser and the bleveparser (nil registrations), free interleaving, 1 workflow, 2 links, pages of 1 | `DeliveryInv`, `FeedSpec`, `Replicated`, `ShutdownCompletes`, `ListenersEnd` |
| `livesync_registrations` | `QuietSpec`: two services, 3 workflows of which one is watched and one unknown to the API, 7 kinds of request, 3 links, pages of 2; services are symmetric | `TypeOK`, `InOrder`, `FeedSpec` |
| `replication` | a parser and a bleveparser, 5 links in pages of 2 (three pages), two readable links, two links with a parent; at one place of the pages an object is decoded into three times, at the other a decrypted copy is decoded over | `TypeOK`, `FaithfulUnlessReused`, `AtMostOnePageAhead`, `NothingSkipped` |
| `client` | `FairSpec`: 2 goroutines, tokens of 3 s, logins of up to 1 s, a clock of 6 s (two renewals), one answer without a readable token | `TypeOK`, `RejectedOnlyIfSlow`, `NoNeedlessLogin`, `ServedUnlessUnreadable` |
| `links` | two owners, one change of the group, two links, two encryptions, two accepted versions; a form that reads as bytes, one that does not, and no data; answers with a link as `raw`, as `data`, or both, and another one in a slice or out of reach | `TypeOK`, `MembersCanRead`, `SentAsSigned`, `CopiesAreFaithful`, `NothingLeftEncrypted`, `DecryptedIsClear`, `ParentIsKnown` |
| `lifecycle` | `FairSpec`: 3 boots, 4 configuration files (with and without decryption, on disk and in memory, keys that cannot be parsed, a writer that cannot be made), 2 links, answers of at most 1 hit | `TypeOK`, `CurrentWiring`, `PolledIsStored`, `LinesWrittenOnce`, `ReloadTakesEffect` |
| `rewind` | `QuietSpec`, 5 links in one page, a request for index 3 | `StartsAtRequest` is violated |
| `shutdown` | `FairSpec`, one service | `ShutdownReturns` is violated |
| `unknown` | `FairSpec`, two watched workflows, one unknown | `KeepsPolling` is violated |
| `stored` | as `replication` | `StoredUnderItsHash` is violated |
| `stale_decryptor` | as `lifecycle`, without fairness | `ConfiguredDecryptor` is violated |

Why the instances are large enough: two listeners are what racing appends and
head-of-line blocking need, two pages are what the sticky cursor and the page boundary
need, and three are what tells a listener that is one page behind from one that is two.
Two workflows, one watched and one appended by a registration, show everything the outer
loop of the poller does.  Two goroutines are what a login over another needs, and the clock
reaches the second expiry.  Two links are a parent and a child; two accepted versions are
what a retry, and an answer with two links, need; two layers are what a repeated encryption
makes.  Three boots let an object of the first be met in the second and in the third, after
a boot that did not set it.  Two links and answers of at most one hit (`MaxHits`; bleve's
default is 10) make answers that are full and answers that are not.  A value in a value in a
value is what tells an object that `decryptLinks` reaches from one it does not.

Deadlock is not checked: livesync stops when its contexts are cancelled (and the send to a
listener that left is a stop of its own kind, which `ShutdownCompletes` names), a process
ends, and the other models run into their bounds.

### What the passing runs show

- With the services of this repository, delivery is a contiguous feed (`FeedSpec`) under
  any interleaving, and every link is delivered in the end (`Replicated`), with three
  exceptions that the property names: livesync stopped, some listener left, or a racing
  append dropped the listener.
- When livesync ends, so does everyone who had registered before (`ListenersEnd`), but for
  the listener dropped by a racing append and for who waits behind one that left.
- With explicit registrations that do not race with a poll, cursors that are moved back
  lose and repeat nothing for anybody.
- A link whose object was decoded into only once is stored and indexed faithfully; for
  the others, what is stored under a hash comes from that link or from the link at the
  same place one page later, never from further away, because channels have no buffer.
- The margin of one second in `checkAndRenewToken` survives all races on `authToken`: a
  request is rejected for its age only two seconds or more after its check.  A race can
  set the token back by at most the time a login takes.  A token that cannot be parsed is
  the one thing the client does not recover from (`account.go:83`).
- Whoever stays in the workflow with the same key from the fetch of the keys to the
  encryption can read the link; decryption, in whatever order and however often, only takes
  layers off, and finds all there is to decrypt in an answer, whatever fails before.  The
  exceptions are named in the properties: data of an `EncryptLink` that failed, links
  encrypted twice, forms that read as bytes, links decrypted to nothing (which a second
  call refuses with `ErrNoData`), and the parent hash that `NewLink` computes of a decrypted
  link.
- What Trace accepted has one signature of the connector, over that very content, so a call
  that is repeated sends what the first one sent (`SentAsSigned`); but for a link that the
  application encrypts or repairs after a call had signed it, which goes out under the
  signature of what it was then: `SignLink` looks at whose signature there is, not at what
  it signs (`trace.go:230`).
- After any reloads and crashes a running service holds what this boot made, a log line is
  written once, and a signal leads to a boot with the files of that moment, unless livesync
  hangs in a send or the index is still locked by the boot before.
- A parser that registered before the first poll, and that a racing registration did not
  drop, has stored all that was polled but what it was not sent yet or is saving, as long
  as no store fails (which ends it); Search finds it, up to the limit of an answer.

Two comments of the repository say otherwise than the code does in what these runs show:

- `links`: "the keys are cached for `keyRefreshInterval` minutes" (`trace.go:270`).  Nothing
  caches them: `GetRecipientsPublicKeys` calls Trace each time, and no setting has that
  name.  `MembersCanRead` holds because of it; the cache of the comment would break it, for
  owners who joined or changed their key.
- `lifecycle`: "Search searches for all the links that contain a given string"
  (`searcher.go:27`).  The request is left at bleve's default size (`searcher.go:34`), so an
  answer has at most 10 of them, and the others cannot be asked for.

### What the violations show

Each refutes what a comment, a description or a test of the repository says.

- `rewind`: index 4 has a smaller base64 text than index 3 (`Iiw0` and `Iiwz`).  A
  listener that asks for the links after 3 when livesync is at 4 is not served link 4:
  `strings.Compare` (`livesync.go:78`) says that nothing has to be moved back.
- `shutdown`: a listener leaves while the poller is sending to it.  The send
  (`livesync.go:149`) selects on no context, so `Run` never returns.
- `unknown`: `HasNextPage` is set before the loop (`livesync.go:113`) and a null workflow
  leaves it set.  The poller asks for ever, and no other workflow is polled.
- `stored`: with a backlog of more than a page, the second page is decoded over the links
  of the first, which the parser may not have stored yet.  A hash gets the content of
  another link, with those optional fields of its own that the other does not mention.
- `stale_decryptor`: `Plug` of the client returns before it sets the decryptor when the
  configuration names no decryption service (`client/service.go:97`).  After a reload that
  takes the name away, the new client still has the decryptor of the boot before.

### Fairness

Of `Livesync`:

- `WF(pollAndNotify)` and weak fairness of registered goroutines: goroutines that can run
  are scheduled.  A service need not start to register, and need not leave.
- `SF(APIPage /\ Current.ID = w)`: the API does not fail for ever on the calls for a
  workflow.  An API that always fails would refute liveness for a reason outside the
  program.  `APIBadHash` has no fairness and stays possible.
- `SF(Stop)`: Go's `select` picks at random among the ready cases, so a cancelled context
  is not passed over for ever by a ticker that is always ready.
- Nothing is assumed of `Cancel`, `Publish`, `Leave` and `SaveFails` against `Saved`.

Of `Client`: `WF(Call)`, because livesync calls at every tick; `WF(callGqlEndpoint)`, as
goroutines are scheduled and an HTTP call ends; `SF(AccountAnswers)` and `SF(Serve)`,
because neither API fails for ever.  Nothing is assumed of the clock.

Of `Lifecycle`: `WF` of `main`'s loop, of the manager (`Start`), of the hand-over to a
parser (`Receive`), of each parser's goroutine (`ParserRuns`) and of the returns from `Run`
(`StopWaiting`, `Stop`): goroutines that can run are scheduled, and a store answers, if only
with an error.  Nothing is assumed of the operator and of what ends a process (`Sighup`,
`Crash`, `Restart`), of livesync's ticker (`Poll`), or of the lock of an open index
(`ReopenIndex`).

## 5. Proofs

TLC's instances are small; the theorems hold for every value of the constants, from the
named assumptions of each module, which TLC evaluates on the values of the runs.  Each is
`Spec => []...`, by an inductive invariant that TLC checked first on a small instance.

**`CursorsProofs`**: `ComparesAnyByIndex` and `RewindsAnyBack`, for all cursors and whatever
the order of the base64 texts.

**`LivesyncProofs`**, for any workflows, services, requests, page size and number of links:

- `TypeCorrect`: besides the types, the poller and `Register` read the head of a list only
  when there is one, and a slice read for an append is stored where it came from.
- `DeliveryInOrder`: `Spec /\ []NoCursorRace => []InOrder`.  `InOrder` is not inductive.
  Its strengthening `DeliveryInv` adds that, while a page is distributed, livesync's cursor
  is the last position of the page (`PageIsCurrent`); that the batch on its way starts at or
  after what the listener has received and ends at the end of the page
  (`BatchContinues`); that the cursor kept for a listener is what it received last
  (`ListenerCursorIsLastReceived`); and that a service still in `Register` has received
  nothing.  `NoCursorRace` (no registration is about to write a livesync cursor while a
  page is distributed) is needed: without it, line 150 can set the cursor of a listener
  back below what it has received, and the links come twice.
- `QuietDeliveryInOrder`: registrations that run alone and while the poller waits for its
  ticker meet the hypothesis.
- `NilDeliveryInOrder` and `NilDelivery`: so do nil registrations, which write no cursor,
  however they interleave.  This is the deployment of the repository.

**`LivesyncRefinementProofs`** proves that livesync implements `LivesyncFeed`, so that nothing
is left out of a feed either, for any workflows, page size and number of links:

- `NilImplementsFeed`: `Spec => FeedSpec` for at most two services that register with nil:
  the deployment of the repository, without a condition on the schedule.
- `QuietImplementsFeed`: `QuietSpec => FeedSpec` for any services and requests, if
  `OrdersAgree`: `StringLess` agrees with the index order on the positions that are asked
  for.
- `CalmImplementsFeed`, from which both follow: `Spec /\ []Calm => FeedSpec`.  `Calm` says that
  a registration that names workflows runs alone while no page is on its way
  (`AloneUnlessNil`), and that two listeners are not appended at once to a list that has
  some (`NoListenerRace`).  Nil registrations may run at any time.  `NoListenerRace` cannot
  be left out: with three nil services, one is dropped by a second and brought back by the
  stale append of a third, and the links of the time between are missing from its feed.
- `QuietStartsAtRequest`: under `OrdersAgree` a feed starts at the position asked for.  The
  `rewind` run violates `StartsAtRequest` because the orders disagree, and this says that
  nothing else breaks the comment of `Register`.

The invariant, `FeedInv`, is inductive together with `TypeOK` and `DeliveryInv`; its heart is
`OfferInv`: for each workflow of each listener, the page on its way, if it is still to come
for that listener, and otherwise the position from which the next call will ask, starts at
or before the last link the listener received (or where its feed may start).  `RegisterInv`
keeps the same of a service in the middle of `Register`: the workflows it has gone through
are synced, and livesync is not past the cursor asked for.  `ListedInv`: nobody is sent
anything before it has its channel.  `PromiseInv`: the positions a feed may start at contain
the cursor kept for its listener.  Each step is then `Subscribe`, `Deliver`, `Publish` or a
stutter of the feed (`StepIsStep`).

**`ReplicationProofs`**, for any number of links, page size, parents, readable links and
listeners: `TypeCorrect`, `OnePageAhead`, `KeptFaithfully` and `NothingLost`.  The invariant
follows each
object of `rsp` through a poll.  `PollInv`: the objects are distinct, and only a full page
is followed by another (from `HasNextPage`), so that the object at place `k` of a page is
decoded over with the link exactly one page later.  `SlotsInv`: what each object holds,
before and after it is decoded into, and after decryption.  `InboxInv`: what a listener will
read is its link or the one a page later, and the latter only after the poller went on,
which the unbuffered channel allows once.  `IndexerInv`: both reads of `indexLink`.  `KeepsInv`:
what a listener was sent is kept, or among the segments in its hands.

**`ClientProofs`**, for any number of goroutines and lifetimes: `ClientTypeCorrect`,
`NoEarlyReject`, `LoginsAreDue`.  `LifetimeAssumption` says that a token outlives the login
that brings it by the margin.  `Margins`: whichever call stored it, the token in the client
is good for two seconds after every check that is on its way to a header.  `NearlyNewest`: the
token in the client is at most one login older than any that a call was given.

**`LinksProofs`**, for any owners, forms and bounds: `AcceptedAsSigned` and `StayedCanRead`.
`BuiltInOrder` (a link keeps its name), `Recipient` (those who stayed are among the keys,
and can open what no error left behind) and `AcceptedSigned` (what Trace has carries the
one signature that the application's link keeps, of its content unless the link is among
the `changed`) are inductive together.

**`LinksCopiesProofs`**, also for any owners, forms and bounds: `TypeCorrect`, `FaithfulCopies`,
`AnswersDecrypted`, `ClearOnceDecrypted` and `KnownParents`.  `StoryInv`: the layers of a link
are distinct keys, the newest last (`WellLayered`), so that taking one off twice takes off
two; a link was built after an accepted one (`KnownIn`); and what is in an answer is a copy
of an accepted link, with at most our layer off (`CopyIn`).  `AnswersDecrypted` goes through
the values of an answer and the branches of `parseAndDecryptLink`: where the early return
after `raw` leaves the data alone, the data is that of the same link, which could not be
decrypted either.

**`LifecycleProofs`**, for any files, boots, links and size of an answer: `HoldsThisBoot`,
`StoresWhatWasPolled`, `TypeCorrect`, `LinesOnce` and `DecryptorAsConfigured`.  The invariant is
`LifecycleInv`.  `Exposed`: a service that runs exposes what it made in this boot.  `Wired`: a
running service holds that, and its needs run too, or have just been stopped with it.
`Over` and `Idle`: nothing is left of a process that has ended, or of a parser that does not
run.  `Registered`: a parser that has yet to register is neither a listener nor among those
another one has read, and what a registering parser has read are still listeners, so that
only one of two that race is dropped, and one that stays a listener missed nothing.
`Synced`: a parser that registered in time has stored (`Kept`) all up to livesync's cursor
but what is still to be received or saved (`Due`).  `ConfigInv` is about the log: while the
writers are added, the hooks are those of the ones added so far, one each.
`DecryptorAsConfigured` has the hypothesis `KeepsDecryption`, no reload takes the decryption
service out of the files, which is exactly what the `stale_decryptor` run does; a restart
may.

Every invariant of a passing run is stated by a theorem, and so is the refinement.  Only
model-checked, and why:

- Liveness (`Replicated`, `ShutdownCompletes`, `ListenersEnd`, `ServedUnlessUnreadable`,
  `ReloadTakesEffect`): fairness and `ENABLED` are out of the prover's reach.
- `FeedSpec` outside `Calm`: it does not hold there, see above.

## 6. Not modelled, and what is left

Not modelled:

- `WithAuth` (`lib/auth`): a request filter that keeps no state and that `main.go` does not
  use; each request is decided by one call.
- The generated mocks.
- go-node's manager, which is outside the repository (its behaviour towards the services is
  in `Lifecycle`), and go-node's own services, which share no state with these.
- The mapping of fields to bleve's index, the configuration structures and their migrations:
  static data.
- Matching and ranking of a search: a query of the model matches everything.

Hazards in `PROJECT.json` without a property, in short: explicit registrations that race
with each other or with a page in flight (`livesync.go:77`, `78`, `133`) do lose and repeat
links, and nothing in the repository says they do not, so the model has the races, the
theorems have the hypothesis, and the properties speak of the regimes in which the
connector runs; what a nil registration is owed of later workflows (`livesync.go:92`) is
not stated anywhere, and neither is what a listener that registers while livesync stops is
owed (`livesync.go:96`); a cursor lowered between a send and the write after it
(`livesync.go:150`) is outside `NoCursorRace`; a Put that fails half-way through a page
(`parser.go:37`) ends the parser, and what it had stored goes with the process or is stored
again; log files that stay open (`logging.go:127`), the fixed name of the
memory store in `Needs` (`parser/service.go:73`) and the error a parser returns in a
shutdown (`parser.go:59`) concern files, configuration and the manager.

What is left: an instance with racing explicit registrations, once somebody says what they
are owed; and a proof that the synchronizer of `Lifecycle` implements `LivesyncFeed` within a
boot, for the parsers that are not dropped.
