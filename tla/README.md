# TLA+ models of rousette

rousette is a RESTCONF server (RFC 8040) on top of sysrepo. This directory holds
TLA+ models of its concurrent and stateful parts, the TLC configurations that
check them on small instances, and TLAPS proofs of their safety for every
instance. `PROJECT.json` lists components, runs, hazards, theorems and, for every
definition, the lines of source it translates.

## 1. The system

### Threads

| thread | runs |
|---|---|
| event loop | one `io_context` thread (`Server.cpp:930`): HTTP requests, payload callbacks, nghttp2's read and close callbacks, timers, posted handlers, reads of notification pipes |
| stopper | whoever calls `Server::stop()` or destroys the `Server`: emits `shutdownRequested`, calls `DynamicSubscriptions::stop()` |
| sysrepo threads | callbacks of NETCONF notification streams and of the telemetry subscription; they emit signals whose slots run in them |
| other sysrepo clients | other processes that lock and change the datastores |

Signals (boost::signals2) connect the last three to the HTTP streams. A slot runs in
the thread that emits, `disconnect()` does not wait for a running slot, and
`cancel()` of a timer does not recall a handler that is already queued. Most of what
can go wrong here follows from these three facts.

### Inventory

| component | state | operations | hard behaviour | properties |
|---|---|---|---|---|
| HTTP event stream (`http/EventStream.cpp`) | queue of strings, state, keep-alive timer, connections to two signals | construct, activate, enqueue, process/send_chunk, ping, terminate, on_close | emitters race the read callback; partial writes; handlers queued across a close; destruction while a slot runs | nothing lost or repeated, no lost wakeup, no use of a closed response, termination closes |
| Dynamic subscriptions (`restconf/DynamicSubscriptions.cpp`) | table by UUID, per-subscription state, inactivity timer, pipe, two kinds of mutexes | establish, delete, kill, GET, notification pump, disconnect, inactivity, stop | check-then-act over two locks, timer races, lock order, shutdown during everything | one receiver, no dangling references, exclusive calls into sysrepo, no leak, eventual removal, no deadlock |
| Data resources and YANG Patch (`restconf/Server.cpp`) | datastore, its lock, request, edit under construction | POST, PUT, PATCH, DELETE, YANG patch | other clients between the check and the write, error paths that must release the lock, one edit of several failing | the status is true, errors change nothing, locks are released, a patch is whole |
| Server life cycle (`Server.cpp`, `main.cpp`) | listening sockets, stop flag | start, stop, join, destructor | stop from another thread, twice | with the subscriptions |
| Requests (`Server.cpp`) | one request, its encodings, user and answer | routes, authentication, GET, edits, RPCs and actions, schemas, streams | data and rules that change between two steps, payloads that come later, clients that leave | total classification, effects fit the URI, status tells what was done, answered once and at last |
| URI parsing (`restconf/uri.cpp`) | none | path, query and method to a request type, `fields` | combinations of method, path and query | part of the above |
| Media types, header parsing (`utils/dataformat.cpp`, `http/utils.cpp`) | none | choice of encodings, forwarded host | precedence, wildcards | the format is acceptable |
| Access control (`auth/Http.cpp`, `auth/Nacm.cpp`) | anonymous-enabled flag, delayed rejections | check rules on change, authorise, delayed 401 | a stale verdict; timer against close | anonymous users need valid rules and, while these are in force, only read |
| PAM (`auth/PAM.cpp`) | none kept | one conversation | its outcomes and the delay | with the requests |
| YANG schema locations | none | URLs in answers, access to schemas | agreement with the URI grammar | locations resolve |
| NETCONF notification streams (`NotificationStream.cpp`) | sysrepo subscriptions, replay state | validation of times, subscribe to every module, callback, destruction | callbacks during activation; failure after some modules | callbacks find their signal, no subscription left behind, order, arrival |
| Optical telemetry (`sr/OpticalEvents.cpp`) | last data, signal | constructor, change callback, currentData | a change between read and connect; mutex held while emitting | views never go back and converge |
| YANG helpers, Exceptions | none | quoting, error codes | - | with the requests; texts are not modelled |
| AllEvents (`sr/AllEvents.cpp`) | - | logging tool | - | not modelled |

Interactions: a GET on a subscription creates an event stream whose signals are fed
by the notification pump; `Server::stop()` reaches both through `shutdownRequested`;
every data request runs in the same event loop as all streams.

## 2. The modules

### EventStream, EventDelivery (`src/src/http/EventStream.cpp`)

`EventStream` is one `text/event-stream` response. Variables follow the members
(`state`, `queue`, `ping`), plus the life of the object (`life`), what each emitting
thread is about to do (`slot`), the handlers posted to the event loop (`resumes`,
`finishes`) and whether nghttp2 waits for `resume()` (`reading`). A string is the
interval of byte positions it holds, so `substr` and partial writes are modelled
exactly and "lost, repeated, reordered" becomes arithmetic; the text is left out.
Whatever the code does under `mtx` is one step. `weak_from_this()` is empty until
`activate()`, as in the two-phase construction of the code (`WeakIsSet`).

`EventDelivery` is the promise: an ordered channel of bytes that accepts and
delivers until it is to end. `EventStream` implements it with `published <-
accepted`, `delivered <- sent` and `phase` computed from `state`.

### DynamicSubscriptions (`src/src/restconf/DynamicSubscriptions.cpp`)

The table (`registered`, `owner`), the `SubscriptionData` objects (`alive`, `state`,
`timer`, `expired`), sysrepo's side (`sr`, `pipe`), the mutexes (`mapMutex`,
`mutex`), the HTTP streams (`life`, `sub`, `ending`, `wait`) and the two threads
(`pc ...` for the event loop, `spc ...` for the stopper). Handlers are cut where a
mutex is taken or released and where sysrepo is entered or left, because that is
where the other thread can get in. `timer = "hollow"` is a wait whose handler holds
an empty `weak_ptr`, started by the constructor; `expired` counts waits that a
`cancel()` can no longer recall. Reference counting is modelled by `Referenced`: an
object nobody refers to is destroyed before the event loop goes on.

### DataEdits, AtomicEdits (`src/src/restconf/Server.cpp`)

One request at a time, cut at its calls into sysrepo, between which other clients
write, lock and unlock. A data tree maps nodes to contents; a payload is a node, a
content and whether it parses and fits the URI (`ok`). sysrepo's edit operations
(`Result`, `Error`) are external definitions, written from how the code uses them:
`create` fails on an existing node, `delete` on a missing one, an edit is applied
as a whole or not at all. `Respond` keeps the first response, as nghttp2 does.
`Finish` is the end of every handler on every path and contains the destructor of
the lock. Locals of a request are reset there, which only makes the state space
smaller. Not modelled here: GET and the position in user-ordered lists (see Requests), NACM's filtering of
what a user may read (the client is one that may read its target), and the rollback
of the candidate datastore, which is the reason it is not locked.

`AtomicEdits` is what these handlers promise, with three variables (the data, the
request, the status) and no locks, copies or calls: a request changes its datastore
in one step, by all its edits in order applied to the tree that is there at that
step, or it changes nothing, and the status is one of those that are true of that
step. The promise has the code's two weak spots: of a YANG patch, edits that are not
well-formed are left out, the status then being that of such an edit (see
`edits_whole`), and in the candidate, which is not locked, what PUT and PATCH found
out about their target may be out of date.

### Requests, with Uri, MediaTypes and Nacm

`Requests` is one request from the call of its handler to its answer, on any route.
Handlers are cut where the code returns to the event loop or enters sysrepo: the
payload arrives later (`stage = "payload"`), the check of an action's data node and
`sendRPC()` are two steps, and a failed login waits for its timer (`"delayed"`, then
`"expired"` when the handler is queued and cannot be recalled). Meanwhile NACM rules
are committed and the callback lags behind (`changes`), the action's node comes and
goes, the client leaves. `stage = "escaped"` is an exception no handler catches.

`Uri` has the operators of `uri.cpp`: path and query checks, schema lookup, methods,
request types, streams, `fields` (the body of the recursive visitor is `Visit`; the
nodes of the expressions and their heights are constants). They work on parsed elements (module, name, keys);
the characters of the grammars are left out, except that an encoded slash makes the
decoded path differ from the raw one (`Decoded`). `MediaTypes` has the choice of
encodings, and two references for it: the order that the comments of
`parseAcceptHeader()` describe (`Best`, `Named`), and the one of RFC 9110, section
12.5.1, where the most specific range for a format gives its quality (`Closest`,
`AsGoodAs`). `Nacm` has the rules for anonymous access and, external, sysrepo's
evaluation of a configuration: `enable-nacm`, whether the anonymous user is a member
of the group, the defaults, and rule-lists in which the first rule that matches
decides. A rule may be restricted to an RPC, a notification or a data node; the path
of a data rule matches that node and what is below it, and has no predicates. PAM is
the set of its outcomes.
What is written to the datastore is in `DataEdits`; here an effect names the nodes.

### StreamSources, with OpticalEvents and NotificationStream

Two sources of event streams that share the event loop: while a handler of one waits
for a mutex or for sysrepo, the other cannot run, and an escaped exception ends both.
In `OpticalEvents` a version number stands for the data; `onChange()` holds `mtx`
from the dump to the last slot. A dump may fail: in the constructor `NotFound` goes on
with the next module, in `onChange()` the change is not passed on (`lost`). In `NotificationStream` `<<m, k>>` is the k-th
notification of module `m`; sysrepo's thread and `notifCb` are separate steps, so a
callback can be under way while `activate()` goes on or the stream is destroyed.
`activate()` may fail at any module, also after others were subscribed. The
members' order decides what is destroyed first. `load` bounds what the environment
may do in a behaviour.

## 3. The runs

States and times are TLC's with three workers.

| run | instance | checks | result |
|---|---|---|---|
| `stream` | 2 emitters, events of 1 and 3 bytes, buffers of 2 and 3, up to 2 terminations | types, no lost wakeup, state against queue, exact delivery, no resume after close, refinement of `EventDelivery`, accepted events arrive, terminated streams close | holds, 183,026 states |
| `stream_late_slot` | 1 emitter | the comment on late slots | violated |
| `subscriptions` | 1 subscription, 2 connections, 1 user, 1 call of `stop()` | one receiver, no use after free, event processing and termination exclude each other, removal terminates, timer off while served, abandoned subscriptions go, handlers and `stop()` end | holds, 255,210 states |
| `subscriptions_unused` | 1 connection | an unused subscription goes | violated |
| `subscriptions_served` | 2 connections | a served subscription is not removed as inactive | violated |
| `subscriptions_exclusive` | 2 connections | `@pre` of `SubscriptionData::terminate()` | violated |
| `edits_safety` | a list and its entry, one content, running + candidate + operational, YANG patches of up to 2 edits | locks, statuses, errors without effect, refinement of `AtomicEdits` | holds, 259,248 states |
| `edits_whole` | the same | all edits of a patch are applied at once | violated |
| `requests` | a schema with every kind of node; families of requests that vary methods and paths, queries, `fields`, headers, routes, credentials and NACM rules | classification, effects, insertion points, encodings, locations, `fields`, statuses, one answer, anonymous access, every request is answered | holds, 93,830 states |
| `requests_cancelled` | one request whose login may fail | the comment on the cancelled timer | violated |
| `requests_anonymous` | anonymous requests, rules whose last rule is restricted in every way | the last rule that `README.md` demands for anonymous access | violated |
| `sources` | 2 telemetry clients, 4 modules of which one has no notifications, every combination of times | order and convergence of telemetry; signal, subscriptions, order and arrival of notifications | holds, 195,157 states |

### Bounds, and why they are enough

- Two emitters are the fewest that can race each other as well as the loop; a third
  adds only more of the same slots, which `mtx` serialises. Events of 1 and 3 bytes
  with buffers of 2 and 3 give every case of `send_chunk`: several events in a
  buffer, an exact fit, a cut event, a cut remainder. `MaxBytes` and
  `MaxTerminations` bound the history.
- Subscriptions share nothing but the table and the two threads, so one is enough
  for what happens to it; two connections give a reconnect and a competitor. One `stop()`
  and one user keep the run with liveness small: users only guard requests, and what
  a second `stop()` meets is covered for safety by the proofs alone. `MaxPipe = 1` and
  `MAX_EVENTS = 3` (50 in the code) allow a full and a cut batch, because sysrepo
  refills the pipe between two events.
- A node and its descendant give ancestors that appear and subtrees that vanish; two
  edits are the fewest of which one can fail. One lockable, one candidate and one
  read-only datastore cover the three ways the code treats them. `OneInUse` lets only
  one of them have data at a time: no handler reads or writes another datastore than
  the one its request names.

- In `requests` a family varies one respect and keeps the others at usual values:
  one handler looks at method, path and query, another at the headers. Combinations
  across families (an odd header with an odd query) are not explored.
- Two versions of the telemetry data are enough for an old one after a new one; two
  notifications of one module and one of another for order within and between
  modules. The workloads run each source fully alone and both with less traffic.

The proofs of section 4 hold for every value of these constants.

### Fairness

`EventStream`: queued handlers run, a slot that was picked up gets its mutex,
nghttp2 goes on reading (the client keeps its window open) and closes a response
after EOF. `DynamicSubscriptions`: a handler that began goes on; timers expire; the
stopper and an expired inactivity handler are strongly fair, because the queue of
an `io_context` is first in, first out and a mutex that is released again and again
is not withheld for ever. Nobody is obliged to send requests, to emit, to leave or to stop the
server. `Requests`: handlers and the timer run, a payload ends or its
connection times out. `StreamSources`: sysrepo's threads run and a handler that began
goes on. `DataEdits` has only safety properties. Deadlock is checked for
`DataEdits`; a stream may be over, and a stopped server stands still, so the other
runs do not.

### Disagreements of code and comments

Each is a run that TLC refutes; the quotations are in `PROJECT.json`.

1. `stream_late_slot`: a slot that another thread has entered outlives the stream
   whose `this` it holds.
2. `subscriptions_unused`: the inactivity timer started in the constructor of
   `SubscriptionData` never removes anything, since `weak_from_this()` is empty there.
3. `subscriptions_served`: an inactivity handler queued before a client came back
   removes the subscription under that client.
4. `subscriptions_exclusive`: the inactivity handler calls `terminate()` without the
   mutex its precondition names.
5. `edits_whole`: if one edit of a YANG patch is refused, the others are applied and
   the client is told of an error.
6. `requests_cancelled`: a login delay that has expired cannot be cancelled; its queued
   handler answers on a request and response that are gone.

7. `requests_anonymous`: a last rule that denies only one RPC, notification or data
   node is taken for the one that denies everything, since `isRuleWildcardDeny()` does
   not look at these restrictions; anonymous access is enabled.

Preconditions that matter: `AnonymousOnlyReads` is stated for rules that are in force
(`RulesAreInForce`: NACM is enabled, the user is in the group, the last rule is
restricted to nothing, none of which `validAnonymousNacmRules()` looks at), and fails
without any of them; `FormatIsAcceptable` for headers in which no wildcard has a better
quality than a more specific range for JSON, because the server takes the first range in
its order that fits and not the most specific one for each format;
`TelemetryConverges` for changes after the stream connected and whose last dump
succeeds; `StatusTellsExecution` says nothing of 500, since after a timeout
nobody knows; `EffectsFitRequest` lets a request for a top-level node edit siblings.
The code does not hold more.

Further exposures, modelled or not, that no run covers: `clientConnected()` of a GET
that is past its check overwrites the `Terminating` of `stop()`, against the comment at
`DynamicSubscriptions.cpp:342` (modelled; see `OnlyActivationRevives`); the allow header of
OPTIONS and 405 is computed from the decoded path, requests from the raw one
(`Server.cpp:1282`, modelled); an RPC without input that gets a payload and no content
type reads an absent format (`Server.cpp:526`, modelled as any outcome); a stream entry
without a location is dereferenced (`NotificationStream.cpp:182`, not modelled); a PUT
by a user who may write but not read its target is told 201 (`Server.cpp:756`, not
modelled). `PROJECT.json` lists the others with the reason.

## 4. The proofs

All theorems are checked by TLAPS (SMT, Zenon, LS4), for every value of the
constants that satisfies the named assumptions. TLC evaluates each of them in the runs
of its module:

| assumption | says |
|---|---|
| `StreamAssumption` | events and buffers are not empty |
| `SubscriptionAssumption` | `None` is no subscription, connection or user |
| `TreeAssumption`, `DatastoreAssumption`, `RequestAssumption` | descendants form a strict order; `Absent` and `Bare` are no contents; a datastore is lockable, read-only or the candidate; `NoRequest` is no request |
| `OpticalAssumption`, `NotificationAssumption`, `WorkloadAssumption` | bounds are numbers, a module is in the list once, workloads are about known clients |
| `SchemaAssumption`, `LibraryAssumption` | what libyang guarantees: siblings differ in module or name, only lists are ordered, a module and its revision name one schema |
| `FieldAssumption` | a `fields` expression is a finite tree of the shapes its grammar builds (`FieldHeight` is the height of a node) |
| `ScenarioAssumption`, `UserAssumption`, `NacmAssumption` | requests, headers and NACM rules have the form the parsers give them; they are neither few nor short |

Every safety invariant, action property and refinement that a passing run checks is
also a theorem. Each module of proofs makes Zenon the default prover and cites SMT
where numbers, functions, records or sequences are involved: the translation to SMT
gets slower with every obligation of a module, Zenon does not.

### EventStreamProofs

`IInv` adds two facts to the checked invariants. `LifeInv`: nghttp2 is told to wait
only after `activate()`, when every posted handler counts, and exactly the closed
streams are in state `Closed`; without it a handler that finds the stream gone could
be the wakeup that `NoLostWakeup` needs. `QueueOrdered`: positions grow along the
queue, which `ExactDelivery` says only of neighbours. Lemmas say what `push_back` and the cut of `send_chunk` do to a
queue; then one lemma per operation. From `IInv` follow `TypeCorrect`,
`WakeupsAreNotLost`, `DeliveryIsExact`, `StateTellsQueue`, the action property `ClosedStaysClosed` and
`Refinement`: every step of `EventStream` is a step of `EventDelivery` or a stutter.

### DynamicSubscriptionsProofs

The invariant is layered, each layer proved from those below it: `Base` (types, what
the registers of the two threads hold at each position, how streams and positions
fit together), `Locks` (who holds which mutex is a function of the positions),
`Owners` (whatever the table, a stream or the loop refers to was established),
`Receivers` (a subscription with an open stream is not in `Start`), `NoUseAfterFree`,
`Removal` (before a `stop()`, whatever is about to be erased is already terminated)
and `NotTimedWhileActive`. `EventsExcludeTermination` follows from `Locks`,
`OneReceiver` from `Receivers`. The point of `AtMostOneReceiver` is that
`isReadyToAcceptClient()` and `clientConnected()` take the mutex separately: no
other stream can come between them since both run in one handler of the only event
loop, and `stop()`, which can, never sets `Start`.

Two theorems go beyond what the runs check. `ThreadsDoNotDeadlock`, from `Locks`:
neither thread waits for a mutex that it holds, and the two never wait for each other;
the loop holds a mutex only where it takes no other, which is why `stop()` may hold
`m_mutex` while it locks the subscriptions in turn. It is the safety half of
`HandlersEnd`, for any number of subscriptions. `OnlyActivationRevives` bounds the
overwriting of `Terminating` by `clientConnected()`: no step takes a subscription out of
`Terminating` but the `clientConnected()` of a GET that races with `stop()`. Its
invariant `Fresh` says that until a `stop()` a GET which found its subscription ready
finds it so at `activate()`.

### DataEditsProofs

`IInv` consists of `TypeOK`, `Control` (which requests get to which step),
`LockDiscipline`, `PlainEdits` (the edit handed to sysrepo is the payload with the
operation of the method), `CheckIsCurrent` (while the lock is held, `nodeExisted` is
still true of the datastore), `CopyIsCurrent` (sysrepo's working copy is the
datastore plus the edits done), `NoEditMissing` (unless an error was sent, every
edit of a patch is in the batch) and `AnsweredOnce`. `FinishKeepsInvariant` covers
every end of a handler at once. `StatusIsTrue` uses `CheckIsCurrent` for PUT and
PATCH and sysrepo's own check for POST and DELETE; `ErrorChangesNothing` and
`OkPatchIsWhole` are action properties over the same invariant.

`EditsAreAtomic` is the refinement of `AtomicEdits`. `IInv` does not say enough for
it: at the step that commits, the abstract specification wants one trail of trees from
the datastore to the result, through the edits of the *request*, while the code has a
batch it built in one loop and a copy sysrepo built in another. `EInv` carries both
loops along. `MergedInOrder`: a counting function relates the edits seen so far to the
batch, which has the well-formed ones in their order. `CopyInOrder`: a history of
trees leads from the datastore to sysrepo's copy, one edit of the batch at a time.
`RefusedIsAnswered`: a patch was answered early only if an edit is not well-formed,
and a plain request comes to sysrepo only with a payload that is. `EditsAreInOrder`
shows `EInv`; `PatchMakes` composes the counting function with the history into the
trail; `StepRefines` then has one case per action: `Applied` and the end of an empty
patch are the commit, every other step of a handler is a failure, an early answer or a
stutter. That other clients cannot
come between is `CopyIsCurrent` of `IInv`; that the status is still true,
`CheckIsCurrent`.

### StreamSourcesProofs

The two sources share no variable but `load`, so `IInv` is the conjunction of their
invariants and each is untouched by the other's steps. `OpticalInv`: nothing a client
holds or got is newer than `lastData`, and a stream that is not open got nothing;
hence neither the next emission nor the first event of a stream can go back
(`TelemetryIsMonotonic`). `LifeInv`: the signal exists from the constructor until the
members go, and a subscription, with it a running callback, only inside of that
(`CallbackIsSafe`); in the loop of `activate()` the subscriptions are exactly the
modules of its turns so far (`AnswerIsHonest`). `OrderInv`: while the stream accepts
events, the client has of every module exactly the notifications up to the one that is
due, and a callback under way carries that one. `NotificationsInOrder` alone is not
inductive, since it does not say where the next notification has to fit.

### UriProofs

What a recursion computes for every input needs induction, and the library's induction
theorems take operators the provers cannot instantiate. The first section states it
over sets and functions instead: a non-empty set of numbers has a least element
(`LeastNumber`, from the well-foundedness of finite sets), a set that contains every
element whose lower-ranked ones it contains is everything (`RankInduction`), and a
recursion that refers to lower ranks has a solution (`RankRecursion`).

With them the module shows that the walk of `fieldsToXPath()` and the denotation of
an expression (`Denotes`: a semicolon is a union, a parenthesis or slash a
concatenation) are well defined, and that they agree: `FieldsCollectTheirUnion`. The
induction is over the height of a node. Its hypothesis is not the theorem itself: a
`SlashExpr` is `Linear` (it extends the shared path and collects it when `end` is
set), the others `Collect` their denotation beyond the current path *whatever `end`
is*, which is what makes it harmless that the code passes `end` on differently in its
branches.

`Classification` says of `asRestconfRequest()` what its type promises: an error, or a
type with a method, node and datastore that fit. `LastThrowIsUnreachable`: the
`std::logic_error` at its end is never thrown.

### MediaTypesProofs

`SortedBy` puts every element after as many as precede it; `Sorting` shows that for a
strict total order on a finite set this is a bijection along which the order grows.
`PreferenceIsOrder` shows that the comparison of `parseAcceptHeader()`, with the
position that a stable sort adds, is one. `Negotiation` then relates
`chooseDataEncoding()` to the order its comments describe (`Wanted`, `Served`, `Best`,
`Named`). `BestFormat` compares the choice with RFC 9110: if no wildcard has a better
quality than a more specific range for JSON, no format has a better quality than the
chosen one. The first range in the order of the server either names the format, and is
then a most specific one for it, or is a wildcard, and then a most specific range for
JSON, the format it stands for, is as good.

### HandlersProofs, RequestsProofs

`IInv` has three parts. `RequestInv`: what `Init` derives from the request is never
changed, so the facts of `UriProofs` and `MediaTypesProofs` hold of it at any time.
`NacmInv`: without a pending callback the flag for anonymous access is the verdict on
the present rules. `Core`: what each stage says about request and user (`StageInv`),
nothing was said or done before the last stage (`Untouched`), and what holds of an
answer and of each effect (`Settled`). The properties are kept by what a handler knows
when it acts, often established handlers earlier: `EffectsFit` needs of the payload
stage that the request was classified, its user authorized and its datastore
writable. There is one lemma per handler; `Respond` and `rejectWithError` have
theirs, since every path ends there. `HandlersProofs` has the invariant and the
handlers that answer without a payload, `RequestsProofs` those that take one, the
invariance and the theorems.

`PointHolds` joins two checks that are far apart in the code: validated query
parameters contain a point for `before` and `after`, and equal schema nodes mean that
its path is not empty. `LocationsHold` shows that generated URLs are read back by the
parsers. `FormatHolds` and `FieldsHold` lift `Negotiation`, `BestFormat` and
`FieldsCollectTheirUnion` to the answers. `AnonymousHolds` and `AnonymousReads` are
action properties: the latter follows the accepted rules through the first-match
evaluation of NACM. Each rule but the last permits only reading or the one listed RPC;
the last, restricted to nothing, matches whatever gets to it, so that neither a later
rule-list nor a default is ever asked.

### Checked by TLC only

Liveness (`EventsAreDelivered`, `TerminationCloses`, `AbandonedIsRemoved`,
`HandlersEnd`, `EveryRequestIsAnswered`, `TelemetryConverges`,
`NotificationsArrive`): fairness and `ENABLED` are outside what TLAPS proves here.
The properties the code does not have are, of course, only refuted.

## 5. Not modelled, and why

- Text: formatting of events, JSON/XML, paths and error bodies, except for lengths
  and outcomes that control depends on.
- libyang, PAM, D-Bus/systemd and nghttp2 beyond the calls the code makes.
- Filters and replay of dynamic subscriptions; replay times in the list of streams.
- The window in which a base class has connected a slot and the derived class is not
  constructed, and the destruction of `Server` and `OpticalEvents`; `main()`, `join()`
  and the check of required modules.
- The mutexes of the single streams in `StreamSources` (`EventStream` has one): a lock
  order between them and `mtx` of `OpticalEvents` is not examined.
- A dump without data, which `dumpDataFrom()` dereferences (`OpticalEvents.cpp:18`).
- Notification rules of NACM beyond their effect on the last rule; paths of data rules
  with predicates.
- Errors of libyang in GET and DELETE, which the handler does not catch; errors of
  `sessionStart()` and of setting the NACM user. NACM's filtering of reads.
- The defaults a GET prints, the character level of the URI and header grammars, and
  the conversation with libpam.
- `AllEvents`, a logging tool of its own.

## 6. Running

`tlc -config DataEdits_safety.cfg MCDataEdits` checks a run (the module and the
configuration of each run are in `PROJECT.json`); `tlapm DataEditsProofs.tla` checks
the proofs of a module. Definitions marked "Mutant of X" are variants of X with a
plausible bug; with one of them in place of X, the property `PROJECT.json` pairs it
with is violated.
