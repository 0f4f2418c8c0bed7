# Verification of entservices-peripherals

TLA+ modules, TLC model-checking runs and TLAPS proofs for the concurrent and
stateful code of this repository: the helper library in `src/helpers` (shared by
all plugins) and the `MotionDetection` plugin.

Contents: 1 the system, 2 how the project is laid out, 3 the modules and their
runs, 4 fairness, 5 what the environment is allowed to do, 6 the proofs, 7 what
is only model-checked, 8 disagreements found, 9 what is not modelled, 10 plan.

## 1. The system

The repository holds one Thunder plugin (`MotionDetection`) and the helper
library that it and its sibling plugins are built from. The helpers carry most
of the logic. Several kinds of threads meet in them:

* Thunder worker-pool threads that run JSON-RPC methods of a plugin, and the
  framework's calls of `Initialize` and `Deinitialize`;
* the threads of IARM (the message bus), which run event handlers;
* the event loop thread of a WebSocket endpoint (`WSEndpoint::startEventLoop`);
* timer threads (`WPEFramework::Core::TimerType`) for LED blinking and `TpTimer`;
* the thread of the platform's motion detection library.

| Component (source) | State | Operations | Interacts with | Hard part | Module |
|---|---|---|---|---|---|
| JsonRpcInterface (`WebSockets/CommunicationInterface/JsonRpcInterface.h`, `JsonRpc/*`) | map id -> promise, id counter, notification handler | `sendRequest`, `onMessage`, `setNotificationHandler` | WSEndpoint (send), peer, caller threads | late answers, timeouts, resent requests, calls made on the event loop thread | JsonRpcInterface, RequestCalls |
| CommandInterface (`.../CommandInterface.h`) | last response, condition variable | `sendCommand`, `onMessage` | WSEndpoint, peer | wait without a predicate: lost wakeups, stale responses, wrong waiter | CommandInterface |
| WSEndpoint, Client, SingleClientServer, PingPongEnabled | connection handle, event loop thread, ping timers | connect, start/stop, open/close/fail handlers, ping, destructor | websocketpp | lifecycle races, join that never returns, several clients | WSEndpoint |
| API lock (`UtilsSynchro.hpp`) | one recursive mutex per plugin class, a thread-local flag | locked API wrapper, `UnlockApiGuard`, `LockApiGuard` | all API methods; other plugins through Invoke | nested and mutual calls, unlock and re-lock | ApiLock |
| IARM handlers under the API lock (`UtilsSynchroIarm.hpp`) | handler map, registrations at the bus | register, remove, dispatch | IARM bus, API lock | handler removed while its event waits | LockedIarm |
| CFrontPanel, blinking (`frontpanel.cpp/.h`) | blink list, index, counters, blink timer | `setBlink`, `stopBlinkTimer`, `onBlinkTimer`, every LED operation as a stop of the blinking | timer thread | no lock between API threads and the timer thread | FrontPanelBlink |
| CFrontPanel, object (`frontpanel.cpp`, `PluginInterfaceBuilder.h`) | `initDone`, `s_instance`, reference to the power manager | `instance`, `deinitialize`, `setPowerStatus`, `createInterface` with retries | controller | construction without a lock, references lost on move assignment | PanelInstance |
| CFrontPanel, LEDs (`frontpanel.cpp`) | `fpIndicators`, `powerStatus`, `isMessageLedOn`, `isRecordLedOn` | `powerOnLed`, `powerOffLed`, the same for all, `setBrightness`, `start` | device library | operations that end at the first LED that throws | FrontPanelLeds |
| Files and settings (`cSettings.h`, `UtilssyncPersistFile.h`, `UtilsFile.h`) | key/value map and its file, JSON document, a file that moves | set, remove, write, read, persist, move | file system | truncate-then-write windows, partial failures | SettingsFiles |
| MotionDetection (`MotionDetection/*.cpp`) | instance pointer, last event time, platform state | lifecycle, arm, disarm, settings, events | platform callbacks | callback racing deinitialisation | MotionDetection |
| TpTimer (`tptimer.h`) | active and single-shot flags, interval | `start`, `stop`, `Timed` | Thunder timer thread | stop racing a running callback | TpTimer |
| UtilsController (`UtilsController.h`) | cached security token, activation jobs | `getSecurityToken`, `activatePlugin` | worker pool, Thunder's web server | failures cached for ever, callers that hold the pool threads they wait for | UtilsController |
| Input validation (`UtilsInputValidator.h`) | expected values, validators per key | construct, copy, move, add, validate | API methods | members that outlive the type of an object | InputValidator |
| Property files and paths (`UtilsgetFileContent.h`), base64 (`UtilsString.h`) | none | property lookup, expansion, file search, encoding | file system | references in circles, accumulated paths, leftover bits | PropertyFile, FileSearch, ImageEncoder |
| IARM initialisation (`UtilsIarm.h`), BinaryInterface, TLS configuration, telemetry, logging, process helpers, JSON macros | none worth modelling | formatting and I/O | | | none |

What makes each component correct:

* JsonRpcInterface: answers reach the call they belong to, the promise map never
  leaks or loses an entry, every call returns, nothing blocks the event loop.
* CommandInterface: how far a response can be from the command it is returned
  for, and that every command returns.
* WSEndpoint: a dead peer is found, connections do not multiply pings, a timeout
  closes the connection that timed out, destruction terminates.
* API lock: the body of a locked API method owns the lock, nobody unlocks a
  mutex it does not own, mutual calls between plugins do not deadlock.
* LockedIarm: an event finds its handler, a handler that runs is not replaced,
  no delivery is stuck.
* Front panel: a pattern ends on its last colour after its rounds, a stopped one
  stays stopped, the timer never indexes outside the list or uses a deleted
  object; no object and no reference gets lost.
* Files: what was written whole is read back, what was persisted survives a
  crash, a file that moves is whole somewhere.
* MotionDetection: the platform's thread uses no destroyed object, no event is
  lost while the plugin is up, the last event time is current, calls free what
  they allocate.
* TpTimer: a stopped timer stays stopped, a single shot expires once for each
  start, a periodic one goes on.
* UtilsController: one token for all, and every call returns as long as the pool
  has a thread left.
* Functions of files and texts: what is found is there and fits, what is there
  is found; expected values survive their copies and moves.

`PROJECT.json` lists under "hazards" what can go wrong at which line, and the
properties that would show it.

## 2. Layout

* `X.tla`: the specification of a component: constants with named assumptions,
  variables, one action per critical section or step of the code (the largest
  piece of code that no other thread can observe or disturb half-way), `Next`,
  `Spec`, the properties and the inductive invariant `IInv`. An operator that is
  introduced by a comment "Mutant:" is not part of the specification: it is a
  plausible wrong version of the definition below it, and puts the properties
  to the test.
* `...Proofs.tla`: theorems and their proofs. Components that are small or read
  together share one: FrontPanelProofs has FrontPanelBlink, FrontPanelLeds and
  PanelInstance; HelpersProofs has CommandInterface, TpTimer, UtilsController and
  InputValidator; FilesProofs has SettingsFiles, PropertyFile, FileSearch and
  ImageEncoder.
* `MCX.tla` and `MCX*.cfg`: its small instances for TLC. The helpers that do not
  use each other share one, `MCHelpers`.
* `PROJECT.json`: components, runs, hazards, theorems, and for each definition
  the lines it models.

Texts, log output and formatting are abstracted to what the properties tell
apart; what the abstraction is, is said with each module. Counters of calls,
events and crashes are bounded by constants named `Max...` in the guards; the
theorems hold for all of their values.

All the runs have `CHECK_DEADLOCK FALSE`: the calls are bounded, and a system
whose callers make no more calls has really nothing left to do. That nobody is
stuck is what the liveness properties say, for those that should go on.

To repeat a run: `tlc -config MCApiLock.cfg MCApiLock`; a proof:
`tlapm ApiLockProofs.tla`.

## 3. The modules and their runs

### JsonRpcInterface

`sendRequest` is a sequence of steps of the calling thread: the test for an
ongoing request (`IsRequestProcessingOngoing`), `CreateFutureResponse`, `Send`,
`Wait` (at most five seconds), and one of `ReturnAnswer`, `ReturnTimeout`,
`SendFailed`, each with its `RemovePromise`. Every critical section of
`responseMutex_` is one step. The event loop thread takes messages in order
(`OnMessage`), fulfils promises (`HandleResponse`; a second `set_value` throws
out of the event loop: `alive` becomes false) and runs the notification handler,
which may itself call `sendRequest` on this thread: the model lets it, since
nothing in the code forbids it. `responseToPromise` maps an id on the wire to
the call that saved a promise under it; `future` is the answer the call was
given. Ids are request numbers modulo `IdModulus` (2^32 in the code). A response is abstracted to whether
`processResponse` takes it for a success (`Verdict`, from the version, result
and error that `Response::isValid` looks at); other messages to whether they
are valid notifications, invalid ones, or ignored. The peer answers what it
received at most once, in any order, at any time or never.

`RequestCalls` is what callers are promised, without map, mutex, wire or event
loop: at most one open call per id, at most one answer per call, every open
call is closed, and the process dies only in the hands of an answered call.

* Run `json_rpc`: two callers and the event loop, two requests with ids modulo
  two, two sends and one notification. A request that is
  sent again puts its id on the wire once more, just as a wrap-around of the id
  counter does, so that two requests are enough for a late answer to meet a later
  call with its id, and for two answers to meet one promise. The run
  itself reaches no wrap-around: that the invariants hold for every number of
  requests and every modulus, and so over one, is proved only.
  `MessagesHandled`: the inbox is drained infinitely often; `ImplementsRequestCalls`: refinement of
  `RequestCalls` with its liveness.

### CommandInterface

`sendCommand` sends, then waits on a condition variable without a predicate, and
returns `lastResponse_`, whatever it is. Commands and messages are numbered, so
that `own[c] - response[c]` is how old the response is. A wait ends by a
message, a timeout or spuriously (`timeouts` counts the latter two together).

* Run `command`: three callers, four commands. `ResponseLag`: with n callers and
  k timeouts a response is at most k + n - 1 commands old, in particular a
  single caller without timeouts gets its answer; the lag of one timeout
  persists. Three callers let two waiters compete while a third one sends; four
  commands let a lag of every size up to the bound show.

### WSEndpoint

One application thread (`Connect`, `Disconnect`, `Start`, `StopServer`,
`Destroy`, then `Look`, `Close`, `Join`: the two reads of `connectionHandler_`
in `closeConnection` are separate steps) and the event loop (`OnOpen` and the
`StartPing` at its end, `OnFail`, `OnClose`, `Ping`, `OnPong`,
`OnPongTimeout`, `RunEnds`). `timers` counts ping timers, `owed` the pings a
peer has not answered, `armed` the pong timeout of a connection. `handle` is
`connectionHandler_`: the connection opened last. A peer may also send a pong
that answers no ping: `onPong` does not tell the two apart, so that it starts a
chain of pings of its own (`unasked` counts them). `listening` is "open" after a
`start_accept` that failed: the server listens, accepts nobody, and has no loop
of its own.

* Run `ws_endpoint`: three connections, a pong that nobody asked for, client or
  server, at the strictest (one connection at a time, and a library that ends
  the pong timeout of a closed one) and at the loosest (several, and one that
  leaves it on); the theorems cover the other two combinations. `KeepAlive`,
  `OneChainPerConnection` (a chain for each connection opened and each pong that
  came unasked, and no other), `TimeoutClosesOwn`, `KeptWhileAnswering`,
  `SettledDestroyReturns`. Two connections show every takeover of the handle,
  the third one that chains of pings add up by one for each connection and not
  faster.
* Run `ws_destroy` (a violation): the destructor of a plain client can join a
  loop that never ends; see section 8.

### ApiLock

A thread is a stack of frames, one per plugin method it is in. `flag` is
`isThreadUsingLockedApi`, `owner` and `depth` the recursive mutex of each class.
A wrapper sets the flag, locks, runs the body, clears the flag, unlocks; an
Invoke is wrapped in an `UnlockApiGuard` (constructor, call, destructor), a
timer thread uses a `LockApiGuard` and its unlock and lock.

* Run `api_lock`: two API threads and a timer thread with a `LockApiGuard`;
  plugins a and b invoke each other and b invokes c; `ReentrantThreads` are
  those whose calls may come back to a plugin on their stack. With three calls
  per thread a call chain a, b, a and its way back fit. `OwnsUnlessReentrant`: a
  thread without reentrant calls owns the lock in every body, whatever the
  others do; `CallsReturn`: mutual Invokes do not deadlock.
* Run `api_lock_relock` (a violation): see section 8.

### LockedIarm

The generic handler of the bus (`delivery`: locking, running, out) and the
registration and removal under the lock, first in the map, then at the bus.
The lock is that of ApiLock, taken as its promise: one holder, reentrant,
released around calls to other plugins. The bus may refuse a registration or a
removal (`BusMayFail`): then an event the map has no handler for may still come
(`orphans`).

* Run `iarm`: two bus threads and one thread of the plugin, two events, two
  handlers, three operations and three deliveries: a delivery that waits for
  the lock, one that runs and a removal in between; the bus fails or not.
  `NoNullCall`: if the bus waits for deliveries when it removes a handler
  (`busDrains`), a null pointer is called only for an event whose removal the
  bus had refused. `NoChangeUnderHandler`: only a handler itself replaces or
  removes the one that runs, and when a removal returns no other thread runs a
  handler; one that is out of the lock at that time comes back. `EventsHandled` (every delivery ends
  unless a removal waits, under the lock, for a delivery that waits for the
  lock, or a null pointer was called).

### FrontPanelBlink

The operations of the plugin, one at a time (`api`), and the ticks of the timer
thread (`tick`), without a lock between them, one step per access to a member
that both use: `stopBlinkTimer` resets the flag, then revokes; `setBlink` clears
and refills the list, resets the rounds, the index and the limit one by one,
shows the first element and schedules; a tick steps the index and the rounds
(reads, then writes: an operation may come between), copies its element, shows
it, tests the flag, schedules the next one. Where the code reads a number again
that it has just written (`copy`), the tick takes the one in memory or its own.
Every other LED operation (brightness, power, colour) is a stop followed by the
value it writes; what the single LEDs remember is in FrontPanelLeds. A call of the
device library may fail, which `setBlinkLed` catches: the LED then shows whatever
it may (`Unsure`). `revokeWaits` says whether `Revoke` waits for the callback that
is running and then clears the queue; one that clears first is a case of not
waiting. `replaced` remembers that a setBlink has been at the list during the
tick.

* Run `blink`: patterns of no, one and two elements, played once, twice and for
  ever, three operations. `AtMostTwoTicks`, `OneElementAfterStop`,
  `OutOfRangeInSetBlink` (an overrun only in a tick that a setBlink overlaps, or of
  an empty pattern) hold in any case, `TicksOfThePattern` and
  `EndsOnLastElement` if `Revoke` waits; `BlinkingEnds`: ticks end once the
  operations do, unless the pattern is for ever. Three operations are two
  setBlink and a stop: a third tick at once would need a tick that survives two
  of them. `MaxShown` bounds the elements of an endless pattern; a finite one
  does not reach its bound.

### PanelInstance

`CFrontPanel::instance` in the steps in which threads can meet: the test of
`initDone`, the attempts to get the interface (`RetryCount`), the move
assignment of the `PluginInterfaceRef` (which overwrites a pointer without
releasing it), the test and the setting of `s_instance`, the power state and
`initDone` at the end. Without a power manager the assertion at
`frontpanel.cpp:163` ends a build that has assertions (`AssertFails`), and another
build goes on. `deinitialize` is called when no thread is in `instance`; before any
`instance` it uses a null pointer (`crashed`).

* Run `helpers`: three threads, two attempts, five operations, so that an object
  has two lives with overlaps in the first. `PanelAccounted`: at most one object
  and one reference are lost for every call of `instance` that overlapped
  another, none without overlaps, the pointer never is that of a deleted object,
  and a `deinitialize` after a completed `instance` does not use a null pointer.

### FrontPanelLeds

Which LEDs are lit and which the panel remembers, across `powerOnLed`,
`powerOffLed`, their forms for all LEDs, `setPowerStatus` and the lives of the
panel, whose flags are static. A box has any set of the LEDs; the library throws
for the others, and up to `MaxLedFaults` times for those. RfByPass is a LED like
Remote and left out.

* Run `helpers`: six operations with one failure. Three bring the panel and the
  power up and have a LED asked for, which leaves an off and an on of all, with
  one more in between. `LedsRestored`: what has been asked for comes back with
  `powerOnLed(ALL)`; a LED switched off by name does not. A LED that the box has
  not got, once asked for, makes every later call end there and return false,
  before it has lit the Power LED (`frontpanel.cpp:348`).

### TpTimer

A user thread calls `start`, `stop` or the destructor, and the timer thread runs
the expiry (`tick`) and in it the callback, which may call `start` or `stop`
itself. There is no lock, so a call is three steps: `RevokeJob`, `ScheduleJob`,
`SetActive`. `revoke` says what `TimerType::Revoke` does when another thread is
in the callback: return, clear the queue and wait, or wait and clear it.

* Run `helpers`: four calls of the user, every callback, single shots and
  periodic timers. `TimerObeysCalls` (`StoppedStaysStopped` and
  `SingleShotOnce`), `PeriodicGoesOn`.
  Four calls are a start, a stop that meets an expiry, and the same again on what
  that has left. A periodic timer dies if its first expiry comes between the
  scheduling and `m_isActive = true` of its own start: the property excludes that
  (`early`), since the interval decides it and the model has no time.

### UtilsController

The calls `getThunderControllerClient` (the token, under its static mutex, by a
request to Thunder's own web server) and `activatePlugin` (a job of the pool that
sets the event the caller waits for). `pooled` are the calls made on threads of
the pool; requests and jobs take a thread of the pool each.

* Run `helpers`: three calls of any kind, pooled or not, and two pool threads: all
  threads held, one left, and a token asked for while an activation waits.
  `TokensAgree`; `ControllerCallsReturn`: with a thread left every call returns.
  With none left they wait for ever, as neither wait has a limit.

### PropertyFile

`ExpandPropertiesInString` and the calls of `readPropertyFromFile` it makes, a
step for each round of a loop. `reading` is the stack of the open calls:
`SkipLine`, `TakeValue` (all of them return), `FollowReference` (a call with the
name behind the "$", from the start of the file again), `FileEnd` (the caller
passes over the line of a reference that leads nowhere). Every open call has the
file open (`MaxOpen`); a call that cannot open it returns false, which is what
ends references in a circle, and `refused` remembers it. `AskForVariable`,
`PutValue`, `CannotPut`, `DropSign` and `ExpandEnd` are the rounds of the
expansion; `forms` is the output, as the form in which each variable is in it. A
property is a sequence of words, since lines match by a prefix; a line that starts
with "#" is one that nothing matches.

* Run `helpers`: every file of two lines, and of three lines of a smaller kind,
  which is enough for a reference that leads nowhere before one that does and for
  circles of two, and chains of references longer than `MaxOpen`, which is three.
  `PropertyResolved`: a name is resolved exactly if the closure of the references
  has a line with a text, to such a text; one is missed only if the file could not
  be opened, and that happens only if references lead back to themselves or to
  more names than files can be opened.
* Run `helpers_expand` (a violation): see section 8.

### FileSearch

`searchFiles`: `calling` is the level at which a call of `searchFilesRec` begins,
`searching` the stack of the calls in their loop over a directory, each with what
`readdir` has not returned yet (any entry may be next), the grown `inputPath`
(`tail`) and its `count`. `pathList` is shared by all calls: a match takes the
place of its wildcard there for good (`Descend`). Names are sequences of letters,
since the search puts names together.

* Run `helpers`: trees of three levels with the names a, b and ab, paths of up to
  three levels of three kinds, a cap of two instead of ten. `SearchReports`.

What `SearchReports` does not say is as instructive: of several matches in a
directory only the first one in `readdir` order is sure to be reported, since
the others are looked up under the joined names (`UtilsgetFileContent.h:212`);
a file whose name is such a joined name is reported even if it is excluded; with
wildcards in two levels above the last, directories after the first are searched
for the last match of that one; the cap of ten is per directory; and `maxDepth`
and `minDepth` are not used.

### ImageEncoder

`imageEncoder`, a step for each byte (`EncodeByte`) and one for what follows the
loop (`EncodeEnd`). A character is its index in the table, 64 the "=".

* Run `helpers`: up to four bytes of four values, which is every remainder modulo
  three. `EncodedBytes` compares the bits of the text with those of the bytes.

### InputValidator

`ExpectedValues` objects with a type and a member for each type; assignments
write the type and that member only, a copy of discrete values adds to the set
that is there, and a move leaves the old type behind. `want` is what a variable
would accept if assignments simply copied.

* Run `helpers`: two variables, four assignments or registrations.
  `ValidatesAsMeant`: `validate` accepts what all validators of a key were meant
  to, of their type, unless a variable that has had discrete values was assigned
  others by copy: it accepts both then.

### SettingsFiles

Three users of files, one thread, and a process that may crash between any two
accesses to the file system and start again; any access may fail. `cSettings`
(`Start`, `ReadFails`, `SetValue`, `Remove`, `OpenForOutput`, `WriteLine`,
`Written`, `CannotWrite`): a read that fails after the opening leaves
`readFromFile` in a loop without an end (`cSettings.h:198-205`), "stuck", out of
which only a crash leads; a text is the sequence of its parts between "=" signs, since a
line is split at the last one, and has no line end. `persistJsonSettings` (`Load` to `Synced`): the
file is destroyed, made again and written. `MoveFile` (to `Finish`): read and
written in pieces of a buffer, and the source destroyed at the end.

* Run `files`: two keys, values that are plain, empty or have a "=", two JSON
  keys and values, a file of three units with a buffer of two (a full piece and
  a partial one), three calls, two crashes. `SettingsKept` (what the application
  was told is stored is read back by the next start, unless a write was cut short,
  a value has a "=", or the file could not be opened and was written over),
  `JsonKept` (outside the two steps between destroying and rewriting, and unless a
  crash hits them or the file could not be opened, read whole, made or written),
  `MoveKeepsFile` (unless a read fails, which the
  code takes for the end of the file).

A crash is one of the process: what was written stays. Losing the power is not
modelled, so `syncPersistFile` changes nothing.

### MotionDetection

The life of the plugin object (`phase`: constructor, `Initialize` in its
platform calls, active, `Deinitialize`, destructor, next object), the
callback on the platform's thread (`event`: test of `_instance`, notify, clock,
store), and the API methods of a caller, with the blocks they are to free.
Time points are numbers of clock readings.

* Run `motion`: two objects in turn, three events, one caller with two calls: a
  callback of the first life can meet the second. `LiveInstance` and
  `NoneIgnoredInLife` if the platform's end waits for a running callback
  (`termWaits`), `LastEventLag` and `NothingLeftBehind` (calls free their blocks,
  `Initialize` disarms) in any case, its second half if the platform does not
  fail in `Initialize` (`healthy`): the code ignores what it returns there. The
  blocks are those that the methods free somewhere; the array that
  `MOTION_DETECTION_GetActivePeriod` hands out (`MotionDetection.cpp:423-450`) is
  taken to stay the platform's, which the repository does not say. One caller: the methods share only the
  platform with each other.

### MCHelpers

PanelInstance, FrontPanelLeds, TpTimer, UtilsController, ImageEncoder,
PropertyFile, FileSearch and InputValidator are checked apart. `part` says of which
of them a behaviour is; the others rest, with inputs that are fixed, so that the
instance has the sum and not the product of their states.

## 4. Fairness

Weak fairness only, and only of what the code itself keeps going:

| Module | Fair | Why |
|---|---|---|
| JsonRpcInterface | steps of a thread in `sendRequest`, `OnMessage`, the return of a handler | running threads go on; the wait is bounded by `wait_for`; `run()` dispatches while there is something to dispatch |
| CommandInterface | steps of a caller | the same; the wait is bounded |
| WSEndpoint | the steps of `closeConnection` and of the join, `RunEnds`, ping timers, pong timeouts, the end of an opening and of a closing handshake | timers of a running loop fire; websocketpp has timeouts for both handshakes |
| ApiLock, LockedIarm | steps of each thread | running threads go on; since calls are bounded, a mutex that others keep taking gets free for good, so a mutex need not be fair |
| FrontPanelBlink | `ApiStep`, `TickStep` | an operation that has begun goes on; a scheduled entry expires |
| TpTimer | `UserThread`, `TimerThread` | the same |
| UtilsController | steps of each call, with those of its job or request | a running thread goes on, and the pool takes what is queued when it has a thread |

Nothing is assumed of applications, peers, the bus or the platform: they may
stop at any time. MotionDetection, PanelInstance, FrontPanelLeds, ImageEncoder,
PropertyFile, FileSearch, InputValidator and SettingsFiles have safety properties
only and no fairness.

## 5. Environment

Where the behaviour of a library or of the surroundings is not in this
repository, a variable or a constant stands for it and the properties name what
they need:

* `revokeWaits` (TimerType::Revoke waits for a running callback), `busDrains`
  (the bus waits for deliveries when a handler is removed), `termWaits`
  (MOTION_DETECTION_Platform_Term waits for a running callback), `healthy` (the
  platform calls of `Initialize` succeed), `setting` of WSEndpoint: chosen at
  the start and never changed, so that one run covers all cases.
* `revoke` of TpTimer: the same choice with one case more.
* Thunder's web server answers requests on threads of the worker pool
  (`ServeRequest`), and the pool runs jobs in any order (`TakeJob`).
* `BusMayFail`: constant; the run has TRUE, in which the bus may also not fail.
* `MaxOpen` of PropertyFile: constant; the files that the process can have open
  at once.
* `ReentrantThreads`: constant; the threads whose Invokes may come back.
* Reads and writes of one shared variable are taken as a whole. The torn
  `weak_ptr`, `std::function` and time point that races in the code could
  produce are undefined behaviour below the grain of the models.

## 6. Proofs

Every theorem holds for all values of the constants under the assumptions named
in the modules (`...Assumption`), all of them on what the constants are: that
names of threads and "no thread" differ, that bounds are natural numbers, that
sets of callers are finite where they are counted, that files, strings and paths
are finite sequences, and that the directories above a file are there.

| Module | Inductive invariant and why it is needed | Theorems on top |
|---|---|---|
| JsonRpcInterfaceProofs | `EntryOwned` (an entry belongs to one call under way), `OwnSendIsLast` (nothing with its id was sent after the call's send), `AnswersHaveSends`, `AnswersAreUnique`: an answer to this id follows from who owns the entry, and that a second `set_value` needs a repeated id from uniqueness of answers | EntriesOwned, AnswersForThisId, HandlerCallsUnanswered, NoTermination, TrueIsSuccess, Refinement |
| ApiLockProofs | `WellNested`, `WaitsWithoutLock`, `FlagsOfStack`: only a thread in a body owns a mutex; without reentrant calls no inner wrapper clears the flag of an outer one | NoWaitingOwner, LockAndFlag, MethodsLocked, UnlocksMatch |
| FrontPanelProofs, blinking | `FlagOfStep` (the flag by the step of the operation), `LastShow` (elements left after a stop), `GetInRange` (a tick that no setBlink overlaps has the index and the rounds for itself), `ReplacedInTick` (one that does is known, and followed by a tick of its own), `PlaysOn`; `InOrder` (if `Revoke` waits, what the LED shows and how much has been shown follow from the index and the rounds) | TwoTicks, StopStops, OverrunInSetBlink, PatternPlaysOn, WaitingRevokeIsEnough, LastElementStays |
| FrontPanelProofs, LEDs | `LedIInv`: what was asked for is what is remembered, nothing switched off by name is in it, only LEDs of the box are lit | AskedLedsComeBack |
| FrontPanelProofs, object | `PanelIInv`: `Pointers` (by the steps of the threads), `ReferencesToLose` and `PanelsToLose` (what is lost and the threads that may still lose one are together no more than the overlaps, but for the first of a life) | PanelsAndReferences |
| HelpersProofs, commands | `LagBound`: the lag of the last message by timeouts and callers not yet woken, of which `ResponseLag` is the case of a caller that returns | Lag, Responses |
| HelpersProofs, timer | `TimerIInv`: `StepsOfCalls` (where the threads are), `StopClears` (nothing is scheduled between the revocation of a stop and its end), `EntriesOfStarts` (an entry that is due was scheduled by a start, one of the callback does not outlive the expiry) | TimerIsObeyed |
| HelpersProofs, controller | `ControllerIInv`: `FirstAsks` (whoever asks for the token holds the mutex and is the first; those that have returned have the cached one) | OneToken |
| HelpersProofs, validation | `ValidatorIInv`: `ObjectsMean` (an object that has not been moved from accepts what was meant, and more only if it has been merged; one that never held discrete values has none) | ValidatedAsMeant |
| WSEndpointProofs | `LastOpenIsHandle`: with one connection at a time an open connection is that of the handle; the pings that have not been answered are a finite set, so that the chains can be added up | KeptAlive, OneChainEach, TimeoutOfItsOwn |
| LockedIarmProofs | `OneHolder`, `OpsOfThreads`, `BusHasHandler`, `FlightHasHandler`: an event the bus knows, or has on its way, has a handler or is one whose removal failed | NoNullHandler, HandlersStable |
| MotionDetectionProofs | the pointer and the platform by phase, the callback only in a life, times in order | CallbackLives, NoneIgnored, LastEventTimely, NothingLeft |
| FilesProofs, settings and files | `Copying` (read = written + in the buffer), `Rewriting` (the document in memory has every pair while the file has not), `Remembered` (a process that has started from everything has all settings in memory), `BeingWritten` (the lines written are those of the settings looked at); a line's last "=" exists because the sets of indices from one on are finite, by well-founded induction | SettingsSurvive, NothingLost, PairsKept |
| FilesProofs, base64 | `EncoderIInv`: `TextSoFar` (the text has all bits up to its length), `BitsLeftOver` (`lastStuff` has the next ones) | BytesEncoded |
| FilesProofs, properties | `PropertyIInv`: `CallsFollowReferences`, `CallsLead` (every call is in the closure of the references of those below it: by the pigeonhole principle, when no more files can be opened a name is among the open calls twice and in a circle, or there are more names than files), `PassedOver` (what a call has passed over leads to no text, if the file could be opened for it) | PropertiesResolved |
| FilesProofs, search | `SearchIInv`: `PathFits`, `LoopsFit` (a loop searches the directory that the path names; its count is what has been reported of it), `LoopsNest` (open directories are one in the other), `NoneTwice` (nothing has been reported of what is still to be searched, so that a loop's count starts right), `NoneMissed` (a file that is to be found is reported, or in what is still to be searched) | SearchReportsRight |

The closure of references is the smallest closed set, defined without recursion;
that it is closed, monotone and holds nothing else are lemmas. So are the bits of
sums and quotients of bytes, and the cardinalities of the files in a directory.

Each proof shows that `Init` implies the invariant and that every action of
`Next` preserves it, conjunct by conjunct, with a lemma for the actions that
leave a conjunct's variables alone. `Refinement` shows that each initial state
of JsonRpcInterface maps to one of `RequestCalls` and each step to a step or a
stutter of it. The inductive invariants were found with TLC; the runs check the
properties that follow from them, and it is enough to add one to the `INVARIANTS`
of a configuration to check it again.

## 7. Model-checked only

Liveness (`MessagesHandled`, `CallsReturn`, `BlinkingEnds`, `EventsHandled`,
`KeptWhileAnswering`, `SettledDestroyReturns`, `PeriodicGoesOn`,
`ControllerCallsReturn`, and the liveness of `ImplementsRequestCalls`) is out of
the prover's reach. Every invariant and every action property of the runs that
pass is a theorem.

## 8. Disagreements between code and documentation

* `api_lock_relock`: `UtilsSynchro.hpp:84-88` presents `UnlockApiGuard` for the
  case that the invoked plugin calls back. Then the inner wrapper clears the
  thread's flag (`:60`), the outer guard's destructor reads it and does not lock
  again (`:97`): the outer method goes on without its lock, and its wrapper
  unlocks a mutex it does not own.
* `ws_destroy`: `closeConnection` does nothing while a connection is being
  opened (`WSEndpoint.cpp:87`); `~WSEndpoint` then joins a loop whose connection
  opens and is pinged for as long as the peer answers, against "Threads must be
  joined or safely terminated"
  (`.github/instructions/Pluginlifecycle.instructions.md:189`).

* `helpers_expand`: `ExpandPropertiesInString` starts each round by assigning the
  input up to the variable (`UtilsgetFileContent.h:283`), which undoes the rounds
  before: of several variables only the last one is replaced, with true
  returned, against "Process a string containing variables and replace them with
  corresponding values" (`:271`).

## 9. Not modelled

* Texts: parsing and printing of JSON, addresses and log messages; regular
  expressions beyond "a name contains"; comparing and trimming of strings.
* Colours and brightnesses of the LEDs, apart from blinking patterns.
* TLS configuration, BinaryInterface (a stateless send), IARM initialisation (a
  bounded loop around the library), telemetry and process helpers.
* Loss of power, and torn accesses (section 5).

## 10. Plan

Order of the modules was by weight: request/response (JsonRpcInterface), the API
lock every plugin depends on, the front panel's timer, the WebSocket's command
interface and life cycle, the bus handlers, the plugin, the files, the panel
object, and the helpers that stand alone. What is left:

1. LockedIarm over ApiLock: that the abstract lock of the former is what the
   latter implements. An open call over a connection that closes is within
   JsonRpcInterface already: its answer never comes.
2. An abstract specification of the front panel's blinking (a pattern that is
   shown, or none) for the case that `Revoke` waits, and its refinement.
3. The steps that the liveness properties rest on, as action theorems: what a
   fair step brings nearer to its end.
