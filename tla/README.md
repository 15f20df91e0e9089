# Mina Vision: TLA+ models, checks and proofs

Mina Vision is a personal assistant: a desktop application (Electron, `src/src/`) that
plans and carries out missions, and an Android application (`src/android/`) that talks to
it. This directory models the parts of it where several actors share state, where a
process may die between two steps, or where a message may be lost, duplicated or late.
TLC checks each model on small instances; TLAPS proves what is said of the core for every
value of its constants.

## 1. The system

### 1.1 Parts, state, operations

| Part | Code | State | Operations | Hard because |
|---|---|---|---|---|
| PC chat ledger | `devices/chat-ledger.mjs`, `core/versioned-json-store.mjs` | map of answers, leases, chain of flushes, one JSON file | load, streamOnce, once, append, trim, flush | the same message arrives twice (socket and relay), saves fail, leases expire, the process dies during a write |
| PC response stream | `devices/chat-response-stream.mjs` | sequence of the running response | deliver | fragments are emitted while they are persisted, and emitted again by replays |
| PC chat channel | `devices/chat-server.mjs`, `chat-channel.mjs`, `chat-device-registry.mjs` | sockets, sessions per device, epoch, pairing window, approved devices | hello, event, revoke, listen, close | a device may have several sockets; stop, start and revoke overlap |
| PC relay | `devices/chat-relay.mjs`, `firestore-relay-adapter.mjs` | watched documents, those in treatment | handleDocument, start, stop | each document is handed over once, by callbacks that overlap; it is deleted only after a terminal frame |
| PC media | `chat/chat-media-handler.mjs`, `media-assembler.mjs`, `media-store.mjs` | media being assembled, in memory; encrypted files | begin, addChunk, finalize, purge | parts come twice over two paths, each is acknowledged before the whole exists |
| Phone outbox | `android/core/chat`: `ChatSyncLoop`, `ChatDatabase`, `ChatRepository`, `ChatEngine` | tables chat_events and chat_outbox | enqueue, drainOnce, markDelivered, retry, purge | loop, background worker, acks and user change the same rows |
| Phone link | `DirectChatLink`, `FirebaseChatRelay` | socket, link state, epoch | connect, callbacks, send, disconnect | callbacks of an older socket arrive after a newer one is there |
| Phone response overlay | `ChatResponseStreamAssembler`, `FirebaseResponseStream` | partial answers | accept, watchFrames | frames out of order, terminal frame first |
| Work runtime | `core/mina-runtime.mjs`, `sessions/session-manager.mjs`, `core/orchestrator.mjs` | runtime status, active works, stop flag, event journal | start, runWork, emergencyStop, shutdown, recover | an emergency stop or a shutdown at any await of a running work |
| Approvals | `approvals/*`, `messaging/telegram-approval-adapter.mjs` | remote approvals | request, approve, deny, consume, invalidate | every decision awaits between its check and its write |
| Safety | `safety/*` | one-shot confirmations | authorize, grantConfirmation | a confirmation granted for one action and used by another |
| Automation | `automation/*`, `recovery/*`, `routines/*` | runs and steps in SQLite, abort controllers in memory | run, cancel, reconcile, closeManually | a crash between an effect and its record, evidence that comes late |
| Message delivery | `devices/phone-message-sync.mjs`, `messaging/message-delivery-ledger.mjs`, `executors/phone-bridge.mjs` | delivery ledger, memory, the running synchronize | synchronize, advance, submitMessageCommand | a receipt that never comes for a command that runs all the same, late |
| Phone: SMS bridge | `android/app/…/messaging/`: service, poller, command files, encrypted messages | stored messages, Telegram offset, command files | poll, pull, ack, telegram.send | two threads, killed between two steps |
| Communications, telephony | `communications/*`, `telephony/*` | tasks, calls | drain, claim | acknowledged effects that a restart would repeat |
| Provider access | `providers/*`, `usage/*`, `runtime/local-runtime-supervisor.mjs` | routes, quota, budget, child process | chat, admit, record, ensureAvailable | concurrent reservations, child restarts |
| Memory | `memory/*`, `rag/*`, `graph/*` | facts, summaries, indexes | beforeTurn, afterTurn, endSession | hooks called around every turn |
| Code assistant | `code/*`, `sandbox/*`, `files/*` | worktrees, drafts, patches | propose, apply, roll back | partial application of a patch |
| User interface | `ui/*`, `boot/*`, `voice/*`, `camera/*` | windows, IPC handlers | wiring | wires the parts above |

### 1.2 Interactions

A message written on the phone is stored with its outbox row; the sync loop hands it to
the socket (`DirectChatLink`) or to the relay (`FirebaseChatRelay`). On the PC, the chat
server or the relay handler calls `deliver` of the response stream, which asks the ledger;
the ledger either serves the stored answer, shares the generation that is running, or runs
a new one, which goes through the responder to the work runtime. Frames and the final answer
come back on the path the message came by; the phone keeps, for each response and each
sequence, the first frame it gets. The work runtime opens a session and a work in the
session manager, which appends events to a journal and awaits the memory hooks on each, asks
for evidence, runs the orchestrator and closes the work.

The owner's Telegram messages and SMS take another road: the phone's service stores them,
the PC asks for them with command files pushed over ADB, answers through the same command
files and acknowledges. The delivery ledger of the PC and the state of the rows on the phone
are the only things that outlive a restart.

An automation run carries out the actions of a simulation one by one, through registered
domain handlers, and records each with its proof; what a crash leaves behind is listed as a
case, reconciled or closed by hand.

Approving a phone, its epoch key and its sockets belong to the chat channel. The handshake
admits a phone into the registry or recognises it, gives it the current epoch key and
records its socket; each event is checked against the registry again; a revocation removes
the phone, opens the next epoch, closes its socket and saves the registry. The user
interface calls start, stop, pairing, revocation, the memory lock and the emergency stop.

### 1.3 What makes each part correct

- **Ledger**: an answer given once is the answer for ever, restarts included, unless a start
  finds its file half-written; at most one generation per message; a fragment is on disk before
  the phone sees it; every call returns.
- **Response stream**: frames with the same response and sequence agree; one final answer
  per message.
- **Sessions**: a revocation holds against sockets, handshakes and restarts; a late close
  event harms nobody; a code admits one phone.
- **Outbox**: no message is lost while its failure is not shown, unless two have it in their
  hands at once; a queued message reaches the PC once that is reachable, or its failure is
  shown.
- **Relay**: a question leaves the relay only with its answer there; a question that the
  phone holds gets its end over one of the two paths.
- **Media**: perceived once over two paths; no part is lost but by a fault; it arrives or one of
  its rows is shown failed.
- **Message delivery**: a message is released only once it is stored and settled; the owner
  is never told two answers to one message; no message holds the others.
- **Automation**: an action takes effect behind the proof of the former ones; what has a
  row is not repeated; completed means proved; a cancelled call stops.
- **Work runtime**: the journal tells one consistent story of each work; a stop that returns
  has reached every earlier work; a settled call leaves no open session.
- **Mission**: a stopped mission ends, begins at most one more action and does not announce
  success.

The lines where each of these may go wrong are the hazards of `PROJECT.json`.

## 2. Modules

- `ChatLedger` ← `ChatResponseStream` (EXTENDS: the same calls with the frames they emit).
- `MessagePromise` is what `PhoneMessages` implements (`Promise == INSTANCE MessagePromise
  WITH …`, property `KeepsPromise`).
- `ChatLedgerInv` and `ChatStreamInv` state the inductive invariants of the ledger and of its
  frames; `ChatLedgerProofs`, which extends both, proves them. `ChatOutboxProofs`,
  `ChatMediaProofs`, `ChatRelayProofs`, `ChatSessionsProofs`, `WorkRuntimeProofs`,
  `AutomationProofs` and `PhoneMessagesProofs` extend what they prove about;
  `WorkRuntimeProofs` extends `WorkRuntime` and `MissionLoop`, whose names are apart, and
  proves what is said of the works and of the missions. Each `MC…` module gives its module
  instances.

| Module | State and actions | Code |
|---|---|---|
| `ChatLedger` | the map `processed`, `lease`, one record per pending `call`; the flush chain `queue`/`saving`/`data`, the file `disk`. `Stream…` and `Once…` are the branches of streamOnce and once; `Opened`, `Appended`, `Sealed`, `Labelled`, `Undone`, `OnceStored` are the continuations of its awaits; `StartSave`, `SaveDone`, `SaveFailed`, `FlushClean` run the chain; `LeaseTimeout`, `Crash` (which may leave the file `torn`), `load`, `persist` | `chat-ledger.mjs`, `versioned-json-store.mjs` |
| `ChatResponseStream` | `frames` emitted and the `live` sequence of each response; `DeliverStarted`, `DeliverChunk`, `DeliverCompleted`, `DeliverFailed` are the ledger's steps with what deliver emits around them; a connection may break at any frame | `chat-response-stream.mjs` |
| `ChatRelay` | the phone's `row`, `vault`, `inbox` and `shown` answers, the direct link with its frames, the documents of the relay (`docs`, `fresh`, `replies`), the PC's ledger and one record per asynchronous call (`handler`). `Offered` is a snapshot's callback, `handleDocument` and `handleEvent` the two entries, `Generated`, `EmitRelay`, `EmitDirect`, `remove` what follows their awaits, `GenerationFails`, `EmitFails`, `RemoveFails` how these fail; `Watched`, `ingest` the phone's listener; both sides die | `chat-relay.mjs`, `firestore-relay-adapter.mjs`, `chat-server.mjs`, `FirebaseChatRelay.kt`, `ChatEngine.kt` |
| `ChatMedia` | parts `acked`, on the `wire`, in the relay (`docs`); the assembler's `pending` entry, the ledger's shared `work` with those who `joined` it and the `orphans` of a lease; the end as the ledger has it (`done`) and as its file has it (`saved`), the encrypted file (`stored`) and what was `perceived`; on the phone the rows that `failed`. `SendDirect` and `LinkDown` are the attempts of the outbox, the last of which fails the row. `handleMedia` is one synchronous treatment of a part, `Saved`, `Perceived`, `Flushed` the awaits of the end; expiry, lease, failed or late save, eviction, restart with or without the ledger's file | `chat-media-handler.mjs`, `media-assembler.mjs`, `media-store.mjs`, `chat-ledger.mjs`, `ChatSyncLoop.kt` |
| `ChatSessions` | the `registry` with its `disk` copy and pending `saves`, the pairing `window`, each `socket`, the `sessions` map, the keys each phone has (`held`); `Hello…`, `Event…`, `SocketGone`, `revoke`, `stop`, `lock`, `Save`, `Restart` | `chat-server.mjs`, `chat-device-registry.mjs`, `chat-channel.mjs` |
| `ChatOutbox` | the two tables (`event`, `row`), one record per `drain` with the rows it read; `Collect`, `Route`, `SendDirect`, `AskRelay`, `RecordState`, `RecordRow` … are the steps of drainOnce between the calls of the DAO; `MarkDelivered` and `Dequeue` of an ack; `Retry` of the user; the link, the relay and the PC are the environment | `ChatSyncLoop.kt`, `ChatDatabase.kt`, `ChatRepository.kt`, `ChatEngine.kt` |
| `PhoneMessages` | phone: rows `stored` and `ingested`, Telegram `offset`, command `files`, the command at `work`, the `receipt`; PC: `remembered`, the delivery `ledger`, the running `sync`. `PersistUpdate`/`SaveOffset` are the poller, `Take`, `RunPull`, `RunAck`, `RunSend`, `Report`, `Delete` the command thread, `StartSync` … `Acknowledged` synchronize with `Advance`, `Generated`, `Send`, `Sent`, `SendFails` of advanceTelegramMessage; `Abandon` is the timeout of submitMessageCommand | `phone-message-sync.mjs`, `message-delivery-ledger.mjs`, `phone-bridge.mjs`, `MinaGatewayService.kt`, `MessagePullFileProcessor.kt`, `TelegramPoller.kt` |
| `MessagePromise` | `kept`, `reply`, `said`, `outcome`, `released`; `Keep`, `Choose`, `Say`, `Settle`, `Release`; what that implies is `Honoured` and `Irrevocable` | what the two sides promise |
| `WorkRuntime` | the await each runWork `call`, `stop`, start (`opening`) and shutdown (`quitting`) is in, works, keys and `journal`; one action per stretch between two awaits | `mina-runtime.mjs`, `session-manager.mjs` |
| `MissionLoop` | the await `pc` of run, the counters of the mission; `Propose`, `Assess`, `Confirm`, `Execute`, `Verify`, `Finish`, the stop flag and the clock | `orchestrator.mjs`, `mission-state.mjs` |
| `Automation` | the rows `status` and `step`, the `controller` map, the await each `call` of run and each `repair` is in; `run`, the loop's steps between two statements, `cancel`, `reconcile`, `closeManually`, `Crash`, the cut of the external domains | `automation-runner.mjs`, `automation-ledger.mjs`, `invokable-domain-registry.mjs`, `receipt-verifier.mjs`, `recovery/*` |

An action is what runs without interruption: JavaScript between two awaits, Kotlin between
two suspending calls or inside one transaction, one SQLite statement. Texts, payloads, keys
and codes are abstracted to what the properties tell apart; an answer is the number of the
generation that wrote it, a fragment its index, a proof of identity right or wrong. Variables
and record fields called history (`served`, `failures`, `last`, `after`, `said`, `settled`,
`effects`, `overlap`, `perceived`, `lost`, `contested`…) are read by no guard but that of a
bound. Definitions with the comment `Mutant` are faulty variants of the definition that
follows; no specification uses them.

## 3. Runs

`tlc -workers 2 -config <cfg> <module>.tla`, in this directory.

| Run | cfg | Bounds | Shows |
|---|---|---|---|
| `ledger` | `MCChatLedger` | 2 calls, an old-format message, a new one and a medium, capacity 1, 2 responses, 1 fragment; the store the application wires, which rewrites its file in place | answers are on disk while the file is whole, and made again only when a start found it half-written; one run per message, every call returns |
| `stream` | `MCChatResponseStream` | 2 calls, 1 message, 2 fragments, 2 responses | frames never contradict each other, and nothing follows a terminal frame |
| `outbox` | `MCChatOutbox` | 1 purgeable message, loop and background drain, a user who retries at any moment, once; 2 attempts | a message is lost only when two had it in their hands at once; it reaches the PC that is back or is shown failed |
| `outbox_retry` | `MCChatOutboxRetry` | 1 message, the loop alone, 1 retry, 2 attempts | violated: a message is lost when the user retries it while a drain gives it up |
| `relay` | `MCChatRelay` | 1 question, 2 calls at a time, put again once, 2 faults, 1 revocation | no question leaves the relay unanswered, each gets its end |
| `media` | `MCChatMedia` | 2 chunks, 1 part in flight on the socket, 1 document in the relay, 1 fault | perceived once, lost only by a fault, arrives or a row is shown failed |
| `sessions` | `MCChatSessions` | 2 phones, 2 sockets, 3 pairing windows, 1 wrong code, 1 event at a time, 1 restart; symmetry | revocation, sessions and codes |
| `sessions_restart` | `MCChatSessionsRestart` | the same | violated: a paired phone is forgotten by a restart |
| `phone_messages` | `MCPhoneMessages` | 2 Telegram messages, one of a group, 1 SMS, 1 row per pull, 2 attempts, 2 answers, 2 faults | the protocol implements `MessagePromise`, the queue drains |
| `runtime` | `MCWorkRuntime` | 2 works, 2 keys, 1 stop and the one of shutdown; symmetry | journal, stop and settled calls |
| `mission` | `MCMissionLoop` | 3 actions, 3 failures, fast path on | the stop bounds and ends a mission |
| `automation` | `MCAutomation` | 2 calls, 1 reconciliation, 2 actions, 2 effects each, 1 crash, late evidence; call symmetry | order, no repetition, completion and cancellation |

Why the bounds are enough to be worth something. Two calls are needed to share or race for a
message; capacity 1 makes trimming happen at each new message, while 2 messages are enough to
trim one that is being generated (the run's own file with `MaxFresh = 3` adds another
generation and passes). A fragment number and a response number beyond those bounds only
repeat the same steps. In the outbox two attempts distinguish the last from the others, and a
background drain and a user beside the loop are what the hazards of that code need; messages
meet in the batch a drain has read, and `MCChatOutboxTwo.cfg`, by hand, has two of them with
one drain (`NeverLost` holds). The number of attempts of a media row is left open: any
attempt may be its last. In the relay questions meet only in the ledger, which `ledger`
covers, and in a snapshot's batch (`MCChatRelay.cfg` with two questions, one fault, `MaxSends
= 0`, `MaxEpoch = 0` and `Spec` keeps `RemovedOnlySettled`); two calls put a second snapshot,
or the socket, beside a call that is suspended; two faults are a crash and one more refusal
during its repair. A medium of two chunks has a first and a last. Two sockets give a phone a
former one and a current one, or give each phone its own; three pairing windows pair two
phones and re-pair one after the restart; two revocations and a restart are what it takes to
bring an old epoch back. A queue that offers one row at a time makes any message that stays
in it hold the two others; two attempts tell a retry from the last; two answers are what it
takes to see a different one. Two works and two kinds of key cover a stop that reaches one
and misses the other. Three mission actions give a refusal, an unverified action and one
more. Two automation actions give a former and a later one, and two effects a repetition. The
proofs of section 5 do away with the bounds for every invariant and every action property of
the runs; the bounds matter for what is said under fairness only.

A symmetry set is given where the elements are used alike, and never with a liveness
property. `MCChatOutbox` uses the view `OneMessage`, which keeps of the state what the next
steps and the properties of the run depend on when there is one message: two states it takes
for one have the same view after each step (a bisimulation), so it hides no behaviour from
`ReachesThePc` either. Deadlock is not checked where the system stops for good: the works of
an ended runtime, a question answered and a medium acknowledged.

## 4. Fairness

- `ChatLedger!FairSpec`: promises settle and the lease timer fires. A provider may stay
  silent for ever, and a call is never obliged to arrive; `CallsReturn` holds for that very
  reason, because the lease ends what the provider does not.
- `ChatOutbox!FairSpec`: the loop ticks, the database answers, a backoff elapses, the PC
  answers what reaches it. The link is under no obligation, nor is the relay: a Firestore write
  settles only when the server has confirmed it. `ReachesThePc` therefore speaks of the
  behaviours where the link stays up and the loop does not wait for the relay for ever; without
  that hypothesis the code does leave a message there (section 6). The background worker, which
  the phone schedules as it likes, is under no obligation either. `AckFairSpec` adds that the
  writes of an acknowledgement end; it serves by hand.
- `ChatRelay!FairSpec`: the outbox loop runs, the listeners are told, what the PC has begun
  goes on. Nothing obliges the direct link to come up; no write is obliged to succeed, but
  the refusals are counted.
- `ChatMedia!FairSpec`: what was begun on the PC ends (weak); the outbox tries a row as long as
  it has it, and the direct link, which comes and goes, lets each part through now and then
  (strong), for a link that is never up at the right time would say nothing of the program. A
  row whose attempts are used up is out of the outbox (`ChatSyncLoop.kt:107`): fairness asks
  nothing more of it, and `Arrives` admits that end. The relay is under no obligation.
- `PhoneMessages!FairSpec`: the service runs its two loops (`runPollLoop`,
  `runCommandLoop`) and the PC its timer (`startPhoneMessageSyncLoop`); a step of synchronize
  may always be the one that fails, and nothing says that Telegram or the responder ever
  accept. `Drained` holds for that very reason: the attempts are counted.
- `WorkRuntime!FairSpec`: awaits settle and callbacks answer; nobody must ask for a work, a
  stop or a shutdown. No run uses it: it is for `MCWorkRuntimeLive.cfg` and
  `MCWorkRuntimeQuit.cfg`.
- `MissionLoop!MissionFairSpec`: the awaits of the loop settle, the user answers the dialogs he is
  shown and time passes; nobody must ask for a stop. `StopEnds` does not suppose that the
  model ever says it is done.
- `Automation` has none: a handler may never return, and nothing in the code limits it.

## 5. Proofs

Checked by `tlapm`, for every value of the constants that the named assumption of the module
allows (sets of any size, finite where a cardinality is taken; bounds in Nat).

**`ChatLedgerProofs`** — `Typed` and `OneRunAlways`, from the invariant `Base`: the types,
that a process that is not up has no call (`DownInv`), and that each lease names the one
call that runs for its key and each such call holds its lease (`LeaseInv`). `OneRun` alone
is not inductive: a call that shares a lease waits for whoever the lease names, so the lease
and its owner have to be released in one step, including by an expiry and by a crash.

`DurableHolds`, `NotRegeneratedHolds` and `AppendedHolds` rest on `LedgerInv` of
`ChatLedgerInv`, which holds whatever the store does. An answer is served when the flush that
seals it has returned, but what matters is what that flush wrote, and others are queued
before it, behind it and for the record that a trim has put in its place. `FlushOf` says that
no flush of a run still producing can be taken for the one that seals it; `SoleOf`, that the
flush which an open or an append awaits is the only one of its run that is left, so none that
began before the fragment can be taken for the one that follows it; `SavedOf`, that the flush
a run awaits writes its record; `CleanInv`, that a flush that finds nothing to write finds it
written; `RecordOf`, that the map holds a run's own record or nothing for its key; `ReplayOf`,
that what may be replayed is stored. `AppendedHolds` follows and supposes nothing.

`DurableHolds` and `NotRegeneratedHolds` add `ServedInv`, which carries an answer from the
file to the callers and through a restart. They are about the store the application wires,
which rewrites its file in place: a crash during a save may leave it half-written (`torn`),
and the start that finds it so begins with nothing; `lost` remembers which answers were given
before. What is served and not lost is on disk unless the file is torn, and only what is lost
is ever generated again, so no other crash, failed save or lease makes Mina answer twice. In
the model `disk` stands for the last whole content of the file. The claim without that
exception, `AnsweredNotRegenerated`, is false (section 6).

**The frames**, in `ChatLedgerProofs` too — `StreamTyped`, `FramesAgreeAlways`,
`FragmentsSurviveAlways`, from `SInv` of `ChatStreamInv` beside `LedgerInv`, with no
hypothesis on the store: a file that is lost takes its versions with it, and the responses
that follow have fresh identifiers. `StreamImplementsLedger` is the refinement that lets the
frames rest on the ledger: deliver does nothing the ledger does not do.
What the phone may be shown depends on every version of a record that is still around: in
the map, in the file, in the snapshot of a save, in the hands of a call. `VersionInv` says
that two finished versions under one responseId are one answer, and that a finished version
agrees with the frames of its response; `FiledInv`, that no version the store may bring back
lacks a fragment that was emitted. The hard step is an append that settles after its lease
has run out: its fragment goes out although its generation was abandoned. `PendingInv` says
that until then nothing of that response is finished anywhere, and that what the file is
about to hold has the fragment; `ProducerInv` keeps the count of a running deliver in step
with the record of its call.

`OneAnswerAlways` and `NothingAfterFailed` need `Roomy`: the ledger has room for the messages
it is asked. `OneAnswerPerMessage` leaves out the answers that a torn file has lost
(`AnswerLost`), since these are generated again. `Roomy` is needed: with two messages and a
capacity of one, TLC finds both properties violated, since an evicted message is generated
again, and a run whose record was evicted goes on under a response that has failed (section
7). The wired capacity is two thousand entries. `RInv` adds to `SInv` that nothing is evicted
under a run (`HeldInv`), that the finals shown are among the answers served (`AnswerInv`),
and that a response that has failed has no append in the chain and no producer (`ClosedInv`),
which holds because a flush that undoes is queued behind the appends of its response
(`ChainOrder`, `CallOrder`).

**`ChatOutboxProofs`** — `Typed`, for any finite set of messages. The type of a drain is what
makes it more than bookkeeping: the rows a drain reads are those that are due, ordered by
their dates. `Ordered` says that rows that are queued have dates of their own, in the past;
`SortingExists`, that a finite set of distinct naturals can be listed in order. That lemma is
an induction on a set, which the library's theorems do not give here; it is proved from
`WFMin` instead, as the absence of a smallest length that is not reached. A drain that
writes to a row is at one of those it has read.

`LostOnlyContestedHolds` is about any number of messages, drains and retries and supposes
nothing of them. The code does lose messages, in two ways: the user retries one that a drain
holds (`MCChatOutboxRetry`), or two drains hold it (`MCChatOutboxWake`, section 6); a drain
holds the rows it has still to hand over or to count (`Ahead`). `contested` remembers the
messages that two have had in their hands at once. The theorem says that there is no third way:
outside of these, a message the PC has not received has its row or is shown failed, whatever
the link, the relay, the purge of old chunks, a cancelled drain and the death of the process
do, and a background drain beside the loop is harmless on messages of its own. The property is
not inductive: between its verdict and its record a drain works on a row it read before.
`HeldOf` says of each drain that on its way through the relay its verdict is never a failure,
that otherwise the rows it has still to go through are there or their messages need them no
more (`Live`), that no message is twice among them, and that a row about to be removed is that
of a message whose failure is shown or which is gone (`Settled`). A step of one drain disturbs
only the rows it holds, and `ApartInv` keeps what is not contested out of its neighbours' hands
(`NeighbourHeld`). `ReceivedInv` says that what is acknowledged was received.

**`ChatMediaProofs`** — `Typed`, `PerceivedOnceAlways`, `OnlyFaultsForgetAlways`, from `MInv`,
for any number of parts, copies in flight, relay documents and faults, and with no hypothesis:
a restart may find the ledger's file without the end of the medium, half-written by whatever
save was under way, and a trim may evict it; each is a fault, and counted (`again`), and so is
a lease that ran out. `perceived` alone cannot be bounded: a
call whose lease ran out is still at work and will perceive the medium in its turn.
`TallyInv` counts those still to come with those that were (`ToCome`), `OrphansInv` says that
each of these calls was left by a fault. `CallersInv` says that a caller that came by the relay has
its document there, handed over, and no other caller has the same; `PendingInv`, that an
entry which is not open holds nothing. `OnlyFaultsForgetAlways` then looks at each step that
acknowledges a part or lets go of one.

**`ChatSessionsProofs`** — `Typed`, `RevocationHolds`, `SessionsAlwaysLive`,
`SessionsAlwaysStay`, `CodesAlwaysSpent`, from `IInv`. The difficulty is in the restarts: the
registry loaded may be older than the one in memory, and revocation depends on epochs that
never come back. `RegistriesSound` says of every copy of the registry, in memory, in the
file and in each pending save, that its epoch counts its revocations and that it calls
revoked only phones that were. Two copies that both have all revocations then have the same
set of them, hence the same epoch (`SameEpoch`), and a restart that loses no revocation
loads the epoch it had. `NothingLost` bounds the keys that are out by that epoch, strictly
for revoked phones. `SessionsLive` is inductive by itself: closing changes no owner
(`SessionsKept`), and a socket that greets is in no entry (`SessionsWelcome`).
`Admissions` counts an open window as an admission still to come.

**`ChatRelayProofs`** — `Typed`, `RemovedOnlySettledHolds`, for any number of questions, calls,
faults and revocations. That a call settles its document before it removes it is not enough:
a document that is put again is not settled any more, so nobody else may hold it when it is.
`Handed` says that a document which was handed over stays in the relay, in the hands of one
call and once in its batch, until that call lets go of it; the outbox puts only a document
that is not there, and a snapshot offers only those nobody was told of. A restart keeps it,
since the calls die with the listener. `Typed` adds `Leases`: the lease of a question is with
a call that is generating its answer, without which the ledger's map could name anybody.

**`PhoneMessagesProofs`** — `Typed`, and `KeepsPromiseHolds`: the detailed protocol
implements `MessagePromise`. `Asked` says that at most one command has the PC's attention
and that it is the one its step has sent, `Heard` that a receipt of success found by the step
that waits for it speaks of its message. The commands nobody waits for any more are what
makes the refinement hard: `Honest` says of every command that is still around, live or not,
that an answer it carries is the one the ledger holds and that what it acknowledges is stored
and settled. It survives because no step takes back what it rests on (`Forward`) and because
giving up a command, or taking its receipt before the phone has deleted it, changes nothing of
it but that nobody waits (`Carried`). `Doing` is what
the running synchronize knows of its message. Then each step is one of the promise
(`Remember` keeps, `Generated` chooses, `RunSend` says, `Sent` and a failure that is final
settle, `RunAck` releases) or changes nothing it sees. What the promise comes to is proved of
it and carried over by the refinement, with no more look at the protocol: `HonouredHolds` (one
answer per message is ever heard, answered means heard, released means stored and settled)
and `IrrevocableHolds` (neither the answer chosen nor how a message was settled is ever taken
back).

**`WorkRuntimeProofs`** — `Typed`, `NoZombieHolds`, `StopHolds`, `JournalHolds`. `Life`
relates the await a call is in to the state of its session: active only while the call is
registered or about to be, over once the call ends it. `Targets` says that the work a stop
waits for is over and that a stop knows its own generation, `Story` that the journal of a
work is what its status says (none, one that goes on, one that is complete), `Closed` and
`QuitDone` that shutdown ends the works before the runtime's session, so that an end is the
last event of all. `NoZombie` needs `Life` because a call settles on four paths, three of
which go through a close that a stop may already have made.

**The missions**, in `WorkRuntimeProofs` — `MissionTyped`, `MissionStopHolds`,
`MissionStopPrevails`. `MissionUnderWay` keeps the budget of a mission that
is under way, without which a count could pass its limit; `StopAhead` says that an action
that began after the stop leads to the head of the loop, where the flag is read, and never
to another action. `MissionStopPrevails` says that outside the fast path a mission that was
told to stop is never announced complete; it needs no invariant, since the one step that
completes such a mission reads the flag. The budgets are those of `MissionLoop`'s own assumption,
`MissionAssumption`.

**`AutomationProofs`** — `Typed`, `CancelHolds`, `NotRepeatedHolds`, `CompletedHolds`,
`NothingAfterHolds`, from `Kept` and `Sound`. `Kept` has the types, the place of each call in
its loop (`Ordered`), the late effects of a cancelled call (`Counted`), that a reconciliation
looks at rows that exist (`Read`) and what a call that runs alone has read of its row
(`Alone`); it needs no hypothesis. `Sound` says that every action before the one a call is at
is proved (`Proved`) and that what a reconciliation has still to look at is not (`Repairs`).
`CompletedHolds` and `NothingAfterHolds` suppose `OneRepair`: either evidence never comes
late, or there is one reconciliation at a time. Two of them read the same unproved row, and
the one whose evidence came too early writes "unknown" over the proof the other has recorded,
under a run that has gone on (section 6).

**Only model-checked**: what is said under fairness, which the prover does not reach:
`CallsReturn`, `ReachesThePc`, `StopEnds`, `Answered`, `Arrives`, `Drained`. Every invariant and
every action property of the passing runs is a theorem, for some under the hypotheses named
above (`Roomy`, `OneRepair`), each of which excludes
a behaviour of the code that section 6 or 7 shows. Two kinds of facts were kept out of
the proofs' way rather than proved: no definition of the modules is recursive, and the only
induction over data is the one on the length of a sorted list, by a smallest counterexample.

## 6. Disagreements

The runs `sessions_restart` and `outbox_retry` show what a comment says and the code does not
do; they are the findings of `PROJECT.json`. The instances below show others, each run by
hand: a file of this directory, or a run's file with the property in place of its own (and
the constants or the specification that the table names). Each reports the property violated,
except those marked as passing.

| cfg | Property | What happens |
|---|---|---|
| `MCChatLedgerTorn` | `AnsweredNotRegenerated` | the store writes the ledger in place: a crash during a save loses every answer, and a redelivered message is answered again (`versioned-json-store.mjs:70`, against `chat-ledger.mjs:10`); the runs state what is left of the claim as `OnlyLostRegenerated` |
| `MCChatLedgerFailed` | `FailedLeavesNoFinal` | the save that seals an answer fails for its caller after a later flush has written it: the phone is told `failed` while the final is on disk (`chat-response-stream.mjs:99`) |
| `MCChatOutboxRetry` | `NeverLost` | the run `outbox_retry`: the user retries between the two statements with which a drain gives a message up, which is then said to be pending and has no row (`ChatSyncLoop.kt:109`, against line 10) |
| `MCChatOutboxWake` | `NeverLost` | two drains: the loop uses up the attempts of a row that the background drain holds, and that drain then records "waiting for the PC" over the failure, without a row (`ChatSyncLoop.kt:112`, against line 10) |
| `MCChatOutbox` | `FailedAfterMaxFailures` (without the view) | attempts count hand-overs that succeeded, so a message fails with fewer failures than the limit (`ChatSyncLoop.kt:99`, against line 15) |
| `MCChatOutbox` with `AckFairSpec` | `LeavesOnReturn` | a drain that waits for the relay's answer never looks at the link again (`ChatSyncLoop.kt:94`, against `ChatRepository.kt:77`); the run states what is left as `ReachesThePc` |
| `MCChatOutboxTwo` | `NeverLost` | passes: two messages, one drain, no user |
| `MCChatRelayTwice` | `OneVisibleAnswer` | the answer goes through the relay and through the socket under fresh identifiers, so the deduplication by identifier sees two (`chat-relay.mjs:176`, `chat-server.mjs:235`, against `ChatDatabase.kt:110`) |
| `MCChatRelayLeft` | `LeftIsTakenUp` | a document kept after a failure is not handed over again before the next start, though the outbox puts it again (`firestore-relay-adapter.mjs:37`, against `chat-relay.mjs:150`) |
| `MCChatMedia` | `NothingForgotten` | each chunk is acknowledged when it is in memory: a restart loses it and the phone has purged it (`chat-server.mjs:207`, against line 206) |
| `MCChatMediaSettles` | `Settles` | the acknowledgement of the last chunk is lost; the finalized medium refuses it for ever (`media-assembler.mjs:72`), so over a link that works its row is sent for ever |
| `MCChatSessions` | `FutureUnreadable` | answers under way at a revocation are still sealed with the key the revoked phone has (`chat-server.mjs:239`, against `chat-device-registry.mjs:4`) |
| `MCChatSessions` | `RevokedGetsNothing` | a phone that connected twice keeps its former socket, which a revocation does not close: the answer under way still goes there (`chat-server.mjs:344`, against line 339) |
| `MCChatSessions` | `MediaReadable` | after a revocation the phones that stay connected are sent media under an epoch they were not given (`chat-server.mjs:270`, against line 262) |
| `MCChatSessions` | `KeysForwardAlways` | the save of a revocation fails or is cut short, and after the restart the same epoch number, hence the same key, is opened again (`chat-channel.mjs:63`, against `chat-device-registry.mjs:119`) |
| `MCWorkRuntime` | `StopCutsAll` | a stop that meets a work already ending throws out of its loop and leaves the others uncut (`mina-runtime.mjs:91`, against `main.mjs:1237`) |
| `MCWorkRuntimeMission` | `MissionHalted` | a mission whose evidence is gathered during the stop starts after it (`mina-runtime.mjs:64`, against `main.mjs:1238`) |
| `MCWorkRuntimeKey` | `OneActivePerKey` | a work's end deletes a key that a newer work holds (`session-manager.mjs:227`, against `tests/session-manager.test.mjs:78`) |
| `MCWorkRuntimeQuit` | `ShutdownEnds` | a shutdown that fails leaves the runtime "ending" (`mina-runtime.mjs:100`, against `tests/integration/runtime-lifecycle.test.mjs:69`) |
| `MCMissionLoopRefusal` | `CompletedVerified` | a refused action clears the mark of an earlier unverified one (`orchestrator.mjs:280`, against `tests/orchestrator.test.mjs:179`) |
| `MCMissionLoop` | `CompletedVerified` | the fast path completes without verification (`orchestrator.mjs:135`, against `tests/orchestrator.test.mjs:148`) |
| `MCMissionLoop` | `FastStopPrevails` | the fast path never reads the stop flag (`orchestrator.mjs:133`, against line 325) |
| `MCMissionLoop` with `FastPath = FALSE` and `MissionSpec` | `NoActionAfterStop` | an action is executed after the stop (`orchestrator.mjs:231`, against `README.md:56`) |
| `MCMissionLoopTimeout` | `TimeoutStops` | the timeout is only looked at when an action is recorded (`mission-state.mjs:31`, against `tests/mission-state.test.mjs:43`) |
| `MCAutomationOnce` | `OnceEach` | a crash between an effect and its row, and the same run again: the handler is called twice with the same key, which is the receiver's to refuse (`automation-runner.mjs:47`, against `tests/automation-runner.test.mjs:49`); two calls at once do the same without a crash |
| `MCAutomationOnce` | `CompleteIsDone` | a run cancelled between two actions has only rows that are proved, and is listed as complete with actions that never ran (`recovery-service.mjs:9`, against `tests/recovery-projector.test.mjs:35`) |
| `MCAutomationRepairs` | `CompletedVerified` | two reconciliations with late evidence: "unknown" is written over a proof under a run that completes |
| `MCMissionLoop` | `StopPrevails` | passes, and is the theorem `MissionStopPrevails`: outside the fast path no mission is announced complete after the stop |
| `MCChatLedger` | `AppendedOnDisk` | passes, and is the theorem `AppendedHolds`: when append gives control back to the provider its fragment is in the file |
| `MCWorkRuntimeLive` | `WorksEnd` | passes: with one key and one stop, every work ends and gives its key back |

## 7. Not modelled

Inside the modelled parts:
- `ChatResponseStream` is checked with a capacity that keeps the running response, and two of
  its theorems suppose it (`Roomy`): an evicted message is generated again, under another
  responseId, and when an entry is trimmed during its generation a late fragment may follow
  `failed`. `FramesAgree` and `FragmentsSurvive` are proved for any capacity.
- `ChatRelay`: the ledger is reduced to the durable answer and the generation under way
  (`ChatLedger` has the rest), media (`ChatMedia`), fragments and the real-time accelerator,
  push notifications, the limit of the backlog and the expiry of documents after thirty
  days. `Answered` asks nothing more of a question acknowledged on the socket: the phone has
  emptied its outbox by then, as `chat-server.mjs:212` says it may, and a death of the PC
  before the answer leaves it there.
- `ChatMedia`: one medium, since they do not interact but by the capacity of the ledger (not
  here a fault); its rows are all in the outbox, so a sender cut between two parts is left
  out; the count of the attempts of a row (any may be the last; `ChatOutbox` counts them); the
  epoch and the expiry of relay documents.
- `ChatSessions`: a start that fails to bind or that a stop meets while it binds; frames that
  are only answered by `rejected`; the relay, which shares the registry.
- `ChatOutbox`: drafts, threads and the reading side of the repository.
- `PhoneMessages`: how often the same answer is sent (`said` is a set: a receipt lost after
  Telegram has accepted makes the PC send it again, and the promise allows it); the retry
  delay, which is computed, stored and never read; SMS the PC sends; permissions and boot.
- `WorkRuntime`: the idle expiry of Telegram sessions (no runWork leaves one idle), hooks
  that throw, recovery of a non-empty journal (the wired store is in memory), claims and the
  domain registry (not wired).
- `MissionLoop`: what is observed and said, the guidance queue, code missions.
- `Automation`: the application wires the ledger, the recovery service with its reconcile and
  closeManually, and the status; run itself and the cut of the domains are called by tests
  only, and the verifier that is wired proves nothing by itself, so there a reconciliation
  confirms nothing (`LateEvidence` is what the interface allows). A caller's signal that is
  already aborted is not noticed by the code; a run under the same identifier with another
  digest is carried out again; a run left "running" by a crash is never listed as a case.

Other parts: **remote approvals** await between their check and their write, but in the
application the grants of the governance broker carry the session `governance-runtime` while
the verifier's requests carry none, so a consumption is never allowed and the races behind it
are out of reach; the capability broker and the action authorizer decide in one synchronous
step. **Mail** has no state machine of its own beyond a message saved before its
attachments. The other parts of section 1.1 are listed in `PROJECT.json` with the reason:
calls of services, queries, conversions and files whose state is not the program's. They are
most of the repository's lines (the user interface, the adapters of services, the Android
screens), which is why the models map a small share of it.

## 8. Plan

In this order; the list of runs is kept short, so a run that a composition subsumes makes
room for it.

1. **Mission inside its work**: compose `WorkRuntime` and `MissionLoop`, with stopEverything
   of the user interface, so that the emergency stop is stated once, from the button to the
   last action; abstract specification `StoppableWork` (asked, running, stopped, at most one
   action after the stop) with the composition as its refinement.
2. **Phone link** (`DirectChatLink`): callbacks of a former socket, epochs that only rise on
   the phone and fall on a PC that lost its registry; then the link in place of the
   environment of `ChatOutbox`.
3. **Communication tasks**: calls and SMS that open tasks, drained one at a time.
4. **Message from end to end**: abstract `ChatExchange` (written, answered once or more, or
   shown failed) implemented by `ChatRelay`.
5. **Remote approvals**, once a consumption can be allowed.
6. **Proofs**: with the compositions above, their refinements step by step.
