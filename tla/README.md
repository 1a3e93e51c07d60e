# CallYourCode in TLA+

CallYourCode lets a person talk, from a phone or a browser, to coding agents
that run in terminal panes on his own machines.  This directory models the part
where that is easiest to get wrong: the way of a message from the composer to
the agent, over a wire that fails, past a page that is reloaded, through an
engine that restarts, into a terminal that anybody may be typing at.  With it go
the parts that message depends on and that fail in the same ways: who dials the
engine, how a file reaches it, which engine of a host acts, the messages that
the engine sends by itself at a set time, and how the agent's reply is announced.

All paths are relative to the repository.  `app/...` stands for
`app/src/engine/...`, `engine/...` for `engine/agent-engine/src/...`.

## 1. The system

### The components and what they keep

| Component | State | Operations | Why it is hard |
|---|---|---|---|
| **Pane delivery guard** `engine/chat/delivery-machine.ts`, `pane-deliver.ts`, `adapters/mux-adapter.ts`, `terminal/blocked.ts` | one queue for all keyboards (`deliverChain`), the `unsubmitted` notes | `deliverToPane`: read, type, look for the echo, enter, look again | the screen is someone else's program and changes between any two awaits; an enter answers whatever dialog is open |
| **App outbox and drain** `app/intents.ts`, `app/sync/drain.ts` | the intents (in memory and, later, in IndexedDB), one slot per session | `put`, `renew`, `remove`, `hydrate`, `kick`, `run`, `settled`, `fail` | memory is ahead of the disk; redelivery must not reorder; a forgotten slot stops a chat |
| **App sends and chat handlers** `app/store/sends.ts`, `store/admit.ts`, `store/handlers/chat.ts` | the bubbles, the ack deadlines | `sendText`, `retrySend`, `discardSend`, `armAck`; ack, nack, send-failed, chat rows | answers, deadlines, taps and reloads come in any order |
| **Engine utterance intake** `engine/chat/deliver.ts` | a chain of messages per session, cids in flight, the last `USER_CIDS_KEEP` cids, the chat | `onUtterance`, `inOrder`, `handleUtterance`, `dropDead`, `commitDelivery` | the ack goes out before the work; dedup looks at memory that a death wipes |
| **App-engine wire** `app/client.ts` | one sealed pipe per engine, the frames held for the next one | `send`, `writeRaw`, `onPipeClose` | a close takes the frames on the pipe, and is believed late |
| **Drain lease** `app/sync/lease.ts` | the leader flag, requests without an answer, claim and steal timers | queue for the Web Lock, beat, steal, lapse; elect over a channel | tabs freeze and thaw, and a stolen lock is told to its holder late |
| **Services lease** `engine/runtime/services-lease.ts`, `services.ts` | a lease file per service, shared by the host's engines; the inode each took | `acquireOrRenew`, `release`, `holds` | several file calls make one decision, and a process may stop between any two |
| **Connection manager** `app/sync/connection.ts`, `app/client.ts` | a dial state, a timer and a client with its dial, handshake and pipe per engine; hidden, online | poke, schedule, noteDialing, noteSealed, noteDown, noteHost, setHidden, setOnline; redialNow, onPipeClose, presumeDead | who redials when the page is hidden or the radio is off; frames and closes that come after the pipe they belong to |
| **Transfers** `app/transfers/worker.ts`, `rows.ts`, `engine/routes/transfer.ts` | rows with the chunks acknowledged, a directory of chunks per transfer, the kept reply of a finish | enqueue, pump, moveBytes, cancel, retry, deadline; begin, get, put, delete, finish, sweep | resumption, a lost reply of the finish, a finish that takes long, equal bytes in two messages |
| **Presence** `engine/sessions/presence.ts`, `chat/frames.ts` | a record per socket (visible, attached, when it was opened and last heard), `awaySince`, one timer | onPresenceChange, probe, the grace's timer | what a page said last is believed until it is late; the grace goes on while pages come and go |
| **Notifications** `engine/chat/notify.ts`, `server/src/routes/push.ts`, `app/public/cyc-sw.js` | per session `notified` (on disk) and `silentSince`; the queue and the window under way; the app server's own | notifyUnlessWatched, flushUnread, sweepCeiling, flushBatch, requeue, cancelQueued; `/push/batch`, `/push/read`, flushOut | a flag that has to agree with a phone three queues away; replies, readings and windows that cross |
| **Read state** `app/store/readState.ts`, `engine/sessions/readstate.ts` | the one marker, pending sightings | sight, mark read, mark unread | forward only, except for the one way back |
| Queued strip, chat log `engine/chat/chatlog.ts`, `asks.ts` | `awaitingQueue`, deadlines | arm, clear by echo, reply, deadline or boot | indexed by text |
| **Crons** `engine/plugins/crons/schedules.ts` | the file of schedules, a lock file shared by a host's engines, a copy in memory | claimLock, tick, fire, attempt, writeOnce, beat, update, remove | at most once over deaths and two engines; a copy that is older than the file |
| Relay, tunnel, encryption `server/src/delivery/relay.ts`, `engine/shared` | streams, sequence counters | frame, seal, drain | backpressure, a pipe that changes under a stream |
| Reconciliation, ingest, verbs, plugins, pairing, server | registries and stored records | | partly protocol, mostly parsing and I/O |
| Voice engine, readers, user interface, site, scripts | | | inference, parsing, presentation |

### How they meet

    composer --sendText--> intents --kick--> drain --utterance--> client.ts
       ^                      ^                |                     |  sealed pipe
     bubble <--ack/nack/send-failed/chat row---+---------------------+
                                                                     v
         onUtterance --ack, then--> inOrder (one chain per session) --> injectUserMessage
                                                                     |
                              deliverToPane --> onPaneKeyboard (one queue) --> terminal
                                                                     |
                              commitDelivery: chat row, cid remembered, echo broadcast

The drain runs in the one tab that holds the lease.  Each call of the app's
handlers runs to its end in one go (one JavaScript task), so a handler is one
action; everything asynchronous - the disk, the pipe, the timers, the terminal -
is an action of its own.  In the delivery machine every `await` ends an action.

### What makes them correct

* Guard: a message is in the pane once, however often it is retried; what is
  reported delivered was submitted; no enter lands on a dialog; every attempt ends.
* Send path: the agent gets each message at most once and in order; nothing is
  lost without a word; ticks tell the truth; nothing pends for ever.
* Drain lease: two tabs do not both drive the wire; some tab does.
* Services lease: one engine of a host acts on a service; some engine does, however
  the last one ended.
* Crons: an occurrence is sent once, in order, and is neither overlooked nor left
  waiting once its session is free; what was removed stays removed.
* Transfers: an attachment is stored once; what is shown as sent was stored;
  nothing is given up that the engine did not refuse; every transfer ends.
* Connection manager: the connected edge speaks of the pipe there is; no timer runs
  while dialing is stopped; a visible page gets back to an engine that is back.
* Notifications: while the engine believes that a banner stands, one does, and while
  it believes that none does, none is left standing; every reply is read, seen or
  announced.
* The others (planned): a strip is cleared once its message is read.

`PROJECT.json` lists the hazards line by line, with the properties that guard
each of them or the module that is to do it.

## 2. The modules

| Module | Models | Composes |
|---|---|---|
| `PaneDelivery` | the guard, the keyboard queue, the notes, the terminal | |
| `PaneDeliveryProofs` | theorems about it | `PaneDelivery` |
| `Wire` | the pipe of each engine, its frames, what interferes | |
| `Outbox` | intents, drain, sends, chat handlers, held frames, the page's disk | `Wire` |
| `Intake` | `onUtterance`, chains, cid memory, commit, engine death | `Wire` |
| `SendPath` | the whole way; fairness; the properties | `Outbox`, `Intake` |
| `ChatContract` | what the chat promises, without a word of how | |
| `SendPathProofs` | theorems about it, and that it implements `ChatContract` | `SendPath` |
| `DrainLease` | the tabs, the browser's lock manager, the channel, time | |
| `DrainLeaseProofs` | theorems about it | `DrainLease` |
| `ServicesLease` | the lease file, each file call of an engine, processes, time | |
| `ServicesLeaseProofs` | theorems about it | `ServicesLease` |
| `Schedules` | the schedule lock and file, each file call of an engine's pass, deliveries and retries, time | |
| `SchedulesProofs` | theorems about it | `Schedules` |
| `Transfer` | the app's transfer worker, requests and replies, the engine's transfer route | |
| `TransferProofs` | theorems about it | `Transfer` |
| `Connection` | the connection manager, the client's dial, handshake and pipe, the page and the radio | |
| `ConnectionProofs` | theorems about it | `Connection` |
| `Presence` | the pages' sockets as an engine has them, the grace after the last one | |
| `Notify` | replies and their proof of life, the marker, the banner's windows, the phone | `Presence` |
| `NotifyProofs` | theorems about `Notify` and `Presence` | `Notify` |
| `MCPaneDelivery`, `MCSendPath`, `MCServicesLease`, `MCSchedules`, `MCTransfer`, `MCConnection`, `MCNotify` | values for the constants that are functions; symmetries | |

### PaneDelivery

A screen is a dialog (none, one the parser knows, one it does not), the copies
of each message in the input box, whether a person typed there, and the turns
the agent has taken.  `pane` is the truth and `seen` what a read returns: with
`slow` in `Mischief` it lags until `Paint`.  `pc` walks through
`runDeliveryMachine`: `readPre`, `type`, `echoGate`, `reEcho`, `enter`,
`readPost`, `restrandCheck`, `enterAgain`; each value is an await, and the world
may act at it.  `note` is `unsubmitted.get(pane)`, with its time to live.
`told` is the verdict the caller has.

`Mischief` says what the world may do (dialogs, people at the keyboard, eaten
enters, failed reads, throwing calls, deadlines, restarts) and `MaxMischief` how
often.  Text is abstracted to what `tailVisible` can tell apart (`TailOf`), and
bodies too long to look for are the set `Long`.

### Wire, Outbox, Intake, SendPath

A message *is* its cid, because a send keeps it through every retry.  A row is
`live` (in memory) and on `disk`; every change of a row is in `live`, and `Flush`
commits the latest one, each row by itself and in any order, because
a row with attachments waits for their bytes to be stored.  `TabDies` kills the
page and hydrates the next one from `disk`; a row that is over a day old comes
back failed, with its bubble.  `"draft"` is a message still in the
composer's box, which is on disk as well and leaves it in the transaction that
adds the row.  `fifo` is the order of `createdAt`; `slot` is the drain's
`inflight`; `held` the client's `pending`; `acks` the running ack deadlines;
`kicked` the engines whose drain was asked to run.  An iteration of `run`'s loop
is `DrainSend` (write, hold or expire) or `DrainIdle`; a write marks the row and takes
the slot in one step, since only a microtask lies between the two
(`sync/drain.ts:238-255`).

On the engine `Take` is `onUtterance`, answer included; `TypeHead`, `DropHead`,
`ForgetHead` and `Commit` are the turns of a chain.  `typed` marks a head that
the pane has taken and the chat has not: the moment in which a death of the
engine costs the memory of the message and not the message.  `EngineDies` clears
the chains and keeps the chat, from which `Remembered` rebuilds the cids, as the
boot does.  A chain keeps with each message whether its socket is still open,
because `dropDead` answers that socket.

`ChatContract` is what the user is promised: the engine takes what was sent, the chat
takes each of those once, one tick is for what was taken and two for what is in the
chat, and while a page lives a tick is taken back only to say refused.  `page` there,
and `loads` in `Outbox`, count the pages, since no tick outlives one.

`link` is the connection manager's word for the pipe.  `closing` is a pipe
that is gone and whose close the manager has not been told: the window in which
the drain believes in it and the client keeps the frame.

`PaneDelivery` is not composed with the send path: there the pane takes a
message or refuses it untyped, and what can go wrong below is `PaneDelivery`'s.

### DrainLease

Each tab has the variables of `lease.ts` (`leader`, `held`, `pending`, its timer,
the age of `lastBeatAt`); the lock manager has an owner, a queue and the answers
each tab has not handled.  A frozen tab handles nothing while time passes, and
may lose the frames of the channel.  `Init` chooses whether the browser has Web
Locks, so one run covers both elections.  Time is counted in ticks and passes
only when no running tab has a task due.

### ServicesLease

`lease` is the file at the lease's name: its inode, whom its body names and the
age of its stamp.  Each file call of `acquireOrRenew` and `release` is a step:
`StatMine`, `Truncate` and `Stamp` renew (the write is two steps, because a reader
may meet the file empty and the writer may stop there); `WriteClaim`, `Link`,
`Know` claim; `Look`, `Read`, `Remove`, `Unlink` take over what is stale or whose
pid is gone; `ReleaseRead`, `ReleaseStat`, `ReleaseUnlink` give back.  `Check` is `holds()` of
`services.ts`.  `mine` is the inode by which an engine knows its claim, and an
engine that has one answers that it supervises.  A dead engine's files are signed
`"gone"`; with `recycle` in `Faults` a reader may find that pid alive.  `Reuse`
says whether the file system gives out the number of a freed inode while somebody
still compares with it.

Time is a tick per check interval, and a running engine begins and ends a check
within `Slack` ticks.  Liveness is therefore stated in ticks, as the comment at
`services-lease.ts:68-74` states it, and needs no fairness: `gap` counts for each
engine how long it has been running and nobody supervised, since the last fault or
overtaking, and `astray` how long an engine has supervised
by a claim that was replaced.  `Overtakes` is a change of the file
between two calls of another engine that follow at once, its link and its stat or the
stat and the unlink of a takeover; like a fault it begins the count anew.  The latter is counted for each engine, not how long
there have been two: with three engines two that were held up may come back one
after the other, each in good time, and there are two supervisors throughout.

### Schedules

`lock` is the lock file (inode, pid, age of its beat), `file` the file of
schedules, `engine[e].mem` the copy an engine works from.  An engine walks through
a pass: `Wake` (the tick asks for the lock), `Link`, `Open`, `Look`, `Unlink`
(`claimLock`), `Read` (`readFromDisk`, when the lock was not its own before),
`Turn` (one schedule: due, or a retry whose time has come), `Save` and `Rename`
(`writeOnce`: the beat, then the file), `Deliver` and `Answer` (`attempt`).
`Turn` claims in memory, so `Save` writes what the next cursor is before anything
is typed; `snap` is what that write puts in place.  The removal, the pause and the
resume of a schedule are `Edit`s, which write in the same way, on any engine that
has the lock.  An engine that finds the lock taken rests, but at its start reads the
file all the same, to show what is in it (`Waived`).  With `early` in `Faults` an edit
may come to an engine that has the lock and has not read the file (section 6).

Time is a tick of the ticker's interval; what an engine does between two waits on
the disk takes none, but a delivery, or an engine that is `held`, does.
`RETRY_MIN`, `RETRY_MAX` and `GRACE` are the code's ladder and window in ticks.
`sent` counts deliveries of each occurrence, and `waiting` how long a session has
been free with a retry pending.  `overtaken` is history: another engine's file
call came between two calls that one engine makes one right after the other.

### Transfer

A row is an attachment of a message; `Cid` and `Dir` give its message and the
directory its bytes hash to.  On the app's side `Start`, `ReadAnswer`, `SendPut`
are `pump`, `runTransfer` and `moveBytes`: begin, ask what the engine has, put the
missing chunks with up to `MAX_OUTSTANDING` requests out, wait for all, finish.
`Connect` and `Disconnect` are the connection's edges, `Timer` the backoff,
`Deadline` the deadline of a stalled transfer, `Reload` a page that dies and
hydrates its rows, `Cancel` and `Resend` the user.  `wire` holds requests and
replies, which may overtake each other.

On the engine's side a request is one step of `Take`, except a finish: `Assemble`,
`Route`, `Clean` and `Record` are its awaits, and `fin` the finishes under way,
of which there may be several.  `minted` counts what the fronted route stored.

### Connection

`conn[e]` is one record: `st`, `timer`, `seen` and `owed` are the manager's
(`Engine` in `connection.ts`), `call`, `pipe`, `said`, `held`, `kick` and `demand`
the client's.  The manager's calls are operators on that record (`NoteDialing`,
`NoteDown`, `NoteSealed`, `Sees`, `Weighed`, `Schedule`, `Park`, `Poked`), because
the client calls them and they call the client in one JavaScript task; an action
composes them as the code does.  A close, a dial, a handshake and a frame are
actions of their own; `late` holds the frames that were being decrypted when their
pipe closed, and `LateFrame` delivers them into whatever there is by then.  `Hide`,
`HideStops`, `Show`, `RadioOff` and `RadioOn` are the page and the radio, with the
30 s of grace between the first two; `Queues` is a send that pokes.  A client that was
refused is `held`: `Refused` by an engine that does not know the device, or by itself
(`Impostor`) when the engine shows another identity than the pinned one, which opens
the sheet (`asks`).  `Pairs` is `paired()`, which closes a pipe that is there and lets
the next handshakes accept any identity (`intent`); `Trusts` and `Cancels` are the
sheet's two buttons.  Trusting clears the pin and dials, whatever pipe there is;
`swallowed` records that a dial under way took the user's word in.

### Presence, Notify

`page` is what a page really shows, `sock` what the engine knows of it.  Time is
abstract: `settled` is a socket open for `stableMs`, `lively` one that was heard
since the last probe and within a heartbeat, `recent` a laptop used within
`recentUseMs`.  `away` and `timer` are `awaySince` and the one timer, and
`Verdicts` is all that `onPresenceChange` may leave of them; time picks.  A page is
`hidden` when it is out of sight, out of focus or left alone.

`chat` is the one session: its marker, where it was filed, `notified` and whether
`silentSince` is set.  `Reply` asks who claims to watch for a proof of life; the
wait is in `waits`, and `Proven` or `Unproven` ends it.  A `Rebuild` replaces the
session while a wait keeps the old one, which is `ghost`.  `queue`, `flight`,
`server` and `banner` are the windows on the way to the phone: what the engine has
queued, what it has sent, what the app server has not passed on, what the phone
shows.  `standing` is the remark a queued banner carries of the one before it.
`Frame` is `dispatchClientFrame`: a page that says it is visible cancels a banner
that is still queued.  A page sends frames of three kinds, `Pongs`, `Attaches` and
`Beats`: a beat carries no chat, and the attach comes after it has read its rows, so the
engine may have a page on a chat it has left.  `Restart` finds the marker and the flag as
the last save left them, which is put off by 150 ms (`session-state.ts:584`).  `Sees` and `Sighted` are a sighting and its arrival, as late
as TLC likes.  `slips` records where the code may lose an announcement (section 6);
`known`, `felled` and `clockless` are histories for the properties.

## 3. The runs

| Run | States | Bounds | Shows |
|---|---|---|---|
| `pane_retry` | 7,639 | 1 message, 3 attempts, 4 events | retries never double a message, the note covers what is in the box, no enter on a dialog the last read showed |
| `pane_foreign` | 17,024 | 2 messages, 2 attempts, 3 events, a screen that is not parsed | no enter on any dialog; no mixed turn, and a refused first attempt leaves no text (`NothingLeftBehind`) |
| `pane_confirm` | 305,318 | 2 messages, 2 attempts, 2 events of 9 kinds | delivered means submitted; every attempt gets a verdict (liveness) |
| `send_order` | 291,252 | 2 messages of one session, 2 faults | at most once, in order; a tick is backed and nothing vanishes (`AllAccountedFor`) |
| `send_faults` | 404,141 | 1 message with an attachment, 3 faults of all 9 kinds, 2 taps | slots, disk and ticks, the refinement of `ChatContract`, and that nothing pends for ever (liveness) |
| `lease_holder` | 201,456 | 2 tabs, 3 freezes or closes | the lease and the lock agree and requests are counted right (`LeaseIsRight`), rivals are brief, someone drains (liveness) |
| `services_lease` | 1,028,934 | 2 engines, 4 inodes, 3 faults of all 5 kinds, a stale window of 3 intervals | claims are told apart and one that was replaced is dropped within two checks (`RivalsAreBrief`), no service waits longer than the rest of the stale window and two checks (`GapsAreShort`) |
| `schedules` | 2,450,526 | 2 engines, 1 schedule with 2 occurrences, 6 ticks, 1 fault of 7 kinds, 1 edit | an occurrence is sent once and in order, only what was not sent is retried, and soon; nothing is overlooked; a removed schedule stays removed |
| `transfer` | 190,167 | 1 message, 2 attachments of 2 chunks, 1 slot, 2 requests out, 2 faults of 8 kinds, 1 edit | one upload each, shown progress was stored, nothing is given up without a refusal, every transfer ends (liveness) |
| `connection` | 781,260 | 1 engine, 3 faults of 8 kinds, 3 moves of the user | the connected edge is true, nothing is armed while parked, a visible page returns or waits for a word not yet given (liveness) |
| `notify` | 621,286 | 1 page, 2 replies; of 1 fault of 7 kinds, 3 moves of the user and the replies 4 together | the flag and the phone agree, no banner is orphaned, every reply is told (liveness) |
| `send_reload_loses` | 254 | violation | section 6 |

The states of a violation are those found before the counterexample.

Some properties are conjunctions of parts that sections 5 and 6 speak of by their
own names: `RetriesAreSafe` is `NoDoubling` and `ResidueRemembered`,
`ServicesLease`'s `RivalsAreBrief` is `DistinctClaims` and the bound on `astray`,
`SentOnce` is
`OncePerOccurrence` and `RetriesOnlyUnsent`, `InTime` is `NotOverlooked` and
`PromptAfterFree`.

**The bounds.**  Every bound is a constant: `MaxAttempts`, `MaxMischief`,
`MaxFaults`, `MaxTaps`, `MaxHeld`, `MaxMoves`.  They bound how often the world
interferes and how often a person taps, never the program: once the budget is
spent it runs on undisturbed.  Three attempts are a first one, a retry
and a retry of the retry, which is where a note has been set, used and set
again.  Two messages are what order and mixing need; one message with two
faults has every pair of faults, and three faults cover a fault during the
recovery from a fault during a recovery.  `CidsKept` stands for
`USER_CIDS_KEEP`: in `send_order` it is 2, as many as there are messages, and with 1 the
oldest row of a reloaded page is typed again (section 6).  A lease needs two
tabs for every conflict, and freeze, thaw and close of both fit into three moves;
three tabs with one move were run as well, for the same properties.
The stale window of `services_lease` is the code's own, three intervals
(`services.ts:483`), and `Slack` is one: a check that takes longer is a fault of
its own (`stall`).  Four inodes are the file at the name, a claim of each engine
and one that is still remembered.  Of `RivalsAreBrief` two slacks is the least
bound that holds: a rival that comes back is in the middle of a check, and stands
down in the next.  `LongestGap`, the bound of `GapsAreShort`, is four intervals here: the
last age at which the lease is still fresh, or the check that was under way when the
wait began if that takes longer, and then the wait for a check and the check.  It is the
least bound that holds in every instance tried (a slack of 1 and 2 with a stale window of
1, 2 and 3).  The count has to begin anew when a claim is overtaken: where `Slack` is no
shorter than the stale window, rivals may go on removing each other's claims before those are
known, and TLC finds longer gaps; with the code's three intervals it found none.
`services_dead` checks `DeadAreReplaced` in the same way (308,356 states): without
`recycle`, a lease whose holder is dead is replaced within two slacks, whatever its age.
The engines and the inodes are interchangeable, and the
properties compare them only, which is what the symmetry rests on.

Six ticks hold what a schedule can meet: both of its occurrences, the whole ladder
of retries of the first (`RETRY_MIN` 1, `RETRY_MAX` 2, a deadline 3 after), a
stale lock that has to age and its takeover.  One fault is enough for that run
because a fault there is a state that lasts (a held engine is one for as long as
TLC likes, and resumes anywhere).  Two
chunks with two requests out have every order of answers, and two attachments with
one slot have a transfer that waits for another.  A run of `Connection` has one
engine because engines share nothing but `hidden`, `online` and what a poke for
all of them does: two engines with one fault and two moves (297,904 states) were
run as well.  In `notify` two replies are what a banner that replaces one, a reading
of the first only and a flag that outlives its banner need; `MaxEvents` bounds faults,
moves and replies together.  The page is a laptop, which has the grace of recent use; a
phone alone was run with the same bounds, and both together with three events
(`notify_pages`, 100,792 states).  Its constraint `Undisturbed` cuts a behaviour
where one of the slips of section 6 has happened: the properties promise nothing
from there on.

**Deadlock** is checked by `schedules` and `connection`, where time and the user
go on for ever.  In the others it is not: the bounded systems really stop, when every
message is delivered or failed, and the budget of faults and taps is spent.  That
they stop in the right state is what the liveness properties say.

**Mutants.**  Each module holds next to some operators a mutated form, marked
`Mutant of`: a dropped guard, a missing reset, a swapped verdict.  `PROJECT.json`
names for every property the mutant that violates it in its run; where a property is a
conjunction there is a form for the other part as well.

## 4. Fairness

* Every await of the delivery machine resolves or rejects, since the adapter's
  calls carry timeouts, and a screen is painted in the end: `WF(Machine)`,
  `WF(Paint)`.  Nothing else about the terminal is fair.
* Armed timers fire, queues are worked off, IndexedDB commits, the connection
  manager goes on dialling, the engine handles what arrived: weak fairness of
  `AckTimeout`, `TransferResult`, `Flush`, `DrainSend`, `DrainIdle`, `Receive`,
  `Take`, of the handshake's steps, and of the turns of each chain.
* Nobody is bound to tap; no fault is bound to happen, or to be undone: a
  session that is offline may stay so.
* `ServicesLease` states none: what must happen, happens within a number of ticks.
* A running tab gets on with its tasks and time passes (`DrainLease`).  A frozen
  tab may stay frozen.
* `Transfer`: the engine takes a request and a finish goes on, since the fronted
  route answers or throws; answers are read, timers fire, the pipe is connected
  again.  A fault, an edit or the sweeper is never bound to happen.
* `Connection`: a dial, a handshake and a probe end, for each carries a deadline; an
  armed timer fires, the grace of a hidden page too; a pipe delivers the hello's frames or closes; an engine that
  went away comes back.  The user need do nothing, and late frames may never come.
  Two assumptions of `connection` are not in the code.  The frames of a closed pipe
  are decrypted before the next handshake ends, which takes several round trips; no
  check of the pipe stands after the decryption (`client.ts:1026-1032`), and
  `connection_lag` does without.  And nobody pairs an engine under the sheet that
  asks about its identity, since that sheet covers the app; `connection_trust` lets
  a pairing that was begun before land there.
* `Notify`: the ceiling's sweep, the grace's timer and the proof's deadline fire; a
  window is sent, arrives, is answered or times out, and is passed on.  The user need
  do nothing, a socket may stay half open, a sighting may never arrive, a page need
  not speak.  One window is under way at a time: the POST is given up after 8 s and the
  next window is 10 s later (`notify.ts:579`, `:681`), but sealing has no limit and an
  engine whose token was refused enrols for up to 8 s more (`security/enroll.ts:77`), so
  two windows may really overlap then, and the later one arrive first.  That is left out.
* `Schedules`: an engine that runs goes on, and time passes.  Its properties are
  invariants that count ticks, and use no fairness.

Weak fairness is enough because none of these actions is switched off for good
by another process while its work remains; where two steps of one loop exclude
each other (the turns of a chain) the fairness is that of their disjunction.

## 5. What is proved

TLAPS checks these for every set of messages, sessions and engines, for every
bound, and for every kind of interference at once.

| Theorem | States |
|---|---|
| `PaneDeliveryProofs!TypeCorrect` | `Spec => []TypeOK` |
| `PaneDeliveryProofs!NeverBlind` | `Spec => []NoBlindEnter` |
| `PaneDeliveryProofs!DeliveredWasTaken` | `Plain => (Spec => []DeliveredMeansTaken)` |
| `PaneDeliveryProofs!RetriesSafe` | `Kept => (Spec => []RetriesAreSafe)` |
| `PaneDeliveryProofs!DialogsUntouched` | `Foreign => (Spec => []NeverAnsweredByAccident)` |
| `PaneDeliveryProofs!NothingStays` | `Foreign => (Spec => []NothingLeftBehind)` |
| `SendPathProofs!SendTypes` | `Spec => []TypeOK` |
| `SendPathProofs!SlotsAgree` | `Spec => []InflightHoldsSlot` |
| `SendPathProofs!TicksHonest` | `Spec => []HonestTicks` |
| `SendPathProofs!DiskKeeps` | `Spec => []KeptUntilTaken` |
| `SendPathProofs!NeverTwice` | `Spec => []AtMostOnce`, if `Roomy` and no `enginedies` |
| `SendPathProofs!NoneLost` | `Obliging => (Spec => []AllAccountedFor)` |
| `SendPathProofs!OrderKept` | `Spec => []InOrder`, if `Roomy` and `Obliging` |
| `SendPathProofs!ContractKept` | `Roomy => (Spec => KeepsContract)`, the refinement of `ChatContract` |
| `DrainLeaseProofs!LeaseRight` | `Spec => []LeaseIsRight` |
| `DrainLeaseProofs!RivalsBrief` | `Spec => []RivalsAreBrief` |
| `ServicesLeaseProofs!ServicesTypes` | `Spec => []TypeOK` |
| `ServicesLeaseProofs!ClaimsAreDistinct` | `Spec => []DistinctClaims`, if `Reuse = FALSE` |
| `ServicesLeaseProofs!RivalsBrief` | `Spec => []RivalsAreBrief`, if `Reuse = FALSE` |
| `ServicesLeaseProofs!GapsShort` | `Spec => []GapsAreShort` |
| `ServicesLeaseProofs!DeadReplaced` | `Spec => []DeadAreReplaced` |
| `SchedulesProofs!ScheduleTypes` | `Spec => []TypeOK` |
| `SchedulesProofs!RemovedForGood` | `Spec => []RemovedStaysRemoved`, if no `early` |
| `SchedulesProofs!SentOnceAlways` | `Spec => []SentOnce`, if no `early` |
| `SchedulesProofs!OrderAlways` | `Spec => RunsInOrder`, if no `early` |
| `SchedulesProofs!PromptRetry` | `Spec => []PromptAfterFree`, if no `early` |
| `SchedulesProofs!InTimeAlways` | `Spec => []InTime`, if no `early` |
| `TransferProofs!TransferTypes` | `Spec => []TypeOK` |
| `TransferProofs!AckedIsStored` | `Spec => []AckedWasStored` |
| `TransferProofs!OnlyRefused` | `Spec => []NothingGivenUp` |
| `TransferProofs!StoredOnce` | `Spec => []OneUpload` |
| `ConnectionProofs!ConnectionTypes` | `Orderly => (Spec => []TypeOK)` |
| `ConnectionProofs!EdgesTrue` | `Orderly => (Spec => []EdgesAreTrue)` |
| `ConnectionProofs!Quiet` | `Orderly => (Spec => []QuietWhenParked)` |
| `NotifyProofs!NoticeTypes` | `Spec => []TypeOK` |
| `NotifyProofs!FlagCarried` | `Spec => []FlagIsCarried` |
| `NotifyProofs!NoOrphan` | `Spec => []NoOrphanBanner` |

They assume what the modules' `ASSUME`s say and no more: `DeliveryAssumption`,
`WireAssumption`, `OutboxAssumption`, `IntakeAssumption`, `LeaseAssumption`,
`ServicesAssumption`,
`SchedulesAssumption`, `TransferAssumption`, `ConnectionAssumption`,
`PresenceAssumption`, `NotifyAssumption` (the constants have their types, and `"none"` is no message).  Every run's module extends the
assumptions it depends on, so TLC evaluates them.

Where a theorem has a hypothesis, it is one on the constants: which kinds of
interference there are, or how much the engine remembers.  Each was found with TLC
first, and without any one part of it a run ends in a counterexample.  The
counterexamples are those of section 6, so a hypothesis says under which circumstances
the code keeps a promise that it does not always keep.  `PromptRetry` and `InTimeAlways`
are an exception: TLC finds no counterexample to `InTime` with `early` in small
instances (one schedule, two edits), but the proof rests on the invariants of the other
theorems about `Schedules`, which need the hypothesis.  So is `Quiet`, and
`ConnectionTypes` with `lag`: only `EdgesTrue` needs both halves of `Orderly` (no `lag`,
no `crossed`), and the three share its invariant.

* **NeverBlind.**  `NoBlindEnter` says that no step ever struck a dialog that was
  on the screen last looked at.  That is not inductive; `Watchful` adds where the
  machine can be when it is about to press enter and what `look` must then have
  shown: an input box, or the text itself, or a body too long to look for.  The
  proof has a step per await of the machine and one for the world, which cannot
  touch `look`.
* **DeliveredWasTaken, RetriesSafe, DialogsUntouched, NothingStays.**  These rest on
  three pictures of a pane.  `Plain` has a parser that knows the box, texts that do
  not look alike, and nobody who opens a dialog or clears the box while the engine
  types.  `Kept` is a pane the engine has to itself, with a note that is kept.
  `Foreign` has no parser at all, so that every read is of an unknown screen and the
  echo alone decides.  The invariants say where the text is while the machine walks:
  `Confirmed` that from the enter on the message has landed, so that a box which
  shows nothing was submitted; `Retried` that before the machine types a copy in the
  box is noted and on screen; `Gated` that the box holds at most the copy being
  delivered, and what echoes was typed into an open box.  `InLine` is under all
  three: nobody stands in the queue twice, or has a verdict while in it.
* **SlotsAgree.**  `Shape` gives the variables their types and says that a pane
  is typed into only for the head of a chain that is not empty.  `Slots` adds to
  `InflightHoldsSlot` that a slot's message is of the slot's own session (else
  freeing by id frees the wrong one) and that no failed bubble has its row in
  flight (else a retry tap would requeue a row that keeps its slot).
* **TicksHonest, DiskKeeps.**  One invariant, `Truth`, has five parts: an ack on a
  pipe speaks of a message taken, and an echo of one in the chat; a chain holds
  messages taken, of its own session; the chat holds messages taken; a message
  not taken is in a row unless it was discarded, and then it has no bubble; and
  the ticks themselves.  None of the parts is inductive alone: the ticks need
  the frames, the frames need the chains, and rows need the bubbles, because a
  failed bubble could be retried.  What makes it work is `Monotone`: what the
  engine has promised and committed stays so, through its own death too, because
  the chat is on disk.  Each fact about frames goes through `Onward`, the four
  things a step can do to a pipe.
* **NeverTwice.**  A chain holds a message once (`Distinct`) since a frame that comes
  again is known: its cid is in the chain, or in the chat, and the memory of the chat
  is long enough (`Roomy`: a session has no more messages of its own than `CidsKept`).
  `Given` then says where a message is that the agent has: in the chat, or at the head
  of its chain and in the pane.  A death of the engine breaks just that, in the moment
  between the enter and the row.
* **NoneLost, OrderKept.**  `Obliging` is an engine that is not restarted, refuses
  nothing and whose sessions stay.  What such an engine takes it keeps
  (`HoldsPromises`), and it says nothing but acks and echoes, so a row is never failed
  but for its age (`Aged`).  Order is about pairs: `Passed` lists how a message may get
  ahead of an earlier one on the way up, in the frames that are held, in the rows, and
  says that each is a touch of the user's; `Ordered` carries that into the chain and
  the chat, through a queue that is only ever joined at the end (`Lined`).
* **ContractKept.**  `KeepsContract` is that every step of the send path is a step of
  `ChatContract` or changes nothing it speaks of.  `Unsaid` adds that a row which is
  still to be written shows no tick, so that painting it again takes nothing back; with
  `Truth` and `Distinct` each action then maps to one of the contract's.  Any fault at
  all is allowed here, the engine's death included: the contract knows of it.

* **ClaimsAreDistinct, RivalsBrief** (of an engine's claim).  That two engines never
  hold the same inode for their claim is not inductive, because an engine learns its inode after the link.  `ClaimsInv`
  adds the claims that are on their way: a claim that is written has a number
  nobody compares with, one that is linked is still under the name, and no
  engine knows another's.  Four steps make or learn a number; every other one is
  `Quiet`, and one lemma covers them all.  The hypothesis is needed: with numbers
  given out again the property is false, and section 6 shows what follows.  How long an
  engine goes by a claim that was replaced has a bound because only an engine that renews
  has a claim at all, and passing the stat means that it had the name then: `AstrayInv`
  sets the count against what is left of this check and of the next (`Leeway`).
* **GapsShort, DeadReplaced.**  `GapsAreShort` bounds a count and says nothing of what
  will end it, so it is not inductive.  `GapInv` does: an engine that waits has either just linked a claim and is
  about to learn of it (`Closing`: the name can be taken from it only by overtaking), or
  is `Patient`.  Then the lease at the name is at least as old as the wait, or stale
  already (`Aged`), and the engine's own check stands in one of two ways.  One that began
  during the wait is `OnTrack`: it looks at the lease there is, in its first attempt, and
  comes to nothing only while that lease is young.  One that began before may
  come to nothing, having read a lease that is no longer there, but ends within
  `Slack`.  `Steady` says that nobody holds in hand what only a supervisor or a
  later attempt would.  When all checks that overlap the beginning are done, and the lease is
  stale, the next one claims it; that is the bound.  Neither theorem needs `Reuse = FALSE`:
  nobody supervises, so no claim is compared.  `DeadInv` is the same argument where the
  lease names a dead engine and pids are not recycled: age plays no part, so a check
  that began during the wait always goes on to the removal (`Prompt`).

* **LeaseRight.**  A tab learns of the lock by answers that it handles later, and in
  between it may ask again, hand the lock back or lose it.  `Sound` says of each tab
  (`Tidy`) how four things agree, whatever is still to be handled: a grant it has not
  handled is still good, or an answer behind it says that it was broken, and no
  generation is granted twice (`GrantsFit`); what it waits for is of a generation no
  answer, no owner and no lease has (`WaitFits`), for which `lockGen` must count up;
  an owner leads by what it owns or will hear of it (`OwnerFits`), and a leader owns
  what it leads by or will hear that it does not (`HeldFits`); and `pending` counts the
  request in the queue and the grants not handled (`Counts`).  Handling one answer goes
  through states in which the owner is about to hand the lock back; `Tidy` therefore has
  a parameter for an owner that is excused.  Each part of `lease.ts` has a lemma on one
  tab and the manager, each call of the manager one on all tabs, and the proof of an
  action composes them in the order the code calls them.
* **RivalsBrief** (of a tab).  With the locks it follows from `Sound`: when time passes no
  running tab has an answer to handle, so whoever leads has the lock.  Without them,
  `Elected` says that nobody talks to the lock manager and, of each pair that leads, that
  the higher one has an undelivered beat of the lower, or has been its rival for no longer
  than the lower has been silent (`Silent`); and a leader that is running is silent for
  less than a heartbeat.  A tab that claims had no rival before it (`Listens`), for which
  `LEASE_TTL_MS` must not be zero.

* **RemovedForGood, SentOnceAlways, OrderAlways.**  `Apart` says that of the engines
  at most one has the inode the lock has, or is about to.  `FileHolds` relates the file
  to what was sent: what it says of an occurrence covers every delivery, save those
  that an engine's death cut off (`loose`).  `HolderHolds` says of the engine that has
  the lock and has read the file that its copy is as good: it is what the file says, or
  what the next `Rename` will say.  `Steady` holds whatever happens, the other three
  unless the lock was `overtaken`, which the properties except.  The hypothesis is
  needed: with `early` an edit is saved from a copy older than the file (section 6).
* **PromptRetry, InTimeAlways.**  Both count ticks, so the invariants say what is left
  undone when one passes.  For a refused message `Soon` relates the promised attempt to
  the time it has waited (`Near`), and an engine that ends its pass has nothing left that
  is due (`Punctual`).  For an occurrence, `Synced` says that what the holder has in
  memory points where the file does, save the claim it is just saving, so a holder that
  has ticked and idles has overlooked nothing.  `InBounds` gives each fault a whole stale
  window.  Past that, in the window of the last fault, every engine that has begun its
  tick is still running, and one of three holds (`Calm`): a running engine has the lock
  (`Owned`), there is none and one is about to link it (`Free`), or it has been left
  untouched and is as old as the time that is counted (`Left`), so that it is stale when
  the window ends, and the engine whose turn it is takes it away.  `SecondGo` is the
  hard part: of engines that find a stale lock each makes a second go after its unlink,
  and a second go must not take away what a rival has just linked.
* **AckedIsStored, OnlyRefused, StoredOnce.**  `TransferInv` says what each party knows:
  a row shows only chunks that were put, and names only an upload that was minted
  (`RowsHold`); a request, a reply and a finish under way say nothing that is not so
  (`WireHolds`, `FinHolds`); a directory holds what was put, and keeps a reply only when
  all of it was (`DiskHolds`).  `Attended` ties a row to its requests: each is of the
  step the row is in, and a finish has no other beside it.  `UploadsHold` is about the
  minting: at most one finish works on a directory and what it has minted is all there
  is, or the directory is in `again`, which records the cases the engine cannot
  tell apart (two finishes that overlapped, a death before the reply was kept, a kept
  reply that was deleted).

* **EdgesTrue, Quiet.**  `EdgesAreTrue` relates the state the manager is in to the
  frames of the pipe there is; that alone does not survive a `LateFrame`, which
  moves the manager without a pipe.  `ConnectionInv` says of each record that it is
  one of two things: at rest, with no sealed pipe and a manager that is idle,
  dialing or down, where a late frame changes nothing the edge is about; or it holds
  a sealed pipe whose frames are just those the manager has seen, and no frame of
  an earlier pipe is still to come.  `Orderly` is what that last part needs, and
  that a client under the sheet about its engine's identity rests (`Coherent`), so
  that trusting it dials where there is no pipe.  The manager's and the client's calls each have
  a lemma on one record; an action's proof composes them as the action does.

* **FlagCarried, NoOrphan.**  Word of a banner goes from the engine's queue through a
  window, the app server and the phone, and each of the four may hold some.  `Promised`
  says that the newest word is a banner, or one that was taken down since;
  `Recalled` that it is a dismissal, or that there is none.  `FlagAgrees` ties them to
  `notified`, and `Handed` says that what an unanswered window carries the app server
  has already done, so that sending it again repeats and undoes nothing.  All of it holds
  until the code slips (section 6).

Every invariant of the passing runs is proved.  Only model-checked is
every liveness property.  Liveness under fairness and anything about
`ENABLED` are out of the prover's reach, and so is induction over data (what
`SelectSeq` does to a queue of any length, for instance).

## 6. Where code and documentation part

Each of these is a configuration that ends in a counterexample.  One is among the
runs:

* `send_reload_loses`: the ack deletes the intent (`store/sends.ts:123`), and the
  message's own row is persisted only by the engine's echo.  A refusal after the
  ack, with a reload in between, leaves the message nowhere, although
  `store/handlers/chat.ts:113-114` says a refused row is kept.

The others are kept beside it and run by hand
(`tlc -config <name>.cfg <module>`):

* `pane_recheck_blind` (`MCPaneDelivery`): after an eaten enter the machine looks
  twice.  Its second read counts every screen but a box with content as cleared, an
  unreadable one included (`delivery-machine.ts:274`), and the message is reported
  delivered while its text sits in the box.
* `send_two_engines` (`MCSendPath`): the close of one engine's pipe disarms the ack
  deadlines of all engines (`store/sends.ts:86-95`).  A send in flight on another
  engine whose ack was lost is never redelivered, against
  `docs/contracts/02-engine-app.md:91-93`.
* `services_reuse` (`MCServicesLease`): the renewal compares the inode and nothing
  else (`services-lease.ts:281`).  A holder that was held up past the stale window,
  and whose file's number the engine that took over was given for its own, finds its
  number there, goes on renewing, and two engines supervise for good: against
  `services-lease.ts:1` and `:289-291`.  `release()` compares the claim id as well,
  for the very reason (`services-lease.ts:380-383`).
* `schedules_full_disk` (`MCSchedules`): a claim whose write fails is in memory
  (`schedules.ts:1574`), where the schedule is no longer due, although the log of
  `schedules.ts:1512` says it was left where it was; it is sent only if this engine
  loses the lock and reads the file again.
* `schedules_retry_twice` (`MCSchedules`): a retry is delivered without a claim of its own
  (`schedules.ts:1503`).  Until its result is saved the file says that it was not
  delivered and may be tried again, so an engine killed during the delivery sends
  it again at its next boot, against "never fire the same occurrence twice"
  (`schedules.ts:21`).  `OncePerOccurrence` excepts that death.
* `schedules_early_edit` (`MCSchedules`): a tick that waits for the unlink of its
  temporary claim (`schedules.ts:762-764`) has the lock and has not yet read the file.
  An edit that comes then takes the lock for its own and saves the engine's old copy,
  against "whoever holds it is holding what the file actually says"
  (`schedules.ts:952-953`): a schedule removed on the other engine is back.
* `send_late_refusal` (`MCSendPath`): a frame that is sent again after its ack was late
  reaches a session that has gone offline, and is refused, for the engine asks for the
  session before it asks whether it knows the cid (`chat/deliver.ts:146-172`).  The app
  shows the message as failed (`store/handlers/chat.ts:97`, `:115-126`), although it is
  in the chat and was shown there, against `app/src/types.ts:1-6`, where failed means
  refused or not delivered.
* `transfer_same_bytes` (`MCTransfer`): two messages with the same bytes, begun
  together, share one directory and one upload, against "must get its own upload"
  (`routes/transfer.ts:209-214`).
* `transfer_two_clips` (`MCTransfer`): two finishes of one recording may both reach
  the fronted route before either has kept its reply, and it stores two clips,
  where `routes/transfer.ts:305-307` says they converge on one.
* `connection_intent` (`MCConnection`): opening a chat does not dial a parked
  engine.  Only the page becoming visible and the radio coming back poke
  (`store.ts:1395`, `:1419`), where `docs/contracts/10-app-ui.md:86` names the
  user's intents.
* `connection_trust` (`MCConnection`): a pairing that lands while the sheet about a
  changed identity is open connects the client and leaves the sheet.  "Trust this
  engine" then dials beside the open pipe (`client.ts:1305-1319` looks at neither
  the pipe nor the status), and the engine counts as settled while its pipe is the
  raw one of a handshake (`EdgesAreTrue`).
* `connection_lag` (`MCConnection`): a frame of the last pipe that is still being
  decrypted when the next one seals counts for that one (`client.ts:1028-1030`), and
  the engine settles before the new pipe has said both frames (`EdgesAreTrue`).
* `notify_ceiling` (`MCNotify`): a rebuild of the session's row copies `notified` and
  `filedTs` and not `silentSince` (`sessions/reconcile.ts:437-537`).  A reply that was
  held back while a page is open on another chat has no clock then and is never
  announced, against "announced within this long of arriving, or it was read before
  then" (`chat/notify.ts:750-751`; it is ten minutes).

Others come out when the constants of a run are widened; the properties of the
passing runs are stated, or their constants chosen, so that they are excluded:

* Guard.  With `TailOf` giving two messages one tail, words that are in the
  transcript already satisfy the echo gate, and a notice is answered
  (`terminal/blocked.ts:513`).  With `race`, a dialog that opens between the last
  read and the enter is answered (`delivery-machine.ts:238`).  A second stranded
  message overwrites the note of the first (`pane-deliver.ts:188`).  With `Long`,
  a notice that closes counts as the echo (`delivery-machine.ts:208`).  With
  `blind` on a screen that is not parsed, an unreadable read passes the gate
  (`delivery-machine.ts:224`).  With `restart`, `ttl`, `odd` or `throw`,
  `NoDoubling` fails: the note is in memory, expires, or is not written.
* Send path.  With `drop` and `refuse`, `SentIsOwed` fails: `dropDead` answers a
  socket that is gone (`chat/deliver.ts:532`).  With `prune`, likewise: a session
  that left the registry drops its messages with a line in the log.  With
  `drop` and `offline`, a message that is in the chat already is shown as failed,
  because the session's liveness is asked before the cid's history
  (`chat/deliver.ts:165`).  With `enginedies`, `AtMostOnce` fails in the window
  between the enter and the chat row.  With `age`, `NobodyPendsForever`
  fails: an expired row is failed and its bubble is not told (`sync/drain.ts:227`).
  With fewer `CidsKept` than rows a page may have on disk, `AtMostOnce` fails.
* Services lease.  `DistinctClaims` excepts what follows once a
  rival has come between two calls that an engine makes one right after the other
  (`overtaken`).  Between the stat and the unlink of a takeover
  (`services-lease.ts:358`) a rival may have replaced the stale file with a live
  claim, which is then removed; between a link and its stat
  (`services-lease.ts:304-305`) a rival may have taken the claim over, whose number
  both then go by.  A renewal that is overtaken between its stat and its write
  (`services-lease.ts:281-283`) writes its name into the rival's file, or makes a
  file that it does not know for its own and waits for like any other: the first
  ends at the next check, the second is over after the stale window, and both are
  within the properties.
* Schedules.  The run looks at behaviours without `overtaken`: between the link and
  the open of a claim, the look and the unlink of a takeover, or the stat and the
  rename of a write, another engine may act.  After the first, two engines can hold
  one inode for good, against "There is no window to lose" (`schedules.ts:703-705`).
  A schedule that is removed during a pass that has its copy is still sent once, a
  paused schedule's pending retry is still sent, and an `update` that fails its later
  validation has already changed the schedule in memory.
* Transfer.  The properties are about the attachments of one message; between two
  messages with the same bytes see `transfer_same_bytes`.
* Connection.  A pipe that closes during a handshake leaves `dialing` set until the
  dial's deadline, while the backoff timer fires into a redial that is refused: the
  model has it (`call = "dead"`), and `Returns` holds because the deadline schedules
  again.  `noteTransfers` (`connection.ts:294`) is called by tests only, so "live"
  means that no frame is owed and says nothing of transfers.
* Notify.  The properties except what follows a slip.  `stale`: `notifyUnlessWatched`
  keeps the session it was given across its wait (`chat/notify.ts:285-335`), and after a
  rebuild sets the flag, or moves the marker, of one that nobody reads.  `partial`: a
  sighting up to one reply clears the clock of the replies behind it
  (`sessions/readstate.ts:119`).  `both`: `requeue` may put a dismissal into one window
  with a newer banner (`notify.ts:666-671`), and the app server keeps the banner and then
  drops it (`routes/push.ts:285-290`).  `older`: `requeue` overwrites a newer banner that
  is queued, against "Later text wins" (`notify.ts:718`).  `standing`: the sweep and the
  flush queue a banner without saying what stood before it, so that `cancelQueued` may put
  `notified` to true with no banner, or to false with one (`notify.ts:724`, against
  `:589-590`).  `restart`: queue, clocks and waits are in memory, while `notified` is on
  disk, and may have been saved before it changed.
  Within the model and the properties: a beat of a page that has gone to another chat,
  and whose attach is still to come, cancels a queued banner of a reply nobody has seen,
  and leaves it without a clock (`notify.ts:733-745`): as after a rebuild, it is announced
  once no page is connected, and not before (`clockless`); a socket counts as visible until its page says
  otherwise; a banner that was swiped away, or that opening the chat took down, leaves
  `notified` true until all is read, so a later reply that is held back meanwhile
  gets no banner (`felled`); a late sighting undoes a mark-unread of another device.
* `InOrder` excepts messages the user touched again: a retry goes behind what was
  sent since, while an earlier frame of it may still arrive.

## 7. What is not modelled

Of the modelled components: the intents of other kinds (marks, renames,
progress) and their coalescing, voice clips and conversions, the composer's
waits, the decoding of attachments, the notices between tabs, a browser that
refuses the first lock request or has no `BroadcastChannel`, several tabs on one
outbox (`DrainLease` and `SendPath` are not composed), the handshake's own frames.
The interrupt and the answers to dialogs share the keyboard queue; in
`PaneDelivery` they are events of the world.

Of the services lease: a directory that cannot be written (nobody supervises then,
on purpose), a stamp in the future, two checks of one service at once in one engine
(a child's exit during a pass), and what `services.ts` does once it supervises.

Of the schedules: creating one, edits of its text, zone or expression, several
files, a store that cannot be read, the migration of the first version, and the
arithmetic of cron expressions and zones.

Of transfers: the single file a finish assembles into (two finishes may write it at
once), a hash that does not match, the vault with its pruning, downloads, the lag of
IndexedDB, progress as it is painted.

Of the connection: the lengths of backoffs, the status line and its window, a client
that was closed, an engine without a relay id, the records of what was synced.

Of the notifications: several chats in a window and the caps on it, the bell and the
app's own overlay, the notices of plugins, the sealing of a banner, Web Push and its
subscriptions, and the first sight of a session that has a history.  Of the read state:
the app's store of pending sightings (here a set that is delivered in any order) and
marks of several engines.

Out of reach or without a protocol of their own: cryptography, speech
inference, parsers, terminal multiplexers, rendering, packaging.

## 8. The plan

Order of work, the most consequential first:

1. `QueuedStrip`: one flag per message, cleared by echo, reply, deadline or boot.
2. `Tunnel`: streams over one pipe, backpressure, a close in the middle.
3. `Connection` implementing `Wire`'s `Seal` and `NoteDown`: that `Wire` is right to
   assume a redial.
4. The reconciliation of sessions, of which `Notify` has the rebuild of one row.

## 9. Running it

    tlc -workers 2 -config send_faults.cfg MCSendPath
    tlc -workers 2 -config lease_holder.cfg DrainLease
    tlc -workers 2 -config services_lease.cfg MCServicesLease
    tlc -workers 2 -config schedules.cfg MCSchedules
    tlc -workers 2 -config transfer.cfg MCTransfer
    tlc -workers 2 -config connection.cfg MCConnection
    tlc -workers 2 -config notify.cfg MCNotify
    tlapm PaneDeliveryProofs.tla
    tlapm SendPathProofs.tla
    tlapm DrainLeaseProofs.tla
    tlapm ServicesLeaseProofs.tla
    tlapm SchedulesProofs.tla
    tlapm TransferProofs.tla
    tlapm ConnectionProofs.tla
    tlapm NotifyProofs.tla

`PROJECT.json` names the module of each configuration.
