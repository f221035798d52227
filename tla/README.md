# A formal model of clipboardwire

clipboardwire keeps the clipboards of several machines in step.  A *hub* relays
clips (text, PNG images) and file chunks between the *clients* connected to it
over WebSockets; a client watches one clipboard, publishes what is copied there
and applies what it receives.  A tray program runs a client, optionally with an
embedded hub; an Android service is a second client implementation.

This directory holds TLA+ modules of that system, TLC configurations that check
them on small instances, and TLAPS proofs.  `PROJECT.json` maps every
definition to the lines of code it stands for, names the runs, and gives for
each checked property a mutation of the code that the run detects.

## Inventory

| Component | State | Operations | Talks to |
|---|---|---|---|
| Hub task (`core/src/server/hub.rs`) | client map, last clip, live counter | Register, Deregister, Publish, PublishFile, one at a time from an inbox | connection tasks: inbox (1024), a clip channel (32) and a chunk channel (4) per client |
| Connection (`server/ws.rs`, `server/mod.rs`) | capacity semaphore; per connection a handler, a reader and a writer task | upgrade, register, welcome, read and publish, write, deregister | hub; the remote client |
| Client transport (`client/transport.rs`) | connection phase, status, four channels | dial, welcome, relay both ways, reconnect, drain | supervisor; the hub over the network |
| Client supervisor (`client/mod.rs`) | files waiting for the batch window | a `select!` over local events, inbound clips, inbound chunks and the window | clipboard thread; transport |
| Clipboard thread (`client/clipboard.rs`) | last seen text, image and files | poll, apply | the OS clipboard; supervisor |
| File transfer (`client/file.rs`) | partial transfers, files on disk | send in chunks, receive a chunk, verify, rename | supervisor; disk |
| Tray (`cli/src/tray.rs`) | handles and generations of supervisor and hub, client status, bind error, hub counter and poller, loaded configuration; what the menu shows | menu, reload, start, stop and restart of the hub, events of its tasks | supervisor, embedded hub, settings process |
| Command line (`cli/src/main.rs`) | none | tray, serve, connect, host, send | all of the above; the configuration file |
| Single-instance lock (`cli/src/instance.rs`) | one file lock | take at start | operating system |
| Server TLS state (`server/tls.rs`) | certificate and key files of a state directory | create or reuse, load | disk |
| Configuration (`client/config.rs`, `server/config.rs`) | the file, the environment | template, load and validate, layer file and environment | disk; every program |
| Settings dialog (`cli/src/settings.rs`) | the form, the pinned certificate | show, fill in, pin, save | disk; the tray that waits for it; a hub, to pin it |
| Android service (`android/.../ClipboardSyncService.kt`) | loop and continuation, socket, network token, last sent and received | reconnect loop, callbacks, listener, apply, stop | threads of OkHttp and Android; the hub |
| Android send paths (`android/.../send/`, `MainActivity.kt`) | `autoSendJob`, `lastAutoImage` | read the clipboard or take a share, decide, send | the service |
| Protocol types, authentication, client TLS, autostart, file-clipboard backends, Android preferences | none that changes at run time | parsing, comparison, platform calls | |

### What is hard, and what must hold

* **Server.**  Three tasks per connection and one hub interleave.  A permit is
  returned while messages of its holder are still queued; the snapshot in the
  welcome must fit the relays that follow; a slow or dead peer must hurt nobody;
  a connection must be forgotten exactly once.  *Right if* the hub never refuses
  what the semaphore admitted, the live count is exact, each client is told an
  ordered stream that ends with the cached clip, and dead connections disappear.
* **Client.**  Transport and supervisor block on each other's bounded channels,
  connections come and go under frames in flight, either task can be dropped at
  an await.  *Right if* nothing inbound is lost or repeated, nothing outbound is
  repeated or reordered, no clip waits for ever, and a dropped handle stops the
  transport.
* **Clipboard thread.**  Polling races applying; a value recorded as seen is not
  always reported.  *Right if* an applied value is not echoed, and what the user
  copied last is shared or overwritten by something newer.
* **File transfer.**  Chunks are lost, repeated, reordered and come from
  interrupted senders.  *Right if* a file is saved only when complete and
  intact, once, and never over another file.
* **Tray.**  Tasks are replaced while events of theirs are queued, aborts take
  effect late, and each handler refreshes only a part of the menu.  *Right if* no
  supervisor or hub runs without a handle to stop it, what is shown belongs to
  the current ones, and what is saved comes to run.
* **One-shot send.**  *Right if* the command returns once the file is written.
* **Start of the programs.**  Programs start together and are killed between two
  system calls; two of them, and the dialog, write the same files.  *Right if* a
  hub loads a certificate with its key and keeps to it, every setting comes from
  the source that wins, and the dialog does not change what it was not asked to.
* **Android.**  Callbacks race the reconnect loop, and three threads compare the
  clipboard with what was sent and received.  *Right if* a lost connection is
  retried and a received clip is not sent back on its own, or only where the code
  cannot tell.

## Modules

| Module | Models | Kind |
|---|---|---|
| `Hub` | hub.rs | the hub task, its inbox and its clients' queues |
| `HubServer` | ws.rs and the semaphore of server/mod.rs; extends `Hub` | connection tasks, specification and properties |
| `ClipRelay` | the promise in the header of hub.rs | abstract specification, implemented by `HubServer` |
| `MCHubServer` | | constants for TLC |
| `HubServer_proofs` | | TLAPS proofs about `HubServer`: permits, registrations, counts |
| `HubStream_proofs` | | TLAPS proofs about `HubServer`: what clients are told, the refinement of `ClipRelay` |
| `ClientTransport` | transport.rs | the transport task and its channels |
| `Client` | client/mod.rs and the sending half of file.rs; extends `ClientTransport` | the supervisor, specification and properties |
| `Client_proofs` | | TLAPS proofs about `Client` |
| `FileTransfer` | file.rs | the sender and the receiver of files, specification and properties |
| `MCFileTransfer` | | constants for TLC |
| `FileTransfer_proofs` | | TLAPS proofs about `FileTransfer` |
| `ClipboardThread` | clipboard.rs | the clipboard thread of every machine and the clipboard it watches |
| `Sync` | machines and hub together; extends `ClipboardThread`, instantiates `ClipRelay` | composition, specification and properties |
| `MCSync` | | constants for TLC |
| `Sync_proofs` | | TLAPS proofs about `Sync` |
| `SendOnce` | run_send_once of main.rs; extends `ClientTransport` | the one-shot command, specification and property |
| `Tray` | tray.rs | event loop, its tasks and the settings process, specification and properties |
| `MCTray` | | constants for TLC |
| `Tray_proofs` | | TLAPS proofs about `Tray` |
| `Config` | client/config.rs, server/config.rs, what settings.rs shows and writes | operators without state |
| `Startup` | main.rs, instance.rs, server/tls.rs, serve of server/mod.rs, files of settings.rs; extends `Config` | the programs of a machine, specification and properties |
| `MCStartup` | | constants for TLC |
| `Startup_proofs` | | TLAPS proofs about `Startup` |
| `AndroidService` | ClipboardSyncService.kt, SendBridge.kt, SendDecision.kt, the automatic send of MainActivity.kt | the phone's client, specification and properties |
| `MCAndroidService` | | constants for TLC |
| `AndroidService_proofs` | | TLAPS proofs about `AndroidService` |

### Server: state and steps

`inbox`, `clients`, `lastClip` and `stats` are the fields of `Hub` and its
counter; `ack[c]` is the oneshot reply to c's Register; `clipq[c]` and
`fileq[c]` are c's outbound channels.  Each message type has one `Handle...`
action, the turn the hub takes.  `Enqueue` is the senders' `send().await`, which
waits while the inbox is full, and `FanOut` is `try_send`, which does not.

A connection c is in `phase[c]`: `Upgrade` takes a permit, `Register` sends the
request, `ReceiveAck` builds the welcome and spawns both tasks, `TaskEndObserved`
is the `select!` on their join handles, then `Deregister`, then `Return`, which
releases the permit.  The unfinished task is *detached* by that `select!`, so the
actions of `reader[c]` and `writer[c]` do not depend on `phase[c]`.  The biased
poll of the writer is two steps, `PollPastInternal` and what follows it, because
other tasks run in between.  A closed channel is derived: the internal channel
is closed when handler and reader have dropped their senders (`InternalOpen`),
the clip and chunk channels when the hub has dropped the registration.

`kinds[c]` and `told[c]` are history, the frames written to c's socket by kind
and the clips in them; so are `published`, the number of frames published, which
doubles as their identity, and `missed`, the clients whose full queue lost the
clip that the hub now caches.

Frames carry a number and an origin.  Payloads, ids, content types and
timestamps play no part in any decision of the server.  Every reason for a
`bad_frame` is `ReadBadFrame`; every other end of a reader (close, error, 90 s
of silence) is `ReadEnds`.

### Client: state and steps

`task` is the place in `run_loop` / `connect_and_serve`; `held` is the frame
inside `inbound_tx.send(..).await` while `task` is "greeting" (the welcome's
clip) or "forwarding".  In those states nothing else of the transport is
enabled, as in the code, whose `select!` arm must finish first.  The four
channels are bounded sequences.  `handle` says which of the owner's channel ends
live, the senders and the receivers: `Client` drops all with the `Transport`
struct, `SendOnce` the receivers alone.

`supervisor` is the place in `run_supervisor`: "selecting", or inside
`send_file_through` either before the read of a chunk or in the send that
follows.  `AbortSupervisor` is the tray's abort, at any await; `AbortTransport`
is the `AbortOnDrop` guard, which need not act before the transport has taken
more steps.  `pendingFiles` is not empty exactly when a batch deadline is set,
so the deadline is not a variable of its own and `ApplyBatch` may happen at any
time.

`arrived`, `sentClips`, `sentChunks`, `saved`, `appliedClips`, `appliedFiles`, `changes` and `conns` are history and
numbering.

The clipboard thread is this module's environment: it reports numbered changes,
dropping those that find the event buffer full, and takes what it is given.

### Clipboard threads and the whole system: state and steps

A clipboard offers some of three media, files, an image and a text (a copy in a
file manager usually offers a text too).  `os[k]` is what k's clipboard offers,
`seen[k]` the three `last_*` trackers, `events[k]` and `applying[k]` the two
channels.  `thread[k]` is the medium that k's thread reads next: the reads of
`poll_clipboard` are separate steps, because users copy between them, and
`Report` ends the poll at the first medium that changed, as the code's early
return does.  The value is recorded as seen *before* `try_send`, which may drop
it.  The step from `recv_timeout` to the first read is merged with that read
(`Reading`): the thread does nothing in between, and whatever another actor does
there could as well come before.  A write of the clipboard and the update of the
tracker are one step for the same reason: only this thread reads the tracker.

`Sync` connects the threads through `ClipRelay`, the contract that `HubServer`
is shown to implement, so that the server's tasks need not be explored again.
A connection is what the server calls a client: `conn[k]` is the one that
machine k's transport serves, and the server's view of it (`members`) begins and
ends on its own, in either order.  `wire[c]` holds what was sent and not yet
relayed, `read[c]` counts how much of the feed the machine has read.  `Send` and
`Receive` each take a clip through both of supervisor and transport, whose
interleavings `Client` covers.  A copy of files leaves the module at `Send`, and
a batch of received files enters it at `FilesSaved`, at any time.  `Take` skips
no member: what a full queue does to a slow one is under *Known deviations*.

`Restart` makes channels, transport and trackers new while the clipboard stays.
It is that of the process, whose threads die with it, or the tray's replacement
of the supervisor in the running process: nobody tells the old clipboard thread,
whose channel yields what it still holds before it reports that it is closed.
`left[k]` is what such threads of machine k have yet to apply (`EarlierApplies`);
each has its own trackers, and ends when it finds a change that it cannot report
(`ReplaceThread`).  The step is placed where the abort has taken effect, so that
the old thread reports nothing after it: the short time in which the old
supervisor still takes events while the new one starts is left out.

`calm` and `fresh` are history variables for the premises of the two positive
properties.  `calm` is lost when somebody copies before the previous copy has
arrived everywhere or clears the clipboard, when files are copied or received or
an apply fails, when a clip is lost with its connection, and when a client
restarts before all is quiet or with several media on its clipboard.  `fresh` is lost
when somebody copies, or an earlier thread applies, a value equal to what the
thread has last seen in that medium, or a full event channel drops a change.

### File transfer: state and steps

A file is a sequence of cells, a chunk at most `ChunkCells` of them, and a hash
is what was hashed.  `sender[t]` holds the locals of one call of
`send_file_through`, whose reads of the source are separate steps: `Measure`,
`Hash`, then `ReadChunk` until `EndOfFile`.  `Edit` is another program writing
the source in between.  (The hash itself is computed in one step.)  `t` is also
the file id, since every call draws a fresh one.

`transfers[t]` is the receiver's map entry, `partial[t]` the `.partial` file,
`saved` the finished files by the suffix `unique_path` gave them; all transfers
share a name, which is the case it is for.  `receive_chunk` runs without an
`await`, so a chunk is one step: ignored, failed at opening, failed at writing
(with part of the chunk written), stored, failed at completion, refuted, or
saved.  Each action has the part of the handler up to its return.  A failed
completion leaves the entry with every chunk received.  A crash inside the
handler leaves nothing on disk that `RestartReceiver` before or after the step
does not.

`wire` only grows, and any chunk in it may arrive at any time: lost, repeated and
out of order, as the receiver's own tests have them.  The hub delivers each chunk
at most once and in order, so the code's network is a special case.  A chunk
whose index is not below the total never arrives, because the hub refuses it (and
closes its sender's connection: `ReadBadFrame` in `HubServer`).  This happens to
a file that grows while it is sent.

Other programs, and a second client of the same user, which would share the
directory and the names of partial files, are not in the model.

### One-shot send: state and steps

`program` is the place in `run_send_once`.  `QueueChunk` and `SendEnds` are
`send_file_through` over a queue of bounded length, `LetGo` the four statements
that should drop the channel ends, `Join` the wait for the transport's task.
The transport is that of `Client`, with `OneShot` set: it ends with its first
connection, and drains the file queue when the clip queue is closed.

### Tray: state and steps

`state` is `struct State` and `events` the queue of the event loop, each event
one `Handle...` action with everything the handler calls (`AbortRunning`,
`ApplyLoadedConfig`, `StartEmbeddedHub`, and the refreshing of those labels that
it refreshes).  `shown` is what was last written to the menu, the tooltip and the
icon: it is not derived, since the question is whether handlers refresh enough.
Tasks are named by their generation.  `sup[g]` is a supervisor with the watch
channel of its transport; `Forward` is the forwarder, which takes the latest
status, so that `unseen` is enough.  `session[h]` is an embedded hub with its
clients and poller.  `abort()` is a request: an aborted task still goes on for a
while, may still exit on its own, and a hub's clients outlive it; it holds its
port until it is dropped.  The dialog is a process: `stage` is where it is, and
`file` what `ClientConfig::load` would return, so that a truncated file is one
that does not load.

`client_status` carries the generation it came from, which the code does not
store: it is there for `StatusIsCurrent`.

### Configuration and start: state and steps

A value is named by its origin ("toml", "env", "default") and, where validation
looks, by whether it is right.  `Loads`, `FormOf`, `ValidForm`, `Written`,
`FromEnv` and `FromEnvLayered` are the code's functions on these.  Every field
that the environment can override on its own is one of its own: the user and the
password, `conns` (`max_conns`) and `frame` (`max_frame_bytes`).  The two files
of the pair can only be set together, and so are one.

`Startup` takes a program through its system calls: look at the file, create,
write and protect a template, bind the port, look for a certificate, create and
write the two files, load them.  `Dies` is a kill at any point, at which the
system frees lock and port, as it does for every end of a program.  `tls` has for
every state directory what each file holds: nothing, a part, or an identity;
`own` is the identity that a program will make if it makes one.  `dialog` has its
form and `of`, the tray that waits for it, which reloads when it ends.  A reload
restarts the tray's hub at the load of the file; what else it does is in `Tray`.

`torn` and `mixed` are history, for the exceptions of `LoadsMatchingPair` and
`SavedIsShown`.

### Android: state and steps

`loop` is the place in `connectLoop`.  The dialling and the installing of the
continuation are separate steps (`Dial`, `Suspend`), since OkHttp calls back on a
thread of its own.  `OnDisconnected` covers `onFailure` and `onClosed`.  A socket
that has ended is not called back again, so that only one is live at a time;
`closing` is one that the service has closed and that may still call back.
`ready` is the token of the conflated channel `networkReady`; `wifi` has a state
between "gone" and "default" because the callback and `activeNetwork` do not
change together.

A stop has two halves that may be far apart: after `ActionStop` (the notification's
button) the coroutines are cancelled, but the listener, the network callback and
`SendBridge` know the service (`registered`) until `OnDestroy`, which may also come
alone.

`os` is the phone's clipboard, and every item remembers the clip it came from.
`Receive` and `Apply` are the two halves of `applyInboundClip` (references, then
clipboard), on OkHttp's thread; `Notice` and `OnLocalClipboardChanged` the two
halves of the listener, on the main thread; `Request` or `Share`, `Decide` and
`SendFromForeground` a send on request ("MANUAL") or an automatic one ("AUTO"),
`attempt` having one of each.  `Encoded` is the re-encoding of an image, which
makes it differ from what was received.  `back` is history: by which way a clip
that came from the hub, however old, last went back to it, and whether another
clip had come when that was decided (`Overtaken`).

## Runs

| Run | Shows | Bounds |
|---|---|---|
| `server_recycle` | `TypeOK`, `HubNeverRefuses`, `LiveCount` | 3 connections on 2 permits, so that one must reuse a permit; inbox 2, so that senders wait; 1 frame; any of the three may die in any way |
| `server_relay` | `StreamInOrder`, `PeersConverge`, `NothingAfterError`, refinement of `ClipRelay` | 3 connections, two of which stay, the third comes and goes; 3 clips and queues of 2, so that a queue can be full, and a clip lost before or at the cached one |
| `server_live` | `DeadConnectionsReaped`, `WriterFollowsReader`, `SlowPeerDelaysNobody` | 2 connections, one of which may stop reading its socket for ever; inbox and queues of 1 |
| `client_session` | `TypeOK`, `InboundConserved`, `SavedFilesAppliedOnce`, `OutboundOrdered`, `OnlyFilesBlock`, `DroppedHandleStopsTransport` | 2 connections, 2 arrivals of any kind, 2 local changes, files of 2 chunks; channels of 1 (outbound clips 2), so that each can be full |
| `client_wedge` | `ClipsApplied` fails | the same with 1 connection |
| `files` | `TypeOK`, `SavedIntact`, `OnlyTornRefuted`, `OpenIsIncomplete`, `SavedFilesKept` | 2 transfers of one file, which an edit turns from two chunks (the second not full) into one or back; any file operation may fail, a read may be short; 2 saved files |
| `sync_arrive` | `CalmCopiesArrive` | 2 machines and 3 connections, so that one machine reconnects; 2 copies of a text, an image or both; 1 restart or reload; states in which `calm` or `fresh` is lost are not followed, since neither comes back and the property speaks of no other states |
| `sync_thread` | `TypeOK`, `NoEcho`, `FreshCopiesReported` | 1 machine, texts, images and files, failing calls, 1 restart or reload; 2 copies or received batches, event channel of 2 |
| `tray` | `TypeOK`, `NoOrphans`, `StatusIsCurrent`, `MenuShowsState`, `SavedIsApplied`, `StatusConverges`, `CountReachesMenu` | 2 configurations on one port, one with a hub that starts with the program; 2 items, edits or saves; 2 changes of connections; queue of 2, 1 client of a hub: enough for two reloads, and for a hub stopped or lost while events of it are queued |
| `startup` | `TypeOK`, `LoadsMatchingPair`, `PinHolds`, `EnvironmentWins`, `SavedIsShown` | 2 programs at a time, 3 launches, so that two meet after a kill; no file, or one with a hub in plain ws://; 4 environments, one of which sets single fields (the user without the password, one of the limits); 2 forms to type, one that leaves the hub without a user |
| `android` | `TypeOK`, `SentBackOnlyWhenOvertaken`, `LostConnectionRetried` | a text, an image in two encodings; 1 copy or share, 2 clips received, so that one overtakes the other; 1 send under way at a time (that two overlap is left to the proof); any number of connections and changes of Wi-Fi |
| `send_once` | `SendReturns` fails | a file of 3 chunks, queue of 2, 1 connection |

No run checks deadlock: the server is quiet when nobody connects, and a client
may be aborted or wait for a user, a program may have quit.  That tasks do not
wait for each other is stated by the liveness properties instead.

The bounds are small against the code's buffers (1024, 32, 8, 4).  A buffer
matters through being empty, holding something, or being full, and each run has
the bounds at which the states it is about occur.  What the proofs cover does not depend on them.

In `sync_thread` the single machine gets back no clips from the feed but the ones
its own earlier connection published (the welcome after a reconnect), and batches
of files; the trackers do not know where a value came from.

Symmetry: connections are interchangeable in `server_recycle`, the two steady
ones in `server_relay`, transfers in `files`, machines in `sync_arrive`
(invariants and action properties).  The liveness runs use none.

### What the violations show

* `client_wedge`.  The supervisor sends a local file and waits for room in the
  chunk channel.  The transport, having read a clip, waits for room in the
  inbound channel, which only the supervisor empties.  The only step left is an
  abort.  The capacities (4 chunks one way, 32 clips or 4 chunks the other) decide
  how much traffic it takes, not whether it happens.  `OnlyFilesBlock`, checked in
  `client_session`, says that nothing but a blocked file send can do this.
* `send_once`.  `let _ = transport.outbound_tx` is meant to drop the sender.  A
  place expression on the right of `let _` is not moved, so both senders live
  until the function returns, and it awaits the transport, which waits for them.
  After the last chunk nothing moves; only a failing connection ends the command.

`CalmCopiesArrive` is the positive side of what clients do with copies: when they
do not cross and are new to the thread, they arrive, over any loss and
replacement of connections in between.  Without the premise `calm` it fails in
ways the code accepts: a clip lost with its connection is not sent again, and the
clip of a welcome is applied over a local copy that is not published yet.

### Known deviations

What the modelling brought to light besides, where the code does less than a
reader of its documents would expect.  The properties above name these cases as
exceptions or premises, or the bounds keep them out; no run is spent on them.

*Server.*
* A full per-client queue drops the frame being published, the newest; the slow
  peer keeps the older ones (`hub.rs:223`; its header argues with
  last-write-wins).
* `select!` on the join handles detaches the loser: a reader whose writer failed
  goes on publishing for a client that the hub has forgotten, up to the 90 s
  timeout (`ws.rs:307`).

*Client.*
* Copies that cross on the wire leave two machines with each other's clip: a
  publisher is not told that it lost, and `ts` is not compared, which
  PROTOCOL.md:169 lists as the mitigation of replays.
* x, then something of another medium, then x again is not reported when the
  tracker of x's medium still holds x (`clipboard.rs:240`).
* A restarted client reports every medium of its clipboard again, each in a poll
  of its own.  Of a copy that offers a text and an image, peers may end with the
  image, sent again, while the client applies the text of its welcome: the
  machines differ although nobody copied anything.
* After a reload the old clipboard thread applies what is left in its channel, and
  the new one takes it for a copy and sends it again (`clipboard.rs:128`): an old
  clip may come back as the latest.
* A cleared clipboard is not passed on.

*One-shot send.*  A failure to dial, or an inbound clip while the file drains
(the receivers are dropped), loses chunks although `send_file_through` has
returned Ok; inbound clips that nobody reads meanwhile block the transport.

*Tray.*
* A count that changes and changes back between two polls is not noticed
  (`tray.rs:622`), which does no harm; a status of the current generation is
  accepted after its supervisor has exited or its configuration failed to load.
* After `HubExited` the counter and the poller stay, and a later start replaces
  the handle of the poller without stopping it.  Stop leaves the line about peers
  in the tooltip.
* A second start, queued before the first was handled, shows a bind error over a
  running hub; a restart may find the port still taken by the hub being aborted.
* Connections of an aborted hub live on.

*Configuration and start.*
* `host` dials ws:// while a hub without a pair of its own serves wss://
  (`main.rs:353`).
* A save in the dialog drops `max_conns`, `max_frame_bytes`, the plain
  switch and the state directory, for which it has no fields.
* A bad address in a `[hub]` that is disabled makes the whole file fail; half a
  pair of certificate and key in the file is silently no pair.
* A kill between the creation and the writing of the key leaves an empty key,
  which every later start loads and fails on (`tls.rs:83`).
* `serve` accepts a `[hub]` that has a password and no user: `from_env` refuses an
  empty user, `from_env_layered` only one that the environment sets
  (`server/config.rs:139`), and the file's is not looked at again, as the password
  is (`:158`).  The dialog asks for a user only while the hub is enabled.
* The template passes as a valid configuration on the second launch.  Its writing
  may race a save of the dialog.  Hubs on two ports that share a state directory
  may mix their pairs.

*Android.*
* A socket that fails before the continuation is installed strands the loop
  (`ClipboardSyncService.kt:97`); so does Wi-Fi that is announced before it is the
  active network (`:78`).
* The backoff does not grow while the last good connection is more than
  `STABLE_MS` ago (`:179`).
* A stop between `close()` and `connect()` leaves a socket open.
* The listener records a text as sent although the send failed.  A clip equal to
  the last received is ignored although a local copy came in between.  A
  received image is sent back once, re-encoded, by the listener.
* Of CHANGELOG.md:22, auto-send "never echoes back a clip received from the
  desktop", less is true.  The references name the last clip only and move before
  the clipboard does (`ClipboardSyncService.kt:196`), and they are looked at after
  the clipboard was read (`SendDecision.kt:54`).  x is received and applied, an
  automatic send or the listener reads it, y is received: x differs from both
  references and goes back to the hub, over y.  It is enough that x is read
  between the two halves of `applyInboundClip(y)`, or after a y that is an image
  and does not decode.  `SentBackOnlyWhenOvertaken` admits this case (`overtaken`)
  and says that there is no other.

## Fairness

*Server.*  The Tokio runtime polls a ready task again, so the hub's turn, a
handler that has sent its Register, and a writer have weak fairness.  Upgrades,
what a client sends, and its departure have none, and neither has the writer of
a `Slow` client: `sink.send` may wait on its socket for ever.  `WriterFollowsReader`
exempts those writers; `DeadConnectionsReaped` does not, since the handler needs
only one of the tasks to end.

*Tray.*  Weak fairness of the start, of the event loop (a handler runs while the
queue is not empty), of every forwarder and poller, and of the exit of a dialog
that has saved.  The user, the network, transports, the exits of tasks and the
effect of an abort have none.

*One-shot send.*  Weak fairness of the command and of the transport.

*Android.*  Weak fairness of the coroutine only; OkHttp may call back late or
never, and the phone may stay without Wi-Fi.

*Client.*  Weak fairness of the supervisor's and of the transport's own steps.
A dial ends (the operating system gives up) but may always fail.  A handshake
need not end: the code reads the welcome without a timeout, which is why
`DroppedHandleStopsTransport` exempts it.  Reading from the socket, the user and
the tray have no fairness.  A send to the socket completes or fails, which the
hub's reader (it never waits for other clients) and TCP justify.

## Proofs

`HubServer_proofs` proves, for any finite set of connections, any capacity,
any inbox size and any number of frames (`ConstantsAssumption`,
`ClientsAssumption`):

* `TypeCorrect`: `Spec => []TypeOK`;
* `NeverRefused`: `Spec => []HubNeverRefuses`;
* `LiveCountExact`: `Spec => []LiveCount`.

None is inductive.  That the hub never refuses is a fact about the *order of the
inbox*: a permit may be free again while the hub still counts its former holder,
but then that holder's Deregister is ahead of whatever Register the new holder
can send.  The invariant `IInv` says so with *claims*.  `Claims(i)` is the set of
connections in `clients`, or with a Register at or before message i, that have no
Deregister before message i: those the hub will hold once it has handled message
i, if it refuses none.  `ClaimInv` bounds `Claims(i)` by `MaxConns` wherever
message i is a Register.  To extend the inbox by a Register is safe
because every claimant of the whole inbox holds a permit (`PermitInv` counts
permits against phases) and the newcomer holds one too.  To handle a message
shifts the claims by one.  The remaining conjuncts tie phases to messages: one
Register and at most one Deregister per connection, in that order, each where its
phase says (`RegisterInv`, `DeregisterInv`), and `Counted`, the counter.

`IInv` itself was model-checked at the bounds of `server_recycle` before it was
proved.  The proof has one step per action; counting uses the library's facts on
finite sets.

`HubStream_proofs` proves, under the same assumptions and from the same `IInv`:

* `StreamOrdered`: `Spec => []StreamInOrder`;
* `PeersConverged`: `Spec => []PeersConverge`;
* `ErrorIsLast`: `Spec => NothingAfterError`, an action property;
* `RefinesClipRelay`: `Spec => ImplementsClipRelay`, the refinement.

All are about `Feed(c)`, everything c was ever handed: the snapshot its
registration was answered with, what was written to it, what is queued for it.
The steps of a connection move clips from one of these places to the next and
change no feed (`ConnectionKeepsFeeds`); a turn of the hub changes feeds as one
step of `ClipRelay` does (`HubRelays`: `Joins`, `Leaves`, `Relays`).  That an
answered registration with nothing written is one whose snapshot is still to
come, that a writer exists from the welcome on, and that only the first frame of
a socket is a welcome is what `Lifecycle`, `Membership` and `WelcomeFirst` say
of each connection; `ErrorLast` says that no writer works behind an error.
`Numbered` makes feeds increase: frames wait in the inbox in the order of their
numbers, all above that of the cached clip.  `Fed` and `Current` then follow from
`RelayStep` alone: every feed increases up to the cached clip, has none of its
owner's, and ends with the cached clip for every client that the hub knows,
except its publisher, those in `missed` and those whose writer has ended.  The
refinement also needs `NeverRefused`: an abstract member joins whenever a
registration is answered.

`Sync_proofs` proves, for any finite set of machines and any bounds
(`ThreadAssumption`, `SyncAssumption`):

* `TypeCorrect`: `Spec => []TypeOK`;
* `NoEchoEver`: `Spec => []NoEcho`;
* `CopiesReported`: `Spec => []FreshCopiesReported`;
* `CalmCopiesEverywhere`: `Spec => []CalmCopiesArrive`.

`NoEcho` counts, and a count is not inductive: nothing in it stops a thread that
has used up its allowance from reporting once more.  The strengthening
`Charged(k)` charges for reports in advance: the reports made plus the media in
which the clipboard offers something unseen (`Unseen(k)`) are at most what was
offered.  A copy raises both sides by the media it offers at most.  A report
moves one medium from the unseen to the reported.  An apply replaces the
clipboard by a single value and records it as seen, so that nothing is unseen
after it: this is the echo suppression, and the only place where the proof needs
the tracker.  Clearing the text tracker is harmless since no text is offered
then.  A restart is charged for what it finds, and so is
the present thread for every clip that an earlier one applies.

`FreshCopiesReported` is inductive with the types.  `CalmCopiesArrive` speaks of
states in which all is quiet, and `Calm` says how a copy gets there, as long as
`calm` and `fresh` hold.  At most one machine has something that the server has
not heard of.  That machine is the `Source`, which copied, holds the copy and has
nothing else on its way; or it `Echoes`, after a restart, what the server has.
No earlier thread has anything left, since a reload keeps `calm` only if all is
quiet.
Every other connected machine `Follows`: the last clip of its feed, else the last
one it is to apply, else what its clipboard holds is the clip in the register.
`Take` is the step in which the register becomes the copy and everybody else's
feed gets it; `Connect` is where the welcome matters; `Restart` is where the
proof needs that the clipboard offers a single medium, a premise that was missing
before it was tried (see *Known deviations*).  `NetInv` says that a connection
is one client's.  One lemma per step shows what it does to its own machine;
`Kept` and `LocalStep` take care of all the others.

`Client_proofs` proves, for any capacities, any number of changes, arrivals and
connections and files of any length (`TransportAssumption`, `ClientAssumption`):

* `TypeCorrect`: `Spec => []TypeOK`;
* `NothingLostInbound`: `Spec => []InboundConserved`;
* `SavedOnce`: `Spec => []SavedFilesAppliedOnce`;
* `OrderKept`: `Spec => []OutboundOrdered`.

Only `SavedFilesAppliedOnce` is inductive with the types.  `Places` ties the place
of each task to what it holds: one frame while forwarding, none otherwise; a
chunk to queue in "queueing"; channel ends as long as the supervisor runs.
`InboundConserved` says nothing of the numbers of frames in the queue against
those of frames to come; `Line` adds that none exceeds the number of arrivals.
`OutboundOrdered` speaks of what was written and not of what is to be written.
`InStep` says that there is a change m, the last one the supervisor took, such
that what was sent or queued is at most m and in order (`Departing`), the local
events are after m (`Coming`), and the chunks not yet written (those in the queue
followed by those of the file being read) succeed each other without a gap and
carry on from the last one written (`Piped`), except that a gap is allowed there
when the connection that chunk went out on is over (`Up`).

`FileTransfer_proofs` proves, for any set of files and transfers, any cell and
any size of a chunk (`TransferAssumption`):

* `TypeCorrect`: `Spec => []TypeOK`;
* `SavedStayIntact`: `Spec => []SavedIntact`;
* `UntouchedVerified`: `Spec => []OnlyTornRefuted`;
* `OpenStaysIncomplete`: `Spec => []OpenIsIncomplete`;
* `SavedStay`: `Spec => SavedFilesKept`, an action property.

The first two about content need to know that all chunks of a transfer carry the
hash its sender took (`Sent`).  `OnlyTornRefuted` is about arithmetic: what a
sender reads at index i is the i-th piece of the file it measured, unless the
file was touched (`Whole`), what the receiver seeks and writes lands in the place
of that piece (`Filled`), and every cell is in one of the pieces counted by the
rounded-up division (`CellInChunk`, `ChunkCount`), so that a complete partial
file is the file.

`Tray_proofs` proves, for any configurations and bounds (`TrayAssumption`):

* `TypeCorrect`: `Spec => []TypeOK`;
* `NothingOrphaned`: `Spec => []NoOrphans`;
* `StatusStaysCurrent`: `Spec => []StatusIsCurrent`;
* `MenuStaysTrue`: `Spec => []MenuShowsState`.

A handle is forgotten when an exit event with the last generation arrives, so
`NoOrphans` needs that the task of such an event has ended: `Queued` says it of
every event in the queue.  `Tasks` gives each handle's generation and says that a
hub that serves has the port of the configuration, since two hubs on one port are
what makes a second start harmless.  Even `TypeOK` needs a count (`Credit`): the
generations used plus those that events in the queue may still use are bounded
by the items chosen.

`Startup_proofs` proves, for any programs, files, environments (at least one),
forms and launches (`StartupAssumption`):

* `TypeCorrect`: `Spec => []TypeOK`;
* `PairLoads`: `Spec => []LoadsMatchingPair`;
* `PinStays`: `Spec => []PinHolds`;
* `EnvironmentPrevails`: `Spec => []EnvironmentWins`;
* `SavedShown`: `Spec => SavedIsShown`, an action property.

What protects a pair that is being created is the port, bound before the pair is
looked for: of the programs past `Bind` there is one (`ProcWell`).  `CertInv`
follows it through its four writes, and says of a whole key that its certificate
was written before it.  `FileInv` follows the dialog's save between truncation
and writing, while no program may start a template.  `EnvironmentIn` is
`EnvironmentWins` for one configuration, shown of `from_env` and of every layering
over a file that loads (`FromEnvWell`, `LayeredWell`).

`AndroidService_proofs` proves, for any texts and images, any encoding and any
number of clips, copies and sends under way (`AndroidAssumption`):

* `TypeCorrect`: `Spec => []TypeOK`;
* `SentBackOnlyOvertaken`: `Spec => []SentBackOnlyWhenOvertaken`.

Three threads carry copies of the clipboard read earlier.  The strengthening
says of each copy (`Holds`) that if it is the newest clip then it is what the
service takes for the last received (`OtherTextOvertaken`: a received text that
differs from it is overtaken), and of a decision to send that what it is about may
go back: the references are written before the clipboard is, which is what the
proof turns on.

Each strengthening was model-checked on its run before it was proved.

Every invariant, action property and refinement of a passing run is proved.  Only
model-checked are the nine liveness properties (liveness under fairness and
ENABLED are out of the prover's reach) and the two violations, which are
statements about one behaviour.

## Plan

1. Done: `Hub`, `HubServer`, `ClipRelay`, `ClientTransport`, `Client`,
   `FileTransfer`, `ClipboardThread`, `Sync`, `SendOnce`, `Tray`, `Config`,
   `Startup`, `AndroidService`.
2. Done: proofs of the safety of `Client`, `FileTransfer`, `Tray`, `Startup` and
   `AndroidService`, of the hub's counts and of the echo suppression.
3. Done: proofs of what the server tells its clients and of its refinement of
   `ClipRelay`.
4. Done: proofs of `FreshCopiesReported` and `CalmCopiesArrive` of `Sync`.
5. Done: the clipboard thread of an aborted supervisor, in `ClipboardThread` and
   `Sync`.
6. Left: the moment in which the supervisor that is being aborted and its successor
   both take events.

## Not modelled, and why

Time: the 90 s read timeout, the 30 s pings, the 500 ms window, the polls and
the pauses between attempts are steps that may happen whenever the code could
take them; the lengths of backoffs are left out.  Payloads, encodings and
validation rules are data no modelled decision depends on beyond "usable or not".
Authentication and connectors are comparisons without state; protocol types,
autostart, platform clipboards and the Android preferences keep no state that
changes at run time or are calls into the platform.  Of the tray: its theme, autostart,
a hub on port 0, `host --tray`, and how labels are worded.  Of the
dialog: its layout and the test of a connection.  Of the phone: notifications,
screens, several sends on request at a time, `lastAutoImage` (it only keeps the
main screen from sending an image again), a service without settings, which ends
at once, and the service that is started after one was destroyed.  A failure of the hub task
itself (a panic) is not modelled.
