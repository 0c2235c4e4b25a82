# TLA+ models of the Inkbox client

Inkbox gives an agent an identity with mail, phone, messaging, a secret vault
and a tunnel to a local server. This repository holds the clients: the Rust,
Python and TypeScript SDKs and a CLI. The control plane and the tunnel edge are
services outside it. The models follow the Rust SDK (`sdk/rust`), whose tunnel
runtime, retry loops and cryptographic vault carry most of the program's own
logic; the other SDKs are ports of the same API, of which the Python SDK's
tunnel runtime is modelled as well, for it replaces connections in a way of its
own. Paths below are relative to `src/sdk/rust/src/` unless they say otherwise.

The project consists of TLA+ modules that model components, TLC configurations
that check them on small instances, and theorems checked by TLAPS for every
value of the constants. `PROJECT.json` lists components, runs, the source lines
each definition stands for, hazards, findings and theorems.

## 1. Inventory

| Component | State it keeps | Operations | What is hard | Correct when |
|---|---|---|---|---|
| Tunnel runtime (`tunnels/client/runtime.rs`, `status.rs`) | `stopped`, the stop watch, `generation`, the published connection, `last_notified_status`, `lingering_tasks`; per connection the takeover flag, `force_down`, `dispatch_handles` and the tasks | `serve_forever`, `run_once`, `aclose`, intake, dispatch, `post_response`, PING, status callbacks | many tasks on several threads; aborts at awaits; bounded teardown; takeover by another client; `aclose` at any moment | replies go out only on the connection that is served; nothing of an attempt outlives it; a superseded client stops; `aclose` ends the runtime; statuses end at the terminal one |
| Tunnel bootstrap (`tunnels/resources/tunnels.rs`, `client/state.rs`, `cert.rs`) | `state.json`, `private_key.pem`, `cert_chain.pem` | `connect`, `sign_csr`, file reads and writes | interruption between any two steps; processes sharing a directory | the chain served belongs to the key; an interrupted attempt can be repeated |
| Tunnel bridges (`client/bridges.rs`, `bridge.rs`, `wsframe.rs`) | per bridge: two pumps, messages being reassembled, the TLS engine, the half-closes | open, pump, close | two directions that end in either order, fragments and control frames, back-pressure, data before the handshake is over | messages arrive in order and once; a clean close means all was passed on; the bridge ends |
| Envelopes, URL forwarding (`client/envelope.rs`, `url_forward.rs`, `dispatch_http`) | per request: the body, the answer read so far | check, fetch the body, ask, read, reply | a stored body that cannot be fetched, an answer that breaks off, is too large, redirects or never comes | the upstream is asked for whole requests only; a reply is the upstream's whole answer or an error |
| HTTP transport and message sending (`http.rs`, `error.rs`, `cookies.rs`, `message_sends.rs`) | the cookie jar that all transports share; one idempotency key per send | `send`, `post_message`, `lookup` | answer lost after the server acted; bounded retry; answers of two threads stored in another order than given | at most one message per key; an error never hides a definite answer; a request carries the cookies set last |
| Companion initialization (`companion.rs`) | none between calls | `load_initialization` | history and access change while its pages are fetched | no duplicate or conflicting entries, one trigger, scope valid at the end, bounded requests |
| Vault (`vault/`, `credentials.rs`) | the shared snapshot; each unlocked vault's list of secrets | `initialize`, `unlock`, `update_key`, secret CRUD, TOTP | rotation between two reads; read-modify-write without a revision; a stale cache | a correct key unlocks; a vault is never behind its own writes; a TOTP change keeps the login |
| Mail (`mail/`) | none between calls | CRUD, pagination, import wait | a mailbox that changes while it is listed; a timeout over requests and sleeps | what stays in the mailbox is listed once; wait keeps its timeout |
| Phone, iMessage, WhatsApp, Slack, contacts, A2A, webhooks, account resources | none | one request each | the server decides | - |
| Identities and the facade (`agent_identity.rs`, `client.rs`) | the payload last received; cells for phone, mailbox and tunnel | refresh, update, provision, release, scoped copies; delegation | cells and payload disagree after a release; a scoped copy is built from both | the guards know what was done through the facade |
| Python SDK (`src/sdk/python/.../tunnels/client/_runtime.py`) | as above; the tunnel also has `_active`, `_draining` and a handoff task | as above; `_begin_handoff`, `_run_handoff` | a replacement is built while the old connection drains, beside a supervisor, readers and `aclose` that see other moments of it | one connection parks intakes; none is left open; a superseded client opens no other; `aclose` returns |
| TypeScript SDK, CLI | as above | as above | as above | as above |

Interactions. `connect` runs the bootstrap and then hands key, chain and hello
data to the runtime, which it drives until `serve_forever` returns. The runtime
calls the user's status callback inline, outside its lock. Intake workers spawn
dispatch tasks, which use envelopes, URL forwarding and bridges, and answer on
the connection they came from. Every resource goes through the HTTP transport;
`Credentials` reads the vault's cache.

## 2. Modules and plan

| # | Module | Models | State |
|---|---|---|---|
| 1 | `TunnelRuntime` | the data-plane runtime | done |
| 2 | `TunnelRuntimeProofs` | theorems about 1: types and the reply fence; what is left of a run; statuses, the delay and the refinement of 5 | proved |
| 3 | `TunnelBootstrap` | connect's certificate and state files | done |
| 4 | `VaultSecrets` | the decrypted secrets of unlocked vaults and the facade's use of them | done |
| 5 | `TunnelLifecycle` | what observers are promised; refined by 1 | done |
| 6 | `TunnelBridge` | a WebSocket or TCP bridge, from the envelope to its end | done |
| 7 | `TunnelForward` | a forwarded HTTP request, from the envelope to its reply | done |
| 8 | `TunnelDispatch` | an envelope's dispatch: composes 6 and 7 | done |
| 9 | `MessageSend` | sends that are repeated, against a server that deduplicates | done |
| 10 | `VaultKeys` | initialize, key rotation, unlock across a rotation | done |
| 11 | `CompanionLoad` | `load_initialization` over a history that changes | done |
| 12 | `IdentityFacade` | what an `AgentIdentity` remembers, and its scoped copies | done |
| 13 | `MailReads` | listing a mailbox that changes; waiting for an import | done |
| 14 | `ClientCalls` | one conversation with the API at a time: composes 4, 9 to 13 and 15 to 18 | done |
| 15 | `HttpErrors` | what the client makes of an answer; used by 9 | done |
| 16 | `CookieJar` | the cookies that all transports of a client share | done |
| 17 | `CookieDates` | the day an Expires attribute names | done |
| 18 | `WsFrames` | the frame codec of the bridges | done |
| 19 | `WarmHandoff` | the Python runtime's connections and their make-before-break handoff | done |
| 20 | `TunnelConnect` | connecting a tunnel and staying connected: composes 3 and 19 | done |
| 21 | `TunnelConnectProofs` | theorems about 3 and 19, for the specification of 20 | proved |
| 22 | `VaultProofs` | theorems about 4 and 10 | proved |
| 23 | `ClientProofs` | theorems about 9, 11, 12, 13 and 16 | proved |
| 24 | `Selection`, `SelectionTheorems` | the elements of a sequence that are in a set; the laws of that | proved |
| 25 | `TunnelDispatchProofs` | theorems about 6, 7 and 8: the order of a bridge's messages, its ends, whole forwarded requests | proved |
| 26 | `CodecProofs` | theorems about 17 and 18: the day numbers, the frames of a stream | proved |
| 27 | `ClientCallsProofs` | theorems about 14: it implements each of its parts, so that the theorems of 22, 23 and 26 hold of it | proved |

An `MC` module extends each module that a run needs symmetry or a composition of,
and holds what only TLC needs.

## 3. What is modelled

### TunnelRuntime

One action per access to shared memory. `pc` is the supervisor's position in
`serve_forever`/`run_once`; a connection attempt is a *run*, numbered from 1, and
what `run_once` creates afresh is a function of the run.

| Code | Model |
|---|---|
| `stopped`, stop watch, `generation`, published connection | `stopped`, `stopSig`, `gen`, `active` |
| `last_notified_status`, callback in flight, `TunnelStatusHandle` | `last`, `cbs`, `handle` |
| retry loop and its backoff | `ServeStart`, `LoopTop`, `Decide`, `SleepBegin`, `SleepEnd`, `backoff` |
| dial, hello and their failures | `DialBegin` ... `HelloQuitJoined` |
| pool, publication, the serving `select!` | `TakeGeneration` ... `ServeWake` |
| after the `select!`, teardown | `LoadTakeover`, `LoadStopping`, `RetireGeneration`, `Unpublish`, `DrainHandles`, `AbortTasks`, `JoinTasks`, `LeaveRun` |
| connection driver, PING monitor | `DriverEnds`, `DriverRecords`, `DriverCloses`, `PingSends`, `PingAcked`, `PingFails` |
| `intake_loop` | `IntakeStart` ... `IntakeForceDown` |
| `dispatch` up to its reply | `PostCheck`, `PostSend` |
| `aclose` | `CloseStore` ... `CloseJoin`, one process per caller |
| the edge | `EdgeDisplaces`, `PathGoesSilent` (external) |

Abstractions and assumptions:

- A task is aborted only where it awaits. A task between two awaits runs on:
  a worker that holds a request (its state is the request) or has stored the
  takeover flag, a driver past `connection.await`, a dispatch past its
  generation test. Polls of the driver, the PING monitor and the workers finish
  within the teardown budget; a dispatch past its test may exceed it and is
  then kept in `lingering_tasks`.
- `on_status` is the callback of `TunnelStatusHandle`. It returns.
- `serve_forever` is called once, each caller of `aclose` calls it once.
- A request is handed out at most once, and a reply is `posted` when it is sent;
  the wait for its acknowledgement and the upstream call are left out.
- Nothing is assumed of the edge: it may answer hello and intake in any way that
  fits the state of the connection, displace the client, or fall silent.

### TunnelBootstrap

`connect_inner` for a passthrough tunnel, one step per file access or request,
by any number of processes over one state directory. A key is its identity, a
chain is the key it was issued for, a file is missing, torn or complete.

| Code | Model |
|---|---|
| `load_state`, `get_persisted_tunnel` / `list` | `LoadState`, `Fetch` |
| `load_or_create_keypair` | `FindKey`, `ReadKey`, then `TestFile` ... |
| `cert_needs_sign` | `NeedsSign`, `CheckChain` |
| reading the cached chain | `ReadChain` |
| `sign_csr`, refresh | `Sign`, `Refresh` |
| `write_private_file` (`exists`, `create_new` + `write_all`, `atomic_write`) | `TestFile`, `CreateFile`, `WriteFile`, `ReplaceFile` |
| `save_state`, result ignored | `SaveState` |
| exit, I/O error, lost request; clock; control plane; user | `Stops`, `ChainAges`, `Reprovision`, `ClearDirectory` (external) |

Assumptions: a torn file does not parse (a chain cut exactly between two
certificates would); rename is atomic; a new key differs from those around. The
CSR, the certificates, host names and the edge mode, which has no files but
`state.json`, are left out.

### TunnelLifecycle

What `TunnelRuntime` promises whoever observes its statuses: every attempt is
announced at most once, a lost connection is reported before the next attempt, a
closed runtime starts no attempt, and the status with which it ends is the
last. `TunnelRuntime!Lifecycle` is its instance under the mapping `status <-
last` (the last status recorded), `attempt <- run`, `announced <- Announced`,
`closing <- stopped`, `ended` when the supervisor has returned;
`ImplementsLifecycle` is a property of `tunnel_redial`.

### WarmHandoff, TunnelConnect

The Python runtime (`src/sdk/python/inkbox/tunnels/client/_runtime.py`) runs on
one event loop, so a step is what happens between two awaits. On a NO_ERROR
GOAWAY of the active connection its reader begins a handoff, which dials and
greets a replacement, makes it active and drains the old connection, while the
supervisor awaits it.

| Code | Model |
|---|---|
| `_Connection`: the task that uses it, the answer to hello, `read_task`, `closed`, `draining`, the socket | `conn[c]`: `stage`, `answer`, `reading`, `closed`, `draining`, `up` |
| `_active`, `_draining`, `_handoff_task`, `_handoff_in_flight`, `_handoff_terminal_error`, `_superseded`, `_supervisor_wake` | `current`, `drained`, `owner`, `inFlight`, `authError`, `taken`, `wake` |
| `serve_forever`, `_run_once` up to hello | `SupStart`, `SupResume`, `SupDialed`, `SupDialFails`, `SupHelloFails`, `SupServes` |
| the loop of `_run_once`, `_wait_close_or_handoff` | `SupAwaits`, `SupFollows`, `SupLeaves` |
| `_teardown_cold` up to and after its awaits | `Leave`, `SupClosed` |
| `_read_loop`, `_handle_event` | `ReadEnds`, `GoawayDrains` (`_begin_handoff`), `GoawayTakes` |
| `_ping_loop`, `_intake_loop`, `_force_reconnect_conn` | `ForceDown`, `IntakeTakes`, `Dropped` |
| `_run_handoff`, `_make_replacement_connection`, `_drain_old_connection` | `HandDials`, `HandDialed`, `HandServes`, `HandTryFails`, `HandDrains` |
| the handoff's cancellation, `aclose` | `HandCancelled`, `AcloseBegins`, `AcloseEnds` |
| the edge | `HelloAnswered` (external) |

Abstractions: a wait with a timeout may end at any moment; cancelled tasks end
before the teardown that cancelled them goes on (`_cancel_tasks_bounded` gives up
after a while, and such a task stays in `_tasks`); `asyncio.wait_for` passes a
cancellation on, as it does from Python 3.12. A handoff is known by the
connection it replaces. Dispatch tasks are left out: which replies go out is
modelled for the Rust runtime. `strayed` is history: one of three races
happened against which the code has no guard, and after which most properties
are not claimed. They are

- a handoff that goes on beside a supervisor that starts over: after a drain
  during a cold hello, or after a second drain that begins while the supervisor
  awaits the first handoff (finding 5);
- a handoff that begins on a connection that was already forced down, because its
  reader still comes to a buffered GOAWAY: `_begin_handoff` does not look at
  `closed`, and the status becomes "connected" without a callback after the
  callback was told "reconnecting";
- a hello that times out although a takeover was seen: that branch of
  `serve_forever` (`except (_ConnectTimeoutError, _HelloTimeoutError)`), unlike
  the one after it, does not read `_superseded`, and redials.

`TunnelConnect` exercises the bootstrap or the handoff in a behaviour; they
share no state.

### TunnelBridge, TunnelForward, TunnelDispatch

`dispatch` hands an envelope to one of two handlers. `TunnelDispatch` extends
both and lets a behaviour take the route of its envelope; dispatches share only
the connection's sending half, which queues, so one is modelled. The connection
itself, and what becomes of a reply on a closed one, is `TunnelRuntime`.

| Code | Model |
|---|---|
| `dispatch_ws_upgrade`, `open_ws_upstream` | `RejectEnvelope`, `UpstreamAccepts`, `UpstreamRefuses`, `PostAccept` |
| `open_connect_bridge`, `await_connect_200` | `Connect`, `Accepted`, `NotAccepted` |
| `pump_ws_url_bridge`, edge to upstream | `B2uRecv`, `Drain`, `DrainClose`, `DrainOver`, `B2uEnds` |
| the same, upstream to edge | `U2bFrame`, `U2bPong`, `U2bEnds` |
| its `select!` and what follows | `WsEnds`, `Leave` |
| `run_tcp_bridge` | `DialUpstream`, `TcpFrame`, `TcpWrite`, `TcpRead`, `TcpEdgeEnds`, `TcpUpstreamEnds` |
| `feed_tls`, `encrypt_tls` | `Feed`, `TcpFeedFails`, `early` |
| the end of it, `finish_tcp_bridge` | `TcpShut`, `TcpNotify`, `TcpClose`, `TcpLinger` |
| abort by the runtime | `Abort`, `ForwardAborted` |
| `dispatch_http`, `materialize_body` | `CheckEnvelope`, `FetchBody`, `FetchFails`, `Post` |
| `forward_envelope_to_url` | `Ask`, `AnswerHead`, `Chunk`, `ChunksEnd`, `AskFails`, `TimesOut` |
| reqwest's redirects | `Follow` (external) |

Abstractions: a message is its number and travels whole or as a head and a tail,
which are two frames or two parts of an envelope; a chunk may hold any number of
frames. What the upstream has sent together with its 101 head is read first. The
upstream's receive buffer holds `Room` messages, so that writes wait; what is
sent to the edge is queued by h2. TLS is a handshake, before which the engine
holds `EarlyLimit` messages of the upstream, and an identity after it. Of a
forwarded body only the size counts. Frames come whole, as
`WsFrames` shows they do; headers and envelope parsing are left out.
`Selection!Those` picks the frames or numbers of a kind out of a queue, as
`SelectSeq` does, by a recursive function that the provers can expand. A frame
that begins a message inside another, and a close envelope, carry the number of
the message they begin or follow; the code does not read it.

### MessageSend, VaultKeys, CompanionLoad, IdentityFacade, MailReads

| Code | Model |
|---|---|
| `post_message`: request, pause, verdict on an answer | `SendCall`, `Retry`, `Verdict`, `AnswerLost` |
| the program calls again, or stops | `SendCall`, `Crash` |
| network and server | `RequestLost`, `Deduplicate`, `StartWork`, `TurnAway`, `Deliver`, `GiveUp` (external) |
| `VaultResource::initialize` | `Initialize`, `PostInitialize` |
| `unlock` and `update_key` up to the unwrapping | `Open`, `FetchWrapping`, `NoKeyMatched`, `Unwraps`, `Unlocks`, `UnwrapFails` |
| the rest of `update_key`; `delete_key` | `Rewrap`, `PutPrimary`, `DeleteKey` |
| `load_initialization` | `Load`, `FetchPage`, `LoadFails`, `Verify` |
| `AgentIdentity`: `refresh`, `update`, `provision_phone_number`, `release_phone_number`, `delete` | `RefreshIdentity`, `UpdateIdentity`, `Provision` and `ReadBackPhone`, `ReleasePhone`, `DeleteIdentity` |
| `with_response_metadata` | `EnterScope`, `LeaveScope` |
| `MessagesResource::list_filtered` | `StartList`, `NextPage`, `ListFails` |
| `MailboxImportsResource::wait` | `Poll`, `PollAnswered`, `PollFails`, `WakeUp`, `PollTooLate` |

Assumptions: the server sends one message per key and answers a repeated key
with what it sent; it keeps vault keys as it is given them, replaces the primary
key in one step and tells a wrapping by the hash of its password alone; a list
is served by keyset or by offset cursors (Companion) or keyset cursors (mail).
A key, an id or an organisation key is fresh when drawn. `post_message`'s keys
are per call unless the program keeps one: `SentOnce` says exactly which repeated
calls are safe. `CompanionLoad` does not count bytes. A facade's mailbox and
tunnel cells never change after the identity is created and are left out.
`ClientCalls` exercises one part per behaviour, for the parts share no state.

### VaultSecrets

`VaultResource` keeps one snapshot of all decrypted secrets, replaced by
`unlock`. An `UnlockedVault` is a copy of it with its own list of secrets. A
thread holds at most one at a time, or calls the identity facade, which clones
the snapshot for each call. One action per request; every request may fail, and
a write may take effect although its answer is lost.

| Code | Model |
|---|---|
| the secrets the server keeps | `server`, `clock` counts accepted writes (external) |
| `VaultResource::unlocked`, `UnlockedVault::secrets_cache` | `snapshot`, `vault` |
| `unlock`: `/unlock`, `/keys`, store, access rules | `Unlock`, `FetchBundle`, `StoreSnapshot`, `Filter`, `FilterDone`, `UnlockFails` |
| `unlocked()`, end of scope | `Unlocked`, `DropVault` |
| calls on a held vault, calls of `AgentIdentity` | `Call`, `FacadeCall` |
| `set_totp`, `set_totp_uri`, `remove_totp`, `update_secret` | `Get`, `Check`, `Patch`, `PatchLost` |
| `refresh_cached_secret` | `Refresh`, `RefreshFails` |
| `delete_secret`, `create_secret` | `Delete`, `DeleteLost`, `Post`, `PostLost`, `ReadBack`, `ReadBackFails` |
| `VaultResource::delete_secret` | `AdminDelete` |

Assumptions: the server applies one write at a time and answers a read with its
current state; ids are not used twice; the organisation key does not change, so
decryption succeeds or `unlock` fails. The contents of a secret are a version
and the write its login part comes from, for that is what a TOTP change can
lose. Whether an identity has access is a choice at each `Filter`. `since`,
`stamp`, `owed` and `raced` are history that the properties read.

### HttpErrors, CookieJar, CookieDates, WsFrames

| Code | Model |
|---|---|
| `raise_for_status`, `retry_after_seconds` | `RaiseForStatus`, `RetryAfterSeconds` of `HttpErrors`; `MessageSend!Verdict` decides on what they say |
| `HttpTransport::send` around the jar | `Ask`, `AnswerWithCookie`, `AnswerPlainly`, `LoseAnswer` (the last three: server and network) |
| `header_for_url`, `path_matches` | `Ask`, `HeaderForUrl`, `PathMatches` |
| `store_from_headers`, `parse_set_cookie`, `default_path` | `Parse`, `ExpiresAt`, `CookiePath`, `DefaultPath`, then `StoreFromHeaders` |
| `now_secs` | `nowSecs`, `SecondPasses`; read by `Ask`, `Parse` and `StoreFromHeaders` each for itself |
| `days_from_civil` | `DaysFromCivil`, `Quotient` |
| `encode_ws_frame` | `Encode`, `LengthBytes`, `Masked`, `BigEndian`, `Shifted` |
| `decode_ws_frames` | `HasFrame`, `FirstFrame`, `Turn`, `Decode`; `Arrive` is the read before it |

Abstractions: one host, one cookie name and one scheme, so that a cookie is told
by its path; a path is its segments; of several lifetime attributes the last
counts, as in the code; the clock does not go back. A byte of `WsFrames` is a
digit of `Base`, a constant: with 256 the numbers are those of the code, with 8
the form of a length changes at 2 and 64 instead of 126 and 65536. `ByteXor` is a
constant operator: `MCXor` gives it its bits in the run, and the proofs use of it
only that it gives a byte and undoes itself, which `WsFramesAssumption` states and TLC
evaluates. The assumption also says that a length fits the 8 bytes the code has
for it and an opcode the 4 bits. `DatesAreDays`
compares the formula with a walk through the years that counts days by the
calendar's definition. `HttpErrors` has no state; it is checked where it is used.


## 4. Runs

Every bound is a constant of a `.cfg`.

| Run | Bounds | What it shows |
|---|---|---|
| `tunnel_redial` | 1 worker, 1 request, 1 `aclose`, 2 attempts | replies pass the generation test only on the connection being served and never after an `aclose` bumped it (`ReplyFence`); no running dispatch outlives its run (`NoDispatchSurvivesRun`); a takeover seen during hello stops the client (`HelloTakeoverStops`); when a run begins all tasks of earlier ones have ended (`OneConnection`); what an observer is told is a behaviour of `TunnelLifecycle` (`ImplementsLifecycle`) |
| `tunnel_close` | 1 worker, 1 bridged request, 2 concurrent `aclose`, 1 attempt | an unfinished dispatch always has an owner that will abort it (`DispatchOwned`); the last status recorded is the terminal one (`TerminalStatus`) |
| `tunnel_backoff` | 1 worker, no request, 6 attempts | types; the delay is 2^failures seconds, at most 30, counted from the last success (`BackoffTracksFailures`): six attempts pass the cap |
| `tunnel_liveness` | 1 worker, 1 `aclose`, 1 attempt | `aclose` makes `serve_forever` return; a silent path is given up |
| `tunnel_takeover` (violated) | 2 attempts | finding 1 |
| `tunnel_status_order` (violated) | 1 `aclose`, 1 attempt | finding 2 |
| `tunnel_connect` | bootstrap: 2 processes, 3 keys, 2 interruptions or outside changes | types; an attempt no other overlapped serves a chain for its key whatever is in the directory (`AloneServesPair`); in the end every process serves unless the key file is torn or the tunnel was removed (`BootstrapServes`) |
| | handoff: 3 connections, 1 `aclose` | unless one of the three races of section 3 happened: the connection that parks intakes is the active one (`ActiveServes`); no socket is open when the runtime sleeps or has ended (`NothingLeftOpen`); the callback knows the status although a handoff changes it silently (`CallbackKnows`); after a takeover was seen no connection is dialed (`TakeoverEndsDialing`); `aclose` returns and ends `serve_forever` (`AcloseReturns`) |
| `bootstrap_torn` (violated) | 1 process, 1 interruption | finding 3 |
| `tunnel_dispatch` | 2 messages each way, 1 control frame, room for 1, 1 early message; bodies of up to 3 pieces, 2 redirects | each side receives a prefix of what the other sent, in order and once (`StreamsInOrder`); while the pump waits it holds nothing back (`NothingHeldBack`); a clean close means everything received was passed on (`CleanIsComplete`); the stream is not reset under its close (`NoResetAfterClose`); the upstream is asked only for a request that passed the checks, with its whole body (`AskedWhole`), and a reply with the upstream's status has all of its body (`ReplyIsWhole`): together `ForwardedWhole`; bridges and forwarded requests end (`DispatchEnds`) |
| `handoff_overlap` (violated) | 3 connections | finding 5 |
| `client_calls` | secrets: 2 threads, 2 secrets of which 1 exists at first, 2 accepted writes | a vault is never behind its own refreshed writes (`OwnWritesVisible`); a TOTP change reverts no login written before it was called (`TotpKeepsLogin`); unlock stores all that was finished when it was called (`UnlockIsFresh`), and the snapshot gets older only when two unlocks overlap (`SnapshotNoOlder`): together `SnapshotIsRecent` |
| | keys: 2 clients, 2 passwords, 1 recovery code, 6 draws | every vault key the server keeps opens the one organisation key (`EveryKeyOpens`); an unwrapping fails only if a key was removed between its two requests (`UnwrapsUnlessDisturbed`) |
| | send: 1 message, 2 calls of 3 attempts | a message is sent once if one call was made or its key was kept (`SentOnce`), and success means delivered (`SuccessIsDelivered`): together `SentExactly` |
| | load: 5 entries, pages of 2, at most 3 pages, 2 changes | what is returned has every message once and in order, under one scope (`LoadedWhole`) |
| | identity: 5 changes | the guards of a facade or its copy know the changes made through it (`GuardsKnowOwnChanges`) |
| | list: 4 messages, pages of at most 2; wait: 5 ticks | what stays in the mailbox is listed once and in order (`ListedWhole`); wait is not under way beyond its timeout (`WaitBounded`) |
| | cookies: 2 threads, 2 request paths, 3 cookie paths, 3 answers that set a cookie, 2 instants | a request carries what the server set last, or nothing once that is removed or outdated, unless answers for one cookie overlapped or were lost (`CarriesLastSet`) |
| | dates: the years -20 to 2020 | every date has the day number that counting gives (`DatesHold`) |
| | frames: 2 frames, lengths on either side of each change of form, masked or not, chunks of 1, 3 and 70 bytes | the frames that have arrived whole are decoded, as they were sent, and no others (`DecodesWhatArrived`) |
| `vault_facade` (violated) | 1 thread, 1 secret, 1 write | finding 4 |

Why the bounds are enough. Two runs show everything that crosses from one
connection to the next, for a run's variables are only read by that run, the
next supervisor iteration and its own tasks. One worker can be at every point
of its loop while the supervisor is at every point of its own; workers touch
each other only through `force_down` and the flag, both of which the driver
exercises as well. Two callers of `aclose` are the least that exchange
`lingering_tasks`. In the bootstrap, two changes allow an interruption inside a
recovery from an interruption, and a third key exists when two processes hold
one each. For a bridge, two messages each
way are the least that can be swapped, joined or lost apart, a head and a tail
the least to interrupt by a control frame, and room for one the least that makes
a write wait; `MaxControl` counts control frames of both sides. A forwarded body
of 3 pieces exceeds neither, either or both of its limits. A second call is the
least that repeats a send; two clients the least that rotate at once; a third
page and a fifth entry make the conversation outgrow the load. Three connections
are the least with which a handoff retries, a second handoff follows a first, or
a cold dial happens beside a replacement. For the cookie jar, three
answers are one to set, one to renew or remove and one to overlap, and two
instants before and at an expiry; the years cover seven eras of 400,
the year 0 and the leap rules on both sides of 1970. In the vault, two threads and two writes give each
order of a write, a fetch and a store, and a change between another change's
read and write; `MaxWrites` makes the server refuse further writes, an error the
code meets anyway. The two callers of `aclose` are interchangeable, so TLC
identifies states that differ by exchanging them. `MaxRuns` stops the supervisor at the head of its loop (`Terminated`
allows that stuttering); `MaxTrouble` counts `trouble`.

Fairness. `TunnelRuntime!FairSpec` assumes that the executor polls runnable
tasks and that timers fire: weak fairness of the supervisor, of each driver,
worker, dispatch and `aclose` once begun, of the PING timer and of the
callbacks. It assumes nothing of the edge or that `aclose` is ever called.
`TunnelDispatch!DispatchSpec` assumes that the executor polls the dispatch task,
that its timers fire, and that a bridge's upstream reads what it is sent or goes
away (`write_all` in the TCP loop waits for it without limit); the fairness of
`DispatchTask` is of the task as a whole, so no branch of its `select!` is
preferred. It assumes nothing of the edge or of a forwarded request's upstream.
`ClientCalls` states none.
Where a `.cfg` says `CHECK_DEADLOCK FALSE`, the system stops: a list is read, a
walk is over, all that was sent has arrived, the runtime has ended.
`TunnelConnect!ConnectSpec` assumes of the handoff that `serve_forever` is called
and that the event loop goes on with one of the runtime's tasks while one can
take a step: each waits for another of them or for a time limit. It assumes
nothing of the edge, of the readers, or that `aclose` is called. Of the bootstrap
it assumes that a process that is not interrupted goes
on and that a failed connect is repeated (by whoever runs it).

### Findings

1. `TakeoverNeverRedials` (`tunnels/client/runtime.rs:548`). The serving path
   reads the takeover flag once, before teardown; the driver may still store it
   during teardown, and the client then redials and displaces its successor.
   The hello path reads the flag again after its teardown for exactly this
   reason.
2. `HandleSettles` (`runtime.rs:1100`). Callbacks run outside the lock that
   orders notifications, so a `TunnelStatusHandle` can end at `Connected` after
   the runtime closed.
3. `PrivateWritesAtomic` (`tunnels/client/state.rs:147`). The first write of a
   private file is not atomic, against its documentation; a torn
   `private_key.pem` makes every later connect fail.
4. `CredentialsConsistent` (`agent_identity.rs:2154`). The facade's methods
   change a clone of the snapshot, so `credentials()` lists a secret the identity
   has deleted until the vault is unlocked again, against the comment on
   `credentials` that the snapshot is always consistent.
5. `OneServes` (`src/sdk/python/inkbox/tunnels/client/_runtime.py:684`). `_active`
   is set before the hello of a cold connect, so that a drain in between begins a
   handoff. If that hello then fails, `_teardown_cold` leaves the handoff running
   and the supervisor dials again: both connections serve, although the class
   comment of `_Connection` says that a single one parks intakes. The supervisor
   follows the replacement and nobody closes its own connection; the edge keeps
   one connection per tunnel and displaces the older, which is no drained
   predecessor, so that the client takes its own replacement for a takeover.

Met while modelling, and not stated as properties: the client that forwards
requests (`tunnels/client/runtime.rs:299`) follows an upstream's redirects, as
reqwest does by default, so that the third party gets what the redirect points
to; the TypeScript SDK asks not to and says why
(`src/sdk/typescript/src/tunnels/client/_url_forward.ts:271`).

Two processes whose attempts overlap can serve a chain issued for the other's
key until their next connect. No document says that a directory may be shared,
so this is no finding; `AloneServesPair` says exactly when it cannot happen.

## 5. Proofs

Every theorem is proved for all values of the constants that the named
assumption of its module allows, and speaks of the specification that the runs
check. An invariant of section 4 is seldom inductive; each proof strengthens
it, and says below with what and why. Proof modules are laid out alike: the
invariant as named conjuncts, one lemma per action or process, a lemma that the
specification keeps the invariant, the theorem.

### The runtime (`RuntimeAssumption`: at least one attempt, disjoint names)

`TunnelRuntimeProofs`:

- `TypeCorrect`: `Spec => []TypeOK`, one lemma per process.
- `RepliesFenced`: `Spec => ReplyFence`. `ReplyFence` speaks of a step; what must
  hold before it is the invariant `Fence`. `GenerationInv`: no run's generation
  exceeds the runtime's, runs not reached have none, and the run whose generation
  equals the runtime's is the supervisor's own, between taking and retiring it.
  `OwnerInv`: a worker or a dispatch exists only for a run that has a generation,
  and not before its pool is spawned. `StopInv`: an `aclose` stores `stopped`
  before it bumps, so a run that takes its generation after the bump has only
  workers that will find `stopped`, and no running dispatch. Without `StopInv`
  the property is not inductive: such a run *is* current, so the generation test
  alone would let its dispatches reply. `FenceInvariant` proves
  `Spec => [](TypeOK /\ Fence)`, one lemma per process; `OnlyPostCheck` shows that
  no other step takes a request past the test.

What is left of a run, on top of these:

- `ColdReconnect` (`OneConnection`) by `ConnectionInv`: what the teardown has
  stopped at each of its labels. The hello path aborts nothing but the PING
  monitor and the driver, and is safe only because no worker exists there
  (`NoWorkerYet`, from the fence).
- `TakeoverDuringHello` (`HelloTakeoverStops`) by `TakeoverInv`: a flag stored in
  a run that never served is found at `decide`, or was answered by a stop.
- `DispatchEndsWithRun` (`NoDispatchSurvivesRun`) by `DispatchInv`: a running
  dispatch belongs to the current run and is held by `dispatch_handles`, by the
  batch of the teardown, or by the worker that is about to push it. The last
  case is why the run must join its workers *after* it drained the list.
- `DispatchesOwned` (`DispatchOwned`) by `OwnedInv` and `ClosingInv`: whoever takes
  tasks out of `lingering_tasks` keeps them until it has joined them.

Statuses, the delay and the refinement of `TunnelLifecycle`:

- `EndsWithTerminalStatus` (`TerminalStatus`) by `LastInv`. An `aclose` may say
  closed between any two statuses of the supervisor, so what `last` is at a
  label is known only while `stopped` is unset, or from the suppression of equal
  and late statuses in `notify_status`.
- `LifecycleImplemented` (`ImplementsLifecycle`): the initial state maps to the
  abstract one, and every step of a process to a step of `TunnelLifecycle` or a
  stutter. `ResultInv` is what the abstract guards need. That the runs counted
  as connections have a latest is a conjunct of it: `Announced` chooses it, and
  that a non-empty set of numbers has a greatest is an induction that is kept
  here step by step instead.
- `BackoffCounts` (`BackoffTracksFailures`) by `BackoffInv`, which says at each
  label of the loop of how many failures `backoff` is the delay. The delay is the
  recursive function `Delay`, doubled and capped, as the code computes it.

### Connecting (`BootstrapAssumption`, `HandoffAssumption`)

`TunnelConnectProofs`, for `ConnectSpec`, any number of processes, keys and
connections:

- `ServesPair` (`AloneServesPair`) by `BootstrapInv`, that is, `TypeOK`,
  `Exclusive` (an attempt no other overlapped is the only one under way) and
  `PairKept` (what it has read of the chain stays true of the files until it
  serves). Only for such an attempt is the second inductive: any other process
  may replace the chain between the check and the read.
- `ConnectTypesHold`, `ServesActive` (`ActiveServes`), `AllClosed`
  (`NothingLeftOpen`), `CallbackInformed` (`CallbackKnows`) and the action property
  `TakeoverStopsDialing` (`TakeoverEndsDialing`) by one invariant, `HandoffInv`:
  types; connections are numbered in the order they are dialed and only one that
  was dialed has any state (`NumberInv`); one handoff at a time builds
  (`OneHandoff`); whom the supervisor awaits, and which connection serves
  (`Served`); after a takeover no handoff builds (`TakenInv`); what the callback
  was told (`ToldInv`); which sockets may be open at each label (`OpenInv`). The
  last four are claimed only while `strayed` is unset: the three races of
  section 3 break them. TLC checked `HandoffInv` on all 435,963 states
  of the instance with three connections before it was proved.

### Secrets and sends

`VaultProofs` (`VaultAssumption`, `VaultKeysAssumption`, which says of the recovery
codes that there are finitely many, as the code's loop over them needs):

- `VaultKeysOpen` (`EveryKeyOpens`), `UnwrapFindsKey` (`UnwrapsUnlessDisturbed`) and
  `KeyTypesHold` by `KeysInv`: all wrappings the server keeps are of one
  organisation key, one of them is primary, and what a client has fetched,
  derived or is about to put is of that key or of one that was removed since.
- `SecretTypesHold`, `OwnWritesSeen` (`OwnWritesVisible`), `TotpChangeKeepsLogin`
  (`TotpKeepsLogin`) and `SnapshotRecent` (`SnapshotIsRecent`) by `SecretInv`:
  types, how far each call has come (`Prepared`), that nothing anyone holds is newer than
  the server (`ServerPast`), and per thread what its own writes oblige its vault
  to show (`Progress`).

`ClientProofs` (`FacadeAssumption`, `MailAssumption`, `CookieJarAssumption`,
`CompanionAssumption`, `MessageSendAssumption`):

- `SendTypesHold` and `SendsExactly` (`SentExactly`) by `SendInv`. Its parts: every
  request anywhere carries the key of its call (`KeyInv`); the server works once at
  a time on a key and never on one it has used (`ServerInv`); a message is sent once
  per key used (`CountInv`); a pause precedes only an attempt that is left
  (`AttemptInv`).
- `FacadeKnows` (`GuardsKnowOwnChanges`) by `FacadeInv`, the property with the types.
- `ListsAll` (`ListedWhole`) by `ListInv`: what was collected
  descends, stops at the cursor, and leaves out nothing above the cursor that was
  there at the start and still is.
- `WaitEndsInTime` (`WaitBounded`) by `WaitInv`, which bounds the sleep by what is left.
- `MailTypesHold`, `JarTypesHold` and `FacadeTypesHold` by what the invariants here say
  of the variables, and `MailShape` and `JarShape` for the rest. `JarShape` is about the
  jar: what is stored in it, or on its way there, came with an answer that was given.
- `CarriesLast` (`CarriesLastSet`) by `JarInv`: `PendingLast` says of an answer that is
  not stored yet, and `JarLast` of the jar, that they hold what was set last unless
  an overlap or a loss was recorded. Neither is inductive without the other: one
  becomes the other at `StoreFromHeaders`.
- `LoadTypesHold` and `LoadsWhole` (`LoadedWhole`) by `LoadInv`. What was collected is
  the beginning of the history and the cursor is where it ends, for either order
  and either kind of cursor, as long as no message came before those of the first
  page (`Undisturbed`). If one did, what is collected afterwards may lack messages
  or have them out of order, and only `Verify` rejects it: the proof of that step
  is where the second fetch of the first page is needed. TLC checked `LoadInv` on
  40,894 states.

### Dispatch (`BridgeAssumption`, `ForwardAssumption`)

`SelectionTheorems` has the laws of `Those` that the proofs about queues use: what
it selects from a sequence that is appended to, concatenated, or shortened at
its head or in the middle. Each is an induction over the length of the
sequence. The library's induction theorems cannot be instantiated here, so
`NatsBySteps` gets a set instead of a predicate, and is proved from the least
element that well-foundedness gives; `SeqsBySteps` does the same for sequences.

`TunnelDispatchProofs` proves `DispatchInvariant` (`DispatchInv`), for any number of
messages and control frames each way, any room and any limits, and from it all
safety properties of `tunnel_dispatch`: `DispatchTypes` (`DispatchTypeOK`),
`DispatchInOrder` (`StreamsInOrder`), `DispatchHoldsNothing` (`NothingHeldBack`),
`DispatchClosesClean` (`CleanIsComplete`), `DispatchForwardsWhole`
(`ForwardedWhole`) and `DispatchWaitsToReset` (`NoResetAfterClose`).

- Each direction of a bridge is a pipe. `StreamsInOrder` says what has come out of
  it; the invariant says what is still in it (`WsIn`, `TcpIn`, `WsOut`, `TcpOut`):
  the frames in its buffers and on the wire go on exactly where the messages
  passed on end, frame by frame (`Chain`), and have as many last frames as there
  are messages left (`Flow`). A position in the stream is the number of messages
  that have gone by and whether one is open, so that a message that was begun
  before it is passed on, a control frame inside it and one that begins inside
  it are told apart. `FlowAppend` and `FlowTake` are what a side's sending and a
  pump's taking do to a flow; the lemma of an action says which it does.
- A pipe is claimed only while its direction is served. Where the bridge gave
  up, in the middle of a message perhaps, frames are lost, and only the order of
  what came out remains. `ReasonInv` therefore says that a bridge that pumps has
  no reason to close yet: a tcp bridge that stopped inside a write has another
  reason than `clean-eof`, without which `CleanIsComplete` is not inductive.
- `OpeningInv` says what has happened at the labels before the pump, above all that
  what came with the 101 head is the beginning of the upstream's stream;
  `LingerInv` that the stream is left open only after the grace period.
- `ForwardInv`: a request is asked for only with its checks and its whole body
  behind it (`BodyInv`), and what was read of the answer is all that was produced
  until a reply with another status says otherwise (`AnswerInv`).

TLC checked `BridgeInv`, the bridge's part, on 845,152 states of the bounds
of `tunnel_dispatch` before it was proved.

### Dates, frames and the whole client (`CookieDatesAssumption`, `WsFramesAssumption`)

`CodecProofs` is about functions that are computed by recursion. The bytes of a
number, the number that bytes make and the loop of `decode_ws_frames` are recursive
functions; each is shown first to be the last element of a sequence of steps
(`LoopSome`, by `NatsBySteps` of `SelectionTheorems`), and what follows is by induction
on those steps.

- `EveryDayIsCounted` (`DatesAreDays`): `Marches(y)`, the days from 1970 to the first of
  March of a year, in closed form, is what `days_from_civil` computes with its eras
  (`CivilIs`), and grows from year to year by 365 or 366 as the calendar says
  (`MarchesStep`). The days before each month are written out (`BeforeSums`).
  `DatesInv`: the walk is at the number of the first of January.
- `FramesArriveWhole` (`DecodesWhatArrived`) and `FramesTypes` by `FramesInv`. What the
  receiver holds and what has not arrived are one stream, and that stream is cut
  (`Cuts`) into the bytes of the frames that were sent and not yet decoded: the cuts
  lie in order from its beginning to its end, each piece is the encoding of its frame,
  and together with what was decoded before they are all frames sent. `FrameRead`
  says that an encoded frame at the head of a buffer is read back as it was sent,
  and as soon as its last byte is there and no earlier (three forms of length, with
  and without a key); `DecodeCuts` that the loop stops at the last cut before the
  end of the buffer. Without the cuts the property is not inductive: it says nothing
  of the bytes between two frames. `CutsAppend` and `CutsDrop` are what sending and
  decoding do to them.

`ClientCallsProofs`: every step of `ClientCalls` is a step of one part and leaves the
others as they are (`PartSteps`), so it implements the specification of each
(`ClientRefinesParts`), and what is proved of the parts holds of it:
`ClientTypesHold` (`ClientTypeOK`), `ClientDatesHold` (`DatesHold`), and in
`ClientPartsHold` every other property of `client_calls`.

### What is only model-checked

- Liveness (`CloseTerminates`, `SilentPathNoticed`, `BootstrapServes`, `AcloseReturns`,
  `DispatchEnds`): fairness and `ENABLED` are out of the prover's reach.
- The five findings, which are violations.

Every invariant and every action property of the passing runs is a theorem.

## 6. Not modelled

- Operations that are one REST request (phone, iMessage, WhatsApp, Slack,
  contacts, A2A, webhooks, account resources, most of mail and of
  `agent_identity.rs`) and their data types: they keep no state in the client, so
  a model of them would be a model of the server. They are most of the Rust
  SDK's lines, together with its unit tests; this is why the map covers a small
  share of the lines, and why it cannot cover 30% of them faithfully.
- The list loops of threads and drafts: a thread that becomes active moves to
  the front of the list being read, and where that leaves the reader is for the
  server to say.
- Response notices (`response_metadata.rs`): they are handed to an observer and
  nothing is kept; what a scoped copy of an identity does is in `IdentityFacade`.
- Envelope encodings (`envelope.rs`), header filtering,
  host names, CSRs, certificates, TLS, cryptography, TOTP codes: sequential
  functions of their input that the repository unit-tests.
- Edge-mode tunnels, which have no key and no bridge of kind tcp.
- The rest of the Python SDK, the TypeScript SDK and the CLI: ports of the same
  API. Of the Python runtime, dispatch tasks, bridges and a cancellation of
  `serve_forever` by its caller.
