# SpellKard, specified in TLA+

This directory holds TLA+ models of the SpellKard client, the TLC configurations
that check them on small instances, and theorems proved with TLAPS. Paths below
are relative to the repository unless they name a module of this directory.

Checking one model: `tlc -config KcpWindow.cfg MCKcp`; section 4 names the module
and the configuration of every run. Checking the proofs: `tlapm Kcp_proofs.tla`
(some minutes) and, at a few minutes each or less, the `_proofs` modules of
`MatchEvents`, `BattleClient`, `LobbyTransport`, `LobbySession`, `Prediction` and
`BossRace`, and `Induction`.

Each component has a module with its state and actions, a `...Properties` module that
states what must hold of it, an `MC...` module that instantiates it for TLC, and a
`..._proofs` module. `MessageChannel` and `EventFeed` are abstract specifications that
two of the components implement; `SerialNumbers` is the arithmetic of the code's 32-bit
numbers; `Induction` holds lemmas on sums and sequences that two proofs share.

## 1. The system

SpellKard is a bullet-hell duel game. The client in this repository
(`laya/`, TypeScript) signs in to a lobby server, joins a room, is told that a
match starts, and plays it against a battle server. Neither server is in the
repository. Everything in the client runs on one JavaScript event loop: a handler
runs to its end or to its first `await`, and the interleavings come from the
network, from timers and from awaits that resolve later.

    lobby server                                 battle server
      |  WebSocket, REST, RPC                      |  UDP (or a ws relay)
    WsLobbyTransport / HTTP transport            DatagramLike
      |                                            |
    LobbyClient -- events --> LobbyFlow          KcpSession over Kcp
      |                          | onChange         | payloads
      | fetchMatchEvents         v                  v
    BattleEventPoller <--- SpellKardApp ------> BattleClient --> simulation
           rows  `------>   BattleScene   <------ snapshots, results

### Inventory

| Component | State | Operations | What is hard | What makes it correct |
|---|---|---|---|---|
| **KCP** `core/net/ikcp.ts`, `kcp_transport.ts` | send queue and buffer, `snd_una`, `snd_nxt`, peer window; receive queue and buffer, `rcv_nxt`; ack list, probe bits, timers; `closed` | `send`, `tick` (update, flush, drain), `input`, `recv`, `close` | lost, duplicated, reordered datagrams; stale windows; a closed window; a handler that calls back into the session | payloads arrive whole, once, in order; nothing unacknowledged is forgotten; the windows hold; everything arrives in the end |
| **Event poller** `core/net/battle_event_poller.ts` | `active`, `polling`, `matchIdValue`, `cursor` | `start`, `stop`, `poll` with its drain loop | a fetch that outlives `stop` and `start`; rows the server dropped; ticks during a poll | rows in order and once per run; no row lost silently; catches up |
| **Performance of a match** `platform/laya/app.ts` | `performanceMatchId`, `battleOpening`, `giftChargesSpent` | `onFlowChange`, `enterBattlePerformance`, `onGap`, `onMatchEvents`, `onMatchEnd`, scene enter and exit | two awaits between a match starting and its poller being restarted; several ways for a match to end | stale answers change nothing; charges count each row once; an ended match stays ended |
| **Battle client** `core/net/battle_client.ts` | connection state, session, `inputQueue`, `seq`, `flushing`, cipher and key, handshake waiter, prediction | `connect`, `performHandshake`, `sendInput`, `receive`, `close` | sealing and opening are asynchronous; a handshake accept after its timeout; reconnecting with inputs queued | inputs leave in sequence order and are not lost; frames carry their session's key; only its own result ends a match |
| **Match session** `app.ts` `ensureBattleConnected` | one `BattleClient` for all matches, the lobby client's `ticket` | connect on `match_start` | the ticket and the running client of the previous match | a match is played with its own ticket on its own connection |
| **Lobby WebSocket** `WsLobbyTransport` in `core/net/lobby_client.ts` | socket, pending calls, `reconnectPromise`, `closed`, `disposed`, token | `call`, reconnect, `setSessionToken`, `close`, socket callbacks | responses matched by type only; abandoned sockets keep their handlers | each call is answered once, with its own answer or an error |
| **Lobby client** `LobbyClient` | session, room, ticket, allocation | RPCs, re-authentication after 401 | answers after a logout or a second login | state belongs to the session that is signed in |
| **Lobby flow** `core/game/lobby_flow.ts` | `screen`, `match`, `result`, cached views | sign-in, rooms, `ready`, `abandonMatch`, result, views | pushes during awaits that then set the screen | a started match is not left by an older operation |
| **Boss-race simulation** `core/sim/boss_race.ts`, `danmaku/*` | ships, bullets, seeds, tick | `step`, adopting snapshots, catch-up | reconciliation of prediction and snapshot | a correction never rewinds and never loses an input; the hash of a snapshot's tick is there to compare; hits are spaced |
| **Cards** `core/sim/card_hand.ts`, `card_effects.ts` | hand, energy, effects and expiry | play, draw, tick | effects that overlap | cards and energy balance with the deck and the ticks |
| **Bullet delta** `core/net/bullet_delta.ts` | none (pure) | rebuild a bullet set | anomalous rows | exact rebuild or none |
| **Replay** `core/dem/*` | none (pure) | parse, inflate, hash, replay | malformed input | byte-exact |
| **Settings, shortcuts, i18n** | one record | normalise, load, save | none to speak of | idempotent normalisation |
| **Scenes, view models** | layout | draw, input | re-entrant screen switches | |
| **Platform bindings** `platform/native`, `platform/web`, `laya/native` | handles | sockets, UDP, crypto, windows | outside I/O | |
| **Steam** `core/steam` | catalogue | pricing, workshop | none in the client | |
| **Godot client** `godot/scripts` | its own models | | an older client | |
| **Tools, docs, assets, engine** | | | | |

`PROJECT.json` lists the hazards this code has, each at its line, with the
properties that cover it, or the reason why none does.

## 2. Plan

The order puts first what every match depends on.

1. `Kcp`, `MessageChannel`: the transport and its abstract specification. *Done.*
2. `MatchEvents`, `EventFeed`: poller and application, and what the poller promises.
   *Done.*
3. `BattleClient`: connection states, the input queue with its plain and sealed
   flush, the handshake with its timeout, results. *Done.*
4. `LobbyTransport`: pending calls, the shared reconnect, abandoned sockets. *Done.*
5. `LobbySession`: the lobby client's session, the flow's screens, and the
   application's battle connection with its tickets, composed. *Done*, without
   matchmaking, decks and records.
6. `Prediction`: the simulation of the client and that of the server, with inputs and
   snapshots between them. *Done.*
7. `BossRace`: the rules of the race with its cards. *Done*, without positions and
   bullets.
8. `SerialNumbers`: `itimediff` over 32-bit numbers against the order of naturals it
   stands for, with the theorem that it is that order for distances below 2^31, and
   that the comparisons `Kcp` makes stay below it. *Done.*
9. `BulletDelta` as an operator checked against a reference definition; the
   matchmaking screen of flow and client; the models of the Godot client. *Left.*

Refinements, both proved: `Kcp` implements `MessageChannel`, `MatchEvents` implements
`EventFeed`. `BattleClient` and `Prediction` take over what `MessageChannel` promises
as the order in which their frames travel.

## 3. What is modelled

### Kcp and MessageChannel

`Kcp` has two endpoints, `Client` and `Server`, each a `KcpSession` with its
`Kcp`, and for each the set of datagrams in flight towards it.

| Action | Code |
|---|---|
| `Send(p, d, n)` | `KcpSession.send`: the check of `closed`, `Kcp.send` of n fragments with its limit `count >= IKCP_WND_RCV`, and the `flush` that follows (which does nothing before the first `update`) |
| `Tick(p)` | `KcpSession.tick`: `update`, `flush`, and the entry of `drain` |
| `Deliver(p)` | one turn of `drain`'s loop: `recv` (peek, take the fragments, move from the buffer, ask to tell the window) and the message handler |
| `Input(p, m)` | the datagram callback, `Kcp.input`: window, `una`, then by command |
| `Close(p)` | `KcpSession.close`, by the owner or because the channel closed |

`drain` is split into one step per message because the message handler is the
application's and may call `send` or `close`: while `draining` holds, `Send` and
`Close` may happen, `Input` and `Tick` may not, since the event loop is busy.
`Deliver` does not check `closed`, as `drain` does not.

`Flush` is one operator with the order of the code: acknowledgements, probe and
tell, admission of queued fragments under `min(snd_wnd, rmt_wnd)`, then the new
segments and those found due. Any subset of what it emits reaches the channel;
`Input` may leave a copy behind when `Duplicates` holds; `net` is a set, so order
is not kept.

What is abstract: payload bytes (a payload is a model value, a fragment the payload
and its number); time (any transmitted segment may be found past its resend time
or fast-resend threshold, the window probe may be due at any flush while the
peer's window is zero); the packing of segments into datagrams; the congestion
window, off under `nocwnd = 1`, the session's default; sequence numbers, which
are naturals (see below); stream mode, never switched on; `check`, never called; and
the peer, which here runs the same code.

The code's numbers live in 32 bits and are compared by `itimediff`, the sign of
their signed difference. `SerialNumbers` defines that comparison for a number space of
`2 * Half` (`Half` is 2^31 in the code), and `NumbersCompare` in `KcpProperties` says
that every comparison `flush` and `input` make on wrapped numbers comes out as the one
the model makes on naturals, `input`'s for each datagram that is `Recent`: not more
than half the number space, less a window, behind. That bound is needed, since a
datagram delayed for longer than that is taken for a new one.

`MessageChannel` is the abstract specification: what each end was asked to send
and what its handler got. `Submit` appends a payload, `Handover` gives a handler the
next payload, whole. `KcpProperties!Channel` instantiates it with the histories
`sent` and `taken`, so the refinement mapping is the identity on these and
every protocol step other than an accepted `Send` and a `Deliver` is a stutter.

### MatchEvents

| Action | Code |
|---|---|
| `AddRow`, `Drop` | the server's event log and its retention (external) |
| `IntervalTick` | the interval's `poll`, skipped while `polling` |
| `ReceivePage` | the rest of one turn of `poll`'s loop: `onGap`, the cursor, `onEvents` (which adds to `giftChargesSpent`), and the next fetch or the end |
| `ReceiveNothing` | the poll ends: stopped meanwhile, `null`, or a rejection |
| `MatchStart` | a `match_start` push: `onFlowChange`, with the synchronous part of `enterBattlePerformance`, then `switchTo`, `onEnter` and `onPerformanceEnter` |
| `FlowChange` | any other notification of the flow on the battle screen |
| `LeaveBattle` | the screen changes otherwise: `match_result`, the battle server's result frame, an abandoned match, a lost session. Only `onExit` runs |
| `MatchEnd` | a snapshot names the winner: `onMatchEnd`, `stopBattlePerformance`, `applyResult`. The scene's snapshot listener is never removed, so the screen does not matter |
| `SnapshotDone`, `TicketDone` | the two awaits of `enterBattlePerformance`, each followed by its check of `performanceMatchId` |

`fetch` is the request in flight together with the page number of the drain
loop. It is not tied to a run: `stop` and `start` leave it, `polling` stays
set, and its page goes to whatever is polled when it arrives, as in the code.
`entering` holds the calls of `enterBattlePerformance` in flight, several at once.

`EventFeed` is the abstract specification of the poller: a feed of one stream at a
time with a position, the rows given and whether the reader was told of missing ones.
`Begin` and `End` are `start` and `stop`; `Page` gives the next rows and moves the
position behind them, telling when some before them are missing. It also says how far
an overlapping fetch may go: a run may be `owed` a page of an earlier one, and then
`LatePage` gives that page, of whatever stream, before any other, or it is lost.
`MatchEventsProperties!Feed` maps `polled` to `matchId`, `pos` to `cursor`, `rows` and
`told` to the histories `delivered` and `gapInRun`, and `owed` to `Owed`: the
fetch in flight is not the one the current run would make. Everything the server,
the screens and the calls of the application do apart from starting and stopping the
poller is a stutter.

What is abstract: a row is its match and number, every row is one gift of the
local player at one charge, and the stage, portraits and music the snapshot sets
are left out. Assumptions about the server, taken from how the client uses it:
`oldest_cursor` is 0 while nothing was dropped and the oldest retained number
after (`app.ts`, `fetchEventsPage`: 0 "can only suppress a gap"); a page holds
the first rows after `after`; the last row of a match is retained; the server
answers when the client gets the answer. `match_start` is pushed while the player
is not on the battle screen: the lobby starts a match from a room. The
demo entry `LobbyFlow.enterBattle`, which nothing else calls, is left out.

### BattleClient

| Action | Code |
|---|---|
| `SendInput` | `sendInput`: number, queue, and `flushInputQueue` unless a handshake is pending |
| `SealedSent`, `SealedRefused` | the cipher answered: the rest of one turn of `flushSealedQueue`'s loop (send, shift, the next head), or the end of the loop when the session refuses |
| `Connect(m)` | `connect`: key, session and state, or a channel that does not open |
| `Close` | `close` with the pending handshake settled |
| `ChannelCloses(s)` | the datagram channel closes: `KcpSession` closes itself, the client is not told |
| `Result(s)`, `ResultOpened(s)` | `receive` of a result frame, in the clear, and sealed with its await |
| `PerformHandshake(h)`, `SendHello(h)` | `performHandshake` up to its first await, and after it |
| `Accept(h)` | `completeHandshake` up to its await |
| `Derived(h)`, `PlaintextSelected(h)`, `NotDerived(h)` | after it: the accept's suite is ChaCha20-Poly1305 and keys the session, it is another one and puts it in the clear, or there is no key or no cipher |
| `HandshakeTimeout` | the timer of `performHandshake` |

`flushInputQueue` is an operator with its three outcomes: the plain queue goes out
at once (`PlainFlush`), the sealed loop starts on the head (`SealNext`), or a
loop is running already. `flush` is what that loop has read before its await: the
session, the input and the cipher. After the await it sends to that session, but
shifts the queue, and goes on with the session and key, that are current by then.
`wire` is the history of what each session accepted; sessions are numbered in
the order of `connect`, and old ones stay `live`, since `connect` does not close
them.

`deployment` fixes how sessions get their key: none ("plain", what the client does
today), a key sent by the lobby ("lobby"), or a handshake. `random` is
`clientRandom`: a handshake key records the call whose accept it came from and
the random it was derived with, which differ when an accept is late.

The suite is the server's choice in each accept. `selectBattleCipher` takes everything
but ChaCha20-Poly1305 for the plaintext path, XChaCha20 included, which the hello
offers; `resolveCipher` then returns the plaintext cipher, so the check for a missing
cipher passes, and the session goes on in the clear whatever key it had. The
stages "encrypted" and "plaintext" keep what each call's accept installed.
Two accepts, one of them late, may disagree. `OneSuite` says they have not: without it a
frame in the clear may follow a sealed one, and `NeverClearAfterSealed` is stated
under it; `FramesInOrder` excepts only the sealed frame that the plain flush has overtaken.

What is abstract: a ticket travels with its input; ciphers are values; the
ends of a session and the order of frames on it are `MessageChannel`'s, so a
session accepts while it is not closed and the result is the last frame the server
sends on it. Snapshots and the prediction are in `Prediction`; `resyncTick`, which
nothing calls, metrics and listeners are left out. The caller of
`performHandshake` awaits it.

### LobbyTransport

`WsLobbyTransport` over the browser's WebSockets, with the server at the other end of
each as far as it answers.

| Action | Code |
|---|---|
| `CallOf(f)` | `call`: refused when disposed, sent when the socket is open, else through `reconnect` and its await |
| `Dispose` | `close`: `disposed`, the pending calls, the socket |
| `SetToken`, `ClearToken` | `setSessionToken`: with a token the auth frame is sent if the socket is open, without one the connection is abandoned |
| `Open(s)`, `SocketError(s)`, `SocketClose(s)` | the three handlers `bindSocket` attaches, on whatever socket they fire |
| `Answer(s)` | `handleMessage` with the answer of the connection's oldest frame (external: in order, an error when not authenticated) |
| `RoomPush(s)` | a `RoomState` nobody asked for, which `handleMessage` gives to a call of that type |
| `Replaced(s)` | `session_replaced`: the server has bound the account to another connection |

The calls that awaited a reconnect go on in the step that settles it (`FailWaiters`,
and `Post` in `Open`), as their microtasks run before the next event. `resolver`
names the socket whose attempt `openResolver` settles; `waiting` lists, by socket,
the calls that await it, so a lost resolver shows as a call that waits on another
socket. Calls that take the HTTP fallback are left out. The status "mistaken" is a
call answered by a frame that was not its own, which matching by type allows.

### LobbySession

The state of the one program is the record `app`: the lobby client's session, token,
store, room and ticket, the flow's screen, match and `sessionLost`, the calls in
flight, and the battle client as far as `connect` and the result decide it.

| Action | Code |
|---|---|
| `Submit`, `LoginBack`, `ToggleMode`, `SignOut`, `ShowLogin`, `EnterRoom`, `LeaveRoom`, `Ready`, `LeaveResult` | the player's operations of `LobbyFlow` up to their first await, from the screens whose scenes offer them |
| `Answer(i)` | call `i` is answered, accepted or refused: what `LobbyClient` and then `LobbyFlow` do after their awaits (`Continue`) up to the next call |
| `SignedIn(i)` | the lobby issues a session: `sessionFromPayload`, the token, the store, then `bootstrap` |
| `LossReported` | a call or the socket reports the session lost: `handleSessionLost` |
| `RoomPush`, `MatchStart`, `MatchSettled` | pushes over the WebSocket |
| `BattleResult`, `WinnerSnapshot` | the battle server's result frame, and the snapshot that names the winner |
| `OpeningTicket(m)` | the ticket `enterBattlePerformance` fetches |
| `LobbyEnds(t)` | the lobby ends a session (external) |
| `Restart` | a reload: `Fresh`, the constructors and the restored session |

`Notified` is `onFlowChange` with `ensureBattleConnected`, so an action that calls the
flow's `notify` is the whole of what follows from it. A handler is an operator from
the state before to the state after, which keeps compositions such as "sign
out, then notify" in the order of the code. `InFlight` and `LobbyFree` are the
guards the code has (the scenes' busy locks, which some shortcuts pass by). Methods
nothing calls, `abandonMatch` and `resumeMatch`, are left out.

`Deployments` has both transports: on WebSockets, pushes reach the program and calls
in flight are dropped when the socket is abandoned; over HTTP there is no push and
a late answer still arrives.

### Prediction

| Action | Code |
|---|---|
| `Step` | the battle scene's turn: `sendInput` with its lead, then the local tick |
| `ReceiveSnapshot` | `applySnapshot` up to its replay: the first snapshot seeds the prediction, a later one gives it the HP (`adoptAuthoritativeProgress`) |
| `CatchUp` | one turn of `catchUpPrediction`'s loop; the last one it may take reseeds (`adoptAuthoritativeSnapshot`) |
| `SnapshotApplied` | the rest of `applySnapshot`: the state of the snapshot is adopted after seeding and on a hard snap, without its tick |
| `ServerInput`, `ServerTick` | the same simulation on the server: `submitInput` and `step`, and the snapshot that is sent (external) |

Client and server are two values of `Simulation` and share the operators `Submit`,
`Tick`, `Accepts`. The property `HashAvailable` is about the keys of `hashHistory`,
not about hashes being equal: equality is what golden tests pin. With the danmaku
mechanics on, as in production, `stateHashComparable` is false and no hash is compared;
`rememberHash` runs all the same, and the keys are what a comparison will rest
on once that guard is lifted (`boss_race.ts`, its TODO).

The roster is assumed to have two players. For a match that names none
`ensureBattleConnected` connects with the local player alone; until the first snapshot
brings the other player and the state, the simulation is then "waiting", its ticks only
count, and their inputs stay buffered, so `PendingAhead` would not hold. `BossRace` has
these ticks (`WaitingTick`).

### BossRace

| Action | Code |
|---|---|
| `AddPlayer`, `SetPlayerConnected`, `SeedPlayerHand`, `SubmitInput` | the methods of the same names, with `applyOpeningHandTicket` and `initHand` |
| `WaitingTick` | `step` before enough players have joined |
| `Tick(touched)` | `step`: the input of the tick, energy, bomb, shot and cast of each player (`ApplyPlayer`), then the hits (`Judge`) and the end of the race. `touched` is the set of ships a bullet touches |

`Tick` is built from operators named for the parts of the code: `Arrived` and
`Held` (the input of the tick, or the last one), `Castable` and `ApplyCast`
(`validateCast`, `applyCast`), `ExecuteCast`, `Bomb`, `Shoot`, `Draw`
(`drawServerCard`), `Judge` (`judgePlayerContacts`). A deck names cards, blanks and
`Unknown` ids: a blank is passed over, an id of no card is drawn and held, and cannot
be cast, so it keeps its place in the hand. `hitAt` and `played` are
histories. `seedPlayerHand` and `setPlayerConnected(false)` are called by tests and
meant for a server, so `BossRace` drives the simulation through its methods and
not through the client.

## 4. The runs

| Run | Instance | Shows |
|---|---|---|
| `kcp_window` (`MCKcp`, `KcpWindow.cfg`) | 3 fragments, send window 2, receive window 3, duplicates, both ends may close | `TypeOK`, `NothingForgotten`, `WindowsRespected`, `NeverStuck`, `OrderedDelivery`, and `ImplementsChannel`: the sessions refine `MessageChannel` |
| `kcp_live` (`MCKcp`, `KcpLive.cfg`) | 3 payloads of one fragment, receive window 2 | `EventualDelivery` under `FairSpec` |
| `match_events` (`MCMatchEvents`, `MatchEvents.cfg`) | 2 matches, 3 rows and 1, page of 1, 2 pages a poll, 2 calls in flight | the safety properties of `MatchEventsProperties`, `StaleCallsIgnored` on every step, `CatchUp`, and `ImplementsFeed`: the poller refines `EventFeed`, which implies `DeliveredInOrder` |
| `battle_client` (`MCBattleClient`, `BattleClient.cfg`) | 2 matches, 2 sessions, 3 inputs, 2 handshakes, all three deployments | the safety properties of `BattleClientProperties`, `OwnKey` and `ResultOfOwnMatch` on every step |
| `lobby_transport` (`MCLobbyTransport`, `LobbyTransport.cfg`) | 2 calls, 3 sockets, 1 token, 1 push | `NoWaiterForgotten`, `SentCallsAnswerable`, `OwnAnswerOnQuietConnection`, `DisposedIsFinal`, `EveryWaiterWakes` under `FairSpec` |
| `prediction` (`MCPrediction`, `Prediction.cfg`) | 4 ticks, window, history and catch-up of 2, leads 0 and 1, 3 inputs, 2 in flight each way | `HistoryInOrder`, `PendingAhead`, and on every step `NeverRewinds`, `HashAvailable`, `HpNearServer` |
| `lobby_session` (`MCLobbySession`, `LobbySession.cfg`) | both deployments, 2 sign-ins, 2 matches, 2 calls in flight | `TokenFollowsSession`, `MatchNeedsSession`, `BattleIsJoined`, `SessionsNeverReturn` |
| `boss_race` (`MCBossRace`, `BossRace.cfg`) | 1 player, 7 ticks, a guard card and a strike card, 3 lives, 2 bombs, danmaku mechanics on and off | `LedgerBalanced`, `HitsSpaced` |
| `battle_client_offline` (`MCBattleClient`, `BattleClientOffline.cfg`) | 1 plain session, 2 inputs | `OfflineDropsInputs` violated |
| `match_events_charges` (`MCMatchEvents`, `MatchEventsCharges.cfg`) | 2 matches of one row | `ChargesPerMatch` violated |
| `match_events_restart` (`MCMatchEvents`, `MatchEventsRestart.cfg`) | 2 matches of 2 rows and 1 | `RestartsCleanly` violated |
| `lobby_session_signin` (`MCLobbySession`, `LobbySessionSignIn.cfg`) | WebSockets, 2 sign-ins, 1 match, 1 call in flight | `SignInLands` violated |

The passing runs of safety properties check `TypeOK` as well.

**Bounds.** `Calls`, `NetCap`, `MaxQueue`, `MaxCalls` bound what is in flight, and a step
that would exceed them waits; `LastMatch`, `MaxSeq`, `MaxSent`, `Closers`,
`MaxSockets`, `MaxTokens`, `MaxPushes`, `MaxLogins`, `MaxTick` bound the length of a
behaviour. Deadlock is not checked in most runs: with its bounds used up a
behaviour ends, and a session that is closed does nothing. `lobby_session` does
check it, since a restart is always possible.

*`kcp_window`*: as many fragments as the receive window and more than the send
window, so the window closes, stale advertisements matter, and a message of two
fragments can straddle it. The client sends and the server answers; the directions
share nothing but `una` and `wnd`, which every segment of the one-way run already
carries. One datagram is in flight towards the client, so acknowledgements that
overtake each other are left to the theorems, which cover any number and both
directions at once. `MCKcp` also assumes `SerialOrder` for a small number space, which
TLC evaluates: `itimediff` on every pair of numbers up to three times round. *`kcp_live`*: the receive window is smaller than what is sent, so
it closes and a probe is needed to reopen it. *`match_events`*: a match has more
rows than a poll drains, so draining, ticks, drops and gaps all happen, and two
calls let a resync overlap an earlier entry or the calls of two matches overlap.
*`battle_client`*: two sessions let the client reconnect while an input of the first
is being sealed, three inputs keep one behind it and one for the new session, two
handshakes let an accept arrive after its timeout and during the next call, and select
another suite than the first (3,313,408 states).
*`lobby_transport`* (149,403 states): three sockets are the first, one abandoned while
it connects, and the one that replaces it, with two calls racing; a token change or
a push may come at any point. *`prediction`* (677,640 states): a history of two
ticks is exceeded, a client may fall behind by more than it catches up in one go,
and three inputs fill the window while two snapshots are under way.
*`lobby_session`* (1,924,905 states): two sessions and two matches, so what the first
leaves behind meets the second; two calls in flight let an answer of the old
session overlap one of the new. *`boss_race`* (225,556 states): seven ticks are three
recoveries of two ticks with the hits between them, and enough energy for both
cards; two of the decks have more cards than the hand, so they rotate, with a blank and an
id of no card in them. One player is enough
for these properties, as players share only the state of the race and its end; the
theorems cover any number.

**Fairness.** For `Kcp`: the interval timer keeps firing and callbacks finish (weak
fairness of `Tick` and `Deliver`); a timer that ran out runs out again, and a
segment that is emitted again and again is not lost every time and reaches the
peer (`Emit` and `Hear`, per kind and number). `Emit` is strong for `ACK` and
`WINS`, which are emitted only in reply to something, so not continuously
enabled; `PUSH` and `WASK` stay pending until they are answered. For
`MatchEvents`: the interval fires (weak), requests of `enterBattlePerformance`
end (weak: the lobby client's calls catch every error), and a fetch that is made
again and again succeeds at last (strong, as each failure withdraws it). Nothing
is assumed of the server's appends, drops and pushes. For `LobbyTransport`: the
browser reports how each attempt to connect ended and the close of each socket that
failed or was closed (weak); nothing is assumed of the lobby. The other
specifications have safety properties only.

## 5. What is proved

Assumptions: the two endpoints differ, windows are positive,
`WndRcv <= RcvWnd` (the clamp in `wndsize`), the number space is not empty, a catalogue
is finite, and neither a blank nor an unknown id is a card of it, `GuardAssumption` (see `BossRace_proofs`),
and the types of the bounds. One theorem, `NumbersCompareHolds`, has a hypothesis of its
own. No theorem depends on an instance: windows, payload sets, page sizes, drain limits,
catalogues, numbers of matches, players, sockets and calls are arbitrary.

### Kcp_proofs

`TypeCorrect`, `OrderedDeliveryHolds`, `NothingForgottenHolds`,
`WindowsRespectedHolds`, `NoReassemblyDeadlockHolds`, `NeverStuckHolds`,
`ChannelImplemented`, `SerialOrder`, `NumbersCompareHolds`.

The idea of the invariant is to name, for each direction, the stream that was sent.
`sent[q]` is what was numbered (indices below `sndNxt`) followed by `sndQueue`;
`taken[p]` followed by `rcvQueue[p]` is its prefix of length `rcvNxt[p]`; each
fragment in a buffer or in flight is the one its sequence number names in
`sent`. These facts alone give order. None is inductive without facts about
acknowledgements: every `una` in flight, and every number acknowledged, in
flight or listed in `acklist`, is of a segment the peer has. That is a
statement about receipt that only grows, which is why a stale or repeated
acknowledgement is harmless, and it is what `NothingForgotten` needs. The windows
follow from `sndUna` being the least unacknowledged number, and
`NoReassemblyDeadlock` from the structure of `sent`: every fragment announces, with a
number below `WndRcv`, how far ahead its payload ends, so the end of the
message at the head of a queue of `RcvWnd` is in the queue. For the refinement,
`Send` maps to `Submit`, `Deliver` to `Handover` with the first 0 in the receive queue
as the payload's end, and the other actions leave `sent` and `taken` alone.

`NeverStuck` is the safety side of delivery, and needs two more facts (`Ready`): an
endpoint with nothing left to acknowledge has `sndUna = sndNxt`, so its window is open
as far as it ever is; and the segment the receive queue waits for is never left in
`rcvBuf` while there is room for it, which is where moving on only once per datagram
would break. With them each standstill one can think of is
excluded: a full queue holds a whole message; a queue with room waits either for a
segment the peer has, by `NothingForgotten`, kept for sending again, or for one not yet
numbered, and then the peer has an acknowledgement to wait for, room in its window, or a
window of zero to probe. The one exception is a message longer than what `drain` asks
for (`TooLong`), see section 6.

`SerialOrder` is about any width: two numbers whose difference is less than half the
number space, in either direction, compare as the naturals they stand for. It follows
from the uniqueness of quotient and remainder, which is proved along the way
(`Division`). `NumbersCompareHolds` then bounds every difference the code takes: what an
endpoint knows of the other is at most two windows behind it, a recent datagram at most
`Half` less a window. Its hypothesis `SndWnd + RcvWnd <= Half` is 2^31 against the
session's windows of 128 segments each by default.

### MatchEvents_proofs

`TypeCorrect`, `DeliveredInOrderHolds`, `NoSilentLossHolds`,
`ResyncCountsExactlyHolds`, `EndedMatchStaysEndedHolds`, `StaleCallsIgnoredHolds`,
`FeedImplemented`.

The invariant relates the fetch in flight to the run it will answer into. A fetch of
the same run asks from the cursor; a fetch of an earlier run may ask for
anything, but then it is the first page the new run receives, and everything later
is asked for from the cursor that page left. Hence the rows of each match in
`delivered` are bounded by the cursor whenever that match is the polled one, which
gives the order. `NoSilentLoss` holds of runs that started with no fetch in
flight, and the proof shows why not of others: a stale page moves the cursor of
the new run (finding 3). `EndedMatchStaysEnded` is inductive together with the fact
that a battle on screen is not over: once `performance` is `None`, no call in
flight passes its check, so none can bring the match back.

The refinement of `EventFeed` rests on the same alternative. `ReceivePage` is `Page` when
the fetch is the run's own and `LatePage` when it is not, in which case the invariant
says that the run has no rows yet; after either, the drain loop asks on behalf of the
current run, so nothing is owed any more. `Start` is `Begin`, `Stop` is `End`,
`ReceiveNothing` is `PageLost` when a page was owed, and every other action stutters.

### BattleClient_proofs

`TypeCorrect`, `FramesInOrderHolds`, `NothingDroppedHolds`,
`NeverClearAfterSealedHolds`, `OwnKeyHolds`, `ResultOfOwnMatchHolds`.

`OrderInv` says where the numbers are: the queue ascends, everything on the current
session's wire comes before everything in the queue, and the input being sealed
comes after what its session has taken and, if that session is still current, no later
than what is queued. The last clause is what a reconnect could break and does not:
a new session has an empty wire, and the old one only ever gets the input
that was being sealed.

An accept that turns to plaintext does break a part of it: the plain flush then sends
the input that is being sealed, and newer ones, before the sealed frame. So the
invariant knows two kinds of order (`FramesAscend`): the full one, which it keeps under
`OneSuite`, and the one in which a sealed frame may come behind frames in the clear,
which it always keeps. The full one needs two more facts. In `Settled`: while the
client runs in the clear and the suites agree, nothing is being sealed for its session, so
the plain flush cannot overtake it. In `Suites`: a key made by a handshake is in use
only if some call's accept selected encryption, hence an accept that selects plaintext
while an input is being sealed ends the agreement. `OneSuite` once false stays
false, since no call's accept is handled twice.

`ClientInv` adds, for the deployments without a handshake,
that the input being sealed is the head of the queue whatever the session, hence
the shift after the await removes the input that was sent; that the key is the
one of the current session's match; and that only the current session of a running
client still has its result to come, since a client leaves "running" only by a
result or by `close`.

### LobbyTransport_proofs

`TypeCorrect`, `WaitersKept`, `CallsAnswerable`, `DisposedSilent`,
`AnswersFindTheirCalls`.

Sockets that were given up keep their handlers, so the invariant says what each can
still do. If there is a resolver, it belongs to the current socket, and that socket
has still to report (`AttemptCurrent`); hence a late event of another socket finds no
resolver of its own to settle and none to overwrite, and calls wait only where
the resolver is. A call without an answer is pending on a socket that has not closed, since the
close of any socket answers all of them. After `close` the current socket is closed or
closing (`DisposedSocket`), so nothing can be sent on it, and `call` refuses before
it could build another.

`AnswersFindTheirCalls` needs an invariant of its own (`Quiet`). While the first
connection lasts and the server sends nothing unasked, `pending` and the frames the
server has still to answer are the same sequence, the auth requests included, so the
oldest frame is the oldest pending call and also the first of its type; and with no
attempt to reconnect nothing can be sent before the connection opens. Calls may come in
any number and errors at any time.

### LobbySession_proofs

`TypeCorrect`, `TokenFollows`, `MatchNeeds`, `BattleJoined`, `SessionsEnd`.

`TokenFollowsSession` is inductive as it stands: each handler sets session, token
and store together. `MatchNeedsSession` needs that a match is only started where the
token is, which the former gives. `BattleIsJoined` rests on one lemma about
`Notified`, that whatever the state before it, a battle screen with a match is
joined, being joined or kept out after it, and on what the other handlers leave
alone. No handler in `Continue` ever writes an older session: a late answer reads
the session that is there.

### Prediction_proofs

`TypeCorrect`, `HistoryOrdered`, `NoneLeftBehind`, `TickForward`, `HpFollowsServer`,
`HashComparable`.

One invariant, `SimOK`, holds of both simulations: the hash keys ascend, end no later
than the tick and are at most `History`, and every buffered input is ahead of
the tick and within the window. `Submit`, `Tick` and `Adopt` each preserve it, which
is a lemma each; `PendingAhead` is where a reseed must drop the inputs it passes.

`HpFollowsServer`: what a replay can count twice is what is buffered, and between steps
nothing is buffered further ahead than the lead (`WithinLead`). Each replayed tick takes
the one input buffered for it, if any, so after n replayed ticks at most the smaller of n
and the lead have been taken off the HP the snapshot gave (`NearHp`). A reseed or a
hard snap takes the snapshot's HP again.

`HashComparable` relates the two simulations through the queue of snapshots. Snapshots
are applied in the order of their ticks (`SnapsInOrder`), and the client retains every
tick from that of the earliest snapshot still to be handled on, as long as it is fewer
than `History` ticks old (`Retained`). A tick is added in order, and only the first key
is evicted, with the history full: its keys are increasing naturals, so the first is
at least `History` ticks behind the last (`IncreasingSpan`) and was out of reach anyway.

### BossRace_proofs

`TypeCorrect`, `HitsSpacedHolds`, `LedgerHolds`.

A hit sets `until` to the tick plus the time to recover, and the next needs a tick
beyond `until`, but bombs and guard cards write `until` too, and may lower it.
`Recovers` is the relation each part of a tick preserves: it leaves `until` alone or
sets it at least `HitTicks` ahead of the tick. With it, "`until` is at
least the tick of the last hit plus `HitTicks`" is inductive. The assumption is
`GuardAssumption`: every card that makes a ship invulnerable does so for at least
`HitTicks`. The catalogue satisfies it with 180 and 120 ticks against 120; a shorter
card would break it.

`LedgerHolds` follows one player's cards and energy through the pieces of a tick: a cast
takes a card out of the middle of the hand and books it in `played`; a draw puts the
card under the cursor into the hand and moves the cursor, over a blank without a card,
and not at all with a full hand. Both sides of the ledger change by the same card
(`InHandRemove`, `InHandAppend`, `DrawnNext`). For the energy, the sum of what was
played grows by the cost of the card cast (`SpentMore`), and a cast whose cost exceeds
the energy by the slack the code allows books that slack; the cap on energy only
lowers the left side.

### Induction

Two proofs count: `LedgerHolds` sums over the cards and `HashComparable` over a sequence
of ticks. Induction theorems that take a predicate as a parameter are not available to
the provers here, so `Induction` has lemmas that do it with sets: `NatBySuccessors` says that a set
with 0 and all successors is `Nat`, which follows from `<` being well founded, and
`SubsetsByElements` that a collection of subsets that holds the empty one and is closed
under adding an element holds every finite one. From the second come `TotalType`,
`TotalZero` and `TotalAdd` (a fold with `+` over a function is a natural, is zero on the
zero function, and grows by what one value grows), from the first `IncreasingSpan`.

### Only model-checked

`EventualDelivery`, `CatchUp` and `EveryWaiterWakes`: liveness under fairness is not
within the prover's reach. Of the first, `NeverStuckHolds` proves the part that is a safety
property, and so does `WaitersKept` of the third. The violations in section 6 are
counterexamples of TLC. Every other property that a run checks is a theorem.

Conversely, three theorems are about properties no run lists. `DeliveredInOrder` is a
consequence of `ImplementsFeed`, which `match_events` checks, and a full queue that
broke `NoReassemblyDeadlock` would break `NeverStuck` in `kcp_window`. `NumbersCompare`
holds for a number space far larger than an instance has; `MCKcp` checks the arithmetic
it rests on.

## 6. Findings

Each run checks the sentence of the code's own comments that is contradicted;
`PROJECT.json` quotes them with their lines.

1. **Gift charges migrate into the next match** (`match_events_charges`). A match
   that ends by `match_result` or by the result frame leaves through `onExit` only,
   and the next `onPerformanceEnter` starts the poller without a reset.
2. **Offline inputs pile up** (`battle_client_offline`). A channel that closes makes
   `KcpSession.send` answer false for good; the plain flush takes that for
   backpressure and keeps every input, where the comment asks that a broken channel
   degrade to dropped datagrams.
3. **A restart is not clean** (`match_events_restart`). A fetch made before `start`
   answers into the new run and sets its cursor, so the rows before that cursor are
   never fetched by it. `NoSilentLoss`, proved, says that this is the only way a run
   skips rows without telling.
4. **A sign-in after a lost session stays on the login screen**
   (`lobby_session_signin`). `handleSessionLost` sets `sessionLost`, and neither
   `submit` nor `signInWithAccount` clears it; the sign-in succeeds, and after
   `bootstrap` the flow takes the old flag for a loss of the new session. Flipping
   the form to "register" and back, or a reload, clears it.

### Observations

Behaviour the models show that no run states as a finding, because nothing in the
code says otherwise or because a property above names it as its exception.

*Transport and events.* `Kcp.send` accepts up to 127 fragments, about 170 kB, while
`drain` asks `recv` for 65536 bytes, so a larger payload stays at the head of the
queue for good (`RecvLimit` in the model). A gap is told again after each resync, which
starts at cursor 0, behind the server's oldest row. A ticket that arrives after the
battle screen was left passes both checks and starts the poller; the next match finds
it running and keeps it.

*Battle client.* With a handshake, which nothing performs yet, `NothingDropped` and
`ResultOfOwnMatch` do not hold: after a reconnect the plain flush may send the input
that is being sealed for the old session, so the shift that follows removes another;
and a sealed result being opened across `close` and `connect` ends the next match.
The two order properties have an exception for accepts that disagree, which the code
does not rule out. A first call times out and a second sends its hello; the
late first accept selects ChaCha20-Poly1305, and the sealed flush starts on an input;
the second accept selects another suite. `completeHandshake` then flushes in the clear:
that input and all behind it go out, the sealed copy of the first follows on the same
session, and the shift after it drops an input queued in between, if there is one.
Had a sealed frame gone before, the session would carry frames in the clear after
it. Without `OneSuite` TLC finds both.
In every deployment `connect` keeps the queue, so inputs a dead channel left behind go
out on the next match's session.

*Prediction.* A prediction that has finished locally stays so until a hard snap,
whatever the snapshots say, and has no later hashes. With a lead, the HP of a
snapshot is adopted and a cast replayed after it counts twice until the next
snapshot; `HpNearServer` bounds how far. An adopted hand keeps the local cooldowns and cursor (the model's
`casts` shows only that hands differ).

*Lobby transport.* A call made while the first socket still connects builds a second
one, and when both authenticate the client supersedes its own connection. After a
reconnect a call may throw, if the socket that opened is no longer the current one.
With a push of its type, or after a reconnect, a call may be answered by another
call's frame; `OwnAnswerOnQuietConnection` says where it may not.

*Lobby session.* `leaveRoom` shows the lobby whatever the answer, a lost session
included, and late answers to a join or refresh move off the login screen. A 401 for
a wrong password, while a restored session exists, signs that session out. Over HTTP,
a bootstrap that answers after a sign-out makes a session without a token (`Ghost`),
which the next start rejects. `ensureBattleConnected` reuses the ticket of the
previous match, and `connect` on a client that is still running opens nothing, so
the next match waits for the end of the last. Result pushes are not compared with
the current match.

*Race.* A bomb, or a shorter guard card, shortens the window a longer guard card gave;
a held bomb button bombs again on every tick without a packet; a dead player still
casts, and may win; with all players dead nothing ends the race; ticks before the
match leave the buckets of their inputs behind.

## 7. What is not modelled

Left for later: the matchmaking, deck and record operations of the lobby client and
their screens, `bullet_delta`, and the Godot client, which has models of its own. Steam's catalogue and workshop rules are server-side
and sequential in the client.

Left out for good: byte formats and ciphers (`battle_codec`, `battle_aead`, `dem`),
which are data conversions the unit tests compare with golden files; the arithmetic
of bullets and ships, for which determinism against recorded hashes is the right
test; settings, shortcuts, layout, drawing and text; the thin platform bindings;
vendored engine code, generators and assets. These are most of the repository's
lines: the engine alone is half of them. Both servers are outside the repository and
appear only as the external steps named above.
