# libsamp in TLA+

Knogle/libsamp is a replacement for the multiplayer client library of GTA San
Andreas (SA-MP 0.3.7-R5).  This directory models the client's own logic, the
code of `src/reimpl`: what the game-server messages, RakNet's threads, the
player and the game's frame loop can do to its state, in any order.  The
modules are checked with TLC on small instances, and most of their safety
properties are proved with TLAPS for every value of the constants.  Line numbers
are those of `src/reimpl/src/runtime_bridge.c` unless another file is named;
"adapter" is `src/reimpl/src/net/raknet_client_adapter.cpp`.

## The system

One process, four actors.

1. **RakNet's threads** (external) hold the connection and queue packets and
   RPCs.
2. **The adapter** owns the RakNet client and one large structure,
   `g_rpc_probe`.  RPC handlers run inside `Receive()` and only record: they
   set flags, number events, fill rings and latch values.  After every packet
   a *service routine* turns pending flags into outgoing RPCs.
3. **The bridge** runs once per frame on the game's thread
   (`graphics_loop_hook`, 32488): decide whether to connect, pump the adapter,
   take a snapshot of the probe, apply what lies above its watermarks, answer
   the last packet of the pump, then apply the player's state to the game.
   A monitor thread (32528) runs part of the same frame before the hook is in
   place.
4. **The player**, through keys, menus, dialogs and chat.

Two events cut across all of them.  A *game-mode restart* (RPC 40, "GMX") is
seen first by the adapter, which erases the probe in receive order, and later
in the same frame by the bridge, which resets itself to the state before the
first connection while keeping the transport.  A *lost or closed connection*
erases the probe inside the pump, the bridge after it, and both again at the
next attempt.  Sequence numbers start again at 1 each time.

| Component | State | Operations | What makes it correct | Module |
|---|---|---|---|---|
| RPC probe: class selection and spawn | flags of `g_rpc_probe` | RPCs 40, 61, 128, 129, 139; service routine; interface calls | no flag blocks for ever; spawn never races class | ClassSelection |
| Event rings and snapshot | rings, sequence numbers, watermarks | RPC handlers, snapshot, refresh | once, in order, never from an old session | EventChannel, Feed, Ring |
| Gang zones | table and ring (adapter), table and count (bridge) | RPCs 85, 108, 120, 121; replay, resynchronise, reset | the zones drawn are the server's | GangZones |
| Network session lifecycle | `netgame_state`, timers, terminal latch, log-on mark | frame of `launch_prepare_network_compat` | no half-open session, dead link retried | NetGame |
| Pre-connect front end | `preconnect_ready`, delay, menu gate | front end, gate | gates new transports only | NetGame (partly) |
| Session bridge | everything above | session reset, restart, client control | both halves start again together | all modules of a session |
| Player state and spawn finalisation | `mp_session_*` marks, GTA's player | second stage of the frame | each RPC applied once, the newest prevails | PlayerBridge |
| Objects and materials | lifecycles and revisions (adapter), pool and texture sets (bridge) | RPCs 44-48, 84; replay, resynchronise, create, prepare, release | pool equals the server's; no texture of a dead object | Objects |
| Vehicles | ring (adapter), pool, cars, markers | RPCs of streaming and of scripts; replay, pending creation | pool equals the server's, GTA's cars equal the pool | Vehicles |
| Actors | table and ring, wishes, peds with revisions | RPCs 171-178; replay, resynchronise, GTA's thread | wishes are the server's, settled peds the wishes | Actors |
| Remote players | two rings, pool, peds, markers | RPCs 32, 163, colour, skin; syncs; bootstrap | pool equals the server's players | RemotePlayers |
| Icons, labels, text draws, bubbles, attachments, removed buildings | a ring each, slots, GTA's handles | RPCs; replay, retries, players' moves | what is shown is what was said last; no handle without a slot | Decor |
| Dialogs, menus, chat, scoreboard, editing | latches (adapter), what is open, owners of mouse and controls (bridge) | RPCs, keys, window messages, frame | both halves agree; input is given back | Input |
| DLL attach, threads, rollback | boot phase, what has been acquired, stop event | attach, monitor, game thread, detach | what was taken is given back once | Launch |
| Hooks in GTA | one record a hook: places, saved bytes, stub | install, verify, uninstall, free | GTA never runs into freed code; other mods stay | Hooks |
| Sync senders, local death, weapons | timers, ammunition, marks | bridge's frame, hooks | rates kept, nothing reported twice | LocalSync |
| Custom assets | index, list of models, images, directory passes | ask, drain, registration | a model that is there can be used | Assets |
| SAA archive and file system | import table, open files | start, stop, GTA's file calls | handles are unique; the table is whole | ArchiveFs |
| Sockets and TCP bootstrap manager | resolver, sockets, manager | connect, listen, stop | nothing forgotten on a failing path | Sockets |
| Overlay: Direct3D hooks, fonts, pictures of models | pictures, camera, fonts, device lost | EndScene, Reset, GTA's frame, RPCs | a reset finds nothing; what is drawn is current | Overlay |
| Death window and codec, class overlay, HUD, memory patches, stub and bridge of the adapter, ASI probe | | | | not modelled, see below |

The hard behaviours, at their lines, are in `PROJECT.json` under `hazards`.

## Modules and how they correspond to the code

**ClassSelection** is the handshake before and after a spawn.  `probe` is
`g_rpc_probe`, field by field (the comment above `Probe` gives the names);
`classReqs` and `spawnReqs` are requests under way as a bag, for the adapter
sends them `RELIABLE` and RakNet orders only `RELIABLE_ORDERED`; `s2c` is the
server's ordered stream.  `Service` is the whole service routine (5903-6019):
its four parts are four operators composed in the order of the code.  There is
one action per RPC, one per interface call, and an external server that
answers each request once.  `orphaned` is a history variable: the client
forgot a request that was still under way.

**EventChannel** takes one channel of each shape the code has: chat (ring),
money (ring with a fallback to the latest amount) and world bounds (latched value
whose watermark is a function static; PlayerBridge has the latched values whose
watermark the session reset clears).
The refresh is one action because nothing of the adapter runs between its
parts.  **Feed** is the abstract specification: what is pending is handed over
once, in order, at most as much as the ring holds, and a new session forgets
the old one.  `ChatFeed` and `MoneyFeed` instantiate it with a refinement
mapping in which an unseen restart or loss already counts as done.

**GangZones** has both tables and the ring.  A frame wipes, copies or replays
(`Known`, `Copies`, `Resync`, `Replay`); the walk of 11978-11999 stops at the first gap and
leaves the mark there, which is what `Copies` asks for beforehand.

**NetGame** is a frame of `launch_prepare_network_compat`, split where
RakNet's threads can get in between: start, each packet of the drain, the
sample of `IsConnected` (`DrainEnds`), the refresh, the answer.  Timers are
ages.  `server` says whether the server has accepted the client and whether
it still owes an InitGame.

**PlayerBridge** is a frame in its two stages: the refresh copies and pays
money (`Refresh`), the session bridge (30845-31688) applies the rest
(`WithPed`), waits (`Waits`, `WithoutPed`), returns to class selection
(`ReturnsToClass`) or has given up (`GivesUp`); `pc = "done"` is the moment
after it has run through.  `bridge` holds the copies (`raknet_*_seq`) and the
marks (`mp_session_*`), `money`, `guns` and `where` are GTA's player,
`srvMoney` and `srvGuns` what the server thinks he has.  `spawns` and
`posAtSpawn` are history variables.

The modules of the pools share the shape of the code.  `net` is the adapter's
probe with its ring and, where the code has one, its table; `own` is the
bridge's pool together with GTA's objects, cars, peds and markers; `pc` says
whether the frame is before, within or after the refresh.  **Ring** is the ring they
all use: `Push` is a handler's entry, `Unseen` and `Gap` the replay's view of it, `Replayed`
its loop, a recursive function over the entries, and `MarkAfter` where the loop leaves the mark.
**Objects** resynchronises from the lifecycles when the ring has a gap (7262-7274)
and creates within a budget; materials have generations and revisions, are
prepared by number within a budget (28227), and the renderer's map from GTA's
object to its texture set is part of the state.  **Vehicles** has no table: a
replay skips what is lost, and its properties are stated while nothing is.
**Actors** has two threads: wishes are written by the bridge and read by
`Process` on GTA's thread, which may refuse any command.  **RemotePlayers** has
the rings of roster, adds with removals, and syncs, replayed one after the other; a sync
may come at any time, also of a player who has been removed.  **Decor** has
seven uses of one shape: a slot shows the number of the RPC it comes from.  A player's
move (a ring of its own, applied first) takes his attachments away, and what was said
of them in the same pump outlives it: `Moves` says so without an exception.

**Input** has the probe's latches for dialog, menu, SelectTextDraw and editing,
and in `own` what is open and who holds the mouse, the keys and GTA's controls.
The frame is pump, refresh, drawing; window messages come between frames.
**Launch** is the DLL's life: the loader's steps, the monitor thread and GTA's
thread, each with its own `pc`; what has been acquired is a set, so that a
rollback is a set difference.  **Hooks** is one hook at a time against another
mod that takes its place and against GTA's thread; the process hook writes two places, a
word and a jump through it.  **LocalSync** is one frame
of the session bridge after the spawn, with a clock that wraps.  **ArchiveFs**
takes the six entries one at a time, while threads open and close files, and gives them
back one at a time, when a page may refuse: that entry is not tried again.
**Assets** has three models, two archives and GTA's tables.  **Sockets** has
threads that resolve and connect, and the manager.  **Overlay** has one action
for each hook that draws or resets; the loop over the text draws is a recursive
function over the slots, `env.alive` counts what has been allocated, and Reset
is two steps, the library's and Windows'.

**Pools** and **Client** put these modules into one specification each.  Their
variable `part` is chosen at the start and never changes: a behaviour is a
behaviour of one part.  The parts own disjoint fields of the probe and of the
bridge, which meet only in the restart, the reconnection and the session reset, and
those are actions of every part.  Each property of a composite is that of
its part under the same name, or the conjunction that its comment names.

A module `M_proofs` extends `M` and holds theorems and lemmas only; `Decor_proofs`, with the
parts Decor and GangZones of Pools, extends `Pools_proofs`, and `Screen_proofs`, with the parts
Input and Overlay of Client and what rests on the counts of all of them, `Client_proofs`.  The inductive invariant it rests on, `IInv` and its named
parts, stands at the end of the module of the component, where TLC can read it too.

Names with an underscore (`LogOn_OnAccept`) are mutations: the definition
after them, changed as a plausible bug would change it.  `PROJECT.json`
pairs each with the property that catches it.

## Runs

| Run | Bounds | What it shows |
|---|---|---|
| class_selection | 2 classes, 1 server message, 1 copy of a request, with fairness | type, `WaitingIsAnswered`, `SpawnSentIsAnswered`, `SpawnIsOfClass` (no race, and the right spawn info), `ClassReplyArrives`, `SpawnIsAnswered` |
| event_channel | rings of 2 and 1, 4 events, 2 bounds, 3 sessions | `ChatIsFeed`, `MoneyIsFeed` (refinement of Feed) |
| world_bounds | 1 of each, 3 sessions | finding: `BoundsFollowServer` fails |
| net_game | queue of 2, budget of 2 | `JoinedLasts` (pumped and logged on), `NewsOfTheEnd`, `DeadLinkIsRetried` |
| net_game_wedge | same | finding: `LossReconnects` fails |
| player_bridge | 4 frames, 2 spawn infos, 1 position, 2 gifts or resets a session, 2 sessions | type, `SpawnTakesEffect`, `SpawnsOnce`, `PosHonored`, `BelongingsHonored` (weapons and money) |
| player_money | 2 gifts or resets, 1 session | finding: `MoneyArrives` fails |
| player_limit | 2 frames, 2 gifts or resets, 1 session | finding: `GiftsArrive` fails |
| actors_of_mode | 2 actors, ring of 2, 3 events, 1 restart | finding: `ActorsOfMode` fails |
| seats_arrive | 2 vehicles, ring of 2, 3 events, 1 session | finding: `SeatsArrive` fails |
| pools | 2 numbers, 2 handles or addresses, rings of 2, budget of 1, 3 events (decorations 5), 1 restart | type, `ObjectsAgree` (and materials), `VehiclesAgree`, `ActorsAgree`, `PlayersAgree`, `ZonesMirrored` (and their count), `DecorAgrees` |
| client | 2 threads, 2 release frames, 3 events, 2 shots, 4 ticks of 6, 2 records and 3 handles, 3 archives, 1 pass more, 2 addresses, 4 sockets, 4 askings, 2 text draws, 2 new devices or worlds, 1 fault, 1 restart or unload | type and, by part, `DialogsAgree`, `InputGivenBack`, `NothingLeaks`, `MadeOnce`, `HookIsSafe`, `PatchesBehave`, `ReportedOnce`, `RateHonored`, `SpectatesAsTold`, `FilesKeepPlace`, `ModelsUsable` (and the gate of text draws), `PicturesBehave` |

Why the bounds are enough.  Two classes make a spawn of the wrong class
possible and stepping wrap at both ends; one server message at a time meets requests of
both kinds under way, which is what the races are made of; that more of them change
nothing is what the proofs show, which hold for every bound.  Four events against rings
of two and one overflow both, by one and by more; three sessions let a
watermark of the first meet equal and smaller numbers of the next, with a
restart and a loss in either order.  Three events and a ring of two give a gap
at the head of the ring, in the middle of a replay and at its end.  A budget
of two lets a drain end full or empty; a queue of two holds an event before
the one that ends the connection.  Two spawn infos let a second arrive before,
with or after the spawn; two gifts or resets a session give every order of a
gift and a reset, in one pump or two, over a frame that waits; two sessions
let each mark meet equal numbers of the next session; four frames let three
of them wait, or all be used up before the last gift.

In `pools` two numbers and two handles let a slot be destroyed and made again
on the handle of another; a ring of two overflows with the third event of a pump, and
until then gives every order of two events within a replay; a budget of one makes the second creation wait a frame while RPCs about it
arrive; three events are a creation, something about it and its end, or the same
over a restart; five in Decor let a player come, get an object and go with two
more in between.  In `client` three handles for two records make the handles
wrap over a file that is still open; two threads and four sockets let one
connection fail at every step while another waits for the resolver; two text draws
and two changes let the picture of one be drawn, or made, while that of the
other is of an older device or world; a clock
that stops before it wraps can give only real distances between packets; one
fault may strike at each step, and one restart or unload brings back whatever
the first life left behind.

Fairness.  In ClassSelection the pump runs the handlers and the service
routine every frame (weak fairness), and a connected server answers what it
has received (strong, because only the bound on `s2c` disables it again and
again).  In NetGame the game calls the frame for ever (weak fairness of the
pump's steps); time passes, the ped appears, the delay passes and frames start
(strong, because a frame in progress disables them); the player leaves the menu
in the end; and RakNet does not fail to start every single attempt.  In PlayerBridge
frames follow one another (weak fairness) and the ped is there again and again
(strong).  Nothing
is asked of the network, of the server in NetGame, or of the player's keys.

The composites state safety only; no fairness is asked for them.  Deadlock is
checked in every run but `pools`, `client` and the two runs that take one of their
parts alone (`actors_of_mode`, `seats_arrive`), whose bounds on events
stop them (CHECK_DEADLOCK FALSE).

## Findings

* **World bounds survive a session** (`world_bounds`).  The watermark and the
  active flag are function statics of `client_control_compat_update_from_snapshot`
  (24919) that only a restart touches, and of the two only the flag.  After a
  loss and a reconnection the old bounds are enforced; the first bounds of a
  new session, numbered 1 again, are taken for the old ones.
* **A restart handled after the link died can wedge the client**
  (`net_game_wedge`).  If the replacement InitGame was drained with RPC 40 and
  RakNet has dropped the peer before packet 33 is drained, the session reset
  clears `net_mgr_connected` and `preconnect_ready`, and the refresh then
  stores the InitGame flag.  The front end returns early on that flag (28989)
  and the frame returns before the pump (31978): neither runs again.
  `DeadLinkIsRetried` shows this is the only such state.
* **Money given after a reset is lost** (`player_money`).  The refresh pays at
  once (25328-25367); the reset, applied later in the frame or in a later one
  that has a ped (31167-31178), takes away everything the player has.
* **The session bridge gives up** (`player_limit`).  After 3600 frames of a
  session (30923) it returns before applying anything: weapons, health,
  positions, spawns, resets of money, and with them the on-foot sync.  Only a
  restart or a new connection starts the count again.
* **A ped outlives its mode** (`actors_of_mode`).  The revisions an actor's ped has applied
  survive a restart (14383), while the numbering starts again, so a ped of the old mode can
  pass for the actor of the same number of the new one.
* **A player put into a new car stays on foot** (`seats_arrive`).  The RPC is consumed if
  the vehicle is not active yet (7931): other RPCs about a vehicle that waits create
  it first, this one does not, and nothing tries again.

Observations that are not findings.  A SetSpawnInfo (RPC 68) during play
spawns the player again at once, for it takes the spawn back (25768); a gift
of weapons that is followed by a reset in the same pump stays; GTA's money
survives the end of a session.  A dialog that arrives in the pump that sends the
answer to the one before is lost: the service routine clears the open-dialog flag whichever
dialog raised it (adapter 5933-5935), so it is never shown, and the server waits for its
answer; `DialogsAgree` says so (`net.passed`) and that this is the only such case.  Clearing the bridge's zones on a restart is
redundant: a full copy always follows.  In ClassSelection, a denied class
(outcome 0) leaves the keys blocked until a restart or a reconnection, and
without `~orphaned` `SpawnIsOfClass` does not
hold: a reply to a forgotten request is taken for the answer to the next.
The session reset clears the terminal latch, but is not reachable once it is
set, because the frame returns first.  A restart's `net_mgr_connected = 0` on a
live transport is repaired later in the same frame by the sample taken after
the drain.  The menu gate (31976-31978) looks at `net_mgr_connected`, which only the
pump sets, so a transport that came up during CONNECTING is not pumped while
GTA's menu is open, and is dropped for a new attempt after 12 s.

More that the models of the pools and of the client show, kept in the
properties as exceptions that name them:

* *Pools.*  Vehicles, players and decorations have no table to copy after a gap.
  `ActorsAgree` speaks of peds made in this session.  Remote players' events are applied
  before their syncs, so a sync received before the removal, or after it (syncs are
  unordered), makes a ghost out of a player who has left (12123-12127 has other players
  in mind); `PlayersAgree` says where the ghost stands, and that it stands only while the
  player is on the scoreboard.  A colour set with a player's add is overwritten by it.  An
  attachment that is set in the pump of the player's leave waits in the slot for the next
  player with the number, which `DecorAgrees` takes for what the slot is to show.  A refused
  map icon is not tried again, and the buildings removed for one server stay away for the
  next until GTA streams them anew.  Labels, bubbles and text draws are not
  reset with a lost connection (32395-32404).
* *Input.*  Without a dialog the close runs in every frame (5014-5020).  If GTA's menu
  opens while Tab is held, the count of release frames is zeroed after the owner has gone
  (22028), and the controls stay patched out until chat or scoreboard are used again.
* *Launch and hooks.*  `SAMPDLL_MONITOR_DRIVE_INIT=0` makes the monitor prepare the
  network without the guard: two managers are possible, of which one is forgotten, and no
  more than two.  A callback under way at uninstall is not waited for, and a stub is freed
  although another mod may still go on to it; the two calls of the zones free theirs when
  one of them could not be written.  The other hooks keep their code until the unload.
  The select-device, process and graphics hooks restore without
  looking and overwrite what has come after them.
* *Local sync.*  With the damage hook a melee hit is reported by hook and by
  poller; with the damage hook but not the impact hook every wound is.  The
  poller takes any loss of ammunition for a shot.  The marks of spectating and of
  forced class selection are statics like that of the world bounds: a new session's
  toggle with the number of the last one's is lost, the exception of `SpectatesAsTold`.
* *Archive, assets, sockets.*  An entry of the import table whose page refuses while it
  is given back stays ours, and after the unload GTA calls code that is gone
  (`win32_archive_fs.c` 352-354, 373-380).  A call between its check and the lock while stop
  runs uses freed data (`win32_archive_fs.c` 728-745).  After the first
  directory pass and the one reload, models registered by a third drain have no
  place on the disk until the next load; a timed model whose metadata could not
  be written takes another place of GTA's store at every retry.  WSAStartup is
  called once, WSACleanup twice.
* *Overlay.*  A picture whose drawing spoilt Direct3D's state is left alone only
  until the next EndScene, which releases it and with it the delay (16687).  The
  next Reset after an install whose second entry and whose rollback Windows both
  refuses (18519), or after a removal it refuses (18551), finds no original and
  fails; the model has no two faults in a row and does not remove the hooks.

## Proofs

Each theorem has the form `Spec => []Inv` or, for the refinement, `Spec => ChatIsFeed`,
and holds for every number of classes, ids, threads, addresses, slots and hooks, every
length of the rings and every bound.  The argument is always the same: `Init => IInv`,
`IInv /\ [Next]_vars => IInv'` with one lemma per action, `IInv => Inv`.  TLC has
checked each `IInv` on the instance of its run before it was proved.

| Module | Theorems | Properties of runs |
|---|---|---|
| ClassSelection_proofs | `TypeCorrect`, `WaitingAnswered`, `SpawnSentAnswered`, `ExchangeInvariant`, `SpawnsAsShown` | `TypeOK`, `WaitingIsAnswered`, `SpawnSentIsAnswered`, `SpawnIsOfClass` |
| NetGame_proofs | `SessionInvariant`, `TypeCorrect`, `JoinedGoesOn`, `EndIsAnnounced` | `TypeOK`, `JoinedLasts`, `NewsOfTheEnd` |
| EventChannel_proofs | `ChannelInvariant`, `TypeCorrect`, `ChatImplementsFeed`, `MoneyImplementsFeed` | `TypeOK`, `ChatIsFeed`, `MoneyIsFeed` |
| PlayerBridge_proofs | `BridgeInvariant`, `TypeCorrect`, `SpawnHappens`, `SpawnOnlyOnce`, `PositionHonored`, `GiftsHonored` | `TypeOK`, `SpawnTakesEffect`, `SpawnsOnce`, `PosHonored`, `BelongingsHonored` |
| Client_proofs | `SyncInvariant`, `RateIsHonored`, `NothingTwice`, `SpectatesRight`; `HookInvariant`, `HooksAreSafe`; `TableInvariant`, `PatchesAreKept`; `SocketsInvariant`, `LaunchInvariant`, `ManagerFreed`; `AssetsInvariant`, `ModelsAreUsable`; `FilesInvariant`, `FilesStayInPlace` | `RateHonored`, `ReportedOnce`, `SpectatesAsTold`, `HookIsSafe`, `PatchesBehave`, `ModelsUsable`, `FilesKeepPlace` |
| Screen_proofs | `InputInvariant`, `HalvesAgree`, `InputReturned`; `OverlayInvariant`, `PicturesAreRight`; `CountsInvariant`, `TypesAreRight`, `OneIsMade`, `NothingIsLost` | `DialogsAgree`, `InputGivenBack`, `PicturesBehave`, `TypeOK`, `MadeOnce`, `NothingLeaks` |
| Pools_proofs | `ActorsInvariant`, `ActorsAreAgreed`; `VehiclesInvariant`, `VehiclesAreAgreed`; `PlayersInvariant`, `PlayersAreAgreed` | `ActorsAgree`, `VehiclesAgree`, `PlayersAgree` |
| Decor_proofs | `DecorInvariant`, `DecorIsAgreed`; `ZonesInvariant`, `ZonesAreMirrored` | `DecorAgrees`, `ZonesMirrored` |

Why each invariant is more than its properties.

* **ClassSelection.**  `TypeOK` with the two answered-properties is inductive: the only
  steps that use up a request or a reply either produce the next link of the chain (the
  server's answer) or lower the flag (the reply's handler).  That a spawn is of the class shown needs that there is one exchange at
  a time: `Flags` relates the probe's flags to each other, `Exchange` relates them to the
  requests and replies under way (at most one of each kind, and every accepted
  reply names the class the server has noted).  Both are stated without an orphan, for
  with one they are false.
* **NetGame.**  `EndIsLast` (how a connection ended is the last thing in its
  queue), `EndIsNews` (a transport the client counts on is up or its end is queued),
  `OpensAfresh` (nothing of the old connection is left when the next opens), `MarkHolds`
  (the log-on mark stands for a logged-on peer), `JoinedIsConnected` (what the sample of the
  pump sees).
* **EventChannel.**  Under the refinement mapping of `ChatFeed` and `MoneyFeed` the initial
  state maps to Feed's, and every step to a step of Feed or a stutter.  The refresh is the
  step that matters: that the ring's entries above the mark, in order, are what is pending
  (the money ring with its fallback too) needs `RingsHold` (the newest
  events are in the ring, each at its place), `MarksFollow` (a mark of this session
  is not above its numbers) and `LinkEnds` (nothing is left of a closed session).
* **PlayerBridge.**  `MarksFollow` and `CopiesFollow` order mark, copy and original of every
  number; `CopiesAgree` is what the second stage may rely on; `SpawnStands` says what
  a spawn that counts as made still guarantees; `SpawnsUsed` which spawn infos of this session
  have been used, which is what a return to class selection endangers; `GunsFollow` and
  `MoneyFollows` that what lies below a mark is with the player or a reset is on its way.
* **LocalSync.**  `ClockRuns` relates the clock to the ticks; with it the 32-bit distances
  of the code are the real ones (`TimerFollows`) although the clock wraps.
  `ShotsCounted` counts every shot once, as reported or as still to be seen by the poller;
  `DeathMarked` and `ToggleFollowed` tie the marks to death and session.
* **Hooks.**  A weapon entry (`EntryHolds`) is safe because it is published only in a pinned DLL;
  every other hook (`OtherHolds`) because at each stage of install and unload it is known
  where our jump is and what bytes are saved.  `Standing` is what holds until the unload of
  the hooks that are neither entries nor zones, whatever other mods take and whichever write
  fails: they keep their code, and the process hook its word.  `LooksFirst` is why other mods'
  patches stay.  A hook has two places at most.
* **ArchiveFs.**  For the import table, `TableCounted` (what is ours has been counted, or could not be given back) and
  `NobodyIn` (no call before the six are in place).  For the open files, a second invariant
  (`FilesInv`) on top of it: `HandlesApart` (a handle is of one record and of one thread, a
  call under way is about a file its thread holds), `LockHeld` and `NothingOpen`.  That a file
  just opened gets a handle no other has is a lemma about the search (`FreshIs`): there are
  more handles than records (`OneIsFree`, by cardinality), and the search goes round all of
  them.  `FoundFits` is the walk along the archive's chain.
* **Sockets.**  `OneLooks` (one thread looks for the resolver, none resolves before it has
  published) and `OneHolder` (every open socket has one holder), with `SocketsReturn`,
  the part of `NothingLeaks` about sockets.
* **Launch.**  `HeldByPhase` says what may be held in each phase of attach, rollback and stop,
  so that the rollback's set is enough; `ThreadsOut` who can still run our code then;
  `GuardHeld` is mutual exclusion between the guard and the manager.  That no manager is
  left over (`ManagerFreed`) is a second invariant, which rests on these.
* **Assets.**  `Placed` says which model info is on the heap and which is GTA's, `Listed` that what
  is in the list would still be added to it and that the list is empty exactly when all
  of it has been seen to, `Streamed` that after a first directory pass both archives have
  been tried.  The drain keeps `ModelsUsable` because what a registration adds it
  notes (lemma `DrainListIs`, an induction over the list), and what is noted forces a pass.
* **Input.**  `HeldRight` is kept by every operator on the screen, `Owned` restored by the
  drawing; `DialogOpen` follows a dialog from its latch over the screen to the answer
  sent; `MenuFollows` and `EditFollows` are the marks of menu and editing; `SessionKnown`
  says in which of the frame's points the bridge has noticed a restart.
* **Overlay.**  `Whole` is what every operator that draws or releases keeps: what has been
  allocated is, kind by kind, what the tables still hold (`Counts`), and every picture is
  of a text draw that is shown and of the camera there is (`PicturesFit`); `Cleared` holds while
  the device is lost.  The loop over the text draws is a recursive function.  That it
  keeps `Whole` for any number of them is an induction over the set of the steps after which it
  does (lemma `Steps`, from the well-foundedness of < on the naturals: no operator is passed
  to a theorem).  `NothingIsLost` puts together the parts of launch, sockets and overlay.
* **Types of Client.**  They follow from the eight inductive invariants and from a second one,
  `CountsInv`.  Its hard part is the count of managers without the monitor's guard: with
  `SAMPDLL_MONITOR_DRIVE_INIT=0` two threads may both see none, but no third sees none before
  one of them has made it (`MadeByTwo`), which the invariant for the guarded case does not say.
* **Actors.**  That the wishes are the server's after an update needs to be known before it:
  `CatchesUp` says that what the ring still holds above the mark, replayed on the wishes there
  are, brings them to the adapter's table, unless the ring shows a gap; each RPC has to
  preserve it, also when its entry pushes one out of the ring.  A gap is met by the copy of the
  table.  The peds hang on the revisions: `WishFits`, `PedFits` and `PedFollows` say that equal
  revisions mean equal actors, and that only of one session.  The replay is a loop over the
  ring; that what a loop of a reader computes grows by one step with each push (lemma
  `ValuePushed`), for any length, is an induction over the set of the steps after which it does.
* **Vehicles.**  There is no table, so `CatchesUp` is stated for the server's vehicles and only
  while the ring has lost nothing.  `Sane` holds whatever it has lost: each active slot
  has a car of its own with its place and health, each car and marker its slot, and the counters
  are the cardinalities.  Every operator on the pool changes one slot, its car and its marker,
  and one lemma (`SaneAfter`) says when that keeps `Sane`; that `ApplyPending` finds a free
  handle is a count (`OneIsFree`, `HandleIsFree`).  `Told` abstracts what an event makes of its
  slot, `Heeds` what the RPC behind it makes of the vehicle: the replay and the handler need
  only agree on these.
* **Remote players.**  Three rings, which the bridge replays one after another (roster, adds
  and removals, syncs), while the server's order runs across them: that is what the proof is about.
  A player's slot is abstracted to a view (`Seen`), and `Heard` is what an event makes of it;
  `ViewAfter` is the view after all three rings, and `CatchesUp` says that it is right
  (`Right`) for every player, as long as no ring has lost anything.  Every RPC has to keep this
  although its entry is replayed before entries that came earlier: a colour commutes with
  all but an add (which is why the server's own account of the colour stops at an add that waits),
  and a sync with all but a removal received after it (which is why such a player is `late`, not gone).
  `Sane` holds whatever the rings have lost: each ped and each marker has its slot, the
  counters are cardinalities.  The budgeted flush is one step, in which the ids reached are those
  with fewer than the budget able before them, each given a handle of its own (`Given`).
* **GangZones.**  `RingEnds` places the entries of the ring by their numbers; `OfSession`
  says that a copy of this session would, by replaying the ring, come to the server's table
  and to as many zones as there are in it, unless the ring has lost what comes next.
* **Decor.**  `Sane` and its parts tie slots, handles and counts, kind by kind; `CatchesUp` is
  as for vehicles.  A player's move wipes his attachments outside of the ring: `Survives` says
  that a reader who knows nothing would find in the ring exactly what the server has said since
  the mark, which is what is left of the slot after the move.

Assumptions.  `NumClassesAssumption` (a server without classes has no class selection),
positive lengths of rings (`RingAssumption`), of the queue and
the budget (`MaxQueueAssumption`, `BudgetAssumption`), a positive limit of applications
(`MaxAppliesAssumption`), natural bounds (`BoundsAssumption`,
`EventBoundsAssumption`, `PlayerBoundsAssumption`), `PoolsAssumption` (natural bounds, finitely
many ids and handles, 0 among neither, and no fewer handles than ids, for GTA refusing a
vehicle is left out) and `ClientAssumption`.  The one that
deserves a word is in the last: `MaxTicks < Wrap`, the clock does not come round a second time.  For
`GetTickCount` that is 49.7 days; a packet later than that can come too early, in the code
as in the model.

Model-checked only, and why:

* Liveness (`ClassReplyArrives`, `SpawnIsAnswered`, `DeadLinkIsRetried`) and the seven
  findings: fairness and ENABLED are beyond TLAPS, and a violation is a trace.
* `ObjectsAgree` and the `TypeOK` of `pools`: not yet proved.

No module declares a RECURSIVE operator.

## What the models leave out

The contents of messages and malformed payloads (a handler that cannot decode
changes nothing, with one exception listed as a hazard); in ClassSelection
SetSpawnInfo (RPC 68), the score ping and the 250 ms key repeat; the wrap of 32-bit sequence numbers;
the frame the front end's delay loses each time the GTA menu closes; in PlayerBridge
health, armour, camera, animation, sound and the weapons of a spawn, which
repeat the shapes it has; what each of the other modules names in its header;
drawing, logging, memory patches.  Of RakNet it is
assumed that `Disconnect` empties its queue, that the last packet of a
connection says how it ended, and that the server's RPCs arrive in order.

## Not modelled

The death window, the class overlay and the head-up display
(drawing; the ring of the death window is EventChannel's); the death message
codec (a decoder of one payload without state); the stub and the bridge of the
adapter (every call of the stub fails); the memory patches (writes to fixed
addresses, which have no state but their being made: Launch has them as
permanent resources); host and port parsing (strings); the ciphers and hashes
of the archive; and the ASI probe, a tracing tool of its own.

## Plan

1. Proofs: the properties of `pools` that are left.
2. The validation of latched payloads (adapter 3866), and the front end's count
   of applications (29004).
