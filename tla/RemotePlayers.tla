---------------------------- MODULE RemotePlayers ----------------------------
(***************************************************************************)
(* The other players.  The adapter has a ring each for what the scoreboard  *)
(* learns, for players entering and leaving the client's world, and for     *)
(* their movement (OnFoot syncs); the bridge replays them one ring after     *)
(* the other, so that two RPCs of different rings may swap.  A sync of a     *)
(* listed player whom the bridge does not know makes him appear.             *)
(*                                                                         *)
(* A player enters "shown", "hidden", with a skin GTA "refuses", or at a     *)
(* place that is "off" the map.  A place and a colour are the number of the  *)
(* RPC that sets them.  Left out: the local player's id, NPCs, names, health, *)
(* weapons, actions; a ped that GTA does not create is tried again.          *)
(***************************************************************************)
EXTENDS FiniteSets, Ring

CONSTANTS
    Ids,          \* player ids: 1 .. n here, 0 .. 1003 in the code
    Handles,      \* GTA's script handles of peds, from 1
    RingSize,     \* the three rings (64, 128 and 128 in the code)
    Budget,       \* SAMP_REMOTE_PLAYER_COMPAT_CREATE_BUDGET (4 in the code)
    MaxEvents,    \* bound: RPCs and syncs, over the sessions
    MaxRestarts   \* bound: game-mode restarts

VARIABLES net, own, scene, pc   \* adapter; bridge and GTA; scene; "pump" since the last RPC

vars == <<net, own, scene, pc>>

Rings == {"world", "sync", "roster"}

Absent == [kind |-> "unseen", seq |-> 0, at |-> 0, synced |-> FALSE, color |-> 0]
NoSlot ==
    [state |-> "none", seq |-> 0, boot |-> FALSE, visible |-> FALSE, skin |-> FALSE, at |-> 0, color |-> 0,
     marker |-> FALSE, ped |-> 0]

EmptyRing == [seq |-> 0, ring |-> <<>>]

\* Before a session's players move, all of Ids have joined.
ResetPlayers == [rings |-> [r \in Rings |-> EmptyRing], server |-> [i \in Ids |-> Absent]]

FreshPool ==
    [marks |-> [r \in Rings |-> 0], listed |-> Ids, slots |-> [i \in Ids |-> NoSlot],
     active |-> 0, pending |-> 0, peds |-> [x \in Handles |-> 0], blips |-> [i \in Ids |-> 0]]

Init ==
    /\ net = [probe |-> ResetPlayers, restart |-> 0, rpcs |-> 0]
    /\ own = [pool |-> FreshPool, handled |-> 0, gap |-> FALSE]
    /\ scene = "none" /\ pc = "pump"

-----------------------------------------------------------------------------
(* The adapter's handlers. *)

Receives == net.rpcs < MaxEvents

Now == net.rpcs + 1
Server(id) == net.probe.server[id]

\* queue_remote_player_event, queue_remote_onfoot_sync or queue_player_pool_event;
\* server is what the RPC makes of the server's player.
Queue(ring, action, id, look, server) ==
    LET p == net.probe
        r == p.rings[ring]
        e == [seq |-> r.seq + 1, action |-> action, id |-> id, look |-> look, rpc |-> Now]
    IN  /\ net' = [net EXCEPT !.rpcs = Now,
                     !.probe = [server |-> [p.server EXCEPT ![id] = server],
                                rings |-> [p.rings EXCEPT ![ring] =
                                             [seq |-> r.seq + 1, ring |-> Push(r.ring, RingSize, e)]]]]
        /\ pc' = "pump" /\ UNCHANGED <<own, scene>>

OnWorldPlayerAdd ==
    /\ Receives
    /\ \E id \in Ids, look \in {"shown", "hidden", "refused", "off"} :
         Queue("world", "add", id, look,
               [kind |-> look, seq |-> net.probe.rings["world"].seq + 1, at |-> Now, synced |-> FALSE, color |-> Now])

\* An entry of the ring about this player still waits for the bridge.
Waits(ring, id) ==
    LET mark == IF net.restart = own.handled THEN own.pool.marks[ring] ELSE 0
        entries == net.probe.rings[ring].ring
    IN  \E k \in 1 .. Len(entries) : entries[k].id = id /\ entries[k].seq > mark

\* "late": the bridge reads a sync of his after the removal.
OnWorldPlayerRemove ==
    Receives /\ \E id \in Ids :
        Queue("world", "remove", id, "none",
              [Absent EXCEPT !.kind = IF Waits("sync", id) THEN "late" ELSE "gone"])

\* Syncs are unordered and no handler asks who is in the world: one may come after the removal.
OnSync ==
    Receives /\ \E id \in Ids :
        Queue("sync", "sync", id, "none",
              [Server(id) EXCEPT !.at = Now, !.synced = TRUE, !.kind = IF @ = "gone" THEN "late" ELSE @])

OnQuit == Receives /\ \E id \in Ids : Queue("roster", "quit", id, "none", Server(id))

\* Colour 0: the player entered in the same pump, so that either may win.
OnColor ==
    Receives /\ \E id \in Ids :
        Queue("roster", "color", id, "none", [Server(id) EXCEPT !.color = IF Waits("world", id) THEN 0 ELSE Now])

OnRestart ==
    /\ net.restart < MaxRestarts
    /\ net' = [net EXCEPT !.probe = ResetPlayers, !.restart = @ + 1]
    /\ pc' = "pump" /\ UNCHANGED <<own, scene>>

-----------------------------------------------------------------------------
(* The bridge: operators from the pool to the pool. *)

Restarted == net.restart # own.handled

\* A restart takes the scene away before the players are updated.
SceneAfter == IF Restarted THEN "none" ELSE scene

\* destroy_slot: the marker and the ped go with the slot.
DestroySlot_KeepsPed(o, id) ==
    LET s == o.slots[id]
    IN  [o EXCEPT !.slots[id] = NoSlot,
                  !.blips[id] = IF s.marker THEN @ - 1 ELSE @,
                  !.active = IF s.state = "active" THEN @ - 1 ELSE @,
                  !.pending = IF s.state = "pending" THEN @ - 1 ELSE @]

DestroySlot(o, id) ==
    LET s == o.slots[id]
    IN  [o EXCEPT !.slots[id] = NoSlot,
                  !.blips[id] = IF s.marker THEN @ - 1 ELSE @,
                  !.peds = IF s.state = "active" THEN [@ EXCEPT ![s.ped] = 0] ELSE @,
                  !.active = IF s.state = "active" THEN @ - 1 ELSE @,
                  !.pending = IF s.state = "pending" THEN @ - 1 ELSE @]

Tried(o, id) == o.slots[id].state = "pending" /\ SceneAfter = "spawned"
Creatable(s) == s.visible /\ s.skin

\* What waits becomes a ped, is given up (hidden), or goes on waiting.
CreateSlot(o, id) ==
    LET s == o.slots[id]
        x == CHOOSE h \in Handles : o.peds[h] = 0
    IN  IF Tried(o, id) /\ Creatable(s)
        THEN [o EXCEPT !.peds[x] = id, !.active = @ + 1, !.pending = @ - 1,
                       !.slots[id] = [s EXCEPT !.state = "active", !.ped = x]]
        ELSE IF Tried(o, id) /\ ~s.visible
        THEN [o EXCEPT !.pending = @ - 1, !.slots[id] = [s EXCEPT !.state = "none"]]
        ELSE o

\* A slot that waits for its ped.
Waiting(e, boot, visible, skin, color) ==
    [state |-> "pending", seq |-> e.seq, boot |-> boot, visible |-> visible, skin |-> skin,
     at |-> e.rpc, color |-> color, marker |-> FALSE, ped |-> 0]

QueueAdd(o, e) ==
    IF e.look = "off" THEN o
    ELSE [DestroySlot(o, e.id) EXCEPT !.pending = @ + 1,
             !.slots[e.id] = Waiting(e, FALSE, e.look # "hidden", e.look # "refused", e.rpc)]

\* A listed player without a slot: visible, with the fallback skin.
Bootstrap(o, e) ==
    IF e.id \notin o.listed THEN o
    ELSE CreateSlot([o EXCEPT !.pending = @ + 1, !.slots[e.id] = Waiting(e, TRUE, TRUE, TRUE, 0)], e.id)

ApplySync(o, e) ==
    IF o.slots[e.id].state = "none" THEN Bootstrap(o, e)
    ELSE CreateSlot([o EXCEPT !.slots[e.id].at = e.rpc], e.id)

\* An empty slot keeps a colour until it is filled.
ApplyColor(o, e) == IF o.slots[e.id].state = "none" THEN o ELSE [o EXCEPT !.slots[e.id].color = e.rpc]

\* remote_player_compat_apply_event and apply_sync, and scoreboard_compat_update_from_snapshot.
ApplyEvent(o, e) ==
    CASE e.action = "add" -> QueueAdd(o, e)
      [] e.action = "remove" -> DestroySlot(o, e.id)
      [] e.action = "sync" -> ApplySync(o, e)
      [] e.action = "quit" -> [o EXCEPT !.listed = @ \ {e.id}]
      [] e.action = "color" -> ApplyColor(o, e)

\* New handles, one for each of go.
Given(o, go) ==
    {h \in [go -> {x \in Handles : o.peds[x] = 0}] : \A i, j \in go : h[i] = h[j] => i = j}

\* A ped for each of go; those of hidden are given up.
Flushed(o, go, hidden, h) ==
    [o EXCEPT !.active = @ + Cardinality(go), !.pending = @ - Cardinality(go) - Cardinality(hidden),
              !.peds = [x \in Handles |-> IF \E i \in go : h[i] = x THEN CHOOSE i \in go : h[i] = x ELSE @[x]],
              !.slots = [i \in Ids |-> CASE i \in go -> [@[i] EXCEPT !.state = "active", !.ped = h[i]]
                                         [] i \in hidden -> [@[i] EXCEPT !.state = "none"]
                                         [] OTHER -> @[i]]]

\* In the order of the ids, until Budget peds are made.
Flush(o) ==
    LET able == {i \in Ids : Tried(o, i) /\ Creatable(o.slots[i])}
        reached == {i \in Ids : Cardinality({j \in able : j < i}) < Budget}
        hidden == {i \in reached : Tried(o, i) /\ ~o.slots[i].visible}
    IN  {Flushed(o, able \cap reached, hidden, h) : h \in Given(o, able \cap reached)}

Replay(o, ring) ==
    [Replayed(net.probe.rings[ring].ring, o.marks[ring], o, ApplyEvent)
        EXCEPT !.marks[ring] = MarkAfter(net.probe.rings[ring].ring, o.marks[ring])]

Update(o) == Flush(Replay(Replay(Replay(o, "roster"), "world"), "sync"))

\* The radar marker of each ped there is.
UpdateMarkers(o, enabled) ==
    LET Shows(i) == enabled /\ i \in o.listed /\ o.slots[i].visible
        On(i) == o.slots[i].state = "active" /\ Shows(i) /\ ~o.slots[i].marker
        Off(i) == o.slots[i].state = "active" /\ ~Shows(i) /\ o.slots[i].marker
    IN  [o EXCEPT !.slots = [i \in Ids |-> [@[i] EXCEPT !.marker = (o.slots[i].marker \/ On(i)) /\ ~Off(i)]],
                  !.blips = [i \in Ids |-> IF On(i) THEN @[i] + 1 ELSE IF Off(i) THEN @[i] - 1 ELSE @[i]]]

\* Every slot is destroyed; the new session's joins fill the scoreboard again.
ResetPool(o) ==
    LET had == {i \in Ids : o.slots[i].state = "active"}
    IN  [FreshPool EXCEPT
            !.peds = [x \in Handles |-> IF \E i \in had : o.slots[i].ped = x THEN 0 ELSE o.peds[x]],
            !.blips = [i \in Ids |-> IF i \in had /\ o.slots[i].marker THEN o.blips[i] - 1 ELSE o.blips[i]]]

Pool == IF Restarted THEN ResetPool(own.pool) ELSE own.pool

Lost(marks) == \E r \in Rings : Gap(net.probe.rings[r].ring, marks[r])

Frame ==
    /\ \E ped, enabled \in BOOLEAN : \E o \in Update(Pool) :
         own' = [pool |-> IF ped THEN UpdateMarkers(o, enabled) ELSE o, handled |-> net.restart,
                 gap |-> Lost(Pool.marks) \/ (own.gap /\ ~Restarted)]
    /\ scene' = SceneAfter
    /\ pc' = "drawn" /\ UNCHANGED net

NextScene == scene # "spawned" /\ scene' = "spawned" /\ UNCHANGED <<net, own, pc>>

Next ==
    \/ OnWorldPlayerAdd \/ OnWorldPlayerRemove \/ OnSync \/ OnQuit \/ OnColor \/ OnRestart
    \/ Frame \/ NextScene

Spec == Init /\ [][Next]_vars

-----------------------------------------------------------------------------
TypeOK ==
    /\ pc \in {"pump", "drawn"} /\ scene \in {"none", "spawned"}
    /\ net.restart \in 0 .. MaxRestarts /\ own.handled \in 0 .. net.restart
    /\ \A r \in Rings : own.pool.marks[r] \in 0 .. MaxEvents
    /\ \A i \in Ids : own.pool.slots[i].state \in {"none", "pending", "active"} /\ own.pool.blips[i] \in {0, 1}

\* While the rings have lost nothing: after a frame every player the server shows
\* is in the pool as he last entered, where his last sync put him, and in the
\* colour the server gave him last, unless it came with him; one it has removed
\* is not, unless a sync of his is read after the removal: then, as long as he is
\* on the scoreboard, a ghost with the fallback skin stands where the last such
\* sync put it; and GTA has exactly the peds and the radar markers of the pool.
PlayersAgree ==
    pc = "drawn" /\ ~own.gap =>
        LET o == own.pool
            In(state) == {i \in Ids : o.slots[i].state = state}
        IN  /\ \A i \in Ids :
                 LET s == o.slots[i]  v == Server(i)
                 IN  /\ v.kind = "gone" => i \in In("none")
                     /\ v.kind = "late" /\ i \in o.listed => i \notin In("none") /\ s.boot
                     /\ v.kind = "late" /\ i \in o.listed /\ v.synced => s.at = v.at
                     /\ v.kind = "shown" => i \notin In("none") /\ ~s.boot /\ s.seq = v.seq
                     /\ v.kind = "shown" /\ v.synced => s.at = v.at
                     /\ v.kind = "shown" /\ v.color # 0 => s.color = v.color
                     /\ o.blips[i] = IF s.marker THEN 1 ELSE 0
            /\ \A x \in Handles :
                 IF o.peds[x] = 0 THEN \A i \in In("active") : o.slots[i].ped # x
                 ELSE o.peds[x] \in In("active") /\ o.slots[o.peds[x]].ped = x
            /\ o.active = Cardinality(In("active")) /\ o.pending = Cardinality(In("pending"))

-----------------------------------------------------------------------------
(* What the proofs rest on. *)

Looks == {"shown", "hidden", "refused", "off", "none"}
Actions(r) == CASE r = "world" -> {"add", "remove"} [] r = "sync" -> {"sync"} [] r = "roster" -> {"quit", "color"}
Entries == [seq : Nat, action : UNION {Actions(r) : r \in Rings}, id : Ids, look : Looks, rpc : Nat]
Events(r) == [seq : Nat, action : Actions(r), id : Ids, look : Looks, rpc : Nat]
Players == [kind : {"unseen", "shown", "hidden", "refused", "off", "gone", "late"},
            seq : Nat, at : Nat, synced : BOOLEAN, color : Nat]
Slots == [state : {"none", "pending", "active"}, seq : Nat, boot : BOOLEAN, visible : BOOLEAN, skin : BOOLEAN,
          at : Nat, color : Nat, marker : BOOLEAN, ped : Handles \cup {0}]
Blips == {0, 1}   \* radar markers of one slot
Pools == [marks : [Rings -> Nat], listed : SUBSET Ids, slots : [Ids -> Slots], active : Int, pending : Int,
          peds : [Handles -> Ids \cup {0}], blips : [Ids -> Blips]]

Fields ==
    /\ net \in [probe : [rings : [Rings -> [seq : Nat, ring : Seq(Entries)]], server : [Ids -> Players]],
                restart : Nat, rpcs : Nat]
    /\ \A r \in Rings : net.probe.rings[r].ring \in Seq(Events(r))
    /\ own \in [pool : Pools, handled : Nat, gap : BOOLEAN]
    /\ pc \in {"pump", "drawn"} /\ scene \in {"none", "spawned"}

\* Each ring ends with its newest event, and is behind it by its length.
RingEnds ==
    \A r \in Rings :
        LET p == net.probe.rings[r]
        IN  /\ Len(p.ring) = IF p.seq < RingSize THEN p.seq ELSE RingSize
            /\ \A k \in 1 .. Len(p.ring) : p.ring[k].seq = p.seq - Len(p.ring) + k

Counts ==
    /\ net.rpcs <= MaxEvents /\ own.handled <= net.restart /\ net.restart <= MaxRestarts
    /\ \A r \in Rings :
         /\ net.probe.rings[r].seq <= net.rpcs
         /\ own.pool.marks[r] <= MaxEvents
         /\ own.handled = net.restart => own.pool.marks[r] <= net.probe.rings[r].seq
         /\ pc = "drawn" => own.pool.marks[r] = net.probe.rings[r].seq
    /\ pc = "drawn" => own.handled = net.restart

\* A ped for each active slot, a marker where the slot says so.
SlotOk(o, i) ==
    LET s == o.slots[i]
    IN  /\ o.blips[i] = IF s.marker THEN 1 ELSE 0
        /\ s.state # "active" => ~s.marker
        /\ s.state = "active" => s.ped \in Handles /\ o.peds[s.ped] = i

PedOk(o, x) == o.peds[x] # 0 => o.slots[o.peds[x]].state = "active" /\ o.slots[o.peds[x]].ped = x

Number(slots, state) == Cardinality({i \in Ids : slots[i].state = state})

\* What holds of the pool whatever the rings have lost.
Sane(o) ==
    /\ \A i \in Ids : SlotOk(o, i)
    /\ \A x \in Handles : PedOk(o, x)
    /\ o.active = Number(o.slots, "active") /\ o.pending = Number(o.slots, "pending")

\* What the pool has of a player: not known what, when he is hidden; a "ghost" came by a sync.
Views == [kind : {"absent", "here", "ghost", "unknown"}, seq : Nat, at : Nat, color : Nat]

Seen(s) ==
    [kind |-> CASE s.state = "none" -> "absent" [] s.state # "none" /\ ~s.visible -> "unknown"
                [] OTHER -> IF s.boot THEN "ghost" ELSE "here",
     seq |-> s.seq, at |-> s.at, color |-> s.color]

\* What an event makes of it, as if everybody were on the scoreboard.
Heard(v, e) ==
    CASE e.action = "add" ->
           IF e.look = "off" THEN v
           ELSE [kind |-> IF e.look = "hidden" THEN "unknown" ELSE "here", seq |-> e.seq, at |-> e.rpc, color |-> e.rpc]
      [] e.action = "remove" -> [v EXCEPT !.kind = "absent"]
      [] e.action = "sync" -> [v EXCEPT !.at = e.rpc, !.kind = IF @ = "absent" THEN "ghost" ELSE @]
      [] e.action = "color" -> [v EXCEPT !.color = e.rpc]
      [] OTHER -> v

HeardOf(i, v, e) == IF e.id = i THEN Heard(v, e) ELSE v

Right(v, s, listed) ==
    /\ s.kind = "gone" => v.kind = "absent"
    /\ s.kind = "late" /\ listed => v.kind = "ghost" /\ (s.synced => v.at = s.at)
    /\ s.kind = "shown" => /\ v.kind = "here" /\ v.seq = s.seq
                           /\ s.synced => v.at = s.at
                           /\ s.color # 0 => v.color = s.color

\* What a replay ends with.
HeardAfter(p, r, marks, v, i) == Replayed(p.rings[r].ring, marks[r], v, LAMBDA u, e : HeardOf(i, u, e))

ViewAfter(p, marks, v, i) ==
    HeardAfter(p, "sync", marks, HeardAfter(p, "world", marks, HeardAfter(p, "roster", marks, v, i), i), i)

\* A replay would catch up, unless the rings have lost what it needs.
CatchesUp(p, k) ==
    (\A r \in Rings : ~Gap(p.rings[r].ring, k.marks[r])) =>
        \A i \in Ids : Right(ViewAfter(p, k.marks, Seen(k.slots[i]), i), p.server[i], i \in k.listed)

PlayersInv ==
    /\ Fields /\ RingEnds /\ Counts /\ Sane(own.pool)
    /\ (own.gap => Restarted) => CatchesUp(net.probe, Pool)
=============================================================================
