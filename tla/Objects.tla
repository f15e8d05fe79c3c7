------------------------------- MODULE Objects -------------------------------
(***************************************************************************)
(* The server's objects and their materials.  The adapter gives every       *)
(* creation a generation and every material a revision, keeps the newest    *)
(* creation and the newest materials of each object, and queues an event    *)
(* for each RPC in one ring.  Once per frame the bridge replays the events  *)
(* it has not seen, asks the adapter when the ring has lost some, creates   *)
(* a few of the objects that wait (when the scene allows it), attaches,     *)
(* moves, and looks for the textures of the materials; GTA's renderer looks *)
(* each object it draws up by address.                                      *)
(*                                                                         *)
(* An object's place is the number of the event that last set it; one       *)
(* material slot stands for the sixteen.  A model is "good", "bad" (refused *)
(* when the event is applied) or "lost" (refused when the object is about   *)
(* to be created).  Waiting for time or for streaming is a choice.  Left    *)
(* out: rotation (set like a place), material text, allocation failures and *)
(* the text budget, GTA refusing to create an object, the visual fallback.  *)
(* Names with an underscore are mutations, as in ClassSelection.            *)
(***************************************************************************)
EXTENDS FiniteSets, Ring
LOCAL INSTANCE SequencesExt

CONSTANTS
    Ids,          \* object ids: 1 .. n here, 0 .. 999 in the code
    Addresses,    \* addresses of GTA objects, from 1
    RingSize,     \* SAMP_RAKNET_OBJECT_EVENT_RING (1024 in the code)
    Cap,          \* object_compat_active_soft_cap
    Budget,       \* object_compat_create_budget, objects created in a frame
    MaxEvents,    \* bound: RPCs, over the sessions
    MaxRestarts   \* bound: game-mode restarts

VARIABLES net, own, scene, pc   \* adapter; bridge and GTA; scene; "pump" since the last RPC

vars == <<net, own, scene, pc>>

\* What a creation may say: its model, an attachment, materials.
Designs == [model : {"good"}, bond : BOOLEAN, painted : BOOLEAN]
             \cup [model : {"bad", "lost"}, bond : {FALSE}, painted : {TRUE}]
NoLife == [gen |-> 0]
NoMaterial == [gen |-> 0, rev |-> 0]
NoSlot == [state |-> "none", gen |-> 0, gta |-> 0]
NoSet == [gen |-> 0, rev |-> 0, ready |-> FALSE]
NoEntry == [id |-> 0, gen |-> 0]

ResetObjects == [seq |-> 0, gen |-> 0, rev |-> 0, ring |-> <<>>,
                 lives |-> [i \in Ids |-> NoLife], mats |-> [i \in Ids |-> NoMaterial]]

\* object_compat_reset_pool, after every object of the pool is destroyed.
FreshPool ==
    [mark |-> 0, active |-> 0, pending |-> 0, slots |-> [i \in Ids |-> NoSlot],
     sets |-> [i \in Ids |-> NoSet], map |-> [x \in Addresses |-> NoEntry],
     world |-> [x \in Addresses |-> 0], textures |-> 0]

Init ==
    /\ net = [probe |-> ResetObjects, restart |-> 0, rpcs |-> 0]
    /\ own = [pool |-> FreshPool, handled |-> 0]
    /\ scene = "none" /\ pc = "pump"

-----------------------------------------------------------------------------
(* The adapter's handlers. *)

Gen(id) == net.probe.lives[id].gen

Receives == net.rpcs < MaxEvents

\* queue_object_event: an event carries the object's generation.
Queue(p, action, id, more) ==
    [p EXCEPT !.seq = @ + 1,
              !.ring = Push(@, RingSize, more @@ [seq |-> p.seq + 1, action |-> action,
                                                  id |-> id, gen |-> p.lives[id].gen])]

Answer(p) ==
    net' = [net EXCEPT !.probe = p, !.rpcs = @ + 1] /\ pc' = "pump" /\ UNCHANGED <<own, scene>>

OnCreate ==
    /\ Receives
    /\ \E id \in Ids, d \in Designs :
         LET p == net.probe
             rev == IF d.painted THEN p.rev + 1 ELSE p.rev
             life == [gen |-> p.gen + 1, model |-> d.model, bond |-> d.bond, seq |-> p.seq + 1,
                      action |-> "create", id |-> id]
         IN  Answer(Queue([p EXCEPT !.gen = @ + 1, !.rev = rev, !.lives[id] = life,
                              !.mats[id] = IF d.painted THEN [gen |-> p.gen + 1, rev |-> rev]
                                           ELSE NoMaterial],
                          "create", id, life))

OnDestroy ==
    /\ Receives
    /\ \E id \in Ids :
         Answer([Queue(net.probe, "destroy", id, <<>>)
                    EXCEPT !.mats[id] = NoMaterial, !.lives[id] = NoLife])

OnSetPos == Receives /\ \E id \in Ids : Answer(Queue(net.probe, "place", id, <<>>))
OnMove == Receives /\ \E id \in Ids : Answer(Queue(net.probe, "place", id, <<>>))
OnStop == Receives /\ \E id \in Ids : Answer(Queue(net.probe, "place", id, <<>>))
OnAttachPlayer == Receives /\ \E id \in Ids : Answer(Queue(net.probe, "attach", id, <<>>))

\* store_object_material_state, then the descriptor that announces it.
OnSetMaterial ==
    /\ Receives
    /\ \E id \in Ids :
         /\ Gen(id) # 0
         /\ LET rev == net.probe.rev + 1
            IN  Answer(Queue([net.probe EXCEPT !.rev = rev,
                                 !.mats[id] = [gen |-> Gen(id), rev |-> rev]],
                             "set_material", id, [rev |-> rev]))

OnRestart ==
    /\ net.restart < MaxRestarts
    /\ net' = [net EXCEPT !.probe = ResetObjects, !.restart = @ + 1]
    /\ pc' = "pump" /\ UNCHANGED <<own, scene>>

-----------------------------------------------------------------------------
(* The bridge: operators from the pool to the pool. *)

Present(o, id) == o.slots[id].state # "none"

Unmapped(o, id) ==
    LET s == o.slots[id]
    IN  [x \in Addresses |->
            IF x = s.gta /\ o.map[x] = [id |-> id, gen |-> s.gen] THEN NoEntry ELSE o.map[x]]

\* samp_object_material_release_object_compat: a ready set holds a texture.
Released(o, id) ==
    [o EXCEPT !.sets[id] = NoSet, !.textures = IF o.sets[id].ready THEN @ - 1 ELSE @]

DestroySlot(o, id) ==
    LET s == o.slots[id]
    IN  [Released(o, id) EXCEPT !.map = Unmapped(o, id), !.slots[id] = NoSlot,
                  !.pending = IF s.state = "pending" THEN @ - 1 ELSE @,
                  !.active = IF s.state = "active" THEN @ - 1 ELSE @,
                  !.world = [x \in Addresses |-> IF x = s.gta THEN 0 ELSE @[x]]]

\* The object that was there goes first, whatever becomes of the new one.
CreateSlot(o, e) ==
    LET gone == DestroySlot(o, e.id)
    IN  IF e.model = "bad" THEN gone
        ELSE [gone EXCEPT !.pending = @ + 1,
                 !.slots[e.id] = [state |-> "pending", gen |-> e.gen, model |-> e.model, gta |-> 0,
                                  pos |-> e.seq,
                                  bond |-> IF e.bond THEN "wanted" ELSE "no"]]

StoreMaterial(o, id, m) ==
    IF ~Present(o, id) \/ o.slots[id].gen # m.gen \/ (o.sets[id].gen = m.gen /\ o.sets[id].rev >= m.rev)
    THEN o
    ELSE [Released(o, id) EXCEPT !.sets[id] = [gen |-> m.gen, rev |-> m.rev, ready |-> FALSE]]

\* samp_raknet_client_get_object_material answers only for this generation.
Fetched(o, id, gen, minimum) ==
    LET m == net.probe.mats[id]
    IN  IF m.gen = 0 \/ m.gen # gen \/ m.rev < minimum THEN o ELSE StoreMaterial(o, id, m)

ResyncMaterials(o, id) ==
    IF Present(o, id) THEN Fetched(o, id, o.slots[id].gen, 0) ELSE o

ApplyCreate(o, e) ==
    IF Present(o, e.id) /\ o.slots[e.id].gen = e.gen THEN ResyncMaterials(o, e.id)
    ELSE ResyncMaterials(CreateSlot(o, e), e.id)

ApplyDestroy(o, e) ==
    IF e.gen # 0 /\ o.slots[e.id].gen # 0 /\ o.slots[e.id].gen # e.gen THEN o ELSE DestroySlot(o, e.id)

ApplyToSlot(s, e) ==
    IF e.action = "attach" THEN [s EXCEPT !.bond = "wanted"] ELSE [s EXCEPT !.pos = e.seq]

ApplyEvent(o, e) ==
    CASE e.action = "create" -> ApplyCreate(o, e)
      [] e.action = "destroy" -> ApplyDestroy(o, e)
      [] e.action = "set_material" -> Fetched(o, e.id, e.gen, e.rev)
      [] OTHER -> IF e.gen = 0 \/ o.slots[e.id].gen # e.gen THEN o
                  ELSE [o EXCEPT !.slots[e.id] = ApplyToSlot(@, e)]

ResyncLifecycle(o, id) ==
    LET life == net.probe.lives[id]
    IN  IF life # NoLife /\ o.slots[id].gen # life.gen THEN ApplyCreate(o, life)
        ELSE IF life = NoLife /\ Present(o, id) THEN DestroySlot(o, id)
        ELSE o

All == SetToSeq(Ids)
Resync(o) == FoldLeft(ResyncLifecycle, o, All)
ResyncAll(o) == FoldLeft(ResyncMaterials, o, All)

Replay(o) ==
    [FoldLeft(ApplyEvent, o, Unseen(net.probe.ring, o.mark))
        EXCEPT !.mark = MarkAfter(net.probe.ring, o.mark)]

Update_NoResync(o) == Replay(o)

\* object_compat_update_from_snapshot, up to the objects that wait.
Update(o) ==
    IF Gap(net.probe.ring, o.mark) THEN ResyncAll(Resync(Replay(Resync(o)))) ELSE Replay(o)

\* object_compat_slot_allowed_in_current_phase, with object_compat_scene_ready.
Allowed(s) == scene = "spawned" \/ (scene = "class" /\ s.bond = "no")

\* apply_attachment: parent says whether what it is attached to is there.
Bind(s, parent) ==
    IF s.bond = "wanted" /\ scene = "spawned" /\ parent THEN [s EXCEPT !.bond = "bound"] ELSE s

\* The streamer and CREATE_OBJECT did their part.
Created(o, id, parent) ==
    LET x == CHOOSE y \in Addresses : o.world[y] = 0
        s == o.slots[id]
    IN  [o EXCEPT !.world[x] = id, !.active = @ + 1, !.pending = @ - 1,
                  !.map[x] = [id |-> id, gen |-> s.gen],
                  !.slots[id] = Bind([s EXCEPT !.state = "active", !.gta = x], parent)]

\* object_compat_skip_pending_slot: the materials stay behind.
Skipped(o, id) == [o EXCEPT !.slots[id] = NoSlot, !.pending = @ - 1]

\* object_compat_flush_pending over the slots that need not wait any longer.
Flush(o, go, parent) ==
    LET One(p, id) ==
            IF id \notin go \/ p.slots[id].state # "pending" \/ ~Allowed(p.slots[id]) \/ p.active >= Cap
            THEN p
            ELSE IF p.slots[id].model = "lost" THEN Skipped(p, id)
            ELSE Created(p, id, parent)
    IN  FoldLeft(One, o, All)

\* object_compat_process_pending_attachments.
Ticked(o, parent) ==
    [o EXCEPT !.slots = [i \in Ids |-> IF @[i].state = "active" THEN Bind(@[i], parent) ELSE @[i]]]

\* samp_object_material_prepare_pending: the textures that have been streamed in.
Prepared(o, loaded) ==
    LET new == {i \in Ids : loaded /\ Present(o, i) /\ o.sets[i].rev # 0 /\ ~o.sets[i].ready
                               /\ o.sets[i].gen = o.slots[i].gen /\ Allowed(o.slots[i])}
    IN  [o EXCEPT !.textures = @ + Cardinality(new),
                  !.sets = [i \in Ids |-> [@[i] EXCEPT !.ready = @ \/ i \in new]]]

Restarted == net.restart # own.handled
Pool == IF Restarted THEN FreshPool ELSE own.pool
SceneAfter == IF Restarted THEN "none" ELSE scene

\* A frame of the game: the snapshot, the pool, then the renderer's preparation.
Frame ==
    /\ \E go \in SUBSET Ids, parent, loaded \in BOOLEAN :
         /\ Cardinality(go) <= Budget
         /\ own' = [pool |-> Prepared(Ticked(Flush(Update(Pool), go, parent), parent), loaded),
                    handled |-> net.restart]
    /\ scene' = SceneAfter /\ pc' = "drawn" /\ UNCHANGED net

\* Class selection begins, or the player spawns.
NextScene ==
    /\ scene # "spawned"
    /\ scene' = IF scene = "none" THEN "class" ELSE "spawned"
    /\ UNCHANGED <<net, own, pc>>

Next ==
    \/ OnCreate \/ OnDestroy \/ OnSetPos \/ OnMove \/ OnStop \/ OnAttachPlayer \/ OnSetMaterial
    \/ OnRestart \/ Frame \/ NextScene

-----------------------------------------------------------------------------
(* What the renderer shows, and what must hold. *)

\* samp_object_material_render_hook: the revision GTA's object x is painted with.
Painted(o, x) ==
    LET e == o.map[x]
    IN  IF e # NoEntry /\ o.sets[e.id].gen = e.gen /\ o.slots[e.id].gen = e.gen
            /\ o.slots[e.id].gta = x /\ o.sets[e.id].ready
        THEN [id |-> e.id, rev |-> o.sets[e.id].rev] ELSE [id |-> 0, rev |-> 0]

TypeOK ==
    /\ pc \in {"pump", "drawn"} /\ scene \in {"none", "class", "spawned"}
    /\ net.restart \in 0 .. MaxRestarts /\ own.handled \in 0 .. net.restart
    /\ own.pool.active \in 0 .. Cap /\ own.pool.pending \in 0 .. Cardinality(Ids)
    /\ own.pool.mark \in 0 .. MaxEvents
    /\ \A i \in Ids : own.pool.slots[i].state \in {"none", "pending", "active"}

\* After a frame the pool holds the server's objects, of their newest
\* generation, each placed as the newest event the ring still has says, however
\* many events the ring lost; the counters and GTA's objects follow it.
ObjectsAgree ==
    pc # "pump" =>
        LET o == own.pool
            In(state) == {i \in Ids : o.slots[i].state = state}
        IN  /\ \A i \in Ids :
                 /\ Present(o, i) => o.slots[i].gen = Gen(i)
                 /\ Gen(i) # 0 /\ net.probe.lives[i].model = "good" => Present(o, i)
                 /\ {x \in Addresses : o.world[x] = i} = (IF i \in In("active") THEN {o.slots[i].gta} ELSE {})
                 /\ \A k \in DOMAIN net.probe.ring :
                      LET e == net.probe.ring[k]
                      IN  Present(o, i) /\ e.id = i /\ e.gen = o.slots[i].gen
                            /\ e.action \in {"create", "place"} => o.slots[i].pos >= e.seq
            /\ o.active = Cardinality(In("active")) /\ o.pending = Cardinality(In("pending"))

\* After a frame each object of the pool has its newest materials, and the
\* renderer paints every GTA object with its own materials or with none; every
\* texture that is held belongs to one of them.
MaterialsAgree ==
    pc # "pump" =>
        LET o == own.pool
        IN  /\ \A i \in Ids :
                 Present(o, i) /\ net.probe.mats[i].rev # 0 =>
                     o.sets[i].gen = Gen(i) /\ o.sets[i].rev = net.probe.mats[i].rev
            /\ \A x \in Addresses : Painted(o, x).id \in {0, o.world[x]}
            /\ o.textures = Cardinality({i \in Ids : o.sets[i].ready})
=============================================================================
