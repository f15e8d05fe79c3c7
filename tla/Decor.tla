------------------------------- MODULE Decor --------------------------------
(***************************************************************************)
(* What the server hangs on the client's world: map icons, 3D text labels,  *)
(* text draws, chat bubbles, objects attached to players, and buildings it   *)
(* takes away.  Each kind has a ring in the adapter and slots in the bridge,  *)
(* and nothing but the ring: what a ring loses is lost.                      *)
(*                                                                         *)
(* A behaviour is about one kind.  What a slot shows is the number of the RPC *)
(* it comes from.  Left out: colours, places, texts, the clock of a retry      *)
(* (any attempt may fail), the local player's attachments, previews.          *)
(***************************************************************************)
EXTENDS FiniteSets, Ring

CONSTANTS
    Ids,          \* of icons, labels, text draws, players and buildings: 1 .. n here
    Handles,      \* GTA's script handles of radar icons and objects, from 1
    RingSize,     \* the rings (64 and 128; 32 for bubbles)
    Budget,       \* SAMP_ATTACHED_OBJECT_COMPAT_CREATE_BUDGET (8 in the code)
    MaxRecords,   \* SAMP_REMOVE_BUILDING_COMPAT_MAX (256 in the code)
    MaxEvents,    \* bound: RPCs, over the sessions
    MaxRestarts   \* bound: game-mode restarts

VARIABLES net, own, scene, pc   \* adapter; bridge and GTA; scene; "pump" since the last RPC

vars == <<net, own, scene, pc>>

Kinds == {"icon", "text", "bubble", "attached", "building"}

Untold == [seq |-> 0, shows |-> 0, excused |-> FALSE]
NoSlot == [active |-> FALSE, seq |-> 0, shows |-> 0, pending |-> FALSE, gta |-> 0]

\* moved: players who entered or left since the bridge last looked.
ResetProbe == [seq |-> 0, ring |-> <<>>, server |-> [i \in Ids |-> Untold], here |-> {}, moved |-> {}]

\* The session reset of a kind.
FreshPool(standing) ==
    [mark |-> 0, slots |-> [i \in Ids |-> NoSlot], active |-> 0, pending |-> 0,
     gta |-> [x \in Handles |-> 0], refused |-> {}, peds |-> {},
     records |-> {}, standing |-> standing, scan |-> "never"]

Init ==
    /\ net = [probe |-> ResetProbe, restart |-> 0, rpcs |-> 0]
    /\ \E kind \in Kinds : own = [kind |-> kind, pool |-> FreshPool(Ids), handled |-> 0, gap |-> FALSE]
    /\ scene = "none" /\ pc = "pump"

-----------------------------------------------------------------------------
(* The adapter's handlers. *)

Receives(kind) == own.kind = kind /\ net.rpcs < MaxEvents

Server(id) == net.probe.server[id]
Now == net.probe.seq + 1

Queue(action, id, server) ==
    /\ net' = [net EXCEPT !.rpcs = @ + 1, !.probe.seq = Now, !.probe.server[id] = server,
                          !.probe.ring = Push(@, RingSize, [seq |-> Now, action |-> action, id |-> id])]
    /\ pc' = "pump" /\ UNCHANGED <<own, scene>>

Told == [Untold EXCEPT !.seq = Now, !.shows = Now]

\* The adapter lets a place pass that is off the map.
OnSetMapIcon ==
    Receives("icon") /\ \E id \in Ids : Queue("set", id, Told) \/ Queue("off", id, Server(id))

OnRemoveMapIcon == Receives("icon") /\ \E id \in Ids : Queue("remove", id, Untold)

\* 3D text labels and text draws.
OnShowText == Receives("text") /\ \E id \in Ids : Queue("show", id, Told)

OnEditText ==
    Receives("text") /\ \E id \in Ids :
        Queue("edit", id, IF Server(id).seq = 0 THEN Server(id) ELSE [Server(id) EXCEPT !.shows = Now])

OnHideText == Receives("text") /\ \E id \in Ids : Queue("hide", id, Untold)

\* Without a text or a time it ends the bubble.
OnChatBubble ==
    Receives("bubble") /\ \E id \in Ids : Queue("say", id, Told) \/ Queue("silence", id, Untold)

OnRemoveBuilding == Receives("building") /\ \E id \in Ids : Queue("take", id, Told)

\* The server tells of the attachments of a player who is in the client's world; the
\* adapter lets a scale pass that the bridge refuses ("off").
OnAttach ==
    Receives("attached") /\ \E id \in net.probe.here :
        \/ Queue("set", id, Told)
        \/ Queue("remove", id, Untold)
        \/ Queue("off", id, Server(id))

\* What the bridge has seen; after a restart it has seen nothing.
Mark == IF net.restart = own.handled THEN own.pool.mark ELSE 0

\* What the bridge has still to hear of.
Since(id) == IF Server(id).seq > Mark THEN Server(id) ELSE Untold

\* An RPC of another ring, which takes the player's attachments away; but the frame
\* applies that ring first, and what it has still to hear of outlives the player's move.
Moves(id, here) ==
    /\ net' = [net EXCEPT !.rpcs = @ + 1, !.probe.here = here, !.probe.moved = @ \cup {id},
                          !.probe.server[id] = Since(id)]
    /\ pc' = "pump" /\ UNCHANGED <<own, scene>>

OnEnter == Receives("attached") /\ \E id \in Ids : Moves(id, net.probe.here \cup {id})
OnLeave == Receives("attached") /\ \E id \in net.probe.here : Moves(id, net.probe.here \ {id})

OnRestart ==
    /\ net.restart < MaxRestarts
    /\ net' = [net EXCEPT !.probe = ResetProbe, !.restart = @ + 1]
    /\ pc' = "pump" /\ UNCHANGED <<own, scene>>

-----------------------------------------------------------------------------
(* The bridge: operators from the pool to the pool. *)

Unused(o) == CHOOSE x \in Handles : o.gta[x] = 0
Deleted(o, x) == IF x = 0 THEN o.gta ELSE [o.gta EXCEPT ![x] = 0]

\* map_icon_compat_disable_slot
DisableIcon(o, id) ==
    [o EXCEPT !.slots[id] = NoSlot, !.gta = Deleted(o, o.slots[id].gta), !.refused = @ \ {id}]

\* GTA may refuse the marker.
ApplyIcon(o, e, refuses) ==
    CASE e.action = "off" -> o
      [] e.action = "remove" -> DisableIcon(o, e.id)
      [] e.action = "set" /\ e.seq \in refuses -> [DisableIcon(o, e.id) EXCEPT !.refused = @ \cup {e.id}]
      [] OTHER ->
           LET d == DisableIcon(o, e.id)
           IN  [d EXCEPT !.gta[Unused(d)] = e.id,
                  !.slots[e.id] = [NoSlot EXCEPT !.active = TRUE, !.seq = e.seq, !.shows = e.seq, !.gta = Unused(d)]]

\* text_label_compat_apply_event, textdraw_compat_apply_event
ApplyText(o, e) ==
    LET was == o.slots[e.id].active
    IN  CASE e.action = "show" ->
               [o EXCEPT !.active = IF was THEN @ ELSE @ + 1,
                         !.slots[e.id] = [NoSlot EXCEPT !.active = TRUE, !.seq = e.seq, !.shows = e.seq]]
          [] e.action = "edit" /\ was -> [o EXCEPT !.slots[e.id].shows = e.seq]
          [] e.action = "hide" /\ was -> [o EXCEPT !.active = @ - 1, !.slots[e.id] = NoSlot]
          [] OTHER -> o

\* An entry is cleared, or shown until it expires.
ApplyBubble(o, e) ==
    LET was == o.slots[e.id].active
    IN  IF e.action = "say"
        THEN [o EXCEPT !.active = IF was THEN @ ELSE @ + 1,
                       !.slots[e.id] = [NoSlot EXCEPT !.active = TRUE, !.seq = e.seq, !.shows = e.seq]]
        ELSE [o EXCEPT !.active = IF was THEN @ - 1 ELSE @, !.slots[e.id] = NoSlot]

\* attached_object_compat_destroy_slot
DestroyAttached(o, id) ==
    LET s == o.slots[id]
    IN  [o EXCEPT !.slots[id] = NoSlot, !.gta = Deleted(o, s.gta),
                  !.pending = IF s.pending THEN @ - 1 ELSE @, !.active = IF s.gta # 0 THEN @ - 1 ELSE @]

ApplyAttached(o, e) ==
    CASE e.action = "off" -> o
      [] e.action = "remove" -> DestroyAttached(o, e.id)
      [] OTHER -> [DestroyAttached(o, e.id) EXCEPT !.pending = @ + 1,
                     !.slots[e.id] = [NoSlot EXCEPT !.active = TRUE, !.pending = TRUE, !.seq = e.seq, !.shows = e.seq]]

\* The slots that may become objects: the scene is there, and the player's ped.
Ready(o) == {i \in Ids : o.slots[i].pending /\ scene = "spawned" /\ i \in o.peds}

\* New handles, one for each of go.
Given(o, go) ==
    {h \in [go -> {x \in Handles : o.gta[x] = 0}] : \A i, j \in go : h[i] = h[j] => i = j}

\* CREATE_OBJECT for each of go, and the object is attached.
CreateAttached(o, go, h) ==
    [o EXCEPT !.active = @ + Cardinality(go), !.pending = @ - Cardinality(go),
              !.gta = [x \in Handles |-> IF \E i \in go : h[i] = x THEN CHOOSE i \in go : h[i] = x ELSE @[x]],
              !.slots = [i \in Ids |-> IF i \in go THEN [@[i] EXCEPT !.pending = FALSE, !.gta = h[i]] ELSE @[i]]]

\* No more than Budget in a frame; GTA may refuse an object, or to attach it, and then
\* it is deleted again.
FlushAttached(o) ==
    UNION {{CreateAttached(o, go, h) : h \in Given(o, go)} : go \in {g \in SUBSET Ready(o) : Cardinality(g) <= Budget}}

\* The players' updates come first in a frame: whoever moved loses his ped and his
\* attachments; GTA makes the peds of those who are there in its own time.
PlayersMoved_KeepAttached(o, made) == [o EXCEPT !.peds = (@ \ net.probe.moved) \cup made]

PlayersMoved(o, made) ==
    LET moved == net.probe.moved
        Hung(x) == \E i \in moved : o.slots[i].gta = x
    IN  [o EXCEPT !.peds = (@ \ moved) \cup made,
                  !.slots = [i \in Ids |-> IF i \in moved THEN NoSlot ELSE @[i]],
                  !.gta = [x \in Handles |-> IF Hung(x) THEN 0 ELSE @[x]],
                  !.pending = @ - Cardinality({i \in moved : o.slots[i].pending}),
                  !.active = @ - Cardinality({i \in moved : o.slots[i].gta # 0})]

\* remove_building_store_event_compat: once, while there is room.
Stored(records, id) ==
    IF id \in records \/ Cardinality(records) >= MaxRecords THEN records ELSE records \cup {id}

ApplyBuilding(o, e) == [o EXCEPT !.records = Stored(@, e.id), !.standing = @ \ {e.id}]

\* Every so often, and at once after a reset.
Rescan(o, due) ==
    IF due \/ o.scan = "never" THEN [o EXCEPT !.standing = @ \ o.records, !.scan = "now"]
    ELSE [o EXCEPT !.scan = "earlier"]

\* GTA may refuse the icons of the RPCs in refuses.
Applied(kind, o, e, refuses) ==
    CASE kind = "icon" -> ApplyIcon(o, e, refuses)
      [] kind = "text" -> ApplyText(o, e)
      [] kind = "bubble" -> ApplyBubble(o, e)
      [] kind = "attached" -> ApplyAttached(o, e)
      [] kind = "building" -> ApplyBuilding(o, e)

Replay(o, refuses) ==
    [Replayed(net.probe.ring, o.mark, o, LAMBDA p, e : Applied(own.kind, p, e, refuses))
        EXCEPT !.mark = MarkAfter(net.probe.ring, o.mark)]

\* The reset of each kind; the buildings that were taken away do not come back.
ResetPool(o) == FreshPool(o.standing)

Restarted == net.restart # own.handled
Pool == IF Restarted THEN ResetPool(own.pool) ELSE own.pool

Updates(o) ==
    own' = [own EXCEPT !.pool = o, !.handled = net.restart,
                       !.gap = Gap(net.probe.ring, Pool.mark) \/ (@ /\ ~Restarted)]

Frame ==
    /\ \/ /\ own.kind = "icon"
          /\ \E refuses \in SUBSET {net.probe.ring[k].seq : k \in 1 .. Len(net.probe.ring)} :
               Updates(Replay(Pool, refuses))
       \/ own.kind \in {"text", "bubble"} /\ Updates(Replay(Pool, {}))
       \/ /\ own.kind = "attached"
          /\ \E made \in SUBSET net.probe.here :
               \E o \in FlushAttached(Replay(PlayersMoved(Pool, made), {})) : Updates(o)
       \/ own.kind = "building" /\ \E due \in BOOLEAN : Updates(Rescan(Replay(Pool, {}), due))
    /\ net' = [net EXCEPT !.probe.moved = {}]
    /\ scene' = (IF Restarted THEN "none" ELSE scene)
    /\ pc' = "drawn"

\* chat_bubble_compat_draw_d3dx_overlay ends what has expired.
DrawBubbles ==
    /\ own.kind = "bubble" /\ pc = "drawn"
    /\ \E id \in Ids : /\ own.pool.slots[id].active
                       /\ own' = [own EXCEPT !.pool.slots[id].active = FALSE, !.pool.active = @ - 1]
    /\ UNCHANGED <<net, scene, pc>>

\* GTA loads a building anew, standing.
Streams ==
    /\ own.kind = "building" /\ \E id \in Ids \ own.pool.standing : own' = [own EXCEPT !.pool.standing = @ \cup {id}]
    /\ pc' = "pump" /\ UNCHANGED <<net, scene>>

NextScene == own.kind = "attached" /\ scene # "spawned" /\ scene' = "spawned" /\ UNCHANGED <<net, own, pc>>

Next ==
    \/ OnSetMapIcon \/ OnRemoveMapIcon \/ OnShowText \/ OnEditText \/ OnHideText \/ OnChatBubble
    \/ OnRemoveBuilding \/ OnAttach \/ OnEnter \/ OnLeave \/ OnRestart
    \/ Frame \/ DrawBubbles \/ Streams \/ NextScene

Spec == Init /\ [][Next]_vars

-----------------------------------------------------------------------------
TypeOK ==
    /\ own.kind \in Kinds /\ pc \in {"pump", "drawn"} /\ scene \in {"none", "spawned"}
    /\ own.pool.mark \in 0 .. MaxEvents /\ own.handled \in 0 .. net.restart
    /\ Cardinality(own.pool.records) <= MaxRecords /\ own.pool.peds \subseteq Ids

\* GTA has exactly the icons and objects of the slots, one for each, and an object
\* hangs on a player who has a ped.
HandlesAgree ==
    LET o == own.pool
    IN  /\ \A x \in Handles :
             IF o.gta[x] = 0 THEN \A i \in Ids : o.slots[i].gta # x ELSE o.slots[o.gta[x]].gta = x
        /\ own.kind = "attached" => \A i \in Ids : o.slots[i].gta # 0 => i \in o.peds

\* The overlay's early returns rely on the counts.
CountsAgree ==
    LET Number(P(_)) == Cardinality({i \in Ids : P(own.pool.slots[i])})
    IN  /\ own.kind \in {"text", "bubble"} => own.pool.active = Number(LAMBDA s : s.active)
        /\ own.kind = "attached" => /\ own.pool.active = Number(LAMBDA s : s.gta # 0)
                                    /\ own.pool.pending = Number(LAMBDA s : s.pending)

\* A slot shows what the server said last of it, unless GTA refused the icon or the
\* bubble's time is over; of a player who has moved, nothing but what was said in the
\* same pump; and after a scan no building stands that is to be away, as long as there
\* is room for it.
SlotsAgree ==
    LET o == own.pool
        Same(id) == o.slots[id].seq = Server(id).seq /\ o.slots[id].shows = Server(id).shows
    IN  CASE own.kind = "icon" -> \A i \in Ids \ o.refused : Same(i)
          [] own.kind = "bubble" -> \A i \in Ids : o.slots[i].active => Same(i)
          [] own.kind = "building" ->
               /\ \A i \in Ids : Server(i).seq # 0 => i \in o.records \/ Cardinality(o.records) = MaxRecords
               /\ o.scan = "now" => o.standing \cap o.records = {}
          [] OTHER -> \A i \in Ids : Same(i)

\* After a frame, while no ring has lost an event: what the client shows is what the
\* server last said, though a player's coming and going, a refused icon and a restart
\* come between, and nothing of it is left in GTA without a slot.
DecorAgrees == HandlesAgree /\ CountsAgree /\ (pc = "drawn" /\ ~own.gap => SlotsAgree)

-----------------------------------------------------------------------------
(* What the proofs rest on. *)

Actions(kind) ==
    CASE kind \in {"icon", "attached"} -> {"set", "off", "remove"}
      [] kind = "text" -> {"show", "edit", "hide"}
      [] kind = "bubble" -> {"say", "silence"}
      [] kind = "building" -> {"take"}

Events(kind) == [seq : Nat, action : Actions(kind), id : Ids]
Views == [seq : Nat, shows : Nat, excused : BOOLEAN]
Slots == [active : BOOLEAN, seq : Nat, shows : Nat, pending : BOOLEAN, gta : Handles \cup {0}]
Pools == [mark : Nat, slots : [Ids -> Slots], active : Int, pending : Int, gta : [Handles -> Ids \cup {0}],
          refused : SUBSET Ids, peds : SUBSET Ids, records : SUBSET Ids, standing : SUBSET Ids,
          scan : {"never", "now", "earlier"}]

Fields ==
    /\ net \in [probe : [seq : Nat, ring : Seq(Events(own.kind)), server : [Ids -> Views],
                         here : SUBSET Ids, moved : SUBSET Ids],
                restart : Nat, rpcs : Nat]
    /\ own \in [kind : Kinds, pool : Pools, handled : Nat, gap : BOOLEAN]
    /\ pc \in {"pump", "drawn"} /\ scene \in {"none", "spawned"}

\* The ring ends with the newest event, and is behind it by its length.
RingEnds ==
    LET p == net.probe
    IN  /\ Len(p.ring) = IF p.seq < RingSize THEN p.seq ELSE RingSize
        /\ \A k \in 1 .. Len(p.ring) : p.ring[k].seq = p.seq - Len(p.ring) + k

Counts ==
    /\ net.probe.seq <= net.rpcs /\ net.rpcs <= MaxEvents
    /\ own.handled <= net.restart /\ net.restart <= MaxRestarts
    /\ own.pool.mark <= MaxEvents
    /\ own.handled = net.restart => own.pool.mark <= net.probe.seq
    /\ pc = "drawn" => own.handled = net.restart /\ own.pool.mark = net.probe.seq /\ net.probe.moved = {}
    /\ own.kind # "attached" => net.probe.moved = {}

\* The slot's handle is its own; what waits has none; what each kind leaves unused.
SlotOk(kind, o, i) ==
    LET s == o.slots[i]
    IN  /\ s.gta # 0 => o.gta[s.gta] = i /\ kind \in {"icon", "attached"}
        /\ s.gta # 0 /\ kind = "attached" => i \in o.peds
        /\ s.pending => s.gta = 0
        /\ kind = "text" /\ s.active => s.seq # 0
        /\ kind = "text" /\ ~s.active => s.seq = 0 /\ s.shows = 0
        /\ kind = "building" => s.seq = 0 /\ s.shows = 0

HandleOk(o, x) == o.gta[x] # 0 => o.slots[o.gta[x]].gta = x

Numbered(kind, o) ==
    /\ kind \in {"text", "bubble"} => o.active = Cardinality({i \in Ids : o.slots[i].active})
    /\ kind = "attached" => /\ o.active = Cardinality({i \in Ids : o.slots[i].gta # 0})
                            /\ o.pending = Cardinality({i \in Ids : o.slots[i].pending})

\* What holds of the pool whatever the ring has lost.
Sane(kind, o) ==
    /\ \A i \in Ids : SlotOk(kind, o, i)
    /\ \A x \in Handles : HandleOk(o, x)
    /\ Numbered(kind, o) /\ Cardinality(o.records) <= MaxRecords

\* There is no more to say of a slot whose icon GTA has refused, or of a building that
\* is on record, or for which there is no room.
Excused(kind, o, i) ==
    \/ kind = "icon" /\ i \in o.refused
    \/ kind = "building" /\ (i \in o.records \/ Cardinality(o.records) = MaxRecords)

\* What the pool has of i, and what an RPC makes of it.
Seen(kind, o, i) == [seq |-> o.slots[i].seq, shows |-> o.slots[i].shows, excused |-> Excused(kind, o, i)]

Heard(v, e) ==
    CASE e.action \in {"set", "show", "say", "take"} -> [seq |-> e.seq, shows |-> e.seq, excused |-> FALSE]
      [] e.action = "edit" -> IF v.seq = 0 THEN v ELSE [v EXCEPT !.shows = e.seq]
      [] e.action = "off" -> v
      [] OTHER -> Untold

HeardOf(i, v, e) == IF e.id = i THEN Heard(v, e) ELSE v

Right(v, s) == v.excused \/ s.excused \/ (v.seq = s.seq /\ v.shows = s.shows)

\* What the next replay begins with, and ends with.
Known == [i \in Ids |-> IF i \in net.probe.moved THEN Untold ELSE Seen(own.kind, Pool, i)]

After(p, mark, v, i) == Replayed(p.ring, mark, v, LAMBDA u, e : HeardOf(i, u, e))

\* A replay would catch up, unless the ring has lost what it needs.
CatchesUp(p, mark, known) == ~Gap(p.ring, mark) => \A i \in Ids : Right(After(p, mark, known[i], i), p.server[i])

\* Nothing of what the server tells is excused.
Unexcused == \A i \in Ids : ~Server(i).excused

\* A reader who knows nothing would find what the bridge has still to hear of.
Survives ==
    \A i \in Ids :
        /\ Server(i).seq <= net.probe.seq
        /\ ~Gap(net.probe.ring, Mark) => Right(After(net.probe, Mark, Untold, i), Since(i))

Cleared ==
    LET o == own.pool
    IN  own.kind = "building" /\ pc = "drawn" /\ o.scan = "now" => o.standing \cap o.records = {}

DecorInv ==
    /\ Fields /\ RingEnds /\ Counts /\ Sane(own.kind, own.pool) /\ Cleared
    /\ (own.gap => Restarted) => CatchesUp(net.probe, Pool.mark, Known)
=============================================================================
