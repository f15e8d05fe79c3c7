------------------------------ MODULE Vehicles ------------------------------
(***************************************************************************)
(* The server's vehicles.  The adapter queues each RPC about a vehicle in   *)
(* one ring and keeps no table of them; the bridge replays what it has not  *)
(* seen, lets new vehicles wait for the game scene and creates one at a     *)
(* time, or at once when a later RPC needs it, and shows radar markers.     *)
(*                                                                         *)
(* What an RPC sets is known by the number of its event: a place (position, *)
(* angle, interior, components, plate, parameters) and a health.  A model   *)
(* is "good" or "refused" (trains, models GTA does not know).  The script   *)
(* RPCs set a place, and one of them the objective too.  Left out: the plate*)
(* that a creation takes over from its slot, trailers, other people's seats,*)
(* dead vehicles, invulnerability, GTA refusing a command.  Ring overflow   *)
(* loses RPCs for good: own.gap says so.                                    *)
(***************************************************************************)
EXTENDS FiniteSets, Ring

CONSTANTS
    Ids,          \* vehicle ids: 1 .. n here, 0 .. 1999 in the code
    Handles,      \* GTA's script handles of cars, from 1
    RingSize,     \* SAMP_RAKNET_VEHICLE_EVENT_RING (128 in the code)
    MaxEvents,    \* bound: RPCs, over the sessions
    MaxRestarts   \* bound: game-mode restarts

VARIABLES net, own, scene, pc   \* adapter; bridge and GTA; scene; "pump" since the last RPC

vars == <<net, own, scene, pc>>

NoVehicle == [kind |-> "none", seq |-> 0, place |-> 0, health |-> 0]   \* the server's, as its RPCs tell
NoSlot ==
    [state |-> "none", seq |-> 0, place |-> 0, health |-> 0, objective |-> FALSE, marker |-> FALSE, car |-> 0]
NoCar == [id |-> 0, place |-> 0, health |-> 0]

ResetVehicles == [seq |-> 0, ring |-> <<>>, server |-> [i \in Ids |-> NoVehicle]]

FreshPool ==
    [mark |-> 0, active |-> 0, pending |-> 0, slots |-> [i \in Ids |-> NoSlot], seat |-> 0,
     cars |-> [x \in Handles |-> NoCar], blips |-> [i \in Ids |-> 0]]

Init ==
    /\ net = [probe |-> ResetVehicles, restart |-> 0, rpcs |-> 0]
    /\ own = [pool |-> FreshPool, handled |-> 0, gap |-> FALSE]
    /\ scene = "none" /\ pc = "pump"

-----------------------------------------------------------------------------
(* The adapter's handlers. *)

Receives == net.rpcs < MaxEvents

\* queue_vehicle_event; server is what the RPC makes of the server's vehicle.
Queue(action, id, server, model, objective) ==
    LET p == net.probe
    IN  /\ net' = [net EXCEPT !.rpcs = @ + 1,
                     !.probe = [seq |-> p.seq + 1, server |-> [p.server EXCEPT ![id] = server],
                                ring |-> Push(p.ring, RingSize, [seq |-> p.seq + 1, action |-> action, id |-> id,
                                                                 model |-> model, objective |-> objective])]]
        /\ pc' = "pump" /\ UNCHANGED <<own, scene>>

Now == net.probe.seq + 1
Server(id) == net.probe.server[id]

OnAdd ==
    Receives /\ \E id \in Ids, model \in {"good", "refused"} :
        Queue("create", id, [kind |-> model, seq |-> Now, place |-> Now, health |-> Now], model, FALSE)

OnRemove == Receives /\ \E id \in Ids : Queue("destroy", id, NoVehicle, "none", FALSE)

OnHealth ==
    Receives /\ \E id \in Ids :
        Queue("health", id, IF Server(id).kind = "none" THEN NoVehicle ELSE [Server(id) EXCEPT !.health = Now],
              "none", FALSE)

\* RPCs that become script commands: where it is, what it looks like, its parameters.
OnScript ==
    Receives /\ \E id \in Ids, objective \in BOOLEAN :
        Queue("script", id, IF Server(id).kind = "none" THEN NoVehicle ELSE [Server(id) EXCEPT !.place = Now],
              "none", objective)

OnPutPlayer == Receives /\ \E id \in Ids : Queue("put", id, Server(id), "none", FALSE)

OnRestart ==
    /\ net.restart < MaxRestarts
    /\ net' = [net EXCEPT !.probe = ResetVehicles, !.restart = @ + 1]
    /\ pc' = "pump" /\ UNCHANGED <<own, scene>>

-----------------------------------------------------------------------------
(* The bridge: operators from the pool to the pool. *)

DisableMarker_Unasked(o, id) == [o EXCEPT !.blips[id] = @ - 1, !.slots[id].marker = FALSE]

DisableMarker(o, id) ==
    IF o.slots[id].marker THEN [o EXCEPT !.blips[id] = @ - 1, !.slots[id].marker = FALSE] ELSE o

\* destroy_car; whoever sits in it does no more.
WithoutCar(o, id) ==
    LET x == o.slots[id].car
    IN  [o EXCEPT !.cars[x] = NoCar, !.slots[id] = NoSlot, !.active = @ - 1,
                  !.seat = IF @ = id THEN 0 ELSE @]

DestroySlot_KeepsMarker(o, id) ==
    CASE o.slots[id].state = "pending" -> [o EXCEPT !.slots[id] = NoSlot, !.pending = @ - 1]
      [] o.slots[id].state = "active" -> WithoutCar(o, id)
      [] OTHER -> o

DestroySlot(o, id) ==
    CASE o.slots[id].state = "pending" -> [o EXCEPT !.slots[id] = NoSlot, !.pending = @ - 1]
      [] o.slots[id].state = "active" -> WithoutCar(DisableMarker(o, id), id)
      [] OTHER -> o

\* A model that is refused leaves the vehicle that was there.
CreateSlot(o, e) ==
    IF e.model = "refused" THEN o
    ELSE [DestroySlot(o, e.id) EXCEPT !.pending = @ + 1,
             !.slots[e.id] = [state |-> "pending", seq |-> e.seq, place |-> e.seq, health |-> e.seq,
                              objective |-> FALSE, marker |-> FALSE, car |-> 0]]

\* vehicle_compat_apply_pending_slot: the car as it is when it appears.
ApplyPending(o, id) ==
    LET x == CHOOSE h \in Handles : o.cars[h] = NoCar
        s == o.slots[id]
    IN  IF s.state # "pending" THEN o
        ELSE [o EXCEPT !.cars[x] = [id |-> id, place |-> s.place, health |-> s.health],
                       !.slots[id] = [s EXCEPT !.state = "active", !.car = x],
                       !.active = @ + 1, !.pending = @ - 1]

\* An empty slot keeps it until a creation clears the slot.
SetHealth(o, e) ==
    CASE o.slots[e.id].state = "none" -> o
      [] o.slots[e.id].state = "pending" -> [o EXCEPT !.slots[e.id].health = e.seq]
      [] OTHER -> [o EXCEPT !.slots[e.id].health = e.seq, !.cars[o.slots[e.id].car].health = e.seq]

\* vehicle_compat_put_local_player: only into a car, never into one that waits.
PutLocalPlayer(o, e) == IF o.slots[e.id].state = "active" THEN [o EXCEPT !.seat = e.id] ELSE o

EnsureActive(o, id) == ApplyPending(o, id)

ApplyScriptEvent(o, e) ==
    LET p == EnsureActive(o, e.id)
    IN  IF p.slots[e.id].state # "active" THEN p
        ELSE [p EXCEPT !.slots[e.id] = [@ EXCEPT !.place = e.seq, !.objective = e.objective],
                       !.cars[p.slots[e.id].car].place = e.seq]

ApplyEvent(o, e) ==
    CASE e.action = "create" -> CreateSlot(o, e)
      [] e.action = "destroy" -> DestroySlot(o, e.id)
      [] e.action = "health" -> SetHealth(o, e)
      [] e.action = "put" -> PutLocalPlayer(o, e)
      [] OTHER -> ApplyScriptEvent(o, e)

\* One vehicle at a time, in the game scene; none while a hold or an interval runs.
FlushPending(o, due) ==
    LET waiting == {i \in Ids : o.slots[i].state = "pending"}
    IN  IF due /\ scene = "spawned" /\ waiting # {}
        THEN ApplyPending(o, CHOOSE i \in waiting : \A j \in waiting : i <= j) ELSE o

Replay(o) ==
    [Replayed(net.probe.ring, o.mark, o, ApplyEvent) EXCEPT !.mark = MarkAfter(net.probe.ring, o.mark)]

\* The radar marker of a car there is: an objective has one, and an empty car that is near.
Marked(o, i, near) == o.slots[i].objective \/ (i \in near /\ o.seat # i)

\* vehicle_compat_update_scanner_marker of every car; no other slot is looked at.
UpdateMarkers(o, near) ==
    LET On(i) == o.slots[i].state = "active" /\ ~o.slots[i].marker /\ Marked(o, i, near)
        Off(i) == o.slots[i].state = "active" /\ o.slots[i].marker /\ ~Marked(o, i, near)
    IN  [o EXCEPT !.slots = [i \in Ids |-> [@[i] EXCEPT !.marker = (o.slots[i].marker \/ On(i)) /\ ~Off(i)]],
                  !.blips = [i \in Ids |-> IF On(i) THEN @[i] + 1 ELSE IF Off(i) THEN @[i] - 1 ELSE @[i]]]

\* Every slot is destroyed.
ResetPool(o) ==
    LET gone == {i \in Ids : o.slots[i].state = "active"}
    IN  [mark |-> 0, active |-> 0, pending |-> 0, slots |-> [i \in Ids |-> NoSlot],
         seat |-> IF o.seat \in gone THEN 0 ELSE o.seat,
         cars |-> [x \in Handles |-> IF \E i \in gone : o.slots[i].car = x THEN NoCar ELSE o.cars[x]],
         blips |-> [i \in Ids |-> IF i \in gone /\ o.slots[i].marker THEN o.blips[i] - 1 ELSE o.blips[i]]]

Restarted == net.restart # own.handled
Pool == IF Restarted THEN ResetPool(own.pool) ELSE own.pool

\* A frame: the snapshot, then the bridge (without a ped it shows no markers).
Frame ==
    /\ \E due, ped \in BOOLEAN, near \in {{}, Ids} :
         LET o == FlushPending(Replay(Pool), due)
         IN  own' = [pool |-> IF ped THEN UpdateMarkers(o, near) ELSE o, handled |-> net.restart,
                     gap |-> Gap(net.probe.ring, Pool.mark) \/ (own.gap /\ ~Restarted)]
    /\ scene' = (IF Restarted THEN "none" ELSE scene)
    /\ pc' = "drawn" /\ UNCHANGED net

NextScene == scene # "spawned" /\ scene' = "spawned" /\ UNCHANGED <<net, own, pc>>

Next ==
    \/ OnAdd \/ OnRemove \/ OnHealth \/ OnScript \/ OnPutPlayer \/ OnRestart \/ Frame \/ NextScene

Spec == Init /\ [][Next]_vars

-----------------------------------------------------------------------------
TypeOK ==
    /\ pc \in {"pump", "drawn"} /\ scene \in {"none", "spawned"}
    /\ net.restart \in 0 .. MaxRestarts /\ own.handled \in 0 .. net.restart
    /\ own.pool.mark \in 0 .. MaxEvents /\ own.pool.seat \in Ids \cup {0}
    /\ \A i \in Ids : own.pool.slots[i].state \in {"none", "pending", "active"}
    /\ \A i \in Ids : own.pool.blips[i] \in Nat

\* While the ring has lost nothing, after a frame each vehicle of the server
\* that the client can show is in the pool as the server's newest RPCs left it,
\* one that the server has removed is not, and GTA has exactly the cars and the
\* radar markers of the pool, with the place and the health of their vehicles.
VehiclesAgree ==
    pc = "drawn" /\ ~own.gap =>
        LET o == own.pool
            In(state) == {i \in Ids : o.slots[i].state = state}
        IN  /\ \A i \in Ids :
                 /\ Server(i).kind = "none" => i \in In("none")
                 /\ Server(i).kind = "good" =>
                      /\ i \notin In("none") /\ o.slots[i].seq = Server(i).seq
                      /\ o.slots[i].place = Server(i).place /\ o.slots[i].health = Server(i).health
                 /\ o.blips[i] = IF o.slots[i].marker THEN 1 ELSE 0
            /\ \A x \in Handles :
                 IF o.cars[x] = NoCar THEN \A i \in In("active") : o.slots[i].car # x
                 ELSE LET i == o.cars[x].id
                      IN  /\ i \in In("active") /\ o.slots[i].car = x
                          /\ o.cars[x].place = o.slots[i].place /\ o.cars[x].health = o.slots[i].health
            /\ o.active = Cardinality(In("active")) /\ o.pending = Cardinality(In("pending"))

\* An RPC that depends on a car still to be created has it created, "instead of consuming
\* the later RPC first"; one that puts the player into a car is such an RPC: when it is
\* the newest of the ring, in the game scene, the frame leaves him in that car.
SeatsArrive ==
    pc = "drawn" /\ ~own.gap /\ scene = "spawned" /\ net.probe.ring # <<>> =>
        LET e == net.probe.ring[Len(net.probe.ring)]
        IN  e.action = "put" /\ Server(e.id).kind = "good" => own.pool.seat = e.id

-----------------------------------------------------------------------------
(* What the proofs rest on. *)

Models == {"none", "good", "refused"}
Events == [seq : Nat, action : {"create", "destroy", "health", "script", "put"}, id : Ids,
           model : Models, objective : BOOLEAN]
Vehicles == [kind : Models, seq : Nat, place : Nat, health : Nat]
Slots == [state : {"none", "pending", "active"}, seq : Nat, place : Nat, health : Nat,
          objective : BOOLEAN, marker : BOOLEAN, car : Handles \cup {0}]
Cars == [id : Ids \cup {0}, place : Nat, health : Nat]
Blips == {0, 1}   \* radar markers of one slot
Tables == [mark : Nat, active : Nat, pending : Nat, slots : [Ids -> Slots], seat : Ids \cup {0},
           cars : [Handles -> Cars], blips : [Ids -> Blips]]

\* A car for each active slot, a marker where the slot says so.
SlotOk(o, i) ==
    LET s == o.slots[i]
    IN  /\ o.blips[i] = IF s.marker THEN 1 ELSE 0
        /\ s.state # "active" => ~s.marker
        /\ s.state = "active" => /\ s.car \in Handles /\ o.cars[s.car].id = i
                                 /\ o.cars[s.car].place = s.place /\ o.cars[s.car].health = s.health

CarOk(o, x) ==
    IF o.cars[x].id = 0 THEN o.cars[x] = NoCar
    ELSE o.slots[o.cars[x].id].state = "active" /\ o.slots[o.cars[x].id].car = x

Number(slots, state) == Cardinality({i \in Ids : slots[i].state = state})

\* What holds of the pool whatever the ring has lost.
Sane(o) ==
    /\ \A i \in Ids : SlotOk(o, i)
    /\ \A x \in Handles : CarOk(o, x)
    /\ o.active = Number(o.slots, "active") /\ o.pending = Number(o.slots, "pending")

\* The slot is the server's vehicle.
Right(s, v) ==
    /\ v.kind = "none" => s.state = "none"
    /\ v.kind = "good" => s.state # "none" /\ s.seq = v.seq /\ s.place = v.place /\ s.health = v.health

Caught(o, server) == \A i \in Ids : Right(o.slots[i], server[i])

\* A replay from the pool k would catch up, unless the ring has lost what it needs.
CatchesUp(p, k) == ~Gap(p.ring, k.mark) => Caught(Replayed(p.ring, k.mark, k, ApplyEvent), p.server)

Fields ==
    /\ net \in [probe : [seq : Nat, server : [Ids -> Vehicles], ring : Seq(Events)], restart : Nat, rpcs : Nat]
    /\ own \in [pool : Tables, handled : Nat, gap : BOOLEAN]
    /\ pc \in {"pump", "drawn"} /\ scene \in {"none", "spawned"}

\* The ring ends with the newest event, and is behind it by its length.
RingEnds ==
    LET p == net.probe
    IN  /\ Len(p.ring) = IF p.seq < RingSize THEN p.seq ELSE RingSize
        /\ \A k \in 1 .. Len(p.ring) : p.ring[k].seq = p.seq - Len(p.ring) + k

Counts ==
    /\ net.probe.seq <= net.rpcs /\ net.rpcs <= MaxEvents
    /\ own.handled <= net.restart /\ net.restart <= MaxRestarts
    /\ own.pool.mark <= MaxEvents
    /\ own.handled = net.restart => own.pool.mark <= net.probe.seq
    /\ pc = "drawn" => own.handled = net.restart /\ own.pool.mark = net.probe.seq

VehiclesInv ==
    /\ Fields /\ RingEnds /\ Counts /\ Sane(own.pool)
    /\ (own.gap => Restarted) => CatchesUp(net.probe, Pool)
=============================================================================
